---- MODULE MCPluginStore ----
(***************************************************************************)
(* Constants for TLC.  The store: three plugins in a chain, of which the    *)
(* first one is not offered by the repository, and two that depend on each  *)
(* other.  The plugin runtime: a plugin that is upgraded and one that needs *)
(* it.  One run checks both, each behaviour being one of the two at work.   *)
(***************************************************************************)
EXTENDS PluginStore, PluginRuntime

CONSTANTS base, lib, app, left, right, tool, user

Everything == (base :> <<>>) @@ (lib :> <<base>>) @@ (app :> <<lib, base>>)
              @@ (left :> <<right>>) @@ (right :> <<left>>)
AllPlugins == DOMAIN Everything
Offered == AllPlugins \ {base}

EveryFault == {"download", "archive", "locked", "resource", "badzip", "io"}

Needs == (tool :> {}) @@ (user :> {tool})
Runnable == DOMAIN Needs
Unpacked == (tool :> 2) @@ (user :> 0)

Python(entrances, raising) ==
    [python |-> TRUE, entrances |-> entrances, main |-> FALSE, shell |-> FALSE, raising |-> raising]
Contents ==
    {Python(<<"boot", "main">>, {}), Python(<<"boot", "main">>, {"boot", "main"}),
     [python |-> TRUE, entrances |-> <<>>, main |-> TRUE, shell |-> TRUE, raising |-> {}]}

NothingToRun == RuntimeInit /\ \A p \in Loadable : installed[p] = "absent"

MCInit == Init /\ RuntimeInit
MCNext ==
    \/ NothingToRun /\ Next /\ UNCHANGED runtimeVars
    \/ Init /\ RuntimeNext /\ UNCHANGED vars

MCSpec ==
    /\ MCInit /\ [][MCNext]_<<vars, runtimeVars>>
    /\ \A w \in Workers : WF_vars(WorkerStep(w))
    /\ WF_vars(UiStep)
====
