---- MODULE PluginRuntime ----
(***************************************************************************)
(* Running Python and shell plugins: the one background load that registers *)
(* every installed plugin, the runs the user starts, which register what is *)
(* not registered yet, and the installs and removals they meet on disk.     *)
(*                                                                          *)
(* The registry (PluginLoader) is only ever added to.  A registration keeps *)
(* what it has entered when an entry raises, and main.py is executed into   *)
(* the module that an earlier load of the same plugin left behind.  The     *)
(* refreshes that loads and runs publish are events of PluginEvents.        *)
(***************************************************************************)
EXTENDS Naturals, Sequences

CONSTANTS
    Loadable,      \* plugin identifiers
    Requires,      \* the plugins that info.json of each names in depend
    Packages,      \* what a package of a plugin may hold
    RunThreads,    \* runs at a time, one thread each
    MaxPackages,   \* bound: packages unpacked for one plugin
    MaxPluginRuns  \* bound: runs the user starts

Entries == {"main", "before_pack", "packing", "close", "boot"}

\* entrances is the mapping of that name in its order, <<>> if main.py has
\* none; raising names the entries that raise, "module" the file itself
ASSUME RuntimeAssumption ==
    /\ Requires \in [Loadable -> SUBSET Loadable]
    /\ \A k \in Packages : /\ {k.python, k.shell, k.main} \subseteq BOOLEAN
                           /\ k.entrances \in Seq(Entries)
                           /\ k.raising \subseteq Entries \cup {"module"}
    /\ "loader" \notin RunThreads
    /\ MaxPackages \in [Loadable -> Nat]
    /\ MaxPluginRuns \in Nat

VARIABLES
    installed,  \* each plugin's directory: "absent", "part" without info.json, "whole"
    packages,   \* the packages unpacked for each plugin, the one on disk last
    module,     \* sys.modules: which package each attribute comes from, 0 if unset
    registry,   \* PluginLoader.plugins: which package each entry comes from
    thread,     \* what the background load and each run are at
    queue,      \* the plugins the background load has still to register
    listed,     \* the plugins it found
    outcome,    \* how the last run of each thread ended
    pluginRuns  \* runs started so far

runtimeVars == <<installed, packages, module, registry, thread, queue, listed, outcome, pluginRuns>>

Resting == [stage |-> "idle", plugin |-> "none", todo |-> <<>>, from |-> 0,
            shell |-> FALSE, python |-> FALSE]
Threads == RunThreads \cup {"loader"}
In(t, stage) == thread[t].stage = stage
Its(t) == thread[t].plugin
Enter(t, stage) == thread' = [thread EXCEPT ![t].stage = stage]

OnDisk(p) == packages[p][Len(packages[p])]
HasPython(p) == installed[p] # "absent" /\ OnDisk(p).python
HasShell(p) == installed[p] # "absent" /\ OnDisk(p).shell
IsRegistered(p) == \E e \in Entries : registry[p][e] # 0

\* the program starts over what earlier ones have installed
RuntimeInit ==
    /\ installed \in [Loadable -> {"absent", "whole"}]
    /\ packages \in [Loadable -> {<<k>> : k \in Packages} \cup {<<>>}]
    /\ \A p \in Loadable : installed[p] = "whole" <=> packages[p] # <<>>
    /\ module = [p \in Loadable |-> [entrances |-> 0, main |-> 0]]
    /\ registry = [p \in Loadable |-> [e \in Entries |-> 0]]
    /\ thread = [t \in Threads |-> Resting]
    /\ queue = {}
    /\ listed = {}
    /\ outcome = [t \in RunThreads |-> "none"]
    /\ pluginRuns = 0

(***************************************************************************)
(* Installs, upgrades and removals, on threads of their own.                *)
(***************************************************************************)
OnlyDisk == UNCHANGED <<module, registry, thread, queue, listed, outcome, pluginRuns>>

RemoveDirectory(p) ==
    /\ installed[p] # "absent"
    /\ installed' = [installed EXCEPT ![p] = "absent"]
    /\ UNCHANGED packages
    /\ OnlyDisk

UnpackFiles(p) == \E k \in Packages :
    /\ installed[p] = "absent"
    /\ Len(packages[p]) < MaxPackages[p]
    /\ installed' = [installed EXCEPT ![p] = "part"]
    /\ packages' = [packages EXCEPT ![p] = Append(@, k)]
    /\ OnlyDisk

WriteManifest(p) ==
    /\ installed[p] = "part"
    /\ installed' = [installed EXCEPT ![p] = "whole"]
    /\ UNCHANGED packages
    /\ OnlyDisk

(***************************************************************************)
(* PluginGateway._register_plugin, by the background load or by a run.      *)
(* Whatever happens in it, it returns: an exception is logged.              *)
(***************************************************************************)
Same == UNCHANGED <<installed, packages, listed, outcome, pluginRuns>>

Return(t) ==
    /\ thread' = [thread EXCEPT ![t].stage = IF t = "loader" THEN "next" ELSE "invoke",
                                ![t].todo = <<>>, ![t].from = 0]
    /\ UNCHANGED queue

\* Mutant: an exception ends the whole load.
RaiseToCaller(t) ==
    /\ thread' = [thread EXCEPT ![t].stage = IF t = "loader" THEN "next" ELSE "invoke",
                                ![t].todo = <<>>, ![t].from = 0]
    /\ queue' = IF t = "loader" THEN {} ELSE queue

Swallow(t) == Return(t)

\* imp.load_source runs the file into the module of that name
LoadSource(t) ==
    LET p == Its(t) IN
    /\ In(t, "load")
    /\ IF HasPython(p) /\ "module" \notin OnDisk(p).raising
       THEN /\ module' = [module EXCEPT
                    ![p].entrances = IF OnDisk(p).entrances # <<>> THEN Len(packages[p]) ELSE @,
                    ![p].main = IF OnDisk(p).main THEN Len(packages[p]) ELSE @]
            /\ Enter(t, "read")
            /\ UNCHANGED queue
       ELSE Swallow(t) /\ UNCHANGED module
    /\ UNCHANGED registry
    /\ Same

\* entrances, and only without it main
ReadEntries(t) ==
    LET m == module[Its(t)] IN
    /\ In(t, "read")
    /\ \/ /\ m.entrances # 0
          /\ thread' = [thread EXCEPT ![t].stage = "register", ![t].from = m.entrances,
                                      ![t].todo = packages[Its(t)][m.entrances].entrances]
          /\ UNCHANGED queue
       \/ /\ m.entrances = 0 /\ m.main # 0
          /\ thread' = [thread EXCEPT ![t].stage = "register", ![t].from = m.main,
                                      ![t].todo = <<"main">>]
          /\ UNCHANGED queue
       \/ m.entrances = 0 /\ m.main = 0 /\ Return(t)
    /\ UNCHANGED <<module, registry>>
    /\ Same

\* PluginLoader.register enters the callable, and calls it if it is boot
RegisterEntry(t) ==
    LET p == Its(t)
        entry == Head(thread[t].todo)
        raises == entry = "boot" /\ "boot" \in packages[p][thread[t].from].raising
    IN  /\ In(t, "register")
        /\ registry' = [registry EXCEPT ![p][entry] = thread[t].from]
        /\ \/ raises /\ Swallow(t)
           \/ ~raises /\ Len(thread[t].todo) = 1 /\ Return(t)
           \/ /\ ~raises /\ Len(thread[t].todo) > 1
              /\ thread' = [thread EXCEPT ![t].todo = Tail(@)]
              /\ UNCHANGED queue
        /\ UNCHANGED module
        /\ Same

(***************************************************************************)
(* PluginGateway._load_plugins, claimed once by the first plugin window.    *)
(***************************************************************************)
ClaimLoad ==
    /\ In("loader", "idle")
    /\ Enter("loader", "list")
    /\ UNCHANGED <<installed, packages, module, registry, queue, listed, outcome, pluginRuns>>

ListPackages ==
    /\ In("loader", "list")
    /\ queue' = {p \in Loadable : installed[p] = "whole"}
    /\ listed' = queue'
    /\ Enter("loader", "next")
    /\ UNCHANGED <<installed, packages, module, registry, outcome, pluginRuns>>

\* os.listdir gives the plugins in no order
LoadNext ==
    /\ In("loader", "next")
    /\ \/ \E p \in queue :
            /\ queue' = queue \ {p}
            /\ thread' = IF HasPython(p)
                         THEN [thread EXCEPT !["loader"].stage = "load", !["loader"].plugin = p]
                         ELSE thread
       \/ queue = {} /\ Enter("loader", "ended") /\ UNCHANGED queue
    /\ UNCHANGED <<module, registry>>
    /\ Same

(***************************************************************************)
(* PluginManagerController._execute_plugin, on a thread of its own.         *)
(***************************************************************************)
OnlyRun == UNCHANGED <<installed, packages, module, registry, queue, listed>>

\* the plugin manager's window has claimed the load by then
StartRun(t, p) ==
    /\ In(t, "idle")
    /\ ~In("loader", "idle")
    /\ pluginRuns < MaxPluginRuns
    /\ pluginRuns' = pluginRuns + 1
    /\ thread' = [thread EXCEPT ![t] = [Resting EXCEPT !.stage = "inspect", !.plugin = p]]
    /\ outcome' = [outcome EXCEPT ![t] = "none"]
    /\ OnlyRun

EndRun(t, result) ==
    /\ thread' = [thread EXCEPT ![t] = Resting]
    /\ outcome' = [outcome EXCEPT ![t] = result]
    /\ UNCHANGED pluginRuns
    /\ OnlyRun

\* inspect_execution looks for the entries first,
InspectEntries(t) ==
    /\ In(t, "inspect")
    /\ IF installed[Its(t)] = "absent" THEN EndRun(t, "refused")
       ELSE /\ thread' = [thread EXCEPT ![t].stage = "manifest",
                              ![t].shell = HasShell(Its(t)), ![t].python = HasPython(Its(t))]
            /\ UNCHANGED <<outcome, pluginRuns>>
            /\ OnlyRun

\* then reads the manifest; plan_plugin_execution prefers the shell entry,
\* and refuses as well when no project is selected
PlanRun(t) ==
    LET can == /\ installed[Its(t)] = "whole"
               /\ \A d \in Requires[Its(t)] : installed[d] # "absent"
               /\ thread[t].shell \/ thread[t].python
    IN  /\ In(t, "manifest")
        /\ \/ /\ can
              /\ Enter(t, IF thread[t].shell THEN "shell" ELSE "python")
              /\ UNCHANGED <<outcome, pluginRuns>>
              /\ OnlyRun
           \/ EndRun(t, "refused")

RunShell(t) ==
    /\ In(t, "shell")
    /\ EndRun(t, IF HasShell(Its(t)) THEN "ran" ELSE "failed")

\* Mutant: the background load is relied on.
ExecuteRegistered(t) ==
    /\ In(t, "python")
    /\ Enter(t, "invoke")
    /\ UNCHANGED <<outcome, pluginRuns>>
    /\ OnlyRun

\* what is registered, or has no main.py by now, is not loaded
ExecutePython(t) ==
    LET load == ~IsRegistered(Its(t)) /\ HasPython(Its(t)) IN
    /\ In(t, "python")
    /\ Enter(t, IF load THEN "load" ELSE "invoke")
    /\ UNCHANGED <<outcome, pluginRuns>>
    /\ OnlyRun

Invoke(t) ==
    LET serial == registry[Its(t)]["main"] IN
    /\ In(t, "invoke")
    /\ EndRun(t, IF serial = 0 THEN "unregistered"
                 ELSE IF "main" \in packages[Its(t)][serial].raising THEN "failed" ELSE "ran")

Registration(t) == LoadSource(t) \/ ReadEntries(t) \/ RegisterEntry(t)

RuntimeNext ==
    \/ \E p \in Loadable : RemoveDirectory(p) \/ UnpackFiles(p) \/ WriteManifest(p)
    \/ \E t \in Threads : Registration(t)
    \/ ClaimLoad \/ ListPackages \/ LoadNext
    \/ \E t \in RunThreads :
          \/ \E p \in Loadable : StartRun(t, p)
          \/ InspectEntries(t) \/ PlanRun(t) \/ RunShell(t) \/ ExecutePython(t) \/ Invoke(t)

RuntimeSpec == RuntimeInit /\ [][RuntimeNext]_runtimeVars

----
\* A plugin that nobody has removed or replaced since the program started or
\* since it was installed, whose registration raises nothing.
Sound(p) ==
    /\ installed[p] = "whole" /\ Len(packages[p]) = 1
    /\ OnDisk(p).python
    /\ OnDisk(p).raising \cap {"module", "boot"} = {}

\* The entries its main.py defines.
Defined(p) ==
    IF OnDisk(p).entrances # <<>>
    THEN {OnDisk(p).entrances[i] : i \in DOMAIN OnDisk(p).entrances}
    ELSE IF OnDisk(p).main THEN {"main"} ELSE {}

Registering(p) == \E t \in Threads : Its(t) = p /\ thread[t].stage \in {"load", "read", "register"}

\* While no thread is registering it, a sound plugin has every entry it
\* defines in the registry, once the background load has found it and ended,
\* or a run is about to call it, or anything of it is registered: one plugin
\* that cannot be loaded keeps no other from its hooks, and a run never calls
\* a plugin it did not see registered.
SoundIsCallable == \A p \in Loadable :
    /\ Sound(p) /\ ~Registering(p)
    /\ \/ In("loader", "ended") /\ p \in listed
       \/ \E t \in RunThreads : Its(t) = p /\ In(t, "invoke")
       \/ IsRegistered(p)
    => {e \in Entries : registry[p][e] # 0} = Defined(p)
====
