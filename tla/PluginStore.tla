---- MODULE PluginStore ----
(***************************************************************************)
(* Installing and removing plugins: the store's dependency-aware install,   *)
(* the install of a package file, the removal of a plugin with everything   *)
(* that depends on it, and what the store's buttons show of it.             *)
(*                                                                          *)
(* Every operation runs on a worker thread and changes the directories of   *)
(* plugins/installed; the UI thread starts it, and hears of it through      *)
(* plugin events and through the operation's result.                        *)
(***************************************************************************)
EXTENDS Naturals, Sequences, FiniteSets, SequencesExt

CONSTANTS
    Plugins,   \* plugin identifiers
    Depends,   \* what each plugin's metadata names in depend, in its order
    Catalog,   \* the plugins the repository offers
    Workers,   \* how many operations run at a time, one worker each
    Faults,    \* what may fail: "download" "archive" "locked" "resource" "badzip" "io"
    MaxStarts  \* bound: operations the user starts

ASSUME StoreAssumption ==
    /\ IsFiniteSet(Plugins)
    /\ Depends \in [Plugins -> Seq(Plugins)]
    /\ Catalog \subseteq Plugins
    /\ MaxStarts \in Nat

VARIABLES
    disk,     \* plugins/installed: what each plugin's directory holds
    op,       \* the operation each worker runs
    tasks,    \* PluginStoreOperationState.tasks: installs the store started
    button,   \* what the two buttons of a plugin's card show
    open,     \* the store's window exists
    changed,  \* plugins of the published events the store has not consumed
    results,  \* results posted to the UI thread: <<kind, plugin>>
    harmed,   \* an operation failed half-way: it had changed what is installed
    starts    \* operations started so far

vars == <<disk, op, tasks, button, open, changed, results, harmed, starts>>

(***************************************************************************)
(* The directory of a plugin.  A resource archive is two members, so that   *)
(* an extraction has a middle.                                              *)
(***************************************************************************)
Members == {"first", "rest"}
Directories == SUBSET ({"dir", "info"} \cup Members)

Exists(p) == "dir" \in disk[p]

\* PluginMetadataService.is_installed
IsInstalled(p) == {"dir", "info"} \subseteq disk[p]

\* plugins that depend on p, through any number of installed plugins
Dependents(p) ==
    LET reach[n \in 0 .. Cardinality(Plugins)] ==
            IF n = 0 THEN {p}
            ELSE reach[n - 1] \cup {q \in Plugins : /\ IsInstalled(q)
                                                    /\ Range(Depends[q]) \cap reach[n - 1] # {}}
    IN  reach[Cardinality(Plugins)] \ {p}

\* an order collect_dependent_plugin_ids may return: a plugin is collected
\* because it depends on p or on a plugin collected before it
WalkFrom(p, order) ==
    \A i \in DOMAIN order : \E d \in Range(Depends[order[i]]) :
        d = p \/ \E j \in 1 .. i - 1 : order[j] = d

(***************************************************************************)
(* An operation.  stack is the recursion of install_from_repo: one frame    *)
(* per plugin, with the index of the dependency its loop is at; its ids are *)
(* active_stack.  todo is ordered_ids of uninstall_plugin.  halfway tells    *)
(* that the operation has changed what is installed and is not done with it. *)
(***************************************************************************)
Idle == [kind |-> "idle", stage |-> "none", stack |-> <<>>, todo |-> <<>>, halfway |-> FALSE]
Frame(p) == [plugin |-> p, next |-> 1]
Begin(kind, stage, p) ==
    [kind |-> kind, stage |-> stage, stack |-> <<Frame(p)>>, todo |-> <<>>, halfway |-> FALSE]

Kinds == {"idle", "store", "file", "uninstall"}
Stages == {"none", "depends", "returned", "package", "replace", "resource",
           "first", "rest", "info", "icon", "collect", "remove"}

Top(w) == Last(op[w].stack)
Current(w) == Top(w).plugin
Root(w) == op[w].stack[1].plugin
Active(w) == {op[w].stack[i].plugin : i \in DOMAIN op[w].stack}
At(w, stage) == op[w].stage = stage

Goto(w, stage) == op' = [op EXCEPT ![w].stage = stage]

Init ==
    /\ disk = [p \in Plugins |-> {}]
    /\ op = [w \in Workers |-> Idle]
    /\ tasks = {}
    /\ button = [p \in Plugins |-> "install"]
    /\ open = TRUE
    /\ changed = {}
    /\ results = {}
    /\ harmed = FALSE
    /\ starts = 0

(***************************************************************************)
(* The UI thread starts operations and closes the store.                    *)
(***************************************************************************)
Starting(w, operation) ==
    /\ op[w] = Idle
    /\ starts < MaxStarts
    /\ starts' = starts + 1
    /\ op' = [op EXCEPT ![w] = operation]
    /\ UNCHANGED <<disk, open, changed, results, harmed>>

\* PluginStoreInstallController.start, from an enabled install button
StartInstall(w, p) ==
    /\ open
    /\ p \in Catalog
    /\ button[p] = "install"
    /\ p \notin tasks
    /\ Starting(w, Begin("store", "depends", p))
    /\ tasks' = tasks \cup {p}
    /\ button' = [button EXCEPT ![p] = "installing"]

\* the installer window: a package file, new or of an installed plugin
StartFile(w, p) ==
    /\ Starting(w, Begin("file", "package", p))
    /\ UNCHANGED <<tasks, button>>

\* PluginStoreUninstallController.start, from an enabled uninstall button
StartUninstall(w, p) ==
    /\ open
    /\ button[p] = "installed"
    /\ Starting(w, Begin("uninstall", "collect", p))
    /\ UNCHANGED <<tasks, button>>

CloseStore ==
    /\ open
    /\ open' = FALSE
    /\ UNCHANGED <<disk, op, tasks, button, changed, results, harmed, starts>>

(***************************************************************************)
(* The end of an operation: its result goes to the UI thread, except a      *)
(* package file's, which the store does not hear of.                        *)
(***************************************************************************)
Report(w) ==
    results' = IF op[w].kind = "file" THEN results ELSE results \cup {<<op[w].kind, Root(w)>>}

\* Mutant: a failure is not reported.
FailSilently(w) ==
    /\ op' = [op EXCEPT ![w] = Idle]
    /\ harmed' = (harmed \/ op[w].halfway)
    /\ UNCHANGED <<results, tasks, button, open, changed, starts>>

Fail(w) ==
    /\ op' = [op EXCEPT ![w] = Idle]
    /\ harmed' = (harmed \/ op[w].halfway)
    /\ Report(w)
    /\ UNCHANGED <<tasks, button, open, changed, starts>>

(***************************************************************************)
(* install_from_repo                                                        *)
(***************************************************************************)
OnlyOp == UNCHANGED <<disk, tasks, button, open, changed, results, harmed, starts>>

Dependency(w) == Depends[Current(w)][Top(w).next]
MoreDepends(w) == Top(w).next <= Len(Depends[Current(w)])
NextFrame(w) == [plugin |-> Current(w), next |-> Top(w).next + 1]
Advance(w) ==
    op' = [op EXCEPT ![w].stage = "depends",
                     ![w].stack = [@ EXCEPT ![Len(op[w].stack)] = NextFrame(w)]]

SkipInstalled(w) ==
    /\ At(w, "depends") /\ MoreDepends(w)
    /\ IsInstalled(Dependency(w))
    /\ Advance(w)
    /\ OnlyOp

EnterDependency(w) ==
    /\ At(w, "depends") /\ MoreDepends(w)
    /\ ~IsInstalled(Dependency(w))
    /\ Dependency(w) \in Catalog \ Active(w)
    /\ op' = [op EXCEPT ![w].stack = Append(@, Frame(Dependency(w)))]
    /\ OnlyOp

\* dependency-not-found and dependency-cycle
RefuseDependency(w) ==
    /\ At(w, "depends") /\ MoreDepends(w)
    /\ ~IsInstalled(Dependency(w))
    /\ Dependency(w) \notin Catalog \ Active(w)
    /\ Fail(w)
    /\ UNCHANGED disk

\* the recursive call returned ok; the caller looks for itself
AfterDependency(w) ==
    /\ At(w, "returned")
    /\ \/ IsInstalled(Dependency(w)) /\ Advance(w) /\ OnlyOp
       \/ ~IsInstalled(Dependency(w)) /\ Fail(w) /\ UNCHANGED disk

Download(w) ==
    /\ At(w, "depends") /\ ~MoreDepends(w)
    /\ \/ open /\ Goto(w, "package") /\ OnlyOp
       \/ (~open \/ "download" \in Faults) /\ Fail(w) /\ UNCHANGED disk

(***************************************************************************)
(* PluginInstallService.install                                             *)
(***************************************************************************)
\* Mutant: dependencies are not looked for.
CheckArchiveOnly(w) ==
    /\ At(w, "package")
    /\ \/ Goto(w, "replace") /\ OnlyOp
       \/ "archive" \in Faults /\ Fail(w) /\ UNCHANGED disk

CheckPackage(w) ==
    LET found == \A d \in Range(Depends[Current(w)]) : Exists(d) IN
    /\ At(w, "package")
    /\ \/ found /\ Goto(w, "replace") /\ OnlyOp
       \/ (~found \/ "archive" \in Faults) /\ Fail(w) /\ UNCHANGED disk

RemoveOld(w) ==
    /\ At(w, "replace")
    /\ \/ /\ disk' = [disk EXCEPT ![Current(w)] = {}]
          /\ op' = [op EXCEPT ![w].stage = "resource", ![w].halfway = Exists(Current(w))]
          /\ UNCHANGED <<tasks, button, open, changed, results, harmed, starts>>
       \/ "locked" \in Faults /\ Exists(Current(w)) /\ Fail(w) /\ UNCHANGED disk

\* Mutant: info.json is written before the resource is extracted.
OpenResourceInfoFirst(w) ==
    /\ At(w, "resource")
    /\ \/ /\ disk' = [disk EXCEPT ![Current(w)] = @ \cup {"dir", "info"}]
          /\ Goto(w, "first")
          /\ UNCHANGED <<tasks, button, open, changed, results, harmed, starts>>
       \/ "resource" \in Faults /\ Fail(w) /\ UNCHANGED disk

\* the resource is looked for only now; then the directory is made
OpenResource(w) ==
    /\ At(w, "resource")
    /\ \/ /\ disk' = [disk EXCEPT ![Current(w)] = @ \cup {"dir"}]
          /\ Goto(w, "first")
          /\ UNCHANGED <<tasks, button, open, changed, results, harmed, starts>>
       \/ "resource" \in Faults /\ Fail(w) /\ UNCHANGED disk

\* a bad archive leaves what was extracted, any other error removes it
Extract(w) == \E m \in Members :
    /\ At(w, m)
    /\ \/ /\ disk' = [disk EXCEPT ![Current(w)] = @ \cup {"dir", m}]
          /\ Goto(w, IF m = "first" THEN "rest" ELSE "info")
          /\ UNCHANGED <<tasks, button, open, changed, results, harmed, starts>>
       \/ "badzip" \in Faults /\ Fail(w) /\ UNCHANGED disk
       \/ "io" \in Faults /\ Fail(w) /\ disk' = [disk EXCEPT ![Current(w)] = {}]

WriteInfo(w) ==
    /\ At(w, "info")
    /\ \/ /\ Exists(Current(w))
          /\ disk' = [disk EXCEPT ![Current(w)] = @ \cup {"info"}]
          /\ op' = [op EXCEPT ![w].stage = "icon", ![w].halfway = TRUE]
          /\ UNCHANGED <<tasks, button, open, changed, results, harmed, starts>>
       \/ /\ ~Exists(Current(w)) \/ "io" \in Faults
          /\ Fail(w)
          /\ disk' = [disk EXCEPT ![Current(w)] = {}]

\* the icon, the event, and the return to the caller or to the UI thread
FinishInstall(w) ==
    /\ At(w, "icon")
    /\ changed' = changed \cup {Current(w)}
    /\ IF Len(op[w].stack) = 1
       THEN op' = [op EXCEPT ![w] = Idle] /\ Report(w)
       ELSE /\ op' = [op EXCEPT ![w].stack = Front(@), ![w].stage = "returned",
                                ![w].halfway = FALSE]
            /\ UNCHANGED results
    /\ UNCHANGED <<disk, tasks, button, open, harmed, starts>>

IconFails(w) ==
    /\ At(w, "icon")
    /\ \/ "badzip" \in Faults /\ Fail(w) /\ UNCHANGED disk
       \/ "io" \in Faults /\ Fail(w) /\ disk' = [disk EXCEPT ![Current(w)] = {}]

(***************************************************************************)
(* PluginUninstallService.uninstall_plugin                                  *)
(***************************************************************************)
Collect(w) ==
    /\ At(w, "collect")
    /\ \E order \in SetToSeqs(Dependents(Root(w))) :
          /\ WalkFrom(Root(w), order)
          /\ op' = [op EXCEPT ![w].stage = "remove", ![w].todo = Append(order, Root(w))]
    /\ OnlyOp

RemoveNext(w) ==
    /\ At(w, "remove")
    /\ disk' = [disk EXCEPT ![Head(op[w].todo)] = {}]
    /\ changed' = changed \cup {Head(op[w].todo)}
    /\ IF Len(op[w].todo) = 1
       THEN op' = [op EXCEPT ![w] = Idle] /\ Report(w)
       ELSE /\ op' = [op EXCEPT ![w].todo = Tail(@), ![w].halfway = @ \/ Exists(Head(op[w].todo))]
            /\ UNCHANGED results
    /\ UNCHANGED <<tasks, button, open, harmed, starts>>

RemovalFails(w) ==
    /\ At(w, "remove")
    /\ "locked" \in Faults
    /\ Exists(Head(op[w].todo))
    /\ Fail(w)
    /\ UNCHANGED disk

(***************************************************************************)
(* The UI thread hears of it.                                               *)
(***************************************************************************)
\* PluginStoreStateController.update_plugin_state: ignored by a closed window
Refreshed(ps) ==
    [p \in Plugins |-> IF ~open \/ p \notin ps THEN button[p]
                       ELSE IF IsInstalled(p) THEN "installed" ELSE "install"]

ConsumeEvents ==
    /\ changed # {}
    /\ changed' = {}
    /\ button' = Refreshed(changed)
    /\ UNCHANGED <<disk, op, tasks, open, results, harmed, starts>>

\* Mutant: the card is not refreshed at the end.
FinishOnlyTask(result) ==
    /\ results' = results \ {result}
    /\ tasks' = IF result[1] = "store" THEN tasks \ {result[2]} ELSE tasks
    /\ UNCHANGED <<disk, op, button, open, changed, harmed, starts>>

Finish(result) ==
    /\ results' = results \ {result}
    /\ tasks' = IF result[1] = "store" THEN tasks \ {result[2]} ELSE tasks
    /\ button' = Refreshed({result[2]})
    /\ UNCHANGED <<disk, op, open, changed, harmed, starts>>

WorkerStep(w) ==
    \/ SkipInstalled(w) \/ EnterDependency(w) \/ RefuseDependency(w)
    \/ AfterDependency(w) \/ Download(w) \/ CheckPackage(w) \/ RemoveOld(w)
    \/ OpenResource(w) \/ Extract(w) \/ WriteInfo(w) \/ FinishInstall(w) \/ IconFails(w)
    \/ Collect(w) \/ RemoveNext(w) \/ RemovalFails(w)

UiStep == ConsumeEvents \/ \E result \in results : Finish(result)

UserStep ==
    \/ \E w \in Workers, p \in Plugins :
          StartInstall(w, p) \/ StartFile(w, p) \/ StartUninstall(w, p)
    \/ CloseStore

Next == (\E w \in Workers : WorkerStep(w)) \/ UiStep \/ UserStep

Safety == Init /\ [][Next]_vars

\* a started thread runs and the UI thread keeps calling what is posted to it
Spec == Safety /\ (\A w \in Workers : WF_vars(WorkerStep(w))) /\ WF_vars(UiStep)

----
(***************************************************************************)
(* Properties                                                               *)
(***************************************************************************)
Operations ==
    [kind : Kinds, stage : Stages, stack : Seq([plugin : Plugins, next : Nat]),
     todo : Seq(Plugins), halfway : BOOLEAN]

\* Every variable keeps to its values.
TypeOK ==
    /\ disk \in [Plugins -> Directories]
    /\ op \in [Workers -> Operations]
    /\ tasks \subseteq Plugins
    /\ button \in [Plugins -> {"install", "installing", "installed"}]
    /\ open \in BOOLEAN
    /\ changed \subseteq Plugins
    /\ results \subseteq {"store", "uninstall"} \X Plugins
    /\ harmed \in BOOLEAN
    /\ starts \in 0 .. MaxStarts

AtRest == \A w \in Workers : op[w] = Idle

\* A plugin that counts as installed is installed whole, however an earlier
\* install of it ended: info.json is the last thing an install writes.
InstalledIsWhole == \A p \in Plugins : IsInstalled(p) => Members \subseteq disk[p]

\* When no operation runs, a plugin that is installed finds the directory of
\* every plugin it depends on, unless an operation failed after removing one:
\* installs bring dependencies first and removals take dependents along.
DependenciesKept ==
    AtRest /\ ~harmed =>
        \A p \in Plugins : IsInstalled(p) => \A d \in Range(Depends[p]) : Exists(d)

\* When no operation runs and nothing is left to hear of, the store shows of
\* every plugin whether it is installed, unless an operation failed after
\* removing one.
ButtonsFollowDisk ==
    AtRest /\ open /\ changed = {} /\ results = {} /\ ~harmed =>
        \A p \in Plugins : button[p] = IF IsInstalled(p) THEN "installed" ELSE "install"

\* Every install the store started ends, whatever cycles its catalog has, and
\* the store may start it again.
InstallsEnd == \A p \in Plugins : p \in tasks ~> p \notin tasks

====
