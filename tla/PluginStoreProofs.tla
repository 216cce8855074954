-------------------------- MODULE PluginStoreProofs --------------------------
(***************************************************************************)
(* What counts as installed is whole, installed plugins find what they      *)
(* depend on and the store's buttons follow the disk, for any plugins,      *)
(* dependencies and catalog, any number of operations and any faults, as    *)
(* long as one operation runs at a time. The recursion of an install never  *)
(* comes to a plugin twice, every variable keeps its type, and an install    *)
(* the store started never loses its end, however many operations run at a   *)
(* time. And once the background load or a run has been over a sound plugin, *)
(* all it defines can be called, for any plugins, any packages and any       *)
(* number of runs.                                                          *)
(***************************************************************************)
EXTENDS PluginStore, PluginRuntime, TLAPS, FiniteSetTheorems, WellFoundedInduction

Fields == {"kind", "stage", "stack", "todo", "halfway"}

\* What the operations and the directories are made of.
Shape ==
    /\ op = [w \in Workers |-> op[w]]
    /\ \A w \in Workers : op[w] = [f \in Fields |-> op[w][f]]
    /\ disk = [p \in Plugins |-> disk[p]]

\* The stages at which the directory of the current plugin is being written.
Writing == {"resource", "first", "rest", "info"}

\* How much of the plugin being installed is in its directory: nothing that would
\* make it count as installed before everything else is there.
Halfway(w) == \A p \in Plugins : p = Current(w) =>
    /\ op[w].stage \in {"resource", "first", "rest"} => "info" \notin disk[p]
    /\ op[w].stage = "rest" => "first" \in disk[p]
    /\ op[w].stage = "info" => Members \subseteq disk[p]

\* InstalledIsWhole alone is not inductive: it does not say that the directory
\* that WriteInfo completes has both members in it.
WholeInv == Shape /\ InstalledIsWhole /\ \A w \in Workers : Halfway(w)

LEMMA WholeInit == Init => WholeInv
<1> SUFFICES ASSUME Init PROVE WholeInv
  OBVIOUS
<1>1. Shape
  BY DEF Init, Shape, Idle, Fields
<1>2. InstalledIsWhole
  BY DEF Init, InstalledIsWhole, IsInstalled
<1>3. \A w \in Workers : op[w].stage = "none"
  BY DEF Init, Idle
<1> QED BY <1>1, <1>2, <1>3 DEF WholeInv, Halfway

------------------------------------------------------------------------------
(* The steps of an operation, by what they do to its stage.                 *)

\* An operation that is given another stage, and the rest of it kept.
LEMMA StageSet ==
    ASSUME Shape, NEW w \in Workers, NEW stage, Goto(w, stage)
    PROVE  /\ op' = [v \in Workers |-> op'[v]]
           /\ \A v \in Workers : op'[v] = [f \in Fields |-> op'[v][f]]
           /\ op'[w].stage = stage
           /\ op'[w].stack = op[w].stack
BY DEF Shape, Goto, Fields

\* The same where the step marks the operation as half-way too.
LEMMA StageSetHalfway ==
    ASSUME Shape, NEW w \in Workers, NEW stage, NEW halfway,
           op' = [op EXCEPT ![w].stage = stage, ![w].halfway = halfway]
    PROVE  /\ op' = [v \in Workers |-> op'[v]]
           /\ \A v \in Workers : op'[v] = [f \in Fields |-> op'[v][f]]
           /\ op'[w].stage = stage
           /\ op'[w].stack = op[w].stack
BY DEF Shape, Fields

\* An operation that ends or fails is at no plugin.
LEMMA OpEnds ==
    ASSUME Shape, NEW w \in Workers, op' = [op EXCEPT ![w] = Idle]
    PROVE  /\ op' = [v \in Workers |-> op'[v]]
           /\ \A v \in Workers : op'[v] = [f \in Fields |-> op'[v][f]]
           /\ op'[w].stage = "none"
BY DEF Shape, Fields, Idle

------------------------------------------------------------------------------
(* The steps of an operation, by what they do to the disk.                  *)

\* A step that ends at no writing stage, and leaves the disk or empties a
\* directory.
LEMMA Quiet ==
    ASSUME WholeInv, NEW w \in Workers, \A v \in Workers : v = w,
           op' = [v \in Workers |-> op'[v]],
           \A v \in Workers : op'[v] = [f \in Fields |-> op'[v][f]],
           op'[w].stage \notin Writing,
           disk' = disk \/ \E p : disk' = [disk EXCEPT ![p] = {}]
    PROVE  WholeInv'
<1>1. Shape'
  BY DEF WholeInv, Shape
<1>2. InstalledIsWhole'
  BY DEF WholeInv, Shape, InstalledIsWhole, IsInstalled
<1>3. \A v \in Workers : Halfway(v)'
  BY DEF Halfway, Writing
<1> QED BY <1>1, <1>2, <1>3 DEF WholeInv

\* A step that goes on with the current plugin, whose directory then has the given
\* content.
LEMMA GoesOn ==
    ASSUME WholeInv, NEW w \in Workers, \A v \in Workers : v = w,
           op' = [v \in Workers |-> op'[v]],
           \A v \in Workers : op'[v] = [f \in Fields |-> op'[v][f]],
           op'[w].stack = op[w].stack,
           NEW content, disk' = [disk EXCEPT ![Current(w)] = content],
           Current(w) \in Plugins =>
             /\ {"dir", "info"} \subseteq content => Members \subseteq content
             /\ op'[w].stage \in {"resource", "first", "rest"} => "info" \notin content
             /\ op'[w].stage = "rest" => "first" \in content
             /\ op'[w].stage = "info" => Members \subseteq content
    PROVE  WholeInv'
<1>1. Shape'
  BY DEF WholeInv, Shape
<1>2. InstalledIsWhole'
  BY DEF WholeInv, Shape, InstalledIsWhole, IsInstalled
<1>3. Current(w)' = Current(w)
  BY DEF Current, Top
<1>4. Halfway(w)'
  BY <1>3 DEF Halfway, WholeInv, Shape
<1> QED BY <1>1, <1>2, <1>4 DEF WholeInv

\* A failing operation leaves the disk or empties the current directory.
LEMMA Failing ==
    ASSUME WholeInv, NEW w \in Workers, \A v \in Workers : v = w, Fail(w),
           disk' = disk \/ disk' = [disk EXCEPT ![Current(w)] = {}]
    PROVE  WholeInv'
<1>1. op' = [op EXCEPT ![w] = Idle]
  BY DEF Fail
<1> QED BY <1>1, OpEnds, Quiet DEF WholeInv, Writing

------------------------------------------------------------------------------
(* One step of an install                                                   *)

\* The recursion over the dependencies writes nothing.
LEMMA DependsStep ==
    ASSUME WholeInv, NEW w \in Workers, \A v \in Workers : v = w,
           \/ SkipInstalled(w) \/ EnterDependency(w) \/ RefuseDependency(w)
           \/ AfterDependency(w) \/ Download(w) \/ Collect(w)
    PROVE  WholeInv'
<1> USE DEF OnlyOp
<1>1. ASSUME Advance(w), disk' = disk PROVE WholeInv'
  <2>1. /\ op' = [v \in Workers |-> op'[v]]
        /\ \A v \in Workers : op'[v] = [f \in Fields |-> op'[v][f]]
        /\ op'[w].stage = "depends"
    BY <1>1 DEF WholeInv, Shape, Advance, Fields
  <2> QED BY <1>1, <2>1, Quiet DEF Writing
<1>2. CASE SkipInstalled(w)
  BY <1>1, <1>2 DEF SkipInstalled
<1>3. CASE EnterDependency(w)
  <2>1. /\ op' = [v \in Workers |-> op'[v]]
        /\ \A v \in Workers : op'[v] = [f \in Fields |-> op'[v][f]]
        /\ op'[w].stage = "depends"
    BY <1>3 DEF WholeInv, Shape, EnterDependency, Fields, At
  <2> QED BY <1>3, <2>1, Quiet DEF EnterDependency, Writing
<1>4. CASE RefuseDependency(w)
  BY <1>4, Failing DEF RefuseDependency
<1>5. CASE AfterDependency(w)
  BY <1>1, <1>5, Failing DEF AfterDependency
<1>6. CASE Download(w)
  <2>1. CASE Goto(w, "package") /\ disk' = disk
    BY <2>1, StageSet, Quiet DEF WholeInv, Writing
  <2> QED BY <1>6, <2>1, Failing DEF Download
<1>7. CASE Collect(w)
  <2>1. /\ op' = [v \in Workers |-> op'[v]]
        /\ \A v \in Workers : op'[v] = [f \in Fields |-> op'[v][f]]
        /\ op'[w].stage = "remove"
    BY <1>7, ZenonT(60) DEF WholeInv, Shape, Collect, Fields
  <2> QED BY <1>7, <2>1, Quiet DEF Collect, Writing
<1> QED BY <1>2, <1>3, <1>4, <1>5, <1>6, <1>7

\* The directory of a plugin is emptied, made, filled and completed.
LEMMA PackageStep ==
    ASSUME WholeInv, NEW w \in Workers, \A v \in Workers : v = w,
           CheckPackage(w) \/ RemoveOld(w) \/ OpenResource(w) \/ Extract(w) \/ WriteInfo(w)
    PROVE  WholeInv'
<1> DEFINE q == Current(w)
<1> USE DEF OnlyOp
<1>1. Shape /\ Halfway(w)
  BY DEF WholeInv
<1>2. CASE CheckPackage(w)
  <2>1. CASE Goto(w, "replace") /\ disk' = disk
    BY <1>1, <2>1, StageSet, Quiet DEF Writing
  <2> QED BY <1>2, <2>1, Failing DEF CheckPackage
<1>3. CASE RemoveOld(w)
  <2>1. CASE Fail(w) /\ UNCHANGED disk
    BY <2>1, Failing
  <2>2. CASE /\ disk' = [disk EXCEPT ![q] = {}]
             /\ op' = [op EXCEPT ![w].stage = "resource", ![w].halfway = Exists(q)]
    <3>1. /\ op' = [v \in Workers |-> op'[v]]
          /\ \A v \in Workers : op'[v] = [f \in Fields |-> op'[v][f]]
          /\ op'[w].stage = "resource"
          /\ op'[w].stack = op[w].stack
      BY <1>1, <2>2, StageSetHalfway
    <3> QED BY <2>2, <3>1, GoesOn
  <2> QED BY <1>3, <2>1, <2>2, Zenon DEF RemoveOld
<1>4. CASE OpenResource(w)
  <2>1. CASE Goto(w, "first") /\ disk' = [disk EXCEPT ![q] = @ \cup {"dir"}]
    <3>1. q \in Plugins => "info" \notin disk[q]
      BY <1>1, <1>4 DEF Halfway, OpenResource, At
    <3>2. disk' = [disk EXCEPT ![q] = disk[q] \cup {"dir"}]
      BY <2>1
    <3>3. /\ op' = [v \in Workers |-> op'[v]]
          /\ \A v \in Workers : op'[v] = [f \in Fields |-> op'[v][f]]
          /\ op'[w].stage = "first"
          /\ op'[w].stack = op[w].stack
      BY <1>1, <2>1, StageSet
    <3>4. q \in Plugins => "info" \notin disk[q] \cup {"dir"}
      BY <3>1
    <3> QED BY <3>2, <3>3, <3>4, GoesOn
  <2> QED BY <1>4, <2>1, Failing DEF OpenResource
<1>5. CASE Extract(w)
  <2> PICK m \in Members :
        /\ At(w, m)
        /\ \/ /\ disk' = [disk EXCEPT ![q] = @ \cup {"dir", m}]
              /\ Goto(w, IF m = "first" THEN "rest" ELSE "info")
           \/ Fail(w) /\ (disk' = disk \/ disk' = [disk EXCEPT ![q] = {}])
    BY <1>5 DEF Extract
  <2>1. CASE /\ disk' = [disk EXCEPT ![q] = @ \cup {"dir", m}]
             /\ Goto(w, IF m = "first" THEN "rest" ELSE "info")
    <3> DEFINE stage == IF m = "first" THEN "rest" ELSE "info"
    <3>1. /\ op' = [v \in Workers |-> op'[v]]
          /\ \A v \in Workers : op'[v] = [f \in Fields |-> op'[v][f]]
          /\ op'[w].stage = stage
          /\ op'[w].stack = op[w].stack
      BY <1>1, <2>1, StageSet
    <3>2. q \in Plugins => /\ "info" \notin disk[q]
                           /\ m = "rest" => "first" \in disk[q]
      BY <1>1 DEF Halfway, At, Members
    <3>3. disk' = [disk EXCEPT ![q] = disk[q] \cup {"dir", m}]
      BY <2>1
    <3>4. q \in Plugins =>
            /\ "info" \notin disk[q] \cup {"dir", m}
            /\ stage = "rest" => "first" \in disk[q] \cup {"dir", m}
            /\ stage = "info" => Members \subseteq disk[q] \cup {"dir", m}
      BY <3>2 DEF Members
    <3> QED BY <3>1, <3>3, <3>4, GoesOn
  <2> QED BY <2>1, Failing
<1>6. CASE WriteInfo(w)
  <2>1. CASE /\ disk' = [disk EXCEPT ![q] = @ \cup {"info"}]
             /\ op' = [op EXCEPT ![w].stage = "icon", ![w].halfway = TRUE]
    <3>1. /\ op' = [v \in Workers |-> op'[v]]
          /\ \A v \in Workers : op'[v] = [f \in Fields |-> op'[v][f]]
          /\ op'[w].stage = "icon"
          /\ op'[w].stack = op[w].stack
      BY <1>1, <2>1, StageSetHalfway
    <3>2. q \in Plugins => Members \subseteq disk[q]
      BY <1>1, <1>6 DEF Halfway, WriteInfo, At
    <3>3. disk' = [disk EXCEPT ![q] = disk[q] \cup {"info"}]
      BY <2>1
    <3> QED BY <3>1, <3>2, <3>3, GoesOn
  <2>2. CASE Fail(w) /\ disk' = [disk EXCEPT ![q] = {}]
    BY <2>2, Failing
  <2> QED BY <1>6, <2>1, <2>2, Zenon DEF WriteInfo
<1> QED BY <1>2, <1>3, <1>4, <1>5, <1>6

\* A removal that goes on keeps its stage.
LEMMA RemovalFields ==
    ASSUME Shape, NEW w \in Workers, NEW todo, NEW halfway,
           op' = [op EXCEPT ![w].todo = todo, ![w].halfway = halfway]
    PROVE  /\ op' = [v \in Workers |-> op'[v]]
           /\ \A v \in Workers : op'[v] = [f \in Fields |-> op'[v][f]]
           /\ op'[w].stage = op[w].stage
BY DEF Shape, Fields

\* The end of an install, and the removal of a plugin with its dependents.
LEMMA EndStep ==
    ASSUME WholeInv, NEW w \in Workers, \A v \in Workers : v = w,
           FinishInstall(w) \/ IconFails(w) \/ RemoveNext(w) \/ RemovalFails(w)
    PROVE  WholeInv'
<1>1. Shape
  BY DEF WholeInv
<1>2. ASSUME op' = [op EXCEPT ![w] = Idle],
             disk' = disk \/ \E p : disk' = [disk EXCEPT ![p] = {}]
      PROVE  WholeInv'
  BY <1>1, <1>2, OpEnds, Quiet DEF Writing
<1>3. CASE FinishInstall(w)
  <2>1. CASE Len(op[w].stack) = 1
    BY <1>2, <1>3, <2>1, Zenon DEF FinishInstall
  <2>2. CASE Len(op[w].stack) # 1
    <3>1. op' = [op EXCEPT ![w].stack = Front(@), ![w].stage = "returned",
                           ![w].halfway = FALSE]
      BY <1>3, <2>2, Zenon DEF FinishInstall
    <3>2. /\ op' = [v \in Workers |-> op'[v]]
          /\ \A v \in Workers : op'[v] = [f \in Fields |-> op'[v][f]]
          /\ op'[w].stage = "returned"
      BY <1>1, <3>1 DEF Shape, Fields
    <3> QED BY <1>3, <3>2, Quiet DEF FinishInstall, Writing
  <2> QED BY <2>1, <2>2
<1>4. CASE IconFails(w)
  BY <1>4, Failing DEF IconFails
<1>5. CASE RemoveNext(w)
  <2>1. CASE Len(op[w].todo) = 1
    BY <1>2, <1>5, <2>1, Zenon DEF RemoveNext
  <2>2. CASE Len(op[w].todo) # 1
    <3>1. PICK todo, halfway : op' = [op EXCEPT ![w].todo = todo, ![w].halfway = halfway]
      BY <1>5, <2>2, Zenon DEF RemoveNext
    <3>2. /\ op' = [v \in Workers |-> op'[v]]
          /\ \A v \in Workers : op'[v] = [f \in Fields |-> op'[v][f]]
          /\ op'[w].stage = op[w].stage
      BY <1>1, <3>1, RemovalFields, Zenon
    <3>3. disk' = disk \/ \E p : disk' = [disk EXCEPT ![p] = {}]
      BY <1>5 DEF RemoveNext
    <3>4. op'[w].stage \notin Writing
      BY <1>5, <3>2 DEF RemoveNext, Writing, At
    <3> QED BY <3>2, <3>3, <3>4, Quiet
  <2> QED BY <2>1, <2>2
<1>6. CASE RemovalFails(w)
  BY <1>6, Failing DEF RemovalFails
<1> QED BY <1>3, <1>4, <1>5, <1>6

------------------------------------------------------------------------------
\* The UI thread writes no directory, and starts an operation before its first
\* writing stage.
LEMMA ScreenStep ==
    ASSUME WholeInv, \A v, w \in Workers : v = w, UiStep \/ UserStep \/ UNCHANGED vars
    PROVE  WholeInv'
<1>1. CASE UNCHANGED <<disk, op>>
  BY <1>1 DEF WholeInv, Shape, InstalledIsWhole, IsInstalled, Halfway, Current, Top
<1>2. ASSUME NEW w \in Workers, NEW kind, NEW stage \in Stages \ Writing, NEW p \in Plugins,
             Starting(w, Begin(kind, stage, p))
      PROVE  WholeInv'
  <2>1. /\ op' = [v \in Workers |-> op'[v]]
        /\ \A v \in Workers : op'[v] = [f \in Fields |-> op'[v][f]]
        /\ op'[w].stage = stage
    BY <1>2 DEF WholeInv, Shape, Starting, Begin, Fields
  <2> QED BY <1>2, <2>1, Quiet DEF Starting
<1>3. ASSUME NEW w \in Workers, NEW p \in Plugins,
             StartInstall(w, p) \/ StartFile(w, p) \/ StartUninstall(w, p)
      PROVE  WholeInv'
  BY <1>2, <1>3 DEF StartInstall, StartFile, StartUninstall, Stages, Writing
<1> QED BY <1>1, <1>3 DEF UiStep, UserStep, ConsumeEvents, Finish, CloseStore, vars

\* With one operation at a time, a plugin that counts as installed has all its
\* files, wherever an install or a removal failed before.
THEOREM InstalledPluginsAreWhole ==
    ASSUME \A v, w \in Workers : v = w
    PROVE  Safety => []InstalledIsWhole
<1>1. WholeInv /\ [Next]_vars => WholeInv'
  <2> SUFFICES ASSUME WholeInv, [Next]_vars PROVE WholeInv'
    OBVIOUS
  <2>1. ASSUME NEW w \in Workers, WorkerStep(w) PROVE WholeInv'
    BY <2>1, DependsStep, PackageStep, EndStep DEF WorkerStep
  <2> QED BY <2>1, ScreenStep DEF Next
<1>2. WholeInv => InstalledIsWhole
  BY DEF WholeInv
<1> QED BY <1>1, <1>2, WholeInit, PTL DEF Safety

------------------------------------------------------------------------------
(* The registry of a sound plugin.                                          *)

Registered(p) == {e \in Entries : registry[p][e] # 0}
EntriesIn(s) == {s[i] : i \in 1 .. Len(s)}

\* The first package of p is on its way to the disk or not even that.
NeverWhole(p) == Len(packages[p]) = 0 \/ (Len(packages[p]) = 1 /\ installed[p] = "part")

AtPlugin(t, p) == thread[t].plugin = p
RegisteringBy(t, p) == AtPlugin(t, p) /\ thread[t].stage \in {"load", "read", "register"}
Using(t, p) == AtPlugin(t, p) /\ thread[t].stage \in {"load", "read", "register", "python", "shell", "invoke"}

\* Its module has been given nothing.
Blank(p) == module[p].entrances = 0 /\ module[p].main = 0

\* Nobody has met a plugin that was never whole.
Untouched(p) ==
    /\ \A e \in Entries : registry[p][e] = 0
    /\ Blank(p)
    /\ p \notin listed /\ p \notin queue
    /\ \A t \in Threads : ~Using(t, p)

\* What main.py of the plugin leaves in its module.
Filled(p) ==
    /\ module[p].entrances = (IF OnDisk(p).entrances # <<>> THEN 1 ELSE 0)
    /\ module[p].main = (IF OnDisk(p).main THEN 1 ELSE 0)

Complete(p) == Registering(p) \/ Registered(p) = Defined(p)

\* A thread that registers the plugin has the entries before it that are not in
\* the registry yet, and one that is about to call it finds it complete.
OnTrack(t, p) ==
    /\ thread[t].stage = "read" => Filled(p)
    /\ thread[t].stage = "register" =>
         /\ thread[t].from = 1
         /\ thread[t].todo \in Seq(Entries) /\ thread[t].todo # <<>>
         /\ EntriesIn(thread[t].todo) \subseteq Defined(p)
         /\ Defined(p) \subseteq Registered(p) \cup EntriesIn(thread[t].todo)
    /\ t \in RunThreads /\ thread[t].stage = "invoke" => Complete(p)

\* A sound plugin: its module is empty or filled, its threads are on track, and
\* where it is relied on it is complete.
Consistent(p) ==
    /\ Blank(p) \/ Filled(p)
    /\ Registered(p) \subseteq Defined(p)
    /\ \A t \in Threads : AtPlugin(t, p) => OnTrack(t, p)
    /\ Registered(p) # {} => Complete(p)
    /\ p \in listed => p \in queue \/ Complete(p)

ThreadFields == {"stage", "plugin", "todo", "from", "shell", "python"}

ThreadShape(f) == /\ f = [t \in Threads |-> f[t]]
                  /\ \A t \in Threads : f[t] = [g \in ThreadFields |-> f[t][g]]

RuntimeShape ==
    /\ packages \in [Loadable -> Seq(Packages)]
    /\ installed \in [Loadable -> {"absent", "part", "whole"}]
    /\ \A p \in Loadable : installed[p] # "absent" => packages[p] # <<>>
    /\ DOMAIN module = Loadable /\ \A p \in Loadable : DOMAIN module[p] = {"entrances", "main"}
    /\ DOMAIN registry = Loadable /\ \A p \in Loadable : DOMAIN registry[p] = Entries
    /\ ThreadShape(thread)
    /\ queue \subseteq Loadable
    /\ thread["loader"].stage = "ended" => queue = {}

Ready(p) == (NeverWhole(p) => Untouched(p)) /\ (Sound(p) => Consistent(p))

RuntimeInv == RuntimeShape /\ \A p \in Loadable : Ready(p)


LEMMA RuntimeInvInit == RuntimeInit => RuntimeInv
<1> SUFFICES ASSUME RuntimeInit PROVE RuntimeInv
  OBVIOUS
<1> USE RuntimeAssumption
<1>1. packages \in [Loadable -> Seq(Packages)]
  <2>1. <<>> \in Seq(Packages) /\ \A k \in Packages : <<k>> \in Seq(Packages)
    OBVIOUS
  <2>2. {<<k>> : k \in Packages} \cup {<<>>} \subseteq Seq(Packages)
    BY <2>1
  <2> QED BY <2>2 DEF RuntimeInit
<1>2. RuntimeShape
  BY <1>1 DEF RuntimeInit, RuntimeShape, ThreadShape, ThreadFields, Threads, Resting
<1>3. ASSUME NEW p \in Loadable PROVE Ready(p)
  <2>1. /\ \A e \in Entries : registry[p][e] = 0
        /\ module[p].entrances = 0 /\ module[p].main = 0
        /\ p \notin listed /\ p \notin queue
        /\ \A t \in Threads : thread[t].stage = "idle"
    BY DEF RuntimeInit, Threads, Resting
  <2>2. Untouched(p)
    BY <2>1 DEF Untouched, Blank, Using
  <2>3. Consistent(p)
    BY <2>1 DEF Consistent, Blank, OnTrack, Registered
  <2> QED BY <2>2, <2>3 DEF Ready
<1> QED BY <1>2, <1>3 DEF RuntimeInv

\* The directory, the module and the entries of p stay as they are.
Still(p) == /\ installed'[p] = installed[p] /\ packages'[p] = packages[p]
            /\ module'[p] = module[p] /\ registry'[p] = registry[p]

\* A step that leaves p alone: what a thread does meanwhile is not a registration
\* of p and does not lead to a call of it.
LEMMA ReadyUnmoved ==
    ASSUME NEW p \in Loadable, Ready(p), Still(p), listed' = listed,
           p \in queue <=> p \in queue',
           \A t \in Threads :
             \/ thread'[t] = thread[t]
             \/ /\ ~RegisteringBy(t, p) /\ ~RegisteringBy(t, p)'
                /\ thread'[t].plugin = p => thread'[t].stage # "invoke"
                /\ NeverWhole(p) => ~Using(t, p)'
    PROVE  Ready(p)'
<1>1. /\ OnDisk(p)' = OnDisk(p) /\ (Sound(p)' <=> Sound(p)) /\ Defined(p)' = Defined(p)
      /\ (NeverWhole(p)' <=> NeverWhole(p)) /\ Registered(p)' = Registered(p)
      /\ (Filled(p)' <=> Filled(p))
  BY DEF Still, OnDisk, Sound, Defined, NeverWhole, Registered, Filled
<1>2. ASSUME NeverWhole(p) PROVE Untouched(p)'
  <2>1. Untouched(p)
    BY <1>2 DEF Ready
  <2>2. \A t \in Threads : ~Using(t, p)'
    BY <1>2, <2>1 DEF Untouched, Blank, Using, AtPlugin
  <2> QED BY <2>1, <2>2 DEF Untouched, Still, Blank
<1>3. ASSUME Sound(p) PROVE Consistent(p)'
  <2>1. Consistent(p)
    BY <1>3 DEF Ready
  <2>2. \A t \in Threads : RegisteringBy(t, p) => thread'[t] = thread[t]
    OBVIOUS
  <2>3. Complete(p) => Complete(p)'
    BY <1>1, <2>2 DEF Complete, Registering, RegisteringBy, AtPlugin, Its
  <2>4. ASSUME NEW t \in Threads, AtPlugin(t, p)' PROVE OnTrack(t, p)'
    <3>1. CASE thread'[t] = thread[t]
      <4>1. AtPlugin(t, p)
        BY <2>4, <3>1 DEF AtPlugin
      <4> QED BY <1>1, <2>1, <2>3, <3>1, <4>1 DEF Consistent, OnTrack, EntriesIn
    <3>2. CASE thread'[t] # thread[t]
      BY <2>4, <3>2 DEF RegisteringBy, AtPlugin, OnTrack
    <3> QED BY <3>1, <3>2
  <2>5. (Blank(p) \/ Filled(p))'
    BY <1>1, <2>1 DEF Consistent, Still, Blank
  <2>6. (p \in listed => p \in queue \/ Complete(p))'
    BY <2>1, <2>3 DEF Consistent
  <2>7. (Registered(p) # {} => Complete(p))' /\ Registered(p)' \subseteq Defined(p)'
    BY <1>1, <2>1, <2>3 DEF Consistent
  <2> QED BY <2>4, <2>5, <2>6, <2>7 DEF Consistent
<1> QED BY <1>1, <1>2, <1>3 DEF Ready

LEMMA RuntimeShapeStep == RuntimeInv /\ RuntimeNext => RuntimeShape'
<1> SUFFICES ASSUME RuntimeInv, RuntimeNext PROVE RuntimeShape'
  OBVIOUS
<1> USE RuntimeAssumption
<1>1. RuntimeShape
  BY DEF RuntimeInv
<1>2. ASSUME NEW p \in Loadable, RemoveDirectory(p) \/ UnpackFiles(p) \/ WriteManifest(p)
      PROVE  RuntimeShape'
  <2>1. packages' \in [Loadable -> Seq(Packages)]
    <3>1. \A k \in Packages : Append(packages[p], k) \in Seq(Packages)
      BY <1>1 DEF RuntimeShape
    <3>2. CASE packages' = packages
      BY <1>1, <3>2 DEF RuntimeShape
    <3>3. ASSUME NEW k \in Packages, packages' = [packages EXCEPT ![p] = Append(@, k)]
          PROVE  packages' \in [Loadable -> Seq(Packages)]
      BY <1>1, <3>1, <3>3 DEF RuntimeShape
    <3> QED BY <1>2, <3>2, <3>3 DEF RemoveDirectory, UnpackFiles, WriteManifest
  <2>2. installed' \in [Loadable -> {"absent", "part", "whole"}]
    BY <1>1, <1>2 DEF RemoveDirectory, UnpackFiles, WriteManifest, RuntimeShape
  <2>3. \A q \in Loadable : installed'[q] # "absent" => packages'[q] # <<>>
    <3>1. \A k \in Packages : Append(packages[p], k) # <<>>
      <4> TAKE k \in Packages
      <4>1. packages[p] \in Seq(Packages)
        BY <1>1 DEF RuntimeShape
      <4>2. Len(Append(packages[p], k)) = Len(packages[p]) + 1 /\ Len(packages[p]) \in Nat
        BY <4>1
      <4> QED BY <4>2
    <3> QED BY <1>1, <1>2, <3>1 DEF RemoveDirectory, UnpackFiles, WriteManifest, RuntimeShape
  <2>4. UNCHANGED <<module, registry, thread, queue>>
    BY <1>2 DEF RemoveDirectory, UnpackFiles, WriteManifest, OnlyDisk
  <2> QED BY <1>1, <2>1, <2>2, <2>3, <2>4 DEF RuntimeShape
<1>3. ASSUME UNCHANGED <<installed, packages>>,
             module' = module \/ \E p, m1, m2 : module' = [module EXCEPT ![p].entrances = m1, ![p].main = m2],
             registry' = registry \/ \E p, e, n : registry' = [registry EXCEPT ![p][e] = n],
             ThreadShape(thread'), queue' \subseteq Loadable,
             thread'["loader"].stage = "ended" => queue' = {}
      PROVE  RuntimeShape'
  <2>1. DOMAIN module' = Loadable /\ \A p \in Loadable : DOMAIN module'[p] = {"entrances", "main"}
    <3>1. ASSUME NEW p, NEW m1, NEW m2, module' = [module EXCEPT ![p].entrances = m1, ![p].main = m2]
          PROVE  DOMAIN module' = Loadable /\ \A q \in Loadable : DOMAIN module'[q] = {"entrances", "main"}
      BY <1>1, <3>1 DEF RuntimeShape
    <3>2. CASE module' = module
      BY <1>1, <3>2 DEF RuntimeShape
    <3> QED BY <1>3, <3>1, <3>2
  <2>2. DOMAIN registry' = Loadable /\ \A p \in Loadable : DOMAIN registry'[p] = Entries
    <3>1. ASSUME NEW p, NEW e, NEW n, registry' = [registry EXCEPT ![p][e] = n]
          PROVE  DOMAIN registry' = Loadable /\ \A q \in Loadable : DOMAIN registry'[q] = Entries
      BY <1>1, <3>1 DEF RuntimeShape
    <3>2. CASE registry' = registry
      BY <1>1, <3>2 DEF RuntimeShape
    <3> QED BY <1>3, <3>1, <3>2
  <2> QED BY <1>1, <1>3, <2>1, <2>2 DEF RuntimeShape
<1>4. ThreadShape(thread')
  <2>1. ThreadShape(thread)
    BY <1>1 DEF RuntimeShape
  <2>2. ASSUME NEW t, thread' = [thread EXCEPT ![t] = Resting] PROVE ThreadShape(thread')
    BY <2>1, <2>2 DEF ThreadShape, Resting, ThreadFields
  <2>3. ASSUME NEW t, NEW x, Enter(t, x) PROVE ThreadShape(thread')
    BY <2>1, <2>3 DEF ThreadShape, Enter, ThreadFields
  <2>4. ASSUME NEW t, Return(t) PROVE ThreadShape(thread')
    <3> DEFINE s == IF t = "loader" THEN "next" ELSE "invoke"
    <3>1. thread' = [thread EXCEPT ![t].stage = s, ![t].todo = <<>>, ![t].from = 0]
      BY <2>4 DEF Return
    <3> HIDE DEF s
    <3> QED BY <2>1, <3>1 DEF ThreadShape, ThreadFields
  <2>5. ASSUME NEW t, NEW a, NEW b, NEW c,
               thread' = [thread EXCEPT ![t].stage = a, ![t].from = b, ![t].todo = c]
        PROVE ThreadShape(thread')
    BY <2>1, <2>5 DEF ThreadShape, ThreadFields
  <2>6. ASSUME NEW t \in Threads, LoadSource(t) \/ ReadEntries(t) PROVE ThreadShape(thread')
    <3>1. CASE LoadSource(t)
      BY <2>3, <2>4, <3>1 DEF LoadSource, Swallow
    <3>2. CASE ReadEntries(t)
      <4>1. \/ Return(t)
            \/ \E b, c : thread' = [thread EXCEPT ![t].stage = "register", ![t].from = b, ![t].todo = c]
        BY <3>2, Zenon DEF ReadEntries
      <4>2. ASSUME NEW b, NEW c, thread' = [thread EXCEPT ![t].stage = "register", ![t].from = b, ![t].todo = c]
            PROVE  ThreadShape(thread')
        BY <2>1, <4>2 DEF ThreadShape, ThreadFields
      <4> HIDE DEF ThreadShape
      <4> QED BY <2>4, <4>1, <4>2
    <3> QED BY <2>6, <3>1, <3>2
  <2>7. ASSUME NEW t \in Threads, RegisterEntry(t) PROVE ThreadShape(thread')
    <3>1. CASE thread' = [thread EXCEPT ![t].todo = Tail(@)]
      BY <2>1, <3>1 DEF ThreadShape, ThreadFields
    <3> QED BY <2>4, <2>7, <3>1 DEF RegisterEntry, Swallow
  <2>8. CASE ClaimLoad \/ ListPackages \/ LoadNext
    <3>1. ASSUME NEW p, thread' = [thread EXCEPT !["loader"].stage = "load", !["loader"].plugin = p]
          PROVE ThreadShape(thread')
      BY <2>1, <3>1 DEF ThreadShape, ThreadFields
    <3> QED BY <2>1, <2>3, <2>8, <3>1 DEF ClaimLoad, ListPackages, LoadNext
  <2>9. ASSUME NEW t \in RunThreads, NEW p \in Loadable, StartRun(t, p) PROVE ThreadShape(thread')
    <3>1. thread' = [thread EXCEPT ![t] = [Resting EXCEPT !.stage = "inspect", !.plugin = p]]
      BY <2>9 DEF StartRun
    <3> QED BY <2>1, <3>1 DEF ThreadShape, Resting, ThreadFields
  <2>10. ASSUME NEW t \in RunThreads, InspectEntries(t) PROVE ThreadShape(thread')
    <3>1. CASE installed[Its(t)] = "absent"
      BY <2>2, <2>10, <3>1 DEF InspectEntries, EndRun
    <3>2. CASE installed[Its(t)] # "absent"
      <4>1. \E a, b : thread' = [thread EXCEPT ![t].stage = "manifest", ![t].shell = a, ![t].python = b]
        BY <2>10, <3>2 DEF InspectEntries
      <4>2. ASSUME NEW a, NEW b,
                   thread' = [thread EXCEPT ![t].stage = "manifest", ![t].shell = a, ![t].python = b]
            PROVE  ThreadShape(thread')
        BY <2>1, <4>2 DEF ThreadShape, ThreadFields
      <4> QED BY <4>1, <4>2
    <3> QED BY <3>1, <3>2
  <2>11. ASSUME NEW t \in RunThreads, PlanRun(t) \/ RunShell(t) \/ ExecutePython(t) \/ Invoke(t)
         PROVE  ThreadShape(thread')
    BY <2>2, <2>3, <2>11 DEF PlanRun, RunShell, ExecutePython, Invoke, EndRun
  <2>12. ASSUME NEW p \in Loadable, RemoveDirectory(p) \/ UnpackFiles(p) \/ WriteManifest(p)
         PROVE  ThreadShape(thread')
    BY <2>1, <2>12 DEF RemoveDirectory, UnpackFiles, WriteManifest, OnlyDisk
  <2> QED BY <2>6, <2>7, <2>8, <2>9, <2>10, <2>11, <2>12 DEF RuntimeNext, Registration
<1>5. ASSUME NEW t \in Threads, Registration(t) PROVE RuntimeShape'
  <2>1. /\ UNCHANGED <<installed, packages, queue>>
        /\ thread[t].stage # "ended"
        /\ \A u \in Threads : u # t => thread'[u] = thread[u]
        /\ thread'[t].stage # "ended"
    <3>1. ASSUME Return(t)
          PROVE /\ UNCHANGED queue /\ thread'[t].stage # "ended"
                /\ \A u \in Threads : u # t => thread'[u] = thread[u]
      BY <1>1, <3>1 DEF Return, RuntimeShape, ThreadShape, ThreadFields
    <3>2. CASE LoadSource(t)
      BY <1>1, <3>1, <3>2 DEF LoadSource, Swallow, Same, Enter, In, RuntimeShape, ThreadShape, ThreadFields
    <3>3. CASE ReadEntries(t)
      BY <1>1, <3>1, <3>3 DEF ReadEntries, Same, In, RuntimeShape, ThreadShape, ThreadFields
    <3>4. CASE RegisterEntry(t)
      <4>1. CASE thread' = [thread EXCEPT ![t].todo = Tail(@)] /\ UNCHANGED queue
        BY <1>1, <3>4, <4>1 DEF RegisterEntry, Same, In, RuntimeShape, ThreadShape, ThreadFields
      <4>2. CASE Return(t)
        BY <3>1, <3>4, <4>2 DEF RegisterEntry, Same, In
      <4> QED BY <3>4, <4>1, <4>2 DEF RegisterEntry, Swallow
    <3> QED BY <1>5, <3>2, <3>3, <3>4 DEF Registration
  <2>2. module' = module \/ \E p, m1, m2 : module' = [module EXCEPT ![p].entrances = m1, ![p].main = m2]
    <3>1. CASE LoadSource(t)
      BY <3>1 DEF LoadSource
    <3>2. CASE ReadEntries(t) \/ RegisterEntry(t)
      BY <3>2 DEF ReadEntries, RegisterEntry
    <3> QED BY <1>5, <3>1, <3>2 DEF Registration
  <2>3. registry' = registry \/ \E p, e, n : registry' = [registry EXCEPT ![p][e] = n]
    BY <1>5 DEF Registration, LoadSource, ReadEntries, RegisterEntry
  <2>4. queue' \subseteq Loadable /\ (thread'["loader"].stage = "ended" => queue' = {})
    BY <1>1, <2>1 DEF RuntimeShape, Threads
  <2> QED BY <1>3, <1>4, <2>1, <2>2, <2>3, <2>4
<1>6. CASE ClaimLoad \/ ListPackages \/ LoadNext
  <2>1. UNCHANGED <<installed, packages, module, registry>>
    BY <1>6 DEF ClaimLoad, ListPackages, LoadNext, Same
  <2>2. queue' \subseteq Loadable /\ (thread'["loader"].stage = "ended" => queue' = {})
    <3>1. thread["loader"].stage # "ended" /\ queue \subseteq Loadable /\ ThreadShape(thread) /\ "loader" \in Threads
      BY <1>1, <1>6 DEF ClaimLoad, ListPackages, LoadNext, In, RuntimeShape, Threads
    <3>2. CASE ClaimLoad \/ ListPackages
      BY <3>1, <3>2 DEF ClaimLoad, ListPackages, Enter, ThreadShape, ThreadFields
    <3>3. CASE LoadNext
      <4>1. CASE queue = {} /\ UNCHANGED queue
        BY <4>1
      <4>2. ASSUME NEW p \in queue, queue' = queue \ {p},
                   thread' = IF HasPython(p)
                             THEN [thread EXCEPT !["loader"].stage = "load", !["loader"].plugin = p]
                             ELSE thread
            PROVE  queue' \subseteq Loadable /\ thread'["loader"].stage # "ended"
        BY <3>1, <4>2 DEF ThreadShape, ThreadFields
      <4> QED BY <3>3, <4>1, <4>2, <3>1 DEF LoadNext
    <3> QED BY <1>6, <3>2, <3>3
  <2> QED BY <1>3, <1>4, <2>1, <2>2
<1>7. ASSUME NEW t \in RunThreads,
             \/ \E p \in Loadable : StartRun(t, p)
             \/ InspectEntries(t) \/ PlanRun(t) \/ RunShell(t) \/ ExecutePython(t) \/ Invoke(t)
      PROVE  RuntimeShape'
  <2>1. UNCHANGED <<installed, packages, module, registry, queue>>
    BY <1>7 DEF StartRun, InspectEntries, PlanRun, RunShell, ExecutePython, Invoke, EndRun, OnlyRun
  <2>2. \E r : thread' = [thread EXCEPT ![t] = r]
    BY <1>7 DEF StartRun, InspectEntries, PlanRun, RunShell, ExecutePython, Invoke, EndRun, Enter
  <2>3. thread'["loader"] = thread["loader"]
    BY <1>1, <2>2 DEF RuntimeShape, ThreadShape, Threads
  <2> QED BY <1>1, <1>3, <1>4, <2>1, <2>3 DEF RuntimeShape
<1> QED BY <1>2, <1>5, <1>6, <1>7 DEF RuntimeNext

------------------------------------------------------------------------------
\* What a plugin that nobody loads, and what the steps on other plugins, leave.
LEMMA DiskStep ==
    ASSUME RuntimeInv, NEW q \in Loadable, RemoveDirectory(q) \/ UnpackFiles(q) \/ WriteManifest(q),
           NEW p \in Loadable
    PROVE  Ready(p)'
<1> USE RuntimeAssumption
<1>1. RuntimeShape /\ Ready(p)
  BY DEF RuntimeInv
<1>2. UNCHANGED <<module, registry, thread, queue, listed>>
  BY DEF RemoveDirectory, UnpackFiles, WriteManifest, OnlyDisk
<1>3. CASE p # q
  <2>1. Still(p)
    BY <1>1, <1>2, <1>3 DEF RemoveDirectory, UnpackFiles, WriteManifest, Still, RuntimeShape
  <2> QED BY <1>1, <1>2, <2>1, ReadyUnmoved
<1>4. CASE p = q
  <2>1. Untouched(p) => Untouched(p)'
    BY <1>2 DEF Untouched, Blank, Using, AtPlugin
  <2>2. Untouched(p)' => Consistent(p)'
    BY DEF Untouched, Blank, Using, Consistent, OnTrack, Registered
  <2>3. packages[p] \in Seq(Packages) /\ installed[p] \in {"absent", "part", "whole"} /\ Len(packages[p]) \in Nat
        /\ (Len(packages[p]) = 0 => packages[p] = <<>>)
    BY <1>1 DEF RuntimeShape
  <2>4. CASE RemoveDirectory(p)
    <3>1. installed'[p] = "absent" /\ packages'[p] = packages[p] /\ packages[p] # <<>>
      BY <1>1, <2>4 DEF RemoveDirectory, RuntimeShape
    <3>2. ~Sound(p)' /\ ~NeverWhole(p)'
      BY <2>3, <3>1 DEF Sound, NeverWhole
    <3> QED BY <3>2 DEF Ready
  <2>5. CASE UnpackFiles(p)
    <3>1. PICK k \in Packages : packages'[p] = Append(packages[p], k)
      BY <1>1, <2>5 DEF UnpackFiles, RuntimeShape
    <3>2. installed'[p] = "part" /\ Len(packages'[p]) = Len(packages[p]) + 1
      BY <1>1, <2>3, <2>5, <3>1 DEF UnpackFiles, RuntimeShape
    <3>3. ~Sound(p)'
      BY <3>2 DEF Sound
    <3>4. NeverWhole(p)' => NeverWhole(p)
      BY <2>3, <3>2 DEF NeverWhole
    <3> QED BY <1>1, <2>1, <3>3, <3>4 DEF Ready
  <2>6. CASE WriteManifest(p)
    <3>1. installed[p] = "part" /\ installed'[p] = "whole" /\ packages'[p] = packages[p] /\ packages[p] # <<>>
      BY <1>1, <2>6 DEF WriteManifest, RuntimeShape
    <3>2. ~NeverWhole(p)'
      BY <2>3, <3>1 DEF NeverWhole
    <3>3. Sound(p)' => NeverWhole(p)
      BY <3>1 DEF Sound, NeverWhole
    <3> QED BY <1>1, <2>1, <2>2, <3>2, <3>3 DEF Ready
  <2> QED BY <1>4, <2>4, <2>5, <2>6
<1> QED BY <1>3, <1>4

\* A run's steps other than the one that decides whether to load.
LEMMA RunStep ==
    ASSUME RuntimeInv, NEW t \in RunThreads, NEW p \in Loadable,
           \/ \E q \in Loadable : StartRun(t, q)
           \/ InspectEntries(t) \/ PlanRun(t) \/ RunShell(t) \/ Invoke(t)
    PROVE  Ready(p)'
<1> USE RuntimeAssumption
<1>1. RuntimeShape /\ Ready(p)
  BY DEF RuntimeInv
<1>2. ThreadShape(thread) /\ t \in Threads
  BY <1>1 DEF RuntimeShape, Threads
<1>3. UNCHANGED <<installed, packages, module, registry, queue, listed>>
  BY DEF StartRun, InspectEntries, PlanRun, RunShell, Invoke, EndRun, OnlyRun
<1>4. thread[t].stage \in {"idle", "inspect", "manifest", "shell", "invoke"}
  BY DEF StartRun, InspectEntries, PlanRun, RunShell, Invoke, In
<1>5. /\ \A u \in Threads : u # t => thread'[u] = thread[u]
      /\ thread'[t].stage \in {"idle", "inspect", "manifest", "shell", "python"}
      /\ thread'[t].plugin = p /\ thread'[t].stage \in {"shell", "python"} => installed[p] = "whole"
  <2>1. CASE \E q \in Loadable : StartRun(t, q)
    <3> PICK q \in Loadable : StartRun(t, q)
      BY <2>1
    <3> QED BY <1>2 DEF StartRun, Resting, ThreadShape, ThreadFields
  <2>2. ASSUME NEW r, EndRun(t, r) 
      PROVE  /\ \A u \in Threads : u # t => thread'[u] = thread[u]
             /\ thread'[t].stage \in {"idle", "inspect", "manifest", "shell", "python"}
             /\ thread'[t].plugin = p /\ thread'[t].stage \in {"shell", "python"} => installed[p] = "whole"
    BY <1>2, <2>2 DEF EndRun, Resting, ThreadShape, ThreadFields
  <2>3. CASE InspectEntries(t)
    <3>1. CASE installed[Its(t)] # "absent"
      BY <1>2, <2>3, <3>1 DEF InspectEntries, ThreadShape, ThreadFields
    <3> QED BY <2>2, <2>3, <3>1 DEF InspectEntries
  <2>4. CASE PlanRun(t)
    <3>1. CASE /\ installed[Its(t)] = "whole"
               /\ Enter(t, IF thread[t].shell THEN "shell" ELSE "python")
      BY <1>2, <3>1 DEF Enter, Its, ThreadShape, ThreadFields
    <3> QED BY <2>2, <2>4, <3>1 DEF PlanRun
  <2>5. CASE RunShell(t) \/ Invoke(t)
    BY <2>2, <2>5 DEF RunShell, Invoke
  <2> QED BY <2>1, <2>3, <2>4, <2>5
<1>6. installed[p] = "whole" => ~NeverWhole(p)
  <2>1. packages[p] # <<>> /\ packages[p] \in Seq(Packages) /\ installed[p] = "whole" => Len(packages[p]) # 0
    OBVIOUS
  <2> QED BY <1>1, <2>1 DEF RuntimeShape, NeverWhole
<1>7. /\ ~RegisteringBy(t, p) /\ ~RegisteringBy(t, p)'
      /\ thread'[t].plugin = p => thread'[t].stage # "invoke"
      /\ NeverWhole(p) => ~Using(t, p)'
  BY <1>4, <1>5, <1>6 DEF RegisteringBy, Using, AtPlugin
<1> QED BY <1>1, <1>3, <1>5, <1>7, ReadyUnmoved DEF Still

\* The steps of the background load that enter nothing.
LEMMA LoaderStep ==
    ASSUME RuntimeInv, ClaimLoad \/ ListPackages \/ LoadNext, NEW p \in Loadable
    PROVE  Ready(p)'
<1> USE RuntimeAssumption
<1>1. RuntimeShape /\ Ready(p)
  BY DEF RuntimeInv
<1>2. ThreadShape(thread) /\ "loader" \in Threads
  BY <1>1 DEF RuntimeShape, Threads
<1>3. Still(p)
  BY DEF ClaimLoad, ListPackages, LoadNext, Same, Still
<1>4. NeverWhole(p) => installed[p] # "whole"
  <2>1. packages[p] # <<>> /\ packages[p] \in Seq(Packages) /\ installed[p] = "whole" => Len(packages[p]) # 0
    OBVIOUS
  <2> QED BY <1>1, <2>1 DEF RuntimeShape, NeverWhole
<1>5. CASE ClaimLoad
  <2>1. /\ \A u \in Threads : u # "loader" => thread'[u] = thread[u]
        /\ thread["loader"].stage = "idle" /\ thread'["loader"].stage = "list"
        /\ UNCHANGED <<queue, listed>>
    BY <1>2, <1>5 DEF ClaimLoad, Enter, In, ThreadShape, ThreadFields
  <2> QED BY <1>1, <1>3, <2>1, ReadyUnmoved DEF RegisteringBy, Using
<1>6. CASE ListPackages
  <2>1. /\ \A u \in Threads : u # "loader" => thread'[u] = thread[u]
        /\ thread["loader"].stage = "list" /\ thread'["loader"].stage = "next"
        /\ queue' = {q \in Loadable : installed[q] = "whole"} /\ listed' = queue'
    BY <1>2, <1>6 DEF ListPackages, Enter, In, ThreadShape, ThreadFields
  <2>2. \A u \in Threads : RegisteringBy(u, p) => thread'[u] = thread[u]
    BY <2>1 DEF RegisteringBy
  <2>3. /\ OnDisk(p)' = OnDisk(p) /\ (Sound(p)' <=> Sound(p)) /\ Defined(p)' = Defined(p)
        /\ (NeverWhole(p)' <=> NeverWhole(p)) /\ Registered(p)' = Registered(p)
        /\ (Filled(p)' <=> Filled(p))
    BY <1>3 DEF Still, OnDisk, Sound, Defined, NeverWhole, Registered, Filled
  <2>4. ASSUME NeverWhole(p) PROVE Untouched(p)'
    <3>1. Untouched(p) /\ p \notin queue'
      BY <1>1, <1>4, <2>1, <2>4 DEF Ready
    <3>2. \A u \in Threads : ~Using(u, p)'
      BY <2>1, <3>1 DEF Untouched, Blank, Using, AtPlugin
    <3> QED BY <1>3, <2>1, <3>1, <3>2 DEF Untouched, Still, Blank
  <2>5. ASSUME Sound(p) PROVE Consistent(p)'
    <3>1. Consistent(p)
      BY <1>1, <2>5 DEF Ready
    <3>2. Complete(p) => Complete(p)'
      BY <2>2, <2>3 DEF Complete, Registering, RegisteringBy, AtPlugin, Its
    <3>3. (Blank(p) \/ Filled(p))'
      BY <1>3, <2>3, <3>1 DEF Consistent, Still, Blank
    <3>4. (p \in listed => p \in queue \/ Complete(p))'
      BY <2>1
    <3>5. (Registered(p) # {} => Complete(p))' /\ Registered(p)' \subseteq Defined(p)'
      BY <2>3, <3>1, <3>2 DEF Consistent
    <3>6. ASSUME NEW u \in Threads, AtPlugin(u, p)'
          PROVE  OnTrack(u, p)'
      <4>1. CASE u = "loader"
        BY <2>1, <4>1, RuntimeAssumption DEF OnTrack
      <4>2. CASE u # "loader"
        <5>1. thread'[u] = thread[u] /\ AtPlugin(u, p)
          BY <2>1, <3>6, <4>2 DEF AtPlugin
        <5> QED BY <2>3, <3>1, <3>2, <5>1 DEF Consistent, OnTrack, EntriesIn
      <4> QED BY <4>1, <4>2
    <3> QED BY <3>3, <3>4, <3>5, <3>6 DEF Consistent
  <2> QED BY <2>3, <2>4, <2>5 DEF Ready
<1>7. CASE LoadNext
  <2>1. /\ \A u \in Threads : u # "loader" => thread'[u] = thread[u]
        /\ thread["loader"].stage = "next" /\ listed' = listed
    <3>1. \/ thread' = thread \/ Enter("loader", "ended")
          \/ \E q : thread' = [thread EXCEPT !["loader"].stage = "load", !["loader"].plugin = q]
      BY <1>7 DEF LoadNext
    <3>2. ASSUME NEW q, thread' = [thread EXCEPT !["loader"].stage = "load", !["loader"].plugin = q]
          PROVE  \A u \in Threads : u # "loader" => thread'[u] = thread[u]
      BY <1>2, <3>2 DEF ThreadShape
    <3> QED BY <1>2, <1>7, <3>1, <3>2 DEF LoadNext, Same, Enter, In, ThreadShape
  <2>2. CASE queue = {} /\ UNCHANGED queue /\ Enter("loader", "ended")
    <3>1. thread'["loader"].stage = "ended"
      BY <1>2, <2>2 DEF Enter, ThreadShape, ThreadFields
    <3> QED BY <1>1, <1>3, <2>1, <2>2, <3>1, ReadyUnmoved DEF RegisteringBy, Using
  <2>3. ASSUME NEW q \in queue, queue' = queue \ {q},
               thread' = IF HasPython(q)
                         THEN [thread EXCEPT !["loader"].stage = "load", !["loader"].plugin = q]
                         ELSE thread
        PROVE  Ready(p)'
    <3>1. CASE q # p
      <4>1. \/ thread'["loader"] = thread["loader"]
            \/ thread'["loader"].stage = "load" /\ thread'["loader"].plugin = q
        BY <1>2, <2>3 DEF ThreadShape, ThreadFields
      <4> QED BY <1>1, <1>3, <2>1, <2>3, <3>1, <4>1, ReadyUnmoved DEF RegisteringBy, Using, AtPlugin
    <3>2. CASE q = p
      <4>1. ~NeverWhole(p)
        BY <1>1, <2>3, <3>2 DEF Ready, Untouched
      <4>2. ~NeverWhole(p)' /\ (Sound(p)' => Sound(p))
        BY <1>3, <4>1 DEF Still, NeverWhole, Sound, OnDisk
      <4>3. ASSUME Sound(p) PROVE Consistent(p)'
        <5>1. HasPython(p)
          BY <4>3 DEF Sound, HasPython
        <5>2. thread'["loader"].stage = "load" /\ thread'["loader"].plugin = p
          <6>1. HasPython(q)
            BY <3>2, <5>1
          <6>2. thread' = [thread EXCEPT !["loader"].stage = "load", !["loader"].plugin = q]
            BY <2>3, <6>1
          <6>3. thread'["loader"].stage = "load" /\ thread'["loader"].plugin = q
            <7>1. "loader" \in DOMAIN thread /\ DOMAIN thread["loader"] = ThreadFields
              BY <1>2 DEF ThreadShape
            <7>2. thread'["loader"] = [thread["loader"] EXCEPT !.stage = "load", !.plugin = q]
              BY <6>2, <7>1
            <7> QED BY <7>1, <7>2 DEF ThreadFields
          <6> QED BY <3>2, <6>3
        <5>3. Complete(p)'
          BY <1>2, <5>2 DEF Complete, Registering, Its
        <5>4. Consistent(p)
          BY <1>1, <4>3 DEF Ready
        <5>5. Registered(p)' = Registered(p) /\ Defined(p)' = Defined(p) /\ (Filled(p)' <=> Filled(p))
          BY <1>3 DEF Still, Registered, Defined, OnDisk, Filled
        <5>6. ASSUME NEW u \in Threads, AtPlugin(u, p)'
              PROVE  OnTrack(u, p)'
          <6>1. CASE u = "loader"
            BY <5>2, <6>1 DEF OnTrack
          <6>2. CASE u # "loader"
            <7>1. thread'[u] = thread[u] /\ AtPlugin(u, p)
              BY <2>1, <5>6, <6>2 DEF AtPlugin
            <7> QED BY <5>3, <5>4, <5>5, <7>1 DEF Consistent, OnTrack, EntriesIn
          <6> QED BY <6>1, <6>2
        <5>7. (Blank(p) \/ Filled(p))' /\ Registered(p)' \subseteq Defined(p)'
          BY <1>3, <5>4, <5>5 DEF Consistent, Still, Blank
        <5> QED BY <5>3, <5>6, <5>7 DEF Consistent
      <4> QED BY <4>2, <4>3 DEF Ready
    <3> QED BY <3>1, <3>2
  <2> QED BY <1>7, <2>2, <2>3 DEF LoadNext
<1> QED BY <1>5, <1>6, <1>7

------------------------------------------------------------------------------
(* A registration.                                                          *)

\* A step of a registering thread leaves the plugins of other threads alone.
LEMMA OthersRegistration ==
    ASSUME RuntimeInv, NEW t \in Threads, NEW p \in Loadable, ~AtPlugin(t, p),
           UNCHANGED <<installed, packages, listed, queue>>,
           module'[p] = module[p], registry'[p] = registry[p],
           \A u \in Threads : u # t => thread'[u] = thread[u],
           thread'[t].plugin = thread[t].plugin
    PROVE  Ready(p)'
<1>1. Ready(p)
  BY DEF RuntimeInv
<1> QED BY <1>1, ReadyUnmoved DEF Still, RegisteringBy, Using, AtPlugin

\* A step that changes neither what p defines nor what is registered of it.
LEMMA OwnStep ==
    ASSUME NEW t \in Threads, NEW p \in Loadable, Ready(p), Using(t, p),
           UNCHANGED <<installed, packages, listed, queue>>,
           registry'[p] = registry[p],
           \A u \in Threads : u # t => thread'[u] = thread[u],
           thread'[t].plugin = p,
           Sound(p) /\ Consistent(p) =>
             /\ Blank(p)' \/ Filled(p)'
             /\ Filled(p) => Filled(p)'
             /\ RegisteringBy(t, p)' \/ Complete(p)'
             /\ OnTrack(t, p)'
    PROVE  Ready(p)'
<1>1. /\ (Sound(p)' <=> Sound(p)) /\ Defined(p)' = Defined(p)
      /\ (NeverWhole(p)' <=> NeverWhole(p)) /\ Registered(p)' = Registered(p)
  BY DEF OnDisk, Sound, Defined, NeverWhole, Registered
<1>2. ~NeverWhole(p)
  BY DEF Ready, Untouched
<1>3. ASSUME Sound(p) PROVE Consistent(p)'
  <2>1. Consistent(p)
    BY <1>3 DEF Ready
  <2>2. Complete(p)'
    BY <1>3, <2>1 DEF Complete, Registering, RegisteringBy, AtPlugin, Its
  <2>3. ASSUME NEW u \in Threads, AtPlugin(u, p)' PROVE OnTrack(u, p)'
    <3>1. CASE u = t
      BY <1>3, <2>1, <3>1
    <3>2. CASE u # t
      <4>1. thread'[u] = thread[u] /\ AtPlugin(u, p) /\ OnTrack(u, p)
        BY <2>1, <2>3, <3>2 DEF AtPlugin, Consistent
      <4>2. Filled(p) => Filled(p)'
        BY <1>3, <2>1
      <4> QED BY <1>1, <2>2, <4>1, <4>2 DEF OnTrack, EntriesIn
    <3> QED BY <3>1, <3>2
  <2> QED BY <1>1, <1>3, <2>1, <2>2, <2>3 DEF Consistent
<1> QED BY <1>1, <1>2, <1>3 DEF Ready

\* A run loads what it does not see in the registry.
LEMMA ExecuteStep ==
    ASSUME RuntimeInv, NEW t \in RunThreads, ExecutePython(t), NEW p \in Loadable
    PROVE  Ready(p)'
<1>1. RuntimeShape /\ Ready(p) /\ t \in Threads
  BY DEF RuntimeInv, Threads
<1>2. ThreadShape(thread)
  BY <1>1 DEF RuntimeShape
<1> DEFINE s == IF ~IsRegistered(Its(t)) /\ HasPython(Its(t)) THEN "load" ELSE "invoke"
<1>3. /\ UNCHANGED <<installed, packages, module, registry, queue, listed>>
      /\ thread[t].stage = "python"
      /\ Enter(t, s)
  BY DEF ExecutePython, OnlyRun, In
<1>4. /\ \A u \in Threads : u # t => thread'[u] = thread[u]
      /\ thread'[t].plugin = thread[t].plugin
      /\ thread'[t].stage = s
  <2> HIDE DEF s
  <2> QED BY <1>1, <1>2, <1>3 DEF Enter, ThreadShape, ThreadFields
<1>5. CASE ~AtPlugin(t, p)
  BY <1>1, <1>3, <1>4, <1>5, OthersRegistration
<1>6. CASE AtPlugin(t, p)
  <2>1. Using(t, p) /\ thread'[t].plugin = p /\ Its(t) = p
    BY <1>3, <1>4, <1>6 DEF Using, AtPlugin, Its
  <2>2. ASSUME Sound(p), Consistent(p)
        PROVE  /\ Blank(p)' \/ Filled(p)'
               /\ Filled(p) => Filled(p)'
               /\ RegisteringBy(t, p)' \/ Complete(p)'
               /\ OnTrack(t, p)'
    <3>1. (Blank(p)' <=> Blank(p)) /\ (Filled(p)' <=> Filled(p)) /\ Registered(p)' = Registered(p)
          /\ Defined(p)' = Defined(p)
      BY <1>3 DEF Blank, Filled, Registered, Defined, OnDisk
    <3>2. HasPython(p)
      BY <2>2 DEF Sound, HasPython
    <3>3. IsRegistered(p) <=> Registered(p) # {}
      BY DEF IsRegistered, Registered
    <3>4. CASE IsRegistered(p)
      <4>1. thread'[t].stage = "invoke"
        BY <1>4, <2>1, <3>4
      <4>2. Complete(p)
        BY <2>2, <3>3, <3>4 DEF Consistent
      <4>3. Complete(p)'
        BY <1>3, <1>4, <3>1, <4>2 DEF Complete, Registering, Its
      <4> QED BY <2>2, <3>1, <4>1, <4>3 DEF Consistent, OnTrack
    <3>5. CASE ~IsRegistered(p)
      <4>1. thread'[t].stage = "load"
        BY <1>4, <2>1, <3>2, <3>5
      <4> QED BY <2>1, <2>2, <3>1, <4>1 DEF Consistent, OnTrack, RegisteringBy, AtPlugin
    <3> QED BY <3>4, <3>5
  <2> QED BY <1>1, <1>3, <1>4, <2>1, <2>2, OwnStep
<1> QED BY <1>5, <1>6

LEMMA ReturnIs ==
    ASSUME ThreadShape(thread), NEW t \in Threads, Return(t)
    PROVE  /\ \A u \in Threads : u # t => thread'[u] = thread[u]
           /\ thread'[t].plugin = thread[t].plugin
           /\ thread'[t].stage = IF t = "loader" THEN "next" ELSE "invoke"
           /\ UNCHANGED queue
<1> DEFINE s == IF t = "loader" THEN "next" ELSE "invoke"
<1>1. UNCHANGED queue /\ thread' = [thread EXCEPT ![t].stage = s, ![t].todo = <<>>, ![t].from = 0]
  BY DEF Return
<1> HIDE DEF s
<1>2. /\ \A u \in Threads : u # t => thread'[u] = thread[u]
      /\ thread'[t].plugin = thread[t].plugin /\ thread'[t].stage = s
  BY <1>1 DEF ThreadShape, ThreadFields
<1> QED BY <1>1, <1>2 DEF s

LEMMA LoadSourceStep ==
    ASSUME RuntimeInv, NEW t \in Threads, LoadSource(t), NEW p \in Loadable
    PROVE  Ready(p)'
<1>1. RuntimeShape /\ Ready(p)
  BY DEF RuntimeInv
<1>2. ThreadShape(thread)
  BY <1>1 DEF RuntimeShape
<1>3. /\ UNCHANGED <<installed, packages, listed, registry>>
      /\ thread[t].stage = "load"
      /\ UNCHANGED queue
      /\ \A u \in Threads : u # t => thread'[u] = thread[u]
      /\ thread'[t].plugin = thread[t].plugin
  <2>1. CASE Return(t)
    BY <1>2, <2>1, ReturnIs DEF LoadSource, Same, In
  <2>2. CASE Enter(t, "read") /\ UNCHANGED queue
    BY <1>2, <2>2 DEF LoadSource, Same, In, Enter, ThreadShape, ThreadFields
  <2> QED BY <2>1, <2>2 DEF LoadSource, Swallow
<1>4. CASE ~AtPlugin(t, p)
  <2>1. module'[p] = module[p]
    <3>1. p # Its(t)
      BY <1>4 DEF AtPlugin, Its
    <3>2. module' = module \/ \E a, b : module' = [module EXCEPT ![Its(t)].entrances = a, ![Its(t)].main = b]
      BY DEF LoadSource
    <3>3. ASSUME NEW a, NEW b, module' = [module EXCEPT ![Its(t)].entrances = a, ![Its(t)].main = b]
          PROVE  module'[p] = module[p]
      BY <1>1, <3>1, <3>3 DEF RuntimeShape
    <3> QED BY <3>2, <3>3
  <2> QED BY <1>1, <1>3, <1>4, <2>1, OthersRegistration
<1>5. CASE AtPlugin(t, p)
  <2>1. Using(t, p) /\ thread'[t].plugin = p /\ Its(t) = p
    BY <1>3, <1>5 DEF Using, AtPlugin, Its
  <2>2. ASSUME Sound(p), Consistent(p)
        PROVE  Filled(p)' /\ RegisteringBy(t, p)' /\ OnTrack(t, p)'
    <3>1. HasPython(p) /\ "module" \notin OnDisk(p).raising /\ Len(packages[p]) = 1
      BY <2>2 DEF Sound, HasPython
    <3> DEFINE a == IF OnDisk(p).entrances # <<>> THEN Len(packages[p]) ELSE module[p].entrances
               b == IF OnDisk(p).main THEN Len(packages[p]) ELSE module[p].main
    <3>2. /\ module' = [module EXCEPT ![p].entrances = a, ![p].main = b]
          /\ Enter(t, "read")
      BY <2>1, <3>1 DEF LoadSource
    <3>3. module'[p].entrances = a /\ module'[p].main = b
      <4>1. DOMAIN module = Loadable /\ DOMAIN module[p] = {"entrances", "main"}
        BY <1>1 DEF RuntimeShape
      <4> HIDE DEF a, b
      <4> QED BY <3>2, <4>1
    <3>4. OnDisk(p)' = OnDisk(p)
      BY <1>3 DEF OnDisk
    <3>5. Filled(p)'
      BY <2>2, <3>1, <3>3, <3>4 DEF Consistent, Blank, Filled
    <3>6. thread'[t].stage = "read"
      BY <1>2, <3>2 DEF Enter, ThreadShape, ThreadFields
    <3> QED BY <2>1, <3>5, <3>6 DEF RegisteringBy, AtPlugin, OnTrack
  <2> QED BY <1>1, <1>3, <2>1, <2>2, OwnStep
<1> QED BY <1>4, <1>5

LEMMA ReadEntriesStep ==
    ASSUME RuntimeInv, NEW t \in Threads, ReadEntries(t), NEW p \in Loadable
    PROVE  Ready(p)'
<1> USE RuntimeAssumption
<1>1. RuntimeShape /\ Ready(p)
  BY DEF RuntimeInv
<1>2. ThreadShape(thread)
  BY <1>1 DEF RuntimeShape
<1> DEFINE m == module[Its(t)]
<1>3. /\ UNCHANGED <<installed, packages, listed, registry, module>>
      /\ thread[t].stage = "read"
  BY DEF ReadEntries, Same, In
<1>4. \/ /\ m.entrances # 0
         /\ thread' = [thread EXCEPT ![t].stage = "register", ![t].from = m.entrances,
                                     ![t].todo = packages[Its(t)][m.entrances].entrances]
         /\ UNCHANGED queue
      \/ /\ m.entrances = 0 /\ m.main # 0
         /\ thread' = [thread EXCEPT ![t].stage = "register", ![t].from = m.main, ![t].todo = <<"main">>]
         /\ UNCHANGED queue
      \/ m.entrances = 0 /\ m.main = 0 /\ Return(t)
  BY Zenon DEF ReadEntries
<1>5. ASSUME NEW from, NEW todo,
             thread' = [thread EXCEPT ![t].stage = "register", ![t].from = from, ![t].todo = todo]
      PROVE  /\ \A u \in Threads : u # t => thread'[u] = thread[u]
             /\ thread'[t].plugin = thread[t].plugin
             /\ thread'[t].stage = "register" /\ thread'[t].from = from /\ thread'[t].todo = todo
  BY <1>2, <1>5 DEF ThreadShape, ThreadFields
<1>6. /\ UNCHANGED queue
      /\ \A u \in Threads : u # t => thread'[u] = thread[u]
      /\ thread'[t].plugin = thread[t].plugin
  <2> HIDE DEF m
  <2> QED BY <1>2, <1>4, <1>5, ReturnIs, ZenonT(60)
<1>7. CASE ~AtPlugin(t, p)
  BY <1>1, <1>3, <1>6, <1>7, OthersRegistration
<1>8. CASE AtPlugin(t, p)
  <2>1. Using(t, p) /\ thread'[t].plugin = p /\ Its(t) = p
    BY <1>3, <1>6, <1>8 DEF Using, AtPlugin, Its
  <2>2. ASSUME Sound(p), Consistent(p)
        PROVE  Filled(p)' /\ (RegisteringBy(t, p)' \/ Complete(p)') /\ OnTrack(t, p)'
    <3>1. Filled(p) /\ (Filled(p)' <=> Filled(p)) /\ Registered(p)' = Registered(p) /\ Defined(p)' = Defined(p)
      BY <1>3, <1>8, <2>2 DEF Consistent, OnTrack, Filled, Registered, Defined, OnDisk
    <3>2. /\ Len(packages[p]) = 1 /\ OnDisk(p) = packages[p][1] /\ OnDisk(p) \in Packages
          /\ OnDisk(p).entrances \in Seq(Entries)
      BY <1>1, <2>2 DEF Sound, OnDisk, RuntimeShape
    <3>3. CASE m.entrances # 0
      <4>1. m.entrances = 1 /\ OnDisk(p).entrances # <<>>
        BY <2>1, <3>1, <3>3 DEF Filled
      <4>2. thread'[t].stage = "register" /\ thread'[t].from = 1 /\ thread'[t].todo = OnDisk(p).entrances
        <5>1. thread' = [thread EXCEPT ![t].stage = "register", ![t].from = 1, ![t].todo = OnDisk(p).entrances]
          BY <1>4, <2>1, <3>2, <3>3, <4>1
        <5> QED BY <1>5, <5>1
      <4>3. EntriesIn(OnDisk(p).entrances) = Defined(p)
        BY <3>2, <4>1 DEF EntriesIn, Defined
      <4>4. OnTrack(t, p)'
        BY <3>1, <3>2, <4>1, <4>2, <4>3 DEF OnTrack, EntriesIn
      <4> QED BY <2>1, <3>1, <4>2, <4>4 DEF RegisteringBy, AtPlugin
    <3>4. CASE m.entrances = 0 /\ m.main # 0
      <4>1. m.main = 1 /\ OnDisk(p).entrances = <<>> /\ OnDisk(p).main
        BY <2>1, <3>1, <3>4 DEF Filled
      <4>2. thread'[t].stage = "register" /\ thread'[t].from = 1 /\ thread'[t].todo = <<"main">>
        <5>1. thread' = [thread EXCEPT ![t].stage = "register", ![t].from = 1, ![t].todo = <<"main">>]
          BY <1>4, <3>4, <4>1
        <5> QED BY <1>5, <5>1
      <4>3. /\ EntriesIn(<<"main">>) = {"main"} /\ Defined(p) = {"main"}
            /\ <<"main">> \in Seq(Entries) /\ <<"main">> # <<>>
        BY <4>1 DEF EntriesIn, Defined, Entries
      <4>4. OnTrack(t, p)'
        BY <3>1, <4>2, <4>3 DEF OnTrack, EntriesIn
      <4> QED BY <2>1, <3>1, <4>2, <4>4 DEF RegisteringBy, AtPlugin
    <3>5. CASE m.entrances = 0 /\ m.main = 0
      <4>1. OnDisk(p).entrances = <<>> /\ ~OnDisk(p).main
        BY <2>1, <3>1, <3>5 DEF Filled
      <4>2. Defined(p) = {}
        BY <4>1 DEF Defined
      <4>3. Complete(p)'
        BY <2>2, <3>1, <4>2 DEF Consistent, Complete
      <4>4. Return(t)
        BY <1>4, <3>5
      <4>5. thread'[t].stage \in {"next", "invoke"}
        BY <1>2, <4>4, ReturnIs
      <4> QED BY <3>1, <4>3, <4>5 DEF OnTrack
    <3> QED BY <3>3, <3>4, <3>5
  <2> QED BY <1>1, <1>3, <1>6, <2>1, <2>2, OwnStep
<1> QED BY <1>7, <1>8

LEMMA HeadAndTail ==
    ASSUME NEW s \in Seq(Entries), s # <<>>
    PROVE  /\ Head(s) \in Entries /\ Tail(s) \in Seq(Entries)
           /\ EntriesIn(s) = {Head(s)} \cup EntriesIn(Tail(s))
           /\ Len(s) = 1 => EntriesIn(s) = {Head(s)}
           /\ Len(s) > 1 => Tail(s) # <<>>
           /\ Len(s) = 1 \/ Len(s) > 1
<1>1. /\ Len(s) \in Nat \ {0} /\ Head(s) = s[1] /\ Head(s) \in Entries
      /\ Tail(s) \in Seq(Entries) /\ Len(Tail(s)) = Len(s) - 1
      /\ \A i \in 1 .. Len(s) - 1 : Tail(s)[i] = s[i + 1]
  OBVIOUS
<1>2. EntriesIn(Tail(s)) \subseteq EntriesIn(s)
  BY <1>1 DEF EntriesIn
<1>3. ASSUME NEW i \in 1 .. Len(s) PROVE s[i] = Head(s) \/ s[i] \in EntriesIn(Tail(s))
  <2>1. i = 1 \/ i - 1 \in 1 .. Len(Tail(s))
    BY <1>1
  <2>2. i - 1 \in 1 .. Len(Tail(s)) => Tail(s)[i - 1] = s[i]
    BY <1>1
  <2> QED BY <1>1, <2>1, <2>2 DEF EntriesIn
<1>4. EntriesIn(s) = {Head(s)} \cup EntriesIn(Tail(s))
  <2>1. Head(s) \in EntriesIn(s)
    BY <1>1 DEF EntriesIn
  <2>2. EntriesIn(s) \subseteq {Head(s)} \cup EntriesIn(Tail(s))
    BY <1>3 DEF EntriesIn
  <2> QED BY <1>2, <2>1, <2>2
<1>5. Len(s) = 1 => EntriesIn(Tail(s)) = {}
  BY <1>1 DEF EntriesIn
<1>6. Len(s) > 1 => Tail(s) # <<>>
  <2>1. \A x \in Seq(Entries) : Len(x) # 0 => x # <<>>
    OBVIOUS
  <2>2. ASSUME NEW x, x \in Seq(Entries), Len(x) = Len(s) - 1, Len(s) \in Nat, Len(s) > 1 PROVE x # <<>>
    BY <2>1, <2>2
  <2> QED BY <1>1, <2>2, Zenon
<1> QED BY <1>1, <1>4, <1>5, <1>6

LEMMA RegisterEntryStep ==
    ASSUME RuntimeInv, NEW t \in Threads, RegisterEntry(t), NEW p \in Loadable
    PROVE  Ready(p)'
<1>1. RuntimeShape /\ Ready(p)
  BY DEF RuntimeInv
<1>2. ThreadShape(thread)
  BY <1>1 DEF RuntimeShape
<1> DEFINE entry == Head(thread[t].todo)
<1>3. /\ UNCHANGED <<installed, packages, listed, module>>
      /\ thread[t].stage = "register"
      /\ registry' = [registry EXCEPT ![Its(t)][entry] = thread[t].from]
  BY DEF RegisterEntry, Same, In
<1>4. CASE ~AtPlugin(t, p)
  <2>1. registry'[p] = registry[p]
    BY <1>1, <1>3, <1>4 DEF RuntimeShape, AtPlugin, Its
  <2>2. /\ UNCHANGED queue
        /\ \A u \in Threads : u # t => thread'[u] = thread[u]
        /\ thread'[t].plugin = thread[t].plugin
    <3>1. CASE thread' = [thread EXCEPT ![t].todo = Tail(@)] /\ UNCHANGED queue
      BY <1>2, <3>1 DEF ThreadShape, ThreadFields
    <3>2. CASE Return(t)
      BY <1>2, <3>2, ReturnIs
    <3> QED BY <3>1, <3>2 DEF RegisterEntry, Swallow
  <2> QED BY <1>1, <1>3, <1>4, <2>1, <2>2, OthersRegistration
<1>5. CASE AtPlugin(t, p)
  <2>1. Using(t, p) /\ Its(t) = p
    BY <1>3, <1>5 DEF Using, AtPlugin, Its
  <2>2. /\ (Sound(p)' <=> Sound(p)) /\ Defined(p)' = Defined(p) /\ (NeverWhole(p)' <=> NeverWhole(p))
        /\ (Blank(p)' <=> Blank(p)) /\ (Filled(p)' <=> Filled(p))
    BY <1>3 DEF OnDisk, Sound, Defined, NeverWhole, Blank, Filled
  <2>3. ~NeverWhole(p)
    BY <1>1, <2>1 DEF Ready, Untouched
  <2>4. ASSUME Sound(p) PROVE Consistent(p)'
    <3>1. Consistent(p) /\ OnTrack(t, p)
      BY <1>1, <1>5, <2>4 DEF Ready, Consistent
    <3>2. /\ thread[t].from = 1 /\ thread[t].todo \in Seq(Entries) /\ thread[t].todo # <<>>
          /\ EntriesIn(thread[t].todo) \subseteq Defined(p)
          /\ Defined(p) \subseteq Registered(p) \cup EntriesIn(thread[t].todo)
      BY <1>3, <3>1 DEF OnTrack
    <3>3. /\ entry \in Entries /\ entry \in Defined(p)
          /\ EntriesIn(thread[t].todo) = {entry} \cup EntriesIn(Tail(thread[t].todo))
      BY <3>2, HeadAndTail
    <3>4. Registered(p)' = Registered(p) \cup {entry}
      <4>1. DOMAIN registry = Loadable /\ DOMAIN registry[p] = Entries
        BY <1>1 DEF RuntimeShape
      <4>2. registry'[p] = [registry[p] EXCEPT ![entry] = 1]
        BY <1>3, <2>1, <3>2, <4>1
      <4> HIDE DEF entry
      <4>3. \A e \in Entries : registry'[p][e] = IF e = entry THEN 1 ELSE registry[p][e]
        BY <3>3, <4>1, <4>2
      <4> QED BY <3>3, <4>3 DEF Registered
    <3>5. ~(entry = "boot" /\ "boot" \in packages[p][thread[t].from].raising)
      BY <2>4, <3>2 DEF Sound, OnDisk
    <3>6. /\ \A u \in Threads : u # t => thread'[u] = thread[u]
          /\ thread'[t].plugin = p
          /\ UNCHANGED queue
          /\ \/ thread'[t].stage \in {"next", "invoke"} /\ EntriesIn(thread[t].todo) = {entry}
             \/ /\ thread'[t].stage = "register" /\ thread'[t].from = 1
                /\ thread'[t].todo = Tail(thread[t].todo) /\ Tail(thread[t].todo) # <<>>
                /\ Tail(thread[t].todo) \in Seq(Entries)
      <4>1. CASE Len(thread[t].todo) = 1 /\ Return(t)
        BY <1>2, <2>1, <3>2, <4>1, ReturnIs, HeadAndTail DEF Its
      <4>2. CASE /\ Len(thread[t].todo) > 1
                 /\ thread' = [thread EXCEPT ![t].todo = Tail(@)]
                 /\ UNCHANGED queue
        <5>1. /\ \A u \in Threads : u # t => thread'[u] = thread[u]
              /\ thread'[t].plugin = thread[t].plugin
              /\ thread'[t].stage = thread[t].stage /\ thread'[t].from = thread[t].from
              /\ thread'[t].todo = Tail(thread[t].todo)
          BY <1>2, <4>2 DEF ThreadShape, ThreadFields
        <5> QED BY <1>3, <2>1, <3>2, <4>2, <5>1, HeadAndTail DEF Its
      <4> QED BY <2>1, <3>5, <4>1, <4>2 DEF RegisterEntry
    <3>7. Registered(p)' \subseteq Defined(p)
      BY <3>1, <3>3, <3>4 DEF Consistent
    <3>8. Complete(p)'
      <4>1. CASE thread'[t].stage = "register"
        BY <3>6, <4>1 DEF Complete, Registering, Its
      <4>2. CASE EntriesIn(thread[t].todo) = {entry}
        BY <2>2, <3>2, <3>4, <3>7, <4>2 DEF Complete
      <4> QED BY <3>6, <4>1, <4>2
    <3>9. ASSUME NEW u \in Threads, AtPlugin(u, p)' PROVE OnTrack(u, p)'
      <4>1. CASE u # t
        <5>1. thread'[u] = thread[u] /\ OnTrack(u, p)
          BY <3>1, <3>6, <3>9, <4>1 DEF AtPlugin, Consistent
        <5> QED BY <2>2, <3>4, <3>8, <5>1 DEF OnTrack, EntriesIn
      <4>2. CASE u = t
        <5>1. CASE thread'[t].stage \in {"next", "invoke"}
          BY <3>8, <4>2, <5>1 DEF OnTrack
        <5>2. CASE /\ thread'[t].stage = "register" /\ thread'[t].from = 1
                   /\ thread'[t].todo = Tail(thread[t].todo) /\ Tail(thread[t].todo) # <<>>
                   /\ Tail(thread[t].todo) \in Seq(Entries)
          <6>1. /\ EntriesIn(Tail(thread[t].todo)) \subseteq Defined(p)
                /\ Defined(p) \subseteq Registered(p)' \cup EntriesIn(Tail(thread[t].todo))
            BY <3>2, <3>3, <3>4
          <6> QED BY <2>2, <4>2, <5>2, <6>1 DEF OnTrack, EntriesIn
        <5> QED BY <3>6, <5>1, <5>2
      <4> QED BY <4>1, <4>2
    <3> QED BY <2>2, <3>1, <3>7, <3>8, <3>9 DEF Consistent
  <2> QED BY <2>2, <2>3, <2>4 DEF Ready
<1> QED BY <1>4, <1>5

LEMMA RuntimeInvStep == RuntimeInv /\ [RuntimeNext]_runtimeVars => RuntimeInv'
<1> SUFFICES ASSUME RuntimeInv, [RuntimeNext]_runtimeVars PROVE RuntimeInv'
  OBVIOUS
<1>1. CASE RuntimeNext
  <2>1. ASSUME NEW p \in Loadable PROVE Ready(p)'
    BY <1>1, DiskStep, LoaderStep, RunStep, ExecuteStep, LoadSourceStep, ReadEntriesStep,
       RegisterEntryStep DEF RuntimeNext, Registration
  <2> QED BY <1>1, <2>1, RuntimeShapeStep DEF RuntimeInv
<1>2. CASE UNCHANGED runtimeVars
  <2>1. ASSUME NEW p \in Loadable PROVE Ready(p)'
    <3>1. Ready(p)
      BY DEF RuntimeInv
    <3> QED BY <1>2, <3>1, ReadyUnmoved DEF runtimeVars, Still
  <2>2. RuntimeShape'
    BY <1>2 DEF RuntimeInv, RuntimeShape, ThreadShape, runtimeVars
  <2> QED BY <2>1, <2>2 DEF RuntimeInv
<1> QED BY <1>1, <1>2

\* However the background load and any number of runs interleave with each other
\* and with installs, upgrades and removals, a plugin that nobody removed and
\* whose registration raises nothing is found with all its entries.
THEOREM SoundPluginsAreCallable == RuntimeSpec => []SoundIsCallable
<1>1. RuntimeInv => SoundIsCallable
  <2> SUFFICES ASSUME RuntimeInv, NEW p \in Loadable, Sound(p), ~Registering(p),
                      \/ In("loader", "ended") /\ p \in listed
                      \/ \E t \in RunThreads : Its(t) = p /\ In(t, "invoke")
                      \/ IsRegistered(p)
               PROVE  {e \in Entries : registry[p][e] # 0} = Defined(p)
    BY DEF SoundIsCallable
  <2>1. Consistent(p) /\ RuntimeShape
    BY DEF RuntimeInv, Ready
  <2>2. Complete(p)
    <3>1. CASE In("loader", "ended") /\ p \in listed
      BY <2>1, <3>1 DEF Consistent, RuntimeShape, In
    <3>2. CASE \E t \in RunThreads : Its(t) = p /\ In(t, "invoke")
      BY <2>1, <3>2 DEF Consistent, OnTrack, AtPlugin, Its, In, Threads
    <3>3. CASE IsRegistered(p)
      BY <2>1, <3>3 DEF Consistent, IsRegistered, Registered
    <3> QED BY <3>1, <3>2, <3>3
  <2> QED BY <2>2 DEF Complete, Registered
<1> QED BY <1>1, RuntimeInvInit, RuntimeInvStep, PTL DEF RuntimeSpec
------------------------------------------------------------------------------
(* What is collected for a removal.                                         *)

\* A set of numbers that has 0 and the successor of each of its own has them all.
LEMMA NumbersOneByOne ==
  ASSUME NEW T, 0 \in T, \A n \in Nat : n \in T => n + 1 \in T
  PROVE Nat \subseteq T
<1> SUFFICES ASSUME Nat \ T # {} PROVE FALSE
  OBVIOUS
<1>1. PICK m \in Nat \ T : \A k \in Nat \ T : ~ (<<k, m>> \in OpToRel(<, Nat))
  BY NatLessThanWellFounded, WFMin
<1>2. \A k \in Nat \ T : ~ (k < m)
  BY <1>1 DEF OpToRel
<1>3. m - 1 \in Nat /\ m - 1 \notin Nat \ T
  BY <1>2
<1> QED BY <1>3

\* The installed plugins that depend on one of a set.
DependOn(ps) == {q \in Plugins : IsInstalled(q) /\ Range(Depends[q]) \cap ps # {}}

\* Dependents builds its sets one from the other.
Reach(p, n, f) == f = [i \in 0 .. n |-> IF i = 0 THEN {p} ELSE f[i - 1] \cup DependOn(f[i - 1])]

LEMMA ReachExists == ASSUME NEW p PROVE \A n \in Nat : \E f : Reach(p, n, f)
<1> DEFINE T == {n \in Nat : \E f : Reach(p, n, f)}
<1>1. 0 \in T
  <2>1. Reach(p, 0, [i \in 0 .. 0 |-> {p}])
    BY DEF Reach
  <2> QED BY <2>1
<1>2. ASSUME NEW n \in Nat, n \in T PROVE n + 1 \in T
  <2>1. PICK f : Reach(p, n, f)
    BY <1>2
  <2> DEFINE g == [i \in 0 .. n + 1 |-> IF i <= n THEN f[i] ELSE f[n] \cup DependOn(f[n])]
  <2>2. \A i \in 0 .. n : f[i] = IF i = 0 THEN {p} ELSE f[i - 1] \cup DependOn(f[i - 1])
    BY <2>1 DEF Reach
  <2>3. \A i \in 0 .. n + 1 :
          g[i] = IF i = 0 THEN {p} ELSE g[i - 1] \cup DependOn(g[i - 1])
    <3>1. \A i \in 0 .. n + 1 : g[i] = IF i <= n THEN f[i] ELSE f[n] \cup DependOn(f[n])
      OBVIOUS
    <3> HIDE DEF g
    <3> TAKE i \in 0 .. n + 1
    <3>2. CASE i = 0
      <4>1. i \in 0 .. n /\ i <= n
        BY <3>2
      <4> QED BY <2>2, <3>1, <3>2, <4>1, Zenon
    <3>3. CASE i # 0 /\ i <= n
      <4>1. i \in 0 .. n /\ i - 1 \in 0 .. n + 1 /\ i - 1 <= n
        BY <3>3
      <4> QED BY <2>2, <3>1, <3>3, <4>1, Zenon
    <3>4. CASE i = n + 1
      <4>1. i - 1 = n /\ n \in 0 .. n + 1 /\ n <= n /\ ~(i <= n) /\ i # 0
        BY <3>4
      <4> QED BY <3>1, <4>1, Zenon
    <3> QED BY <3>2, <3>3, <3>4
  <2>4. Reach(p, n + 1, g)
    <3>1. g = [i \in 0 .. n + 1 |-> g[i]]
      OBVIOUS
    <3> HIDE DEF g
    <3> QED BY <2>3, <3>1, Zenon DEF Reach
  <2> QED BY <2>4
<1>3. Nat \subseteq T
  <2> HIDE DEF T
  <2> QED BY <1>1, <1>2, NumbersOneByOne
<1> QED BY <1>3

LEMMA DependentsAreReached ==
    ASSUME StoreAssumption, NEW p
    PROVE  \E f : Reach(p, Cardinality(Plugins), f) /\ Dependents(p) = f[Cardinality(Plugins)] \ {p}
<1>1. Cardinality(Plugins) \in Nat
  BY FS_CardinalityType DEF StoreAssumption
<1> DEFINE f == CHOOSE f : Reach(p, Cardinality(Plugins), f)
<1>2. Reach(p, Cardinality(Plugins), f)
  BY <1>1, ReachExists
<1>3. Dependents(p) = f[Cardinality(Plugins)] \ {p}
  BY DEF Dependents, Reach, DependOn
<1> QED BY <1>2, <1>3

\* What is collected for the removal of p, with p itself, leaves out no plugin that
\* depends on one of it.
LEMMA DependentsAreClosed ==
    ASSUME StoreAssumption, NEW p \in Plugins
    PROVE  /\ Dependents(p) \subseteq Plugins
           /\ DependOn(Dependents(p) \cup {p}) \subseteq Dependents(p) \cup {p}
<1> DEFINE N == Cardinality(Plugins)
<1>1. N \in Nat /\ IsFiniteSet(Plugins)
  BY FS_CardinalityType DEF StoreAssumption
<1>2. PICK f : Reach(p, N, f) /\ Dependents(p) = f[N] \ {p}
  BY DependentsAreReached
<1>3. /\ f[0] = {p}
      /\ \A n \in 0 .. N - 1 : f[n + 1] = f[n] \cup DependOn(f[n])
  <2>1. f = [i \in 0 .. N |-> IF i = 0 THEN {p} ELSE f[i - 1] \cup DependOn(f[i - 1])]
    BY <1>2 DEF Reach
  <2>2. \A i \in 0 .. N : f[i] = IF i = 0 THEN {p} ELSE f[i - 1] \cup DependOn(f[i - 1])
    BY <2>1
  <2>3. ASSUME NEW n \in 0 .. N - 1
        PROVE  n + 1 \in 0 .. N /\ n + 1 # 0 /\ (n + 1) - 1 = n
    BY <1>1
  <2>4. 0 \in 0 .. N
    BY <1>1
  <2> HIDE DEF N
  <2> QED BY <2>2, <2>3, <2>4
\* Each set has more plugins than the one before it, until nothing is added.
<1> DEFINE Grown(n) == /\ f[n] \subseteq Plugins
                       /\ p \in f[n]
                       /\ DependOn(f[n]) \subseteq f[n] \/ Cardinality(f[n]) >= n + 1
           T == {n \in Nat : n <= N => Grown(n)}
<1>4. 0 \in T
  <2>1. f[0] \subseteq Plugins /\ p \in f[0]
    BY <1>3
  <2>2. Cardinality(f[0]) = 1
    BY <1>3, FS_Singleton, Zenon
  <2> QED BY <2>1, <2>2
<1>5. ASSUME NEW n \in Nat, n \in T PROVE n + 1 \in T
  <2> SUFFICES ASSUME n + 1 <= N PROVE Grown(n + 1)
    OBVIOUS
  <2>1. n \in 0 .. N - 1 /\ n <= N
    BY <1>1
  <2>2. Grown(n) /\ f[n + 1] = f[n] \cup DependOn(f[n])
    BY <1>3, <1>5, <2>1
  <2>3. f[n + 1] \subseteq Plugins /\ p \in f[n + 1]
    BY <2>2 DEF DependOn
  <2>4. CASE DependOn(f[n]) \subseteq f[n]
    <3>1. f[n + 1] = f[n]
      BY <2>2, <2>4
    <3> QED BY <2>2, <2>4, <3>1
  <2>5. CASE ~(DependOn(f[n]) \subseteq f[n])
    <3>1. PICK q \in DependOn(f[n]) : q \notin f[n]
      BY <2>5
    <3>2. IsFiniteSet(f[n]) /\ IsFiniteSet(f[n + 1])
      BY <1>1, <2>2, <2>3, FS_Subset
    <3>3. Cardinality(f[n] \cup {q}) = Cardinality(f[n]) + 1 /\ Cardinality(f[n]) \in Nat
      BY <3>1, <3>2, FS_AddElement, FS_CardinalityType
    <3>4. f[n] \cup {q} \subseteq f[n + 1]
      BY <2>2, <3>1
    <3>5. Cardinality(f[n] \cup {q}) <= Cardinality(f[n + 1]) /\ Cardinality(f[n + 1]) \in Nat
      BY <3>2, <3>4, FS_Subset, FS_CardinalityType
    <3>6. Cardinality(f[n]) >= n + 1
      BY <2>2, <2>5
    <3> QED BY <2>3, <3>3, <3>5, <3>6
  <2> QED BY <2>4, <2>5
<1>6. Grown(N)
  <2>1. Nat \subseteq T
    <3> HIDE DEF T
    <3> QED BY <1>4, <1>5, NumbersOneByOne
  <2> QED BY <1>1, <2>1
<1>7. DependOn(f[N]) \subseteq f[N]
  <2>1. Cardinality(f[N]) <= N /\ Cardinality(f[N]) \in Nat
    BY <1>1, <1>6, FS_Subset, FS_CardinalityType
  <2> QED BY <1>1, <1>6, <2>1
<1>8. Dependents(p) \cup {p} = f[N]
  BY <1>2, <1>6
<1> QED BY <1>6, <1>7, <1>8

\* The elements of a sequence that lists each element of a finite set once.
LEMMA ListedOnce ==
    ASSUME NEW S, IsFiniteSet(S), NEW order \in SetToSeqs(S)
    PROVE  order \in Seq(S) /\ {order[i] : i \in 1 .. Len(order)} = S
<1> DEFINE n == Cardinality(S)
<1>1. n \in Nat
  BY FS_CardinalityType
<1>2. order \in [1 .. n -> S] /\ \A i, j \in 1 .. n : i # j => order[i] # order[j]
  BY DEF SetToSeqs
<1>3. order \in Seq(S) /\ Len(order) = n
  BY <1>1, <1>2
<1>4. Cardinality(1 .. n) = n
  BY <1>1, FS_Interval
<1>5. order \in Injection(1 .. n, S)
  BY <1>2 DEF Injection, IsInjective
<1>6. order \in Surjection(1 .. n, S)
  BY <1>4, <1>5, FS_Injection
<1> QED BY <1>2, <1>3, <1>6 DEF Surjection

------------------------------------------------------------------------------
(* Dependencies, and what the store's buttons show.                         *)

Frames == [plugin : Plugins, next : Nat]
ElementsOf(s) == {s[i] : i \in 1 .. Len(s)}

\* The recursion of an operation, and what a removal has still to remove.
Recursion ==
    \A w \in Workers : op[w].stage # "none" =>
        /\ op[w].stack \in Seq(Frames) /\ op[w].stack # <<>>
        /\ op[w].stage = "remove" => op[w].todo \in Seq(Plugins) /\ op[w].todo # <<>>

\* The directory an install writes does not count as installed yet.
Incomplete == \A w \in Workers : op[w].stage \in Writing => "info" \notin disk[Current(w)]

\* It counts as a change to what is installed that is marked as such.
IconIsHalfway == \A w \in Workers : op[w].stage = "icon" => op[w].halfway

Satisfied == \A p \in Plugins : IsInstalled(p) => \A d \in Range(Depends[p]) : Exists(d)

\* The package has been checked, and nothing has been removed since.
FoundByPackage(w) ==
    op[w].stage \in Writing \cup {"replace"} =>
        \A d \in Range(Depends[Current(w)]) : d # Current(w) => Exists(d)

\* Nobody depends on the plugin in hand unless it was there before.
OthersFind(w) ==
    op[w].stage \in Writing => \A p \in Plugins : p # Current(w) /\ IsInstalled(p) =>
        \A d \in Range(Depends[p]) : IF d = Current(w) THEN op[w].halfway ELSE Exists(d)

\* A removal that takes a plugin away takes what depends on it first or next.
TakesDependents(w) ==
    op[w].stage = "remove" => \A p \in Plugins : IsInstalled(p) =>
        \A d \in Range(Depends[p]) :
            ~Exists(d) \/ d \in ElementsOf(op[w].todo) => p \in ElementsOf(op[w].todo)

DependenciesSoFar ==
    ~harmed =>
        /\ (\A w \in Workers : op[w].stage \notin Writing \cup {"remove"}) => Satisfied
        /\ \A w \in Workers :
            /\ FoundByPackage(w) /\ OthersFind(w) /\ TakesDependents(w)
            /\ op[w].stage = "remove" => op[w].halfway \/ Satisfied

\* The store will hear of the plugin when the operation ends.
ToBeHeardOf(w, p) ==
    \/ op[w].stage # "none" /\ op[w].kind = "store" /\ p = Root(w)
    \/ op[w].stage = "icon" /\ p = Current(w)
    \/ op[w].stage \in Writing /\ op[w].halfway /\ p = Current(w)

ShowsDisk(p) == button[p] = IF IsInstalled(p) THEN "installed" ELSE "install"

Reported(p) == \E kind \in {"store", "uninstall"} : <<kind, p>> \in results

ButtonsSoFar ==
    open /\ ~harmed => \A p \in Plugins :
        p \in changed \/ Reported(p) \/ ShowsDisk(p) \/ \E w \in Workers : ToBeHeardOf(w, p)

ScreenShape == button = [p \in Plugins |-> button[p]]

StoreInv ==
    /\ Shape /\ Recursion /\ Incomplete /\ IconIsHalfway /\ ScreenShape
    /\ DependenciesSoFar /\ ButtonsSoFar

LEMMA StoreInit == Init => StoreInv
<1> SUFFICES ASSUME Init PROVE StoreInv
  OBVIOUS
<1>1. Shape
  BY DEF Init, Shape, Idle, Fields
<1>2. \A w \in Workers : op[w].stage = "none"
  BY DEF Init, Idle
<1>3. \A p \in Plugins : ~IsInstalled(p) /\ ShowsDisk(p)
  BY DEF Init, IsInstalled, ShowsDisk
<1>4. Recursion /\ Incomplete /\ IconIsHalfway
  BY <1>2 DEF Recursion, Incomplete, IconIsHalfway, Writing
<1>5. DependenciesSoFar
  BY <1>2, <1>3 DEF DependenciesSoFar, Satisfied, FoundByPackage, OthersFind, TakesDependents,
                    Writing
<1>6. ButtonsSoFar /\ ScreenShape
  BY <1>3 DEF ButtonsSoFar, ScreenShape, Init
<1> QED BY <1>1, <1>4, <1>5, <1>6 DEF StoreInv

------------------------------------------------------------------------------
(* Where an operation is.                                                   *)

\* The plugins an operation is about are plugins.
LEMMA PluginsInHand ==
    ASSUME Recursion, NEW w \in Workers, op[w].stage # "none"
    PROVE  /\ Root(w) \in Plugins /\ Current(w) \in Plugins
           /\ Top(w) \in Frames /\ Len(op[w].stack) \in Nat \ {0}
           /\ op[w].stack \in Seq(Frames)
<1>1. op[w].stack \in Seq(Frames) /\ op[w].stack # <<>>
  BY DEF Recursion
<1>2. Len(op[w].stack) \in Nat \ {0}
  BY <1>1
<1>3. op[w].stack[1] \in Frames /\ op[w].stack[Len(op[w].stack)] \in Frames
  BY <1>1, <1>2
<1> QED BY <1>1, <1>2, <1>3 DEF Root, Current, Top, Frames, Last

LEMMA DependsOnPlugins ==
    ASSUME NEW p \in Plugins, NEW d \in Range(Depends[p]) PROVE d \in Plugins
BY StoreAssumption DEF StoreAssumption, Range

\* The shape of what a step leaves, and the fields of the operation it leaves.
Left(w, stage, stack, todo, halfway) ==
    /\ op' = [v \in Workers |-> op'[v]]
    /\ \A v \in Workers : op'[v] = [f \in Fields |-> op'[v][f]]
    /\ op'[w].stage = stage
    /\ op'[w].kind = op[w].kind
    /\ op'[w].stack = stack
    /\ op'[w].todo = todo
    /\ op'[w].halfway = halfway

\* A call of _install_recursive alone.
LEMMA StackLeaves ==
    ASSUME Shape, NEW w \in Workers, NEW stack, op' = [op EXCEPT ![w].stack = stack]
    PROVE  Left(w, op[w].stage, stack, op[w].todo, op[w].halfway)
BY DEF Shape, Fields, Left

LEMMA GotoLeaves ==
    ASSUME Shape, NEW w \in Workers, NEW stage, Goto(w, stage)
    PROVE  Left(w, stage, op[w].stack, op[w].todo, op[w].halfway)
BY ZenonT(60) DEF Shape, Goto, Fields, Left

LEMMA HalfwayLeaves ==
    ASSUME Shape, NEW w \in Workers, NEW stage, NEW halfway,
           op' = [op EXCEPT ![w].stage = stage, ![w].halfway = halfway]
    PROVE  Left(w, stage, op[w].stack, op[w].todo, halfway)
BY ZenonT(60) DEF Shape, Fields, Left

LEMMA ReturnLeaves ==
    ASSUME Shape, NEW w \in Workers, NEW stack, NEW halfway,
           op' = [op EXCEPT ![w].stack = stack, ![w].stage = "returned", ![w].halfway = halfway]
    PROVE  Left(w, "returned", stack, op[w].todo, halfway)
BY ZenonT(60) DEF Shape, Fields, Left

LEMMA AdvanceLeaves ==
    ASSUME Shape, Recursion, NEW w \in Workers, op[w].stage # "none", Advance(w)
    PROVE  \E stack : /\ Left(w, "depends", stack, op[w].todo, op[w].halfway)
                      /\ stack \in Seq(Frames) /\ stack # <<>>
                      /\ stack[1].plugin = Root(w) /\ Last(stack).plugin = Current(w)
<1> DEFINE old == op[w].stack
           n == Len(old)
           stack == [old EXCEPT ![n] = NextFrame(w)]
<1>1. old \in Seq(Frames) /\ n \in Nat \ {0}
  BY PluginsInHand
<1>2. Left(w, "depends", stack, op[w].todo, op[w].halfway)
  <2>1. op' = [op EXCEPT ![w].stage = "depends", ![w].stack = stack]
    BY DEF Advance
  <2> HIDE DEF stack
  <2> QED BY <2>1, ZenonT(60) DEF Shape, Fields, Left
<1>3. NextFrame(w) \in Frames
  <2>1. Top(w) \in Frames
    BY PluginsInHand
  <2> QED BY <2>1 DEF NextFrame, Frames, Current
<1>4. stack \in Seq(Frames) /\ Len(stack) = n
  BY <1>1, <1>3
<1>5. NextFrame(w).plugin = old[n].plugin
  BY DEF NextFrame, Current, Top, Last
<1>6. stack[1].plugin = old[1].plugin /\ stack[n].plugin = old[n].plugin
  BY <1>1, <1>5
<1> HIDE DEF stack
<1> QED BY <1>1, <1>2, <1>4, <1>6 DEF Last, Root, Current, Top

\* An operation that ends or fails.
LEMMA IdleIsLeft ==
    ASSUME Shape, NEW w \in Workers, op' = [op EXCEPT ![w] = Idle]
    PROVE  /\ op' = [v \in Workers |-> op'[v]]
           /\ \A v \in Workers : op'[v] = [f \in Fields |-> op'[v][f]]
           /\ op'[w].stage = "none"
BY DEF Shape, Fields, Idle

------------------------------------------------------------------------------
(* What steps have in common.                                               *)

\* What the operation in hand is to make known is its root plugin, unless it is in
\* the middle of the current one.
LEMMA RootIsHeardOf ==
    ASSUME NEW w \in Workers, op[w].stage \notin Writing \cup {"icon"}, NEW p, ToBeHeardOf(w, p)
    PROVE  op[w].kind = "store" /\ p = Root(w) /\ op[w].stage # "none"
BY DEF ToBeHeardOf

\* A step before anything is written, to another such step or to the removal.
LEMMA StepsAhead ==
    ASSUME StoreInv, NEW w \in Workers, \A v \in Workers : v = w,
           op[w].stage \notin Writing \cup {"none", "icon", "remove"},
           NEW stage \in {"depends", "package", "replace", "remove"}, NEW stack, NEW todo,
           Left(w, stage, stack, todo, op[w].halfway),
           stack \in Seq(Frames), stack # <<>>, stack[1].plugin = Root(w),
           stage = "replace" => /\ Last(stack).plugin = Current(w)
                                /\ \A d \in Range(Depends[Current(w)]) : Exists(d),
           stage = "remove" => /\ todo \in Seq(Plugins) /\ todo # <<>>
                               /\ \A p \in Plugins : IsInstalled(p) =>
                                    \A d \in Range(Depends[p]) :
                                      d \in ElementsOf(todo) => p \in ElementsOf(todo),
           UNCHANGED <<disk, button, open, changed, results, harmed>>
    PROVE  StoreInv'
<1>1. Shape' /\ ScreenShape'
  BY DEF StoreInv, Shape, ScreenShape, Left
<1>2. op'[w].stage = stage /\ op'[w].stack = stack /\ op'[w].todo = todo
      /\ op'[w].kind = op[w].kind
  BY DEF Left
<1>3. Recursion'
  BY <1>2 DEF Recursion
<1>4. Incomplete' /\ IconIsHalfway'
  BY <1>2 DEF Incomplete, IconIsHalfway, Writing
<1>5. Current(w)' = Last(stack).plugin /\ Root(w)' = Root(w)
  BY <1>2 DEF Current, Root, Top
<1>6. DependenciesSoFar'
  <2> SUFFICES ASSUME ~harmed PROVE DependenciesSoFar'
    BY DEF DependenciesSoFar
  <2>1. Satisfied
    BY DEF StoreInv, DependenciesSoFar
  <2>2. Satisfied'
    BY <2>1 DEF Satisfied, IsInstalled, Exists
  <2>3. FoundByPackage(w)'
    <3>1. stage = "replace" => /\ Current(w)' = Current(w)
                               /\ \A d \in Range(Depends[Current(w)]) : Exists(d)'
      BY <1>5 DEF Exists
    <3> QED BY <1>2, <3>1 DEF FoundByPackage, Writing
  <2>4. OthersFind(w)'
    BY <1>2 DEF OthersFind, Writing
  <2>5. TakesDependents(w)'
    <3> SUFFICES ASSUME stage = "remove", NEW p \in Plugins, IsInstalled(p),
                        NEW d \in Range(Depends[p]), ~Exists(d) \/ d \in ElementsOf(todo)
                 PROVE  p \in ElementsOf(todo)
      BY <1>2 DEF TakesDependents, IsInstalled, Exists, ElementsOf
    <3> QED BY <2>1 DEF Satisfied
  <2> QED BY <2>2, <2>3, <2>4, <2>5 DEF DependenciesSoFar
<1>7. ButtonsSoFar'
  <2> SUFFICES ASSUME open, ~harmed, NEW p \in Plugins
               PROVE  \/ p \in changed \/ Reported(p) \/ ShowsDisk(p)
                      \/ ToBeHeardOf(w, p)'
    BY DEF ButtonsSoFar, Reported, ShowsDisk, IsInstalled
  <2>1. CASE ToBeHeardOf(w, p)
    BY <1>2, <1>5, <2>1, RootIsHeardOf DEF ToBeHeardOf
  <2> QED BY <2>1 DEF StoreInv, ButtonsSoFar
<1> QED BY <1>1, <1>3, <1>4, <1>6, <1>7 DEF StoreInv

\* An operation that has changed what is installed, and fails, does harm; any other
\* failure leaves the dependencies as they were.
LEMMA FailureKeeps ==
    ASSUME StoreInv, NEW w \in Workers, \A v \in Workers : v = w,
           op[w].stage # "none", Fail(w),
           \/ disk' = disk
           \/ /\ op[w].stage \in Writing \cup {"icon"}
              /\ disk' = [disk EXCEPT ![Current(w)] = {}]
    PROVE  StoreInv'
<1>1. op' = [op EXCEPT ![w] = Idle] /\ harmed' = (harmed \/ op[w].halfway) /\ Report(w)
      /\ UNCHANGED <<button, open, changed>>
  BY DEF Fail
<1>2. /\ op' = [v \in Workers |-> op'[v]]
      /\ \A v \in Workers : op'[v] = [f \in Fields |-> op'[v][f]]
      /\ op'[w].stage = "none"
  BY <1>1, IdleIsLeft DEF StoreInv
<1>3. Shape' /\ ScreenShape'
  BY <1>1, <1>2 DEF StoreInv, Shape, ScreenShape
<1>4. Recursion' /\ Incomplete' /\ IconIsHalfway'
  BY <1>2 DEF Recursion, Incomplete, IconIsHalfway, Writing
<1>5. Current(w) \in Plugins /\ Root(w) \in Plugins
  BY PluginsInHand DEF StoreInv
<1> DEFINE c == Current(w)
<1>6. \A p \in Plugins : disk'[p] = disk[p] \/ (p = c /\ disk'[p] = {})
  BY <1>5 DEF StoreInv, Shape
<1>7. ASSUME ~harmed'
      PROVE  /\ op[w].stage # "icon"
             /\ op[w].stage \in Writing => ~IsInstalled(c)
             /\ op[w].stage \notin Writing => disk' = disk
             /\ ~op[w].halfway /\ ~harmed
  BY <1>1, <1>7 DEF StoreInv, IconIsHalfway, Incomplete, IsInstalled
<1>8. DependenciesSoFar'
  <2> SUFFICES ASSUME ~harmed' PROVE Satisfied'
    BY <1>2 DEF DependenciesSoFar, FoundByPackage, OthersFind, TakesDependents, Writing
  <2> SUFFICES ASSUME NEW p \in Plugins, IsInstalled(p)', NEW d \in Range(Depends[p])
               PROVE  Exists(d)'
    BY DEF Satisfied
  <2>1. IsInstalled(p) /\ disk'[p] = disk[p]
    BY <1>6 DEF IsInstalled
  <2>2. CASE op[w].stage \in Writing
    <3>1. p # c
      BY <1>7, <2>1, <2>2
    <3>2. d # c /\ Exists(d)
      BY <1>7, <2>1, <2>2, <3>1 DEF StoreInv, DependenciesSoFar, OthersFind
    <3> QED BY <1>6, <3>2, DependsOnPlugins DEF Exists
  <2>3. CASE op[w].stage \notin Writing
    <3>1. disk' = disk /\ Satisfied
      BY <1>7, <2>3 DEF StoreInv, DependenciesSoFar
    <3> QED BY <2>1, <3>1 DEF Satisfied, Exists
  <2> QED BY <2>2, <2>3
<1>9. ButtonsSoFar'
  <2> SUFFICES ASSUME open, ~harmed', NEW p \in Plugins
               PROVE  p \in changed \/ Reported(p)' \/ ShowsDisk(p)'
    BY <1>1 DEF ButtonsSoFar
  <2>1. Reported(p) => Reported(p)'
    BY <1>1 DEF Report, Reported
  <2>2. ShowsDisk(p) => ShowsDisk(p)'
    <3>1. IsInstalled(p)' = IsInstalled(p)
      BY <1>6, <1>7 DEF IsInstalled, Writing
    <3> QED BY <1>1, <3>1 DEF ShowsDisk
  <2>3. ToBeHeardOf(w, p) => Reported(p)'
    <3>1. ToBeHeardOf(w, p) => op[w].kind = "store" /\ p = Root(w)
      BY <1>7 DEF ToBeHeardOf
    <3> QED BY <1>1, <3>1 DEF Report, Reported
  <2> QED BY <1>7, <2>1, <2>2, <2>3 DEF StoreInv, ButtonsSoFar
<1> QED BY <1>3, <1>4, <1>8, <1>9 DEF StoreInv

\* The directory of the current plugin is written, and does not count as installed
\* before or after.
LEMMA WritingOn ==
    ASSUME StoreInv, NEW w \in Workers, \A v \in Workers : v = w,
           op[w].stage \in Writing, NEW stage \in Writing,
           Left(w, stage, op[w].stack, op[w].todo, op[w].halfway),
           NEW content, "dir" \in content, "info" \notin content,
           disk' = [disk EXCEPT ![Current(w)] = content],
           UNCHANGED <<button, open, changed, results, harmed>>
    PROVE  StoreInv'
<1> DEFINE c == Current(w)
<1>1. Shape' /\ ScreenShape'
  BY DEF StoreInv, Shape, ScreenShape, Left
<1>2. /\ op'[w].stage = stage /\ op'[w].stack = op[w].stack /\ op'[w].todo = op[w].todo
      /\ op'[w].kind = op[w].kind /\ op'[w].halfway = op[w].halfway
  BY DEF Left
<1>3. op[w].stage \notin {"none", "icon", "remove"} /\ stage \notin {"none", "icon", "remove"}
  BY DEF Writing
<1>4. c \in Plugins /\ Root(w) \in Plugins
  BY <1>3, PluginsInHand DEF StoreInv
<1>5. Current(w)' = c /\ Root(w)' = Root(w)
  BY <1>2 DEF Current, Top, Root
<1>6. /\ \A p \in Plugins : disk'[p] = IF p = c THEN content ELSE disk[p]
      /\ \A p \in Plugins : Exists(p) => Exists(p)'
      /\ \A p \in Plugins : IsInstalled(p)' = IsInstalled(p)
      /\ ~IsInstalled(c)
  <2>1. \A p \in Plugins : disk'[p] = IF p = c THEN content ELSE disk[p]
    BY <1>4 DEF StoreInv, Shape
  <2>2. ~IsInstalled(c)
    BY DEF StoreInv, Incomplete, IsInstalled
  <2> QED BY <2>1, <2>2 DEF Exists, IsInstalled
<1>7. Recursion' /\ IconIsHalfway'
  BY <1>2, <1>3 DEF Recursion, IconIsHalfway, StoreInv
<1>8. Incomplete'
  BY <1>4, <1>5, <1>6 DEF Incomplete
<1>9. DependenciesSoFar'
  <2> SUFFICES ASSUME ~harmed PROVE DependenciesSoFar'
    BY DEF DependenciesSoFar
  <2>1. FoundByPackage(w) /\ OthersFind(w)
    BY DEF StoreInv, DependenciesSoFar
  <2>2. FoundByPackage(w)'
    BY <1>4, <1>5, <1>6, <2>1, DependsOnPlugins DEF FoundByPackage
  <2>3. OthersFind(w)'
    <3> SUFFICES ASSUME NEW p \in Plugins, p # c, IsInstalled(p), NEW d \in Range(Depends[p])
                 PROVE  IF d = c THEN op[w].halfway ELSE Exists(d)'
      BY <1>2, <1>5, <1>6 DEF OthersFind
    <3>1. IF d = c THEN op[w].halfway ELSE Exists(d)
      BY <2>1 DEF OthersFind
    <3> QED BY <1>6, <3>1, DependsOnPlugins
  <2>4. TakesDependents(w)'
    BY <1>2, <1>3 DEF TakesDependents
  <2> QED BY <1>2, <1>3, <2>2, <2>3, <2>4 DEF DependenciesSoFar
<1>10. ButtonsSoFar'
  <2> SUFFICES ASSUME open, ~harmed, NEW p \in Plugins
               PROVE  p \in changed \/ Reported(p) \/ ShowsDisk(p)' \/ ToBeHeardOf(w, p)'
    BY DEF ButtonsSoFar, Reported
  <2>1. ToBeHeardOf(w, p) => ToBeHeardOf(w, p)'
    BY <1>2, <1>3, <1>5 DEF ToBeHeardOf
  <2>2. ShowsDisk(p) => ShowsDisk(p)'
    BY <1>6 DEF ShowsDisk
  <2> QED BY <2>1, <2>2 DEF StoreInv, ButtonsSoFar
<1> QED BY <1>1, <1>7, <1>8, <1>9, <1>10 DEF StoreInv

\* The directory of the plugin in hand is removed, and the operation remembers
\* whether there was one.
LEMMA OldIsRemoved ==
    ASSUME StoreInv, NEW w \in Workers, \A v \in Workers : v = w, op[w].stage = "replace",
           Left(w, "resource", op[w].stack, op[w].todo, Exists(Current(w))),
           disk' = [disk EXCEPT ![Current(w)] = {}],
           UNCHANGED <<button, open, changed, results, harmed>>
    PROVE  StoreInv'
<1> DEFINE c == Current(w)
<1>1. Shape' /\ ScreenShape'
  BY DEF StoreInv, Shape, ScreenShape, Left
<1>2. /\ op'[w].stage = "resource" /\ op'[w].stack = op[w].stack
      /\ op'[w].kind = op[w].kind /\ op'[w].halfway = Exists(c)
  BY DEF Left
<1>3. c \in Plugins /\ Root(w) \in Plugins
  BY PluginsInHand DEF StoreInv
<1>4. Current(w)' = c /\ Root(w)' = Root(w)
  BY <1>2 DEF Current, Top, Root
<1>5. \A p \in Plugins : disk'[p] = IF p = c THEN {} ELSE disk[p]
  BY <1>3 DEF StoreInv, Shape
<1>6. Recursion' /\ IconIsHalfway'
  BY <1>2 DEF Recursion, IconIsHalfway, StoreInv
<1>7. Incomplete'
  BY <1>3, <1>4, <1>5 DEF Incomplete
<1>8. DependenciesSoFar'
  <2> SUFFICES ASSUME ~harmed PROVE DependenciesSoFar'
    BY DEF DependenciesSoFar
  <2>1. FoundByPackage(w) /\ Satisfied
    BY DEF StoreInv, DependenciesSoFar, Writing
  <2>2. FoundByPackage(w)'
    <3> SUFFICES ASSUME NEW d \in Range(Depends[c]), d # c PROVE Exists(d)'
      BY <1>4 DEF FoundByPackage
    <3>1. Exists(d) /\ d \in Plugins
      BY <1>3, <2>1, DependsOnPlugins DEF FoundByPackage
    <3> QED BY <1>5, <3>1 DEF Exists
  <2>3. OthersFind(w)'
    <3> SUFFICES ASSUME NEW p \in Plugins, p # c, IsInstalled(p)', NEW d \in Range(Depends[p])
                 PROVE  IF d = c THEN op'[w].halfway ELSE Exists(d)'
      BY <1>4 DEF OthersFind
    <3>1. Exists(d) /\ d \in Plugins
      BY <1>5, <2>1, DependsOnPlugins DEF Satisfied, IsInstalled
    <3>2. CASE d = c
      BY <1>2, <3>1, <3>2
    <3>3. CASE d # c
      BY <1>5, <3>1, <3>3 DEF Exists
    <3> QED BY <3>2, <3>3
  <2>4. TakesDependents(w)'
    BY <1>2 DEF TakesDependents
  <2> QED BY <1>2, <2>2, <2>3, <2>4 DEF DependenciesSoFar, Writing
<1>9. ButtonsSoFar'
  <2> SUFFICES ASSUME open, ~harmed, NEW p \in Plugins
               PROVE  p \in changed \/ Reported(p) \/ ShowsDisk(p)' \/ ToBeHeardOf(w, p)'
    BY DEF ButtonsSoFar, Reported
  <2>1. ToBeHeardOf(w, p) => ToBeHeardOf(w, p)'
    BY <1>2, <1>4 DEF ToBeHeardOf, Writing
  <2>2. CASE p = c /\ Exists(c)
    BY <1>2, <1>4, <2>2 DEF ToBeHeardOf, Writing
  <2>3. CASE ~(p = c /\ Exists(c))
    <3>1. IsInstalled(p)' = IsInstalled(p)
      BY <1>5, <2>3 DEF IsInstalled, Exists
    <3>2. ShowsDisk(p) => ShowsDisk(p)'
      BY <3>1 DEF ShowsDisk
    <3> QED BY <2>1, <3>2 DEF StoreInv, ButtonsSoFar
  <2> QED BY <2>2, <2>3
<1> QED BY <1>1, <1>6, <1>7, <1>8, <1>9 DEF StoreInv

\* With info.json the plugin counts as installed: what it depends on is there.
LEMMA InfoIsWritten ==
    ASSUME StoreInv, NEW w \in Workers, \A v \in Workers : v = w, op[w].stage = "info",
           Left(w, "icon", op[w].stack, op[w].todo, TRUE), Exists(Current(w)),
           disk' = [disk EXCEPT ![Current(w)] = @ \cup {"info"}],
           UNCHANGED <<button, open, changed, results, harmed>>
    PROVE  StoreInv'
<1> DEFINE c == Current(w)
<1>1. Shape' /\ ScreenShape'
  BY DEF StoreInv, Shape, ScreenShape, Left
<1>2. /\ op'[w].stage = "icon" /\ op'[w].stack = op[w].stack
      /\ op'[w].kind = op[w].kind /\ op'[w].halfway
  BY DEF Left
<1>3. c \in Plugins /\ Root(w) \in Plugins
  BY PluginsInHand DEF StoreInv
<1>4. Current(w)' = c /\ Root(w)' = Root(w)
  BY <1>2 DEF Current, Top, Root
<1>5. /\ \A p \in Plugins : p # c => disk'[p] = disk[p]
      /\ \A p \in Plugins : Exists(p) => Exists(p)'
  <2>1. \A p \in Plugins : disk'[p] = IF p = c THEN disk[p] \cup {"info"} ELSE disk[p]
    BY <1>3 DEF StoreInv, Shape
  <2> QED BY <2>1 DEF Exists
<1>6. Recursion' /\ IconIsHalfway' /\ Incomplete'
  BY <1>2 DEF Recursion, IconIsHalfway, StoreInv, Incomplete, Writing
<1>7. DependenciesSoFar'
  <2> SUFFICES ASSUME ~harmed PROVE DependenciesSoFar'
    BY DEF DependenciesSoFar
  <2>1. FoundByPackage(w) /\ OthersFind(w)
    BY DEF StoreInv, DependenciesSoFar
  <2>2. Satisfied'
    <3> SUFFICES ASSUME NEW p \in Plugins, IsInstalled(p)', NEW d \in Range(Depends[p])
                 PROVE  Exists(d)'
      BY DEF Satisfied
    <3>1. d = c \/ Exists(d)
      <4>1. CASE p = c
        BY <2>1, <4>1 DEF FoundByPackage, Writing
      <4>2. CASE p # c
        BY <1>5, <2>1, <4>2 DEF OthersFind, Writing, IsInstalled
      <4> QED BY <4>1, <4>2
    <3> QED BY <1>3, <1>5, <3>1, DependsOnPlugins
  <2> QED BY <1>2, <2>2 DEF DependenciesSoFar, Writing, FoundByPackage, OthersFind,
                            TakesDependents
<1>8. ButtonsSoFar'
  <2> SUFFICES ASSUME open, ~harmed, NEW p \in Plugins
               PROVE  p \in changed \/ Reported(p) \/ ShowsDisk(p)' \/ ToBeHeardOf(w, p)'
    BY DEF ButtonsSoFar, Reported
  <2>1. CASE p = c
    BY <1>2, <1>4, <2>1 DEF ToBeHeardOf
  <2>2. CASE p # c
    <3>1. ToBeHeardOf(w, p) => ToBeHeardOf(w, p)'
      BY <1>2, <1>4, <2>2 DEF ToBeHeardOf
    <3>2. ShowsDisk(p) => ShowsDisk(p)'
      BY <1>5, <2>2 DEF ShowsDisk, IsInstalled
    <3> QED BY <3>1, <3>2 DEF StoreInv, ButtonsSoFar
  <2> QED BY <2>1, <2>2
<1> QED BY <1>1, <1>6, <1>7, <1>8 DEF StoreInv

\* The operation is over and nothing is left missing: what it has to make known is
\* its result or a published event.
LEMMA SuccessKeeps ==
    ASSUME StoreInv, NEW w \in Workers, \A v \in Workers : v = w,
           op[w].stage \in {"icon", "remove"}, op' = [op EXCEPT ![w] = Idle], Report(w),
           NEW c \in Plugins, changed' = changed \cup {c},
           op[w].stage = "icon" => c = Current(w),
           \A p \in Plugins \ {c} : disk'[p] = disk[p], disk' = [p \in Plugins |-> disk'[p]],
           ~harmed => Satisfied',
           UNCHANGED <<button, open, harmed>>
    PROVE  StoreInv'
<1>1. /\ op' = [v \in Workers |-> op'[v]]
      /\ \A v \in Workers : op'[v] = [f \in Fields |-> op'[v][f]]
      /\ op'[w].stage = "none"
  BY IdleIsLeft DEF StoreInv
<1>2. Shape' /\ ScreenShape'
  BY <1>1 DEF StoreInv, Shape, ScreenShape
<1>3. Recursion' /\ Incomplete' /\ IconIsHalfway'
  BY <1>1 DEF Recursion, Incomplete, IconIsHalfway, Writing
<1>4. DependenciesSoFar'
  BY <1>1 DEF DependenciesSoFar, FoundByPackage, OthersFind, TakesDependents, Writing
<1>5. ButtonsSoFar'
  <2> SUFFICES ASSUME open, ~harmed, NEW p \in Plugins
               PROVE  p \in changed' \/ Reported(p)' \/ ShowsDisk(p)'
    BY DEF ButtonsSoFar
  <2>1. CASE p = c
    BY <2>1
  <2>2. CASE p # c
    <3>1. ToBeHeardOf(w, p) => op[w].kind = "store" /\ p = Root(w)
      BY <2>2 DEF ToBeHeardOf, Writing
    <3>2. ToBeHeardOf(w, p) => Reported(p)'
      BY <3>1 DEF Report, Reported
    <3>3. Reported(p) => Reported(p)'
      BY DEF Report, Reported
    <3>4. ShowsDisk(p) => ShowsDisk(p)'
      BY <2>2 DEF ShowsDisk, IsInstalled
    <3> QED BY <3>2, <3>3, <3>4 DEF StoreInv, ButtonsSoFar
  <2> QED BY <2>1, <2>2
<1> QED BY <1>2, <1>3, <1>4, <1>5 DEF StoreInv

\* The caller goes on with its next dependency.
LEMMA CallerIsReturnedTo ==
    ASSUME StoreInv, NEW w \in Workers, \A v \in Workers : v = w, op[w].stage = "icon",
           NEW stack, Left(w, "returned", stack, op[w].todo, FALSE),
           stack \in Seq(Frames), stack # <<>>, stack[1].plugin = Root(w),
           changed' = changed \cup {Current(w)},
           UNCHANGED <<disk, button, open, results, harmed>>
    PROVE  StoreInv'
<1>1. Shape' /\ ScreenShape'
  BY DEF StoreInv, Shape, ScreenShape, Left
<1>2. /\ op'[w].stage = "returned" /\ op'[w].stack = stack
      /\ op'[w].kind = op[w].kind
  BY DEF Left
<1>3. Root(w)' = Root(w)
  BY <1>2 DEF Root
<1>4. Recursion' /\ Incomplete' /\ IconIsHalfway'
  BY <1>2 DEF Recursion, Incomplete, IconIsHalfway, Writing
<1>5. DependenciesSoFar'
  <2> SUFFICES ASSUME ~harmed PROVE Satisfied'
    BY <1>2 DEF DependenciesSoFar, FoundByPackage, OthersFind, TakesDependents, Writing
  <2> QED BY DEF StoreInv, DependenciesSoFar, Writing, Satisfied, IsInstalled, Exists
<1>6. ButtonsSoFar'
  <2> SUFFICES ASSUME open, ~harmed, NEW p \in Plugins
               PROVE  p \in changed' \/ Reported(p) \/ ShowsDisk(p) \/ ToBeHeardOf(w, p)'
    BY DEF ButtonsSoFar, Reported, ShowsDisk, IsInstalled
  <2>1. ToBeHeardOf(w, p) => ToBeHeardOf(w, p)' \/ p = Current(w)
    BY <1>2, <1>3 DEF ToBeHeardOf, Writing
  <2> QED BY <2>1 DEF StoreInv, ButtonsSoFar
<1> QED BY <1>1, <1>4, <1>5, <1>6 DEF StoreInv

\* What is left to remove after one more removal.
LEMMA RemovalLeaves ==
    ASSUME StoreInv, NEW w \in Workers, \A v \in Workers : v = w, op[w].stage = "remove",
           disk' = [disk EXCEPT ![Head(op[w].todo)] = {}],
           UNCHANGED harmed
    PROVE  /\ Head(op[w].todo) \in Plugins
           /\ \A p \in Plugins \ {Head(op[w].todo)} : disk'[p] = disk[p]
           /\ disk' = [p \in Plugins |-> disk'[p]]
           /\ Len(op[w].todo) = 1 => (~harmed => Satisfied')
           /\ Len(op[w].todo) # 1 =>
                /\ Tail(op[w].todo) \in Seq(Plugins) /\ Tail(op[w].todo) # <<>>
                /\ ~harmed => \A p \in Plugins : IsInstalled(p)' =>
                     \A d \in Range(Depends[p]) :
                       \/ Exists(d)' /\ d \notin ElementsOf(Tail(op[w].todo))
                       \/ p \in ElementsOf(Tail(op[w].todo))
           /\ ~harmed /\ ~op[w].halfway /\ ~Exists(Head(op[w].todo)) => Satisfied'
<1> DEFINE t == op[w].todo
           h == Head(t)
<1>1. t \in Seq(Plugins) /\ t # <<>>
  BY DEF StoreInv, Recursion
<1>2. /\ h \in Plugins /\ Len(t) \in Nat \ {0}
      /\ ElementsOf(t) = {h} \cup ElementsOf(Tail(t))
      /\ Len(t) = 1 => ElementsOf(Tail(t)) = {}
      /\ Len(t) # 1 => Tail(t) \in Seq(Plugins) /\ Tail(t) # <<>>
  <2>1. h = t[1] /\ h \in Plugins /\ Len(t) \in Nat \ {0}
    BY <1>1
  <2>2. Len(Tail(t)) = Len(t) - 1 /\ \A i \in 1 .. Len(t) - 1 : Tail(t)[i] = t[i + 1]
    BY <1>1
  <2>3. \A i \in 1 .. Len(t) : i = 1 \/ (i - 1 \in 1 .. Len(t) - 1 /\ t[i] = Tail(t)[i - 1])
    BY <2>1, <2>2
  <2>4. \A i \in 1 .. Len(t) - 1 : i + 1 \in 1 .. Len(t) /\ t[i + 1] = Tail(t)[i]
    BY <2>1, <2>2
  <2>5. ElementsOf(t) = {h} \cup ElementsOf(Tail(t))
    <3>1. ElementsOf(t) \subseteq {h} \cup ElementsOf(Tail(t))
      BY <2>1, <2>2, <2>3 DEF ElementsOf
    <3>2. h \in ElementsOf(t)
      BY <2>1 DEF ElementsOf
    <3>3. ElementsOf(Tail(t)) \subseteq ElementsOf(t)
      BY <2>2, <2>4 DEF ElementsOf
    <3> QED BY <3>1, <3>2, <3>3
  <2>6. Len(t) = 1 => ElementsOf(Tail(t)) = {}
    BY <2>2 DEF ElementsOf
  <2>7. Len(t) # 1 => Tail(t) \in Seq(Plugins) /\ Tail(t) # <<>>
    <3>1. Tail(t) \in Seq(Plugins)
      BY <1>1
    <3>2. Len(t) # 1 => Len(Tail(t)) # 0
      BY <2>1, <2>2
    <3> QED BY <3>1, <3>2
  <2> QED BY <2>1, <2>5, <2>6, <2>7
<1>3. \A p \in Plugins : disk'[p] = IF p = h THEN {} ELSE disk[p]
  BY <1>2 DEF StoreInv, Shape
<1>4. disk' = [p \in Plugins |-> disk'[p]]
  BY DEF StoreInv, Shape
<1>5. ASSUME ~harmed, NEW p \in Plugins, IsInstalled(p)', NEW d \in Range(Depends[p])
      PROVE  (Exists(d)' /\ d \notin ElementsOf(Tail(t))) \/ p \in ElementsOf(Tail(t))
  <2>1. p # h /\ IsInstalled(p) /\ d \in Plugins
    BY <1>3, <1>5, DependsOnPlugins DEF IsInstalled
  <2>2. TakesDependents(w)
    BY <1>5 DEF StoreInv, DependenciesSoFar
  <2>3. (Exists(d) /\ d \notin ElementsOf(t)) \/ p \in ElementsOf(t)
    BY <2>1, <2>2 DEF TakesDependents
  <2>4. Exists(d) /\ d # h => Exists(d)'
    BY <1>3, <2>1 DEF Exists
  <2> QED BY <1>2, <2>1, <2>3, <2>4
<1>6. Len(t) = 1 => (~harmed => Satisfied')
  BY <1>2, <1>5 DEF Satisfied
<1>7. ASSUME ~harmed, ~op[w].halfway, ~Exists(h) PROVE Satisfied'
  <2>1. Satisfied
    BY <1>7 DEF StoreInv, DependenciesSoFar
  <2> SUFFICES ASSUME NEW p \in Plugins, IsInstalled(p)', NEW d \in Range(Depends[p])
               PROVE  Exists(d)'
    BY DEF Satisfied
  <2>2. IsInstalled(p) /\ d \in Plugins
    BY <1>3, DependsOnPlugins DEF IsInstalled
  <2>3. Exists(d) /\ d # h
    BY <1>7, <2>1, <2>2 DEF Satisfied
  <2> QED BY <1>3, <2>2, <2>3 DEF Exists
<1> QED BY <1>2, <1>3, <1>4, <1>5, <1>6, <1>7

LEMMA RemovalGoesOn ==
    ASSUME StoreInv, NEW w \in Workers, \A v \in Workers : v = w, op[w].stage = "remove",
           Len(op[w].todo) # 1,
           Left(w, "remove", op[w].stack, Tail(op[w].todo),
                op[w].halfway \/ Exists(Head(op[w].todo))),
           disk' = [disk EXCEPT ![Head(op[w].todo)] = {}],
           changed' = changed \cup {Head(op[w].todo)},
           UNCHANGED <<button, open, results, harmed>>
    PROVE  StoreInv'
<1> DEFINE t == op[w].todo
           h == Head(t)
<1>1. Shape' /\ ScreenShape'
  BY DEF StoreInv, Shape, ScreenShape, Left
<1>2. /\ op'[w].stage = "remove" /\ op'[w].stack = op[w].stack /\ op'[w].todo = Tail(t)
      /\ op'[w].kind = op[w].kind /\ op'[w].halfway = (op[w].halfway \/ Exists(h))
  BY DEF Left
<1>3. Root(w)' = Root(w)
  BY <1>2 DEF Root
<1>4. /\ h \in Plugins
      /\ \A p \in Plugins \ {h} : disk'[p] = disk[p]
      /\ Tail(t) \in Seq(Plugins) /\ Tail(t) # <<>>
      /\ ~harmed => \A p \in Plugins : IsInstalled(p)' => \A d \in Range(Depends[p]) :
           (Exists(d)' /\ d \notin ElementsOf(Tail(t))) \/ p \in ElementsOf(Tail(t))
      /\ ~harmed /\ ~op[w].halfway /\ ~Exists(h) => Satisfied'
  BY RemovalLeaves
<1>5. Recursion' /\ Incomplete' /\ IconIsHalfway'
  BY <1>2, <1>4, ZenonT(60) DEF Recursion, Incomplete, IconIsHalfway, Writing, StoreInv
<1>6. DependenciesSoFar'
  <2> SUFFICES ASSUME ~harmed PROVE DependenciesSoFar'
    BY DEF DependenciesSoFar
  <2>1. TakesDependents(w)'
    <3> SUFFICES ASSUME NEW p \in Plugins, IsInstalled(p)', NEW d \in Range(Depends[p]),
                        ~Exists(d)' \/ d \in ElementsOf(Tail(t))
                 PROVE  p \in ElementsOf(Tail(t))
      BY <1>2 DEF TakesDependents, ElementsOf
    <3> QED BY <1>4
  <2>2. op'[w].halfway \/ Satisfied'
    BY <1>2, <1>4
  <2>3. FoundByPackage(w)' /\ OthersFind(w)'
    BY <1>2 DEF FoundByPackage, OthersFind, Writing
  <2> QED BY <1>2, <2>1, <2>2, <2>3 DEF DependenciesSoFar
<1>7. ButtonsSoFar'
  <2> SUFFICES ASSUME open, ~harmed, NEW p \in Plugins
               PROVE  p \in changed' \/ Reported(p) \/ ShowsDisk(p)' \/ ToBeHeardOf(w, p)'
    BY DEF ButtonsSoFar, Reported
  <2>1. ToBeHeardOf(w, p) => ToBeHeardOf(w, p)'
    BY <1>2, <1>3 DEF ToBeHeardOf, Writing
  <2>2. ShowsDisk(p) /\ p # h => ShowsDisk(p)'
    BY <1>4 DEF ShowsDisk, IsInstalled
  <2> QED BY <2>1, <2>2 DEF StoreInv, ButtonsSoFar
<1> QED BY <1>1, <1>5, <1>6, <1>7 DEF StoreInv

------------------------------------------------------------------------------
(* The steps themselves.                                                    *)

LEMMA StoreDependsStep ==
    ASSUME StoreInv, NEW w \in Workers, \A v \in Workers : v = w,
           \/ SkipInstalled(w) \/ EnterDependency(w) \/ RefuseDependency(w)
           \/ AfterDependency(w) \/ Download(w)
    PROVE  StoreInv'
<1> USE DEF OnlyOp, At
<1>1. Shape /\ Recursion
  BY DEF StoreInv
<1>2. op[w].stage \in {"depends", "returned"}
  BY DEF SkipInstalled, EnterDependency, RefuseDependency, AfterDependency, Download
<1>3. op[w].stage \notin Writing \cup {"none", "icon", "remove"}
  BY <1>2 DEF Writing
<1>4. ASSUME Advance(w), UNCHANGED <<disk, button, open, changed, results, harmed>>
      PROVE  StoreInv'
  <2>1. PICK stack : /\ Left(w, "depends", stack, op[w].todo, op[w].halfway)
                     /\ stack \in Seq(Frames) /\ stack # <<>>
                     /\ stack[1].plugin = Root(w)
    BY <1>1, <1>3, <1>4, AdvanceLeaves
  <2> QED BY <1>3, <1>4, <2>1, StepsAhead
<1>5. ASSUME Fail(w), disk' = disk PROVE StoreInv'
  BY <1>3, <1>5, FailureKeeps
<1>6. CASE SkipInstalled(w)
  BY <1>4, <1>6 DEF SkipInstalled
<1>7. CASE EnterDependency(w)
  <2> DEFINE stack == Append(op[w].stack, Frame(Dependency(w)))
  <2>1. op' = [op EXCEPT ![w].stack = stack]
    BY <1>7 DEF EnterDependency
  <2>2. Left(w, "depends", stack, op[w].todo, op[w].halfway)
    <3> HIDE DEF stack
    <3>1. op[w].stage = "depends"
      BY <1>7 DEF EnterDependency, At
    <3> QED BY <1>1, <2>1, <3>1, StackLeaves, Zenon
  <2>3. op[w].stack \in Seq(Frames) /\ op[w].stack # <<>> /\ Len(op[w].stack) \in Nat \ {0}
    BY <1>1, <1>3, PluginsInHand DEF Recursion
  <2>4. Frame(Dependency(w)) \in Frames
    BY <1>7, StoreAssumption DEF StoreAssumption, EnterDependency, Frame, Frames
  <2>5. stack \in Seq(Frames) /\ stack # <<>> /\ stack[1] = op[w].stack[1]
    BY <2>3, <2>4
  <2>6. stack[1].plugin = Root(w)
    BY <2>5 DEF Root
  <2> HIDE DEF stack
  <2>7. UNCHANGED <<disk, button, open, changed, results, harmed>>
    BY <1>7 DEF EnterDependency
  <2> QED BY <1>3, <2>2, <2>5, <2>6, <2>7, StepsAhead
<1>8. CASE RefuseDependency(w)
  BY <1>5, <1>8 DEF RefuseDependency
<1>9. CASE AfterDependency(w)
  BY <1>4, <1>5, <1>9 DEF AfterDependency
<1>10. CASE Download(w)
  <2>1. CASE Goto(w, "package") /\ OnlyOp
    <3>1. Left(w, "package", op[w].stack, op[w].todo, op[w].halfway)
      BY <1>1, <2>1, GotoLeaves
    <3>2. op[w].stack \in Seq(Frames) /\ op[w].stack # <<>> /\ op[w].stack[1].plugin = Root(w)
      BY <1>1, <1>3 DEF Recursion, Root
    <3> QED BY <1>3, <2>1, <3>1, <3>2, StepsAhead
  <2> QED BY <1>5, <1>10, <2>1 DEF Download
<1> QED BY <1>6, <1>7, <1>8, <1>9, <1>10

LEMMA StorePackageStep ==
    ASSUME StoreInv, NEW w \in Workers, \A v \in Workers : v = w,
           CheckPackage(w) \/ RemoveOld(w) \/ OpenResource(w) \/ Extract(w) \/ WriteInfo(w)
    PROVE  StoreInv'
<1> DEFINE c == Current(w)
<1> USE DEF OnlyOp, At
<1>1. Shape /\ Recursion /\ Incomplete
  BY DEF StoreInv
<1>2. CASE CheckPackage(w)
  <2>1. op[w].stage = "package" /\ op[w].stage \notin Writing \cup {"none", "icon", "remove"}
    BY <1>2 DEF CheckPackage, Writing
  <2>2. CASE /\ \A d \in Range(Depends[c]) : Exists(d)
             /\ Goto(w, "replace") /\ OnlyOp
    <3>1. Left(w, "replace", op[w].stack, op[w].todo, op[w].halfway)
      BY <1>1, <2>2, GotoLeaves
    <3>2. /\ op[w].stack \in Seq(Frames) /\ op[w].stack # <<>>
          /\ op[w].stack[1].plugin = Root(w) /\ Last(op[w].stack).plugin = c
      BY <1>1, <2>1 DEF Recursion, Root, Current, Top
    <3> QED BY <2>1, <2>2, <3>1, <3>2, StepsAhead
  <2> QED BY <1>2, <2>1, <2>2, FailureKeeps DEF CheckPackage
<1>3. CASE RemoveOld(w)
  <2>1. op[w].stage = "replace"
    BY <1>3 DEF RemoveOld
  <2>2. CASE Fail(w) /\ UNCHANGED disk
    BY <2>1, <2>2, FailureKeeps
  <2>3. CASE /\ disk' = [disk EXCEPT ![c] = {}]
             /\ op' = [op EXCEPT ![w].stage = "resource", ![w].halfway = Exists(c)]
             /\ UNCHANGED <<tasks, button, open, changed, results, harmed, starts>>
    BY <1>1, <2>1, <2>3, HalfwayLeaves, OldIsRemoved
  <2> QED BY <1>3, <2>2, <2>3, Zenon DEF RemoveOld
<1>4. CASE OpenResource(w)
  <2>1. op[w].stage \in Writing /\ op[w].stage # "none" /\ "first" \in Writing
    BY <1>4 DEF OpenResource, Writing
  <2>2. c \in Plugins /\ "info" \notin disk[c]
    BY <1>1, <2>1, PluginsInHand DEF Incomplete
  <2>3. CASE /\ disk' = [disk EXCEPT ![c] = @ \cup {"dir"}]
             /\ Goto(w, "first")
             /\ UNCHANGED <<tasks, button, open, changed, results, harmed, starts>>
    <3>1. disk' = [disk EXCEPT ![c] = disk[c] \cup {"dir"}]
      BY <2>3
    <3>2. Left(w, "first", op[w].stack, op[w].todo, op[w].halfway)
      BY <1>1, <2>3, GotoLeaves
    <3> QED BY <2>1, <2>2, <2>3, <3>1, <3>2, WritingOn
  <2> QED BY <1>4, <2>1, <2>3, FailureKeeps DEF OpenResource
<1>5. CASE Extract(w)
  <2> PICK m \in Members :
        /\ At(w, m)
        /\ \/ /\ disk' = [disk EXCEPT ![c] = @ \cup {"dir", m}]
              /\ Goto(w, IF m = "first" THEN "rest" ELSE "info")
              /\ UNCHANGED <<tasks, button, open, changed, results, harmed, starts>>
           \/ Fail(w) /\ (disk' = disk \/ disk' = [disk EXCEPT ![c] = {}])
    BY <1>5 DEF Extract
  <2> DEFINE stage == IF m = "first" THEN "rest" ELSE "info"
  <2>1. op[w].stage \in Writing /\ op[w].stage # "none" /\ stage \in Writing /\ m # "info"
    BY DEF Writing, Members
  <2>2. c \in Plugins /\ "info" \notin disk[c]
    BY <1>1, <2>1, PluginsInHand DEF Incomplete
  <2>3. CASE /\ disk' = [disk EXCEPT ![c] = @ \cup {"dir", m}]
             /\ Goto(w, stage)
             /\ UNCHANGED <<tasks, button, open, changed, results, harmed, starts>>
    <3>1. disk' = [disk EXCEPT ![c] = disk[c] \cup {"dir", m}]
      BY <2>3
    <3>2. Left(w, stage, op[w].stack, op[w].todo, op[w].halfway)
      BY <1>1, <2>3, GotoLeaves
    <3>3. "info" \notin disk[c] \cup {"dir", m}
      BY <2>1, <2>2
    <3> HIDE DEF stage
    <3> QED BY <2>1, <2>3, <3>1, <3>2, <3>3, WritingOn, ZenonT(60)
  <2> QED BY <2>1, <2>3, FailureKeeps
<1>6. CASE WriteInfo(w)
  <2>1. op[w].stage = "info" /\ op[w].stage \in Writing /\ op[w].stage # "none"
    BY <1>6 DEF WriteInfo, Writing
  <2>2. CASE /\ Exists(c)
             /\ disk' = [disk EXCEPT ![c] = @ \cup {"info"}]
             /\ op' = [op EXCEPT ![w].stage = "icon", ![w].halfway = TRUE]
             /\ UNCHANGED <<tasks, button, open, changed, results, harmed, starts>>
    BY <1>1, <2>1, <2>2, HalfwayLeaves, InfoIsWritten
  <2>3. CASE Fail(w) /\ disk' = [disk EXCEPT ![c] = {}]
    BY <2>1, <2>3, FailureKeeps
  <2> QED BY <1>6, <2>2, <2>3, Zenon DEF WriteInfo
<1> QED BY <1>2, <1>3, <1>4, <1>5, <1>6

LEMMA StoreRemovalStep ==
    ASSUME StoreInv, NEW w \in Workers, \A v \in Workers : v = w,
           Collect(w) \/ RemoveNext(w) \/ RemovalFails(w)
    PROVE  StoreInv'
<1> USE DEF OnlyOp, At
<1>1. Shape /\ Recursion
  BY DEF StoreInv
<1>2. CASE Collect(w)
  <2>1. op[w].stage = "collect" /\ op[w].stage \notin Writing \cup {"none", "icon", "remove"}
    BY <1>2 DEF Collect, Writing
  <2> DEFINE r == Root(w)
  <2>2. r \in Plugins
    BY <1>1, <2>1, PluginsInHand
  <2>3. PICK order \in SetToSeqs(Dependents(r)) :
          op' = [op EXCEPT ![w].stage = "remove", ![w].todo = Append(order, r)]
    BY <1>2 DEF Collect
  <2> DEFINE todo == Append(order, r)
  <2>4. /\ Dependents(r) \subseteq Plugins /\ IsFiniteSet(Dependents(r))
        /\ DependOn(Dependents(r) \cup {r}) \subseteq Dependents(r) \cup {r}
    <3>1. /\ Dependents(r) \subseteq Plugins
          /\ DependOn(Dependents(r) \cup {r}) \subseteq Dependents(r) \cup {r}
      BY <2>2, StoreAssumption, DependentsAreClosed
    <3>2. IsFiniteSet(Dependents(r))
      BY <3>1, StoreAssumption, FS_Subset DEF StoreAssumption
    <3> QED BY <3>1, <3>2
  <2>5. order \in Seq(Plugins) /\ {order[i] : i \in 1 .. Len(order)} = Dependents(r)
    BY <2>4, ListedOnce
  <2>6. todo \in Seq(Plugins) /\ todo # <<>> /\ ElementsOf(todo) = Dependents(r) \cup {r}
    <3>1. /\ todo \in Seq(Plugins) /\ todo # <<>> /\ Len(todo) = Len(order) + 1
          /\ Len(order) \in Nat
          /\ todo[Len(order) + 1] = r /\ \A i \in 1 .. Len(order) : todo[i] = order[i]
      BY <2>2, <2>5
    <3> HIDE DEF todo
    <3>2. 1 .. Len(order) + 1 = 1 .. Len(order) \cup {Len(order) + 1}
      BY <3>1
    <3> QED BY <2>5, <3>1, <3>2 DEF ElementsOf
  <2> HIDE DEF todo
  <2>7. \A p \in Plugins : IsInstalled(p) =>
          \A d \in Range(Depends[p]) : d \in ElementsOf(todo) => p \in ElementsOf(todo)
    BY <2>4, <2>6 DEF DependOn
  <2>8. Left(w, "remove", op[w].stack, todo, op[w].halfway)
    BY <1>1, <2>3, ZenonT(60) DEF Shape, Fields, Left, todo
  <2>9. op[w].stack \in Seq(Frames) /\ op[w].stack # <<>> /\ op[w].stack[1].plugin = r
    BY <1>1, <2>1 DEF Recursion, Root
  <2>10. UNCHANGED <<disk, button, open, changed, results, harmed>>
    BY <1>2 DEF Collect
  <2> QED BY <2>1, <2>6, <2>7, <2>8, <2>9, <2>10, StepsAhead
<1>3. CASE RemoveNext(w)
  <2> DEFINE h == Head(op[w].todo)
  <2>1. /\ op[w].stage = "remove" /\ op[w].stage # "none"
        /\ disk' = [disk EXCEPT ![h] = {}] /\ changed' = changed \cup {h}
        /\ UNCHANGED <<button, open, harmed>>
    BY <1>3 DEF RemoveNext
  <2>2. /\ h \in Plugins /\ \A p \in Plugins \ {h} : disk'[p] = disk[p]
        /\ disk' = [p \in Plugins |-> disk'[p]]
        /\ Len(op[w].todo) = 1 => (~harmed => Satisfied')
    BY <2>1, RemovalLeaves
  <2>3. CASE Len(op[w].todo) = 1
    <3>1. op' = [op EXCEPT ![w] = Idle] /\ Report(w)
      BY <1>3, <2>3, Zenon DEF RemoveNext
    <3> QED BY <2>1, <2>2, <2>3, <3>1, SuccessKeeps
  <2>4. CASE Len(op[w].todo) # 1
    <3>1. /\ op' = [op EXCEPT ![w].todo = Tail(@), ![w].halfway = @ \/ Exists(h)]
          /\ UNCHANGED results
      BY <1>3, <2>4, Zenon DEF RemoveNext
    <3> DEFINE halfway == op[w].halfway \/ Exists(h)
    <3>2. op' = [op EXCEPT ![w].todo = Tail(op[w].todo), ![w].halfway = halfway]
      BY <3>1
    <3> HIDE DEF halfway
    <3>3. Left(w, "remove", op[w].stack, Tail(op[w].todo), halfway)
      BY <1>1, <2>1, <3>2, ZenonT(60) DEF Shape, Fields, Left
    <3> USE DEF halfway
    <3> QED BY <2>1, <2>4, <3>1, <3>3, RemovalGoesOn
  <2> QED BY <2>3, <2>4
<1>4. CASE RemovalFails(w)
  <2>1. op[w].stage # "none"
    BY <1>4 DEF RemovalFails
  <2> QED BY <1>4, <2>1, FailureKeeps DEF RemovalFails
<1> QED BY <1>2, <1>3, <1>4

LEMMA FrontOf ==
    ASSUME NEW S, NEW s \in Seq(S), s # <<>>, Len(s) # 1
    PROVE  Front(s) \in Seq(S) /\ Front(s) # <<>> /\ Front(s)[1] = s[1]
<1> DEFINE n == Len(s) - 1
<1>1. n \in Nat \ {0} /\ n <= Len(s) /\ Len(s) \in Nat
  OBVIOUS
<1>2. Front(s) = [i \in 1 .. n |-> s[i]]
  BY DEF Front
<1> HIDE DEF n
<1>3. Front(s) \in Seq(S) /\ Len(Front(s)) = n
  BY <1>1, <1>2
<1>4. Front(s)[1] = s[1]
  BY <1>1, <1>2
<1> QED BY <1>1, <1>3, <1>4

LEMMA StoreEndStep ==
    ASSUME StoreInv, NEW w \in Workers, \A v \in Workers : v = w,
           FinishInstall(w) \/ IconFails(w)
    PROVE  StoreInv'
<1> USE DEF At
<1>1. Shape /\ Recursion
  BY DEF StoreInv
<1>2. op[w].stage = "icon" /\ op[w].stage # "none"
  BY DEF FinishInstall, IconFails
<1>3. CASE FinishInstall(w)
  <2>1. Current(w) \in Plugins
    BY <1>1, <1>2, PluginsInHand
  <2>2. changed' = changed \cup {Current(w)} /\ UNCHANGED <<disk, button, open, harmed>>
    BY <1>3 DEF FinishInstall
  <2>3. CASE Len(op[w].stack) = 1
    <3>1. op' = [op EXCEPT ![w] = Idle] /\ Report(w)
      BY <1>3, <2>3, Zenon DEF FinishInstall
    <3>2. ~harmed => Satisfied'
      BY <1>2, <2>2 DEF StoreInv, DependenciesSoFar, Writing, Satisfied, IsInstalled, Exists
    <3>3. disk' = [p \in Plugins |-> disk'[p]] /\ \A p \in Plugins : disk'[p] = disk[p]
      BY <1>1, <2>2 DEF Shape
    <3> QED BY <1>2, <2>1, <2>2, <3>1, <3>2, <3>3, SuccessKeeps
  <2>4. CASE Len(op[w].stack) # 1
    <3> DEFINE stack == Front(op[w].stack)
    <3>1. op' = [op EXCEPT ![w].stack = stack, ![w].stage = "returned", ![w].halfway = FALSE]
          /\ UNCHANGED results
      BY <1>3, <2>4, Zenon DEF FinishInstall
    <3>2. stack \in Seq(Frames) /\ stack # <<>> /\ stack[1].plugin = Root(w)
      <4>1. op[w].stack \in Seq(Frames) /\ op[w].stack # <<>>
        BY <1>1, <1>2 DEF Recursion
      <4>2. stack \in Seq(Frames) /\ stack # <<>> /\ stack[1] = op[w].stack[1]
        BY <2>4, <4>1, FrontOf
      <4> QED BY <4>2 DEF Root
    <3> HIDE DEF stack
    <3>3. Left(w, "returned", stack, op[w].todo, FALSE)
      BY <1>1, <3>1, ReturnLeaves
    <3> QED BY <1>2, <2>2, <3>1, <3>2, <3>3, CallerIsReturnedTo
  <2> QED BY <2>3, <2>4
<1>4. CASE IconFails(w)
  BY <1>2, <1>4, FailureKeeps DEF IconFails
<1> QED BY <1>3, <1>4

\* The UI thread starts operations, and brings cards up to date with the disk.
LEMMA StoreScreenStep ==
    ASSUME StoreInv, \A v, w \in Workers : v = w, UiStep \/ UserStep \/ UNCHANGED vars
    PROVE  StoreInv'
<1>1. ASSUME UNCHANGED <<disk, op, harmed>>, ScreenShape', ButtonsSoFar' PROVE StoreInv'
  <2>1. Shape' /\ Recursion' /\ Incomplete' /\ IconIsHalfway'
    BY <1>1 DEF StoreInv, Shape, Recursion, Incomplete, IconIsHalfway, Current, Top
  <2>2. Satisfied => Satisfied'
    BY <1>1 DEF Satisfied, IsInstalled, Exists
  <2>3. \A w \in Workers : /\ FoundByPackage(w) => FoundByPackage(w)'
                           /\ OthersFind(w) => OthersFind(w)'
                           /\ TakesDependents(w) => TakesDependents(w)'
    BY <1>1 DEF FoundByPackage, OthersFind, TakesDependents, Current, Top, Exists, IsInstalled,
                ElementsOf
  <2>4. DependenciesSoFar'
    BY <1>1, <2>2, <2>3 DEF StoreInv, DependenciesSoFar
  <2> QED BY <1>1, <2>1, <2>4 DEF StoreInv
<1>2. ASSUME UNCHANGED <<disk, op, harmed, open>>, NEW ps, button' = Refreshed(ps),
             open => \A p \in Plugins \ ps : /\ p \in changed => p \in changed'
                                             /\ Reported(p) => Reported(p)'
      PROVE  StoreInv'
  <2>1. ScreenShape'
    BY <1>2 DEF ScreenShape, Refreshed
  <2>2. ASSUME open, ~harmed, NEW p \in Plugins
        PROVE  p \in changed' \/ Reported(p)' \/ ShowsDisk(p)' \/ \E w \in Workers : ToBeHeardOf(w, p)'
    <3>1. button'[p] = IF p \notin ps THEN button[p]
                       ELSE IF IsInstalled(p) THEN "installed" ELSE "install"
      BY <1>2, <2>2 DEF Refreshed
    <3>2. CASE p \in ps
      BY <1>2, <3>1, <3>2 DEF ShowsDisk, IsInstalled
    <3>3. CASE p \notin ps
      <4>1. ShowsDisk(p) => ShowsDisk(p)'
        BY <1>2, <3>1, <3>3 DEF ShowsDisk, IsInstalled
      <4>2. \A w \in Workers : ToBeHeardOf(w, p) => ToBeHeardOf(w, p)'
        BY <1>2 DEF ToBeHeardOf, Current, Root, Top
      <4> QED BY <1>2, <2>2, <3>3, <4>1, <4>2 DEF StoreInv, ButtonsSoFar
    <3> QED BY <3>2, <3>3
  <2>3. ButtonsSoFar'
    BY <1>2, <2>2 DEF ButtonsSoFar
  <2> QED BY <1>1, <1>2, <2>1, <2>3
<1>3. CASE ConsumeEvents
  BY <1>2, <1>3 DEF ConsumeEvents, Reported
<1>4. ASSUME NEW result \in results, Finish(result) PROVE StoreInv'
  <2>1. \A p \in Plugins \ {result[2]} : Reported(p) => Reported(p)'
    <3> SUFFICES ASSUME NEW p \in Plugins, p # result[2], NEW kind \in {"store", "uninstall"},
                        <<kind, p>> \in results
                 PROVE  <<kind, p>> \in results'
      BY DEF Reported
    <3>1. <<kind, p>> # result
      OBVIOUS
    <3> QED BY <1>4, <3>1 DEF Finish
  <2> QED BY <1>2, <1>4, <2>1 DEF Finish
<1>5. CASE CloseStore
  BY <1>1, <1>5 DEF CloseStore, StoreInv, ScreenShape, ButtonsSoFar
<1>6. CASE UNCHANGED vars
  <2>1. \A p \in Plugins : /\ Reported(p)' = Reported(p) /\ ShowsDisk(p)' = ShowsDisk(p)
                           /\ \A w \in Workers : ToBeHeardOf(w, p) => ToBeHeardOf(w, p)'
    BY <1>6 DEF vars, Reported, ShowsDisk, IsInstalled, ToBeHeardOf, Current, Root, Top
  <2>2. ScreenShape' /\ ButtonsSoFar'
    BY <1>6, <2>1 DEF vars, StoreInv, ScreenShape, ButtonsSoFar
  <2> QED BY <1>1, <1>6, <2>2 DEF vars
<1>7. ASSUME NEW w \in Workers, NEW kind, NEW stage \in {"depends", "package", "collect"},
             NEW p \in Plugins, Starting(w, Begin(kind, stage, p)),
             ScreenShape',
             \A q \in Plugins : button'[q] = button[q] \/ (q = p /\ kind = "store")
      PROVE  StoreInv'
  <2> DEFINE stack == <<Frame(p)>>
  <2>1. /\ op[w].stage = "none" /\ UNCHANGED <<disk, open, changed, results, harmed>>
        /\ op' = [op EXCEPT ![w] = Begin(kind, stage, p)]
    BY <1>7 DEF Starting, Idle
  <2>2. \A v \in Workers : v = w
    OBVIOUS
  <2>3. /\ op' = [v \in Workers |-> op'[v]]
        /\ \A v \in Workers : op'[v] = [f \in Fields |-> op'[v][f]]
        /\ op'[w].stage = stage /\ op'[w].kind = kind /\ op'[w].stack = stack
    BY <2>1 DEF StoreInv, Shape, Begin, Fields
  <2>4. Shape'
    BY <2>1, <2>3 DEF StoreInv, Shape
  <2>5. stage \notin Writing \cup {"none", "icon", "remove", "replace"}
    BY DEF Writing
  <2>6. stack \in Seq(Frames) /\ stack # <<>> /\ stack[1].plugin = p
    BY DEF Frame, Frames
  <2>7. Recursion' /\ Incomplete' /\ IconIsHalfway'
    BY <2>2, <2>3, <2>5, <2>6 DEF Recursion, Incomplete, IconIsHalfway
  <2>8. DependenciesSoFar'
    <3> SUFFICES ASSUME ~harmed PROVE DependenciesSoFar'
      BY <2>1 DEF DependenciesSoFar
    <3>1. Satisfied
      BY <2>1, <2>2 DEF StoreInv, DependenciesSoFar, Writing
    <3>2. Satisfied'
      BY <2>1, <3>1 DEF Satisfied, IsInstalled, Exists
    <3> QED BY <2>2, <2>3, <2>5, <3>2 DEF DependenciesSoFar, FoundByPackage, OthersFind,
                                          TakesDependents
  <2>9. ButtonsSoFar'
    <3> SUFFICES ASSUME open, ~harmed, NEW q \in Plugins
                 PROVE  q \in changed \/ Reported(q) \/ ShowsDisk(q)' \/ ToBeHeardOf(w, q)'
      BY <2>1 DEF ButtonsSoFar, Reported
    <3>1. CASE q = p /\ kind = "store"
      BY <2>3, <2>5, <2>6, <3>1 DEF ToBeHeardOf, Root
    <3>2. CASE ~(q = p /\ kind = "store")
      <4>1. ~ToBeHeardOf(w, q)
        BY <2>1 DEF ToBeHeardOf, Writing
      <4>2. ShowsDisk(q) => ShowsDisk(q)'
        BY <1>7, <2>1, <3>2 DEF ShowsDisk, IsInstalled
      <4> QED BY <2>2, <4>1, <4>2 DEF StoreInv, ButtonsSoFar
    <3> QED BY <3>1, <3>2
  <2> QED BY <1>7, <2>4, <2>7, <2>8, <2>9 DEF StoreInv
<1>8. ASSUME NEW w \in Workers, NEW p \in Plugins, StartInstall(w, p) PROVE StoreInv'
  <2>1. ScreenShape' /\ \A q \in Plugins : button'[q] = button[q] \/ q = p
    BY <1>8 DEF StartInstall, StoreInv, ScreenShape
  <2> QED BY <1>7, <1>8, <2>1 DEF StartInstall
<1>9. ASSUME NEW w \in Workers, NEW p \in Plugins, StartFile(w, p) \/ StartUninstall(w, p)
      PROVE  StoreInv'
  <2>1. ScreenShape' /\ button' = button
    BY <1>9 DEF StartFile, StartUninstall, StoreInv, ScreenShape
  <2> QED BY <1>7, <1>9, <2>1 DEF StartFile, StartUninstall
<1> QED BY <1>3, <1>4, <1>5, <1>6, <1>8, <1>9 DEF UiStep, UserStep

LEMMA StoreInvHolds ==
    ASSUME \A v, w \in Workers : v = w
    PROVE  Safety => []StoreInv
<1>1. StoreInv /\ [Next]_vars => StoreInv'
  <2> SUFFICES ASSUME StoreInv, [Next]_vars PROVE StoreInv'
    OBVIOUS
  <2>1. ASSUME NEW w \in Workers, WorkerStep(w) PROVE StoreInv'
    BY <2>1, StoreDependsStep, StorePackageStep, StoreRemovalStep, StoreEndStep
       DEF WorkerStep
  <2> QED BY <2>1, StoreScreenStep DEF Next
<1> QED BY <1>1, StoreInit, PTL DEF Safety

\* With one operation at a time, a plugin that is installed finds the directory of
\* every plugin it depends on when no operation runs, unless one failed after it
\* had changed what is installed: for any dependencies, cycles among them
\* included, and any order in which a removal visits the dependents.
THEOREM DependenciesAreKept ==
    ASSUME \A v, w \in Workers : v = w
    PROVE  Safety => []DependenciesKept
<1>1. StoreInv => DependenciesKept
  BY DEF StoreInv, DependenciesSoFar, Writing, DependenciesKept, AtRest, Idle, Satisfied
<1> QED BY <1>1, StoreInvHolds, PTL

\* With one operation at a time, the store shows of every plugin whether it is
\* installed once nothing runs and nothing is left to hear of, under the same
\* condition.
THEOREM ButtonsShowDisk ==
    ASSUME \A v, w \in Workers : v = w
    PROVE  Safety => []ButtonsFollowDisk
<1>1. StoreInv => ButtonsFollowDisk
  BY DEF StoreInv, ButtonsSoFar, Writing, ButtonsFollowDisk, AtRest, Idle, ShowsDisk,
         Reported, ToBeHeardOf
<1> QED BY <1>1, StoreInvHolds, PTL

------------------------------------------------------------------------------
(* Every install comes to an end.                                           *)

\* A sequence of frames with no plugin in it twice.
Recursing(s) ==
    /\ s \in Seq(Frames) /\ s # <<>>
    /\ \A i, k \in 1 .. Len(s) : s[i].plugin = s[k].plugin => i = k

OpShape ==
    /\ op = [w \in Workers |-> op[w]]
    /\ \A w \in Workers : op[w] = [f \in Fields |-> op[w][f]]

\* An install that the store started is under way.
Installing(w, p) == op[w].stage # "none" /\ op[w].kind = "store" /\ Root(w) = p

\* The recursion of each operation is sound, and each task of the store belongs to
\* an operation or to a result the UI thread has yet to take.
TaskInv ==
    /\ OpShape
    /\ \A w \in Workers : op[w].stage # "none" => Recursing(op[w].stack)
    /\ \A p \in tasks : <<"store", p>> \in results \/ \E w \in Workers : Installing(w, p)

LEMMA TaskInvInit == Init => TaskInv
BY DEF Init, TaskInv, OpShape, Idle, Fields

\* An operation that has another step before it, for the plugin it was started for.
Proceeds(w) ==
    /\ OpShape'
    /\ \A v \in Workers : v # w => op'[v] = op[v]
    /\ op'[w].kind = op[w].kind /\ op'[w].stage # "none"
    /\ Recursing(op'[w].stack) /\ op'[w].stack[1].plugin = Root(w)

Ends(w) == op' = [op EXCEPT ![w] = Idle] /\ Report(w)

LEMMA HandIsFrame ==
    ASSUME NEW w \in Workers, Recursing(op[w].stack)
    PROVE  /\ Top(w) \in Frames /\ Current(w) \in Plugins
           /\ Len(op[w].stack) \in Nat \ {0} /\ op[w].stack \in Seq(Frames)
<1>1. op[w].stack \in Seq(Frames) /\ Len(op[w].stack) \in Nat \ {0}
  BY DEF Recursing
<1>2. op[w].stack[Len(op[w].stack)] \in Frames
  BY <1>1
<1> QED BY <1>1, <1>2 DEF Current, Top, Frames, Last

\* The stage alone,
LEMMA GotoFields ==
    ASSUME OpShape, NEW w \in Workers, NEW stage, Goto(w, stage)
    PROVE  /\ OpShape'
           /\ \A v \in Workers : v # w => op'[v] = op[v]
           /\ op'[w].kind = op[w].kind /\ op'[w].stage = stage /\ op'[w].stack = op[w].stack
BY ZenonT(30) DEF OpShape, Fields, Goto

\* with what is left behind,
LEMMA HalfwayFields ==
    ASSUME OpShape, NEW w \in Workers, NEW stage, NEW halfway, 
           op' = [op EXCEPT ![w].stage = stage, ![w].halfway = halfway]
    PROVE  /\ OpShape'
           /\ \A v \in Workers : v # w => op'[v] = op[v]
           /\ op'[w].kind = op[w].kind /\ op'[w].stage = stage /\ op'[w].stack = op[w].stack
BY ZenonT(30) DEF OpShape, Fields

\* and with what is left to do.
LEMMA TodoFields ==
    ASSUME OpShape, NEW w \in Workers, NEW stage, NEW todo, 
           op' = [op EXCEPT ![w].stage = stage, ![w].todo = todo]
    PROVE  /\ OpShape'
           /\ \A v \in Workers : v # w => op'[v] = op[v]
           /\ op'[w].kind = op[w].kind /\ op'[w].stage = stage /\ op'[w].stack = op[w].stack
BY ZenonT(30) DEF OpShape, Fields

\* A step that leaves the recursion as it is.
LEMMA StageProceeds ==
    ASSUME OpShape, NEW w \in Workers, Recursing(op[w].stack), NEW stage, stage # "none",
           NEW todo, NEW halfway,
           \/ Goto(w, stage)
           \/ op' = [op EXCEPT ![w].stage = stage, ![w].halfway = halfway]
           \/ op' = [op EXCEPT ![w].stage = stage, ![w].todo = todo]
    PROVE  Proceeds(w)
<1>1. /\ OpShape'
      /\ \A v \in Workers : v # w => op'[v] = op[v]
      /\ op'[w].kind = op[w].kind /\ op'[w].stage = stage /\ op'[w].stack = op[w].stack
  BY GotoFields, HalfwayFields, TodoFields, Zenon
<1> QED BY <1>1 DEF Proceeds, Root

\* A removal goes on with the next plugin.
LEMMA RemovalProceeds ==
    ASSUME OpShape, NEW w \in Workers, Recursing(op[w].stack), op[w].stage # "none",
           NEW todo, NEW halfway,
           op' = [op EXCEPT ![w].todo = todo, ![w].halfway = halfway]
    PROVE  Proceeds(w)
<1>1. /\ OpShape'
      /\ \A v \in Workers : v # w => op'[v] = op[v]
      /\ op'[w].kind = op[w].kind /\ op'[w].stage = op[w].stage /\ op'[w].stack = op[w].stack
  BY ZenonT(60) DEF OpShape, Fields
<1> QED BY <1>1 DEF Proceeds, Root

\* A step that changes the recursion: the loop moves on,
LEMMA MoveProceeds ==
    ASSUME OpShape, NEW w \in Workers, NEW stage, stage # "none",
           NEW stack, Recursing(stack), stack[1].plugin = Root(w),
           op' = [op EXCEPT ![w].stage = stage, ![w].stack = stack]
    PROVE  Proceeds(w)
<1>1. /\ OpShape'
      /\ \A v \in Workers : v # w => op'[v] = op[v]
      /\ op'[w].kind = op[w].kind /\ op'[w].stage = stage /\ op'[w].stack = stack
  BY ZenonT(60) DEF OpShape, Fields
<1> QED BY <1>1 DEF Proceeds

\* a dependency is entered,
LEMMA CallProceeds ==
    ASSUME OpShape, NEW w \in Workers, op[w].stage # "none",
           NEW stack, Recursing(stack), stack[1].plugin = Root(w),
           op' = [op EXCEPT ![w].stack = stack]
    PROVE  Proceeds(w)
<1>1. /\ OpShape'
      /\ \A v \in Workers : v # w => op'[v] = op[v]
      /\ op'[w].kind = op[w].kind /\ op'[w].stage = op[w].stage /\ op'[w].stack = stack
  BY ZenonT(60) DEF OpShape, Fields
<1> QED BY <1>1 DEF Proceeds

\* or the call returns.
LEMMA BackProceeds ==
    ASSUME OpShape, NEW w \in Workers, NEW halfway,
           NEW stack, Recursing(stack), stack[1].plugin = Root(w),
           op' = [op EXCEPT ![w].stack = stack, ![w].stage = "returned", ![w].halfway = halfway]
    PROVE  Proceeds(w)
<1>1. /\ OpShape'
      /\ \A v \in Workers : v # w => op'[v] = op[v]
      /\ op'[w].kind = op[w].kind /\ op'[w].stage = "returned" /\ op'[w].stack = stack
  BY ZenonT(60) DEF OpShape, Fields
<1> QED BY <1>1 DEF Proceeds

\* The loop over the dependencies goes to the next one.
LEMMA AdvanceProceeds ==
    ASSUME OpShape, NEW w \in Workers, Recursing(op[w].stack), op[w].stage # "none", Advance(w)
    PROVE  Proceeds(w)
<1> DEFINE old == op[w].stack
           n == Len(old)
           stack == [old EXCEPT ![n] = NextFrame(w)]
<1>1. old \in Seq(Frames) /\ n \in Nat \ {0} /\ Top(w) \in Frames
  BY HandIsFrame
<1>2. NextFrame(w) \in Frames /\ NextFrame(w).plugin = old[n].plugin
  BY <1>1 DEF NextFrame, Frames, Current, Top, Last
<1>3. stack \in Seq(Frames) /\ Len(stack) = n
  BY <1>1, <1>2
<1>4. \A i \in 1 .. n : stack[i].plugin = old[i].plugin
  BY <1>1, <1>2
<1>5. Recursing(stack) /\ stack[1].plugin = Root(w)
  BY <1>1, <1>3, <1>4 DEF Recursing, Root
<1>6. op' = [op EXCEPT ![w].stage = "depends", ![w].stack = stack]
  BY DEF Advance
<1> HIDE DEF stack
<1> QED BY <1>5, <1>6, MoveProceeds

\* A dependency is entered only if the recursion is not at it already.
LEMMA EnterProceeds ==
    ASSUME OpShape, NEW w \in Workers, Recursing(op[w].stack), op[w].stage # "none",
           EnterDependency(w)
    PROVE  Proceeds(w)
<1> DEFINE old == op[w].stack
           new == Frame(Dependency(w))
           stack == Append(old, new)
<1>1. old \in Seq(Frames) /\ Len(old) \in Nat \ {0}
  BY HandIsFrame
<1>2. Dependency(w) \in Plugins /\ \A i \in 1 .. Len(old) : old[i].plugin # Dependency(w)
  BY <1>1, StoreAssumption DEF EnterDependency, Active
<1>3. new \in Frames /\ new.plugin = Dependency(w)
  BY <1>2 DEF Frame, Frames
<1>4. op' = [op EXCEPT ![w].stack = stack]
  BY Zenon DEF EnterDependency
<1> HIDE DEF new
<1>5. /\ stack \in Seq(Frames) /\ Len(stack) = Len(old) + 1
      /\ \A i \in 1 .. Len(old) : stack[i] = old[i]
      /\ stack[Len(old) + 1] = new
  BY <1>1, <1>3
<1> HIDE DEF stack
<1>6. Recursing(stack)
  <2>1. \A i \in 1 .. Len(stack) : i \in 1 .. Len(old) \/ i = Len(old) + 1
    BY <1>1, <1>5
  <2>2. stack # <<>>
    BY <1>1, <1>5
  <2>3. \A i, k \in 1 .. Len(stack) : stack[i].plugin = stack[k].plugin => i = k
    BY <1>2, <1>3, <1>5, <2>1 DEF Recursing
  <2> QED BY <1>5, <2>2, <2>3 DEF Recursing
<1>7. stack[1].plugin = Root(w)
  BY <1>1, <1>5 DEF Root
<1> QED BY <1>4, <1>6, <1>7, CallProceeds

\* The recursive call returns.
LEMMA ReturnProceeds ==
    ASSUME OpShape, NEW w \in Workers, Recursing(op[w].stack), op[w].stage # "none",
           FinishInstall(w), Len(op[w].stack) # 1
    PROVE  Proceeds(w)
<1> DEFINE old == op[w].stack
           stack == Front(old)
<1>1. old \in Seq(Frames) /\ old # <<>> /\ Len(old) \in Nat \ {0}
  BY HandIsFrame DEF Recursing
<1>2. stack \in Seq(Frames) /\ stack # <<>> /\ stack[1] = old[1]
  BY <1>1, FrontOf
<1>3. stack = [i \in 1 .. Len(old) - 1 |-> old[i]]
  BY DEF Front
<1>4. op' = [op EXCEPT ![w].stack = stack, ![w].stage = "returned", ![w].halfway = FALSE]
  BY Zenon DEF FinishInstall
<1> HIDE DEF stack
<1>5. Len(stack) = Len(old) - 1 /\ \A i \in 1 .. Len(stack) : i \in 1 .. Len(old) /\ stack[i] = old[i]
  BY <1>1, <1>3
<1>6. Recursing(stack) /\ stack[1].plugin = Root(w)
  BY <1>2, <1>5 DEF Recursing, Root
<1> QED BY <1>4, <1>6, BackProceeds

\* A step of a worker goes on with its operation or ends it with a report.
LEMMA WorkerProceeds ==
    ASSUME OpShape, NEW w \in Workers, op[w].stage # "none", Recursing(op[w].stack), WorkerStep(w)
    PROVE  /\ tasks' = tasks
           /\ Ends(w) \/ (Proceeds(w) /\ UNCHANGED results)
<1> USE DEF At
<1>1. Fail(w) => Ends(w) /\ tasks' = tasks
  BY DEF Fail, Ends
<1>2. CASE SkipInstalled(w) \/ EnterDependency(w) \/ RefuseDependency(w) \/ AfterDependency(w)
  BY <1>1, <1>2, AdvanceProceeds, EnterProceeds
     DEF SkipInstalled, EnterDependency, RefuseDependency, AfterDependency, OnlyOp
<1>3. \A stage : stage # "none" /\ Goto(w, stage) => Proceeds(w)
  BY StageProceeds
<1>4. \A stage, halfway :
        stage # "none" /\ op' = [op EXCEPT ![w].stage = stage, ![w].halfway = halfway] => Proceeds(w)
  BY StageProceeds
<1>5. CASE Download(w) \/ CheckPackage(w) \/ OpenResource(w)
  BY <1>1, <1>3, <1>5 DEF Download, CheckPackage, OpenResource, OnlyOp
<1>6. CASE RemoveOld(w) \/ WriteInfo(w)
  BY <1>1, <1>4, <1>6 DEF RemoveOld, WriteInfo
<1>7. CASE Extract(w)
  <2>1. PICK m \in Members :
          \/ Goto(w, IF m = "first" THEN "rest" ELSE "info") /\ UNCHANGED <<tasks, results>>
          \/ Fail(w)
    BY <1>7 DEF Extract
  <2> QED BY <1>1, <1>3, <2>1
<1>8. CASE FinishInstall(w)
  BY <1>8, ReturnProceeds DEF FinishInstall, Ends
<1>9. CASE IconFails(w)
  BY <1>1, <1>9 DEF IconFails
<1>10. CASE Collect(w)
  <2>1. PICK todo : op' = [op EXCEPT ![w].stage = "remove", ![w].todo = todo]
    BY <1>10, Zenon DEF Collect
  <2>2. UNCHANGED <<tasks, results>>
    BY <1>10 DEF Collect, OnlyOp
  <2> QED BY <2>1, <2>2, StageProceeds
<1>11. CASE RemoveNext(w)
  <2>1. tasks' = tasks
    BY <1>11 DEF RemoveNext
  <2>2. CASE Len(op[w].todo) = 1
    BY <1>11, <2>1, <2>2 DEF RemoveNext, Ends
  <2>3. CASE Len(op[w].todo) # 1
    <3>1. /\ \E todo, halfway : op' = [op EXCEPT ![w].todo = todo, ![w].halfway = halfway]
          /\ UNCHANGED results
      BY <1>11, <2>3, Zenon DEF RemoveNext
    <3> QED BY <2>1, <3>1, RemovalProceeds
  <2> QED BY <2>2, <2>3
<1>12. CASE RemovalFails(w)
  BY <1>1, <1>12 DEF RemovalFails
<1> QED BY <1>2, <1>5, <1>6, <1>7, <1>8, <1>9, <1>10, <1>11, <1>12 DEF WorkerStep

\* Only a worker with an operation takes a step.
LEMMA IdleWaits == ASSUME NEW w \in Workers, WorkerStep(w) PROVE op[w].stage # "none"
BY DEF WorkerStep, SkipInstalled, EnterDependency, RefuseDependency, AfterDependency, Download,
       CheckPackage, RemoveOld, OpenResource, Extract, Members, WriteInfo, FinishInstall, IconFails,
       Collect, RemoveNext, RemovalFails, At

LEMMA TaskWorkerStep ==
    ASSUME TaskInv, NEW w \in Workers, WorkerStep(w) PROVE TaskInv'
<1>1. op[w].stage # "none" /\ OpShape /\ Recursing(op[w].stack)
  BY IdleWaits DEF TaskInv
<1>2. tasks' = tasks /\ (Ends(w) \/ (Proceeds(w) /\ UNCHANGED results))
  BY <1>1, WorkerProceeds
<1>3. CASE Ends(w)
  <2>1. /\ OpShape' /\ op'[w].stage = "none" /\ \A v \in Workers : v # w => op'[v] = op[v]
    BY <1>1, <1>3 DEF Ends, OpShape, Idle, Fields
  <2>2. results \subseteq results' /\ (op[w].kind = "store" => <<"store", Root(w)>> \in results')
    BY <1>3 DEF Ends, Report
  <2>3. \A v \in Workers : \A p : Installing(v, p) => <<"store", p>> \in results' \/ Installing(v, p)'
    BY <2>1, <2>2 DEF Installing, Root
  <2>4. \A v \in Workers : op'[v].stage # "none" => Recursing(op'[v].stack)
    BY <2>1 DEF TaskInv
  <2>5. \A p \in tasks : <<"store", p>> \in results' \/ \E v \in Workers : Installing(v, p)'
    BY <2>2, <2>3 DEF TaskInv
  <2> QED BY <1>2, <2>1, <2>4, <2>5 DEF TaskInv
<1>4. CASE Proceeds(w) /\ UNCHANGED results
  <2>1. \A v \in Workers : \A p : Installing(v, p) => Installing(v, p)'
    BY <1>4 DEF Proceeds, Installing, Root
  <2>2. \A v \in Workers : op'[v].stage # "none" => Recursing(op'[v].stack)
    BY <1>4 DEF Proceeds, TaskInv
  <2>3. \A p \in tasks : <<"store", p>> \in results' \/ \E v \in Workers : Installing(v, p)'
    BY <1>4, <2>1 DEF TaskInv
  <2> QED BY <1>2, <1>4, <2>2, <2>3 DEF TaskInv, Proceeds
<1> QED BY <1>2, <1>3, <1>4

\* The store starts an install with its task.
LEMMA TaskStart ==
    ASSUME TaskInv, NEW w \in Workers, NEW p \in Plugins, NEW kind, NEW stage, stage # "none",
           Starting(w, Begin(kind, stage, p)),
           \/ tasks' = tasks
           \/ kind = "store" /\ tasks' = tasks \cup {p}
    PROVE  TaskInv'
<1>1. /\ OpShape' /\ op'[w].stage = stage /\ op'[w].kind = kind /\ op'[w].stack = <<Frame(p)>>
      /\ op[w] = Idle /\ results' = results
      /\ \A v \in Workers : v # w => op'[v] = op[v]
  BY DEF Starting, Begin, TaskInv, OpShape, Fields
<1>2. Recursing(<<Frame(p)>>) /\ <<Frame(p)>>[1].plugin = p
  <2>1. Frame(p) \in Frames /\ Frame(p).plugin = p
    BY DEF Frame, Frames
  <2> QED BY <2>1 DEF Recursing
<1>3. \A v \in Workers : \A q : Installing(v, q) => Installing(v, q)'
  BY <1>1 DEF Installing, Root, Idle
<1>4. kind = "store" => Installing(w, p)'
  BY <1>1, <1>2 DEF Installing, Root
<1>5. \A v \in Workers : op'[v].stage # "none" => Recursing(op'[v].stack)
  BY <1>1, <1>2 DEF TaskInv
<1>6. \A q \in tasks' : <<"store", q>> \in results' \/ \E v \in Workers : Installing(v, q)'
  BY <1>1, <1>3, <1>4 DEF TaskInv
<1> QED BY <1>1, <1>5, <1>6 DEF TaskInv

LEMMA TaskInvStep == TaskInv /\ [Next]_vars => TaskInv'
<1> SUFFICES ASSUME TaskInv, [Next]_vars PROVE TaskInv'
  OBVIOUS
<1>1. CASE UNCHANGED <<op, tasks, results>>
  BY <1>1 DEF TaskInv, OpShape, Installing, Root
<1>2. ASSUME NEW result \in results, Finish(result) PROVE TaskInv'
  <2>1. /\ op' = op /\ results' = results \ {result}
        /\ tasks' = IF result[1] = "store" THEN tasks \ {result[2]} ELSE tasks
    BY <1>2 DEF Finish
  <2>2. \A p \in tasks' : p \in tasks /\ <<"store", p>> # result
    BY <2>1
  <2> QED BY <2>1, <2>2 DEF TaskInv, OpShape, Installing, Root
<1>3. ASSUME NEW w \in Workers, NEW p \in Plugins,
             StartInstall(w, p) \/ StartFile(w, p) \/ StartUninstall(w, p)
      PROVE  TaskInv'
  BY <1>3, TaskStart DEF StartInstall, StartFile, StartUninstall
<1>4. ConsumeEvents \/ CloseStore \/ UNCHANGED vars => UNCHANGED <<op, tasks, results>>
  BY DEF ConsumeEvents, CloseStore, vars
<1> QED BY <1>1, <1>2, <1>3, <1>4, TaskWorkerStep DEF Next, UiStep, UserStep

LEMMA TaskInvHolds == Safety => []TaskInv
BY TaskInvInit, TaskInvStep, PTL DEF Safety

\* The recursion of an install never comes to a plugin twice, whatever cycles the
\* catalog has and however many operations run: it is no deeper than there are
\* plugins.
THEOREM RecursionEnds ==
    Safety => [](\A w \in Workers : op[w].stage # "none" =>
                    /\ Len(op[w].stack) <= Cardinality(Plugins)
                    /\ \A i, k \in DOMAIN op[w].stack :
                          op[w].stack[i].plugin = op[w].stack[k].plugin => i = k)
<1>1. ASSUME TaskInv, NEW w \in Workers, op[w].stage # "none"
      PROVE  /\ Len(op[w].stack) <= Cardinality(Plugins)
             /\ \A i, k \in DOMAIN op[w].stack :
                   op[w].stack[i].plugin = op[w].stack[k].plugin => i = k
  <2> DEFINE s == op[w].stack
             n == Len(s)
             names == [i \in 1 .. n |-> s[i].plugin]
  <2>1. /\ s \in Seq(Frames) /\ n \in Nat /\ DOMAIN s = 1 .. n
        /\ \A i, k \in 1 .. n : s[i].plugin = s[k].plugin => i = k
    BY <1>1 DEF TaskInv, Recursing
  <2>2. \A i \in 1 .. n : s[i].plugin \in Plugins
    <3>1. \A i \in 1 .. n : s[i] \in Frames
      BY <2>1
    <3> QED BY <3>1 DEF Frames
  <2>3. names \in Injection(1 .. n, Plugins)
    BY <2>1, <2>2 DEF Injection, IsInjective
  <2>4. Cardinality(1 .. n) = n
    BY <2>1, FS_Interval
  <2> HIDE DEF names, n
  <2>5. n <= Cardinality(Plugins)
    BY <2>3, <2>4, FS_Injection, StoreAssumption
  <2> QED BY <2>1, <2>5 DEF n
<1>2. TaskInv => \A w \in Workers : op[w].stage # "none" =>
                    /\ Len(op[w].stack) <= Cardinality(Plugins)
                    /\ \A i, k \in DOMAIN op[w].stack :
                          op[w].stack[i].plugin = op[w].stack[k].plugin => i = k
  BY <1>1
<1> QED BY <1>2, TaskInvHolds, PTL

\* A task of the store is never left behind: as long as it is there, an operation
\* works on it or its result is on its way to the UI thread, however many operations
\* run and fail.
THEOREM TasksAreAccounted ==
    Safety => [](\A p \in tasks : \/ <<"store", p>> \in results
                                  \/ \E w \in Workers : Installing(w, p))
<1>1. TaskInv => \A p \in tasks : \/ <<"store", p>> \in results
                                  \/ \E w \in Workers : Installing(w, p)
  BY DEF TaskInv
<1> QED BY <1>1, TaskInvHolds, PTL
------------------------------------------------------------------------------
(* Every variable keeps its type, whatever number of operations run.        *)

\* An operation under way is of one of the three kinds, and a removal has a plugin
\* to remove; a worker without one is idle.
OpTypes ==
    \A w \in Workers :
        /\ op[w].kind \in Kinds /\ op[w].stage \in Stages
        /\ op[w].todo \in Seq(Plugins) /\ op[w].halfway \in BOOLEAN
        /\ op[w].stage # "none" => op[w].kind # "idle"
        /\ op[w].stage = "remove" => op[w].todo # <<>>
        /\ op[w].stage = "none" => op[w] = Idle

RestTypes ==
    /\ disk \in [Plugins -> Directories]
    /\ tasks \subseteq Plugins
    /\ button \in [Plugins -> {"install", "installing", "installed"}]
    /\ open \in BOOLEAN
    /\ changed \subseteq Plugins
    /\ results \subseteq {"store", "uninstall"} \X Plugins
    /\ harmed \in BOOLEAN
    /\ starts \in 0 .. MaxStarts

\* A step that takes an operation on to another stage, or to the next plugin of a
\* removal.
LEMMA TypesOfStep ==
    ASSUME TaskInv, OpTypes, NEW w \in Workers, Proceeds(w),
           NEW stage \in Stages \ {"none"}, NEW stack, NEW todo \in Seq(Plugins),
           stage = "remove" => todo # <<>>,
           NEW halfway \in BOOLEAN, Left(w, stage, stack, todo, halfway),
           op[w].stage # "none"
    PROVE  OpTypes'
<1>1. \A v \in Workers : v # w => op'[v] = op[v]
  BY DEF Proceeds
<1>2. /\ op'[w].stage = stage /\ op'[w].kind = op[w].kind /\ op'[w].todo = todo
      /\ op'[w].halfway = halfway
  BY DEF Left
<1>3. /\ op'[w].kind \in Kinds /\ op'[w].stage \in Stages
      /\ op'[w].todo \in Seq(Plugins) /\ op'[w].halfway \in BOOLEAN
      /\ op'[w].stage # "none" /\ op'[w].kind # "idle"
      /\ op'[w].stage = "remove" => op'[w].todo # <<>>
  BY <1>2 DEF OpTypes
<1> QED BY <1>1, <1>3 DEF OpTypes

LEMMA TypesOfOp ==
    ASSUME NEW kind \in Kinds, NEW stage \in Stages, NEW p, NEW o,
           stage = "none" => kind = "idle" /\ o = Idle,
           stage # "none" => kind # "idle" /\ stage # "remove" /\ o = Begin(kind, stage, p)
    PROVE  /\ o.kind \in Kinds /\ o.stage \in Stages
           /\ o.todo \in Seq(Plugins) /\ o.halfway \in BOOLEAN
           /\ o.stage # "none" => o.kind # "idle"
           /\ o.stage = "remove" => o.todo # <<>>
           /\ o.stage = "none" => o = Idle
<1>1. CASE stage = "none"
  <2>1. o.kind = "idle" /\ o.stage = "none" /\ o.todo = <<>> /\ o.halfway = FALSE
    BY <1>1 DEF Idle
  <2>2. <<>> \in Seq(Plugins) /\ FALSE \in BOOLEAN
    OBVIOUS
  <2> QED BY <1>1, <2>1, <2>2, Zenon
<1>2. CASE stage # "none"
  <2>1. o.kind = kind /\ o.stage = stage /\ o.todo = <<>> /\ o.halfway = FALSE
    BY <1>2 DEF Begin
  <2>2. <<>> \in Seq(Plugins) /\ FALSE \in BOOLEAN
    OBVIOUS
  <2> QED BY <1>2, <2>1, <2>2, Zenon
<1> QED BY <1>1, <1>2

LEMMA TypesOfEnd ==
    ASSUME TaskInv, OpTypes, RestTypes, NEW w \in Workers, op[w].stage # "none",
           op' = [op EXCEPT ![w] = Idle], Report(w)
    PROVE  OpTypes' /\ results' \subseteq {"store", "uninstall"} \X Plugins
<1>1. op'[w] = Idle /\ \A v \in Workers : v # w => op'[v] = op[v]
  BY DEF TaskInv, OpShape
<1>2. OpTypes'
  <2>1. "idle" \in Kinds /\ "none" \in Stages
    BY DEF Kinds, Stages
  <2> QED BY <1>1, <2>1, TypesOfOp DEF OpTypes
<1>3. op[w].kind \in {"store", "file", "uninstall"}
  BY DEF OpTypes, Kinds
<1>4. Root(w) \in Plugins
  <2>1. op[w].stack \in Seq(Frames) /\ op[w].stack # <<>>
    BY DEF TaskInv, Recursing
  <2>2. op[w].stack[1] \in Frames
    BY <2>1
  <2> QED BY <2>2 DEF Root, Frames
<1> QED BY <1>2, <1>3, <1>4 DEF Report, RestTypes

LEMMA CollectLeaves ==
    ASSUME OpShape, NEW w \in Workers, NEW stage, NEW todo,
           op' = [op EXCEPT ![w].stage = stage, ![w].todo = todo]
    PROVE  Left(w, stage, op[w].stack, todo, op[w].halfway)
BY ZenonT(60) DEF OpShape, Fields, Left

LEMMA NextLeaves ==
    ASSUME OpShape, NEW w \in Workers, NEW todo, NEW halfway,
           op' = [op EXCEPT ![w].todo = todo, ![w].halfway = halfway]
    PROVE  Left(w, op[w].stage, op[w].stack, todo, halfway)
BY ZenonT(60) DEF OpShape, Fields, Left

LEMMA EnterLeaves ==
    ASSUME OpShape, NEW w \in Workers, NEW stack, op' = [op EXCEPT ![w].stack = stack]
    PROVE  Left(w, op[w].stage, stack, op[w].todo, op[w].halfway)
BY ZenonT(60) DEF OpShape, Fields, Left

LEMMA TailIsLeft ==
    ASSUME NEW S, NEW s \in Seq(S), s # <<>>, Len(s) # 1
    PROVE  Tail(s) # <<>>
<1>1. Len(s) \in Nat \ {0} /\ Len(Tail(s)) = Len(s) - 1
  OBVIOUS
<1>2. Len(Tail(s)) # 0
  BY <1>1
<1>3. Len(<<>>) = 0
  OBVIOUS
<1> QED BY <1>2, <1>3, Zenon

LEMMA LongerByOne ==
    ASSUME NEW S, NEW s \in Seq(S), NEW x \in S
    PROVE  Append(s, x) \in Seq(S) /\ Append(s, x) # <<>>
<1>1. Append(s, x) \in Seq(S) /\ Len(Append(s, x)) = Len(s) + 1 /\ Len(s) \in Nat
  OBVIOUS
<1>2. Len(Append(s, x)) # Len(<<>>)
  BY <1>1
<1> QED BY <1>1, <1>2, Zenon

LEMMA SequenceOfMore ==
    ASSUME NEW S, NEW T, S \subseteq T, NEW s \in Seq(S)
    PROVE  s \in Seq(T)
<1>1. Len(s) \in Nat /\ s \in [1 .. Len(s) -> S]
  OBVIOUS
<1>2. s \in [1 .. Len(s) -> T]
  BY <1>1
<1> QED BY <1>1, <1>2

LEMMA TypesOfWorker ==
    ASSUME TaskInv, OpTypes, RestTypes, NEW w \in Workers, WorkerStep(w)
    PROVE  OpTypes' /\ RestTypes'
<1> USE DEF At
<1>0. /\ op[w].stage # "none" /\ Recursing(op[w].stack) /\ OpShape /\ Shape
      /\ Current(w) \in Plugins
      /\ op[w].todo \in Seq(Plugins) /\ op[w].halfway \in BOOLEAN
  <2>1. op[w].stage # "none"
    BY IdleWaits
  <2>2. Recursing(op[w].stack) /\ OpShape
    BY <2>1 DEF TaskInv
  <2>3. disk = [p \in Plugins |-> disk[p]]
    BY DEF RestTypes
  <2> QED BY <2>1, <2>2, <2>3, HandIsFrame DEF OpTypes, Shape, OpShape
<1>1. ASSUME op' = [op EXCEPT ![w] = Idle], Report(w), UNCHANGED <<tasks, button, open, starts>>,
             disk' \in [Plugins -> Directories], changed' \subseteq Plugins, harmed' \in BOOLEAN
      PROVE  OpTypes' /\ RestTypes'
  BY <1>0, <1>1, TypesOfEnd DEF RestTypes
<1>2. ASSUME Fail(w), disk' \in [Plugins -> Directories] PROVE OpTypes' /\ RestTypes'
  <2>1. harmed' \in BOOLEAN
    BY <1>0, <1>2 DEF Fail, RestTypes
  <2>2. changed' \subseteq Plugins
    BY <1>2 DEF Fail, RestTypes
  <2> QED BY <1>1, <1>2, <2>1, <2>2 DEF Fail
<1>3. ASSUME UNCHANGED disk PROVE disk' \in [Plugins -> Directories]
  BY <1>3 DEF RestTypes
<1>4. ASSUME NEW content, disk' = [disk EXCEPT ![Current(w)] = content],
             content \in Directories \/ content = disk[Current(w)] \cup {"dir"}
               \/ content = disk[Current(w)] \cup {"info"}
               \/ \E m \in Members : content = disk[Current(w)] \cup {"dir", m}
      PROVE  disk' \in [Plugins -> Directories]
  <2>1. disk[Current(w)] \in Directories
    BY <1>0 DEF RestTypes
  <2>2. content \in Directories
    BY <1>4, <2>1 DEF Directories, Members
  <2> QED BY <1>4, <2>2 DEF RestTypes
<1>5. {} \in Directories
  BY DEF Directories
\* A step that does not end the operation.
<1>6. ASSUME NEW stage \in Stages \ {"none", "remove"}, NEW stack, NEW halfway \in BOOLEAN,
             Left(w, stage, stack, op[w].todo, halfway), Proceeds(w),
             UNCHANGED <<tasks, button, open, changed, results, harmed, starts>>,
             disk' \in [Plugins -> Directories]
      PROVE  OpTypes' /\ RestTypes'
  BY <1>0, <1>6, TypesOfStep DEF RestTypes
<1>7. ASSUME Advance(w), OnlyOp PROVE OpTypes' /\ RestTypes'
  <2>1. Proceeds(w)
    BY <1>0, <1>7, AdvanceProceeds
  <2>2. Recursion
    BY DEF TaskInv, Recursing, Recursion, OpTypes
  <2>3. PICK stack : Left(w, "depends", stack, op[w].todo, op[w].halfway)
    BY <1>0, <1>7, <2>2, AdvanceLeaves
  <2> QED BY <1>0, <1>3, <1>6, <1>7, <2>1, <2>3 DEF OnlyOp, Stages
<1>8. ASSUME NEW stage \in Stages \ {"none", "remove"}, Goto(w, stage),
             UNCHANGED <<tasks, button, open, changed, results, harmed, starts>>,
             disk' \in [Plugins -> Directories]
      PROVE  OpTypes' /\ RestTypes'
  <2>1. Proceeds(w)
    BY <1>0, <1>8, StageProceeds
  <2> QED BY <1>0, <1>6, <1>8, <2>1, GotoLeaves
<1>9. ASSUME NEW stage \in Stages \ {"none", "remove"}, NEW halfway \in BOOLEAN,
             op' = [op EXCEPT ![w].stage = stage, ![w].halfway = halfway],
             UNCHANGED <<tasks, button, open, changed, results, harmed, starts>>,
             disk' \in [Plugins -> Directories]
      PROVE  OpTypes' /\ RestTypes'
  <2>1. Proceeds(w)
    BY <1>0, <1>9, StageProceeds
  <2> QED BY <1>0, <1>6, <1>9, <2>1, HalfwayLeaves
<1>10. CASE SkipInstalled(w) \/ RefuseDependency(w) \/ AfterDependency(w)
  BY <1>2, <1>3, <1>7, <1>10 DEF SkipInstalled, RefuseDependency, AfterDependency
<1>11. CASE EnterDependency(w)
  <2>1. Proceeds(w)
    BY <1>0, <1>11, EnterProceeds
  <2>2. PICK stack : op' = [op EXCEPT ![w].stack = stack]
    BY <1>11, Zenon DEF EnterDependency
  <2>3. Left(w, "depends", stack, op[w].todo, op[w].halfway)
    BY <1>0, <1>11, <2>2, EnterLeaves DEF EnterDependency
  <2> QED BY <1>0, <1>3, <1>6, <1>11, <2>1, <2>3 DEF EnterDependency, OnlyOp, Stages
<1>12. CASE Download(w) \/ CheckPackage(w)
  <2>1. \/ \E stage \in {"package", "replace"} : Goto(w, stage) /\ OnlyOp
        \/ Fail(w) /\ UNCHANGED disk
    BY <1>12 DEF Download, CheckPackage
  <2>2. CASE Fail(w) /\ UNCHANGED disk
    BY <1>2, <1>3, <2>2
  <2>3. CASE \E stage \in {"package", "replace"} : Goto(w, stage) /\ OnlyOp
    <3>1. PICK stage \in {"package", "replace"} : Goto(w, stage) /\ OnlyOp
      BY <2>3
    <3>2. stage \in Stages \ {"none", "remove"}
      BY DEF Stages
    <3> QED BY <1>3, <1>8, <3>1, <3>2 DEF OnlyOp
  <2> QED BY <2>1, <2>2, <2>3
<1>13. CASE RemoveOld(w)
  <2>1. \/ /\ disk' = [disk EXCEPT ![Current(w)] = {}]
           /\ op' = [op EXCEPT ![w].stage = "resource", ![w].halfway = Exists(Current(w))]
           /\ UNCHANGED <<tasks, button, open, changed, results, harmed, starts>>
        \/ Fail(w) /\ UNCHANGED disk
    BY <1>13 DEF RemoveOld
  <2>2. Exists(Current(w)) \in BOOLEAN /\ "resource" \in Stages \ {"none", "remove"}
    BY DEF Exists, Stages
  <2>3. disk' = [disk EXCEPT ![Current(w)] = {}] => disk' \in [Plugins -> Directories]
    BY <1>4, <1>5
  <2> QED BY <1>2, <1>3, <1>9, <2>1, <2>2, <2>3, Zenon
<1>14. CASE OpenResource(w)
  BY <1>2, <1>3, <1>4, <1>8, <1>14 DEF OpenResource, Stages
<1>15. CASE Extract(w)
  BY <1>2, <1>3, <1>4, <1>5, <1>8, <1>15 DEF Extract, Stages
<1>16. CASE WriteInfo(w)
  BY <1>2, <1>3, <1>4, <1>5, <1>9, <1>16 DEF WriteInfo, Stages
<1>17. CASE FinishInstall(w)
  <2>1. changed' \subseteq Plugins /\ UNCHANGED <<disk, tasks, button, open, harmed, starts>>
    BY <1>0, <1>17 DEF FinishInstall, RestTypes
  <2>2. CASE Len(op[w].stack) = 1
    BY <1>1, <1>3, <1>17, <2>1, <2>2 DEF FinishInstall, RestTypes
  <2>3. CASE Len(op[w].stack) # 1
    <3>1. Proceeds(w)
      BY <1>0, <1>17, <2>3, ReturnProceeds
    <3>2. PICK stack : op' = [op EXCEPT ![w].stack = stack, ![w].stage = "returned", ![w].halfway = FALSE]
      BY <1>17, <2>3, Zenon DEF FinishInstall
    <3>3. Left(w, "returned", stack, op[w].todo, FALSE) /\ results' = results
      BY <1>0, <1>17, <2>3, <3>2, ReturnLeaves DEF FinishInstall
    <3>4. OpTypes'
      BY <1>0, <3>1, <3>3, TypesOfStep DEF Stages
    <3> QED BY <2>1, <3>3, <3>4 DEF RestTypes
  <2> QED BY <2>2, <2>3
<1>18. CASE IconFails(w)
  BY <1>2, <1>3, <1>4, <1>5, <1>18 DEF IconFails
<1>19. CASE Collect(w)
  <2>1. PICK order \in SetToSeqs(Dependents(Root(w))) :
          op' = [op EXCEPT ![w].stage = "remove", ![w].todo = Append(order, Root(w))]
    BY <1>19, Zenon DEF Collect
  <2> DEFINE todo == Append(order, Root(w))
  <2>2. Root(w) \in Plugins
    <3>1. op[w].stack[1] \in Frames
      BY <1>0, HandIsFrame
    <3> QED BY <3>1 DEF Root, Frames
  <2>3. todo \in Seq(Plugins) /\ todo # <<>>
    <3>1. order \in Seq(Plugins)
      <4>1. Dependents(Root(w)) \subseteq Plugins
        BY <2>2, StoreAssumption, DependentsAreClosed
      <4>2. IsFiniteSet(Dependents(Root(w)))
        BY <4>1, StoreAssumption, FS_Subset DEF StoreAssumption
      <4>3. order \in Seq(Dependents(Root(w)))
        BY <4>2, ListedOnce
      <4> QED BY <4>1, <4>3, SequenceOfMore
    <3> QED BY <2>2, <3>1, LongerByOne
  <2> HIDE DEF todo
  <2>4. Proceeds(w) /\ Left(w, "remove", op[w].stack, todo, op[w].halfway)
    BY <1>0, <2>1, StageProceeds, CollectLeaves DEF todo
  <2>5. OpTypes'
    BY <1>0, <2>3, <2>4, TypesOfStep DEF Stages
  <2> QED BY <1>19, <2>5 DEF Collect, OnlyOp, RestTypes
<1>20. CASE RemoveNext(w)
  <2>0. op[w].todo # <<>> /\ op[w].stage = "remove"
    BY <1>20 DEF RemoveNext, OpTypes
  <2>1. Head(op[w].todo) \in Plugins /\ Tail(op[w].todo) \in Seq(Plugins)
    BY <1>0, <2>0
  <2>2. /\ disk' \in [Plugins -> Directories] /\ changed' \subseteq Plugins
        /\ UNCHANGED <<tasks, button, open, harmed, starts>>
    BY <1>5, <1>20, <2>1 DEF RemoveNext, RestTypes
  <2>3. CASE Len(op[w].todo) = 1
    BY <1>1, <1>20, <2>2, <2>3 DEF RemoveNext, RestTypes
  <2>4. CASE Len(op[w].todo) # 1
    <3>1. /\ op' = [op EXCEPT ![w].todo = Tail(op[w].todo),
                              ![w].halfway = op[w].halfway \/ Exists(Head(op[w].todo))]
          /\ results' = results
      BY <1>20, <2>4 DEF RemoveNext
    <3> DEFINE halfway == op[w].halfway \/ Exists(Head(op[w].todo))
               todo == Tail(op[w].todo)
    <3>2. halfway \in BOOLEAN /\ todo # <<>> /\ todo \in Seq(Plugins)
      <4>1. halfway \in BOOLEAN
        BY <1>0 DEF Exists
      <4>2. todo # <<>>
        BY <1>0, <2>0, <2>4, TailIsLeft
      <4> QED BY <2>1, <4>1, <4>2
    <3> HIDE DEF halfway, todo
    <3>3. Proceeds(w) /\ Left(w, "remove", op[w].stack, todo, halfway)
      BY <1>0, <2>0, <3>1, RemovalProceeds, NextLeaves DEF halfway, todo
    <3>4. OpTypes'
      BY <1>0, <2>0, <3>2, <3>3, TypesOfStep DEF Stages
    <3> QED BY <2>2, <3>1, <3>4 DEF RestTypes
  <2> QED BY <2>3, <2>4
<1>21. CASE RemovalFails(w)
  BY <1>2, <1>3, <1>21 DEF RemovalFails
<1> QED BY <1>10, <1>11, <1>12, <1>13, <1>14, <1>15, <1>16, <1>17, <1>18, <1>19, <1>20, <1>21 DEF WorkerStep

LEMMA TypesOfStart ==
    ASSUME TaskInv, OpTypes, RestTypes, NEW w \in Workers, NEW p \in Plugins,
           NEW kind \in Kinds \ {"idle"}, NEW stage \in Stages \ {"none", "remove"},
           Starting(w, Begin(kind, stage, p)), tasks' \subseteq Plugins,
           button' \in [Plugins -> {"install", "installing", "installed"}]
    PROVE  OpTypes' /\ RestTypes'
<1>1. op' = [op EXCEPT ![w] = Begin(kind, stage, p)]
  BY DEF Starting
<1>2. op'[w] = Begin(kind, stage, p) /\ \A v \in Workers : v # w => op'[v] = op[v]
  BY <1>1 DEF TaskInv, OpShape
<1>3. OpTypes'
  <2>1. "idle" \in Kinds /\ "none" \in Stages
    BY DEF Kinds, Stages
  <2> QED BY <1>2, <2>1, TypesOfOp DEF OpTypes
<1>4. starts' \in 0 .. MaxStarts
  BY StoreAssumption DEF Starting, RestTypes
<1> QED BY <1>3, <1>4 DEF Starting, RestTypes

LEMMA TypesStep ==
    ASSUME TaskInv, OpTypes, RestTypes, [Next]_vars
    PROVE  OpTypes' /\ RestTypes'
<1>1. ASSUME NEW w \in Workers, NEW p \in Plugins,
             StartInstall(w, p) \/ StartFile(w, p) \/ StartUninstall(w, p)
      PROVE  OpTypes' /\ RestTypes'
  <2>1. CASE StartInstall(w, p)
    <3>1. tasks' \subseteq Plugins /\ button' \in [Plugins -> {"install", "installing", "installed"}]
      BY <2>1 DEF StartInstall, RestTypes
    <3> QED BY <2>1, <3>1, TypesOfStart DEF StartInstall, Kinds, Stages
  <2>2. CASE StartFile(w, p) \/ StartUninstall(w, p)
    <3>1. tasks' \subseteq Plugins /\ button' \in [Plugins -> {"install", "installing", "installed"}]
      BY <2>2 DEF StartFile, StartUninstall, RestTypes
    <3> QED BY <2>2, <3>1, TypesOfStart DEF StartFile, StartUninstall, Kinds, Stages
  <2> QED BY <1>1, <2>1, <2>2
<1>2. ASSUME UNCHANGED op PROVE OpTypes'
  BY <1>2 DEF OpTypes
<1>3. \A ps : Refreshed(ps) \in [Plugins -> {"install", "installing", "installed"}]
  BY DEF Refreshed, RestTypes
<1>4. CASE ConsumeEvents \/ \E result \in results : Finish(result)
  <2>1. UNCHANGED <<disk, op, open, harmed, starts>> /\ tasks' \subseteq tasks
        /\ results' \subseteq results /\ changed' \subseteq changed
    BY <1>4 DEF ConsumeEvents, Finish
  <2>2. button' \in [Plugins -> {"install", "installing", "installed"}]
    BY <1>3, <1>4 DEF ConsumeEvents, Finish
  <2> QED BY <1>2, <2>1, <2>2 DEF RestTypes
<1>5. CASE CloseStore \/ UNCHANGED vars
  BY <1>2, <1>5 DEF CloseStore, vars, RestTypes
<1> QED BY <1>1, <1>4, <1>5, TypesOfWorker DEF Next, UiStep, UserStep

\* Every variable of the store keeps its type, however many operations run and
\* whatever fails.
THEOREM StoreTyped == Safety => []TypeOK
<1>1. Init => OpTypes /\ RestTypes
  <2> SUFFICES ASSUME Init PROVE OpTypes /\ RestTypes
    OBVIOUS
  <2>1. OpTypes
    <3>1. "idle" \in Kinds /\ "none" \in Stages
      BY DEF Kinds, Stages
    <3>2. \A w \in Workers : op[w] = Idle
      BY DEF Init
    <3> QED BY <3>1, <3>2, TypesOfOp DEF OpTypes
  <2>2. RestTypes
    <3>1. disk \in [Plugins -> Directories]
      BY DEF Init, Directories
    <3>2. starts \in 0 .. MaxStarts
      BY StoreAssumption DEF Init
    <3>3. button \in [Plugins -> {"install", "installing", "installed"}]
      BY DEF Init
    <3> QED BY <3>1, <3>2, <3>3, Zenon DEF Init, RestTypes
  <2> QED BY <2>1, <2>2
<1>2. TaskInv /\ OpTypes /\ RestTypes => TypeOK
  <2> SUFFICES ASSUME TaskInv, OpTypes, RestTypes PROVE op \in [Workers -> Operations]
    BY DEF RestTypes, TypeOK
  <2>1. op = [w \in Workers |-> op[w]]
    BY DEF TaskInv, OpShape
  <2>2. ASSUME NEW w \in Workers PROVE op[w] \in Operations
    <3>1. op[w].stack \in Seq(Frames)
      BY DEF TaskInv, OpTypes, Recursing, Idle
    <3>2. op[w] = [f \in Fields |-> op[w][f]]
      BY DEF TaskInv, OpShape
    <3>3. /\ op[w].kind \in Kinds /\ op[w].stage \in Stages
          /\ op[w].todo \in Seq(Plugins) /\ op[w].halfway \in BOOLEAN
      BY DEF OpTypes
    <3> QED BY <3>1, <3>2, <3>3 DEF Operations, Fields, Frames
  <2> QED BY <2>1, <2>2
<1> QED BY <1>1, <1>2, TaskInvInit, TaskInvStep, TypesStep, PTL DEF Safety
====
