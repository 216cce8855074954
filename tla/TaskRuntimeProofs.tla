-------------------------- MODULE TaskRuntimeProofs --------------------------
(***************************************************************************)
(* Theorems about TaskRuntime, for any sets of runs and jobs.              *)
(***************************************************************************)
EXTENDS TaskRuntime, SequenceTheorems, TLAPS

JobStates == {"idle", "working", "ended", "refused", "notStarted"}

\* Where a job may be, and what that says of the runner's bookkeeping.
JobsOK ==
  /\ gate \in BOOLEAN
  /\ pc \in [Runs \cup Jobs -> RunStates]
  /\ tasks \subseteq Jobs
  /\ \A j \in Jobs : pc[j] \in JobStates
  /\ \A j \in tasks : pc[j] \in {"working", "ended", "notStarted"}
  /\ \A j \in polls : j \in tasks /\ pc[j] \in {"working", "ended"}
  /\ \A j \in Jobs : pc[j] = "working" /\ j \notin AfterMayFail => j \in tasks

\* The gate's inductive invariant.  GateAccounted alone is not inductive: it
\* says nothing of polls, so a poll could complete a task that is not
\* registered and release a gate somebody else holds.
GateInv == JobsOK /\ GateAccounted

HoldingStates == {"working", "raised", "errorPosted", "returned"}

LEMMA HolderIs ==
  \A o : o \in Holders <=> \/ o \in ExclusiveRuns /\ pc[o] \in HoldingStates
                           \/ o \in tasks /\ pc[o] \in {"working", "ended"}
BY DEF Holders, HoldingStates

LEMMA HolderIsNext ==
  \A o : o \in Holders' <=> \/ o \in ExclusiveRuns /\ pc'[o] \in HoldingStates
                            \/ o \in tasks' /\ pc'[o] \in {"working", "ended"}
BY DEF Holders, HoldingStates

\* The three ways a step may treat the gate: leave it, take it, give it back.
LEMMA GateLeft ==
  ASSUME GateAccounted, gate' = gate, Holders' = Holders
  PROVE  GateAccounted'
BY DEF GateAccounted

LEMMA GateTaken ==
  ASSUME gate', NEW o, Holders' = {o}
  PROVE  GateAccounted'
BY DEF GateAccounted

LEMMA GateGivenBack ==
  ASSUME GateAccounted, gate' = FALSE, NEW o \in Holders, Holders' = Holders \ {o}
  PROVE  GateAccounted'
BY DEF GateAccounted

\* The gate's invariant holds initially: nobody has called anything.
LEMMA GateInvInit == Init => GateInv
<1> SUFFICES ASSUME Init PROVE GateInv
  OBVIOUS
<1>1. JobsOK
  BY DEF Init, JobsOK, RunStates, JobStates
<1>2. Holders = {}
  BY DEF Init, Holders, Runs, ExclusiveRuns
<1> QED BY <1>1, <1>2 DEF GateInv, GateAccounted, Init

\* A call of run: a refused or failed run holds nothing, a started one the gate.
LEMMA GateInvRun ==
  ASSUME GateInv, NEW r \in Runs, Run(r)
  PROVE  GateInv'
<1>0. r \notin Jobs /\ ExclusiveRuns \subseteq Runs
  BY RuntimeAssumption DEF Runs
<1>1. JobsOK'
  BY <1>0 DEF GateInv, JobsOK, Run, Refuse, FailToStart, Start, Advance, Release, RunStates, JobStates
<1>2. ASSUME NEW s \in {"refused", "notStarted"}, Advance(r, s) PROVE Holders' = Holders
  <2>1. \A o : o \in Holders' <=> o \in Holders
    BY <1>0, <1>2, HolderIs, HolderIsNext DEF GateInv, JobsOK, Run, Advance, HoldingStates
  <2> QED BY <2>1 DEF Holders
<1>3. CASE Refuse(r)
  BY <1>1, <1>2, <1>3, GateLeft DEF GateInv, Refuse
<1>4. CASE FailToStart(r)
  BY <1>1, <1>2, <1>4, GateLeft DEF GateInv, FailToStart, Release, JobsOK
<1>5. CASE Start(r) /\ r \in ExclusiveRuns
  <2>1. Holders = {}
    BY <1>5 DEF Start, GateInv, GateAccounted
  <2>2. \A o : o \in Holders' <=> o = r
    BY <1>0, <1>5, <2>1, HolderIs, HolderIsNext
    DEF GateInv, JobsOK, Run, Start, Advance, HoldingStates
  <2>3. Holders' = {r}
    BY <2>2 DEF Holders
  <2> QED BY <1>1, <1>5, <2>3, GateTaken DEF GateInv, Start
<1>6. CASE Start(r) /\ r \notin ExclusiveRuns
  <2>1. \A o : o \in Holders' <=> o \in Holders
    BY <1>0, <1>6, HolderIs, HolderIsNext DEF GateInv, JobsOK, Run, Start, Advance, HoldingStates
  <2>2. Holders' = Holders
    BY <2>1 DEF Holders
  <2> QED BY <1>1, <1>6, <2>2, GateLeft DEF GateInv, Start, JobsOK
<1> QED BY <1>3, <1>4, <1>5, <1>6 DEF Run

\* The steps of a worker thread: only ReleaseGate touches the gate, and only of
\* a run that still counts as its holder.
LEMMA GateInvWorker ==
  ASSUME GateInv, NEW r \in Runs,
         WorkerEnds(r) \/ PostError(r) \/ ReleaseGate(r) \/ PostSuccess(r)
  PROVE  GateInv'
<1>0. r \notin Jobs /\ ExclusiveRuns \subseteq Runs
  BY RuntimeAssumption DEF Runs
<1>1. JobsOK'
  BY <1>0 DEF GateInv, JobsOK, WorkerEnds, PostError, ReleaseGate, PostSuccess, Advance,
              Release, RunStates, JobStates
<1>2. CASE (WorkerEnds(r) \/ PostError(r) \/ PostSuccess(r))
           \/ (ReleaseGate(r) /\ r \notin ExclusiveRuns)
  <2>1. \A o : o \in Holders' <=> o \in Holders
    BY <1>0, <1>2, HolderIs, HolderIsNext
    DEF GateInv, JobsOK, WorkerEnds, PostError, ReleaseGate, PostSuccess, Advance, HoldingStates
  <2>2. Holders' = Holders /\ gate' = gate
    BY <1>2, <2>1 DEF Holders, WorkerEnds, PostError, PostSuccess, ReleaseGate
  <2> QED BY <1>1, <2>2, GateLeft DEF GateInv
<1>3. CASE ReleaseGate(r) /\ r \in ExclusiveRuns
  <2>1. r \in Holders
    BY <1>3, HolderIs DEF ReleaseGate, HoldingStates
  <2>2. \A o : o \in Holders' <=> o \in Holders /\ o # r
    BY <1>0, <1>3, HolderIs, HolderIsNext
    DEF GateInv, JobsOK, ReleaseGate, Advance, HoldingStates
  <2>3. Holders' = Holders \ {r}
    BY <2>2 DEF Holders
  <2> QED BY <1>1, <1>3, <2>1, <2>3, GateGivenBack DEF GateInv, ReleaseGate, Release
<1> QED BY <1>2, <1>3

\* A call of an animated function: the started job holds the gate, except when
\* the first after() raises; a job whose thread did not start holds nothing.
LEMMA GateInvCall ==
  ASSUME GateInv, NEW j \in Jobs, CallJob(j)
  PROVE  GateInv'
<1>0. j \notin Runs /\ ExclusiveRuns \subseteq Runs /\ j \notin tasks
  BY RuntimeAssumption DEF Runs, GateInv, JobsOK, CallJob
<1>1. JobsOK'
  BY <1>0 DEF GateInv, JobsOK, CallJob, RefuseJob, FailToStartJob, StartJob, Advance,
              Release, RunStates, JobStates
<1>2. CASE RefuseJob(j) \/ FailToStartJob(j) \/ (StartJob(j) /\ gate' = gate)
  <2>1. gate' = gate
    BY <1>2 DEF RefuseJob, FailToStartJob, Release, GateInv, JobsOK
  <2>2. tasks' = tasks \/ (tasks' = tasks \cup {j} /\ pc'[j] = "notStarted")
    BY <1>2, <2>1 DEF RefuseJob, FailToStartJob, StartJob, Advance, GateInv, JobsOK
  <2>3. \A o : o \in Holders' <=> o \in Holders
    BY <1>0, <1>2, <2>2, HolderIs, HolderIsNext
    DEF GateInv, JobsOK, RefuseJob, FailToStartJob, StartJob, Advance, HoldingStates
  <2>4. Holders' = Holders
    BY <2>3 DEF Holders
  <2> QED BY <1>1, <2>1, <2>4, GateLeft DEF GateInv
<1>3. CASE StartJob(j) /\ gate' # gate
  <2>1. gate' = TRUE /\ tasks' = tasks \cup {j} /\ tasks = {} /\ ~gate
    BY <1>3 DEF StartJob
  <2>2. Holders = {}
    BY <2>1 DEF GateInv, GateAccounted
  <2>3. \A o : o \in Holders' <=> o = j
    BY <1>0, <1>3, <2>1, <2>2, HolderIs, HolderIsNext
    DEF GateInv, JobsOK, StartJob, Advance, HoldingStates
  <2>4. Holders' = {j}
    BY <2>3 DEF Holders
  <2> QED BY <1>1, <2>1, <2>4, GateTaken DEF GateInv
<1> QED BY <1>2, <1>3 DEF CallJob

\* The end of a job's thread changes nothing of the gate; a poll that completes
\* the task releases the gate of a task that holds it.
LEMMA GateInvJob ==
  ASSUME GateInv, NEW j \in Jobs, JobEnds(j) \/ FinishWhenDone(j)
  PROVE  GateInv'
<1>0. j \notin Runs /\ ExclusiveRuns \subseteq Runs
  BY RuntimeAssumption DEF Runs
<1>1. JobsOK'
  BY <1>0 DEF GateInv, JobsOK, JobEnds, FinishWhenDone, Complete, Advance, Release,
              RunStates, JobStates
<1>2. CASE JobEnds(j)
  <2>1. \A o : o \in Holders' <=> o \in Holders
    BY <1>0, <1>2, HolderIs, HolderIsNext DEF GateInv, JobsOK, JobEnds, Advance, HoldingStates
  <2>2. Holders' = Holders /\ gate' = gate
    BY <1>2, <2>1 DEF Holders, JobEnds
  <2> QED BY <1>1, <2>2, GateLeft DEF GateInv
<1>3. CASE FinishWhenDone(j)
  <2>1. j \in tasks /\ j \in Holders
    BY <1>3, HolderIs DEF GateInv, JobsOK, FinishWhenDone
  <2>2. gate' = FALSE /\ tasks' = tasks \ {j} /\ pc' = pc
    BY <1>3, <2>1 DEF FinishWhenDone, Complete, Release
  <2>3. \A o : o \in Holders' <=> o \in Holders /\ o # j
    BY <1>0, <2>2, HolderIs, HolderIsNext
  <2>4. Holders' = Holders \ {j}
    BY <2>3 DEF Holders
  <2> QED BY <1>1, <2>1, <2>2, <2>4, GateGivenBack DEF GateInv
<1> QED BY <1>2, <1>3

LEMMA GateInvUnchanged ==
  ASSUME GateInv, UNCHANGED <<gate, pc, tasks>>, polls' = polls
  PROVE  GateInv'
BY DEF GateInv, JobsOK, GateAccounted, Holders

LEMMA GateInvStep == GateInv /\ [Next]_vars => GateInv'
<1> SUFFICES ASSUME GateInv, [Next]_vars PROVE GateInv'
  OBVIOUS
<1>1. CASE \E r \in Runs : Run(r)
  BY <1>1, GateInvRun
<1>2. CASE \E r \in Runs : WorkerEnds(r) \/ PostError(r) \/ ReleaseGate(r) \/ PostSuccess(r)
  BY <1>2, GateInvWorker
<1>3. CASE \E j \in Jobs : CallJob(j) \/ JobEnds(j) \/ FinishWhenDone(j)
  BY <1>3, GateInvCall, GateInvJob
<1>4. CASE Finalize \/ CloseView \/ Leave \/ UNCHANGED vars
  BY <1>4, GateInvUnchanged DEF Finalize, CloseView, Leave, vars
<1> QED BY <1>1, <1>2, <1>3, <1>4 DEF Next

\* The gate is locked exactly while one operation holds it: no path of either
\* runner leaks the lock or gives it back twice, whatever calls fail.
THEOREM GateIsAccounted == Spec => []GateAccounted
<1>1. GateInv => GateAccounted
  BY DEF GateInv
<1> QED BY <1>1, GateInvInit, GateInvStep, PTL DEF Spec

\* If after() never raises, two heavy workers never run at the same time.
THEOREM HeavyWorkersExclude ==
  ASSUME AfterMayFail = {}
  PROVE  Spec => []Exclusion
<1>1. ASSUME GateInv PROVE Exclusion
  <2>1. Heavy \subseteq Holders
    BY <1>1, HolderIs DEF Heavy, GateInv, JobsOK, HoldingStates
  <2> QED BY <1>1, <2>1 DEF Exclusion, GateInv, GateAccounted
<1>2. GateInv => Exclusion
  BY <1>1
<1> QED BY <1>2, GateInvInit, GateInvStep, PTL DEF Spec

------------------------------------------------------------------------------
(* Every run is finalized at most once.                                    *)

Unreported == {"idle", "working", "raised", "returned", "released"}

\* FinalizedOnce with what makes it inductive: only a run past its worker is
\* queued, and a run not yet past it has no report.
FinalizedInv ==
  /\ pc \in [Runs \cup Jobs -> RunStates]
  /\ queue \in Seq(Finalizers)
  /\ log \in [Runs -> Reports]
  /\ \A i \in 1..Len(queue) :
       /\ pc[queue[i].run] \in {"errorPosted", "ended"}
       /\ log[queue[i].run] = <<>>
  /\ \A i, k \in 1..Len(queue) : queue[i].run = queue[k].run => i = k
  /\ \A r \in Runs : pc[r] \in Unreported => log[r] = <<>>

\* What is queued are finalizers of runs.
LEMMA QueuedAreRuns ==
  ASSUME NEW q \in Seq(Finalizers)
  PROVE  \A i \in 1..Len(q) : q[i].run \in Runs
<1> SUFFICES ASSUME NEW i \in 1..Len(q) PROVE q[i].run \in Runs
  OBVIOUS
<1>1. q[i] \in Finalizers
  OBVIOUS
<1> QED BY <1>1 DEF Finalizers

\* The report of a run that has none is a whole report.
LEMMA ReportIsWhole ==
  ASSUME NEW r \in Runs, NEW c \in Callbacks, NEW shown, log \in [Runs -> Reports],
         log[r] = <<>>, Report(r, c, shown)
  PROVE  /\ log' \in [Runs -> Reports]
         /\ \A s \in Runs : s # r => log'[s] = log[s]
<1> DEFINE said == IF Alive(r) THEN <<c, "finally">> ELSE <<"finally">>
<1>1. said \in Reports /\ said \in Seq(Callbacks \cup {"finally"})
  <2>1. CASE Alive(r)
    <3>1. said = <<c, "finally">>
      BY <2>1
    <3>2. <<c, "finally">> \in Reports
      BY DEF Reports
    <3>3. <<c, "finally">> \in Seq(Callbacks \cup {"finally"})
      OBVIOUS
    <3> QED BY <3>1, <3>2, <3>3
  <2>2. CASE ~Alive(r)
    <3>1. said = <<"finally">>
      BY <2>2
    <3> QED BY <3>1 DEF Reports
  <2> QED BY <2>1, <2>2
<1>2. <<>> \o said = said
  BY <1>1, ConcatEmptySeq
<1>3. log' = [log EXCEPT ![r] = said]
  BY <1>2 DEF Report
<1> HIDE DEF said
<1> QED BY <1>1, <1>3

\* A run past its worker that is not queued may be queued.
LEMMA PostKeepsInv ==
  ASSUME FinalizedInv, NEW r \in Runs, NEW c \in {"success", "error"},
         NEW s \in {"errorPosted", "ended"},
         pc[r] \in Unreported, Post(r, c), Advance(r, s), log' = log
  PROVE  FinalizedInv'
<1> DEFINE f == [run |-> r, callback |-> c]
<1>1. f \in Finalizers /\ queue \in Seq(Finalizers) /\ queue' = Append(queue, f)
  BY DEF Finalizers, Post, FinalizedInv
<1>2. /\ Len(queue') = Len(queue) + 1 /\ Len(queue) \in Nat
      /\ \A i \in 1..Len(queue) : queue'[i] = queue[i]
      /\ queue'[Len(queue) + 1] = f
      /\ queue' \in Seq(Finalizers)
  BY <1>1 DEF f
<1>3. pc' = [pc EXCEPT ![r] = s] /\ pc' \in [Runs \cup Jobs -> RunStates]
  BY DEF Advance, FinalizedInv, RunStates
<1>4. \A i \in 1..Len(queue) : queue[i].run \in Runs /\ queue[i].run # r
  BY <1>1, QueuedAreRuns DEF FinalizedInv, Unreported
<1>5. f.run = r
  BY DEF f
<1> HIDE DEF f
<1>6. \A i \in 1..Len(queue') : /\ pc'[queue'[i].run] \in {"errorPosted", "ended"}
                               /\ log'[queue'[i].run] = <<>>
  <2> TAKE i \in 1..Len(queue')
  <2>1. CASE i \in 1..Len(queue)
    BY <1>2, <1>3, <1>4, <2>1 DEF FinalizedInv
  <2>2. CASE i = Len(queue) + 1
    BY <1>2, <1>3, <1>5, <2>2 DEF FinalizedInv
  <2> QED BY <1>2, <2>1, <2>2
<1>7. \A i, k \in 1..Len(queue') : queue'[i].run = queue'[k].run => i = k
  BY <1>2, <1>4, <1>5 DEF FinalizedInv
<1>8. \A q \in Runs : pc'[q] \in Unreported => log'[q] = <<>>
  BY <1>3 DEF FinalizedInv, Unreported
<1> QED BY <1>2, <1>3, <1>6, <1>7, <1>8 DEF FinalizedInv

\* A step that queues nothing and reports nothing, whatever else it does.
LEMMA SilentKeepsInv ==
  ASSUME FinalizedInv, queue' = queue, log' = log,
         pc' \in [Runs \cup Jobs -> RunStates],
         \A r \in Runs : \/ pc'[r] = pc[r]
                         \/ pc[r] \in Unreported /\ pc'[r] \in Unreported
                         \/ pc[r] = "errorPosted" /\ pc'[r] = "ended"
  PROVE  FinalizedInv'
<1>1. \A i \in 1..Len(queue) : queue[i].run \in Runs
  BY QueuedAreRuns DEF FinalizedInv
<1> QED BY <1>1 DEF FinalizedInv, Unreported

LEMMA FinalizedInvInit == Init => FinalizedInv
BY DEF Init, FinalizedInv, RunStates, Reports, Finalizers

LEMMA FinalizedInvRun ==
  ASSUME FinalizedInv, NEW r \in Runs, Run(r)
  PROVE  FinalizedInv'
<1>1. pc[r] = "idle" /\ log[r] = <<>> /\ log \in [Runs -> Reports]
  BY DEF Run, FinalizedInv, Unreported
<1>2. CASE Refuse(r) \/ FailToStart(r)
  <2>1. PICK c \in Callbacks, s \in {"refused", "notStarted"} :
          Report(r, c, Shown(r)) /\ Advance(r, s)
    BY <1>2 DEF Refuse, FailToStart, Callbacks
  <2>2. log' \in [Runs -> Reports] /\ \A q \in Runs : q # r => log'[q] = log[q]
    BY <1>1, <2>1, ReportIsWhole
  <2>3. pc' = [pc EXCEPT ![r] = s] /\ pc' \in [Runs \cup Jobs -> RunStates]
    BY <2>1 DEF Advance, FinalizedInv, RunStates
  <2>4. \A i \in 1..Len(queue) : queue[i].run \in Runs /\ queue[i].run # r
    BY <1>1, QueuedAreRuns DEF FinalizedInv
  <2>5. queue' = queue
    BY DEF Run
  <2> QED BY <2>2, <2>3, <2>4, <2>5 DEF FinalizedInv, Unreported
<1>3. CASE Start(r)
  BY <1>1, <1>3, SilentKeepsInv DEF Start, Run, Advance, FinalizedInv, Unreported, RunStates
<1> QED BY <1>2, <1>3 DEF Run

LEMMA FinalizedInvWorker ==
  ASSUME FinalizedInv, NEW r \in Runs,
         WorkerEnds(r) \/ PostError(r) \/ ReleaseGate(r) \/ PostSuccess(r)
  PROVE  FinalizedInv'
<1>1. CASE WorkerEnds(r) \/ ReleaseGate(r)
  BY <1>1, SilentKeepsInv DEF WorkerEnds, ReleaseGate, Advance, FinalizedInv, Unreported, RunStates
<1>2. CASE PostError(r)
  BY <1>2, PostKeepsInv DEF PostError, Unreported
<1>3. CASE PostSuccess(r)
  BY <1>3, PostKeepsInv DEF PostSuccess, Unreported
<1> QED BY <1>1, <1>2, <1>3

LEMMA FinalizedInvJob ==
  ASSUME FinalizedInv, NEW j \in Jobs, CallJob(j) \/ JobEnds(j) \/ FinishWhenDone(j)
  PROVE  FinalizedInv'
<1>1. j \notin Runs
  BY RuntimeAssumption
<1>2. queue' = queue /\ log' = log
  BY DEF CallJob, JobEnds, FinishWhenDone
<1>3. pc' \in [Runs \cup Jobs -> RunStates] /\ \A r \in Runs : pc'[r] = pc[r]
  BY <1>1 DEF CallJob, RefuseJob, FailToStartJob, StartJob, JobEnds, FinishWhenDone, Advance,
              FinalizedInv, RunStates
<1> QED BY <1>2, <1>3, SilentKeepsInv

\* The oldest finalizer is taken: its run is in the queue once, so the rest of
\* the queue speaks of other runs.
LEMMA FinalizedInvFinalize ==
  ASSUME FinalizedInv, Finalize
  PROVE  FinalizedInv'
<1> DEFINE f == Head(queue)
<1>1. queue \in Seq(Finalizers) /\ queue # <<>> /\ queue' = Tail(queue)
  BY DEF FinalizedInv, Finalize
<1>2. /\ f = queue[1] /\ f \in Finalizers /\ 1 \in 1..Len(queue)
      /\ queue' \in Seq(Finalizers)
      /\ \A i \in 1..Len(queue') : i + 1 \in 1..Len(queue) /\ queue'[i] = queue[i + 1]
  BY <1>1 DEF f
<1>3. f.run \in Runs /\ f.callback \in Callbacks /\ log[f.run] = <<>>
      /\ pc[f.run] \in {"errorPosted", "ended"}
  BY <1>2 DEF Finalizers, Callbacks, FinalizedInv
<1>4. Report(f.run, f.callback, animation) /\ pc' = pc
  BY DEF Finalize, f
<1> HIDE DEF f
<1>5. log' \in [Runs -> Reports] /\ \A s \in Runs : s # f.run => log'[s] = log[s]
  BY <1>3, <1>4, ReportIsWhole DEF FinalizedInv
<1>6. \A i \in 1..Len(queue') : queue'[i].run # f.run /\ queue'[i].run \in Runs
  BY <1>1, <1>2, QueuedAreRuns DEF FinalizedInv
<1>7. \A i \in 1..Len(queue') : /\ pc'[queue'[i].run] \in {"errorPosted", "ended"}
                               /\ log'[queue'[i].run] = <<>>
  BY <1>2, <1>4, <1>5, <1>6 DEF FinalizedInv
<1>8. \A i, k \in 1..Len(queue') : queue'[i].run = queue'[k].run => i = k
  <2> TAKE i, k \in 1..Len(queue')
  <2> HAVE queue'[i].run = queue'[k].run
  <2>1. i + 1 = k + 1
    BY <1>2 DEF FinalizedInv
  <2> QED BY <2>1, <1>2
<1>9. \A r \in Runs : pc'[r] \in Unreported => log'[r] = <<>>
  BY <1>3, <1>4, <1>5 DEF FinalizedInv, Unreported
<1> QED BY <1>2, <1>4, <1>5, <1>7, <1>8, <1>9 DEF FinalizedInv

\* Every step of the runners keeps it.
LEMMA FinalizedAlways == Spec => []FinalizedInv
<1>1. FinalizedInv /\ [Next]_vars => FinalizedInv'
  <2> SUFFICES ASSUME FinalizedInv, [Next]_vars PROVE FinalizedInv'
    OBVIOUS
  <2>1. CASE \E r \in Runs : Run(r) \/ WorkerEnds(r) \/ PostError(r) \/ ReleaseGate(r) \/ PostSuccess(r)
    BY <2>1, FinalizedInvRun, FinalizedInvWorker
  <2>2. CASE \E j \in Jobs : CallJob(j) \/ JobEnds(j) \/ FinishWhenDone(j)
    BY <2>2, FinalizedInvJob
  <2>3. CASE Finalize
    BY <2>3, FinalizedInvFinalize
  <2>4. CASE CloseView \/ Leave \/ UNCHANGED vars
    BY <2>4 DEF CloseView, Leave, vars, FinalizedInv
  <2> QED BY <2>1, <2>2, <2>3, <2>4 DEF Next
<1> QED BY <1>1, FinalizedInvInit, PTL DEF Spec

\* A run is reported at most once and with a whole report: no finalizer is
\* posted twice, none is posted for a run that was refused or did not start.
THEOREM RunsFinalizedOnce == Spec => []FinalizedOnce
<1>1. FinalizedInv => FinalizedOnce
  BY DEF FinalizedInv, FinalizedOnce
<1> QED BY <1>1, FinalizedAlways, PTL

------------------------------------------------------------------------------
(* The runtime keeps the promise of OneAtATime.                            *)

\* No job is left in _tasks by a thread that did not start.
NoLeak == \A j \in Jobs : pc[j] # "notStarted"

\* An operation occupies the machine, in the promise's terms, exactly while it
\* holds the gate.
LEMMA OccupantsAreHolders ==
  ASSUME GateInv, AfterMayFail = {}
  PROVE  \A o \in ExclusiveRuns \cup Jobs :
           /\ o \in Holders <=> Status(o) \in {"running", "finishing"}
           /\ pc[o] = "working" => o \in Holders
<1> TAKE o \in ExclusiveRuns \cup Jobs
<1>1. pc[o] = "working" => o \in Holders
  BY HolderIs DEF GateInv, JobsOK, HoldingStates
<1>2. o \in Holders => pc[o] \notin {"idle", "refused"}
  BY HolderIs, RuntimeAssumption DEF GateInv, JobsOK, HoldingStates
<1> QED BY <1>1, <1>2 DEF Status

\* The status of an operation nobody touched is what it was.
LEMMA StatusKept ==
  ASSUME NEW o, pc'[o] = pc[o], o \in tasks' <=> o \in tasks
  PROVE  Status(o)' = Status(o)
<1>1. o \in Holders' <=> o \in Holders
  BY HolderIs, HolderIsNext
<1> QED BY <1>1 DEF Status

\* A step that moves one operation moves it alone in the promise.
LEMMA MovesOne ==
  ASSUME GateInv, NEW o \in ExclusiveRuns \cup Jobs, NEW s, pc' = [pc EXCEPT ![o] = s],
         tasks' = tasks \/ tasks' = tasks \cup {o} \/ tasks' = tasks \ {o},
         process = "up", process' = "up"
  PROVE  Promise!Move(o, Status(o), Status(o)')
<1>1. \A p \in ExclusiveRuns \cup Jobs : p # o => Status(p)' = Status(p)
  BY StatusKept DEF GateInv, JobsOK
<1> QED BY <1>1 DEF Promise!Move

\* A step that leaves the operations alone is a stutter of the promise.
LEMMA MovesNone ==
  ASSUME \A p \in ExclusiveRuns \cup Jobs : Status(p)' = Status(p), process' = process
  PROVE  UNCHANGED Promise!vars
BY DEF Promise!vars

LEMMA RunKeepsPromise ==
  ASSUME GateInv, GateInv', AfterMayFail = {}, NEW r \in Runs, Run(r)
  PROVE  [Promise!Next]_(Promise!vars)
<1>0. /\ ExclusiveRuns \subseteq Runs /\ r \notin Jobs /\ r \notin tasks
      /\ tasks' = tasks /\ pc[r] = "idle" /\ process = "up" /\ process' = "up"
  BY RuntimeAssumption DEF Runs, GateInv, JobsOK, Run
<1>1. PICK s \in {"refused", "notStarted", "working"} : pc' = [pc EXCEPT ![r] = s]
  BY DEF Run, Refuse, FailToStart, Start, Advance
<1>2. pc'[r] = s
  BY <1>1 DEF GateInv, JobsOK
<1>3. CASE r \notin ExclusiveRuns
  <2>1. \A p \in ExclusiveRuns \cup Jobs : Status(p)' = Status(p)
    BY <1>0, <1>1, <1>3, StatusKept DEF GateInv, JobsOK
  <2> QED BY <1>0, <2>1, MovesNone
<1>4. CASE r \in ExclusiveRuns
  <2>1. Promise!Move(r, Status(r), Status(r)')
    BY <1>0, <1>1, <1>4, MovesOne
  <2>2. Status(r) = "waiting"
    BY <1>0 DEF Status
  <2>3. r \in Holders' <=> s = "working"
    BY <1>0, <1>1, <1>2, <1>4, HolderIsNext DEF HoldingStates
  <2>4. CASE Refuse(r)
    <3>1. Holders # {} /\ s = "refused"
      BY <1>1, <1>2, <2>4 DEF Refuse, Advance, GateInv, JobsOK, GateAccounted
    <3>2. Status(r)' = "refused"
      BY <1>2, <3>1 DEF Status
    <3>3. Promise!Occupants([p \in ExclusiveRuns \cup Jobs |-> Status(p)]) # {}
      BY <3>1, OccupantsAreHolders DEF Promise!Occupants, Holders, GateInv, JobsOK
    <3> QED BY <1>4, <2>1, <2>2, <3>2, <3>3 DEF Promise!Next, Promise!Refuse
  <2>5. CASE FailToStart(r) \/ Start(r)
    <3>1. Holders = {} /\ s \in {"notStarted", "working"}
      BY <1>1, <1>2, <1>4, <2>5 DEF FailToStart, Start, Advance, GateInv, JobsOK, GateAccounted
    <3>2. Status(r)' = IF s = "working" THEN "running" ELSE "over"
      BY <1>2, <2>3, <3>1 DEF Status
    <3>3. Promise!Occupants([p \in ExclusiveRuns \cup Jobs |-> Status(p)]) = {}
      BY <3>1, OccupantsAreHolders DEF Promise!Occupants
    <3> QED BY <1>4, <2>1, <2>2, <3>1, <3>2, <3>3 DEF Promise!Next, Promise!Begin, Promise!Abort
  <2> QED BY <2>4, <2>5 DEF Run
<1> QED BY <1>3, <1>4

LEMMA WorkerKeepsPromise ==
  ASSUME GateInv, GateInv', AfterMayFail = {}, NEW r \in Runs,
         WorkerEnds(r) \/ PostError(r) \/ ReleaseGate(r) \/ PostSuccess(r)
  PROVE  [Promise!Next]_(Promise!vars)
<1>0. /\ ExclusiveRuns \subseteq Runs /\ r \notin Jobs /\ r \notin tasks
      /\ tasks' = tasks /\ process = "up" /\ process' = "up"
  BY RuntimeAssumption DEF Runs, GateInv, JobsOK, WorkerEnds, PostError, ReleaseGate, PostSuccess
<1>1. PICK s \in RunStates : pc' = [pc EXCEPT ![r] = s]
  BY DEF WorkerEnds, PostError, ReleaseGate, PostSuccess, Advance, RunStates
<1>2. pc'[r] = s
  BY <1>1 DEF GateInv, JobsOK
<1>3. \A p \in ExclusiveRuns \cup Jobs : p # r => Status(p)' = Status(p)
  BY <1>0, <1>1, StatusKept DEF GateInv, JobsOK
<1>4. CASE r \notin ExclusiveRuns
  BY <1>0, <1>3, <1>4, MovesNone
<1>5. CASE r \in ExclusiveRuns
  <2>1. Promise!Move(r, Status(r), Status(r)')
    BY <1>0, <1>1, <1>5, MovesOne
  <2>2. /\ r \in Holders <=> pc[r] \in HoldingStates
        /\ r \in Holders' <=> pc'[r] \in HoldingStates
    BY <1>0, <1>5, HolderIs, HolderIsNext
  <2>3. CASE WorkerEnds(r)
    <3>1. Status(r) = "running" /\ Status(r)' = "finishing"
      BY <1>1, <1>2, <2>2, <2>3 DEF WorkerEnds, Advance, Status, HoldingStates, GateInv, JobsOK
    <3> QED BY <1>5, <2>1, <3>1 DEF Promise!Next, Promise!Finish
  <2>4. CASE PostError(r) \/ PostSuccess(r)
    <3>1. Status(r)' = Status(r)
      BY <1>1, <1>2, <2>2, <2>4 DEF PostError, PostSuccess, Advance, Status, HoldingStates, GateInv, JobsOK
    <3> QED BY <1>0, <1>3, <3>1, MovesNone
  <2>5. CASE ReleaseGate(r)
    <3>1. Status(r) = "finishing" /\ Status(r)' = "over"
      BY <1>1, <1>2, <2>2, <2>5 DEF ReleaseGate, Advance, Status, HoldingStates, GateInv, JobsOK
    <3> QED BY <1>5, <2>1, <3>1 DEF Promise!Next, Promise!Retire
  <2> QED BY <2>3, <2>4, <2>5
<1> QED BY <1>4, <1>5

LEMMA JobKeepsPromise ==
  ASSUME GateInv, GateInv', NoLeak, AfterMayFail = {}, StartMayFail \cap Jobs = {},
         NEW j \in Jobs, CallJob(j) \/ JobEnds(j) \/ FinishWhenDone(j)
  PROVE  [Promise!Next]_(Promise!vars)
<1>0. j \notin ExclusiveRuns /\ process = "up" /\ process' = "up"
  BY RuntimeAssumption DEF Runs, CallJob, JobEnds, FinishWhenDone
<1>1. /\ j \in Holders <=> j \in tasks /\ pc[j] \in {"working", "ended"}
      /\ j \in Holders' <=> j \in tasks' /\ pc'[j] \in {"working", "ended"}
  BY <1>0, HolderIs, HolderIsNext
<1>2. CASE RefuseJob(j) /\ CallJob(j)
  <2>1. Promise!Move(j, Status(j), Status(j)')
    BY <1>0, <1>2, MovesOne DEF RefuseJob, Advance
  <2>2. Status(j) = "waiting" /\ Status(j)' = "refused"
    BY <1>2 DEF RefuseJob, CallJob, Advance, Status, GateInv, JobsOK
  <2>3. \E o \in ExclusiveRuns \cup Jobs : o \in Holders
    <3>1. CASE gate
      BY <3>1 DEF GateInv, GateAccounted, JobsOK, Holders
    <3>2. CASE tasks # {}
      BY <3>2, HolderIs DEF GateInv, JobsOK, NoLeak
    <3> QED BY <1>2, <3>1, <3>2 DEF RefuseJob
  <2>4. Promise!Occupants([p \in ExclusiveRuns \cup Jobs |-> Status(p)]) # {}
    BY <2>3, OccupantsAreHolders DEF Promise!Occupants
  <2> QED BY <2>1, <2>2, <2>4 DEF Promise!Next, Promise!Refuse
<1>3. CASE StartJob(j) /\ CallJob(j)
  <2>1. Promise!Move(j, Status(j), Status(j)')
    BY <1>0, <1>3, MovesOne DEF StartJob, Advance
  <2>2. Status(j) = "waiting" /\ Status(j)' = "running"
    BY <1>3 DEF StartJob, CallJob, Advance, Status, GateInv, JobsOK
  <2>3. Holders = {}
    BY <1>3 DEF StartJob, GateInv, GateAccounted
  <2>4. Promise!Occupants([p \in ExclusiveRuns \cup Jobs |-> Status(p)]) = {}
    BY <2>3, OccupantsAreHolders DEF Promise!Occupants
  <2> QED BY <2>1, <2>2, <2>4 DEF Promise!Next, Promise!Begin
<1>4. CASE JobEnds(j)
  <2>1. Promise!Move(j, Status(j), Status(j)')
    BY <1>0, <1>4, MovesOne DEF JobEnds, Advance
  <2>2. Status(j) = "running" /\ Status(j)' = "finishing"
    BY <1>1, <1>4 DEF JobEnds, Advance, Status, GateInv, JobsOK
  <2> QED BY <2>1, <2>2 DEF Promise!Next, Promise!Finish
<1>5. CASE FinishWhenDone(j)
  <2>1. pc' = pc /\ tasks' = tasks \ {j} /\ pc[j] = "ended" /\ j \in tasks
    BY <1>5 DEF FinishWhenDone, Complete, GateInv, JobsOK
  <2>2. pc' = [pc EXCEPT ![j] = "ended"]
    BY <2>1 DEF GateInv, JobsOK
  <2>3. Promise!Move(j, Status(j), Status(j)')
    BY <1>0, <2>1, <2>2, MovesOne
  <2>4. Status(j) = "finishing" /\ Status(j)' = "over"
    BY <1>1, <2>1 DEF Status
  <2> QED BY <2>3, <2>4 DEF Promise!Next, Promise!Retire
<1>6. ~FailToStartJob(j)
  BY DEF FailToStartJob
<1> QED BY <1>2, <1>3, <1>4, <1>5, <1>6 DEF CallJob

\* If no job's thread fails to start and after() never raises, the runtime is a
\* correct implementation of OneAtATime, in what it may do.
THEOREM RuntimeKeepsPromise ==
  ASSUME AfterMayFail = {}, StartMayFail \cap Jobs = {}
  PROVE  Spec => Promise!Safety
<1>1. Init => Promise!Init /\ NoLeak
  BY RuntimeAssumption DEF Init, Promise!Init, Status, NoLeak, Runs
<1>2. NoLeak /\ GateInv /\ [Next]_vars => NoLeak'
  <2> SUFFICES ASSUME NoLeak, GateInv, [Next]_vars PROVE NoLeak'
    OBVIOUS
  <2> USE RuntimeAssumption DEF NoLeak, GateInv, JobsOK, Advance
  <2>1. CASE \E r \in Runs : Run(r) \/ WorkerEnds(r) \/ PostError(r) \/ ReleaseGate(r) \/ PostSuccess(r)
    BY <2>1 DEF Run, Refuse, FailToStart, Start, WorkerEnds, PostError, ReleaseGate, PostSuccess
  <2>2. CASE \E j \in Jobs : CallJob(j) \/ JobEnds(j) \/ FinishWhenDone(j)
    BY <2>2 DEF CallJob, RefuseJob, FailToStartJob, StartJob, JobEnds, FinishWhenDone
  <2>3. CASE Finalize \/ CloseView \/ Leave \/ UNCHANGED vars
    BY <2>3 DEF Finalize, CloseView, Leave, vars
  <2> QED BY <2>1, <2>2, <2>3 DEF Next
<1>3. NoLeak /\ GateInv /\ GateInv' /\ [Next]_vars => [Promise!Next]_(Promise!vars)
  <2> SUFFICES ASSUME NoLeak, GateInv, GateInv', [Next]_vars
               PROVE  [Promise!Next]_(Promise!vars)
    OBVIOUS
  <2>1. CASE \E r \in Runs : Run(r) \/ WorkerEnds(r) \/ PostError(r) \/ ReleaseGate(r) \/ PostSuccess(r)
    BY <2>1, RunKeepsPromise, WorkerKeepsPromise
  <2>2. CASE \E j \in Jobs : CallJob(j) \/ JobEnds(j) \/ FinishWhenDone(j)
    BY <2>2, JobKeepsPromise
  <2>3. CASE Finalize \/ CloseView \/ Leave \/ UNCHANGED vars
    <3>1. pc' = pc /\ tasks' = tasks
      BY <2>3 DEF Finalize, CloseView, Leave, vars
    <3>2. \A p \in ExclusiveRuns \cup Jobs : Status(p)' = Status(p)
      BY <3>1, StatusKept
    <3>3. CASE process' = process
      BY <3>2, <3>3, MovesNone
    <3>4. CASE process' # process
      <4>1. process = "up" /\ process' # "up"
        BY <2>3, <3>4 DEF Finalize, CloseView, Leave, vars
      <4> QED BY <3>2, <4>1 DEF Promise!Next, Promise!Shut
    <3> QED BY <3>3, <3>4
  <2> QED BY <2>1, <2>2, <2>3 DEF Next
<1> QED BY <1>1, <1>2, <1>3, GateInvInit, GateInvStep, PTL DEF Spec, Promise!Safety

------------------------------------------------------------------------------
(* No report and no gate is left behind.                                   *)

\* Past its worker: nothing of the run's own thread is still to come.
Past == {"errorPosted", "ended", "refused", "notStarted"}

Queued(r) == \E i \in 1..Len(queue) : queue[i].run = r

\* A run past its worker has its report, or it is in the queue.
Accounted == \A r \in Runs : pc[r] \in Past => log[r] # <<>> \/ Queued(r)

\* A started task is polled.
Polled == \A j \in tasks : pc[j] \in {"working", "ended"} => j \in polls

\* What is said of a run is never nothing.
LEMMA ReportSays ==
  ASSUME FinalizedInv, NEW r \in Runs, NEW c \in Callbacks, NEW shown, log[r] = <<>>,
         Report(r, c, shown)
  PROVE  log'[r] # <<>> /\ \A s \in Runs : s # r => log'[s] = log[s]
<1> DEFINE said == IF Alive(r) THEN <<c, "finally">> ELSE <<"finally">>
<1>1. said \in Seq(Callbacks \cup {"finally"}) /\ said # <<>>
  <2>1. <<c, "finally">> \in Seq(Callbacks \cup {"finally"}) /\ <<c, "finally">> # <<>>
    OBVIOUS
  <2>2. <<"finally">> \in Seq(Callbacks \cup {"finally"}) /\ <<"finally">> # <<>>
    OBVIOUS
  <2> QED BY <2>1, <2>2, Zenon
<1>2. <<>> \o said = said
  BY <1>1, ConcatEmptySeq
<1>3. log' = [log EXCEPT ![r] = said]
  BY <1>2 DEF Report
<1> HIDE DEF said
<1> QED BY <1>1, <1>3 DEF FinalizedInv

\* Posting a finalizer accounts for its run and leaves the others in the queue.
LEMMA PostAccounts ==
  ASSUME FinalizedInv, Accounted, NEW r \in Runs, NEW c \in {"success", "error"}, NEW s,
         Post(r, c), Advance(r, s), log' = log
  PROVE  Accounted'
<1> DEFINE f == [run |-> r, callback |-> c]
<1>1. queue \in Seq(Finalizers) /\ queue' = Append(queue, f) /\ f \in Finalizers
  BY DEF FinalizedInv, Post, Finalizers
<1>2. /\ Len(queue) \in Nat /\ Len(queue') = Len(queue) + 1
      /\ \A i \in 1..Len(queue) : queue'[i] = queue[i]
      /\ queue'[Len(queue) + 1].run = r
  BY <1>1
<1>3. Queued(r)' /\ \A q : Queued(q) => Queued(q)'
  BY <1>2 DEF Queued
<1>4. \A q \in Runs : q # r => pc'[q] = pc[q]
  BY DEF Advance, FinalizedInv
<1> QED BY <1>3, <1>4 DEF Accounted

\* A step that leaves the queue and the logs and brings no run past its worker.
LEMMA NothingToAccount ==
  ASSUME Accounted, queue' = queue, log' = log,
         \A r \in Runs : pc'[r] \in Past => pc[r] \in Past
  PROVE  Accounted'
BY DEF Accounted, Queued

LEMMA RunAccounts == ASSUME FinalizedInv, Accounted, NEW r \in Runs, Run(r) PROVE Accounted'
<1>1. pc[r] = "idle" /\ log[r] = <<>> /\ queue' = queue
  BY DEF Run, FinalizedInv, Unreported
<1>2. CASE Refuse(r) \/ FailToStart(r)
  <2>1. PICK c \in Callbacks, s \in Past : Report(r, c, Shown(r)) /\ Advance(r, s)
    BY <1>2 DEF Refuse, FailToStart, Callbacks, Past
  <2>2. log'[r] # <<>> /\ \A q \in Runs : q # r => log'[q] = log[q]
    BY <1>1, <2>1, ReportSays
  <2>3. \A q \in Runs : q # r => pc'[q] = pc[q]
    BY <2>1 DEF Advance, FinalizedInv
  <2> QED BY <1>1, <2>2, <2>3 DEF Accounted, Queued
<1>3. CASE Start(r)
  BY <1>1, <1>3, NothingToAccount DEF Start, Advance, FinalizedInv, Past
<1> QED BY <1>2, <1>3 DEF Run

LEMMA WorkerAccounts ==
  ASSUME FinalizedInv, Accounted, NEW r \in Runs,
         WorkerEnds(r) \/ PostError(r) \/ ReleaseGate(r) \/ PostSuccess(r)
  PROVE  Accounted'
<1>1. CASE WorkerEnds(r) \/ ReleaseGate(r)
  BY <1>1, NothingToAccount DEF WorkerEnds, ReleaseGate, Advance, FinalizedInv, Past
<1>2. CASE PostError(r)
  BY <1>2, PostAccounts DEF PostError
<1>3. CASE PostSuccess(r)
  BY <1>3, PostAccounts DEF PostSuccess
<1> QED BY <1>1, <1>2, <1>3

\* The finalizer that is taken reports its run; the others stay.
LEMMA FinalizeAccounts == ASSUME FinalizedInv, Accounted, Finalize PROVE Accounted'
<1> DEFINE f == Head(queue)
<1>1. queue \in Seq(Finalizers) /\ queue # <<>> /\ queue' = Tail(queue)
  BY DEF FinalizedInv, Finalize
<1>2. f = queue[1] /\ f \in Finalizers /\ 1 \in 1..Len(queue)
  BY <1>1
<1>3. f.run \in Runs /\ f.callback \in Callbacks /\ log[f.run] = <<>>
  BY <1>2 DEF Finalizers, Callbacks, FinalizedInv
<1>4. Report(f.run, f.callback, animation) /\ pc' = pc
  BY DEF Finalize
<1>5. \A q : Queued(q) /\ q # f.run => Queued(q)'
  <2> SUFFICES ASSUME NEW i \in 1..Len(queue), queue[i].run # f.run
               PROVE  \E k \in 1..Len(queue') : queue'[k] = queue[i]
    BY DEF Queued
  <2>1. i # 1
    BY <1>2
  <2>2. i - 1 \in 1..Len(queue') /\ queue'[i - 1] = queue[i]
    BY <1>1, <2>1
  <2> QED BY <2>2
<1> HIDE DEF f
<1>6. log'[f.run] # <<>> /\ \A s \in Runs : s # f.run => log'[s] = log[s]
  BY <1>3, <1>4, ReportSays
<1> QED BY <1>4, <1>5, <1>6 DEF Accounted

\* No run that is over goes unreported: it has its report, or its finalizer waits
\* for the UI thread, whatever failed on the way and whether or not its view lives.
THEOREM RunsAreAccounted ==
  Spec => [](\A r \in Runs : pc[r] \in Past => log[r] # <<>> \/ Queued(r))
<1>1. Init => Accounted
  BY DEF Init, Accounted, Past
<1>2. FinalizedInv /\ Accounted /\ [Next]_vars => Accounted'
  <2> SUFFICES ASSUME FinalizedInv, Accounted, [Next]_vars PROVE Accounted'
    OBVIOUS
  <2>1. CASE \E r \in Runs : Run(r) \/ WorkerEnds(r) \/ PostError(r) \/ ReleaseGate(r) \/ PostSuccess(r)
    BY <2>1, RunAccounts, WorkerAccounts
  <2>2. ASSUME NEW j \in Jobs, CallJob(j) \/ JobEnds(j) \/ FinishWhenDone(j) PROVE Accounted'
    <3>1. queue' = queue /\ log' = log /\ \A r \in Runs : pc'[r] = pc[r]
      BY <2>2, RuntimeAssumption
      DEF CallJob, RefuseJob, FailToStartJob, StartJob, JobEnds, FinishWhenDone, Advance, FinalizedInv
    <3> QED BY <3>1, NothingToAccount
  <2>3. CASE Finalize
    BY <2>3, FinalizeAccounts
  <2>4. CASE CloseView \/ Leave \/ UNCHANGED vars
    BY <2>4, NothingToAccount DEF CloseView, Leave, vars
  <2> QED BY <2>1, <2>2, <2>3, <2>4 DEF Next
<1>3. Accounted => \A r \in Runs : pc[r] \in Past => log[r] # <<>> \/ Queued(r)
  BY DEF Accounted
<1> QED BY <1>1, <1>2, <1>3, FinalizedAlways, PTL DEF Spec

\* A task whose thread runs or has ended is polled, so that it gives the gate back
\* once the thread has ended: no path of the runner drops the poll.
THEOREM TasksArePolled ==
  Spec => [](\A j \in tasks : pc[j] \in {"working", "ended"} => j \in polls)
<1>1. Init => Polled
  BY DEF Init, Polled
<1>2. GateInv /\ Polled /\ [Next]_vars => Polled'
  <2> SUFFICES ASSUME GateInv, Polled, [Next]_vars PROVE Polled'
    OBVIOUS
  <2> USE RuntimeAssumption DEF Polled, GateInv, JobsOK, Advance
  <2>1. CASE \E r \in Runs : Run(r) \/ WorkerEnds(r) \/ PostError(r) \/ ReleaseGate(r) \/ PostSuccess(r)
    BY <2>1 DEF Run, Refuse, FailToStart, Start, WorkerEnds, PostError, ReleaseGate, PostSuccess
  <2>2. ASSUME NEW j \in Jobs, CallJob(j) PROVE Polled'
    BY <2>2 DEF CallJob, RefuseJob, FailToStartJob, StartJob
  <2>3. ASSUME NEW j \in Jobs, JobEnds(j) \/ FinishWhenDone(j) PROVE Polled'
    BY <2>3 DEF JobEnds, FinishWhenDone, Complete
  <2>4. CASE Finalize \/ CloseView \/ Leave \/ UNCHANGED vars
    BY <2>4 DEF Finalize, CloseView, Leave, vars
  <2> QED BY <2>1, <2>2, <2>3, <2>4 DEF Next
<1>3. Polled => \A j \in tasks : pc[j] \in {"working", "ended"} => j \in polls
  BY DEF Polled
<1> QED BY <1>1, <1>2, <1>3, GateInvInit, GateInvStep, PTL DEF Spec

------------------------------------------------------------------------------
(* Types.                                                                  *)

\* What the other invariants do not say of the types.
RestTyped ==
  /\ polls \subseteq Jobs
  /\ animation \in BOOLEAN
  /\ viewAlive \in BOOLEAN
  /\ process \in {"up", "exited", "restarted", "restartedAfterAsking"}

LEMMA RestTypedStep == RestTyped /\ [Next]_vars => RestTyped'
<1> SUFFICES ASSUME RestTyped, [Next]_vars PROVE RestTyped'
  OBVIOUS
<1> USE DEF RestTyped
<1>1. ASSUME NEW r \in Runs, Run(r) PROVE RestTyped'
  <2>1. animation' \in BOOLEAN
    BY <1>1, Zenon DEF Run, Refuse, FailToStart, Start, Report, Shown
  <2> QED BY <1>1, <2>1 DEF Run
<1>2. ASSUME NEW r \in Runs, WorkerEnds(r) \/ PostError(r) \/ ReleaseGate(r) \/ PostSuccess(r)
      PROVE  RestTyped'
  BY <1>2 DEF WorkerEnds, PostError, ReleaseGate, PostSuccess
<1>3. ASSUME NEW j \in Jobs, CallJob(j) PROVE RestTyped'
  BY <1>3 DEF CallJob, RefuseJob, FailToStartJob, StartJob
<1>4. ASSUME NEW j \in Jobs, JobEnds(j) \/ FinishWhenDone(j) PROVE RestTyped'
  BY <1>4 DEF JobEnds, FinishWhenDone, Complete
<1>5. CASE Finalize
  <2>1. animation' \in BOOLEAN
    BY <1>5, Zenon DEF Finalize, Report
  <2> QED BY <1>5, <2>1 DEF Finalize
<1>6. CASE CloseView \/ Leave \/ UNCHANGED vars
  BY <1>6 DEF CloseView, Leave, vars
<1> QED BY <1>1, <1>2, <1>3, <1>4, <1>5, <1>6 DEF Next

LEMMA ReportsAreSequences == Reports \subseteq Seq(Callbacks \cup {"finally"})
<1>1. \A c \in Callbacks : <<c, "finally">> \in Seq(Callbacks \cup {"finally"})
  OBVIOUS
<1>2. <<>> \in Seq(Callbacks \cup {"finally"}) /\ <<"finally">> \in Seq(Callbacks \cup {"finally"})
  OBVIOUS
<1>3. \A s \in Reports : s = <<>> \/ s = <<"finally">> \/ \E c \in Callbacks : s = <<c, "finally">>
  BY Zenon DEF Reports
<1> QED BY <1>1, <1>2, <1>3

\* Every variable of the runtime keeps to its values.
THEOREM RuntimeTyped == Spec => []TypeOK
<1>1. Init => RestTyped
  BY DEF Init, RestTyped
<1>2. GateInv /\ FinalizedInv /\ RestTyped => TypeOK
  <2>1. FinalizedInv => log \in [Runs -> Seq(Callbacks \cup {"finally"})]
    BY ReportsAreSequences DEF FinalizedInv
  <2> QED BY <2>1 DEF GateInv, JobsOK, FinalizedInv, RestTyped, TypeOK
<1> QED BY <1>1, <1>2, RestTypedStep, FinalizedAlways, GateInvInit, GateInvStep, PTL DEF Spec
=============================================================================
