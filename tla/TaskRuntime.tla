----------------------------- MODULE TaskRuntime -----------------------------
(***************************************************************************)
(* The task runtime of the application: the gate every heavy operation     *)
(* goes through (app/operation_gate.py), the two runners that share it     *)
(* (UiTaskRunner in app/ui_tasks.py, AnimatedTaskRunner in                 *)
(* app/animated_tasks.py), the worker threads they start, the callbacks    *)
(* the workers post to the UI thread, and the loading animation the        *)
(* runners and two views switch on and off.                                *)
(*                                                                         *)
(* A run is one call of UiTaskRunner.run, a job one call of a function     *)
(* wrapped by AnimatedTaskRunner.  Both are called on the UI thread, whose *)
(* handlers do not interleave with each other: an action of the UI thread  *)
(* is a whole handler.  A worker thread takes one step for each access to  *)
(* shared state.                                                           *)
(***************************************************************************)
EXTENDS Naturals, Sequences

CONSTANTS
  PlainRuns,           \* runs with exclusive=False
  BracketRuns,         \* exclusive runs of the unpack tab and of super packing
  OtherRuns,           \* the other exclusive runs
  Jobs,                \* calls through AnimatedTaskRunner
  StartMayFail,        \* runs and jobs whose Thread.start may raise RuntimeError
  AfterMayFail         \* jobs whose master.after may raise RuntimeError or TclError

ExclusiveRuns == BracketRuns \cup OtherRuns
Runs == PlainRuns \cup ExclusiveRuns

ASSUME RuntimeAssumption ==
  /\ Runs \cap Jobs = {}
  /\ PlainRuns \cap ExclusiveRuns = {}
  /\ BracketRuns \cap OtherRuns = {}

VARIABLES
  gate,        \* OperationGate._lock.locked(); the lock records no owner
  pc,          \* how far each run or job has come
  queue,       \* finalizers posted to the UI thread, oldest first
  tasks,       \* AnimatedTaskRunner._tasks (max_tasks is 1)
  polls,       \* jobs with a pending master.after(50, finish_when_done)
  animation,   \* is the loading animation on?
  viewAlive,   \* does the closable window still exist?
  log,         \* callbacks each run has received, in order
  process      \* the application's own life

vars == <<gate, pc, queue, tasks, polls, animation, viewAlive, log, process>>

Callbacks == {"success", "error", "busy"}
RunStates == {"idle", "working", "raised", "errorPosted", "returned",
              "released", "refused", "notStarted", "ended"}
Reports == {<<>>, <<"finally">>} \cup {<<c, "finally">> : c \in Callbacks}
Finalizers == [run : Runs, callback : {"success", "error"}]

Init ==
  /\ gate = FALSE
  /\ pc = [o \in Runs \cup Jobs |-> "idle"]
  /\ queue = <<>>
  /\ tasks = {}
  /\ polls = {}
  /\ animation = FALSE
  /\ viewAlive = TRUE
  /\ log = [r \in Runs |-> <<>>]
  /\ process = "up"

Advance(o, state) == pc' = [pc EXCEPT ![o] = state]

\* OperationGate.release tests the lock and nothing else.
Release == gate' = FALSE

------------------------------------------------------------------------------
(* UiTaskRunner                                                            *)

\* The unpack tab and the super window run on the main window's runner, whose
\* view lives as long as the process; the other views can be closed.
Alive(r) == viewAlive \/ r \in BracketRuns

\* finalize_success, finalize_error, finalize_busy: the callback if the view is
\* alive, on_finally in any case.  A bracket run hides the animation in them.
Report(r, callback, shown) ==
  /\ log' = [log EXCEPT ![r] =
               @ \o (IF Alive(r) THEN <<callback, "finally">> ELSE <<"finally">>)]
  /\ animation' = (shown /\ r \notin BracketRuns)

\* A bracket run shows the animation before it calls run.
Shown(r) == animation \/ r \in BracketRuns

\* run() of an exclusive worker while the gate is taken: finalize_busy runs at
\* once, since post() on the UI thread calls its argument.
Refuse(r) ==
  /\ r \in ExclusiveRuns
  /\ gate
  /\ Advance(r, "refused")
  /\ Report(r, "busy", Shown(r))
  /\ UNCHANGED gate

\* Mutant: the gate is given back without asking whether this run took it.
FailToStartReleases(r) ==
  /\ r \in StartMayFail
  /\ r \in ExclusiveRuns => ~gate
  /\ Advance(r, "notStarted")
  /\ Release
  /\ Report(r, "error", Shown(r))

\* start_worker raises: the gate is given back before the error is reported.
FailToStart(r) ==
  /\ r \in StartMayFail
  /\ r \in ExclusiveRuns => ~gate
  /\ Advance(r, "notStarted")
  /\ IF r \in ExclusiveRuns THEN Release ELSE UNCHANGED gate
  /\ Report(r, "error", Shown(r))

Start(r) ==
  /\ r \in ExclusiveRuns => ~gate
  /\ gate' = (gate \/ r \in ExclusiveRuns)
  /\ Advance(r, "working")
  /\ animation' = Shown(r)
  /\ UNCHANGED log

Run(r) ==
  /\ process = "up"
  /\ pc[r] = "idle"
  /\ Refuse(r) \/ FailToStart(r) \/ Start(r)
  /\ UNCHANGED <<queue, tasks, polls, viewAlive, process>>

\* The worker function returns or raises an Exception.
WorkerEnds(r) ==
  /\ process = "up"
  /\ pc[r] = "working"
  /\ \E state \in {"returned", "raised"} : Advance(r, state)
  /\ UNCHANGED <<gate, queue, tasks, polls, animation, viewAlive, log, process>>

Post(r, callback) == queue' = Append(queue, [run |-> r, callback |-> callback])

\* The error is posted from inside the "except" clause, before the "finally".
PostError(r) ==
  /\ process = "up"
  /\ pc[r] = "raised"
  /\ Post(r, "error")
  /\ Advance(r, "errorPosted")
  /\ UNCHANGED <<gate, tasks, polls, animation, viewAlive, log, process>>

\* Mutant: the worker goes on to the success path after an error.
ReleaseGateFallsThrough(r) ==
  /\ process = "up"
  /\ pc[r] \in {"returned", "errorPosted"} /\ Advance(r, "released")
  /\ IF r \in ExclusiveRuns THEN Release ELSE UNCHANGED gate
  /\ UNCHANGED <<queue, tasks, polls, animation, viewAlive, log, process>>

\* Mutant: only a worker that returned gives the gate back.
ReleaseGateOnReturn(r) ==
  /\ process = "up"
  /\ \/ /\ pc[r] = "returned" /\ Advance(r, "released")
        /\ IF r \in ExclusiveRuns THEN Release ELSE UNCHANGED gate
     \/ pc[r] = "errorPosted" /\ Advance(r, "ended") /\ UNCHANGED gate
  /\ UNCHANGED <<queue, tasks, polls, animation, viewAlive, log, process>>

\* The "finally" clause of the worker.
ReleaseGate(r) ==
  /\ process = "up"
  /\ \/ pc[r] = "returned" /\ Advance(r, "released")
     \/ pc[r] = "errorPosted" /\ Advance(r, "ended")
  /\ IF r \in ExclusiveRuns THEN Release ELSE UNCHANGED gate
  /\ UNCHANGED <<queue, tasks, polls, animation, viewAlive, log, process>>

\* Mutant: nothing is posted for a view that is gone.
PostSuccessIfAlive(r) ==
  /\ process = "up"
  /\ pc[r] = "released"
  /\ IF Alive(r) THEN Post(r, "success") ELSE UNCHANGED queue
  /\ Advance(r, "ended")
  /\ UNCHANGED <<gate, tasks, polls, animation, viewAlive, log, process>>

\* The result is posted after the gate has been released.
PostSuccess(r) ==
  /\ process = "up"
  /\ pc[r] = "released"
  /\ Post(r, "success")
  /\ Advance(r, "ended")
  /\ UNCHANGED <<gate, tasks, polls, animation, viewAlive, log, process>>

\* The UI thread takes the oldest posted finalizer (AppUiScheduler._drain).
Finalize ==
  /\ process = "up"
  /\ queue # <<>>
  /\ queue' = Tail(queue)
  /\ Report(Head(queue).run, Head(queue).callback, animation)
  /\ UNCHANGED <<gate, pc, tasks, polls, viewAlive, process>>

CloseView ==
  /\ process = "up"
  /\ viewAlive
  /\ viewAlive' = FALSE
  /\ UNCHANGED <<gate, pc, queue, tasks, polls, animation, log, process>>

------------------------------------------------------------------------------
(* AnimatedTaskRunner                                                      *)

\* A heavy operation is running as long as a worker may touch the project.
Heavy == {o \in ExclusiveRuns \cup Jobs : pc[o] = "working"}

\* The gate is held by these runs and jobs; a task that never started is not
\* one of them although it stays in _tasks.
Holders ==
  {r \in ExclusiveRuns : pc[r] \in {"working", "raised", "errorPosted", "returned"}}
    \cup {j \in tasks : pc[j] \in {"working", "ended"}}

\* _complete: the entry leaves _tasks, and only then the gate is released.
Complete(j) ==
  /\ tasks' = tasks \ {j}
  /\ IF j \in tasks THEN Release ELSE UNCHANGED gate
  /\ animation' = (animation /\ tasks \ {j} # {})
  /\ polls' = polls \ {j}

RefuseJob(j) ==
  /\ tasks # {} \/ gate
  /\ Advance(j, "refused")
  /\ UNCHANGED <<gate, tasks, polls, animation>>

\* thread.start raises: the gate is released, the entry stays in _tasks.
FailToStartJob(j) ==
  /\ j \in StartMayFail
  /\ tasks = {} /\ ~gate
  /\ Advance(j, "notStarted")
  /\ tasks' = tasks \cup {j}
  /\ Release
  /\ UNCHANGED <<polls, animation>>

StartJob(j) ==
  /\ tasks = {} /\ ~gate
  /\ Advance(j, "working")
  /\ \/ /\ gate' = TRUE
        /\ tasks' = tasks \cup {j}
        /\ polls' = polls \cup {j}
        /\ animation' = TRUE
     \/ /\ j \in AfterMayFail       \* the thread runs, _complete is called at once
        /\ animation' = FALSE
        /\ UNCHANGED <<gate, tasks, polls>>

CallJob(j) ==
  /\ process = "up"
  /\ pc[j] = "idle"
  /\ RefuseJob(j) \/ FailToStartJob(j) \/ StartJob(j)
  /\ UNCHANGED <<queue, viewAlive, log, process>>

JobEnds(j) ==
  /\ process = "up"
  /\ pc[j] = "working"
  /\ Advance(j, "ended")
  /\ UNCHANGED <<gate, queue, tasks, polls, animation, viewAlive, log, process>>

\* Mutant: the poll of a live thread is not repeated.
FinishWhenDonePollsOnce(j) ==
  /\ process = "up"
  /\ j \in polls
  /\ IF pc[j] = "ended" THEN Complete(j)
     ELSE polls' = polls \ {j} /\ UNCHANGED <<gate, tasks, animation>>
  /\ UNCHANGED <<pc, queue, viewAlive, log, process>>

\* finish_when_done: a live thread is polled again, unless after() raises.
FinishWhenDone(j) ==
  /\ process = "up"
  /\ j \in polls
  /\ pc[j] = "ended" \/ j \in AfterMayFail
  /\ Complete(j)
  /\ UNCHANGED <<pc, queue, viewAlive, log, process>>

------------------------------------------------------------------------------
(* The end of the process: exit_tool never asks; restart asks the user when *)
(* the animated runner has tasks.  Workers are daemon threads.              *)

Leave ==
  /\ process = "up"
  /\ process' \in {"exited", IF tasks = {} THEN "restarted" ELSE "restartedAfterAsking"}
  /\ UNCHANGED <<gate, pc, queue, tasks, polls, animation, viewAlive, log>>

Next ==
  \/ \E r \in Runs : \/ Run(r)
                     \/ WorkerEnds(r)
                     \/ PostError(r)
                     \/ ReleaseGate(r)
                     \/ PostSuccess(r)
  \/ \E j \in Jobs : CallJob(j) \/ JobEnds(j) \/ FinishWhenDone(j)
  \/ Finalize
  \/ CloseView
  \/ Leave

Spec == Init /\ [][Next]_vars

\* The worker threads are scheduled and the event loop keeps turning; nothing
\* makes a worker function return, a user call a run, or a view close.
Fairness ==
  /\ \A r \in Runs : WF_vars(PostError(r) \/ ReleaseGate(r) \/ PostSuccess(r))
  /\ \A j \in Jobs : WF_vars(pc[j] = "ended" /\ FinishWhenDone(j))
  /\ WF_vars(Finalize)

FairSpec == Spec /\ Fairness
------------------------------------------------------------------------------
(* Properties                                                              *)

TypeOK ==
  /\ gate \in BOOLEAN
  /\ pc \in [Runs \cup Jobs -> RunStates]
  /\ queue \in Seq(Finalizers)
  /\ tasks \subseteq Jobs
  /\ polls \subseteq Jobs
  /\ animation \in BOOLEAN
  /\ viewAlive \in BOOLEAN
  /\ log \in [Runs -> Seq(Callbacks \cup {"finally"})]
  /\ process \in {"up", "exited", "restarted", "restartedAfterAsking"}

\* Two heavy workers never run at the same time, whichever runner started them
\* (OperationGate: "Allow only one resource intensive application operation at
\* a time").  The lock knows no owner, so this rests on every path of both
\* runners releasing it exactly once.
Exclusion == \A o, p \in Heavy : o = p

\* The gate is locked exactly while somebody holds it, and one holder only: no
\* path leaks the lock, and none releases it under another operation.
GateAccounted ==
  /\ gate <=> Holders # {}
  /\ \A o, p \in Holders : o = p

\* A run receives one completion: a log is a whole report, a run that was
\* reported is not in the queue, and no run is in the queue twice.
FinalizedOnce ==
  /\ \A r \in Runs : log[r] \in Reports
  /\ \A i \in 1..Len(queue) : log[queue[i].run] = <<>>
  /\ \A i, k \in 1..Len(queue) : queue[i].run = queue[k].run => i = k

\* A run whose worker is over is reported, whatever becomes of the view.
EveryRunReported ==
  \A r \in Runs :
    pc[r] \in {"returned", "raised"} ~> (log[r] # <<>> \/ process # "up")

\* An operation whose worker is over gives the gate back.
GateFreed ==
  \A o \in ExclusiveRuns \cup Jobs :
    (o \in Holders /\ pc[o] # "working") ~> (o \notin Holders \/ process # "up")

\* The heavy operations behave as OneAtATime says.
Status(o) ==
  CASE pc[o] = "idle"    -> "waiting"
    [] pc[o] = "refused" -> "refused"
    [] pc[o] = "working" -> "running"
    [] OTHER             -> IF o \in Holders THEN "finishing" ELSE "over"

Promise == INSTANCE OneAtATime WITH
  Operations <- ExclusiveRuns \cup Jobs,
  status <- [o \in ExclusiveRuns \cup Jobs |-> Status(o)],
  open <- process = "up"

ImplementsPromise == Promise!Spec
=============================================================================
