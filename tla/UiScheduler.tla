----------------------------- MODULE UiScheduler -----------------------------
(***************************************************************************)
(* AppUiScheduler (app/ui_scheduler.py): callbacks posted by worker        *)
(* threads go through a queue that the UI thread drains from a Tk timer,   *)
(* the pump.  A drained callback runs inside the drain: it may open a      *)
(* window, which calls start() again (resolve_app_ui_scheduler), and it    *)
(* may wait for a dialog, which turns a nested event loop inside the       *)
(* drain.  Tk timers are alike, so the armed ones are counted; _pump_id    *)
(* names one of them or none.                                              *)
(***************************************************************************)
EXTENDS Naturals, Sequences, FiniteSets

CONSTANTS
  Workers,   \* threads that post
  Script     \* Script[w]: the kinds of the callbacks w posts, in order

\* plain: returns or raises at once.  window: builds a UiDispatcher.
\* dialog: waits for a dialog.  panel: builds a UiDispatcher, then waits.
Kinds == {"plain", "window", "dialog", "panel"}

ASSUME ScriptAssumption == Script \in [Workers -> Seq(Kinds)]

VARIABLES
  posted,   \* how many callbacks each worker has posted
  queue,    \* AppUiScheduler._queue: <<worker, number>>
  begun,    \* the callbacks called so far, in order
  armed,    \* Tk timers that will call _drain
  pump,     \* _pump_id is not None
  stack,    \* the drains the UI thread is in, innermost last: "loop" while it
            \* takes callbacks, else the kind of the callback that waits
  host      \* does host_window exist?

vars == <<posted, queue, begun, armed, pump, stack, host>>

Posts == UNION {{<<w, n>> : n \in 1..Len(Script[w])} : w \in Workers}
Kind(p) == Script[p[1]][p[2]]
Top == IF stack = <<>> THEN "idle" ELSE stack[Len(stack)]
SetTop(phase) == stack' = [stack EXCEPT ![Len(stack)] = phase]

\* initialize_app_ui_scheduler: the scheduler is built with the main window
\* and started.
Init ==
  /\ posted = [w \in Workers |-> 0]
  /\ queue = <<>>
  /\ begun = <<>>
  /\ armed = 1
  /\ pump = TRUE
  /\ stack = <<>>
  /\ host = TRUE

\* _schedule_next: arm a timer and remember it, or forget the pump when the host
\* is gone.
ScheduleNext ==
  /\ armed' = IF host THEN armed + 1 ELSE armed
  /\ pump' = host

\* Mutant: start() only ever reports whether the pump runs.
StartPumpReports == UNCHANGED <<armed, pump>>

\* start() on the UI thread.
StartPump == IF pump THEN UNCHANGED <<armed, pump>> ELSE ScheduleNext

\* post() of a worker thread.
Post(w) ==
  /\ posted[w] < Len(Script[w])
  /\ posted' = [posted EXCEPT ![w] = @ + 1]
  /\ queue' = Append(queue, <<w, posted[w] + 1>>)
  /\ UNCHANGED <<begun, armed, pump, stack, host>>

\* An event loop turns: the outermost one, or that of a dialog a callback
\* waits for.
Turning == Top # "loop"

\* A timer fires: _drain begins.
Fire ==
  /\ host /\ Turning /\ armed > 0
  /\ armed' = armed - 1
  /\ pump' = FALSE
  /\ stack' = Append(stack, "loop")
  /\ UNCHANGED <<posted, queue, begun, host>>

\* Mutant: the drain takes the newest callback.
CallNewest ==
  /\ Top = "loop"
  /\ queue # <<>>
  /\ queue' = SubSeq(queue, 1, Len(queue) - 1)
  /\ begun' = Append(begun, queue[Len(queue)])
  /\ UNCHANGED <<posted, armed, pump, stack, host>>

\* The drain takes the oldest callback and calls it; an exception is logged and
\* the drain goes on.
Call ==
  /\ Top = "loop"
  /\ queue # <<>>
  /\ queue' = Tail(queue)
  /\ begun' = Append(begun, Head(queue))
  /\ IF Kind(Head(queue)) \in {"window", "panel"} THEN StartPump ELSE UNCHANGED <<armed, pump>>
  /\ IF Kind(Head(queue)) \in {"dialog", "panel"} THEN SetTop(Kind(Head(queue))) ELSE UNCHANGED stack
  /\ UNCHANGED <<posted, host>>

\* The innermost dialog or panel is closed and its callback returns to the drain.
CloseDialog ==
  /\ Top \in {"dialog", "panel"}
  /\ SetTop("loop")
  /\ UNCHANGED <<posted, queue, begun, armed, pump, host>>

\* The queue is empty: the drain re-arms the pump and returns.
EndDrain ==
  /\ Top = "loop"
  /\ queue = <<>>
  /\ ScheduleNext
  /\ stack' = SubSeq(stack, 1, Len(stack) - 1)
  /\ UNCHANGED <<posted, queue, begun, host>>

\* An event handler, run by whichever loop turns, opens a window.
OpenWindow ==
  /\ host /\ Turning
  /\ StartPump
  /\ UNCHANGED <<posted, queue, begun, stack, host>>

\* The main window is destroyed (exit_tool, restart); its timers go with it.
DestroyHost ==
  /\ host /\ Turning
  /\ host' = FALSE
  /\ armed' = 0
  /\ UNCHANGED <<posted, queue, begun, pump, stack>>

Next ==
  \/ \E w \in Workers : Post(w)
  \/ Fire \/ Call \/ CloseDialog \/ EndDrain \/ OpenWindow \/ DestroyHost

Spec == Init /\ [][Next]_vars

\* Tk calls its timers and a drain runs on; a dialog is answered in the end, a
\* panel may stay open for ever, and nobody has to post.
FairSpec ==
  /\ Spec
  /\ WF_vars(Fire) /\ WF_vars(Call) /\ WF_vars(EndDrain)
  /\ WF_vars(CloseDialog /\ Top = "dialog")

------------------------------------------------------------------------------
(* Properties                                                              *)

TypeOK ==
  /\ posted \in [Workers -> Nat]
  /\ queue \in Seq(Posts)
  /\ begun \in Seq(Posts)
  /\ armed \in Nat
  /\ pump \in BOOLEAN
  /\ stack \in Seq({"loop", "dialog", "panel"})
  /\ host \in BOOLEAN

\* The callbacks called so far and those still to be called, in order.
Line == begun \o queue

\* However drains nest, the callbacks of a worker are called in the order it
\* posted them, each once, and none is lost on the way.
InOrder ==
  /\ \A i \in 1..Len(Line) : Line[i][2] \in 1..posted[Line[i][1]]
  /\ \A i, j \in 1..Len(Line) : i < j /\ Line[i][1] = Line[j][1] => Line[i][2] < Line[j][2]
  /\ \A p \in Posts : p[2] <= posted[p[1]] => \E i \in 1..Len(Line) : Line[i] = p

\* The pump never dies while the host lives: a timer is armed, or a drain is
\* under way that will arm one.
PumpAlive == host => armed > 0 \/ stack # <<>>

\* Between drains the scheduler knows its pump, so that a window opened from an
\* ordinary event handler never arms a second timer.
IdlePumped == host /\ stack = <<>> => pump

\* Every posted callback is called, as long as the host lives.
EveryPostCalled ==
  \A p \in Posts :
    posted[p[1]] >= p[2] ~> (\E i \in 1..Len(begun) : begun[i] = p) \/ ~host
=============================================================================
