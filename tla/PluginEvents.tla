----------------------------- MODULE PluginEvents ----------------------------
(***************************************************************************)
(* How a change of a plugin reaches the windows that show plugins: worker  *)
(* threads publish events on the bus (PluginEventBus), each window has a   *)
(* stream of its own (PluginEventStream) and drains it on the UI thread,   *)
(* at most one drain being scheduled at a time (UiCoalescedDrain).  A      *)
(* PluginUiEventBinding subscribes the stream first and hooks the drain to *)
(* it afterwards.                                                          *)
(*                                                                         *)
(* Worker threads and the UI thread interleave at each access to shared    *)
(* state; the UI thread runs one handler at a time.                        *)
(***************************************************************************)
EXTENDS Naturals, Sequences, SequencesExt

CONSTANTS
  Workers,     \* threads that publish
  Views,       \* the plugin manager and the store window
  NoView,      \* not a view
  MaxEvents,   \* bound: events each worker publishes
  EarlyHook    \* are the bindings complete before anybody publishes?

ASSUME EventsAssumption ==
  /\ NoView \notin Views
  /\ MaxEvents \in [Workers -> Nat]
  /\ EarlyHook \in BOOLEAN

VARIABLES
  published,   \* how many events each worker has published
  step,        \* what each worker is at, with the subscribers it has yet to push
               \* to (targets) and the one it is pushing to (target)
  subscribers, \* PluginEventBus._subscribers, by view
  stream,      \* PluginEventStream._queue of each view
  hooked,      \* has set_on_push been called on the view's stream?
  scheduled,   \* UiCoalescedDrain._scheduled
  closed,      \* UiCoalescedDrain._closed
  uiQueue,     \* the _flush_on_ui callbacks posted to the UI thread
  ui,          \* what the UI thread is at, and for which view
  batch,       \* the events the running flush has drained
  seen         \* the events each view has been given, or has failed on

vars == <<published, step, subscribers, stream, hooked, scheduled, closed,
          uiQueue, ui, batch, seen>>

Idle == [phase |-> "idle", targets |-> {}, target |-> NoView]
UiIdle == [phase |-> "idle", view |-> NoView]
Steps == [phase : {"idle", "next", "pushed", "dispatch"}, targets : SUBSET Views,
          target : Views \cup {NoView}]
UiSteps == [phase : {"idle", "binding", "drain", "consume", "check", "top", "unsubscribe"},
            view : Views \cup {NoView}]
Events == UNION {{w} \X (1..MaxEvents[w]) : w \in Workers}

Init ==
  /\ published = [w \in Workers |-> 0]
  /\ step = [w \in Workers |-> Idle]
  /\ subscribers = {}
  /\ stream = [v \in Views |-> <<>>]
  /\ hooked = [v \in Views |-> FALSE]
  /\ scheduled = [v \in Views |-> FALSE]
  /\ closed = [v \in Views |-> FALSE]
  /\ uiQueue = <<>>
  /\ ui = UiIdle
  /\ batch = <<>>
  /\ seen = [v \in Views |-> <<>>]

worker == <<published, step>>
relay == <<scheduled, closed>>
binding == <<subscribers, hooked>>
screen == <<ui, batch, seen>>

------------------------------------------------------------------------------
(* A worker publishes                                                      *)

At(w, phase) == step[w].phase = phase
Goto(w, phase, targets, target) ==
  step' = [step EXCEPT ![w] = [phase |-> phase, targets |-> targets, target |-> target]]

\* publish: the subscribers are copied under the lock.
Publish(w) ==
  /\ At(w, "idle")
  /\ published[w] < MaxEvents[w]
  /\ EarlyHook => \A v \in Views : hooked[v] \/ closed[v]
  /\ published' = [published EXCEPT ![w] = @ + 1]
  /\ Goto(w, "next", subscribers, NoView)
  /\ UNCHANGED <<relay, binding, screen, stream, uiQueue>>

\* push: the event is put into the next subscriber's stream.
Push(w) ==
  /\ At(w, "next")
  /\ \E v \in step[w].targets :
       /\ stream' = [stream EXCEPT ![v] = Append(@, <<w, published[w]>>)]
       /\ Goto(w, "pushed", step[w].targets \ {v}, v)
  /\ UNCHANGED <<published, relay, binding, screen, uiQueue>>

PublishEnds(w) ==
  /\ At(w, "next")
  /\ step[w].targets = {}
  /\ step' = [step EXCEPT ![w] = Idle]
  /\ UNCHANGED <<published, relay, binding, screen, stream, uiQueue>>

\* push goes on: on_push is read, and notify takes its lock if there is one.
Notify(w) ==
  LET v == step[w].target IN
  /\ At(w, "pushed")
  /\ LET wanted == hooked[v] /\ ~closed[v] /\ ~scheduled[v] IN
     /\ scheduled' = [scheduled EXCEPT ![v] = @ \/ wanted]
     /\ IF wanted THEN Goto(w, "dispatch", step[w].targets, v)
        ELSE Goto(w, "next", step[w].targets, NoView)
  /\ UNCHANGED <<published, closed, binding, screen, stream, uiQueue>>

\* notify goes on outside the lock: the flush is posted.
Dispatch(w) ==
  /\ At(w, "dispatch")
  /\ uiQueue' = Append(uiQueue, step[w].target)
  /\ Goto(w, "next", step[w].targets, NoView)
  /\ UNCHANGED <<published, relay, binding, screen, stream>>

------------------------------------------------------------------------------
(* The UI thread                                                           *)

UiAt(phase) == ui.phase = phase
UiGoto(phase, v) == ui' = [phase |-> phase, view |-> v]

\* PluginUiEventBinding: subscribe, then, a few steps later, set_on_push.
Subscribe(v) ==
  /\ UiAt("idle")
  /\ v \notin subscribers /\ ~hooked[v] /\ ~closed[v]
  /\ subscribers' = subscribers \cup {v}
  /\ UiGoto("binding", v)
  /\ UNCHANGED <<worker, relay, hooked, stream, uiQueue, batch, seen>>

SetOnPush ==
  /\ UiAt("binding")
  /\ hooked' = [hooked EXCEPT ![ui.view] = TRUE]
  /\ ui' = UiIdle
  /\ UNCHANGED <<worker, relay, subscribers, stream, uiQueue, batch, seen>>

\* Mutant: the flag is not cleared.
FlushBeginsKeepsFlag(v) ==
  /\ UNCHANGED scheduled
  /\ IF closed[v] THEN ui' = UiIdle ELSE UiGoto("drain", v)

\* _flush_on_ui, top of its loop: the flag is cleared before the stream is
\* drained.
FlushBegins(v) ==
  /\ scheduled' = [scheduled EXCEPT ![v] = FALSE]
  /\ IF closed[v] THEN ui' = UiIdle ELSE UiGoto("drain", v)

TakeFlush ==
  /\ UiAt("idle")
  /\ uiQueue # <<>>
  /\ uiQueue' = Tail(uiQueue)
  /\ FlushBegins(Head(uiQueue))
  /\ UNCHANGED <<worker, closed, binding, stream, batch, seen>>

\* Mutant: one event is taken instead of all.
DrainOne ==
  /\ UiAt("drain")
  /\ batch' = SubSeq(stream[ui.view], 1, IF stream[ui.view] = <<>> THEN 0 ELSE 1)
  /\ stream' = [stream EXCEPT ![ui.view] = SubSeq(@, 2, Len(@))]
  /\ UiGoto("consume", ui.view)
  /\ UNCHANGED <<worker, relay, binding, uiQueue, seen>>

\* Mutant: the events are taken from the wrong end.
DrainReversed ==
  /\ UiAt("drain")
  /\ batch' = Reverse(stream[ui.view])
  /\ stream' = [stream EXCEPT ![ui.view] = <<>>]
  /\ UiGoto("consume", ui.view)
  /\ UNCHANGED <<worker, relay, binding, uiQueue, seen>>

Drain ==
  /\ UiAt("drain")
  /\ batch' = stream[ui.view]
  /\ stream' = [stream EXCEPT ![ui.view] = <<>>]
  /\ UiGoto("consume", ui.view)
  /\ UNCHANGED <<worker, relay, binding, uiQueue, seen>>

\* consume may raise: the batch is gone all the same, and the flush ends.
Consume ==
  /\ UiAt("consume")
  /\ seen' = [seen EXCEPT ![ui.view] = @ \o batch]
  /\ batch' = <<>>
  /\ \/ UiGoto("check", ui.view)
     \/ batch # <<>> /\ ui' = UiIdle
  /\ UNCHANGED <<worker, relay, binding, stream, uiQueue>>

\* The flush looks whether it was notified meanwhile, and if so goes on.
FlushAgain ==
  /\ UiAt("check")
  /\ ui' = IF ~closed[ui.view] /\ scheduled[ui.view]
             THEN [phase |-> "top", view |-> ui.view]
             ELSE UiIdle
  /\ UNCHANGED <<worker, relay, binding, stream, uiQueue, batch, seen>>

FlushTop ==
  /\ UiAt("top")
  /\ FlushBegins(ui.view)
  /\ UNCHANGED <<worker, closed, binding, stream, uiQueue, batch, seen>>

\* The window goes: close() of the relay, then of the subscription.
Close(v) ==
  /\ UiAt("idle")
  /\ hooked[v] /\ ~closed[v]
  /\ closed' = [closed EXCEPT ![v] = TRUE]
  /\ scheduled' = [scheduled EXCEPT ![v] = FALSE]
  /\ UiGoto("unsubscribe", v)
  /\ UNCHANGED <<worker, binding, stream, uiQueue, batch, seen>>

Unsubscribe ==
  /\ UiAt("unsubscribe")
  /\ subscribers' = subscribers \ {ui.view}
  /\ ui' = UiIdle
  /\ UNCHANGED <<worker, relay, hooked, stream, uiQueue, batch, seen>>

Work(w) == Publish(w) \/ Push(w) \/ PublishEnds(w) \/ Notify(w) \/ Dispatch(w)
Serve == SetOnPush \/ TakeFlush \/ Drain \/ Consume \/ FlushAgain \/ FlushTop \/ Unsubscribe

Next ==
  \/ \E w \in Workers : Work(w)
  \/ Serve
  \/ \E v \in Views : Subscribe(v) \/ Close(v)

Spec == Init /\ [][Next]_vars

\* A publication that has begun is carried through, and the UI thread serves
\* what is posted to it.
FairSpec ==
  Spec /\ WF_vars(Serve)
       /\ \A w \in Workers : WF_vars(Push(w) \/ PublishEnds(w) \/ Notify(w) \/ Dispatch(w))

------------------------------------------------------------------------------
(* Properties                                                              *)

TypeOK ==
  /\ published \in [Workers -> Nat]
  /\ step \in [Workers -> Steps]
  /\ subscribers \subseteq Views
  /\ stream \in [Views -> Seq(Events)]
  /\ hooked \in [Views -> BOOLEAN]
  /\ scheduled \in [Views -> BOOLEAN]
  /\ closed \in [Views -> BOOLEAN]
  /\ uiQueue \in Seq(Views)
  /\ ui \in UiSteps
  /\ seen \in [Views -> Seq(Events)]

\* A flush of v that has yet to look at the stream.
FlushComing(v) ==
  \/ \E i \in 1..Len(uiQueue) : uiQueue[i] = v
  \/ \E w \in Workers : step[w].phase \in {"pushed", "dispatch"} /\ step[w].target = v
  \/ ui.phase \in {"drain", "top"} /\ ui.view = v

\* No wake-up is lost: an event in the stream of a bound window has a flush
\* coming, whatever the workers and the flushes did to the flag in between.
NoLostWakeUp ==
  \A v \in Views : stream[v] # <<>> /\ hooked[v] /\ ~closed[v] => FlushComing(v)

\* A window is given each event at most once, and those of a worker in order.
SeenInOrder ==
  \A v \in Views : \A i, k \in 1..Len(seen[v]) :
    i < k /\ seen[v][i][1] = seen[v][k][1] => seen[v][i][2] < seen[v][k][2]

\* Every event in a bound window's stream is consumed, unless the window goes.
EventsArrive ==
  \A v \in Views : (hooked[v] /\ stream[v] # <<>>) ~> (stream[v] = <<>> \/ closed[v])
=============================================================================
