-------------------------- MODULE PluginEventsProofs -------------------------
(***************************************************************************)
(* No wake-up and no event is lost, for any sets of workers and views and  *)
(* any number of events, if every window is bound before the first         *)
(* publication, and the events come in the order they were published in.   *)
(* And what a store window shows is what installs look their plugins up    *)
(* in, and of the repository that is configured, for any repositories,     *)
(* windows, changes of the repository and crashes.                         *)
(***************************************************************************)
EXTENDS PluginEvents, StoreFetch, TLAPS

Queued(v) == \E i \in 1..Len(uiQueue) : uiQueue[i] = v
Posting(v) == \E w \in Workers : step[w].phase = "dispatch" /\ step[w].target = v
Pushing(v) == \E w \in Workers : step[w].phase = "pushed" /\ step[w].target = v

\* A set flag has a flush behind it: one that is queued, or a worker about to
\* queue it.  NoLostWakeUp needs this for the notifications the flag suppresses.
FlagHasFlush == \A v \in Views : scheduled[v] => Queued(v) \/ Posting(v)

\* Nobody publishes before the windows are bound: while one is not bound, its
\* stream is empty and no worker is at anything.
UnboundIsQuiet ==
  \A v \in Views : ~hooked[v] =>
    /\ ~closed[v]
    /\ stream[v] = <<>>
    /\ \A w \in Workers : step[w].phase = "idle"

Types ==
  /\ step \in [Workers -> Steps]
  /\ \A w \in Workers : step[w].phase \in {"pushed", "dispatch"} => step[w].target \in Views
  /\ subscribers \subseteq Views
  /\ stream = [v \in Views |-> stream[v]]
  /\ hooked \in [Views -> BOOLEAN]
  /\ scheduled \in [Views -> BOOLEAN]
  /\ closed \in [Views -> BOOLEAN]
  /\ uiQueue \in Seq(Views)
  /\ ui \in UiSteps
  /\ ui.phase # "idle" => ui.view \in Views

WakeInv == Types /\ FlagHasFlush /\ UnboundIsQuiet /\ NoLostWakeUp

LEMMA ComingIs ==
  \A v : FlushComing(v) <=> \/ Queued(v) \/ Posting(v) \/ Pushing(v)
                            \/ ui.phase \in {"drain", "top"} /\ ui.view = v
BY DEF FlushComing, Queued, Posting, Pushing

LEMMA ComingIsNext ==
  \A v : FlushComing(v)' <=> \/ Queued(v)' \/ Posting(v)' \/ Pushing(v)'
                             \/ ui'.phase \in {"drain", "top"} /\ ui'.view = v
BY DEF FlushComing, Queued, Posting, Pushing

\* The queue of the UI thread grows at its end and shrinks at its head.
LEMMA QueuedAppend ==
  ASSUME uiQueue \in Seq(Views), NEW u \in Views, uiQueue' = Append(uiQueue, u)
  PROVE  /\ uiQueue' \in Seq(Views)
         /\ \A v \in Views : Queued(v) \/ v = u => Queued(v)'
<1>1. /\ Len(uiQueue') = Len(uiQueue) + 1 /\ Len(uiQueue) \in Nat
      /\ \A i \in 1..Len(uiQueue) : uiQueue'[i] = uiQueue[i]
      /\ uiQueue'[Len(uiQueue) + 1] = u
  OBVIOUS
<1> QED BY <1>1 DEF Queued

LEMMA QueuedTail ==
  ASSUME uiQueue \in Seq(Views), uiQueue # <<>>, uiQueue' = Tail(uiQueue)
  PROVE  /\ uiQueue' \in Seq(Views) /\ Head(uiQueue) \in Views
         /\ \A v \in Views : Queued(v) /\ v # Head(uiQueue) => Queued(v)'
<1>1. /\ Len(uiQueue') = Len(uiQueue) - 1 /\ Len(uiQueue) \in Nat \ {0}
      /\ \A i \in 1..Len(uiQueue') : uiQueue'[i] = uiQueue[i + 1]
      /\ Head(uiQueue) = uiQueue[1]
  OBVIOUS
<1>2. ASSUME NEW v \in Views, Queued(v), v # Head(uiQueue) PROVE Queued(v)'
  <2>1. PICK i \in 1..Len(uiQueue) : uiQueue[i] = v
    BY <1>2 DEF Queued
  <2>2. i - 1 \in 1..Len(uiQueue') /\ uiQueue'[i - 1] = v
    BY <1>1, <1>2, <2>1
  <2> QED BY <2>2 DEF Queued
<1> QED BY <1>2

LEMMA WakeInvInit == Init => WakeInv
BY EventsAssumption DEF Init, WakeInv, Types, FlagHasFlush, UnboundIsQuiet, NoLostWakeUp,
     Steps, UiSteps, Idle, UiIdle, Events

\* A publication: whatever a worker is at, the flag it set or found set, or the
\* event it put, has a flush coming.
LEMMA WakeInvWork ==
  ASSUME WakeInv, EarlyHook, NEW w \in Workers, Work(w)
  PROVE  WakeInv'
<1> USE DEF WakeInv, Types
<1>0. ui' = ui /\ subscribers' = subscribers /\ hooked' = hooked /\ closed' = closed
  BY DEF Work, Publish, Push, PublishEnds, Notify, Dispatch, relay, binding, screen, worker
<1>1. CASE Publish(w)
  <2>1. /\ step' = [step EXCEPT ![w] = [phase |-> "next", targets |-> subscribers, target |-> NoView]]
        /\ step[w].phase = "idle"
        /\ UNCHANGED <<stream, scheduled, uiQueue>>
        /\ \A v \in Views : hooked[v] \/ closed[v]
    BY <1>1 DEF Publish, At, Goto, relay, binding, screen
  <2>2. step' \in [Workers -> Steps]
    BY <2>1 DEF Steps
  <2>3. \A v \in Views : hooked[v]
    BY <2>1 DEF UnboundIsQuiet
  <2>4. \A v \in Views : (Posting(v) <=> Posting(v)') /\ (Pushing(v) <=> Pushing(v)')
                          /\ (Queued(v) <=> Queued(v)')
    BY <2>1 DEF Posting, Pushing, Queued
  <2>5. \A u \in Workers : step'[u].phase \in {"pushed", "dispatch"} => step'[u].target \in Views
    BY <2>1
  <2> QED BY <1>0, <2>1, <2>2, <2>3, <2>4, <2>5, ComingIs, ComingIsNext
          DEF FlagHasFlush, UnboundIsQuiet, NoLostWakeUp
<1>2. CASE Push(w)
  <2>1. PICK v \in Views :
          /\ step' = [step EXCEPT ![w] = [phase |-> "pushed", targets |-> step[w].targets \ {v}, target |-> v]]
          /\ stream' = [stream EXCEPT ![v] = Append(@, <<w, published[w]>>)]
          /\ step[w].phase = "next"
          /\ UNCHANGED <<scheduled, uiQueue>>
    BY <1>2 DEF Push, At, Goto, relay, binding, screen, Steps
  <2>2. step' \in [Workers -> Steps]
    BY <2>1 DEF Steps
  <2>3. \A q \in Views : hooked[q]
    BY <2>1 DEF UnboundIsQuiet
  <2>4. /\ \A q \in Views : Posting(q) => Posting(q)'
        /\ \A q \in Views : Pushing(q) \/ q = v => Pushing(q)'
        /\ \A q \in Views : Queued(q) => Queued(q)'
    BY <2>1 DEF Posting, Pushing, Queued
  <2>5. \A u \in Workers : step'[u].phase \in {"pushed", "dispatch"} => step'[u].target \in Views
    BY <2>1
  <2>6. stream' = [q \in Views |-> stream'[q]] /\ \A q \in Views : q # v => stream'[q] = stream[q]
    BY <2>1
  <2> QED BY <1>0, <2>1, <2>2, <2>3, <2>4, <2>5, <2>6, ComingIs, ComingIsNext
          DEF FlagHasFlush, UnboundIsQuiet, NoLostWakeUp
<1>3. CASE PublishEnds(w)
  <2>1. /\ step' = [step EXCEPT ![w] = Idle] /\ step[w].phase = "next"
        /\ UNCHANGED <<stream, scheduled, uiQueue>>
    BY <1>3 DEF PublishEnds, At, relay, binding, screen
  <2>2. step' \in [Workers -> Steps]
    BY <2>1 DEF Steps, Idle
  <2>3. \A q \in Views : /\ Posting(q) => Posting(q)'
                         /\ Pushing(q) => Pushing(q)'
                         /\ Queued(q) => Queued(q)'
    BY <2>1 DEF Posting, Pushing, Queued
  <2>4. \A u \in Workers : step'[u].phase \in {"pushed", "dispatch"} => step'[u].target \in Views
    BY <2>1 DEF Idle
  <2> QED BY <1>0, <2>1, <2>2, <2>3, <2>4, ComingIs, ComingIsNext
          DEF FlagHasFlush, UnboundIsQuiet, NoLostWakeUp
<1>4. CASE Notify(w)
  <2> DEFINE v == step[w].target
             wanted == hooked[v] /\ ~closed[v] /\ ~scheduled[v]
             after == IF wanted THEN [phase |-> "dispatch", targets |-> step[w].targets, target |-> v]
                      ELSE [phase |-> "next", targets |-> step[w].targets, target |-> NoView]
  <2>1. /\ step[w].phase = "pushed" /\ v \in Views
        /\ scheduled' = [scheduled EXCEPT ![v] = @ \/ wanted]
        /\ step' = [step EXCEPT ![w] = after]
        /\ UNCHANGED <<stream, uiQueue>>
    BY <1>4 DEF Notify, At, Goto, relay, binding, screen
  <2>2. step' \in [Workers -> Steps] /\ scheduled' \in [Views -> BOOLEAN]
    BY <2>1 DEF Steps
  <2>3. \A q \in Views : hooked[q]
    BY <2>1 DEF UnboundIsQuiet
  <2>4. \A q \in Views : /\ Posting(q) \/ (q = v /\ wanted) => Posting(q)'
                         /\ Pushing(q) /\ q # v => Pushing(q)'
                         /\ Queued(q) => Queued(q)'
    BY <2>1 DEF Posting, Pushing, Queued
  <2>5. \A u \in Workers : step'[u].phase \in {"pushed", "dispatch"} => step'[u].target \in Views
    BY <2>1
  <2>6. FlagHasFlush'
    BY <2>1, <2>4 DEF FlagHasFlush
  <2>7. NoLostWakeUp'
    <3> SUFFICES ASSUME NEW q \in Views, stream[q] # <<>>, ~closed[q] PROVE FlushComing(q)'
      BY <1>0, <2>1 DEF NoLostWakeUp
    <3>1. CASE q # v
      BY <1>0, <2>3, <2>4, <3>1, ComingIs, ComingIsNext DEF NoLostWakeUp
    <3>2. CASE q = v
      <4>1. Posting(q)' \/ Queued(q)'
        BY <2>3, <2>4, <3>2 DEF FlagHasFlush
      <4> QED BY <4>1, ComingIsNext
    <3> QED BY <3>1, <3>2
  <2> QED BY <1>0, <2>1, <2>2, <2>3, <2>5, <2>6, <2>7 DEF UnboundIsQuiet
<1>5. CASE Dispatch(w)
  <2> DEFINE v == step[w].target
  <2>1. /\ step[w].phase = "dispatch" /\ v \in Views
        /\ uiQueue' = Append(uiQueue, v)
        /\ step' = [step EXCEPT ![w] = [phase |-> "next", targets |-> step[w].targets, target |-> NoView]]
        /\ UNCHANGED <<stream, scheduled>>
    BY <1>5 DEF Dispatch, At, Goto, relay, binding, screen
  <2>2. step' \in [Workers -> Steps]
    BY <2>1 DEF Steps
  <2>3. uiQueue' \in Seq(Views) /\ \A q \in Views : Queued(q) \/ q = v => Queued(q)'
    BY <2>1, QueuedAppend
  <2>4. \A q \in Views : (Posting(q) /\ q # v => Posting(q)') /\ (Pushing(q) => Pushing(q)')
    BY <2>1 DEF Posting, Pushing
  <2>5. \A u \in Workers : step'[u].phase \in {"pushed", "dispatch"} => step'[u].target \in Views
    BY <2>1
  <2>6. \A q \in Views : hooked[q]
    BY <2>1 DEF UnboundIsQuiet
  <2> QED BY <1>0, <2>1, <2>2, <2>3, <2>4, <2>5, <2>6, ComingIs, ComingIsNext
          DEF FlagHasFlush, UnboundIsQuiet, NoLostWakeUp
<1> QED BY <1>1, <1>2, <1>3, <1>4, <1>5 DEF Work

\* The flag of a view is cleared only by a flush that goes on to drain its
\* stream, or finds the view closed.
LEMMA WakeInvFlushBegins ==
  ASSUME WakeInv, NEW v \in Views, FlushBegins(v), step' = step, stream' = stream,
         uiQueue' \in Seq(Views), \A q \in Views : Queued(q) /\ q # v => Queued(q)',
         ~(ui.phase = "drain"), ui.phase = "top" => ui.view = v,
         UNCHANGED <<subscribers, hooked, closed>>
  PROVE  WakeInv'
<1> USE DEF WakeInv, Types
<1>1. /\ scheduled' = [scheduled EXCEPT ![v] = FALSE]
      /\ ui' = IF closed[v] THEN UiIdle ELSE [phase |-> "drain", view |-> v]
  BY DEF FlushBegins, UiGoto
<1>2. ui' \in UiSteps /\ (ui'.phase # "idle" => ui'.view \in Views)
  BY <1>1 DEF UiIdle, UiSteps
<1>3. \A q \in Views : (Posting(q) <=> Posting(q)') /\ (Pushing(q) <=> Pushing(q)')
  BY DEF Posting, Pushing
<1>4. FlagHasFlush'
  BY <1>1, <1>3 DEF FlagHasFlush
<1>5. NoLostWakeUp'
  <2> SUFFICES ASSUME NEW q \in Views, stream[q] # <<>>, hooked[q], ~closed[q] PROVE FlushComing(q)'
    BY DEF NoLostWakeUp
  <2>1. CASE q = v
    BY <1>1, <2>1, ComingIsNext
  <2>2. CASE q # v
    BY <1>3, <2>2, ComingIs, ComingIsNext DEF NoLostWakeUp
  <2> QED BY <2>1, <2>2
<1>6. UnboundIsQuiet'
  BY DEF UnboundIsQuiet
<1> QED BY <1>1, <1>2, <1>4, <1>5, <1>6

LEMMA WakeInvServe ==
  ASSUME WakeInv, Serve
  PROVE  WakeInv'
<1> USE DEF WakeInv, Types
<1>1. CASE TakeFlush
  BY <1>1, QueuedTail, WakeInvFlushBegins DEF TakeFlush, UiAt, worker, binding
<1>2. CASE FlushTop
  <2>1. UNCHANGED <<step, stream, uiQueue, subscribers, hooked, closed>>
        /\ ui.phase = "top" /\ ui.view \in Views /\ FlushBegins(ui.view)
    BY <1>2 DEF FlushTop, UiAt, worker, binding
  <2>2. \A q \in Views : Queued(q) => Queued(q)'
    BY <2>1 DEF Queued
  <2> QED BY <2>1, <2>2, WakeInvFlushBegins
<1>3. CASE SetOnPush \/ Drain \/ Consume \/ FlushAgain \/ Unsubscribe
  <2>1. UNCHANGED <<step, uiQueue, scheduled, closed>>
    BY <1>3 DEF SetOnPush, Drain, Consume, FlushAgain, Unsubscribe, worker, relay, binding
  <2>2. \A q \in Views : (Queued(q) <=> Queued(q)') /\ (Posting(q) <=> Posting(q)') /\ (Pushing(q) <=> Pushing(q)')
    BY <2>1 DEF Queued, Posting, Pushing
  <2>3. FlagHasFlush'
    BY <2>1, <2>2 DEF FlagHasFlush
  <2>4. CASE SetOnPush
    <3>1. /\ ui.phase = "binding" /\ ui.view \in Views /\ ui' = UiIdle
          /\ hooked' = [hooked EXCEPT ![ui.view] = TRUE] /\ UNCHANGED <<subscribers, stream>>
      BY <2>4 DEF SetOnPush, UiAt
    <3>2. \A q \in Views : hooked'[q] /\ ~hooked[q] => stream[q] = <<>>
      BY DEF UnboundIsQuiet
    <3> QED BY <2>1, <2>2, <2>3, <3>1, <3>2, ComingIs, ComingIsNext
            DEF UnboundIsQuiet, NoLostWakeUp, UiIdle, UiSteps
  <2>5. CASE Drain
    <3>1. /\ ui.phase = "drain" /\ ui.view \in Views
          /\ ui' = [phase |-> "consume", view |-> ui.view]
          /\ stream' = [stream EXCEPT ![ui.view] = <<>>] /\ UNCHANGED <<subscribers, hooked>>
      BY <2>5 DEF Drain, UiAt, UiGoto, binding
    <3>2. stream' = [q \in Views |-> stream'[q]] /\ ui' \in UiSteps
      BY <3>1 DEF UiSteps
    <3> QED BY <2>1, <2>2, <2>3, <3>1, <3>2, ComingIs, ComingIsNext DEF UnboundIsQuiet, NoLostWakeUp
  <2>6. CASE Consume \/ FlushAgain
    <3>1. /\ ui.phase \in {"consume", "check"} /\ ui.view \in Views
          /\ ui' = UiIdle \/ \E s \in {"check", "top"} : ui' = [phase |-> s, view |-> ui.view]
          /\ UNCHANGED <<subscribers, hooked, stream>>
      BY <2>6 DEF Consume, FlushAgain, UiAt, UiGoto, binding
    <3>2. ui' \in UiSteps /\ (ui'.phase # "idle" => ui'.view \in Views)
      BY <3>1 DEF UiSteps, UiIdle
    <3> QED BY <2>1, <2>2, <2>3, <3>1, <3>2, ComingIs, ComingIsNext DEF UnboundIsQuiet, NoLostWakeUp
  <2>7. CASE Unsubscribe
    <3>1. ui.phase = "unsubscribe" /\ ui' = UiIdle /\ subscribers' \subseteq Views
          /\ UNCHANGED <<hooked, stream>>
      BY <2>7 DEF Unsubscribe, UiAt
    <3> QED BY <2>1, <2>2, <2>3, <3>1, ComingIs, ComingIsNext
            DEF UnboundIsQuiet, NoLostWakeUp, UiIdle, UiSteps
  <2> QED BY <1>3, <2>4, <2>5, <2>6, <2>7
<1> QED BY <1>1, <1>2, <1>3 DEF Serve

LEMMA WakeInvView ==
  ASSUME WakeInv, NEW v \in Views, Subscribe(v) \/ Close(v)
  PROVE  WakeInv'
<1> USE DEF WakeInv, Types
<1>1. UNCHANGED <<step, uiQueue, stream, hooked>> /\ ui.phase = "idle"
  BY DEF Subscribe, Close, UiAt, worker, binding
<1>2. ui' \in UiSteps /\ ui'.phase \notin {"drain", "top"} /\ ui'.view \in Views
  BY DEF Subscribe, Close, UiGoto, UiSteps
<1>3. \A q \in Views : (Queued(q) <=> Queued(q)') /\ (Posting(q) <=> Posting(q)') /\ (Pushing(q) <=> Pushing(q)')
  BY <1>1 DEF Queued, Posting, Pushing
<1>4. CASE Subscribe(v)
  BY <1>1, <1>2, <1>3, <1>4, ComingIs, ComingIsNext
  DEF Subscribe, relay, FlagHasFlush, UnboundIsQuiet, NoLostWakeUp
<1>5. CASE Close(v)
  BY <1>1, <1>2, <1>3, <1>5, ComingIs, ComingIsNext
  DEF Close, binding, FlagHasFlush, UnboundIsQuiet, NoLostWakeUp
<1> QED BY <1>4, <1>5

\* An event in the stream of a bound, open window always has a flush coming: the
\* flag that lets a notification be skipped never outlives the flush it stands
\* for.
THEOREM WakeUpsAreKept ==
  ASSUME EarlyHook
  PROVE  Spec => []NoLostWakeUp
<1>1. WakeInv /\ [Next]_vars => WakeInv'
  <2> SUFFICES ASSUME WakeInv, [Next]_vars PROVE WakeInv'
    OBVIOUS
  <2>1. CASE UNCHANGED vars
    BY <2>1 DEF vars, WakeInv, Types, FlagHasFlush, UnboundIsQuiet, NoLostWakeUp, FlushComing,
                Queued, Posting
  <2> QED BY <2>1, WakeInvWork, WakeInvServe, WakeInvView DEF Next
<1>2. WakeInv => NoLostWakeUp
  BY DEF WakeInv
<1> QED BY <1>1, <1>2, WakeInvInit, PTL DEF Spec

------------------------------------------------------------------------------
(* The order of the events.                                                *)

Pairs == Workers \X Nat
Rising(s) == \A i, k \in 1..Len(s) : i < k /\ s[i][1] = s[k][1] => s[i][2] < s[k][2]
Before(s, t) == \A i \in 1..Len(s), k \in 1..Len(t) : s[i][1] = t[k][1] => s[i][2] < t[k][2]

\* The events of s are published, and a worker that has yet to push to v is
\* about to push one that is newer than its events in s.
Told(s, v) ==
  \A i \in 1..Len(s) :
    /\ s[i][2] <= published[s[i][1]]
    /\ v \in step[s[i][1]].targets => s[i][2] < published[s[i][1]]

LineTypes ==
  /\ published \in [Workers -> Nat]
  /\ step \in [Workers -> Steps]
  /\ subscribers \subseteq Views
  /\ stream \in [Views -> Seq(Pairs)]
  /\ seen \in [Views -> Seq(Pairs)]
  /\ batch \in Seq(Pairs)
  /\ uiQueue \in Seq(Views)
  /\ ui \in UiSteps
  /\ ui.phase # "idle" => ui.view \in Views
  /\ \A w \in Workers : step[w].phase \in {"pushed", "dispatch"} => step[w].target \in Views

\* What a view was given is before what it is being given, and that before what
\* is in its stream.
LineInv ==
  /\ LineTypes
  /\ \A v \in Views :
       /\ Rising(seen[v]) /\ Rising(stream[v]) /\ Before(seen[v], stream[v])
       /\ Told(seen[v], v) /\ Told(stream[v], v)
  /\ ui.phase = "consume" =>
       /\ Rising(batch) /\ Told(batch, ui.view)
       /\ Before(seen[ui.view], batch) /\ Before(batch, stream[ui.view])

LEMMA ConcatIs ==
  ASSUME NEW s \in Seq(Pairs), NEW t \in Seq(Pairs)
  PROVE  /\ s \o t \in Seq(Pairs)
         /\ Len(s \o t) = Len(s) + Len(t) /\ Len(s) \in Nat /\ Len(t) \in Nat
         /\ \A i \in 1..Len(s) : (s \o t)[i] = s[i]
         /\ \A i \in 1..Len(s \o t) : i > Len(s) => i - Len(s) \in 1..Len(t) /\ (s \o t)[i] = t[i - Len(s)]
OBVIOUS

LEMMA AppendIs ==
  ASSUME NEW s \in Seq(Pairs), NEW e \in Pairs
  PROVE  /\ Append(s, e) \in Seq(Pairs)
         /\ Len(Append(s, e)) = Len(s) + 1 /\ Len(s) \in Nat
         /\ \A i \in 1..Len(s) : Append(s, e)[i] = s[i]
         /\ Append(s, e)[Len(s) + 1] = e
OBVIOUS

LEMMA PairIs ==
  ASSUME NEW s \in Seq(Pairs), NEW i \in 1..Len(s)
  PROVE  s[i][1] \in Workers /\ s[i][2] \in Nat
<1>1. s[i] \in Pairs
  OBVIOUS
<1> QED BY <1>1 DEF Pairs

LEMMA RisingConcat ==
  ASSUME NEW s \in Seq(Pairs), NEW t \in Seq(Pairs), Rising(s), Rising(t), Before(s, t)
  PROVE  Rising(s \o t)
<1> DEFINE l == s \o t
<1> SUFFICES ASSUME NEW i \in 1..Len(l), NEW k \in 1..Len(l), i < k, l[i][1] = l[k][1]
             PROVE  l[i][2] < l[k][2]
  BY DEF Rising
<1>0. Len(l) = Len(s) + Len(t) /\ Len(s) \in Nat /\ Len(t) \in Nat
  BY ConcatIs
<1>1. CASE k <= Len(s)
  <2>1. i \in 1..Len(s) /\ k \in 1..Len(s)
    BY <1>0, <1>1
  <2>2. l[i] = s[i] /\ l[k] = s[k]
    BY <2>1, ConcatIs
  <2> QED BY <2>1, <2>2 DEF Rising
<1>2. CASE i <= Len(s) /\ k > Len(s)
  <2>1. i \in 1..Len(s) /\ k - Len(s) \in 1..Len(t)
    BY <1>0, <1>2
  <2>2. l[i] = s[i] /\ l[k] = t[k - Len(s)]
    BY <1>2, <2>1, ConcatIs
  <2> QED BY <2>1, <2>2 DEF Before
<1>3. CASE i > Len(s)
  <2>1. /\ i - Len(s) \in 1..Len(t) /\ k - Len(s) \in 1..Len(t)
        /\ i - Len(s) < k - Len(s)
    BY <1>0, <1>3
  <2>2. l[i] = t[i - Len(s)] /\ l[k] = t[k - Len(s)]
    BY <1>0, <1>3, ConcatIs
  <2> QED BY <2>1, <2>2 DEF Rising
<1> QED BY <1>0, <1>1, <1>2, <1>3

LEMMA BeforeConcat ==
  ASSUME NEW s \in Seq(Pairs), NEW t \in Seq(Pairs), NEW u, Before(s, u), Before(t, u)
  PROVE  Before(s \o t, u)
<1> SUFFICES ASSUME NEW i \in 1..Len(s \o t), NEW k \in 1..Len(u), (s \o t)[i][1] = u[k][1]
             PROVE  (s \o t)[i][2] < u[k][2]
  BY DEF Before
<1>1. CASE i <= Len(s)
  BY <1>1, ConcatIs DEF Before
<1>2. CASE i > Len(s)
  BY <1>2, ConcatIs, SMTT(30) DEF Before
<1> QED BY <1>1, <1>2, ConcatIs

LEMMA ToldConcat ==
  ASSUME NEW s \in Seq(Pairs), NEW t \in Seq(Pairs), NEW v, Told(s, v), Told(t, v)
  PROVE  Told(s \o t, v)
<1> SUFFICES ASSUME NEW i \in 1..Len(s \o t)
             PROVE  LET e == (s \o t)[i] IN
                    /\ e[2] <= published[e[1]]
                    /\ v \in step[e[1]].targets => e[2] < published[e[1]]
  BY DEF Told
<1>1. CASE i <= Len(s)
  BY <1>1, ConcatIs DEF Told
<1>2. CASE i > Len(s)
  BY <1>2, ConcatIs DEF Told
<1> QED BY <1>1, <1>2, ConcatIs

LEMMA LineInvInit == Init => LineInv
BY EventsAssumption DEF Init, LineInv, LineTypes, Rising, Before, Told, Steps, UiSteps, Idle, UiIdle

\* A worker that goes on adds no target: whatever was told stays told.
LEMMA ToldKept ==
  ASSUME NEW s \in Seq(Pairs), NEW v, published' = published, Told(s, v),
         \A u \in Workers : step'[u].targets \subseteq step[u].targets
  PROVE  Told(s, v)'
BY PairIs DEF Told

\* A step that neither publishes nor moves events.
LEMMA LineInvOther ==
  ASSUME LineInv, LineTypes', UNCHANGED <<published, seen, stream, batch>>,
         \A u \in Workers : step'[u].targets \subseteq step[u].targets,
         ui' = ui \/ ui'.phase # "consume"
  PROVE  LineInv'
<1> USE DEF LineInv, LineTypes
<1>1. \A v \in Views : Told(seen[v], v)' /\ Told(stream[v], v)'
  <2> TAKE v \in Views
  <2>1. seen[v] \in Seq(Pairs) /\ stream[v] \in Seq(Pairs) /\ Told(seen[v], v) /\ Told(stream[v], v)
    OBVIOUS
  <2>2. Told(seen[v], v)'
    BY <2>1, ToldKept DEF Told
  <2>3. Told(stream[v], v)'
    BY <2>1, ToldKept DEF Told
  <2> QED BY <2>2, <2>3
<1>2. ui'.phase = "consume" => Told(batch, ui.view)'
  <2> SUFFICES ASSUME ui'.phase = "consume" PROVE Told(batch, ui.view)'
    OBVIOUS
  <2>1. ui' = ui /\ Told(batch, ui.view)
    OBVIOUS
  <2> QED BY <2>1, PairIs DEF Told
<1>3. \A v \in Views : (Rising(seen[v]) /\ Rising(stream[v]) /\ Before(seen[v], stream[v]))'
  <2> TAKE v \in Views
  <2>1. Rising(seen[v]) /\ Rising(stream[v]) /\ Before(seen[v], stream[v])
    OBVIOUS
  <2>2. seen'[v] = seen[v] /\ stream'[v] = stream[v]
    OBVIOUS
  <2>3. Rising(seen[v])' /\ Rising(stream[v])'
    BY <2>1, <2>2 DEF Rising
  <2>4. Before(seen[v], stream[v])'
    BY <2>1, <2>2 DEF Before
  <2> QED BY <2>3, <2>4
<1>4. ui'.phase = "consume" =>
        (Rising(batch) /\ Before(seen[ui.view], batch) /\ Before(batch, stream[ui.view]))'
  <2> SUFFICES ASSUME ui'.phase = "consume"
               PROVE  (Rising(batch) /\ Before(seen[ui.view], batch) /\ Before(batch, stream[ui.view]))'
    OBVIOUS
  <2>1. /\ ui' = ui /\ batch' = batch /\ seen' = seen /\ stream' = stream
        /\ Rising(batch) /\ Before(seen[ui.view], batch) /\ Before(batch, stream[ui.view])
    OBVIOUS
  <2>2. Rising(batch)'
    BY <2>1 DEF Rising
  <2>3. Before(seen[ui.view], batch)'
    BY <2>1 DEF Before
  <2>4. Before(batch, stream[ui.view])'
    BY <2>1 DEF Before
  <2> QED BY <2>2, <2>3, <2>4
<1> QED BY <1>1, <1>2, <1>3, <1>4

LEMMA LineInvPublish ==
  ASSUME LineInv, NEW w \in Workers, Publish(w)
  PROVE  LineInv'
<1> USE DEF LineInv, LineTypes
<1>1. /\ published' = [published EXCEPT ![w] = @ + 1]
      /\ step' = [step EXCEPT ![w] = [phase |-> "next", targets |-> subscribers, target |-> NoView]]
      /\ UNCHANGED <<subscribers, seen, stream, batch, ui, uiQueue>>
  BY DEF Publish, Goto, binding, screen
<1>2. LineTypes'
  BY <1>1 DEF Steps
<1>3. ASSUME NEW s \in Seq(Pairs), NEW v, Told(s, v) PROVE Told(s, v)'
  <2> SUFFICES ASSUME NEW i \in 1..Len(s)
               PROVE  /\ s[i][2] <= published'[s[i][1]]
                      /\ v \in step'[s[i][1]].targets => s[i][2] < published'[s[i][1]]
    BY DEF Told
  <2>1. s[i][1] \in Workers /\ s[i][2] \in Nat /\ published[s[i][1]] \in Nat
    BY PairIs
  <2>2. /\ s[i][2] <= published[s[i][1]]
        /\ v \in step[s[i][1]].targets => s[i][2] < published[s[i][1]]
    BY <1>3 DEF Told
  <2>3. CASE s[i][1] = w
    BY <1>1, <2>1, <2>2, <2>3
  <2>4. CASE s[i][1] # w
    BY <1>1, <2>1, <2>2, <2>4
  <2> QED BY <2>3, <2>4
<1>4. \A v \in Views : Told(seen[v], v)' /\ Told(stream[v], v)'
  <2> TAKE v \in Views
  <2>1. seen[v] \in Seq(Pairs) /\ stream[v] \in Seq(Pairs) /\ seen'[v] = seen[v] /\ stream'[v] = stream[v]
    BY <1>1
  <2> QED BY <1>1, <1>3, <2>1 DEF Told
<1>5. ui.phase = "consume" => Told(batch, ui.view)'
  BY <1>1, <1>3 DEF Told
<1> QED BY <1>1, <1>2, <1>4, <1>5, SMTT(30) DEF Rising, Before

LEMMA LineInvPush ==
  ASSUME LineInv, NEW w \in Workers, Push(w)
  PROVE  LineInv'
<1> USE DEF LineInv, LineTypes
<1> DEFINE e == <<w, published[w]>>
<1>1. PICK v \in Views :
        /\ v \in step[w].targets
        /\ step' = [step EXCEPT ![w] = [phase |-> "pushed", targets |-> step[w].targets \ {v}, target |-> v]]
        /\ stream' = [stream EXCEPT ![v] = Append(@, e)]
        /\ UNCHANGED <<published, subscribers, seen, batch, ui, uiQueue>>
  BY DEF Push, Goto, binding, screen, Steps
<1>2. /\ \A u \in Workers : step'[u].targets \subseteq step[u].targets
      /\ v \notin step'[w].targets
      /\ step' \in [Workers -> Steps]
      /\ \A u \in Workers : step'[u].phase \in {"pushed", "dispatch"} => step'[u].target \in Views
  BY <1>1 DEF Steps
<1>3. e \in Pairs /\ stream[v] \in Seq(Pairs)
  BY DEF Pairs
<1>4. /\ stream'[v] = Append(stream[v], e)
      /\ stream'[v] \in Seq(Pairs)
      /\ \A q \in Views : q # v => stream'[q] = stream[q]
      /\ stream' \in [Views -> Seq(Pairs)]
  BY <1>1, <1>3, AppendIs
\* Every event of w that v was or will be given is older than e.
<1>5. ASSUME NEW s \in Seq(Pairs), Told(s, v)
      PROVE  \A i \in 1..Len(s) : s[i][1] = w => s[i][2] < published[w]
  BY <1>1, <1>5 DEF Told
<1>6. ASSUME NEW s \in Seq(Pairs), Told(s, v), Before(s, stream[v])
      PROVE  Before(s, stream'[v])
  <2> SUFFICES ASSUME NEW i \in 1..Len(s), NEW k \in 1..Len(stream'[v]), s[i][1] = stream'[v][k][1]
               PROVE  s[i][2] < stream'[v][k][2]
    BY DEF Before
  <2>1. CASE k \in 1..Len(stream[v])
    BY <1>3, <1>4, <1>6, <2>1, AppendIs DEF Before
  <2>2. CASE k = Len(stream[v]) + 1
    <3>1. stream'[v][k] = e
      BY <1>3, <1>4, <2>2, AppendIs
    <3> QED BY <1>5, <1>6, <3>1
  <2> QED BY <1>3, <1>4, <2>1, <2>2, AppendIs
<1>7. Rising(stream'[v])
  <2> SUFFICES ASSUME NEW i \in 1..Len(stream'[v]), NEW k \in 1..Len(stream'[v]), i < k,
                      stream'[v][i][1] = stream'[v][k][1]
               PROVE  stream'[v][i][2] < stream'[v][k][2]
    BY DEF Rising
  <2>1. i \in 1..Len(stream[v]) /\ stream'[v][i] = stream[v][i] /\ Len(stream[v]) \in Nat
    BY <1>3, <1>4, AppendIs
  <2>2. CASE k \in 1..Len(stream[v])
    BY <1>3, <1>4, <2>1, <2>2, AppendIs DEF Rising
  <2>3. CASE k = Len(stream[v]) + 1
    <3>1. stream'[v][k] = e
      BY <1>3, <1>4, <2>3, AppendIs
    <3>2. Told(stream[v], v)
      OBVIOUS
    <3>3. stream[v][i][1] = w => stream[v][i][2] < published[w]
      BY <1>3, <1>5, <2>1, <3>2
    <3>4. stream'[v][i][2] = stream[v][i][2] /\ stream[v][i][1] = w
      BY <2>1, <3>1
    <3>5. stream'[v][k][2] = published[w]
      BY <3>1
    <3> QED BY <3>3, <3>4, <3>5
  <2>4. Len(stream'[v]) = Len(stream[v]) + 1 /\ Len(stream[v]) \in Nat
    BY <1>3, <1>4, AppendIs
  <2>5. k \in 1..Len(stream[v]) \/ k = Len(stream[v]) + 1
    BY <2>4
  <2> QED BY <2>2, <2>3, <2>5
<1>8. ASSUME NEW s \in Seq(Pairs), NEW q, Told(s, q) PROVE Told(s, q)'
  BY <1>1, <1>2, <1>8, ToldKept
<1>9. Told(stream[v], v)'
  <2> SUFFICES ASSUME NEW i \in 1..Len(stream'[v])
               PROVE  /\ stream'[v][i][2] <= published[stream'[v][i][1]]
                      /\ v \in step'[stream'[v][i][1]].targets
                           => stream'[v][i][2] < published[stream'[v][i][1]]
    BY <1>1 DEF Told
  <2>1. CASE i \in 1..Len(stream[v])
    <3>1. stream'[v][i] = stream[v][i]
      BY <1>3, <1>4, <2>1, AppendIs
    <3>2. stream[v][i][1] \in Workers
      BY <1>3, <2>1, PairIs
    <3>3. Told(stream[v], v)
      OBVIOUS
    <3> QED BY <1>2, <2>1, <3>1, <3>2, <3>3 DEF Told
  <2>2. CASE i = Len(stream[v]) + 1
    <3>1. stream'[v][i] = e
      BY <1>3, <1>4, <2>2, AppendIs
    <3> QED BY <1>2, <3>1
  <2> QED BY <1>3, <1>4, <2>1, <2>2, AppendIs
<1>10. ASSUME NEW q \in Views
       PROVE  (/\ Rising(seen[q]) /\ Rising(stream[q]) /\ Before(seen[q], stream[q])
               /\ Told(seen[q], q) /\ Told(stream[q], q))'
  <2>1. /\ seen'[q] = seen[q] /\ seen[q] \in Seq(Pairs) /\ stream[q] \in Seq(Pairs)
        /\ Rising(seen[q]) /\ Rising(stream[q]) /\ Before(seen[q], stream[q])
        /\ Told(seen[q], q) /\ Told(stream[q], q)
    BY <1>1
  <2>2. Told(seen[q], q)'
    BY <1>1, <1>8, <2>1 DEF Told
  <2>3. CASE q = v
    <3>1. Rising(stream[v])'
      BY <1>7 DEF Rising
    <3>2. Before(seen[v], stream[v])'
      <4>1. Before(seen[v], stream'[v])
        BY <1>6, <2>1, <2>3
      <4> QED BY <2>1, <2>3, <4>1 DEF Before
    <3>3. Rising(seen[v])'
      BY <2>1, <2>3 DEF Rising
    <3> QED BY <1>9, <2>2, <2>3, <3>1, <3>2, <3>3
  <2>4. CASE q # v
    <3>1. stream'[q] = stream[q]
      BY <1>4, <2>4
    <3>2. Told(stream[q], q)'
      BY <1>8, <2>1, <3>1 DEF Told
    <3> QED BY <2>1, <2>2, <3>1, <3>2 DEF Rising, Before
  <2> QED BY <2>3, <2>4
<1>11. ui.phase = "consume" =>
         (Rising(batch) /\ Told(batch, ui.view) /\ Before(seen[ui.view], batch) /\ Before(batch, stream[ui.view]))'
  <2> HAVE ui.phase = "consume"
  <2>1. /\ ui' = ui /\ ui.view \in Views /\ batch' = batch /\ seen' = seen
        /\ Rising(batch) /\ Told(batch, ui.view)
        /\ Before(seen[ui.view], batch) /\ Before(batch, stream[ui.view])
    BY <1>1
  <2>2. Told(batch, ui.view)'
    BY <1>8, <2>1 DEF Told
  <2>3. Before(batch, stream'[ui.view])
    BY <1>4, <1>6, <2>1
  <2> QED BY <2>1, <2>2, <2>3 DEF Rising, Before
<1>12. LineTypes'
  BY <1>1, <1>2, <1>4
<1> QED BY <1>1, <1>10, <1>11, <1>12

LEMMA LineInvDrain ==
  ASSUME LineInv, Drain
  PROVE  LineInv'
<1> USE DEF LineInv, LineTypes
<1> DEFINE v == ui.view
<1>1. /\ v \in Views
      /\ batch' = stream[v]
      /\ stream' = [stream EXCEPT ![v] = <<>>]
      /\ ui' = [phase |-> "consume", view |-> v]
      /\ UNCHANGED <<published, step, subscribers, uiQueue, seen>>
  BY DEF Drain, UiAt, UiGoto, worker, binding
<1>2. stream'[v] = <<>> /\ \A q \in Views : q # v => stream'[q] = stream[q]
  BY <1>1
<1>3. ASSUME NEW q \in Views
      PROVE  (/\ Rising(seen[q]) /\ Rising(stream[q]) /\ Before(seen[q], stream[q])
              /\ Told(seen[q], q) /\ Told(stream[q], q))'
  BY <1>1, <1>2 DEF Rising, Before, Told
<1>4. (Rising(batch) /\ Told(batch, v) /\ Before(seen[v], batch) /\ Before(batch, stream[v]))'
  <2>1. Rising(stream[v]) /\ Told(stream[v], v) /\ Before(seen[v], stream[v])
    BY <1>1
  <2> QED BY <1>1, <1>2, <2>1 DEF Rising, Before, Told
<1>5. LineTypes'
  BY <1>1 DEF UiSteps
<1> QED BY <1>1, <1>3, <1>4, <1>5

LEMMA LineInvConsume ==
  ASSUME LineInv, Consume
  PROVE  LineInv'
<1> USE DEF LineInv, LineTypes
<1> DEFINE v == ui.view
<1>1. /\ v \in Views /\ ui.phase = "consume"
      /\ seen' = [seen EXCEPT ![v] = @ \o batch]
      /\ batch' = <<>>
      /\ ui' = [phase |-> "check", view |-> v] \/ ui' = UiIdle
      /\ UNCHANGED <<published, step, subscribers, uiQueue, stream>>
  BY DEF Consume, UiAt, UiGoto, worker, binding
<1>2. /\ seen[v] \in Seq(Pairs) /\ batch \in Seq(Pairs) /\ stream[v] \in Seq(Pairs)
      /\ Rising(seen[v]) /\ Rising(batch) /\ Before(seen[v], batch) /\ Before(batch, stream[v])
      /\ Before(seen[v], stream[v]) /\ Told(seen[v], v) /\ Told(batch, v)
  BY <1>1
<1>3. seen[v] \o batch \in Seq(Pairs)
  BY <1>2, ConcatIs
<1>4. /\ seen' \in [Views -> Seq(Pairs)] /\ seen'[v] = seen[v] \o batch
      /\ \A q \in Views : q # v => seen'[q] = seen[q]
  BY <1>1, <1>3
<1>5. Rising(seen[v] \o batch) /\ Before(seen[v] \o batch, stream[v]) /\ Told(seen[v] \o batch, v)
  BY <1>2, RisingConcat, BeforeConcat, ToldConcat
<1>6. ASSUME NEW q \in Views
      PROVE  (/\ Rising(seen[q]) /\ Rising(stream[q]) /\ Before(seen[q], stream[q])
              /\ Told(seen[q], q) /\ Told(stream[q], q))'
  <2>1. /\ Rising(seen[q]) /\ Rising(stream[q]) /\ Before(seen[q], stream[q])
        /\ Told(seen[q], q) /\ Told(stream[q], q)
    OBVIOUS
  <2>2. CASE q = v
    <3> DEFINE s == seen[v] \o batch
    <3>1. Rising(s) /\ Before(s, stream[v]) /\ Told(s, v) /\ seen'[q] = s /\ q = v
      BY <1>4, <1>5, <2>2
    <3>2. UNCHANGED <<published, step, stream>>
      BY <1>1
    <3> HIDE DEF s, v
    <3>5. Rising(seen[q])'
      BY <3>1 DEF Rising
    <3>6. Rising(stream[q])'
      BY <2>1, <3>2 DEF Rising
    <3>7. Before(seen[q], stream[q])'
      BY <3>1, <3>2 DEF Before
    <3>3. Rising(seen[q])' /\ Before(seen[q], stream[q])' /\ Rising(stream[q])'
      BY <3>5, <3>6, <3>7
    <3>4. Told(seen[q], q)' /\ Told(stream[q], q)'
      BY <2>1, <3>1, <3>2 DEF Told
    <3> QED BY <3>3, <3>4
  <2>3. CASE q # v
    <3>1. seen'[q] = seen[q] /\ UNCHANGED <<published, step, stream>>
      BY <1>1, <1>4, <2>3
    <3>2. Rising(seen[q])' /\ Before(seen[q], stream[q])' /\ Rising(stream[q])'
      BY <2>1, <3>1 DEF Rising, Before
    <3>3. Told(seen[q], q)' /\ Told(stream[q], q)'
      BY <2>1, <3>1 DEF Told
    <3> QED BY <3>2, <3>3
  <2> QED BY <2>2, <2>3
<1>7. LineTypes'
  BY <1>1, <1>4 DEF UiSteps, UiIdle
<1> QED BY <1>1, <1>6, <1>7 DEF UiIdle

LEMMA LineInvStep == LineInv /\ [Next]_vars => LineInv'
<1> SUFFICES ASSUME LineInv, [Next]_vars PROVE LineInv'
  OBVIOUS
<1>0. LineTypes
  BY DEF LineInv
<1>1. ASSUME NEW w \in Workers, PublishEnds(w) \/ Notify(w) \/ Dispatch(w)
      PROVE  LineInv'
  <2>1. /\ UNCHANGED <<published, seen, stream, batch, ui, subscribers>>
        /\ \E p \in {"idle", "next", "dispatch"}, t \in SUBSET step[w].targets, q \in Views \cup {NoView} :
             /\ step' = [step EXCEPT ![w] = [phase |-> p, targets |-> t, target |-> q]]
             /\ p = "dispatch" => q \in Views
    BY <1>0, <1>1 DEF PublishEnds, Notify, Dispatch, At, Goto, Idle, LineTypes, binding, screen
  <2>2. /\ step' \in [Workers -> Steps]
        /\ \A u \in Workers : step'[u].targets \subseteq step[u].targets
        /\ \A u \in Workers : step'[u].phase \in {"pushed", "dispatch"} => step'[u].target \in Views
    BY <1>0, <2>1 DEF LineTypes, Steps
  <2>3. uiQueue' \in Seq(Views)
    BY <1>0, <1>1, QueuedAppend DEF PublishEnds, Notify, Dispatch, At, LineTypes
  <2>4. LineTypes'
    BY <1>0, <2>1, <2>2, <2>3 DEF LineTypes
  <2> QED BY <2>1, <2>2, <2>4, LineInvOther
<1>2. ASSUME NEW v \in Views, Subscribe(v) \/ Close(v)
      PROVE  LineInv'
  <2>1. /\ UNCHANGED <<published, step, seen, stream, batch, uiQueue>>
        /\ subscribers' \subseteq Views
        /\ ui' \in UiSteps /\ ui'.phase # "consume" /\ ui'.view \in Views
    BY <1>0, <1>2 DEF Subscribe, Close, UiGoto, worker, binding, LineTypes, UiSteps
  <2>2. LineTypes'
    BY <1>0, <2>1 DEF LineTypes
  <2> QED BY <2>1, <2>2, LineInvOther
<1>3. CASE SetOnPush \/ TakeFlush \/ FlushAgain \/ FlushTop \/ Unsubscribe
  <2>1. /\ UNCHANGED <<published, step, seen, stream, batch>>
        /\ subscribers' \subseteq Views
    BY <1>0, <1>3 DEF SetOnPush, TakeFlush, FlushAgain, FlushTop, Unsubscribe, worker, binding, LineTypes
  <2>2. uiQueue' \in Seq(Views)
    BY <1>0, <1>3, QueuedTail DEF SetOnPush, TakeFlush, FlushAgain, FlushTop, Unsubscribe, LineTypes
  <2>3. ui' \in UiSteps /\ ui'.phase # "consume" /\ (ui'.phase # "idle" => ui'.view \in Views)
    BY <1>0, <1>3, QueuedTail, SMTT(30)
    DEF SetOnPush, TakeFlush, FlushAgain, FlushTop, FlushBegins, Unsubscribe, UiAt, UiGoto, UiIdle,
        UiSteps, LineTypes
  <2>4. LineTypes'
    BY <1>0, <2>1, <2>2, <2>3 DEF LineTypes
  <2> QED BY <2>1, <2>3, <2>4, LineInvOther
<1>4. CASE UNCHANGED vars
  <2>1. LineTypes' /\ UNCHANGED <<published, step, seen, stream, batch, ui>>
    BY <1>0, <1>4 DEF vars, LineTypes
  <2> QED BY <2>1, LineInvOther
<1> QED BY <1>1, <1>2, <1>3, <1>4, LineInvPublish, LineInvPush, LineInvDrain, LineInvConsume
        DEF Next, Work, Serve

\* However publications interleave with each other and with the drains, a window
\* is given each event at most once and those of a worker in the order in which
\* it published them, also when its consumer fails.
THEOREM EventsComeInOrder == Spec => []SeenInOrder
<1>1. LineInv => SeenInOrder
  BY DEF LineInv, Rising, SeenInOrder
<1> QED BY <1>1, LineInvInit, LineInvStep, PTL DEF Spec

------------------------------------------------------------------------------
(* Every variable keeps its type.                                          *)

\* A worker at something has published, never more than it may, and what moves
\* between streams, batches and windows are events.
EventTypes ==
  /\ \A w \in Workers : published[w] <= MaxEvents[w]
  /\ \A w \in Workers : step[w].phase # "idle" => published[w] > 0
  /\ stream \in [Views -> Seq(Events)]
  /\ seen \in [Views -> Seq(Events)]
  /\ batch \in Seq(Events)
  /\ hooked \in [Views -> BOOLEAN]
  /\ scheduled \in [Views -> BOOLEAN]
  /\ closed \in [Views -> BOOLEAN]

LEMMA EventIs ==
  ASSUME NEW w \in Workers, NEW n \in Nat
  PROVE  <<w, n>> \in Events <=> 1 <= n /\ n <= MaxEvents[w]
BY EventsAssumption DEF Events

LEMMA EventAppended ==
  ASSUME NEW s \in Seq(Events), NEW e \in Events
  PROVE  Append(s, e) \in Seq(Events)
OBVIOUS

\* What a worker pushes is an event.
LEMMA AtEvent ==
  ASSUME LineTypes, EventTypes, NEW w \in Workers, step[w].phase = "next"
  PROVE  <<w, published[w]>> \in Events
<1>1. published[w] \in Nat /\ published[w] > 0 /\ published[w] <= MaxEvents[w]
  BY DEF LineTypes, EventTypes
<1> QED BY <1>1, EventIs

LEMMA EventTypesWork ==
  ASSUME LineTypes, EventTypes, NEW w \in Workers, Work(w)
  PROVE  EventTypes'
<1> USE DEF EventTypes, LineTypes
<1>0. MaxEvents \in [Workers -> Nat] /\ UNCHANGED <<seen, batch, hooked, closed>>
  BY EventsAssumption DEF Work, Publish, Push, PublishEnds, Notify, Dispatch, relay, binding, screen
<1>1. CASE Publish(w)
  <2>1. /\ published' = [published EXCEPT ![w] = @ + 1]
        /\ published[w] < MaxEvents[w]
        /\ step' = [step EXCEPT ![w] = [phase |-> "next", targets |-> subscribers, target |-> NoView]]
        /\ UNCHANGED <<stream, scheduled>>
    BY <1>1 DEF Publish, Goto, relay
  <2>2. \A u \in Workers : published'[u] <= MaxEvents[u]
    BY <1>0, <2>1
  <2>3. \A u \in Workers : step'[u].phase # "idle" => published'[u] > 0
    BY <2>1
  <2> QED BY <1>0, <2>1, <2>2, <2>3
<1>2. CASE Push(w)
  <2>1. PICK v \in Views :
          /\ stream' = [stream EXCEPT ![v] = Append(@, <<w, published[w]>>)]
          /\ step[w].phase = "next"
          /\ step' = [step EXCEPT ![w] = [phase |-> "pushed", targets |-> step[w].targets \ {v}, target |-> v]]
          /\ UNCHANGED <<published, scheduled>>
    BY <1>2 DEF Push, Goto, At, relay, Steps
  <2>3. <<w, published[w]>> \in Events
    BY <2>1, AtEvent, Zenon
  <2>4. stream[v] \in Seq(Events)
    OBVIOUS
  <2>5. Append(stream[v], <<w, published[w]>>) \in Seq(Events)
    BY <2>3, <2>4, EventAppended, Zenon
  <2>6. stream' \in [Views -> Seq(Events)]
    BY <2>1, <2>5
  <2> QED BY <1>0, <2>1, <2>6
<1>3. CASE PublishEnds(w) \/ Notify(w) \/ Dispatch(w)
  <2>1. UNCHANGED <<published, stream>> /\ step[w].phase # "idle"
    BY <1>3 DEF PublishEnds, Notify, Dispatch, At
  <2>2. scheduled' \in [Views -> BOOLEAN]
    BY <1>3 DEF PublishEnds, Notify, Dispatch, relay
  <2>3. \A u \in Workers : u # w => step'[u] = step[u]
    BY <1>3 DEF PublishEnds, Notify, Dispatch, Goto
  <2>4. \A u \in Workers : step'[u].phase # "idle" => published'[u] > 0
    BY <2>1, <2>3
  <2>5. /\ stream' \in [Views -> Seq(Events)] /\ seen' \in [Views -> Seq(Events)]
        /\ batch' \in Seq(Events) /\ published' = published
        /\ hooked' \in [Views -> BOOLEAN] /\ closed' \in [Views -> BOOLEAN]
    BY <1>0, <2>1
  <2> QED BY <2>2, <2>4, <2>5, Zenon
<1> QED BY <1>1, <1>2, <1>3 DEF Work

LEMMA EventTypesStep ==
  ASSUME LineTypes, EventTypes, [Next]_vars
  PROVE  EventTypes'
<1> USE DEF EventTypes, LineTypes
<1>1. ASSUME NEW v \in Views, Subscribe(v) \/ Close(v) PROVE EventTypes'
  <2>1. UNCHANGED <<published, step, stream, seen, batch, hooked>>
    BY <1>1 DEF Subscribe, Close, worker, binding
  <2>2. scheduled' \in [Views -> BOOLEAN] /\ closed' \in [Views -> BOOLEAN]
    BY <1>1 DEF Subscribe, Close, relay
  <2> QED BY <2>1, <2>2
<1>2. CASE Serve
  <2>0. UNCHANGED <<published, step, closed>>
    BY <1>2 DEF Serve, SetOnPush, TakeFlush, Drain, Consume, FlushAgain, FlushTop, Unsubscribe, worker, relay
  <2>1. CASE SetOnPush \/ FlushAgain \/ Unsubscribe
    <3>1. UNCHANGED <<stream, seen, batch, scheduled>> /\ hooked' \in [Views -> BOOLEAN]
      BY <2>1 DEF SetOnPush, FlushAgain, Unsubscribe, relay, binding
    <3> QED BY <2>0, <3>1
  <2>2. CASE TakeFlush \/ FlushTop
    <3>1. UNCHANGED <<stream, seen, batch, hooked>> /\ scheduled' \in [Views -> BOOLEAN]
      BY <2>2 DEF TakeFlush, FlushTop, FlushBegins, binding
    <3> QED BY <2>0, <3>1
  <2>3. CASE Drain
    <3>1. /\ ui.view \in Views /\ batch' = stream[ui.view]
          /\ stream' = [stream EXCEPT ![ui.view] = <<>>]
          /\ UNCHANGED <<seen, hooked, scheduled>>
      BY <2>3 DEF Drain, UiAt, relay, binding
    <3>2. <<>> \in Seq(Events)
      OBVIOUS
    <3> QED BY <2>0, <3>1, <3>2
  <2>4. CASE Consume
    <3>1. /\ ui.view \in Views /\ batch' = <<>>
          /\ seen' = [seen EXCEPT ![ui.view] = @ \o batch]
          /\ UNCHANGED <<stream, hooked, scheduled>>
      BY <2>4 DEF Consume, UiAt, relay, binding
    <3>2. seen[ui.view] \o batch \in Seq(Events)
      BY <3>1
    <3>3. seen' \in [Views -> Seq(Events)] /\ batch' \in Seq(Events)
      BY <3>1, <3>2
    <3> QED BY <2>0, <3>1, <3>3
  <2> QED BY <1>2, <2>1, <2>2, <2>3, <2>4 DEF Serve
<1>3. CASE UNCHANGED vars
  BY <1>3 DEF vars
<1> QED BY <1>1, <1>2, <1>3, EventTypesWork DEF Next

LEMMA EventTypesInit == Init => EventTypes
BY EventsAssumption DEF Init, EventTypes, Idle, Events

\* Every variable of the bus, of the streams and of the drains keeps its type,
\* bindings complete or not: a window is only ever given events that were
\* published.
THEOREM EventsTyped == Spec => []TypeOK
<1>1. LineInv => LineTypes
  BY DEF LineInv
<1>2. LineTypes /\ EventTypes => TypeOK
  BY DEF LineTypes, EventTypes, TypeOK
<1> QED BY <1>1, <1>2, LineInvInit, LineInvStep, EventTypesInit, EventTypesStep, PTL DEF Spec

------------------------------------------------------------------------------
(* The flag of a drain, bindings complete or not.                          *)

LEMMA FlagStep ==
  ASSUME LineTypes, EventTypes, FlagHasFlush, [Next]_vars
  PROVE  FlagHasFlush'
<1> USE DEF LineTypes, EventTypes
<1>1. ASSUME NEW w \in Workers, Publish(w) \/ Push(w) \/ PublishEnds(w) PROVE FlagHasFlush'
  <2>1. UNCHANGED <<scheduled, uiQueue>> /\ step[w].phase \in {"idle", "next"}
        /\ \A u \in Workers : u # w => step'[u] = step[u]
    BY <1>1 DEF Publish, Push, PublishEnds, At, Goto, relay
  <2>2. \A q \in Views : (Posting(q) => Posting(q)') /\ (Queued(q) => Queued(q)')
    BY <2>1 DEF Posting, Queued
  <2> QED BY <2>1, <2>2 DEF FlagHasFlush
<1>2. ASSUME NEW w \in Workers, Notify(w) PROVE FlagHasFlush'
  <2> DEFINE v == step[w].target
             wanted == hooked[v] /\ ~closed[v] /\ ~scheduled[v]
             after == IF wanted THEN [phase |-> "dispatch", targets |-> step[w].targets, target |-> v]
                      ELSE [phase |-> "next", targets |-> step[w].targets, target |-> NoView]
  <2>1. /\ step[w].phase = "pushed" /\ v \in Views
        /\ scheduled' = [scheduled EXCEPT ![v] = @ \/ wanted]
        /\ step' = [step EXCEPT ![w] = after]
        /\ uiQueue' = uiQueue
    BY <1>2 DEF Notify, At, Goto
  <2>2. \A q \in Views : /\ Posting(q) \/ (q = v /\ wanted) => Posting(q)'
                         /\ Queued(q) => Queued(q)'
    BY <2>1 DEF Posting, Queued
  <2> QED BY <2>1, <2>2 DEF FlagHasFlush
<1>3. ASSUME NEW w \in Workers, Dispatch(w) PROVE FlagHasFlush'
  <2> DEFINE v == step[w].target
  <2>1. /\ step[w].phase = "dispatch" /\ v \in Views
        /\ uiQueue' = Append(uiQueue, v)
        /\ \A u \in Workers : u # w => step'[u] = step[u]
        /\ scheduled' = scheduled
    BY <1>3 DEF Dispatch, At, Goto, relay
  <2>2. \A q \in Views : Queued(q) \/ q = v => Queued(q)'
    BY <2>1, QueuedAppend
  <2>3. \A q \in Views : Posting(q) /\ q # v => Posting(q)'
    BY <2>1 DEF Posting
  <2> QED BY <2>1, <2>2, <2>3 DEF FlagHasFlush
<1>4. ASSUME NEW v \in Views, FlushBegins(v), step' = step,
             \A q \in Views : Queued(q) /\ q # v => Queued(q)'
      PROVE  FlagHasFlush'
  <2>1. scheduled' = [scheduled EXCEPT ![v] = FALSE]
    BY <1>4 DEF FlushBegins
  <2>2. \A q \in Views : Posting(q) => Posting(q)'
    BY <1>4 DEF Posting
  <2> QED BY <1>4, <2>1, <2>2 DEF FlagHasFlush
<1>5. CASE TakeFlush
  <2>1. uiQueue # <<>> /\ uiQueue' = Tail(uiQueue) /\ FlushBegins(Head(uiQueue)) /\ step' = step
    BY <1>5 DEF TakeFlush, worker
  <2> QED BY <1>4, <2>1, QueuedTail
<1>6. CASE FlushTop
  <2>1. uiQueue' = uiQueue /\ FlushBegins(ui.view) /\ step' = step /\ ui.view \in Views
    BY <1>6 DEF FlushTop, UiAt, worker
  <2>2. \A q \in Views : Queued(q) => Queued(q)'
    BY <2>1 DEF Queued
  <2> QED BY <1>4, <2>1, <2>2
<1>7. CASE \/ SetOnPush \/ Drain \/ Consume \/ FlushAgain \/ Unsubscribe \/ UNCHANGED vars
           \/ \E v \in Views : Subscribe(v) \/ Close(v)
  <2>1. UNCHANGED <<step, uiQueue>>
    BY <1>7 DEF SetOnPush, Drain, Consume, FlushAgain, Unsubscribe, Subscribe, Close, vars, worker
  <2>2. \A q \in Views : scheduled'[q] => scheduled[q]
    BY <1>7 DEF SetOnPush, Drain, Consume, FlushAgain, Unsubscribe, Subscribe, Close, vars, relay
  <2>3. \A q \in Views : (Posting(q) => Posting(q)') /\ (Queued(q) => Queued(q)')
    BY <2>1 DEF Posting, Queued
  <2> QED BY <2>2, <2>3 DEF FlagHasFlush
<1> QED BY <1>1, <1>2, <1>3, <1>5, <1>6, <1>7 DEF Next, Work, Serve

\* The flag that lets notifications be skipped never outlives its flush: while it
\* is set, a flush is in the UI queue or a worker is about to put one there.
THEOREM FlagsHaveFlushes == Spec => []FlagHasFlush
<1>1. LineInv => LineTypes
  BY DEF LineInv
<1>2. Init => FlagHasFlush
  BY DEF Init, FlagHasFlush
<1> QED BY <1>1, <1>2, LineInvInit, LineInvStep, EventTypesInit, EventTypesStep, FlagStep, PTL DEF Spec

------------------------------------------------------------------------------
(* No event is lost.                                                       *)

Holds(s, e) == \E i \in 1..Len(s) : s[i] = e

\* e was given to v, or is in its stream, or in the batch it is being given.
Given(v, e) ==
  \/ Holds(seen[v], e)
  \/ Holds(stream[v], e)
  \/ ui.phase = "consume" /\ ui.view = v /\ Holds(batch, e)

\* Every event published so far was given to each open, bound window or is on its
\* way there: it is the last of its worker, which has yet to push it to v.
NothingLost ==
  \A v \in Views : hooked[v] /\ ~closed[v] =>
    \A w \in Workers : \A n \in 1..published[w] :
      Given(v, <<w, n>>) \/ (n = published[w] /\ v \in step[w].targets)

\* What that rests on: nothing is published before the windows are bound, a bound
\* window is subscribed until it closes, and a worker that is idle has pushed its
\* event to everybody.
BoundInTime ==
  /\ \A v \in Views : ~hooked[v] => ~closed[v] /\ \A w \in Workers : published[w] = 0
  /\ \A v \in Views : hooked[v] /\ ~closed[v] => v \in subscribers
  /\ ui.phase = "binding" => ui.view \in subscribers
  /\ ui.phase = "unsubscribe" => closed[ui.view]
  /\ \A w \in Workers : step[w].phase = "idle" => step[w].targets = {}

LEMMA BoundInTimeStep ==
  ASSUME EarlyHook, LineTypes, EventTypes, BoundInTime, [Next]_vars
  PROVE  BoundInTime'
<1> USE DEF LineTypes, EventTypes, BoundInTime
<1>1. ASSUME NEW w \in Workers, Publish(w) PROVE BoundInTime'
  <2>1. /\ published' = [published EXCEPT ![w] = @ + 1]
        /\ step' = [step EXCEPT ![w] = [phase |-> "next", targets |-> subscribers, target |-> NoView]]
        /\ \A v \in Views : hooked[v] \/ closed[v]
        /\ UNCHANGED <<hooked, closed, subscribers, ui>>
    BY <1>1 DEF Publish, Goto, relay, binding, screen
  <2>2. \A v \in Views : hooked[v]
    BY <2>1
  <2> QED BY <2>1, <2>2
<1>2. ASSUME NEW w \in Workers, Push(w) \/ PublishEnds(w) \/ Notify(w) \/ Dispatch(w) PROVE BoundInTime'
  <2>1. UNCHANGED <<published, hooked, closed, subscribers, ui>>
    BY <1>2 DEF Push, PublishEnds, Notify, Dispatch, relay, binding, screen
  <2>2. /\ \A u \in Workers : u # w => step'[u] = step[u]
        /\ step'[w].phase = "idle" => step'[w].targets = {}
    <3>1. CASE Push(w)
      BY <3>1 DEF Push, Goto
    <3>2. CASE PublishEnds(w)
      BY <3>2 DEF PublishEnds, Idle
    <3>3. CASE Notify(w)
      BY <3>3 DEF Notify, Goto
    <3>4. CASE Dispatch(w)
      BY <3>4 DEF Dispatch, Goto
    <3> QED BY <1>2, <3>1, <3>2, <3>3, <3>4
  <2> QED BY <2>1, <2>2
<1>3. ASSUME NEW v \in Views, Subscribe(v) \/ Close(v) PROVE BoundInTime'
  <2>1. UNCHANGED <<published, step, hooked>>
    BY <1>3 DEF Subscribe, Close, worker, binding
  <2>2. CASE Subscribe(v)
    <3>1. /\ subscribers' = subscribers \cup {v} /\ closed' = closed
          /\ ui' = [phase |-> "binding", view |-> v]
      BY <2>2 DEF Subscribe, UiGoto, relay
    <3> QED BY <2>1, <3>1
  <2>3. CASE Close(v)
    <3>1. /\ subscribers' = subscribers /\ hooked[v] /\ closed' = [closed EXCEPT ![v] = TRUE]
          /\ ui' = [phase |-> "unsubscribe", view |-> v]
      BY <2>3 DEF Close, UiGoto, binding
    <3> QED BY <2>1, <3>1
  <2> QED BY <1>3, <2>2, <2>3
<1>4. CASE Serve
  <2>1. UNCHANGED <<published, step, closed>>
    BY <1>4 DEF Serve, SetOnPush, TakeFlush, Drain, Consume, FlushAgain, FlushTop, Unsubscribe, worker, relay
  <2>2. CASE SetOnPush
    <3>1. /\ ui.phase = "binding" /\ ui.view \in Views /\ ui' = UiIdle
          /\ hooked' = [hooked EXCEPT ![ui.view] = TRUE] /\ subscribers' = subscribers
      BY <2>2 DEF SetOnPush, UiAt
    <3> QED BY <2>1, <3>1 DEF UiIdle
  <2>3. CASE Unsubscribe
    <3>1. /\ ui.phase = "unsubscribe" /\ ui.view \in Views /\ ui' = UiIdle
          /\ subscribers' = subscribers \ {ui.view} /\ hooked' = hooked
      BY <2>3 DEF Unsubscribe, UiAt
    <3> QED BY <2>1, <3>1 DEF UiIdle
  <2>4. CASE TakeFlush \/ Drain \/ Consume \/ FlushAgain \/ FlushTop
    <3>1. UNCHANGED <<subscribers, hooked>> /\ ui'.phase \notin {"binding", "unsubscribe"}
      BY <2>4 DEF TakeFlush, Drain, Consume, FlushAgain, FlushTop, FlushBegins, UiGoto, UiIdle, binding
    <3> QED BY <2>1, <3>1
  <2> QED BY <1>4, <2>2, <2>3, <2>4 DEF Serve
<1>5. CASE UNCHANGED vars
  BY <1>5 DEF vars
<1> QED BY <1>1, <1>2, <1>3, <1>4, <1>5 DEF Next, Work

LEMMA HoldsAppend ==
  ASSUME NEW s \in Seq(Events), NEW e \in Events
  PROVE  /\ Holds(Append(s, e), e)
         /\ \A d : Holds(s, d) => Holds(Append(s, e), d)
<1>1. /\ Len(Append(s, e)) = Len(s) + 1 /\ Len(s) \in Nat
      /\ \A i \in 1..Len(s) : Append(s, e)[i] = s[i]
      /\ Append(s, e)[Len(s) + 1] = e
  OBVIOUS
<1> QED BY <1>1 DEF Holds

LEMMA HoldsConcat ==
  ASSUME NEW s \in Seq(Events), NEW t \in Seq(Events), NEW d, Holds(s, d) \/ Holds(t, d)
  PROVE  Holds(s \o t, d)
<1>1. /\ Len(s \o t) = Len(s) + Len(t) /\ Len(s) \in Nat /\ Len(t) \in Nat
      /\ \A i \in 1..Len(s) : (s \o t)[i] = s[i]
      /\ \A i \in 1..Len(t) : (s \o t)[Len(s) + i] = t[i]
  OBVIOUS
<1>2. CASE Holds(s, d)
  BY <1>1, <1>2 DEF Holds
<1>3. CASE Holds(t, d)
  <2>1. PICK i \in 1..Len(t) : t[i] = d
    BY <1>3 DEF Holds
  <2>2. Len(s) + i \in 1..Len(s \o t) /\ (s \o t)[Len(s) + i] = d
    BY <1>1, <2>1
  <2> QED BY <2>2 DEF Holds
<1> QED BY <1>2, <1>3

\* A step that publishes nothing, keeps what a window was given and takes no
\* target without pushing to it.
LEMMA NothingLostKept ==
  ASSUME LineTypes, NothingLost, published' = published,
         \A v \in Views : hooked'[v] /\ ~closed'[v] => hooked[v] /\ ~closed[v],
         \A v \in Views : \A e \in Pairs : Given(v, e) => Given(v, e)',
         \A v \in Views : \A w \in Workers :
           hooked[v] /\ ~closed[v] /\ v \in step[w].targets /\ published[w] > 0 =>
             v \in step'[w].targets \/ Given(v, <<w, published[w]>>)'
  PROVE  NothingLost'
<1> SUFFICES ASSUME NEW v \in Views, hooked[v], ~closed[v], NEW w \in Workers, NEW n \in 1..published[w]
             PROVE  Given(v, <<w, n>>)' \/ (n = published[w] /\ v \in step'[w].targets)
  BY DEF NothingLost
<1>1. published[w] \in Nat /\ <<w, n>> \in Pairs
  BY DEF LineTypes, Pairs
<1>2. CASE Given(v, <<w, n>>)
  BY <1>1, <1>2
<1>3. CASE n = published[w] /\ v \in step[w].targets
  <2>1. published[w] > 0
    BY <1>1, <1>3
  <2> QED BY <1>3, <2>1
<1> QED BY <1>2, <1>3 DEF NothingLost

LEMMA NothingLostWork ==
  ASSUME EarlyHook, LineTypes, EventTypes, BoundInTime, NothingLost, NEW w \in Workers, Work(w)
  PROVE  NothingLost'
<1>0. UNCHANGED <<hooked, closed, seen, batch, ui>>
  BY DEF Work, Publish, Push, PublishEnds, Notify, Dispatch, relay, binding, screen
<1>1. CASE Publish(w)
  <2>1. /\ step[w].phase = "idle"
        /\ published' = [published EXCEPT ![w] = @ + 1]
        /\ step' = [step EXCEPT ![w] = [phase |-> "next", targets |-> subscribers, target |-> NoView]]
        /\ stream' = stream
    BY <1>1 DEF Publish, At, Goto
  <2>2. published \in [Workers -> Nat] /\ step \in [Workers -> Steps]
    BY DEF LineTypes
  <2>8. \A v, e : Given(v, e) => Given(v, e)'
    BY <1>0, <2>1 DEF Given, Holds
  <2>3. SUFFICES ASSUME NEW v \in Views, hooked[v], ~closed[v], NEW u \in Workers, NEW n \in 1..published'[u]
                 PROVE  Given(v, <<u, n>>) \/ (n = published'[u] /\ v \in step'[u].targets)
    BY <1>0, <2>8 DEF NothingLost
  <2>4. v \in subscribers /\ step[w].targets = {}
    BY <2>1, <2>3 DEF BoundInTime
  <2>5. CASE u = w /\ n = published[w] + 1
    BY <2>1, <2>2, <2>4, <2>5
  <2>6. CASE u = w /\ n # published[w] + 1
    <3>1. n \in 1..published[w]
      BY <2>1, <2>2, <2>3, <2>6
    <3> QED BY <2>3, <2>4, <2>6, <3>1 DEF NothingLost
  <2>7. CASE u # w
    <3>1. published'[u] = published[u] /\ step'[u] = step[u]
      BY <2>1, <2>2, <2>7
    <3> QED BY <2>3, <3>1 DEF NothingLost
  <2> QED BY <2>5, <2>6, <2>7
<1>2. CASE Push(w)
  <2>1. PICK q \in Views :
          /\ stream' = [stream EXCEPT ![q] = Append(@, <<w, published[w]>>)]
          /\ step[w].phase = "next"
          /\ step' = [step EXCEPT ![w] = [phase |-> "pushed", targets |-> step[w].targets \ {q}, target |-> q]]
          /\ published' = published
    BY <1>2 DEF Push, Goto, At, Steps, LineTypes
  <2>2. <<w, published[w]>> \in Events
    BY <2>1, AtEvent
  <2>3. stream[q] \in Seq(Events)
    BY DEF EventTypes
  <2>4. stream'[q] = Append(stream[q], <<w, published[w]>>) /\ \A v \in Views : v # q => stream'[v] = stream[v]
    BY <2>1 DEF LineTypes
  <2>5. Holds(stream'[q], <<w, published[w]>>) /\ \A d : Holds(stream[q], d) => Holds(stream'[q], d)
    <3>1. /\ Holds(Append(stream[q], <<w, published[w]>>), <<w, published[w]>>)
          /\ \A d : Holds(stream[q], d) => Holds(Append(stream[q], <<w, published[w]>>), d)
      BY <2>2, <2>3, HoldsAppend, Zenon
    <3> QED BY <2>4, <3>1, Zenon
  <2>6. \A v \in Views : \A e \in Pairs : Given(v, e) => Given(v, e)'
    <3>1. \A v \in Views : \A e \in Pairs : Holds(stream[v], e) => Holds(stream'[v], e)
      BY <2>4, <2>5, Zenon
    <3>2. \A v \in Views : \A e \in Pairs : Given(v, e)' <=>
            \/ Holds(seen[v], e) \/ Holds(stream'[v], e)
            \/ ui.phase = "consume" /\ ui.view = v /\ Holds(batch, e)
      BY <1>0 DEF Given, Holds
    <3> QED BY <3>1, <3>2 DEF Given
  <2>7. \A v \in Views : \A u \in Workers :
          v \in step[u].targets => v \in step'[u].targets \/ (v = q /\ u = w)
    BY <2>1 DEF LineTypes
  <2>8. Given(q, <<w, published[w]>>)'
    BY <2>1, <2>5 DEF Given, Holds
  <2>9. \A v \in Views : \A u \in Workers :
          hooked[v] /\ ~closed[v] /\ v \in step[u].targets /\ published[u] > 0 =>
            v \in step'[u].targets \/ Given(v, <<u, published[u]>>)'
    BY <2>7, <2>8, Zenon
  <2>10. \A v \in Views : hooked'[v] /\ ~closed'[v] => hooked[v] /\ ~closed[v]
    BY <1>0
  <2>11. published' = published
    BY <2>1
  <2> QED BY <2>6, <2>9, <2>10, <2>11, NothingLostKept
<1>3. CASE PublishEnds(w) \/ Notify(w) \/ Dispatch(w)
  <2>1. UNCHANGED <<published, stream>>
    BY <1>3 DEF PublishEnds, Notify, Dispatch
  <2>2. \A u \in Workers : step'[u].targets = step[u].targets
    <3>1. CASE PublishEnds(w)
      BY <3>1 DEF PublishEnds, Idle, LineTypes
    <3>2. CASE Notify(w)
      <4>1. \E p \in {"next", "dispatch"}, t \in Views \cup {NoView} :
              step' = [step EXCEPT ![w] = [phase |-> p, targets |-> step[w].targets, target |-> t]]
        BY <3>2 DEF Notify, Goto, LineTypes, Steps
      <4> QED BY <4>1 DEF LineTypes
    <3>3. CASE Dispatch(w)
      BY <3>3 DEF Dispatch, Goto, LineTypes
    <3> QED BY <1>3, <3>1, <3>2, <3>3
  <2>3. \A v \in Views : \A e \in Pairs : Given(v, e) => Given(v, e)'
    BY <1>0, <2>1 DEF Given, Holds
  <2> QED BY <1>0, <2>1, <2>2, <2>3, NothingLostKept
<1> QED BY <1>1, <1>2, <1>3 DEF Work

LEMMA NothingLostStep ==
  ASSUME EarlyHook, LineTypes, EventTypes, BoundInTime, NothingLost, [Next]_vars
  PROVE  NothingLost'
<1>1. ASSUME UNCHANGED <<published, step>>,
             \A v \in Views : hooked'[v] /\ ~closed'[v] => hooked[v] /\ ~closed[v],
             \A v \in Views : \A e \in Pairs : Given(v, e) => Given(v, e)'
      PROVE  NothingLost'
  BY <1>1, NothingLostKept
<1>2. ASSUME NEW v \in Views, Subscribe(v) \/ Close(v) PROVE NothingLost'
  <2>1. UNCHANGED <<published, step, stream, seen, batch, hooked>> /\ ui.phase = "idle"
    BY <1>2 DEF Subscribe, Close, UiAt, worker, binding
  <2>2. \A q \in Views : ~closed'[q] => ~closed[q]
    BY <1>2 DEF Subscribe, Close, relay, EventTypes
  <2>3. \A q \in Views : \A e \in Pairs : Given(q, e) => Given(q, e)'
    BY <2>1 DEF Given, Holds
  <2> QED BY <1>1, <2>1, <2>2, <2>3
<1>3. CASE Serve
  <2>1. UNCHANGED <<published, step, closed>>
    BY <1>3 DEF Serve, SetOnPush, TakeFlush, Drain, Consume, FlushAgain, FlushTop, Unsubscribe, worker, relay
  <2>2. CASE SetOnPush
    <3>1. /\ ui.phase = "binding" /\ ui.view \in Views /\ hooked' = [hooked EXCEPT ![ui.view] = TRUE]
          /\ UNCHANGED <<stream, seen>>
      BY <2>2 DEF SetOnPush, UiAt, LineTypes
    <3>2. \A q \in Views : \A e \in Pairs : Given(q, e) => Given(q, e)'
      BY <3>1 DEF Given, Holds
    <3>3. SUFFICES ASSUME NEW q \in Views, hooked'[q], ~closed[q], NEW w \in Workers, NEW n \in 1..published[w]
                   PROVE  Given(q, <<w, n>>)' \/ (n = published[w] /\ q \in step[w].targets)
      BY <2>1 DEF NothingLost
    <3>4. published[w] # 0
      BY <3>3 DEF LineTypes
    <3>5. hooked[q]
      BY <3>4 DEF BoundInTime
    <3>6. <<w, n>> \in Pairs
      BY <3>3 DEF Pairs, LineTypes
    <3> QED BY <3>2, <3>3, <3>5, <3>6 DEF NothingLost
  <2>3. CASE TakeFlush \/ FlushAgain \/ FlushTop \/ Unsubscribe
    <3>1. UNCHANGED <<hooked, stream, seen, batch>> /\ ui.phase # "consume"
      BY <2>3 DEF TakeFlush, FlushAgain, FlushTop, Unsubscribe, UiAt, binding
    <3>2. \A q \in Views : \A e \in Pairs : Given(q, e) => Given(q, e)'
      BY <3>1 DEF Given, Holds
    <3> QED BY <1>1, <2>1, <3>1, <3>2
  <2>4. CASE Drain
    <3>1. /\ ui.view \in Views /\ ui.phase = "drain" /\ batch' = stream[ui.view]
          /\ ui' = [phase |-> "consume", view |-> ui.view]
          /\ stream' = [stream EXCEPT ![ui.view] = <<>>]
          /\ UNCHANGED <<seen, hooked>>
      BY <2>4 DEF Drain, UiAt, UiGoto, binding, LineTypes
    <3>2. \A q \in Views : q # ui.view => stream'[q] = stream[q]
      BY <3>1 DEF LineTypes
    <3>3. \A q \in Views : \A e \in Pairs : Given(q, e) => Given(q, e)'
      BY <3>1, <3>2 DEF Given, Holds
    <3> QED BY <1>1, <2>1, <3>1, <3>3
  <2>5. CASE Consume
    <3>1. /\ ui.view \in Views /\ seen' = [seen EXCEPT ![ui.view] = @ \o batch]
          /\ UNCHANGED <<stream, hooked>>
      BY <2>5 DEF Consume, UiAt, binding, LineTypes
    <3>2. /\ seen'[ui.view] = seen[ui.view] \o batch
          /\ \A q \in Views : q # ui.view => seen'[q] = seen[q]
      BY <3>1 DEF LineTypes
    <3>3. seen[ui.view] \in Seq(Events) /\ batch \in Seq(Events)
      BY <3>1 DEF EventTypes
    <3>4. \A d : Holds(seen[ui.view], d) \/ Holds(batch, d) => Holds(seen'[ui.view], d)
      BY <3>2, <3>3, HoldsConcat
    <3>5. \A q \in Views : \A e \in Pairs : Given(q, e) => Given(q, e)'
      <4> SUFFICES ASSUME NEW q \in Views, NEW e \in Pairs, Given(q, e)
                   PROVE  Holds(seen'[q], e) \/ Holds(stream'[q], e)
        BY DEF Given, Holds
      <4>1. CASE Holds(stream[q], e)
        BY <3>1, <4>1
      <4>2. CASE q = ui.view
        BY <3>4, <4>1, <4>2 DEF Given
      <4>3. CASE q # ui.view
        BY <3>2, <4>1, <4>3 DEF Given
      <4> QED BY <4>2, <4>3
    <3> QED BY <1>1, <2>1, <3>1, <3>5
  <2> QED BY <1>3, <2>2, <2>3, <2>4, <2>5 DEF Serve
<1>4. CASE UNCHANGED vars
  <2>1. UNCHANGED <<published, step, hooked, closed, stream, seen, batch, ui>>
    BY <1>4 DEF vars
  <2>2. \A q \in Views : \A e \in Pairs : Given(q, e) => Given(q, e)'
    BY <2>1 DEF Given, Holds
  <2> QED BY <1>1, <2>1, <2>2
<1> QED BY <1>2, <1>3, <1>4, NothingLostWork DEF Next

\* If every window is bound before the first publication, none misses an event:
\* whatever was published while a window is open has been given to it, is being
\* given, waits in its stream, or is about to be pushed by its worker.
THEOREM NoEventIsLost ==
  ASSUME EarlyHook
  PROVE  Spec => []NothingLost
<1>1. LineInv => LineTypes
  BY DEF LineInv
<1>2. Init => BoundInTime
  BY DEF Init, BoundInTime, Idle, UiIdle
<1>3. Init => NothingLost
  BY DEF Init, NothingLost
<1> QED BY <1>1, <1>2, <1>3, LineInvInit, LineInvStep, EventTypesInit, EventTypesStep, BoundInTimeStep,
           NothingLostStep, PTL DEF Spec

------------------------------------------------------------------------------
(* The catalog a store window shows                                         *)

Addresses == Repos \cup {Nothing}
FetchStages == {"none", "configure", "assign", "create", "keep", "service", "cache", "remote",
                "truncate", "dump", "posted"}
SessionRecord == [repo : Addresses, service : Addresses, items : Addresses]
FetchRecord == [stage : FetchStages, refresh : BOOLEAN, url : Addresses,
                got : Addresses \cup {Error}, alone : BOOLEAN, mixed : BOOLEAN]

FetchTyped ==
  /\ setting \in Repos \cup {Unset, BlankRepo}
  /\ cache \in Repos \cup {Nothing, Torn}
  /\ window \in [Windows -> {"unopened", "open", "closed"}]
  /\ session \in [Windows -> SessionRecord]
  /\ fetch \in [Windows -> FetchRecord]
  /\ shown \in [Windows -> Addresses]
  /\ unsettled \in BOOLEAN

\* What a window that is not opened yet has.
UntilOpened ==
  \A w \in Windows : window[w] = "unopened" =>
    session[w] = NewSession /\ fetch[w] = NoFetch /\ shown[w] = Nothing

\* A window keeps items only once it has a store service, and what its fetch has posted
\* is what it keeps.
ItemsKept ==
  \A w \in Windows :
    /\ fetch[w].stage \in {"configure", "assign", "create", "keep"} => session[w].items = Nothing
    /\ session[w].service = Nothing => session[w].items = Nothing
    /\ fetch[w].stage \in {"cache", "remote", "truncate", "dump"} => session[w].service # Nothing
    /\ fetch[w].stage = "posted" =>
         session[w].items = IF fetch[w].got = Error THEN Nothing ELSE fetch[w].got

ItemsInv == FetchTyped /\ UntilOpened /\ ItemsKept /\ ItemsAreShown

OneOpen == \A v, w \in Windows : window[v] = "open" /\ window[w] = "open" => v = w

\* The fetch that the last change of the repository started, and nobody disturbs, is of
\* that repository, and leaves its catalog in the cache.
AloneWindow(w) ==
  window[w] = "open" /\ fetch[w].alone =>
    /\ setting \in Repos
    /\ session[w].repo = setting
    /\ session[w].service = setting
    /\ Busy \subseteq {w}
    /\ fetch[w].refresh
    /\ ~ fetch[w].mixed
    /\ fetch[w].stage \in {"service", "remote", "truncate", "dump", "posted"}
    /\ fetch[w].stage \in {"remote", "truncate", "dump"} => fetch[w].url = setting
    /\ fetch[w].stage = "posted" /\ fetch[w].got # Error =>
         fetch[w].got = CatalogOf(setting) /\ cache = CatalogOf(setting)

\* While no change is unsettled, whatever a window has or its fetch is about to have is
\* of the configured repository.
SettledFetch(w) ==
  /\ session[w].repo \in {Nothing, setting}
  /\ session[w].service \in {Nothing, setting}
  /\ session[w].service # Nothing => session[w].repo = setting
  /\ fetch[w].stage \in {"assign", "keep", "cache", "remote", "truncate", "dump"} =>
       fetch[w].url = setting
  /\ fetch[w].stage \in {"create", "keep", "cache", "remote", "truncate", "dump"} =>
       session[w].repo = setting

SettledWindow(w) ==
  /\ fetch[w].stage = "posted" /\ fetch[w].got # Error =>
       fetch[w].got = CatalogOf(setting) /\ session[w].repo = setting
  /\ shown[w] \in {Nothing, CatalogOf(setting)}
  /\ shown[w] # Nothing => session[w].repo = setting

SettledInv ==
  ~ unsettled =>
    /\ setting \in Repos
    /\ cache \in {Torn, CatalogOf(setting)}
    /\ \A w \in Windows :
         /\ window[w] = "open" \/ w \in Busy => SettledFetch(w)
         /\ window[w] = "open" => SettledWindow(w)

CatalogInv ==
  /\ FetchTyped
  /\ UntilOpened
  /\ OneOpen
  /\ \A w \in Windows : AloneWindow(w)
  /\ SettledInv

------------------------------------------------------------------------------
(* What a step does to the window it is of                                  *)

\* Of the other windows' fetches, at most one that is writing is told of another writer.
OthersStay(w) ==
  \A v \in Windows : v # w =>
    /\ fetch[v].stage # "dump" => fetch'[v] = fetch[v]
    /\ fetch'[v].stage = fetch[v].stage /\ fetch'[v].url = fetch[v].url
    /\ fetch'[v].got = fetch[v].got /\ fetch'[v].refresh = fetch[v].refresh
    /\ fetch'[v].alone = fetch[v].alone

\* The fetch of w goes on to a stage, with an address and a result.
Moves(w, stage, url, got) ==
  /\ fetch' \in [Windows -> FetchRecord]
  /\ fetch'[w].stage = stage /\ fetch'[w].url = url /\ fetch'[w].got = got
  /\ fetch'[w].refresh = fetch[w].refresh
  /\ fetch'[w].alone = fetch[w].alone
  /\ fetch'[w].mixed = fetch[w].mixed
  /\ OthersStay(w)

\* The fetch of w begins anew.
Starts(w, stage, refresh, alone) ==
  /\ fetch' \in [Windows -> FetchRecord]
  /\ fetch'[w].stage = stage /\ fetch'[w].refresh = refresh /\ fetch'[w].alone = alone
  /\ fetch'[w].mixed = FALSE
  /\ \A v \in Windows : v # w => fetch'[v] = fetch[v]

\* The fetch of w is given up or is no longer that of the last change.
Outdates(w) ==
  /\ fetch' \in [Windows -> FetchRecord]
  /\ fetch'[w].alone = FALSE
  /\ fetch'[w].stage = fetch[w].stage /\ fetch'[w].url = fetch[w].url /\ fetch'[w].got = fetch[w].got
  /\ \A v \in Windows : v # w => fetch'[v] = fetch[v]

\* The session of w has an address, a service and items; no other changes.
Keeps(w, repo, service, items) ==
  /\ session' \in [Windows -> SessionRecord]
  /\ session'[w].repo = repo /\ session'[w].service = service /\ session'[w].items = items
  /\ \A v \in Windows : v # w => session'[v] = session[v]

LEMMA StageMoves ==
  ASSUME FetchTyped, NEW w \in Windows, NEW stage \in FetchStages,
         fetch' = [fetch EXCEPT ![w].stage = stage]
  PROVE  Moves(w, stage, fetch[w].url, fetch[w].got)
<1> DEFINE r == [fetch[w] EXCEPT !.stage = stage]
<1>1. fetch[w] \in FetchRecord
  BY DEF FetchTyped
<1>2. r \in FetchRecord
  BY <1>1 DEF FetchRecord
<1>3. fetch' = [fetch EXCEPT ![w] = r]
  BY DEF FetchTyped
<1>4. /\ r.stage = stage /\ r.url = fetch[w].url /\ r.got = fetch[w].got
      /\ r.refresh = fetch[w].refresh /\ r.alone = fetch[w].alone /\ r.mixed = fetch[w].mixed
  BY <1>1 DEF FetchRecord
<1> HIDE DEF r
<1> QED
  BY <1>2, <1>3, <1>4 DEF FetchTyped, Moves, OthersStay

LEMMA UrlMoves ==
  ASSUME FetchTyped, NEW w \in Windows, NEW stage \in FetchStages, NEW url \in Addresses,
         fetch' = [fetch EXCEPT ![w].stage = stage, ![w].url = url]
  PROVE  Moves(w, stage, url, fetch[w].got)
<1> DEFINE r == [fetch[w] EXCEPT !.stage = stage, !.url = url]
<1>1. fetch[w] \in FetchRecord
  BY DEF FetchTyped
<1>2. r \in FetchRecord
  BY <1>1 DEF FetchRecord
<1>3. fetch' = [fetch EXCEPT ![w] = r]
  BY DEF FetchTyped
<1>4. /\ r.stage = stage /\ r.url = url /\ r.got = fetch[w].got
      /\ r.refresh = fetch[w].refresh /\ r.alone = fetch[w].alone /\ r.mixed = fetch[w].mixed
  BY <1>1 DEF FetchRecord
<1> HIDE DEF r
<1> QED
  BY <1>2, <1>3, <1>4, ZenonT(60) DEF FetchTyped, Moves, OthersStay

LEMMA PostMoves ==
  ASSUME FetchTyped, NEW w \in Windows, NEW got \in Addresses \cup {Error}, Post(w, got)
  PROVE  Moves(w, "posted", fetch[w].url, got)
<1> DEFINE r == [fetch[w] EXCEPT !.stage = "posted", !.got = got]
<1>1. fetch[w] \in FetchRecord
  BY DEF FetchTyped
<1>2. r \in FetchRecord
  BY <1>1 DEF FetchRecord, FetchStages
<1>3. fetch' = [fetch EXCEPT ![w] = r]
  BY DEF FetchTyped, Post
<1>4. /\ r.stage = "posted" /\ r.url = fetch[w].url /\ r.got = got
      /\ r.refresh = fetch[w].refresh /\ r.alone = fetch[w].alone /\ r.mixed = fetch[w].mixed
  BY <1>1 DEF FetchRecord
<1> HIDE DEF r
<1> QED
  BY <1>2, <1>3, <1>4 DEF FetchTyped, Moves, OthersStay

LEMMA StartStarts ==
  ASSUME FetchTyped, NEW w \in Windows, NEW stage \in FetchStages, NEW refresh \in BOOLEAN,
         NEW alone \in BOOLEAN, Start(w, stage, refresh, alone)
  PROVE  Starts(w, stage, refresh, alone)
<1> DEFINE r == [NoFetch EXCEPT !.stage = stage, !.refresh = refresh, !.alone = alone]
<1>2. r \in FetchRecord
  BY DEF FetchRecord, NoFetch, Addresses
<1>3. fetch' = [fetch EXCEPT ![w] = r]
  BY DEF Start
<1>4. r.stage = stage /\ r.refresh = refresh /\ r.alone = alone /\ r.mixed = FALSE
  BY DEF NoFetch
<1> HIDE DEF r
<1> QED
  BY <1>2, <1>3, <1>4 DEF FetchTyped, Starts

LEMMA OutdatedOutdates ==
  ASSUME FetchTyped, NEW w \in Windows, Outdated(w)
  PROVE  Outdates(w)
<1> DEFINE r == [fetch[w] EXCEPT !.alone = FALSE]
<1>1. fetch[w] \in FetchRecord
  BY DEF FetchTyped
<1>2. r \in FetchRecord
  BY <1>1 DEF FetchRecord
<1>3. fetch' = [fetch EXCEPT ![w] = r]
  BY DEF FetchTyped, Outdated
<1>4. r.alone = FALSE /\ r.stage = fetch[w].stage /\ r.url = fetch[w].url /\ r.got = fetch[w].got
  BY <1>1 DEF FetchRecord
<1> HIDE DEF r
<1> QED
  BY <1>2, <1>3, <1>4 DEF FetchTyped, Outdates

\* Each of the writes of a session leaves the other windows' as they are.
LEMMA SessionKeeps ==
  ASSUME FetchTyped, NEW w \in Windows, NEW a \in Addresses
  PROVE  /\ session' = [session EXCEPT ![w].repo = a]
              => Keeps(w, a, session[w].service, session[w].items)
         /\ session' = [session EXCEPT ![w].service = a]
              => Keeps(w, session[w].repo, a, session[w].items)
         /\ session' = [session EXCEPT ![w].items = a]
              => Keeps(w, session[w].repo, session[w].service, a)
         /\ session' = [session EXCEPT ![w].repo = a, ![w].service = a]
              => Keeps(w, a, a, session[w].items)
<1>1. session[w] \in SessionRecord
  BY DEF FetchTyped
<1>2. ASSUME NEW r \in SessionRecord, session' = [session EXCEPT ![w] = r]
      PROVE  Keeps(w, r.repo, r.service, r.items)
  BY <1>2 DEF FetchTyped, Keeps
<1>3. [session[w] EXCEPT !.repo = a] \in SessionRecord
  BY <1>1 DEF SessionRecord
<1>4. [session[w] EXCEPT !.service = a] \in SessionRecord
  BY <1>1 DEF SessionRecord
<1>5. [session[w] EXCEPT !.items = a] \in SessionRecord
  BY <1>1 DEF SessionRecord
<1>6. [session[w] EXCEPT !.repo = a, !.service = a] \in SessionRecord
  BY <1>1 DEF SessionRecord
<1>7. /\ [session EXCEPT ![w].repo = a] = [session EXCEPT ![w] = [session[w] EXCEPT !.repo = a]]
      /\ [session EXCEPT ![w].service = a] = [session EXCEPT ![w] = [session[w] EXCEPT !.service = a]]
      /\ [session EXCEPT ![w].items = a] = [session EXCEPT ![w] = [session[w] EXCEPT !.items = a]]
      /\ [session EXCEPT ![w].repo = a, ![w].service = a]
           = [session EXCEPT ![w] = [session[w] EXCEPT !.repo = a, !.service = a]]
  BY DEF FetchTyped
<1>8. /\ [session[w] EXCEPT !.repo = a].repo = a
      /\ [session[w] EXCEPT !.repo = a].service = session[w].service
      /\ [session[w] EXCEPT !.repo = a].items = session[w].items
      /\ [session[w] EXCEPT !.service = a].repo = session[w].repo
      /\ [session[w] EXCEPT !.service = a].service = a
      /\ [session[w] EXCEPT !.service = a].items = session[w].items
      /\ [session[w] EXCEPT !.items = a].repo = session[w].repo
      /\ [session[w] EXCEPT !.items = a].service = session[w].service
      /\ [session[w] EXCEPT !.items = a].items = a
      /\ [session[w] EXCEPT !.repo = a, !.service = a].repo = a
      /\ [session[w] EXCEPT !.repo = a, !.service = a].service = a
      /\ [session[w] EXCEPT !.repo = a, !.service = a].items = session[w].items
  BY <1>1 DEF SessionRecord
<1>9. session' = [session EXCEPT ![w].repo = a]
        => Keeps(w, a, session[w].service, session[w].items)
  BY <1>2, <1>3, <1>7, <1>8
<1>10. session' = [session EXCEPT ![w].service = a]
        => Keeps(w, session[w].repo, a, session[w].items)
  BY <1>2, <1>4, <1>7, <1>8
<1>11. session' = [session EXCEPT ![w].items = a]
        => Keeps(w, session[w].repo, session[w].service, a)
  BY <1>2, <1>5, <1>7, <1>8
<1>12. session' = [session EXCEPT ![w].repo = a, ![w].service = a]
        => Keeps(w, a, a, session[w].items)
  BY <1>2, <1>6, <1>7, <1>8
<1> QED
  BY <1>9, <1>10, <1>11, <1>12

LEMMA ConfigureMoves ==
  ASSUME FetchTyped, NEW w \in Windows, Configure(w)
  PROVE  /\ fetch[w].stage = "configure"
         /\ \/ Moves(w, "posted", fetch[w].url, Error)
            \/ /\ Configured \in Repos
               /\ Moves(w, "assign", Configured, fetch[w].got)
<1>1. CASE Configured = Nothing
  <2>1. Post(w, Error)
    BY <1>1 DEF Configure
  <2> QED
    BY <2>1, PostMoves DEF Configure, FetchAt
<1>2. CASE Configured # Nothing
  <2>1. Configured \in Repos
    BY <1>2, FetchAssumption DEF Configured, FetchTyped
  <2>2. fetch' = [fetch EXCEPT ![w].stage = "assign", ![w].url = Configured]
    BY <1>2 DEF Configure
  <2>3. "assign" \in FetchStages /\ Configured \in Addresses
    BY <2>1 DEF FetchStages, Addresses
  <2> QED
    BY <2>1, <2>2, <2>3, UrlMoves DEF Configure, FetchAt
<1> QED
  BY <1>1, <1>2

LEMMA AssignMoves ==
  ASSUME FetchTyped, NEW w \in Windows, AssignRepo(w)
  PROVE  /\ fetch[w].stage = "assign"
         /\ Moves(w, "create", fetch[w].url, fetch[w].got)
         /\ Keeps(w, fetch[w].url, session[w].service, session[w].items)
<1>1. fetch[w].url \in Addresses
  BY DEF FetchTyped, FetchRecord
<1>2. "create" \in FetchStages
  BY DEF FetchStages
<1> QED
  BY <1>1, <1>2, StageMoves, SessionKeeps DEF AssignRepo, FetchAt, FetchGoto

LEMMA CreateMoves ==
  ASSUME FetchTyped, NEW w \in Windows, CreateService(w)
  PROVE  /\ fetch[w].stage = "create"
         /\ \/ Moves(w, "posted", fetch[w].url, Error)
            \/ Moves(w, "keep", session[w].repo, fetch[w].got)
<1>1. session[w].repo \in Addresses
  BY DEF FetchTyped, SessionRecord
<1>2. "keep" \in FetchStages
  BY DEF FetchStages
<1>3. CASE Post(w, Error)
  BY <1>3, PostMoves DEF CreateService, FetchAt
<1>4. CASE fetch' = [fetch EXCEPT ![w].stage = "keep", ![w].url = session[w].repo]
  BY <1>1, <1>2, <1>4, UrlMoves DEF CreateService, FetchAt
<1> QED
  BY <1>3, <1>4 DEF CreateService

LEMMA KeepMoves ==
  ASSUME FetchTyped, NEW w \in Windows, KeepService(w)
  PROVE  /\ fetch[w].stage = "keep"
         /\ Moves(w, "service", fetch[w].url, fetch[w].got)
         /\ Keeps(w, session[w].repo, fetch[w].url, session[w].items)
<1>1. fetch[w].url \in Addresses
  BY DEF FetchTyped, FetchRecord
<1>2. "service" \in FetchStages
  BY DEF FetchStages
<1> QED
  BY <1>1, <1>2, StageMoves, SessionKeeps DEF KeepService, FetchAt, FetchGoto

LEMMA TakeMoves ==
  ASSUME FetchTyped, NEW w \in Windows, TakeService(w)
  PROVE  /\ fetch[w].stage = "service"
         /\ \/ /\ session[w].service = Nothing
               /\ Moves(w, "posted", fetch[w].url, Error)
            \/ /\ session[w].service # Nothing
               /\ Moves(w, IF fetch[w].refresh THEN "remote" ELSE "cache", session[w].service,
                        fetch[w].got)
<1>1. session[w].service \in Addresses
  BY DEF FetchTyped, SessionRecord
<1>2. (IF fetch[w].refresh THEN "remote" ELSE "cache") \in FetchStages
  BY DEF FetchStages
<1>3. CASE session[w].service = Nothing
  <2>1. Post(w, Error)
    BY <1>3 DEF TakeService
  <2> QED
    BY <1>3, <2>1, PostMoves DEF TakeService, FetchAt
<1>4. CASE session[w].service # Nothing
  <2>1. fetch' = [fetch EXCEPT ![w].stage = IF fetch[w].refresh THEN "remote" ELSE "cache",
                              ![w].url = session[w].service]
    BY <1>4 DEF TakeService
  <2>2. Moves(w, IF fetch[w].refresh THEN "remote" ELSE "cache", session[w].service, fetch[w].got)
    BY <1>1, <1>2, <2>1, UrlMoves
  <2> QED
    BY <1>4, <2>2 DEF TakeService, FetchAt
<1> QED
  BY <1>3, <1>4

LEMMA ReturnMoves ==
  ASSUME FetchTyped, NEW w \in Windows, NEW got \in Addresses \cup {Error}, ReturnItems(w, got)
  PROVE  /\ Moves(w, "posted", fetch[w].url, got)
         /\ Keeps(w, session[w].repo, session[w].service, IF got = Error THEN Nothing ELSE got)
<1>1. (IF got = Error THEN Nothing ELSE got) \in Addresses
  BY DEF Addresses
<1>2. session' = [session EXCEPT ![w].items = IF got = Error THEN Nothing ELSE got]
  BY DEF ReturnItems
<1> QED
  BY <1>1, <1>2, PostMoves, SessionKeeps DEF ReturnItems

LEMMA ReadMoves ==
  ASSUME FetchTyped, NEW w \in Windows, ReadCache(w)
  PROVE  /\ fetch[w].stage = "cache"
         /\ \/ /\ Moves(w, "remote", fetch[w].url, fetch[w].got)
               /\ UNCHANGED session
            \/ /\ Moves(w, "posted", fetch[w].url, Error)
               /\ Keeps(w, session[w].repo, session[w].service, Nothing)
            \/ /\ cache \in Repos
               /\ Moves(w, "posted", fetch[w].url, cache)
               /\ Keeps(w, session[w].repo, session[w].service, cache)
<1>1. fetch[w].stage = "cache"
  BY DEF ReadCache, FetchAt
<1>2. CASE FetchGoto(w, "remote") /\ UNCHANGED session
  <2>1. "remote" \in FetchStages
    BY DEF FetchStages
  <2> QED
    BY <1>1, <1>2, <2>1, StageMoves DEF FetchGoto
<1>3. CASE ReturnItems(w, Error)
  BY <1>1, <1>3, ReturnMoves
<1>4. CASE cache \in Repos /\ ReturnItems(w, cache)
  <2>1. cache \in Addresses /\ cache # Error
    BY <1>4, FetchAssumption DEF Addresses
  <2> QED
    BY <1>1, <1>4, <2>1, ReturnMoves
<1> QED
  BY <1>2, <1>3, <1>4 DEF ReadCache

LEMMA RemoteMoves ==
  ASSUME FetchTyped, NEW w \in Windows, FetchRemote(w)
  PROVE  /\ fetch[w].stage = "remote"
         /\ \/ /\ Moves(w, "truncate", fetch[w].url, fetch[w].got)
               /\ UNCHANGED session
            \/ /\ Moves(w, "posted", fetch[w].url, Error)
               /\ Keeps(w, session[w].repo, session[w].service, Nothing)
<1>1. fetch[w].stage = "remote"
  BY DEF FetchRemote, FetchAt
<1>2. CASE FetchGoto(w, "truncate") /\ UNCHANGED session
  <2>1. "truncate" \in FetchStages
    BY DEF FetchStages
  <2> QED
    BY <1>1, <1>2, <2>1, StageMoves DEF FetchGoto
<1>3. CASE ReturnItems(w, Error)
  BY <1>1, <1>3, ReturnMoves
<1> QED
  BY <1>2, <1>3 DEF FetchRemote

LEMMA MixingStays ==
  ASSUME FetchTyped, NEW w \in Windows
  PROVE  /\ Mixing(w) \in [Windows -> FetchRecord]
         /\ Mixing(w)[w] = fetch[w]
         /\ \A v \in Windows :
              /\ fetch[v].stage # "dump" => Mixing(w)[v] = fetch[v]
              /\ Mixing(w)[v].stage = fetch[v].stage /\ Mixing(w)[v].url = fetch[v].url
              /\ Mixing(w)[v].got = fetch[v].got /\ Mixing(w)[v].refresh = fetch[v].refresh
              /\ Mixing(w)[v].alone = fetch[v].alone
<1>1. ASSUME NEW v \in Windows
      PROVE  /\ [fetch[v] EXCEPT !.mixed = TRUE] \in FetchRecord
             /\ [fetch[v] EXCEPT !.mixed = TRUE].stage = fetch[v].stage
             /\ [fetch[v] EXCEPT !.mixed = TRUE].url = fetch[v].url
             /\ [fetch[v] EXCEPT !.mixed = TRUE].got = fetch[v].got
             /\ [fetch[v] EXCEPT !.mixed = TRUE].refresh = fetch[v].refresh
             /\ [fetch[v] EXCEPT !.mixed = TRUE].alone = fetch[v].alone
  <2>1. fetch[v] \in FetchRecord
    BY DEF FetchTyped
  <2> QED
    BY <2>1 DEF FetchRecord
<1>2. \A v \in Windows : fetch[v] \in FetchRecord
  BY DEF FetchTyped
<1> QED
  BY <1>1, <1>2 DEF Mixing, FetchAt

LEMMA TruncateMoves ==
  ASSUME FetchTyped, NEW w \in Windows, Truncate(w)
  PROVE  /\ fetch[w].stage = "truncate"
         /\ Moves(w, "dump", fetch[w].url, fetch[w].got)
<1> DEFINE r == [fetch[w] EXCEPT !.stage = "dump"]
           m == Mixing(w)
<1>1. fetch[w] \in FetchRecord
  BY DEF FetchTyped
<1>2. r \in FetchRecord
  BY <1>1 DEF FetchRecord, FetchStages
<1>3. fetch' = [m EXCEPT ![w] = r]
  BY MixingStays DEF Truncate
<1>4. /\ r.stage = "dump" /\ r.url = fetch[w].url /\ r.got = fetch[w].got
      /\ r.refresh = fetch[w].refresh /\ r.alone = fetch[w].alone /\ r.mixed = fetch[w].mixed
  BY <1>1 DEF FetchRecord
<1>5. /\ m \in [Windows -> FetchRecord]
      /\ \A v \in Windows :
           /\ fetch[v].stage # "dump" => m[v] = fetch[v]
           /\ m[v].stage = fetch[v].stage /\ m[v].url = fetch[v].url
           /\ m[v].got = fetch[v].got /\ m[v].refresh = fetch[v].refresh
           /\ m[v].alone = fetch[v].alone
  BY MixingStays
<1>6. fetch[w].stage = "truncate"
  BY DEF Truncate, FetchAt
<1> HIDE DEF r, m
<1> QED
  BY <1>2, <1>3, <1>4, <1>5, <1>6 DEF Moves, OthersStay

LEMMA DumpMoves ==
  ASSUME FetchTyped, NEW w \in Windows, Dump(w)
  PROVE  /\ fetch[w].stage = "dump"
         /\ CatalogOf(fetch[w].url) \in Addresses
         /\ Moves(w, "posted", fetch[w].url, CatalogOf(fetch[w].url))
         /\ Keeps(w, session[w].repo, session[w].service, CatalogOf(fetch[w].url))
<1> DEFINE c == CatalogOf(fetch[w].url)
           r == [fetch[w] EXCEPT !.stage = "posted", !.got = c]
           m == Mixing(w)
<1>1. fetch[w] \in FetchRecord
  BY DEF FetchTyped
<1>0. c \in Addresses
  BY <1>1 DEF FetchRecord, CatalogOf, Addresses
<1>7. Keeps(w, session[w].repo, session[w].service, c)
  BY <1>0, SessionKeeps DEF Dump
<1>6. fetch[w].stage = "dump"
  BY DEF Dump, FetchAt
<1>3. fetch' = [m EXCEPT ![w] = r]
  BY MixingStays DEF Dump
<1> HIDE DEF c
<1>2. r \in FetchRecord
  BY <1>0, <1>1 DEF FetchRecord, FetchStages
<1>4. /\ r.stage = "posted" /\ r.url = fetch[w].url /\ r.got = c
      /\ r.refresh = fetch[w].refresh /\ r.alone = fetch[w].alone /\ r.mixed = fetch[w].mixed
  BY <1>1 DEF FetchRecord
<1>5. /\ m \in [Windows -> FetchRecord]
      /\ \A v \in Windows :
           /\ fetch[v].stage # "dump" => m[v] = fetch[v]
           /\ m[v].stage = fetch[v].stage /\ m[v].url = fetch[v].url
           /\ m[v].got = fetch[v].got /\ m[v].refresh = fetch[v].refresh
           /\ m[v].alone = fetch[v].alone
  BY MixingStays
<1> HIDE DEF r, m
<1>8. Moves(w, "posted", fetch[w].url, c)
  BY <1>2, <1>3, <1>4, <1>5, <1>6 DEF Moves, OthersStay
<1> QED
  BY <1>0, <1>6, <1>7, <1>8 DEF c

LEMMA ChangeMoves ==
  ASSUME FetchTyped, NEW w \in Windows, NEW value \in Repos \cup {Unset, BlankRepo}, Change(w, value)
  PROVE  /\ window[w] = "open" /\ setting' = value /\ unsettled' = TRUE
         /\ UNCHANGED <<cache, window, shown>>
         /\ \/ /\ Outdates(w)
               /\ UNCHANGED session
            \/ /\ Outdates(w)
               /\ value \in Repos
               /\ \/ Keeps(w, value, session[w].service, session[w].items)
                  \/ Keeps(w, value, value, session[w].items)
            \/ /\ value \in Repos
               /\ ~ FetchInFlight(w)
               /\ Starts(w, "service", TRUE, Busy \subseteq {w})
               /\ Keeps(w, value, value, session[w].items)
<1>1. /\ window[w] = "open" /\ setting' = value /\ unsettled' = TRUE
      /\ UNCHANGED <<cache, window, shown>>
  BY DEF Change
<1>2. CASE UNCHANGED session /\ Outdated(w)
  BY <1>1, <1>2, OutdatedOutdates
<1>3. CASE /\ value \in Repos
           /\ session' = [session EXCEPT ![w].repo = value]
           /\ Outdated(w)
  <2>1. value \in Addresses
    BY <1>3 DEF Addresses
  <2> QED
    BY <1>1, <1>3, <2>1, OutdatedOutdates, SessionKeeps
<1>4. CASE /\ value \in Repos
           /\ session' = [session EXCEPT ![w].repo = value, ![w].service = value]
           /\ IF FetchInFlight(w) THEN Outdated(w) ELSE RefreshOfChange(w)
  <2>1. value \in Addresses
    BY <1>4 DEF Addresses
  <2>2. Keeps(w, value, value, session[w].items)
    BY <1>4, <2>1, SessionKeeps
  <2>3. CASE FetchInFlight(w)
    BY <1>1, <1>4, <2>2, <2>3, OutdatedOutdates
  <2>4. CASE ~ FetchInFlight(w)
    <3>1. "service" \in FetchStages /\ (Busy \subseteq {w}) \in BOOLEAN
      BY DEF FetchStages
    <3>2. Start(w, "service", TRUE, Busy \subseteq {w})
      BY <1>4, <2>4 DEF RefreshOfChange
    <3>3. Starts(w, "service", TRUE, Busy \subseteq {w})
      BY <3>1, <3>2, StartStarts
    <3> QED
      BY <1>1, <1>4, <2>2, <2>4, <3>3
  <2> QED
    BY <2>3, <2>4
<1> QED
  BY <1>2, <1>3, <1>4 DEF Change

\* What all steps of a worker have in common.
LEMMA WorkerMoves ==
  ASSUME FetchTyped, NEW w \in Windows, Worker(w)
  PROVE  /\ fetch[w].stage \notin {"none", "posted"}
         /\ fetch'[w].stage # "none"
         /\ fetch' \in [Windows -> FetchRecord] /\ session' \in [Windows -> SessionRecord]
         /\ OthersStay(w)
         /\ \A v \in Windows : v # w => session'[v] = session[v]
         /\ fetch'[w].alone = fetch[w].alone /\ fetch'[w].refresh = fetch[w].refresh
         /\ fetch'[w].mixed = fetch[w].mixed
         /\ UNCHANGED <<setting, window, shown, unsettled>>
         /\ cache' \in Repos \cup {Nothing, Torn}
         /\ fetch[w].stage \notin {"truncate", "dump"} => cache' = cache
<1> USE DEF Moves, Keeps
<1>0. cache \in Repos \cup {Nothing, Torn} /\ session \in [Windows -> SessionRecord]
  BY DEF FetchTyped
<1>1. CASE Configure(w)
  BY <1>0, <1>1, ConfigureMoves DEF Configure
<1>2. CASE AssignRepo(w)
  BY <1>0, <1>2, AssignMoves DEF AssignRepo
<1>3. CASE CreateService(w)
  BY <1>0, <1>3, CreateMoves DEF CreateService
<1>4. CASE KeepService(w)
  BY <1>0, <1>4, KeepMoves DEF KeepService
<1>5. CASE TakeService(w)
  BY <1>0, <1>5, TakeMoves DEF TakeService
<1>6. CASE ReadCache(w)
  BY <1>0, <1>6, ReadMoves DEF ReadCache
<1>7. CASE FetchRemote(w)
  BY <1>0, <1>7, RemoteMoves DEF FetchRemote
<1>8. CASE Truncate(w)
  BY <1>0, <1>8, TruncateMoves DEF Truncate
<1>9. CASE Dump(w)
  <2>1. cache' \in Repos \cup {Nothing, Torn}
    <3>1. cache' = CatalogOf(fetch[w].url) \/ cache' = Torn
      BY <1>9 DEF Dump
    <3> QED
      BY <1>9, <3>1, DumpMoves DEF Addresses
  <2> QED
    BY <1>0, <1>9, <2>1, DumpMoves DEF Dump
<1> QED
  BY <1>1, <1>2, <1>3, <1>4, <1>5, <1>6, <1>7, <1>8, <1>9 DEF Worker

\* A step is of a window that is open, or that a worker or a result is left of.
LEMMA TypedAndTouched ==
  ASSUME FetchTyped, UntilOpened, OneOpen, [FetchNext]_fetchVars
  PROVE  FetchTyped' /\ UntilOpened' /\ OneOpen'
<1>1. ASSUME NEW w \in Windows, Open(w)
      PROVE  FetchTyped' /\ UntilOpened' /\ OneOpen'
  <2>1. Starts(w, "configure", FALSE, FALSE)
    <3>1. "configure" \in FetchStages /\ FALSE \in BOOLEAN
      BY DEF FetchStages
    <3> QED
      BY <1>1, <3>1, StartStarts DEF Open
  <2> QED
    BY <1>1, <2>1 DEF Open, Starts, FetchTyped, UntilOpened, OneOpen
<1>2. ASSUME NEW w \in Windows, CloseStore(w)
      PROVE  FetchTyped' /\ UntilOpened' /\ OneOpen'
  BY <1>2 DEF CloseStore, FetchTyped, UntilOpened, OneOpen
<1>3. ASSUME NEW w \in Windows, Refresh(w)
      PROVE  FetchTyped' /\ UntilOpened' /\ OneOpen'
  <2>1. Starts(w, "service", FALSE, FALSE)
    <3>1. "service" \in FetchStages /\ FALSE \in BOOLEAN
      BY DEF FetchStages
    <3> QED
      BY <1>3, <3>1, StartStarts DEF Refresh
  <2> QED
    BY <1>3, <2>1 DEF Refresh, Starts, FetchTyped, UntilOpened, OneOpen
<1>4. ASSUME NEW w \in Windows, Apply(w)
      PROVE  FetchTyped' /\ UntilOpened' /\ OneOpen'
  <2>1. NoFetch \in FetchRecord
    BY DEF NoFetch, FetchRecord, FetchStages, Addresses
  <2>2. fetch' = [fetch EXCEPT ![w] = NoFetch] /\ fetch[w].stage = "posted"
    BY <1>4 DEF Apply, FetchAt
  <2>3. fetch' \in [Windows -> FetchRecord]
    BY <2>1, <2>2 DEF FetchTyped
  <2>4. shown' \in [Windows -> Addresses] /\ \A v \in Windows : v # w => shown'[v] = shown[v]
    <3>1. CASE window[w] = "open"
      <4>1. (IF fetch[w].got = Error THEN Nothing ELSE fetch[w].got) \in Addresses
        BY DEF FetchTyped, FetchRecord, Addresses
      <4> QED
        BY <1>4, <3>1, <4>1 DEF Apply, FetchTyped
    <3>2. CASE window[w] # "open"
      BY <1>4, <3>2 DEF Apply, FetchTyped
    <3> QED
      BY <3>1, <3>2
  <2>5. unsettled' \in BOOLEAN
    BY <1>4 DEF Apply, FetchTyped
  <2>6. UNCHANGED <<setting, cache, window, session>>
    BY <1>4 DEF Apply
  <2>7. FetchTyped'
    BY <2>3, <2>4, <2>5, <2>6 DEF FetchTyped
  <2>8. window[w] # "unopened"
    BY <2>2 DEF UntilOpened, NoFetch
  <2>9. UntilOpened'
    BY <2>2, <2>4, <2>6, <2>8 DEF UntilOpened, FetchTyped
  <2> QED
    BY <2>6, <2>7, <2>9 DEF OneOpen
<1>5. ASSUME NEW w \in Windows, Worker(w)
      PROVE  FetchTyped' /\ UntilOpened' /\ OneOpen'
  <2>1. FetchTyped'
    BY <1>5, WorkerMoves DEF FetchTyped
  <2>2. window[w] # "unopened"
    BY <1>5, WorkerMoves DEF UntilOpened, NoFetch
  <2>3. UntilOpened'
    <3>1. SUFFICES ASSUME NEW v \in Windows, window'[v] = "unopened"
                   PROVE  session'[v] = NewSession /\ fetch'[v] = NoFetch /\ shown'[v] = Nothing
      BY DEF UntilOpened
    <3>2. UNCHANGED <<window, shown>> /\ OthersStay(w)
          /\ \A u \in Windows : u # w => session'[u] = session[u]
      BY <1>5, WorkerMoves
    <3>3. v # w /\ session[v] = NewSession /\ fetch[v] = NoFetch /\ shown[v] = Nothing
      BY <2>2, <3>1, <3>2 DEF UntilOpened
    <3>4. fetch[v].stage # "dump"
      BY <3>3 DEF NoFetch
    <3> QED
      BY <3>2, <3>3, <3>4 DEF OthersStay
  <2>4. OneOpen'
    BY <1>5, WorkerMoves DEF OneOpen
  <2> QED
    BY <2>1, <2>3, <2>4
<1>6. ASSUME NEW w \in Windows, NEW value \in Repos \cup {Unset, BlankRepo}, Change(w, value)
      PROVE  FetchTyped' /\ UntilOpened' /\ OneOpen'
  <2> DEFINE Kept == /\ session' \in [Windows -> SessionRecord] /\ fetch' \in [Windows -> FetchRecord]
                     /\ \A v \in Windows :
                          v # w => session'[v] = session[v] /\ fetch'[v] = fetch[v]
  <2>1. Kept
    <3>1. CASE Outdates(w) /\ UNCHANGED session
      BY <3>1 DEF Outdates, FetchTyped
    <3>2. ASSUME NEW s, Keeps(w, value, s, session[w].items), Outdates(w)
          PROVE  Kept
      BY <3>2 DEF Outdates, Keeps
    <3>3. ASSUME NEW s, NEW a, Keeps(w, value, s, session[w].items), Starts(w, "service", TRUE, a)
          PROVE  Kept
      BY <3>3 DEF Starts, Keeps
    <3> QED
      BY <1>6, <3>1, <3>2, <3>3, ChangeMoves
  <2> QED
    BY <1>6, <2>1, ChangeMoves DEF FetchTyped, UntilOpened, OneOpen
<1>7. CASE Crash
  <2>1. NoFetch \in FetchRecord
    BY DEF NoFetch, FetchRecord, FetchStages, Addresses
  <2> QED
    BY <1>7, <2>1 DEF Crash, FetchTyped, UntilOpened, OneOpen
<1>8. CASE UNCHANGED fetchVars
  BY <1>8 DEF fetchVars, FetchTyped, UntilOpened, OneOpen
<1> QED
  BY <1>1, <1>2, <1>3, <1>4, <1>5, <1>6, <1>7, <1>8 DEF FetchNext

LEMMA FirstState ==
  ASSUME FetchInit
  PROVE  FetchTyped /\ UntilOpened /\ OneOpen
<1>1. NoFetch \in FetchRecord /\ NewSession \in SessionRecord
  BY DEF NoFetch, NewSession, FetchRecord, SessionRecord, FetchStages, Addresses
<1>2. cache \in Repos \cup {Nothing, Torn} /\ setting \in Repos
  BY FetchAssumption DEF FetchInit, CatalogOf
<1> QED
  BY <1>1, <1>2 DEF FetchInit, FetchTyped, UntilOpened, OneOpen, Addresses

\* What one window keeps and shows.
ItemsOf(w) ==
  /\ fetch[w].stage \in {"configure", "assign", "create", "keep"} => session[w].items = Nothing
  /\ session[w].service = Nothing => session[w].items = Nothing
  /\ fetch[w].stage \in {"cache", "remote", "truncate", "dump"} => session[w].service # Nothing
  /\ fetch[w].stage = "posted" =>
       session[w].items = IF fetch[w].got = Error THEN Nothing ELSE fetch[w].got
  /\ window[w] = "open" /\ fetch[w].stage = "none" => session[w].items = shown[w]

LEMMA ItemsOfAll == ItemsInv <=> FetchTyped /\ UntilOpened /\ \A w \in Windows : ItemsOf(w)
BY DEF ItemsInv, ItemsKept, ItemsAreShown, ItemsOf, FetchInFlight, FetchAt

\* A step of the worker keeps what its own window has, item by item.
LEMMA WorkerKeepsItems ==
  ASSUME FetchTyped, NEW w \in Windows, Worker(w), ItemsOf(w)
  PROVE  ItemsOf(w)'
<1> USE DEF Moves, Keeps, ItemsOf
<1>0. window'[w] = window[w] /\ shown'[w] = shown[w] /\ fetch'[w].stage # "none"
  BY WorkerMoves
<1>1. CASE Configure(w)
  BY <1>0, <1>1, ConfigureMoves DEF Configure
<1>2. CASE AssignRepo(w)
  BY <1>0, <1>2, AssignMoves
<1>3. CASE CreateService(w)
  BY <1>0, <1>3, CreateMoves DEF CreateService
<1>4. CASE KeepService(w)
  BY <1>0, <1>4, KeepMoves
<1>5. CASE TakeService(w)
  BY <1>0, <1>5, TakeMoves DEF TakeService
<1>6. CASE ReadCache(w)
  <2>1. cache \in Repos => cache # Error
    BY FetchAssumption
  <2> QED
    BY <1>0, <1>6, <2>1, ReadMoves
<1>7. CASE FetchRemote(w)
  BY <1>0, <1>7, RemoteMoves
<1>8. CASE Truncate(w)
  BY <1>0, <1>8, TruncateMoves DEF Truncate
<1>9. CASE Dump(w)
  <2>1. CatalogOf(fetch[w].url) # Error
    BY <1>9, DumpMoves, FetchAssumption DEF Addresses
  <2> QED
    BY <1>0, <1>9, <2>1, DumpMoves
<1> QED
  BY <1>1, <1>2, <1>3, <1>4, <1>5, <1>6, <1>7, <1>8, <1>9 DEF Worker

LEMMA ItemsStep ==
  ASSUME ItemsInv, OneOpen, [FetchNext]_fetchVars
  PROVE  ItemsInv'
<1>0. FetchTyped /\ UntilOpened /\ \A w \in Windows : ItemsOf(w)
  BY ItemsOfAll
<1>t. FetchTyped' /\ UntilOpened'
  BY <1>0, TypedAndTouched
<1>p. SUFFICES \A v \in Windows : ItemsOf(v)'
  BY <1>t DEF ItemsOf, ItemsInv, ItemsKept, ItemsAreShown, FetchInFlight, FetchAt
<1>e. ASSUME NEW v \in Windows, session'[v] = session[v], shown'[v] = shown[v],
             window'[v] = window[v], fetch'[v].stage = fetch[v].stage, fetch'[v].got = fetch[v].got
      PROVE  ItemsOf(v)'
  BY <1>0, <1>e DEF ItemsOf
<1>1. ASSUME NEW w \in Windows, Open(w), NEW v \in Windows
      PROVE  ItemsOf(v)'
  <2>1. Starts(w, "configure", FALSE, FALSE)
    <3>1. "configure" \in FetchStages /\ FALSE \in BOOLEAN
      BY DEF FetchStages
    <3> QED
      BY <1>0, <1>1, <3>1, StartStarts DEF Open
  <2>2. CASE v = w
    <3>1. session[w] = NewSession
      BY <1>0, <1>1 DEF UntilOpened, Open
    <3> QED
      BY <1>1, <2>1, <2>2, <3>1 DEF Open, Starts, ItemsOf, NewSession
  <2>3. CASE v # w
    BY <1>0, <1>1, <1>e, <2>1, <2>3 DEF Open, Starts, FetchTyped
  <2> QED
    BY <2>2, <2>3
<1>2. ASSUME NEW w \in Windows, CloseStore(w), NEW v \in Windows
      PROVE  ItemsOf(v)'
  BY <1>0, <1>2 DEF CloseStore, ItemsOf, FetchTyped
<1>3. ASSUME NEW w \in Windows, Refresh(w), NEW v \in Windows
      PROVE  ItemsOf(v)'
  <2>1. Starts(w, "service", FALSE, FALSE)
    <3>1. "service" \in FetchStages /\ FALSE \in BOOLEAN
      BY DEF FetchStages
    <3> QED
      BY <1>0, <1>3, <3>1, StartStarts DEF Refresh
  <2>2. CASE v = w
    BY <1>0, <1>3, <2>1, <2>2 DEF Refresh, Starts, ItemsOf
  <2>3. CASE v # w
    BY <1>0, <1>3, <1>e, <2>1, <2>3 DEF Refresh, Starts
  <2> QED
    BY <2>2, <2>3
<1>4. ASSUME NEW w \in Windows, Apply(w), NEW v \in Windows
      PROVE  ItemsOf(v)'
  <2>1. fetch' = [fetch EXCEPT ![w] = NoFetch] /\ UNCHANGED <<window, session>>
        /\ fetch[w].stage = "posted"
    BY <1>4 DEF Apply, FetchAt
  <2>2. CASE v = w
    <3>1. fetch'[v].stage = "none"
      BY <1>0, <2>1, <2>2 DEF FetchTyped, NoFetch
    <3>2. window[w] = "open" => shown'[w] = IF fetch[w].got = Error THEN Nothing ELSE fetch[w].got
      BY <1>0, <1>4 DEF Apply, FetchTyped
    <3> QED
      BY <1>0, <2>1, <2>2, <3>1, <3>2 DEF ItemsOf
  <2>3. CASE v # w
    <3>1. shown'[v] = shown[v]
      BY <1>0, <1>4, <2>3 DEF Apply, FetchTyped
    <3>2. fetch'[v] = fetch[v]
      BY <1>0, <2>1, <2>3 DEF FetchTyped
    <3> QED
      BY <1>e, <2>1, <3>1, <3>2
  <2> QED
    BY <2>2, <2>3
<1>5. ASSUME NEW w \in Windows, Worker(w), NEW v \in Windows
      PROVE  ItemsOf(v)'
  <2>1. CASE v = w
    BY <1>0, <1>5, <2>1, WorkerKeepsItems
  <2>2. CASE v # w
    BY <1>0, <1>5, <1>e, <2>2, WorkerMoves DEF OthersStay
  <2> QED
    BY <2>1, <2>2
<1>6. ASSUME NEW w \in Windows, NEW value \in Repos \cup {Unset, BlankRepo}, Change(w, value),
             NEW v \in Windows
      PROVE  ItemsOf(v)'
  <2>0. UNCHANGED <<window, shown>> /\ (value \in Repos => value # Nothing)
    BY <1>0, <1>6, ChangeMoves, FetchAssumption
  <2>i. ItemsOf(v) /\ FetchTyped
    BY <1>0
  <2>1. CASE Outdates(w) /\ UNCHANGED session
    BY <2>0, <2>1, <2>i DEF Outdates, ItemsOf
  <2>2. ASSUME NEW s, Keeps(w, value, s, session[w].items), Outdates(w), value \in Repos,
               s \in {value, session[w].service}
        PROVE  ItemsOf(v)'
    BY <2>0, <2>2, <2>i DEF Outdates, Keeps, ItemsOf
  <2>3. ASSUME NEW a, Keeps(w, value, value, session[w].items), Starts(w, "service", TRUE, a),
               value \in Repos
        PROVE  ItemsOf(v)'
    BY <2>0, <2>3, <2>i DEF Starts, Keeps, ItemsOf
  <2> QED
    BY <1>0, <1>6, <2>1, <2>2, <2>3, ChangeMoves
<1>7. ASSUME Crash, NEW v \in Windows
      PROVE  ItemsOf(v)'
  BY <1>0, <1>7 DEF Crash, ItemsOf, NoFetch
<1>8. ASSUME UNCHANGED fetchVars, NEW v \in Windows
      PROVE  ItemsOf(v)'
  BY <1>0, <1>8 DEF fetchVars, ItemsOf
<1> QED
  BY <1>1, <1>2, <1>3, <1>4, <1>5, <1>6, <1>7, <1>8 DEF FetchNext

\* The items an install looks its plugin and dependencies up in are those of the cards a
\* window shows, although the worker replaces the one and the UI thread the other.
THEOREM ItemsAreThoseShown == FetchSpec => []ItemsAreShown
<1>1. FetchInit => ItemsInv /\ OneOpen
  <2> SUFFICES ASSUME FetchInit PROVE ItemsInv /\ OneOpen
    OBVIOUS
  <2>1. \A w \in Windows : ItemsOf(w)
    BY DEF FetchInit, ItemsOf, NoFetch, NewSession
  <2> QED
    BY <2>1, FirstState, ItemsOfAll
<1>2. ItemsInv /\ OneOpen /\ [FetchNext]_fetchVars => ItemsInv' /\ OneOpen'
  BY ItemsStep, TypedAndTouched DEF ItemsInv
<1>3. ItemsInv => ItemsAreShown
  BY DEF ItemsInv
<1> QED
  BY <1>1, <1>2, <1>3, PTL DEF FetchSpec

------------------------------------------------------------------------------
(* Cards of the configured repository                                       *)

LEMMA WorkerStaysAlone ==
  ASSUME FetchTyped, NEW w \in Windows, Worker(w), AloneWindow(w)
  PROVE  AloneWindow(w)'
<1>0. /\ window'[w] = window[w] /\ setting' = setting
      /\ fetch'[w].alone = fetch[w].alone /\ fetch'[w].refresh = fetch[w].refresh
      /\ fetch'[w].mixed = fetch[w].mixed
      /\ fetch[w].stage \notin {"truncate", "dump"} => cache' = cache
  BY WorkerMoves
<1> SUFFICES ASSUME window[w] = "open", fetch[w].alone
             PROVE  AloneWindow(w)'
  BY <1>0 DEF AloneWindow
<1>a. /\ setting \in Repos /\ session[w].repo = setting /\ session[w].service = setting
      /\ Busy \subseteq {w} /\ fetch[w].refresh /\ ~ fetch[w].mixed
      /\ fetch[w].stage \in {"service", "remote", "truncate", "dump", "posted"}
      /\ fetch[w].stage \in {"remote", "truncate", "dump"} => fetch[w].url = setting
  BY DEF AloneWindow
<1>n. setting # Nothing
  BY <1>a, FetchAssumption
<1>b. Busy' \subseteq {w}
  BY <1>a, WorkerMoves DEF Busy, OthersStay, FetchInFlight, FetchAt
<1>g. ASSUME session'[w].repo = setting, session'[w].service = setting,
             fetch'[w].stage \in {"service", "remote", "truncate", "dump", "posted"},
             fetch'[w].stage \in {"remote", "truncate", "dump"} => fetch'[w].url = setting,
             fetch'[w].stage = "posted" /\ fetch'[w].got # Error =>
               fetch'[w].got = CatalogOf(setting) /\ cache' = CatalogOf(setting)
      PROVE  AloneWindow(w)'
  BY <1>0, <1>a, <1>b, <1>g DEF AloneWindow, CatalogOf
<1> USE DEF Moves, Keeps
<1>1. CASE Configure(w)
  BY <1>1, <1>a, ConfigureMoves
<1>2. CASE AssignRepo(w)
  BY <1>2, <1>a, AssignMoves
<1>3. CASE CreateService(w)
  BY <1>3, <1>a, CreateMoves
<1>4. CASE KeepService(w)
  BY <1>4, <1>a, KeepMoves
<1>5. CASE TakeService(w)
  BY <1>5, <1>a, <1>n, <1>g, TakeMoves DEF TakeService
<1>6. CASE ReadCache(w)
  BY <1>6, <1>a, ReadMoves
<1>7. CASE FetchRemote(w)
  BY <1>7, <1>a, <1>g, RemoteMoves
<1>8. CASE Truncate(w)
  BY <1>8, <1>a, <1>g, TruncateMoves DEF Truncate
<1>9. CASE Dump(w)
  <2>1. cache' = CatalogOf(fetch[w].url)
    BY <1>9, <1>a DEF Dump
  <2> QED
    BY <1>9, <1>a, <1>g, <2>1, DumpMoves
<1> QED
  BY <1>1, <1>2, <1>3, <1>4, <1>5, <1>6, <1>7, <1>8, <1>9 DEF Worker

LEMMA AloneStep ==
  ASSUME CatalogInv, [FetchNext]_fetchVars, NEW v \in Windows
  PROVE  AloneWindow(v)'
<1>0. FetchTyped /\ UntilOpened /\ OneOpen /\ AloneWindow(v)
  BY DEF CatalogInv
<1>1. ASSUME NEW w \in Windows, Open(w)
      PROVE  AloneWindow(v)'
  <2>1. Starts(w, "configure", FALSE, FALSE)
    <3>1. "configure" \in FetchStages /\ FALSE \in BOOLEAN
      BY DEF FetchStages
    <3> QED
      BY <1>0, <1>1, <3>1, StartStarts DEF Open
  <2>2. CASE v = w
    BY <2>1, <2>2 DEF Starts, AloneWindow
  <2>3. CASE v # w
    BY <1>0, <1>1, <2>3 DEF Open, FetchTyped, AloneWindow
  <2> QED
    BY <2>2, <2>3
<1>2. ASSUME NEW w \in Windows, CloseStore(w)
      PROVE  AloneWindow(v)'
  BY <1>0, <1>2 DEF CloseStore, AloneWindow, FetchTyped, Busy, FetchInFlight, FetchAt, CatalogOf
<1>3. ASSUME NEW w \in Windows, Refresh(w)
      PROVE  AloneWindow(v)'
  <2>1. Starts(w, "service", FALSE, FALSE)
    <3>1. "service" \in FetchStages /\ FALSE \in BOOLEAN
      BY DEF FetchStages
    <3> QED
      BY <1>0, <1>3, <3>1, StartStarts DEF Refresh
  <2>2. CASE v = w
    BY <2>1, <2>2 DEF Starts, AloneWindow
  <2>3. CASE v # w
    BY <1>0, <1>3, <2>3 DEF Refresh, OneOpen, AloneWindow
  <2> QED
    BY <2>2, <2>3
<1>4. ASSUME NEW w \in Windows, Apply(w)
      PROVE  AloneWindow(v)'
  <2>1. fetch' = [fetch EXCEPT ![w] = NoFetch] /\ UNCHANGED <<setting, cache, window, session>>
        /\ fetch[w].stage = "posted"
    BY <1>4 DEF Apply, FetchAt
  <2>2. CASE v = w
    BY <1>0, <2>1, <2>2 DEF FetchTyped, NoFetch, AloneWindow
  <2>3. CASE v # w
    <3>1. fetch'[v] = fetch[v]
      BY <1>0, <2>1, <2>3 DEF FetchTyped
    <3>2. Busy' \subseteq Busy
      BY <1>0, <2>1 DEF Busy, FetchInFlight, FetchAt, FetchTyped, NoFetch
    <3> QED
      BY <1>0, <2>1, <3>1, <3>2 DEF AloneWindow, CatalogOf
  <2> QED
    BY <2>2, <2>3
<1>5. ASSUME NEW w \in Windows, Worker(w)
      PROVE  AloneWindow(v)'
  <2>1. CASE v = w
    BY <1>0, <1>5, <2>1, WorkerStaysAlone
  <2>2. CASE v # w
    <3>1. w \in Busy
      BY <1>0, <1>5, WorkerMoves DEF Busy, FetchInFlight, FetchAt
    <3>2. window'[v] = window[v] /\ fetch'[v].alone = fetch[v].alone
      BY <1>0, <1>5, <2>2, WorkerMoves DEF OthersStay
    <3> QED
      BY <1>0, <2>2, <3>1, <3>2 DEF AloneWindow
  <2> QED
    BY <2>1, <2>2
<1>6. ASSUME NEW w \in Windows, NEW value \in Repos \cup {Unset, BlankRepo}, Change(w, value)
      PROVE  AloneWindow(v)'
  <2>0. UNCHANGED <<window, cache>> /\ window[w] = "open" /\ setting' = value
    BY <1>0, <1>6, ChangeMoves
  <2>1. CASE v # w
    BY <1>0, <2>0, <2>1 DEF OneOpen, AloneWindow
  <2>2. CASE v = w /\ Outdates(w)
    BY <2>2 DEF Outdates, AloneWindow
  <2>3. ASSUME v = w, ~ FetchInFlight(w), Starts(w, "service", TRUE, Busy \subseteq {w}), value \in Repos,
               Keeps(w, value, value, session[w].items)
        PROVE  AloneWindow(v)'
    <3>1. SUFFICES ASSUME fetch'[w].alone
                   PROVE  AloneWindow(w)'
      BY <2>3 DEF AloneWindow
    <3>2. Busy \subseteq {w}
      BY <2>3, <3>1 DEF Starts
    <3>3. Busy' \subseteq {w}
      BY <2>3, <3>2 DEF Busy, Starts, FetchInFlight, FetchAt
    <3> QED
      BY <2>0, <2>3, <3>3 DEF AloneWindow, Starts, Keeps
  <2> QED
    BY <1>0, <1>6, <2>1, <2>2, <2>3, ChangeMoves
<1>7. CASE Crash
  BY <1>0, <1>7 DEF Crash, AloneWindow, FetchTyped
<1>8. CASE UNCHANGED fetchVars
  BY <1>0, <1>8 DEF fetchVars, AloneWindow, Busy, FetchInFlight, FetchAt, CatalogOf
<1> QED
  BY <1>1, <1>2, <1>3, <1>4, <1>5, <1>6, <1>7, <1>8 DEF FetchNext

\* While nothing is unsettled: a step of a worker keeps to the configured repository.
LEMMA WorkerStaysSettled ==
  ASSUME FetchTyped, NEW w \in Windows, Worker(w), setting \in Repos,
         cache \in {Torn, CatalogOf(setting)}, SettledFetch(w),
         window[w] = "open" => SettledWindow(w)
  PROVE  /\ cache' \in {Torn, CatalogOf(setting)}
         /\ SettledFetch(w)'
         /\ window[w] = "open" => SettledWindow(w)'
<1>0. window'[w] = window[w] /\ setting' = setting /\ shown'[w] = shown[w]
  BY WorkerMoves
<1>n. setting # Nothing /\ Configured = setting
  BY FetchAssumption DEF Configured
<1>t. fetch[w].stage \notin {"truncate", "dump"} => cache' = cache
  BY WorkerMoves
<1>s. ASSUME window[w] = "open"
      PROVE  /\ shown[w] \in {Nothing, CatalogOf(setting)}
             /\ shown[w] # Nothing => session[w].repo = setting
  BY <1>s DEF SettledWindow
<1>f. /\ session[w].repo \in {Nothing, setting} /\ session[w].service \in {Nothing, setting}
      /\ session[w].service # Nothing => session[w].repo = setting
      /\ fetch[w].stage \in {"assign", "keep", "cache", "remote", "truncate", "dump"} =>
           fetch[w].url = setting
      /\ fetch[w].stage \in {"create", "keep", "cache", "remote", "truncate", "dump"} =>
           session[w].repo = setting
  BY DEF SettledFetch
<1>g. ASSUME session'[w].repo \in {session[w].repo, setting},
             fetch'[w].stage = "posted" /\ fetch'[w].got # Error =>
               fetch'[w].got = CatalogOf(setting) /\ session'[w].repo = setting
      PROVE  window[w] = "open" => SettledWindow(w)'
  BY <1>0, <1>g, <1>s DEF SettledWindow, CatalogOf
<1>h. ASSUME session'[w].repo \in {Nothing, setting}, session'[w].service \in {Nothing, setting},
             session'[w].service # Nothing => session'[w].repo = setting,
             fetch'[w].stage \in {"assign", "keep", "cache", "remote", "truncate", "dump"} =>
               fetch'[w].url = setting,
             fetch'[w].stage \in {"create", "keep", "cache", "remote", "truncate", "dump"} =>
               session'[w].repo = setting
      PROVE  SettledFetch(w)'
  BY <1>0, <1>h DEF SettledFetch
<1> USE DEF Moves, Keeps
<1>1. CASE Configure(w)
  BY <1>1, <1>t, <1>f, <1>g, <1>h, <1>n, ConfigureMoves DEF Configure
<1>2. CASE AssignRepo(w)
  BY <1>2, <1>t, <1>f, <1>g, <1>h, <1>n, AssignMoves
<1>3. CASE CreateService(w)
  BY <1>3, <1>t, <1>f, <1>g, <1>h, CreateMoves DEF CreateService
<1>4. CASE KeepService(w)
  BY <1>4, <1>t, <1>f, <1>g, <1>h, KeepMoves
<1>5. CASE TakeService(w)
  BY <1>5, <1>t, <1>f, <1>g, <1>h, TakeMoves DEF TakeService
<1>6. CASE ReadCache(w)
  <2>1. cache \in Repos => cache = CatalogOf(setting)
    BY FetchAssumption
  <2> QED
    BY <1>6, <1>t, <1>f, <1>g, <1>h, <2>1, ReadMoves
<1>7. CASE FetchRemote(w)
  BY <1>7, <1>t, <1>f, <1>g, <1>h, RemoteMoves
<1>8. CASE Truncate(w)
  <2>1. cache' = Torn
    BY <1>8 DEF Truncate
  <2> QED
    BY <1>8, <1>f, <1>g, <1>h, <2>1, TruncateMoves DEF Truncate
<1>9. CASE Dump(w)
  <2>1. cache' = CatalogOf(fetch[w].url) \/ cache' = Torn
    BY <1>9 DEF Dump
  <2> QED
    BY <1>9, <1>f, <1>g, <1>h, <2>1, DumpMoves
<1> QED
  BY <1>1, <1>2, <1>3, <1>4, <1>5, <1>6, <1>7, <1>8, <1>9 DEF Worker

\* The change that has come through undisturbed leaves every window of its repository.
LEMMA ComesThrough ==
  ASSUME CatalogInv, NEW w \in Windows, Apply(w), window[w] = "open", CameThrough(w)
  PROVE  SettledInv'
<1>0. FetchTyped /\ OneOpen /\ AloneWindow(w)
  BY DEF CatalogInv
<1>1. fetch' = [fetch EXCEPT ![w] = NoFetch] /\ UNCHANGED <<setting, cache, window, session>>
      /\ fetch[w].stage = "posted"
  BY DEF Apply, FetchAt
<1>2. /\ setting \in Repos /\ session[w].repo = setting /\ session[w].service = setting
      /\ Busy \subseteq {w} /\ fetch[w].got = CatalogOf(setting) /\ cache = CatalogOf(setting)
      /\ fetch[w].got # Error
  BY <1>0, <1>1 DEF AloneWindow, CameThrough
<1>3. shown'[w] = CatalogOf(setting)
  BY <1>0, <1>2 DEF Apply, FetchTyped
<1>4. fetch'[w].stage = "none" /\ \A v \in Windows : v # w => fetch'[v] = fetch[v]
  BY <1>0, <1>1 DEF FetchTyped, NoFetch
<1>5. \A v \in Windows : ~ (v \in Busy)'
  BY <1>2, <1>4 DEF Busy, FetchInFlight, FetchAt
<1>6. \A v \in Windows : window'[v] = "open" => v = w
  BY <1>0, <1>1 DEF OneOpen
<1>7. SettledFetch(w)' /\ SettledWindow(w)'
  BY <1>1, <1>2, <1>3, <1>4 DEF SettledFetch, SettledWindow, CatalogOf
<1> QED
  BY <1>1, <1>2, <1>5, <1>6, <1>7 DEF SettledInv, CatalogOf

LEMMA SettledStep ==
  ASSUME CatalogInv, [FetchNext]_fetchVars
  PROVE  SettledInv'
<1>0. FetchTyped /\ UntilOpened /\ OneOpen /\ SettledInv
  BY DEF CatalogInv
\* Another window's step changes nothing of a window.
<1>e. ASSUME ~ unsettled, UNCHANGED setting,
             NEW v \in Windows, session'[v] = session[v], shown'[v] = shown[v],
             window'[v] # "open" \/ window'[v] = window[v],
             fetch'[v].stage = fetch[v].stage, fetch'[v].got = fetch[v].got, fetch'[v].url = fetch[v].url
      PROVE  /\ window'[v] = "open" \/ (v \in Busy)' => SettledFetch(v)'
             /\ window'[v] = "open" => SettledWindow(v)'
  <2>1. (v \in Busy)' => v \in Busy
    BY <1>e DEF Busy, FetchInFlight, FetchAt
  <2> QED
    BY <1>0, <1>e, <2>1 DEF SettledInv, SettledFetch, SettledWindow, CatalogOf
<1>1. ASSUME NEW w \in Windows, Open(w)
      PROVE  SettledInv'
  <2>0. SUFFICES ASSUME ~ unsettled
                 PROVE  SettledInv'
    BY <1>1 DEF Open, SettledInv
  <2>1. Starts(w, "configure", FALSE, FALSE)
    <3>1. "configure" \in FetchStages /\ FALSE \in BOOLEAN
      BY DEF FetchStages
    <3> QED
      BY <1>0, <1>1, <3>1, StartStarts DEF Open
  <2>2. UNCHANGED <<setting, cache, session, shown>>
        /\ \A v \in Windows : v # w => window'[v] = window[v]
    BY <1>0, <1>1 DEF Open, FetchTyped
  <2>3. session[w] = NewSession /\ shown[w] = Nothing
    BY <1>0, <1>1 DEF UntilOpened, Open
  <2>4. SettledFetch(w)' /\ SettledWindow(w)'
    BY <2>1, <2>2, <2>3 DEF SettledFetch, SettledWindow, Starts, NewSession
  <2>5. \A v \in Windows : v # w =>
          /\ window'[v] = "open" \/ (v \in Busy)' => SettledFetch(v)'
          /\ window'[v] = "open" => SettledWindow(v)'
    BY <1>e, <2>0, <2>1, <2>2 DEF Starts
  <2> QED
    BY <1>0, <2>0, <2>2, <2>4, <2>5 DEF SettledInv, CatalogOf
<1>2. ASSUME NEW w \in Windows, CloseStore(w)
      PROVE  SettledInv'
  <2>0. SUFFICES ASSUME ~ unsettled
                 PROVE  SettledInv'
    BY <1>2 DEF CloseStore, SettledInv
  <2>1. \A v \in Windows : window'[v] # "open" \/ window'[v] = window[v]
    BY <1>0, <1>2 DEF CloseStore, FetchTyped
  <2>2. UNCHANGED <<setting, cache, session, shown, fetch>>
    BY <1>2 DEF CloseStore
  <2> QED
    BY <1>0, <1>e, <2>0, <2>1, <2>2 DEF SettledInv, CatalogOf
<1>3. ASSUME NEW w \in Windows, Refresh(w)
      PROVE  SettledInv'
  <2>0. SUFFICES ASSUME ~ unsettled
                 PROVE  SettledInv'
    BY <1>3 DEF Refresh, SettledInv
  <2>1. Starts(w, "service", FALSE, FALSE)
    <3>1. "service" \in FetchStages /\ FALSE \in BOOLEAN
      BY DEF FetchStages
    <3> QED
      BY <1>0, <1>3, <3>1, StartStarts DEF Refresh
  <2>2. UNCHANGED <<setting, cache, session, shown, window>> /\ window[w] = "open"
    BY <1>3 DEF Refresh
  <2>3. SettledFetch(w) /\ SettledWindow(w)
    BY <1>0, <2>0, <2>2 DEF SettledInv
  <2>4. SettledFetch(w)' /\ SettledWindow(w)'
    BY <2>1, <2>2, <2>3 DEF SettledFetch, SettledWindow, Starts, CatalogOf
  <2>5. \A v \in Windows : v # w =>
          /\ window'[v] = "open" \/ (v \in Busy)' => SettledFetch(v)'
          /\ window'[v] = "open" => SettledWindow(v)'
    BY <1>e, <2>0, <2>1, <2>2 DEF Starts
  <2> QED
    BY <1>0, <2>0, <2>2, <2>4, <2>5 DEF SettledInv, CatalogOf
<1>4. ASSUME NEW w \in Windows, Apply(w)
      PROVE  SettledInv'
  <2>1. CASE window[w] = "open" /\ CameThrough(w)
    BY <1>4, <2>1, ComesThrough
  <2>2. CASE ~ (window[w] = "open" /\ CameThrough(w))
    <3>1. unsettled' = unsettled
      BY <1>0, <1>4, <2>2 DEF Apply, FetchTyped
    <3>0. SUFFICES ASSUME ~ unsettled
                   PROVE  SettledInv'
      BY <3>1 DEF SettledInv
    <3>2. fetch' = [fetch EXCEPT ![w] = NoFetch] /\ UNCHANGED <<setting, cache, window, session>>
          /\ fetch[w].stage = "posted"
      BY <1>4 DEF Apply, FetchAt
    <3>3. fetch'[w] = NoFetch /\ \A v \in Windows : v # w => fetch'[v] = fetch[v]
      BY <1>0, <3>2 DEF FetchTyped
    <3>4. \A v \in Windows : v # w => shown'[v] = shown[v]
      BY <1>0, <1>4 DEF Apply, FetchTyped
    <3>5. ~ (w \in Busy)'
      BY <3>3 DEF Busy, FetchInFlight, FetchAt, NoFetch
    <3>6. ASSUME window[w] = "open"
          PROVE  SettledFetch(w)' /\ SettledWindow(w)'
      <4>1. SettledFetch(w) /\ SettledWindow(w)
        BY <1>0, <3>0, <3>6 DEF SettledInv
      <4>2. shown'[w] = IF fetch[w].got = Error THEN Nothing ELSE fetch[w].got
        BY <1>0, <1>4, <3>6 DEF Apply, FetchTyped
      <4> QED
        BY <3>2, <3>3, <4>1, <4>2 DEF SettledFetch, SettledWindow, CatalogOf, NoFetch
    <3>7. \A v \in Windows : v # w =>
            /\ window'[v] = "open" \/ (v \in Busy)' => SettledFetch(v)'
            /\ window'[v] = "open" => SettledWindow(v)'
      BY <1>e, <3>0, <3>2, <3>3, <3>4
    <3> QED
      BY <1>0, <3>0, <3>2, <3>5, <3>6, <3>7 DEF SettledInv, CatalogOf
  <2> QED
    BY <2>1, <2>2
<1>5. ASSUME NEW w \in Windows, Worker(w)
      PROVE  SettledInv'
  <2>1. UNCHANGED <<setting, window, shown, unsettled>> /\ OthersStay(w)
        /\ (\A v \in Windows : v # w => session'[v] = session[v])
        /\ w \in Busy
    BY <1>0, <1>5, WorkerMoves DEF Busy, FetchInFlight, FetchAt
  <2>0. SUFFICES ASSUME ~ unsettled
                 PROVE  SettledInv'
    BY <2>1 DEF SettledInv
  <2>2. /\ setting \in Repos /\ cache \in {Torn, CatalogOf(setting)} /\ SettledFetch(w)
        /\ window[w] = "open" => SettledWindow(w)
    BY <1>0, <2>0, <2>1 DEF SettledInv
  <2>3. /\ cache' \in {Torn, CatalogOf(setting)} /\ SettledFetch(w)'
        /\ window[w] = "open" => SettledWindow(w)'
    BY <1>0, <1>5, <2>2, WorkerStaysSettled
  <2>4. \A v \in Windows : v # w =>
          /\ window'[v] = "open" \/ (v \in Busy)' => SettledFetch(v)'
          /\ window'[v] = "open" => SettledWindow(v)'
    BY <1>e, <2>0, <2>1 DEF OthersStay
  <2> QED
    BY <2>1, <2>2, <2>3, <2>4 DEF SettledInv, CatalogOf
<1>6. ASSUME NEW w \in Windows, NEW value \in Repos \cup {Unset, BlankRepo}, Change(w, value)
      PROVE  SettledInv'
  BY <1>6 DEF Change, SettledInv
<1>7. CASE Crash
  <2>1. UNCHANGED <<setting, cache, unsettled>>
    BY <1>7 DEF Crash
  <2>2. \A v \in Windows : window'[v] # "open" /\ ~ (v \in Busy)'
    BY <1>7 DEF Crash, Busy, FetchInFlight, FetchAt, NoFetch
  <2> QED
    BY <1>0, <2>1, <2>2 DEF SettledInv, CatalogOf
<1>8. CASE UNCHANGED fetchVars
  BY <1>0, <1>8 DEF fetchVars, SettledInv, SettledFetch, SettledWindow, Busy, FetchInFlight, FetchAt, CatalogOf
<1> QED
  BY <1>1, <1>2, <1>3, <1>4, <1>5, <1>6, <1>7, <1>8 DEF FetchNext

\* Once a change of the repository has come through undisturbed, a window that shows
\* anything shows the catalog of the repository that is configured, which its downloads
\* come from.
THEOREM CardsAreOfRepository == FetchSpec => []CatalogOfRepository
<1>1. FetchInit => CatalogInv
  <2> SUFFICES ASSUME FetchInit PROVE CatalogInv
    OBVIOUS
  <2>1. \A w \in Windows : AloneWindow(w) /\ window[w] # "open" /\ w \notin Busy
    BY DEF FetchInit, AloneWindow, Busy, FetchInFlight, FetchAt, NoFetch
  <2>2. setting \in Repos /\ cache = CatalogOf(setting)
    BY FetchAssumption DEF FetchInit
  <2> QED
    BY <2>1, <2>2, FirstState DEF CatalogInv, SettledInv
<1>2. CatalogInv /\ [FetchNext]_fetchVars => CatalogInv'
  <2> SUFFICES ASSUME CatalogInv, [FetchNext]_fetchVars PROVE CatalogInv'
    OBVIOUS
  <2>1. FetchTyped' /\ UntilOpened' /\ OneOpen'
    BY TypedAndTouched DEF CatalogInv
  <2>2. \A w \in Windows : AloneWindow(w)'
    BY AloneStep
  <2>3. SettledInv'
    BY SettledStep
  <2> QED
    BY <2>1, <2>2, <2>3 DEF CatalogInv
<1>3. CatalogInv => CatalogOfRepository
  <2> SUFFICES ASSUME CatalogInv, ~ unsettled, NEW w \in Windows, window[w] = "open",
                      shown[w] # Nothing
               PROVE  shown[w] = session[w].repo /\ session[w].repo = Configured
    BY DEF CatalogOfRepository
  <2>1. setting \in Repos /\ SettledWindow(w)
    BY DEF CatalogInv, SettledInv
  <2>2. Configured = setting
    BY <2>1, FetchAssumption DEF Configured
  <2> QED
    BY <2>1, <2>2 DEF SettledWindow, CatalogOf
<1> QED
  BY <1>1, <1>2, <1>3, PTL DEF FetchSpec
====
