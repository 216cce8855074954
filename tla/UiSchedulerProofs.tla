-------------------------- MODULE UiSchedulerProofs --------------------------
(* The pump of the UI scheduler, for any workers and any callbacks.        *)
EXTENDS UiScheduler, SequenceTheorems, TLAPS

TopPhases == {"loop", "dialog", "panel"}

\* The scheduler remembers its pump between drains, and while it does a timer
\* is armed.
PumpInv ==
  /\ armed \in Nat
  /\ pump \in BOOLEAN
  /\ host \in BOOLEAN
  /\ stack \in Seq(TopPhases)
  /\ host /\ pump => armed > 0
  /\ IdlePumped

LEMMA TopIsSet ==
  ASSUME stack \in Seq(TopPhases), stack # <<>>,
         NEW phase \in TopPhases, SetTop(phase)
  PROVE  stack' \in Seq(TopPhases) /\ stack' # <<>>
<1>1. Len(stack) \in 1..Len(stack)
  OBVIOUS
<1>2. stack' \in Seq(TopPhases) /\ Len(stack') = Len(stack)
  BY <1>1, ExceptSeq DEF SetTop
<1> QED BY <1>1, <1>2

LEMMA PumpInvStep == PumpInv /\ [Next]_vars => PumpInv'
<1> SUFFICES ASSUME PumpInv, [Next]_vars PROVE PumpInv'
  OBVIOUS
<1> USE DEF PumpInv, IdlePumped
<1>1. CASE (\E w \in Workers : Post(w)) \/ UNCHANGED vars
  BY <1>1 DEF Post, vars
<1>2. CASE Fire
  <2>1. stack' \in Seq(TopPhases) /\ stack' # <<>>
    BY <1>2, AppendProperties DEF Fire, TopPhases
  <2>2. armed' \in Nat /\ pump' = FALSE /\ host' = host
    BY <1>2 DEF Fire
  <2> QED BY <2>1, <2>2
<1>3. CASE Call
  <2>1. stack # <<>> /\ host' = host
    BY <1>3 DEF Call, Top
  <2>2. stack' \in Seq(TopPhases) /\ stack' # <<>>
    <3>1. CASE Kind(Head(queue)) \in {"dialog", "panel"}
      BY <1>3, <2>1, <3>1, TopIsSet DEF Call, TopPhases
    <3>2. CASE Kind(Head(queue)) \notin {"dialog", "panel"}
      BY <1>3, <2>1, <3>2 DEF Call
    <3> QED BY <3>1, <3>2
  <2>3. armed' \in Nat /\ pump' \in BOOLEAN /\ (host /\ pump' => armed' > 0)
    BY <1>3 DEF Call, StartPump, ScheduleNext
  <2> QED BY <2>1, <2>2, <2>3
<1>4. CASE CloseDialog
  <2>1. stack # <<>>
    BY <1>4 DEF CloseDialog, Top
  <2>2. stack' \in Seq(TopPhases) /\ stack' # <<>>
    BY <1>4, <2>1, TopIsSet DEF CloseDialog, TopPhases
  <2> QED BY <1>4, <2>2 DEF CloseDialog
<1>5. CASE EndDrain
  <2>1. stack' \in Seq(TopPhases)
    BY <1>5 DEF EndDrain, Top
  <2> QED BY <1>5, <2>1 DEF EndDrain, ScheduleNext
<1>6. CASE OpenWindow
  <2>1. host /\ stack' = stack /\ host' = host
    BY <1>6 DEF OpenWindow
  <2>2. CASE pump
    BY <1>6, <2>1, <2>2 DEF OpenWindow, StartPump
  <2>3. CASE ~pump
    <3>1. armed' = armed + 1 /\ pump' = TRUE
      BY <1>6, <2>1, <2>3 DEF OpenWindow, StartPump, ScheduleNext
    <3> QED BY <2>1, <3>1
  <2> QED BY <2>2, <2>3
<1>7. CASE DestroyHost
  BY <1>7 DEF DestroyHost
<1> QED BY <1>1, <1>2, <1>3, <1>4, <1>5, <1>6, <1>7 DEF Next

LEMMA PumpInvInit == Init => PumpInv
BY DEF Init, PumpInv, IdlePumped

\* However callbacks nest and whatever they open, the pump is armed or a drain
\* that will arm it is under way, as long as the host lives.
THEOREM PumpStaysAlive == Spec => []PumpAlive
<1>1. PumpInv => PumpAlive
  BY DEF PumpInv, IdlePumped, PumpAlive
<1> QED BY <1>1, PumpInvInit, PumpInvStep, PTL DEF Spec

\* Between drains the scheduler knows its pump: start() from an ordinary event
\* handler arms no second timer.
THEOREM PumpIsKnownWhenIdle == Spec => []IdlePumped
<1>1. PumpInv => IdlePumped
  BY DEF PumpInv
<1> QED BY <1>1, PumpInvInit, PumpInvStep, PTL DEF Spec

------------------------------------------------------------------------------
(* The order of the callbacks.                                             *)

\* What InOrder rests on: the types of the queue and of the calls made.
OrderInv ==
  /\ posted \in [Workers -> Nat]
  /\ queue \in Seq(Posts)
  /\ begun \in Seq(Posts)
  /\ InOrder

LEMMA PostIsPair ==
  ASSUME NEW p \in Posts
  PROVE  p[1] \in Workers /\ p[2] \in Nat /\ p = <<p[1], p[2]>>
BY ScriptAssumption DEF Posts

LEMMA OrderInvInit == Init => OrderInv
<1> SUFFICES ASSUME Init PROVE OrderInv
  OBVIOUS
<1>1. Line = <<>> /\ Len(Line) = 0
  BY DEF Init, Line
<1>2. posted \in [Workers -> Nat] /\ queue \in Seq(Posts) /\ begun \in Seq(Posts)
  BY DEF Init
<1>3. \A p \in Posts : ~(p[2] <= posted[p[1]])
  BY ScriptAssumption DEF Init, Posts
<1> QED BY <1>1, <1>2, <1>3 DEF OrderInv, InOrder

\* A post goes to the end of the line with the next number of its worker.
LEMMA OrderInvPost ==
  ASSUME OrderInv, NEW w \in Workers, Post(w)
  PROVE  OrderInv'
<1> DEFINE p == <<w, posted[w] + 1>>
<1>1. posted \in [Workers -> Nat] /\ queue \in Seq(Posts) /\ begun \in Seq(Posts) /\ InOrder
  BY DEF OrderInv
<1>2. p \in Posts
  BY <1>1, ScriptAssumption DEF Post, Posts
<1>3. /\ posted' \in [Workers -> Nat]
      /\ posted'[w] = posted[w] + 1
      /\ \A u \in Workers : u # w => posted'[u] = posted[u]
  BY <1>1 DEF Post
<1>4. queue' \in Seq(Posts) /\ begun' = begun
  BY <1>1, <1>2, AppendProperties DEF Post
<1>5. Line \in Seq(Posts)
  BY <1>1, ConcatProperties DEF Line
<1>6. Line' = Append(Line, p)
  <2>1. queue' = queue \o <<p>> /\ <<p>> \in Seq(Posts)
    <3>1. queue' = Append(queue, p)
      BY DEF Post
    <3>2. queue \in Seq(Posts) /\ p \in Posts
      BY <1>1, <1>2
    <3> HIDE DEF p
    <3>3. Append(queue, p) = queue \o <<p>>
      BY <3>2, AppendIsConcat
    <3> QED BY <3>1, <3>2, <3>3
  <2>2. begun \o (queue \o <<p>>) = (begun \o queue) \o <<p>>
    BY <1>1, <2>1, ConcatAssociative
  <2> QED BY <1>2, <1>4, <1>5, <2>1, <2>2, AppendIsConcat DEF Line
<1>7. /\ Len(Line) \in Nat
      /\ Len(Line') = Len(Line) + 1
      /\ \A i \in 1..Len(Line) : Line'[i] = Line[i] /\ Line[i] \in Posts
      /\ Line'[Len(Line) + 1] = p
  BY <1>2, <1>5, <1>6, AppendProperties, ElementOfSeq, LenProperties
<1>8. \A i \in 1..Len(Line) : Line[i][1] \in Workers /\ Line[i][2] \in 1..posted[Line[i][1]]
  BY <1>1, <1>7, PostIsPair DEF InOrder
<1>9. \A i \in 1..Len(Line') : Line'[i][2] \in 1..posted'[Line'[i][1]]
  <2> TAKE i \in 1..Len(Line')
  <2>1. CASE i \in 1..Len(Line)
    <3>1. Line'[i] = Line[i] /\ Line[i][1] \in Workers /\ Line[i][2] \in 1..posted[Line[i][1]]
      BY <1>7, <1>8, <2>1
    <3>2. posted[Line[i][1]] \in Nat /\ posted'[Line[i][1]] \in Nat
      BY <1>1, <1>3, <3>1
    <3>3. posted[Line[i][1]] <= posted'[Line[i][1]]
      <4>1. CASE Line[i][1] = w
        BY <1>3, <3>2, <4>1
      <4>2. CASE Line[i][1] # w
        BY <1>3, <3>1, <3>2, <4>2
      <4> QED BY <4>1, <4>2
    <3> QED BY <3>1, <3>2, <3>3
  <2>2. CASE i = Len(Line) + 1
    BY <1>1, <1>3, <1>7, <2>2
  <2> QED BY <1>7, <2>1, <2>2
<1>10. \A i, j \in 1..Len(Line') :
         i < j /\ Line'[i][1] = Line'[j][1] => Line'[i][2] < Line'[j][2]
  <2> TAKE i, j \in 1..Len(Line')
  <2> HAVE i < j /\ Line'[i][1] = Line'[j][1]
  <2>1. i \in 1..Len(Line)
    BY <1>7
  <2>2. CASE j \in 1..Len(Line)
    BY <1>1, <1>7, <2>1, <2>2 DEF InOrder
  <2>3. CASE j = Len(Line) + 1
    <3>1. Line'[j][1] = w /\ Line'[j][2] = posted[w] + 1
      BY <1>7, <2>3
    <3>2. Line'[i][2] \in 1..posted[w]
      BY <1>7, <1>8, <2>1, <3>1
    <3> QED BY <1>1, <3>1, <3>2
  <2> QED BY <1>7, <2>2, <2>3
<1>11. \A q \in Posts : q[2] <= posted'[q[1]] => \E i \in 1..Len(Line') : Line'[i] = q
  <2> TAKE q \in Posts
  <2> HAVE q[2] <= posted'[q[1]]
  <2>1. CASE q[2] <= posted[q[1]]
    <3>1. PICK i \in 1..Len(Line) : Line[i] = q
      BY <1>1, <2>1 DEF InOrder
    <3> QED BY <1>7, <3>1
  <2>2. CASE ~(q[2] <= posted[q[1]])
    <3>1. q[1] = w /\ q[2] = posted[w] + 1
      BY <1>1, <1>3, <2>2, PostIsPair
    <3>2. q = p
      BY <3>1, PostIsPair
    <3> QED BY <1>7, <3>2
  <2> QED BY <2>1, <2>2
<1> QED BY <1>3, <1>4, <1>1, <1>9, <1>10, <1>11 DEF OrderInv, InOrder

\* A call takes the head of the queue: the line stays what it is.
LEMMA OrderInvCall ==
  ASSUME OrderInv, Call
  PROVE  OrderInv'
<1>1. posted \in [Workers -> Nat] /\ queue \in Seq(Posts) /\ begun \in Seq(Posts) /\ InOrder
  BY DEF OrderInv
<1>2. queue # <<>> /\ queue' = Tail(queue) /\ begun' = Append(begun, Head(queue)) /\ posted' = posted
  BY DEF Call
<1>3. Head(queue) \in Posts /\ Tail(queue) \in Seq(Posts) /\ <<Head(queue)>> \in Seq(Posts)
  BY <1>1, <1>2, HeadTailProperties
<1>4. begun' \in Seq(Posts) /\ begun' = begun \o <<Head(queue)>>
  BY <1>1, <1>2, <1>3, AppendProperties, AppendIsConcat
<1>5. queue = <<Head(queue)>> \o Tail(queue)
  <2> DEFINE t == <<Head(queue)>> \o Tail(queue)
  <2>1. t \in Seq(Posts) /\ Len(t) = Len(queue)
    BY <1>1, <1>2, <1>3, ConcatProperties, HeadTailProperties, LenProperties
  <2>2. \A i \in 1..Len(queue) : queue[i] = t[i]
    BY <1>1, <1>2, <1>3, ConcatProperties, HeadTailProperties, LenProperties
  <2> QED BY <1>1, <2>1, <2>2, SeqEqual
<1>6. Line' = Line
  BY <1>1, <1>2, <1>3, <1>4, <1>5, ConcatAssociative DEF Line
<1> QED BY <1>1, <1>2, <1>3, <1>4, <1>6 DEF OrderInv, InOrder

LEMMA OrderInvStep == OrderInv /\ [Next]_vars => OrderInv'
<1> SUFFICES ASSUME OrderInv, [Next]_vars PROVE OrderInv'
  OBVIOUS
<1>1. CASE \E w \in Workers : Post(w)
  BY <1>1, OrderInvPost
<1>2. CASE Call
  BY <1>2, OrderInvCall
<1>3. CASE Fire \/ CloseDialog \/ EndDrain \/ OpenWindow \/ DestroyHost \/ UNCHANGED vars
  <2>1. posted' = posted /\ queue' = queue /\ begun' = begun
    BY <1>3 DEF Fire, CloseDialog, EndDrain, OpenWindow, DestroyHost, vars
  <2> QED BY <2>1, ZenonT(60) DEF OrderInv, InOrder, Line
<1> QED BY <1>1, <1>2, <1>3 DEF Next

\* Whatever the callbacks do and however drains nest, a worker's callbacks are
\* called in the order it posted them, each once, and none is lost.
THEOREM CallbacksKeepTheirOrder == Spec => []InOrder
<1>1. OrderInv => InOrder
  BY DEF OrderInv
<1> QED BY <1>1, OrderInvInit, OrderInvStep, PTL DEF Spec
------------------------------------------------------------------------------
(* The shape of the state.                                                 *)

\* Every variable of the scheduler keeps its type, however many timers are armed
\* and however deep the drains nest.
THEOREM SchedulerTyped == Spec => []TypeOK
<1>1. PumpInv /\ OrderInv => TypeOK
  BY DEF PumpInv, OrderInv, TypeOK, TopPhases
<1> QED BY <1>1, PumpInvInit, PumpInvStep, OrderInvInit, OrderInvStep, PTL DEF Spec

\* Only the innermost drain can be taking callbacks: each outer one is held by a
\* dialog or a panel one of its callbacks waits for.
OuterDrainsWait ==
  \A i \in 1..Len(stack) : i < Len(stack) => stack[i] \in {"dialog", "panel"}

LEMMA OuterDrainsWaitStep ==
  ASSUME PumpInv, OuterDrainsWait, [Next]_vars
  PROVE  OuterDrainsWait'
<1> stack \in Seq(TopPhases) /\ Len(stack) \in Nat
  BY LenProperties DEF PumpInv
<1>1. CASE (\E w \in Workers : Post(w)) \/ OpenWindow \/ DestroyHost \/ UNCHANGED vars
  <2>1. stack' = stack
    BY <1>1 DEF Post, OpenWindow, DestroyHost, vars
  <2> QED BY <2>1 DEF OuterDrainsWait
<1>2. CASE Fire
  <2>1. /\ Len(stack') = Len(stack) + 1
        /\ \A i \in 1..Len(stack) : stack'[i] = stack[i]
    BY <1>2, AppendProperties DEF Fire, TopPhases
  <2>2. stack # <<>> => stack[Len(stack)] \in {"dialog", "panel"}
    <3> SUFFICES ASSUME stack # <<>> PROVE stack[Len(stack)] \in {"dialog", "panel"}
      OBVIOUS
    <3>1. Len(stack) \in 1..Len(stack)
      OBVIOUS
    <3>2. stack[Len(stack)] \in TopPhases
      BY <3>1, ElementOfSeq
    <3> QED BY <1>2, <3>2 DEF Fire, Turning, Top, TopPhases
  <2> SUFFICES ASSUME NEW i \in 1..Len(stack'), i < Len(stack')
               PROVE  stack'[i] \in {"dialog", "panel"}
    BY DEF OuterDrainsWait
  <2>3. i \in 1..Len(stack) /\ stack'[i] = stack[i]
    BY <2>1
  <2>4. CASE i = Len(stack)
    BY <2>2, <2>3, <2>4
  <2>5. CASE i < Len(stack)
    BY <2>3, <2>5 DEF OuterDrainsWait
  <2> QED BY <2>3, <2>4, <2>5
<1>3. CASE Call \/ CloseDialog
  <2>1. stack # <<>> /\ Len(stack) \in 1..Len(stack)
    BY <1>3 DEF Call, CloseDialog, Top
  <2>2. \/ stack' = stack
        \/ \E phase \in TopPhases : SetTop(phase)
    BY <1>3 DEF Call, CloseDialog, TopPhases
  <2>3. CASE stack' = stack
    BY <2>3 DEF OuterDrainsWait
  <2>4. CASE \E phase \in TopPhases : SetTop(phase)
    <3>1. PICK phase \in TopPhases : SetTop(phase)
      BY <2>4
    <3>2. /\ Len(stack') = Len(stack)
          /\ \A i \in 1..Len(stack) : i # Len(stack) => stack'[i] = stack[i]
      BY <2>1, <3>1, ExceptSeq DEF SetTop
    <3> QED BY <3>2 DEF OuterDrainsWait
  <2> QED BY <2>2, <2>3, <2>4
<1>4. CASE EndDrain
  <2>1. stack # <<>> /\ stack' = SubSeq(stack, 1, Len(stack) - 1)
    BY <1>4 DEF EndDrain, Top
  <2> DEFINE n == Len(stack) - 1
  <2>2. /\ n \in Nat
        /\ \A i \in 1..n : i \in 1..Len(stack) /\ stack[i] \in TopPhases
    <3>1. Len(stack) # 0
      BY <2>1, EmptySeq
    <3>2. n \in Nat /\ \A i \in 1..n : i \in 1..Len(stack)
      BY <3>1
    <3> QED BY <3>2, ElementOfSeq
  <2>3. /\ Len(SubSeq(stack, 1, n)) = n
        /\ \A i \in 1..n : SubSeq(stack, 1, n)[i] = stack[i]
    <3> HIDE DEF n
    <3>1. /\ Len(SubSeq(stack, 1, n)) = IF 1 <= n THEN n - 1 + 1 ELSE 0
          /\ \A i \in 1..n - 1 + 1 : SubSeq(stack, 1, n)[i] = stack[1 + i - 1]
      BY <2>2, SubSeqProperties
    <3>2. n - 1 + 1 = n /\ \A i \in 1..n : 1 + i - 1 = i
      BY <2>2
    <3>3. ~(1 <= n) => n = 0
      BY <2>2
    <3> QED BY <3>1, <3>2, <3>3
  <2>4. /\ Len(stack') = n
        /\ \A i \in 1..n : stack'[i] = stack[i]
    BY <2>1, <2>3
  <2> SUFFICES ASSUME NEW i \in 1..Len(stack'), i < Len(stack')
               PROVE  stack'[i] \in {"dialog", "panel"}
    BY DEF OuterDrainsWait
  <2>5. /\ i \in 1..Len(stack)
        /\ i < Len(stack)
        /\ stack'[i] = stack[i]
    BY <2>2, <2>4
  <2> QED BY <2>5 DEF OuterDrainsWait
<1> QED BY <1>1, <1>2, <1>3, <1>4 DEF Next

\* However drains nest, callbacks are taken by the innermost drain alone.
THEOREM OneDrainTakes == Spec => []OuterDrainsWait
<1>1. Init => OuterDrainsWait
  BY DEF Init, OuterDrainsWait
<1> QED BY <1>1, PumpInvInit, PumpInvStep, OuterDrainsWaitStep, PTL DEF Spec
=============================================================================
