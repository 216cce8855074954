------------------------- MODULE PayloadExtractProofs -------------------------
(***************************************************************************)
(* Proofs about what is unpacked.  PayloadExtract: every variable keeps to its *)
(* values, no writer outlives its file, nothing is at work when the result is  *)
(* reported, and an image that no fault touched is whole and blocks no thread. *)
(* SuperImage: what is unpacked was packed, and what is removed is packed.     *)
(* Metadata: what an image gave its files is what they are packed with.        *)
(***************************************************************************)
EXTENDS PayloadExtract, SuperImage, Metadata, TLAPS

\* The variables the argument reads have their shape.
Shape ==
    /\ main = [at |-> main.at, image |-> main.image, next |-> main.next]
    /\ busy = [w \in Workers |-> busy[w]]
    /\ writer = [p \in Images |-> writer[p]]
    /\ file = [p \in Images |-> file[p]]

\* A writer runs only while its file is open.
RunningHasOpen == \A p \in Images : writer[p] = "running" => file[p] = "open"

\* One file at most is open: that of the image the calling thread is at.
OpenIsCurrent ==
    \A p \in Images : file[p] = "open" =>
        p = main.image /\ main.at \in {"submit", "await", "close", "join"}

\* Before the first and after the last image the pool has nothing to do.
PoolAtRest ==
    main.at \in {"header", "ended"} =>
        pool = <<>> /\ \A w \in Workers : busy[w] = NoJob

IInv == Shape /\ RunningHasOpen /\ OpenIsCurrent /\ PoolAtRest

\* The invariant holds at the start.
LEMMA InitIInv == Init => IInv
  BY DEF Init, IInv, Shape, RunningHasOpen, OpenIsCurrent, PoolAtRest

\* The calling thread opens a file only when none is open and closes it only
\* when its writer has ended.
LEMMA MainKeeps == IInv /\ MainStep => IInv'
<1> SUFFICES ASSUME IInv, MainStep PROVE IInv'
  OBVIOUS
<1> USE DEF IInv, Shape, RunningHasOpen, OpenIsCurrent, PoolAtRest, At, Image, Goto,
            threads, images
<1>1. CASE ReadHeader
  BY <1>1 DEF ReadHeader
<1>2. CASE OpenImage
  <2>1. CASE file' = [file EXCEPT ![main.image] = "open"]
    BY <1>2, <2>1 DEF OpenImage
  <2>2. CASE UNCHANGED <<file, writer>>
    BY <1>2, <2>2 DEF OpenImage
  <2> QED
    BY <1>2, <2>1, <2>2 DEF OpenImage
<1>3. CASE Submit
  BY <1>3 DEF Submit
<1>4. CASE Submitted
  BY <1>4 DEF Submitted
<1>5. CASE Await
  BY <1>5 DEF Await
<1>6. CASE CloseWriter
  BY <1>6 DEF CloseWriter
<1>7. CASE CloseFile
  <2>1. main'.at \in {"open", "shutdown"} /\ main' = [at |-> main'.at, image |-> main'.image, next |-> main'.next]
    BY <1>7 DEF CloseFile, NextImage
  <2>2. \A p \in Images : file'[p] # "open" /\ writer'[p] # "running"
    BY <1>7 DEF CloseFile
  <2> QED
    BY <1>7, <2>1, <2>2 DEF CloseFile
<1>8. CASE Shutdown
  BY <1>8 DEF Shutdown
<1> QED
  BY <1>1, <1>2, <1>3, <1>4, <1>5, <1>6, <1>7, <1>8 DEF MainStep

\* Pool threads touch no file, and none is at work before there is a job.
LEMMA WorkerKeeps == ASSUME NEW w \in Workers PROVE IInv /\ WorkerStep(w) => IInv'
<1> SUFFICES ASSUME IInv, WorkerStep(w) PROVE IInv'
  OBVIOUS
<1> USE DEF IInv, Shape, RunningHasOpen, OpenIsCurrent, PoolAtRest, images
<1>1. CASE Begin(w)
  BY <1>1 DEF Begin
<1>2. CASE Put(w)
  BY <1>2 DEF Put
<1>3. CASE End(w)
  BY <1>3 DEF End
<1> QED
  BY <1>1, <1>2, <1>3 DEF WorkerStep

\* A writer only ever ends itself.
LEMMA WriterKeeps == ASSUME NEW p \in Images PROVE IInv /\ WriterStep(p) => IInv'
<1> SUFFICES ASSUME IInv, WriterStep(p) PROVE IInv'
  OBVIOUS
<1> USE DEF IInv, Shape, RunningHasOpen, OpenIsCurrent, PoolAtRest, threads
<1>1. CASE Get(p)
  BY <1>1 DEF Get
<1>2. CASE Write(p)
  BY <1>2 DEF Write
<1>3. CASE WriterEnds(p)
  BY <1>3 DEF WriterEnds
<1> QED
  BY <1>1, <1>2, <1>3 DEF WriterStep

LEMMA StepIInv == IInv /\ [Next]_vars => IInv'
<1>1. CASE UNCHANGED vars
  BY <1>1 DEF vars, threads, images, IInv, Shape, RunningHasOpen, OpenIsCurrent, PoolAtRest
<1> QED
  BY <1>1, MainKeeps, WorkerKeeps, WriterKeeps DEF Next

\* IInv is an invariant.
THEOREM Invariance == Spec => []IInv
  BY InitIInv, StepIInv, PTL DEF Spec

\* Whatever the payload, the number of pool threads and the faults, no writer
\* runs once its file is closed.
THEOREM WritersHaveFiles == Spec => []WriterHasFile
<1>1. IInv => WriterHasFile
  BY DEF IInv, RunningHasOpen, WriterHasFile
<1> QED
  BY <1>1, Invariance, PTL

\* Whatever the payload, the number of pool threads and the faults, the result
\* is reported when the pool is empty, every pool thread idle and every file closed.
THEOREM ReportsAreQuiet == Spec => []QuietWhenReported
<1>1. IInv => QuietWhenReported
  BY DEF IInv, RunningHasOpen, OpenIsCurrent, PoolAtRest, QuietWhenReported, At
<1> QED
  BY <1>1, Invariance, PTL

------------------------------------------------------------------------------
(* Nothing that is written gets lost.                                       *)

\* TypeOK, in parts, and what the argument relies on besides.
MainTyped ==
    /\ main = [at |-> main.at, image |-> main.image, next |-> main.next]
    /\ main.at \in Places /\ main.image \in Nat /\ main.next \in Nat \ {0}
    /\ main.at = "header" => main.image = 1
    /\ main.at \in {"open", "submit", "await", "close", "join"} => main.image \in Images
    /\ failures \in Nat

ThreadsTyped ==
    /\ pool \in Seq(Operations)
    /\ busy \in [Workers -> Jobs \cup {NoJob}]
    /\ done \subseteq Operations

ImagesTyped ==
    /\ queue \in [Images -> Seq(Jobs)]
    /\ hand \in [Images -> Jobs \cup {NoJob}]
    /\ written \subseteq Jobs

WritersTyped ==
    /\ writer \in [Images -> {"none", "running", "ended", "dead"}]
    /\ stop \in [Images -> BOOLEAN]
    /\ file \in [Images -> {"none", "open", "closed"}]

RestTyped == bad \subseteq Operations /\ raised \in BOOLEAN

Typed == MainTyped /\ ThreadsTyped /\ ImagesTyped /\ WritersTyped /\ RestTyped

\* The write waits, is in the writer's hands or is in the file.
Kept(p, x) ==
    \/ x \in written
    \/ hand[p] = x
    \/ \E j \in 1 .. Len(queue[p]) : queue[p][j] = x

\* A pool thread has put what it has made.
MadeIsKept ==
    \A w \in Workers : \A p \in Images : \A i \in DOMAIN Plan[p] : \A n \in 0 .. Plan[p][i] :
        busy[w] = <<p, i, n>> => \A k \in 1 .. n : Kept(p, <<p, i, k>>)

Undecodable(p) == \E i \in DOMAIN Plan[p] : <<p, i>> \in bad

\* An operation whose future is resolved has put all its writes.
DoneIsKept ==
    \A p \in Images : \A i \in DOMAIN Plan[p] : <<p, i>> \in done /\ ~Undecodable(p) =>
        \A k \in 1 .. Plan[p][i] : Kept(p, <<p, i, k>>)

AllDone(p) == \A i \in DOMAIN Plan[p] : <<p, i>> \in done

\* The writer is stopped when every operation of its image has been waited for.
StoppedAfterAll ==
    /\ main.at = "await" => \A i \in 1 .. main.next - 1 : <<main.image, i>> \in done
    /\ \A p \in Images :
        /\ stop[p] \/ (main.at \in {"close", "join"} /\ p = main.image)
        /\ ~Undecodable(p)
        => AllDone(p)

\* A writer that has ended has emptied its queue.
EndedIsWhole ==
    \A p \in Images : writer[p] = "ended" /\ ~Undecodable(p) =>
        \A i \in DOMAIN Plan[p] : \A k \in 1 .. Plan[p][i] : <<p, i, k>> \in written

\* It ends because it is stopped; only a failure kills it; a closed image had one.
WriterLives ==
    \A p \in Images :
        /\ writer[p] = "ended" => stop[p]
        /\ writer[p] # "dead"
        /\ file[p] = "closed" => writer[p] # "none"
        /\ p = main.image /\ main.at \in {"submit", "await", "close", "join"} => writer[p] # "none"

WholeInv ==
    failures = 0 =>
        MadeIsKept /\ DoneIsKept /\ StoppedAfterAll /\ EndedIsWhole /\ WriterLives

\* Images, operations and writes by their numbers.
LEMMA PlanIs ==
    /\ Images = 1 .. Len(Plan) /\ Len(Plan) \in Nat
    /\ \A p \in Images :
        /\ Plan[p] \in Seq(Nat \ {0})
        /\ Len(Plan[p]) \in Nat
        /\ DOMAIN Plan[p] = 1 .. Len(Plan[p])
        /\ \A i \in DOMAIN Plan[p] : Plan[p][i] \in Nat \ {0}
<1>1. Plan \in Seq(Seq(Nat \ {0}))
  BY PayloadAssumption
<1>2. \A p \in Images : Plan[p] \in Seq(Nat \ {0})
  BY <1>1 DEF Images
<1>3. ASSUME NEW p \in Images
      PROVE  /\ Len(Plan[p]) \in Nat
             /\ DOMAIN Plan[p] = 1 .. Len(Plan[p])
             /\ \A i \in DOMAIN Plan[p] : Plan[p][i] \in Nat \ {0}
  <2> DEFINE s == Plan[p]
  <2>1. s \in Seq(Nat \ {0})
    BY <1>2
  <2> HIDE DEF s
  <2>2. Len(s) \in Nat /\ DOMAIN s = 1 .. Len(s) /\ \A i \in DOMAIN s : s[i] \in Nat \ {0}
    BY <2>1
  <2> QED
    BY <2>2 DEF s
<1> QED
  BY <1>1, <1>2, <1>3 DEF Images

LEMMA OperationsAre ==
    /\ \A p \in Images : \A i \in DOMAIN Plan[p] : <<p, i>> \in Operations
    /\ \A o \in Operations : /\ o = <<o[1], o[2]>>
                             /\ o[1] \in Images
                             /\ o[2] \in DOMAIN Plan[o[1]]
<1>1. ASSUME NEW o \in Operations
      PROVE  o = <<o[1], o[2]>> /\ o[1] \in Images /\ o[2] \in DOMAIN Plan[o[1]]
  <2>1. PICK p \in Images : o \in {p} \X DOMAIN Plan[p]
    BY DEF Operations
  <2>2. o = <<o[1], o[2]>> /\ o[1] = p /\ o[2] \in DOMAIN Plan[p]
    BY <2>1
  <2> QED
    BY <2>2
<1>2. ASSUME NEW p \in Images, NEW i \in DOMAIN Plan[p]
      PROVE  <<p, i>> \in Operations
  <2>1. <<p, i>> \in {p} \X DOMAIN Plan[p]
    OBVIOUS
  <2> QED
    BY <2>1 DEF Operations
<1> QED
  BY <1>1, <1>2

LEMMA JobsAre ==
    /\ \A p \in Images : \A i \in DOMAIN Plan[p] : \A k \in 0 .. Plan[p][i] : <<p, i, k>> \in Jobs
    /\ \A x \in Jobs : /\ x = <<x[1], x[2], x[3]>> /\ x # NoJob
                       /\ x[1] \in Images
                       /\ x[2] \in DOMAIN Plan[x[1]]
                       /\ x[3] \in 0 .. Plan[x[1]][x[2]]
<1>1. ASSUME NEW x \in Jobs
      PROVE  /\ x = <<x[1], x[2], x[3]>> /\ x # NoJob
             /\ x[1] \in Images
             /\ x[2] \in DOMAIN Plan[x[1]]
             /\ x[3] \in 0 .. Plan[x[1]][x[2]]
  <2>1. PICK o \in Operations : x \in {o[1]} \X {o[2]} \X (0 .. Plan[o[1]][o[2]])
    BY DEF Jobs
  <2>2. x = <<x[1], x[2], x[3]>> /\ x[1] = o[1] /\ x[2] = o[2] /\ x[3] \in 0 .. Plan[o[1]][o[2]]
    BY <2>1
  <2>3. o[1] \in Images /\ o[2] \in DOMAIN Plan[o[1]]
    BY OperationsAre
  <2>4. \A a, b, c : <<a, b, c>> # <<>>
    OBVIOUS
  <2>5. x # NoJob
    BY <2>2, <2>4 DEF NoJob
  <2> QED
    BY <2>2, <2>3, <2>5
<1>2. ASSUME NEW p \in Images, NEW i \in DOMAIN Plan[p], NEW k \in 0 .. Plan[p][i]
      PROVE  <<p, i, k>> \in Jobs
  <2> DEFINE o == <<p, i>>
  <2>1. o \in Operations /\ o[1] = p /\ o[2] = i
    BY OperationsAre
  <2>2. <<p, i, k>> \in {o[1]} \X {o[2]} \X (0 .. Plan[o[1]][o[2]])
    OBVIOUS
  <2> HIDE DEF o
  <2> QED
    BY <2>1, <2>2 DEF Jobs
<1> QED
  BY <1>1, <1>2

\* The types hold at the start.
LEMMA InitTyped == Init => Typed
<1> SUFFICES ASSUME Init PROVE Typed
  OBVIOUS
<1>1. MainTyped
  BY DEF Init, MainTyped, Places
<1>2. ThreadsTyped
  BY DEF Init, ThreadsTyped
<1>3. ImagesTyped
  <2>1. \A p \in Images : queue[p] \in Seq(Jobs)
    BY DEF Init
  <2>2. queue \in [Images -> Seq(Jobs)]
    BY <2>1 DEF Init
  <2> QED
    BY <2>2 DEF Init, ImagesTyped
<1>4. WritersTyped /\ RestTyped
  BY DEF Init, WritersTyped, RestTyped
<1> QED
  BY <1>1, <1>2, <1>3, <1>4 DEF Typed

\* Where the calling thread goes, as a record.
LEMMA GotoIs ==
    ASSUME MainTyped, NEW place, Goto(place)
    PROVE  main' = [at |-> place, image |-> main.image, next |-> 1]
  BY DEF MainTyped, Goto

LEMMA NextIs ==
    ASSUME MainTyped, main' = [main EXCEPT !.next = @ + 1]
    PROVE  main' = [at |-> main.at, image |-> main.image, next |-> main.next + 1]
  BY DEF MainTyped

LEMMA MainIs ==
    ASSUME NEW a \in Places, NEW i \in Nat, NEW n \in Nat \ {0}, failures' \in Nat,
           main' = [at |-> a, image |-> i, next |-> n],
           a = "header" => i = 1,
           a \in {"open", "submit", "await", "close", "join"} => i \in Images
    PROVE  MainTyped'
  BY DEF MainTyped

\* The calling thread keeps them: it submits what the manifest holds.
LEMMA MainStepTyped == Typed /\ MainStep => Typed'
<1> SUFFICES ASSUME Typed, MainStep PROVE Typed'
  OBVIOUS
<1>1. CASE ReadHeader
  <2>1. MainTyped'
    <3>1. Plan # <<>> => 1 \in Images
      BY PlanIs, PayloadAssumption
    <3>2. main.image = 1 /\ failures' \in Nat
      BY <1>1 DEF ReadHeader, Typed, MainTyped, At
    <3>3. ASSUME NEW a \in {"open", "shutdown", "ended"}, Goto(a), a = "open" => Plan # <<>> PROVE MainTyped'
      <4>1. main' = [at |-> a, image |-> 1, next |-> 1]
        BY <3>2, <3>3, GotoIs DEF Typed
      <4> QED
        BY <3>1, <3>2, <3>3, <4>1, MainIs DEF Places
    <3>4. Goto(IF Plan = <<>> THEN "shutdown" ELSE "open") \/ Goto("ended")
      BY <1>1 DEF ReadHeader
    <3> QED
      BY <3>3, <3>4
  <2>2. RestTyped'
    BY <1>1 DEF ReadHeader, Typed, RestTyped
  <2> QED
    BY <1>1, <2>1, <2>2 DEF ReadHeader, Typed, ThreadsTyped, ImagesTyped, WritersTyped, threads, images
<1>2. CASE OpenImage
  <2>1. MainTyped'
    <3>1. failures' \in Nat
      BY <1>2 DEF OpenImage, Typed, MainTyped, Fails
    <3>2. main.image \in Nat /\ main.image \in Images
      BY <1>2 DEF OpenImage, Typed, MainTyped, At
    <3>3. ASSUME NEW a \in {"submit", "shutdown"}, Goto(a) PROVE MainTyped'
      <4>1. main' = [at |-> a, image |-> main.image, next |-> 1]
        BY <3>3, GotoIs DEF Typed
      <4> QED
        BY <3>1, <3>2, <4>1, MainIs DEF Places
    <3> QED
      BY <1>2, <3>3 DEF OpenImage
  <2>2. WritersTyped'
    BY <1>2 DEF OpenImage, Typed, WritersTyped
  <2>3. RestTyped'
    BY <1>2 DEF OpenImage, Typed, RestTyped
  <2> QED
    BY <1>2, <2>1, <2>2, <2>3 DEF OpenImage, Typed, ThreadsTyped, ImagesTyped, threads
<1>3. CASE Submit
  <2>1. MainTyped'
    <3>1. failures' \in Nat
      BY <1>3 DEF Submit, Typed, MainTyped, Fails
    <3>2. main.image \in Nat /\ main.image \in Images /\ main.next \in Nat /\ main.at = "submit"
      BY <1>3 DEF Submit, Typed, MainTyped, At
    <3>3. CASE Goto("close")
      <4>1. main' = [at |-> "close", image |-> main.image, next |-> 1]
        BY <3>3, GotoIs DEF Typed
      <4> QED
        BY <3>1, <3>2, <4>1, MainIs DEF Places
    <3>4. CASE main' = [main EXCEPT !.next = @ + 1]
      <4>1. main' = [at |-> "submit", image |-> main.image, next |-> main.next + 1]
        BY <3>2, <3>4, NextIs DEF Typed
      <4>2. main.next + 1 \in Nat \ {0}
        BY <3>2
      <4> QED
        BY <3>1, <3>2, <4>1, <4>2, MainIs DEF Places
    <3> QED
      BY <1>3, <3>3, <3>4 DEF Submit
  <2>2. main.next \in DOMAIN Plan[main.image] /\ main.image \in Images
    BY <1>3, PlanIs DEF Submit, Typed, MainTyped, At, Image
  <2>3. <<main.image, main.next>> \in Operations
    BY <2>2, OperationsAre
  <2>4. Append(pool, <<main.image, main.next>>) \in Seq(Operations)
    BY <2>3 DEF Typed, ThreadsTyped
  <2>5. ThreadsTyped'
    BY <1>3, <2>4 DEF Submit, Typed, ThreadsTyped, Image
  <2> QED
    BY <1>3, <2>1, <2>5 DEF Submit, Typed, ImagesTyped, WritersTyped, RestTyped, images
<1>4. CASE Submitted
  <2>1. MainTyped'
    <3>1. main' = [at |-> "await", image |-> main.image, next |-> 1]
      BY <1>4, GotoIs DEF Submitted, Typed
    <3>2. main.image \in Nat /\ main.image \in Images /\ failures' \in Nat
      BY <1>4 DEF Submitted, Typed, MainTyped, At
    <3> QED
      BY <3>1, <3>2, MainIs DEF Places
  <2> QED
    BY <1>4, <2>1 DEF Submitted, Typed, ThreadsTyped, ImagesTyped, WritersTyped, RestTyped, threads, images
<1>5. CASE Await
  <2>1. MainTyped'
    <3>1. failures' \in Nat
      BY <1>5 DEF Await, Typed, MainTyped
    <3>2. main.image \in Nat /\ main.image \in Images /\ main.next \in Nat /\ main.at = "await"
      BY <1>5 DEF Await, Typed, MainTyped, At
    <3>3. CASE Goto("close")
      <4>1. main' = [at |-> "close", image |-> main.image, next |-> 1]
        BY <3>3, GotoIs DEF Typed
      <4> QED
        BY <3>1, <3>2, <4>1, MainIs DEF Places
    <3>4. CASE main' = [main EXCEPT !.next = @ + 1]
      <4>1. main' = [at |-> "await", image |-> main.image, next |-> main.next + 1]
        BY <3>2, <3>4, NextIs DEF Typed
      <4>2. main.next + 1 \in Nat \ {0}
        BY <3>2
      <4> QED
        BY <3>1, <3>2, <4>1, <4>2, MainIs DEF Places
    <3> QED
      BY <1>5, <3>3, <3>4 DEF Await
  <2> QED
    BY <1>5, <2>1 DEF Await, Typed, ThreadsTyped, ImagesTyped, WritersTyped, RestTyped, threads, images
<1>6. CASE CloseWriter
  <2>1. MainTyped'
    <3>1. main' = [at |-> "join", image |-> main.image, next |-> 1]
      BY <1>6, GotoIs DEF CloseWriter, Typed
    <3>2. main.image \in Nat /\ main.image \in Images /\ failures' \in Nat
      BY <1>6 DEF CloseWriter, Typed, MainTyped, At
    <3> QED
      BY <3>1, <3>2, MainIs DEF Places
  <2>2. WritersTyped'
    BY <1>6 DEF CloseWriter, Typed, WritersTyped
  <2> QED
    BY <1>6, <2>1, <2>2 DEF CloseWriter, Typed, ThreadsTyped, ImagesTyped, RestTyped, threads
<1>7. CASE CloseFile
  <2>1. MainTyped'
    <3>1. main.image \in Nat /\ main.image \in Images /\ failures' \in Nat /\ main.next \in Nat \ {0}
      BY <1>7 DEF CloseFile, Typed, MainTyped, At
    <3>2. CASE main.image < Len(Plan)
      <4>1. main' = [at |-> "open", image |-> main.image + 1, next |-> 1]
        BY <1>7, <3>2 DEF CloseFile, NextImage, Image
      <4>2. main.image + 1 \in Images /\ main.image + 1 \in Nat
        BY <3>1, <3>2, PlanIs
      <4> QED
        BY <3>1, <4>1, <4>2, MainIs DEF Places
    <3>3. CASE ~(main.image < Len(Plan))
      <4>1. main' = [main EXCEPT !.at = "shutdown"]
        BY <1>7, <3>3 DEF CloseFile, NextImage, Image
      <4>2. main' = [at |-> "shutdown", image |-> main.image, next |-> main.next]
        BY <4>1 DEF Typed, MainTyped
      <4> QED
        BY <3>1, <4>2, MainIs DEF Places
    <3> QED
      BY <3>2, <3>3
  <2>2. WritersTyped'
    BY <1>7 DEF CloseFile, Typed, WritersTyped
  <2> QED
    BY <1>7, <2>1, <2>2 DEF CloseFile, Typed, ThreadsTyped, ImagesTyped, RestTyped, threads
<1>8. CASE Shutdown
  <2>1. MainTyped'
    <3>1. main' = [at |-> "ended", image |-> main.image, next |-> 1]
      BY <1>8, GotoIs DEF Shutdown, Typed
    <3>2. main.image \in Nat /\ failures' \in Nat
      BY <1>8 DEF Shutdown, Typed, MainTyped
    <3> QED
      BY <3>1, <3>2, MainIs DEF Places
  <2> QED
    BY <1>8, <2>1 DEF Shutdown, Typed, ThreadsTyped, ImagesTyped, WritersTyped, RestTyped, threads, images
<1> QED
  BY <1>1, <1>2, <1>3, <1>4, <1>5, <1>6, <1>7, <1>8 DEF MainStep

\* So do the pool threads: an operation makes as many writes as it has.
LEMMA WorkerStepTyped == ASSUME NEW w \in Workers PROVE Typed /\ WorkerStep(w) => Typed'
<1> SUFFICES ASSUME Typed, WorkerStep(w) PROVE Typed'
  OBVIOUS
<1>1. CASE Begin(w)
  <2> DEFINE o == Head(pool)
  <2>1. o \in Operations /\ Tail(pool) \in Seq(Operations)
    BY <1>1 DEF Begin, Typed, ThreadsTyped
  <2>2. busy' = [busy EXCEPT ![w] = <<o[1], o[2], 0>>] /\ pool' = Tail(pool)
    BY <1>1 DEF Begin
  <2> HIDE DEF o
  <2>3. o[1] \in Images /\ o[2] \in DOMAIN Plan[o[1]]
    BY <2>1, OperationsAre
  <2>4. 0 \in 0 .. Plan[o[1]][o[2]]
    BY <2>3, PlanIs
  <2>5. <<o[1], o[2], 0>> \in Jobs
    BY <2>3, <2>4, JobsAre
  <2>6. ThreadsTyped'
    BY <1>1, <2>1, <2>2, <2>5 DEF Begin, Typed, ThreadsTyped
  <2> QED
    BY <1>1, <2>6 DEF Begin, Typed, MainTyped, ImagesTyped, WritersTyped, RestTyped, images
<1>2. CASE Put(w)
  <2> DEFINE b == busy[w]
             x == <<b[1], b[2], b[3] + 1>>
  <2>1. b \in Jobs
    BY <1>2 DEF Put, Typed, ThreadsTyped
  <2>2. Plan[b[1]][b[2]] - b[3] > 0
    BY <1>2 DEF Put, Left
  <2>3. queue' = [queue EXCEPT ![b[1]] = Append(@, x)] /\ busy' = [busy EXCEPT ![w] = x]
    BY <1>2 DEF Put
  <2> HIDE DEF b
  <2>4. b[1] \in Images /\ b[2] \in DOMAIN Plan[b[1]] /\ b[3] + 1 \in 0 .. Plan[b[1]][b[2]]
    BY <2>1, <2>2, JobsAre, PlanIs
  <2>5. x \in Jobs
    BY <2>4, JobsAre
  <2> HIDE DEF x
  <2>6. ThreadsTyped'
    BY <1>2, <2>3, <2>5 DEF Put, Typed, ThreadsTyped
  <2>7. Append(queue[b[1]], x) \in Seq(Jobs)
    BY <2>4, <2>5 DEF Typed, ImagesTyped
  <2>8. ImagesTyped'
    BY <1>2, <2>3, <2>7, ZenonT(60) DEF Put, Typed, ImagesTyped
  <2> QED
    BY <1>2, <2>6, <2>8 DEF Put, Typed, MainTyped, WritersTyped, RestTyped
<1>3. CASE End(w)
  <2>1. busy[w] \in Jobs
    BY <1>3 DEF End, Typed, ThreadsTyped
  <2>2. Job(w) \in Operations
    BY <2>1, JobsAre, OperationsAre DEF Job
  <2>3. ThreadsTyped'
    BY <1>3, <2>2 DEF End, Typed, ThreadsTyped
  <2> QED
    BY <1>3, <2>3 DEF End, Typed, MainTyped, ImagesTyped, WritersTyped, RestTyped, images
<1> QED
  BY <1>1, <1>2, <1>3 DEF WorkerStep

\* And the writers.
LEMMA WriterStepTyped == ASSUME NEW p \in Images PROVE Typed /\ WriterStep(p) => Typed'
<1> SUFFICES ASSUME Typed, WriterStep(p) PROVE Typed'
  OBVIOUS
<1>1. CASE Get(p)
  <2>1. queue[p] \in Seq(Jobs) /\ queue[p] # <<>>
    BY <1>1 DEF Get, Typed, ImagesTyped
  <2>2. Head(queue[p]) \in Jobs /\ Tail(queue[p]) \in Seq(Jobs)
    BY <2>1
  <2>3. ImagesTyped'
    BY <1>1, <2>2 DEF Get, Typed, ImagesTyped
  <2> QED
    BY <1>1, <2>3 DEF Get, Typed, MainTyped, ThreadsTyped, WritersTyped, RestTyped, threads
<1>2. CASE Write(p)
  <2>1. hand[p] \in Jobs
    BY <1>2 DEF Write, Typed, ImagesTyped
  <2>2. ImagesTyped'
    BY <1>2, <2>1 DEF Write, Typed, ImagesTyped
  <2>3. WritersTyped'
    BY <1>2 DEF Write, Typed, WritersTyped
  <2>4. MainTyped'
    BY <1>2 DEF Write, Typed, MainTyped, Fails
  <2> QED
    BY <1>2, <2>2, <2>3, <2>4 DEF Write, Typed, ThreadsTyped, RestTyped, threads
<1>3. CASE WriterEnds(p)
  BY <1>3 DEF WriterEnds, Typed, MainTyped, ThreadsTyped, ImagesTyped, WritersTyped, RestTyped, threads
<1> QED
  BY <1>1, <1>2, <1>3 DEF WriterStep

LEMMA StepTyped == Typed /\ [Next]_vars => Typed'
<1>1. CASE UNCHANGED vars
  BY <1>1 DEF vars, threads, images, Typed, MainTyped, ThreadsTyped, ImagesTyped, WritersTyped, RestTyped
<1> QED
  BY <1>1, MainStepTyped, WorkerStepTyped, WriterStepTyped DEF Next

\* Every variable keeps to its values, whatever the payload and the faults.
THEOREM ValuesKeptTo == Spec => []TypeOK
<1>1. ASSUME Typed PROVE TypeOK
  <2>1. main \in [at : Places, image : Nat, next : Nat] /\ failures \in Nat
    BY <1>1 DEF Typed, MainTyped
  <2> QED
    BY <1>1, <2>1 DEF Typed, ThreadsTyped, ImagesTyped, WritersTyped, RestTyped, TypeOK
<1> QED
  BY <1>1, InitTyped, StepTyped, PTL DEF Spec

\* A call that fails is counted for good, and what can be decoded is given.
LEMMA StepIsCounted ==
    ASSUME Typed, [Next]_vars
    PROVE  bad' = bad /\ (failures' = 0 => failures = 0)
<1>1. failures \in Nat
  BY DEF Typed, MainTyped
<1>2. CASE UNCHANGED vars
  BY <1>2 DEF vars
<1>3. CASE MainStep
  BY <1>1, <1>3 DEF MainStep, ReadHeader, OpenImage, Submit, Submitted, Await, CloseWriter, CloseFile,
                  Shutdown, Fails
<1>4. ASSUME NEW w \in Workers, WorkerStep(w) PROVE bad' = bad /\ failures' = failures
  BY <1>4 DEF WorkerStep, Begin, Put, End
<1>5. ASSUME NEW p \in Images, WriterStep(p) PROVE bad' = bad /\ (failures' = 0 => failures = 0)
  BY <1>1, <1>5 DEF WriterStep, Get, Write, WriterEnds, Fails
<1> QED
  BY <1>2, <1>3, <1>4, <1>5 DEF Next

\* The calling thread leaves what is written and what waits alone.
LEMMA MainMovesNoWrite == MainStep => UNCHANGED <<queue, hand, written>>
  BY DEF MainStep, ReadHeader, OpenImage, Submit, Submitted, Await, CloseWriter, CloseFile, Shutdown, images

\* Unless a call fails, a write that was put somewhere stays somewhere.
LEMMA KeptStays ==
    ASSUME Typed, [Next]_vars, failures' = 0,
           NEW p \in Images, NEW x, x # NoJob, Kept(p, x)
    PROVE  Kept(p, x)'
<1>1. CASE UNCHANGED <<queue, hand, written>>
  BY <1>1 DEF Kept
<1>2. queue[p] \in Seq(Jobs)
  BY DEF Typed, ImagesTyped
<1>3. ASSUME NEW w \in Workers, Put(w) PROVE Kept(p, x)'
  <2> DEFINE b == busy[w]
             y == <<b[1], b[2], b[3] + 1>>
  <2>1. b \in Jobs
    BY <1>3 DEF Put, Typed, ThreadsTyped
  <2>2. queue' = [queue EXCEPT ![b[1]] = Append(@, y)] /\ hand' = hand /\ written' = written
    BY <1>3 DEF Put
  <2> HIDE DEF b
  <2>3. b[1] \in Images /\ y \in Jobs
    <3>1. Plan[b[1]][b[2]] - b[3] > 0
      BY <1>3 DEF Put, Left, b
    <3>2. b[1] \in Images /\ b[2] \in DOMAIN Plan[b[1]] /\ b[3] + 1 \in 0 .. Plan[b[1]][b[2]]
      BY <2>1, <3>1, JobsAre, PlanIs
    <3> QED
      BY <3>2, JobsAre
  <2> HIDE DEF y
  <2>4. queue'[p] = queue[p] \/ queue'[p] = Append(queue[p], y)
    BY <2>2 DEF Typed, ImagesTyped
  <2>5. \A j \in 1 .. Len(queue[p]) : j \in 1 .. Len(queue'[p]) /\ queue'[p][j] = queue[p][j]
    BY <1>2, <2>3, <2>4
  <2> QED
    BY <2>2, <2>5 DEF Kept
<1>4. ASSUME NEW q \in Images, Get(q) PROVE Kept(p, x)'
  <2>1. CASE p # q
    <3>1. queue'[p] = queue[p] /\ hand'[p] = hand[p] /\ written' = written
      BY <1>4, <2>1 DEF Get, Typed, ImagesTyped
    <3> QED
      BY <3>1 DEF Kept
  <2>2. CASE p = q
    <3> DEFINE s == queue[p]
    <3>1. s \in Seq(Jobs) /\ s # <<>> /\ hand[p] = NoJob
      BY <1>2, <1>4, <2>2 DEF Get
    <3>2. hand'[p] = Head(s) /\ queue'[p] = Tail(s) /\ written' = written
      BY <1>4, <2>2 DEF Get, Typed, ImagesTyped
    <3> HIDE DEF s
    <3>3. ASSUME NEW j \in 1 .. Len(s), s[j] = x PROVE Kept(p, x)'
      <4>1. CASE j = 1
        BY <3>1, <3>2, <3>3, <4>1 DEF Kept
      <4>2. CASE j # 1
        <5>1. j - 1 \in 1 .. Len(Tail(s)) /\ Tail(s)[j - 1] = x
          BY <3>1, <3>3, <4>2
        <5> QED
          BY <3>2, <5>1 DEF Kept
      <4> QED
        BY <4>1, <4>2
    <3>4. x \in written \/ \E j \in 1 .. Len(s) : s[j] = x
      BY <3>1 DEF Kept, s
    <3> QED
      BY <3>2, <3>3, <3>4 DEF Kept
  <2> QED
    BY <2>1, <2>2
<1>5. ASSUME NEW q \in Images, Write(q) PROVE Kept(p, x)'
  <2>1. failures = 0
    BY StepIsCounted
  <2>2. written' = written \cup {hand[q]} /\ queue' = queue /\ hand' = [hand EXCEPT ![q] = NoJob]
    BY <1>5, <2>1 DEF Write, Fails
  <2>3. CASE hand[p] = x /\ p = q
    BY <2>2, <2>3 DEF Kept
  <2>4. CASE hand[p] = x /\ p # q
    BY <2>2, <2>4 DEF Kept, Typed, ImagesTyped
  <2>5. CASE hand[p] # x
    BY <2>2, <2>5 DEF Kept
  <2> QED
    BY <2>3, <2>4, <2>5
<1>6. \A w \in Workers : Begin(w) \/ End(w) => UNCHANGED <<queue, hand, written>>
  BY DEF Begin, End, images
<1>7. \A q \in Images : WriterEnds(q) => UNCHANGED <<queue, hand, written>>
  BY DEF WriterEnds
<1> QED
  BY <1>1, <1>3, <1>4, <1>5, <1>6, <1>7, MainMovesNoWrite DEF Next, WorkerStep, WriterStep, vars, images

\* The write of a place is no NoJob.
LEMMA WritesAreNoNoJob == \A p, i, k : <<p, i, k>> # NoJob
  BY DEF NoJob

\* A pool thread goes on to another write or operation only by itself.
LEMMA OwnWork ==
    ASSUME [Next]_vars, NEW w \in Workers, busy'[w] # busy[w]
    PROVE  Begin(w) \/ Put(w) \/ End(w)
<1>1. MainStep => busy' = busy
  BY DEF MainStep, ReadHeader, OpenImage, Submit, Submitted, Await, CloseWriter, CloseFile, Shutdown, threads
<1>2. \A q \in Images : WriterStep(q) => busy' = busy
  BY DEF WriterStep, Get, Write, WriterEnds, threads
<1>3. UNCHANGED vars => busy' = busy
  BY DEF vars, threads
<1>4. ASSUME NEW v \in Workers, v # w, WorkerStep(v) PROVE busy'[w] = busy[w]
  <2>1. \E x : busy' = [busy EXCEPT ![v] = x]
    BY <1>4 DEF WorkerStep, Begin, Put, End
  <2> QED
    BY <2>1, <1>4
<1> QED
  BY <1>1, <1>2, <1>3, <1>4 DEF Next, WorkerStep

\* What a pool thread has made stays put, and Put adds the next one.
LEMMA MadeStaysKept ==
    ASSUME Typed, [Next]_vars, failures' = 0, MadeIsKept
    PROVE  MadeIsKept'
<1> SUFFICES ASSUME NEW w \in Workers, NEW p \in Images, NEW i \in DOMAIN Plan[p], NEW n \in 0 .. Plan[p][i],
                    busy'[w] = <<p, i, n>>, NEW k \in 1 .. n
             PROVE  Kept(p, <<p, i, k>>)'
  BY DEF MadeIsKept
<1>1. CASE busy'[w] = busy[w]
  <2>1. Kept(p, <<p, i, k>>)
    BY <1>1 DEF MadeIsKept
  <2> QED
    BY <2>1, KeptStays, WritesAreNoNoJob
<1>2. CASE busy'[w] # busy[w]
  <2>1. Begin(w) \/ Put(w) \/ End(w)
    BY <1>2, OwnWork
  <2>2. ~Begin(w)
    <3>1. SUFFICES ASSUME Begin(w) PROVE FALSE
      OBVIOUS
    <3>2. busy'[w][3] = 0
      BY <3>1 DEF Begin, Typed, ThreadsTyped
    <3> QED
      BY <3>2
  <2>3. ~End(w)
    BY WritesAreNoNoJob DEF End, Typed, ThreadsTyped
  <2>4. Put(w)
    BY <2>1, <2>2, <2>3
  <2>5. busy'[w] = <<busy[w][1], busy[w][2], busy[w][3] + 1>> /\ busy[w] \in Jobs
    BY <2>4 DEF Put, Typed, ThreadsTyped
  <2>6. busy[w][1] = p /\ busy[w][2] = i /\ n = busy[w][3] + 1
    BY <2>5
  <2>7. busy[w][3] \in 0 .. Plan[p][i] /\ busy[w] = <<p, i, busy[w][3]>>
    BY <2>5, <2>6, JobsAre
  <2>8. busy[w][3] = n - 1 /\ n \in Nat /\ n - 1 \in 0 .. Plan[p][i]
    BY <2>6, <2>7, PlanIs, SMTT(30)
  <2>9. busy[w] = <<p, i, n - 1>>
    BY <2>7, <2>8
  <2>10. CASE k # n
    <3>1. k \in 1 .. n - 1
      BY <2>8, <2>10
    <3>2. Kept(p, <<p, i, k>>)
      BY <2>8, <2>9, <3>1 DEF MadeIsKept
    <3> QED
      BY <3>2, KeptStays, WritesAreNoNoJob
  <2>11. CASE k = n
    <3> DEFINE y == <<p, i, k>>
    <3>1. queue' = [queue EXCEPT ![p] = Append(@, y)]
      BY <2>4, <2>6, <2>11 DEF Put
    <3>2. queue'[p] = Append(queue[p], y) /\ queue[p] \in Seq(Jobs)
      BY <3>1 DEF Typed, ImagesTyped
    <3> HIDE DEF y
    <3>3. Len(queue[p]) + 1 \in 1 .. Len(queue'[p]) /\ queue'[p][Len(queue[p]) + 1] = y
      BY <3>2
    <3>4. Kept(p, y)'
      BY <3>3 DEF Kept
    <3> QED
      BY <3>4 DEF y
  <2> QED
    BY <2>10, <2>11
<1> QED
  BY <1>1, <1>2

\* Only End resolves a future, and never takes that back.
LEMMA OnlyEndIsDone ==
    ASSUME [Next]_vars
    PROVE  done' = done \/ \E w \in Workers : End(w)
  BY DEF Next, MainStep, ReadHeader, OpenImage, Submit, Submitted, Await, CloseWriter, CloseFile, Shutdown,
         WorkerStep, Begin, Put, WriterStep, Get, Write, WriterEnds, vars, threads

LEMMA DoneGrows ==
    ASSUME [Next]_vars
    PROVE  done \subseteq done'
  BY OnlyEndIsDone DEF End

\* An operation that can be decoded is done when its last write is put.
LEMMA DoneStaysKept ==
    ASSUME Typed, [Next]_vars, failures' = 0, MadeIsKept, DoneIsKept
    PROVE  DoneIsKept'
<1>1. bad' = bad
  BY StepIsCounted
<1> SUFFICES ASSUME NEW p \in Images, NEW i \in DOMAIN Plan[p], <<p, i>> \in done', ~Undecodable(p),
                    NEW k \in 1 .. Plan[p][i]
             PROVE  Kept(p, <<p, i, k>>)'
  BY <1>1 DEF DoneIsKept, Undecodable
<1>2. CASE <<p, i>> \in done
  <2>1. Kept(p, <<p, i, k>>)
    BY <1>2 DEF DoneIsKept
  <2> QED
    BY <2>1, KeptStays, WritesAreNoNoJob
<1>3. CASE <<p, i>> \notin done
  <2>1. PICK w \in Workers : End(w)
    BY <1>3, OnlyEndIsDone
  <2>2. Job(w) = <<p, i>> /\ busy[w] \in Jobs
    BY <1>3, <2>1 DEF End, Typed, ThreadsTyped
  <2>3. busy[w] = <<p, i, busy[w][3]>> /\ busy[w][3] \in 0 .. Plan[p][i]
    BY <2>2, JobsAre DEF Job
  <2>4. <<p, i>> \notin bad
    BY DEF Undecodable
  <2>5. Plan[busy[w][1]][busy[w][2]] - busy[w][3] = 0
    BY <2>1, <2>2, <2>4 DEF End, Left
  <2>6. busy[w][3] = Plan[p][i]
    BY <2>3, <2>5, PlanIs
  <2>7. busy[w] = <<p, i, Plan[p][i]>> /\ Plan[p][i] \in 0 .. Plan[p][i]
    BY <2>3, <2>6
  <2>8. Kept(p, <<p, i, k>>)
    BY <2>7 DEF MadeIsKept
  <2> QED
    BY <2>8, KeptStays, WritesAreNoNoJob
<1> QED
  BY <1>2, <1>3

\* The calling thread goes over the operations one after the other.
LEMMA StopsAfterAll ==
    ASSUME Typed, [Next]_vars, failures' = 0, StoppedAfterAll
    PROVE  StoppedAfterAll'
<1>1. bad' = bad /\ failures = 0 /\ done \subseteq done'
  BY StepIsCounted, DoneGrows
<1>2. CASE main' = main /\ stop' = stop
  BY <1>1, <1>2 DEF StoppedAfterAll, Undecodable, AllDone
<1>3. CASE MainStep
  <2>1. CASE ReadHeader \/ OpenImage \/ Shutdown
    <3>1. main'.at \notin {"await", "close", "join"} /\ stop' = stop
      BY <2>1, <1>1 DEF ReadHeader, OpenImage, Shutdown, Typed, MainTyped, Goto, images
    <3> QED
      BY <1>1, <3>1 DEF StoppedAfterAll, Undecodable, AllDone
  <2>2. CASE Submit
    <3>1. main'.at = "submit" /\ stop' = stop
      BY <2>2, <1>1 DEF Submit, Typed, MainTyped, Fails, At, images
    <3> QED
      BY <1>1, <3>1 DEF StoppedAfterAll, Undecodable, AllDone
  <2>3. CASE Submitted
    <3>1. main' = [at |-> "await", image |-> main.image, next |-> 1] /\ stop' = stop
      BY <2>3, GotoIs DEF Submitted, Typed, images
    <3>2. \A i \in 1 .. main'.next - 1 : <<main'.image, i>> \in done'
      BY <3>1
    <3> QED
      BY <1>1, <3>1, <3>2 DEF StoppedAfterAll, Undecodable, AllDone
  <2>4. CASE Await
    <3>1. main.at = "await" /\ main.image \in Images /\ main.next \in Nat \ {0} /\ stop' = stop
      BY <2>4 DEF Await, At, Typed, MainTyped, images
    <3>2. \A i \in 1 .. main.next - 1 : <<main.image, i>> \in done
      BY <3>1 DEF StoppedAfterAll
    <3>3. \A p \in Images : stop'[p] /\ ~Undecodable(p)' => AllDone(p)'
      BY <1>1, <3>1 DEF StoppedAfterAll, Undecodable, AllDone
    <3>4. CASE main' = [main EXCEPT !.next = @ + 1] /\ <<main.image, main.next>> \in done
      <4>1. main' = [at |-> "await", image |-> main.image, next |-> main.next + 1]
        BY <3>1, <3>4, NextIs DEF Typed
      <4>2. \A i \in 1 .. main'.next - 1 : <<main'.image, i>> \in done'
        BY <1>1, <3>1, <3>2, <3>4, <4>1
      <4> QED
        BY <3>3, <4>1, <4>2 DEF StoppedAfterAll
    <3>5. CASE Goto("close") /\ (Undecodable(main.image) \/ main.next > Len(Plan[main.image]))
      <4>1. main' = [at |-> "close", image |-> main.image, next |-> 1]
        BY <3>5, GotoIs DEF Typed
      <4>2. main.next > Len(Plan[main.image]) => AllDone(main.image)
        BY <3>1, <3>2, PlanIs DEF AllDone
      <4>3. ASSUME NEW p \in Images, p = main.image, ~Undecodable(p)' PROVE AllDone(p)'
        BY <1>1, <3>5, <4>2, <4>3 DEF Undecodable, AllDone
      <4> QED
        BY <3>3, <4>1, <4>3 DEF StoppedAfterAll
    <3>6. <<main.image, main.next>> \in bad /\ main.next \in 1 .. Len(Plan[main.image]) => Undecodable(main.image)
      BY <3>1, PlanIs DEF Undecodable
    <3> QED
      BY <2>4, <3>1, <3>4, <3>5, <3>6 DEF Await, Image
  <2>5. CASE CloseWriter
    <3>1. main' = [at |-> "join", image |-> main.image, next |-> 1] /\ main.at = "close"
      BY <2>5, GotoIs DEF CloseWriter, Typed, At
    <3>2. ASSUME NEW p \in Images, stop'[p] \/ p = main.image, ~Undecodable(p)' PROVE AllDone(p)'
      <4>1. stop[p] \/ p = main.image
        BY <2>5, <3>2 DEF CloseWriter, Image, Typed, WritersTyped
      <4>2. AllDone(p)
        BY <1>1, <3>1, <3>2, <4>1 DEF StoppedAfterAll, Undecodable
      <4> QED
        BY <1>1, <4>2 DEF AllDone
    <3> QED
      BY <3>1, <3>2 DEF StoppedAfterAll
  <2>6. CASE CloseFile
    <3>1. main'.at \notin {"await", "close", "join"} /\ stop' = stop
      BY <2>6 DEF CloseFile, NextImage, Typed, MainTyped
    <3> QED
      BY <1>1, <3>1 DEF StoppedAfterAll, Undecodable, AllDone
  <2> QED
    BY <1>3, <2>1, <2>2, <2>3, <2>4, <2>5, <2>6 DEF MainStep
<1>4. \A w \in Workers : WorkerStep(w) => main' = main /\ stop' = stop
  BY DEF WorkerStep, Begin, Put, End, images
<1>5. \A p \in Images : WriterStep(p) => main' = main /\ stop' = stop
  BY DEF WriterStep, Get, Write, WriterEnds
<1> QED
  BY <1>2, <1>3, <1>4, <1>5 DEF Next, vars, images

\* Without a failure a writer runs until it is stopped.
LEMMA WriterGoesOn ==
    ASSUME Typed, Shape, [Next]_vars, failures' = 0, WriterLives
    PROVE  WriterLives'
<1>1. failures = 0
  BY StepIsCounted
<1>2. CASE UNCHANGED <<main, writer, stop, file>>
  BY <1>2 DEF WriterLives
<1>3. CASE MainStep
  <2>1. CASE ReadHeader \/ Shutdown
    <3>1. main'.at \notin {"submit", "await", "close", "join"} /\ UNCHANGED <<writer, stop, file>>
      BY <2>1 DEF ReadHeader, Shutdown, Typed, MainTyped, Goto, images
    <3> QED
      BY <3>1 DEF WriterLives
  <2>2. CASE OpenImage
    <3>1. main' = [at |-> "submit", image |-> main.image, next |-> 1]
      BY <1>1, <2>2, GotoIs DEF OpenImage, Typed, Fails
    <3>2. writer' = [writer EXCEPT ![main.image] = "running"] /\ stop' = stop
          /\ file' = [file EXCEPT ![main.image] = "open"]
      BY <1>1, <2>2 DEF OpenImage, Fails, Image
    <3> QED
      BY <3>1, <3>2 DEF WriterLives, Typed, WritersTyped
  <2>3. CASE Submit \/ Submitted \/ Await
    <3>1. main.at \in {"submit", "await"} /\ main'.image = main.image /\ UNCHANGED <<writer, stop, file>>
      BY <2>3 DEF Submit, Submitted, Await, At, Typed, MainTyped, Goto, images
    <3> QED
      BY <3>1 DEF WriterLives
  <2>4. CASE CloseWriter
    <3>1. main.at = "close" /\ main'.image = main.image /\ UNCHANGED <<writer, file>>
          /\ stop' = [stop EXCEPT ![main.image] = TRUE]
      BY <2>4 DEF CloseWriter, At, Image, Typed, MainTyped, Goto
    <3> QED
      BY <3>1 DEF WriterLives, Typed, WritersTyped
  <2>5. CASE CloseFile
    <3>1. main.at = "join" /\ main'.at \in {"open", "shutdown"} /\ UNCHANGED <<writer, stop>>
          /\ file' = [file EXCEPT ![main.image] = "closed"]
      BY <2>5 DEF CloseFile, NextImage, At, Image, Typed, MainTyped
    <3> QED
      BY <3>1 DEF WriterLives, Typed, WritersTyped
  <2> QED
    BY <1>3, <2>1, <2>2, <2>3, <2>4, <2>5 DEF MainStep
<1>4. \A w \in Workers : WorkerStep(w) => UNCHANGED <<main, writer, stop, file>>
  BY DEF WorkerStep, Begin, Put, End, images
<1>5. ASSUME NEW p \in Images, Get(p) \/ Write(p) PROVE UNCHANGED <<main, writer, stop, file>>
  BY <1>1, <1>5 DEF Get, Write, Fails
<1>6. ASSUME NEW p \in Images, WriterEnds(p) PROVE WriterLives'
  BY <1>6 DEF WriterEnds, WriterLives, Typed, WritersTyped
<1> QED
  BY <1>2, <1>3, <1>4, <1>5, <1>6 DEF Next, WriterStep, vars, images

\* A writer that ends has everything its image needs behind it.
LEMMA EndsWhole ==
    ASSUME Typed, [Next]_vars, failures' = 0, DoneIsKept, StoppedAfterAll, EndedIsWhole
    PROVE  EndedIsWhole'
<1>1. bad' = bad /\ failures = 0
  BY StepIsCounted
<1>2. written \subseteq written'
  <2>1. MainStep => written' = written
    BY MainMovesNoWrite
  <2> QED
    BY <2>1 DEF Next, WorkerStep, Begin, Put, End, WriterStep, Get, Write, WriterEnds, vars, images
<1> SUFFICES ASSUME NEW p \in Images, writer'[p] = "ended", ~Undecodable(p),
                    NEW i \in DOMAIN Plan[p], NEW k \in 1 .. Plan[p][i]
             PROVE  <<p, i, k>> \in written'
  BY <1>1 DEF EndedIsWhole, Undecodable
<1>3. CASE writer[p] = "ended"
  BY <1>2, <1>3 DEF EndedIsWhole
<1>4. CASE writer[p] # "ended"
  <2>1. WriterEnds(p)
    <3>1. MainStep => writer'[p] # "ended"
      <4>1. OpenImage => writer' = writer \/ writer' = [writer EXCEPT ![main.image] = "running"]
        BY DEF OpenImage, Image
      <4> QED
        BY <1>4, <4>1 DEF MainStep, ReadHeader, Submit, Submitted, Await, CloseWriter, CloseFile,
                          Shutdown, Typed, WritersTyped, images
    <3>2. \A w \in Workers : ~WorkerStep(w)
      BY <1>4 DEF WorkerStep, Begin, Put, End, images
    <3>3. \A q \in Images : ~Get(q)
      BY <1>4 DEF Get
    <3>4. ASSUME NEW q \in Images, Write(q) PROVE FALSE
      BY <1>4, <3>4 DEF Write, Typed, WritersTyped
    <3>5. ASSUME NEW q \in Images, WriterEnds(q), q # p PROVE FALSE
      BY <1>4, <3>5 DEF WriterEnds, Typed, WritersTyped
    <3>6. ~ UNCHANGED vars
      BY <1>4 DEF vars, images
    <3> QED
      BY <3>1, <3>2, <3>3, <3>4, <3>5, <3>6 DEF Next, WriterStep
  <2>2. stop[p] /\ queue[p] = <<>> /\ hand[p] = NoJob /\ written' = written
    BY <2>1 DEF WriterEnds
  <2>3. <<p, i>> \in done
    BY <2>2 DEF StoppedAfterAll, AllDone
  <2>4. Kept(p, <<p, i, k>>)
    BY <2>3 DEF DoneIsKept
  <2>5. 1 .. Len(queue[p]) = {}
    BY <2>2
  <2> QED
    BY <2>2, <2>4, <2>5, WritesAreNoNoJob DEF Kept
<1> QED
  BY <1>3, <1>4

\* Together they hold from the start and are kept.
LEMMA InitWhole == Init => WholeInv
<1> SUFFICES ASSUME Init PROVE WholeInv
  OBVIOUS
<1>1. MadeIsKept
  <2>1. \A w \in Workers : \A p, i, n : busy[w] # <<p, i, n>>
    BY WritesAreNoNoJob DEF Init
  <2> QED
    BY <2>1 DEF MadeIsKept
<1>2. DoneIsKept /\ EndedIsWhole
  BY DEF Init, DoneIsKept, EndedIsWhole
<1>3. StoppedAfterAll /\ WriterLives
  BY DEF Init, StoppedAfterAll, WriterLives
<1> QED
  BY <1>1, <1>2, <1>3 DEF WholeInv

LEMMA StepWhole == Typed /\ Shape /\ WholeInv /\ [Next]_vars => WholeInv'
<1> SUFFICES ASSUME Typed, Shape, WholeInv, [Next]_vars, failures' = 0
             PROVE  (MadeIsKept /\ DoneIsKept /\ StoppedAfterAll /\ EndedIsWhole /\ WriterLives)'
  BY DEF WholeInv
<1>1. MadeIsKept /\ DoneIsKept /\ StoppedAfterAll /\ EndedIsWhole /\ WriterLives
  BY StepIsCounted DEF WholeInv
<1> QED
  BY <1>1, MadeStaysKept, DoneStaysKept, StopsAfterAll, EndsWhole, WriterGoesOn

\* Whatever the payload, the number of pool threads and the faults, an image that
\* no fault touched has every write in it when its file is closed.
THEOREM UndisturbedImagesAreWhole == Spec => []UndisturbedIsWhole
<1>1. ASSUME IInv, Typed, WholeInv PROVE UndisturbedIsWhole
  <2> SUFFICES ASSUME NEW p \in Images, file[p] = "closed", ~Disturbed(p), NEW x \in AllWrites, x[1] = p
               PROVE  x \in written
    BY DEF UndisturbedIsWhole
  <2>1. failures = 0 /\ ~Undecodable(p)
    BY <1>1 DEF Disturbed, Undecodable, Typed, MainTyped
  <2>2. writer[p] = "ended"
    BY <1>1, <2>1 DEF WholeInv, WriterLives, IInv, RunningHasOpen, Typed, WritersTyped
  <2>3. PICK o \in Operations : x \in Writes(o[1], o[2])
    BY DEF AllWrites
  <2>4. PICK k \in 1 .. Plan[o[1]][o[2]] : x = <<o[1], o[2], k>>
    BY <2>3 DEF Writes
  <2>5. o[1] = p /\ o[2] \in DOMAIN Plan[p]
    BY <2>4, OperationsAre
  <2> QED
    BY <1>1, <2>1, <2>2, <2>4, <2>5 DEF WholeInv, EndedIsWhole
<1>2. Spec => [](IInv /\ Typed /\ WholeInv)
  <2>1. IInv => Shape
    BY DEF IInv
  <2> QED
    BY <2>1, InitIInv, StepIInv, InitTyped, StepTyped, InitWhole, StepWhole, PTL DEF Spec
<1> QED
  BY <1>1, <1>2, PTL

------------------------------------------------------------------------------
(* An operation is worked on once, and no thread of an undisturbed image is   *)
(* stuck.                                                                    *)

\* The calling thread is past the submission of the operation.
Reached(o) ==
    \/ o[1] < main.image
    \/ o[1] = main.image /\ main.at \notin {"header", "open", "submit"}
    \/ o[1] = main.image /\ main.at = "submit" /\ o[2] < main.next

AtWork(w) == busy[w] # NoJob

Given(o) ==
    \/ o \in done
    \/ \E w \in Workers : AtWork(w) /\ Job(w) = o
    \/ \E i \in 1 .. Len(pool) : pool[i] = o

\* Every operation waits, is with one thread or is done, and that only once.
JobsOnce ==
    /\ \A o \in Operations : Given(o) => Reached(o)
    /\ \A w \in Workers : AtWork(w) => Job(w) \notin done
    /\ \A v, w \in Workers : AtWork(v) /\ AtWork(w) /\ Job(v) = Job(w) => v = w
    /\ \A i \in 1 .. Len(pool) : /\ pool[i] \notin done
                                 /\ \A w \in Workers : AtWork(w) => Job(w) # pool[i]
    /\ \A i, k \in 1 .. Len(pool) : pool[i] = pool[k] => i = k

LEMMA InitOnce == Init => JobsOnce
  BY DEF Init, JobsOnce, Given, AtWork

\* The calling thread never comes back to an operation.
LEMMA ReachedStays ==
    ASSUME Typed, MainStep, NEW o \in Operations, Reached(o)
    PROVE  Reached(o)'
<1>1. /\ main = [at |-> main.at, image |-> main.image, next |-> main.next]
      /\ main.image \in Nat /\ main.next \in Nat \ {0}
  BY DEF Typed, MainTyped
<1>2. o[1] \in Nat /\ o[2] \in Nat
  BY OperationsAre, PlanIs
<1>3. CASE ReadHeader \/ OpenImage \/ Submitted \/ Await \/ CloseWriter \/ Shutdown
  <2>1. /\ main'.image = main.image
        /\ main'.at \in {"open", "submit"} => main.at \in {"header", "open"}
        /\ main'.at # "header"
    BY <1>1, <1>3 DEF ReadHeader, OpenImage, Submitted, Await, CloseWriter, Shutdown, Goto, At
  <2> QED
    BY <1>1, <1>2, <2>1 DEF Reached
<1>4. CASE Submit
  <2>1. CASE main' = [main EXCEPT !.next = @ + 1]
    <3>1. main' = [at |-> main.at, image |-> main.image, next |-> main.next + 1]
      BY <2>1, NextIs DEF Typed
    <3> QED
      BY <1>1, <1>2, <3>1 DEF Reached
  <2>2. CASE Goto("close")
    <3>1. main' = [at |-> "close", image |-> main.image, next |-> 1]
      BY <2>2, GotoIs DEF Typed
    <3> QED
      BY <1>1, <1>2, <3>1 DEF Reached
  <2> QED
    BY <1>4, <2>1, <2>2 DEF Submit
<1>5. CASE CloseFile
  <2>1. CASE main' = [at |-> "open", image |-> main.image + 1, next |-> 1]
    BY <1>1, <1>2, <2>1 DEF Reached
  <2>2. CASE main' = [main EXCEPT !.at = "shutdown"]
    <3>1. main'.at = "shutdown" /\ main'.image = main.image
      BY <1>1, <2>2
    <3> QED
      BY <1>1, <1>2, <3>1 DEF Reached
  <2> QED
    BY <1>5, <2>1, <2>2 DEF CloseFile, NextImage, Image
<1> QED
  BY <1>3, <1>4, <1>5 DEF MainStep

\* It submits an operation that nobody was given.
LEMMA MainGivesOnce ==
    ASSUME Typed, MainStep, JobsOnce
    PROVE  JobsOnce'
<1>1. busy' = busy /\ done' = done
  BY DEF MainStep, ReadHeader, OpenImage, Submit, Submitted, Await, CloseWriter, CloseFile, Shutdown, threads
<1>2. CASE pool' = pool
  <2>1. \A o \in Operations : Given(o)' => Given(o)
    BY <1>1, <1>2 DEF Given, AtWork, Job
  <2>2. \A o \in Operations : Given(o)' => Reached(o)'
    BY <2>1, ReachedStays DEF JobsOnce
  <2> QED
    BY <1>1, <1>2, <2>2 DEF JobsOnce, AtWork, Job
<1>3. CASE pool' # pool
  <2>0. PICK new : new = <<main.image, main.next>>
    OBVIOUS
  <2>1. /\ main.at = "submit" /\ main.next \in 1 .. Len(Plan[main.image])
        /\ pool' = Append(pool, new)
        /\ main' = [main EXCEPT !.next = @ + 1]
    <3>1. Submit
      BY <1>3 DEF MainStep, ReadHeader, OpenImage, Submitted, Await, CloseWriter, CloseFile, Shutdown, threads
    <3>2. main.image \in Images /\ main.next \in Nat \ {0}
      BY <3>1 DEF Submit, At, Typed, MainTyped
    <3> QED
      BY <1>3, <2>0, <3>1, <3>2, PlanIs DEF Submit, At, Image
  <2>2. main' = [at |-> "submit", image |-> main.image, next |-> main.next + 1]
    BY <2>1, NextIs DEF Typed
  <2>3. main.image \in Images /\ main.image \in Nat /\ main.next \in Nat
    BY <2>1, PlanIs DEF Typed, MainTyped
  <2>4. new \in Operations /\ new[1] = main.image /\ new[2] = main.next
    BY <2>0, <2>1, <2>3, PlanIs, OperationsAre
  <2>5. ~Given(new)
    <3>1. ~Reached(new)
      BY <2>1, <2>3, <2>4 DEF Reached
    <3> QED
      BY <2>4, <3>1 DEF JobsOnce
  <2>6. Reached(new)'
    BY <2>2, <2>3, <2>4 DEF Reached
  <2>7. pool \in Seq(Operations)
    BY DEF Typed, ThreadsTyped
  <2>8. /\ Len(pool) \in Nat /\ Len(pool') = Len(pool) + 1
        /\ \A i \in 1 .. Len(pool) : pool'[i] = pool[i]
        /\ pool'[Len(pool) + 1] = new
    BY <2>1, <2>4, <2>7
  <2>9. \A i \in 1 .. Len(pool') : i \in 1 .. Len(pool) \/ i = Len(pool) + 1
    BY <2>8
  <2>10. \A o \in Operations : Given(o)' => Reached(o)'
    <3>1. \A o \in Operations : Given(o)' => Given(o) \/ o = new
      BY <1>1, <2>8, <2>9 DEF Given, AtWork, Job
    <3> QED
      BY <2>6, <3>1, ReachedStays DEF JobsOnce
  <2>11. \A i \in 1 .. Len(pool') : /\ pool'[i] \notin done'
                                    /\ \A w \in Workers : AtWork(w)' => Job(w)' # pool'[i]
    BY <1>1, <2>5, <2>8, <2>9 DEF JobsOnce, Given, AtWork, Job
  <2>12. \A i, k \in 1 .. Len(pool') : pool'[i] = pool'[k] => i = k
    BY <2>5, <2>8, <2>9 DEF JobsOnce, Given
  <2> QED
    BY <1>1, <2>10, <2>11, <2>12 DEF JobsOnce, AtWork, Job
<1> QED
  BY <1>2, <1>3

\* A pool thread takes an operation from the others and gives it to none.
LEMMA WorkerKeepsOnce ==
    ASSUME Typed, NEW w \in Workers, WorkerStep(w), JobsOnce
    PROVE  JobsOnce'
<1>1. busy \in [Workers -> Jobs \cup {NoJob}] /\ pool \in Seq(Operations) /\ main' = main
  BY DEF Typed, ThreadsTyped, WorkerStep, Begin, Put, End
<1>2. \A o \in Operations : Reached(o)' <=> Reached(o)
  BY <1>1 DEF Reached
<1>3. CASE Begin(w)
  <2>1. busy[w] = NoJob /\ pool # <<>> /\ done' = done /\ pool' = Tail(pool)
    BY <1>3 DEF Begin
  <2>2. /\ AtWork(w)' /\ Job(w)' = pool[1]
        /\ \A v \in Workers : v # w => (AtWork(v)' <=> AtWork(v)) /\ Job(v)' = Job(v)
    <3>1. /\ busy'[w] = <<Head(pool)[1], Head(pool)[2], 0>>
          /\ \A v \in Workers : v # w => busy'[v] = busy[v]
      BY <1>1, <1>3 DEF Begin
    <3>2. Head(pool) = pool[1] /\ pool[1] \in Operations
      BY <1>1, <2>1
    <3>3. pool[1] = <<pool[1][1], pool[1][2]>>
      BY <3>2, OperationsAre
    <3> QED
      BY <3>1, <3>2, <3>3, WritesAreNoNoJob DEF AtWork, Job
  <2>3. /\ Len(pool) \in Nat /\ 1 \in 1 .. Len(pool)
        /\ \A i \in 1 .. Len(pool') : i + 1 \in 1 .. Len(pool) /\ pool'[i] = pool[i + 1] /\ i + 1 # 1
    BY <1>1, <2>1
  <2>4. \A o : Given(o)' => Given(o)
    BY <2>1, <2>2, <2>3 DEF Given
  <2>5. \A o \in Operations : Given(o)' => Reached(o)'
    BY <1>2, <2>4 DEF JobsOnce
  <2>6. \A i, k \in 1 .. Len(pool') : pool'[i] = pool'[k] => i = k
    <3>1. \A i, k \in 1 .. Len(pool') : pool'[i] = pool'[k] => i + 1 = k + 1
      BY <2>3 DEF JobsOnce
    <3> QED
      BY <3>1
  <2>7. \A i \in 1 .. Len(pool') : /\ pool'[i] \notin done' /\ pool'[i] # pool[1]
                                   /\ \A v \in Workers : AtWork(v) => Job(v) # pool'[i]
    BY <2>1, <2>3 DEF JobsOnce
  <2>8. pool[1] \notin done /\ \A v \in Workers : AtWork(v) => Job(v) # pool[1]
    BY <2>3 DEF JobsOnce
  <2> QED
    BY <2>1, <2>2, <2>5, <2>6, <2>7, <2>8 DEF JobsOnce
<1>4. CASE Put(w)
  <2>1. /\ done' = done /\ pool' = pool
        /\ \A v \in Workers : (AtWork(v)' <=> AtWork(v)) /\ (AtWork(v) => Job(v)' = Job(v))
    BY <1>1, <1>4, WritesAreNoNoJob DEF Put, AtWork, Job
  <2>2. \A o \in Operations : Given(o)' => Given(o)
    BY <2>1 DEF Given
  <2> QED
    BY <1>2, <2>1, <2>2 DEF JobsOnce
<1>5. CASE End(w)
  <2>1. /\ AtWork(w) /\ ~AtWork(w)' /\ done' = done \cup {Job(w)} /\ pool' = pool
        /\ \A v \in Workers : v # w => (AtWork(v)' <=> AtWork(v)) /\ Job(v)' = Job(v)
    BY <1>1, <1>5 DEF End, AtWork, Job
  <2>2. \A o \in Operations : Given(o)' => Given(o)
    BY <2>1 DEF Given
  <2> QED
    BY <1>2, <2>1, <2>2 DEF JobsOnce
<1> QED
  BY <1>3, <1>4, <1>5 DEF WorkerStep

LEMMA StepOnce == Typed /\ JobsOnce /\ [Next]_vars => JobsOnce'
<1> SUFFICES ASSUME Typed, JobsOnce, [Next]_vars PROVE JobsOnce'
  OBVIOUS
<1>1. CASE UNCHANGED <<main, threads>>
  BY <1>1 DEF JobsOnce, Given, Reached, AtWork, Job, threads
<1>2. \A p \in Images : WriterStep(p) => UNCHANGED <<main, threads>>
  BY DEF WriterStep, Get, Write, WriterEnds, threads
<1> QED
  BY <1>1, <1>2, MainGivesOnce, WorkerKeepsOnce DEF Next, vars

\* A pool thread is blocked for good only by the queue of an image that a fault has
\* touched, whatever the payload, the pool and the order of decoding.
THEOREM JamsTakeFaults == Spec => [](\A w \in Workers : Stuck(w) => Disturbed(busy[w][1]))
<1>1. ASSUME Typed, WholeInv, JobsOnce, NEW w \in Workers, Stuck(w)
      PROVE  Disturbed(busy[w][1])
  <2> DEFINE p == busy[w][1]
  <2> SUFFICES ASSUME ~Disturbed(p) PROVE FALSE
    OBVIOUS
  <2>1. AtWork(w) /\ busy[w] \in Jobs /\ writer[p] \in {"ended", "dead"}
    BY <1>1 DEF Stuck, Jammed, AtWork, Typed, ThreadsTyped
  <2>2. p \in Images /\ busy[w][2] \in DOMAIN Plan[p]
    BY <2>1, JobsAre
  <2> HIDE DEF p
  <2>3. failures = 0 /\ ~Undecodable(p)
    BY <1>1, <2>2 DEF Disturbed, Undecodable, Typed, MainTyped
  <2>4. stop[p]
    BY <1>1, <2>1, <2>2, <2>3 DEF WholeInv, WriterLives
  <2>5. AllDone(p)
    BY <1>1, <2>2, <2>3, <2>4 DEF WholeInv, StoppedAfterAll
  <2>6. Job(w) \in done
    BY <2>2, <2>5 DEF AllDone, Job, p
  <2> QED
    BY <1>1, <2>1, <2>6 DEF JobsOnce
<1>2. Spec => [](Typed /\ WholeInv /\ JobsOnce)
  <2>1. IInv => Shape
    BY DEF IInv
  <2> QED
    BY <2>1, InitIInv, StepIInv, InitTyped, StepTyped, InitWhole, StepWhole, InitOnce, StepOnce, PTL DEF Spec
<1>3. Typed /\ WholeInv /\ JobsOnce => \A w \in Workers : Stuck(w) => Disturbed(busy[w][1])
  BY <1>1
<1> QED
  BY <1>2, <1>3, PTL

------------------------------------------------------------------------------
(* What super images are made of                                            *)

IsPair(n) == n = <<n[1], n[2]>>

\* The parts of a super image are no super images, and have either plain names or the
\* names of slots.
PartsOk(parts) ==
  /\ \A n \in DOMAIN parts : IsPair(n) /\ parts[n].parts = <<>>
  /\ \A n \in DOMAIN parts : n[2] = "" => <<n[1], "_a">> \notin DOMAIN parts

\* In a folder only the image named super has parts.
FolderOk(folder) ==
  \A n \in DOMAIN folder :
    /\ PartsOk(folder[n].parts)
    /\ n # SuperName => folder[n].parts = <<>>

Pairs(folder) == \A n \in DOMAIN folder : IsPair(n)

\* What is listed the super image at hand has, unless it was replaced since.
ListedOfImage ==
  ~ unlisted /\ Readable => listed \subseteq DOMAIN input[SuperName].parts

SuperInv ==
  /\ FolderOk(output)
  /\ FolderOk(input)
  /\ Pairs(input)
  /\ ListedOfImage

------------------------------------------------------------------------------
(* Folders                                                                  *)

\* The two members of a pair.
LEMMA PairHas ==
  ASSUME NEW n, NEW a, NEW b, n = <<a, b>>
  PROVE  n[1] = a /\ n[2] = b
  OBVIOUS

LEMMA PairIs ==
  ASSUME NEW a, NEW b
  PROVE  IsPair(<<a, b>>)
  BY DEF IsPair

\* A name of slot a and its plain name.
LEMMA SlotName ==
  ASSUME NEW n, NEW s, IsPair(n), n[2] = s
  PROVE  n = <<n[1], s>>
  BY DEF IsPair

\* What is put over another folder goes before it.
LEMMA OverHas ==
  ASSUME NEW f, NEW g
  PROVE  /\ DOMAIN PutOver(f, g) = DOMAIN f \cup DOMAIN g
         /\ \A n \in DOMAIN PutOver(f, g) :
               PutOver(f, g)[n] = IF n \in DOMAIN g THEN g[n] ELSE f[n]
  BY DEF PutOver

\* A single file as a folder.
LEMMA OneHas ==
  ASSUME NEW m, NEW one
  PROVE  DOMAIN OneFile(m, one) = {m} /\ OneFile(m, one)[m] = one
  BY DEF OneFile

\* Two sound folders over each other are sound.
LEMMA OverOk ==
  ASSUME NEW f, NEW g, FolderOk(f), FolderOk(g)
  PROVE  FolderOk(PutOver(f, g))
  BY DEF PutOver, FolderOk

LEMMA OverPairs ==
  ASSUME NEW f, NEW g, Pairs(f), Pairs(g)
  PROVE  Pairs(PutOver(f, g))
  BY DEF PutOver, Pairs

LEMMA WithoutOk ==
  ASSUME NEW f, NEW S, FolderOk(f)
  PROVE  FolderOk(Without(f, S))
  BY DEF FolderOk, Without

LEMMA WithoutPairs ==
  ASSUME NEW f, NEW S, Pairs(f)
  PROVE  Pairs(Without(f, S))
  BY DEF Pairs, Without

\* A file without parts may have any name.
LEMMA OneOk ==
  ASSUME NEW m, NEW one, one.parts = <<>>
  PROVE  FolderOk(OneFile(m, one))
<1>1. DOMAIN one.parts = {}
  OBVIOUS
<1> QED
  BY <1>1 DEF OneFile, FolderOk, PartsOk

LEMMA OnePairs ==
  ASSUME NEW m, NEW one, IsPair(m)
  PROVE  Pairs(OneFile(m, one))
  BY DEF OneFile, Pairs

\* The names the clean-up gives to images of slot a.
Renamed(folder, n) == n = <<n[1], "">> /\ <<n[1], "_a">> \in DOMAIN folder

\* The clean-up of slot names: what a name has afterwards.
LEMMA CleanedHas ==
  ASSUME NEW folder, Pairs(folder)
  PROVE  \A n : /\ n \in DOMAIN Normalized(folder) <=>
                     /\ n \in DOMAIN folder \/ Renamed(folder, n)
                     /\ ~ (n \in DOMAIN folder /\ n[2] = "_a")
                     /\ ~ (n \in DOMAIN folder /\ n[2] = "_b" /\ folder[n].size = 0)
                /\ n \in DOMAIN Normalized(folder) =>
                     Normalized(folder)[n] =
                       IF Renamed(folder, n)
                         THEN folder[<<n[1], "_a">>] ELSE folder[n]
<1> DEFINE inA == {n \in DOMAIN folder : n[2] = "_a"}
           renamed == [n \in {<<m[1], "">> : m \in inA} |-> folder[<<n[1], "_a">>]]
           emptyB == {n \in DOMAIN folder : n[2] = "_b" /\ folder[n].size = 0}
<1>1. Normalized(folder) = Without(PutOver(folder, renamed), inA \cup emptyB)
  BY DEF Normalized
<1>2. \A n : n \in DOMAIN renamed <=> Renamed(folder, n)
  <2> TAKE n
  <2>1. ASSUME n \in DOMAIN renamed PROVE Renamed(folder, n)
    <3>1. PICK m \in inA : n = <<m[1], "">>
      BY <2>1
    <3>2. m = <<m[1], "_a">>
      BY SlotName DEF Pairs
    <3>3. n[1] = m[1]
      BY <3>1, PairHas
    <3> QED
      BY <3>1, <3>2, <3>3 DEF Renamed
  <2>2. ASSUME Renamed(folder, n) PROVE n \in DOMAIN renamed
    <3> DEFINE m == <<n[1], "_a">>
    <3>1. m \in inA /\ m[1] = n[1]
      BY <2>2 DEF Renamed
    <3> QED
      BY <2>2, <3>1 DEF Renamed
  <2> QED
    BY <2>1, <2>2
<1>3. \A n \in DOMAIN renamed : renamed[n] = folder[<<n[1], "_a">>]
  OBVIOUS
<1>4. DOMAIN PutOver(folder, renamed) = DOMAIN folder \cup DOMAIN renamed
  BY DEF PutOver
<1>5. \A n \in DOMAIN PutOver(folder, renamed) :
         PutOver(folder, renamed)[n] = IF n \in DOMAIN renamed THEN renamed[n] ELSE folder[n]
  BY DEF PutOver
<1> HIDE DEF renamed
<1>6. /\ DOMAIN Normalized(folder) = (DOMAIN folder \cup DOMAIN renamed) \ (inA \cup emptyB)
      /\ \A n \in DOMAIN Normalized(folder) :
            Normalized(folder)[n] = IF n \in DOMAIN renamed THEN renamed[n] ELSE folder[n]
  BY <1>1, <1>4, <1>5 DEF Without
<1>7. ASSUME NEW n PROVE
         n \in DOMAIN Normalized(folder) <=>
             /\ n \in DOMAIN folder \/ Renamed(folder, n)
             /\ ~ (n \in DOMAIN folder /\ n[2] = "_a")
             /\ ~ (n \in DOMAIN folder /\ n[2] = "_b" /\ folder[n].size = 0)
  <2>1. Renamed(folder, n) => n[2] = ""
    BY PairHas DEF Renamed
  <2> QED
    BY <1>6, <1>2, <2>1
<1>8. ASSUME NEW n \in DOMAIN Normalized(folder) PROVE
         Normalized(folder)[n] =
             IF Renamed(folder, n)
               THEN folder[<<n[1], "_a">>] ELSE folder[n]
  BY <1>6, <1>2, <1>3
<1> QED
  BY <1>7, <1>8

\* It leaves a sound folder sound.
LEMMA CleanedOk ==
  ASSUME NEW folder, Pairs(folder), FolderOk(folder)
  PROVE  FolderOk(Normalized(folder)) /\ Pairs(Normalized(folder))
<1>1. ASSUME NEW n \in DOMAIN Normalized(folder)
      PROVE  /\ PartsOk(Normalized(folder)[n].parts)
             /\ n # SuperName => Normalized(folder)[n].parts = <<>>
             /\ IsPair(n)
  <2>1. CASE Renamed(folder, n)
    <3>1. Normalized(folder)[n] = folder[<<n[1], "_a">>]
      BY <2>1, <1>1, CleanedHas
    <3>4. <<n[1], "_a">> \in DOMAIN folder /\ IsPair(n)
      BY <2>1, PairIs DEF Renamed
    <3>2. <<n[1], "_a">> # SuperName
      BY DEF SuperName
    <3> QED
      BY <2>1, <3>1, <3>2, <3>4 DEF FolderOk
  <2>2. CASE ~ (Renamed(folder, n))
    <3>1. Normalized(folder)[n] = folder[n]
      BY <2>2, <1>1, CleanedHas
    <3>2. n \in DOMAIN folder
      BY <2>2, <1>1, CleanedHas
    <3> QED
      BY <3>1, <3>2 DEF FolderOk, Pairs
  <2> QED
    BY <2>1, <2>2
<1> QED
  BY <1>1 DEF FolderOk, Pairs

------------------------------------------------------------------------------
(* What packing makes                                                       *)

\* The first of the names, when it is there.
LEMMA FirstIsThere ==
  ASSUME NEW folder, NEW m, NEW n, m \in DOMAIN folder
  PROVE  FirstIn(folder, <<m, n>>) = <<folder[m]>>
<1> DEFINE I == {i \in 1..Len(<<m, n>>) : <<m, n>>[i] \in DOMAIN folder}
<1>1. 1 \in I /\ \A y \in I : 1 <= y
  OBVIOUS
<1>2. \A x \in I : (\A y \in I : x <= y) => x = 1
  BY <1>1
<1>3. (CHOOSE x \in I : \A y \in I : x <= y) = 1
  BY <1>1, <1>2
<1>4. I # {} /\ <<m, n>>[1] = m
  BY <1>1
<1> QED
  BY <1>3, <1>4 DEF FirstIn, SelectInSeq, Min

\* The partitions of a super image are no super images themselves.
LEMMA PartitionsOk ==
  ASSUME NEW bases, NEW type
  PROVE  PartsOk(Partitions(bases, type))
<1> DEFINE slotA == IF type = 1 THEN "" ELSE "_a"
           Content(one) == IF one.parts = <<>> THEN one ELSE Entangled
           a == [n \in {<<b, slotA>> : b \in bases} |-> Content(InSlotA(n[1])[1])]
           b == [n \in {<<x, "_b">> : x \in IF type = 1 THEN {} ELSE bases} |->
                    IF InSlotB(n[1]) = <<>> THEN Plain(0, 0) ELSE Content(InSlotB(n[1])[1])]
<1>1. Partitions(bases, type) = PutOver(a, b)
  BY DEF Partitions
<1>2. \A one : Content(one).parts = <<>>
  BY DEF Entangled, Plain
<1>3. Plain(0, 0).parts = <<>>
  BY DEF Plain
<1> HIDE DEF Content
<1>4. \A n \in DOMAIN a : (\E x : n = <<x, slotA>>) /\ a[n].parts = <<>>
  BY <1>2
<1>5. \A n \in DOMAIN b : type # 1 /\ (\E x : n = <<x, "_b">>) /\ b[n].parts = <<>>
  BY <1>2, <1>3
<1> HIDE DEF a, b
<1>6. ASSUME NEW n \in DOMAIN PutOver(a, b)
      PROVE  /\ IsPair(n) /\ PutOver(a, b)[n].parts = <<>>
             /\ n[2] \in {slotA, "_b"} /\ (type = 1 => n[2] = "")
  <2>1. CASE n \in DOMAIN b
    <3>1. PutOver(a, b)[n] = b[n]
      BY <2>1, <1>6 DEF PutOver
    <3>2. PICK x : n = <<x, "_b">>
      BY <2>1, <1>5
    <3>3. IsPair(n) /\ n[2] = "_b"
      BY <3>2, PairIs, PairHas
    <3> QED
      BY <2>1, <3>1, <3>3, <1>5
  <2>2. CASE n \notin DOMAIN b
    <3>1. PutOver(a, b)[n] = a[n] /\ n \in DOMAIN a
      BY <2>2, <1>6 DEF PutOver
    <3>2. PICK x : n = <<x, slotA>>
      BY <3>1, <1>4
    <3>3. IsPair(n) /\ n[2] = slotA
      BY <3>2, PairIs, PairHas
    <3> QED
      BY <3>1, <3>3, <1>4
  <2> QED
    BY <2>1, <2>2
<1>7. ASSUME NEW n \in DOMAIN PutOver(a, b), n[2] = ""
      PROVE  <<n[1], "_a">> \notin DOMAIN PutOver(a, b)
  BY <1>6, <1>7
<1> QED
  BY <1>1, <1>6, <1>7 DEF PartsOk

\* What is selected is among what there is to select.
LEMMA SelectedAre ==
  ASSUME NEW names, NEW selected \in Selections(names)
  PROVE  selected \subseteq names
  BY DEF Selections, kSubset

------------------------------------------------------------------------------
(* The invariant                                                            *)

LEMMA SuperInitInv == SuperInit => SuperInv
  BY DEF SuperInit, SuperInv, FolderOk, Pairs, ListedOfImage, Readable

\* What an extraction reads and writes.
LEMMA WrittenOk ==
  ASSUME SuperInv, NEW names, Readable, names \subseteq DOMAIN input[SuperName].parts
  PROVE  FolderOk(Written(names)) /\ Pairs(Written(names))
<1> DEFINE new == [n \in names |-> input[SuperName].parts[n]]
<1>1. PartsOk(input[SuperName].parts)
  BY DEF SuperInv, FolderOk, Readable
<1>2. PartsOk(<<>>)
  BY DEF PartsOk
<1>3. FolderOk(new) /\ Pairs(new)
  BY <1>1, <1>2 DEF PartsOk, FolderOk, Pairs
<1> HIDE DEF new
<1>4. Written(names) = PutOver(input, new)
  BY DEF Written, new
<1> QED
  BY <1>3, <1>4, OverOk, OverPairs DEF SuperInv

\* A file the program makes of one image has no parts.
LEMMA CutOk == Cut.parts = <<>> /\ \A id, k : Plain(id, k).parts = <<>>
  BY DEF Cut, Plain

\* What no step but those on input touches.
LEMMA InputKept ==
  ASSUME SuperInv, UNCHANGED <<input, listed, unlisted>>, FolderOk(output')
  PROVE  SuperInv'
  BY DEF SuperInv, FolderOk, Pairs, ListedOfImage, Readable

LEMMA PackFailsKeeps ==
  ASSUME SuperInv, NEW selected, NEW type, PackFails(selected, type)
  PROVE  SuperInv'
<1>1. IsPair(SuperName)
  BY PairIs DEF SuperName
<1>2. FolderOk(OneFile(SuperName, Cut))
  BY <1>1, CutOk, OneOk
<1>3. FolderOk(output')
  BY <1>2, OverOk DEF PackFails, SuperInv
<1> QED
  BY <1>3, InputKept DEF PackFails

\* A super image is made under its name, and of its parts none has parts.
LEMMA PackKeeps ==
  ASSUME SuperInv, NEW selected, NEW type, NEW sparse, NEW delete,
         Pack(selected, type, sparse, delete)
  PROVE  SuperInv'
<1> DEFINE made == [id |-> 0, size |-> size, sparse |-> sparse,
                    parts |-> Partitions(PartList(selected), type)]
           packed == PutOver(output, OneFile(SuperName, made))
<1>1. PartsOk(made.parts)
  BY PartitionsOk
<1>2. FolderOk(OneFile(SuperName, made))
  BY <1>1 DEF OneFile, FolderOk
<1> HIDE DEF made
<1>3. FolderOk(packed)
  BY <1>2, OverOk DEF SuperInv
<1> HIDE DEF packed
<1>4. output' \in {packed, Without(packed, Removed(selected))}
  BY DEF Pack, packed, made
<1>5. FolderOk(output')
  BY <1>3, <1>4, WithoutOk
<1> QED
  BY <1>5, InputKept DEF Pack

LEMMA ScanKeeps ==
  ASSUME SuperInv, Scan
  PROVE  SuperInv'
  BY DEF SuperInv, Scan, FolderOk, Pairs, ListedOfImage, Readable

\* What is found is in the super image.
LEMMA FoundIs ==
  ASSUME NEW chosen, Found(chosen) # {}
  PROVE  Readable /\ Found(chosen) = chosen \cap DOMAIN input[SuperName].parts
  BY DEF Found

\* The files an extraction leaves in input, and the super image among them.
LEMMA InputSound ==
  ASSUME SuperInv, UNCHANGED <<output, listed>>, FolderOk(input'), Pairs(input'),
         ~ unlisted' => /\ ~ unlisted
                        /\ Readable' => Readable /\ input'[SuperName] = input[SuperName]
  PROVE  SuperInv'
  BY DEF SuperInv, FolderOk, Pairs, ListedOfImage, Readable

LEMMA ExtractKeeps ==
  ASSUME SuperInv, NEW chosen, Extract(chosen)
  PROVE  SuperInv'
<1>1. CASE Found(chosen) = {}
  BY <1>1 DEF Extract, SuperInv, FolderOk, Pairs, ListedOfImage, Readable
<1>2. CASE Found(chosen) # {}
  <2> DEFINE folder == Written(Found(chosen))
  <2>1. FolderOk(folder) /\ Pairs(folder)
    BY <1>2, FoundIs, WrittenOk
  <2>2. input' = Normalized(folder)
    BY <1>2 DEF Extract
  <2>3. FolderOk(input') /\ Pairs(input')
    BY <2>1, <2>2, CleanedOk
  <2>4. ASSUME ~ unlisted', Readable'
        PROVE  Readable /\ input'[SuperName] = input[SuperName]
    <3>1. SuperName \notin Found(chosen)
      BY <2>4 DEF Extract
    <3>2. SuperName \in DOMAIN input'
      BY <2>4 DEF Readable
    <3>3. CASE Renamed(folder, SuperName)
      <4>1. input'[SuperName] = folder[<<SuperName[1], "_a">>]
        BY <2>1, <2>2, <3>2, <3>3, CleanedHas
      <4>2. <<SuperName[1], "_a">> \in DOMAIN folder /\ <<SuperName[1], "_a">> # SuperName
        BY <3>3 DEF Renamed, SuperName
      <4>3. input'[SuperName].parts = <<>>
        BY <4>1, <4>2, <2>1 DEF FolderOk
      <4> QED
        BY <4>3, <2>4 DEF Readable
    <3>4. CASE ~ Renamed(folder, SuperName)
      <4>1. input'[SuperName] = folder[SuperName] /\ SuperName \in DOMAIN folder
        BY <2>1, <2>2, <3>2, <3>4, CleanedHas
      <4>2. folder[SuperName] = input[SuperName]
        BY <3>1, <4>1 DEF Written, PutOver
      <4> QED
        BY <1>2, FoundIs, <4>1, <4>2
    <3> QED
      BY <3>3, <3>4
  <2>5. ~ unlisted' => ~ unlisted
    BY DEF Extract
  <2> QED
    BY <2>3, <2>4, <2>5, InputSound DEF Extract
<1> QED
  BY <1>1, <1>2

LEMMA ExtractFailsKeeps ==
  ASSUME SuperInv, NEW chosen, chosen \subseteq listed, ExtractFails(chosen)
  PROVE  SuperInv'
<1>1. PICK whole \in SUBSET Found(chosen), cut \in Found(chosen) :
         /\ input' = PutOver(Written(whole), OneFile(cut, Cut))
         /\ unlisted' = (unlisted \/ SuperName \in whole \cup {cut})
  BY DEF ExtractFails
<1>2. Readable /\ Found(chosen) \subseteq DOMAIN input[SuperName].parts
  BY FoundIs
<1>3. FolderOk(Written(whole)) /\ Pairs(Written(whole))
  BY <1>2, WrittenOk
<1>4. IsPair(cut)
  BY <1>2 DEF SuperInv, FolderOk, PartsOk, Readable
<1>5. FolderOk(OneFile(cut, Cut)) /\ Pairs(OneFile(cut, Cut))
  BY <1>4, CutOk, OneOk, OnePairs
<1>6. FolderOk(input') /\ Pairs(input')
  BY <1>1, <1>3, <1>5, OverOk, OverPairs
<1>7. ASSUME ~ unlisted'
      PROVE  ~ unlisted /\ input'[SuperName] = input[SuperName]
  <2>1. SuperName \notin whole /\ SuperName # cut /\ ~ unlisted
    BY <1>7, <1>1
  <2>2. SuperName \in DOMAIN input
    BY <1>2 DEF Readable
  <2> QED
    BY <2>1, <2>2, <1>1 DEF Written, PutOver, OneFile
<1> QED
  BY <1>2, <1>6, <1>7, InputSound DEF ExtractFails

LEMMA MakeImageKeeps ==
  ASSUME SuperInv, NEW place \in Placed, MakeImage(place)
  PROVE  SuperInv'
<1> DEFINE one == Plain(edition', ImageSize[edition'])
<1>1. IsPair(place[2])
  BY SuperConstants DEF IsPair
<1>2. one.parts = <<>>
  BY CutOk
<1> HIDE DEF one
<1>3. FolderOk(OneFile(place[2], one)) /\ Pairs(OneFile(place[2], one))
  BY <1>1, <1>2, OneOk, OnePairs
<1>4. CASE output' = PutOver(output, OneFile(place[2], one)) /\ UNCHANGED input
  <2>1. FolderOk(output')
    BY <1>3, <1>4, OverOk DEF SuperInv
  <2> QED
    BY <1>4, <2>1, InputKept DEF MakeImage
<1>5. CASE input' = PutOver(input, OneFile(place[2], one)) /\ UNCHANGED output
  <2>1. FolderOk(input') /\ Pairs(input')
    BY <1>3, <1>5, OverOk, OverPairs DEF SuperInv
  <2>2. Readable' => Readable /\ input'[SuperName] = input[SuperName]
    BY <1>2, <1>5 DEF Readable, PutOver, OneFile
  <2> QED
    BY <1>5, <2>1, <2>2, InputSound DEF MakeImage
<1> QED
  BY <1>4, <1>5 DEF MakeImage, one

LEMMA MoveSuperKeeps ==
  ASSUME SuperInv, MoveSuper
  PROVE  SuperInv'
<1>1. IsPair(SuperName) /\ PartsOk(output[SuperName].parts)
  BY PairIs DEF SuperName, SuperInv, FolderOk, MoveSuper
<1>2. FolderOk(OneFile(SuperName, output[SuperName])) /\ Pairs(OneFile(SuperName, output[SuperName]))
  BY <1>1, OnePairs DEF OneFile, FolderOk
<1>3. FolderOk(input') /\ Pairs(input')
  BY <1>2, OverOk, OverPairs DEF SuperInv, MoveSuper
<1>4. FolderOk(output')
  BY WithoutOk DEF SuperInv, MoveSuper
<1>5. unlisted'
  BY DEF MoveSuper
<1> QED
  BY <1>3, <1>4, <1>5 DEF SuperInv, FolderOk, Pairs, ListedOfImage

LEMMA SuperNextInv == SuperInv /\ [SuperNext]_superVars => SuperInv'
<1> SUFFICES ASSUME SuperInv, [SuperNext]_superVars PROVE SuperInv'
  OBVIOUS
<1>1. ASSUME NEW n \in Sizes, EnterSize(n) PROVE SuperInv'
  BY <1>1 DEF EnterSize, SuperInv, FolderOk, Pairs, ListedOfImage, Readable
<1>2. ASSUME NEW selected \in Selections(Candidates), RefuseSize(selected) PROVE SuperInv'
  BY <1>2 DEF RefuseSize, SuperInv, FolderOk, Pairs, ListedOfImage, Readable
<1>3. ASSUME NEW selected \in Selections(Candidates), NEW form \in Forms,
             PackFails(selected, form[1]) \/ Pack(selected, form[1], form[2], form[3])
      PROVE  SuperInv'
  BY <1>3, PackFailsKeeps, PackKeeps
<1>4. CASE Scan
  BY <1>4, ScanKeeps
<1>5. ASSUME NEW chosen \in Selections(listed), Extract(chosen) \/ ExtractFails(chosen)
      PROVE  SuperInv'
  BY <1>5, SelectedAre, ExtractKeeps, ExtractFailsKeeps
<1>6. ASSUME NEW place \in Placed, MakeImage(place) PROVE SuperInv'
  BY <1>6, MakeImageKeeps
<1>7. CASE MoveSuper
  BY <1>7, MoveSuperKeeps
<1>8. CASE UNCHANGED superVars
  BY <1>8 DEF superVars, SuperInv, FolderOk, Pairs, ListedOfImage, Readable
<1> QED
  BY <1>1, <1>2, <1>3, <1>4, <1>5, <1>6, <1>7, <1>8 DEF SuperNext

------------------------------------------------------------------------------
(* The properties                                                           *)

\* What an extraction leaves of a partition it has found.
LEMMA TakenApart ==
  ASSUME SuperInv, NEW chosen, Extract(chosen), NEW n \in Found(chosen), ~ Overridden(n)
  PROVE  LET content == input[SuperName].parts[n]
             name == IF n[2] = "_a" THEN <<n[1], "">> ELSE n
         IN  /\ content.size > 0 => name \in DOMAIN input'
             /\ name \in DOMAIN input' => input'[name] = content
             /\ n[2] = "_a" => n \notin DOMAIN input'
             /\ n \in DOMAIN input' => name = n
<1> DEFINE content == input[SuperName].parts[n]
           name == IF n[2] = "_a" THEN <<n[1], "">> ELSE n
           folder == Written(Found(chosen))
<1>1. Readable /\ Found(chosen) = chosen \cap DOMAIN input[SuperName].parts
  BY FoundIs
<1>2. FolderOk(folder) /\ Pairs(folder)
  BY <1>1, WrittenOk
<1>3. input' = Normalized(folder)
  BY DEF Extract
<1>4. IsPair(n) /\ PartsOk(input[SuperName].parts)
  BY <1>1 DEF SuperInv, FolderOk, PartsOk, Readable
<1>5. n \in DOMAIN folder /\ folder[n] = content
  BY DEF Written, PutOver
<1> HIDE DEF content
<1>6. CASE n[2] = "_a"
  <2>1. n = <<n[1], "_a">>
    BY <1>4, <1>6, SlotName
  <2>2. name = <<n[1], "">> /\ name[1] = n[1] /\ name[2] = ""
    BY <1>6
  <2>3. Renamed(folder, name)
    BY <2>1, <2>2, <1>5 DEF Renamed
  <2>4. n \notin DOMAIN Normalized(folder)
    BY <1>2, <1>5, <1>6, CleanedHas
  <2> HIDE DEF name
  <2>5. name \in DOMAIN Normalized(folder)
    BY <1>2, <2>2, <2>3, CleanedHas
  <2>6. Normalized(folder)[name] = folder[<<name[1], "_a">>]
    BY <1>2, <2>3, <2>5, CleanedHas
  <2>7. Normalized(folder)[name] = content
    BY <2>1, <2>2, <2>6, <1>5
  <2> QED
    BY <2>4, <2>5, <2>7, <1>3 DEF name, content
<1>7. CASE n[2] # "_a"
  <2>1. ~ Renamed(folder, n)
    <3> SUFFICES ASSUME Renamed(folder, n) PROVE FALSE
      OBVIOUS
    <3>1. n[2] = "" /\ <<n[1], "_a">> \in DOMAIN folder
      BY PairHas DEF Renamed
    <3>2. <<n[1], "_a">> \notin DOMAIN input[SuperName].parts
      BY <3>1, <1>1, <1>4 DEF PartsOk
    <3>3. <<n[1], "_a">> \in DOMAIN input
      BY <3>1, <3>2, <1>1 DEF Written, PutOver
    <3> QED
      BY <3>1, <3>3 DEF Overridden
  <2>2. content.size > 0 => content.size # 0
    OBVIOUS
  <2>3. content.size > 0 => n \in DOMAIN Normalized(folder)
    BY <1>2, <1>5, <1>7, <2>2, CleanedHas
  <2>4. n \in DOMAIN Normalized(folder) => Normalized(folder)[n] = content
    BY <1>2, <1>5, <2>1, CleanedHas
  <2> QED
    BY <1>3, <1>7, <2>3, <2>4 DEF content
<1> QED
  BY <1>6, <1>7

\* What is unpacked of a super image is what was packed into it, over any image of
\* the same name from before, and under no name of a slot a (normalize_super_outputs).
THEOREM UnpackedWasPacked == SuperSpec => UnpackedIsPacked
<1> DEFINE Step ==
      \A chosen \in IF runs' = runs THEN {} ELSE Selections(listed) : Extract(chosen) =>
        \A n \in Found(chosen) :
          LET content == input[SuperName].parts[n]
              name == IF n[2] = "_a" THEN <<n[1], "">> ELSE n IN
            content.size > 0 /\ ~Overridden(n) =>
              /\ name \in DOMAIN input' /\ input'[name] = content
              /\ n[2] = "_a" => n \notin DOMAIN input'
<1>1. SuperInv => Step
  BY TakenApart
<1>2. SuperInv => [Step]_superVars
  BY <1>1
<1> QED
  BY <1>2, SuperInitInv, SuperNextInv, PTL DEF SuperSpec, UnpackedIsPacked

\* An extraction reported done has taken every selected image from the super image
\* at hand: one left from an earlier run never passes for it (extract_super_images).
THEOREM ReportedIsFresh == SuperSpec => SuccessIsFresh
<1> DEFINE Step ==
      \A chosen \in IF runs' = runs THEN {} ELSE Selections(listed) :
        Extract(chosen) /\ ReportedDone(chosen) /\ ~unlisted =>
          \A n \in chosen : ~Overridden(n) =>
            /\ n \in Found(chosen) /\ n \in DOMAIN input'
            /\ input'[n] = input[SuperName].parts[n]
<1>1. ASSUME SuperInv, NEW chosen \in Selections(listed), Extract(chosen), ReportedDone(chosen),
             ~ unlisted, NEW n \in chosen, ~ Overridden(n)
      PROVE  /\ n \in Found(chosen) /\ n \in DOMAIN input'
             /\ input'[n] = input[SuperName].parts[n]
  <2>1. Found(chosen) # {}
    BY <1>1 DEF ReportedDone
  <2>2. n \in Found(chosen)
    BY <1>1, <2>1, SelectedAre, FoundIs DEF SuperInv, ListedOfImage
  <2>3. n \in DOMAIN input'
    BY <1>1, <2>1 DEF ReportedDone, Missing, Extract
  <2>4. input'[n] = input[SuperName].parts[n]
    BY <1>1, <2>2, <2>3, TakenApart
  <2> QED
    BY <2>2, <2>3, <2>4
<1>2. SuperInv => [Step]_superVars
  BY <1>1
<1> QED
  BY <1>2, SuperInitInv, SuperNextInv, PTL DEF SuperSpec, SuccessIsFresh

\* What is packed of a base name whose plain image lies in output is that image.
LEMMA PlainIsPacked ==
  ASSUME NEW bases, NEW type, NEW x \in bases, <<x, "">> \in DOMAIN output,
         output[<<x, "">>].parts = <<>>
  PROVE  output[<<x, "">>] \in Range(Partitions(bases, type))
<1> DEFINE slotA == IF type = 1 THEN "" ELSE "_a"
           Content(one) == IF one.parts = <<>> THEN one ELSE Entangled
           a == [n \in {<<b, slotA>> : b \in bases} |-> Content(InSlotA(n[1])[1])]
           b == [n \in {<<y, "_b">> : y \in IF type = 1 THEN {} ELSE bases} |->
                    IF InSlotB(n[1]) = <<>> THEN Plain(0, 0) ELSE Content(InSlotB(n[1])[1])]
           m == <<x, slotA>>
<1>1. Partitions(bases, type) = PutOver(a, b)
  BY DEF Partitions
<1>2. InSlotA(x) = << output[<<x, "">>] >>
  <2>1. FirstIn(output, << <<x, "">>, <<x, "_a">> >>) = << output[<<x, "">>] >>
    BY FirstIsThere
  <2>2. << output[<<x, "">>] >> # <<>>
    OBVIOUS
  <2> QED
    BY <2>1, <2>2 DEF InSlotA, Resolved
<1>3. m \in DOMAIN a /\ m[1] = x
  OBVIOUS
<1>4. a[m] = output[<<x, "">>]
  <2> DEFINE one == output[<<x, "">>]
  <2>1. InSlotA(m[1])[1] = one
    <3>1. InSlotA(m[1]) = <<one>>
      BY <1>2, <1>3
    <3>2. <<one>>[1] = one
      OBVIOUS
    <3> QED
      BY <3>1, <3>2, Zenon
  <2>2. Content(InSlotA(m[1])[1]) = one
    BY <2>1
  <2> HIDE DEF Content
  <2> QED
    BY <1>3, <2>2
<1>5. m \notin DOMAIN b
  OBVIOUS
<1> HIDE DEF a, b, m
<1>6. m \in DOMAIN PutOver(a, b) /\ PutOver(a, b)[m] = output[<<x, "">>]
  BY <1>3, <1>4, <1>5 DEF PutOver
<1> QED
  BY <1>1, <1>6 DEF Range

\* An image removed after packing is in the super image just written, from whichever
\* folder each slot came; unless super.img itself is removed as well (pack_super).
THEOREM RemovedWasPacked == SuperSpec => RemovedIsPacked
<1> DEFINE gone == DOMAIN output \ DOMAIN output'
           Step == SuperName \in DOMAIN output' =>
                     \A n \in gone : output[n] \in Range(output'[SuperName].parts)
<1>1. ASSUME SuperInv, NEW selected, NEW type, NEW sparse, NEW delete,
             Pack(selected, type, sparse, delete)
      PROVE  Step
  <2> SUFFICES ASSUME SuperName \in DOMAIN output', NEW n \in gone
               PROVE  output[n] \in Range(output'[SuperName].parts)
    OBVIOUS
  <2> DEFINE made == [id |-> 0, size |-> size, sparse |-> sparse,
                      parts |-> Partitions(PartList(selected), type)]
             packed == PutOver(output, OneFile(SuperName, made))
  <2>1. output' = IF delete THEN Without(packed, Removed(selected)) ELSE packed
    BY <1>1 DEF Pack
  <2> HIDE DEF made
  <2>2. DOMAIN packed = DOMAIN output \cup {SuperName} /\ packed[SuperName] = made
    BY DEF PutOver, OneFile
  <2> HIDE DEF packed
  <2>3. n \in Removed(selected) /\ n # SuperName
    BY <2>1, <2>2 DEF Without
  <2>4. output'[SuperName] = made
    BY <2>1, <2>2 DEF Without
  <2>5. PICK x \in PartList(selected) : n = <<x, "">>
    BY <2>3 DEF Removed
  <2>6. output[n].parts = <<>>
    BY <1>1, <2>3 DEF SuperInv, FolderOk
  <2>7. output[n] \in Range(Partitions(PartList(selected), type))
    BY <2>5, <2>6, PlainIsPacked
  <2> QED
    BY <2>4, <2>7 DEF made
<1>2. ASSUME NEW selected, NEW type, PackFails(selected, type)
      PROVE  Step
  BY <1>2 DEF PackFails, PutOver
<1>3. ASSUME MoveSuper
      PROVE  Step
  BY <1>3 DEF MoveSuper, Without
<1>4. ASSUME NEW place, MakeImage(place)
      PROVE  Step
  BY <1>4 DEF MakeImage, PutOver
<1>5. SuperInv /\ [SuperNext]_superVars => [Step]_superVars
  <2> SUFFICES ASSUME SuperInv, SuperNext PROVE Step
    OBVIOUS
  <2>1. CASE UNCHANGED output
    BY <2>1
  <2>2. CASE ~ UNCHANGED output
    BY <2>2, <1>1, <1>2, <1>3, <1>4
       DEF SuperNext, EnterSize, RefuseSize, Scan, Extract, ExtractFails
  <2> QED
    BY <2>1, <2>2
<1> QED
  BY <1>5, SuperInitInv, SuperNextInv, PTL DEF SuperSpec, RemovedIsPacked

------------------------------------------------------------------------------
(* Packing metadata                                                         *)

MetadataSpec == MetadataInit /\ [][MetadataNext]_metadataVars

\* What is kept for each project is a function of the projects.
Mapped ==
    /\ files = [p \in Projects |-> files[p]]
    /\ owners = [p \in Projects |-> owners[p]]
    /\ labels = [p \in Projects |-> labels[p]]
    /\ origin = [p \in Projects |-> [image |-> origin[p].image, labelled |-> origin[p].labelled]]

\* What comes from an image has its number; images have other numbers than what the
\* program makes up, and a partition that is offered was extracted.
Numbered ==
    /\ extracted \in Nat
    /\ \A p \in Projects :
          /\ origin[p].image \in Nat /\ origin[p].image <= extracted
          /\ p \in offered => origin[p].image # Made
          /\ \A n \in DOMAIN files[p] : files[p][n] \in Nat /\ files[p][n] <= extracted

HasEntry(list, n, image) == n \in DOMAIN list /\ list[n] = image

\* Outside torn lists, the files of the image at hand have the entries of that image.
EntriesOfImage ==
    \A p \in Projects \ torn : \A n \in DOMAIN files[p] :
        files[p][n] = origin[p].image /\ origin[p].image # Made =>
            /\ HasEntry(owners[p], n, origin[p].image)
            /\ n \in origin[p].labelled => HasEntry(labels[p], n, origin[p].image)

\* What the scans of a run saw is in the lists that it has brought up to date.
RunOk ==
    prep # NoRun =>
        /\ prep = [at |-> prep.at, of |-> prep.of, patch |-> prep.patch, seen |-> prep.seen]
        /\ prep.at \in {"owners", "labels", "learn", "pack"}
        /\ prep.of \in Projects /\ prep.of \in offered
        /\ prep.at # "owners" => prep.seen \subseteq DOMAIN owners[prep.of]
        /\ prep.at \in {"learn", "pack"} /\ prep.patch => prep.seen \subseteq DOMAIN labels[prep.of]
        /\ prep.at = "learn" => {Root, Part} \subseteq DOMAIN labels[prep.of]

\* The root and the directory of the partition come before every path.
RulesOrdered ==
    \A n \in DOMAIN rules.label \cap FileNames : \A w \in DOMAIN rules.label \cap {Root, Part} :
        <<w, n>> \in rules.order /\ <<n, w>> \notin rules.order

MetadataInv == Mapped /\ Numbered /\ EntriesOfImage /\ RunOk /\ RulesOrdered

LEMMA MadeIsNone == Made = 0 /\ Empty = <<>> /\ DOMAIN Empty = {}
  BY DEF Made, Empty

\* One project's entry of a map over the projects is replaced.
LEMMA OneReplaced ==
    ASSUME NEW f, f = [p \in Projects |-> f[p]], NEW q \in Projects, NEW x
    PROVE  LET g == [f EXCEPT ![q] = x]
           IN  /\ g = [p \in Projects |-> g[p]]
               /\ g[q] = x /\ \A p \in Projects \ {q} : g[p] = f[p]
  OBVIOUS

LEMMA MetadataInitInv == MetadataInit => MetadataInv
<1> SUFFICES ASSUME MetadataInit PROVE MetadataInv
  OBVIOUS
<1>1. Mapped
  BY DEF MetadataInit, Mapped
<1>2. Numbered
  BY MadeIsNone DEF MetadataInit, Numbered, Made
<1>3. EntriesOfImage /\ RunOk
  BY DEF MetadataInit, EntriesOfImage, RunOk
<1>4. rules.label = Shipped
  BY DEF MetadataInit, NoRules
<1>5. RulesOrdered
  BY <1>4, MetadataConstants DEF RulesOrdered
<1> QED
  BY <1>1, <1>2, <1>3, <1>5 DEF MetadataInv

\* Files of other projects, and the lists of all, stay: what a step may do to one
\* project's files without losing an entry.
LEMMA FilesMove ==
    ASSUME MetadataInv, NEW p \in Projects, NEW new,
           files' = [files EXCEPT ![p] = new], extracted' \in Nat, extracted <= extracted',
           UNCHANGED <<owners, labels, origin, offered, torn>>,
           \A n \in DOMAIN new : \/ n \in DOMAIN files[p] /\ new[n] = files[p][n]
                                 \/ new[n] = Made
                                 \/ new[n] = extracted' /\ extracted < extracted'
    PROVE  Mapped' /\ Numbered' /\ EntriesOfImage'
<1>1. /\ files' = [q \in Projects |-> files'[q]]
      /\ files'[p] = new /\ \A q \in Projects \ {p} : files'[q] = files[q]
  BY OneReplaced DEF MetadataInv, Mapped
<1>2. Mapped'
  BY <1>1 DEF MetadataInv, Mapped
<1>3. Numbered'
  BY <1>1 DEF MetadataInv, Numbered, Made
<1>4. EntriesOfImage'
  BY <1>1 DEF MetadataInv, Numbered, EntriesOfImage, HasEntry, Made
<1> QED
  BY <1>2, <1>3, <1>4

LEMMA OverHasMeta ==
    ASSUME NEW new, NEW old
    PROVE  /\ DOMAIN Over(new, old) = DOMAIN new \cup DOMAIN old
           /\ \A k \in DOMAIN Over(new, old) :
                 Over(new, old)[k] = IF k \in DOMAIN new THEN new[k] ELSE old[k]
  BY DEF Over

LEMMA AddFileKeeps ==
    ASSUME MetadataInv, NEW p \in Projects, NEW n \in FileNames, AddFile(p, n)
    PROVE  MetadataInv'
<1> DEFINE new == Over([k \in {n} |-> Made], files[p])
<1>1. files' = [files EXCEPT ![p] = new]
  BY DEF AddFile
<1>2. \A k \in DOMAIN new : \/ k \in DOMAIN files[p] /\ new[k] = files[p][k]
                            \/ new[k] = Made
  BY DEF Over
<1> HIDE DEF new
<1>3. extracted' \in Nat /\ extracted <= extracted'
  BY DEF AddFile, MetadataInv, Numbered
<1>4. Mapped' /\ Numbered' /\ EntriesOfImage'
  <2>1. UNCHANGED <<owners, labels, origin, offered, torn>>
    BY DEF AddFile
  <2> QED
    BY <1>1, <1>2, <1>3, <2>1, FilesMove
<1>5. RunOk' /\ RulesOrdered'
  BY DEF AddFile, MetadataInv, RunOk, RulesOrdered
<1> QED
  BY <1>4, <1>5 DEF MetadataInv

LEMMA DeleteFileKeeps ==
    ASSUME MetadataInv, NEW p \in Projects, NEW n \in FileNames, DeleteFile(p, n)
    PROVE  MetadataInv'
<1> DEFINE new == Restricted(files[p], FileNames \ {n})
<1>1. files' = [files EXCEPT ![p] = new]
  BY DEF DeleteFile
<1>2. \A k \in DOMAIN new : \/ k \in DOMAIN files[p] /\ new[k] = files[p][k]
                            \/ new[k] = Made
  BY DEF Restricted
<1> HIDE DEF new
<1>3. extracted' \in Nat /\ extracted <= extracted'
  BY DEF DeleteFile, MetadataInv, Numbered
<1>4. Mapped' /\ Numbered' /\ EntriesOfImage'
  <2>1. UNCHANGED <<owners, labels, origin, offered, torn>>
    BY DEF DeleteFile
  <2> QED
    BY <1>1, <1>2, <1>3, <2>1, FilesMove
<1>5. RunOk' /\ RulesOrdered'
  BY DEF DeleteFile, MetadataInv, RunOk, RulesOrdered
<1> QED
  BY <1>4, <1>5 DEF MetadataInv

LEMMA ExtractStopsKeeps ==
    ASSUME MetadataInv, NEW p \in Projects, NEW held, ExtractStops(p, held)
    PROVE  MetadataInv'
<1> DEFINE new == Over([k \in held |-> extracted + 1], files[p])
<1>1. files' = [files EXCEPT ![p] = new]
  BY DEF ExtractStops
<1>2. \A k \in DOMAIN new : \/ k \in DOMAIN files[p] /\ new[k] = files[p][k]
                            \/ new[k] = extracted' /\ extracted < extracted'
  BY DEF Over, ExtractStops, MetadataInv, Numbered
<1>3. extracted' \in Nat /\ extracted <= extracted'
  BY DEF ExtractStops, MetadataInv, Numbered
<1> HIDE DEF new
<1>4. Mapped' /\ Numbered' /\ EntriesOfImage'
  <2>1. UNCHANGED <<owners, labels, origin, offered, torn>>
    BY DEF ExtractStops
  <2> QED
    BY <1>1, <1>2, <1>3, <2>1, FilesMove
<1>5. RunOk' /\ RulesOrdered'
  BY DEF ExtractStops, MetadataInv, RunOk, RulesOrdered
<1> QED
  BY <1>4, <1>5 DEF MetadataInv

\* An extraction gives its files the entries of its image.
LEMMA ExtractPartitionKeeps ==
    ASSUME MetadataInv, NEW p \in Projects, NEW held, NEW labelled, ExtractPartition(p, held, labelled)
    PROVE  MetadataInv'
<1> DEFINE image == extracted + 1
           all == {Root, Part} \cup held
           newFiles == Over([n \in held |-> image], files[p])
           newOwners == [k \in all |-> image]
           newLabels == IF labelled = {} THEN labels[p] ELSE [k \in all \cap labelled |-> image]
           newOrigin == [image |-> image, labelled |-> labelled]
<1>0. image \in Nat /\ image # Made /\ extracted < image
  BY DEF MetadataInv, Numbered, Made
<1>1. /\ files' = [q \in Projects |-> files'[q]]
      /\ files'[p] = newFiles /\ \A q \in Projects \ {p} : files'[q] = files[q]
  BY OneReplaced DEF MetadataInv, Mapped, ExtractPartition
<1>2. /\ owners' = [q \in Projects |-> owners'[q]]
      /\ owners'[p] = newOwners /\ \A q \in Projects \ {p} : owners'[q] = owners[q]
  BY OneReplaced DEF MetadataInv, Mapped, ExtractPartition
<1>3. /\ labels' = [q \in Projects |-> labels'[q]]
      /\ labels'[p] = newLabels /\ \A q \in Projects \ {p} : labels'[q] = labels[q]
  BY OneReplaced DEF MetadataInv, Mapped, ExtractPartition
<1>4. /\ origin' = [origin EXCEPT ![p] = newOrigin] /\ extracted' = image
      /\ torn' = (IF labelled = {} THEN torn ELSE torn \ {p})
      /\ offered' \subseteq offered \cup {p}
  BY DEF ExtractPartition
<1>5. /\ origin'[p] = newOrigin /\ \A q \in Projects \ {p} : origin'[q] = origin[q]
      /\ origin' = [q \in Projects |-> origin'[q]]
  BY <1>4 DEF MetadataInv, Mapped
<1>6. \A n \in DOMAIN newFiles : \/ n \in held /\ newFiles[n] = image
                                 \/ n \in DOMAIN files[p] /\ newFiles[n] = files[p][n]
  BY DEF Over
<1>7. /\ \A n \in held : HasEntry(newOwners, n, image)
      /\ labelled # {} => \A n \in held \cap labelled : HasEntry(newLabels, n, image)
  BY DEF HasEntry
<1>8. newOrigin.image = image /\ newOrigin.labelled = labelled
  OBVIOUS
<1> HIDE DEF newFiles, newOwners, newLabels, newOrigin, image
<1>9. Mapped'
  <2>1. \A q \in Projects : origin'[q] = [image |-> origin'[q].image, labelled |-> origin'[q].labelled]
    <3>1. newOrigin = [image |-> newOrigin.image, labelled |-> newOrigin.labelled]
      BY DEF newOrigin
    <3>2. \A q \in Projects : origin[q] = [image |-> origin[q].image, labelled |-> origin[q].labelled]
      BY DEF MetadataInv, Mapped
    <3> QED
      BY <1>5, <3>1, <3>2
  <2> QED
    BY <1>1, <1>2, <1>3, <1>5, <2>1 DEF Mapped
<1>10. Numbered'
  BY <1>0, <1>1, <1>4, <1>5, <1>6, <1>8 DEF MetadataInv, Numbered
<1>11. EntriesOfImage'
  <2>1. ASSUME NEW n \in DOMAIN newFiles, newFiles[n] = image
        PROVE  HasEntry(newOwners, n, image) /\ (n \in labelled => HasEntry(newLabels, n, image))
    <3>1. n \in held
      BY <2>1, <1>0, <1>6 DEF MetadataInv, Numbered
    <3> QED
      BY <3>1, <1>7
  <2> QED
    BY <2>1, <1>1, <1>2, <1>3, <1>4, <1>5, <1>8 DEF MetadataInv, EntriesOfImage
<1>12. RunOk' /\ RulesOrdered'
  BY DEF ExtractPartition, MetadataInv, RunOk, RulesOrdered
<1> QED
  BY <1>9, <1>10, <1>11, <1>12 DEF MetadataInv

LEMMA StartPrepareKeeps ==
    ASSUME MetadataInv, NEW p \in Projects, NEW patch, StartPrepare(p, patch)
    PROVE  MetadataInv'
<1>1. UNCHANGED <<files, owners, labels, origin, offered, rules, torn, extracted>>
  BY DEF StartPrepare
<1>2. Mapped' /\ Numbered' /\ EntriesOfImage' /\ RulesOrdered'
  BY <1>1 DEF MetadataInv, Mapped, Numbered, EntriesOfImage, RulesOrdered
<1>3. prep' = [at |-> "owners", of |-> p, patch |-> patch, seen |-> FileNames] /\ p \in offered
  BY DEF StartPrepare
<1>4. RunOk'
  BY <1>1, <1>3 DEF RunOk
<1> QED
  BY <1>2, <1>4 DEF MetadataInv

\* A run at its next stage, which has seen what there is.
LEMMA RunAt ==
    ASSUME NEW r, r = [at |-> r.at, of |-> r.of, patch |-> r.patch, seen |-> r.seen],
           NEW stage, NEW saw, NEW next, next = [r EXCEPT !.at = stage, !.seen = saw]
    PROVE  /\ next = [at |-> next.at, of |-> next.of, patch |-> next.patch, seen |-> next.seen]
           /\ next.at = stage /\ next.of = r.of /\ next.patch = r.patch /\ next.seen = saw
<1>1. next = [at |-> next.at, of |-> next.of, patch |-> next.patch, seen |-> next.seen]
  OBVIOUS
<1>2. next.at = stage /\ next.of = r.of /\ next.patch = r.patch /\ next.seen = saw
  OBVIOUS
<1> QED
  BY <1>1, <1>2

LEMMA RunGoesOn ==
    ASSUME NEW r, r = [at |-> r.at, of |-> r.of, patch |-> r.patch, seen |-> r.seen],
           NEW stage, NEW next, next = [r EXCEPT !.at = stage]
    PROVE  /\ next = [at |-> next.at, of |-> next.of, patch |-> next.patch, seen |-> next.seen]
           /\ next.at = stage /\ next.of = r.of /\ next.patch = r.patch /\ next.seen = r.seen
<1>1. next = [at |-> next.at, of |-> next.of, patch |-> next.patch, seen |-> next.seen]
  OBVIOUS
<1>2. next.at = stage /\ next.of = r.of /\ next.patch = r.patch /\ next.seen = r.seen
  OBVIOUS
<1> QED
  BY <1>1, <1>2

\* A run at a stage is the one that is prepared.
LEMMA RunIs ==
    ASSUME MetadataInv, prep.at \in {"owners", "labels", "learn", "pack"}
    PROVE  /\ prep = [at |-> prep.at, of |-> prep.of, patch |-> prep.patch, seen |-> prep.seen]
           /\ prep.of \in Projects /\ prep.of \in offered
           /\ prep.at # "owners" => prep.seen \subseteq DOMAIN owners[prep.of]
           /\ prep.at \in {"learn", "pack"} /\ prep.patch => prep.seen \subseteq DOMAIN labels[prep.of]
           /\ prep.at = "learn" => {Root, Part} \subseteq DOMAIN labels[prep.of]
<1>1. prep # NoRun
  BY DEF NoRun
<1> QED
  BY <1>1 DEF MetadataInv, RunOk

LEMMA CompletedHas ==
    ASSUME NEW p
    PROVE  /\ DOMAIN files[p] \subseteq DOMAIN Completed(p)
           /\ \A n, image : n \in DOMAIN files[p] /\ HasEntry(owners[p], n, image)
                               => HasEntry(Completed(p), n, image)
  BY DEF Completed, Scanned, HasEntry

LEMMA RelabelledHas ==
    ASSUME NEW p
    PROVE  /\ DOMAIN files[p] \cup {Root, Part} \subseteq DOMAIN Relabelled(p)
           /\ \A n, image : n \in DOMAIN files[p] /\ HasEntry(labels[p], n, image)
                               => HasEntry(Relabelled(p), n, image)
  BY DEF Relabelled, Scanned, HasEntry

LEMMA PatchOwnersKeeps ==
    ASSUME MetadataInv, PatchOwners
    PROVE  MetadataInv'
<1> DEFINE p == prep.of
           new == Completed(p)
<1>1. /\ prep.at = "owners" /\ owners' = [owners EXCEPT ![p] = new]
      /\ prep' = [prep EXCEPT !.at = IF prep.patch THEN "labels" ELSE "pack", !.seen = SeenBy(p)]
      /\ UNCHANGED <<files, labels, origin, offered, rules, torn, extracted>>
  BY DEF PatchOwners
<1>2. p \in Projects /\ p \in offered
      /\ prep = [at |-> prep.at, of |-> prep.of, patch |-> prep.patch, seen |-> prep.seen]
  BY <1>1, RunIs
<1>3. /\ owners' = [q \in Projects |-> owners'[q]]
      /\ owners'[p] = new /\ \A q \in Projects \ {p} : owners'[q] = owners[q]
  BY <1>1, <1>2, OneReplaced DEF MetadataInv, Mapped
<1>4. DOMAIN files[p] \subseteq DOMAIN new
      /\ \A n, image : n \in DOMAIN files[p] /\ HasEntry(owners[p], n, image)
                          => HasEntry(new, n, image)
  BY CompletedHas
<1>5. /\ prep' = [at |-> prep'.at, of |-> prep'.of, patch |-> prep'.patch, seen |-> prep'.seen]
      /\ prep'.at = (IF prep.patch THEN "labels" ELSE "pack")
      /\ prep'.of = p /\ prep'.patch = prep.patch /\ prep'.seen = SeenBy(p)
  BY <1>1, <1>2, RunAt
<1> HIDE DEF new
<1>6. Mapped'
  BY <1>1, <1>3 DEF MetadataInv, Mapped
<1>7. Numbered' /\ RulesOrdered'
  BY <1>1 DEF MetadataInv, Numbered, RulesOrdered
<1>8. EntriesOfImage'
  BY <1>1, <1>3, <1>4 DEF MetadataInv, EntriesOfImage
<1>9. RunOk'
  <2>1. prep'.seen \subseteq DOMAIN owners'[p]
    BY <1>3, <1>4, <1>5 DEF SeenBy
  <2> QED
    BY <1>1, <1>2, <1>5, <2>1 DEF RunOk
<1> QED
  BY <1>6, <1>7, <1>8, <1>9 DEF MetadataInv

LEMMA PatchLabelsKeeps ==
    ASSUME MetadataInv, PatchLabels
    PROVE  MetadataInv'
<1> DEFINE p == prep.of
           new == Relabelled(p)
<1>1. /\ prep.at = "labels" /\ labels' = [labels EXCEPT ![p] = new]
      /\ prep' = [prep EXCEPT !.at = "learn", !.seen = SeenBy(p)]
      /\ UNCHANGED <<files, owners, origin, offered, rules, torn, extracted>>
  BY DEF PatchLabels
<1>2. /\ p \in Projects /\ p \in offered /\ prep.seen \subseteq DOMAIN owners[p]
      /\ prep = [at |-> prep.at, of |-> prep.of, patch |-> prep.patch, seen |-> prep.seen]
  BY <1>1, RunIs
<1>3. /\ labels' = [q \in Projects |-> labels'[q]]
      /\ labels'[p] = new /\ \A q \in Projects \ {p} : labels'[q] = labels[q]
  BY <1>1, <1>2, OneReplaced DEF MetadataInv, Mapped
<1>4. DOMAIN files[p] \cup {Root, Part} \subseteq DOMAIN new
      /\ \A n, image : n \in DOMAIN files[p] /\ HasEntry(labels[p], n, image)
                          => HasEntry(new, n, image)
  BY RelabelledHas
<1>5. /\ prep' = [at |-> prep'.at, of |-> prep'.of, patch |-> prep'.patch, seen |-> prep'.seen]
      /\ prep'.at = "learn"
      /\ prep'.of = p /\ prep'.patch = prep.patch /\ prep'.seen = SeenBy(p)
  BY <1>1, <1>2, RunAt
<1> HIDE DEF new
<1>6. Mapped'
  BY <1>1, <1>3 DEF MetadataInv, Mapped
<1>7. Numbered' /\ RulesOrdered'
  BY <1>1 DEF MetadataInv, Numbered, RulesOrdered
<1>8. EntriesOfImage'
  BY <1>1, <1>3, <1>4 DEF MetadataInv, EntriesOfImage
<1>9. RunOk'
  <2>1. prep'.seen \subseteq DOMAIN owners'[p] /\ prep'.seen \subseteq DOMAIN labels'[p]
        /\ {Root, Part} \subseteq DOMAIN labels'[p]
    BY <1>1, <1>2, <1>3, <1>4, <1>5 DEF SeenBy
  <2> QED
    BY <1>1, <1>2, <1>5, <2>1 DEF RunOk
<1> QED
  BY <1>6, <1>7, <1>8, <1>9 DEF MetadataInv

\* The root and the directory stand before the names in the file.
LEMMA RootsComeFirst ==
    ASSUME NEW n \in FileNames, NEW w \in {Root, Part}
    PROVE  <<w, n>> \in InFile /\ <<n, w>> \notin InFile
<1>1. Names \in Seq(FileNames) /\ n \notin {Root, Part} /\ Len(Names) \in Nat
  BY MetadataConstants
<1>2. /\ Keys \in Seq(FileNames \cup {Root, Part}) /\ Len(Keys) = 2 + Len(Names)
      /\ Keys[1] = Root /\ Keys[2] = Part
      /\ \A i \in 1 .. Len(Names) : Keys[i + 2] = Names[i]
  BY <1>1 DEF Keys
<1>3. Root # Part
  BY DEF Root, Part
<1>4. PICK i \in 1 .. Len(Names) : Names[i] = n
  BY <1>1 DEF FileNames, ToSet
<1>5. DOMAIN Keys = 1 .. (2 + Len(Names))
  BY <1>2
<1>6. <<w, n>> \in InFile
  <2>1. i + 2 \in DOMAIN Keys /\ {1, 2} \subseteq 1 .. (i + 2 - 1)
    BY <1>1, <1>5
  <2>2. PICK k \in {1, 2} : Keys[k] = w
    BY <1>2
  <2>3. Keys[i + 2] = n
    BY <1>2, <1>4
  <2> QED
    BY <2>1, <2>2, <2>3 DEF InFile
<1>7. <<n, w>> \notin InFile
  <2> SUFFICES ASSUME NEW j \in DOMAIN Keys, NEW k \in 1 .. (j - 1), Keys[k] = n, Keys[j] = w
               PROVE  FALSE
    BY DEF InFile
  <2>1. j # 1 /\ j # 2
    BY <1>1, <1>2, <1>5
  <2>2. j - 2 \in 1 .. Len(Names) /\ Keys[(j - 2) + 2] = Names[j - 2]
    BY <1>1, <1>2, <1>5, <2>1
  <2>3. Keys[j] = Names[j - 2]
    BY <1>1, <1>5, <2>2
  <2>4. Names[j - 2] \in FileNames
    BY <1>1, <2>2
  <2> QED
    BY <2>3, <2>4, MetadataConstants
<1> QED
  BY <1>6, <1>7

LEMMA LearnRulesKeeps ==
    ASSUME MetadataInv, LearnRules
    PROVE  MetadataInv'
<1> DEFINE new == labels[prep.of]
           first == DOMAIN new
           rest == DOMAIN rules.label \ first
<1>1. /\ prep.at = "learn" /\ prep' = [prep EXCEPT !.at = "pack"]
      /\ rules' = [label |-> Over(rules.label, new),
                   order |-> (InFile \cap first \X first) \cup first \X rest
                             \cup (rules.order \cap rest \X rest)]
      /\ UNCHANGED <<files, owners, labels, origin, offered, torn, extracted>>
  BY DEF LearnRules, Learned
<1>2. /\ prep.of \in Projects /\ prep.of \in offered /\ prep.seen \subseteq DOMAIN owners[prep.of]
      /\ prep.patch => prep.seen \subseteq DOMAIN labels[prep.of]
      /\ {Root, Part} \subseteq first
      /\ prep = [at |-> prep.at, of |-> prep.of, patch |-> prep.patch, seen |-> prep.seen]
  BY <1>1, RunIs
<1>3. /\ prep' = [at |-> prep'.at, of |-> prep'.of, patch |-> prep'.patch, seen |-> prep'.seen]
      /\ prep'.at = "pack"
      /\ prep'.of = prep.of /\ prep'.patch = prep.patch /\ prep'.seen = prep.seen
  BY <1>1, <1>2, RunGoesOn
<1>4. Mapped' /\ Numbered' /\ EntriesOfImage'
  BY <1>1 DEF MetadataInv, Mapped, Numbered, EntriesOfImage
<1>5. RunOk'
  BY <1>1, <1>2, <1>3 DEF RunOk
<1>6. /\ DOMAIN rules'.label = DOMAIN rules.label \cup first
      /\ rules'.order = (InFile \cap first \X first) \cup first \X rest
                        \cup (rules.order \cap rest \X rest)
  BY <1>1 DEF Over
<1> HIDE DEF first
<1>7. ASSUME NEW n \in DOMAIN rules'.label \cap FileNames, NEW w \in {Root, Part}
      PROVE  <<w, n>> \in rules'.order /\ <<n, w>> \notin rules'.order
  <2>1. <<w, n>> \in InFile /\ <<n, w>> \notin InFile
    BY RootsComeFirst
  <2>2. w \in first /\ w \notin rest
    BY <1>2
  <2>3. n \in first \/ n \in rest
    BY <1>6
  <2> QED
    BY <2>1, <2>2, <2>3, <1>6
<1>8. RulesOrdered'
  BY <1>7 DEF RulesOrdered
<1> QED
  BY <1>4, <1>5, <1>8 DEF MetadataInv

LEMMA PackWithMetadataKeeps ==
    ASSUME MetadataInv, PackWithMetadata
    PROVE  MetadataInv'
<1>1. /\ prep' = NoRun
      /\ UNCHANGED <<files, owners, labels, origin, offered, rules, torn, extracted>>
  BY DEF PackWithMetadata
<1> QED
  BY <1>1 DEF MetadataInv, Mapped, Numbered, EntriesOfImage, RulesOrdered, RunOk

\* What a dying run leaves of the lists of its project nothing is claimed of.
LEMMA DieKeeps ==
    ASSUME MetadataInv, DieWhilePreparing
    PROVE  MetadataInv'
<1>1. /\ prep # NoRun /\ prep' = NoRun /\ torn' = torn \cup {prep.of}
      /\ UNCHANGED <<files, origin, offered, extracted>>
  BY DEF DieWhilePreparing
<1>2. prep.of \in Projects
  BY <1>1 DEF MetadataInv, RunOk
<1>3. owners' = owners \/ \E x : owners' = [owners EXCEPT ![prep.of] = x]
  BY DEF DieWhilePreparing
<1>4. labels' = labels \/ \E x : labels' = [labels EXCEPT ![prep.of] = x]
  BY DEF DieWhilePreparing
<1>5. /\ owners' = [q \in Projects |-> owners'[q]]
      /\ \A q \in Projects \ {prep.of} : owners'[q] = owners[q]
  BY <1>2, <1>3 DEF MetadataInv, Mapped
<1>6. /\ labels' = [q \in Projects |-> labels'[q]]
      /\ \A q \in Projects \ {prep.of} : labels'[q] = labels[q]
  BY <1>2, <1>4 DEF MetadataInv, Mapped
<1>7. rules' \in {NoRules, rules} /\ DOMAIN NoRules.label = {}
  BY DEF DieWhilePreparing, NoRules, Empty
<1>8. RulesOrdered'
  BY <1>7 DEF MetadataInv, RulesOrdered
<1>9. Mapped'
  BY <1>1, <1>5, <1>6 DEF MetadataInv, Mapped
<1>10. Numbered' /\ RunOk'
  BY <1>1 DEF MetadataInv, Numbered, RunOk
<1>11. EntriesOfImage'
  BY <1>1, <1>5, <1>6 DEF MetadataInv, EntriesOfImage
<1> QED
  BY <1>8, <1>9, <1>10, <1>11 DEF MetadataInv

LEMMA MetadataNextInv == MetadataInv /\ [MetadataNext]_metadataVars => MetadataInv'
<1> SUFFICES ASSUME MetadataInv, [MetadataNext]_metadataVars PROVE MetadataInv'
  OBVIOUS
<1>1. CASE UNCHANGED metadataVars
  BY <1>1 DEF metadataVars, MetadataInv, Mapped, Numbered, EntriesOfImage, RulesOrdered, RunOk
<1>2. CASE MetadataNext
  BY <1>2, ExtractStopsKeeps, ExtractPartitionKeeps, AddFileKeeps, DeleteFileKeeps,
     StartPrepareKeeps, PatchOwnersKeeps, PatchLabelsKeeps, LearnRulesKeeps,
     PackWithMetadataKeeps, DieKeeps DEF MetadataNext
<1> QED
  BY <1>1, <1>2

\* A rule learned of a path decides for it.
LEMMA PathsDecide == MetadataInv => NarrowRulesDecide
<1> SUFFICES ASSUME MetadataInv, NEW n \in DOMAIN rules.label \cap FileNames
             PROVE  LabelByRule(n) = rules.label[n]
  BY DEF NarrowRulesDecide
<1> DEFINE found == {r \in DOMAIN rules.label : FoundIn(r, n)}
<1>1. n \in found
  BY DEF FoundIn
<1>2. \A r \in found \ {n} : r \in {Root, Part}
  BY DEF FoundIn
<1>3. \A r \in found \ {n} : <<r, n>> \in rules.order /\ <<n, r>> \notin rules.order
  BY <1>2 DEF MetadataInv, RulesOrdered
<1> HIDE DEF found
<1>4. \A l \in found : (\A r \in found \ {l} : <<r, l>> \in rules.order) => l = n
  BY <1>1, <1>3
<1>5. (CHOOSE l \in found : \A r \in found \ {l} : <<r, l>> \in rules.order) = n
  BY <1>1, <1>3, <1>4
<1> QED
  BY <1>1, <1>5 DEF LabelByRule, found

\* However often a partition was packed before, in whichever project: what the image at
\* hand gave its files is what they are packed with, everything else has an entry, and a
\* label learned for a path is the one a new file there gets
\* (prepare_partition_context_files); torn lists excepted.
THEOREM EntriesOfImageAreKept == MetadataSpec => []MetadataKept
<1>1. MetadataInv => MetadataKept
  <2> SUFFICES ASSUME MetadataInv, prep.at = "pack", prep.of \notin torn
               PROVE  ImageEntriesKept(prep.of)
    BY PathsDecide DEF MetadataKept
  <2>1. /\ prep.of \in Projects /\ prep.of \in offered /\ prep.seen \subseteq DOMAIN owners[prep.of]
        /\ prep.patch => prep.seen \subseteq DOMAIN labels[prep.of]
    BY RunIs
  <2>2. origin[prep.of].image # Made
    BY <2>1 DEF MetadataInv, Numbered
  <2> QED
    BY <2>1, <2>2 DEF MetadataInv, EntriesOfImage, ImageEntriesKept, HasEntry
<1> QED
  BY <1>1, MetadataInitInv, MetadataNextInv, PTL DEF MetadataSpec
====
