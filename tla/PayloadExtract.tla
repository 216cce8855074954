---------------------------- MODULE PayloadExtract ----------------------------
(***************************************************************************)
(* Extraction of the images of payload.bin: core/payload_extract.py, called *)
(* by extract_payload_images of logic/projects/unpack.  The calling thread   *)
(* opens one image after the other, hands the operations of each to a thread *)
(* pool and waits for them; a pool thread decompresses an operation and puts *)
(* what is to be written into the bounded queue of that image, from which    *)
(* one writer thread takes it.  __exit__ of the writer returns True, so an   *)
(* exception between opening and closing an image is swallowed.              *)
(*                                                                           *)
(* An operation is known by its place in the manifest, what it writes by the *)
(* place of each write: Plan[p][i] is the number of writes of operation i of *)
(* image p.  Only an operation of one write can be undecodable.              *)
(***************************************************************************)
EXTENDS Naturals, Sequences, FiniteSets

CONSTANTS
    Workers,       \* the threads of the pool
    Plan,          \* the images of the payload and the writes of each operation
    Faults,        \* the calls that may raise OSError
    MaxFailures    \* bound on the calls that do

NoJob == <<>>

ASSUME PayloadAssumption ==
    /\ IsFiniteSet(Workers) /\ Workers # {}
    /\ Plan \in Seq(Seq(Nat \ {0}))
    /\ Faults \subseteq {"open", "read", "write"}
    /\ MaxFailures \in Nat

Images == DOMAIN Plan
Operations == UNION { {p} \X DOMAIN Plan[p] : p \in Images }
Writes(p, i) == { <<p, i, k>> : k \in 1 .. Plan[p][i] }
AllWrites == UNION { Writes(o[1], o[2]) : o \in Operations }

VARIABLES
    bad,         \* the operations that cannot be decoded
    main,        \* where the calling thread is: a place, an image, an operation
    raised,      \* did an exception leave the loop over the images?
    pool,        \* operations the pool has not begun
    busy,        \* the operation of each pool thread and the writes it has made
    done,        \* operations whose future is resolved
    queue, hand, \* per image, the writes that wait and the one in the writer's hands
    writer, stop,
    file, written,
    failures

threads == <<pool, busy, done>>
images == <<queue, hand, writer, stop, file, written>>
vars == <<bad, main, raised, threads, images, failures>>

Capacity == 2 * Cardinality(Workers)

At(place) == main.at = place
Image == main.image

Init ==
    /\ bad \in SUBSET { o \in Operations : Plan[o[1]][o[2]] = 1 }
    /\ main = [at |-> "header", image |-> 1, next |-> 1]
    /\ raised = FALSE
    /\ pool = <<>>
    /\ busy = [w \in Workers |-> NoJob]
    /\ done = {}
    /\ queue = [p \in Images |-> <<>>]
    /\ hand = [p \in Images |-> NoJob]
    /\ writer = [p \in Images |-> "none"]
    /\ stop = [p \in Images |-> FALSE]
    /\ file = [p \in Images |-> "none"]
    /\ written = {}
    /\ failures = 0

Fails(call) ==
    /\ call \in Faults
    /\ failures < MaxFailures
    /\ failures' = failures + 1

----
(***************************************************************************)
(* The calling thread                                                       *)
(***************************************************************************)
Goto(place) == main' = [main EXCEPT !.at = place, !.next = 1]

\* the loop goes on with the next image, or leaves the executor's block
NextImage ==
    main' = IF Image < Len(Plan)
            THEN [at |-> "open", image |-> Image + 1, next |-> 1]
            ELSE [main EXCEPT !.at = "shutdown"]

\* BadPayload is raised before there is a pool
ReadHeader ==
    /\ At("header")
    /\ \/ Goto(IF Plan = <<>> THEN "shutdown" ELSE "open") /\ UNCHANGED raised
       \/ Goto("ended") /\ raised' = TRUE
    /\ UNCHANGED <<bad, threads, images, failures>>

OpenImage ==
    /\ At("open")
    /\ \/ /\ file' = [file EXCEPT ![Image] = "open"]
          /\ writer' = [writer EXCEPT ![Image] = "running"]
          /\ Goto("submit")
          /\ UNCHANGED <<raised, failures>>
       \/ /\ Fails("open")
          /\ Goto("shutdown")
          /\ raised' = TRUE
          /\ UNCHANGED <<file, writer>>
    /\ UNCHANGED <<bad, threads, queue, hand, stop, written>>

\* reader.read and executor.submit of one operation
Submit ==
    /\ At("submit")
    /\ main.next <= Len(Plan[Image])
    /\ \/ /\ pool' = Append(pool, <<Image, main.next>>)
          /\ main' = [main EXCEPT !.next = @ + 1]
          /\ UNCHANGED failures
       \/ /\ Fails("read")
          /\ Goto("close")
          /\ UNCHANGED pool
    /\ UNCHANGED <<bad, raised, busy, done, images>>

\* Mutant: nobody waits for the operations.
SubmittedIsEnough ==
    /\ At("submit")
    /\ main.next > Len(Plan[Image])
    /\ Goto("close")
    /\ UNCHANGED <<bad, raised, threads, images, failures>>

Submitted ==
    /\ At("submit")
    /\ main.next > Len(Plan[Image])
    /\ Goto("await")
    /\ UNCHANGED <<bad, raised, threads, images, failures>>

\* future.result() of one operation after the other; the first bad one raises
Await ==
    /\ At("await")
    /\ \/ /\ main.next <= Len(Plan[Image])
          /\ <<Image, main.next>> \in done
          /\ IF <<Image, main.next>> \in bad
             THEN Goto("close")
             ELSE main' = [main EXCEPT !.next = @ + 1]
       \/ /\ main.next > Len(Plan[Image])
          /\ Goto("close")
    /\ UNCHANGED <<bad, raised, threads, images, failures>>

\* OrderedFileWriter.close sets the event and joins the writer
CloseWriter ==
    /\ At("close")
    /\ stop' = [stop EXCEPT ![Image] = TRUE]
    /\ Goto("join")
    /\ UNCHANGED <<bad, raised, threads, queue, hand, writer, file, written, failures>>

CloseFile ==
    /\ At("join")
    /\ writer[Image] # "running"
    /\ file' = [file EXCEPT ![Image] = "closed"]
    /\ NextImage
    /\ UNCHANGED <<bad, raised, threads, queue, hand, writer, stop, written, failures>>

\* Mutant: the pool is left behind.
Abandon ==
    /\ At("shutdown")
    /\ Goto("ended")
    /\ UNCHANGED <<bad, raised, threads, images, failures>>

\* ThreadPoolExecutor.__exit__ waits for every thread
Shutdown ==
    /\ At("shutdown")
    /\ pool = <<>>
    /\ \A w \in Workers : busy[w] = NoJob
    /\ Goto("ended")
    /\ UNCHANGED <<bad, raised, threads, images, failures>>

MainStep ==
    \/ ReadHeader \/ OpenImage \/ Submit \/ Submitted \/ Await
    \/ CloseWriter \/ CloseFile \/ Shutdown

----
(***************************************************************************)
(* The pool                                                                 *)
(***************************************************************************)
Begin(w) ==
    /\ busy[w] = NoJob
    /\ pool # <<>>
    /\ pool' = Tail(pool)
    /\ busy' = [busy EXCEPT ![w] = <<Head(pool)[1], Head(pool)[2], 0>>]
    /\ UNCHANGED <<bad, main, raised, done, images, failures>>

Job(w) == <<busy[w][1], busy[w][2]>>
Left(w) == Plan[busy[w][1]][busy[w][2]] - busy[w][3]

\* writer.write blocks while the queue is full
Put(w) ==
    /\ busy[w] # NoJob
    /\ Job(w) \notin bad
    /\ Left(w) > 0
    /\ Len(queue[busy[w][1]]) < Capacity
    /\ queue' = [queue EXCEPT ![busy[w][1]] = Append(@, <<busy[w][1], busy[w][2], busy[w][3] + 1>>)]
    /\ busy' = [busy EXCEPT ![w] = <<busy[w][1], busy[w][2], busy[w][3] + 1>>]
    /\ UNCHANGED <<bad, main, raised, pool, done, hand, writer, stop, file, written, failures>>

\* Mutant: an operation that raises does not resolve its future.
EndWhole(w) ==
    /\ busy[w] # NoJob
    /\ Left(w) = 0
    /\ done' = done \cup {Job(w)}
    /\ busy' = [busy EXCEPT ![w] = NoJob]
    /\ UNCHANGED <<bad, main, raised, pool, images, failures>>

\* the decoder raises, or the last write is made
End(w) ==
    /\ busy[w] # NoJob
    /\ Job(w) \in bad \/ Left(w) = 0
    /\ done' = done \cup {Job(w)}
    /\ busy' = [busy EXCEPT ![w] = NoJob]
    /\ UNCHANGED <<bad, main, raised, pool, images, failures>>

WorkerStep(w) == Begin(w) \/ Put(w) \/ End(w)

----
(***************************************************************************)
(* The writer of an image                                                   *)
(***************************************************************************)
Get(p) ==
    /\ writer[p] = "running"
    /\ hand[p] = NoJob
    /\ queue[p] # <<>>
    /\ hand' = [hand EXCEPT ![p] = Head(queue[p])]
    /\ queue' = [queue EXCEPT ![p] = Tail(@)]
    /\ UNCHANGED <<bad, main, raised, threads, writer, stop, file, written, failures>>

\* an OSError of seek or write ends the thread
Write(p) ==
    /\ writer[p] = "running"
    /\ hand[p] # NoJob
    /\ hand' = [hand EXCEPT ![p] = NoJob]
    /\ \/ written' = written \cup {hand[p]} /\ UNCHANGED <<writer, failures>>
       \/ Fails("write") /\ writer' = [writer EXCEPT ![p] = "dead"] /\ UNCHANGED written
    /\ UNCHANGED <<bad, main, raised, threads, queue, stop, file>>

WriterEnds(p) ==
    /\ writer[p] = "running"
    /\ hand[p] = NoJob
    /\ stop[p]
    /\ queue[p] = <<>>
    /\ writer' = [writer EXCEPT ![p] = "ended"]
    /\ UNCHANGED <<bad, main, raised, threads, queue, hand, stop, file, written, failures>>

WriterStep(p) == Get(p) \/ Write(p) \/ WriterEnds(p)

Next ==
    \/ MainStep
    \/ \E w \in Workers : WorkerStep(w)
    \/ \E p \in Images : WriterStep(p)

Spec == Init /\ [][Next]_vars

\* every thread that can go on does
FairSpec ==
    /\ Spec
    /\ WF_vars(MainStep)
    /\ \A w \in Workers : WF_vars(WorkerStep(w))
    /\ \A p \in Images : WF_vars(WriterStep(p))

----
(***************************************************************************)
(* Properties                                                               *)
(***************************************************************************)
Places == {"header", "open", "submit", "await", "close", "join", "shutdown", "ended"}
Jobs == UNION { {o[1]} \X {o[2]} \X (0 .. Plan[o[1]][o[2]]) : o \in Operations }

\* Every variable keeps to its values.
TypeOK ==
    /\ bad \subseteq Operations
    /\ main \in [at : Places, image : Nat, next : Nat]
    /\ raised \in BOOLEAN
    /\ pool \in Seq(Operations)
    /\ busy \in [Workers -> Jobs \cup {NoJob}]
    /\ done \subseteq Operations
    /\ queue \in [Images -> Seq(Jobs)]
    /\ hand \in [Images -> Jobs \cup {NoJob}]
    /\ writer \in [Images -> {"none", "running", "ended", "dead"}]
    /\ stop \in [Images -> BOOLEAN]
    /\ file \in [Images -> {"none", "open", "closed"}]
    /\ written \subseteq Jobs
    /\ failures \in Nat

\* The queue is full and nobody will take from it.
Jammed(p) == Len(queue[p]) = Capacity /\ writer[p] \in {"ended", "dead"}

\* A pool thread puts there and is blocked for good.
Stuck(w) == busy[w] # NoJob /\ Job(w) \notin bad /\ Left(w) > 0 /\ Jammed(busy[w][1])

\* An operation of the image cannot be decoded, or a call raised.
Disturbed(p) == failures > 0 \/ \E i \in DOMAIN Plan[p] : <<p, i>> \in bad

\* A writer never writes to a closed file: its image is closed after it is joined,
\* also when the block is left by an exception.
WriterHasFile == \A p \in Images : file[p] = "closed" => writer[p] # "running"

\* An image that no fault touched has every write in it when it is closed, in
\* whatever order the pool decoded the operations: the writer empties its queue
\* before it ends.
UndisturbedIsWhole ==
    \A p \in Images : file[p] = "closed" /\ ~Disturbed(p) =>
        { o \in AllWrites : o[1] = p } \subseteq written

\* When the extraction reports its result, no thread of it is at work on an image.
QuietWhenReported ==
    At("ended") =>
        /\ pool = <<>>
        /\ \A w \in Workers : busy[w] = NoJob
        /\ \A p \in Images : writer[p] # "running" /\ file[p] # "open"

\* The extraction ends, or a pool thread puts into the jammed queue of an image
\* that a fault has touched.
EndsUnlessJammed == <>(At("ended") \/ \E w \in Workers : Stuck(w) /\ Disturbed(busy[w][1]))
====
