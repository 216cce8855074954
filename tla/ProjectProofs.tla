----------------------------- MODULE ProjectProofs -----------------------------
(***************************************************************************)
(* What a packing run does to the directories, for any partitions, sources,   *)
(* formats and bounds.  RemoveSource takes a directory away several steps     *)
(* after it was built into an image, so that the proof needs to know what      *)
(* output holds at each step between: Built.  And what the runs report and    *)
(* list: what an unpack run has in hand and has done, what a packing run has  *)
(* done, and what stays when either is cut short: RunInv. And what the folders *)
(* hold, whatever runs: Typed.                                                *)
(***************************************************************************)
EXTENDS Project, SequenceTheorems, TLAPS

\* The file in output that holds what was built.
HoldsIt(stage, format) ==
    IF stage \in {"convert", "dat"} \/ (stage = "packed" /\ format \notin {"dat", "br"})
    THEN "img"
    ELSE IF stage = "compress" \/ format = "dat" THEN "dat" ELSE "br"

PackShape ==
    op.is = "pack" =>
        /\ op = [is |-> "pack", todo |-> op.todo, at |-> op.at, format |-> op.format,
                 remove |-> op.remove, chosen |-> op.chosen]
        /\ op.todo \in Seq(Partitions) /\ op.todo # <<>>

UnpackShape ==
    op.is = "unpack" =>
        op = [is |-> "unpack", todo |-> op.todo, at |-> op.at, parts |-> op.parts, ok |-> op.ok,
              any |-> op.any, chosen |-> op.chosen, old |-> op.old, imported |-> op.imported]

Shape ==
    /\ op.is \in {"none", "unpack", "pack"}
    /\ PackShape
    /\ UnpackShape
    /\ tree = [p \in Partitions |-> tree[p]]
    /\ output = [p \in Partitions |-> [f \in {"img", "dat", "br"} |-> output[p][f]]]

Built ==
    op.is = "pack" =>
        /\ op.at \in {"convert", "dat", "compress", "packed"} =>
              output[Packed][HoldsIt(op.at, op.format)] = tree[Packed]
        /\ op.at = "dat" => op.format \in {"dat", "br"}
        /\ op.at = "compress" => op.format = "br"

IInv == Shape /\ Built

\* A new project has nothing under way.
LEMMA InitIInv == Init => IInv
  BY DEF Init, IInv, Shape, PackShape, UnpackShape, Built, Idle

\* An unpack step leaves an unpack run, or none.
LEMMA UnpackOnly ==
    UnpackShape /\ UnpackNext => op'.is \in {"none", "unpack"} /\ UnpackShape'
<1> SUFFICES ASSUME UnpackShape, UnpackNext PROVE op'.is \in {"none", "unpack"} /\ UnpackShape'
  OBVIOUS
<1> USE DEF UnpackShape, Unpacking, Stage, ToNext, Abort, Idle
<1>1. CASE StartUnpack
  BY <1>1 DEF StartUnpack, BeginUnpack
<1>2. CASE DropOldImage
  BY <1>2 DEF DropOldImage
<1>3. CASE DecompressZst
  BY <1>3 DEF DecompressZst
<1>4. CASE DecompressXz
  BY <1>4 DEF DecompressXz
<1>5. CASE DecompressBr
  BY <1>5 DEF DecompressBr
<1>6. CASE JoinChunks
  BY <1>6 DEF JoinChunks
<1>7. CASE NothingToDecompress
  BY <1>7 DEF NothingToDecompress
<1>8. CASE GenerateImage
  BY <1>8 DEF GenerateImage
<1>9. CASE NoTransferList
  BY <1>9 DEF NoTransferList
<1>10. CASE ResolveImage
  BY <1>10 DEF ResolveImage
<1>11. CASE SourceMissing
  BY <1>11 DEF SourceMissing
<1>12. CASE BeginExtract
  BY <1>12 DEF BeginExtract
<1>13. CASE EndExtract
  <2>1. op.is = "unpack"
    BY <1>13 DEF EndExtract
  <2>2. op' = Idle \/ op' = ToNext(op) \/ op' = ToNext([op EXCEPT !.ok = FALSE])
    BY <1>13 DEF EndExtract
  <2>3. CASE op' = Idle
    BY <2>3
  <2>4. CASE op' = ToNext(op)
    BY <2>1, <2>4
  <2>5. CASE op' = ToNext([op EXCEPT !.ok = FALSE])
    BY <2>1, <2>5
  <2> QED
    BY <2>2, <2>3, <2>4, <2>5
<1>14. CASE TruncateRecord
  BY <1>14 DEF TruncateRecord
<1>15. CASE WriteRecord
  BY <1>15 DEF WriteRecord
<1> QED
  BY <1>1, <1>2, <1>3, <1>4, <1>5, <1>6, <1>7, <1>8, <1>9, <1>10, <1>11, <1>12, <1>13, <1>14, <1>15 DEF UnpackNext

\* Nothing but a packing step makes the next workflow a packing run.
LEMMA OthersKeep ==
    IInv /\ ((\E p \in Partitions : PutSource(p) \/ EditTree(p)) \/ Import \/ UnpackNext \/ Crash)
        => IInv' /\ (op.is = "pack" => UNCHANGED tree)
<1> SUFFICES ASSUME IInv,
                    (\E p \in Partitions : PutSource(p) \/ EditTree(p)) \/ Import \/ UnpackNext \/ Crash
             PROVE  IInv' /\ (op.is = "pack" => UNCHANGED tree)
  OBVIOUS
<1> USE DEF IInv, Shape, PackShape, UnpackShape, Built, Idle, AtRest, folders, histories
<1>1. CASE \E p \in Partitions : PutSource(p) \/ EditTree(p)
  BY <1>1 DEF PutSource, EditTree
<1>2. CASE Import
  BY <1>2 DEF Import, Start, BeginUnpack
<1>3. CASE Crash
  BY <1>3 DEF Crash
<1>4. CASE UnpackNext
  <2>1. op.is # "pack" /\ output' = output
    BY <1>4 DEF UnpackNext, Unpacking, StartUnpack, Start, DropOldImage, DecompressZst, DecompressXz,
      DecompressBr, JoinChunks, NothingToDecompress, GenerateImage, NoTransferList, ResolveImage,
      SourceMissing, BeginExtract, EndExtract, TruncateRecord, WriteRecord
  <2>2. tree' = [p \in Partitions |-> tree'[p]]
    BY <1>4 DEF UnpackNext, StartUnpack, DropOldImage, DecompressZst, DecompressXz,
      DecompressBr, JoinChunks, NothingToDecompress, GenerateImage, NoTransferList, ResolveImage,
      SourceMissing, BeginExtract, EndExtract, TruncateRecord, WriteRecord
  <2>3. op'.is \in {"none", "unpack"} /\ UnpackShape'
    BY <1>4, UnpackOnly
  <2> QED
    BY <2>1, <2>2, <2>3
<1> QED
  BY <1>1, <1>2, <1>3, <1>4

\* The partitions that were chosen, and what is left of them.
LEMMA OrdersAreSequences == \A s \in Orders : s \in Seq(Partitions) /\ s # <<>>
  BY WorkspaceAssumption DEF Orders

\* What is written into output keeps its shape.
LEMMA OutputShape ==
    ASSUME NEW p \in Partitions, NEW f \in {"img", "dat", "br"}, NEW data, Shape, Output(p, f, data)
    PROVE  /\ output' = [r \in Partitions |-> [g \in {"img", "dat", "br"} |-> output'[r][g]]]
           /\ output'[p][f] = data
  BY DEF Shape, Output

\* What is left of a sequence of more than one.
LEMMA LongerThanOne ==
    ASSUME NEW S, NEW s \in Seq(S), s # <<>>, Len(s) # 1
    PROVE  Tail(s) \in Seq(S) /\ Tail(s) # <<>>
<1>1. Len(s) \in Nat \ {0}
  BY EmptySeq
<1>2. Tail(s) \in Seq(S) /\ Len(Tail(s)) = Len(s) - 1
  BY <1>1
<1>3. Len(Tail(s)) # 0
  BY <1>1, <1>2
<1> QED
  BY <1>2, <1>3, EmptySeq

\* The next partition of the selection, or the end of the run.
LEMMA NextShape ==
    ASSUME op.is = "pack", PackShape, PackNextPartition
    PROVE  op'.is \in {"none", "pack"} /\ PackShape' /\ (op'.is = "pack" => op'.at = "build")
<1>1. CASE Len(op.todo) = 1
  BY <1>1 DEF PackNextPartition, PackEnds, PackShape, Idle
<1>2. CASE Len(op.todo) # 1
  <2>1. op' = [is |-> "pack", todo |-> Tail(op.todo), at |-> "build", format |-> op.format,
               remove |-> op.remove, chosen |-> op.chosen]
    BY <1>2 DEF PackNextPartition, PackShape
  <2>2. Tail(op.todo) \in Seq(Partitions) /\ Tail(op.todo) # <<>>
    BY <1>2, LongerThanOne DEF PackShape
  <2> QED
    BY <2>1, <2>2 DEF PackShape
<1> QED
  BY <1>1, <1>2

Keeps ==
    op.is = "pack" =>
          \A p \in Partitions : tree'[p] # tree[p] =>
              \/ tree[p] = output'[p].img \/ tree[p] = output'[p].dat \/ tree[p] = output'[p].br
              \/ kind[p] = "dtbo"

\* A step that goes to another stage of the same partition.
LEMMA GoesShape ==
    ASSUME NEW stage, op.is = "pack", PackShape, Goes(stage)
    PROVE  op'.is = "pack" /\ PackShape' /\ op'.at = stage /\ op'.format = op.format /\ op'.todo = op.todo
  BY DEF PackShape, Goes

\* A packing step keeps what was built until the partition is done, and only
\* then takes its directory away.
LEMMA PackKeeps == IInv /\ PackNext => IInv' /\ Keeps
<1> SUFFICES ASSUME IInv, PackNext PROVE IInv' /\ Keeps
  OBVIOUS
<1> USE DEF IInv, folders
<1>0. op.is = "pack" => Packed \in Partitions
  BY DEF Packed, Shape, PackShape
<1>a. ASSUME op'.is = "none" PROVE PackShape' /\ UnpackShape' /\ Built'
  BY <1>a DEF PackShape, UnpackShape, Built
<1>b. ASSUME op'.is = "pack", op'.at = "build" PROVE UnpackShape' /\ Built'
  BY <1>b DEF UnpackShape, Built
<1>1. CASE StartPack
  <2>1. PICK todo \in Orders, format \in Formats, remove \in BOOLEAN :
          op' = [is |-> "pack", todo |-> todo, at |-> "build", format |-> format,
                 remove |-> remove, chosen |-> { todo[i] : i \in DOMAIN todo }]
    BY <1>1 DEF StartPack
  <2>2. op.is = "none" /\ UNCHANGED <<tree, output>>
    BY <1>1 DEF StartPack, Start, AtRest
  <2>3. todo \in Seq(Partitions) /\ todo # <<>>
    BY OrdersAreSequences
  <2> QED
    BY <2>1, <2>2, <2>3 DEF Shape, PackShape, UnpackShape, Built, Keeps
<1>2. CASE BeginBuild
  <2>1. op.is = "pack" /\ Output(Packed, "img", InPart(tree[Packed])) /\ Goes("building") /\ UNCHANGED tree
    BY <1>2 DEF BeginBuild, Packing
  <2> QED
    BY <1>0, <2>1, OutputShape, GoesShape DEF Shape, UnpackShape, Built, Keeps
<1>3. CASE EndBuild
  <2>0. op.is = "pack" /\ op.at = "building" /\ UNCHANGED tree
    BY <1>3 DEF EndBuild, Packing
  <2>1. CASE Output(Packed, "img", tree[Packed]) /\ Goes("convert")
    <3>1. op'.is = "pack" /\ PackShape' /\ op'.at = "convert" /\ Packed' = Packed
      BY <2>0, <2>1, GoesShape DEF Shape, Packed
    <3>2. output' = [r \in Partitions |-> [g \in {"img", "dat", "br"} |-> output'[r][g]]]
          /\ output'[Packed].img = tree[Packed]
      BY <1>0, <2>0, <2>1, OutputShape
    <3> QED
      BY <2>0, <3>1, <3>2 DEF Shape, UnpackShape, Built, Keeps, HoldsIt
  <2>2. CASE PackEnds(FALSE) /\ UNCHANGED output
    BY <1>a, <2>0, <2>2 DEF PackEnds, Idle, Shape, Keeps
  <2> QED
    BY <1>3, <2>1, <2>2 DEF EndBuild
<1>4. CASE ConvertSparse
  <2>0. op.is = "pack" /\ op.at = "convert" /\ UNCHANGED <<tree, output>>
    BY <1>4 DEF ConvertSparse, Packing
  <2>1. CASE Goes(IF op.format \in {"dat", "br"} THEN "dat" ELSE "packed")
    <3>1. /\ op'.is = "pack" /\ PackShape' /\ Packed' = Packed /\ op'.format = op.format
          /\ op'.at = IF op.format \in {"dat", "br"} THEN "dat" ELSE "packed"
      BY <2>0, <2>1, GoesShape DEF Shape, Packed
    <3> QED
      BY <2>0, <3>1 DEF Shape, UnpackShape, Built, Keeps, HoldsIt
  <2>2. CASE PackEnds(FALSE)
    BY <1>a, <2>0, <2>2 DEF PackEnds, Idle, Shape, Keeps
  <2> QED
    BY <1>4, <2>1, <2>2 DEF ConvertSparse
<1>5. CASE WriteDat
  <2>0. op.is = "pack" /\ op.at = "dat" /\ UNCHANGED tree
    BY <1>5 DEF WriteDat, Packing
  <2>1. /\ op'.is = "pack" /\ PackShape' /\ Packed' = Packed /\ op'.format = op.format
        /\ op'.at = IF op.format = "br" THEN "compress" ELSE "packed"
    BY <1>5, <2>0, GoesShape DEF WriteDat, Shape, Packed
  <2>2. output[Packed].img = tree[Packed]
    BY <2>0 DEF Built, HoldsIt
  <2>3. /\ output' = [r \in Partitions |-> [g \in {"img", "dat", "br"} |-> output'[r][g]]]
        /\ output'[Packed].dat = tree[Packed]
    BY <1>0, <1>5, <2>0, <2>2 DEF WriteDat, Shape
  <2>4. op.format \in {"dat", "br"}
    BY <2>0 DEF Built
  <2> QED
    BY <2>0, <2>1, <2>3, <2>4 DEF Shape, UnpackShape, Built, Keeps, HoldsIt
<1>6. CASE CompressDat
  <2>0. op.is = "pack" /\ op.at = "compress" /\ UNCHANGED tree
    BY <1>6 DEF CompressDat, Packing
  <2>1. CASE /\ output' = [output EXCEPT ![Packed].br = output[Packed].dat, ![Packed].dat = {}]
             /\ Goes("packed")
    <3>1. /\ op'.is = "pack" /\ PackShape' /\ Packed' = Packed /\ op'.format = op.format
          /\ op'.at = "packed"
      BY <2>0, <2>1, GoesShape DEF Shape, Packed
    <3>2. output[Packed].dat = tree[Packed]
      BY <2>0 DEF Built, HoldsIt
    <3>3. /\ output' = [r \in Partitions |-> [g \in {"img", "dat", "br"} |-> output'[r][g]]]
          /\ output'[Packed].br = tree[Packed]
      BY <1>0, <2>0, <2>1, <3>2 DEF Shape
    <3>4. op.format = "br"
      BY <2>0 DEF Built
    <3> QED
      BY <2>0, <3>1, <3>3, <3>4 DEF Shape, UnpackShape, Built, Keeps, HoldsIt
  <2>2. CASE PackEnds(FALSE) /\ UNCHANGED output
    BY <1>a, <2>0, <2>2 DEF PackEnds, Idle, Shape, Keeps
  <2> QED
    BY <1>6, <2>1, <2>2 DEF CompressDat
<1>7. CASE KeepSource
  <2>1. op.is = "pack" /\ PackNextPartition /\ UNCHANGED <<tree, output>>
    BY <1>7 DEF KeepSource, Packing
  <2> QED
    BY <1>a, <1>b, <2>1, NextShape DEF Shape, Keeps
<1>8. CASE RemoveSource
  <2>1. /\ op.is = "pack" /\ op.at = "packed" /\ PackNextPartition /\ UNCHANGED output
        /\ tree' = [tree EXCEPT ![Packed] = {}]
    BY <1>8 DEF RemoveSource, Packing
  <2>2. Keeps
    BY <1>0, <2>1 DEF Keeps, Built, HoldsIt, Shape
  <2>3. tree' = [r \in Partitions |-> tree'[r]]
    BY <2>1 DEF Shape
  <2> QED
    BY <1>a, <1>b, <2>1, <2>2, <2>3, NextShape DEF Shape
<1>9. CASE SourceNotRemoved
  BY <1>a, <1>9 DEF SourceNotRemoved, PackEnds, Idle, Shape, Keeps
<1>10. CASE PackDtbo
  <2>1. /\ op.is = "pack" /\ PackNextPartition /\ kind[Packed] = "dtbo"
        /\ tree' = [tree EXCEPT ![Packed] = {}]
        /\ \E compiled : Output(Packed, "img", compiled)
    BY <1>10 DEF PackDtbo, Packing
  <2>2. Keeps
    BY <1>0, <2>1 DEF Keeps, Shape
  <2>3. tree' = [r \in Partitions |-> tree'[r]]
    BY <2>1 DEF Shape
  <2>4. output' = [r \in Partitions |-> [g \in {"img", "dat", "br"} |-> output'[r][g]]]
    BY <1>0, <2>1, OutputShape
  <2> QED
    BY <1>a, <1>b, <2>1, <2>2, <2>3, <2>4, NextShape DEF Shape
<1>11. CASE PackBoot
  <2>1. /\ op.is = "pack" /\ PackNextPartition /\ Output(Packed, "img", tree[Packed])
        /\ tree' = [tree EXCEPT ![Packed] = {}]
    BY <1>11 DEF PackBoot, Packing
  <2>2. output'[Packed].img = tree[Packed]
    BY <1>0, <2>1, OutputShape
  <2>3. Keeps
    BY <1>0, <2>1, <2>2 DEF Keeps, Shape
  <2>4. tree' = [r \in Partitions |-> tree'[r]]
    BY <2>1 DEF Shape
  <2>5. output' = [r \in Partitions |-> [g \in {"img", "dat", "br"} |-> output'[r][g]]]
    BY <1>0, <2>1, OutputShape
  <2> QED
    BY <1>a, <1>b, <2>1, <2>3, <2>4, <2>5, NextShape DEF Shape
<1>12. CASE BootNotPacked
  <2>1. op.is = "pack" /\ PackNextPartition /\ UNCHANGED <<tree, output>>
    BY <1>12 DEF BootNotPacked, Packing
  <2> QED
    BY <1>a, <1>b, <2>1, NextShape DEF Shape, Keeps
<1> QED
  BY <1>1, <1>2, <1>3, <1>4, <1>5, <1>6, <1>7, <1>8, <1>9, <1>10, <1>11, <1>12 DEF PackNext

\* What output holds while a packing run converts it.
THEOREM Invariance == Spec => []IInv
<1>1. IInv /\ [Next]_vars => IInv'
  <2>1. IInv /\ Next => IInv'
    BY OthersKeep, PackKeeps DEF Next
  <2>2. IInv /\ UNCHANGED vars => IInv'
    BY DEF vars, folders, IInv, Shape, PackShape, UnpackShape, Built, Packed
  <2> QED
    BY <2>1, <2>2
<1> QED
  BY InitIInv, <1>1, PTL DEF Spec

\* No packing run takes a directory away without having all of it in output,
\* but for a dtbo of which something did not compile.
THEOREM PackingKeepsACopy == Spec => PackKeepsACopy
<1>1. IInv /\ [Next]_vars => [Keeps]_vars
  BY OthersKeep, PackKeeps DEF Next, Keeps
<1> QED
  BY Invariance, <1>1, PTL DEF Spec, PackKeepsACopy, Keeps

-------------------------------------------------------------------------------
(* What an unpack run has done, what it has in hand, what a run reports.       *)

Elements(s) == { s[i] : i \in 1 .. Len(s) }
Distinct(s) == \A i, j \in 1 .. Len(s) : s[i] = s[j] => i = j

\* What is left to do is of what was chosen, each partition once.
Selection ==
    op.is # "none" =>
        /\ op.todo \in Seq(Partitions) /\ Distinct(op.todo)
        /\ Elements(op.todo) \subseteq op.chosen /\ op.chosen \subseteq Partitions

Stages == {"clean", "normalise", "generate", "resolve", "extract", "extracting", "save", "write"}

\* An unpack run has a partition in hand until it saves the list.
InHand ==
    op.is = "unpack" => op.at \in Stages /\ (op.at \in {"save", "write"} <=> op.todo = <<>>)

FolderShape ==
    /\ image = [p \in Partitions |-> image[p]]
    /\ dat = [p \in Partitions |-> dat[p]]

\* The image in hand is on its way to be the present source's.
FreshSoFar ==
    op.is = "unpack" /\ op.todo # <<>> /\ Current \notin op.old =>
        /\ op.at = "normalise" => image[Current] = {}
        /\ op.at = "generate" => image[Current] = {} /\ DatUsed = Source(Current)
        /\ op.at = "resolve" => image[Current] \in {{}, Source(Current)}
        /\ op.at \in {"extract", "extracting"} => Image(Current) = Source(Current)

\* What an unpack run is through with it has extracted and put in its list.
Extracted ==
    op.is = "unpack" /\ op.ok =>
        \A p \in op.chosen \ Elements(op.todo) :
            p \in op.parts /\ (p \notin op.old => Source(p) \subseteq tree[p])

\* The list in memory has the directories that the one on disk had.
Listed ==
    /\ op.is # "unpack" => \A p \in Partitions : Complete(tree[p]) => p \in record \/ p \in cut
    /\ op.is = "unpack" =>
        /\ \A p \in Partitions : Complete(tree[p]) => p \in op.parts \/ p \in cut
        /\ op.at # "write" => op.parts \subseteq record \union op.chosen
        /\ op.at = "extracting" => Current \in op.parts

\* What a packing run is through with is in output as it was asked for.
PackedSoFar ==
    op.is = "pack" =>
        \A p \in op.chosen \ Elements(op.todo) :
            kind[p] = "fs" /\ tree[p] # {} => output[p][HoldsIt("packed", op.format)] = tree[p]

\* A report stays as long as nothing runs.
Reported ==
    /\ op.is # "none" => report.of = "none"
    /\ SuccessIsListed
    /\ PackedIsFresh

RunInv == /\ Selection /\ InHand /\ FolderShape /\ FreshSoFar /\ Extracted
          /\ Listed /\ PackedSoFar /\ Reported

\* One partition less to do.
LEMMA TailOfDistinct ==
    ASSUME NEW S, NEW s \in Seq(S), s # <<>>, Distinct(s)
    PROVE  /\ Tail(s) \in Seq(S) /\ Distinct(Tail(s))
           /\ Head(s) \in S
           /\ Elements(s) = {Head(s)} \union Elements(Tail(s))
           /\ Head(s) \notin Elements(Tail(s))
           /\ Len(s) = 1 <=> Tail(s) = <<>>
<1>1. Len(s) \in Nat \ {0} /\ Tail(s) \in Seq(S) /\ Len(Tail(s)) = Len(s) - 1 /\ Head(s) = s[1]
  BY EmptySeq
<1>2. \A i \in 1 .. Len(Tail(s)) : Tail(s)[i] = s[i + 1] /\ i + 1 \in 1 .. Len(s)
  BY <1>1
<1>3. \A i \in 1 .. Len(s) : i = 1 \/ (i - 1 \in 1 .. Len(Tail(s)) /\ s[i] = Tail(s)[i - 1])
  BY <1>1
<1>4. Len(s) = 1 <=> Tail(s) = <<>>
  <2>1. Len(s) = 1 => Len(Tail(s)) = 0
    BY <1>1
  <2>2. Tail(s) = <<>> => Len(Tail(s)) = 0
    BY EmptySeq
  <2> QED
    BY <1>1, <2>1, <2>2, EmptySeq
<1>5. Elements(s) = {Head(s)} \union Elements(Tail(s))
  <2>1. ASSUME NEW x \in Elements(s) PROVE x \in {Head(s)} \union Elements(Tail(s))
    BY <1>1, <1>3 DEF Elements
  <2>2. ASSUME NEW x \in Elements(Tail(s)) PROVE x \in Elements(s)
    BY <1>2 DEF Elements
  <2>3. Head(s) \in Elements(s)
    BY <1>1 DEF Elements
  <2> QED
    BY <2>1, <2>2, <2>3
<1>6. Head(s) \notin Elements(Tail(s))
  <2>1. SUFFICES ASSUME NEW i \in 1 .. Len(Tail(s)), Tail(s)[i] = Head(s) PROVE FALSE
    BY DEF Elements
  <2>2. s[i + 1] = s[1] /\ 1 \in 1 .. Len(s) /\ i + 1 # 1 /\ i + 1 \in 1 .. Len(s)
    BY <1>1, <1>2, <2>1
  <2> QED
    BY <2>2 DEF Distinct
<1>7. Distinct(Tail(s))
  BY <1>2 DEF Distinct
<1>8. Head(s) \in S
  BY <1>1
<1> QED
  BY <1>1, <1>4, <1>5, <1>6, <1>7, <1>8

\* What is chosen.
LEMMA OrdersAreDistinct ==
    \A s \in Orders : /\ s \in Seq(Partitions) /\ s # <<>> /\ Distinct(s)
                     /\ Elements(s) = { s[i] : i \in DOMAIN s } /\ Elements(s) \subseteq Partitions
<1> SUFFICES ASSUME NEW s \in Orders
             PROVE  /\ s \in Seq(Partitions) /\ s # <<>> /\ Distinct(s)
                    /\ Elements(s) = { s[i] : i \in DOMAIN s } /\ Elements(s) \subseteq Partitions
  OBVIOUS
<1>1. s \in Seq(Partitions) /\ s # <<>>
  BY OrdersAreSequences
<1>2. DOMAIN s = 1 .. Len(s)
  BY <1>1
<1>3. \A i, j \in DOMAIN s : s[i] = s[j] => i = j
  BY DEF Orders
<1> QED
  BY <1>1, <1>2, <1>3 DEF Distinct, Elements

\* A new project.
LEMMA InitRunInv == Init => RunInv
  BY DEF Init, RunInv, Selection, InHand, FolderShape, FreshSoFar, Extracted, Listed, PackedSoFar, Reported,
         Idle, Nothing, SuccessIsListed, PackedIsFresh, Complete

\* What an unpack run has in hand.
Busy == op.is = "unpack" /\ op.at \notin {"save", "write"}

LEMMA HandIsFull ==
    ASSUME RunInv, Busy
    PROVE  /\ Current \in Partitions /\ Current \in op.chosen /\ op.todo # <<>>
           /\ Tail(op.todo) \in Seq(Partitions) /\ Distinct(Tail(op.todo))
           /\ Elements(op.todo) = {Current} \union Elements(Tail(op.todo))
           /\ Current \notin Elements(Tail(op.todo))
           /\ Len(op.todo) = 1 <=> Tail(op.todo) = <<>>
<1>1. op.todo # <<>> /\ op.todo \in Seq(Partitions) /\ Distinct(op.todo) /\ Elements(op.todo) \subseteq op.chosen
  BY DEF RunInv, InHand, Selection, Busy
<1>2. /\ Tail(op.todo) \in Seq(Partitions) /\ Distinct(Tail(op.todo))
      /\ Head(op.todo) \in Partitions
      /\ Elements(op.todo) = {Head(op.todo)} \union Elements(Tail(op.todo))
      /\ Head(op.todo) \notin Elements(Tail(op.todo))
      /\ Len(op.todo) = 1 <=> Tail(op.todo) = <<>>
  BY <1>1, TailOfDistinct
<1> QED
  BY <1>1, <1>2 DEF Current

\* The rest of the run as a step leaves it.
Runs(todo, at, parts, old) ==
    /\ op'.is = "unpack" /\ op'.todo = todo /\ op'.at = at /\ op'.parts = parts
    /\ op'.chosen = op.chosen /\ op'.old = old

LEMMA StageRuns ==
    ASSUME op.is = "unpack", UnpackShape, NEW stage, Stage(stage)
    PROVE  Runs(op.todo, stage, op.parts, op.old) /\ op'.ok = op.ok
  BY DEF Runs, Stage, UnpackShape

\* A step within a partition that extracts nothing keeps all but what the image is.
LEMMA Within ==
    ASSUME RunInv, Busy, NEW stage \in {"normalise", "generate", "resolve", "extract"}, NEW old,
           Runs(op.todo, stage, op.parts, old), op'.ok = op.ok, op.old \subseteq old,
           UNCHANGED <<kind, input, tree, record, report, cut>>
    PROVE  (Selection /\ InHand /\ Extracted /\ Listed /\ PackedSoFar /\ Reported)' /\ Current' = Current
<1>1. Selection' /\ InHand' /\ Current' = Current
  BY HandIsFull DEF RunInv, Selection, InHand, Busy, Runs, Stages, Current
<1>2. Extracted'
  BY DEF RunInv, Extracted, Busy, Runs, Source
<1>3. Listed'
  BY DEF RunInv, Listed, Busy, Runs
<1>4. PackedSoFar' /\ Reported'
  BY DEF RunInv, Reported, PackedSoFar, Busy, Runs, SuccessIsListed, PackedIsFresh
<1> QED
  BY <1>1, <1>2, <1>3, <1>4

\* A run that is through with a partition goes on to the next one, or to the list.
LEMMA Onward ==
    ASSUME RunInv, Busy,
           Runs(Tail(op.todo), IF Len(op.todo) = 1 THEN "save" ELSE "clean", op.parts, op.old), op'.ok => op.ok,
           UNCHANGED <<kind, input, record, report, cut>>,
           \A p \in Partitions : p # Current => tree'[p] = tree[p],
           Complete(tree'[Current]) => Complete(tree[Current]) \/ Current \in op.parts,
           op'.ok => Current \in op.parts /\ (Current \notin op.old => Source(Current) \subseteq tree'[Current])
    PROVE  (Selection /\ InHand /\ FreshSoFar /\ Extracted /\ Listed /\ PackedSoFar /\ Reported)'
<1>1. Selection' /\ InHand'
  BY HandIsFull DEF RunInv, Selection, InHand, Busy, Runs, Stages
<1>2. FreshSoFar'
  BY DEF FreshSoFar, Runs
<1>3. Extracted'
  <2> SUFFICES ASSUME op'.ok, NEW p \in op.chosen, p \notin Elements(Tail(op.todo))
               PROVE  p \in op.parts /\ (p \notin op.old => Source(p) \subseteq tree'[p])
    BY DEF Extracted, Runs, Source
  <2>1. CASE p = Current
    BY <2>1
  <2>2. CASE p # Current
    BY <2>2, HandIsFull DEF RunInv, Extracted, Busy, Selection
  <2> QED
    BY <2>1, <2>2
<1>4. Listed'
  <2>1. \A p \in Partitions : Complete(tree'[p]) => p \in op.parts \/ p \in cut
    BY HandIsFull DEF RunInv, Listed, Busy
  <2>2. op.parts \subseteq record \union op.chosen
    BY DEF RunInv, Listed, Busy
  <2> QED
    BY <2>1, <2>2 DEF Listed, Runs, Complete
<1>5. PackedSoFar' /\ Reported'
  BY DEF RunInv, Reported, PackedSoFar, Busy, Runs, SuccessIsListed, PackedIsFresh
<1> QED
  BY <1>1, <1>2, <1>3, <1>4, <1>5

\* A run that an exception ends leaves what it had in hand marked as cut.
LEMMA Aborted ==
    ASSUME RunInv, Busy, Abort, UNCHANGED <<tree, record>>
    PROVE  (Selection /\ InHand /\ FreshSoFar /\ Extracted /\ Listed /\ PackedSoFar /\ Reported)'
<1>1. op'.is = "none" /\ report'.of = "unpack" /\ report'.ok = FALSE /\ cut' = cut \union op.chosen
  BY DEF Abort, Idle
<1>2. Listed'
  BY <1>1 DEF RunInv, Listed, Busy
<1>3. (Selection /\ InHand /\ FreshSoFar /\ Extracted /\ PackedSoFar /\ Reported)'
  BY <1>1 DEF Selection, InHand, FreshSoFar, Extracted, PackedSoFar, Reported, SuccessIsListed, PackedIsFresh
<1> QED
  BY <1>2, <1>3

\* A source is there, whatever it is, and has one content.
LEMMA SourceIsThere == \A p : Source(p) # {}
  BY DEF Source, Whole

\* The image a former run left goes, or the run remembers that it did not.
LEMMA DropKeeps == ASSUME IInv, RunInv, DropOldImage PROVE RunInv'
<1>1. Busy /\ op.at = "clean" /\ UnpackShape
  BY DEF DropOldImage, Unpacking, Busy, IInv, Shape
<1>2. UNCHANGED <<kind, input, tree, record, report, cut, dat>>
  BY DEF DropOldImage, histories
<1>3. FolderShape'
  BY <1>2 DEF DropOldImage, RunInv, FolderShape
<1>4. CASE image' = [image EXCEPT ![Current] = {}] /\ Stage("normalise")
  <2>1. Runs(op.todo, "normalise", op.parts, op.old) /\ op'.ok = op.ok
    BY <1>1, <1>4, StageRuns DEF Busy
  <2>2. (Selection /\ InHand /\ Extracted /\ Listed /\ PackedSoFar /\ Reported)' /\ Current' = Current
    BY <1>1, <1>2, <2>1, Within
  <2>3. image'[Current] = {}
    BY <1>1, <1>4, HandIsFull DEF RunInv, FolderShape
  <2>4. FreshSoFar'
    BY <2>1, <2>2, <2>3 DEF FreshSoFar, Runs
  <2> QED
    BY <1>3, <2>2, <2>4 DEF RunInv
<1>5. CASE op' = [op EXCEPT !.at = "normalise", !.old = @ \union {Current}]
  <2>1. Runs(op.todo, "normalise", op.parts, op.old \union {Current}) /\ op'.ok = op.ok
    BY <1>1, <1>5 DEF Runs, UnpackShape, Busy
  <2>2. (Selection /\ InHand /\ Extracted /\ Listed /\ PackedSoFar /\ Reported)' /\ Current' = Current
    BY <1>1, <1>2, <2>1, Within
  <2>3. FreshSoFar'
    BY <2>1, <2>2 DEF FreshSoFar, Runs
  <2> QED
    BY <1>3, <2>2, <2>3 DEF RunInv
<1> QED
  BY <1>4, <1>5 DEF DropOldImage

\* What is left in unpack when the source is decompressed is the source's.
LEMMA NormaliseKeeps ==
    ASSUME IInv, RunInv,
           DecompressZst \/ DecompressXz \/ DecompressBr \/ JoinChunks \/ NothingToDecompress
    PROVE  RunInv'
<1>1. Busy /\ op.at = "normalise" /\ UnpackShape /\ UNCHANGED <<kind, input, tree, record>>
  BY DEF DecompressZst, DecompressXz, DecompressBr, JoinChunks, NothingToDecompress, folders,
         Unpacking, Busy, IInv, Shape
<1>2. Current \notin op.old => image[Current] = {}
  BY <1>1, HandIsFull DEF RunInv, FreshSoFar, Busy
<1>3. FolderShape'
  BY DEF DecompressZst, DecompressXz, DecompressBr, JoinChunks, NothingToDecompress, folders, RunInv, FolderShape
<1>5. Current \in Partitions
  BY <1>1, HandIsFull
<1>6. CASE DecompressZst
  <2>1. Runs(op.todo, "resolve", op.parts, op.old) /\ op'.ok = op.ok /\ UNCHANGED <<report, cut>>
    BY <1>1, <1>6, StageRuns DEF Busy, DecompressZst, histories
  <2>2. (Selection /\ InHand /\ Extracted /\ Listed /\ PackedSoFar /\ Reported)' /\ Current' = Current
    BY <1>1, <2>1, Within
  <2>3. Current \notin op.old => image'[Current] \in {{}, Source(Current)}
    BY <1>2, <1>5, <1>6 DEF DecompressZst, RunInv, FolderShape
  <2>4. FreshSoFar'
    BY <1>1, <2>1, <2>2, <2>3 DEF FreshSoFar, Runs, Source
  <2> QED
    BY <1>3, <2>2, <2>4 DEF RunInv
<1>7. CASE DecompressXz
  <2>1. CASE Abort
    BY <1>1, <1>3, <2>1, Aborted DEF RunInv
  <2>2. CASE dat' = [dat EXCEPT ![Current] = Source(Current)] /\ Stage("generate") /\ UNCHANGED <<report, cut>>
    <3>1. Runs(op.todo, "generate", op.parts, op.old) /\ op'.ok = op.ok
      BY <1>1, <2>2, StageRuns DEF Busy
    <3>2. (Selection /\ InHand /\ Extracted /\ Listed /\ PackedSoFar /\ Reported)' /\ Current' = Current
      BY <1>1, <2>2, <3>1, Within
    <3>3. DatUsed' = Source(Current) /\ image' = image
      BY <1>1, <1>5, <1>7, <2>2, <3>2 DEF DatUsed, DecompressXz, RunInv, FolderShape, Source
    <3>4. FreshSoFar'
      BY <1>1, <1>2, <3>1, <3>2, <3>3 DEF FreshSoFar, Runs, Source
    <3> QED
      BY <1>3, <3>2, <3>4 DEF RunInv
  <2> QED
    BY <1>7, <2>1, <2>2 DEF DecompressXz
<1>8. CASE DecompressBr
  <2>0. UNCHANGED <<report, cut, image>>
    BY <1>8 DEF DecompressBr, histories
  <2>1. CASE dat' = [dat EXCEPT ![Current] = Source(Current)] /\ Stage("generate")
    <3>1. Runs(op.todo, "generate", op.parts, op.old) /\ op'.ok = op.ok
      BY <1>1, <2>1, StageRuns DEF Busy
    <3>2. (Selection /\ InHand /\ Extracted /\ Listed /\ PackedSoFar /\ Reported)' /\ Current' = Current
      BY <1>1, <2>0, <3>1, Within
    <3>3. DatUsed' = Source(Current)
      BY <1>1, <1>5, <1>8, <2>1, <3>2 DEF DatUsed, DecompressBr, RunInv, FolderShape, Source
    <3>4. FreshSoFar'
      BY <1>1, <1>2, <2>0, <3>1, <3>2, <3>3 DEF FreshSoFar, Runs, Source
    <3> QED
      BY <1>3, <3>2, <3>4 DEF RunInv
  <2>2. CASE Stage("resolve")
    <3>1. Runs(op.todo, "resolve", op.parts, op.old) /\ op'.ok = op.ok
      BY <1>1, <2>2, StageRuns DEF Busy
    <3>2. (Selection /\ InHand /\ Extracted /\ Listed /\ PackedSoFar /\ Reported)' /\ Current' = Current
      BY <1>1, <2>0, <3>1, Within
    <3>3. FreshSoFar'
      BY <1>2, <2>0, <3>1, <3>2 DEF FreshSoFar, Runs
    <3> QED
      BY <1>3, <3>2, <3>3 DEF RunInv
  <2> QED
    BY <1>8, <2>1, <2>2 DEF DecompressBr
<1>9. CASE JoinChunks
  <2> DEFINE old == IF dat[Current] = {} THEN op.old ELSE op.old \union {Current}
  <2>0. UNCHANGED <<report, cut, image>> /\ dat' = [dat EXCEPT ![Current] = @ \union Source(Current)]
        /\ op' = [op EXCEPT !.at = "generate", !.old = old]
    BY <1>9 DEF JoinChunks, histories
  <2>1. Runs(op.todo, "generate", op.parts, old) /\ op'.ok = op.ok
    BY <1>1, <2>0 DEF Runs, UnpackShape, Busy
  <2>2. op.old \subseteq old
    OBVIOUS
  <2>3. Current \notin old => dat[Current] = {} /\ Current \notin op.old
    OBVIOUS
  <2> HIDE DEF old
  <2>4. (Selection /\ InHand /\ Extracted /\ Listed /\ PackedSoFar /\ Reported)' /\ Current' = Current
    BY <1>1, <2>0, <2>1, <2>2, Within
  <2>5. Current \notin old => DatUsed' = Source(Current)
    BY <1>1, <1>5, <1>9, <2>0, <2>3, <2>4 DEF DatUsed, JoinChunks, RunInv, FolderShape, Source
  <2>6. FreshSoFar'
    BY <1>1, <1>2, <2>0, <2>1, <2>3, <2>4, <2>5 DEF FreshSoFar, Runs, Source
  <2> QED
    BY <1>3, <2>4, <2>6 DEF RunInv
<1>10. CASE NothingToDecompress
  <2> DEFINE stage == IF input[Current].form = "plain" THEN "generate" ELSE "resolve"
  <2>0. Stage(stage) /\ stage \in {"generate", "resolve"} /\ UNCHANGED <<report, cut, image, dat>>
    BY <1>10 DEF NothingToDecompress, folders, histories
  <2>1. Runs(op.todo, stage, op.parts, op.old) /\ op'.ok = op.ok
    BY <1>1, <2>0, StageRuns DEF Busy
  <2>2. (Selection /\ InHand /\ Extracted /\ Listed /\ PackedSoFar /\ Reported)' /\ Current' = Current
    BY <1>1, <2>0, <2>1, Within
  <2>3. stage = "generate" => DatUsed' = Source(Current)
    BY <1>1, <2>2 DEF DatUsed, Source
  <2> HIDE DEF stage
  <2>4. FreshSoFar'
    BY <1>1, <1>2, <2>0, <2>1, <2>2, <2>3 DEF FreshSoFar, Runs, Source
  <2> QED
    BY <1>3, <2>2, <2>4 DEF RunInv
<1> QED
  BY <1>6, <1>7, <1>8, <1>9, <1>10

\* The dat becomes the image.
LEMMA GenerateKeeps == ASSUME IInv, RunInv, GenerateImage \/ NoTransferList PROVE RunInv'
<1>1. Busy /\ op.at = "generate" /\ UnpackShape /\ UNCHANGED <<kind, input, tree, record>>
  BY DEF GenerateImage, NoTransferList, folders, Unpacking, Busy, IInv, Shape
<1>2. Current \notin op.old => image[Current] = {} /\ DatUsed = Source(Current)
  BY <1>1, HandIsFull DEF RunInv, FreshSoFar, Busy
<1>3. FolderShape'
  BY DEF GenerateImage, NoTransferList, folders, RunInv, FolderShape
<1>4. Current \in Partitions
  BY <1>1, HandIsFull
<1>5. CASE Abort
  BY <1>1, <1>3, <1>5, Aborted DEF RunInv
<1>6. CASE Stage("resolve") /\ UNCHANGED <<report, cut>>
           /\ (image' = image \/ image' = [image EXCEPT ![Current] = DatUsed])
  <2>1. Runs(op.todo, "resolve", op.parts, op.old) /\ op'.ok = op.ok
    BY <1>1, <1>6, StageRuns DEF Busy
  <2>2. (Selection /\ InHand /\ Extracted /\ Listed /\ PackedSoFar /\ Reported)' /\ Current' = Current
    BY <1>1, <1>6, <2>1, Within
  <2>3. Current \notin op.old => image'[Current] \in {{}, Source(Current)}
    BY <1>2, <1>4, <1>6 DEF RunInv, FolderShape
  <2>4. FreshSoFar'
    BY <1>1, <2>1, <2>2, <2>3 DEF FreshSoFar, Runs, Source
  <2> QED
    BY <1>3, <2>2, <2>4 DEF RunInv
<1>7. CASE GenerateImage
  BY <1>5, <1>6, <1>7 DEF GenerateImage
<1>8. CASE NoTransferList
  BY <1>6, <1>8 DEF NoTransferList, folders, histories
<1> QED
  BY <1>7, <1>8

\* The image that is extracted is the one in unpack, or the source.
LEMMA ResolveKeeps == ASSUME IInv, RunInv, ResolveImage PROVE RunInv'
<1>1. Busy /\ op.at = "resolve" /\ UnpackShape /\ UNCHANGED <<kind, input, tree, record, report, cut>>
  BY DEF ResolveImage, Unpacking, Busy, IInv, Shape, histories
<1>2. Current \notin op.old => image[Current] \in {{}, Source(Current)}
  BY <1>1, HandIsFull DEF RunInv, FreshSoFar, Busy
<1>3. FolderShape'
  BY DEF ResolveImage, RunInv, FolderShape
<1>4. Current \in Partitions
  BY <1>1, HandIsFull
<1>5. Runs(op.todo, "extract", op.parts, op.old) /\ op'.ok = op.ok
  BY <1>1 DEF ResolveImage, Runs, UnpackShape, Busy
<1>6. (Selection /\ InHand /\ Extracted /\ Listed /\ PackedSoFar /\ Reported)' /\ Current' = Current
  BY <1>1, <1>5, Within
<1>7. Current \notin op.old => image'[Current] \in {{}, Source(Current)}
  BY <1>2, <1>4 DEF ResolveImage, RunInv, FolderShape
<1>8. FreshSoFar'
  BY <1>1, <1>5, <1>6, <1>7 DEF FreshSoFar, Runs, Source, Image
<1> QED
  BY <1>3, <1>6, <1>8 DEF RunInv

LEMMA MissingKeeps == ASSUME IInv, RunInv, SourceMissing PROVE RunInv'
<1>1. Busy /\ UnpackShape /\ UNCHANGED <<kind, input, tree, record, report, cut>>
  BY DEF SourceMissing, Unpacking, Busy, IInv, Shape, histories, folders
<1>2. FolderShape'
  BY DEF SourceMissing, folders, RunInv, FolderShape
<1>3. Runs(Tail(op.todo), IF Len(op.todo) = 1 THEN "save" ELSE "clean", op.parts, op.old) /\ op'.ok = FALSE
  BY <1>1 DEF SourceMissing, Runs, UnpackShape, Busy, ToNext
<1>4. (Selection /\ InHand /\ FreshSoFar /\ Extracted /\ Listed /\ PackedSoFar /\ Reported)'
  BY <1>1, <1>3, Onward
<1> QED
  BY <1>2, <1>4 DEF RunInv

\* The type is noted before there is anything in the directory.
LEMMA BeginKeeps == ASSUME IInv, RunInv, BeginExtract PROVE RunInv'
<1>1. Busy /\ op.at = "extract" /\ UnpackShape /\ UNCHANGED <<kind, input, image, record, report, cut>>
  BY DEF BeginExtract, Unpacking, Busy, IInv, Shape, histories
<1>2. Current \notin op.old => Image(Current) = Source(Current)
  BY <1>1, HandIsFull DEF RunInv, FreshSoFar, Busy
<1>3. FolderShape'
  BY DEF BeginExtract, RunInv, FolderShape
<1>4. Current \in Partitions /\ Current \in op.chosen /\ Current \in Elements(op.todo)
  BY <1>1, HandIsFull
<1>5. Runs(op.todo, "extracting", op.parts \union {Current}, op.old) /\ op'.ok = op.ok
  BY <1>1 DEF BeginExtract, Runs, UnpackShape, Busy
<1>6. Selection' /\ InHand' /\ Current' = Current
  BY <1>1, <1>5, HandIsFull DEF RunInv, Selection, InHand, Busy, Runs, Stages, Current
<1>7. \A p \in Partitions : p # Current => tree'[p] = tree[p]
  BY <1>4 DEF BeginExtract, IInv, Shape
<1>8. FreshSoFar'
  BY <1>1, <1>2, <1>5, <1>6 DEF FreshSoFar, Runs, Source, Image
<1>9. Extracted'
  BY <1>1, <1>4, <1>5, <1>7 DEF RunInv, Selection, Extracted, Busy, Runs, Source
<1>10. Listed'
  <2>1. \A p \in Partitions : Complete(tree'[p]) => p \in op.parts \union {Current} \/ p \in cut
    BY <1>1, <1>7 DEF RunInv, Listed, Busy
  <2>2. op.parts \union {Current} \subseteq record \union op.chosen
    BY <1>1, <1>4 DEF RunInv, Listed, Busy
  <2> QED
    BY <1>1, <1>5, <1>6, <2>1, <2>2 DEF Listed, Runs, Complete
<1>11. PackedSoFar' /\ Reported'
  BY <1>1, <1>5 DEF RunInv, Reported, PackedSoFar, Busy, Runs, SuccessIsListed, PackedIsFresh
<1> QED
  BY <1>3, <1>6, <1>8, <1>9, <1>10, <1>11 DEF RunInv

\* What is extracted whole has the source in it.
LEMMA EndKeeps == ASSUME IInv, RunInv, EndExtract PROVE RunInv'
<1>1. Busy /\ op.at = "extracting" /\ UnpackShape /\ UNCHANGED <<kind, input, record>>
  BY DEF EndExtract, Unpacking, Busy, IInv, Shape
<1>2. Current \notin op.old => Image(Current) = Source(Current)
  BY <1>1, HandIsFull DEF RunInv, FreshSoFar, Busy
<1>3. FolderShape'
  BY DEF EndExtract, RunInv, FolderShape
<1>4. Current \in Partitions /\ Current \in op.parts
  BY <1>1, HandIsFull DEF RunInv, Listed, Busy
<1>5. CASE Abort /\ UNCHANGED tree
  BY <1>1, <1>3, <1>5, Aborted DEF RunInv
<1>6. CASE /\ tree' = [tree EXCEPT ![Current] = Over(@, Image(Current))]
           /\ op' = ToNext(op)
           /\ UNCHANGED <<report, cut>>
  <2>1. Runs(Tail(op.todo), IF Len(op.todo) = 1 THEN "save" ELSE "clean", op.parts, op.old) /\ op'.ok = op.ok
    BY <1>1, <1>6 DEF Runs, UnpackShape, Busy, ToNext
  <2>2. \A p \in Partitions : p # Current => tree'[p] = tree[p]
    BY <1>6 DEF IInv, Shape
  <2>3. Image(Current) \subseteq tree'[Current]
    BY <1>4, <1>6 DEF IInv, Shape, Over
  <2>4. (Selection /\ InHand /\ FreshSoFar /\ Extracted /\ Listed /\ PackedSoFar /\ Reported)'
    BY <1>1, <1>2, <1>4, <1>6, <2>1, <2>2, <2>3, Onward
  <2> QED
    BY <1>3, <2>4 DEF RunInv
<1>7. CASE /\ UNCHANGED tree \/ tree' = [tree EXCEPT ![Current] = {}]
           /\ op' = ToNext([op EXCEPT !.ok = FALSE])
           /\ UNCHANGED <<report, cut>>
  <2>1. Runs(Tail(op.todo), IF Len(op.todo) = 1 THEN "save" ELSE "clean", op.parts, op.old) /\ op'.ok = FALSE
    BY <1>1, <1>7 DEF Runs, UnpackShape, Busy, ToNext
  <2>2. \A p \in Partitions : p # Current => tree'[p] = tree[p]
    BY <1>7 DEF IInv, Shape
  <2>3. (Selection /\ InHand /\ FreshSoFar /\ Extracted /\ Listed /\ PackedSoFar /\ Reported)'
    BY <1>1, <1>4, <1>7, <2>1, <2>2, Onward
  <2> QED
    BY <1>3, <2>3 DEF RunInv
<1> QED
  BY <1>5, <1>6, <1>7 DEF EndExtract

\* The list that is written names every directory that is there.
LEMMA SaveKeeps == ASSUME IInv, RunInv, TruncateRecord \/ WriteRecord PROVE RunInv'
<1>1. op.is = "unpack" /\ op.at \in {"save", "write"} /\ UnpackShape /\ UNCHANGED <<kind, input, image, dat, tree>>
  BY DEF TruncateRecord, WriteRecord, Unpacking, IInv, Shape
<1>2. FolderShape'
  BY <1>1 DEF RunInv, FolderShape
<1>3. op.todo = <<>>
  BY <1>1 DEF RunInv, InHand
<1>4. CASE TruncateRecord
  <2>1. Runs(op.todo, "write", op.parts, op.old) /\ op'.ok = op.ok /\ UNCHANGED <<report, cut>>
    BY <1>1, <1>4, StageRuns DEF TruncateRecord, histories
  <2>2. Selection' /\ InHand' /\ FreshSoFar'
    BY <1>1, <1>3, <2>1 DEF RunInv, Selection, InHand, FreshSoFar, Runs, Stages
  <2>3. Extracted'
    BY <1>1, <2>1 DEF RunInv, Extracted, Runs, Source
  <2>4. Listed'
    BY <1>1, <2>1 DEF RunInv, Listed, Runs
  <2>5. PackedSoFar' /\ Reported'
    BY <1>1, <2>1 DEF RunInv, Reported, PackedSoFar, Runs, SuccessIsListed, PackedIsFresh
  <2> QED
    BY <1>2, <2>2, <2>3, <2>4, <2>5 DEF RunInv
<1>5. CASE WriteRecord
  <2>1. op'.is = "none" /\ record' = op.parts /\ cut' = cut \ op.parts
    BY <1>5 DEF WriteRecord, Idle
  <2>2. report' = [of |-> "unpack", ok |-> op.ok /\ op.any, parts |-> op.chosen,
                   imported |-> op.imported, old |-> op.old]
    BY <1>5 DEF WriteRecord
  <2>3. Selection' /\ InHand' /\ FreshSoFar' /\ Extracted' /\ PackedSoFar'
    BY <2>1 DEF Selection, InHand, FreshSoFar, Extracted, PackedSoFar
  <2>4. Listed'
    BY <1>1, <2>1 DEF RunInv, Listed
  <2>5. Elements(op.todo) = {}
    BY <1>3 DEF Elements
  <2>6. report'.ok => op.ok
    BY <2>2
  <2>7. SuccessIsListed'
    BY <1>1, <2>1, <2>2, <2>5, <2>6 DEF RunInv, Extracted, SuccessIsListed, Source
  <2>8. Reported'
    BY <2>1, <2>2, <2>7 DEF Reported, PackedIsFresh
  <2> QED
    BY <1>2, <2>3, <2>4, <2>8 DEF RunInv
<1> QED
  BY <1>4, <1>5

\* A run begins with what is listed and nothing done.
LEMMA BeginsWell ==
    ASSUME IInv, RunInv, AtRest, NEW todo \in Orders, NEW imported, op' = BeginUnpack(todo, imported),
           UNCHANGED <<tree, record, cut>>, report' = Nothing
    PROVE  (Selection /\ InHand /\ FreshSoFar /\ Extracted /\ Listed /\ PackedSoFar /\ Reported)'
<1>1. /\ todo \in Seq(Partitions) /\ todo # <<>> /\ Distinct(todo)
      /\ Elements(todo) = { todo[i] : i \in DOMAIN todo } /\ Elements(todo) \subseteq Partitions
  BY OrdersAreDistinct
<1>2. /\ op'.is = "unpack" /\ op'.todo = todo /\ op'.at = "clean" /\ op'.parts = record
      /\ op'.chosen = Elements(todo) /\ op.is = "none"
  BY <1>1 DEF BeginUnpack, AtRest
<1>3. Selection' /\ InHand' /\ FreshSoFar' /\ Extracted'
  BY <1>1, <1>2 DEF Selection, InHand, FreshSoFar, Extracted, Stages
<1>4. Listed'
  BY <1>2 DEF RunInv, Listed
<1>5. PackedSoFar' /\ Reported'
  BY <1>2 DEF PackedSoFar, Reported, Nothing, SuccessIsListed, PackedIsFresh
<1> QED
  BY <1>3, <1>4, <1>5

\* Between the runs.
LEMMA RestKeeps ==
    ASSUME IInv, RunInv, AtRest, op' = op, UNCHANGED <<record, cut>>,
           \A p \in Partitions : Complete(tree'[p]) => Complete(tree[p]), report'.of \in {"none", "import"}
    PROVE  (Selection /\ InHand /\ FreshSoFar /\ Extracted /\ Listed /\ PackedSoFar /\ Reported)'
<1>1. op.is = "none" /\ op'.is = "none"
  BY DEF AtRest
<1>2. Listed'
  BY <1>1 DEF RunInv, Listed, Complete
<1> QED
  BY <1>1, <1>2 DEF Selection, InHand, FreshSoFar, Extracted, PackedSoFar, Reported, SuccessIsListed, PackedIsFresh

LEMMA SourcesKeep ==
    ASSUME IInv, RunInv, NEW p \in Partitions, PutSource(p) \/ EditTree(p)
    PROVE  RunInv'
<1>1. FolderShape'
  BY DEF PutSource, EditTree, RunInv, FolderShape
<1>2. AtRest /\ op' = op /\ UNCHANGED <<record, cut>> /\ report'.of \in {"none", "import"}
  BY DEF PutSource, EditTree, Nothing
<1>3. ASSUME NEW q \in Partitions, Complete(tree'[q]) PROVE Complete(tree[q])
  <2>1. CASE tree'[q] = tree[q]
    BY <1>3, <2>1
  <2>2. CASE tree[q] # {} /\ tree[q] \subseteq tree'[q]
    BY <1>3, <2>2 DEF Complete
  <2> QED
    BY <2>1, <2>2 DEF PutSource, EditTree, IInv, Shape
<1>4. (Selection /\ InHand /\ FreshSoFar /\ Extracted /\ Listed /\ PackedSoFar /\ Reported)'
  BY <1>2, <1>3, RestKeeps
<1> QED
  BY <1>1, <1>4 DEF RunInv

LEMMA StartKeeps == ASSUME IInv, RunInv, StartUnpack \/ Import PROVE RunInv'
<1>1. FolderShape'
  BY DEF StartUnpack, Import, folders, RunInv, FolderShape
<1>2. UNCHANGED <<tree, record, cut>> /\ AtRest
  BY DEF StartUnpack, Import, Start, folders
<1>3. CASE StartUnpack
  <2>1. PICK todo \in Orders : op' = BeginUnpack(todo, {})
    BY <1>3 DEF StartUnpack
  <2>2. report' = Nothing
    BY <1>3 DEF StartUnpack
  <2>3. (Selection /\ InHand /\ FreshSoFar /\ Extracted /\ Listed /\ PackedSoFar /\ Reported)'
    BY <1>2, <2>1, <2>2, BeginsWell
  <2> QED
    BY <1>1, <2>3 DEF RunInv
<1>4. CASE Import
  <2>1. CASE op' = op /\ report'.of = "import"
    <3>1. (Selection /\ InHand /\ FreshSoFar /\ Extracted /\ Listed /\ PackedSoFar /\ Reported)'
      BY <1>2, <2>1, RestKeeps
    <3> QED
      BY <1>1, <3>1 DEF RunInv
  <2>2. ASSUME NEW todo \in Orders, NEW found, op' = BeginUnpack(todo, found), report' = Nothing PROVE RunInv'
    <3>1. (Selection /\ InHand /\ FreshSoFar /\ Extracted /\ Listed /\ PackedSoFar /\ Reported)'
      BY <1>2, <2>2, BeginsWell
    <3> QED
      BY <1>1, <3>1 DEF RunInv
  <2> QED
    BY <1>4, <2>1, <2>2 DEF Import
<1> QED
  BY <1>3, <1>4

\* A run that is cut short leaves what it was to do marked.
LEMMA CrashKeeps == ASSUME IInv, RunInv, Crash PROVE RunInv'
<1>1. FolderShape'
  BY DEF Crash, RunInv, FolderShape
<1>2. op'.is = "none" /\ report'.of = "none" /\ UNCHANGED <<tree, record>> /\ op.is \in {"unpack", "pack"}
  BY DEF Crash, Idle, Nothing, AtRest, IInv, Shape
<1>3. Listed'
  <2> SUFFICES ASSUME NEW p \in Partitions, Complete(tree[p]) PROVE p \in record \/ p \in cut'
    BY <1>2 DEF Listed
  <2>1. CASE op.is = "pack"
    BY <2>1 DEF Crash, RunInv, Listed
  <2>2. CASE op.is = "unpack" /\ op.at = "write"
    BY <2>2 DEF Crash
  <2>3. CASE op.is = "unpack" /\ op.at # "write"
    BY <2>3 DEF Crash, RunInv, Listed
  <2> QED
    BY <1>2, <2>1, <2>2, <2>3
<1> QED
  BY <1>1, <1>2, <1>3 DEF RunInv, Selection, InHand, FreshSoFar, Extracted, PackedSoFar, Reported,
                          SuccessIsListed, PackedIsFresh

\* A packing run touches what it has in hand and nothing else.
LEMMA PackingIs ==
    ASSUME IInv, RunInv, op.is = "pack"
    PROVE  /\ Packed \in Partitions /\ Packed \in op.chosen /\ report.of = "none"
           /\ Tail(op.todo) \in Seq(Partitions) /\ Distinct(Tail(op.todo))
           /\ Elements(op.todo) = {Packed} \union Elements(Tail(op.todo))
           /\ Len(op.todo) = 1 <=> Tail(op.todo) = <<>>
<1>1. op.todo \in Seq(Partitions) /\ op.todo # <<>> /\ Distinct(op.todo) /\ Elements(op.todo) \subseteq op.chosen
  BY DEF IInv, Shape, PackShape, RunInv, Selection
<1>2. /\ Tail(op.todo) \in Seq(Partitions) /\ Distinct(Tail(op.todo))
      /\ Head(op.todo) \in Partitions
      /\ Elements(op.todo) = {Head(op.todo)} \union Elements(Tail(op.todo))
      /\ Len(op.todo) = 1 <=> Tail(op.todo) = <<>>
  BY <1>1, TailOfDistinct
<1> QED
  BY <1>1, <1>2 DEF Packed, RunInv, Reported

\* It takes directories away and extracts none.
LEMMA PackListed ==
    ASSUME IInv, RunInv, op.is = "pack", op'.is # "unpack", UNCHANGED <<record, cut>>,
           UNCHANGED tree \/ tree' = [tree EXCEPT ![Packed] = {}]
    PROVE  Listed'
<1> SUFFICES ASSUME NEW p \in Partitions, Complete(tree'[p]) PROVE p \in record \/ p \in cut
  BY DEF Listed, Complete
<1>1. tree'[p] = tree[p] \/ tree'[p] = {}
  BY DEF IInv, Shape
<1>2. Complete(tree[p])
  BY <1>1 DEF Complete
<1> QED
  BY <1>2 DEF RunInv, Listed

\* A step within a partition.
LEMMA PackWithin ==
    ASSUME IInv, RunInv, op.is = "pack", NEW stage, Goes(stage),
           \A p \in Partitions : p # Packed => output'[p] = output[p],
           UNCHANGED <<kind, image, dat, tree, record, report, cut>>
    PROVE  RunInv'
<1>1. op'.is = "pack" /\ op'.todo = op.todo /\ op'.chosen = op.chosen /\ op'.format = op.format
  BY DEF Goes, IInv, Shape, PackShape
<1>2. Listed'
  BY <1>1, PackListed
<1>3. PackedSoFar'
  BY <1>1, PackingIs DEF RunInv, PackedSoFar, Selection
<1>4. Reported'
  BY <1>1, PackingIs DEF Reported, SuccessIsListed, PackedIsFresh
<1> QED
  BY <1>1, <1>2, <1>3, <1>4 DEF RunInv, Selection, InHand, FolderShape, FreshSoFar, Extracted

\* A run that fails.
LEMMA PackFails ==
    ASSUME IInv, RunInv, op.is = "pack", PackEnds(FALSE),
           UNCHANGED <<kind, image, dat, tree, record, cut>>
    PROVE  RunInv'
<1>1. op'.is = "none" /\ report'.of = "pack" /\ report'.ok = FALSE
  BY DEF PackEnds, Idle
<1>2. Listed'
  BY <1>1, PackListed
<1> QED
  BY <1>1, <1>2 DEF RunInv, Selection, InHand, FolderShape, FreshSoFar, Extracted, PackedSoFar, Reported,
                    SuccessIsListed, PackedIsFresh

\* What a packing run of a format leaves.
LEMMA HoldsWhat == \A f : HoldsIt("packed", f) = IF f \in {"dat", "br"} THEN f ELSE "img"
  BY DEF HoldsIt

\* A run that is through with a partition.
LEMMA PackOnward ==
    ASSUME IInv, RunInv, op.is = "pack", PackNextPartition,
           \A p \in Partitions : p # Packed => output'[p] = output[p],
           UNCHANGED tree \/ tree' = [tree EXCEPT ![Packed] = {}],
           kind[Packed] = "fs" /\ tree'[Packed] # {} =>
               output'[Packed][HoldsIt("packed", op.format)] = tree'[Packed],
           UNCHANGED <<kind, image, dat, record, cut>>
    PROVE  RunInv'
<1>0. FolderShape'
  BY DEF RunInv, FolderShape
<1>1. ASSUME NEW p \in op.chosen, p \notin Elements(Tail(op.todo)), kind[p] = "fs", tree'[p] # {}
      PROVE  output'[p][HoldsIt("packed", op.format)] = tree'[p]
  <2>1. p \in Partitions
    BY DEF RunInv, Selection
  <2>2. CASE p = Packed
    BY <1>1, <2>2
  <2>3. CASE p # Packed
    <3>1. tree'[p] = tree[p] /\ output'[p] = output[p]
      BY <2>1, <2>3 DEF IInv, Shape
    <3>2. p \notin Elements(op.todo)
      BY <1>1, <2>3, PackingIs
    <3> QED
      BY <1>1, <3>1, <3>2 DEF RunInv, PackedSoFar
  <2> QED
    BY <2>2, <2>3
<1>2. CASE Len(op.todo) = 1
  <2>1. op'.is = "none"
        /\ report' = [of |-> "pack", ok |-> TRUE, parts |-> op.chosen, format |-> op.format]
    BY <1>2 DEF PackNextPartition, PackEnds, Idle
  <2>2. Listed'
    BY <2>1, PackListed
  <2>3. Elements(Tail(op.todo)) = {}
    BY <1>2, PackingIs DEF Elements
  <2>4. PackedIsFresh'
    BY <1>1, <2>1, <2>3, HoldsWhat DEF PackedIsFresh
  <2> QED
    BY <1>0, <2>1, <2>2, <2>4 DEF RunInv, Selection, InHand, FreshSoFar, Extracted, PackedSoFar, Reported,
                            SuccessIsListed
<1>3. CASE Len(op.todo) # 1
  <2>1. /\ op'.is = "pack" /\ op'.todo = Tail(op.todo) /\ op'.chosen = op.chosen /\ op'.format = op.format
        /\ report' = report
    BY <1>3 DEF PackNextPartition, IInv, Shape, PackShape
  <2>2. Listed'
    BY <2>1, PackListed
  <2>3. Selection'
    BY <2>1, PackingIs DEF RunInv, Selection
  <2>4. PackedSoFar'
    BY <1>1, <2>1 DEF PackedSoFar
  <2>5. Reported'
    BY <2>1, PackingIs DEF Reported, SuccessIsListed, PackedIsFresh
  <2> QED
    BY <1>0, <2>1, <2>2, <2>3, <2>4, <2>5 DEF RunInv, InHand, FreshSoFar, Extracted
<1> QED
  BY <1>2, <1>3

\* What a step writes to output is of the partition in hand.
LEMMA OutputOfOne ==
    ASSUME NEW p, NEW file, NEW data, Shape, Output(p, file, data)
    PROVE  \A q \in Partitions : q # p => output'[q] = output[q]
  BY DEF Shape, Output

LEMMA PackRunKeeps == ASSUME IInv, RunInv, PackNext PROVE RunInv'
<1>0. Shape
  BY DEF IInv
<1>1. CASE StartPack
  <2>1. PICK todo \in Orders, format \in Formats, remove \in BOOLEAN :
          op' = [is |-> "pack", todo |-> todo, at |-> "build", format |-> format,
                 remove |-> remove, chosen |-> { todo[i] : i \in DOMAIN todo }]
    BY <1>1 DEF StartPack
  <2>2. /\ op.is = "none" /\ report' = Nothing
        /\ UNCHANGED <<image, dat, tree, record, cut>>
    BY <1>1 DEF StartPack, Start, AtRest, folders
  <2>3. /\ todo \in Seq(Partitions) /\ Distinct(todo) /\ Elements(todo) \subseteq Partitions
        /\ Elements(todo) = { todo[i] : i \in DOMAIN todo }
    BY OrdersAreDistinct
  <2>4. op'.is = "pack" /\ op'.todo = todo /\ op'.chosen = Elements(todo)
    BY <2>1, <2>3
  <2>5. Selection' /\ PackedSoFar'
    BY <2>3, <2>4 DEF Selection, PackedSoFar
  <2>6. Listed' /\ FolderShape'
    BY <2>2, <2>4 DEF RunInv, Listed, FolderShape
  <2>7. Reported'
    BY <2>2 DEF Reported, Nothing, SuccessIsListed, PackedIsFresh
  <2> QED
    BY <2>4, <2>5, <2>6, <2>7 DEF RunInv, InHand, FreshSoFar, Extracted
<1>2. CASE BeginBuild
  <2>1. op.is = "pack" /\ Output(Packed, "img", InPart(tree[Packed])) /\ Goes("building")
        /\ UNCHANGED <<kind, image, dat, tree, record, report, cut>>
    BY <1>2 DEF BeginBuild, Packing, histories
  <2>2. \A q \in Partitions : q # Packed => output'[q] = output[q]
    BY <1>0, <2>1, OutputOfOne
  <2> QED
    BY <2>1, <2>2, PackWithin
<1>3. CASE EndBuild
  <2>1. op.is = "pack" /\ UNCHANGED <<kind, image, dat, tree, record, cut>>
    BY <1>3 DEF EndBuild, Packing, histories
  <2>2. CASE Output(Packed, "img", tree[Packed]) /\ Goes("convert") /\ UNCHANGED report
    <3>1. \A q \in Partitions : q # Packed => output'[q] = output[q]
      BY <1>0, <2>2, OutputOfOne
    <3> QED
      BY <2>1, <2>2, <3>1, PackWithin
  <2> QED
    BY <1>3, <2>1, <2>2, PackFails DEF EndBuild
<1>4. CASE ConvertSparse
  <2>1. op.is = "pack" /\ UNCHANGED <<kind, image, dat, tree, record, output, cut>>
    BY <1>4 DEF ConvertSparse, Packing, folders, histories
  <2>2. CASE Goes(IF op.format \in {"dat", "br"} THEN "dat" ELSE "packed") /\ UNCHANGED report
    BY <2>1, <2>2, PackWithin
  <2> QED
    BY <1>4, <2>1, <2>2, PackFails DEF ConvertSparse
<1>5. CASE WriteDat
  <2>1. op.is = "pack" /\ Goes(IF op.format = "br" THEN "compress" ELSE "packed")
        /\ UNCHANGED <<kind, image, dat, tree, record, report, cut>>
    BY <1>5 DEF WriteDat, Packing, histories
  <2>2. \A q \in Partitions : q # Packed => output'[q] = output[q]
    BY <1>5 DEF WriteDat, IInv, Shape
  <2> QED
    BY <2>1, <2>2, PackWithin
<1>6. CASE CompressDat
  <2>1. op.is = "pack" /\ UNCHANGED <<kind, image, dat, tree, record, cut>>
    BY <1>6 DEF CompressDat, Packing, histories
  <2>2. CASE /\ output' = [output EXCEPT ![Packed].br = output[Packed].dat, ![Packed].dat = {}]
             /\ Goes("packed") /\ UNCHANGED report
    <3>1. \A q \in Partitions : q # Packed => output'[q] = output[q]
      BY <2>2 DEF IInv, Shape
    <3> QED
      BY <2>1, <2>2, <3>1, PackWithin
  <2> QED
    BY <1>6, <2>1, <2>2, PackFails DEF CompressDat
<1>7. CASE KeepSource \/ RemoveSource
  <2>1. /\ op.is = "pack" /\ op.at = "packed" /\ PackNextPartition
        /\ UNCHANGED <<kind, image, dat, record, output, cut>>
        /\ UNCHANGED tree \/ tree' = [tree EXCEPT ![Packed] = {}]
    BY <1>7 DEF KeepSource, RemoveSource, Packing, folders, histories
  <2>2. output[Packed][HoldsIt("packed", op.format)] = tree[Packed]
    BY <2>1 DEF IInv, Built
  <2>3. tree'[Packed] \in {{}, tree[Packed]}
    BY <2>1, PackingIs DEF IInv, Shape
  <2> QED
    BY <2>1, <2>2, <2>3, PackOnward
<1>8. CASE SourceNotRemoved
  <2>1. op.is = "pack" /\ PackEnds(FALSE) /\ UNCHANGED <<kind, image, dat, tree, record, cut>>
    BY <1>8 DEF SourceNotRemoved, Packing, folders, histories
  <2> QED
    BY <2>1, PackFails
<1>9. CASE PackDtbo \/ PackBoot \/ BootNotPacked
  <2>1. /\ op.is = "pack" /\ kind[Packed] # "fs" /\ PackNextPartition
        /\ UNCHANGED <<kind, image, dat, record, cut>>
        /\ UNCHANGED tree \/ tree' = [tree EXCEPT ![Packed] = {}]
    BY <1>9 DEF PackDtbo, PackBoot, BootNotPacked, Packing, folders, histories
  <2>2. UNCHANGED output \/ \E data : Output(Packed, "img", data)
    BY <1>9 DEF PackDtbo, PackBoot, BootNotPacked, folders
  <2>3. \A q \in Partitions : q # Packed => output'[q] = output[q]
    BY <1>0, <2>2, OutputOfOne
  <2> QED
    BY <2>1, <2>3, PackOnward
<1> QED
  BY <1>1, <1>2, <1>3, <1>4, <1>5, <1>6, <1>7, <1>8, <1>9 DEF PackNext

LEMMA StepRunInv == IInv /\ RunInv /\ [Next]_vars => RunInv'
<1> SUFFICES ASSUME IInv, RunInv, [Next]_vars PROVE RunInv'
  OBVIOUS
<1>1. CASE UNCHANGED vars
  BY <1>1 DEF vars, folders, histories, RunInv, Selection, InHand, FolderShape, FreshSoFar, Extracted, Listed,
              PackedSoFar, Reported, SuccessIsListed, PackedIsFresh, Current, Source, Image, DatUsed
<1>2. CASE UnpackNext
  BY <1>2, StartKeeps, DropKeeps, NormaliseKeeps, GenerateKeeps, ResolveKeeps, MissingKeeps, BeginKeeps, EndKeeps,
     SaveKeeps DEF UnpackNext
<1> QED
  BY <1>1, <1>2, SourcesKeep, StartKeeps, PackRunKeeps, CrashKeeps DEF Next

LEMMA RunInvariance == Spec => []RunInv
  BY InitIInv, InitRunInv, StepRunInv, Invariance, PTL DEF Spec

\* For any partitions, sources and formats, in any order of runs and crashes: an
\* unpack run that reports success has extracted every chosen partition from its
\* present source, and the list on disk names it.
THEOREM UnpackSuccessIsListed == Spec => []SuccessIsListed
<1>1. RunInv => SuccessIsListed
  BY DEF RunInv, Reported
<1> QED
  BY <1>1, RunInvariance, PTL

\* A packing run that reports success has made of each filesystem what its
\* directory held, in the format that was asked for.
THEOREM PackSuccessIsFresh == Spec => []PackedIsFresh
<1>1. RunInv => PackedIsFresh
  BY DEF RunInv, Reported
<1> QED
  BY <1>1, RunInvariance, PTL

\* A directory that was extracted stays listed, unless a run that had to do with
\* it was cut short.
THEOREM ExtractedStaysListed == Spec => []ListedKept
<1>1. RunInv => ListedKept
  BY DEF RunInv, Listed, ListedKept, AtRest
<1> QED
  BY <1>1, RunInvariance, PTL

\* What is extracted is the present source, unless an image could not be removed
\* or chunks were appended to a dat that was there.
THEOREM ImagesAreFresh == Spec => []FreshImage
<1>1. RunInv => FreshImage
  BY DEF RunInv, InHand, FreshSoFar, FreshImage
<1> QED
  BY <1>1, RunInvariance, PTL
-------------------------------------------------------------------------------
(* What the folders hold, whatever runs and dies.                              *)

\* A source that is there has a content of the ones there have been.
FolderTypes ==
    /\ kind \in KindChoices
    /\ input \in [Partitions -> [form : AllForms \union {"none"}, content : 0 .. MaxContents, list : BOOLEAN]]
    /\ \A p \in Partitions : HasSource(p) => input[p].content # 0
    /\ image \in [Partitions -> File] /\ dat \in [Partitions -> File] /\ tree \in [Partitions -> File]
    /\ record \subseteq Partitions
    /\ output \in [Partitions -> OutputFiles]

\* What is being extracted is an image that is there, or a source that is.
HandTypes ==
    op.is = "unpack" =>
        /\ op.parts \subseteq Partitions
        /\ op.at \in {"extract", "extracting"} => image[Current] # {} \/ HasSource(Current)

HistoryTypes ==
    /\ report.of \in {"none", "unpack", "pack", "import"}
    /\ made \in 0 .. MaxContents /\ started \in 0 .. MaxWorkflows /\ cut \subseteq Partitions

Typed == FolderTypes /\ HandTypes /\ HistoryTypes

\* Contents, the pieces of them and one over another are what a file may hold.
LEMMA FilesHold ==
    /\ {} \in File
    /\ \A c \in Contents : Whole(c) \in File
    /\ \A data \in File : InPart(data) \in File
    /\ \A data, new \in File : data \union new \in File /\ Over(data, new) \in File
<1>0. \A c \in Contents : <<c, TRUE>> \in Contents \X BOOLEAN /\ <<c, FALSE>> \in Contents \X BOOLEAN
  BY Zenon
<1>1. \A c \in Contents : Whole(c) \in File
  BY <1>0 DEF File, Data, Whole
<1>2. ASSUME NEW data \in File PROVE InPart(data) \in File
  <2>1. \A d \in data : d[1] \in Contents
    BY DEF File, Data
  <2>2. \A d \in data : <<d[1], FALSE>> \in Contents \X BOOLEAN
    BY <1>0, <2>1
  <2> QED
    BY <2>2, Zenon DEF File, Data, InPart
<1>3. ASSUME NEW data \in File, NEW new \in File PROVE data \union new \in File /\ Over(data, new) \in File
  BY DEF File, Data, Over
<1>4. {} \in File
  BY DEF File, Data
<1> QED
  BY <1>1, <1>2, <1>3, <1>4

\* What a source holds.
LEMMA SourceIsFile ==
    ASSUME FolderTypes, NEW p \in Partitions, HasSource(p)
    PROVE  Source(p) \in File
<1>1. input[p].content \in 0 .. MaxContents /\ input[p].content # 0
  BY DEF FolderTypes
<1>2. input[p].content \in Contents
  BY <1>1, WorkspaceAssumption DEF Contents
<1> QED
  BY <1>2, FilesHold DEF Source

\* What is put in the place of a file is a file again.
LEMMA FileStays ==
    ASSUME NEW folder \in [Partitions -> File], NEW p, NEW data \in File
    PROVE  [folder EXCEPT ![p] = data] \in [Partitions -> File]
  OBVIOUS

LEMMA OutputStays ==
    ASSUME FolderTypes, NEW p \in Partitions, NEW f \in {"img", "dat", "br"}, NEW data \in File,
           Output(p, f, data)
    PROVE  output' \in [Partitions -> OutputFiles]
  BY DEF FolderTypes, Output, OutputFiles

\* A step of an unpack run that keeps what it knows of the partitions.
LEMMA HandStays ==
    ASSUME HandTypes, op.is = "unpack", NEW todo, NEW at, NEW old, Runs(todo, at, op.parts, old),
           at \notin {"extract", "extracting"}
    PROVE  HandTypes'
  BY DEF HandTypes, Runs

LEMMA HandRests == op'.is # "unpack" => HandTypes'
  BY DEF HandTypes

\* A run that an exception ends.
LEMMA AbortTypes ==
    ASSUME RunInv, HistoryTypes, Busy, Abort, UNCHANGED <<made, started>>
    PROVE  HandTypes' /\ HistoryTypes'
  BY DEF Abort, Idle, HandTypes, HistoryTypes, RunInv, Selection, Busy

LEMMA InitTyped == Init => Typed
<1> SUFFICES ASSUME Init PROVE Typed
  OBVIOUS
<1>1. \A p \in Partitions : input[p].form = "none"
  BY DEF Init, NoSource
<1>2. input \in [Partitions -> [form : AllForms \union {"none"}, content : 0 .. MaxContents, list : BOOLEAN]]
  BY WorkspaceAssumption DEF Init, NoSource
<1>3. FolderTypes
  BY <1>1, <1>2, FilesHold DEF Init, FolderTypes, HasSource, OutputFiles
<1>4. HandTypes /\ HistoryTypes
  BY WorkspaceAssumption DEF Init, HandTypes, HistoryTypes, Idle, Nothing
<1> QED
  BY <1>3, <1>4 DEF Typed

\* The user's own changes.
LEMMA SourcesTyped ==
    ASSUME Typed, NEW p \in Partitions, PutSource(p) \/ EditTree(p)
    PROVE  Typed'
<1> USE DEF Typed
<1>1. made + 1 \in Contents /\ made' = made + 1 /\ made' \in 0 .. MaxContents
  BY WorkspaceAssumption DEF PutSource, EditTree, HistoryTypes, Contents
<1>2. HistoryTypes'
  BY <1>1 DEF PutSource, EditTree, HistoryTypes, Nothing
<1>3. HandTypes'
  BY HandRests DEF PutSource, EditTree, AtRest
<1>4. CASE PutSource(p)
  <2>1. PICK f \in Forms[p], list \in BOOLEAN :
          input' = [input EXCEPT ![p] = [form |-> f, content |-> made + 1, list |-> list]]
    BY <1>4 DEF PutSource
  <2>2. f \in AllForms
    BY WorkspaceAssumption
  <2>3. made + 1 \in 0 .. MaxContents /\ made + 1 # 0
    BY <1>1 DEF Contents
  <2>4. input' \in [Partitions -> [form : AllForms \union {"none"}, content : 0 .. MaxContents, list : BOOLEAN]]
    BY <2>1, <2>2, <2>3 DEF FolderTypes
  <2>5. \A r \in Partitions : HasSource(r)' => input'[r].content # 0
    BY <2>1, <2>3 DEF FolderTypes, HasSource
  <2>6. UNCHANGED <<kind, image, dat, tree, record, output>>
    BY <1>4 DEF PutSource
  <2> QED
    BY <1>2, <1>3, <2>4, <2>5, <2>6 DEF FolderTypes
<1>5. CASE EditTree(p)
  <2>1. tree[p] \union Whole(made + 1) \in File
    BY <1>1, FilesHold DEF FolderTypes
  <2>2. tree' \in [Partitions -> File]
    BY <1>5, <2>1, FileStays DEF FolderTypes, EditTree
  <2> QED
    BY <1>2, <1>3, <1>5, <2>2 DEF FolderTypes, EditTree, HasSource
<1> QED
  BY <1>4, <1>5

\* The beginning of an unpack run, the user's or an import's.
LEMMA StartTyped == ASSUME Typed, StartUnpack \/ Import PROVE Typed'
<1> USE DEF Typed
<1>1. started' \in 0 .. MaxWorkflows /\ op.is = "none"
  BY WorkspaceAssumption DEF StartUnpack, Import, Start, AtRest, HistoryTypes
<1>2. ASSUME NEW todo, NEW imported, op' = BeginUnpack(todo, imported) PROVE HandTypes'
  BY <1>2 DEF BeginUnpack, HandTypes, FolderTypes
<1>3. CASE StartUnpack
  <2>1. HandTypes'
    BY <1>2, <1>3 DEF StartUnpack
  <2>2. FolderTypes' /\ HistoryTypes'
    BY <1>1, <1>3 DEF StartUnpack, FolderTypes, HistoryTypes, folders, HasSource, Nothing
  <2> QED
    BY <2>1, <2>2
<1>4. CASE Import
  <2>1. made + 1 \in Contents /\ made' = made + 1 /\ made' \in 0 .. MaxContents
    BY <1>4, WorkspaceAssumption DEF Import, HistoryTypes, Contents
  <2>2. Whole(made + 1) \in File
    BY <2>1, FilesHold
  <2>3. image' \in [Partitions -> File]
    BY <1>4, <2>2 DEF Import, FolderTypes
  <2>4. FolderTypes'
    BY <1>4, <2>3 DEF Import, FolderTypes, HasSource
  <2>5. op' = op \/ \E todo, imported : op' = BeginUnpack(todo, imported)
    BY <1>4 DEF Import
  <2>6. HandTypes'
    BY <1>1, <1>2, <2>5 DEF HandTypes
  <2>7. report'.of \in {"none", "import"}
    BY <1>4 DEF Import, Nothing
  <2>8. HistoryTypes'
    BY <1>1, <1>4, <2>1, <2>7 DEF Import, HistoryTypes
  <2> QED
    BY <2>4, <2>6, <2>8
<1> QED
  BY <1>3, <1>4

\* What is left when the program dies is part of a source that was there.
LEMMA CrashTyped == ASSUME IInv, RunInv, Typed, Crash PROVE Typed'
<1> USE DEF Typed
<1>1. HandTypes'
  BY HandRests DEF Crash, Idle
<1>2. HistoryTypes'
  <2>1. op.chosen \subseteq Partitions
    BY DEF Crash, AtRest, RunInv, Selection
  <2>2. cut' \in {cut, Partitions, cut \union op.chosen}
    BY DEF Crash
  <2> QED
    BY <2>1, <2>2 DEF Crash, HistoryTypes, Nothing
<1>3. image' \in [Partitions -> File] /\ dat' \in [Partitions -> File]
  <2>1. CASE UNCHANGED <<image, dat>>
    BY <2>1 DEF FolderTypes
  <2>2. CASE /\ op.is = "unpack" /\ op.at \in {"normalise", "generate", "resolve"} /\ HasSource(Current)
             /\ \/ image' = [image EXCEPT ![Current] = InPart(Source(Current))] /\ UNCHANGED dat
                \/ dat' = [dat EXCEPT ![Current] = @ \union InPart(Source(Current))] /\ UNCHANGED image
    <3>1. Current \in Partitions
      BY <2>2, HandIsFull DEF Busy
    <3>2. InPart(Source(Current)) \in File
      BY <2>2, <3>1, SourceIsFile, FilesHold
    <3>3. dat[Current] \union InPart(Source(Current)) \in File
      BY <3>1, <3>2, FilesHold DEF FolderTypes
    <3>4. image' = [image EXCEPT ![Current] = InPart(Source(Current))] => image' \in [Partitions -> File]
      BY <3>2, FileStays DEF FolderTypes
    <3>5. dat' = [dat EXCEPT ![Current] = dat[Current] \union InPart(Source(Current))]
             => dat' \in [Partitions -> File]
      BY <3>3, FileStays DEF FolderTypes
    <3> QED
      BY <2>2, <3>4, <3>5 DEF FolderTypes
  <2> QED
    BY <2>1, <2>2 DEF Crash
<1>4. FolderTypes'
  BY <1>3 DEF Crash, FolderTypes, HasSource
<1> QED
  BY <1>1, <1>2, <1>4

\* Every form of a source becomes an image or a dat of contents there have been.
LEMMA NormaliseTyped ==
    ASSUME IInv, RunInv, Typed,
           DropOldImage \/ DecompressZst \/ DecompressXz \/ DecompressBr \/ JoinChunks \/ NothingToDecompress
    PROVE  Typed'
<1> USE DEF Typed
<1>1. /\ Busy /\ UnpackShape /\ op.at \in {"clean", "normalise"}
      /\ UNCHANGED <<kind, input, tree, record, output, made, started>>
  BY DEF DropOldImage, DecompressZst, DecompressXz, DecompressBr, JoinChunks, NothingToDecompress, folders,
         histories, Unpacking, Busy, IInv, Shape
<1>2. Current \in Partitions
  BY <1>1, HandIsFull
<1>3. ASSUME input[Current].form \in AllForms
      PROVE  /\ Source(Current) \in File /\ InPart(Source(Current)) \in File
             /\ dat[Current] \union Source(Current) \in File
  <2>1. Source(Current) \in File
    BY <1>2, <1>3, SourceIsFile DEF HasSource, AllForms
  <2> QED
    BY <1>2, <2>1, FilesHold DEF FolderTypes
<1>4. ASSUME image' \in [Partitions -> File], dat' \in [Partitions -> File] PROVE FolderTypes'
  BY <1>1, <1>4 DEF FolderTypes, HasSource
<1>5. ASSUME NEW stage \in {"normalise", "generate", "resolve"}, Stage(stage), UNCHANGED <<report, cut>>
      PROVE  HandTypes' /\ HistoryTypes'
  <2>1. Runs(op.todo, stage, op.parts, op.old)
    BY <1>1, <1>5, StageRuns DEF Busy
  <2>2. HandTypes'
    BY <1>1, <2>1, HandStays DEF Busy
  <2> QED
    BY <1>1, <1>5, <2>2 DEF HistoryTypes
<1>6. ASSUME NEW old, Runs(op.todo, op'.at, op.parts, old), op'.at \in {"normalise", "generate"},
             UNCHANGED <<report, cut>>
      PROVE  HandTypes' /\ HistoryTypes'
  <2>1. HandTypes'
    BY <1>1, <1>6, HandStays DEF Busy
  <2> QED
    BY <1>1, <1>6, <2>1 DEF HistoryTypes
<1>7. CASE DropOldImage
  <2>0. /\ image' = image \/ image' = [image EXCEPT ![Current] = {}]
        /\ UNCHANGED <<dat, report, cut>>
    BY <1>7 DEF DropOldImage, histories
  <2>1. image' \in [Partitions -> File] /\ dat' \in [Partitions -> File] /\ UNCHANGED <<report, cut>>
    <3>1. [image EXCEPT ![Current] = {}] \in [Partitions -> File]
      BY FilesHold DEF FolderTypes
    <3> QED
      BY <2>0, <3>1 DEF FolderTypes
  <2>2. Stage("normalise") \/ op' = [op EXCEPT !.at = "normalise", !.old = @ \union {Current}]
    BY <1>7 DEF DropOldImage
  <2>3. CASE Stage("normalise")
    BY <1>4, <1>5, <2>1, <2>3
  <2>4. CASE op' = [op EXCEPT !.at = "normalise", !.old = @ \union {Current}]
    <3>1. Runs(op.todo, op'.at, op.parts, op.old \union {Current}) /\ op'.at = "normalise"
      BY <1>1, <2>4 DEF Runs, UnpackShape, Busy
    <3> QED
      BY <1>4, <1>6, <2>1, <3>1
  <2> QED
    BY <2>2, <2>3, <2>4
<1>8. CASE DecompressZst
  <2>1. input[Current].form \in AllForms /\ Stage("resolve") /\ UNCHANGED <<dat, report, cut>>
        /\ (UNCHANGED image \/ image' = [image EXCEPT ![Current] = Source(Current)])
    BY <1>8 DEF DecompressZst, AllForms, histories
  <2>2. image' \in [Partitions -> File] /\ dat' \in [Partitions -> File]
    BY <1>3, <2>1, FileStays DEF FolderTypes
  <2> QED
    BY <1>4, <1>5, <2>1, <2>2
<1>9. CASE DecompressXz
  <2>1. input[Current].form \in AllForms /\ UNCHANGED image
    BY <1>9 DEF DecompressXz, AllForms
  <2>2. image' \in [Partitions -> File] /\ dat' \in [Partitions -> File]
    <3>1. /\ [dat EXCEPT ![Current] = Source(Current)] \in [Partitions -> File]
          /\ [dat EXCEPT ![Current] = InPart(Source(Current))] \in [Partitions -> File]
      BY <1>3, <2>1 DEF FolderTypes
    <3>2. \/ dat' = [dat EXCEPT ![Current] = Source(Current)]
          \/ dat' = [dat EXCEPT ![Current] = InPart(Source(Current))]
      BY <1>9 DEF DecompressXz
    <3> QED
      BY <2>1, <3>1, <3>2 DEF FolderTypes
  <2>3. CASE Abort
    BY <1>1, <1>4, <2>2, <2>3, AbortTypes
  <2>4. CASE Stage("generate") /\ UNCHANGED <<report, cut>>
    BY <1>4, <1>5, <2>2, <2>4
  <2> QED
    BY <1>9, <2>3, <2>4 DEF DecompressXz
<1>10. CASE DecompressBr
  <2>1. input[Current].form \in AllForms /\ UNCHANGED <<image, report, cut>>
    BY <1>10 DEF DecompressBr, AllForms, histories
  <2>2. image' \in [Partitions -> File] /\ dat' \in [Partitions -> File]
    <3>1. [dat EXCEPT ![Current] = Source(Current)] \in [Partitions -> File]
      BY <1>3, <2>1 DEF FolderTypes
    <3>2. dat' = dat \/ dat' = [dat EXCEPT ![Current] = Source(Current)]
      BY <1>10 DEF DecompressBr
    <3> QED
      BY <2>1, <3>1, <3>2 DEF FolderTypes
  <2>3. Stage("generate") \/ Stage("resolve")
    BY <1>10 DEF DecompressBr
  <2> QED
    BY <1>4, <1>5, <2>1, <2>2, <2>3
<1>11. CASE JoinChunks
  <2>1. input[Current].form \in AllForms /\ UNCHANGED <<image, report, cut>>
    BY <1>11 DEF JoinChunks, AllForms, histories
  <2>2. image' \in [Partitions -> File] /\ dat' \in [Partitions -> File]
    BY <1>3, <1>11, <2>1, FileStays DEF FolderTypes, JoinChunks
  <2>3. Runs(op.todo, op'.at, op.parts, op'.old) /\ op'.at = "generate"
    BY <1>1, <1>11 DEF JoinChunks, Runs, UnpackShape, Busy
  <2> QED
    BY <1>4, <1>6, <2>1, <2>2, <2>3
<1>12. CASE NothingToDecompress
  <2>1. UNCHANGED <<image, dat, report, cut>> /\ (Stage("generate") \/ Stage("resolve"))
    BY <1>12 DEF NothingToDecompress, folders, histories
  <2> QED
    BY <1>4, <1>5, <2>1 DEF FolderTypes
<1> QED
  BY <1>7, <1>8, <1>9, <1>10, <1>11, <1>12

\* The dat becomes an image, and the image that is there or in input is resolved.
LEMMA ResolveTyped ==
    ASSUME IInv, RunInv, Typed, GenerateImage \/ NoTransferList \/ ResolveImage \/ SourceMissing
    PROVE  Typed'
<1> USE DEF Typed
<1>1. /\ Busy /\ UnpackShape /\ UNCHANGED <<kind, input, tree, record, output, made, started>>
  BY DEF GenerateImage, NoTransferList, ResolveImage, SourceMissing, folders, histories, Unpacking, Busy, IInv,
         Shape
<1>2. Current \in Partitions
  BY <1>1, HandIsFull
<1>3. ASSUME image' \in [Partitions -> File], dat' \in [Partitions -> File] PROVE FolderTypes'
  BY <1>1, <1>3 DEF FolderTypes, HasSource
<1>4. ASSUME Stage("resolve"), UNCHANGED <<report, cut>> PROVE HandTypes' /\ HistoryTypes'
  <2>1. Runs(op.todo, "resolve", op.parts, op.old)
    BY <1>1, <1>4, StageRuns DEF Busy
  <2>2. HandTypes'
    BY <1>1, <2>1, HandStays DEF Busy
  <2> QED
    BY <1>1, <1>4, <2>2 DEF HistoryTypes
<1>5. CASE GenerateImage
  <2>1. DatUsed \in File /\ InPart(DatUsed) \in File
    <3>1. CASE input[Current].form = "plain"
      BY <1>2, <3>1, SourceIsFile, FilesHold DEF DatUsed, HasSource
    <3>2. CASE input[Current].form # "plain"
      BY <1>2, <3>2, FilesHold DEF DatUsed, FolderTypes
    <3> QED
      BY <3>1, <3>2
  <2>2. image' \in [Partitions -> File]
    BY <1>5, <2>1, FileStays DEF FolderTypes, GenerateImage
  <2>3. dat' = dat \/ dat' = [dat EXCEPT ![Current] = dat[Current]] \/ dat' = [dat EXCEPT ![Current] = {}]
    BY <1>5 DEF GenerateImage
  <2>4. dat' \in [Partitions -> File]
    BY <1>2, <2>3, FilesHold, FileStays DEF FolderTypes
  <2>5. CASE Abort
    BY <1>1, <1>3, <2>2, <2>4, <2>5, AbortTypes
  <2>6. CASE Stage("resolve") /\ UNCHANGED <<report, cut>>
    BY <1>3, <1>4, <2>2, <2>4, <2>6
  <2> QED
    BY <1>5, <2>5, <2>6 DEF GenerateImage
<1>6. CASE NoTransferList
  BY <1>3, <1>4, <1>6 DEF NoTransferList, folders, histories, FolderTypes
<1>7. CASE ResolveImage
  <2>1. /\ UNCHANGED <<dat, report, cut>>
        /\ image[Current] # {} \/ HasSource(Current)
        /\ UNCHANGED image \/ (HasSource(Current) /\ image' = [image EXCEPT ![Current] = Source(Current)])
    BY <1>2, <1>7 DEF ResolveImage, histories, HasSource, FolderTypes
  <2>2. image' \in [Partitions -> File]
    <3>1. HasSource(Current) => [image EXCEPT ![Current] = Source(Current)] \in [Partitions -> File]
      BY <1>2, SourceIsFile DEF FolderTypes
    <3> QED
      BY <2>1, <3>1 DEF FolderTypes
  <2>3. op'.is = "unpack" /\ op'.parts = op.parts /\ Current' = Current
    BY <1>1, <1>7 DEF ResolveImage, UnpackShape, Busy, Current
  <2>4. image'[Current] # {} \/ HasSource(Current)'
    BY <1>1, <2>1, <2>3 DEF HasSource
  <2>5. HandTypes'
    BY <1>1, <2>3, <2>4 DEF HandTypes, Busy, HasSource
  <2>6. HistoryTypes'
    BY <1>1, <2>1 DEF HistoryTypes
  <2> QED
    BY <1>3, <2>1, <2>2, <2>5, <2>6 DEF FolderTypes
<1>8. CASE SourceMissing
  <2>1. Runs(Tail(op.todo), IF Len(op.todo) = 1 THEN "save" ELSE "clean", op.parts, op.old)
    BY <1>1, <1>8 DEF SourceMissing, Runs, UnpackShape, Busy, ToNext
  <2>2. HandTypes'
    BY <1>1, <2>1, HandStays DEF Busy
  <2>3. UNCHANGED <<image, dat, report, cut>>
    BY <1>8 DEF SourceMissing, folders, histories
  <2> QED
    BY <1>1, <1>3, <2>2, <2>3 DEF FolderTypes, HistoryTypes
<1> QED
  BY <1>5, <1>6, <1>7, <1>8

\* What is extracted is of the image in hand, and what is listed is a partition.
LEMMA ExtractTyped ==
    ASSUME IInv, RunInv, Typed, BeginExtract \/ EndExtract
    PROVE  Typed'
<1> USE DEF Typed
<1>1. /\ Busy /\ UnpackShape /\ op.at \in {"extract", "extracting"}
      /\ UNCHANGED <<kind, input, dat, record, output, made, started>>
  BY DEF BeginExtract, EndExtract, histories, Unpacking, Busy, IInv, Shape
<1>2. Current \in Partitions /\ op.parts \subseteq Partitions
  BY <1>1, HandIsFull DEF HandTypes, Busy
<1>3. Image(Current) \in File
  <2>1. CASE image[Current] # {}
    BY <1>2, <2>1 DEF Image, FolderTypes
  <2>2. CASE image[Current] = {}
    BY <1>1, <1>2, <2>2, SourceIsFile DEF Image, HandTypes, Busy
  <2> QED
    BY <2>1, <2>2
<1>4. ASSUME image' \in [Partitions -> File], tree' \in [Partitions -> File] PROVE FolderTypes'
  BY <1>1, <1>4 DEF FolderTypes, HasSource
<1>5. CASE BeginExtract
  <2>1. Cleared(Current) \in File /\ InPart(Image(Current)) \in File
    BY <1>2, <1>3, FilesHold DEF Cleared, FolderTypes
  <2>2. Over(Cleared(Current), InPart(Image(Current))) \in File
    BY <2>1, FilesHold
  <2>3. tree' \in [Partitions -> File] /\ UNCHANGED <<image, report, cut>>
    BY <1>5, <2>2, FileStays DEF BeginExtract, FolderTypes, histories
  <2>4. op'.is = "unpack" /\ op'.parts = op.parts \union {Current} /\ Current' = Current
    BY <1>1, <1>5 DEF BeginExtract, UnpackShape, Busy, Current
  <2>5. image[Current] # {} \/ HasSource(Current)
    BY <1>1 DEF HandTypes, Busy
  <2>6. HandTypes'
    BY <1>1, <1>2, <2>3, <2>4, <2>5 DEF HandTypes, HasSource
  <2> QED
    BY <1>1, <1>4, <2>3, <2>6 DEF FolderTypes, HistoryTypes
<1>6. CASE EndExtract
  <2>1. Over(tree[Current], Image(Current)) \in File
    BY <1>2, <1>3, FilesHold DEF FolderTypes
  <2>2. \/ UNCHANGED tree \/ tree' = [tree EXCEPT ![Current] = {}]
        \/ tree' = [tree EXCEPT ![Current] = Over(tree[Current], Image(Current))]
    BY <1>6 DEF EndExtract
  <2>3. tree' \in [Partitions -> File]
    BY <2>1, <2>2, FilesHold, FileStays DEF FolderTypes
  <2>4. image' \in [Partitions -> File]
    BY <1>6, FilesHold, FileStays DEF EndExtract, FolderTypes
  <2>5. CASE Abort
    BY <1>1, <1>4, <2>3, <2>4, <2>5, AbortTypes
  <2>6. CASE (op' = ToNext(op) \/ op' = ToNext([op EXCEPT !.ok = FALSE])) /\ UNCHANGED <<report, cut>>
    <3>1. Runs(Tail(op.todo), IF Len(op.todo) = 1 THEN "save" ELSE "clean", op.parts, op.old)
      <4>1. CASE op' = ToNext(op)
        BY <1>1, <4>1 DEF Runs, UnpackShape, Busy, ToNext
      <4>2. CASE op' = ToNext([op EXCEPT !.ok = FALSE])
        BY <1>1, <4>2 DEF Runs, UnpackShape, Busy, ToNext
      <4> QED
        BY <2>6, <4>1, <4>2
    <3>2. HandTypes'
      BY <1>1, <3>1, HandStays DEF Busy
    <3> QED
      BY <1>1, <1>4, <2>3, <2>4, <2>6, <3>2 DEF HistoryTypes
  <2> QED
    BY <1>6, <2>5, <2>6 DEF EndExtract
<1> QED
  BY <1>5, <1>6

\* The list on disk is empty, or what the run knew.
LEMMA SaveTyped == ASSUME IInv, Typed, TruncateRecord \/ WriteRecord PROVE Typed'
<1> USE DEF Typed
<1>1. op.is = "unpack" /\ UnpackShape /\ UNCHANGED <<kind, input, image, dat, tree, output, made, started>>
  BY DEF TruncateRecord, WriteRecord, histories, Unpacking, IInv, Shape
<1>2. record' \subseteq Partitions
  BY <1>1 DEF TruncateRecord, WriteRecord, HandTypes
<1>3. FolderTypes'
  BY <1>1, <1>2 DEF FolderTypes, HasSource
<1>4. CASE TruncateRecord
  <2>1. Runs(op.todo, "write", op.parts, op.old)
    BY <1>1, <1>4, StageRuns DEF TruncateRecord
  <2>2. HandTypes'
    BY <1>1, <2>1, HandStays
  <2> QED
    BY <1>1, <1>3, <1>4, <2>2 DEF TruncateRecord, HistoryTypes, histories
<1>5. CASE WriteRecord
  <2>1. HandTypes'
    BY <1>5, HandRests DEF WriteRecord, Idle
  <2>2. HistoryTypes'
    BY <1>1, <1>5 DEF WriteRecord, HistoryTypes
  <2> QED
    BY <1>3, <2>1, <2>2
<1> QED
  BY <1>4, <1>5

\* A packing run is followed by none or goes on.
LEMMA NoUnpackAfterPack ==
    ASSUME IInv, op.is = "pack", op' = Idle \/ PackNextPartition \/ \E stage : Goes(stage)
    PROVE  op'.is # "unpack"
<1>1. CASE op' = Idle
  BY <1>1 DEF Idle
<1>2. CASE PackNextPartition
  BY <1>2, NextShape DEF IInv, Shape
<1>3. ASSUME NEW stage, Goes(stage) PROVE op'.is # "unpack"
  BY <1>3, GoesShape DEF IInv, Shape
<1> QED
  BY <1>1, <1>2, <1>3

\* What is packed is what the directories hold.
LEMMA PackTyped == ASSUME IInv, RunInv, Typed, PackNext PROVE Typed'
<1> USE DEF Typed
<1>1. CASE StartPack
  <2>1. op'.is = "pack"
    BY <1>1 DEF StartPack
  <2>2. started' \in 0 .. MaxWorkflows
    BY <1>1, WorkspaceAssumption DEF StartPack, Start, HistoryTypes
  <2>3. HandTypes'
    BY <2>1, HandRests
  <2>4. FolderTypes' /\ HistoryTypes'
    BY <1>1, <2>2 DEF StartPack, FolderTypes, HistoryTypes, folders, HasSource, Nothing
  <2> QED
    BY <2>3, <2>4
<1>2. CASE ~StartPack
  <2>1. /\ op.is = "pack" /\ UNCHANGED <<kind, input, image, dat, record, made, started, cut>>
        /\ op' = Idle \/ PackNextPartition \/ \E stage : Goes(stage)
    BY <1>2 DEF PackNext, BeginBuild, EndBuild, ConvertSparse, WriteDat, CompressDat, KeepSource, RemoveSource,
                SourceNotRemoved, PackDtbo, PackBoot, BootNotPacked, Packing, PackEnds, folders, histories
  <2>2. Packed \in Partitions
    BY <2>1, PackingIs
  <2>3. HandTypes'
    BY <2>1, NoUnpackAfterPack, HandRests
  <2>4. HistoryTypes'
    <3>1. report'.of \in {report.of, "pack"}
      BY <1>2 DEF PackNext, BeginBuild, EndBuild, ConvertSparse, WriteDat, CompressDat, KeepSource, RemoveSource,
                  SourceNotRemoved, PackDtbo, PackBoot, BootNotPacked, PackNextPartition, PackEnds, histories
    <3> QED
      BY <2>1, <3>1 DEF HistoryTypes
  <2>5. tree' \in [Partitions -> File]
    <3>1. UNCHANGED tree \/ tree' = [tree EXCEPT ![Packed] = {}]
      BY <1>2 DEF PackNext, BeginBuild, EndBuild, ConvertSparse, WriteDat, CompressDat, KeepSource, RemoveSource,
                  SourceNotRemoved, PackDtbo, PackBoot, BootNotPacked, folders
    <3> QED
      BY <3>1, FilesHold, FileStays DEF FolderTypes
  <2>6. output' \in [Partitions -> OutputFiles]
    <3>0. tree[Packed] \in File /\ InPart(tree[Packed]) \in File
      BY <2>2, FilesHold DEF FolderTypes
    <3>1. CASE \E data \in {tree[Packed], InPart(tree[Packed])} : Output(Packed, "img", data)
      BY <2>2, <3>0, <3>1, OutputStays
    <3>2. CASE UNCHANGED output
      BY <3>2 DEF FolderTypes
    <3>3. CASE output' = [output EXCEPT ![Packed].dat = output[Packed].img, ![Packed].img = {}]
      BY <2>2, <3>3, FilesHold DEF FolderTypes, OutputFiles
    <3>4. CASE output' = [output EXCEPT ![Packed].br = output[Packed].dat, ![Packed].dat = {}]
      BY <2>2, <3>4, FilesHold DEF FolderTypes, OutputFiles
    <3>5. \/ \E data \in {tree[Packed], InPart(tree[Packed])} : Output(Packed, "img", data)
          \/ UNCHANGED output
          \/ output' = [output EXCEPT ![Packed].dat = output[Packed].img, ![Packed].img = {}]
          \/ output' = [output EXCEPT ![Packed].br = output[Packed].dat, ![Packed].dat = {}]
      BY <1>2 DEF PackNext, BeginBuild, EndBuild, ConvertSparse, WriteDat, CompressDat, KeepSource, RemoveSource,
                  SourceNotRemoved, PackDtbo, PackBoot, BootNotPacked, folders
    <3> QED
      BY <3>1, <3>2, <3>3, <3>4, <3>5
  <2>7. FolderTypes'
    BY <2>1, <2>5, <2>6 DEF FolderTypes, HasSource
  <2> QED
    BY <2>3, <2>4, <2>7
<1> QED
  BY <1>1, <1>2

LEMMA StepTyped == IInv /\ RunInv /\ Typed /\ [Next]_vars => Typed'
<1> SUFFICES ASSUME IInv, RunInv, Typed, [Next]_vars PROVE Typed'
  OBVIOUS
<1>1. CASE UNCHANGED vars
  BY <1>1 DEF vars, folders, histories, Typed, FolderTypes, HandTypes, HistoryTypes, HasSource, Current
<1>2. CASE UnpackNext
  BY <1>2, StartTyped, NormaliseTyped, ResolveTyped, ExtractTyped, SaveTyped DEF UnpackNext
<1> QED
  BY <1>1, <1>2, SourcesTyped, StartTyped, PackTyped, CrashTyped DEF Next

\* Whatever is imported, unpacked, edited and packed, and wherever the program dies,
\* the folders hold pieces of contents that the user or an import has brought, the
\* list names partitions, and an unpack run has one in hand until it saves the list.
THEOREM ProjectTyped == Spec => []TypeOK
<1>1. Spec => []Typed
  BY InitTyped, StepTyped, Invariance, RunInvariance, PTL DEF Spec
<1>2. IInv /\ RunInv /\ Typed => TypeOK
  BY DEF IInv, Shape, RunInv, InHand, Typed, FolderTypes, HistoryTypes, TypeOK
<1> QED
  BY <1>1, <1>2, Invariance, RunInvariance, PTL
====
