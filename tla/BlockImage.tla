------------------------------ MODULE BlockImage -----------------------------
(***************************************************************************)
(* A partition image packed as an OTA block image and unpacked again:       *)
(* core/sparse_img.py reads the Android sparse image, core/blockimgdiff.py  *)
(* plans and writes the transfer list and the new data (always against no   *)
(* source image, the only way core/ota_dat.py calls it), and Sdat2img turns *)
(* the two files back into an image.  A device that runs the list is the    *)
(* external reader the files are meant for.                                 *)
(*                                                                         *)
(* An image is a sequence of chunks [type, len, zero]; block k of the chunk *)
(* that starts at block b has the content <<b, k>> if the chunk is RAW,     *)
(* <<b, 0>> if it is a FILL, and Zero if the chunk holds zeros.             *)
(***************************************************************************)
EXTENDS RangeSets

CONSTANTS ReadAhead,    \* 512: blocks dm-verity may touch beyond the care map
          GroupBounds,  \* 1024: bounds (two a block) in a group of data blocks
          ZeroLimit,    \* 1024: blocks in one zero command
          Images,       \* the sparse images to pack
          Versions      \* the versions of the transfer list to ask for

ChunkTypes == {"raw", "fill", "skip"}

ASSUME BlockConstants ==
  /\ {ReadAhead, GroupBounds, ZeroLimit} \subseteq Nat \ {0}
  /\ Images \subseteq Seq([type : ChunkTypes, len : Nat, zero : BOOLEAN])
  /\ Versions \subseteq Nat

VARIABLES image,   \* the chunks of the sparse image
          stage,   \* "image", "packed" or "failed"
          sdat,    \* <<the transfer list and new data>>, or empty
          raw,     \* <<the blocks of the image Sdat2img writes>>, or empty
          device   \* <<the blocks of a device that ran the list>>, or empty

vars == <<image, stage, sdat, raw, device>>

Zero == <<>>
Garbage == <<0>>
Erased == <<0, 0, 0>>
-----------------------------------------------------------------------------
(* SparseImage.                                                             *)

\* The next chunk: a skipped one has no place in the maps.
Load(acc, c) ==
  LET end == acc.pos + c.len IN
    IF c.type = "skip" THEN [acc EXCEPT !.pos = end]
    ELSE [pos  |-> end,
          care |-> acc.care \o <<acc.pos, end>>,
          map  |-> Append(acc.map, [start |-> acc.pos, len |-> c.len,
                                    type |-> c.type, zero |-> c.zero])]

Loaded(img) == FoldLeft(Load, [pos |-> 0, care |-> <<>>, map |-> <<>>], img)

TotalBlocks(img) == Loaded(img).pos

OffsetMap(img) == Loaded(img).map

CareMap(img) == RangeSet(Loaded(img).care)

\* Mutant: the read-ahead zone is not taken out of the care map's own blocks.
ExtendedOverCare(img) ==
  Intersect(Extend(CareMap(img), ReadAhead), <<0, TotalBlocks(img)>>)

Extended(img) ==
  Subtract(Intersect(Extend(CareMap(img), ReadAhead), <<0, TotalBlocks(img)>>),
           CareMap(img))

Content(o, k) ==
  IF o.zero THEN Zero ELSE <<o.start, IF o.type = "raw" THEN k ELSE 0>>

\* bisect_right(offset_index, b) - 1.
ChunkOf(img, b) ==
  LET before == {i \in DOMAIN OffsetMap(img) : OffsetMap(img)[i].start <= b}
  IN  CHOOSE i \in before : \A j \in before : j <= i

\* One range is read from the middle of its first chunk through the following.
ReadRange(img, p) ==
  LET map == OffsetMap(img)
      i == ChunkOf(img, p[1])
      following == FlattenSeq([j \in 1..(Len(map) - i + 1) |->
                     [k \in 1..map[i + j - 1].len |-> Content(map[i + j - 1], k - 1)]])
      skip == p[1] - map[i].start
  IN  SubSeq(following, skip + 1, skip + p[2] - p[1])

ReadRangeSet(img, r) ==
  FlattenSeq([i \in DOMAIN Ranges(r) |-> ReadRange(img, Ranges(r)[i])])

BlockAt(img, b) ==
  LET o == OffsetMap(img)[ChunkOf(img, b)] IN Content(o, b - o.start)

BlockList(r) ==
  FlattenSeq([i \in DOMAIN Ranges(r) |->
    LET p == Ranges(r)[i] IN [k \in 1..(p[2] - p[1]) |-> p[1] + k - 1]])

\* img2sdat passes an empty file map and the clobbered block "0".
Clobbered == <<0, 1>>

\* A block of zeros, or one of the group that is being filled.
Sift(img, acc, b) ==
  LET group == acc.group \o <<b, b + 1>> IN
    CASE BlockAt(img, b) = Zero      -> [acc EXCEPT !.zeros = @ \o <<b, b + 1>>]
      [] BlockAt(img, b) # Zero /\ Len(group) >= GroupBounds
                                     -> [acc EXCEPT !.groups = Append(@, group),
                                                    !.group = <<>>]
      [] OTHER                       -> [acc EXCEPT !.group = group]

Sifted(img) ==
  FoldLeft(LAMBDA acc, b : Sift(img, acc, b),
           [zeros |-> <<>>, groups |-> <<>>, group |-> <<>>],
           BlockList(Subtract(CareMap(img), Clobbered)))

Transfer(style, bounds) == [style |-> style, tgt |-> RangeSet(bounds)]

\* The entries of the file map as the transfers FindTransfers makes of them.
FileMap(img) ==
  LET end == Sifted(img)
      groups == end.groups \o (IF end.group = <<>> THEN <<>> ELSE <<end.group>>)
  IN  (IF end.zeros = <<>> THEN <<>> ELSE <<Transfer("zero", end.zeros)>>)
      \o [i \in DOMAIN groups |-> Transfer("new", groups[i])]
      \o <<Transfer("new", Clobbered)>>
-----------------------------------------------------------------------------
(* BlockImageDiff without a source image.                                   *)

AddPart(acc, r) == [ok |-> acc.ok /\ ~Overlaps(acc.sum, r), sum |-> Union(acc.sum, r)]

AssertPartition(total, parts) ==
  LET end == FoldLeft(AddPart, [ok |-> TRUE, sum |-> <<>>], parts)
  IN  end.ok /\ end.sum = total

\* No transfer reads, so the digraph has no edges: every transfer is a sink,
\* the sinks are popped from a set and the later passes keep that order.
Sequences(transfers) ==
  {[i \in DOMAIN transfers |-> transfers[p[i]]] :
     p \in {q \in [DOMAIN transfers -> DOMAIN transfers] :
              \A i, j \in DOMAIN transfers : q[i] = q[j] => i = j}}

NewData(img, transfers) ==
  FlattenSeq([i \in DOMAIN transfers |->
    IF transfers[i].style = "new" THEN ReadRangeSet(img, transfers[i].tgt)
    ELSE <<>>])

ZeroPiece(acc, i) ==
  LET piece == First(acc.rest, ZeroLimit) IN
    [out |-> Append(acc.out, [cmd |-> "zero", tgt |-> piece]),
     rest |-> Subtract(acc.rest, piece)]

ZeroCommands(r) ==
  LET pieces == (Size(r) + ZeroLimit - 1) \div ZeroLimit
  IN  FoldLeft(ZeroPiece, [out |-> <<>>, rest |-> r], [i \in 1..pieces |-> i]).out

DontCare(img) ==
  Subtract(Subtract(<<0, TotalBlocks(img)>>, Extended(img)), CareMap(img))

Commands(img, transfers) ==
  (IF DontCare(img) = <<>> THEN <<>>
   ELSE <<[cmd |-> "erase", tgt |-> DontCare(img)]>>)
  \o FlattenSeq([i \in DOMAIN transfers |->
       IF transfers[i].style = "zero" THEN ZeroCommands(transfers[i].tgt)
       ELSE <<[cmd |-> "new", tgt |-> transfers[i].tgt]>>])
  \o ZeroCommands(Extended(img))

\* The second line of the list.
BlocksWritten(img, transfers) ==
  Total([i \in DOMAIN transfers |-> Size(transfers[i].tgt)]) + Size(Extended(img))

\* A list of version 1 reads a variable only the later versions bind, after
\* the new data is on disk; an unknown version becomes 4.
Img2sdat ==
  /\ stage = "image"
  /\ \E asked \in Versions :
       LET version == IF asked \in 1..4 THEN asked ELSE 4 IN
       IF \/ ~AssertPartition(CareMap(image),
                              [i \in DOMAIN FileMap(image) |-> FileMap(image)[i].tgt])
          \/ version = 1
       THEN stage' = "failed" /\ UNCHANGED sdat
       ELSE /\ stage' = "packed"
            /\ \E transfers \in Sequences(FileMap(image)) :
                 sdat' = <<[version |-> version,
                            total |-> BlocksWritten(image, transfers),
                            list |-> Commands(image, transfers),
                            dat |-> NewData(image, transfers)]>>
  /\ UNCHANGED <<image, raw, device>>
-----------------------------------------------------------------------------
(* Sdat2img, which runs only the new commands.                              *)

\* Mutant: no seek, what is written goes to the end.
WriteAtTheEnd(file, b, v) == Append(file, v)

\* A write at block b of a file; what it skips reads as zeros.
Write(file, b, v) ==
  [i \in 1..(IF b < Len(file) THEN Len(file) ELSE b + 1) |->
     IF i = b + 1 THEN v ELSE IF i <= Len(file) THEN file[i] ELSE Zero]

NewBlocks(list) ==
  FlattenSeq([i \in DOMAIN list |->
    IF list[i].cmd = "new" THEN BlockList(list[i].tgt) ELSE <<>>])

\* The new data is read from its start to its end, a block for each write.
CopyBlocks(blocks, dat) ==
  FoldLeft(LAMBDA file, k : Write(file, blocks[k], dat[k]), <<>>,
           [k \in DOMAIN blocks |-> k])

Sdat2img ==
  /\ stage = "packed" /\ raw = <<>>
  /\ raw' = <<CopyBlocks(NewBlocks(sdat[1].list), sdat[1].dat)>>
  /\ UNCHANGED <<image, stage, sdat, device>>

\* The updater of the device, from whatever its flash held.
RunCommand(acc, c) ==
  LET blocks == BlockList(c.tgt)
      Value(b) == CASE c.cmd = "new"   -> acc.dat[CHOOSE k \in DOMAIN blocks : blocks[k] = b]
                    [] c.cmd = "zero"  -> Zero
                    [] c.cmd = "erase" -> Erased
  IN  [flash |-> [b \in DOMAIN acc.flash |->
                    IF b \in Blocks(c.tgt) THEN Value(b) ELSE acc.flash[b]],
       dat |-> IF c.cmd # "new" THEN acc.dat
               ELSE SubSeq(acc.dat, Len(blocks) + 1, Len(acc.dat))]

Flash ==
  /\ stage = "packed" /\ device = <<>>
  /\ LET blank == [b \in 0..(TotalBlocks(image) - 1) |-> Garbage]
     IN  device' = <<FoldLeft(RunCommand, [flash |-> blank, dat |-> sdat[1].dat],
                              sdat[1].list).flash>>
  /\ UNCHANGED <<image, stage, sdat, raw>>

Init == /\ image \in Images
        /\ stage = "image"
        /\ sdat = <<>> /\ raw = <<>> /\ device = <<>>

Next == Img2sdat \/ Sdat2img \/ Flash

Spec == Init /\ [][Next]_vars
-----------------------------------------------------------------------------
\* What the image holds at block b, a block nobody cares about reading as zero.
Meant(b) == IF b \in Blocks(CareMap(image)) THEN BlockAt(image, b) ELSE Zero

\* On the care map of an image and any set of its blocks, every range set
\* operation computes the set it is named for, in the one form == compares
\* (rangelib.py, union to first): what is planned on ranges is planned on blocks.
RangesAreSets ==
  stage = "image" =>
    \A S \in SUBSET (0..TotalBlocks(image) - 1) :
      LET care == CareMap(image)  s == OfBlocks(S)  n == Cardinality(S) IN
        SetAlgebra(care, s, n) /\ SetAlgebra(s, care, n)

\* Whatever order the transfers come in, the new data is laid out in the order
\* Sdat2img reads it back: unpacking gives the image, short of trailing zeros
\* (ComputePatches, WriteTransfers, Sdat2img).
RoundTrip ==
  \A file \in ToSet(raw), b \in 0..(TotalBlocks(image) - 1) :
    Meant(b) = IF b < Len(file) THEN file[b + 1] ELSE Zero

\* The commands write or erase each block of the device once, and the count in
\* the header is what they write (WriteTransfers, FindTransfers): the updater
\* leaves the image in the care map, zeros in the read-ahead zone, and old
\* content nowhere.
DeviceGetsImage ==
  /\ \A flash \in ToSet(device) : \A b \in DOMAIN flash :
       flash[b] = IF b \in Blocks(CareMap(image)) THEN BlockAt(image, b)
                  ELSE IF b \in Blocks(Extended(image)) THEN Zero
                  ELSE Erased
  /\ \A files \in ToSet(sdat) :
       /\ AssertPartition(<<0, TotalBlocks(image)>>,
                          [i \in DOMAIN files.list |-> files.list[i].tgt])
       /\ files.total = Total([i \in DOMAIN files.list |->
                                 IF files.list[i].cmd = "erase" THEN 0
                                 ELSE Size(files.list[i].tgt)])
       /\ \A c \in ToSet(files.list) : c.cmd = "zero" => Size(c.tgt) <= ZeroLimit
=============================================================================
