----------------------------- MODULE SparseParts -----------------------------
(***************************************************************************)
(* A raw super image split into sparse parts and merged back:               *)
(* core/android_sparse.py, core/merge_sparse.py and the two tools over them *)
(* (logic/tools/split_super, merge_super).  Each is an exclusive task, so   *)
(* one runs at a time; a write may fail, the process may die, and the image *)
(* may be rebuilt between two splits.                                       *)
(***************************************************************************)
EXTENDS Integers, SequencesExt

CONSTANTS Sizes,       \* the size in blocks of each build of the image
          PartCounts   \* the numbers of parts to ask for

ASSUME PartConstants == /\ Sizes \in Seq(Nat \ {0}) /\ Sizes # <<>>
                        /\ PartCounts \subseteq Nat \ {0, 1}

VARIABLES build,   \* which build of the image is on disk
          dir,     \* the parts: index |-> [build, start, len, state]
          split,   \* <<the running split>>, or empty
          merged,  \* <<[blocks, whole]>>, the merged image and whether the
                   \* last split before it had ended, or empty
          ended,   \* the last split wrote its last part
          tainted  \* a split was killed, or told to keep what was there

partsVars == <<build, dir, split, merged, ended, tainted>>

Block(b, k) == <<b, k>>
Hole == <<0, 0>>
Junk == <<0, 1>>

Image(b) == [k \in 1..Sizes[b] |-> Block(b, k - 1)]

Without(f, S) == [i \in DOMAIN f \ S |-> f[i]]
With(f, i, part) == [j \in DOMAIN f \cup {i} |-> IF j = i THEN part ELSE f[j]]

\* Mutant: the parts of an earlier split are left where they are.
ClearedNothing == dir

\* Every part file of the image goes, whatever its number.
Cleared == Without(dir, DOMAIN dir)

StartSplit(count, keep) ==
  /\ split = <<>>
  /\ dir' = IF keep THEN dir ELSE Cleared
  /\ tainted' = (tainted \/ keep)
  /\ split' = <<[build |-> build, index |-> 0, start |-> 0,
                 per |-> (Sizes[build] + count - 1) \div count]>>
  /\ ended' = FALSE
  /\ UNCHANGED <<build, merged>>

Current == LET s == split[1]
               rest == Sizes[s.build] - s.start IN
  [build |-> s.build, start |-> s.start,
   len |-> IF s.per < rest THEN s.per ELSE rest, state |-> "whole"]

\* Parts already written are removed again; the one being written is not.
Undo(d) == Without(d, 0..(split[1].index - 1))

WritePiece ==
  /\ split # <<>>
  /\ LET s == split[1]  end == s.start + Current.len IN
       IF s.index \in DOMAIN dir
       THEN dir' = Undo(dir) /\ split' = <<>> /\ UNCHANGED ended
       ELSE /\ dir' = With(dir, s.index, Current)
            /\ split' = IF end < Sizes[s.build]
                        THEN <<[s EXCEPT !.start = end, !.index = @ + 1]>>
                        ELSE <<>>
            /\ ended' = (end = Sizes[s.build])
  /\ UNCHANGED <<build, merged, tainted>>

\* The disk is full: a part may be created empty, cut off, or be complete and
\* fail in its fsync.
Torn(state) == [Current EXCEPT !.state = state]

FailPiece(state) ==
  /\ split # <<>>
  /\ split[1].index \notin DOMAIN dir
  /\ dir' = With(Undo(dir), split[1].index, Torn(state))
  /\ split' = <<>>
  /\ UNCHANGED <<build, merged, ended, tainted>>

Kill(state) ==
  /\ split # <<>>
  /\ dir' = IF split[1].index \in DOMAIN dir THEN dir
            ELSE With(dir, split[1].index, Torn(state))
  /\ split' = <<>> /\ tainted' = TRUE
  /\ UNCHANGED <<build, merged, ended>>

\* The user builds the image again.
Rebuild ==
  /\ split = <<>> /\ build < Len(Sizes)
  /\ build' = build + 1
  /\ UNCHANGED <<dir, split, merged, ended, tainted>>

\* A block is the last part's that holds it, in the natural order of their names
\* (find_sparse_segments), the size the largest declared.
Overlay(parts) ==
  LET ends == {parts[i].start + parts[i].len : i \in DOMAIN parts}
      holders(k) == {i \in DOMAIN parts :
                       k - 1 \in parts[i].start..(parts[i].start + parts[i].len - 1)}
  IN  [k \in 1..Max(ends) |-> IF holders(k) = {} THEN Hole
                              ELSE Block(parts[Max(holders(k))].build, k - 1)]

\* A part without the four bytes of the magic sends all of them to simg2img,
\* which decodes the first and gets the others appended as they are.
Lowest == Min(DOMAIN dir)
Appended == Overlay(Without(dir, DOMAIN dir \ {Lowest})) \o <<Junk>>

Merge(deleteSource) ==
  /\ split = <<>> /\ merged = <<>> /\ DOMAIN dir # {}
  /\ LET sparse == \A i \in DOMAIN dir : dir[i].state # "empty" IN
       \/ /\ sparse
          /\ \A i \in DOMAIN dir : dir[i].state = "whole"
          /\ merged' = <<[blocks |-> Overlay(dir), whole |-> ended]>>
       \/ /\ ~sparse
          /\ dir[Lowest].state = "whole"
          /\ merged' = <<[blocks |-> Appended, whole |-> ended]>>
  /\ dir' = IF deleteSource THEN Without(dir, DOMAIN dir) ELSE dir
  /\ UNCHANGED <<build, split, ended, tainted>>

\* The user takes the merged image away.
Take ==
  /\ merged # <<>> /\ merged' = <<>>
  /\ UNCHANGED <<build, dir, split, ended, tainted>>

PartsInit == /\ build = 1 /\ dir = <<>> /\ split = <<>> /\ merged = <<>>
             /\ ended = FALSE /\ tainted = FALSE

PartsNext == \/ \E count \in PartCounts, keep \in BOOLEAN : StartSplit(count, keep)
             \/ WritePiece
             \/ \E state \in {"empty", "cut", "whole"} :
                  FailPiece(state) \/ Kill(state)
             \/ Rebuild
             \/ \E deleteSource \in BOOLEAN : Merge(deleteSource)
             \/ Take
-----------------------------------------------------------------------------
\* However many splits of other builds failed in the directory before, a
\* merge never mixes two builds or moves a block, and after a split that ended
\* it gives the image back; as long as no split was killed half-way or told to
\* keep what it found (split_raw_image_to_sparse_parts, merge_sparse_overlays).
MergedIsSource ==
  \A m \in ToSet(merged) : ~tainted =>
    \E b \in DOMAIN Sizes :
      /\ \A k \in DOMAIN m.blocks : m.blocks[k] \in {Block(b, k - 1), Hole}
      /\ m.whole => m.blocks = Image(b)
=============================================================================
