----------------------------- MODULE SuperImage ------------------------------
(***************************************************************************)
(* A super image built of partition images and taken apart again:           *)
(* logic/projects/pack/super (planning.py, service.py), the window and the  *)
(* controller over them, core/lpunpack.py and the super source of           *)
(* logic/projects/unpack.  Both are exclusive tasks, so one runs at a time. *)
(* lpmake is external.                                                      *)
(*                                                                         *)
(* A name is <<base, slot>>, the slot "", "_a" or "_b".  A file is          *)
(* [id, size, sparse, parts]: the parts of a super image by their names, of *)
(* any other image none.  Sizes are in quarters of a GiB.                   *)
(***************************************************************************)
EXTENDS Integers, SequencesExt

CONSTANTS Placed,    \* <<folder, name>> of the images other operations make
          ImageSize, \* the size of each edition of an image, one after another
          Sizes,     \* device sizes the user may enter
          MaxRuns,   \* bound on the packing and unpacking runs
          MaxSelected, \* bound on the partitions selected at a time
          Forms      \* <<type (1: A only, 2: virtual A/B, 3: A/B), sparse,
                     \* whether the packed images are to be removed>>

ASSUME SuperConstants == /\ ImageSize \in Seq(Nat \ {0})
                         /\ Sizes \subseteq Nat /\ Forms \subseteq (1..3) \X BOOLEAN \X BOOLEAN
                         /\ {MaxRuns, MaxSelected} \subseteq Nat
                         /\ \A p \in Placed :
                              /\ p[1] \in {"output", "input"}
                              /\ p[2] = <<p[2][1], p[2][2]>> /\ p[2][2] \in {"", "_a", "_b"}

VARIABLES output, input,  \* the images of the two folders: name |-> file
          edition,        \* how many images were made
          size,           \* the device size in the packing window
          listed,         \* the partitions the unpacking window shows
          unlisted,       \* super.img in input changed since they were listed
          runs            \* how many runs there were

superVars == <<output, input, edition, size, listed, unlisted, runs>>

Run == runs < MaxRuns /\ runs' = runs + 1

SuperName == <<"super", "">>
Without(f, S) == [n \in DOMAIN f \ S |-> f[n]]
PutOver(f, g) == [n \in DOMAIN f \cup DOMAIN g |-> IF n \in DOMAIN g THEN g[n] ELSE f[n]]
OneFile(name, file) == [n \in {name} |-> file]

Plain(id, n) == [id |-> id, size |-> n, sparse |-> FALSE, parts |-> <<>>]
Cut == Plain(-1, 1)        \* a file whose writing failed
Entangled == Plain(-2, 1)  \* a super image inside a super image

\* planning.py: the file types a super image may hold; the raw form of a super
\* image is not among them, its sparse form is like that of any other image.
Packable(file) == file.parts = <<>> \/ file.sparse

Candidates ==
  {n \in DOMAIN output \cup DOMAIN input :
     Packable(IF n \in DOMAIN output THEN output[n] ELSE input[n])}

\* The first of the names that is there, in output before input.
FirstIn(folder, names) ==
  LET i == SelectInSeq(names, LAMBDA n : n \in DOMAIN folder)
  IN  IF i = 0 THEN <<>> ELSE <<folder[names[i]]>>

Resolved(names) ==
  IF FirstIn(output, names) # <<>> THEN FirstIn(output, names)
  ELSE FirstIn(input, names)

Selections(names) == UNION {kSubset(k, names) : k \in 1..MaxSelected}

SizeOf(files) == FoldLeft(LAMBDA n, f : n + f.size, 0, files)
-----------------------------------------------------------------------------
(* The packing window.                                                      *)

\* The loop over the offers of 0.75, 1.75, ... GiB, as it stands: an offer that
\* comes nearer only lowers the mark, and the first that does not is taken.
Suggested(used) ==
  LET Step(acc, i) ==
        LET diff == 4 * i - 1 - used IN
          CASE acc.found \/ diff < 0 -> acc
            [] diff < acc.diff       -> [acc EXCEPT !.diff = diff]
            [] OTHER -> [acc EXCEPT !.found = TRUE, !.best = 4 * i - 1]
  IN  FoldLeft(Step, [found |-> FALSE, diff |-> used, best |-> used],
               [i \in 1..19 |-> i]).best

\* validate_super_size: each selected image under its own name.
UsedBy(selected) ==
  MapThenSumSet(LAMBDA n : SizeOf(Resolved(<<n>>)), selected)

Fits(selected) == UsedBy(selected) <= size

EnterSize(n) ==
  /\ size' = n
  /\ UNCHANGED <<output, input, edition, listed, unlisted, runs>>

\* The window asks for a larger size and offers one.
RefuseSize(selected) ==
  /\ ~Fits(selected)
  /\ size' = Suggested(UsedBy(selected))
  /\ UNCHANGED <<output, input, edition, listed, unlisted, runs>>
-----------------------------------------------------------------------------
(* pack_super.                                                              *)

\* The selected names without their slots.
PartList(selected) == {n[1] : n \in selected}

InSlotA(base) == Resolved(<< <<base, "">>, <<base, "_a">> >>)
InSlotB(base) == Resolved(<< <<base, "_b">> >>)

\* The partitions of the image and their contents; a slot b without an image is
\* an empty partition.  lpmake reads a super.img it is about to write.
Partitions(bases, type) ==
  LET Content(file) == IF file.parts = <<>> THEN file ELSE Entangled
      a == [n \in {<<b, IF type = 1 THEN "" ELSE "_a">> : b \in bases} |->
              Content(InSlotA(n[1])[1])]
      b == [n \in {<<b, "_b">> : b \in IF type = 1 THEN {} ELSE bases} |->
              IF InSlotB(n[1]) = <<>> THEN Plain(0, 0) ELSE Content(InSlotB(n[1])[1])]
  IN  PutOver(a, b)

Needed(bases, type) ==
  MapThenSumSet(LAMBDA b : SizeOf(InSlotA(b))
                           + IF type = 1 THEN 0 ELSE SizeOf(InSlotB(b)), bases)

\* Mutant: what is removed goes by the names the user selected.
RemovedAsSelected(selected) == selected

Removed(selected) == {<<b, "">> : b \in PartList(selected)}

Refusal(selected, type) ==
  \/ \E b \in PartList(selected) : InSlotA(b) = <<>>
  \/ size = 0
  \/ Needed(PartList(selected), type) > size

\* The window let the request pass, the service raises; or lpmake fails, and
\* may leave a file it has begun.
PackFails(selected, type) ==
  /\ Run
  /\ Fits(selected)
  /\ \/ output' = output
     \/ ~Refusal(selected, type) /\ output' = PutOver(output, OneFile(SuperName, Cut))
  /\ UNCHANGED <<input, edition, size, listed, unlisted>>

Pack(selected, type, sparse, delete) ==
  /\ Run
  /\ Fits(selected)
  /\ ~Refusal(selected, type)
  /\ LET made == [id |-> 0, size |-> size, sparse |-> sparse,
                  parts |-> Partitions(PartList(selected), type)]
         packed == PutOver(output, OneFile(SuperName, made))
     IN  output' = IF delete THEN Without(packed, Removed(selected)) ELSE packed
  /\ UNCHANGED <<input, edition, size, listed, unlisted>>
-----------------------------------------------------------------------------
(* lpunpack and the super source of the unpack workflow.                    *)

Readable == SuperName \in DOMAIN input /\ input[SuperName].parts # <<>>

Scan ==
  /\ listed' = IF Readable THEN DOMAIN input[SuperName].parts ELSE {}
  /\ unlisted' = FALSE
  /\ UNCHANGED <<output, input, edition, size, runs>>

\* Mutant: an image that is there already is kept.
NormalizedKeepsOld(folder) ==
  LET inA == {n \in DOMAIN folder : n[2] = "_a"}
      renamed == [n \in {<<m[1], "">> : m \in inA} |-> folder[<<n[1], "_a">>]]
      emptyB == {n \in DOMAIN folder : n[2] = "_b" /\ folder[n].size = 0}
  IN  Without(PutOver(renamed, folder), inA \cup emptyB)

\* normalize_super_outputs: slot a takes the plain name, whatever has it, and an
\* empty slot b goes.
Normalized(folder) ==
  LET inA == {n \in DOMAIN folder : n[2] = "_a"}
      renamed == [n \in {<<m[1], "">> : m \in inA} |-> folder[<<n[1], "_a">>]]
      emptyB == {n \in DOMAIN folder : n[2] = "_b" /\ folder[n].size = 0}
  IN  Without(PutOver(folder, renamed), inA \cup emptyB)

\* LpUnpack.unpack: the selected names the metadata has.
Found(chosen) == IF Readable THEN chosen \cap DOMAIN input[SuperName].parts ELSE {}

Written(names) == PutOver(input, [n \in names |-> input[SuperName].parts[n]])

\* Mutant: the images of the selection are not looked for.
NoneMissing(chosen, folder) == {}

Missing(chosen, folder) ==
  {n \in chosen : n \notin DOMAIN folder \/ folder[n].size = 0}

\* super.img has to be there, of a type that may be one, and to hold one of the
\* selected partitions.
Extract(chosen) ==
  /\ Run
  /\ input' = IF Found(chosen) = {} THEN input ELSE Normalized(Written(Found(chosen)))
  /\ unlisted' = (unlisted \/ SuperName \in Found(chosen))
  /\ UNCHANGED <<output, edition, size, listed>>

\* The result is judged by the names as they were selected.
ReportedDone(chosen) ==
  /\ Found(chosen) # {}
  /\ Missing(chosen, Normalized(Written(Found(chosen)))) = {}

\* An image cannot be written to its end: those before it are, and the names of
\* all stay what they are.
ExtractFails(chosen) ==
  /\ Run
  /\ \E done \in SUBSET Found(chosen), torn \in Found(chosen) :
       /\ torn \notin done
       /\ input' = PutOver(Written(done), OneFile(torn, Cut))
       /\ unlisted' = (unlisted \/ SuperName \in done \cup {torn})
  /\ UNCHANGED <<output, edition, size, listed>>
-----------------------------------------------------------------------------
(* Around them.                                                             *)

\* A packing run builds an image in output, an import puts one into input.
MakeImage(place) ==
  /\ edition < Len(ImageSize) /\ edition' = edition + 1
  /\ LET made == OneFile(place[2], Plain(edition', ImageSize[edition'])) IN
       IF place[1] = "output" THEN output' = PutOver(output, made) /\ UNCHANGED input
       ELSE input' = PutOver(input, made) /\ UNCHANGED output
  /\ UNCHANGED <<size, listed, unlisted, runs>>

\* The user moves the super image into input.
MoveSuper ==
  /\ SuperName \in DOMAIN output
  /\ input' = PutOver(input, OneFile(SuperName, output[SuperName]))
  /\ output' = Without(output, {SuperName})
  /\ unlisted' = TRUE
  /\ UNCHANGED <<edition, size, listed, runs>>

SuperInit == /\ output = <<>> /\ input = <<>> /\ edition = 0 /\ size \in Sizes /\ runs = 0
        /\ listed = {} /\ unlisted = FALSE

SuperNext ==
  \/ \E n \in Sizes : EnterSize(n)
  \/ \E selected \in Selections(Candidates) :
       \/ RefuseSize(selected)
       \/ \E form \in Forms :
            PackFails(selected, form[1]) \/ Pack(selected, form[1], form[2], form[3])
  \/ Scan
  \/ \E chosen \in Selections(listed) : Extract(chosen) \/ ExtractFails(chosen)
  \/ \E place \in Placed : MakeImage(place)
  \/ MoveSuper

SuperSpec == SuperInit /\ [][SuperNext]_superVars
-----------------------------------------------------------------------------
\* The clean-up of slot names takes every image of input, not the ones just
\* written: an image of slot a from before replaces the one of its plain name.
Overridden(n) == n[2] = "" /\ <<n[1], "_a">> \in DOMAIN input

\* What is unpacked of a super image is what was packed into it: each partition
\* with content is in input, slot a under the plain name, over any image of that
\* name from before, and no slot name is left over (normalize_super_outputs),
\* unless an image of its slot a lay there.
UnpackedIsPacked ==
  [][\A chosen \in IF runs' = runs THEN {} ELSE Selections(listed) : Extract(chosen) =>
       \A n \in Found(chosen) :
         LET content == input[SuperName].parts[n]
             name == IF n[2] = "_a" THEN <<n[1], "">> ELSE n IN
           content.size > 0 /\ ~Overridden(n) =>
             /\ name \in DOMAIN input' /\ input'[name] = content
             /\ n[2] = "_a" => n \notin DOMAIN input']_superVars

\* An extraction reported done has taken every selected image from the super
\* image at hand, unless that was replaced after the list was shown: an image
\* left from an earlier run never passes for one (extract_super_images), the
\* overridden ones apart.
SuccessIsFresh ==
  [][\A chosen \in IF runs' = runs THEN {} ELSE Selections(listed) :
       Extract(chosen) /\ ReportedDone(chosen) /\ ~unlisted =>
         \A n \in chosen : ~Overridden(n) =>
           /\ n \in Found(chosen) /\ n \in DOMAIN input'
           /\ input'[n] = input[SuperName].parts[n]]_superVars

\* An image removed after packing is in the super image just written, whatever
\* names were selected and whichever folder each slot came from (pack_super);
\* unless super.img itself was a selected partition, and is removed as well.
RemovedIsPacked ==
  [][LET gone == DOMAIN output \ DOMAIN output' IN
       SuperName \in DOMAIN output' =>
         \A n \in gone : output[n] \in Range(output'[SuperName].parts)]_superVars
=============================================================================
