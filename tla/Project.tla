-------------------------------- MODULE Project --------------------------------
(***************************************************************************)
(* One project from import to output: what the import, unpack and packing    *)
(* workflows do to the folders they share, in whatever order the user runs    *)
(* them, with sources that change in between and a program that may die at    *)
(* any point.  The task gate lets one workflow run at a time.                *)
(***************************************************************************)
EXTENDS Unpack, Pack

(* A ROM archive is extracted into unpack; input only gets the archive.  An   *)
(* import may go on to unpack every name it finds there.                     *)
Import ==
    /\ Start
    /\ made < MaxContents
    /\ \E found \in SUBSET Partitions \ {{}}, auto \in BOOLEAN :
          LET here == { p \in Partitions : p \in found \/ image[p] # {} \/ dat[p] # {} }
          IN  /\ image' = [p \in Partitions |-> IF p \in found THEN Whole(made + 1) ELSE image[p]]
              /\ IF auto
                 THEN /\ \E todo \in Orders :
                            /\ { todo[i] : i \in DOMAIN todo } = here
                            /\ op' = BeginUnpack(todo, found)
                      /\ report' = Nothing
                 ELSE /\ UNCHANGED op
                      /\ report' = [of |-> "import", parts |-> found]
    /\ made' = made + 1
    /\ UNCHANGED <<kind, input, dat, tree, record, output, cut>>

(* What is being written when the program dies is left in part.              *)
Crash ==
    /\ ~AtRest
    /\ op' = Idle
    /\ report' = Nothing
    /\ \/ UNCHANGED <<image, dat>>
       \/ /\ op.is = "unpack" /\ op.at \in {"normalise", "generate", "resolve"} /\ HasSource(Current)
          /\ \/ image' = [image EXCEPT ![Current] = InPart(Source(Current))] /\ UNCHANGED dat
             \/ dat' = [dat EXCEPT ![Current] = @ \union InPart(Source(Current))] /\ UNCHANGED image
    /\ IF op.is = "pack"
       THEN UNCHANGED cut
       ELSE cut' = IF op.at = "write" THEN Partitions ELSE cut \union op.chosen
    /\ UNCHANGED <<kind, input, tree, record, output, made, started>>

Next ==
    \/ \E p \in Partitions : PutSource(p) \/ EditTree(p)
    \/ Import \/ UnpackNext \/ PackNext \/ Crash

Spec == Init /\ [][Next]_vars
-------------------------------------------------------------------------------
File == Data
OutputFiles == [{"img", "dat", "br"} -> File]

(* The folders hold contents, the list names partitions, and an unpack run    *)
(* has a partition in hand until it saves the list.                          *)
TypeOK ==
    /\ kind \in KindChoices
    /\ input \in [Partitions -> [form : AllForms \union {"none"}, content : 0 .. MaxContents, list : BOOLEAN]]
    /\ image \in [Partitions -> File] /\ dat \in [Partitions -> File] /\ tree \in [Partitions -> File]
    /\ record \subseteq Partitions
    /\ output \in [Partitions -> OutputFiles]
    /\ op.is \in {"none", "unpack", "pack"}
    /\ op.is = "unpack" => (op.todo = <<>> <=> op.at \in {"save", "write"})
    /\ report.of \in {"none", "unpack", "pack", "import"}
    /\ made \in 0 .. MaxContents /\ started \in 0 .. MaxWorkflows /\ cut \subseteq Partitions

(* An unpack run that reports success has extracted every chosen partition    *)
(* from its present source, and the list on disk names it.                   *)
SuccessIsListed ==
    report.of = "unpack" /\ report.ok =>
        \A p \in report.parts :
            /\ p \in record
            /\ p \notin report.old => Source(p) \subseteq tree[p]

(* The window only offers to pack what the list names.  A directory that was  *)
(* extracted stays listed, whatever runs on the other partitions, unless a    *)
(* run that had to do with it was cut short.                                 *)
ListedKept ==
    AtRest => \A p \in Partitions : Complete(tree[p]) => p \in record \/ p \in cut

(* What is extracted is the present source and nothing that an earlier run,   *)
(* an import or a crash has left in unpack, unless an image could not be      *)
(* removed or chunks were appended to a dat that was there.                  *)
FreshImage ==
    op.is = "unpack" /\ op.at = "extract" /\ Current \notin op.old =>
        Image(Current) = Source(Current)

(* A packing run that reports success has made of each filesystem what its    *)
(* directory held, in the format that was asked for.                         *)
PackedIsFresh ==
    report.of = "pack" /\ report.ok =>
        \A p \in report.parts : kind[p] = "fs" /\ tree[p] # {} =>
            output[p][IF report.format \in {"dat", "br"} THEN report.format ELSE "img"] = tree[p]

(* No packing run takes a directory away without having all of it in output,  *)
(* but for a dtbo of which something did not compile.                        *)
PackKeepsACopy ==
    [][op.is = "pack" =>
          \A p \in Partitions : tree'[p] # tree[p] =>
              \/ tree[p] = output'[p].img \/ tree[p] = output'[p].dat \/ tree[p] = output'[p].br
              \/ kind[p] = "dtbo"]_vars

(* What an import has put into unpack is there when it is done, or has been   *)
(* unpacked (docs/architecture_map_english.md, "Import automatically starts   *)
(* unpack workflow").                                                        *)
ImportedSurvive ==
    report.of = "unpack" => \A p \in report.imported : image[p] # {} \/ tree[p] # {}
===============================================================================
