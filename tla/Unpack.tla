-------------------------------- MODULE Unpack --------------------------------
(***************************************************************************)
(* The unpack workflow: unpack() of logic/projects/unpack/workflow/service,  *)
(* run by a background task, one at a time.  For each chosen partition it    *)
(* discards the image a former run left, makes a raw image of whatever form  *)
(* the source has, extracts it, notes its type, and at last writes the list  *)
(* of types anew.  The list is kept in memory until then.                    *)
(***************************************************************************)
EXTENDS Workspace

Unpacking(stage) == op.is = "unpack" /\ op.at = stage
Current == Head(op.todo)
Stage(stage) == op' = [op EXCEPT !.at = stage]
ToNext(o) == [o EXCEPT !.todo = Tail(@), !.at = IF Len(o.todo) = 1 THEN "save" ELSE "clean"]

\* Mutant: the list on disk is not read.
BeginUnlisted(todo, imported) ==
    [is |-> "unpack", todo |-> todo, at |-> "clean", parts |-> {}, ok |-> TRUE,
     any |-> FALSE, chosen |-> { todo[i] : i \in DOMAIN todo }, old |-> {}, imported |-> imported]

BeginUnpack(todo, imported) ==
    [is |-> "unpack", todo |-> todo, at |-> "clean", parts |-> record, ok |-> TRUE,
     any |-> FALSE, chosen |-> { todo[i] : i \in DOMAIN todo }, old |-> {}, imported |-> imported]

StartUnpack ==
    /\ Start
    /\ \E todo \in Orders : op' = BeginUnpack(todo, {})
    /\ report' = Nothing
    /\ UNCHANGED <<kind, folders, made, cut>>

(* An exception leaves unpack(): what it knew of the partitions it has done   *)
(* is gone with it, and an import it belongs to has failed.                  *)
Abort ==
    /\ op' = Idle
    /\ report' = [of |-> "unpack", ok |-> FALSE, parts |-> op.chosen,
                  imported |-> {}, old |-> op.old]
    /\ cut' = cut \union op.chosen

\* Mutant: the image a former run left is taken for this one's.
KeepOldImage ==
    /\ Unpacking("clean")
    /\ Stage("normalise")
    /\ UNCHANGED <<kind, folders, report, histories>>

(* The image a former run left is removed; an image that another program has  *)
(* open stays.                                                               *)
DropOldImage ==
    /\ Unpacking("clean")
    /\ \/ /\ image' = [image EXCEPT ![Current] = {}]
          /\ Stage("normalise")
       \/ /\ image[Current] # {}
          /\ op' = [op EXCEPT !.at = "normalise", !.old = @ \union {Current}]
          /\ UNCHANGED image
    /\ UNCHANGED <<kind, input, dat, tree, record, output, report, histories>>

(* zstd writes the image itself, and not over one that is there.             *)
DecompressZst ==
    /\ Unpacking("normalise") /\ input[Current].form = "zst"
    /\ \/ image[Current] = {} /\ image' = [image EXCEPT ![Current] = Source(Current)]
       \/ UNCHANGED image
    /\ Stage("resolve")
    /\ UNCHANGED <<kind, input, dat, tree, record, output, report, histories>>

(* lzma writes over the dat that is there and raises when the source is bad. *)
DecompressXz ==
    /\ Unpacking("normalise") /\ input[Current].form = "xz"
    /\ \/ /\ dat' = [dat EXCEPT ![Current] = Source(Current)]
          /\ Stage("generate")
          /\ UNCHANGED <<report, cut>>
       \/ /\ dat' = [dat EXCEPT ![Current] = InPart(Source(Current))]
          /\ Abort
    /\ UNCHANGED <<kind, input, image, tree, record, output, made, started>>

(* brotli does not write over a dat that is there.                           *)
DecompressBr ==
    /\ Unpacking("normalise") /\ input[Current].form = "br"
    /\ \/ /\ dat[Current] = {}
          /\ dat' = [dat EXCEPT ![Current] = Source(Current)]
          /\ Stage("generate")
       \/ /\ Stage("resolve")
          /\ UNCHANGED dat
    /\ UNCHANGED <<kind, input, image, tree, record, output, report, histories>>

(* The chunks of a split dat are appended to the dat that is there.          *)
JoinChunks ==
    /\ Unpacking("normalise") /\ input[Current].form = "split"
    /\ dat' = [dat EXCEPT ![Current] = @ \union Source(Current)]
    /\ op' = [op EXCEPT !.at = "generate",
                        !.old = IF dat[Current] = {} THEN @ ELSE @ \union {Current}]
    /\ UNCHANGED <<kind, input, image, tree, record, output, report, histories>>

NothingToDecompress ==
    /\ Unpacking("normalise")
    /\ input[Current].form \in {"none", "img", "sparse", "plain"}
    /\ Stage(IF input[Current].form = "plain" THEN "generate" ELSE "resolve")
    /\ UNCHANGED <<kind, folders, report, histories>>

(* With a transfer list the dat becomes the image; a generated dat is then    *)
(* removed, unless another program has it open.                              *)
DatUsed == IF input[Current].form = "plain" THEN Source(Current) ELSE dat[Current]

GenerateImage ==
    /\ Unpacking("generate") /\ input[Current].list
    /\ \/ /\ image' = [image EXCEPT ![Current] = DatUsed]
          /\ \/ dat' = [dat EXCEPT ![Current] = IF input[Current].form = "plain" THEN @ ELSE {}]
             \/ UNCHANGED dat
          /\ Stage("resolve")
          /\ UNCHANGED <<report, cut>>
       \/ /\ image' = [image EXCEPT ![Current] = InPart(DatUsed)]
          /\ Abort
          /\ UNCHANGED dat
    /\ UNCHANGED <<kind, input, tree, record, output, made, started>>

NoTransferList ==
    /\ Unpacking("generate") /\ ~input[Current].list
    /\ Stage("resolve")
    /\ UNCHANGED <<kind, folders, report, histories>>

(* The image is the one in unpack, or the one in input, of which a sparse one *)
(* is copied.                                                                *)
ResolveImage ==
    /\ Unpacking("resolve")
    /\ image[Current] # {} \/ input[Current].form \in {"img", "sparse"}
    /\ image' = [image EXCEPT ![Current] =
                   IF @ = {} /\ input[Current].form = "sparse" THEN Source(Current) ELSE @]
    /\ op' = [op EXCEPT !.at = "extract", !.any = TRUE]
    /\ UNCHANGED <<kind, input, dat, tree, record, output, report, histories>>

\* Mutant: a partition without a source is passed over.
SourcePassedOver ==
    /\ Unpacking("resolve")
    /\ image[Current] = {} /\ input[Current].form \notin {"img", "sparse"}
    /\ op' = ToNext(op)
    /\ UNCHANGED <<kind, folders, report, histories>>

SourceMissing ==
    /\ Unpacking("resolve")
    /\ image[Current] = {} /\ input[Current].form \notin {"img", "sparse"}
    /\ op' = ToNext([op EXCEPT !.ok = FALSE])
    /\ UNCHANGED <<kind, folders, report, histories>>

Image(p) == IF image[p] # {} THEN image[p] ELSE Source(p)

(* The type goes into the list in memory before anything is extracted.  A     *)
(* filesystem is extracted over the directory that is there, a dtbo or a boot *)
(* image into an empty one.                                                  *)
Cleared(p) == IF kind[p] = "fs" THEN tree[p] ELSE {}

BeginExtract ==
    /\ Unpacking("extract")
    /\ op' = [op EXCEPT !.at = "extracting", !.parts = @ \union {Current}]
    /\ tree' = [tree EXCEPT ![Current] = Over(Cleared(Current), InPart(Image(Current)))]
    /\ UNCHANGED <<kind, input, image, dat, record, output, report, histories>>

(* What was begun is finished; or it fails, and a boot image that failed takes *)
(* its directory with it; or it raises.  The image in unpack is removed in    *)
(* any case.                                                                 *)
EndExtract ==
    /\ Unpacking("extracting")
    /\ image' = [image EXCEPT ![Current] = {}]
    /\ \/ /\ Complete(Image(Current))
          /\ tree' = [tree EXCEPT ![Current] = Over(@, Image(Current))]
          /\ op' = ToNext(op)
          /\ UNCHANGED <<report, cut>>
       \/ /\ \/ UNCHANGED tree
             \/ kind[Current] = "boot" /\ tree' = [tree EXCEPT ![Current] = {}]
          /\ op' = ToNext([op EXCEPT !.ok = FALSE])
          /\ UNCHANGED <<report, cut>>
       \/ Abort /\ UNCHANGED tree
    /\ UNCHANGED <<kind, input, dat, record, output, made, started>>

(* The list is emptied before it is written: a file cut in between reads as   *)
(* an empty list.                                                            *)
TruncateRecord ==
    /\ Unpacking("save")
    /\ record' = {}
    /\ Stage("write")
    /\ UNCHANGED <<kind, input, image, dat, tree, output, report, histories>>

WriteRecord ==
    /\ Unpacking("write")
    /\ record' = op.parts
    /\ report' = [of |-> "unpack", ok |-> op.ok /\ op.any, parts |-> op.chosen,
                  imported |-> op.imported, old |-> op.old]
    /\ op' = Idle
    /\ cut' = cut \ op.parts
    /\ UNCHANGED <<kind, input, image, dat, tree, output, made, started>>

UnpackNext ==
    \/ StartUnpack \/ DropOldImage
    \/ DecompressZst \/ DecompressXz \/ DecompressBr \/ JoinChunks \/ NothingToDecompress
    \/ GenerateImage \/ NoTransferList \/ ResolveImage \/ SourceMissing
    \/ BeginExtract \/ EndExtract \/ TruncateRecord \/ WriteRecord
===============================================================================
