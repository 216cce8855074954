--------------------------------- MODULE Pack ---------------------------------
(***************************************************************************)
(* The partition packing workflow: pack_selected_partitions of logic/        *)
(* projects/pack/partition_flow/service.py, run by an animated task.  A      *)
(* filesystem is built into an image in output, which is then converted to   *)
(* the chosen format, and the run ends at the first that fails.  A dtbo or a *)
(* boot image has a handler of its own, whose result is not looked at.       *)
(***************************************************************************)
EXTENDS Workspace

Packing(stage) == op.is = "pack" /\ op.at = stage
Packed == Head(op.todo)
Goes(stage) == op' = [op EXCEPT !.at = stage]

(* The window offers the directories that are listed.                        *)
StartPack ==
    /\ Start
    /\ \E todo \in Orders, format \in Formats, remove \in BOOLEAN :
          /\ \A i \in DOMAIN todo : todo[i] \in record /\ tree[todo[i]] # {}
          /\ op' = [is |-> "pack", todo |-> todo, at |-> "build", format |-> format,
                    remove |-> remove, chosen |-> { todo[i] : i \in DOMAIN todo }]
    /\ report' = Nothing
    /\ UNCHANGED <<kind, folders, made, cut>>

PackEnds(ok) ==
    /\ op' = Idle
    /\ report' = [of |-> "pack", ok |-> ok, parts |-> op.chosen, format |-> op.format]

PackNextPartition ==
    IF Len(op.todo) = 1
    THEN PackEnds(TRUE)
    ELSE /\ op' = [op EXCEPT !.todo = Tail(@), !.at = "build"]
         /\ UNCHANGED report

Output(p, file, data) == output' = [output EXCEPT ![p][file] = data]

BeginBuild ==
    /\ Packing("build") /\ kind[Packed] = "fs"
    /\ Output(Packed, "img", InPart(tree[Packed]))
    /\ Goes("building")
    /\ UNCHANGED <<kind, input, image, dat, tree, record, report, histories>>

EndBuild ==
    /\ Packing("building")
    /\ \/ Output(Packed, "img", tree[Packed]) /\ Goes("convert") /\ UNCHANGED report
       \/ PackEnds(FALSE) /\ UNCHANGED output
    /\ UNCHANGED <<kind, input, image, dat, tree, record, histories>>

(* img2simg puts the sparse image in the place of the raw one, or raises.     *)
ConvertSparse ==
    /\ Packing("convert")
    /\ \/ Goes(IF op.format \in {"dat", "br"} THEN "dat" ELSE "packed") /\ UNCHANGED report
       \/ op.format # "raw" /\ PackEnds(FALSE)
    /\ UNCHANGED <<kind, folders, histories>>

(* The dat takes the place of the image.                                     *)
WriteDat ==
    /\ Packing("dat")
    /\ output' = [output EXCEPT ![Packed].dat = output[Packed].img, ![Packed].img = {}]
    /\ Goes(IF op.format = "br" THEN "compress" ELSE "packed")
    /\ UNCHANGED <<kind, input, image, dat, tree, record, report, histories>>

\* Mutant: nobody looks at what brotli returns.
CompressUnchecked ==
    /\ Packing("compress")
    /\ output' = [output EXCEPT ![Packed].br = IF @ = {} THEN output[Packed].dat ELSE @,
                                ![Packed].dat = {}]
    /\ Goes("packed")
    /\ UNCHANGED <<kind, input, image, dat, tree, record, report, histories>>

(* brotli does not write over what a former run compressed.                  *)
CompressDat ==
    /\ Packing("compress")
    /\ \/ /\ output[Packed].br = {}
          /\ output' = [output EXCEPT ![Packed].br = output[Packed].dat, ![Packed].dat = {}]
          /\ Goes("packed")
          /\ UNCHANGED report
       \/ PackEnds(FALSE) /\ UNCHANGED output
    /\ UNCHANGED <<kind, input, image, dat, tree, record, histories>>

(* The directory is removed when that was asked for, and only while unpack    *)
(* holds an image of the same name: without one the run has failed.          *)
KeepSource ==
    /\ Packing("packed") /\ ~op.remove
    /\ PackNextPartition
    /\ UNCHANGED <<kind, folders, histories>>

RemoveSource ==
    /\ Packing("packed") /\ op.remove /\ image[Packed] # {}
    /\ tree' = [tree EXCEPT ![Packed] = {}]
    /\ PackNextPartition
    /\ UNCHANGED <<kind, input, image, dat, record, output, histories>>

SourceNotRemoved ==
    /\ Packing("packed") /\ op.remove /\ image[Packed] = {}
    /\ PackEnds(FALSE)
    /\ UNCHANGED <<kind, folders, histories>>

(* dtc compiles what is in the directory, the image is made of what it has    *)
(* compiled, whether or not that is all, and the directory goes.             *)
PackDtbo ==
    /\ Packing("build") /\ kind[Packed] = "dtbo"
    /\ \E compiled \in {tree[Packed], InPart(tree[Packed])} : Output(Packed, "img", compiled)
    /\ tree' = [tree EXCEPT ![Packed] = {}]
    /\ PackNextPartition
    /\ UNCHANGED <<kind, input, image, dat, record, histories>>

(* magiskboot needs the image the directory came from.  When it fails the     *)
(* directory stays and the run goes on.                                      *)
PackBoot ==
    /\ Packing("build") /\ kind[Packed] = "boot"
    /\ input[Packed].form \in {"img", "sparse"}
    /\ Output(Packed, "img", tree[Packed])
    /\ tree' = [tree EXCEPT ![Packed] = {}]
    /\ PackNextPartition
    /\ UNCHANGED <<kind, input, image, dat, record, histories>>

\* Mutant: the directory goes whatever magiskboot returns.
BootDropped ==
    /\ Packing("build") /\ kind[Packed] = "boot"
    /\ tree' = [tree EXCEPT ![Packed] = {}]
    /\ PackNextPartition
    /\ UNCHANGED <<kind, input, image, dat, record, output, histories>>

BootNotPacked ==
    /\ Packing("build") /\ kind[Packed] = "boot"
    /\ PackNextPartition
    /\ UNCHANGED <<kind, folders, histories>>

PackNext ==
    \/ StartPack \/ BeginBuild \/ EndBuild \/ ConvertSparse \/ WriteDat \/ CompressDat
    \/ KeepSource \/ RemoveSource \/ SourceNotRemoved
    \/ PackDtbo \/ PackBoot \/ BootNotPacked
===============================================================================
