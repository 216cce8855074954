------------------------------- MODULE MCImages ------------------------------
(* The OTA format, the sparse parts and the conversion window share no file: *)
(* one run checks them, each behaviour being one of the three at work.       *)
EXTENDS BlockImage, SparseParts, Convert

Chunks == [type : {"raw", "fill"}, len : 1..4, zero : BOOLEAN]
          \cup [type : {"skip"}, len : 1..4, zero : {FALSE}]
MCBlocks == {5, 6}
MCImageSet == {img \in BoundedSeq(Chunks, 3) :
                 img # <<>> /\ TotalBlocks(img) \in MCBlocks
                 /\ \A i \in DOMAIN img \ {1} : img[i].type # img[i - 1].type}
MCVersions == {1, 9}

MCSizes == <<5, 3, 4>>
MCPartCounts == {2, 3}

NoImage == <<[type |-> "skip", len |-> 1, zero |-> FALSE]>>
ImageIdle == /\ image = NoImage /\ stage = "idle"
             /\ sdat = <<>> /\ raw = <<>> /\ device = <<>>
PartsIdle == /\ build = 0 /\ dir = <<>> /\ split = <<>> /\ merged = <<>>
             /\ ended = FALSE /\ tainted = FALSE

MCInit == \/ Init /\ PartsIdle /\ ConvertInit
          \/ ImageIdle /\ PartsInit /\ ConvertInit
          \/ ImageIdle /\ PartsIdle /\ ConvertInit
MCNext == \/ Next /\ UNCHANGED <<partsVars, convertVars>>
          \/ build # 0 /\ PartsNext /\ UNCHANGED <<vars, convertVars>>
          \/ image = NoImage /\ build = 0 /\ ConvertNext /\ UNCHANGED <<vars, partsVars>>

MCSpec == MCInit /\ [][MCNext]_<<vars, partsVars, convertVars>>
=============================================================================
