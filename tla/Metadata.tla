------------------------------- MODULE Metadata -------------------------------
(***************************************************************************)
(* What a filesystem is packed with: the owners and modes (fs_config) and    *)
(* the SELinux labels (file_contexts) an extraction has recorded, brought up  *)
(* to date before each packing run by prepare_partition_context_files of      *)
(* logic/projects/pack/partition_contexts.py, core/fspatch.py and             *)
(* core/contextpatch.py.  Labels given to one project are learned as rules    *)
(* for all.                                                                 *)
(*                                                                         *)
(* What comes from an image is known by the number of the image, what the    *)
(* program has made up by 0.  Names are written alike in all three files:     *)
(* blanks and the signs # & ~, which they escape differently, are left out.   *)
(***************************************************************************)
EXTENDS Integers, SequencesExt

CONSTANTS Projects,     \* projects with a partition of one name
          Names,        \* the files it may hold, in the order of their names
          Holdings,     \* sets of files an image may hold
          Shipped,      \* the rules of paths there are at first: pattern |-> label
          MaxExtracted, \* bound on the extractions
          MaxPrepared,  \* bound on the packing runs
          MaxEdited     \* bound on the files the user adds and deletes

(* The root and the directory of the partition are listed whatever it holds.  *)
Root == "/"
Part == "/part"
Keys == <<Root, Part>> \o Names
FileNames == ToSet(Names)
InFile == UNION {{<<Keys[i], Keys[j]>> : i \in 1 .. (j - 1)} : j \in DOMAIN Keys}

ASSUME MetadataConstants ==
    /\ Names \in Seq(FileNames) /\ IsInjective(Names) /\ {Root, Part} \cap FileNames = {}
    /\ Holdings \subseteq SUBSET FileNames
    /\ {MaxExtracted, MaxPrepared, MaxEdited} \subseteq Nat
    /\ DOMAIN Shipped \subseteq FileNames

VARIABLES files,     \* the partition's directory: name |-> where it comes from
          owners,    \* fs_config: key |-> where the entry comes from
          labels,    \* file_contexts: key |-> label
          origin,    \* the image last extracted, and what it labels
          offered,   \* the projects whose partition may be packed
          rules,     \* context_rules.json: its labels by their patterns, and
                     \* which pattern comes before which
          prep,      \* the packing run that prepares, and the files its scans saw
          torn,      \* the projects whose lists a run has left in part
          extracted, prepared, edited  \* how many there were
metadataVars == <<files, owners, labels, origin, offered, rules, prep, torn, extracted, prepared, edited>>

Made == 0
Empty == <<>>
NoRun == [at |-> "none"]
NoRules == [label |-> Empty, order |-> {}]
Restricted(f, S) == [k \in DOMAIN f \cap S |-> f[k]]
Over(new, old) == [k \in DOMAIN new \cup DOMAIN old |-> IF k \in DOMAIN new THEN new[k] ELSE old[k]]
-------------------------------------------------------------------------------
(* Extraction and the user.                                                  *)

(* An extraction writes over what is in the directory, and its own lists over  *)
(* those in config: but an image without labels leaves those that are there,   *)
(* and only fails when there are none.                                       *)
ExtractPartition(p, held, labelled) ==
    /\ prep = NoRun /\ extracted < MaxExtracted
    /\ LET image == extracted + 1
           all == {Root, Part} \cup held
       IN  /\ files' = [files EXCEPT ![p] = Over([n \in held |-> image], @)]
           /\ owners' = [owners EXCEPT ![p] = [k \in all |-> image]]
           /\ labels' = IF labelled = {} THEN labels
                        ELSE [labels EXCEPT ![p] = [k \in all \cap labelled |-> image]]
           /\ origin' = [origin EXCEPT ![p] = [image |-> image, labelled |-> labelled]]
           /\ offered' = IF labels'[p] = Empty THEN offered ELSE offered \cup {p}
           /\ torn' = IF labelled = {} THEN torn ELSE torn \ {p}
    /\ extracted' = extracted + 1
    /\ UNCHANGED <<rules, prep, prepared, edited>>

(* One that fails has written some of the files and no list.                  *)
ExtractStops(p, held) ==
    /\ prep = NoRun /\ extracted < MaxExtracted
    /\ files' = [files EXCEPT ![p] = Over([n \in held |-> extracted + 1], @)]
    /\ extracted' = extracted + 1
    /\ UNCHANGED <<owners, labels, origin, offered, rules, prep, torn, prepared, edited>>

Edit == edited < MaxEdited /\ edited' = edited + 1

AddFile(p, n) ==
    /\ Edit
    /\ files' = [files EXCEPT ![p] = Over([k \in {n} |-> Made], @)]
    /\ UNCHANGED <<owners, labels, origin, offered, rules, prep, torn, extracted, prepared>>

DeleteFile(p, n) ==
    /\ Edit /\ n \in DOMAIN files[p]
    /\ files' = [files EXCEPT ![p] = Restricted(@, FileNames \ {n})]
    /\ UNCHANGED <<owners, labels, origin, offered, rules, prep, torn, extracted, prepared>>
-------------------------------------------------------------------------------
(* The preparation of one packing run.                                       *)

Scanned(p) == {Root, Part} \cup DOMAIN files[p]

StartPrepare(p, patch) ==
    /\ prep = NoRun /\ prepared < MaxPrepared
    /\ p \in offered /\ files[p] # Empty
    /\ prep' = [at |-> "owners", of |-> p, patch |-> patch, seen |-> FileNames]
    /\ prepared' = prepared + 1
    /\ UNCHANGED <<files, owners, labels, origin, offered, rules, torn, extracted, edited>>

(* fs_patch: an entry that is there is kept, one that is missing is made up,   *)
(* and one without a file goes.                                              *)
Completed(p) == [k \in Scanned(p) |-> IF k \in DOMAIN owners[p] THEN owners[p][k] ELSE Made]

(* The user may add and delete files all the while.                           *)
SeenBy(p) == prep.seen \cap DOMAIN files[p]

PatchOwners ==
    /\ prep.at = "owners"
    /\ owners' = [owners EXCEPT ![prep.of] = Completed(prep.of)]
    /\ prep' = [prep EXCEPT !.at = IF prep.patch THEN "labels" ELSE "pack", !.seen = SeenBy(prep.of)]
    /\ UNCHANGED <<files, labels, origin, offered, rules, torn, extracted, prepared, edited>>

(* A pattern is searched for, not matched: the root is found in every path.    *)
FoundIn(pattern, k) == pattern \in {Root, k} \/ (pattern = Part /\ k # Root)

(* Of the patterns found the last one decides.                                *)
LabelByRule(k) ==
    LET found == {r \in DOMAIN rules.label : FoundIn(r, k)}
        last == CHOOSE l \in found : \A r \in found \ {l} : <<r, l>> \in rules.order
    IN  IF found = {} THEN Made ELSE rules.label[last]

\* Mutant: a rule goes before the label the image gave.
RelabelledByRule(p) ==
    [k \in Scanned(p) |->
        IF k \in DOMAIN labels[p] /\ LabelByRule(k) = Made THEN labels[p][k] ELSE LabelByRule(k)]

(* context_patch: a label that is there is kept, a missing one is looked up.   *)
Relabelled(p) ==
    [k \in Scanned(p) |-> IF k \in DOMAIN labels[p] THEN labels[p][k] ELSE LabelByRule(k)]

PatchLabels ==
    /\ prep.at = "labels"
    /\ labels' = [labels EXCEPT ![prep.of] = Relabelled(prep.of)]
    /\ prep' = [prep EXCEPT !.at = "learn", !.seen = SeenBy(prep.of)]
    /\ UNCHANGED <<files, owners, origin, offered, rules, torn, extracted, prepared, edited>>

(* new_rules | rules.read(): the new patterns come first, in the order of the  *)
(* file, and one that has a rule keeps its label.                             *)
Learned(new) ==
    LET first == DOMAIN new
        rest == DOMAIN rules.label \ first
    IN  [label |-> Over(rules.label, new),
         order |-> (InFile \cap first \X first) \cup first \X rest
                   \cup (rules.order \cap rest \X rest)]

LearnRules ==
    /\ prep.at = "learn"
    /\ rules' = Learned(labels[prep.of])
    /\ prep' = [prep EXCEPT !.at = "pack"]
    /\ UNCHANGED <<files, owners, labels, origin, offered, torn, extracted, prepared, edited>>

(* The tool that makes the image reads both lists.                            *)
PackWithMetadata ==
    /\ prep.at = "pack"
    /\ prep' = NoRun
    /\ UNCHANGED <<files, owners, labels, origin, offered, rules, torn, extracted, prepared, edited>>

(* Each file is truncated and written anew, the lists twice (the second time   *)
(* by remove_duplicate).  A program that dies leaves the first lines of a      *)
(* list; of the rules it leaves nothing that can be read.                     *)
Begun(new, old) ==
    {old} \cup { Restricted(new, { Keys[i] : i \in 1 .. n }) : n \in 0 .. Len(Keys) }

DieWhilePreparing ==
    /\ prep # NoRun
    /\ \/ /\ prep.at = "owners"
          /\ \E part \in Begun(Completed(prep.of), owners[prep.of]) :
                owners' = [owners EXCEPT ![prep.of] = part]
          /\ UNCHANGED <<labels, rules>>
       \/ /\ prep.at = "labels"
          /\ \E part \in Begun(Relabelled(prep.of), labels[prep.of]) :
                labels' = [labels EXCEPT ![prep.of] = part]
          /\ UNCHANGED <<owners, rules>>
       \/ /\ prep.at = "learn" /\ rules' \in {NoRules, rules}
          /\ UNCHANGED <<owners, labels>>
    /\ torn' = torn \cup {prep.of}
    /\ prep' = NoRun
    /\ UNCHANGED <<files, origin, offered, extracted, prepared, edited>>
-------------------------------------------------------------------------------
MetadataInit ==
    /\ files = [p \in Projects |-> Empty] /\ owners = files /\ labels = files
    /\ origin = [p \in Projects |-> [image |-> Made, labelled |-> {}]]
    /\ offered = {} /\ rules = [NoRules EXCEPT !.label = Shipped] /\ prep = NoRun /\ torn = {}
    /\ extracted = 0 /\ prepared = 0 /\ edited = 0

MetadataNext ==
    \/ \E p \in Projects :
        \/ \E held \in Holdings :
              \/ ExtractStops(p, held)
              \/ \E labelled \in {{}, held, held \cup {Root, Part}} :
                    ExtractPartition(p, held, labelled)
        \/ \E n \in FileNames : AddFile(p, n) \/ DeleteFile(p, n)
        \/ \E patch \in BOOLEAN : StartPrepare(p, patch)
    \/ PatchOwners \/ PatchLabels \/ LearnRules \/ PackWithMetadata \/ DieWhilePreparing
-------------------------------------------------------------------------------
(* What the image gave a file is what it is packed with, and every file that   *)
(* the scans saw has an entry.                                               *)
ImageEntriesKept(p) ==
    \A n \in DOMAIN files[p] :
        /\ n \in prep.seen => n \in DOMAIN owners[p] /\ (prep.patch => n \in DOMAIN labels[p])
        /\ files[p][n] = origin[p].image =>
              /\ owners[p][n] = origin[p].image
              /\ n \in origin[p].labelled => labels[p][n] = origin[p].image

(* The rule learned of a path decides for it, not one of a directory above it. *)
NarrowRulesDecide ==
    \A n \in DOMAIN rules.label \cap FileNames : LabelByRule(n) = rules.label[n]

(* However often a partition was packed before, whatever was extracted, added, *)
(* deleted and learned meanwhile, in whichever project: what the image at hand *)
(* gave the files it brought is what they are packed with, everything else has *)
(* an entry, and a label learned for a path is the one a new file there gets   *)
(* (prepare_partition_context_files).  Lists a dead run has left in part are   *)
(* excepted: what is missing of them is filled up like that of a new file.     *)
MetadataKept ==
    /\ prep.at = "pack" /\ prep.of \notin torn => ImageEntriesKept(prep.of)
    /\ NarrowRulesDecide
===============================================================================
