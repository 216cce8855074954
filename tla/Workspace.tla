------------------------------- MODULE Workspace -------------------------------
(***************************************************************************)
(* The folders of one project and what its workflows keep in them.           *)
(*                                                                           *)
(* A project has three folders.  input holds a source of each partition,     *)
(* unpack holds the directory a partition is unpacked to, the intermediate   *)
(* files of a run and config/parts_info, which lists the partitions that     *)
(* have been unpacked, and output holds what is packed.                      *)
(*                                                                           *)
(* Contents are abstract.  A file or a directory is the set of the contents  *)
(* it has pieces of, each whole or in part: {} is a path that does not       *)
(* exist, and two contents in one directory are the files of one over the    *)
(* files of the other.                                                       *)
(***************************************************************************)
EXTENDS Naturals, Sequences, FiniteSets

CONSTANTS
    Partitions,
    KindChoices,   \* the kinds a project's partitions may have
    Forms,         \* the forms the source of a partition comes in
    Formats,       \* the formats that may be asked for
    MaxContents,   \* bound on the contents that sources and edits bring
    MaxWorkflows   \* bound on the workflows that are run

Kinds == {"fs", "dtbo", "boot"}
AllForms == {"img", "sparse", "zst", "xz", "br", "split", "plain"}
AllFormats == {"raw", "sparse", "dat", "br"}

ASSUME WorkspaceAssumption ==
    /\ IsFiniteSet(Partitions)
    /\ KindChoices \subseteq [Partitions -> Kinds]
    /\ Forms \in [Partitions -> SUBSET AllForms]
    /\ Formats \subseteq AllFormats
    /\ MaxContents \in Nat /\ MaxWorkflows \in Nat

Contents == 1 .. MaxContents
Data == SUBSET (Contents \X BOOLEAN)
Whole(c) == { <<c, TRUE>> }
Part(c) == { <<c, FALSE>> }
InPart(data) == { <<d[1], FALSE>> : d \in data }
Complete(data) == data # {} /\ \A d \in data : d[2]

(* What is written over data takes the place of its own contents in it.      *)
Over(data, new) == { d \in data : \A n \in new : n[1] # d[1] } \union new

Orders == { s \in UNION { [1 .. n -> Partitions] : n \in 1 .. Cardinality(Partitions) } :
              \A i, j \in DOMAIN s : s[i] = s[j] => i = j }

VARIABLES
    kind,      \* what a partition holds
    input,     \* the source of a partition: its form, content and transfer list
    image,     \* unpack/<partition>.img
    dat,       \* unpack/<partition>.new.dat
    tree,      \* unpack/<partition>/
    record,    \* the partitions listed in config/parts_info
    output,    \* output/<partition>.img, .new.dat and .new.dat.br
    op,        \* the workflow that runs
    report,    \* what the last one that ended reported
    made,      \* how many contents there have been
    started,   \* how many workflows have been started
    cut        \* partitions of an unpack run that was cut short, not listed since

folders == <<input, image, dat, tree, record, output>>
histories == <<made, started, cut>>
vars == <<kind, folders, op, report, histories>>

NoSource == [form |-> "none", content |-> 0, list |-> FALSE]
Idle == [is |-> "none"]
Nothing == [of |-> "none"]

Source(p) == Whole(input[p].content)
HasSource(p) == input[p].form # "none"
AtRest == op.is = "none"
Start ==
    /\ AtRest
    /\ started < MaxWorkflows
    /\ started' = started + 1

Init ==
    /\ kind \in KindChoices
    /\ input = [p \in Partitions |-> NoSource]
    /\ image = [p \in Partitions |-> {}]
    /\ dat = [p \in Partitions |-> {}]
    /\ tree = [p \in Partitions |-> {}]
    /\ record = {}
    /\ output = [p \in Partitions |-> [f \in {"img", "dat", "br"} |-> {}]]
    /\ op = Idle
    /\ report = Nothing
    /\ made = 0
    /\ started = 0
    /\ cut = {}

(* The user puts a source in the place of the one before, with or without    *)
(* its transfer list.                                                        *)
PutSource(p) ==
    /\ AtRest
    /\ made < MaxContents
    /\ \E f \in Forms[p], list \in BOOLEAN :
          /\ f \in {"img", "sparse", "zst"} => ~list
          /\ input' = [input EXCEPT ![p] = [form |-> f, content |-> made + 1, list |-> list]]
    /\ made' = made + 1
    /\ report' = Nothing
    /\ UNCHANGED <<kind, image, dat, tree, record, output, op, started, cut>>

(* The user changes files of a directory that is there.                      *)
EditTree(p) ==
    /\ AtRest
    /\ tree[p] # {} /\ made < MaxContents
    /\ tree' = [tree EXCEPT ![p] = @ \union Whole(made + 1)]
    /\ made' = made + 1
    /\ report' = Nothing
    /\ UNCHANGED <<kind, input, image, dat, record, output, op, started, cut>>
===============================================================================
