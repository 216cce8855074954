----------------------------- MODULE MCPackInputs ----------------------------
(* Super images are made of packed partitions, and those with the metadata   *)
(* in config; the two share no file.  One run checks both, each behaviour    *)
(* being one of the two at work.                                            *)
EXTENDS SuperImage, Metadata

MCPlaced == {<<"output", <<"system", "">> >>, <<"output", <<"system", "_b">> >>,
             <<"input", <<"system", "">> >>, <<"input", <<"system", "_a">> >>,
             <<"output", <<"vendor", "">> >>, <<"output", <<"vendor", "_a">> >>}
MCImageSize == <<4, 9>>
MCSizes == {8}
MCForms == {<<1, FALSE, TRUE>>, <<2, TRUE, FALSE>>, <<3, FALSE, TRUE>>}

MCNames == <<"a", "b">>
MCHoldings == {{"a"}, {"a", "b"}}
MCShipped == [n \in {"b"} |-> -1]

MCInit == SuperInit /\ MetadataInit
MCNext ==
    \/ MetadataInit /\ SuperNext /\ UNCHANGED metadataVars
    \/ SuperInit /\ MetadataNext /\ UNCHANGED superVars

MCSpec == MCInit /\ [][MCNext]_<<superVars, metadataVars>>
==============================================================================
