------------------------------- MODULE MCProject -------------------------------
EXTENDS Project

CONSTANTS p, q

Two == {p, q}
FilesystemAndSpecial == { k \in [Two -> Kinds] : k[p] = "fs" /\ k[q] # "fs" }
FormsOfEach == [x \in Two |-> IF x = p THEN AllForms ELSE {"img"}]
===============================================================================
