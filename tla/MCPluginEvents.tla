---------------------------- MODULE MCPluginEvents ---------------------------
(* Instances of PluginEvents for TLC.                                      *)
EXTENDS PluginEvents

CONSTANTS w1, w2, v1

SeveralEach == [w \in Workers |-> 3]
TwoWorkers == {w1, w2}
OneView == {v1}
=============================================================================
