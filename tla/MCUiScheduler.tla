---------------------------- MODULE MCUiScheduler ----------------------------
(* Instances of UiScheduler for TLC: two workers, and what their callbacks  *)
(* do.                                                                     *)
EXTENDS UiScheduler, TLC

CONSTANTS w1, w2

TwoWorkers == {w1, w2}

\* Panels that may stay open, dialogs that are answered, and windows opened
\* by callbacks between them.
MixedScript == (w1 :> <<"panel", "dialog", "plain">>) @@ (w2 :> <<"dialog", "panel", "window">>)
=============================================================================
