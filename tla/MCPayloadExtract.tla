--------------------------- MODULE MCPayloadExtract ---------------------------
(* PayloadExtract on two images and two pool threads.                        *)
EXTENDS PayloadExtract

CONSTANTS w1, w2

TwoWorkers == {w1, w2}

\* After the first operation the first image has more writes than its queue has
\* places.
TwoImages == << <<1, 3, 2>>, <<1, 1>> >>

EveryFault == {"open", "read", "write"}
====
