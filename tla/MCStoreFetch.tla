---- MODULE MCStoreFetch ----
(***************************************************************************)
(* Three repositories, one of them with an empty catalog, and two store    *)
(* windows opened one after the other.                                       *)
(***************************************************************************)
EXTENDS StoreFetch

CONSTANTS main, other, bare, w1, w2

ThreeRepos == {main, other, bare}
BareOnly == {bare}
TwoWindows == {w1, w2}
====
