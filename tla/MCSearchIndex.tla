--------------------------- MODULE MCSearchIndex ---------------------------
(* Small instances of SearchIndex for TLC. *)
EXTENDS SearchIndex, TLC

CONSTANTS p, q

TwoPaths == {p, q}
TwoVersions == {1, 2}
=============================================================================
