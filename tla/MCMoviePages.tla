---------------------------- MODULE MCMoviePages ----------------------------
(* MoviePages for TLC: small sets of model values. *)
EXTENDS MoviePages

CONSTANT g1

NoSeats == [s \in {} |-> 0]

(* One genre, and one twice. *)
SomeGenreLists == {<<g1>>, <<g1, g1>>}
============================================================================
