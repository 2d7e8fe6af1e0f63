--------------------------- MODULE MCMovieService ---------------------------
(* MovieService for TLC: small sets of model values. *)
EXTENDS MovieService, TLC

CONSTANT g1

(* The first screen type of the seed. *)
SmallSeats == 1 :> 90

NoSeats == [s \in {} |-> 0]

NoGenreLists == {<<>>}

(* No genre, one, and one twice. *)
SomeGenreLists == {<<>>, <<g1>>, <<g1, g1>>}

(* Of a movie the calls about showtimes read the row, which is there before  *)
(* the trailer and the files: they begin when no movie is in the making.     *)
ShowtimesAfterMovies ==
  \/ /\ \A m \in Movies : movieCall[m] \in {"idle", "done", "failed"}
     /\ \A q \in Picture : file[q] # "uploading"
  \/ /\ \A x \in Showtimes : showtimeCall[x] = "idle"
     /\ \A l \in Listings : listing[l].step = "idle"

(* The showtimes are interchangeable. *)
ShowtimeSymmetry == Permutations(Showtimes)
============================================================================
