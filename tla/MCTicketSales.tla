--------------------------- MODULE MCTicketSales ---------------------------
(* TicketSales for TLC: small sets of model values. *)
EXTENDS TicketSales, TLC

(* Calls are interchangeable, and so are the other callers. *)
CallSymmetry == Permutations(Calls)
Symmetry == Permutations(Bookings) \union Permutations(Calls)
============================================================================
