-------------------------- MODULE MCTicketNotices --------------------------
(* TicketNotices for TLC. *)
EXTENDS TicketNotices, TLC

(* Processes are interchangeable; bookings are not: their ids are compared. *)
Symmetry == Permutations(Instances)

(* Of a settled booking only FetchBooking reads the status: BookingService   *)
(* acts on the settlement when a handler is about to ask, or never.          *)
ActsBeforeFetch ==
  (\E b \in Bookings : outcome[b] # "open" /\ status'[b] # status[b]) =>
    \E i \in Instances : AtStep(i, "fetch")
============================================================================
