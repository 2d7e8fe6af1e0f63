------------------------- MODULE BookingLifecycle -------------------------
(***************************************************************************)
(* What BookingService, PaymentService and Stripe together promise about   *)
(* one booking: its status moves along one path, its money is settled at   *)
(* most once, while the seat is held for it, and the final status is the   *)
(* one the settlement calls for.  Nothing is said of requests, tables,     *)
(* sessions or messages; TicketSales implements this module.               *)
(***************************************************************************)

CONSTANT Bookings

VARIABLES
  status,   \* the booking's status, "absent" while there is no row
  outcome   \* "open" until the customer's payment is settled

lifeVars == <<status, outcome>>

LifeStatus == {"absent", "INITIALIZING", "PENDING", "CONFIRMED", "CANCEL"}

LifeTypeOK ==
  /\ status \in [Bookings -> LifeStatus]
  /\ outcome \in [Bookings -> {"open", "paid", "expired"}]

Init ==
  /\ status = [b \in Bookings |-> "absent"]
  /\ outcome = [b \in Bookings |-> "open"]

Move(b, from, to) ==
  /\ status[b] = from
  /\ status' = [status EXCEPT ![b] = to]
  /\ UNCHANGED outcome

(* The seat is taken for a customer who has not started to pay. *)
Create(b) == Move(b, "absent", "INITIALIZING")

(* The customer starts to pay ... *)
StartPayment(b) == outcome[b] = "open" /\ Move(b, "INITIALIZING", "PENDING")

(* ... or never does, and the seat is given back. *)
TimeOut(b) == outcome[b] = "open" /\ Move(b, "INITIALIZING", "CANCEL")

(* Money is taken, or the payment lapses, once and only while the seat is held. *)
Settle(b) ==
  /\ status[b] = "PENDING"
  /\ outcome[b] = "open"
  /\ \E o \in {"paid", "expired"} : outcome' = [outcome EXCEPT ![b] = o]
  /\ UNCHANGED status

(* A paid booking is confirmed, a lapsed one gives the seat back. *)
Confirm(b) == outcome[b] = "paid" /\ Move(b, "PENDING", "CONFIRMED")
Release(b) == outcome[b] = "expired" /\ Move(b, "PENDING", "CANCEL")

Next ==
  \E b \in Bookings :
    \/ Create(b)
    \/ StartPayment(b)
    \/ TimeOut(b)
    \/ Settle(b)
    \/ Confirm(b)
    \/ Release(b)

Spec == Init /\ [][Next]_lifeVars
============================================================================
