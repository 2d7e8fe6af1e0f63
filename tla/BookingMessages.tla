-------------------------- MODULE BookingMessages --------------------------
(***************************************************************************)
(* What BookingService and PaymentService know of each other: booking ids, *)
(* and the message of the topic payment_service_payment_transaction_-      *)
(* completed.                                                              *)
(***************************************************************************)

CONSTANT Bookings  \* ids of bookings

CompletedStatus == {"SUCCESS", "CANCEL"}
Message == [booking : Bookings, status : CompletedStatus]
============================================================================
