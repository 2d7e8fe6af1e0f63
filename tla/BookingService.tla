-------------------------- MODULE BookingService --------------------------
(***************************************************************************)
(* BookingService: the booking table, the CreateBooking call with every    *)
(* await a separate step, the delayed job that gives up an unpaid booking, *)
(* the gRPC update PaymentService calls, and the handler of                *)
(* payment_transaction_completed messages.                                 *)
(*                                                                         *)
(* A CreateBooking call inserts at most one row, so booking b stands for   *)
(* the call and for the row it may insert.  The pair (showtime, seat) is a *)
(* place.  A transaction that takes the row's FOR UPDATE lock first is one *)
(* step.  Actions that stand for a failure are guarded by the composing    *)
(* module, which bounds them.                                              *)
(***************************************************************************)
EXTENDS Naturals, BookingMessages

CONSTANTS
  Places,           \* (showtime, seat) pairs on sale
  Attempts,         \* runs the job queue grants to a job
  LastBookingTime,  \* the showtime's start minus bookingTimeBeforeShowtimeStart
  MaxTime           \* bound on the clock

ASSUME AttemptsAssumption == Attempts \in Nat \ {0}
ASSUME TimeAssumption == LastBookingTime \in Nat /\ MaxTime \in Nat

VARIABLES
  status,       \* booking_status of the row, "absent" before the insert
  place,        \* the place the call asks for
  bookingTime,  \* requestTime of the call, stored as booking_time
  call,         \* where the CreateBooking call is
  counts,       \* what the call's two count queries have returned
  jobs,         \* runs left of the booking's delayed job, 0 when there is none
  handling,     \* completed-payment messages whose handler is running
  now,          \* the wall clock
  before    \* history: the place was already sold when the call began

bookingVars ==
  <<status, place, bookingTime, call, counts, jobs, handling, now, before>>

BookingStatus == {"INITIALIZING", "PENDING", "CONFIRMED", "CANCEL"}
Count == {"unread", "none", "some"}
CreateStep == {"idle", "counting", "pricing", "enqueue", "done", "failed"}

Unread == [processing |-> "unread", confirmed |-> "unread"]

BookingTypeOK ==
  /\ status \in [Bookings -> BookingStatus \union {"absent"}]
  /\ place \in [Bookings -> Places]
  /\ bookingTime \in [Bookings -> Nat]
  /\ call \in [Bookings -> CreateStep]
  /\ counts \in [Bookings -> [processing : Count, confirmed : Count]]
  /\ jobs \in [Bookings -> 0 .. Attempts]
  /\ handling \subseteq Message
  /\ now \in Nat
  /\ before \in [Bookings -> [held : SUBSET Bookings, sold : SUBSET Bookings]]

BookingInit ==
  /\ status = [b \in Bookings |-> "absent"]
  /\ place \in [Bookings -> Places]
  /\ bookingTime = [b \in Bookings |-> 0]
  /\ call = [b \in Bookings |-> "idle"]
  /\ counts = [b \in Bookings |-> Unread]
  /\ jobs = [b \in Bookings |-> 0]
  /\ handling = {}
  /\ now = 0
  /\ before = [b \in Bookings |-> [held |-> {}, sold |-> {}]]

(* The rows of a place whose status is one of S, as a count query sees them. *)
Rows(p, S) == {b \in Bookings : place[b] = p /\ status[b] \in S}
CountOf(p, S) == IF Rows(p, S) = {} THEN "none" ELSE "some"

AtStep(b, step) == call[b] = step
GoTo(b, step) == call' = [call EXCEPT ![b] = step]
DropCounts(b) == counts' = [counts EXCEPT ![b] = Unread]

---------------------------------------------------------------------------
(* CreateBooking *)

StartCreateBooking(b) ==
  /\ AtStep(b, "idle")
  /\ GoTo(b, "counting")
  /\ before' = [before EXCEPT ![b] =
                  [held |-> Rows(place[b], {"INITIALIZING", "PENDING"}),
                   sold |-> Rows(place[b], {"CONFIRMED"})]]
  /\ UNCHANGED <<status, place, bookingTime, counts, jobs, handling, now>>

(* checkBookingProcessingAndConfirmed issues its two counts together, on two *)
(* connections of the pool: either may be answered first.                    *)
ReadProcessingCount(b) ==
  /\ AtStep(b, "counting")
  /\ counts[b].processing = "unread"
  /\ counts' = [counts EXCEPT ![b] =
                  [processing |-> CountOf(place[b], {"INITIALIZING", "PENDING"}),
                   confirmed |-> counts[b].confirmed]]
  /\ UNCHANGED <<status, place, bookingTime, call, jobs, handling, now, before>>

(* Mutant: the second count asks for the statuses of the first. *)
ReadProcessingCountTwice(b) ==
  /\ AtStep(b, "counting")
  /\ counts[b].confirmed = "unread"
  /\ counts' = [counts EXCEPT ![b] =
                  [processing |-> counts[b].processing,
                   confirmed |-> CountOf(place[b], {"INITIALIZING", "PENDING"})]]
  /\ UNCHANGED <<status, place, bookingTime, call, jobs, handling, now, before>>

ReadConfirmedCount(b) ==
  /\ AtStep(b, "counting")
  /\ counts[b].confirmed = "unread"
  /\ counts' = [counts EXCEPT ![b] =
                  [processing |-> counts[b].processing,
                   confirmed |-> CountOf(place[b], {"CONFIRMED"})]]
  /\ UNCHANGED <<status, place, bookingTime, call, jobs, handling, now, before>>

SeatLooksFree(b) ==
  counts[b].processing = "none" /\ counts[b].confirmed = "none"

SeatLooksTaken(b) ==
  /\ "unread" \notin {counts[b].processing, counts[b].confirmed}
  /\ ~ SeatLooksFree(b)

(* The showtime is found and bookings are still accepted at the time read here. *)
AcceptRequestTime(b) ==
  /\ AtStep(b, "counting")
  /\ SeatLooksFree(b)
  /\ now <= LastBookingTime
  /\ bookingTime' = [bookingTime EXCEPT ![b] = now]
  /\ GoTo(b, "pricing")
  /\ DropCounts(b)
  /\ UNCHANGED <<status, place, jobs, handling, now, before>>

(* The unique index on (of_showtime_id, of_seat_id, booking_time). *)
IndexCollision(b) ==
  \E o \in Rows(place[b], BookingStatus) : bookingTime[o] = bookingTime[b]

(* The call is answered with an error: the seat is taken, the showtime, the   *)
(* seat or the price is not there, the deadline has passed, the amount is not *)
(* the price, or the index refuses the row.                                   *)
RejectBooking(b) ==
  /\ \/ AtStep(b, "counting") /\ (SeatLooksTaken(b) \/ SeatLooksFree(b))
     \/ AtStep(b, "pricing")
  /\ GoTo(b, "failed")
  /\ DropCounts(b)
  /\ UNCHANGED <<status, place, bookingTime, jobs, handling, now, before>>

(* Seat and price are found, the amount is right, the row goes in. *)
InsertBooking(b) ==
  /\ AtStep(b, "pricing")
  /\ ~ IndexCollision(b)
  /\ status' = [status EXCEPT ![b] = "INITIALIZING"]
  /\ GoTo(b, "enqueue")
  /\ UNCHANGED <<place, bookingTime, counts, jobs, handling, now, before>>

(* Mutant: the job is never enqueued. *)
SkipCheckJob(b) ==
  /\ AtStep(b, "enqueue")
  /\ GoTo(b, "done")
  /\ UNCHANGED <<status, place, bookingTime, counts, jobs, handling, now, before>>

AddCheckJob(b) ==
  /\ AtStep(b, "enqueue")
  /\ jobs' = [jobs EXCEPT ![b] = Attempts]
  /\ GoTo(b, "done")
  /\ UNCHANGED <<status, place, bookingTime, counts, handling, now, before>>

(* The process dies, or the database, the queue or MovieService fails the call. *)
CreateBookingFails(b) ==
  /\ call[b] \in {"counting", "pricing", "enqueue"}
  /\ GoTo(b, "failed")
  /\ DropCounts(b)
  /\ UNCHANGED <<status, place, bookingTime, jobs, handling, now, before>>

---------------------------------------------------------------------------
(* The worker.  A job that outlives its run (the worker dies after the commit  *)
(* and before the acknowledgement) is run again, until its attempts are used.  *)

(* Mutants: the job gives up a PENDING booking too, or any booking. *)
CancelUnlessConfirmed(b, acknowledged) ==
  /\ jobs[b] > 0
  /\ status' = [status EXCEPT ![b] = IF @ = "CONFIRMED" THEN @ ELSE "CANCEL"]
  /\ jobs' = [jobs EXCEPT ![b] = IF acknowledged THEN 0 ELSE @ - 1]
  /\ UNCHANGED <<place, bookingTime, call, counts, handling, now, before>>

CancelWhateverTheStatus(b, acknowledged) ==
  /\ jobs[b] > 0
  /\ status' = [status EXCEPT ![b] = "CANCEL"]
  /\ jobs' = [jobs EXCEPT ![b] = IF acknowledged THEN 0 ELSE @ - 1]
  /\ UNCHANGED <<place, bookingTime, call, counts, handling, now, before>>

CheckBookingStatusAfterInitialize(b, acknowledged) ==
  /\ jobs[b] > 0
  /\ status' = [status EXCEPT ![b] = IF @ = "INITIALIZING" THEN "CANCEL" ELSE @]
  /\ jobs' = [jobs EXCEPT ![b] = IF acknowledged THEN 0 ELSE @ - 1]
  /\ UNCHANGED <<place, bookingTime, call, counts, handling, now, before>>

(* Mutant: a job without attempts left is run again. *)
CheckJobFailsForEver(b) ==
  /\ jobs' = [jobs EXCEPT ![b] = @ - 1]
  /\ UNCHANGED <<status, place, bookingTime, call, counts, handling, now, before>>

CheckJobFails(b) ==
  /\ jobs[b] > 0
  /\ jobs' = [jobs EXCEPT ![b] = @ - 1]
  /\ UNCHANGED <<status, place, bookingTime, call, counts, handling, now, before>>

---------------------------------------------------------------------------
(* Called by PaymentService *)

(* Mutant: a booking that is PENDING already is accepted. *)
UpdateBookingStatusToPendingAgain(b) ==
  /\ status[b] \in {"INITIALIZING", "PENDING"}
  /\ status' = [status EXCEPT ![b] = "PENDING"]
  /\ UNCHANGED <<place, bookingTime, call, counts, jobs, handling, now, before>>

UpdateBookingStatusFromInitializingToPending(b) ==
  /\ status[b] = "INITIALIZING"
  /\ status' = [status EXCEPT ![b] = "PENDING"]
  /\ UNCHANGED <<place, bookingTime, call, counts, jobs, handling, now, before>>

---------------------------------------------------------------------------
(* The Kafka consumer does not await its handler: several run side by side. *)

StartHandler(m) ==
  /\ handling' = handling \union {m}
  /\ UNCHANGED <<status, place, bookingTime, call, counts, jobs, now, before>>

(* Mutant: every completed payment confirms. *)
StatusAfterAnyPayment(old, paymentStatus) ==
  IF old = "absent" THEN old ELSE "CONFIRMED"

StatusAfterPayment(old, paymentStatus) ==
  IF old \in {"absent", "CONFIRMED"} THEN old
  ELSE IF paymentStatus = "CANCEL" THEN "CANCEL" ELSE "CONFIRMED"

UpdateBookingStatusAfterPaymentTransactionCompleted(m) ==
  /\ m \in handling
  /\ status' = [status EXCEPT ![m.booking] = StatusAfterPayment(@, m.status)]
  /\ handling' = handling \ {m}
  /\ UNCHANGED <<place, bookingTime, call, counts, jobs, now, before>>

HandlerFails(m) ==
  /\ m \in handling
  /\ handling' = handling \ {m}
  /\ UNCHANGED <<status, place, bookingTime, call, counts, jobs, now, before>>

Tick ==
  /\ now < MaxTime
  /\ now' = now + 1
  /\ UNCHANGED <<status, place, bookingTime, call, counts, jobs, handling, before>>
============================================================================
