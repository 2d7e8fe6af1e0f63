---------------------------- MODULE TicketSales ----------------------------
(***************************************************************************)
(* BookingService and PaymentService at work together, with the customer,  *)
(* Stripe and Kafka around them: from the choice of a seat to a confirmed  *)
(* or a cancelled booking.  The services share nothing but gRPC calls and  *)
(* one topic; every step of one interleaves with every step of the other.  *)
(***************************************************************************)
EXTENDS BookingService, PaymentService

CONSTANT MaxFaults  \* bound on the failures of one behaviour

ASSUME MaxFaultsAssumption == MaxFaults \in Nat

VARIABLE faults     \* failures so far

vars == <<bookingVars, paymentVars, faults>>

TypeOK ==
  /\ BookingTypeOK
  /\ PaymentTypeOK
  /\ faults \in 0 .. MaxFaults

Init ==
  /\ BookingInit
  /\ PaymentInit
  /\ faults = 0

---------------------------------------------------------------------------
(* Steps of one service *)

CreateBookingStep(b) ==
  \/ ReadProcessingCount(b)
  \/ ReadConfirmedCount(b)
  \/ AcceptRequestTime(b)
  \/ RejectBooking(b)
  \/ InsertBooking(b)
  \/ AddCheckJob(b)

BookingStep(b) ==
  /\ \/ StartCreateBooking(b)
     \/ CreateBookingStep(b)
     \/ CheckBookingStatusAfterInitialize(b, TRUE)
  /\ UNCHANGED <<paymentVars, faults>>

TimeStep == Tick /\ UNCHANGED <<paymentVars, faults>>

(* The steps of a CreatePaymentTransaction call that need no other service. *)
CreatePaymentStep(c) ==
  \/ ReadPendingTransaction(c)
  \/ AnswerStoredSession(c)
  \/ AnswerNotFound(c)
  \/ \E found \in BOOLEAN : LookUpTicket(c, found)
  \/ CountPendingTransactions(c)
  \/ InsertPaymentTransaction(c)
  \/ OpenCheckoutSession(c)
  \/ StoreCheckoutSession(c)

WebhookStep(c) ==
  \/ ReceiveEvent(c)
  \/ UpdateTransactionStatus(c)
  \/ ProduceCompletedMessage(c)

PaymentStep(c) ==
  /\ \/ StartCreatePayment(c)
     \/ CreatePaymentStep(c)
     \/ CustomerPays(c)
     \/ SessionExpires(c)
     \/ WebhookStep(c)
  /\ UNCHANGED <<bookingVars, faults>>

CancelPaymentStep(k) ==
  \/ FindTransactionToCancel(k)
  \/ FindSessionToCancel(k)
  \/ ExpireCheckoutSession(k)
  \/ RefuseCancel(k)

CancelCallStep(k) ==
  /\ \/ StartCancel(k, status[cancelOf[k].booking] = "PENDING")
     \/ CancelPaymentStep(k)
  /\ UNCHANGED <<bookingVars, faults>>

---------------------------------------------------------------------------
(* Steps of both services *)

AskForBooking(c) ==
  /\ ReadInitializingBooking(c, status[target[c]] = "INITIALIZING")
  /\ UNCHANGED <<bookingVars, faults>>

AskToMarkPending(c) ==
  /\ \/ /\ MarkBookingPending(c, TRUE)
        /\ UpdateBookingStatusFromInitializingToPending(target[c])
     \/ /\ MarkBookingPending(c, FALSE)
        /\ status[target[c]] # "INITIALIZING"
        /\ UNCHANGED bookingVars
  /\ UNCHANGED faults

DeliverMessage(m) ==
  /\ \E committed \in BOOLEAN : Deliver(m, committed)
  /\ StartHandler(m)
  /\ UNCHANGED faults

HandleMessage(m) ==
  /\ UpdateBookingStatusAfterPaymentTransactionCompleted(m)
  /\ UNCHANGED <<paymentVars, faults>>

---------------------------------------------------------------------------
(* Failures *)

BookingFault ==
  /\ \/ \E b \in Bookings : CreateBookingFails(b)
     \/ \E b \in Bookings : CheckJobFails(b)
     \/ \E b \in Bookings : CheckBookingStatusAfterInitialize(b, FALSE)
     \/ \E m \in Message : HandlerFails(m)
  /\ UNCHANGED paymentVars

PaymentFault ==
  /\ \/ \E c \in Calls : CreatePaymentFails(c)
     \/ \E k \in Cancels : CancelFails(k)
     \/ \E h \in Hook : WebhookFails(h)
  /\ UNCHANGED bookingVars

Fault ==
  /\ faults < MaxFaults
  /\ faults' = faults + 1
  /\ BookingFault \/ PaymentFault

Next ==
  \/ \E b \in Bookings : BookingStep(b)
  \/ TimeStep
  \/ \E c \in Calls : PaymentStep(c)
  \/ \E k \in Cancels : CancelCallStep(k)
  \/ \E c \in Calls : AskForBooking(c)
  \/ \E c \in Calls : AskToMarkPending(c)
  \/ \E m \in Message : DeliverMessage(m)
  \/ \E m \in Message : HandleMessage(m)
  \/ Fault

Spec == Init /\ [][Next]_vars

---------------------------------------------------------------------------
(* Fairness.  A call, a job, a webhook run or a handler that has begun goes *)
(* on unless it fails; the job queue runs its jobs; Stripe sends an event   *)
(* again until it is answered, which the endpoint never does; a session     *)
(* nobody pays expires; the consumer polls the topic.  Customers owe        *)
(* nothing: they need not book, pay or cancel.                              *)
Fairness ==
  /\ \A b \in Bookings :
       /\ WF_vars(CreateBookingStep(b) /\ UNCHANGED <<paymentVars, faults>>)
       /\ WF_vars(/\ CheckBookingStatusAfterInitialize(b, TRUE)
                  /\ UNCHANGED <<paymentVars, faults>>)
  /\ \A c \in Calls :
       /\ WF_vars(CreatePaymentStep(c) /\ UNCHANGED <<bookingVars, faults>>)
       /\ WF_vars(AskForBooking(c))
       /\ WF_vars(AskToMarkPending(c))
       /\ WF_vars(SessionExpires(c) /\ UNCHANGED <<bookingVars, faults>>)
       /\ WF_vars(ReceiveEvent(c) /\ UNCHANGED <<bookingVars, faults>>)
       /\ WF_vars(UpdateTransactionStatus(c) /\ UNCHANGED <<bookingVars, faults>>)
       /\ WF_vars(ProduceCompletedMessage(c) /\ UNCHANGED <<bookingVars, faults>>)
  /\ \A m \in Message :
       /\ WF_vars(DeliverMessage(m))
       /\ WF_vars(HandleMessage(m))

FairSpec == Spec /\ Fairness

---------------------------------------------------------------------------
(* Properties *)

(* A booking never gets a second payment transaction, however often and    *)
(* however concurrently its customer asks to pay: the error "more than one *)
(* payment transaction with booking_id" of payment_transaction.ts is out   *)
(* of reach, although no index and no transaction of PaymentService        *)
(* forbids the second row.                                                 *)
OneTransactionPerBooking ==
  \A c, d \in Calls :
    pt[c] # "absent" /\ pt[d] # "absent" /\ target[c] = target[d] => c = d

(* While a customer can still pay, the seat is held for that booking: the   *)
(* delayed job never gives up a booking whose checkout session is open,     *)
(* although it runs beside the call that opens it.                          *)
PayableBookingIsHeld ==
  \A c \in Calls : stripe[c] = "open" => status[target[c]] = "PENDING"

(* A booking is confirmed only for money Stripe has taken, and no booking   *)
(* whose money was taken is ever cancelled, whatever is lost, repeated or   *)
(* reordered on the way from Stripe to the booking table.                   *)
StatusFollowsMoney ==
  \A b \in Bookings :
    LET paid == \E c \in Calls : target[c] = b /\ stripe[c] = "paid" IN
    /\ status[b] = "CONFIRMED" => paid
    /\ status[b] = "CANCEL" => ~ paid

(* Every URL handed to a customer, by the first call or by a repeated one,  *)
(* is the one checkout page of that booking.                                *)
OneCheckoutPage ==
  \A c, d \in Calls :
    /\ url[c] # NoCall => target[url[c]] = target[c]
    /\ url[c] # NoCall /\ url[d] # NoCall /\ target[c] = target[d]
         => url[c] = url[d]

(* A seat already sold when a CreateBooking call arrives is never booked    *)
(* again by that call, in whichever order its two counts are answered.      *)
SoldSeatStaysSold ==
  \A b \in Bookings : status[b] # "absent" => before[b].sold = {}

(* A confirmed or cancelled booking stays what it is, and no row vanishes.  *)
FinalStatusIsFinal ==
  [][\A b \in Bookings :
       status[b] \in {"CONFIRMED", "CANCEL"} => status'[b] = status[b]]_vars

(* Together the services do what BookingLifecycle promises of a booking.    *)
Outcome(b) ==
  IF \E c \in Calls : target[c] = b /\ stripe[c] = "paid" THEN "paid"
  ELSE IF \E c \in Calls : target[c] = b /\ stripe[c] = "expired" THEN "expired"
  ELSE "open"

Life == INSTANCE BookingLifecycle WITH outcome <- [b \in Bookings |-> Outcome(b)]
LifeSpec == Life!Spec

(* Money taken by Stripe ends in a confirmed booking, through every loss    *)
(* between the webhook and the booking table: the endpoint's silence makes  *)
(* Stripe send the event again.                                             *)
PaidIsConfirmed ==
  \A c \in Calls : stripe[c] = "paid" ~> status[target[c]] = "CONFIRMED"

(* An expired session ends in a cancelled booking, and so in a free seat.   *)
ExpiredIsReleased ==
  \A c \in Calls : stripe[c] = "expired" ~> status[target[c]] = "CANCEL"

(* Every booking is settled, unless something fails: a seat is not taken    *)
(* for ever by a booking that is neither sold nor given back.               *)
EveryBookingSettles ==
  \A b \in Bookings :
    status[b] = "INITIALIZING"
      ~> status[b] \in {"CONFIRMED", "CANCEL"} \/ faults > 0

(* Also when something fails, a PENDING booking settles as soon as there is a *)
(* session for it: one that stays PENDING for ever has lost its payment call  *)
(* between the move to PENDING and the session, where nothing gives it back.  *)
WithoutSession(b) ==
  /\ faults > 0
  /\ \A c \in Calls :
       target[c] = b =>
         /\ stripe[c] = "absent"
         /\ payCall[c] \notin {"counting", "inserting", "checkout"}

StuckOnlyWithoutSession ==
  \A b \in Bookings :
    status[b] = "PENDING"
      ~> status[b] \in {"CONFIRMED", "CANCEL"} \/ WithoutSession(b)

(* Two bookings never hold or own one seat: "booking with showtime_id and   *)
(* seat_id already has status of pending or initializing" and "... of       *)
(* confirmed" are what checkBookingProcessingAndConfirmed answers to the    *)
(* second one.                                                              *)
Active == {"INITIALIZING", "PENDING", "CONFIRMED"}

SeatBookedOnce ==
  \A b, d \in Bookings :
    place[b] = place[d] /\ status[b] \in Active /\ status[d] \in Active => b = d

(* The same of a call that arrives when the seat is already held: no two    *)
(* CreateBooking calls need to overlap.                                     *)
HeldSeatStaysHeld ==
  \A b \in Bookings :
    status[b] \in Active => \A d \in before[b].held : status[d] \notin Active

(* A booking nobody pays for expires, as the setting                        *)
(* expireTimeAfterInitializeBooking says, even when one call fails.         *)
InitializingExpires ==
  \A b \in Bookings : status[b] = "INITIALIZING" ~> status[b] # "INITIALIZING"

(* A cancel call goes on to Stripe only for a booking that was PENDING when *)
(* it asked: otherwise "can not find booking with bookingId with status     *)
(* pending".                                                                *)
CancelNeedsPending ==
  \A k \in Cancels : cancelCall[k] = "expiring" => cancelSaw[k]

---------------------------------------------------------------------------
(* The inductive invariant behind OneTransactionPerBooking,                 *)
(* PayableBookingIsHeld, StatusFollowsMoney, OneCheckoutPage and            *)
(* SoldSeatStaysSold.  A call owns its booking from the moment              *)
(* BookingService has moved the booking to PENDING for it: that move is     *)
(* made at most once per booking and is the only lock there is.             *)

Owns(c) == payCall[c] \in {"counting", "inserting"} \/ pt[c] # "absent"

Settled(c) == stripe[c] \in {"paid", "expired"}

RowInv ==
  \A b \in Bookings :
    call[b] \in {"idle", "counting", "pricing"} => status[b] = "absent"

HistoryInv ==
  \A b \in Bookings :
    /\ \A d \in before[b].sold : status[d] = "CONFIRMED" /\ place[d] = place[b]
    /\ call[b] = "idle" => counts[b] = Unread
    /\ call[b] = "counting" /\ counts[b].confirmed = "none" => before[b].sold = {}
    /\ call[b] \in {"pricing", "enqueue", "done"} => before[b].sold = {}
    /\ status[b] # "absent" => before[b].sold = {}

StepInv ==
  \A c \in Calls :
    /\ payCall[c] \in {"idle", "reading", "marking", "counting", "inserting"}
         => pt[c] = "absent"
    /\ payCall[c] = "checkout" => pt[c] # "absent" /\ stripe[c] = "absent"
    /\ payCall[c] = "storing" => pt[c] # "absent"
    /\ stripe[c] # "absent" => pt[c] # "absent"
    /\ pt[c] = "SUCCESS" => stripe[c] = "paid"
    /\ pt[c] = "CANCEL" => stripe[c] = "expired"

OwnerInv ==
  /\ \A c \in Calls : Owns(c) => status[target[c]] \notin {"absent", "INITIALIZING"}
  /\ \A c, d \in Calls : Owns(c) /\ Owns(d) /\ target[c] = target[d] => c = d

MoneyInv ==
  /\ \A c \in Calls :
       Owns(c) =>
         /\ ~ Settled(c) => status[target[c]] = "PENDING"
         /\ status[target[c]] = "CONFIRMED" => stripe[c] = "paid"
         /\ status[target[c]] = "CANCEL" => stripe[c] = "expired"
  /\ \A b \in Bookings :
       status[b] = "CONFIRMED" =>
         \E c \in Calls : target[c] = b /\ stripe[c] = "paid"

MessageInv ==
  /\ \A h \in hooks : Settled(h.session)
  /\ \A m \in topic \union handling :
       \E c \in Calls :
         target[c] = m.booking /\ Settled(c) /\ OutcomeStatus(c) = m.status

UrlInv ==
  \A c \in Calls :
    /\ url[c] # NoCall => target[url[c]] = target[c] /\ pt[url[c]] # "absent"
    /\ seen[c].transaction # NoCall =>
         target[seen[c].transaction] = target[c] /\ pt[seen[c].transaction] # "absent"

IInv ==
  /\ TypeOK
  /\ RowInv
  /\ HistoryInv
  /\ StepInv
  /\ OwnerInv
  /\ MoneyInv
  /\ MessageInv
  /\ UrlInv
============================================================================
