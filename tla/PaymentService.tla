-------------------------- MODULE PaymentService --------------------------
(***************************************************************************)
(* PaymentService and the two systems only it talks to: Stripe's checkout  *)
(* sessions and the payment_transaction_completed topic.                   *)
(*                                                                         *)
(* A CreatePaymentTransaction call inserts at most one payment transaction *)
(* and opens at most one checkout session, so call c also names both.      *)
(* Webhook requests are a set: Stripe sends an event again until it is     *)
(* answered, the endpoint never answers, and two runs of the handler for   *)
(* one event at one step are indistinguishable.  What BookingService       *)
(* replies is a parameter of the action; failures are bounded by the       *)
(* composing module.                                                       *)
(***************************************************************************)
EXTENDS BookingMessages

CONSTANTS
  Calls,     \* CreatePaymentTransaction calls
  Cancels,   \* CancelPaymentTransaction calls
  NoCall     \* no call: a null transaction, a URL not yet returned

ASSUME NoCallAssumption == NoCall \notin Calls

VARIABLES
  target,      \* the booking a CreatePaymentTransaction call is for
  payCall,     \* where the call is
  seen,        \* what its two first reads have returned
  pt,          \* the transaction's status, "absent" before the insert
  sessionRow,  \* transactions whose checkout session is in the database
  url,         \* whose checkout URL the call has returned
  stripe,      \* the session at Stripe
  cancelCall,  \* where a CancelPaymentTransaction call is
  cancelOf,    \* [booking, found]: its booking, and the transaction it has found
  cancelSaw,   \* history: the booking was PENDING when the call asked
  hooks,       \* webhook requests being handled
  topic        \* completed-payment messages Kafka may still deliver

callVars == <<target, payCall, seen, url>>
cancelVars == <<cancelCall, cancelOf, cancelSaw>>
paymentVars == <<callVars, pt, sessionRow, stripe, cancelVars, hooks, topic>>

CallOrNone == Calls \union {NoCall}
PayStep == {"idle", "reading", "marking", "counting", "inserting",
            "checkout", "storing", "done", "failed"}
CancelStep == {"idle", "finding", "session", "expiring", "done", "failed"}
Hook == [session : Calls, step : {"update", "produce"}]

Unseen == [booking |-> "unread", read |-> FALSE, transaction |-> NoCall]

PaymentTypeOK ==
  /\ target \in [Calls -> Bookings]
  /\ payCall \in [Calls -> PayStep]
  /\ seen \in [Calls -> [booking : {"unread", "null", "found"},
                         read : BOOLEAN, transaction : CallOrNone]]
  /\ pt \in [Calls -> {"absent", "PENDING", "SUCCESS", "CANCEL"}]
  /\ sessionRow \subseteq Calls
  /\ url \in [Calls -> CallOrNone]
  /\ stripe \in [Calls -> {"absent", "open", "paid", "expired"}]
  /\ cancelCall \in [Cancels -> CancelStep]
  /\ cancelOf \in [Cancels -> [booking : Bookings, found : CallOrNone]]
  /\ cancelSaw \in [Cancels -> BOOLEAN]
  /\ hooks \subseteq Hook
  /\ topic \subseteq Message

PaymentInit ==
  /\ target \in [Calls -> Bookings]
  /\ payCall = [c \in Calls |-> "idle"]
  /\ seen = [c \in Calls |-> Unseen]
  /\ pt = [c \in Calls |-> "absent"]
  /\ sessionRow = {}
  /\ url = [c \in Calls |-> NoCall]
  /\ stripe = [c \in Calls |-> "absent"]
  /\ cancelCall = [k \in Cancels |-> "idle"]
  /\ \E of \in [Cancels -> Bookings] :
       cancelOf = [k \in Cancels |-> [booking |-> of[k], found |-> NoCall]]
  /\ cancelSaw = [k \in Cancels |-> FALSE]
  /\ hooks = {}
  /\ topic = {}

(* The transactions of a booking whose status is one of S. *)
Transactions(b, S) == {c \in Calls : target[c] = b /\ pt[c] \in S}

AnyTransaction(b) == Transactions(b, {"PENDING", "SUCCESS", "CANCEL"})

(* The accessors throw when a query for one row returns several. *)
MoreThanOne(rows) == \E c, d \in rows : c # d

PayStepFrom(c, from, to) ==
  /\ payCall[c] = from
  /\ payCall' = [payCall EXCEPT ![c] = to]

(* The call is done with its first two reads. *)
LeaveReading(c, to) ==
  /\ PayStepFrom(c, "reading", to)
  /\ seen' = [seen EXCEPT ![c] = Unseen]

---------------------------------------------------------------------------
(* CreatePaymentTransaction *)

StartCreatePayment(c) ==
  /\ PayStepFrom(c, "idle", "reading")
  /\ UNCHANGED <<target, seen, url, pt, sessionRow, stripe, cancelVars, hooks, topic>>

(* getBookingWithStatus(INITIALIZING) and the query for a PENDING transaction *)
(* are issued together.                                                       *)
ReadInitializingBooking(c, found) ==
  /\ payCall[c] = "reading"
  /\ seen[c].booking = "unread"
  /\ seen' = [seen EXCEPT ![c] =
                [booking |-> IF found THEN "found" ELSE "null",
                 read |-> seen[c].read, transaction |-> seen[c].transaction]]
  /\ UNCHANGED <<target, payCall, url, pt, sessionRow, stripe, cancelVars, hooks, topic>>

ReadPendingTransaction(c) ==
  LET rows == Transactions(target[c], {"PENDING"}) IN
  /\ payCall[c] = "reading"
  /\ ~ seen[c].read
  /\ IF MoreThanOne(rows)
     THEN LeaveReading(c, "failed")
     ELSE /\ \E t \in IF rows = {} THEN {NoCall} ELSE rows :
               seen' = [seen EXCEPT ![c] =
                 [booking |-> seen[c].booking, read |-> TRUE, transaction |-> t]]
          /\ UNCHANGED payCall
  /\ UNCHANGED <<target, url, pt, sessionRow, stripe, cancelVars, hooks, topic>>

BothRead(c) == seen[c].booking # "unread" /\ seen[c].read

(* A repeated call: the session opened before is handed out again. *)
AnswerStoredSession(c) ==
  /\ BothRead(c)
  /\ seen[c].booking = "null"
  /\ seen[c].transaction \in sessionRow
  /\ LeaveReading(c, "done")
  /\ url' = [url EXCEPT ![c] = seen[c].transaction]
  /\ UNCHANGED <<target, pt, sessionRow, stripe, cancelVars, hooks, topic>>

(* NOT_FOUND: no booking to pay for, or a transaction without a session. *)
AnswerNotFound(c) ==
  /\ BothRead(c)
  /\ seen[c].booking = "null"
  /\ seen[c].transaction \notin sessionRow
  /\ LeaveReading(c, "failed")
  /\ UNCHANGED <<target, url, pt, sessionRow, stripe, cancelVars, hooks, topic>>

(* The showtime, the movie, the seat, the screen and the theater are found, *)
(* or one of them is not.                                                   *)
LookUpTicket(c, found) ==
  /\ BothRead(c)
  /\ seen[c].booking = "found"
  /\ LeaveReading(c, IF found THEN "marking" ELSE "failed")
  /\ UNCHANGED <<target, url, pt, sessionRow, stripe, cancelVars, hooks, topic>>

(* Mutant: a refusal is swallowed. *)
MarkBookingPendingAnyway(c, accepted) ==
  /\ PayStepFrom(c, "marking", "counting")
  /\ UNCHANGED <<target, seen, url, pt, sessionRow, stripe, cancelVars, hooks, topic>>

(* BookingService's answer to updateBookingStatusFromInitializingToPending. *)
MarkBookingPending(c, accepted) ==
  /\ PayStepFrom(c, "marking", IF accepted THEN "counting" ELSE "failed")
  /\ UNCHANGED <<target, seen, url, pt, sessionRow, stripe, cancelVars, hooks, topic>>

CountPendingTransactions(c) ==
  /\ PayStepFrom(c, "counting",
       IF Transactions(target[c], {"PENDING"}) = {} THEN "inserting" ELSE "failed")
  /\ UNCHANGED <<target, seen, url, pt, sessionRow, stripe, cancelVars, hooks, topic>>

InsertPaymentTransaction(c) ==
  /\ PayStepFrom(c, "inserting", "checkout")
  /\ pt' = [pt EXCEPT ![c] = "PENDING"]
  /\ UNCHANGED <<target, seen, url, sessionRow, stripe, cancelVars, hooks, topic>>

OpenCheckoutSession(c) ==
  /\ PayStepFrom(c, "checkout", "storing")
  /\ stripe' = [stripe EXCEPT ![c] = "open"]
  /\ UNCHANGED <<target, seen, url, pt, sessionRow, cancelVars, hooks, topic>>

StoreCheckoutSession(c) ==
  /\ PayStepFrom(c, "storing", "done")
  /\ sessionRow' = sessionRow \union {c}
  /\ url' = [url EXCEPT ![c] = c]
  /\ UNCHANGED <<target, seen, pt, stripe, cancelVars, hooks, topic>>

(* The process dies, or a database, a service or Stripe fails the call. *)
CreatePaymentFails(c) ==
  /\ payCall[c] \notin {"idle", "done", "failed"}
  /\ payCall' = [payCall EXCEPT ![c] = "failed"]
  /\ seen' = [seen EXCEPT ![c] = Unseen]
  /\ UNCHANGED <<target, url, pt, sessionRow, stripe, cancelVars, hooks, topic>>

---------------------------------------------------------------------------
(* CancelPaymentTransaction *)

CancelStepFrom(k, from, to) ==
  /\ cancelCall[k] = from
  /\ cancelCall' = [cancelCall EXCEPT ![k] = to]

(* The booking is asked for, and the answer is not awaited: the null test *)
(* looks at the promise and never succeeds.                               *)
StartCancel(k, pending) ==
  /\ CancelStepFrom(k, "idle", "finding")
  /\ cancelSaw' = [cancelSaw EXCEPT ![k] = pending]
  /\ UNCHANGED <<callVars, pt, sessionRow, stripe, cancelOf, hooks, topic>>

FindTransactionToCancel(k) ==
  \E c \in Calls :
    /\ AnyTransaction(cancelOf[k].booking) = {c}
    /\ CancelStepFrom(k, "finding", "session")
    /\ cancelOf' = [cancelOf EXCEPT ![k] =
                      [booking |-> cancelOf[k].booking, found |-> c]]
    /\ UNCHANGED <<callVars, pt, sessionRow, stripe, cancelSaw, hooks, topic>>

FindSessionToCancel(k) ==
  /\ cancelOf[k].found \in sessionRow
  /\ CancelStepFrom(k, "session", "expiring")
  /\ UNCHANGED <<callVars, pt, sessionRow, stripe, cancelOf, cancelSaw, hooks, topic>>

(* Stripe expires an open session and refuses any other. *)
ExpireCheckoutSession(k) ==
  LET c == cancelOf[k].found IN
  /\ CancelStepFrom(k, "expiring", IF stripe[c] = "open" THEN "done" ELSE "failed")
  /\ stripe' = [stripe EXCEPT ![c] = IF @ = "open" THEN "expired" ELSE @]
  /\ UNCHANGED <<callVars, pt, sessionRow, cancelOf, cancelSaw, hooks, topic>>

(* No transaction, more than one, or no session row: the call is refused. *)
RefuseCancel(k) ==
  /\ \/ /\ cancelCall[k] = "finding"
        /\ \/ AnyTransaction(cancelOf[k].booking) = {}
           \/ MoreThanOne(AnyTransaction(cancelOf[k].booking))
     \/ cancelCall[k] = "session" /\ cancelOf[k].found \notin sessionRow
  /\ cancelCall' = [cancelCall EXCEPT ![k] = "failed"]
  /\ UNCHANGED <<callVars, pt, sessionRow, stripe, cancelOf, cancelSaw, hooks, topic>>

CancelFails(k) ==
  /\ cancelCall[k] \in {"finding", "session", "expiring"}
  /\ cancelCall' = [cancelCall EXCEPT ![k] = "failed"]
  /\ UNCHANGED <<callVars, pt, sessionRow, stripe, cancelOf, cancelSaw, hooks, topic>>

---------------------------------------------------------------------------
(* Stripe: a session that is open is paid once or expires, never both, and *)
(* a customer pays through an URL some call has returned.                  *)

CustomerPays(c) ==
  /\ stripe[c] = "open"
  /\ \E d \in Calls : url[d] = c
  /\ stripe' = [stripe EXCEPT ![c] = "paid"]
  /\ UNCHANGED <<callVars, pt, sessionRow, cancelVars, hooks, topic>>

SessionExpires(c) ==
  /\ stripe[c] = "open"
  /\ stripe' = [stripe EXCEPT ![c] = "expired"]
  /\ UNCHANGED <<callVars, pt, sessionRow, cancelVars, hooks, topic>>

---------------------------------------------------------------------------
(* The webhook: onPaymentThirdPartyResponse *)

AtHook(c, step) == [session |-> c, step |-> step]

ReceiveEvent(c) ==
  /\ stripe[c] \in {"paid", "expired"}
  /\ hooks' = hooks \union {AtHook(c, "update")}
  /\ UNCHANGED <<callVars, pt, sessionRow, stripe, cancelVars, topic>>

(* Mutant: every completed session counts as paid. *)
OutcomeAlwaysSuccess(c) == "SUCCESS"

OutcomeStatus(c) == IF stripe[c] = "expired" THEN "CANCEL" ELSE "SUCCESS"

(* Mutant: an event already recorded is taken for done. *)
UpdatePendingTransactionOnly(c) ==
  /\ AtHook(c, "update") \in hooks
  /\ pt[c] = "PENDING"
  /\ pt' = [pt EXCEPT ![c] = OutcomeStatus(c)]
  /\ hooks' = (hooks \ {AtHook(c, "update")}) \union {AtHook(c, "produce")}
  /\ UNCHANGED <<callVars, sessionRow, stripe, cancelVars, topic>>

(* The row is read and its status overwritten, whatever it was: the read adds *)
(* only the row's booking, which never changes.                               *)
UpdateTransactionStatus(c) ==
  /\ AtHook(c, "update") \in hooks
  /\ pt[c] # "absent"
  /\ pt' = [pt EXCEPT ![c] = OutcomeStatus(c)]
  /\ hooks' = (hooks \ {AtHook(c, "update")}) \union {AtHook(c, "produce")}
  /\ UNCHANGED <<callVars, sessionRow, stripe, cancelVars, topic>>

(* Mutant: only a success is told to BookingService. *)
ProduceSuccessOnly(c) ==
  /\ AtHook(c, "produce") \in hooks
  /\ hooks' = hooks \ {AtHook(c, "produce")}
  /\ topic' = IF OutcomeStatus(c) = "SUCCESS"
              THEN topic \union {[booking |-> target[c], status |-> "SUCCESS"]}
              ELSE topic
  /\ UNCHANGED <<callVars, pt, sessionRow, stripe, cancelVars>>

ProduceCompletedMessage(c) ==
  /\ AtHook(c, "produce") \in hooks
  /\ hooks' = hooks \ {AtHook(c, "produce")}
  /\ topic' = topic \union {[booking |-> target[c], status |-> OutcomeStatus(c)]}
  /\ UNCHANGED <<callVars, pt, sessionRow, stripe, cancelVars>>

(* The request is lost: the process dies, or the database or Kafka fails it. *)
WebhookFails(h) ==
  /\ h \in hooks
  /\ hooks' = hooks \ {h}
  /\ UNCHANGED <<callVars, pt, sessionRow, stripe, cancelVars, topic>>

---------------------------------------------------------------------------
(* The topic: kafkajs commits an offset once eachMessage has returned, which *)
(* is before the handler has run; a message not yet committed comes again.   *)

Deliver(m, committed) ==
  /\ m \in topic
  /\ topic' = IF committed THEN topic \ {m} ELSE topic
  /\ UNCHANGED <<callVars, pt, sessionRow, stripe, cancelVars, hooks>>
============================================================================
