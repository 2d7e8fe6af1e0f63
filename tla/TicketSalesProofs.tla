------------------------- MODULE TicketSalesProofs -------------------------
(***************************************************************************)
(* TicketSales, for every set of bookings, places, calls and cancels and   *)
(* every bound: its types; its inductive invariant and the properties it   *)
(* implies; and that it implements BookingLifecycle.  One lemma per group  *)
(* of steps; in each, one step per action, and under it one per part of    *)
(* the invariant the action can disturb.                                   *)
(***************************************************************************)
EXTENDS TicketSales, TLAPS

---------------------------------------------------------------------------
(* Types *)

(* Every table starts empty and every call idle. *)
LEMMA TypeInitially == Init => TypeOK
  BY AttemptsAssumption, MaxFaultsAssumption
  DEF Init, TypeOK, BookingInit, BookingTypeOK, PaymentInit, PaymentTypeOK,
      Unread, Unseen, CreateStep, BookingStatus, Count, PayStep, CallOrNone,
      CancelStep, Hook, Message

(* No step of either service, of Stripe or of Kafka leaves the types. *)
LEMMA TypePreserved == TypeOK /\ [Next]_vars => TypeOK'
<1> USE AttemptsAssumption, TimeAssumption, NoCallAssumption, MaxFaultsAssumption
<1> SUFFICES ASSUME TypeOK, [Next]_vars PROVE TypeOK'
  OBVIOUS
<1> USE DEF TypeOK, BookingTypeOK, PaymentTypeOK, CreateStep, BookingStatus,
            Count, CallOrNone, PayStep, CancelStep, Hook, CompletedStatus,
            AtStep, GoTo, DropCounts, Unread, Unseen, PayStepFrom,
            LeaveReading, CancelStepFrom, AtHook, paymentVars, bookingVars,
            callVars, cancelVars
<1>1. ASSUME NEW b \in Bookings, BookingStep(b) PROVE TypeOK'
  <2>1. CASE StartCreateBooking(b)
    BY <1>1, <2>1 DEF BookingStep, StartCreateBooking, Rows
  <2>2. CASE ReadProcessingCount(b)
    BY <1>1, <2>2 DEF BookingStep, ReadProcessingCount, CountOf
  <2>3. CASE ReadConfirmedCount(b)
    BY <1>1, <2>3 DEF BookingStep, ReadConfirmedCount, CountOf
  <2>4. CASE AcceptRequestTime(b)
    BY <1>1, <2>4 DEF BookingStep, AcceptRequestTime
  <2>5. CASE RejectBooking(b) BY <1>1, <2>5 DEF BookingStep, RejectBooking
  <2>6. CASE InsertBooking(b) BY <1>1, <2>6 DEF BookingStep, InsertBooking
  <2>7. CASE AddCheckJob(b) BY <1>1, <2>7 DEF BookingStep, AddCheckJob
  <2>8. CASE CheckBookingStatusAfterInitialize(b, TRUE)
    BY <1>1, <2>8 DEF BookingStep, CheckBookingStatusAfterInitialize
  <2>9. QED
    BY <1>1, <2>1, <2>2, <2>3, <2>4, <2>5, <2>6, <2>7, <2>8
    DEF BookingStep, CreateBookingStep
<1>2. CASE TimeStep BY <1>2 DEF TimeStep, Tick
<1>3. ASSUME NEW c \in Calls, PaymentStep(c) PROVE TypeOK'
  <2>1. CASE StartCreatePayment(c)
    BY <1>3, <2>1 DEF PaymentStep, StartCreatePayment
  <2>2. CASE ReadPendingTransaction(c)
    <3>1. CASE MoreThanOne(Transactions(target[c], {"PENDING"}))
      <4>1. LeaveReading(c, "failed")
        BY <2>2, <3>1 DEF ReadPendingTransaction
      <4>2. QED
        BY <1>3, <2>2, <4>1 DEF PaymentStep, ReadPendingTransaction
    <3>2. CASE ~ MoreThanOne(Transactions(target[c], {"PENDING"}))
      <4> DEFINE rows == Transactions(target[c], {"PENDING"})
      <4>1. PICK t \in IF rows = {} THEN {NoCall} ELSE rows :
              seen' = [seen EXCEPT ![c] =
                [booking |-> seen[c].booking, read |-> TRUE, transaction |-> t]]
        BY <2>2, <3>2 DEF ReadPendingTransaction
      <4>2. t \in CallOrNone
        BY DEF Transactions
      <4>3. PaymentTypeOK'
        BY <1>3, <2>2, <3>2, <4>1, <4>2 DEF PaymentStep, ReadPendingTransaction
      <4>4. QED
        BY <1>3, <4>3 DEF PaymentStep
    <3>3. QED BY <3>1, <3>2
  <2>3. CASE AnswerStoredSession(c)
    BY <1>3, <2>3 DEF PaymentStep, AnswerStoredSession
  <2>4. CASE AnswerNotFound(c) BY <1>3, <2>4 DEF PaymentStep, AnswerNotFound
  <2>5. ASSUME NEW found \in BOOLEAN, LookUpTicket(c, found) PROVE TypeOK'
    BY <1>3, <2>5 DEF PaymentStep, LookUpTicket
  <2>6. CASE CountPendingTransactions(c)
    BY <1>3, <2>6 DEF PaymentStep, CountPendingTransactions
  <2>7. CASE InsertPaymentTransaction(c)
    BY <1>3, <2>7 DEF PaymentStep, InsertPaymentTransaction
  <2>8. CASE OpenCheckoutSession(c)
    BY <1>3, <2>8 DEF PaymentStep, OpenCheckoutSession
  <2>9. CASE StoreCheckoutSession(c)
    BY <1>3, <2>9 DEF PaymentStep, StoreCheckoutSession
  <2>10. CASE CustomerPays(c) BY <1>3, <2>10 DEF PaymentStep, CustomerPays
  <2>11. CASE SessionExpires(c) BY <1>3, <2>11 DEF PaymentStep, SessionExpires
  <2>12. CASE ReceiveEvent(c) BY <1>3, <2>12 DEF PaymentStep, ReceiveEvent
  <2>13. CASE UpdateTransactionStatus(c)
    BY <1>3, <2>13 DEF PaymentStep, UpdateTransactionStatus, OutcomeStatus
  <2>14. CASE ProduceCompletedMessage(c)
    BY <1>3, <2>14
    DEF PaymentStep, ProduceCompletedMessage, OutcomeStatus, Message
  <2>15. QED
    BY <1>3, <2>1, <2>2, <2>3, <2>4, <2>5, <2>6, <2>7, <2>8, <2>9, <2>10, <2>11, <2>12, <2>13, <2>14
            DEF PaymentStep, CreatePaymentStep, WebhookStep
<1>4. ASSUME NEW k \in Cancels, CancelCallStep(k) PROVE TypeOK'
  <2>1. CASE StartCancel(k, status[cancelOf[k].booking] = "PENDING")
    BY <1>4, <2>1 DEF CancelCallStep, StartCancel
  <2>2. CASE FindTransactionToCancel(k)
    BY <1>4, <2>2 DEF CancelCallStep, FindTransactionToCancel
  <2>3. CASE FindSessionToCancel(k)
    BY <1>4, <2>3 DEF CancelCallStep, FindSessionToCancel
  <2>4. CASE ExpireCheckoutSession(k)
    BY <1>4, <2>4 DEF CancelCallStep, ExpireCheckoutSession
  <2>5. CASE RefuseCancel(k) BY <1>4, <2>5 DEF CancelCallStep, RefuseCancel
  <2>6. QED
    BY <1>4, <2>1, <2>2, <2>3, <2>4, <2>5 DEF CancelCallStep, CancelPaymentStep
<1>5. ASSUME NEW c \in Calls, AskForBooking(c) PROVE TypeOK'
  BY <1>5 DEF AskForBooking, ReadInitializingBooking
<1>6. ASSUME NEW c \in Calls, AskToMarkPending(c) PROVE TypeOK'
  <2>1. CASE /\ MarkBookingPending(c, TRUE)
             /\ UpdateBookingStatusFromInitializingToPending(target[c])
    <3>1. PaymentTypeOK'
      BY <2>1 DEF MarkBookingPending
    <3>2. BookingTypeOK'
      BY <2>1 DEF UpdateBookingStatusFromInitializingToPending
    <3>3. QED BY <1>6, <3>1, <3>2 DEF AskToMarkPending
  <2>2. CASE MarkBookingPending(c, FALSE) /\ UNCHANGED bookingVars
    BY <1>6, <2>2 DEF AskToMarkPending, MarkBookingPending
  <2>3. QED BY <1>6, <2>1, <2>2 DEF AskToMarkPending
<1>7. ASSUME NEW m \in Message, DeliverMessage(m) PROVE TypeOK'
  BY <1>7 DEF DeliverMessage, Deliver, StartHandler
<1>8. ASSUME NEW m \in Message, HandleMessage(m) PROVE TypeOK'
  <2>1. m.booking \in Bookings
    BY DEF Message
  <2>2. status[m.booking] \in BookingStatus \union {"absent"}
    BY <2>1
  <2>3. StatusAfterPayment(status[m.booking], m.status)
          \in BookingStatus \union {"absent"}
    BY <2>2 DEF StatusAfterPayment
  <2>4. status' \in [Bookings -> BookingStatus \union {"absent"}]
    BY <1>8, <2>1, <2>3
    DEF HandleMessage, UpdateBookingStatusAfterPaymentTransactionCompleted
  <2>5. QED
    BY <1>8, <2>4
    DEF HandleMessage, UpdateBookingStatusAfterPaymentTransactionCompleted
<1>9. CASE Fault
  <2>1. ASSUME NEW b \in Bookings, CreateBookingFails(b) PROVE BookingTypeOK'
    BY <2>1 DEF CreateBookingFails
  <2>2. ASSUME NEW b \in Bookings, CheckJobFails(b) PROVE BookingTypeOK'
    BY <2>2 DEF CheckJobFails
  <2>3. ASSUME NEW b \in Bookings, CheckBookingStatusAfterInitialize(b, FALSE) PROVE BookingTypeOK'
    BY <2>3 DEF CheckBookingStatusAfterInitialize
  <2>4. ASSUME NEW m \in Message, HandlerFails(m) PROVE BookingTypeOK'
    BY <2>4 DEF HandlerFails
  <2>5. ASSUME NEW c \in Calls, CreatePaymentFails(c) PROVE PaymentTypeOK'
    BY <2>5 DEF CreatePaymentFails
  <2>6. ASSUME NEW k \in Cancels, CancelFails(k) PROVE PaymentTypeOK'
    BY <2>6 DEF CancelFails
  <2>7. ASSUME NEW h \in Hook, WebhookFails(h) PROVE PaymentTypeOK'
    BY <2>7 DEF WebhookFails
  <2>8. (faults \in 0 .. MaxFaults)'
    BY <1>9, MaxFaultsAssumption DEF Fault
  <2>9. CASE BookingFault
    <3>1. BookingTypeOK'
      BY <2>9, <2>1, <2>2, <2>3, <2>4 DEF BookingFault
    <3>2. PaymentTypeOK'
      BY <2>9 DEF BookingFault
    <3>3. QED BY <3>1, <3>2, <2>8
  <2>10. CASE PaymentFault
    <3>1. PaymentTypeOK'
      BY <2>10, <2>5, <2>6, <2>7 DEF PaymentFault
    <3>2. BookingTypeOK'
      BY <2>10 DEF PaymentFault
    <3>3. QED BY <3>1, <3>2, <2>8
  <2>11. QED BY <1>9, <2>9, <2>10 DEF Fault
<1>10. CASE UNCHANGED vars BY <1>10 DEF vars
<1>11. QED
  BY <1>1, <1>2, <1>3, <1>4, <1>5, <1>6, <1>7, <1>8, <1>9, <1>10 DEF Next

(* Every variable keeps its type: a row's status is one of its enum's, a     *)
(* call is at one of its steps, a job never has a negative number of runs.   *)
THEOREM TypeCorrect == Spec => []TypeOK
  BY TypeInitially, TypePreserved, PTL DEF Spec

---------------------------------------------------------------------------
(* The inductive invariant *)

Parts ==
  RowInv /\ HistoryInv /\ StepInv /\ OwnerInv /\ MoneyInv /\ MessageInv /\ UrlInv

(* A part is preserved when nothing it speaks of changes. *)
LEMMA Frames ==
  ASSUME IInv, place' = place, target' = target
  PROVE  /\ status' = status /\ call' = call => RowInv'
         /\ status' = status /\ call' = call /\ counts' = counts /\ before' = before
              => HistoryInv'
         /\ payCall' = payCall /\ pt' = pt /\ stripe' = stripe => StepInv'
         /\ payCall' = payCall /\ pt' = pt /\ status' = status => OwnerInv'
         /\ payCall' = payCall /\ pt' = pt /\ status' = status /\ stripe' = stripe
              => MoneyInv'
         /\ hooks' = hooks /\ topic' = topic /\ handling' = handling /\ stripe' = stripe
              => MessageInv'
         /\ url' = url /\ seen' = seen /\ pt' = pt => UrlInv'
<1>1. status' = status /\ call' = call => RowInv'
  BY DEF IInv, RowInv
<1>2. status' = status /\ call' = call /\ counts' = counts /\ before' = before
        => HistoryInv'
  BY DEF IInv, HistoryInv
<1>3. payCall' = payCall /\ pt' = pt /\ stripe' = stripe => StepInv'
  BY DEF IInv, StepInv
<1>4. payCall' = payCall /\ pt' = pt /\ status' = status => OwnerInv'
  BY DEF IInv, OwnerInv, Owns
<1>5. payCall' = payCall /\ pt' = pt /\ status' = status /\ stripe' = stripe
        => MoneyInv'
  BY DEF IInv, MoneyInv, Owns, Settled
<1>6. hooks' = hooks /\ topic' = topic /\ handling' = handling /\ stripe' = stripe
        => MessageInv'
  BY DEF IInv, MessageInv, Settled, OutcomeStatus
<1>7. url' = url /\ seen' = seen /\ pt' = pt => UrlInv'
  BY DEF IInv, UrlInv
<1>8. QED
  BY <1>1, <1>2, <1>3, <1>4, <1>5, <1>6, <1>7

(* The types the proofs below rely on. *)
LEMMA Types ==
  ASSUME TypeOK
  PROVE  /\ status \in [Bookings -> {"absent", "INITIALIZING", "PENDING",
                                     "CONFIRMED", "CANCEL"}]
         /\ DOMAIN call = Bookings
         /\ DOMAIN counts = Bookings
         /\ DOMAIN before = Bookings
         /\ \A b \in Bookings : before[b].sold \in SUBSET Bookings
         /\ target \in [Calls -> Bookings]
         /\ DOMAIN payCall = Calls
         /\ DOMAIN seen = Calls
         /\ \A c \in Calls : seen[c].transaction \in Calls \union {NoCall}
         /\ pt \in [Calls -> {"absent", "PENDING", "SUCCESS", "CANCEL"}]
         /\ url \in [Calls -> Calls \union {NoCall}]
         /\ sessionRow \subseteq Calls
         /\ stripe \in [Calls -> {"absent", "open", "paid", "expired"}]
         /\ \A k \in Cancels : cancelOf[k].found \in Calls \union {NoCall}
         /\ \A h \in hooks : h.session \in Calls
         /\ \A m \in topic \union handling : m.booking \in Bookings
BY DEF TypeOK, BookingTypeOK, PaymentTypeOK, BookingStatus, CallOrNone, Hook, Message

(* Nothing has happened yet. *)
LEMMA InvInitially == Init => IInv
<1> SUFFICES ASSUME Init PROVE IInv
  OBVIOUS
<1> USE DEF Init, BookingInit, PaymentInit
<1>1. TypeOK
  BY TypeInitially
<1>2. RowInv
  BY DEF RowInv
<1>3. HistoryInv
  BY DEF HistoryInv
<1>4. StepInv
  BY DEF StepInv
<1>5. OwnerInv
  BY DEF OwnerInv, Owns
<1>6. MoneyInv
  BY DEF MoneyInv, Owns
<1>7. MessageInv
  BY DEF MessageInv
<1>8. UrlInv
  BY DEF UrlInv, Unseen
<1>9. QED
  BY <1>1, <1>2, <1>3, <1>4, <1>5, <1>6, <1>7, <1>8 DEF IInv

(* What a step may do to the statuses without disturbing what was sold        *)
(* before, who owns a booking and what the money says: it moves a booking     *)
(* nobody has started to pay for, and never to CONFIRMED.                     *)
LEMMA UnownedMove ==
  ASSUME IInv, NEW b \in Bookings, NEW s \in BookingStatus,
         status[b] \in {"absent", "INITIALIZING"}, s # "CONFIRMED",
         status' = [status EXCEPT ![b] = s],
         target' = target, payCall' = payCall, pt' = pt, stripe' = stripe
  PROVE  OwnerInv' /\ MoneyInv'
<1>1. status \in [Bookings -> {"absent", "INITIALIZING", "PENDING",
                               "CONFIRMED", "CANCEL"}]
      /\ target \in [Calls -> Bookings]
  BY Types DEF IInv
<1>2. \A c \in Calls : Owns(c) => target[c] # b
  BY DEF IInv, OwnerInv
<1>3. OwnerInv'
  BY <1>1, <1>2 DEF IInv, OwnerInv, Owns
<1>4. \A c \in Calls : Owns(c) => status'[target[c]] = status[target[c]]
  BY <1>1, <1>2
<1>5. \A a \in Bookings : status'[a] = "CONFIRMED" => status[a] = "CONFIRMED"
  BY <1>1
<1>6. MoneyInv'
  BY <1>4, <1>5 DEF IInv, MoneyInv, Owns, Settled
<1>7. QED
  BY <1>3, <1>6

(* The job gives a booking up only while it is INITIALIZING. *)
LEMMA CheckJobInv ==
  ASSUME IInv, TypeOK', NEW b \in Bookings, NEW acknowledged \in BOOLEAN,
         CheckBookingStatusAfterInitialize(b, acknowledged), UNCHANGED paymentVars
  PROVE  IInv'
<1> USE DEF CheckBookingStatusAfterInitialize, paymentVars, callVars
<1>1. CASE status[b] = "INITIALIZING"
  <2>1. status' = [status EXCEPT ![b] = "CANCEL"]
    BY <1>1
  <2>2. OwnerInv' /\ MoneyInv'
    BY <1>1, <2>1, UnownedMove DEF BookingStatus
  <2>3. RowInv'
    BY <1>1, <2>1, Types DEF IInv, RowInv
  <2>4. HistoryInv'
    BY <1>1, <2>1, Types DEF IInv, HistoryInv
  <2>5. QED
    BY <2>2, <2>3, <2>4, Frames DEF IInv
<1>2. CASE status[b] # "INITIALIZING"
  <2>1. status' = status
    BY <1>2, Types DEF IInv
  <2>2. QED
    BY <2>1, Frames DEF IInv
<1>3. QED
  BY <1>1, <1>2

(* BookingService's own steps. *)
LEMMA BookingStepInv ==
  ASSUME IInv, TypeOK', NEW b \in Bookings, BookingStep(b)
  PROVE  IInv'
<1> USE DEF AtStep, GoTo, DropCounts, paymentVars, callVars
<1>1. UNCHANGED paymentVars
  BY DEF BookingStep
<1>2. CASE StartCreateBooking(b)
  <2> USE DEF StartCreateBooking
  <2>1. RowInv'
    BY <1>2, Types DEF IInv, RowInv
  <2>2. HistoryInv'
    BY <1>2, Types DEF IInv, HistoryInv, RowInv, Rows, Unread
  <2>3. QED
    BY <1>1, <1>2, <2>1, <2>2, Frames DEF IInv
<1>3. CASE ReadProcessingCount(b)
  <2> USE DEF ReadProcessingCount
  <2>1. HistoryInv'
    BY <1>3, Types DEF IInv, HistoryInv, Unread
  <2>2. QED
    BY <1>1, <1>3, <2>1, Frames DEF IInv
<1>4. CASE ReadConfirmedCount(b)
  <2> USE DEF ReadConfirmedCount
  <2>1. CountOf(place[b], {"CONFIRMED"}) = "none" => before[b].sold = {}
    BY Types DEF IInv, HistoryInv, CountOf, Rows
  <2>2. HistoryInv'
    BY <1>4, <2>1, Types DEF IInv, HistoryInv
  <2>3. QED
    BY <1>1, <1>4, <2>2, Frames DEF IInv
<1>5. CASE AcceptRequestTime(b)
  <2> USE DEF AcceptRequestTime, SeatLooksFree
  <2>1. RowInv'
    BY <1>5, Types DEF IInv, RowInv
  <2>2. HistoryInv'
    BY <1>5, Types DEF IInv, HistoryInv
  <2>3. QED
    BY <1>1, <1>5, <2>1, <2>2, Frames DEF IInv
<1>6. CASE RejectBooking(b)
  <2> USE DEF RejectBooking
  <2>1. RowInv'
    BY <1>6, Types DEF IInv, RowInv
  <2>2. HistoryInv'
    BY <1>6, Types DEF IInv, HistoryInv
  <2>3. QED
    BY <1>1, <1>6, <2>1, <2>2, Frames DEF IInv
<1>7. CASE InsertBooking(b)
  <2> USE DEF InsertBooking
  <2>1. status[b] = "absent"
    BY <1>7 DEF IInv, RowInv
  <2>2. OwnerInv' /\ MoneyInv'
    BY <1>1, <1>7, <2>1, UnownedMove DEF BookingStatus
  <2>3. RowInv'
    BY <1>7, Types DEF IInv, RowInv
  <2>4. HistoryInv'
    BY <1>7, <2>1, Types DEF IInv, HistoryInv
  <2>5. QED
    BY <1>1, <1>7, <2>2, <2>3, <2>4, Frames DEF IInv
<1>8. CASE AddCheckJob(b)
  <2> USE DEF AddCheckJob
  <2>1. RowInv'
    BY <1>8, Types DEF IInv, RowInv
  <2>2. HistoryInv'
    BY <1>8, Types DEF IInv, HistoryInv
  <2>3. QED
    BY <1>1, <1>8, <2>1, <2>2, Frames DEF IInv
<1>9. CASE CheckBookingStatusAfterInitialize(b, TRUE)
  BY <1>1, <1>9, CheckJobInv
<1>10. QED
  BY <1>2, <1>3, <1>4, <1>5, <1>6, <1>7, <1>8, <1>9 DEF BookingStep, CreateBookingStep

(* A step that moves a call on without owning, paying or answering anything. *)
LEMMA PlainCallStep ==
  ASSUME IInv, TypeOK', NEW c \in Calls, UNCHANGED bookingVars,
         NEW to \in {"reading", "marking", "done", "failed"},
         payCall' = [payCall EXCEPT ![c] = to],
         target' = target, pt' = pt, stripe' = stripe,
         hooks' = hooks, topic' = topic,
         ~ Owns(c) \/ pt[c] # "absent",
         to \in {"reading", "marking"} => pt[c] = "absent",
         UrlInv'
  PROVE  IInv'
<1> USE DEF bookingVars
<1>1. StepInv'
  BY Types DEF IInv, StepInv
<1>2. \A d \in Calls : Owns(d)' => Owns(d)
  BY Types DEF IInv, Owns
<1>3. OwnerInv'
  BY <1>2 DEF IInv, OwnerInv
<1>4. MoneyInv'
  BY <1>2 DEF IInv, MoneyInv, Settled
<1>5. QED
  BY <1>1, <1>3, <1>4, Frames DEF IInv

(* The steps of CreatePaymentTransaction inside PaymentService. *)
LEMMA CreatePaymentInv ==
  ASSUME IInv, TypeOK', NEW c \in Calls, UNCHANGED bookingVars,
         StartCreatePayment(c) \/ CreatePaymentStep(c)
  PROVE  IInv'
<1> USE DEF PayStepFrom, LeaveReading, cancelVars
<1>0. UNCHANGED <<status, place, call, counts, before, handling>>
  BY DEF bookingVars
<1>1. CASE StartCreatePayment(c)
  <2> USE DEF StartCreatePayment
  <2>1. UrlInv'
    BY <1>1 DEF IInv, UrlInv
  <2>2. pt[c] = "absent" /\ ~ Owns(c)
    BY <1>1 DEF IInv, StepInv, Owns
  <2>3. QED
    BY <1>1, <2>1, <2>2, PlainCallStep
<1>2. CASE ReadPendingTransaction(c)
  <2> DEFINE rows == Transactions(target[c], {"PENDING"})
  <2>1. pt[c] = "absent" /\ ~ Owns(c)
    BY <1>2 DEF ReadPendingTransaction, IInv, StepInv, Owns
  <2>2. CASE MoreThanOne(rows)
    <3>1. LeaveReading(c, "failed")
      BY <1>2, <2>2 DEF ReadPendingTransaction
    <3>2. UrlInv'
      BY <1>2, <3>1, Types DEF ReadPendingTransaction, IInv, UrlInv, Unseen
    <3>3. QED
      BY <1>2, <2>1, <3>1, <3>2, PlainCallStep DEF ReadPendingTransaction
  <2>3. CASE ~ MoreThanOne(rows)
    <3>1. PICK t \in IF rows = {} THEN {NoCall} ELSE rows :
            seen' = [seen EXCEPT ![c] =
              [booking |-> seen[c].booking, read |-> TRUE, transaction |-> t]]
      BY <1>2, <2>3 DEF ReadPendingTransaction
    <3>2. t # NoCall => target[t] = target[c] /\ pt[t] # "absent"
      BY DEF Transactions
    <3>3. UrlInv'
      BY <1>2, <3>1, <3>2, Types DEF ReadPendingTransaction, IInv, UrlInv
    <3>4. payCall' = payCall
      BY <1>2, <2>3 DEF ReadPendingTransaction
    <3>5. QED
      BY <1>0, <1>2, <3>3, <3>4, Frames DEF ReadPendingTransaction, IInv
  <2>4. QED
    BY <2>2, <2>3
<1>3. CASE AnswerStoredSession(c)
  <2> USE DEF AnswerStoredSession
  <2>1. seen[c].transaction \in Calls /\ seen[c].transaction # NoCall
    BY <1>3, Types, NoCallAssumption DEF IInv
  <2>2. UrlInv'
    BY <1>3, <2>1, Types DEF IInv, UrlInv, Unseen
  <2>3. pt[c] = "absent" /\ ~ Owns(c)
    BY <1>3 DEF IInv, StepInv, Owns
  <2>4. QED
    BY <1>3, <2>2, <2>3, PlainCallStep
<1>4. CASE AnswerNotFound(c)
  <2> USE DEF AnswerNotFound
  <2>1. UrlInv'
    BY <1>4, Types DEF IInv, UrlInv, Unseen
  <2>2. pt[c] = "absent" /\ ~ Owns(c)
    BY <1>4 DEF IInv, StepInv, Owns
  <2>3. QED
    BY <1>4, <2>1, <2>2, PlainCallStep
<1>5. ASSUME NEW found \in BOOLEAN, LookUpTicket(c, found) PROVE IInv'
  <2> USE DEF LookUpTicket
  <2>1. UrlInv'
    BY <1>5, Types DEF IInv, UrlInv, Unseen
  <2>2. pt[c] = "absent" /\ ~ Owns(c)
    BY <1>5 DEF IInv, StepInv, Owns
  <2>3. QED
    BY <1>5, <2>1, <2>2, PlainCallStep
<1>6. CASE CountPendingTransactions(c)
  <2> USE DEF CountPendingTransactions
  <2>1. PICK to \in {"inserting", "failed"} : payCall' = [payCall EXCEPT ![c] = to]
    BY <1>6
  <2>2. StepInv'
    BY <1>6, <2>1, Types DEF IInv, StepInv
  <2>3. \A d \in Calls : Owns(d)' => Owns(d)
    BY <1>6, <2>1, Types DEF IInv, Owns
  <2>4. OwnerInv' /\ MoneyInv'
    BY <1>0, <1>6, <2>3 DEF IInv, OwnerInv, MoneyInv, Settled
  <2>5. QED
    BY <1>0, <1>6, <2>2, <2>4, Frames DEF IInv
<1>7. CASE InsertPaymentTransaction(c)
  <2> USE DEF InsertPaymentTransaction
  <2>1. pt[c] = "absent" /\ stripe[c] = "absent"
    BY <1>7, Types DEF IInv, StepInv
  <2>2. StepInv'
    BY <1>7, <2>1, Types DEF IInv, StepInv
  <2>3. \A d \in Calls : Owns(d)' => Owns(d)
    BY <1>7, Types DEF IInv, Owns
  <2>4. OwnerInv' /\ MoneyInv'
    BY <1>0, <1>7, <2>3 DEF IInv, OwnerInv, MoneyInv, Settled
  <2>5. UrlInv'
    BY <1>7, <2>1, Types DEF IInv, UrlInv
  <2>6. QED
    BY <1>0, <1>7, <2>2, <2>4, <2>5, Frames DEF IInv
<1>8. CASE OpenCheckoutSession(c)
  <2> USE DEF OpenCheckoutSession
  <2>1. pt[c] # "absent" /\ stripe[c] = "absent" /\ Owns(c)
    BY <1>8 DEF IInv, StepInv, Owns
  <2>2. StepInv'
    BY <1>8, <2>1, Types DEF IInv, StepInv
  <2>3. \A d \in Calls : Owns(d)' <=> Owns(d)
    BY <1>8, <2>1, Types DEF IInv, Owns
  <2>4. \A d \in Calls : stripe'[d] = stripe[d] \/ d = c
    BY <1>8, Types DEF IInv
  <2>5. OwnerInv' /\ MoneyInv'
    <3>1. OwnerInv'
      BY <1>0, <1>8, <2>3 DEF IInv, OwnerInv
    <3>2. status[target[c]] = "PENDING"
      BY <2>1 DEF IInv, MoneyInv, Settled
    <3>3. \A b \in Bookings : status[b] = "CONFIRMED" =>
            \E d \in Calls : target[d] = b /\ stripe'[d] = "paid"
      BY <2>1, <2>4 DEF IInv, MoneyInv
    <3>4. MoneyInv'
      <4>1. ASSUME NEW d \in Calls, Owns(d)
            PROVE  /\ ~ Settled(d)' => status[target[d]] = "PENDING"
                   /\ status[target[d]] = "CONFIRMED" => stripe'[d] = "paid"
                   /\ status[target[d]] = "CANCEL" => stripe'[d] = "expired"
        <5>1. CASE d = c
          BY <3>2, <5>1
        <5>2. CASE d # c
          BY <2>4, <4>1, <5>2 DEF IInv, MoneyInv, Settled
        <5>3. QED
          BY <5>1, <5>2
      <4>2. QED
        BY <1>0, <1>8, <2>3, <3>3, <4>1 DEF MoneyInv
    <3>5. QED
      BY <3>1, <3>4
  <2>6. MessageInv'
    BY <1>0, <1>8, <2>1, <2>4, Types DEF IInv, MessageInv, Settled, OutcomeStatus
  <2>7. QED
    BY <1>0, <1>8, <2>2, <2>5, <2>6, Frames DEF IInv
<1>9. CASE StoreCheckoutSession(c)
  <2> USE DEF StoreCheckoutSession
  <2>1. pt[c] # "absent"
    BY <1>9 DEF IInv, StepInv
  <2>2. UrlInv'
    BY <1>9, <2>1, Types DEF IInv, UrlInv
  <2>3. QED
    BY <1>9, <2>1, <2>2, PlainCallStep
<1>10. QED
  BY <1>1, <1>2, <1>3, <1>4, <1>5, <1>6, <1>7, <1>8, <1>9 DEF CreatePaymentStep

(* A session is paid or expires while its booking is PENDING. *)
LEMMA SessionSettles ==
  ASSUME IInv, TypeOK', NEW c \in Calls, NEW o \in {"paid", "expired"},
         UNCHANGED bookingVars, UNCHANGED callVars, pt' = pt, hooks' = hooks,
         topic' = topic, stripe[c] = "open", stripe' = [stripe EXCEPT ![c] = o]
  PROVE  IInv'
<1> USE DEF bookingVars, callVars
<1>1. pt[c] = "PENDING" /\ Owns(c) /\ ~ Settled(c)
  BY Types DEF IInv, StepInv, Owns, Settled
<1>2. stripe'[c] = o /\ \A d \in Calls : d # c => stripe'[d] = stripe[d]
  BY Types DEF IInv
<1>3. StepInv'
  BY <1>1, <1>2 DEF IInv, StepInv
<1>4. OwnerInv'
  BY Frames DEF IInv
<1>5. MoneyInv'
  <2>1. status[target[c]] = "PENDING"
    BY <1>1 DEF IInv, MoneyInv
  <2>2. \A d \in Calls : Owns(d)' <=> Owns(d)
    BY DEF Owns
  <2>3. ASSUME NEW d \in Calls, Owns(d)
        PROVE  /\ ~ Settled(d)' => status[target[d]] = "PENDING"
               /\ status[target[d]] = "CONFIRMED" => stripe'[d] = "paid"
               /\ status[target[d]] = "CANCEL" => stripe'[d] = "expired"
    <3>1. CASE d = c
      BY <2>1, <3>1
    <3>2. CASE d # c
      BY <1>2, <2>3, <3>2 DEF IInv, MoneyInv, Settled
    <3>3. QED
      BY <3>1, <3>2
  <2>4. \A b \in Bookings : status[b] = "CONFIRMED" =>
          \E d \in Calls : target[d] = b /\ stripe'[d] = "paid"
    BY <1>2 DEF IInv, MoneyInv
  <2>5. QED
    BY <2>2, <2>3, <2>4 DEF MoneyInv
<1>6. MessageInv'
  <2>1. \A d \in Calls : Settled(d) => Settled(d)'
    BY <1>2 DEF Settled
  <2>2. \A d \in Calls : Settled(d) => OutcomeStatus(d)' = OutcomeStatus(d)
    BY <1>1, <1>2 DEF OutcomeStatus
  <2>3. \A h \in hooks : h.session \in Calls
    BY Types DEF IInv
  <2>4. QED
    BY <2>1, <2>2, <2>3 DEF IInv, MessageInv
<1>7. QED
  BY <1>3, <1>4, <1>5, <1>6, Frames DEF IInv

(* The webhook handler. *)
LEMMA WebhookInv ==
  ASSUME IInv, TypeOK', NEW c \in Calls, UNCHANGED bookingVars, WebhookStep(c)
  PROVE  IInv'
<1> USE DEF bookingVars, callVars
<1>1. CASE ReceiveEvent(c)
  <2> USE DEF ReceiveEvent
  <2>1. MessageInv'
    BY <1>1 DEF IInv, MessageInv, AtHook, Settled, OutcomeStatus
  <2>2. QED
    BY <1>1, <2>1, Frames DEF IInv
<1>2. CASE UpdateTransactionStatus(c)
  <2> USE DEF UpdateTransactionStatus
  <2>1. Settled(c)
    BY <1>2 DEF IInv, MessageInv, AtHook
  <2>2. \A d \in Calls : pt'[d] # "absent" <=> pt[d] # "absent"
    BY <1>2, Types DEF IInv, OutcomeStatus
  <2>3. StepInv'
    BY <1>2, <2>1, <2>2, Types DEF IInv, StepInv, OutcomeStatus, Settled
  <2>4. \A d \in Calls : Owns(d)' <=> Owns(d)
    BY <1>2, <2>2 DEF Owns
  <2>5. OwnerInv' /\ MoneyInv'
    BY <1>2, <2>4 DEF IInv, OwnerInv, MoneyInv, Settled
  <2>6. MessageInv'
    BY <1>2, <2>1 DEF IInv, MessageInv, AtHook, Settled, OutcomeStatus
  <2>7. UrlInv'
    BY <1>2, <2>2, Types DEF IInv, UrlInv
  <2>8. QED
    BY <1>2, <2>3, <2>5, <2>6, <2>7, Frames DEF IInv
<1>3. CASE ProduceCompletedMessage(c)
  <2> USE DEF ProduceCompletedMessage
  <2>1. Settled(c)
    BY <1>3 DEF IInv, MessageInv, AtHook
  <2>2. MessageInv'
    BY <1>3, <2>1 DEF IInv, MessageInv, Settled, OutcomeStatus
  <2>3. QED
    BY <1>3, <2>2, Frames DEF IInv
<1>4. QED
  BY <1>1, <1>2, <1>3 DEF WebhookStep

(* PaymentService's own steps, and Stripe's. *)
LEMMA PaymentStepInv ==
  ASSUME IInv, TypeOK', NEW c \in Calls, PaymentStep(c)
  PROVE  IInv'
<1>1. UNCHANGED bookingVars
  BY DEF PaymentStep
<1>2. CASE StartCreatePayment(c) \/ CreatePaymentStep(c)
  BY <1>1, <1>2, CreatePaymentInv
<1>3. CASE CustomerPays(c)
  BY <1>1, <1>3, SessionSettles DEF CustomerPays
<1>4. CASE SessionExpires(c)
  BY <1>1, <1>4, SessionSettles DEF SessionExpires
<1>5. CASE WebhookStep(c)
  BY <1>1, <1>5, WebhookInv
<1>6. QED
  BY <1>2, <1>3, <1>4, <1>5 DEF PaymentStep

(* CancelPaymentTransaction touches nothing but the session at Stripe. *)
LEMMA CancelInv ==
  ASSUME IInv, TypeOK', NEW k \in Cancels, CancelCallStep(k)
  PROVE  IInv'
<1> USE DEF CancelStepFrom
<1>1. UNCHANGED bookingVars
  BY DEF CancelCallStep
<1>2. CASE ExpireCheckoutSession(k)
  <2> DEFINE c == cancelOf[k].found
  <2>1. CASE c \in Calls /\ stripe[c] = "open"
    BY <1>1, <1>2, <2>1, SessionSettles DEF ExpireCheckoutSession
  <2>2. CASE ~ (c \in Calls /\ stripe[c] = "open")
    <3>1. stripe' = stripe
      BY <1>2, <2>2, Types DEF IInv, ExpireCheckoutSession
    <3>2. QED
      BY <1>1, <1>2, <3>1, Frames
      DEF ExpireCheckoutSession, bookingVars, callVars, IInv
  <2>3. QED
    BY <2>1, <2>2
<1>3. CASE UNCHANGED <<callVars, pt, sessionRow, stripe, hooks, topic>>
  BY <1>1, <1>3, Frames DEF bookingVars, callVars, IInv
<1>4. QED
  BY <1>2, <1>3
  DEF CancelCallStep, CancelPaymentStep, StartCancel, FindTransactionToCancel,
      FindSessionToCancel, RefuseCancel

(* The booking leaves INITIALIZING for one call only, which owns it from then on. *)
LEMMA AskToMarkInv ==
  ASSUME IInv, TypeOK', NEW c \in Calls, AskToMarkPending(c)
  PROVE  IInv'
<1> USE DEF MarkBookingPending, PayStepFrom, callVars
<1>1. pt[c] = "absent" /\ ~ Owns(c) /\ stripe[c] = "absent"
  BY Types DEF AskToMarkPending, IInv, StepInv, Owns
<1>2. CASE /\ MarkBookingPending(c, TRUE)
           /\ UpdateBookingStatusFromInitializingToPending(target[c])
  <2> USE DEF UpdateBookingStatusFromInitializingToPending
  <2>1. /\ target[c] \in Bookings
        /\ status[target[c]] = "INITIALIZING"
        /\ status'[target[c]] = "PENDING"
        /\ \A b \in Bookings : b # target[c] => status'[b] = status[b]
    BY <1>2, Types DEF IInv
  <2>2. \A d \in Calls : Owns(d) => target[d] # target[c]
    BY <2>1 DEF IInv, OwnerInv
  <2>3. \A d \in Calls : Owns(d)' => Owns(d) \/ d = c
    BY <1>2, Types DEF IInv, Owns
  <2>4. RowInv'
    BY <1>2, <2>1 DEF IInv, RowInv
  <2>5. HistoryInv'
    BY <1>2, <2>1, Types DEF IInv, HistoryInv
  <2>6. StepInv'
    BY <1>1, <1>2, Types DEF IInv, StepInv
  <2>7. OwnerInv'
    BY <1>2, <2>1, <2>2, <2>3, Types DEF IInv, OwnerInv
  <2>8. MoneyInv'
    <3>1. ASSUME NEW d \in Calls, Owns(d)'
          PROVE  /\ ~ Settled(d)' => status'[target[d]] = "PENDING"
                 /\ status'[target[d]] = "CONFIRMED" => stripe'[d] = "paid"
                 /\ status'[target[d]] = "CANCEL" => stripe'[d] = "expired"
      <4>1. CASE d = c
        BY <2>1, <4>1
      <4>2. CASE d # c
        BY <1>2, <2>1, <2>2, <2>3, <3>1, <4>2, Types DEF IInv, MoneyInv, Settled
      <4>3. QED
        BY <4>1, <4>2
    <3>2. \A b \in Bookings : status'[b] = "CONFIRMED" =>
            \E d \in Calls : target[d] = b /\ stripe[d] = "paid"
      BY <2>1 DEF IInv, MoneyInv
    <3>3. QED
      BY <1>2, <3>1, <3>2 DEF MoneyInv
  <2>9. QED
    BY <1>2, <2>4, <2>5, <2>6, <2>7, <2>8, Frames DEF IInv
<1>3. CASE MarkBookingPending(c, FALSE) /\ UNCHANGED bookingVars
  <2>1. UrlInv'
    BY <1>3, Frames DEF IInv, bookingVars
  <2>2. QED
    BY <1>1, <1>3, <2>1, PlainCallStep
<1>4. QED
  BY <1>2, <1>3 DEF AskToMarkPending

(* A message repeats what the booking's only transaction has been settled to. *)
LEMMA HandleMove ==
  ASSUME IInv, NEW m \in Message, HandleMessage(m)
  PROVE  \/ status' = status
         \/ /\ status[m.booking] = "PENDING"
            /\ \E c \in Calls :
                 /\ Owns(c) /\ target[c] = m.booking
                 /\ \/ /\ stripe[c] = "paid"
                       /\ status' = [status EXCEPT ![m.booking] = "CONFIRMED"]
                    \/ /\ stripe[c] = "expired"
                       /\ status' = [status EXCEPT ![m.booking] = "CANCEL"]
<1> USE DEF HandleMessage, UpdateBookingStatusAfterPaymentTransactionCompleted
<1>1. PICK c \in Calls :
        target[c] = m.booking /\ Settled(c) /\ OutcomeStatus(c) = m.status
  BY DEF IInv, MessageInv
<1>2. Owns(c) /\ m.booking \in Bookings
  BY <1>1, Types DEF IInv, StepInv, Owns, Settled
<1>3. status[m.booking] \in {"PENDING", "CONFIRMED", "CANCEL"}
  BY <1>1, <1>2, Types DEF IInv, OwnerInv
<1>4. status' = [status EXCEPT ![m.booking] =
                   StatusAfterPayment(status[m.booking], m.status)]
  OBVIOUS
<1>5. CASE status[m.booking] = "CONFIRMED"
  BY <1>4, <1>5, Types DEF StatusAfterPayment, IInv
<1>6. CASE status[m.booking] = "CANCEL"
  <2>1. m.status = "CANCEL"
    BY <1>1, <1>2, <1>6 DEF IInv, MoneyInv, OutcomeStatus
  <2>2. QED
    BY <1>4, <1>6, <2>1, Types DEF StatusAfterPayment, IInv
<1>7. CASE status[m.booking] = "PENDING"
  <2>1. CASE stripe[c] = "expired"
    <3>1. m.status = "CANCEL"
      BY <1>1, <2>1 DEF OutcomeStatus
    <3>2. status' = [status EXCEPT ![m.booking] = "CANCEL"]
      BY <1>4, <1>7, <3>1 DEF StatusAfterPayment
    <3>3. QED
      BY <1>1, <1>2, <1>7, <2>1, <3>2
  <2>2. CASE stripe[c] = "paid"
    <3>1. m.status = "SUCCESS"
      BY <1>1, <2>2 DEF OutcomeStatus
    <3>2. status' = [status EXCEPT ![m.booking] = "CONFIRMED"]
      BY <1>4, <1>7, <3>1 DEF StatusAfterPayment
    <3>3. QED
      BY <1>1, <1>2, <1>7, <2>2, <3>2
  <2>3. QED
    BY <1>1, <2>1, <2>2 DEF Settled
<1>8. QED
  BY <1>3, <1>5, <1>6, <1>7

LEMMA HandleInv ==
  ASSUME IInv, TypeOK', NEW m \in Message, HandleMessage(m)
  PROVE  IInv'
<1> USE DEF paymentVars, callVars
<1>1. /\ UNCHANGED <<place, call, counts, before, paymentVars>>
      /\ handling' \subseteq handling
  BY DEF HandleMessage, UpdateBookingStatusAfterPaymentTransactionCompleted
<1>2. MessageInv'
  BY <1>1 DEF IInv, MessageInv, Settled, OutcomeStatus
<1>3. CASE status' = status
  BY <1>1, <1>2, <1>3, Frames DEF IInv
<1>4. ASSUME NEW c \in Calls, NEW s \in {"CONFIRMED", "CANCEL"},
             status[m.booking] = "PENDING", Owns(c), target[c] = m.booking,
             status' = [status EXCEPT ![m.booking] = s],
             stripe[c] = IF s = "CONFIRMED" THEN "paid" ELSE "expired"
      PROVE  IInv'
  <2>1. /\ m.booking \in Bookings
        /\ status'[m.booking] = s
        /\ \A b \in Bookings : b # m.booking => status'[b] = status[b]
    BY <1>4, Types DEF IInv, Message
  <2>2. RowInv'
    BY <1>1, <1>4, <2>1 DEF IInv, RowInv
  <2>3. HistoryInv'
    BY <1>1, <1>4, <2>1, Types DEF IInv, HistoryInv
  <2>4. \A d \in Calls : Owns(d)' <=> Owns(d)
    BY <1>1 DEF Owns
  <2>5. OwnerInv'
    BY <1>1, <1>4, <2>1, <2>4, Types DEF IInv, OwnerInv
  <2>6. MoneyInv'
    <3>1. ASSUME NEW d \in Calls, Owns(d)
          PROVE  /\ ~ Settled(d)' => status'[target[d]] = "PENDING"
                 /\ status'[target[d]] = "CONFIRMED" => stripe'[d] = "paid"
                 /\ status'[target[d]] = "CANCEL" => stripe'[d] = "expired"
      <4>1. CASE d = c
        BY <1>1, <1>4, <2>1, <4>1 DEF Settled
      <4>2. CASE d # c
        <5>1. target[d] # m.booking
          BY <1>4, <3>1, <4>2 DEF IInv, OwnerInv
        <5>2. QED
          BY <1>1, <2>1, <3>1, <5>1, Types DEF IInv, MoneyInv, Settled
      <4>3. QED
        BY <4>1, <4>2
    <3>2. \A b \in Bookings : status'[b] = "CONFIRMED" =>
            \E d \in Calls : target[d] = b /\ stripe[d] = "paid"
      BY <1>4, <2>1 DEF IInv, MoneyInv
    <3>3. QED
      BY <1>1, <2>4, <3>1, <3>2 DEF MoneyInv
  <2>7. QED
    BY <1>1, <1>2, <2>2, <2>3, <2>5, <2>6, Frames DEF IInv
<1>5. QED
  BY <1>3, <1>4, HandleMove

(* A failure loses a call, a run or a request, and nothing that was written. *)
LEMMA FaultInv ==
  ASSUME IInv, TypeOK', Fault
  PROVE  IInv'
<1> USE DEF paymentVars, bookingVars, callVars
<1>1. ASSUME NEW b \in Bookings, CreateBookingFails(b), UNCHANGED paymentVars
      PROVE  IInv'
  <2> USE DEF CreateBookingFails, GoTo, DropCounts
  <2>1. RowInv'
    BY <1>1, Types DEF IInv, RowInv
  <2>2. HistoryInv'
    BY <1>1, Types DEF IInv, HistoryInv
  <2>3. QED
    BY <1>1, <2>1, <2>2, Frames DEF IInv
<1>2. ASSUME NEW b \in Bookings, CheckJobFails(b), UNCHANGED paymentVars
      PROVE  IInv'
  BY <1>2, Frames DEF CheckJobFails, IInv
<1>3. ASSUME NEW b \in Bookings, CheckBookingStatusAfterInitialize(b, FALSE),
             UNCHANGED paymentVars
      PROVE  IInv'
  BY <1>3, CheckJobInv
<1>4. ASSUME NEW m \in Message, HandlerFails(m), UNCHANGED paymentVars
      PROVE  IInv'
  <2>1. MessageInv'
    BY <1>4 DEF HandlerFails, IInv, MessageInv, Settled, OutcomeStatus
  <2>2. QED
    BY <1>4, <2>1, Frames DEF HandlerFails, IInv
<1>5. ASSUME NEW c \in Calls, CreatePaymentFails(c), UNCHANGED bookingVars
      PROVE  IInv'
  <2> USE DEF CreatePaymentFails
  <2>1. UrlInv'
    BY <1>5, Types DEF IInv, UrlInv, Unseen
  <2>2. StepInv'
    BY <1>5, Types DEF IInv, StepInv
  <2>3. \A d \in Calls : Owns(d)' => Owns(d)
    BY <1>5, Types DEF IInv, Owns
  <2>4. OwnerInv' /\ MoneyInv'
    BY <1>5, <2>3 DEF IInv, OwnerInv, MoneyInv, Settled
  <2>5. QED
    BY <1>5, <2>1, <2>2, <2>4, Frames DEF IInv
<1>6. ASSUME NEW k \in Cancels, CancelFails(k), UNCHANGED bookingVars
      PROVE  IInv'
  BY <1>6, Frames DEF CancelFails, IInv
<1>7. ASSUME NEW h \in Hook, WebhookFails(h), UNCHANGED bookingVars
      PROVE  IInv'
  <2>1. MessageInv'
    BY <1>7 DEF WebhookFails, IInv, MessageInv, Settled, OutcomeStatus
  <2>2. QED
    BY <1>7, <2>1, Frames DEF WebhookFails, IInv
<1>8. QED
  BY <1>1, <1>2, <1>3, <1>4, <1>5, <1>6, <1>7 DEF Fault, BookingFault, PaymentFault

---------------------------------------------------------------------------
LEMMA InvPreserved == IInv /\ [Next]_vars => IInv'
<1> SUFFICES ASSUME IInv, [Next]_vars PROVE IInv'
  OBVIOUS
<1> USE DEF bookingVars, paymentVars, callVars
<1>1. TypeOK'
  BY TypePreserved DEF IInv
<1>2. ASSUME NEW b \in Bookings, BookingStep(b) PROVE IInv'
  BY <1>1, <1>2, BookingStepInv
<1>3. CASE TimeStep
  BY <1>1, <1>3, Frames DEF TimeStep, Tick, IInv
<1>4. ASSUME NEW c \in Calls, PaymentStep(c) PROVE IInv'
  BY <1>1, <1>4, PaymentStepInv
<1>5. ASSUME NEW k \in Cancels, CancelCallStep(k) PROVE IInv'
  BY <1>1, <1>5, CancelInv
<1>6. ASSUME NEW c \in Calls, AskForBooking(c) PROVE IInv'
  <2> USE DEF AskForBooking, ReadInitializingBooking
  <2>1. UrlInv'
    BY <1>6, Types DEF IInv, UrlInv
  <2>2. QED
    BY <1>1, <1>6, <2>1, Frames DEF IInv
<1>7. ASSUME NEW c \in Calls, AskToMarkPending(c) PROVE IInv'
  BY <1>1, <1>7, AskToMarkInv
<1>8. ASSUME NEW m \in Message, DeliverMessage(m) PROVE IInv'
  <2> USE DEF DeliverMessage, Deliver, StartHandler
  <2>1. MessageInv'
    BY <1>8 DEF IInv, MessageInv, Settled, OutcomeStatus
  <2>2. QED
    BY <1>1, <1>8, <2>1, Frames DEF IInv
<1>9. ASSUME NEW m \in Message, HandleMessage(m) PROVE IInv'
  BY <1>1, <1>9, HandleInv
<1>10. CASE Fault
  BY <1>1, <1>10, FaultInv
<1>11. CASE UNCHANGED vars
  BY <1>1, <1>11, Frames DEF vars, IInv
<1>12. QED
  BY <1>2, <1>3, <1>4, <1>5, <1>6, <1>7, <1>8, <1>9, <1>10, <1>11 DEF Next

(* The inductive invariant: a call that BookingService has let through owns   *)
(* its booking alone, and what the tables, the sessions and the messages say  *)
(* of that booking's money agrees.                                            *)
THEOREM InductiveInvariant == Spec => []IInv
  BY InvInitially, InvPreserved, PTL DEF Spec

(* No booking ever gets two payment transactions. *)
THEOREM OneTransaction == Spec => []OneTransactionPerBooking
<1>1. IInv => OneTransactionPerBooking
  BY DEF IInv, OwnerInv, Owns, OneTransactionPerBooking
<1>2. QED
  BY <1>1, InductiveInvariant, PTL

(* A booking whose checkout page is open is PENDING: its seat is held. *)
THEOREM PayableIsHeld == Spec => []PayableBookingIsHeld
<1>1. IInv => PayableBookingIsHeld
  BY DEF IInv, StepInv, MoneyInv, Owns, Settled, PayableBookingIsHeld
<1>2. QED
  BY <1>1, InductiveInvariant, PTL

(* Confirmed means paid, and paid is never cancelled. *)
THEOREM MoneyIsFollowed == Spec => []StatusFollowsMoney
<1>1. ASSUME IInv, NEW b \in Bookings
      PROVE  /\ status[b] = "CONFIRMED" =>
                  \E c \in Calls : target[c] = b /\ stripe[c] = "paid"
             /\ status[b] = "CANCEL" =>
                  ~ \E c \in Calls : target[c] = b /\ stripe[c] = "paid"
  <2>1. \A c \in Calls : stripe[c] = "paid" => Owns(c)
    BY <1>1 DEF IInv, StepInv, Owns
  <2>2. QED
    BY <1>1, <2>1 DEF IInv, MoneyInv
<1>2. IInv => StatusFollowsMoney
  BY <1>1 DEF StatusFollowsMoney
<1>3. QED
  BY <1>2, InductiveInvariant, PTL

(* One checkout page per booking, whoever asks for it and however often. *)
THEOREM OnePage == Spec => []OneCheckoutPage
<1>1. ASSUME IInv PROVE OneCheckoutPage
  <2>1. \A c \in Calls : url[c] # NoCall => url[c] \in Calls /\ Owns(url[c])
    BY <1>1, Types DEF IInv, UrlInv, Owns
  <2>2. QED
    BY <1>1, <2>1 DEF IInv, UrlInv, OwnerInv, OneCheckoutPage
<1>2. IInv => OneCheckoutPage
  BY <1>1
<1>3. QED
  BY <1>2, InductiveInvariant, PTL

(* A seat sold before a CreateBooking call began is not booked by that call. *)
THEOREM SoldStaysSold == Spec => []SoldSeatStaysSold
<1>1. IInv => SoldSeatStaysSold
  BY DEF IInv, HistoryInv, SoldSeatStaysSold
<1>2. QED
  BY <1>1, InductiveInvariant, PTL

---------------------------------------------------------------------------
(* The lifecycle: each step moves one booking along its path, settles one  *)
(* booking's money, or changes nothing the lifecycle speaks of.            *)

(* One booking's status changes, as the lifecycle allows. *)
Moves(b, from, to) ==
  /\ status[b] = from
  /\ status' = [status EXCEPT ![b] = to]

EarlyMove(b) ==
  \/ Moves(b, "absent", "INITIALIZING")
  \/ Moves(b, "INITIALIZING", "CANCEL")
  \/ Moves(b, "INITIALIZING", "PENDING")

LateMove(b) ==
  \E c \in Calls :
    /\ Owns(c) /\ target[c] = b
    /\ \/ stripe[c] = "paid" /\ Moves(b, "PENDING", "CONFIRMED")
       \/ stripe[c] = "expired" /\ Moves(b, "PENDING", "CANCEL")

SettleStep(c) ==
  /\ stripe[c] = "open"
  /\ \E o \in {"paid", "expired"} : stripe' = [stripe EXCEPT ![c] = o]
  /\ status' = status

SameMoney ==
  \A c \in Calls : \A o \in {"paid", "expired"} : stripe'[c] = o <=> stripe[c] = o

(* Every step does one of these. *)
LEMMA StepShape ==
  ASSUME IInv, [Next]_vars
  PROVE  /\ target' = target
         /\ \/ status' = status /\ SameMoney
            \/ \E c \in Calls : SettleStep(c)
            \/ \E b \in Bookings : SameMoney /\ (EarlyMove(b) \/ LateMove(b))
<1> DEFINE Shape ==
      /\ target' = target
      /\ \/ status' = status /\ SameMoney
         \/ \E c \in Calls : SettleStep(c)
         \/ \E b \in Bookings : SameMoney /\ (EarlyMove(b) \/ LateMove(b))
<1> USE DEF bookingVars, paymentVars, callVars
<1>0. target' = target /\ status' = status /\ stripe' = stripe => Shape
  BY DEF SameMoney
<1>1. ASSUME NEW b \in Bookings, NEW acknowledged \in BOOLEAN,
             CheckBookingStatusAfterInitialize(b, acknowledged), UNCHANGED paymentVars
      PROVE  Shape
  <2> USE DEF CheckBookingStatusAfterInitialize
  <2>1. CASE status[b] = "INITIALIZING"
    BY <1>1, <2>1 DEF EarlyMove, Moves, SameMoney
  <2>2. CASE status[b] # "INITIALIZING"
    <3>1. status' = status
      BY <1>1, <2>2, Types DEF IInv
    <3>2. QED
      BY <1>0, <1>1, <3>1
  <2>3. QED
    BY <2>1, <2>2
<1>2. ASSUME NEW b \in Bookings, BookingStep(b) PROVE Shape
  <2>1. CASE InsertBooking(b)
    <3>1. status[b] = "absent"
      BY <2>1 DEF InsertBooking, AtStep, IInv, RowInv
    <3>2. QED
      BY <1>2, <2>1, <3>1 DEF BookingStep, InsertBooking, EarlyMove, Moves, SameMoney
  <2>2. CASE CheckBookingStatusAfterInitialize(b, TRUE)
    BY <1>1, <1>2, <2>2 DEF BookingStep
  <2>3. CASE status' = status
    BY <1>0, <1>2, <2>3 DEF BookingStep
  <2>4. QED
    BY <1>2, <2>1, <2>2, <2>3
    DEF BookingStep, CreateBookingStep, StartCreateBooking, ReadProcessingCount,
        ReadConfirmedCount, AcceptRequestTime, RejectBooking, AddCheckJob
<1>3. CASE TimeStep
  BY <1>0, <1>3 DEF TimeStep, Tick
<1>4. ASSUME NEW c \in Calls, PaymentStep(c) PROVE Shape
  <2>1. CASE CustomerPays(c) \/ SessionExpires(c)
    BY <1>4, <2>1 DEF PaymentStep, CustomerPays, SessionExpires, SettleStep
  <2>2. CASE OpenCheckoutSession(c)
    <3>1. stripe[c] = "absent"
      BY <2>2 DEF OpenCheckoutSession, PayStepFrom, IInv, StepInv
    <3>2. SameMoney
      BY <2>2, <3>1, Types DEF OpenCheckoutSession, IInv, SameMoney
    <3>3. QED
      BY <1>4, <2>2, <3>2 DEF PaymentStep, OpenCheckoutSession
  <2>3. CASE UNCHANGED <<target, stripe>>
    BY <1>0, <1>4, <2>3 DEF PaymentStep
  <2>4. QED
    BY <1>4, <2>1, <2>2, <2>3
    DEF PaymentStep, CreatePaymentStep, WebhookStep, StartCreatePayment,
        ReadPendingTransaction, AnswerStoredSession, AnswerNotFound, LookUpTicket,
        CountPendingTransactions, InsertPaymentTransaction, StoreCheckoutSession,
        ReceiveEvent, UpdateTransactionStatus, ProduceCompletedMessage
<1>5. ASSUME NEW k \in Cancels, CancelCallStep(k) PROVE Shape
  <2>1. CASE ExpireCheckoutSession(k)
    <3> DEFINE c == cancelOf[k].found
    <3>1. CASE c \in Calls /\ stripe[c] = "open"
      BY <1>5, <2>1, <3>1 DEF CancelCallStep, ExpireCheckoutSession, SettleStep
    <3>2. CASE ~ (c \in Calls /\ stripe[c] = "open")
      <4>1. stripe' = stripe
        BY <2>1, <3>2, Types DEF IInv, ExpireCheckoutSession
      <4>2. QED
        BY <1>0, <1>5, <2>1, <4>1 DEF CancelCallStep, ExpireCheckoutSession
    <3>3. QED
      BY <3>1, <3>2
  <2>2. CASE UNCHANGED <<target, stripe>>
    BY <1>0, <1>5, <2>2 DEF CancelCallStep
  <2>3. QED
    BY <1>5, <2>1, <2>2
    DEF CancelCallStep, CancelPaymentStep, StartCancel, FindTransactionToCancel,
        FindSessionToCancel, RefuseCancel
<1>6. ASSUME NEW c \in Calls, AskForBooking(c) PROVE Shape
  BY <1>0, <1>6 DEF AskForBooking, ReadInitializingBooking
<1>7. ASSUME NEW c \in Calls, AskToMarkPending(c) PROVE Shape
  <2>1. target[c] \in Bookings
    BY Types DEF IInv
  <2>2. QED
    BY <1>0, <1>7, <2>1
    DEF AskToMarkPending, MarkBookingPending, EarlyMove, Moves, SameMoney,
        UpdateBookingStatusFromInitializingToPending
<1>8. ASSUME NEW m \in Message, DeliverMessage(m) PROVE Shape
  BY <1>0, <1>8 DEF DeliverMessage, Deliver, StartHandler
<1>9. ASSUME NEW m \in Message, HandleMessage(m) PROVE Shape
  <2>1. m.booking \in Bookings
    BY DEF Message
  <2>2. status' = status \/ LateMove(m.booking)
    BY <1>9, HandleMove DEF LateMove, Moves
  <2>3. UNCHANGED paymentVars /\ SameMoney
    BY <1>9 DEF HandleMessage, SameMoney
  <2>4. QED
    BY <2>1, <2>2, <2>3
<1>10. CASE Fault
  <2>1. CASE \E b \in Bookings : CheckBookingStatusAfterInitialize(b, FALSE)
                                  /\ UNCHANGED paymentVars
    BY <1>1, <2>1
  <2>2. CASE UNCHANGED <<target, status, stripe>>
    BY <1>0, <2>2
  <2>3. QED
    BY <1>10, <2>1, <2>2
    DEF Fault, BookingFault, PaymentFault, CreateBookingFails, CheckJobFails,
        HandlerFails, CreatePaymentFails, CancelFails, WebhookFails
<1>11. CASE UNCHANGED vars
  BY <1>0, <1>11 DEF vars
<1>12. QED
  BY <1>2, <1>3, <1>4, <1>5, <1>6, <1>7, <1>8, <1>9, <1>10, <1>11 DEF Next

(* A confirmed or cancelled booking is never moved again: not by a late job,  *)
(* a repeated message or a handler that lost a race.                          *)
THEOREM FinalIsFinal == Spec => FinalStatusIsFinal
<1>1. IInv /\ [Next]_vars =>
        [\A b \in Bookings :
           status[b] \in {"CONFIRMED", "CANCEL"} => status'[b] = status[b]]_vars
  BY StepShape, Types DEF IInv, EarlyMove, LateMove, Moves, SettleStep
<1>2. QED
  BY <1>1, InductiveInvariant, PTL DEF Spec, FinalStatusIsFinal

---------------------------------------------------------------------------
outcomeOf == [b \in Bookings |-> Outcome(b)]

(* A step that settles nobody's money changes nobody's outcome. *)
LEMMA SameOutcome ==
  ASSUME SameMoney, target' = target
  PROVE  outcomeOf' = outcomeOf
BY DEF outcomeOf, Outcome, SameMoney

(* The outcome of a booking is the state of its owner's session. *)
LEMMA OwnersOutcome ==
  ASSUME IInv, NEW c \in Calls, Owns(c)
  PROVE  /\ Outcome(target[c]) =
              IF stripe[c] \in {"paid", "expired"} THEN stripe[c] ELSE "open"
<1>1. \A d \in Calls : stripe[d] \in {"paid", "expired"} => Owns(d)
  BY DEF IInv, StepInv, Owns
<1>2. \A d \in Calls :
        stripe[d] \in {"paid", "expired"} /\ target[d] = target[c] => d = c
  BY <1>1 DEF IInv, OwnerInv
<1>3. QED
  BY <1>2 DEF Outcome

(* While nobody has started to pay, the outcome is open. *)
LEMMA EarlyOutcome ==
  ASSUME IInv, NEW b \in Bookings, status[b] \in {"absent", "INITIALIZING"}
  PROVE  Outcome(b) = "open"
<1>1. \A d \in Calls : stripe[d] \in {"paid", "expired"} => target[d] # b
  BY DEF IInv, StepInv, OwnerInv, Owns
<1>2. QED
  BY <1>1 DEF Outcome

LEMMA LifeInitially == Init => Life!Init
BY DEF Init, BookingInit, PaymentInit, Life!Init, Outcome

LEMMA LifePreserved == IInv /\ [Next]_vars => [Life!Next]_(Life!lifeVars)
<1> SUFFICES ASSUME IInv, [Next]_vars PROVE [Life!Next]_(Life!lifeVars)
  OBVIOUS
<1> USE DEF outcomeOf
<1>1. target' = target
  BY StepShape
<1>2. CASE status' = status /\ SameMoney
  BY <1>1, <1>2, SameOutcome DEF Life!lifeVars
<1>3. ASSUME NEW b \in Bookings, SameMoney, EarlyMove(b)
      PROVE  Life!Next
  <2>1. outcomeOf' = outcomeOf /\ outcomeOf[b] = "open"
    BY <1>1, <1>3, SameOutcome, EarlyOutcome DEF EarlyMove, Moves
  <2>2. Life!Create(b) \/ Life!TimeOut(b) \/ Life!StartPayment(b)
    BY <1>3, <2>1
    DEF EarlyMove, Moves, Life!Create, Life!TimeOut, Life!StartPayment, Life!Move
  <2>3. QED
    BY <2>2 DEF Life!Next
<1>4. ASSUME NEW b \in Bookings, SameMoney, LateMove(b)
      PROVE  Life!Next
  <2>1. outcomeOf' = outcomeOf
    BY <1>1, <1>4, SameOutcome
  <2>2. PICK c \in Calls :
          /\ Owns(c) /\ target[c] = b
          /\ \/ stripe[c] = "paid" /\ Moves(b, "PENDING", "CONFIRMED")
             \/ stripe[c] = "expired" /\ Moves(b, "PENDING", "CANCEL")
    BY <1>4 DEF LateMove
  <2>3. outcomeOf[b] = stripe[c]
    BY <2>2, OwnersOutcome
  <2>4. Life!Confirm(b) \/ Life!Release(b)
    BY <2>1, <2>2, <2>3 DEF Moves, Life!Confirm, Life!Release, Life!Move
  <2>5. QED
    BY <2>4 DEF Life!Next
<1>5. ASSUME NEW c \in Calls, SettleStep(c)
      PROVE  Life!Next
  <2> DEFINE b == target[c]
  <2>1. PICK o \in {"paid", "expired"} : stripe' = [stripe EXCEPT ![c] = o]
    BY <1>5 DEF SettleStep
  <2>2. /\ b \in Bookings
        /\ stripe'[c] = o
        /\ \A d \in Calls : d # c => stripe'[d] = stripe[d]
    BY <2>1, Types DEF IInv
  <2>3. Owns(c) /\ stripe[c] = "open" /\ status[b] = "PENDING"
    BY <1>5 DEF SettleStep, IInv, StepInv, MoneyInv, Owns, Settled
  <2>4. outcomeOf[b] = "open"
    BY <2>2, <2>3, OwnersOutcome
  <2>5. \A d \in Calls : d # c /\ target[d] = b => stripe[d] \notin {"paid", "expired"}
    BY <2>3 DEF IInv, StepInv, OwnerInv, Owns
  <2>6. outcomeOf'[b] = o
    BY <1>1, <2>2, <2>5 DEF Outcome
  <2>7. \A a \in Bookings : a # b => outcomeOf'[a] = outcomeOf[a]
    BY <1>1, <2>2 DEF Outcome
  <2>8. outcomeOf' = [outcomeOf EXCEPT ![b] = o]
    BY <2>2, <2>6, <2>7
  <2>9. Life!Settle(b)
    BY <1>5, <2>3, <2>4, <2>8 DEF SettleStep, Life!Settle
  <2>10. QED
    BY <2>2, <2>9 DEF Life!Next
<1>6. QED
  BY <1>2, <1>3, <1>4, <1>5, StepShape

(* Whatever is repeated, reordered or lost, the services do to a booking      *)
(* what the lifecycle allows and nothing else.                                *)
THEOREM Implements == Spec => LifeSpec
<1>1. IInv /\ [Next]_vars => [Life!Next]_(Life!lifeVars)
  BY LifePreserved
<1>2. QED
  BY LifeInitially, <1>1, InductiveInvariant, PTL DEF Spec, LifeSpec, Life!Spec

---------------------------------------------------------------------------
(* What the liveness of PENDING bookings rests on: somebody always goes on.  *)

GoesOnFor(c) == payCall[c] \in {"counting", "inserting", "checkout"} \/ stripe[c] # "absent"

PendingIsServed ==
  faults = 0 =>
    \A b \in Bookings :
      status[b] = "PENDING" => \E c \in Calls : target[c] = b /\ GoesOnFor(c)

(* A call that goes on does so until there is a session, which stays.        *)
LEMMA GoesOnStays ==
  ASSUME IInv, [Next]_vars, ~ Fault, NEW c \in Calls, GoesOnFor(c)
  PROVE  GoesOnFor(c)'
<1> USE DEF GoesOnFor, PayStepFrom, LeaveReading, bookingVars, paymentVars, callVars
<1>1. payCall \in [Calls -> PayStep] /\ stripe \in [Calls -> {"absent", "open", "paid", "expired"}]
  BY DEF IInv, TypeOK, PaymentTypeOK
<1>2. CASE UNCHANGED <<payCall, stripe>>
  BY <1>2
<1>3. ASSUME NEW d \in Calls, CreatePaymentStep(d) PROVE GoesOnFor(c)'
  <2>1. CASE CountPendingTransactions(d)
    <3>1. CASE d = c
      <4>1. payCall[c] = "counting" /\ Owns(c) /\ pt[c] = "absent"
        BY <2>1, <3>1 DEF CountPendingTransactions, Owns, IInv, StepInv
      <4>2. Transactions(target[c], {"PENDING"}) = {}
        BY <4>1 DEF Transactions, IInv, OwnerInv, Owns
      <4>3. QED
        BY <1>1, <2>1, <3>1, <4>2 DEF CountPendingTransactions
    <3>2. CASE d # c
      BY <1>1, <2>1, <3>2 DEF CountPendingTransactions
    <3>3. QED
      BY <3>1, <3>2
  <2>2. CASE OpenCheckoutSession(d)
    BY <1>1, <2>2 DEF OpenCheckoutSession
  <2>3. CASE \/ ReadPendingTransaction(d) \/ AnswerStoredSession(d) \/ AnswerNotFound(d)
             \/ \E found \in BOOLEAN : LookUpTicket(d, found)
             \/ InsertPaymentTransaction(d)
    BY <1>1, <2>3 DEF ReadPendingTransaction, AnswerStoredSession, AnswerNotFound,
       LookUpTicket, InsertPaymentTransaction
  <2>4. CASE StoreCheckoutSession(d)
    BY <1>1, <2>4 DEF StoreCheckoutSession
  <2>5. QED
    BY <1>3, <2>1, <2>2, <2>3, <2>4 DEF CreatePaymentStep
<1>4. ASSUME NEW d \in Calls, PaymentStep(d) PROVE GoesOnFor(c)'
  BY <1>1, <1>3, <1>4 DEF PaymentStep, StartCreatePayment, CustomerPays, SessionExpires,
     WebhookStep, ReceiveEvent, UpdateTransactionStatus, ProduceCompletedMessage
<1>5. ASSUME NEW k \in Cancels, CancelCallStep(k) PROVE GoesOnFor(c)'
  BY <1>1, <1>5 DEF CancelCallStep, StartCancel, CancelPaymentStep, FindTransactionToCancel,
     FindSessionToCancel, ExpireCheckoutSession, RefuseCancel
<1>6. ASSUME NEW d \in Calls, AskForBooking(d) \/ AskToMarkPending(d) PROVE GoesOnFor(c)'
  BY <1>1, <1>6 DEF AskForBooking, ReadInitializingBooking, AskToMarkPending,
     MarkBookingPending
<1>7. ASSUME NEW m \in Message, DeliverMessage(m) \/ HandleMessage(m) PROVE GoesOnFor(c)'
  BY <1>7 DEF DeliverMessage, Deliver, HandleMessage
<1>8. QED
  BY <1>2, <1>4, <1>5, <1>6, <1>7 DEF Next, BookingStep, TimeStep, vars

(* Only the call that moves a booking to PENDING makes it wait, and goes on. *)
LEMMA PendingBegins ==
  ASSUME IInv, [Next]_vars, ~ Fault, NEW b \in Bookings,
         status'[b] = "PENDING", status[b] # "PENDING"
  PROVE  \E c \in Calls : target[c] = b /\ GoesOnFor(c)'
<1>1. ASSUME NEW c \in Calls, AskToMarkPending(c)
      PROVE  target[c] = b /\ GoesOnFor(c)'
  BY <1>1, Types DEF IInv, AskToMarkPending, MarkBookingPending, PayStepFrom, bookingVars,
     UpdateBookingStatusFromInitializingToPending, GoesOnFor
<1>2. ASSUME NEW d \in Bookings, BookingStep(d) PROVE FALSE
  BY <1>2, Types DEF IInv, BookingStep, StartCreateBooking, CreateBookingStep,
     ReadProcessingCount, ReadConfirmedCount, AcceptRequestTime, RejectBooking,
     InsertBooking, AddCheckJob, CheckBookingStatusAfterInitialize
<1>3. ASSUME NEW m \in Message, HandleMessage(m) PROVE FALSE
  BY <1>3, HandleMove, Types DEF IInv
<1>4. CASE UNCHANGED status
  BY <1>4
<1>5. QED
  BY <1>1, <1>2, <1>3, <1>4
     DEF Next, TimeStep, Tick, PaymentStep, CancelCallStep, AskForBooking, DeliverMessage,
         StartHandler, vars, bookingVars

(* As long as nothing fails, a PENDING booking has a payment call on its way *)
(* to a session, or a session: what StuckOnlyWithoutSession needs of every   *)
(* state (createPaymentTransaction, updateBookingStatusFromInitializingToPending). *)
THEOREM PendingIsAlwaysServed == Spec => []PendingIsServed
<1>1. Init => PendingIsServed
  BY DEF Init, BookingInit, PendingIsServed
<1>2. IInv /\ PendingIsServed /\ [Next]_vars => PendingIsServed'
  <2> SUFFICES ASSUME IInv, PendingIsServed, [Next]_vars, faults' = 0,
                      NEW b \in Bookings, status'[b] = "PENDING"
               PROVE  \E c \in Calls : target'[c] = b /\ GoesOnFor(c)'
    BY DEF PendingIsServed
  <2>1. ~ Fault
    BY MaxFaultsAssumption DEF Fault, IInv, TypeOK
  <2>2. faults = 0 /\ target' = target
    <3>1. faults' = faults
      BY <2>1 DEF Next, BookingStep, TimeStep, PaymentStep, CancelCallStep, AskForBooking,
         AskToMarkPending, DeliverMessage, HandleMessage, vars
    <3>2. QED
      BY <3>1, StepShape
  <2>3. CASE status[b] = "PENDING"
    BY <2>1, <2>2, <2>3, GoesOnStays DEF PendingIsServed
  <2>4. CASE status[b] # "PENDING"
    BY <2>1, <2>2, <2>4, PendingBegins
  <2>5. QED
    BY <2>3, <2>4
<1>3. QED
  BY <1>1, <1>2, InductiveInvariant, PTL DEF Spec
============================================================================
