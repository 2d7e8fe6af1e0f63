--------------------------- MODULE TicketNotices ---------------------------
(***************************************************************************)
(* NotificationService at work behind the sale of tickets.  Bookings and   *)
(* their money move as BookingLifecycle says, which TicketSales implements *)
(* step by step; PaymentService publishes a completed payment, again       *)
(* whenever Stripe repeats its event; BookingService acts on the message   *)
(* before or after NotificationService does.                               *)
(***************************************************************************)
EXTENDS NotificationService

CONSTANTS
  MaxMessages,  \* bound on completed-payment messages
  MaxFaults     \* bound on failures and evictions together

ASSUME BoundsAssumption == MaxMessages \in Nat /\ MaxFaults \in Nat

VARIABLES
  status, outcome,  \* of BookingLifecycle
  faults,           \* failures so far
  evictions         \* processes the broker has given up unheard

bookingVars == <<status, outcome>>
boundVars == <<faults, evictions>>
vars == <<noticeVars, bookingVars, boundVars>>

Life == INSTANCE BookingLifecycle

TypeOK ==
  /\ GroupTypeOK
  /\ ServiceTypeOK
  /\ Life!LifeTypeOK
  /\ faults \in 0 .. MaxFaults
  /\ evictions \in 0 .. MaxFaults

Init ==
  /\ GroupInit
  /\ ServiceInit
  /\ Life!Init
  /\ faults = 0
  /\ evictions = 0

---------------------------------------------------------------------------
(* Bookings and payments *)

Announced(b) == \E n \in DOMAIN log["completed"] : log["completed"][n] = b

BookingStep(b) ==
  /\ \/ Life!Create(b)
     \/ Life!StartPayment(b)
     \/ Life!TimeOut(b)
     \/ Life!Settle(b)
     \/ Announced(b) /\ (Life!Confirm(b) \/ Life!Release(b))
  /\ UNCHANGED <<noticeVars, boundVars>>

(* Mutant: the message is sent before the payment is settled. *)
AnnounceEarly(b) ==
  /\ status[b] = "PENDING"
  /\ Len(log["completed"]) < MaxMessages
  /\ Publish("completed", b)
  /\ UNCHANGED <<waiting, session, serviceVars, bookingVars, boundVars>>

AnnouncePayment(b) ==
  /\ outcome[b] # "open"
  /\ Len(log["completed"]) < MaxMessages
  /\ Publish("completed", b)
  /\ UNCHANGED <<waiting, session, serviceVars, bookingVars, boundVars>>

---------------------------------------------------------------------------
(* The consumer group *)

Rebalance ==
  /\ \E members \in (SUBSET {i \in Instances : ReadyToJoin(i)}) \ {{}} :
       \E winners \in SUBSET members :
         \E pick \in [members -> Topics] : JoinGroup(members, pick, winners)
  /\ UNCHANGED <<serviceVars, bookingVars, boundVars>>

(* A process that wants to join ends the sessions of the others. *)
MakeRoom(i) ==
  /\ \E j \in Instances : ReadyToJoin(j)
  /\ CancelSession(i)
  /\ UNCHANGED <<serviceVars, bookingVars, boundVars>>

LeaveSession(i) ==
  /\ AtStep(i, "idle")
  /\ ConsumeReturns(i)
  /\ UNCHANGED <<serviceVars, bookingVars, boundVars>>

---------------------------------------------------------------------------
(* The handlers *)

CreateTaskStep(i) ==
  \/ CountNotifications(i)
  \/ InsertNotification(i)
  \/ ProduceNotificationCreated(i)
  \/ CommitNotification(i)

MailTaskStep(i) ==
  \/ ReadNotification(i)
  \/ MarkProcessing(i)
  \/ CommitClaim(i)
  \/ AtStep(i, "fetch") /\ FetchBooking(i, status[Booking(i)])
  \/ RenderPDF(i)
  \/ SaveFilename(i)
  \/ AttachPDF(i)
  \/ Send(i)
  \/ MarkSuccess(i)
  \/ MarkFailed(i)

TaskStep(i) ==
  /\ \/ StartHandler(i)
     \/ CreateTaskStep(i)
     \/ MailTaskStep(i)
     \/ CancelledCall(i)
  /\ UNCHANGED <<bookingVars, boundVars>>

---------------------------------------------------------------------------
(* Failures *)

GroupFault(i) ==
  /\ \/ CancelSession(i)
     \/ \E t \in Topics : ConsumeFails(i, t)
  /\ UNCHANGED serviceVars

TaskFault(i) ==
  \/ CallFails(i)
  \/ StatementFails(i)
  \/ ProduceUnanswered(i)
  \/ SendFails(i)
  \/ LastUpdateFails(i)
  \/ Restart(i)

Fault ==
  /\ faults + evictions < MaxFaults
  /\ faults' = faults + 1
  /\ \E i \in Instances : GroupFault(i) \/ TaskFault(i)
  /\ UNCHANGED <<bookingVars, evictions>>

Eviction ==
  /\ faults + evictions < MaxFaults
  /\ evictions' = evictions + 1
  /\ \E i \in Instances : Evict(i)
  /\ UNCHANGED <<serviceVars, bookingVars, faults>>

Next ==
  \/ \E b \in Bookings : BookingStep(b)
  \/ \E b \in Bookings : AnnouncePayment(b)
  \/ Rebalance
  \/ \E i \in Instances : MakeRoom(i)
  \/ \E i \in Instances : LeaveSession(i)
  \/ \E i \in Instances : TaskStep(i)
  \/ Fault
  \/ Eviction

Spec == Init /\ [][Next]_vars

---------------------------------------------------------------------------
(* Fairness: the settled payment of a booking is announced, BookingService  *)
(* acts on it, goroutines and the consumer run, calls return.               *)
Fairness ==
  /\ \A b \in Bookings :
       /\ WF_vars(~ Announced(b) /\ AnnouncePayment(b))
       /\ WF_vars(BookingStep(b) /\ outcome[b] # "open")
  /\ WF_vars(Rebalance)
  /\ \A i \in Instances :
       /\ WF_vars(LeaveSession(i))
       /\ WF_vars(TaskStep(i))

FairSpec == Spec /\ Fairness

---------------------------------------------------------------------------
(* Properties *)

(* Nobody gets two mails about one booking, however often its payment is    *)
(* announced and its notification produced, and whatever is cancelled,      *)
(* restarted or fails on the way.  The two methods that share the claim are *)
(* GetNotificationByIdWithXLock and UpdateNotification.                     *)
MailedOnce == \A b \in Bookings : sent[b] <= 1

(* That much holds without the lock, which is never taken, as long as every *)
(* process learns that it has lost its partition before another gets it.    *)
MailedOnceWhileHeard == evictions = 0 => MailedOnce

(* A customer hears of a payment only after it was settled at Stripe and    *)
(* announced by PaymentService, across both services and the topic.         *)
MailFollowsPayment ==
  \A b \in Bookings : sent[b] > 0 => outcome[b] # "open" /\ Announced(b)

(* A notification marked SUCCESS was mailed, although the mark is made from *)
(* the copy of the row the handler read at its start.                       *)
SuccessWasMailed ==
  \A b \in Bookings : row[b].status = "SUCCESS" => sent[b] > 0

Final == {"SUCCESS", "FAILED"}

(* A handler that has read PENDING and whose session is over: its write is  *)
(* still to come, its commit will fail.                                     *)
LateClaim(i, b) ==
  AtStep(i, "process") /\ session[i].phase = "ending" /\ Booking(i) = b

(* How a notification ended is not contradicted: its mark is made from a    *)
(* copy of the row read long before, yet as long as every process learns    *)
(* that it has lost its partition nothing replaces SUCCESS or FAILED but    *)
(* the PROCESSING of a claim that came too late and goes no further.        *)
EndedUnlessLateClaim ==
  [][evictions = 0 =>
       \A b \in Bookings :
         row[b].status \in Final /\ row'[b].status # row[b].status
           => /\ row'[b].status = "PROCESSING"
              /\ \E i \in Instances : LateClaim(i, b)]_vars

(* A notification that has failed or succeeded stays as it is.              *)
FinalNoticeIsFinal ==
  [][evictions = 0 =>
       \A b \in Bookings :
         row[b].status \in Final => row'[b].status = row[b].status]_vars

(* A process alone sends no mail at all: while it creates notifications     *)
(* nobody reads the messages it publishes, and when it reads that topic it  *)
(* starts behind them and publishes no more.                                *)
Alone == \A i, j \in Instances : i = j
SilentAlone == Alone => \A b \in Bookings : sent[b] = 0

(* The mail tells how the payment ended: "Payment transaction successfully" *)
(* or "Payment transaction failed", as mailer.go has it.                    *)
MailTellsOutcome ==
  \A b \in Bookings :
    /\ "paid" \in told[b] => outcome[b] = "paid"
    /\ "failed" \in told[b] => outcome[b] = "expired"

(* A paid booking is mailed about.                                          *)
PaidIsMailed ==
  \A b \in Bookings : outcome[b] = "paid" ~> sent[b] > 0

---------------------------------------------------------------------------
(* The inductive invariant behind MailedOnceWhileHeard, MailFollowsPayment, *)
(* SuccessWasMailed, EndedUnlessLateClaim and SilentAlone.                  *)

Partitioned(i) == session[i].phase \in {"claimed", "evicted", "ending"}

Fetched == \A i \in Instances : session[i].last <= Len(log[session[i].topic])

Named == \A i \in Instances : ~ AtStep(i, "idle") => Booking(i) \in Bookings

SessionInv ==
  /\ \A i \in Instances : task[i].step # "idle" => Partitioned(i)
  /\ \A i \in Instances :
       /\ task[i].step \in CreateStep => session[i].topic = "completed"
       /\ task[i].step \in MailStep => session[i].topic = "created"
       /\ session[i].phase = "evicted" => evictions > 0
  /\ \A i, j \in Instances :
       /\ session[i].phase = "claimed"
       /\ session[j].phase = "claimed"
       /\ session[i].topic = session[j].topic
       => i = j

TaskInv ==
  \A i \in Instances :
    /\ task[i].step \in CreateStep => Announced(Booking(i))
    /\ Holding(i) =>
         /\ ~ Exists(Booking(i))
         /\ \A j \in Instances : Holding(j) => i = j
    /\ task[i].step \in MailStep \ {"claim"} => Exists(Booking(i))
    /\ task[i].step = "confirm" => row[Booking(i)].status # "PENDING"
    /\ task[i].step = "finish" => sent[Booking(i)] > 0

PaymentInv ==
  \A b \in Bookings :
    /\ Announced(b) => outcome[b] # "open"
    /\ Exists(b) => Announced(b)
    /\ sent[b] > 0 => Exists(b)
    /\ row[b].status = "SUCCESS" => sent[b] > 0

(* The handler is past the claim and may still mail. *)
Mailing(i, b) ==
  task[i].step \in {"fetch", "render", "attach", "load", "send"} /\ Booking(i) = b

(* The handler has read PENDING and may get past the claim. *)
Claiming(i, b) ==
  /\ task[i].step \in {"process", "confirm"}
  /\ session[i].phase = "claimed"
  /\ Booking(i) = b

MailInv ==
  evictions = 0 =>
    \A b \in Bookings :
      /\ sent[b] <= 1
      /\ row[b].status \in {"absent", "PENDING"} =>
           sent[b] = 0 /\ \A i \in Instances : ~ Mailing(i, b)
      /\ \A i \in Instances :
           Mailing(i, b) =>
             sent[b] = 0 /\ \A j \in Instances : Mailing(j, b) => i = j
      /\ \A i \in Instances :
           Claiming(i, b) =>
             sent[b] = 0 /\ \A j \in Instances : ~ Mailing(j, b)

(* The handler is past the claim. *)
Writing(i, b) ==
  /\ task[i].step \in
       {"fetch", "render", "attach", "load", "send", "finish", "fail", "drop"}
  /\ Booking(i) = b

(* One handler at a time is past the claim of a notification, and none is   *)
(* or gets there once the notification has ended.                           *)
WriterInv ==
  evictions = 0 =>
    \A b \in Bookings :
      /\ \A i \in Instances :
           Writing(i, b) =>
             /\ row[b].status = "PROCESSING"
             /\ \A j \in Instances : Writing(j, b) => i = j
      /\ \A i \in Instances :
           Claiming(i, b) =>
             /\ row[b].status \in {"PENDING", "PROCESSING"}
             /\ \A j \in Instances : ~ Writing(j, b)

SilentInv ==
  Alone =>
    /\ \A i \in Instances :
         session[i].topic = "created" /\ Partitioned(i)
           => session[i].next = Len(log["created"])
    /\ \A i \in Instances : task[i].step \notin MailStep
    /\ \A b \in Bookings : sent[b] = 0

NoticeInv ==
  /\ TypeOK
  /\ Fetched
  /\ Named
  /\ SessionInv
  /\ TaskInv
  /\ PaymentInv
  /\ MailInv
  /\ WriterInv
  /\ SilentInv

============================================================================
