------------------------ MODULE NotificationService ------------------------
(***************************************************************************)
(* NotificationService: the notification table, the handler that creates   *)
(* a notification for a completed payment, and the handler that renders    *)
(* the PDF and sends the mail.  The booking's status is an argument: it is *)
(* read from BookingService.                                               *)
(*                                                                         *)
(* of_booking_id is unique, so the table has at most one row per booking   *)
(* and is a function of the booking.  The PDF is named after the booking,  *)
(* so all that is kept of the file name is whether there is one.  The      *)
(* accessor ignores the transaction it is given (WithDB) and gorm ignores  *)
(* the lock option, so every read and every update but the insert is a     *)
(* statement of its own.  Once the session's context is done (Live is      *)
(* over) its transaction is rolled back, and begin, insert, commit, the    *)
(* calls to other services and the download from S3 fail; the statements   *)
(* outside the transaction, the producer and the mail server do not look   *)
(* at it and go on.  Failures are guarded by the composing module.         *)
(***************************************************************************)
EXTENDS ConsumerGroup

ASSUME IdsAssumption == Bookings \subseteq Nat

VARIABLES
  row,     \* the notification of each booking
  serial,  \* the last notification_id given out
  task,    \* the handler each process is running
  sent,    \* mails sent about a booking
  told     \* what they said

serviceVars == <<row, serial, task, sent, told>>
noticeVars == <<groupVars, serviceVars>>

NoticeStatus == {"PENDING", "PROCESSING", "SUCCESS", "FAILED"}
Row == [id : Nat, status : NoticeStatus \union {"absent"}, pdf : BOOLEAN]
NoRow == [id |-> 0, status |-> "absent", pdf |-> FALSE]

CreateStep == {"count", "insert", "produce", "reproduce", "commit"}
MailStep ==
  {"claim", "process", "confirm", "fetch", "render", "attach", "load", "send",
   "finish", "fail", "drop"}
Uncommitted == {"produce", "reproduce", "commit"}

(* booking is the id the message carries and, from "process" on, the        *)
(* booking of the notification; id and pdf are the handler's copy of the    *)
(* row; wire is the status BookingService answered.                         *)
Task ==
  [step : CreateStep \union MailStep \union {"idle"}, booking : Nat, id : Nat,
   pdf : BOOLEAN, wire : {"CONFIRMED", "CANCEL", "other"}]
NoTask == [step |-> "idle", booking |-> 0, id |-> 0, pdf |-> FALSE, wire |-> "other"]

Told == {"paid", "failed"}

ServiceTypeOK ==
  /\ row \in [Bookings -> Row]
  /\ serial \in Nat
  /\ task \in [Instances -> Task]
  /\ sent \in [Bookings -> Nat]
  /\ told \in [Bookings -> SUBSET Told]

ServiceInit ==
  /\ row = [b \in Bookings |-> NoRow]
  /\ serial = 0
  /\ task = [i \in Instances |-> NoTask]
  /\ sent = [b \in Bookings |-> 0]
  /\ told = [b \in Bookings |-> {}]

Exists(b) == row[b].status # "absent"
AtStep(i, step) == task[i].step = step
Booking(i) == task[i].booking

Proceed(i, step, booking, id, pdf, wire) ==
  task' = [task EXCEPT ![i] = [step |-> step, booking |-> booking, id |-> id,
                               pdf |-> pdf, wire |-> wire]]

Goto(i, step) ==
  Proceed(i, step, Booking(i), task[i].id, task[i].pdf, task[i].wire)

(* UpdateNotification saves every column of the handler's copy. *)
Save(i, newStatus) ==
  row' = [row EXCEPT ![Booking(i)] =
            [id |-> task[i].id, status |-> newStatus, pdf |-> task[i].pdf]]

Return(i) == task' = [task EXCEPT ![i] = NoTask] /\ UNCHANGED groupVars

(* An error ends ConsumeClaim, and with it the session. *)
ReturnError(i) ==
  /\ task' = [task EXCEPT ![i] = NoTask]
  /\ EndSession(i)
  /\ UNCHANGED <<log, waiting>>

(* Both handlers begin a transaction.  When the claim's cannot begin, txErr *)
(* is set and err is nil: the handler returns nil and the message is passed *)
(* over.                                                                    *)
StartHandler(i) ==
  /\ AtStep(i, "idle")
  /\ \/ /\ Live(i)
        /\ TakeMessage(i)
        /\ Proceed(i, IF session[i].topic = "completed" THEN "count" ELSE "claim",
                   NextMessage(i), 0, FALSE, "other")
     \/ /\ ~ Live(i)
        /\ Readable(i)
        /\ IF session[i].topic = "completed" THEN ReturnError(i)
           ELSE TakeMessage(i) /\ UNCHANGED task
  /\ UNCHANGED <<row, serial, sent, told>>

---------------------------------------------------------------------------
(* CreateNotification *)

CountNotifications(i) ==
  /\ AtStep(i, "count")
  /\ IF Exists(Booking(i)) THEN ReturnError(i)
     ELSE Goto(i, "insert") /\ UNCHANGED groupVars
  /\ UNCHANGED <<row, serial, sent, told>>

(* Two rows without a PDF are refused by the unique file name: an insert    *)
(* waits for another transaction's, which ends with its session at the      *)
(* latest, and fails on a committed one.  The id is spent either way.       *)
NameTaken == \E b \in Bookings : Exists(b) /\ ~ row[b].pdf

Holding(j) == Live(j) /\ task[j].step \in Uncommitted

InsertNotification(i) ==
  /\ AtStep(i, "insert")
  /\ Live(i)
  /\ \A j \in Instances : ~ Holding(j)
  /\ serial' = serial + 1
  /\ IF NameTaken \/ Exists(Booking(i)) THEN ReturnError(i)
     ELSE /\ Proceed(i, "produce", Booking(i), serial + 1, FALSE, "other")
          /\ UNCHANGED groupVars
  /\ UNCHANGED <<row, sent, told>>

(* The message carries the booking's id where the reader expects the        *)
(* notification's, and is out before the row is committed, or even after    *)
(* the row was rolled back.                                                 *)
ProduceNotificationCreated(i) ==
  /\ task[i].step \in {"produce", "reproduce"}
  /\ Publish("created", Booking(i))
  /\ Goto(i, "commit")
  /\ UNCHANGED <<waiting, session, row, serial, sent, told>>

CommitNotification(i) ==
  /\ AtStep(i, "commit")
  /\ Live(i)
  /\ Save(i, "PENDING")
  /\ Return(i)
  /\ UNCHANGED <<serial, sent, told>>

---------------------------------------------------------------------------
(* GeneratePDFAndSendEmail *)

(* The read of updateNotificationFromPendingToProcessing, by notification_id. *)
Found(i, b) == Exists(b) /\ row[b].id = task[i].booking

(* Mutant: a notification is processed whatever its status. *)
Claimable(s) == s # "absent"

Unclaimed(s) == s = "PENDING"

ReadNotification(i) ==
  /\ AtStep(i, "claim")
  /\ \/ \E b \in Bookings :
          /\ Found(i, b)
          /\ IF Unclaimed(row[b].status)
             THEN /\ Proceed(i, "process", b, row[b].id, row[b].pdf, "other")
                  /\ UNCHANGED groupVars
             ELSE Return(i)
     \/ /\ \A b \in Bookings : ~ Found(i, b)
        /\ ReturnError(i)
  /\ UNCHANGED <<row, serial, sent, told>>

(* ... its write ... *)
MarkProcessing(i) ==
  /\ AtStep(i, "process")
  /\ Save(i, "PROCESSING")
  /\ Goto(i, "confirm")
  /\ UNCHANGED <<groupVars, serial, sent, told>>

(* Mutant: the claim is taken for made whether its commit succeeds or not. *)
CommitClaimAnyway(i) ==
  /\ AtStep(i, "confirm")
  /\ Goto(i, "fetch")
  /\ UNCHANGED <<groupVars, row, serial, sent, told>>

(* ... and the commit of its transaction, empty as it is.  When that fails  *)
(* err is nil again: the notification counts as not updated and stays as    *)
(* it was written.                                                          *)
CommitClaim(i) ==
  /\ AtStep(i, "confirm")
  /\ Live(i)
  /\ Goto(i, "fetch")
  /\ UNCHANGED <<groupVars, row, serial, sent, told>>

(* Mutant: the status is forwarded as it is stored. *)
OnTheWireUnchanged(s) == s

(* BookingService numbers INITIALIZING, PENDING, CONFIRMED, CANCEL from 0;  *)
(* the proto it answers with numbers PENDING, CONFIRMED, CANCEL from 0.     *)
OnTheWire(s) ==
  CASE s = "PENDING" -> "CONFIRMED"
    [] s = "CONFIRMED" -> "CANCEL"
    [] OTHER -> "other"

(* Mutant: a booking of another status counts as done. *)
StepOrFinish(wire) ==
  CASE wire = "CANCEL" -> "send"
    [] wire = "CONFIRMED" -> "render"
    [] OTHER -> "finish"

StepFor(wire) ==
  CASE wire = "CANCEL" -> "send"
    [] wire = "CONFIRMED" -> "render"
    [] OTHER -> "drop"

FetchBooking(i, bookingStatus) ==
  /\ AtStep(i, "fetch")
  /\ Live(i)
  /\ Proceed(i, StepFor(OnTheWire(bookingStatus)), Booking(i),
             task[i].id, task[i].pdf, OnTheWire(bookingStatus))
  /\ UNCHANGED <<groupVars, row, serial, sent, told>>

(* The showtime and the seat are fetched, the file is made and uploaded ... *)
RenderPDF(i) ==
  /\ AtStep(i, "render")
  /\ Live(i)
  /\ Proceed(i, "attach", Booking(i), task[i].id, TRUE, task[i].wire)
  /\ UNCHANGED <<groupVars, row, serial, sent, told>>

(* ... its name is saved ... *)
SaveFilename(i) ==
  /\ AtStep(i, "attach")
  /\ Save(i, "PROCESSING")
  /\ Goto(i, "load")
  /\ UNCHANGED <<groupVars, serial, sent, told>>

(* ... and the file is downloaded for the mail. *)
AttachPDF(i) ==
  /\ AtStep(i, "load")
  /\ Live(i)
  /\ Goto(i, "send")
  /\ UNCHANGED <<groupVars, row, serial, sent, told>>

TextOf(wire) == IF wire = "CANCEL" THEN "failed" ELSE "paid"

Mail(i) ==
  /\ sent' = [sent EXCEPT ![Booking(i)] = @ + 1]
  /\ told' = [told EXCEPT ![Booking(i)] = @ \union {TextOf(task[i].wire)}]

Send(i) ==
  /\ AtStep(i, "send")
  /\ Mail(i)
  /\ Goto(i, "finish")
  /\ UNCHANGED <<groupVars, row, serial>>

MarkSuccess(i) ==
  /\ AtStep(i, "finish")
  /\ Save(i, "SUCCESS")
  /\ Return(i)
  /\ UNCHANGED <<serial, sent, told>>

MarkFailed(i) ==
  /\ \/ AtStep(i, "fail") /\ ReturnError(i)
     \/ AtStep(i, "drop") /\ Return(i)
  /\ Save(i, "FAILED")
  /\ UNCHANGED <<serial, sent, told>>

---------------------------------------------------------------------------
(* Failures *)

(* A call that is given the session's context fails; an insert that failed  *)
(* may have spent its id.                                                   *)
CallFails(i) ==
  /\ \/ task[i].step \in {"insert", "commit"} /\ ReturnError(i)
     \/ AtStep(i, "confirm") /\ Return(i)
     \/ /\ task[i].step \in {"fetch", "render", "load"}
        /\ Goto(i, "fail")
        /\ UNCHANGED groupVars
  /\ serial' = serial \/ (AtStep(i, "insert") /\ serial' = serial + 1)
  /\ UNCHANGED <<row, sent, told>>

CancelledCall(i) == ~ Live(i) /\ CallFails(i)

(* Another query or update fails, or the claim's transaction cannot begin;  *)
(* a commit may have been made although it reports an error.                *)
StatementFails(i) ==
  /\ \/ task[i].step \in {"count", "claim", "process"} /\ ReturnError(i) /\ UNCHANGED row
     \/ AtStep(i, "claim") /\ Return(i) /\ UNCHANGED row
     \/ AtStep(i, "attach") /\ Goto(i, "fail") /\ UNCHANGED <<groupVars, row>>
     \/ AtStep(i, "commit") /\ Live(i) /\ ReturnError(i) /\ Save(i, "PENDING")
  /\ UNCHANGED <<serial, sent, told>>

(* The broker does not acknowledge; the producer tries once more. *)
ProduceUnanswered(i) ==
  /\ task[i].step \in {"produce", "reproduce"}
  /\ log' \in {log, [log EXCEPT !["created"] = Append(@, Booking(i))]}
  /\ IF AtStep(i, "produce") THEN Goto(i, "reproduce") /\ UNCHANGED session
     ELSE task' = [task EXCEPT ![i] = NoTask] /\ EndSession(i)
  /\ UNCHANGED <<waiting, row, serial, sent, told>>

(* A mail server that reports a failure may have sent the mail. *)
SendFails(i) ==
  /\ AtStep(i, "send")
  /\ Mail(i) \/ UNCHANGED <<sent, told>>
  /\ Goto(i, "fail")
  /\ UNCHANGED <<groupVars, row, serial>>

(* Only logged. *)
LastUpdateFails(i) ==
  /\ \/ task[i].step \in {"finish", "drop"} /\ Return(i)
     \/ AtStep(i, "fail") /\ ReturnError(i)
  /\ UNCHANGED <<row, serial, sent, told>>

Restart(i) ==
  /\ StartAgain(i)
  /\ task' = [task EXCEPT ![i] = NoTask]
  /\ UNCHANGED <<row, serial, sent, told>>
============================================================================
