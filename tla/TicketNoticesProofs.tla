------------------------ MODULE TicketNoticesProofs ------------------------
(***************************************************************************)
(* The inductive invariant of TicketNotices and the properties it implies, *)
(* for every set of bookings, every set of processes and every bound.      *)
(*                                                                         *)
(* Each part of the invariant has a lemma that says which steps cannot     *)
(* disturb it; the steps are then taken one by one.                        *)
(***************************************************************************)
EXTENDS TicketNoticesTypes

(* What one process's handler does leaves the others alone. *)
Others(i) ==
  \A j \in Instances : j # i => task'[j] = task[j] /\ session'[j] = session[j]

(* Notifications and the news of payments only grow, no row becomes PENDING   *)
(* again.                                                                     *)
Grows ==
  \A b \in Bookings :
    /\ Announced(b) => Announced(b)'
    /\ Exists(b) => Exists(b)'
    /\ Exists(b) /\ row[b].status # "PENDING" => row'[b].status # "PENDING"
    /\ sent[b] > 0 => sent'[b] > 0

---------------------------------------------------------------------------
(* The parts *)

(* A session goes on, with a handler that stays of its kind or returns. *)
LEMMA SessionGoesOn ==
  ASSUME SessionInv, NEW i \in Instances, Others(i), session'[i] = session[i],
         evictions' = evictions,
         \/ task'[i].step = "idle"
         \/ task[i].step \in CreateStep /\ task'[i].step \in CreateStep
         \/ task[i].step \in MailStep /\ task'[i].step \in MailStep
  PROVE  SessionInv'
<1>1. \A j \in Instances : session'[j] = session[j]
  BY DEF Others
<1>2. \A j \in Instances :
        /\ task'[j].step # "idle" => task[j].step # "idle"
        /\ task'[j].step \in CreateStep => task[j].step \in CreateStep
        /\ task'[j].step \in MailStep => task[j].step \in MailStep
  BY DEF Others, CreateStep, MailStep
<1>3. QED
  BY <1>1, <1>2 DEF SessionInv, Partitioned

(* A session ends with its handler. *)
LEMMA SessionEnds ==
  ASSUME SessionInv, NEW i \in Instances, Others(i),
         session'[i].phase \in {"none", "ending", "evicted"},
         session'[i].phase = "evicted" => evictions' > 0,
         \/ task'[i].step = "idle"
         \/ /\ task'[i] = task[i]
            /\ session'[i].topic = session[i].topic
            /\ session'[i].phase # "none",
         evictions > 0 => evictions' > 0
  PROVE  SessionInv'
<1>1. \A j \in Instances : task'[j].step # "idle" => Partitioned(j)'
  BY DEF SessionInv, Others, Partitioned
<1>2. \A j \in Instances :
        /\ task'[j].step \in CreateStep => session'[j].topic = "completed"
        /\ task'[j].step \in MailStep => session'[j].topic = "created"
        /\ session'[j].phase = "evicted" => evictions' > 0
  BY DEF SessionInv, Others, CreateStep, MailStep
<1>3. \A j, k \in Instances :
        /\ session'[j].phase = "claimed"
        /\ session'[k].phase = "claimed"
        /\ session'[j].topic = session'[k].topic
        => j = k
  BY DEF SessionInv, Others
<1>4. QED
  BY <1>1, <1>2, <1>3 DEF SessionInv

(* Handlers are judged one by one, once the tables only grow. *)
LEMMA TaskMoves ==
  ASSUME TaskInv, Named, NEW i \in Instances, Others(i), Grows,
         \A j \in Instances :
           j # i /\ Holding(j) => ~ Exists(Booking(j))',
         task'[i].step \in CreateStep => Announced(Booking(i))',
         Holding(i)' =>
           /\ ~ Exists(Booking(i))'
           /\ \A j \in Instances : j # i => ~ Holding(j),
         task'[i].step \in MailStep \ {"claim"} => Exists(Booking(i))',
         task'[i].step = "confirm" => row'[task'[i].booking].status # "PENDING",
         task'[i].step = "finish" => sent'[task'[i].booking] > 0
  PROVE  TaskInv'
<1> SUFFICES ASSUME NEW k \in Instances
             PROVE  /\ task'[k].step \in CreateStep => Announced(Booking(k))'
                    /\ Holding(k)' =>
                         /\ ~ Exists(Booking(k))'
                         /\ \A j \in Instances : Holding(j)' => k = j
                    /\ task'[k].step \in MailStep \ {"claim"} => Exists(Booking(k))'
                    /\ task'[k].step = "confirm"
                         => row'[task'[k].booking].status # "PENDING"
                    /\ task'[k].step = "finish" => sent'[task'[k].booking] > 0
  BY DEF TaskInv, Booking
<1>0. \A j \in Instances : j # i => Holding(j)' = Holding(j)
  BY DEF Others, Holding, Live
<1>1. CASE k = i
  BY <1>0, <1>1
<1>2. CASE k # i
  <2>1. task'[k] = task[k]
    BY <1>2 DEF Others
  <2>2. Booking(k)' = Booking(k)
    BY <2>1 DEF Booking
  <2>3. task[k].step # "idle" => Booking(k) \in Bookings
    BY DEF Named, AtStep
  <2>4. task'[k].step \in CreateStep => Announced(Booking(k))'
    <3> HAVE task'[k].step \in CreateStep
    <3>1. Announced(Booking(k)) /\ Booking(k) \in Bookings
      BY <2>1, <2>3 DEF TaskInv, CreateStep
    <3>2. QED
      BY <2>2, <3>1 DEF Grows, Announced
  <2>5. Holding(k)' =>
          /\ ~ Exists(Booking(k))'
          /\ \A j \in Instances : Holding(j)' => k = j
    BY <1>0, <1>2 DEF TaskInv
  <2>6. task'[k].step \in MailStep \ {"claim"} => Exists(Booking(k))'
    <3> HAVE task'[k].step \in MailStep \ {"claim"}
    <3>1. Exists(Booking(k)) /\ Booking(k) \in Bookings
      BY <2>1, <2>3 DEF TaskInv, MailStep
    <3>2. QED
      BY <2>2, <3>1 DEF Grows, Exists
  <2>7. task'[k].step = "finish" => sent'[task'[k].booking] > 0
    BY <2>1, <2>3 DEF TaskInv, Grows, Booking
  <2>8. task'[k].step = "confirm" => row'[task'[k].booking].status # "PENDING"
    <3> HAVE task'[k].step = "confirm"
    <3>1. /\ Exists(Booking(k)) /\ Booking(k) \in Bookings
          /\ row[Booking(k)].status # "PENDING"
      BY <2>1, <2>3 DEF TaskInv, MailStep
    <3>2. QED
      BY <2>2, <3>1 DEF Grows, Booking
  <2>9. QED
    BY <2>4, <2>5, <2>6, <2>7, <2>8
<1>3. QED
  BY <1>1, <1>2

(* Rows are made for announced payments, mails are sent about rows. *)
LEMMA PaymentMoves ==
  ASSUME PaymentInv, Grows,
         \A b \in Bookings :
           /\ Announced(b)' => outcome'[b] # "open"
           /\ Exists(b)' => Exists(b) \/ Announced(b)
           /\ sent'[b] > 0 => sent[b] > 0 \/ Exists(b)
           /\ row'[b].status = "SUCCESS" => row[b].status = "SUCCESS" \/ sent[b] > 0
  PROVE  PaymentInv'
  BY DEF PaymentInv, Grows

(* No mail is sent, no claim is read or written, and no row goes back to      *)
(* PENDING.                                                                   *)
LEMMA MailUndisturbed ==
  ASSUME MailInv, evictions' = 0 => evictions = 0,
         \A b \in Bookings :
           /\ sent'[b] = sent[b]
           /\ row'[b].status \in {"absent", "PENDING"}
                => row[b].status \in {"absent", "PENDING"}
           /\ \A i \in Instances : Mailing(i, b)' => Mailing(i, b)
           /\ \A i \in Instances : Claiming(i, b)' => Claiming(i, b)
  PROVE  MailInv'
  BY DEF MailInv

(* Nobody gets past a claim or reads one, and a row that is written is in     *)
(* PROCESSING or nobody's any more.                                           *)
LEMMA WriterUndisturbed ==
  ASSUME WriterInv, evictions' = 0 => evictions = 0,
         \A b \in Bookings :
           /\ \A i \in Instances : Writing(i, b)' => Writing(i, b)
           /\ \A i \in Instances : Claiming(i, b)' => Claiming(i, b)
           /\ \/ row'[b].status \in {row[b].status, "PROCESSING"}
              \/ evictions = 0 =>
                   \A i \in Instances : ~ Writing(i, b)' /\ ~ Claiming(i, b)'
  PROVE  WriterInv'
  BY DEF WriterInv

(* A process alone goes on in silence. *)
LEMMA SilentGoesOn ==
  ASSUME SilentInv, NEW i \in Instances, Others(i), sent' = sent,
         session'[i] = session[i], task'[i].step \notin MailStep,
         task[i].step \in CreateStep => session[i].topic = "completed",
         log'["created"] = log["created"] \/ task[i].step \in CreateStep
  PROVE  SilentInv'
  BY DEF SilentInv, Others, Alone, Partitioned

LEMMA SilentEnds ==
  ASSUME SilentInv, NEW i \in Instances, Others(i), sent' = sent,
         session'[i].phase = "none", task'[i].step \notin MailStep
  PROVE  SilentInv'
  BY DEF SilentInv, Others, Alone, Partitioned

---------------------------------------------------------------------------
(* The steps of handlers *)

Safe == SessionInv /\ TaskInv /\ PaymentInv /\ MailInv /\ WriterInv /\ SilentInv

(* A handler goes on as what it is, with the same booking, or returns. *)
GoesOn(i) ==
  \/ task'[i].step = "idle"
  \/ /\ task'[i].booking = task[i].booking
     /\ \/ task[i].step \in CreateStep /\ task'[i].step \in CreateStep
        \/ task[i].step \in MailStep /\ task'[i].step \in MailStep \ {"claim"}

(* It saves its row, if any, with the status its step is for. *)
SavesRow(i) ==
  \A b \in Bookings :
    \/ row'[b] = row[b]
    \/ /\ b = Booking(i)
       /\ \/ task[i].step \in MailStep \ {"claim"} /\ row'[b].status = "PROCESSING"
          \/ /\ \/ task[i].step \in {"fail", "drop"} /\ row'[b].status = "FAILED"
                \/ task[i].step = "finish" /\ row'[b].status = "SUCCESS"
                \/ task[i].step = "commit" /\ Holding(i) /\ row'[b].status = "PENDING"
             /\ task'[i].step = "idle"

(* Every step of a handler but those that start it, read or commit a claim or *)
(* send its mail.                                                             *)
LEMMA HandlerStep ==
  ASSUME TypeInv, Safe, NEW i \in Instances, Others(i), GoesOn(i), SavesRow(i),
         UNCHANGED <<sent, outcome, evictions>>,
         session'[i] = session[i] \/ (session'[i] = NoSession /\ task'[i].step = "idle"),
         log'["completed"] = log["completed"],
         log'["created"] = log["created"] \/ task[i].step \in CreateStep,
         task'[i].step \in {"fetch", "render", "attach", "load", "send", "fail", "drop"}
           => task[i].step \in {"fetch", "render", "attach", "load", "send"},
         task'[i].step \notin {"process", "finish"},
         task'[i].step = "confirm" =>
           task[i].step = "process" /\ row'[Booking(i)].status = "PROCESSING",
         task[i].step = "claim" => task'[i].step = "idle",
         Holding(i)' =>
           /\ ~ Exists(Booking(i))'
           /\ \A j \in Instances : j # i => ~ Holding(j)
  PROVE  Safe'
<1> USE DEF Safe
<1>1. SessionInv'
  <2>1. CASE session'[i] = session[i]
    BY <2>1, SessionGoesOn DEF GoesOn
  <2>2. CASE session'[i] = NoSession /\ task'[i].step = "idle"
    BY <2>2, SessionEnds DEF NoSession
  <2>3. QED
    BY <2>1, <2>2
<1>2. \A b \in Bookings : Announced(b)' = Announced(b)
  BY DEF Announced
<1>3. task[i].step # "idle" => Booking(i) \in Bookings
  BY DEF TypeInv, Named, AtStep
<1>4. Grows
  BY <1>2 DEF Grows, SavesRow, Exists, TaskInv
<1>5. TaskInv'
  <2>1. \A j \in Instances :
          j # i /\ Holding(j) => ~ Exists(Booking(j))'
    <3> SUFFICES ASSUME NEW j \in Instances, j # i, Holding(j)
                 PROVE  row'[task'[j].booking].status = "absent"
      BY DEF Exists, Booking
    <3>1. Booking(j) \in Bookings /\ task'[j].booking = Booking(j)
      BY DEF TypeInv, Named, AtStep, Others, Booking, Holding, Uncommitted
    <3>2. row[Booking(j)].status = "absent" /\ ~ Holding(i)
      BY DEF TaskInv, Exists
    <3>3. task[i].step \in MailStep \ {"claim"} => Booking(i) # Booking(j)
      BY <3>2 DEF TaskInv, Exists
    <3>4. QED
      BY <3>1, <3>2, <3>3 DEF SavesRow, MailStep
  <2>2. task'[i].step \in CreateStep => Announced(Booking(i))'
    <3> HAVE task'[i].step \in CreateStep
    <3>1. task[i].step \in CreateStep /\ task'[i].booking = Booking(i)
      BY DEF GoesOn, CreateStep, MailStep, Booking
    <3>2. Announced(Booking(i)) /\ Booking(i) \in Bookings
      BY <1>3, <3>1 DEF TaskInv, CreateStep
    <3>3. QED
      BY <3>1, <3>2 DEF Announced, Booking
  <2>3. task'[i].step \in MailStep \ {"claim"} => Exists(Booking(i))'
    <3> HAVE task'[i].step \in MailStep \ {"claim"}
    <3>1. task[i].step \in MailStep \ {"claim"} /\ task'[i].booking = Booking(i)
      BY DEF GoesOn, CreateStep, MailStep, Booking
    <3>2. Exists(Booking(i)) /\ Booking(i) \in Bookings
      BY <1>3, <3>1 DEF TaskInv, MailStep
    <3>3. QED
      BY <1>4, <3>1, <3>2 DEF Grows, Exists, Booking
  <2>4. task'[i].step = "confirm" => row'[task'[i].booking].status # "PENDING"
    BY DEF GoesOn, Booking
  <2>5. QED
    BY <1>4, <2>1, <2>2, <2>3, <2>4, TaskMoves DEF TypeInv
<1>6. PaymentInv'
  <2>1. \A b \in Bookings : Exists(b)' => Exists(b) \/ Announced(b)
    BY DEF SavesRow, Exists, TaskInv, CreateStep, MailStep
  <2>2. \A b \in Bookings :
          row'[b].status = "SUCCESS" => row[b].status = "SUCCESS" \/ sent[b] > 0
    BY DEF SavesRow, TaskInv
  <2>3. QED
    BY <1>2, <1>4, <2>1, <2>2, PaymentMoves DEF PaymentInv
<1>7. MailInv'
  <2>1. \A b \in Bookings :
          row'[b].status \in {"absent", "PENDING"}
            => row[b].status \in {"absent", "PENDING"}
    BY DEF SavesRow, TaskInv, Exists
  <2>2. \A b \in Bookings : \A j \in Instances :
          /\ Mailing(j, b)' => Mailing(j, b)
          /\ Claiming(j, b)' => Claiming(j, b)
    BY DEF Mailing, Claiming, Booking, Others, GoesOn, NoSession
  <2>3. QED
    BY <2>1, <2>2, MailUndisturbed
<1>8. SilentInv'
  <2>1. task'[i].step \in MailStep => task[i].step \in MailStep
    BY DEF GoesOn, CreateStep, MailStep
  <2>2. ASSUME Alone PROVE task'[i].step \notin MailStep
    BY <2>1, <2>2 DEF SilentInv
  <2>3. task[i].step \in CreateStep => session[i].topic = "completed"
    BY DEF SessionInv
  <2>4. CASE session'[i] = session[i]
    BY <2>2, <2>3, <2>4 DEF SilentInv, Others, Alone, Partitioned
  <2>5. CASE session'[i] = NoSession
    BY <2>2, <2>5 DEF SilentInv, Others, Alone, Partitioned, NoSession
  <2>6. QED
    BY <2>4, <2>5
<1>9. WriterInv'
  <2>1. \A b \in Bookings : \A j \in Instances :
          /\ Writing(j, b)' => Writing(j, b) /\ (j = i => task'[i].step # "idle")
          /\ Claiming(j, b)' => Claiming(j, b) /\ (j = i => task'[i].step # "idle")
    BY DEF Writing, Claiming, Booking, Others, GoesOn, NoSession
  <2>2. ASSUME NEW b \in Bookings, evictions = 0,
               row'[b].status \notin {row[b].status, "PROCESSING"}
        PROVE  \A j \in Instances : ~ Writing(j, b)' /\ ~ Claiming(j, b)'
    <3>1. b = Booking(i) /\ task'[i].step = "idle"
      BY <2>2 DEF SavesRow
    <3>2. CASE Writing(i, b)
      BY <2>1, <2>2, <3>1, <3>2 DEF WriterInv
    <3>3. CASE task[i].step = "commit" /\ Holding(i)
      <4>1. ~ Exists(b)
        BY <3>1, <3>3 DEF TaskInv
      <4>2. \A j \in Instances : ~ Writing(j, b) /\ ~ Claiming(j, b)
        BY <4>1 DEF TaskInv, MailStep, Writing, Claiming
      <4>3. QED
        BY <2>1, <4>2
    <3>4. QED
      BY <2>2, <3>1, <3>2, <3>3 DEF SavesRow, Writing
  <2>3. QED
    BY <2>1, <2>2, WriterUndisturbed
<1>10. QED
  BY <1>1, <1>5, <1>6, <1>7, <1>8, <1>9

(* What a handler's step does to handlers and sessions.                       *)
LEMMA Proceeds ==
  ASSUME TypeInv, NEW i \in Instances, session' = session,
         NEW step, NEW booking, NEW id, NEW pdf, NEW wire,
         Proceed(i, step, booking, id, pdf, wire)
  PROVE  /\ Others(i) /\ session'[i] = session[i]
         /\ task'[i].step = step /\ task'[i].booking = booking
  BY DEF Proceed, Others, TypeInv, TypeOK, ServiceTypeOK

LEMMA Goes ==
  ASSUME TypeInv, NEW i \in Instances, session' = session, NEW step, Goto(i, step)
  PROVE  /\ Others(i) /\ session'[i] = session[i]
         /\ task'[i].step = step /\ task'[i].booking = task[i].booking
  BY Proceeds DEF Goto, Booking

LEMMA Returns ==
  ASSUME TypeInv, NEW i \in Instances, task' = [task EXCEPT ![i] = NoTask],
         session' = session \/ EndSession(i)
  PROVE  /\ Others(i) /\ task'[i].step = "idle"
         /\ session'[i] = session[i] \/ session'[i] = NoSession
  BY DEF EndSession, Others, NoTask, TypeInv, TypeOK, ServiceTypeOK, GroupTypeOK

LEMMA Saves ==
  ASSUME TypeInv, NEW i \in Instances, NEW s, Save(i, s)
  PROVE  \A b \in Bookings :
           row'[b] = row[b] \/ (b = Booking(i) /\ row'[b].status = s)
  BY DEF Save, TypeInv, TypeOK, ServiceTypeOK

LEMMA Publishes ==
  ASSUME TypeInv, NEW b, Publish("created", b)
  PROVE  log'["completed"] = log["completed"]
  BY DEF Publish, TypeInv, TypeOK, GroupTypeOK, Topics

(* A transaction that is held on to, while the session lasts.                 *)
LEMMA HoldsOn ==
  ASSUME Safe, NEW i \in Instances, row' = row, session'[i] = session[i],
         task[i].step \in Uncommitted, task'[i].booking = task[i].booking,
         Holding(i)'
  PROVE  /\ ~ Exists(Booking(i))'
         /\ \A j \in Instances : j # i => ~ Holding(j)
<1>1. Holding(i)
  BY DEF Holding, Live
<1>2. QED
  BY <1>1 DEF Safe, TaskInv, Exists, Booking

(* CreateNotification.                                                        *)
LEMMA CreateTaskSafe ==
  ASSUME TypeInv, Safe, NEW i \in Instances, CreateTaskStep(i),
         UNCHANGED <<bookingVars, boundVars>>
  PROVE  Safe'
<1> USE DEF bookingVars, boundVars
<1>1. CASE CountNotifications(i)
  <2>1. SavesRow(i) /\ UNCHANGED <<log, sent>> /\ task[i].step = "count"
    BY <1>1 DEF CountNotifications, SavesRow, ReturnError, AtStep, groupVars
  <2>2. CASE ReturnError(i)
    BY <2>1, <2>2, Returns, HandlerStep DEF ReturnError, GoesOn, Holding, Uncommitted
  <2>3. CASE Goto(i, "insert") /\ UNCHANGED groupVars
    BY <2>1, <2>3, Goes, HandlerStep DEF groupVars, GoesOn, CreateStep, MailStep, Holding, Uncommitted
  <2>4. QED
    BY <1>1, <2>2, <2>3 DEF CountNotifications
<1>2. CASE InsertNotification(i)
  <2>1. SavesRow(i) /\ UNCHANGED <<log, row, sent>> /\ task[i].step = "insert"
    BY <1>2 DEF InsertNotification, SavesRow, ReturnError, AtStep, groupVars
  <2>2. CASE ReturnError(i)
    BY <2>1, <2>2, Returns, HandlerStep DEF ReturnError, GoesOn, Holding, Uncommitted
  <2>3. CASE /\ ~ Exists(Booking(i))
             /\ Proceed(i, "produce", Booking(i), serial + 1, FALSE, "other")
             /\ UNCHANGED groupVars
    <3>1. /\ Others(i) /\ session'[i] = session[i]
          /\ task'[i].step = "produce" /\ task'[i].booking = task[i].booking
      BY <2>3, Proceeds DEF groupVars, Booking
    <3>2. ~ Exists(Booking(i))'
      BY <2>1, <2>3, <3>1 DEF Exists, Booking
    <3>3. \A j \in Instances : ~ Holding(j)
      BY <1>2 DEF InsertNotification
    <3>4. QED
      BY <2>1, <3>1, <3>2, <3>3, HandlerStep DEF GoesOn, CreateStep, MailStep
  <2>4. QED
    BY <1>2, <2>2, <2>3 DEF InsertNotification
<1>3. CASE ProduceNotificationCreated(i)
  <2>1. /\ SavesRow(i) /\ UNCHANGED <<row, sent>> /\ task[i].step \in Uncommitted
        /\ log'["completed"] = log["completed"]
    BY <1>3, Publishes DEF ProduceNotificationCreated, SavesRow, Uncommitted
  <2>2. /\ Others(i) /\ session'[i] = session[i]
        /\ task'[i].step = "commit" /\ task'[i].booking = task[i].booking
    BY <1>3, Goes DEF ProduceNotificationCreated
  <2>3. Holding(i)' =>
          /\ ~ Exists(Booking(i))'
          /\ \A j \in Instances : j # i => ~ Holding(j)
    BY <2>1, <2>2, HoldsOn
  <2>4. task[i].step \in CreateStep
    BY <2>1 DEF Uncommitted, CreateStep
  <2>5. QED
    BY <2>1, <2>2, <2>3, <2>4, HandlerStep DEF GoesOn, CreateStep, MailStep
<1>4. CASE CommitNotification(i)
  <2>1. UNCHANGED <<log, session, sent>> /\ task[i].step = "commit"
        /\ task' = [task EXCEPT ![i] = NoTask]
    BY <1>4 DEF CommitNotification, Return, AtStep, groupVars
  <2>2. SavesRow(i)
    BY <1>4, <2>1, Saves, Returns DEF CommitNotification, SavesRow, Holding, Uncommitted
  <2>3. QED
    BY <2>1, <2>2, Returns, HandlerStep DEF GoesOn, Holding, Uncommitted
<1>5. QED
  BY <1>1, <1>2, <1>3, <1>4 DEF CreateTaskStep

(* A session that reads is served by the broker, or is not.                   *)
LEMMA LiveIsClaimed ==
  ASSUME SessionInv, NEW i \in Instances, Live(i), evictions = 0
  PROVE  session[i].phase = "claimed"
  BY DEF SessionInv, Live

(* Handlers whose calls fail, and processes that die.                         *)
LEMMA TaskFaultSafe ==
  ASSUME TypeInv, Safe, NEW i \in Instances, TaskFault(i),
         UNCHANGED <<sent, bookingVars, evictions>>
  PROVE  Safe'
<1> USE DEF bookingVars
<1>1. CASE StatementFails(i)
  <2>1. log' = log /\ SavesRow(i)
    <3>1. CASE row' = row
      BY <1>1, <3>1 DEF StatementFails, SavesRow, ReturnError, Return, groupVars
    <3>2. CASE AtStep(i, "commit") /\ Live(i) /\ ReturnError(i) /\ Save(i, "PENDING")
      BY <3>2, Saves, Returns
      DEF SavesRow, AtStep, ReturnError, Holding, Uncommitted
    <3>3. QED
      BY <1>1, <3>1, <3>2 DEF StatementFails
  <2>2. CASE /\ task' = [task EXCEPT ![i] = NoTask]
             /\ session' = session \/ EndSession(i)
    BY <2>1, <2>2, Returns, HandlerStep DEF GoesOn, Holding, Uncommitted
  <2>3. CASE AtStep(i, "attach") /\ Goto(i, "fail") /\ session' = session
    <3>1. /\ Others(i) /\ session'[i] = session[i]
          /\ task'[i].step = "fail" /\ task'[i].booking = task[i].booking
      BY <2>3, Goes
    <3>2. QED
      BY <2>1, <2>3, <3>1, HandlerStep DEF GoesOn, AtStep, MailStep, Holding, Uncommitted
  <2>4. QED
    BY <1>1, <2>2, <2>3 DEF StatementFails, ReturnError, Return, groupVars
<1>2. CASE ProduceUnanswered(i)
  <2>1. task[i].step \in Uncommitted /\ row' = row
    BY <1>2 DEF ProduceUnanswered, Uncommitted
  <2>2. task[i].step \in CreateStep /\ SavesRow(i)
    BY <2>1 DEF Uncommitted, CreateStep, SavesRow
  <2>3. log'["completed"] = log["completed"]
    BY <1>2 DEF ProduceUnanswered, TypeInv, TypeOK, GroupTypeOK, Topics
  <2>4. CASE Goto(i, "reproduce") /\ UNCHANGED session
    <3>1. /\ Others(i) /\ session'[i] = session[i]
          /\ task'[i].step = "reproduce" /\ task'[i].booking = task[i].booking
      BY <2>4, Goes
    <3>2. Holding(i)' =>
            /\ ~ Exists(Booking(i))'
            /\ \A j \in Instances : j # i => ~ Holding(j)
      BY <2>1, <3>1, HoldsOn
    <3>3. QED
      BY <2>2, <2>3, <3>1, <3>2, HandlerStep DEF GoesOn, CreateStep, MailStep
  <2>5. CASE task' = [task EXCEPT ![i] = NoTask] /\ EndSession(i)
    BY <2>2, <2>3, <2>5, Returns, HandlerStep DEF GoesOn, Holding, Uncommitted
  <2>6. QED
    BY <1>2, <2>4, <2>5 DEF ProduceUnanswered
<1>3. CASE CallFails(i)
  <2>1. log' = log /\ SavesRow(i)
    BY <1>3 DEF CallFails, SavesRow, ReturnError, Return, groupVars
  <2>2. CASE /\ task' = [task EXCEPT ![i] = NoTask]
             /\ session' = session \/ EndSession(i)
    BY <2>1, <2>2, Returns, HandlerStep DEF GoesOn, Holding, Uncommitted
  <2>3. CASE /\ task[i].step \in {"fetch", "render", "load"}
             /\ Goto(i, "fail") /\ session' = session
    <3>1. /\ Others(i) /\ session'[i] = session[i]
          /\ task'[i].step = "fail" /\ task'[i].booking = task[i].booking
      BY <2>3, Goes
    <3>2. QED
      BY <2>1, <2>3, <3>1, HandlerStep DEF GoesOn, MailStep, Holding, Uncommitted
  <2>4. QED
    BY <1>3, <2>2, <2>3 DEF CallFails, ReturnError, Return, groupVars
<1>4. CASE SendFails(i)
  <2>1. task[i].step = "send" /\ UNCHANGED <<session, log, row>>
    BY <1>4 DEF SendFails, groupVars, AtStep
  <2>2. /\ Others(i) /\ session'[i] = session[i]
        /\ task'[i].step = "fail" /\ task'[i].booking = task[i].booking
    BY <1>4, <2>1, Goes DEF SendFails
  <2>3. SavesRow(i)
    BY <2>1 DEF SavesRow
  <2>4. QED
    BY <2>1, <2>2, <2>3, HandlerStep DEF GoesOn, MailStep, Holding, Uncommitted
<1>5. CASE LastUpdateFails(i)
  <2>1. /\ task' = [task EXCEPT ![i] = NoTask]
        /\ session' = session \/ EndSession(i)
        /\ UNCHANGED <<log, row>>
    BY <1>5 DEF LastUpdateFails, ReturnError, Return, groupVars
  <2>2. SavesRow(i)
    BY <2>1 DEF SavesRow
  <2>3. task[i].step # "claim"
    BY <1>5 DEF LastUpdateFails, AtStep
  <2>4. QED
    BY <2>1, <2>2, <2>3, Returns, HandlerStep DEF GoesOn, Holding, Uncommitted
<1>6. CASE Restart(i)
  <2>1. SavesRow(i) /\ log' = log /\ EndSession(i)
        /\ task' = [task EXCEPT ![i] = NoTask]
    BY <1>6 DEF Restart, StartAgain, SavesRow
  <2>2. QED
    BY <2>1, Returns, HandlerStep DEF GoesOn, Holding, Uncommitted
<1>7. QED
  BY <1>1, <1>2, <1>3, <1>4, <1>5, <1>6 DEF TaskFault

(* The mail is sent, or may have been: nobody else is at it.                  *)
LEMMA MailSafe ==
  ASSUME TypeInv, Safe, NEW i \in Instances, AtStep(i, "send"), Mail(i),
         \E step \in {"finish", "fail"} : Goto(i, step),
         UNCHANGED <<groupVars, row, outcome, evictions>>
  PROVE  Safe'
<1> USE DEF Safe
<1>1. PICK step \in {"finish", "fail"} : Goto(i, step)
  OBVIOUS
<1>2. /\ Others(i) /\ session' = session /\ log' = log
      /\ task'[i].step = step /\ task'[i].booking = Booking(i)
  BY <1>1, Goes DEF groupVars, Booking
<1>3. Booking(i) \in Bookings /\ Exists(Booking(i)) /\ Mailing(i, Booking(i))
  BY DEF TypeInv, Named, AtStep, TaskInv, MailStep, Mailing
<1>4. /\ \A b \in Bookings : sent[b] \in Nat
      /\ sent' = [sent EXCEPT ![Booking(i)] = sent[Booking(i)] + 1]
      /\ sent \in [Bookings -> Nat]
  BY DEF Mail, TypeInv, TypeOK, ServiceTypeOK
<1>5. /\ sent'[Booking(i)] = sent[Booking(i)] + 1
      /\ \A b \in Bookings \ {Booking(i)} : sent'[b] = sent[b]
  BY <1>3, <1>4
<1>6. Grows
  BY <1>2, <1>4, <1>5 DEF Grows, Announced, Exists
<1>7. SessionInv'
  BY <1>2, SessionGoesOn DEF AtStep, MailStep
<1>8. TaskInv'
  <2>1. task'[i].step \notin CreateStep \union Uncommitted
    BY <1>2 DEF CreateStep, Uncommitted
  <2>2. Exists(Booking(i))'
    BY <1>2, <1>3 DEF Exists, Booking
  <2>3. sent'[task'[i].booking] > 0
    BY <1>2, <1>3, <1>4, <1>5
  <2>4. \A j \in Instances :
          j # i /\ Holding(j) => ~ Exists(Booking(j))'
    BY <1>2 DEF TaskInv, Exists, Booking, Others
  <2>5. QED
    BY <1>2, <1>6, <2>1, <2>2, <2>3, <2>4, TaskMoves DEF TypeInv, Holding
<1>9. PaymentInv'
  <2>1. \A b \in Bookings :
          /\ Announced(b)' => outcome'[b] # "open"
          /\ Exists(b)' => Exists(b) \/ Announced(b)
          /\ row'[b].status = "SUCCESS" => row[b].status = "SUCCESS" \/ sent[b] > 0
    BY <1>2 DEF PaymentInv, Announced, Exists
  <2>2. \A b \in Bookings : sent'[b] > 0 => sent[b] > 0 \/ Exists(b)
    BY <1>3, <1>5
  <2>3. QED
    BY <1>6, <2>1, <2>2, PaymentMoves
<1>10. MailInv'
  <2> SUFFICES ASSUME evictions = 0, NEW b \in Bookings
               PROVE  /\ sent'[b] <= 1
                      /\ row'[b].status \in {"absent", "PENDING"} =>
                           sent'[b] = 0 /\ \A j \in Instances : ~ Mailing(j, b)'
                      /\ \A j \in Instances :
                           Mailing(j, b)' =>
                             /\ sent'[b] = 0
                             /\ \A k \in Instances : Mailing(k, b)' => j = k
                      /\ \A j \in Instances :
                           Claiming(j, b)' =>
                             sent'[b] = 0 /\ \A k \in Instances : ~ Mailing(k, b)'
    BY DEF MailInv
  <2>1. ~ Mailing(i, b)' /\ ~ Claiming(i, b)'
    BY <1>2 DEF Mailing, Claiming
  <2>2. \A j \in Instances \ {i} :
          /\ Mailing(j, b)' = Mailing(j, b)
          /\ Claiming(j, b)' = Claiming(j, b)
    BY <1>2 DEF Mailing, Claiming, Others, Booking
  <2>3. CASE b = Booking(i)
    <3>1. sent[b] = 0 /\ row[b].status \notin {"absent", "PENDING"}
      BY <1>3, <2>3 DEF MailInv
    <3>2. \A j \in Instances \ {i} : ~ Mailing(j, b) /\ ~ Claiming(j, b)
      BY <1>3, <2>3 DEF MailInv
    <3>3. sent'[b] = 1
      BY <1>5, <2>3, <3>1
    <3>4. QED
      BY <2>1, <2>2, <3>1, <3>2, <3>3
  <2>4. CASE b # Booking(i)
    BY <1>5, <2>1, <2>2, <2>4 DEF MailInv
  <2>5. QED
    BY <2>3, <2>4
<1>11. SilentInv'
  BY DEF SilentInv, Alone, AtStep, MailStep
<1>12. WriterInv'
  <2>1. \A b \in Bookings : \A j \in Instances :
          /\ Writing(j, b)' => Writing(j, b)
          /\ Claiming(j, b)' => Claiming(j, b)
    BY <1>2 DEF Writing, Claiming, Others, Booking, AtStep
  <2>2. QED
    BY <2>1, WriterUndisturbed
<1>13. QED
  BY <1>7, <1>8, <1>9, <1>10, <1>11, <1>12

(* The claim is read: the row is PENDING, so nobody has mailed or will.       *)
LEMMA ClaimReadSafe ==
  ASSUME TypeInv, Safe, NEW i \in Instances, AtStep(i, "claim"),
         NEW b \in Bookings, row[b].status = "PENDING",
         Proceed(i, "process", b, row[b].id, row[b].pdf, "other"),
         UNCHANGED <<groupVars, row, sent, outcome, evictions>>
  PROVE  Safe'
<1> USE DEF Safe
<1>1. /\ Others(i) /\ session' = session /\ log' = log
      /\ task'[i].step = "process" /\ task'[i].booking = b
  BY Proceeds DEF groupVars
<1>2. SessionInv'
  BY <1>1, SessionGoesOn DEF AtStep, MailStep
<1>3. Grows
  BY <1>1 DEF Grows, Announced, Exists
<1>4. TaskInv'
  <2>1. task'[i].step \notin CreateStep \union Uncommitted
    BY <1>1 DEF CreateStep, Uncommitted
  <2>2. Exists(Booking(i))'
    BY <1>1 DEF Exists, Booking
  <2>3. \A j \in Instances :
          j # i /\ Holding(j) => ~ Exists(Booking(j))'
    BY <1>1 DEF TaskInv, Exists, Booking, Others
  <2>4. QED
    BY <1>1, <1>3, <2>1, <2>2, <2>3, TaskMoves DEF TypeInv, Holding
<1>5. PaymentInv'
  BY <1>1 DEF PaymentInv, Announced, Exists
<1>6. MailInv'
  <2>1. \A c \in Bookings : \A j \in Instances :
          /\ Mailing(j, c)' => Mailing(j, c)
          /\ Claiming(j, c)' => Claiming(j, c) \/ (j = i /\ c = b)
    BY <1>1 DEF Mailing, Claiming, Others, Booking
  <2>2. evictions = 0 => sent[b] = 0 /\ \A j \in Instances : ~ Mailing(j, b)
    BY DEF MailInv
  <2>3. QED
    BY <2>1, <2>2 DEF MailInv
<1>7. WriterInv'
  <2>1. \A c \in Bookings : \A j \in Instances :
          /\ Writing(j, c)' => Writing(j, c)
          /\ Claiming(j, c)' => Claiming(j, c) \/ (j = i /\ c = b)
    BY <1>1 DEF Writing, Claiming, Others, Booking
  <2>2. evictions = 0 => \A j \in Instances : ~ Writing(j, b)
    BY DEF WriterInv
  <2>3. QED
    BY <2>1, <2>2 DEF WriterInv
<1>8. SilentInv'
  BY DEF SilentInv, Alone, AtStep, MailStep
<1>9. QED
  BY <1>2, <1>4, <1>5, <1>6, <1>7, <1>8

(* The claim is committed: the session, if it still has its partition, is the *)
(* only one that can, and the row is no longer PENDING.                       *)
LEMMA ClaimCommittedSafe ==
  ASSUME TypeInv, Safe, NEW i \in Instances, CommitClaim(i),
         UNCHANGED <<outcome, evictions>>
  PROVE  Safe'
<1> USE DEF Safe
<1>1. /\ Others(i) /\ UNCHANGED <<session, log, sent, row>>
      /\ task'[i].step = "fetch" /\ task'[i].booking = Booking(i)
      /\ task[i].step = "confirm"
  BY Goes DEF CommitClaim, groupVars, AtStep, Booking
<1>2. /\ Booking(i) \in Bookings /\ Exists(Booking(i))
      /\ row[Booking(i)].status # "PENDING"
  BY <1>1 DEF TypeInv, Named, AtStep, TaskInv, MailStep
<1>3. Grows
  BY <1>1 DEF Grows, Announced, Exists
<1>4. SessionInv'
  BY <1>1, SessionGoesOn DEF MailStep
<1>5. TaskInv'
  <2>1. task'[i].step \notin CreateStep \union Uncommitted
    BY <1>1 DEF CreateStep, Uncommitted
  <2>2. Exists(Booking(i))'
    BY <1>1, <1>2 DEF Exists, Booking
  <2>3. \A j \in Instances :
          j # i /\ Holding(j) => ~ Exists(Booking(j))'
    BY <1>1 DEF TaskInv, Exists, Booking, Others
  <2>4. QED
    BY <1>1, <1>3, <2>1, <2>2, <2>3, TaskMoves DEF TypeInv, Holding
<1>6. PaymentInv'
  BY <1>1 DEF PaymentInv, Announced, Exists
<1>7. MailInv'
  <2> SUFFICES ASSUME evictions = 0
               PROVE  MailInv'
    BY DEF MailInv
  <2>1. Claiming(i, Booking(i)) /\ session[i].topic = "created"
    BY <1>1, LiveIsClaimed DEF Claiming, CommitClaim, SessionInv, MailStep
  <2>2. \A j \in Instances : \A b \in Bookings : Claiming(j, b) => j = i
    BY <1>1, <2>1 DEF Claiming, SessionInv, MailStep
  <2>3. \A j \in Instances : \A b \in Bookings :
          /\ ~ Claiming(j, b)'
          /\ Mailing(j, b)' => Mailing(j, b) \/ (j = i /\ b = Booking(i))
    BY <1>1, <2>2 DEF Claiming, Mailing, Others, Booking
  <2>4. /\ sent[Booking(i)] = 0 /\ \A j \in Instances : ~ Mailing(j, Booking(i))
        /\ row[Booking(i)].status \notin {"absent", "PENDING"}
    BY <1>2, <2>1 DEF MailInv, Exists
  <2>5. QED
    BY <1>1, <2>3, <2>4 DEF MailInv
<1>8. WriterInv'
  <2> SUFFICES ASSUME evictions = 0
               PROVE  WriterInv'
    BY DEF WriterInv
  <2>1. Claiming(i, Booking(i)) /\ session[i].topic = "created"
    BY <1>1, LiveIsClaimed DEF Claiming, CommitClaim, SessionInv, MailStep
  <2>2. \A j \in Instances : \A b \in Bookings : Claiming(j, b) => j = i
    BY <1>1, <2>1 DEF Claiming, SessionInv, MailStep
  <2>3. \A j \in Instances : \A b \in Bookings :
          /\ ~ Claiming(j, b)'
          /\ Writing(j, b)' => Writing(j, b) \/ (j = i /\ b = Booking(i))
    BY <1>1, <2>2 DEF Claiming, Writing, Others, Booking
  <2>4. /\ row[Booking(i)].status = "PROCESSING"
        /\ \A j \in Instances : ~ Writing(j, Booking(i))
    BY <1>2, <2>1 DEF WriterInv
  <2>5. QED
    BY <1>1, <2>3, <2>4 DEF WriterInv
<1>9. SilentInv'
  BY <1>1 DEF SilentInv, Alone, MailStep
<1>10. QED
  BY <1>4, <1>5, <1>6, <1>7, <1>8, <1>9

(* The mail server reports a failure.                                         *)
LEMMA FailedMailSafe ==
  ASSUME TypeInv, Safe, NEW i \in Instances, SendFails(i),
         UNCHANGED <<status, outcome, evictions>>
  PROVE  Safe'
<1>1. CASE Mail(i)
  BY <1>1, MailSafe DEF SendFails
<1>2. CASE UNCHANGED <<sent, told>>
  <2>1. TaskFault(i)
    BY DEF TaskFault
  <2>2. QED
    BY <1>2, <2>1, TaskFaultSafe DEF bookingVars
<1>3. QED
  BY <1>1, <1>2 DEF SendFails

(* GeneratePDFAndSendEmail.                                                   *)
LEMMA MailTaskSafe ==
  ASSUME TypeInv, Safe, NEW i \in Instances, MailTaskStep(i),
         UNCHANGED <<bookingVars, boundVars>>
  PROVE  Safe'
<1> USE DEF bookingVars, boundVars
<1>1. CASE ReadNotification(i)
  <2>1. task[i].step = "claim" /\ UNCHANGED <<row, sent, log>>
    BY <1>1 DEF ReadNotification, AtStep, groupVars, Return, ReturnError
  <2>2. CASE ReturnError(i) \/ Return(i)
    <3>1. task' = [task EXCEPT ![i] = NoTask] /\ (session' = session \/ EndSession(i))
      BY <2>2 DEF ReturnError, Return, groupVars
    <3>2. SavesRow(i)
      BY <2>1 DEF SavesRow
    <3>3. QED
      BY <2>1, <3>1, <3>2, Returns, HandlerStep DEF GoesOn, Holding, Uncommitted
  <2>3. ASSUME NEW b \in Bookings, Unclaimed(row[b].status), UNCHANGED groupVars,
               Proceed(i, "process", b, row[b].id, row[b].pdf, "other")
        PROVE  Safe'
    BY <2>1, <2>3, ClaimReadSafe DEF AtStep, Unclaimed
  <2>4. QED
    BY <1>1, <2>2, <2>3 DEF ReadNotification
<1>2. CASE MarkProcessing(i)
  <2>1. task[i].step = "process" /\ UNCHANGED <<session, log, sent>>
    BY <1>2 DEF MarkProcessing, AtStep, groupVars
  <2>2. /\ Others(i) /\ session'[i] = session[i]
        /\ task'[i].step = "confirm" /\ task'[i].booking = task[i].booking
    BY <1>2, <2>1, Goes DEF MarkProcessing
  <2>3. SavesRow(i)
    BY <1>2, <2>1, Saves DEF MarkProcessing, SavesRow, MailStep
  <2>4. row'[Booking(i)].status = "PROCESSING"
    BY <1>2, <2>1 DEF MarkProcessing, Save, TypeInv, TypeOK, ServiceTypeOK, Named, AtStep
  <2>5. QED
    BY <2>1, <2>2, <2>3, <2>4, HandlerStep DEF GoesOn, MailStep, Holding, Uncommitted
<1>3. CASE AtStep(i, "fetch") /\ FetchBooking(i, status[Booking(i)])
  <2> DEFINE wire == OnTheWire(status[Booking(i)])
  <2>1. /\ task[i].step = "fetch" /\ UNCHANGED <<session, log, row, sent>>
        /\ Proceed(i, StepFor(wire), Booking(i), task[i].id, task[i].pdf, wire)
    BY <1>3 DEF FetchBooking, AtStep, groupVars
  <2>2. /\ Others(i) /\ session'[i] = session[i]
        /\ task'[i].step = StepFor(wire) /\ task'[i].booking = task[i].booking
    BY <2>1, Proceeds DEF Booking
  <2>3. StepFor(wire) \in {"send", "render", "drop"}
    BY DEF StepFor
  <2> HIDE DEF wire
  <2>4. SavesRow(i)
    BY <2>1 DEF SavesRow
  <2>5. QED
    BY <2>1, <2>2, <2>3, <2>4, HandlerStep DEF GoesOn, MailStep, Holding, Uncommitted
<1>4. CASE RenderPDF(i) \/ AttachPDF(i)
  <2>1. /\ task[i].step \in {"render", "load"}
        /\ UNCHANGED <<session, log, row, sent>>
    BY <1>4 DEF RenderPDF, AttachPDF, AtStep, groupVars
  <2>2. /\ Others(i) /\ session'[i] = session[i]
        /\ task'[i].step \in {"attach", "send"} /\ task'[i].booking = task[i].booking
    <3>1. CASE RenderPDF(i)
      BY <2>1, <3>1
      DEF RenderPDF, Proceed, Booking, Others, TypeInv, TypeOK, ServiceTypeOK
    <3>2. CASE AttachPDF(i)
      BY <2>1, <3>2, Goes DEF AttachPDF
    <3>3. QED
      BY <1>4, <3>1, <3>2
  <2>3. SavesRow(i)
    BY <2>1 DEF SavesRow
  <2>4. QED
    BY <2>1, <2>2, <2>3, HandlerStep DEF GoesOn, MailStep, Holding, Uncommitted
<1>5. CASE Send(i)
  BY <1>5, MailSafe DEF Send
<1>6. CASE MarkSuccess(i) \/ MarkFailed(i)
  <2>1. /\ task' = [task EXCEPT ![i] = NoTask]
        /\ session' = session \/ EndSession(i)
        /\ UNCHANGED <<log, sent>>
    BY <1>6 DEF MarkSuccess, MarkFailed, Return, ReturnError, groupVars
  <2>2. SavesRow(i)
    BY <1>6, <2>1, Saves, Returns DEF MarkSuccess, MarkFailed, SavesRow, AtStep
  <2>3. QED
    BY <2>1, <2>2, Returns, HandlerStep DEF GoesOn, Holding, Uncommitted
<1>7. CASE CommitClaim(i)
  BY <1>7, ClaimCommittedSafe
<1>8. CASE SaveFilename(i)
  <2>1. task[i].step = "attach" /\ UNCHANGED <<session, log, sent>>
    BY <1>8 DEF SaveFilename, AtStep, groupVars
  <2>2. /\ Others(i) /\ session'[i] = session[i]
        /\ task'[i].step = "load" /\ task'[i].booking = task[i].booking
    BY <1>8, <2>1, Goes DEF SaveFilename
  <2>3. SavesRow(i)
    BY <1>8, <2>1, Saves DEF SaveFilename, SavesRow, MailStep
  <2>4. QED
    BY <2>1, <2>2, <2>3, HandlerStep DEF GoesOn, MailStep, Holding, Uncommitted
<1>9. QED
  BY <1>1, <1>2, <1>3, <1>4, <1>5, <1>6, <1>7, <1>8 DEF MailTaskStep

(* A handler starts: alone, it never reads a message about a notification.    *)
LEMMA StartSafe ==
  ASSUME TypeInv, Safe, NEW i \in Instances, StartHandler(i),
         UNCHANGED <<bookingVars, boundVars>>
  PROVE  Safe'
<1> USE DEF bookingVars, boundVars
<1>0. task[i].step = "idle" /\ UNCHANGED <<row, sent>>
  BY DEF StartHandler, AtStep
<1>a. CASE ReturnError(i)
  <2>1. log' = log /\ SavesRow(i)
    BY <1>0, <1>a DEF ReturnError, SavesRow
  <2>2. QED
    BY <1>0, <1>a, <2>1, Returns, HandlerStep DEF ReturnError, GoesOn, Holding, Uncommitted
<1> SUFFICES ASSUME TakeMessage(i) PROVE Safe'
  BY <1>a DEF StartHandler
<1> USE DEF Safe
<1>1. /\ log' = log /\ Readable(i)
      /\ session' = [session EXCEPT ![i] =
                       [phase |-> session[i].phase, topic |-> session[i].topic,
                        next |-> session[i].next + 1, last |-> session[i].last]]
  BY DEF TakeMessage
<1>2. /\ \/ /\ task'[i].step = IF session[i].topic = "completed" THEN "count" ELSE "claim"
            /\ task'[i].booking = NextMessage(i)
         \/ task'[i].step = "idle"
      /\ \A j \in Instances : j # i => task'[j] = task[j]
  <2>1. CASE task' = task
    BY <1>0, <2>1
  <2>2. CASE Proceed(i, IF session[i].topic = "completed" THEN "count" ELSE "claim",
                     NextMessage(i), 0, FALSE, "other")
    BY <2>2 DEF Proceed, TypeInv, TypeOK, ServiceTypeOK
  <2>3. CASE ReturnError(i)
    BY <2>3, Returns DEF ReturnError, Others
  <2>4. QED
    BY <2>1, <2>2, <2>3 DEF StartHandler
<1>3. /\ session'[i].phase = session[i].phase /\ session'[i].topic = session[i].topic
      /\ \A j \in Instances : j # i => session'[j] = session[j]
  BY <1>1 DEF TypeInv, TypeOK, GroupTypeOK
<1>4. Others(i)
  BY <1>2, <1>3 DEF Others
<1>5. session[i].topic \in {"completed", "created"} /\ Partitioned(i)
  BY <1>1, SessionFields DEF TypeInv, TypeOK, Topics, Readable, Live, Partitioned
<1>6. SessionInv'
  <2>1. \A j \in Instances : session'[j].phase = session[j].phase
                             /\ session'[j].topic = session[j].topic
    BY <1>3
  <2>2. \A j \in Instances :
          /\ task'[j].step # "idle" => Partitioned(j)
          /\ task'[j].step \in CreateStep => session[j].topic = "completed"
          /\ task'[j].step \in MailStep => session[j].topic = "created"
    BY <1>2, <1>5 DEF SessionInv, CreateStep, MailStep
  <2>3. QED
    BY <2>1, <2>2 DEF SessionInv, Partitioned
<1>7. Grows
  BY <1>0, <1>1 DEF Grows, Announced, Exists
<1>8. TaskInv'
  <2>1. task'[i].step \in CreateStep => Announced(Booking(i))'
    <3> HAVE task'[i].step \in CreateStep
    <3>1. session[i].topic = "completed"
      BY <1>2, <1>5 DEF CreateStep
    <3>2. session[i].next + 1 \in DOMAIN log["completed"]
      BY <1>1, <3>1, NextIsBooking DEF TypeInv, TypeOK
    <3>3. task'[i].booking = log["completed"][session[i].next + 1]
      BY <1>2, <3>1 DEF CreateStep, NextMessage
    <3>4. QED
      BY <1>1, <3>2, <3>3 DEF Announced, Booking
  <2>2. task'[i].step \in {"count", "claim", "idle"}
    BY <1>2
  <2>3. \A j \in Instances :
          j # i /\ Holding(j) => ~ Exists(Booking(j))'
    BY <1>0, <1>4 DEF TaskInv, Exists, Booking, Others
  <2>4. QED
    BY <1>4, <1>7, <2>1, <2>2, <2>3, TaskMoves
    DEF TypeInv, CreateStep, MailStep, Holding, Uncommitted
<1>9. PaymentInv'
  BY <1>0, <1>1 DEF PaymentInv, Announced, Exists
<1>10. MailInv'
  <2>1. \A b \in Bookings : \A j \in Instances :
          /\ Mailing(j, b)' => Mailing(j, b)
          /\ Claiming(j, b)' => Claiming(j, b)
    BY <1>2, <1>3 DEF Mailing, Claiming, Booking
  <2>2. QED
    BY <1>0, <2>1, MailUndisturbed
<1>11. SilentInv'
  <2> SUFFICES ASSUME Alone PROVE SilentInv'
    BY DEF SilentInv, Alone
  <2>1. session[i].topic = "completed"
    <3> SUFFICES ASSUME session[i].topic = "created" PROVE FALSE
      BY <1>5
    <3>1. session[i].next = Len(log["created"])
      BY <1>5 DEF SilentInv
    <3>2. session[i].last <= Len(log["created"])
      BY DEF TypeInv, Fetched
    <3>3. /\ session[i].next \in Nat /\ session[i].last \in Nat
          /\ Len(log["created"]) \in Nat
      BY SessionFields DEF TypeInv, TypeOK
    <3>4. QED
      BY <1>1, <3>1, <3>2, <3>3 DEF Readable
  <2>2. QED
    BY <1>0, <1>1, <1>2, <1>3, <2>1 DEF SilentInv, Alone, MailStep
<1>12. WriterInv'
  <2>1. \A b \in Bookings : \A j \in Instances :
          /\ Writing(j, b)' => Writing(j, b)
          /\ Claiming(j, b)' => Claiming(j, b)
    BY <1>2, <1>3 DEF Writing, Claiming, Booking
  <2>2. QED
    BY <1>0, <2>1, WriterUndisturbed
<1>13. QED
  BY <1>6, <1>8, <1>9, <1>10, <1>11, <1>12

---------------------------------------------------------------------------
(* The group and the bookings *)

(* Sessions come and go under handlers that stand still.                      *)
LEMMA GroupStep ==
  ASSUME TypeInv, Safe, SessionInv',
         UNCHANGED <<log, serviceVars, bookingVars>>,
         evictions' = 0 => evictions = 0,
         \A i \in Instances :
           /\ session'[i].phase = "claimed" /\ task[i].step # "idle"
                => session[i].phase = "claimed"
           /\ Live(i)' /\ task[i].step # "idle" => Live(i)
           /\ session'[i].topic = "created" /\ Partitioned(i)'
                => \/ session'[i].next = Len(log["created"])
                   \/ /\ session[i].topic = "created" /\ Partitioned(i)
                      /\ session'[i].next = session[i].next
  PROVE  Safe'
<1> USE DEF Safe, serviceVars, bookingVars
<1>1. TaskInv'
  <2>1. \A i \in Instances : Holding(i)' => Holding(i)
    BY DEF Holding, Uncommitted
  <2>2. QED
    BY <2>1 DEF TaskInv, Announced, Exists, Booking
<1>2. PaymentInv'
  BY DEF PaymentInv, Announced, Exists
<1>3. MailInv'
  <2>1. \A b \in Bookings : \A i \in Instances :
          /\ Mailing(i, b)' => Mailing(i, b)
          /\ Claiming(i, b)' => Claiming(i, b)
    BY DEF Mailing, Claiming, Booking
  <2>2. QED
    BY <2>1, MailUndisturbed
<1>4. SilentInv'
  BY DEF SilentInv, Alone
<1>5. WriterInv'
  <2>1. \A b \in Bookings : \A i \in Instances :
          /\ Writing(i, b)' => Writing(i, b)
          /\ Claiming(i, b)' => Claiming(i, b)
    BY DEF Writing, Claiming, Booking
  <2>2. QED
    BY <2>1, WriterUndisturbed
<1>6. QED
  BY <1>1, <1>2, <1>3, <1>4, <1>5

(* The group forms again: one claim on a topic, at its end.                   *)
LEMMA RebalanceSafe ==
  ASSUME TypeInv, Safe, Rebalance
  PROVE  Safe'
<1>1. PICK members \in SUBSET Instances :
        \E winners \in SUBSET members :
          \E pick \in [members -> Topics] : JoinGroup(members, pick, winners)
  BY DEF Rebalance
<1>2. PICK winners \in SUBSET members :
        \E pick \in [members -> Topics] : JoinGroup(members, pick, winners)
  BY <1>1
<1>3. PICK pick \in [members -> Topics] : JoinGroup(members, pick, winners)
  BY <1>2
<1>4. /\ \A i \in members : session[i].phase = "none"
      /\ \A i \in Instances \ members :
           session[i].phase \in {"none", "evicted", "ending"}
      /\ \A v, w \in winners : pick[v] = pick[w] => v = w
  BY <1>3 DEF JoinGroup, ReadyToJoin
<1>5. /\ \A i \in members : /\ session'[i].topic = pick[i]
                            /\ session'[i].next = Len(log[pick[i]])
                            /\ session'[i].phase =
                                 IF i \in winners THEN "claimed" ELSE "without"
      /\ \A i \in Instances \ members : session'[i] = session[i]
  BY <1>3 DEF JoinGroup, Joined, InitialOffset
<1>6. UNCHANGED <<log, serviceVars, bookingVars, boundVars>>
  BY <1>3 DEF Rebalance, JoinGroup
<1>7. \A i \in members : task[i].step = "idle"
  BY <1>4 DEF Safe, SessionInv, Partitioned
<1>8. SessionInv'
  <2>1. UNCHANGED <<task, evictions>>
    BY <1>6 DEF serviceVars, boundVars
  <2>2. \A i \in Instances : task'[i].step # "idle" => Partitioned(i)'
    BY <1>5, <1>7, <2>1 DEF Safe, SessionInv, Partitioned
  <2>3. \A i \in Instances :
          /\ task'[i].step \in CreateStep => session'[i].topic = "completed"
          /\ task'[i].step \in MailStep => session'[i].topic = "created"
          /\ session'[i].phase = "evicted" => evictions' > 0
    BY <1>5, <1>7, <2>1 DEF Safe, SessionInv, CreateStep, MailStep
  <2>4. \A i \in Instances :
          session'[i].phase = "claimed" => i \in winners /\ session'[i].topic = pick[i]
    BY <1>4, <1>5
  <2>5. QED
    BY <1>4, <2>2, <2>3, <2>4 DEF SessionInv
<1>9. \A i \in Instances :
        /\ session'[i].phase = "claimed" /\ task[i].step # "idle"
             => session[i].phase = "claimed"
        /\ Live(i)' /\ task[i].step # "idle" => Live(i)
        /\ session'[i].topic = "created" /\ Partitioned(i)'
             => \/ session'[i].next = Len(log["created"])
                \/ /\ session[i].topic = "created" /\ Partitioned(i)
                   /\ session'[i].next = session[i].next
  BY <1>5, <1>7 DEF Partitioned, Live
<1>10. QED
  BY <1>6, <1>8, <1>9, GroupStep DEF boundVars

(* A session is cancelled, evicted or over.                                   *)
LEMMA SessionStepSafe ==
  ASSUME TypeInv, Safe, NEW i \in Instances,
         \/ CancelSession(i)
         \/ ConsumeReturns(i) /\ AtStep(i, "idle")
         \/ Evict(i) /\ evictions' > 0
         \/ \E t \in Topics : ConsumeFails(i, t),
         UNCHANGED <<serviceVars, bookingVars>>,
         evictions > 0 => evictions' > 0,
         evictions' = 0 => evictions = 0
  PROVE  Safe'
<1>0. /\ task' = task /\ log' = log
      /\ session \in [Instances -> Session]
  BY DEF CancelSession, ConsumeReturns, Evict, ConsumeFails, serviceVars,
         TypeInv, TypeOK, GroupTypeOK
<1>1. CASE CancelSession(i) \/ Evict(i)
  <2>1. /\ Others(i)
        /\ \/ session'[i] = NoSession /\ session[i].phase = "without"
           \/ /\ session'[i].phase = "ending" \/ (Evict(i) /\ session'[i].phase = "evicted")
              /\ session'[i].topic = session[i].topic
              /\ session'[i].next = session[i].next
              /\ Partitioned(i)
    BY <1>0, <1>1 DEF CancelSession, Evict, Others, Partitioned
  <2>2. SessionInv'
    <3>1. session[i].phase = "without" => task[i].step = "idle"
      BY DEF Safe, SessionInv, Partitioned
    <3>2. Evict(i) => evictions' > 0
      BY <1>0 DEF Evict, CancelSession, ConsumeReturns, ConsumeFails, EndSession,
                  NoSession, ReadyToJoin
    <3>3. QED
      BY <1>0, <2>1, <3>1, <3>2, SessionEnds DEF Safe, NoSession
  <2>3. Live(i)' => Live(i)
    BY <1>0, <2>1 DEF Evict, Live, NoSession
  <2>4. QED
    BY <1>0, <2>1, <2>2, <2>3, GroupStep DEF Others, Partitioned, Live, NoSession
<1>2. CASE ConsumeReturns(i) /\ AtStep(i, "idle")
  <2>1. Others(i) /\ session'[i] = NoSession
    BY <1>0, <1>2 DEF ConsumeReturns, EndSession, Others
  <2>2. SessionInv'
    BY <1>0, <1>2, <2>1, SessionEnds DEF Safe, NoSession, AtStep
  <2>3. QED
    BY <1>0, <2>1, <2>2, GroupStep DEF Others, Partitioned, Live, NoSession
<1>3. CASE \E t \in Topics : ConsumeFails(i, t)
  <2>1. session' = session
    BY <1>3 DEF ConsumeFails
  <2>2. SessionInv'
    BY <1>0, <2>1 DEF Safe, SessionInv, Partitioned
  <2>3. QED
    BY <1>0, <2>1, <2>2, GroupStep DEF Partitioned, Live
<1>4. QED
  BY <1>1, <1>2, <1>3

(* A settled payment is announced.                                            *)
LEMMA AnnounceSafe ==
  ASSUME TypeInv, Safe, NEW b \in Bookings, AnnouncePayment(b)
  PROVE  Safe'
<1> USE DEF Safe
<1>1. /\ UNCHANGED <<session, row, task, sent, outcome, evictions>>
      /\ outcome[b] # "open"
  BY DEF AnnouncePayment, serviceVars, bookingVars, boundVars
<1>2. /\ log["completed"] \in Seq(Bookings)
      /\ log'["completed"] = Append(log["completed"], b)
      /\ log'["created"] = log["created"]
  BY DEF AnnouncePayment, Publish, TypeInv, TypeOK, GroupTypeOK, Topics
<1>3. \A c \in Bookings : /\ Announced(c) => Announced(c)'
                          /\ Announced(c)' => Announced(c) \/ c = b
  <2>1. \A n \in DOMAIN log["completed"] :
          /\ n \in DOMAIN log'["completed"]
          /\ log'["completed"][n] = log["completed"][n]
    BY <1>2
  <2>2. \A n \in DOMAIN log'["completed"] :
          n \in DOMAIN log["completed"] \/ log'["completed"][n] = b
    BY <1>2
  <2>3. QED
    BY <2>1, <2>2 DEF Announced
<1>4. SessionInv'
  BY <1>1 DEF SessionInv, Partitioned
<1>5. TaskInv'
  <2>1. ASSUME NEW i \in Instances, task[i].step \in CreateStep
        PROVE  Announced(Booking(i))'
    <3>1. Booking(i) \in Bookings /\ Announced(Booking(i))
      BY <2>1 DEF TypeInv, Named, AtStep, TaskInv, CreateStep
    <3>2. QED
      BY <1>1, <1>3, <3>1 DEF Announced, Booking
  <2>2. QED
    BY <1>1, <2>1 DEF TaskInv, Exists, Booking, Holding, Live
<1>6. PaymentInv'
  BY <1>1, <1>3 DEF PaymentInv, Exists
<1>7. MailInv'
  BY <1>1 DEF MailInv, Mailing, Claiming, Booking
<1>8. SilentInv'
  BY <1>1, <1>2 DEF SilentInv, Alone, Partitioned
<1>9. WriterInv'
  BY <1>1 DEF WriterInv, Writing, Claiming, Booking
<1>10. QED
  BY <1>4, <1>5, <1>6, <1>7, <1>8, <1>9

(* A booking moves, and a settled payment stays settled.                      *)
LEMMA BookingSafe ==
  ASSUME TypeInv, Safe, NEW b \in Bookings, BookingStep(b)
  PROVE  Safe'
<1> USE DEF Safe, noticeVars, groupVars, serviceVars, boundVars
<1>1. UNCHANGED <<log, session, row, task, sent, evictions>>
  BY DEF BookingStep
<1>2. \A c \in Bookings : outcome[c] # "open" => outcome'[c] # "open"
  BY DEF BookingStep, Life!Create, Life!StartPayment, Life!TimeOut, Life!Settle,
         Life!Confirm, Life!Release, Life!Move, TypeInv, TypeOK, Life!LifeTypeOK
<1>3. SessionInv'
  BY <1>1 DEF SessionInv, Partitioned
<1>4. TaskInv'
  BY <1>1 DEF TaskInv, Announced, Exists, Booking, Holding, Live
<1>5. PaymentInv'
  BY <1>1, <1>2 DEF PaymentInv, Announced, Exists
<1>6. MailInv'
  BY <1>1 DEF MailInv, Mailing, Claiming, Booking
<1>7. SilentInv'
  BY <1>1 DEF SilentInv, Alone, Partitioned
<1>8. WriterInv'
  BY <1>1 DEF WriterInv, Writing, Claiming, Booking
<1>9. QED
  BY <1>3, <1>4, <1>5, <1>6, <1>7, <1>8

---------------------------------------------------------------------------
(* The invariant *)

Inductive == TypeInv /\ Safe

LEMMA InductiveInitially == Init => Inductive
<1> SUFFICES ASSUME Init PROVE Inductive
  OBVIOUS
<1>1. TypeInv
  BY TypeInitially
  DEF TypeInv, Fetched, Named, AtStep, Init, GroupInit, ServiceInit, NoSession, NoTask,
      Topics
<1>2. /\ log = [t \in Topics |-> <<>>] /\ evictions = 0
      /\ \A i \in Instances : session[i] = NoSession /\ task[i] = NoTask
      /\ \A b \in Bookings : row[b] = NoRow /\ sent[b] = 0
  BY DEF Init, GroupInit, ServiceInit
<1>3. \A b \in Bookings : ~ Announced(b)
  <2>1. log["completed"] = <<>>
    BY <1>2 DEF Topics
  <2>2. DOMAIN log["completed"] = 1 .. 0
    BY <2>1
  <2>3. QED
    BY <2>2 DEF Announced
<1>4. SessionInv
  BY <1>2 DEF SessionInv, NoSession, NoTask, CreateStep, MailStep
<1>5. TaskInv
  BY <1>2 DEF TaskInv, NoTask, CreateStep, MailStep, Holding, Uncommitted
<1>6. PaymentInv
  <2>1. \A b \in Bookings : row[b].status = "absent" /\ ~ (sent[b] > 0)
    <3> TAKE b \in Bookings
    <3>1. row[b] = NoRow /\ sent[b] = 0
      BY <1>2
    <3>2. QED
      BY <3>1 DEF NoRow
  <2>2. QED
    BY <1>3, <2>1 DEF PaymentInv, Exists
<1>7. MailInv
  <2>1. \A b \in Bookings : sent[b] = 0 /\ sent[b] <= 1
    <3> TAKE b \in Bookings
    <3>1. sent[b] = 0
      BY <1>2
    <3>2. QED
      BY <3>1
  <2>2. \A i \in Instances : \A b \in Bookings : ~ Mailing(i, b) /\ ~ Claiming(i, b)
    <3> TAKE i \in Instances
    <3>1. task[i].step = "idle"
      BY <1>2 DEF NoTask
    <3>2. QED
      BY <3>1 DEF Mailing, Claiming
  <2>3. QED
    BY <2>1, <2>2 DEF MailInv
<1>8. SilentInv
  BY <1>2 DEF SilentInv, NoSession, NoTask, Partitioned, MailStep
<1>9. WriterInv
  <2>1. \A i \in Instances : task[i].step = "idle"
    BY <1>2 DEF NoTask
  <2>2. QED
    BY <2>1 DEF WriterInv, Writing, Claiming
<1>10. QED
  BY <1>1, <1>4, <1>5, <1>6, <1>7, <1>8, <1>9 DEF Inductive, Safe

LEMMA InductivePreserved == Inductive /\ [Next]_vars => Inductive'
<1> SUFFICES ASSUME Inductive, [Next]_vars PROVE Inductive'
  OBVIOUS
<1> USE DEF Inductive
<1>1. TypeInv'
  BY TypePreserved
<1> SUFFICES Safe'
  BY <1>1
<1>2. evictions \in Nat
  BY BoundsAssumption DEF TypeInv, TypeOK
<1>3. ASSUME NEW b \in Bookings, BookingStep(b) PROVE Safe'
  BY <1>3, BookingSafe
<1>4. ASSUME NEW b \in Bookings, AnnouncePayment(b) PROVE Safe'
  BY <1>4, AnnounceSafe
<1>5. CASE Rebalance
  BY <1>5, RebalanceSafe
<1>6. ASSUME NEW i \in Instances, MakeRoom(i) \/ LeaveSession(i) PROVE Safe'
  BY <1>6, SessionStepSafe DEF MakeRoom, LeaveSession, boundVars
<1>7. ASSUME NEW i \in Instances, TaskStep(i) PROVE Safe'
  <2>1. UNCHANGED <<bookingVars, boundVars>>
    BY <1>7 DEF TaskStep
  <2>2. ASSUME CancelledCall(i) PROVE Safe'
    <3>1. TaskFault(i) /\ UNCHANGED sent
      BY <2>2 DEF CancelledCall, CallFails, TaskFault
    <3>2. QED
      BY <2>1, <3>1, TaskFaultSafe DEF boundVars
  <2>3. QED
    BY <1>7, <2>1, <2>2, StartSafe, CreateTaskSafe, MailTaskSafe DEF TaskStep
<1>8. CASE Fault
  <2>1. UNCHANGED <<bookingVars, evictions>>
    BY <1>8 DEF Fault
  <2>2. ASSUME NEW i \in Instances, GroupFault(i) PROVE Safe'
    BY <2>1, <2>2, SessionStepSafe DEF GroupFault
  <2>3. ASSUME NEW i \in Instances, TaskFault(i) PROVE Safe'
    <3>1. CASE SendFails(i)
      BY <2>1, <3>1, FailedMailSafe DEF bookingVars
    <3>2. CASE ~ SendFails(i)
      <4>1. UNCHANGED sent
        BY <2>3, <3>2 DEF TaskFault, StatementFails, ProduceUnanswered,
           CallFails, LastUpdateFails, Restart
      <4>2. QED
        BY <2>1, <2>3, <4>1, TaskFaultSafe
    <3>3. QED
      BY <3>1, <3>2
  <2>4. QED
    BY <1>8, <2>2, <2>3 DEF Fault
<1>9. CASE Eviction
  <2>1. PICK i \in Instances : Evict(i)
    BY <1>9 DEF Eviction
  <2>2. evictions' > 0 /\ UNCHANGED <<serviceVars, bookingVars>>
    BY <1>2, <1>9 DEF Eviction
  <2>3. QED
    BY <2>1, <2>2, SessionStepSafe
<1>10. CASE UNCHANGED vars
  <2>1. /\ UNCHANGED <<log, serviceVars, bookingVars>>
        /\ UNCHANGED <<session, task, evictions>>
    BY <1>10 DEF vars, noticeVars, groupVars, boundVars, serviceVars
  <2>2. SessionInv'
    BY <2>1 DEF Safe, SessionInv, Partitioned
  <2>3. QED
    BY <2>1, <2>2, GroupStep DEF Partitioned, Live
<1>11. QED
  BY <1>3, <1>4, <1>5, <1>6, <1>7, <1>8, <1>9, <1>10 DEF Next

(* The invariant of the run "notices".                                        *)
THEOREM NoticeInvariant == Spec => []NoticeInv
<1>1. Inductive => NoticeInv
  BY DEF Inductive, TypeInv, Safe, NoticeInv
<1>2. QED
  BY <1>1, InductiveInitially, InductivePreserved, PTL DEF Spec

(* No booking is mailed about twice while every process that loses its        *)
(* partition learns of it first, however its payment is announced.            *)
THEOREM MailedOnceHolds == Spec => []MailedOnceWhileHeard
<1>1. NoticeInv => MailedOnceWhileHeard
  BY DEF NoticeInv, MailInv, MailedOnceWhileHeard, MailedOnce
<1>2. QED
  BY <1>1, NoticeInvariant, PTL

(* Mail about a booking follows the settlement of its payment.                *)
THEOREM MailFollows == Spec => []MailFollowsPayment
<1>1. NoticeInv => MailFollowsPayment
  BY DEF NoticeInv, PaymentInv, MailFollowsPayment
<1>2. QED
  BY <1>1, NoticeInvariant, PTL

(* A notification marked SUCCESS was mailed.                                  *)
THEOREM SuccessMailed == Spec => []SuccessWasMailed
<1>1. NoticeInv => SuccessWasMailed
  BY DEF NoticeInv, PaymentInv, SuccessWasMailed
<1>2. QED
  BY <1>1, NoticeInvariant, PTL

(* A process alone sends no mail, however often it is restarted.              *)
THEOREM AloneIsSilent == Spec => []SilentAlone
<1>1. NoticeInv => SilentAlone
  BY DEF NoticeInv, SilentInv, SilentAlone
<1>2. QED
  BY <1>1, NoticeInvariant, PTL

---------------------------------------------------------------------------
(* How a notification ended *)

(* A row that has ended is written by nobody but a claim that is late: the     *)
(* handlers past the claim find PROCESSING, those that may still pass it       *)
(* PENDING or PROCESSING, and a transaction that inserts finds no row.         *)
LEMMA EndedRowWritten ==
  ASSUME Inductive, NEW i \in Instances, NEW b \in Bookings, evictions = 0,
         row[b].status \in Final, row'[b].status # row[b].status,
         TaskStep(i) \/ TaskFault(i)
  PROVE  row'[b].status = "PROCESSING" /\ LateClaim(i, b)
<1> USE DEF Inductive, Safe
<1>1. ~ Writing(i, b) /\ ~ Claiming(i, b)
  BY DEF WriterInv, Final
<1>2. ASSUME NEW s, Save(i, s) PROVE Booking(i) = b /\ row'[b].status = s
  BY <1>2, Saves
<1>3. ~ (AtStep(i, "commit") /\ Live(i) /\ Save(i, "PENDING"))
  BY <1>2 DEF TaskInv, Holding, AtStep, Uncommitted, Exists, Final
<1>4. ~ SaveFilename(i) /\ ~ MarkSuccess(i) /\ ~ MarkFailed(i)
  BY <1>1, <1>2 DEF SaveFilename, MarkSuccess, MarkFailed, Writing, AtStep
<1>5. MarkProcessing(i)
  <2>1. CASE TaskStep(i)
    BY <1>3, <1>4, <2>1
    DEF TaskStep, StartHandler, CreateTaskStep, CountNotifications, InsertNotification,
        ProduceNotificationCreated, CommitNotification, MailTaskStep, ReadNotification,
        CommitClaim, FetchBooking, RenderPDF, AttachPDF, Send, CancelledCall, CallFails
  <2>2. CASE TaskFault(i)
    BY <1>3, <2>2
    DEF TaskFault, CallFails, StatementFails, ProduceUnanswered, SendFails,
        LastUpdateFails, Restart
  <2>3. QED
    BY <2>1, <2>2
<1>6. /\ task[i].step = "process" /\ Booking(i) = b
      /\ row'[b].status = "PROCESSING"
  BY <1>2, <1>5 DEF MarkProcessing, AtStep
<1>7. session[i].phase = "ending"
  BY <1>1, <1>6 DEF SessionInv, Partitioned, Claiming
<1>8. QED
  BY <1>6, <1>7 DEF LateClaim, AtStep

(* Nothing but a late claim's PROCESSING replaces SUCCESS or FAILED while      *)
(* every process that loses its partition learns of it.                        *)
THEOREM EndedNoticeHolds == Spec => EndedUnlessLateClaim
<1> DEFINE Contradicted ==
             evictions = 0 =>
               \A b \in Bookings :
                 row[b].status \in Final /\ row'[b].status # row[b].status
                   => /\ row'[b].status = "PROCESSING"
                      /\ \E i \in Instances : LateClaim(i, b)
<1>1. Inductive /\ [Next]_vars => [Contradicted]_vars
  <2> SUFFICES ASSUME Inductive, Next, evictions = 0, NEW b \in Bookings,
                      row[b].status \in Final, row'[b].status # row[b].status
               PROVE  /\ row'[b].status = "PROCESSING"
                      /\ \E i \in Instances : LateClaim(i, b)
    OBVIOUS
  <2>1. \E i \in Instances : TaskStep(i) \/ TaskFault(i)
    <3>1. row' # row
      OBVIOUS
    <3>2. QED
      BY <3>1
      DEF Next, BookingStep, AnnouncePayment, Rebalance, MakeRoom, LeaveSession, Fault,
          GroupFault, Eviction, noticeVars, serviceVars
  <2>2. QED
    BY <2>1, EndedRowWritten
<1>2. QED
  BY <1>1, InductiveInitially, InductivePreserved, PTL DEF Spec, EndedUnlessLateClaim

=============================================================================
