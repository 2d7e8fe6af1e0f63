------------------------- MODULE TicketNoticesTypes -------------------------
(***************************************************************************)
(* Type correctness of TicketNotices, for every set of bookings, every set *)
(* of processes and every bound.                                           *)
(***************************************************************************)
EXTENDS TicketNotices, TLAPS

(* Topics are empty, nobody has joined, the table is empty. *)
LEMMA TypeInitially == Init => TypeOK
  BY BoundsAssumption, IdsAssumption
  DEF Init, TypeOK, GroupInit, GroupTypeOK, ServiceInit, ServiceTypeOK,
      Life!Init, Life!LifeTypeOK, Life!LifeStatus, Session, NoSession, Topics,
      Row, NoRow, Task, NoTask, NoticeStatus, CreateStep, MailStep

(* What is published names a booking. *)
LEMMA PublishType ==
  ASSUME GroupTypeOK, NEW t \in Topics, NEW b \in Bookings, Publish(t, b)
  PROVE  log' \in [Topics -> Seq(Bookings)]
<1>1. log[t] \in Seq(Bookings)
  BY DEF GroupTypeOK
<1>2. Append(log[t], b) \in Seq(Bookings)
  BY <1>1
<1>3. QED
  BY <1>2 DEF Publish, GroupTypeOK

(* A handler's steps are well typed wherever it goes. *)
LEMMA ProceedType ==
  ASSUME ServiceTypeOK, NEW i \in Instances,
         NEW step \in CreateStep \union MailStep, NEW booking \in Nat, NEW id \in Nat,
         NEW pdf \in BOOLEAN, NEW wire \in {"CONFIRMED", "CANCEL", "other"},
         Proceed(i, step, booking, id, pdf, wire)
  PROVE  task' \in [Instances -> Task]
  BY DEF Proceed, ServiceTypeOK, Task

(* The fields of a handler. *)
LEMMA TaskFields ==
  ASSUME ServiceTypeOK, NEW i \in Instances
  PROVE  /\ task[i].booking \in Nat
         /\ task[i].id \in Nat
         /\ task[i].pdf \in BOOLEAN
         /\ task[i].wire \in {"CONFIRMED", "CANCEL", "other"}
         /\ task[i].step \in CreateStep \union MailStep \union {"idle"}
  BY DEF ServiceTypeOK, Task

(* Going on with the same copy of the row. *)
LEMMA GotoType ==
  ASSUME ServiceTypeOK, NEW i \in Instances,
         NEW step \in CreateStep \union MailStep, Goto(i, step)
  PROVE  task' \in [Instances -> Task]
  BY TaskFields, ProceedType DEF Goto, Booking

(* The handler returns. *)
LEMMA DropType ==
  ASSUME ServiceTypeOK, NEW i \in Instances, task' = [task EXCEPT ![i] = NoTask]
  PROVE  task' \in [Instances -> Task]
  BY DEF ServiceTypeOK, Task, NoTask

(* A row is saved from the handler's copy. *)
LEMMA SaveType ==
  ASSUME ServiceTypeOK, NEW i \in Instances, NEW s \in NoticeStatus, Save(i, s)
  PROVE  row' \in [Bookings -> Row]
<1>1. [id |-> task[i].id, status |-> s, pdf |-> task[i].pdf] \in Row
  BY TaskFields DEF Row
<1>2. QED
  BY <1>1 DEF Save, ServiceTypeOK

(* The session ends. *)
LEMMA EndType ==
  ASSUME GroupTypeOK, NEW i \in Instances, EndSession(i)
  PROVE  session' \in [Instances -> Session]
  BY DEF EndSession, GroupTypeOK, Session, NoSession, Topics

(* The members of a group that forms again. *)
LEMMA JoinType ==
  ASSUME GroupTypeOK, NEW members \in SUBSET Instances, NEW winners \in SUBSET members,
         NEW pick \in [members -> Topics], JoinGroup(members, pick, winners)
  PROVE  GroupTypeOK'
<1>0. \A t \in Topics : Len(log[t]) \in Nat
  BY DEF GroupTypeOK
<1>1. \A i \in members : Joined(pick[i], i \in winners) \in Session
  BY <1>0 DEF Joined, InitialOffset, Session
<1>2. session' \in [Instances -> Session]
  BY <1>1 DEF JoinGroup, GroupTypeOK
<1>3. waiting' \in [Instances -> SUBSET Topics]
  BY DEF JoinGroup, GroupTypeOK
<1>4. QED
  BY <1>2, <1>3 DEF JoinGroup, GroupTypeOK

(* The fields of a session. *)
LEMMA SessionFields ==
  ASSUME GroupTypeOK, NEW i \in Instances
  PROVE  /\ session[i].topic \in Topics
         /\ session[i].next \in Nat
         /\ session[i].last \in Nat
         /\ session[i].phase \in {"none", "without", "claimed", "evicted", "ending"}
         /\ log[session[i].topic] \in Seq(Bookings)
         /\ Len(log[session[i].topic]) \in Nat
<1>1. session[i].topic \in Topics
  BY DEF GroupTypeOK, Session
<1>2. log[session[i].topic] \in Seq(Bookings)
  BY <1>1 DEF GroupTypeOK
<1>3. QED
  BY <1>1, <1>2 DEF GroupTypeOK, Session

(* A cancelled or evicted session. *)
LEMMA CancelType ==
  ASSUME GroupTypeOK, NEW i \in Instances, CancelSession(i) \/ Evict(i)
  PROVE  GroupTypeOK'
<1>1. CASE Evict(i)
  BY <1>1, SessionFields DEF Evict, GroupTypeOK, Session
<1>2. CASE CancelSession(i)
  <2> DEFINE ended == [phase |-> "ending", topic |-> session[i].topic,
                       next |-> session[i].next,
                       last |-> Len(log[session[i].topic])]
  <2>1. ended \in Session /\ NoSession \in Session
    BY SessionFields DEF Session, NoSession, Topics
  <2>2. session' = [session EXCEPT ![i] =
                      IF session[i].phase = "without" THEN NoSession ELSE ended]
    BY <1>2 DEF CancelSession
  <2>3. session' \in [Instances -> Session]
    BY <2>1, <2>2 DEF GroupTypeOK
  <2>4. QED
    BY <1>2, <2>3 DEF CancelSession, GroupTypeOK
<1>3. QED
  BY <1>1, <1>2

(* What a session has fetched is in the topic: a step that shortens no topic  *)
(* and leaves a session as it is, ends it, or moves it on keeps it so.        *)
LEMMA FetchedFrame ==
  ASSUME GroupTypeOK, Fetched, GroupTypeOK',
         \A t \in Topics : Len(log[t]) <= Len(log'[t]),
         \A i \in Instances :
           \/ session'[i].last <= Len(log'[session'[i].topic])
           \/ session'[i].topic = session[i].topic /\ session'[i].last = session[i].last
  PROVE  Fetched'
<1>1. SUFFICES ASSUME NEW i \in Instances
               PROVE  session'[i].last <= Len(log'[session'[i].topic])
  BY DEF Fetched
<1>2. /\ session[i].topic \in Topics
      /\ session[i].last \in Nat
      /\ Len(log[session[i].topic]) \in Nat
  BY SessionFields
<1>3. Len(log'[session[i].topic]) \in Nat
  BY <1>2 DEF GroupTypeOK
<1>4. QED
  BY <1>2, <1>3 DEF Fetched

(* The message a session reads next names a booking. *)
LEMMA NextIsBooking ==
  ASSUME GroupTypeOK, Fetched, NEW i \in Instances, Readable(i)
  PROVE  /\ session[i].next + 1 \in DOMAIN log[session[i].topic]
         /\ NextMessage(i) \in Bookings
<1>1. /\ session[i].next \in Nat
      /\ session[i].last \in Nat
      /\ log[session[i].topic] \in Seq(Bookings)
      /\ Len(log[session[i].topic]) \in Nat
  BY SessionFields
<1>2. session[i].next + 1 \in 1 .. Len(log[session[i].topic])
  BY <1>1 DEF Readable, Live, Fetched
<1>3. QED
  BY <1>1, <1>2 DEF NextMessage

GroupOK == GroupTypeOK /\ Fetched

(* A process's session ends, or its group state does not change. *)
LEMMA EndOK ==
  ASSUME GroupOK, NEW i \in Instances, EndSession(i) \/ session' = session,
         waiting' \in [Instances -> SUBSET Topics],
         log' = log \/ \E t \in Topics, b \in Bookings : Publish(t, b)
  PROVE  GroupOK'
<1> USE DEF GroupOK
<1>1. session' \in [Instances -> Session]
  BY EndType DEF GroupTypeOK
<1>2. log' \in [Topics -> Seq(Bookings)]
  BY PublishType DEF GroupTypeOK
<1>3. GroupTypeOK'
  BY <1>1, <1>2 DEF GroupTypeOK
<1>4. \A t \in Topics : Len(log[t]) <= Len(log'[t])
  <2>1. \A t \in Topics : log[t] \in Seq(Bookings) /\ Len(log[t]) \in Nat
    BY DEF GroupTypeOK
  <2>2. CASE log' = log
    BY <2>1, <2>2
  <2>3. ASSUME NEW t \in Topics, NEW b \in Bookings, Publish(t, b)
        PROVE  \A u \in Topics : Len(log[u]) <= Len(log'[u])
    <3>1. Len(Append(log[t], b)) = Len(log[t]) + 1
      BY <2>1
    <3>2. QED
      BY <2>1, <2>3, <3>1 DEF Publish, GroupTypeOK
  <2>4. QED
    BY <2>2, <2>3
<1>5. \A j \in Instances :
        \/ session'[j].last <= Len(log'[session'[j].topic])
        \/ session'[j].topic = session[j].topic /\ session'[j].last = session[j].last
  <2> SUFFICES ASSUME NEW j \in Instances, session'[j] # session[j]
               PROVE  session'[j].last <= Len(log'[session'[j].topic])
    OBVIOUS
  <2>1. session'[j] = NoSession
    BY DEF EndSession, GroupTypeOK
  <2>2. log'["completed"] \in Seq(Bookings)
    BY <1>2 DEF Topics
  <2>3. Len(log'["completed"]) \in Nat
    BY <2>2
  <2>4. QED
    BY <2>1, <2>3 DEF NoSession
<1>6. QED
  BY <1>3, <1>4, <1>5, FetchedFrame

(* A session reads on. *)
LEMMA TakeOK ==
  ASSUME GroupOK, NEW i \in Instances, TakeMessage(i)
  PROVE  GroupOK'
<1> USE DEF GroupOK
<1>1. session' \in [Instances -> Session]
  BY SessionFields DEF TakeMessage, GroupTypeOK, Session
<1>2. GroupTypeOK'
  BY <1>1 DEF TakeMessage, GroupTypeOK
<1>3. \A j \in Instances : /\ session'[j].topic = session[j].topic
                           /\ session'[j].last = session[j].last
  BY DEF TakeMessage, GroupTypeOK
<1>4. \A t \in Topics : Len(log[t]) <= Len(log'[t])
  <2>1. \A t \in Topics : Len(log[t]) \in Nat
    BY DEF GroupTypeOK
  <2>2. QED
    BY <2>1 DEF TakeMessage
<1>5. QED
  BY <1>2, <1>3, <1>4, FetchedFrame

(* The group forms again, or a session is cancelled or evicted. *)
LEMMA RegroupOK ==
  ASSUME GroupOK, NEW i \in Instances,
         \/ \E members \in SUBSET Instances :
              \E winners \in SUBSET members :
                \E pick \in [members -> Topics] : JoinGroup(members, pick, winners)
         \/ CancelSession(i)
         \/ Evict(i)
  PROVE  GroupOK'
<1> USE DEF GroupOK
<1>0. \A t \in Topics : Len(log[t]) \in Nat
  BY DEF GroupTypeOK
<1>1. ASSUME NEW members \in SUBSET Instances, NEW winners \in SUBSET members,
             NEW pick \in [members -> Topics], JoinGroup(members, pick, winners)
      PROVE  GroupOK'
  <2>1. GroupTypeOK'
    BY <1>1, JoinType
  <2>2. log' = log
    BY <1>1 DEF JoinGroup
  <2>3. \A j \in members : /\ session'[j].last = Len(log[pick[j]])
                           /\ session'[j].topic = pick[j]
    BY <1>1 DEF JoinGroup, Joined, InitialOffset
  <2>4. \A j \in Instances \ members : session'[j] = session[j]
    BY <1>1 DEF JoinGroup
  <2>5. \A j \in Instances :
          \/ session'[j].last <= Len(log'[session'[j].topic])
          \/ session'[j].topic = session[j].topic /\ session'[j].last = session[j].last
    <3> SUFFICES ASSUME NEW j \in members
                 PROVE  session'[j].last <= Len(log'[session'[j].topic])
      BY <2>4
    <3>1. pick[j] \in Topics
      OBVIOUS
    <3>2. QED
      BY <1>0, <2>2, <2>3, <3>1
  <2>6. QED
    BY <1>0, <2>1, <2>2, <2>5, FetchedFrame
<1>2. CASE Evict(i)
  <2>1. GroupTypeOK'
    BY <1>2, CancelType
  <2>2. \A j \in Instances : /\ session'[j].topic = session[j].topic
                             /\ session'[j].last = session[j].last
    BY <1>2 DEF Evict, GroupTypeOK
  <2>3. log' = log
    BY <1>2 DEF Evict
  <2>4. QED
    BY <1>0, <2>1, <2>2, <2>3, FetchedFrame
<1>3. CASE CancelSession(i)
  <2>1. GroupTypeOK'
    BY <1>3, CancelType
  <2>2. log' = log
    BY <1>3 DEF CancelSession
  <2>3. \A j \in Instances : j # i => session'[j] = session[j]
    BY <1>3 DEF CancelSession, GroupTypeOK
  <2>4. session'[i].last <= Len(log[session'[i].topic])
    <3>1. CASE session[i].phase = "without"
      <4>1. session'[i] = NoSession
        BY <1>3, <3>1 DEF CancelSession, GroupTypeOK
      <4>2. Len(log["completed"]) \in Nat
        BY <1>0 DEF Topics
      <4>3. QED
        BY <4>1, <4>2 DEF NoSession
    <3>2. CASE session[i].phase # "without"
      <4>1. /\ session'[i].topic = session[i].topic
            /\ session'[i].last = Len(log[session[i].topic])
        BY <1>3, <3>2 DEF CancelSession, GroupTypeOK
      <4>2. QED
        BY <4>1, SessionFields
    <3>3. QED
      BY <3>1, <3>2
  <2>5. \A j \in Instances :
          \/ session'[j].last <= Len(log'[session'[j].topic])
          \/ session'[j].topic = session[j].topic /\ session'[j].last = session[j].last
    BY <2>2, <2>3, <2>4
  <2>6. QED
    BY <1>0, <2>1, <2>2, <2>5, FetchedFrame
<1>4. QED
  BY <1>1, <1>2, <1>3

ServiceOK == ServiceTypeOK /\ Named

(* A handler starts, goes on or returns. *)
LEMMA ProceedOK ==
  ASSUME ServiceOK, NEW i \in Instances,
         NEW step \in CreateStep \union MailStep, NEW booking \in Bookings,
         NEW id \in Nat, NEW pdf \in BOOLEAN,
         NEW wire \in {"CONFIRMED", "CANCEL", "other"},
         Proceed(i, step, booking, id, pdf, wire),
         row' \in [Bookings -> Row], serial' \in Nat,
         sent' \in [Bookings -> Nat], told' \in [Bookings -> SUBSET Told]
  PROVE  ServiceOK'
<1> USE DEF ServiceOK
<1>1. task' \in [Instances -> Task]
  BY IdsAssumption, ProceedType
<1>2. Named'
  BY DEF Named, AtStep, Booking, Proceed, ServiceTypeOK
<1>3. QED
  BY <1>1, <1>2 DEF ServiceTypeOK

LEMMA GotoOK ==
  ASSUME ServiceOK, NEW i \in Instances, ~ AtStep(i, "idle"),
         NEW step \in CreateStep \union MailStep, Goto(i, step),
         row' \in [Bookings -> Row], serial' \in Nat,
         sent' \in [Bookings -> Nat], told' \in [Bookings -> SUBSET Told]
  PROVE  ServiceOK'
<1>1. Booking(i) \in Bookings
  BY DEF ServiceOK, Named
<1>2. QED
  BY <1>1, TaskFields, ProceedOK DEF ServiceOK, Goto

LEMMA DropOK ==
  ASSUME ServiceOK, NEW i \in Instances, task' = [task EXCEPT ![i] = NoTask],
         row' \in [Bookings -> Row], serial' \in Nat,
         sent' \in [Bookings -> Nat], told' \in [Bookings -> SUBSET Told]
  PROVE  ServiceOK'
<1> USE DEF ServiceOK
<1>1. task' \in [Instances -> Task]
  BY DropType
<1>2. Named'
  BY DEF Named, AtStep, Booking, NoTask, ServiceTypeOK
<1>3. QED
  BY <1>1, <1>2 DEF ServiceTypeOK

(* Mails are counted. *)
LEMMA MailType ==
  ASSUME ServiceTypeOK, NEW i \in Instances, Booking(i) \in Bookings, Mail(i)
  PROVE  sent' \in [Bookings -> Nat] /\ told' \in [Bookings -> SUBSET Told]
<1>1. sent' \in [Bookings -> Nat]
  <2>1. sent \in [Bookings -> Nat] /\ sent[Booking(i)] + 1 \in Nat
    BY DEF ServiceTypeOK
  <2>2. sent' = [sent EXCEPT ![Booking(i)] = sent[Booking(i)] + 1]
    BY DEF Mail
  <2>3. QED
    BY <2>1, <2>2
<1>2. TextOf(task[i].wire) \in Told
  BY DEF TextOf, Told
<1>3. told' \in [Bookings -> SUBSET Told]
  BY <1>2 DEF Mail, ServiceTypeOK
<1>4. QED
  BY <1>1, <1>3

TypeInv == TypeOK /\ Fetched /\ Named

(* The handler's own transaction. *)
LEMMA CreateTaskTypes ==
  ASSUME TypeInv, NEW i \in Instances, CreateTaskStep(i)
  PROVE  GroupOK' /\ ServiceOK'
<1> USE DEF TypeInv, TypeOK, GroupOK, ServiceOK
<1>0. /\ waiting \in [Instances -> SUBSET Topics]
      /\ row \in [Bookings -> Row] /\ serial \in Nat
      /\ sent \in [Bookings -> Nat] /\ told \in [Bookings -> SUBSET Told]
  BY DEF GroupTypeOK, ServiceTypeOK
<1>1. Booking(i) \in Bookings
  BY DEF CreateTaskStep, CountNotifications, InsertNotification,
         ProduceNotificationCreated, CommitNotification, Named, AtStep
<1>2. CASE CountNotifications(i)
  <2>1. CASE ReturnError(i)
    BY <1>0, <1>2, <2>1, EndOK, DropOK DEF CountNotifications, ReturnError
  <2>2. CASE Goto(i, "insert") /\ UNCHANGED groupVars
    BY <1>0, <1>2, <2>2, EndOK, GotoOK
    DEF CountNotifications, groupVars, AtStep, CreateStep
  <2>3. QED
    BY <1>2, <2>1, <2>2 DEF CountNotifications
<1>3. CASE InsertNotification(i)
  <2>0. serial' \in Nat
    BY <1>0, <1>3 DEF InsertNotification
  <2>1. CASE ReturnError(i)
    BY <1>0, <1>3, <2>0, <2>1, EndOK, DropOK DEF InsertNotification, ReturnError
  <2>2. CASE Proceed(i, "produce", Booking(i), serial + 1, FALSE, "other")
             /\ UNCHANGED groupVars
    BY <1>0, <1>1, <1>3, <2>0, <2>2, EndOK, ProceedOK
    DEF InsertNotification, groupVars, CreateStep
  <2>3. QED
    BY <1>3, <2>1, <2>2 DEF InsertNotification
<1>4. CASE ProduceNotificationCreated(i)
  <2>1. GroupOK'
    BY <1>0, <1>1, <1>4, EndOK DEF ProduceNotificationCreated, Topics
  <2>2. ServiceOK'
    BY <1>0, <1>4, GotoOK DEF ProduceNotificationCreated, AtStep, CreateStep
  <2>3. QED
    BY <2>1, <2>2
<1>5. CASE CommitNotification(i)
  <2>1. row' \in [Bookings -> Row]
    BY <1>5, SaveType DEF CommitNotification, NoticeStatus
  <2>2. QED
    BY <1>0, <1>5, <2>1, EndOK, DropOK DEF CommitNotification, Return, groupVars
<1>6. QED
  BY <1>2, <1>3, <1>4, <1>5 DEF CreateTaskStep

(* The row a claim reads. *)
LEMMA RowFields ==
  ASSUME ServiceTypeOK, NEW b \in Bookings
  PROVE  /\ row[b].id \in Nat
         /\ row[b].pdf \in BOOLEAN
         /\ row[b].status \in NoticeStatus \union {"absent"}
  BY DEF ServiceTypeOK, Row

(* The steps from the claim to the mail. *)
LEMMA MailTaskTypes ==
  ASSUME TypeInv, NEW i \in Instances, MailTaskStep(i)
  PROVE  GroupOK' /\ ServiceOK'
<1> USE DEF TypeInv, TypeOK, GroupOK, ServiceOK
<1>0. /\ waiting \in [Instances -> SUBSET Topics]
      /\ row \in [Bookings -> Row] /\ serial \in Nat
      /\ sent \in [Bookings -> Nat] /\ told \in [Bookings -> SUBSET Told]
  BY DEF GroupTypeOK, ServiceTypeOK
<1>1. /\ task[i].id \in Nat
      /\ task[i].pdf \in BOOLEAN
      /\ task[i].wire \in {"CONFIRMED", "CANCEL", "other"}
  BY TaskFields
<1>2. Booking(i) \in Bookings
  BY DEF MailTaskStep, ReadNotification, MarkProcessing, CommitClaim, RenderPDF,
         SaveFilename, AttachPDF, Send, MarkSuccess, MarkFailed, Named, AtStep
<1>3. CASE ReadNotification(i)
  <2>1. CASE ReturnError(i)
    BY <1>0, <1>3, <2>1, EndOK, DropOK DEF ReadNotification, ReturnError
  <2>2. CASE Return(i)
    BY <1>0, <1>3, <2>2, EndOK, DropOK DEF ReadNotification, Return, groupVars
  <2>3. ASSUME NEW b \in Bookings, UNCHANGED groupVars,
               Proceed(i, "process", b, row[b].id, row[b].pdf, "other")
        PROVE  GroupOK' /\ ServiceOK'
    BY <1>0, <1>3, <2>3, RowFields, EndOK, ProceedOK
    DEF ReadNotification, groupVars, MailStep
  <2>4. QED
    BY <1>3, <2>1, <2>2, <2>3 DEF ReadNotification
<1>4. CASE MarkProcessing(i)
  <2>1. row' \in [Bookings -> Row]
    BY <1>4, SaveType DEF MarkProcessing, NoticeStatus
  <2>2. QED
    BY <1>0, <1>4, <2>1, EndOK, GotoOK DEF MarkProcessing, groupVars, AtStep, MailStep
<1>5. CASE AtStep(i, "fetch") /\ FetchBooking(i, status[Booking(i)])
  <2> DEFINE wire == OnTheWire(status[Booking(i)])
  <2>1. wire \in {"CONFIRMED", "CANCEL", "other"}
    BY DEF OnTheWire
  <2>2. StepFor(wire) \in MailStep
    BY DEF StepFor, MailStep
  <2>3. Proceed(i, StepFor(wire), Booking(i), task[i].id, task[i].pdf, wire)
        /\ UNCHANGED <<groupVars, row, serial, sent, told>>
    BY <1>5 DEF FetchBooking
  <2> HIDE DEF wire
  <2>4. QED
    BY <1>0, <1>1, <1>2, <2>1, <2>2, <2>3, EndOK, ProceedOK DEF groupVars
<1>6. CASE RenderPDF(i)
  <2>1. /\ Proceed(i, "attach", Booking(i), task[i].id, TRUE, task[i].wire)
        /\ UNCHANGED <<groupVars, row, serial, sent, told>>
    BY <1>6 DEF RenderPDF
  <2>2. GroupOK'
    BY <1>0, <2>1, EndOK DEF groupVars
  <2>3. ServiceOK'
    BY <1>0, <1>1, <1>2, <2>1, ProceedOK DEF MailStep
  <2>4. QED
    BY <2>2, <2>3
<1>7. CASE Send(i)
  <2>1. sent' \in [Bookings -> Nat] /\ told' \in [Bookings -> SUBSET Told]
    BY <1>2, <1>7, MailType DEF Send
  <2>2. QED
    BY <1>0, <1>7, <2>1, EndOK, GotoOK DEF Send, groupVars, AtStep, MailStep
<1>8. CASE MarkSuccess(i)
  <2>1. row' \in [Bookings -> Row]
    BY <1>8, SaveType DEF MarkSuccess, NoticeStatus
  <2>2. QED
    BY <1>0, <1>8, <2>1, EndOK, DropOK DEF MarkSuccess, Return, groupVars
<1>9. CASE MarkFailed(i)
  <2>1. row' \in [Bookings -> Row]
    BY <1>9, SaveType DEF MarkFailed, NoticeStatus
  <2>2. QED
    BY <1>0, <1>9, <2>1, EndOK, DropOK DEF MarkFailed, Return, ReturnError, groupVars
<1>10. CASE SaveFilename(i)
  <2>1. row' \in [Bookings -> Row]
    BY <1>10, SaveType DEF SaveFilename, NoticeStatus
  <2>2. QED
    BY <1>0, <1>10, <2>1, EndOK, GotoOK DEF SaveFilename, groupVars, AtStep, MailStep
<1>11. CASE CommitClaim(i)
  BY <1>0, <1>11, EndOK, GotoOK DEF CommitClaim, groupVars, AtStep, MailStep
<1>12. CASE AttachPDF(i)
  BY <1>0, <1>12, EndOK, GotoOK DEF AttachPDF, groupVars, AtStep, MailStep
<1>13. QED
  BY <1>3, <1>4, <1>5, <1>6, <1>7, <1>8, <1>9, <1>10, <1>11, <1>12 DEF MailTaskStep

(* A handler starts on what its session reads. *)
LEMMA StartTypes ==
  ASSUME TypeInv, NEW i \in Instances, StartHandler(i)
  PROVE  GroupOK' /\ ServiceOK'
<1> USE DEF TypeInv, TypeOK, GroupOK, ServiceOK
<1>0. /\ waiting \in [Instances -> SUBSET Topics]
      /\ row \in [Bookings -> Row] /\ serial \in Nat
      /\ sent \in [Bookings -> Nat] /\ told \in [Bookings -> SUBSET Told]
  BY DEF GroupTypeOK, ServiceTypeOK
<1>1. CASE TakeMessage(i)
  <2>1. GroupOK'
    BY <1>1, TakeOK
  <2>2. NextMessage(i) \in Bookings
    BY <1>1, NextIsBooking DEF TakeMessage
  <2>3. CASE UNCHANGED task
    BY <1>0, <2>1, <2>3 DEF StartHandler, ServiceTypeOK, Named, AtStep, Booking
  <2>4. CASE Proceed(i, IF session[i].topic = "completed" THEN "count" ELSE "claim",
                     NextMessage(i), 0, FALSE, "other")
    BY <1>0, <2>1, <2>2, <2>4, ProceedOK DEF StartHandler, CreateStep, MailStep
  <2>5. CASE ReturnError(i)
    BY <1>0, <2>1, <2>5, DropOK DEF StartHandler, ReturnError
  <2>6. QED
    BY <2>3, <2>4, <2>5 DEF StartHandler
<1>2. CASE ReturnError(i)
  BY <1>0, <1>2, EndOK, DropOK DEF StartHandler, ReturnError
<1>3. QED
  BY <1>1, <1>2 DEF StartHandler

(* A call that is given the context fails. *)
LEMMA CallTypes ==
  ASSUME TypeInv, NEW i \in Instances, CallFails(i)
  PROVE  GroupOK' /\ ServiceOK'
<1> USE DEF TypeInv, TypeOK, GroupOK, ServiceOK
<1>0. /\ waiting \in [Instances -> SUBSET Topics]
      /\ row' \in [Bookings -> Row] /\ serial' \in Nat
      /\ sent' \in [Bookings -> Nat] /\ told' \in [Bookings -> SUBSET Told]
  BY DEF CallFails, GroupTypeOK, ServiceTypeOK
<1>1. CASE ReturnError(i)
  BY <1>0, <1>1, EndOK, DropOK DEF ReturnError
<1>2. CASE Return(i)
  BY <1>0, <1>2, EndOK, DropOK DEF Return, groupVars
<1>3. CASE /\ task[i].step \in {"fetch", "render", "load"}
           /\ Goto(i, "fail") /\ UNCHANGED groupVars
  BY <1>0, <1>3, EndOK, GotoOK DEF groupVars, AtStep, MailStep
<1>4. QED
  BY <1>1, <1>2, <1>3 DEF CallFails

(* Handlers whose calls fail, and processes that die. *)
LEMMA TaskFaultTypes ==
  ASSUME TypeInv, NEW i \in Instances, TaskFault(i)
  PROVE  GroupOK' /\ ServiceOK'
<1> USE DEF TypeInv, TypeOK, GroupOK, ServiceOK
<1>0. /\ waiting \in [Instances -> SUBSET Topics]
      /\ row \in [Bookings -> Row] /\ serial \in Nat
      /\ sent \in [Bookings -> Nat] /\ told \in [Bookings -> SUBSET Told]
  BY DEF GroupTypeOK, ServiceTypeOK
<1>1. /\ task[i].id \in Nat
      /\ task[i].pdf \in BOOLEAN
      /\ task[i].wire \in {"CONFIRMED", "CANCEL", "other"}
  BY TaskFields
<1>2. task[i].step # "idle" => Booking(i) \in Bookings
  BY DEF Named, AtStep
<1>3. CASE StatementFails(i)
  <2>1. row' \in [Bookings -> Row]
    BY <1>0, <1>3, SaveType DEF StatementFails, NoticeStatus
  <2>2. CASE ReturnError(i)
    BY <1>0, <1>3, <2>1, <2>2, EndOK, DropOK DEF StatementFails, ReturnError
  <2>3. CASE Return(i)
    BY <1>0, <1>3, <2>1, <2>3, EndOK, DropOK DEF StatementFails, Return, groupVars
  <2>4. CASE AtStep(i, "attach") /\ Goto(i, "fail") /\ UNCHANGED groupVars
    BY <1>0, <1>3, <2>1, <2>4, EndOK, GotoOK
    DEF StatementFails, groupVars, AtStep, MailStep
  <2>5. QED
    BY <1>3, <2>2, <2>3, <2>4 DEF StatementFails
<1>4. CASE ProduceUnanswered(i)
  <2>1. Booking(i) \in Bookings
    BY <1>2, <1>4 DEF ProduceUnanswered
  <2>2. log' = log \/ \E t \in Topics, b \in Bookings : Publish(t, b)
    BY <1>4, <2>1 DEF ProduceUnanswered, Publish, Topics
  <2>3. GroupOK'
    BY <1>0, <1>4, <2>2, EndOK DEF ProduceUnanswered
  <2>4. CASE AtStep(i, "produce")
    <3>1. Goto(i, "reproduce") /\ UNCHANGED <<row, serial, sent, told>>
      BY <1>4, <2>4 DEF ProduceUnanswered
    <3>2. QED
      BY <1>0, <2>3, <2>4, <3>1, GotoOK DEF AtStep, CreateStep
  <2>5. CASE ~ AtStep(i, "produce")
    BY <1>0, <1>4, <2>3, <2>5, DropOK DEF ProduceUnanswered
  <2>6. QED
    BY <2>4, <2>5
<1>5. CASE CallFails(i)
  BY <1>5, CallTypes DEF TypeInv
<1>7. CASE SendFails(i)
  <2>1. sent' \in [Bookings -> Nat] /\ told' \in [Bookings -> SUBSET Told]
    BY <1>0, <1>2, <1>7, MailType DEF SendFails, AtStep
  <2>2. QED
    BY <1>0, <1>7, <2>1, EndOK, GotoOK DEF SendFails, groupVars, AtStep, MailStep
<1>8. CASE LastUpdateFails(i)
  BY <1>0, <1>8, EndOK, DropOK DEF LastUpdateFails, Return, ReturnError, groupVars
<1>9. CASE Restart(i)
  <2>1. GroupOK'
    <3>1. waiting' \in [Instances -> SUBSET Topics]
      BY <1>0, <1>9 DEF Restart, StartAgain
    <3>2. QED
      BY <1>9, <3>1, EndOK DEF Restart, StartAgain
  <2>2. ServiceOK'
    BY <1>0, <1>9, DropOK DEF Restart
  <2>3. QED
    BY <2>1, <2>2
<1>10. QED
  BY <1>3, <1>4, <1>5, <1>7, <1>8, <1>9 DEF TaskFault

(* Bookings move as BookingLifecycle lets them. *)
LEMMA LifeTypes ==
  ASSUME Life!LifeTypeOK, NEW b \in Bookings, BookingStep(b)
  PROVE  Life!LifeTypeOK'
<1> USE DEF Life!LifeTypeOK, Life!LifeStatus, Life!Move
<1>1. CASE Life!Create(b) BY <1>1 DEF Life!Create
<1>2. CASE Life!StartPayment(b) BY <1>2 DEF Life!StartPayment
<1>3. CASE Life!TimeOut(b) BY <1>3 DEF Life!TimeOut
<1>4. CASE Life!Settle(b) BY <1>4 DEF Life!Settle
<1>5. CASE Life!Confirm(b) BY <1>5 DEF Life!Confirm
<1>6. CASE Life!Release(b) BY <1>6 DEF Life!Release
<1>7. QED
  BY <1>1, <1>2, <1>3, <1>4, <1>5, <1>6 DEF BookingStep

(* No step of a process, the group or the booking side leaves the types. *)
LEMMA TypePreserved == TypeInv /\ [Next]_vars => TypeInv'
<1> SUFFICES ASSUME TypeInv, [Next]_vars PROVE TypeInv'
  OBVIOUS
<1>0. /\ GroupOK /\ ServiceOK /\ Life!LifeTypeOK
      /\ faults \in 0 .. MaxFaults /\ evictions \in 0 .. MaxFaults
  BY DEF TypeInv, TypeOK, GroupOK, ServiceOK
<1>1. UNCHANGED serviceVars => ServiceOK'
  BY <1>0 DEF ServiceOK, ServiceTypeOK, Named, AtStep, Booking, serviceVars
<1>2. UNCHANGED groupVars => GroupOK'
  BY <1>0 DEF GroupOK, GroupTypeOK, Fetched, groupVars
<1>3. UNCHANGED bookingVars => Life!LifeTypeOK'
  BY <1>0 DEF Life!LifeTypeOK, bookingVars
<1>4. UNCHANGED boundVars
        => faults' \in 0 .. MaxFaults /\ evictions' \in 0 .. MaxFaults
  BY <1>0 DEF boundVars
<1>5. ASSUME GroupOK', ServiceOK', Life!LifeTypeOK',
             faults' \in 0 .. MaxFaults, evictions' \in 0 .. MaxFaults
      PROVE  TypeInv'
  BY <1>5 DEF TypeInv, TypeOK, GroupOK, ServiceOK
<1>6. ASSUME NEW b \in Bookings, BookingStep(b) PROVE TypeInv'
  BY <1>0, <1>1, <1>2, <1>4, <1>5, <1>6, LifeTypes DEF BookingStep, noticeVars
<1>7. ASSUME NEW b \in Bookings, AnnouncePayment(b) PROVE TypeInv'
  <2>1. Publish("completed", b) /\ UNCHANGED <<waiting, session>>
    BY <1>7 DEF AnnouncePayment
  <2>2. waiting \in [Instances -> SUBSET Topics]
    BY <1>0 DEF GroupOK, GroupTypeOK
  <2>3. ASSUME Instances = {} PROVE GroupOK'
    <3>1. log' \in [Topics -> Seq(Bookings)]
      BY <1>0, <2>1, PublishType DEF GroupOK, Topics
    <3>2. GroupTypeOK'
      BY <1>0, <2>1, <3>1 DEF GroupOK, GroupTypeOK
    <3>3. Fetched'
      BY <2>3 DEF Fetched
    <3>4. QED
      BY <3>2, <3>3 DEF GroupOK
  <2>4. ASSUME Instances # {} PROVE GroupOK'
    <3>1. PICK i \in Instances : TRUE
      BY <2>4
    <3>2. \E t \in Topics, a \in Bookings : Publish(t, a)
      BY <2>1 DEF Topics
    <3>3. QED
      BY <1>0, <2>1, <2>2, <3>1, <3>2, EndOK
  <2>5. QED
    BY <1>1, <1>3, <1>4, <1>5, <1>7, <2>3, <2>4 DEF AnnouncePayment
<1>8. CASE Rebalance
  <2>1. PICK members \in SUBSET Instances :
          /\ members # {}
          /\ \E winners \in SUBSET members :
               \E pick \in [members -> Topics] : JoinGroup(members, pick, winners)
    BY <1>8 DEF Rebalance
  <2>2. PICK i \in Instances : TRUE
    BY <2>1
  <2>3. GroupOK'
    BY <1>0, <2>1, <2>2, RegroupOK
  <2>4. QED
    BY <1>1, <1>3, <1>4, <1>5, <1>8, <2>3 DEF Rebalance
<1>9. ASSUME NEW i \in Instances, MakeRoom(i) PROVE TypeInv'
  <2>1. GroupOK'
    BY <1>0, <1>9, RegroupOK DEF MakeRoom
  <2>2. QED
    BY <1>1, <1>3, <1>4, <1>5, <1>9, <2>1 DEF MakeRoom
<1>10. ASSUME NEW i \in Instances, LeaveSession(i) PROVE TypeInv'
  <2>1. GroupOK'
    BY <1>0, <1>10, EndOK DEF LeaveSession, ConsumeReturns, GroupOK, GroupTypeOK
  <2>2. QED
    BY <1>1, <1>3, <1>4, <1>5, <1>10, <2>1 DEF LeaveSession
<1>11. ASSUME NEW i \in Instances, TaskStep(i) PROVE TypeInv'
  <2>1. CancelledCall(i) => TaskFault(i)
    BY DEF CancelledCall, TaskFault
  <2>2. GroupOK' /\ ServiceOK'
    BY <1>11, <2>1, StartTypes, CreateTaskTypes, MailTaskTypes, TaskFaultTypes DEF TaskStep
  <2>3. QED
    BY <1>3, <1>4, <1>5, <1>11, <2>2 DEF TaskStep
<1>12. CASE Fault
  <2>1. faults' \in 0 .. MaxFaults /\ evictions' \in 0 .. MaxFaults
        /\ Life!LifeTypeOK'
    BY <1>0, <1>3, <1>12, BoundsAssumption DEF Fault
  <2>2. ASSUME NEW i \in Instances, TaskFault(i) PROVE TypeInv'
    BY <1>5, <2>1, <2>2, TaskFaultTypes
  <2>3. ASSUME NEW i \in Instances, GroupFault(i) PROVE TypeInv'
    <3>1. CASE CancelSession(i)
      BY <1>0, <1>1, <1>5, <2>1, <2>3, <3>1, RegroupOK DEF GroupFault
    <3>2. ASSUME NEW t \in Topics, ConsumeFails(i, t) PROVE TypeInv'
      <4>1. waiting' \in [Instances -> SUBSET Topics]
        BY <1>0, <3>2 DEF ConsumeFails, GroupOK, GroupTypeOK
      <4>2. GroupOK'
        BY <1>0, <3>2, <4>1, EndOK DEF ConsumeFails
      <4>3. QED
        BY <1>1, <1>5, <2>1, <2>3, <4>2 DEF GroupFault
    <3>3. QED
      BY <2>3, <3>1, <3>2 DEF GroupFault
  <2>4. QED
    BY <1>12, <2>2, <2>3 DEF Fault
<1>13. CASE Eviction
  <2>1. PICK i \in Instances : Evict(i)
    BY <1>13 DEF Eviction
  <2>2. GroupOK'
    BY <1>0, <2>1, RegroupOK
  <2>3. evictions' \in 0 .. MaxFaults /\ faults' \in 0 .. MaxFaults
        /\ UNCHANGED <<serviceVars, bookingVars>>
    BY <1>0, <1>13, BoundsAssumption DEF Eviction
  <2>4. QED
    BY <1>1, <1>3, <1>5, <2>2, <2>3
<1>14. CASE UNCHANGED vars
  BY <1>1, <1>2, <1>3, <1>4, <1>5, <1>14 DEF vars, noticeVars
<1>15. QED
  BY <1>6, <1>7, <1>8, <1>9, <1>10, <1>11, <1>12, <1>13, <1>14 DEF Next

(* Every variable keeps its type, whatever fails or is repeated.              *)
THEOREM TypeCorrect == Spec => []TypeOK
<1>1. Init => TypeInv
  BY TypeInitially
  DEF TypeInv, Fetched, Named, AtStep, Init, GroupInit, ServiceInit, NoSession, NoTask,
      Topics
<1>2. TypeInv => TypeOK
  BY DEF TypeInv
<1>3. QED
  BY <1>1, <1>2, TypePreserved, PTL DEF Spec
=============================================================================
