--------------------------- MODULE ConsumerGroup ---------------------------
(***************************************************************************)
(* NotificationService's Kafka consumer: consumer.Start and ConsumeClaim   *)
(* over one sarama ConsumerGroup per process.  Start calls Consume once    *)
(* for each topic, in goroutines, and Consume holds the group's lock until *)
(* its session is over, so a process serves one topic at a time and never  *)
(* comes back to a topic it has left.  No message is ever marked: a        *)
(* session that gets a partition starts behind its newest message.         *)
(*                                                                         *)
(* Each topic has one partition.  Both kinds of message carry one id.      *)
(***************************************************************************)
EXTENDS Naturals, Sequences, BookingMessages

CONSTANT Instances  \* processes of the service, one consumer group

VARIABLES
  log,      \* the messages of each topic
  waiting,  \* topics whose Consume call has not had the lock yet
  session   \* what the process's current Consume call is at

groupVars == <<log, waiting, session>>

Topics == {"completed", "created"}

(* A session "without" a partition has joined the group and has nothing to  *)
(* read.  An "evicted" one has lost its membership and does not know it.  A *)
(* cancelled one is "ending": its context is done, its handler runs on, and *)
(* messages fetched before (below last) may still be handled.               *)
Session ==
  [phase : {"none", "without", "claimed", "evicted", "ending"}, topic : Topics,
   next : Nat, last : Nat]

NoSession == [phase |-> "none", topic |-> "completed", next |-> 0, last |-> 0]

GroupTypeOK ==
  /\ log \in [Topics -> Seq(Bookings)]
  /\ waiting \in [Instances -> SUBSET Topics]
  /\ session \in [Instances -> Session]

GroupInit ==
  /\ log = [t \in Topics |-> <<>>]
  /\ waiting = [i \in Instances |-> Topics]
  /\ session = [i \in Instances |-> NoSession]

EndSession(i) == session' = [session EXCEPT ![i] = NoSession]

Publish(t, b) == log' = [log EXCEPT ![t] = Append(@, b)]

---------------------------------------------------------------------------
(* Joining *)

ReadyToJoin(i) == session[i].phase = "none" /\ waiting[i] # {}

InitialOffset(t) == Len(log[t])

Joined(t, winner) ==
  [phase |-> IF winner THEN "claimed" ELSE "without", topic |-> t,
   next |-> InitialOffset(t), last |-> InitialOffset(t)]

(* Members join with a topic each; of those that want a topic one is given  *)
(* its partition.  The sessions of the generation before are over.          *)
JoinGroup(members, pick, winners) ==
  /\ \A i \in members : ReadyToJoin(i) /\ pick[i] \in waiting[i]
  /\ \A i \in Instances \ members :
       session[i].phase \in {"none", "evicted", "ending"}
  /\ \A i \in members : \E w \in winners : pick[w] = pick[i]
  /\ \A v, w \in winners : pick[v] = pick[w] => v = w
  /\ session' = [i \in Instances |->
                   IF i \in members THEN Joined(pick[i], i \in winners)
                   ELSE session[i]]
  /\ waiting' = [i \in Instances |->
                   IF i \in members THEN waiting[i] \ {pick[i]} ELSE waiting[i]]
  /\ UNCHANGED log

(* The heartbeat reports a rebalance, or is not answered. *)
CancelSession(i) ==
  /\ session[i].phase \in {"without", "claimed", "evicted"}
  /\ session' = [session EXCEPT ![i] =
                   IF @.phase = "without" THEN NoSession
                   ELSE [phase |-> "ending", topic |-> @.topic,
                         next |-> @.next, last |-> Len(log[@.topic])]]
  /\ UNCHANGED <<log, waiting>>

(* The broker hears nothing of the process and gives its partition away;    *)
(* the process reads on until its heartbeat fails.                          *)
Evict(i) ==
  /\ session[i].phase = "claimed"
  /\ session' = [session EXCEPT ![i] =
                   [phase |-> "evicted", topic |-> @.topic,
                    next |-> @.next, last |-> @.last]]
  /\ UNCHANGED <<log, waiting>>

(* ConsumeClaim has returned, Consume gives the lock back. *)
ConsumeReturns(i) ==
  /\ session[i].phase = "ending"
  /\ EndSession(i)
  /\ UNCHANGED <<log, waiting>>

(* Consume fails before there is a session; its error is logged. *)
ConsumeFails(i, t) ==
  /\ ReadyToJoin(i)
  /\ t \in waiting[i]
  /\ waiting' = [waiting EXCEPT ![i] = @ \ {t}]
  /\ UNCHANGED <<log, session>>

---------------------------------------------------------------------------
(* ConsumeClaim *)

(* The session's context is not done. *)
Live(i) == session[i].phase \in {"claimed", "evicted"}

NextMessage(i) == log[session[i].topic][session[i].next + 1]

Readable(i) ==
  \/ Live(i) /\ session[i].next < Len(log[session[i].topic])
  \/ session[i].phase = "ending" /\ session[i].next < session[i].last

TakeMessage(i) ==
  /\ Readable(i)
  /\ session' = [session EXCEPT ![i] =
                   [phase |-> @.phase, topic |-> @.topic,
                    next |-> @.next + 1, last |-> @.last]]
  /\ UNCHANGED <<log, waiting>>

(* The process dies and is started again. *)
StartAgain(i) ==
  /\ EndSession(i)
  /\ waiting' = [waiting EXCEPT ![i] = Topics]
  /\ UNCHANGED log
============================================================================
