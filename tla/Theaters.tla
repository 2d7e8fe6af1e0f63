------------------------------ MODULE Theaters ------------------------------
(***************************************************************************)
(* MovieService: theaters, their screens, and the seats of a screen.       *)
(*                                                                         *)
(* A CreateScreen call inserts at most one screen, so s names both.  It    *)
(* announces the screen on the topic screen_created from inside its        *)
(* transaction; MovieService's consumer, a process of its own, reads the   *)
(* topic and inserts the seats.  A seeding is one run of                   *)
(* createAllSeatOfScreen, for a message or for the gRPC call of that name; *)
(* its transaction inserts all seats of a screen or none, so d also names  *)
(* the copy of the seat plan it has inserted.                              *)
(*                                                                         *)
(* Rows of a transaction that has not committed are visible to nobody; the *)
(* locks it holds are the guards of those who would wait for them.         *)
(***************************************************************************)
EXTENDS Naturals

CONSTANTS
  Theaters,     \* CreateTheater calls, and their theaters
  Screens,      \* CreateScreen calls, and their screens
  ScreenTypes,  \* CreateScreenType calls, and their screen types
  SeatsOfType,  \* their numbers of seats: 90, 120 or 150
  Names,        \* display names of screens
  Seedings      \* runs of createAllSeatOfScreen

ASSUME SeatsAssumption == SeatsOfType \in [ScreenTypes -> Nat]

VARIABLES
  screenTypes,  \* the screen types that are there; none is ever deleted
  theater,      \* the row of a theater
  screenCount,  \* its column screen_count
  seatCount,    \* its column seat_count
  wanted,       \* [theater, type] a CreateScreen call asks for
  name,         \* the display name a call asks for, then the row's
  screen,       \* the row of a screen
  screenCall,   \* where the CreateScreen call is
  topic,        \* screens with a message the consumer has not fetched
  uncommitted,  \* screens whose message is fetched, the offset not committed
  seeding,      \* [step, screen, kafka]: where a seeding is
  seats,        \* the copies of the seat plan a screen has
  lost,         \* history: screens a handler died for after the commit of its offset
  again         \* history: screens with a message put back to be read again

tableVars == <<screenTypes, theater, screenCount, seatCount, name, screen>>
consumerVars == <<topic, uncommitted, seeding, lost, again>>
theaterVars == <<tableVars, wanted, screenCall, seats, consumerVars>>

RowState == {"absent", "inserted", "present", "deleted"}
ScreenStep == {"idle", "reading", "inserting", "producing", "committing",
               "done", "failed"}
SeedingStep == {"idle", "reading", "inserting", "done", "failed"}

TheaterTypeOK ==
  /\ screenTypes \subseteq ScreenTypes
  /\ theater \in [Theaters -> RowState \ {"inserted"}]
  /\ screenCount \in [Theaters -> Nat]
  /\ seatCount \in [Theaters -> Nat]
  /\ wanted \in [Screens -> [theater : Theaters, type : ScreenTypes]]
  /\ name \in [Screens -> Names]
  /\ screen \in [Screens -> RowState]
  /\ screenCall \in [Screens -> ScreenStep]
  /\ topic \subseteq Screens
  /\ uncommitted \subseteq Screens
  /\ seeding \in [Seedings ->
                    [step : SeedingStep, screen : Screens, kafka : BOOLEAN]]
  /\ seats \in [Screens -> SUBSET Seedings]
  /\ lost \subseteq Screens
  /\ again \subseteq Screens

(* Seeds make the first screen types and theaters. *)
TheaterInit ==
  /\ screenTypes \in SUBSET ScreenTypes
  /\ theater \in [Theaters -> {"absent", "present"}]
  /\ screenCount = [t \in Theaters |-> 0]
  /\ seatCount = [t \in Theaters |-> 0]
  /\ wanted \in [Screens -> [theater : Theaters, type : ScreenTypes]]
  /\ name \in [Screens -> Names]
  /\ screen = [s \in Screens |-> "absent"]
  /\ screenCall = [s \in Screens |-> "idle"]
  /\ topic = {}
  /\ uncommitted = {}
  /\ \E s \in [Seedings -> Screens] :
       seeding = [d \in Seedings |->
                    [step |-> "idle", screen |-> s[d], kafka |-> FALSE]]
  /\ seats = [s \in Screens |-> {}]
  /\ lost = {}
  /\ again = {}

ScreensOf(t) == {s \in Screens : wanted[s].theater = t /\ screen[s] = "present"}

(* The trigger of an uncommitted insert holds the lock of the theater's row. *)
Locked(t) == \E s \in Screens : wanted[s].theater = t /\ screen[s] = "inserted"

(* The unique index over theater and display name. *)
NameTaken(s, n) ==
  \E r \in Screens :
    /\ wanted[r].theater = wanted[s].theater
    /\ screen[r] \in {"inserted", "present"}
    /\ name[r] = n

---------------------------------------------------------------------------
(* Theaters *)

CreateTheater(t) ==
  /\ theater[t] = "absent"
  /\ theater' = [theater EXCEPT ![t] = "present"]
  /\ UNCHANGED <<screenTypes, screenCount, seatCount, name, screen>>
  /\ UNCHANGED <<wanted, screenCall, seats, consumerVars>>

(* Deleting screens takes their seats with them. *)
DropScreens(S) ==
  /\ screen' = [s \in Screens |-> IF s \in S THEN "deleted" ELSE screen[s]]
  /\ seats' = [s \in Screens |-> IF s \in S THEN {} ELSE seats[s]]

DeleteTheater(t) ==
  /\ theater[t] = "present"
  /\ ~ Locked(t)
  /\ theater' = [theater EXCEPT ![t] = "deleted"]
  /\ DropScreens(ScreensOf(t))
  /\ UNCHANGED <<screenTypes, screenCount, seatCount, name, wanted, screenCall, consumerVars>>

---------------------------------------------------------------------------
(* Screen types and screens *)

ScreenStepFrom(s, from, to) ==
  /\ screenCall[s] = from
  /\ screenCall' = [screenCall EXCEPT ![s] = to]

StartCreateScreen(s) ==
  /\ ScreenStepFrom(s, "idle", "reading")
  /\ UNCHANGED <<tableVars, wanted, seats, consumerVars>>

CreateScreenType(k) ==
  /\ k \notin screenTypes
  /\ screenTypes' = screenTypes \union {k}
  /\ UNCHANGED <<theater, screenCount, seatCount, name, screen>>
  /\ UNCHANGED <<wanted, screenCall, seats, consumerVars>>

ReadScreenType(s) ==
  /\ wanted[s].type \in screenTypes
  /\ ScreenStepFrom(s, "reading", "inserting")
  /\ UNCHANGED <<tableVars, wanted, seats, consumerVars>>

(* No such screen type, or no valid display name. *)
RejectScreen(s) ==
  /\ ScreenStepFrom(s, "reading", "failed")
  /\ UNCHANGED <<tableVars, wanted, seats, consumerVars>>

InsertScreen(s) ==
  LET t == wanted[s].theater IN
  /\ ~ Locked(t)
  /\ \/ /\ theater[t] = "present"
        /\ ~ NameTaken(s, name[s])
        /\ ScreenStepFrom(s, "inserting", "producing")
        /\ screen' = [screen EXCEPT ![s] = "inserted"]
     \/ /\ theater[t] # "present" \/ NameTaken(s, name[s])
        /\ ScreenStepFrom(s, "inserting", "failed")
        /\ UNCHANGED screen
  /\ UNCHANGED <<screenTypes, theater, screenCount, seatCount, name, wanted, seats, consumerVars>>

(* Mutant: the message is not sent. *)
SkipScreenCreated(s) ==
  /\ ScreenStepFrom(s, "producing", "committing")
  /\ UNCHANGED <<tableVars, wanted, seats, consumerVars>>

ProduceScreenCreated(s) ==
  /\ ScreenStepFrom(s, "producing", "committing")
  /\ topic' = topic \union {s}
  /\ UNCHANGED <<tableVars, wanted, seats, uncommitted, seeding, lost, again>>

(* Mutants: the seats are not counted; the trigger subtracts. *)
CountScreenAlone(s) ==
  /\ screenCount' = [screenCount EXCEPT ![wanted[s].theater] = @ + 1]
  /\ UNCHANGED seatCount

CountScreenDown(s) ==
  /\ screenCount' = [screenCount EXCEPT ![wanted[s].theater] = @ - 1]
  /\ UNCHANGED seatCount

(* The trigger theater_tab_update_trigger: nothing ever counts down. *)
CountScreen(s) ==
  LET t == wanted[s].theater IN
  /\ screenCount' = [screenCount EXCEPT ![t] = @ + 1]
  /\ seatCount' = [seatCount EXCEPT ![t] = @ + SeatsOfType[wanted[s].type]]

CommitScreen(s) ==
  /\ ScreenStepFrom(s, "committing", "done")
  /\ screen' = [screen EXCEPT ![s] = "present"]
  /\ CountScreen(s)
  /\ UNCHANGED <<screenTypes, theater, name, wanted, seats, consumerVars>>

(* A rollback, with the message sent or not; a send that is not answered    *)
(* may have sent it.                                                        *)
CreateScreenFails(s) ==
  /\ screenCall[s] \in {"reading", "inserting", "producing", "committing"}
  /\ screenCall' = [screenCall EXCEPT ![s] = "failed"]
  /\ screen' = [screen EXCEPT ![s] = "absent"]
  /\ topic' \in {topic} \union
       (IF screenCall[s] = "producing" THEN {topic \union {s}} ELSE {})
  /\ UNCHANGED <<screenTypes, theater, screenCount, seatCount, name, wanted, seats,
                 uncommitted, seeding, lost, again>>

(* The display name is looked up in all theaters, and must be nowhere.      *)
UpdateScreen(s, n) ==
  /\ screen[s] = "present"
  /\ \A r \in Screens : screen[r] = "present" => name[r] # n
  /\ ~ NameTaken(s, n)
  /\ name' = [name EXCEPT ![s] = n]
  /\ UNCHANGED <<screenTypes, theater, screenCount, seatCount, screen>>
  /\ UNCHANGED <<wanted, screenCall, seats, consumerVars>>

DeleteScreen(s) ==
  /\ screen[s] = "present"
  /\ DropScreens({s})
  /\ UNCHANGED <<screenTypes, theater, screenCount, seatCount, name, wanted, screenCall,
                 consumerVars>>

(* The handler of DeleteScreenType deletes the screen with the id of the type. *)
DeleteScreenType(s) == DeleteScreen(s)

---------------------------------------------------------------------------
(* The consumer of screen_created *)

Running(d) == seeding[d].step \in {"reading", "inserting"}

StartSeeding(d, s, kafka) ==
  /\ seeding[d].step = "idle"
  /\ seeding' = [seeding EXCEPT ![d] =
                   [step |-> "reading", screen |-> s, kafka |-> kafka]]

(* Mutant: the fetched message is fetched again. *)
OnScreenCreatedAgain(d, s) ==
  /\ s \in topic
  /\ uncommitted' = uncommitted \union {s}
  /\ StartSeeding(d, s, TRUE)
  /\ UNCHANGED <<tableVars, wanted, screenCall, seats, topic, lost, again>>

(* A message is handled while the consumer goes on to the next, and while   *)
(* its offset is committed.                                                 *)
OnScreenCreated(d, s) ==
  /\ s \in topic
  /\ topic' = topic \ {s}
  /\ uncommitted' = uncommitted \union {s}
  /\ StartSeeding(d, s, TRUE)
  /\ UNCHANGED <<tableVars, wanted, screenCall, seats, lost, again>>

CommitOffsets ==
  /\ uncommitted # {}
  /\ uncommitted' = {}
  /\ UNCHANGED <<tableVars, wanted, screenCall, seats, topic, seeding, lost, again>>

CreateAllSeatOfScreen(d, s) ==
  /\ StartSeeding(d, s, FALSE)
  /\ UNCHANGED <<tableVars, wanted, screenCall, seats, topic, uncommitted, lost, again>>

SeedingStepTo(d, from, to) ==
  /\ seeding[d].step = from
  /\ seeding' = [seeding EXCEPT ![d].step = to]

ReadScreenToSeat(d) ==
  /\ screen[seeding[d].screen] = "present"
  /\ SeedingStepTo(d, "reading", "inserting")
  /\ UNCHANGED <<tableVars, wanted, screenCall, seats, topic, uncommitted, lost, again>>

(* Mutant: the transaction is not committed. *)
InsertSeatsInVain(d) ==
  /\ screen[seeding[d].screen] = "present"
  /\ SeedingStepTo(d, "inserting", "done")
  /\ UNCHANGED <<tableVars, wanted, screenCall, seats, topic, uncommitted, lost, again>>

InsertSeats(d) ==
  LET s == seeding[d].screen IN
  /\ screen[s] = "present"
  /\ SeedingStepTo(d, "inserting", "done")
  /\ seats' = [seats EXCEPT ![s] = @ \union {d}]
  /\ UNCHANGED <<tableVars, wanted, screenCall, topic, uncommitted, lost, again>>

(* The screen is not there, or the screen type a gRPC call names beside it:  *)
(* createAllSeatOfScreen throws.                                             *)
NoScreenToSeat(d) ==
  /\ Running(d)
  /\ \/ screen[seeding[d].screen] # "present"
     \/ seeding[d].step = "reading" /\ ~ seeding[d].kafka

(* Thrown to the gRPC handler, the error is the call's answer. *)
AnswerSeedingError(d) ==
  /\ ~ seeding[d].kafka
  /\ SeedingStepTo(d, seeding[d].step, "failed")
  /\ UNCHANGED <<tableVars, wanted, screenCall, seats, topic, uncommitted, lost, again>>

(* The group's next consumer starts behind the offsets that are committed.   *)
ReadAgain ==
  /\ topic' = topic \union uncommitted
  /\ uncommitted' = {}
  /\ again' = again \union uncommitted

(* A rebalance: the handlers that are running go on. *)
ConsumerRejoins ==
  /\ uncommitted # {}
  /\ ReadAgain
  /\ UNCHANGED <<tableVars, wanted, screenCall, seats, seeding, lost>>

(* Thrown to nobody, as the handler of a message is not awaited, the error   *)
(* ends the consumer's process, and with it every handler that is running.   *)
ConsumerDies ==
  LET killed == {d \in Seedings : seeding[d].kafka /\ Running(d)} IN
  /\ ReadAgain
  /\ seeding' = [d \in Seedings |->
                   IF d \in killed THEN [seeding[d] EXCEPT !.step = "failed"]
                   ELSE seeding[d]]
  /\ lost' = lost \union
       ({seeding[d].screen : d \in killed} \ (uncommitted \union topic))
  /\ UNCHANGED <<tableVars, wanted, screenCall, seats>>

SeedingThrows(d) ==
  IF seeding[d].kafka THEN ConsumerDies ELSE AnswerSeedingError(d)

SeedingFails(d) == Running(d) /\ SeedingThrows(d)

SeedingFindsNoScreen(d) == NoScreenToSeat(d) /\ SeedingThrows(d)

---------------------------------------------------------------------------
(* The process of the gRPC server ends: its transactions are rolled back, a  *)
(* message on its way may have been sent.                                    *)
TheatersInterrupted ==
  /\ screenCall' = [s \in Screens |->
                      IF screenCall[s] \in {"idle", "done"} THEN screenCall[s]
                      ELSE "failed"]
  /\ screen' = [s \in Screens |->
                  IF screen[s] = "inserted" THEN "absent" ELSE screen[s]]
  /\ \E sent \in SUBSET {s \in Screens : screenCall[s] = "producing"} :
       topic' = topic \union sent
  /\ seeding' = [d \in Seedings |->
                   IF Running(d) /\ ~ seeding[d].kafka
                   THEN [seeding[d] EXCEPT !.step = "failed"] ELSE seeding[d]]
  /\ UNCHANGED <<screenTypes, theater, screenCount, seatCount, name, wanted, seats,
                 uncommitted, lost, again>>
============================================================================
