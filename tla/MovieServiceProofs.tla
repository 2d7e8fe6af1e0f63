------------------------- MODULE MovieServiceProofs -------------------------
(***************************************************************************)
(* MovieService's safety properties, for every set of screens, movies and  *)
(* showtimes and every bound.  Each is shown inductive with what it rests  *)
(* on: where the calls, the handlers and the rows of a thing stand to each *)
(* other.                                                                  *)
(***************************************************************************)
EXTENDS MovieServiceTypes, FiniteSetTheorems

---------------------------------------------------------------------------
(* The invariants *)

(* A screen's row and the call that makes it; its theater and its seats. *)
ScreenOK(s) ==
  /\ screen[s] \in {"present", "deleted"} => screenCall[s] = "done"
  /\ screenCall[s] \in {"producing", "committing"} => screen[s] = "inserted"
  /\ screen[s] \in {"inserted", "present"} => theater[wanted[s].theater] = "present"
  /\ seats[s] # {} => screen[s] = "present"
  /\ \A d \in seats[s] : seeding[d].screen = s /\ seeding[d].step = "done"

ScreenInv == \A s \in Screens : ScreenOK(s)

(* A handler of the message about screen s, whatever has become of it. *)
Handler(d, s) == seeding[d].kafka /\ seeding[d].screen = s

(* A message is sent when the screen is inserted, and handled once. *)
MessageInv ==
  /\ \A d \in Seedings : seeding[d].step = "idle" => ~ seeding[d].kafka
  /\ \A s \in Screens :
       s \in topic \union uncommitted \/ (\E d \in Seedings : Handler(d, s)) =>
         screenCall[s] \in {"committing", "done", "failed"}
  /\ \A s \in Screens \ again : \A d, e \in Seedings :
       Handler(d, s) => s \notin topic /\ (Handler(e, s) => d = e)

(* A message that is fetched has a handler that runs or has made the seats. *)
Delivered(s) ==
  \/ HandlerRuns(s)
  \/ SeatedByMessage(s)
  \/ screen[s] = "deleted"
  \/ /\ s \notin uncommitted
     /\ screenCall[s] \in {"committing", "done"} => s \in topic \union lost

DeliveryInv == \A s \in Screens : Delivered(s)

(* A showtime's row and the call that makes it; its movie and its screen. *)
Live(x) == Shown(x) \/ Pending(x)

Grounded(x) == movie[plan[x].movie] = "present" /\ screen[plan[x].screen] = "present"

ShowtimeOK(x) ==
  /\ showtimeCall[x] = "committing" => Pending(x)
  /\ showtime[x] \in {"present", "deleted"} => showtimeCall[x] = "done"
  /\ Live(x) => Grounded(x)

ShowtimeInv == \A x \in Showtimes : ShowtimeOK(x)

(* Showtimes that overlap, committed or not. *)
OverlapInv ==
  \A x, y \in Showtimes :
    x # y /\ Live(x) /\ Live(y) /\ Overlap(x, y) =>
      x \in concurrent[y] \/ y \in concurrent[x]

(* What an answer is about was shown when it was read, and what is still to  *)
(* be read is what that refers to; a booked seat stays as long as its screen. *)
ListingOK(l) ==
  LET X == listing[l].showtimes IN
  /\ \A x \in X : showtime[x] \in {"present", "deleted"}
  /\ listing[l].step = "movies" => listing[l].unread \subseteq {plan[x].movie : x \in X}
  /\ listing[l].step = "screens" => listing[l].unread \subseteq {plan[x].screen : x \in X}
  /\ \A s \in listing[l].seat : screen[s] = "deleted" \/ seats[s] # {}

AnswersInv == \A l \in Listings : ListingOK(l)

(* The rows of a movie's parts. *)
PartInv ==
  /\ \A m \in Movies, g \in Genres :
       <<m, g>> \in genreLinks => Exists(m) /\ genre[g] = "present"
  /\ \A q \in pictureRow : Exists(q[1])
  /\ \A m \in trailer : Exists(m)

(* A picture's file is on its way before its row is there. *)
FileInv ==
  \A q \in Picture :
    q \in pictureRow \/ picture[q] \in {"inserting", "done"} =>
      file[q] \in {"uploading", "stored"} \/ (file[q] = "lost" /\ faults > 0)

(* What a CreateMovie call has made when it has come so far. *)
GenresLinked(m) ==
  \A i \in DOMAIN film[m].genres :
    LET g == film[m].genres[i] IN
    /\ genre[g] # "absent"
    /\ genre[g] = "present" => <<m, g>> \in genreLinks

MadeOK(m) ==
  /\ movieCall[m] \in {"idle", "title"} =>
       \A q \in Picture : q[1] = m => picture[q] = "idle"
  /\ Exists(m) =>
       /\ movieCall[m] \in {"pictures", "poster", "trailer", "done"} => GenresLinked(m)
       /\ movieCall[m] \in {"poster", "trailer", "done"} =>
            \A i \in Images : <<m, i>> \in pictureRow
       /\ movieCall[m] \in {"trailer", "done"} => <<m, Poster>> \in pictureRow
       /\ movieCall[m] = "done" => m \in trailer

WholeInv ==
  /\ \A m \in Movies : MadeOK(m)
  /\ \A q \in Picture : picture[q] = "done" /\ Exists(q[1]) => q \in pictureRow

(* Runs of the initialization job, as long as nothing fails. *)
JobInv ==
  faults = 0 =>
    /\ \A j \in Jobs :
         /\ job[j].step = "counting" => job[j].left # {}
         /\ job[j].step = "skipped" => filled # {}
         /\ job[j].step \in {"inserting", "failed", "done"} =>
              Tables \ job[j].left \subseteq filled
    /\ \/ filled = {} \/ filled = Tables
       \/ \E j \in Jobs : job[j].step \in {"inserting", "failed"} /\ job[j].left # {}

---------------------------------------------------------------------------
(* Which steps touch what *)

(* What a call asks for is settled. *)
LEMMA NothingReplanned == [Next]_vars => UNCHANGED <<wanted, film, plan>>
<1> SUFFICES ASSUME [Next]_vars PROVE UNCHANGED <<wanted, film, plan>>
  OBVIOUS
<1>1. ASSUME TheaterStep \/ ConsumerStep \/ ScreenDeletion \/ TheaterFault
             \/ TheatersInterrupted \/ UNCHANGED theaterVars
      PROVE  wanted' = wanted
  BY <1>1
  DEF TheaterStep, CreateTheater, CreateScreenType, StartCreateScreen, CreateScreenStep,
      ReadScreenType, RejectScreen, InsertScreen, ProduceScreenCreated, CommitScreen,
      UpdateScreen, ConsumerStep, OnScreenCreated, CommitOffsets, CreateAllSeatOfScreen,
      SeedingStepOf, ReadScreenToSeat, InsertSeats, SeedingFindsNoScreen, SeedingThrows,
      ConsumerDies, AnswerSeedingError, ScreenDeletion, DeleteTheater, DeleteScreen,
      DeleteScreenType, TheaterFault, CreateScreenFails, SeedingFails, ConsumerRejoins,
      TheatersInterrupted, theaterVars
<1>2. ASSUME MovieStepping \/ MovieDeletion \/ MovieFault \/ MoviesInterrupted
             \/ UNCHANGED movieVars
      PROVE  film' = film
  BY <1>2
  DEF MovieStepping, CreateMovieGenre, DeleteMovieGenre, StartCreateMovie, CreateMovieStep,
      InsertMovie, RefuseTitle, LinkGenres, RefuseGenres, FinishImages, FinishPoster,
      InsertTrailer, TrailerFindsNoMovie, CreatePictureStep, ReadMovieOfPicture,
      InsertPicture, PictureFindsNoMovie, PictureThrows, UploadFinishes, MovieDeletion,
      DeleteMovie, MovieFault, CreateMovieFails, PictureFails, MoviesInterrupted, movieVars
<1>3. ASSUME ShowtimeStepping \/ ScreenDeletion \/ MovieDeletion \/ ProgrammeFault
             \/ ShowtimesInterrupted \/ UNCHANGED showtimeVars
      PROVE  plan' = plan
  BY <1>3
  DEF ShowtimeStepping, StartCreateShowtime, RefuseTimeStart, CreateShowtimeStep,
      ReadScreenToShow, ReadLink, ReadStep, InsertShowtime,
      InsertShowtimeRefused, CommitShowtime, DeleteShowtime, DropShowtimes, ScreenDeletion,
      MovieDeletion, ProgrammeFault, CreateShowtimeFails, ShowtimesInterrupted, showtimeVars
<1>4. QED
  BY <1>1, <1>2, <1>3
  DEF Next, TheaterStep, ConsumerStep, ScreenDeletion, MovieStepping, MovieDeletion,
      SetupStep, ShowtimeStepping, ListingStepping, Fault, TheaterFault, MovieFault,
      ProgrammeFault, SetupFault, ServerStops, vars, programmeVars

(* The steps that touch theaters, screens and seats. *)
LEMMA TheaterSteps ==
  [Next]_vars =>
    \/ TheaterStep
    \/ ConsumerStep
    \/ \E t \in Theaters : DeleteTheater(t)
    \/ \E s \in Screens : DeleteScreen(s)
    \/ TheaterFault
    \/ TheatersInterrupted
    \/ UNCHANGED theaterVars
  BY DEF Next, ScreenDeletion, DeleteScreenType, MovieStepping, MovieDeletion, SetupStep,
         ShowtimeStepping, ListingStepping, Fault, MovieFault, ProgrammeFault, SetupFault,
         ServerStops, vars

(* The steps that touch genres and movies. *)
LEMMA MovieSteps ==
  [Next]_vars =>
    \/ MovieStepping
    \/ \E m \in Movies : DeleteMovie(m)
    \/ MovieFault
    \/ MoviesInterrupted /\ faults' = faults + 1
    \/ UNCHANGED movieVars
  BY DEF Next, TheaterStep, ConsumerStep, ScreenDeletion, MovieDeletion, SetupStep,
         ShowtimeStepping, ListingStepping, Fault, TheaterFault, ProgrammeFault,
         SetupFault, ServerStops, vars

---------------------------------------------------------------------------
(* Screens *)

(* A step of a call about a theater or a screen. *)
LEMMA ScreenInvCalls ==
  TheaterTypeOK /\ ScreenInv /\ TheaterStep => ScreenInv'
<1> SUFFICES ASSUME TheaterTypeOK, ScreenInv, TheaterStep PROVE ScreenInv'
  OBVIOUS
<1> USE DEF TheaterTypeOK, ScreenInv, ScreenOK, tableVars, consumerVars, ScreenStepFrom
<1>1. ASSUME NEW t \in Theaters, CreateTheater(t) PROVE ScreenInv'
  BY <1>1 DEF CreateTheater
<1>2. ASSUME NEW k \in ScreenTypes, CreateScreenType(k) PROVE ScreenInv'
  BY <1>2 DEF CreateScreenType
<1>3. ASSUME NEW s \in Screens, StartCreateScreen(s) PROVE ScreenInv'
  BY <1>3 DEF StartCreateScreen
<1>4. ASSUME NEW s \in Screens, ReadScreenType(s) PROVE ScreenInv'
  BY <1>4 DEF ReadScreenType
<1>5. ASSUME NEW s \in Screens, RejectScreen(s) PROVE ScreenInv'
  BY <1>5 DEF RejectScreen
<1>6. ASSUME NEW s \in Screens, InsertScreen(s) PROVE ScreenInv'
  <2>1. CASE screen' = [screen EXCEPT ![s] = "inserted"]
    BY <1>6, <2>1 DEF InsertScreen
  <2>2. CASE screen' = screen
    BY <1>6, <2>2 DEF InsertScreen
  <2>3. QED
    BY <1>6, <2>1, <2>2 DEF InsertScreen
<1>7. ASSUME NEW s \in Screens, ProduceScreenCreated(s) PROVE ScreenInv'
  BY <1>7 DEF ProduceScreenCreated
<1>8. ASSUME NEW s \in Screens, CommitScreen(s) PROVE ScreenInv'
  BY <1>8 DEF CommitScreen
<1>9. ASSUME NEW s \in Screens, NEW n \in Names, UpdateScreen(s, n) PROVE ScreenInv'
  BY <1>9 DEF UpdateScreen
<1>10. QED
  BY <1>1, <1>2, <1>3, <1>4, <1>5, <1>6, <1>7, <1>8, <1>9
  DEF TheaterStep, CreateScreenStep

(* A handler that throws. *)
LEMMA ScreenInvThrows ==
  ASSUME TheaterTypeOK, ScreenInv, NEW d \in Seedings, Running(d), SeedingThrows(d)
  PROVE  ScreenInv'
<1>1. UNCHANGED <<screen, screenCall, theater, wanted, seats>>
  BY DEF SeedingThrows, ConsumerDies, AnswerSeedingError, tableVars
<1>2. ASSUME NEW e \in Seedings, seeding[e].step = "done"
      PROVE  seeding'[e] = seeding[e]
  BY <1>2 DEF SeedingThrows, ConsumerDies, AnswerSeedingError, SeedingStepTo, Running,
              TheaterTypeOK
<1>3. QED
  BY <1>1, <1>2 DEF ScreenInv, ScreenOK, TheaterTypeOK

(* A step of the consumer. *)
LEMMA ScreenInvConsumer ==
  TheaterTypeOK /\ ScreenInv /\ ConsumerStep => ScreenInv'
<1> SUFFICES ASSUME TheaterTypeOK, ScreenInv, ConsumerStep PROVE ScreenInv'
  OBVIOUS
<1> USE DEF TheaterTypeOK, ScreenInv, ScreenOK, tableVars, StartSeeding, SeedingStepTo
<1>1. ASSUME NEW d \in Seedings, NEW s \in Screens, OnScreenCreated(d, s)
      PROVE  ScreenInv'
  BY <1>1 DEF OnScreenCreated
<1>2. CASE CommitOffsets
  BY <1>2 DEF CommitOffsets
<1>3. ASSUME NEW d \in Seedings, NEW s \in Screens, CreateAllSeatOfScreen(d, s)
      PROVE  ScreenInv'
  BY <1>3 DEF CreateAllSeatOfScreen
<1>4. ASSUME NEW d \in Seedings, ReadScreenToSeat(d) PROVE ScreenInv'
  BY <1>4 DEF ReadScreenToSeat
<1>5. ASSUME NEW d \in Seedings, InsertSeats(d) PROVE ScreenInv'
  BY <1>5 DEF InsertSeats
<1>6. ASSUME NEW d \in Seedings, SeedingFindsNoScreen(d) PROVE ScreenInv'
  BY <1>6, ScreenInvThrows DEF SeedingFindsNoScreen, NoScreenToSeat
<1>7. QED
  BY <1>1, <1>2, <1>3, <1>4, <1>5, <1>6 DEF ConsumerStep, SeedingStepOf

(* Every step. *)
LEMMA ScreenInvStep == TypeOK /\ ScreenInv /\ [Next]_vars => ScreenInv'
<1> SUFFICES ASSUME TheaterTypeOK, ScreenInv, [Next]_vars PROVE ScreenInv'
  BY DEF TypeOK
<1> USE DEF TheaterTypeOK, ScreenInv, ScreenOK, tableVars, consumerVars
<1>1. CASE TheaterStep
  BY <1>1, ScreenInvCalls
<1>2. CASE ConsumerStep
  BY <1>2, ScreenInvConsumer
<1>3. ASSUME NEW t \in Theaters, DeleteTheater(t) PROVE ScreenInv'
  BY <1>3 DEF DeleteTheater, DropScreens, ScreensOf, Locked
<1>4. ASSUME NEW s \in Screens, DeleteScreen(s) PROVE ScreenInv'
  BY <1>4 DEF DeleteScreen, DropScreens
<1>5. CASE TheaterFault
  <2>1. ASSUME NEW s \in Screens, CreateScreenFails(s) PROVE ScreenInv'
    BY <2>1 DEF CreateScreenFails
  <2>2. ASSUME NEW d \in Seedings, SeedingFails(d) PROVE ScreenInv'
    BY <2>2, ScreenInvThrows DEF SeedingFails
  <2>3. CASE ConsumerRejoins
    BY <2>3 DEF ConsumerRejoins
  <2>4. QED
    BY <1>5, <2>1, <2>2, <2>3 DEF TheaterFault
<1>6. CASE TheatersInterrupted
  BY <1>6 DEF TheatersInterrupted, Running
<1>7. CASE UNCHANGED theaterVars
  BY <1>7 DEF theaterVars
<1>8. QED
  BY <1>1, <1>2, <1>3, <1>4, <1>5, <1>6, <1>7, TheaterSteps

---------------------------------------------------------------------------
(* Messages about screens *)

(* A handler that throws has been somebody's handler, and stays it. *)
LEMMA MessageInvThrows ==
  ASSUME TheaterTypeOK, MessageInv, NEW d \in Seedings, Running(d), SeedingThrows(d)
  PROVE  MessageInv'
<1> USE DEF TheaterTypeOK, MessageInv, Handler, tableVars
<1>1. CASE ConsumerDies
  <2>1. \A e \in Seedings :
          /\ seeding'[e].kafka = seeding[e].kafka
          /\ seeding'[e].screen = seeding[e].screen
          /\ seeding'[e].step = "idle" => seeding[e].step = "idle"
    BY <1>1 DEF ConsumerDies
  <2>2. UNCHANGED screenCall /\ topic' = topic \union uncommitted
        /\ uncommitted' = {} /\ again' = again \union uncommitted
    BY <1>1 DEF ConsumerDies, ReadAgain
  <2>3. QED
    BY <2>1, <2>2
<1>2. CASE AnswerSeedingError(d)
  BY <1>2 DEF AnswerSeedingError, SeedingStepTo
<1>3. QED
  BY <1>1, <1>2 DEF SeedingThrows

(* Steps that leave messages and handlers alone. *)
LEMMA MessageInvQuiet ==
  ASSUME TheaterTypeOK, MessageInv, UNCHANGED <<topic, uncommitted, again, seeding>>,
         \A s \in Screens : screenCall[s] \in {"committing", "done", "failed"} =>
                            screenCall'[s] \in {"committing", "done", "failed"}
  PROVE  MessageInv'
  BY DEF MessageInv, Handler

LEMMA MessageInvStep == TypeOK /\ MessageInv /\ [Next]_vars => MessageInv'
<1> SUFFICES ASSUME TheaterTypeOK, MessageInv, [Next]_vars PROVE MessageInv'
  BY DEF TypeOK
<1> USE DEF TheaterTypeOK, tableVars, consumerVars, ScreenStepFrom
<1>1. CASE TheaterStep
  <2>1. ASSUME NEW s \in Screens, ProduceScreenCreated(s) PROVE MessageInv'
    BY <2>1 DEF ProduceScreenCreated, MessageInv, Handler
  <2>2. CASE \A s \in Screens : ~ ProduceScreenCreated(s)
    <3>1. UNCHANGED <<topic, uncommitted, again, seeding>>
      BY <1>1, <2>2
      DEF TheaterStep, CreateTheater, CreateScreenType, StartCreateScreen,
          CreateScreenStep, ReadScreenType, RejectScreen, InsertScreen, CommitScreen,
          UpdateScreen
    <3>2. \A s \in Screens : screenCall[s] \in {"committing", "done", "failed"} =>
                             screenCall'[s] \in {"committing", "done", "failed"}
      BY <1>1, <2>2
      DEF TheaterStep, CreateTheater, CreateScreenType, StartCreateScreen,
          CreateScreenStep, ReadScreenType, RejectScreen, InsertScreen, CommitScreen,
          UpdateScreen
    <3>3. QED
      BY <3>1, <3>2, MessageInvQuiet
  <2>3. QED
    BY <2>1, <2>2
<1>2. CASE ConsumerStep
  <2> USE DEF MessageInv, Handler, StartSeeding, SeedingStepTo
  <2>1. ASSUME NEW d \in Seedings, NEW s \in Screens, OnScreenCreated(d, s)
        PROVE  MessageInv'
    BY <2>1 DEF OnScreenCreated
  <2>2. CASE CommitOffsets
    BY <2>2 DEF CommitOffsets
  <2>3. ASSUME NEW d \in Seedings, NEW s \in Screens, CreateAllSeatOfScreen(d, s)
        PROVE  MessageInv'
    BY <2>3 DEF CreateAllSeatOfScreen
  <2>4. ASSUME NEW d \in Seedings, ReadScreenToSeat(d) PROVE MessageInv'
    BY <2>4 DEF ReadScreenToSeat
  <2>5. ASSUME NEW d \in Seedings, InsertSeats(d) PROVE MessageInv'
    BY <2>5 DEF InsertSeats
  <2>6. ASSUME NEW d \in Seedings, SeedingFindsNoScreen(d) PROVE MessageInv'
    BY <2>6, MessageInvThrows DEF SeedingFindsNoScreen, NoScreenToSeat
  <2>7. QED
    BY <1>2, <2>1, <2>2, <2>3, <2>4, <2>5, <2>6 DEF ConsumerStep, SeedingStepOf
<1>3. ASSUME NEW t \in Theaters, DeleteTheater(t) PROVE MessageInv'
  BY <1>3, MessageInvQuiet DEF DeleteTheater
<1>4. ASSUME NEW s \in Screens, DeleteScreen(s) PROVE MessageInv'
  BY <1>4, MessageInvQuiet DEF DeleteScreen
<1>5. CASE TheaterFault
  <2>1. ASSUME NEW s \in Screens, CreateScreenFails(s) PROVE MessageInv'
    BY <2>1 DEF CreateScreenFails, MessageInv, Handler
  <2>2. ASSUME NEW d \in Seedings, SeedingFails(d) PROVE MessageInv'
    BY <2>2, MessageInvThrows DEF SeedingFails
  <2>3. CASE ConsumerRejoins
    BY <2>3 DEF ConsumerRejoins, ReadAgain, MessageInv, Handler
  <2>4. QED
    BY <1>5, <2>1, <2>2, <2>3 DEF TheaterFault
<1>6. CASE TheatersInterrupted
  <2>1. PICK sent \in SUBSET {s \in Screens : screenCall[s] = "producing"} :
          topic' = topic \union sent
    BY <1>6 DEF TheatersInterrupted
  <2>2. \A e \in Seedings :
          /\ seeding'[e].kafka = seeding[e].kafka
          /\ seeding'[e].screen = seeding[e].screen
          /\ seeding'[e].step = "idle" => seeding[e].step = "idle"
    BY <1>6 DEF TheatersInterrupted
  <2>3. \A s \in Screens :
          screenCall[s] \in {"producing", "committing", "done", "failed"} =>
            screenCall'[s] \in {"committing", "done", "failed"}
    BY <1>6 DEF TheatersInterrupted
  <2>4. UNCHANGED <<uncommitted, again>>
    BY <1>6 DEF TheatersInterrupted
  <2>5. QED
    BY <2>1, <2>2, <2>3, <2>4 DEF MessageInv, Handler
<1>7. CASE UNCHANGED theaterVars
  BY <1>7, MessageInvQuiet DEF theaterVars
<1>8. QED
  BY <1>1, <1>2, <1>3, <1>4, <1>5, <1>6, <1>7, TheaterSteps

(* Steps that leave handlers, their messages and their seats alone. *)
LEMMA DeliveryInvQuiet ==
  ASSUME TheaterTypeOK, DeliveryInv, UNCHANGED <<seeding, seats, uncommitted, lost>>,
         topic \subseteq topic',
         \A s \in Screens :
           /\ screen[s] = "deleted" => screen'[s] = "deleted"
           /\ screenCall'[s] \in {"committing", "done"} =>
                screenCall[s] \in {"committing", "done"} \/ s \in topic'
  PROVE  DeliveryInv'
  BY DEF DeliveryInv, Delivered, HandlerRuns, SeatedByMessage, Running

(* A handler that throws takes the others with it, and their messages wait   *)
(* again, or are lost.                                                       *)
LEMMA DeliveryInvThrows ==
  ASSUME TheaterTypeOK, ScreenInv, DeliveryInv, NEW d \in Seedings, Running(d),
         SeedingThrows(d)
  PROVE  DeliveryInv'
<1> USE DEF TheaterTypeOK, tableVars
<1>1. CASE ConsumerDies
  <2>1. ASSUME NEW s \in Screens PROVE Delivered(s)'
    <3>1. UNCHANGED <<screen, screenCall, seats>> /\ s \notin uncommitted'
      BY <1>1 DEF ConsumerDies, ReadAgain
    <3>2. topic' = topic \union uncommitted
      BY <1>1 DEF ConsumerDies, ReadAgain
    <3>3. CASE HandlerRuns(s)
      <4>1. s \in topic' \union lost'
        BY <1>1, <3>2, <3>3 DEF HandlerRuns, ConsumerDies
      <4>2. QED
        BY <3>1, <4>1 DEF Delivered
    <3>4. CASE SeatedByMessage(s)
      <4>1. \A e \in Seedings : seeding'[e].kafka = seeding[e].kafka
        BY <1>1 DEF ConsumerDies
      <4>2. QED
        BY <3>1, <3>4, <4>1 DEF Delivered, SeatedByMessage
    <3>5. CASE screen[s] = "deleted"
      BY <3>1, <3>5 DEF Delivered
    <3>6. CASE screenCall[s] \in {"committing", "done"} => s \in topic \union lost
      <4>1. lost \subseteq lost'
        BY <1>1 DEF ConsumerDies
      <4>2. QED
        BY <3>1, <3>2, <3>6, <4>1 DEF Delivered
    <3>7. QED
      BY <3>3, <3>4, <3>5, <3>6 DEF DeliveryInv, Delivered
  <2>2. QED
    BY <2>1 DEF DeliveryInv
<1>2. CASE AnswerSeedingError(d)
  <2>1. UNCHANGED <<screen, screenCall, seats, topic, uncommitted, lost>>
    BY <1>2 DEF AnswerSeedingError
  <2>2. \A e \in Seedings :
          seeding'[e].kafka = seeding[e].kafka /\ (seeding[e].kafka => seeding'[e] = seeding[e])
    BY <1>2 DEF AnswerSeedingError, SeedingStepTo
  <2>3. QED
    BY <2>1, <2>2 DEF DeliveryInv, Delivered, HandlerRuns, SeatedByMessage, Running
<1>3. QED
  BY <1>1, <1>2 DEF SeedingThrows

LEMMA DeliveryInvStep == TypeOK /\ ScreenInv /\ DeliveryInv /\ [Next]_vars => DeliveryInv'
<1> SUFFICES ASSUME TheaterTypeOK, ScreenInv, DeliveryInv, [Next]_vars PROVE DeliveryInv'
  BY DEF TypeOK
<1> USE DEF TheaterTypeOK, tableVars, consumerVars
<1>1. CASE TheaterStep
  <2> USE DEF ScreenStepFrom
  <2>1. UNCHANGED <<seeding, seats, uncommitted, lost>> /\ topic \subseteq topic'
    BY <1>1
    DEF TheaterStep, CreateTheater, CreateScreenType, StartCreateScreen, CreateScreenStep,
        ReadScreenType, RejectScreen, InsertScreen, ProduceScreenCreated, CommitScreen,
        UpdateScreen
  <2>2. ASSUME NEW s \in Screens, screen[s] = "deleted" PROVE screen'[s] = "deleted"
    <3>1. screenCall[s] = "done"
      BY <2>2 DEF ScreenInv, ScreenOK
    <3>2. QED
      BY <1>1, <2>2, <3>1
      DEF TheaterStep, CreateTheater, CreateScreenType, StartCreateScreen,
          CreateScreenStep, ReadScreenType, RejectScreen, InsertScreen,
          ProduceScreenCreated, CommitScreen, UpdateScreen
  <2>3. ASSUME NEW s \in Screens, screenCall'[s] \in {"committing", "done"}
        PROVE  screenCall[s] \in {"committing", "done"} \/ s \in topic'
    BY <1>1, <2>3
    DEF TheaterStep, CreateTheater, CreateScreenType, StartCreateScreen, CreateScreenStep,
        ReadScreenType, RejectScreen, InsertScreen, ProduceScreenCreated, CommitScreen,
        UpdateScreen
  <2>4. QED
    BY <2>1, <2>2, <2>3, DeliveryInvQuiet
<1>2. CASE ConsumerStep
  <2> USE DEF StartSeeding, SeedingStepTo, DeliveryInv, Delivered, HandlerRuns,
              SeatedByMessage, Running
  <2>1. ASSUME NEW d \in Seedings, NEW s \in Screens, OnScreenCreated(d, s)
        PROVE  DeliveryInv'
    <3>1. \A e \in Seedings : seeding[e].step # "idle" => seeding'[e] = seeding[e]
      BY <2>1 DEF OnScreenCreated
    <3>2. \A r \in Screens : \A e \in seats[r] : seeding'[e] = seeding[e]
      BY <3>1 DEF ScreenInv, ScreenOK
    <3>3. HandlerRuns(s)'
      BY <2>1 DEF OnScreenCreated
    <3>4. ASSUME NEW r \in Screens, r # s PROVE Delivered(r)'
      BY <2>1, <3>1, <3>2, <3>4 DEF OnScreenCreated
    <3>5. QED
      BY <3>3, <3>4
  <2>2. CASE CommitOffsets
    BY <2>2 DEF CommitOffsets
  <2>3. ASSUME NEW d \in Seedings, NEW s \in Screens, CreateAllSeatOfScreen(d, s)
        PROVE  DeliveryInv'
    <3>1. \A e \in Seedings : seeding[e].step # "idle" => seeding'[e] = seeding[e]
      BY <2>3 DEF CreateAllSeatOfScreen
    <3>2. \A r \in Screens : \A e \in seats[r] : seeding'[e] = seeding[e]
      BY <3>1 DEF ScreenInv, ScreenOK
    <3>3. QED
      BY <2>3, <3>1, <3>2 DEF CreateAllSeatOfScreen
  <2>4. ASSUME NEW d \in Seedings, ReadScreenToSeat(d) PROVE DeliveryInv'
    BY <2>4 DEF ReadScreenToSeat
  <2>5. ASSUME NEW d \in Seedings, InsertSeats(d) PROVE DeliveryInv'
    BY <2>5 DEF InsertSeats
  <2>6. ASSUME NEW d \in Seedings, SeedingFindsNoScreen(d) PROVE DeliveryInv'
    BY <2>6, DeliveryInvThrows DEF SeedingFindsNoScreen, NoScreenToSeat
  <2>7. QED
    BY <1>2, <2>1, <2>2, <2>3, <2>4, <2>5, <2>6 DEF ConsumerStep, SeedingStepOf
<1>3. ASSUME NEW t \in Theaters, DeleteTheater(t) PROVE DeliveryInv'
  BY <1>3 DEF DeleteTheater, DropScreens, DeliveryInv, Delivered, HandlerRuns,
              SeatedByMessage, Running
<1>4. ASSUME NEW s \in Screens, DeleteScreen(s) PROVE DeliveryInv'
  BY <1>4 DEF DeleteScreen, DropScreens, DeliveryInv, Delivered, HandlerRuns,
              SeatedByMessage, Running
<1>5. CASE TheaterFault
  <2>1. ASSUME NEW s \in Screens, CreateScreenFails(s) PROVE DeliveryInv'
    <3>1. screen[s] # "deleted"
      BY <2>1 DEF CreateScreenFails, ScreenInv, ScreenOK
    <3>2. QED
      BY <2>1, <3>1, DeliveryInvQuiet DEF CreateScreenFails
  <2>2. ASSUME NEW d \in Seedings, SeedingFails(d) PROVE DeliveryInv'
    BY <2>2, DeliveryInvThrows DEF SeedingFails
  <2>3. CASE ConsumerRejoins
    BY <2>3 DEF ConsumerRejoins, ReadAgain, DeliveryInv, Delivered, HandlerRuns,
                SeatedByMessage, Running
  <2>4. QED
    BY <1>5, <2>1, <2>2, <2>3 DEF TheaterFault
<1>6. CASE TheatersInterrupted
  <2>1. topic \subseteq topic' /\ UNCHANGED <<seats, uncommitted, lost>>
    BY <1>6 DEF TheatersInterrupted
  <2>2. \A e \in Seedings :
          seeding'[e].kafka = seeding[e].kafka /\ (seeding[e].kafka => seeding'[e] = seeding[e])
    BY <1>6 DEF TheatersInterrupted
  <2>3. \A s \in Screens :
          /\ screen[s] = "deleted" => screen'[s] = "deleted"
          /\ screenCall'[s] \in {"committing", "done"} => screenCall'[s] = screenCall[s]
    BY <1>6 DEF TheatersInterrupted
  <2>4. QED
    BY <2>1, <2>2, <2>3 DEF DeliveryInv, Delivered, HandlerRuns, SeatedByMessage, Running
<1>7. CASE UNCHANGED theaterVars
  BY <1>7, DeliveryInvQuiet DEF theaterVars
<1>8. QED
  BY <1>1, <1>2, <1>3, <1>4, <1>5, <1>6, <1>7, TheaterSteps

LEMMA ScreensInitially == Init => ScreenInv /\ MessageInv /\ DeliveryInv
<1> SUFFICES ASSUME TheaterInit PROVE ScreenInv /\ MessageInv /\ DeliveryInv
  BY DEF Init
<1> USE DEF TheaterInit
<1>1. \A d \in Seedings : ~ seeding[d].kafka
  OBVIOUS
<1>2. ScreenInv
  BY DEF ScreenInv, ScreenOK
<1>3. MessageInv
  BY <1>1 DEF MessageInv, Handler
<1>4. DeliveryInv
  BY DEF DeliveryInv, Delivered
<1>5. QED
  BY <1>2, <1>3, <1>4

(* Seats and messages are as the invariants of screens say, always.          *)
LEMMA ScreensHold == Spec => [](TypeOK /\ ScreenInv /\ MessageInv /\ DeliveryInv)
<1> DEFINE I == TypeOK /\ ScreenInv /\ MessageInv /\ DeliveryInv
<1>1. Init => I
  BY TypeInitially, ScreensInitially
<1>2. I /\ [Next]_vars => I'
  BY TypePreserved, ScreenInvStep, MessageInvStep, DeliveryInvStep
<1> HIDE DEF I
<1>3. Spec => []I
  BY <1>1, <1>2, PTL DEF Spec
<1>4. QED
  BY <1>3 DEF I

(* The handler of a screen_created message inserts the seats of a screen     *)
(* once, unless the message is read again.                                   *)
THEOREM SeatsAreMadeOnce == Spec => []SeatsOnce
<1>1. TypeOK /\ ScreenInv /\ MessageInv => SeatsOnce
  BY DEF TypeOK, TheaterTypeOK, ScreenInv, ScreenOK, MessageInv, Handler, SeatsOnce
<1>2. QED
  BY <1>1, ScreensHold, PTL

(* A screen that is there has its seats, or will get them, or its handler    *)
(* died after the offset of its message was committed.                       *)
THEOREM ScreenIsSeatedOrLost == Spec => []UnseatedOnlyIfLost
<1>1. ScreenInv /\ DeliveryInv => UnseatedOnlyIfLost
  BY DEF ScreenInv, ScreenOK, DeliveryInv, Delivered, Awaited, UnseatedOnlyIfLost
<1>2. QED
  BY <1>1, ScreensHold, PTL

---------------------------------------------------------------------------
(* Movies *)

(* The rows of a movie's parts, at a step of a call about genres or movies.  *)
LEMMA PartInvStep == TypeOK /\ PartInv /\ [Next]_vars => PartInv'
<1> SUFFICES ASSUME MovieTypeOK, PartInv, [Next]_vars PROVE PartInv'
  BY DEF TypeOK
<1> USE DEF MovieTypeOK, PartInv, partVars, uploadVars, MovieStepFrom, Exists
<1>1. CASE MovieStepping
  <2>1. ASSUME NEW g \in Genres, CreateMovieGenre(g) PROVE PartInv'
    BY <2>1 DEF CreateMovieGenre
  <2>2. ASSUME NEW g \in Genres, DeleteMovieGenre(g) PROVE PartInv'
    BY <2>2 DEF DeleteMovieGenre
  <2>3. ASSUME NEW m \in Movies, InsertMovie(m) PROVE PartInv'
    BY <2>3 DEF InsertMovie
  <2>4. ASSUME NEW m \in Movies, LinkGenres(m) PROVE PartInv'
    BY <2>4 DEF LinkGenres, Linkable
  <2>5. ASSUME NEW m \in Movies, InsertTrailer(m) PROVE PartInv'
    BY <2>5 DEF InsertTrailer
  <2>6. ASSUME NEW q \in Picture, InsertPicture(q) PROVE PartInv'
    BY <2>6 DEF InsertPicture
  <2>7. ASSUME NEW m \in Movies,
               \/ StartCreateMovie(m) \/ RefuseTitle(m) \/ RefuseGenres(m)
               \/ FinishImages(m) \/ FinishPoster(m) \/ TrailerFindsNoMovie(m)
        PROVE  PartInv'
    BY <2>7 DEF StartCreateMovie, RefuseTitle, RefuseGenres, FinishImages, FinishPoster,
                TrailerFindsNoMovie
  <2>8. ASSUME NEW q \in Picture,
               ReadMovieOfPicture(q) \/ PictureThrows(q) \/ UploadFinishes(q)
        PROVE  PartInv'
    BY <2>8 DEF ReadMovieOfPicture, PictureThrows, UploadFinishes
  <2>9. QED
    BY <1>1, <2>1, <2>2, <2>3, <2>4, <2>5, <2>6, <2>7, <2>8
    DEF MovieStepping, CreateMovieStep, CreatePictureStep, PictureFindsNoMovie
<1>2. ASSUME NEW m \in Movies, DeleteMovie(m) PROVE PartInv'
  BY <1>2 DEF DeleteMovie
<1>3. CASE MovieFault
  BY <1>3 DEF MovieFault, CreateMovieFails, PictureFails, PictureThrows
<1>4. CASE MoviesInterrupted
  BY <1>4 DEF MoviesInterrupted
<1>5. CASE UNCHANGED movieVars
  BY <1>5 DEF movieVars
<1>6. QED
  BY <1>1, <1>2, <1>3, <1>4, <1>5, MovieSteps

(* Failures are counted. *)
LEMMA FaultsOnlyGrow == [Next]_vars => faults' = faults \/ faults' = faults + 1
  BY DEF Next, TheaterStep, ConsumerStep, ScreenDeletion, MovieStepping, MovieDeletion,
         SetupStep, ShowtimeStepping, ListingStepping, Fault, vars

(* A row names a file, as long as nothing goes wrong. *)
LEMMA FileInvStep == TypeOK /\ FileInv /\ [Next]_vars => FileInv'
<1> SUFFICES ASSUME MovieTypeOK, faults \in Nat, FileInv, [Next]_vars PROVE FileInv'
  BY MaxFaultsAssumption DEF TypeOK
<1> USE DEF MovieTypeOK, FileInv, partVars, uploadVars
<1>0. faults > 0 => faults' > 0
  BY FaultsOnlyGrow
<1>1. CASE MovieStepping
  <2>1. ASSUME NEW m \in Movies, LinkGenres(m) PROVE FileInv'
    BY <1>0, <2>1 DEF LinkGenres
  <2>2. ASSUME NEW m \in Movies, FinishImages(m) PROVE FileInv'
    BY <1>0, <2>2 DEF FinishImages
  <2>3. ASSUME NEW q \in Picture, ReadMovieOfPicture(q) PROVE FileInv'
    BY <1>0, <2>3 DEF ReadMovieOfPicture
  <2>4. ASSUME NEW q \in Picture, InsertPicture(q) PROVE FileInv'
    BY <1>0, <2>4 DEF InsertPicture
  <2>5. ASSUME NEW q \in Picture, PictureThrows(q) PROVE FileInv'
    BY <1>0, <2>5 DEF PictureThrows
  <2>6. ASSUME NEW q \in Picture, UploadFinishes(q) PROVE FileInv'
    BY <1>0, <2>6 DEF UploadFinishes
  <2>7. ASSUME NEW m \in Movies,
               \/ StartCreateMovie(m) \/ InsertMovie(m) \/ RefuseTitle(m)
               \/ RefuseGenres(m) \/ FinishPoster(m) \/ InsertTrailer(m)
               \/ TrailerFindsNoMovie(m)
        PROVE  FileInv'
    BY <1>0, <2>7 DEF StartCreateMovie, InsertMovie, RefuseTitle, RefuseGenres,
                      FinishPoster, InsertTrailer, TrailerFindsNoMovie
  <2>8. ASSUME NEW g \in Genres, CreateMovieGenre(g) \/ DeleteMovieGenre(g)
        PROVE  FileInv'
    BY <1>0, <2>8 DEF CreateMovieGenre, DeleteMovieGenre
  <2>9. QED
    BY <1>1, <2>1, <2>2, <2>3, <2>4, <2>5, <2>6, <2>7, <2>8
    DEF MovieStepping, CreateMovieStep, CreatePictureStep, PictureFindsNoMovie
<1>2. ASSUME NEW m \in Movies, DeleteMovie(m) PROVE FileInv'
  BY <1>0, <1>2 DEF DeleteMovie
<1>3. CASE MovieFault
  BY <1>0, <1>3 DEF MovieFault, CreateMovieFails, PictureFails, PictureThrows
<1>4. CASE MoviesInterrupted /\ faults' = faults + 1
  BY <1>4 DEF MoviesInterrupted
<1>5. CASE UNCHANGED movieVars
  BY <1>0, <1>5 DEF movieVars
<1>6. QED
  BY <1>1, <1>2, <1>3, <1>4, <1>5, MovieSteps

(* A call that makes a movie, a genre or a picture. *)
LEMMA WholeInvCalls == MovieTypeOK /\ WholeInv /\ MovieStepping => WholeInv'
<1> SUFFICES ASSUME MovieTypeOK, WholeInv, MovieStepping PROVE WholeInv'
  OBVIOUS
<1> USE DEF MovieTypeOK, WholeInv, MadeOK, GenresLinked, partVars, uploadVars, MovieStepFrom, Exists
<1>1. ASSUME NEW g \in Genres, CreateMovieGenre(g) PROVE WholeInv'
  BY <1>1 DEF CreateMovieGenre
<1>2. ASSUME NEW g \in Genres, DeleteMovieGenre(g) PROVE WholeInv'
  <2>1. ASSUME NEW m \in Movies, GenresLinked(m) PROVE GenresLinked(m)'
    <3>1. UNCHANGED film /\ \A i \in DOMAIN film[m].genres : film[m].genres[i] \in Genres
      BY <1>2, GenreListsAssumption DEF DeleteMovieGenre, Films
    <3>2. \A h \in Genres : genre'[h] = IF h = g THEN "deleted" ELSE genre[h]
      BY <1>2 DEF DeleteMovieGenre
    <3>3. \A h \in Genres : h # g /\ <<m, h>> \in genreLinks => <<m, h>> \in genreLinks'
      BY <1>2 DEF DeleteMovieGenre
    <3>4. QED
      BY <2>1, <3>1, <3>2, <3>3
  <2>2. QED
    BY <1>2, <2>1 DEF DeleteMovieGenre
<1>3. ASSUME NEW m \in Movies, StartCreateMovie(m) PROVE WholeInv'
  BY <1>3 DEF StartCreateMovie
<1>4. ASSUME NEW m \in Movies, InsertMovie(m) PROVE WholeInv'
  <2>1. \A q \in Picture : q[1] = m => picture[q] = "idle"
    BY <1>4 DEF InsertMovie
  <2>2. MadeOK(m)'
    BY <1>4 DEF InsertMovie
  <2>3. ASSUME NEW n \in Movies, n # m PROVE MadeOK(n)'
    BY <1>4, <2>3 DEF InsertMovie
  <2>4. ASSUME NEW q \in Picture, picture'[q] = "done", Exists(q[1])'
        PROVE  q \in pictureRow'
    BY <1>4, <2>1, <2>4 DEF InsertMovie, Picture
  <2>5. QED
    BY <2>2, <2>3, <2>4
<1>5. ASSUME NEW m \in Movies, RefuseTitle(m) PROVE WholeInv'
  BY <1>5 DEF RefuseTitle
<1>6. ASSUME NEW m \in Movies, LinkGenres(m) PROVE WholeInv'
  BY <1>6 DEF LinkGenres, Linkable
<1>7. ASSUME NEW m \in Movies, RefuseGenres(m) PROVE WholeInv'
  BY <1>7 DEF RefuseGenres
<1>8. ASSUME NEW m \in Movies, FinishImages(m) PROVE WholeInv'
  BY <1>8 DEF FinishImages, Picture
<1>9. ASSUME NEW m \in Movies, FinishPoster(m) PROVE WholeInv'
  BY <1>9 DEF FinishPoster, Picture
<1>10. ASSUME NEW m \in Movies, InsertTrailer(m) PROVE WholeInv'
  BY <1>10 DEF InsertTrailer
<1>11. ASSUME NEW m \in Movies, TrailerFindsNoMovie(m) PROVE WholeInv'
  BY <1>11 DEF TrailerFindsNoMovie
<1>12. ASSUME NEW q \in Picture, ReadMovieOfPicture(q) PROVE WholeInv'
  BY <1>12 DEF ReadMovieOfPicture
<1>13. ASSUME NEW q \in Picture, InsertPicture(q) PROVE WholeInv'
  BY <1>13 DEF InsertPicture
<1>14. ASSUME NEW q \in Picture, PictureThrows(q) PROVE WholeInv'
  BY <1>14 DEF PictureThrows
<1>15. ASSUME NEW q \in Picture, UploadFinishes(q) PROVE WholeInv'
  BY <1>15 DEF UploadFinishes
<1>16. QED
  BY <1>1, <1>2, <1>3, <1>4, <1>5, <1>6, <1>7, <1>8, <1>9, <1>10, <1>11, <1>12,
     <1>13, <1>14, <1>15
  DEF MovieStepping, CreateMovieStep, CreatePictureStep, PictureFindsNoMovie

LEMMA WholeInvStep == TypeOK /\ WholeInv /\ [Next]_vars => WholeInv'
<1> SUFFICES ASSUME MovieTypeOK, WholeInv, [Next]_vars PROVE WholeInv'
  BY DEF TypeOK
<1> USE DEF MovieTypeOK, WholeInv, MadeOK, GenresLinked, partVars, uploadVars, Exists
<1>1. CASE MovieStepping
  BY <1>1, WholeInvCalls
<1>2. ASSUME NEW m \in Movies, DeleteMovie(m) PROVE WholeInv'
  BY <1>2 DEF DeleteMovie
<1>3. CASE MovieFault
  <2>1. ASSUME NEW m \in Movies, CreateMovieFails(m) PROVE WholeInv'
    BY <2>1 DEF CreateMovieFails
  <2>2. ASSUME NEW q \in Picture, PictureThrows(q) PROVE WholeInv'
    BY <2>2 DEF PictureThrows
  <2>3. QED
    BY <1>3, <2>1, <2>2 DEF MovieFault, PictureFails
<1>4. CASE MoviesInterrupted
  BY <1>4 DEF MoviesInterrupted
<1>5. CASE UNCHANGED movieVars
  BY <1>5 DEF movieVars
<1>6. QED
  BY <1>1, <1>2, <1>3, <1>4, <1>5, MovieSteps

---------------------------------------------------------------------------
(* Showtimes *)

(* Movies and screens go by a delete, and by nothing else. *)
LEMMA RowsStay ==
  ASSUME TypeOK, ScreenInv, [Next]_vars, ~ ScreenDeletion, ~ MovieDeletion
  PROVE  /\ \A s \in Screens : screen[s] = "present" => screen'[s] = "present"
         /\ \A m \in Movies : movie[m] = "present" => movie'[m] = "present"
<1>1. ASSUME NEW s \in Screens, screen[s] = "present" PROVE screen'[s] = "present"
  <2>1. screenCall[s] = "done"
    BY <1>1 DEF ScreenInv, ScreenOK
  <2> USE DEF tableVars, ScreenStepFrom
  <2>2. CASE TheaterStep
    BY <1>1, <2>1, <2>2
    DEF TheaterStep, CreateTheater, CreateScreenType, StartCreateScreen, CreateScreenStep,
        ReadScreenType, RejectScreen, InsertScreen, ProduceScreenCreated, CommitScreen,
        UpdateScreen, TypeOK, TheaterTypeOK
  <2>3. CASE ConsumerStep
    BY <1>1, <2>3
    DEF ConsumerStep, OnScreenCreated, CommitOffsets, CreateAllSeatOfScreen, SeedingStepOf,
        ReadScreenToSeat, InsertSeats, SeedingFindsNoScreen, SeedingThrows, ConsumerDies,
        AnswerSeedingError
  <2>4. CASE TheaterFault
    BY <1>1, <2>1, <2>4
    DEF TheaterFault, CreateScreenFails, SeedingFails, SeedingThrows, ConsumerDies,
        AnswerSeedingError, ConsumerRejoins, TypeOK, TheaterTypeOK
  <2>5. CASE TheatersInterrupted
    BY <1>1, <2>5 DEF TheatersInterrupted
  <2>6. QED
    BY <1>1, <2>2, <2>3, <2>4, <2>5
    DEF Next, MovieStepping, SetupStep, ShowtimeStepping, ListingStepping, Fault,
        MovieFault, ProgrammeFault, SetupFault, ServerStops, vars, theaterVars
<1>2. ASSUME NEW m \in Movies, movie[m] = "present" PROVE movie'[m] = "present"
  <2>1. CASE MovieStepping
    BY <1>2, <2>1
    DEF MovieStepping, CreateMovieGenre, DeleteMovieGenre, StartCreateMovie,
        CreateMovieStep, InsertMovie, RefuseTitle, LinkGenres, RefuseGenres, FinishImages,
        FinishPoster, InsertTrailer, TrailerFindsNoMovie, CreatePictureStep,
        ReadMovieOfPicture, InsertPicture, PictureFindsNoMovie, PictureThrows,
        UploadFinishes, TypeOK, MovieTypeOK
  <2>2. CASE MovieFault
    BY <1>2, <2>2 DEF MovieFault, CreateMovieFails, PictureFails, PictureThrows
  <2>3. CASE MoviesInterrupted
    BY <1>2, <2>3 DEF MoviesInterrupted
  <2>4. QED
    BY <1>2, <2>1, <2>2, <2>3
    DEF Next, TheaterStep, ConsumerStep, SetupStep, ShowtimeStepping, ListingStepping,
        Fault, TheaterFault, ProgrammeFault, SetupFault, ServerStops, vars, movieVars
<1>3. QED
  BY <1>1, <1>2

(* Deleting a screen, a theater or a movie takes its showtimes, and spares   *)
(* what the others refer to.                                                 *)
LEMMA OthersStayGrounded ==
  ASSUME TypeOK, ScreenDeletion \/ MovieDeletion
  PROVE  \E X \in SUBSET Showtimes :
           /\ DropShowtimes(X)
           /\ \A x \in Showtimes \ X : Grounded(x) => Grounded(x)'
<1> USE DEF TypeOK, ShowtimeTypeOK, Grounded
<1>1. ASSUME NEW t \in Theaters, DeleteTheater(t), DropShowtimes(ShowtimesOn(ScreensOf(t))),
             UNCHANGED movieVars
      PROVE  \A x \in Showtimes \ ShowtimesOn(ScreensOf(t)) : Grounded(x) => Grounded(x)'
  BY <1>1 DEF DeleteTheater, DropScreens, DropShowtimes, ShowtimesOn, movieVars
<1>2. ASSUME NEW s \in Screens, DeleteScreen(s), DropShowtimes(ShowtimesOn({s})),
             UNCHANGED movieVars
      PROVE  \A x \in Showtimes \ ShowtimesOn({s}) : Grounded(x) => Grounded(x)'
  BY <1>2 DEF DeleteScreen, DropScreens, DropShowtimes, ShowtimesOn, movieVars
<1>3. ASSUME NEW m \in Movies, DeleteMovie(m), DropShowtimes(ShowtimesOf(m)),
             UNCHANGED theaterVars
      PROVE  \A x \in Showtimes \ ShowtimesOf(m) : Grounded(x) => Grounded(x)'
  BY <1>3 DEF DeleteMovie, DropShowtimes, ShowtimesOf, theaterVars, tableVars, MovieTypeOK
<1>4. \A S : ShowtimesOn(S) \in SUBSET Showtimes
  BY DEF ShowtimesOn
<1>5. \A m : ShowtimesOf(m) \in SUBSET Showtimes
  BY DEF ShowtimesOf
<1>6. QED
  BY <1>1, <1>2, <1>3, <1>4, <1>5, Zenon DEF ScreenDeletion, MovieDeletion, DeleteScreenType

(* A step of a CreateShowtime call, or a delete of its row. *)
LEMMA ShowtimeInvCalls ==
  ASSUME ShowtimeTypeOK, ShowtimeInv, ShowtimeStepping
  PROVE  ShowtimeInv'
<1>1. PICK x \in Showtimes :
        \/ StartCreateShowtime(x)
        \/ RefuseTimeStart(x)
        \/ CreateShowtimeStep(x)
        \/ DeleteShowtime(x)
  BY DEF ShowtimeStepping
<1>2. \A y \in Showtimes : Grounded(y) => Grounded(y)'
  BY <1>1
  DEF ShowtimeStepping, Grounded, theaterVars, tableVars, movieVars, StartCreateShowtime,
      RefuseTimeStart, CreateShowtimeStep, ReadScreenToShow, ReadLink,
      ReadStep, InsertShowtime, InsertShowtimeRefused, CommitShowtime, DeleteShowtime,
      DropShowtimes
<1> USE DEF ShowtimeTypeOK, ShowtimeInv, ShowtimeOK, Live, Shown, Pending, ShowtimeStepFrom
<1>3. CASE InsertShowtime(x)
  <2>1. Grounded(x)'
    BY <1>2, <1>3 DEF InsertShowtime, Insertable, Grounded
  <2>2. QED
    BY <1>2, <1>3, <2>1 DEF InsertShowtime
<1>4. CASE CommitShowtime(x)
  BY <1>2, <1>4 DEF CommitShowtime
<1>5. CASE DeleteShowtime(x)
  BY <1>2, <1>5 DEF DeleteShowtime, DropShowtimes
<1>6. CASE InsertShowtimeRefused(x)
  BY <1>2, <1>6 DEF InsertShowtimeRefused
<1>7. CASE \/ StartCreateShowtime(x) \/ RefuseTimeStart(x)
           \/ ReadScreenToShow(x) \/ ReadLink(x)
  BY <1>2, <1>7 DEF StartCreateShowtime, RefuseTimeStart, ReadScreenToShow, ReadLink,
                    ReadStep
<1>8. QED
  BY <1>1, <1>3, <1>4, <1>5, <1>6, <1>7 DEF CreateShowtimeStep

LEMMA ShowtimeInvStep ==
  TypeOK /\ ScreenInv /\ ShowtimeInv /\ [Next]_vars => ShowtimeInv'
<1> SUFFICES ASSUME TypeOK, ScreenInv, ShowtimeInv, [Next]_vars PROVE ShowtimeInv'
  OBVIOUS
<1> USE DEF ShowtimeInv, ShowtimeOK, Live, Shown, Pending
<1>1. CASE ScreenDeletion \/ MovieDeletion
  <2>1. PICK X \in SUBSET Showtimes :
          /\ DropShowtimes(X)
          /\ \A x \in Showtimes \ X : Grounded(x) => Grounded(x)'
    BY <1>1, OthersStayGrounded
  <2>2. QED
    BY <2>1 DEF DropShowtimes, TypeOK, ShowtimeTypeOK
<1>2. CASE ShowtimeStepping
  BY <1>2, ShowtimeInvCalls DEF TypeOK
<1>3. CASE ~ ScreenDeletion /\ ~ MovieDeletion /\ ~ ShowtimeStepping
  <2>1. \A x \in Showtimes : Grounded(x) => Grounded(x)'
    BY <1>3, RowsStay, NothingReplanned DEF Grounded, TypeOK, ShowtimeTypeOK
  <2>2. CASE UNCHANGED showtimeVars
    BY <2>1, <2>2 DEF showtimeVars
  <2>3. CASE ProgrammeFault
    BY <2>1, <2>3 DEF ProgrammeFault, CreateShowtimeFails, TypeOK, ShowtimeTypeOK
  <2>4. CASE ShowtimesInterrupted
    BY <2>1, <2>4 DEF ShowtimesInterrupted, TypeOK, ShowtimeTypeOK
  <2>5. QED
    BY <1>3, <2>2, <2>3, <2>4
    DEF Next, TheaterStep, ConsumerStep, MovieStepping, SetupStep, ListingStepping, Fault,
        TheaterFault, MovieFault, SetupFault, ServerStops, vars, programmeVars
<1>4. QED
  BY <1>1, <1>2, <1>3

(* The two times of a showtime are numbers. *)
LEMMA TimesType ==
  ASSUME TypeOK, NEW x \in Showtimes
  PROVE  TimeStart(x) \in Nat /\ TimeEnd(x) \in Nat
<1>1. plan[x].movie \in Movies /\ plan[x].start \in Nat
  BY StartsAssumption DEF TypeOK, ShowtimeTypeOK
<1>2. film[plan[x].movie].duration \in Nat
  BY <1>1, DurationsAssumption DEF TypeOK, MovieTypeOK, Films
<1>3. QED
  BY <1>1, <1>2 DEF TimeStart, TimeEnd

(* The trigger's condition does not depend on which of the two is inserted.  *)
LEMMA OverlapSymmetric ==
  ASSUME TypeOK, NEW x \in Showtimes, NEW y \in Showtimes, Overlap(x, y)
  PROVE  Overlap(y, x)
  BY TimesType DEF Overlap

(* Rows of showtimes, where none is inserted. *)
LEMMA NoneInserted ==
  ASSUME ShowtimeTypeOK, ShowtimeInv, [Next]_vars, \A x \in Showtimes : ~ InsertShowtime(x)
  PROVE  concurrent' = concurrent /\ \A x \in Showtimes : Live(x)' => Live(x)
<1> USE DEF ShowtimeTypeOK, Live, Shown, Pending, DropShowtimes
<1>1. CASE ScreenDeletion \/ MovieDeletion
  BY <1>1 DEF ScreenDeletion, MovieDeletion
<1>2. CASE ShowtimeStepping
  BY <1>2
  DEF ShowtimeStepping, StartCreateShowtime, RefuseTimeStart, CreateShowtimeStep,
      ReadScreenToShow, ReadLink, ReadStep, InsertShowtimeRefused,
      CommitShowtime, DeleteShowtime, ShowtimeStepFrom, ShowtimeInv, ShowtimeOK
<1>3. CASE ProgrammeFault
  BY <1>3 DEF ProgrammeFault, CreateShowtimeFails
<1>4. CASE ShowtimesInterrupted
  BY <1>4 DEF ShowtimesInterrupted
<1>5. CASE UNCHANGED showtimeVars
  BY <1>5 DEF showtimeVars
<1>6. QED
  BY <1>1, <1>2, <1>3, <1>4, <1>5
  DEF Next, TheaterStep, ConsumerStep, MovieStepping, SetupStep, ListingStepping, Fault,
      TheaterFault, MovieFault, SetupFault, ServerStops, vars, programmeVars

LEMMA OverlapInvStep ==
  TypeOK /\ ShowtimeInv /\ OverlapInv /\ [Next]_vars => OverlapInv'
<1> SUFFICES ASSUME TypeOK, ShowtimeInv, OverlapInv, [Next]_vars PROVE OverlapInv'
  OBVIOUS
<1>1. \A x, y \in Showtimes : Overlap(x, y)' <=> Overlap(x, y)
  BY NothingReplanned DEF Overlap, TimeStart, TimeEnd
<1>2. ASSUME NEW z \in Showtimes, InsertShowtime(z) PROVE OverlapInv'
  <2>1. \A y \in Showtimes : y # z => (Live(y)' <=> Live(y)) /\ concurrent'[y] = concurrent[y]
    BY <1>2 DEF InsertShowtime, Live, Shown, Pending, TypeOK, ShowtimeTypeOK
  <2>2. ASSUME NEW y \in Showtimes, y # z, Live(y), Overlap(z, y) PROVE y \in concurrent'[z]
    <3>1. Pending(y)
      BY <1>2, <2>2 DEF InsertShowtime, Insertable, Live
    <3>2. QED
      BY <1>2, <3>1 DEF InsertShowtime, TypeOK, ShowtimeTypeOK
  <2>3. ASSUME NEW x \in Showtimes, NEW y \in Showtimes,
               x # y, Live(x)', Live(y)', Overlap(x, y)
        PROVE  x \in concurrent'[y] \/ y \in concurrent'[x]
    <3>1. CASE x = z
      BY <2>1, <2>2, <2>3, <3>1
    <3>2. CASE y = z
      BY <2>1, <2>2, <2>3, <3>2, OverlapSymmetric
    <3>3. CASE x # z /\ y # z
      BY <2>1, <2>3, <3>3 DEF OverlapInv
    <3>4. QED
      BY <3>1, <3>2, <3>3
  <2>4. QED
    BY <1>1, <2>3 DEF OverlapInv
<1>3. CASE \A x \in Showtimes : ~ InsertShowtime(x)
  BY <1>1, <1>3, NoneInserted DEF OverlapInv, TypeOK
<1>4. QED
  BY <1>2, <1>3

---------------------------------------------------------------------------
(* Answers put together from several reads *)

(* A showtime that was shown stays or is deleted, and stays deleted. *)
LEMMA ShownStays ==
  ASSUME ShowtimeTypeOK, ShowtimeInv, [Next]_vars, NEW x \in Showtimes,
         showtime[x] \in {"present", "deleted"}
  PROVE  showtime'[x] \in {"present", "deleted"}
         /\ (showtime[x] = "deleted" => showtime'[x] = "deleted")
<1>0. showtimeCall[x] = "done"
  BY DEF ShowtimeInv, ShowtimeOK
<1> USE DEF ShowtimeTypeOK, Shown, Pending, DropShowtimes
<1>1. CASE ScreenDeletion \/ MovieDeletion
  BY <1>1 DEF ScreenDeletion, MovieDeletion
<1>2. CASE ShowtimeStepping
  BY <1>0, <1>2
  DEF ShowtimeStepping, StartCreateShowtime, RefuseTimeStart, CreateShowtimeStep,
      ReadScreenToShow, ReadLink, ReadStep, InsertShowtime,
      InsertShowtimeRefused, CommitShowtime, DeleteShowtime, ShowtimeStepFrom
<1>3. CASE ProgrammeFault
  BY <1>0, <1>3 DEF ProgrammeFault, CreateShowtimeFails
<1>4. CASE ShowtimesInterrupted
  BY <1>4 DEF ShowtimesInterrupted
<1>5. CASE UNCHANGED showtimeVars
  BY <1>5 DEF showtimeVars
<1>6. QED
  BY <1>1, <1>2, <1>3, <1>4, <1>5
  DEF Next, TheaterStep, ConsumerStep, MovieStepping, SetupStep, ListingStepping, Fault,
      TheaterFault, MovieFault, SetupFault, ServerStops, vars, programmeVars

(* The seats of a screen stay until it is deleted. *)
LEMMA SeatsStay ==
  ASSUME TypeOK, ScreenInv, [Next]_vars, NEW s \in Screens,
         screen[s] = "deleted" \/ seats[s] # {}
  PROVE  screen'[s] = "deleted" \/ seats'[s] # {}
<1>1. screenCall[s] = "done"
  BY DEF ScreenInv, ScreenOK
<1> USE DEF TypeOK, TheaterTypeOK
<1>2. CASE TheaterStep \/ TheaterFault \/ TheatersInterrupted
  BY <1>1, <1>2
  DEF TheaterStep, CreateTheater, CreateScreenType, StartCreateScreen, CreateScreenStep,
      ReadScreenType, RejectScreen, InsertScreen, ProduceScreenCreated, CommitScreen,
      UpdateScreen, ScreenStepFrom, TheaterFault, CreateScreenFails, SeedingFails,
      SeedingThrows, ConsumerDies, AnswerSeedingError, ConsumerRejoins,
      TheatersInterrupted, tableVars
<1>3. CASE ConsumerStep
  <2>1. screen' = screen
    BY <1>3
    DEF ConsumerStep, OnScreenCreated, CommitOffsets, CreateAllSeatOfScreen, SeedingStepOf,
        ReadScreenToSeat, InsertSeats, SeedingFindsNoScreen, SeedingThrows, ConsumerDies,
        AnswerSeedingError, tableVars
  <2>2. ASSUME NEW d \in Seedings, InsertSeats(d) PROVE seats[s] \subseteq seats'[s]
    BY <2>2 DEF InsertSeats
  <2>3. CASE \A d \in Seedings : ~ InsertSeats(d)
    <3>1. seats' = seats
      BY <1>3, <2>3
      DEF ConsumerStep, OnScreenCreated, CommitOffsets, CreateAllSeatOfScreen,
          SeedingStepOf, ReadScreenToSeat, SeedingFindsNoScreen, SeedingThrows,
          ConsumerDies, AnswerSeedingError
    <3>2. QED
      BY <2>1, <3>1
  <2>4. QED
    BY <2>1, <2>2, <2>3
<1>4. ASSUME NEW S, DropScreens(S) PROVE screen'[s] = "deleted" \/ seats'[s] # {}
  BY <1>4 DEF DropScreens
<1>5. CASE UNCHANGED theaterVars
  BY <1>5 DEF theaterVars, tableVars
<1>6. QED
  BY <1>2, <1>3, <1>4, <1>5, TheaterSteps DEF DeleteTheater, DeleteScreen

(* The reads of a list. *)
ListRead(l) ==
  \/ GetShowtimeListOfTheater(l)
  \/ \E m \in Movies : GetShowtimeListOfTheaterByMovieId(l, m)
  \/ ReadListedShowtimes(l)
  \/ \E m \in Movies : ReadListedMovie(l, m)
  \/ ListScreens(l)
  \/ \E s \in Screens : ReadListedScreen(l, s)
  \/ AnswerListing(l)
  \/ \E x \in Showtimes :
       \/ GetShowtimeMetadata(l, x)
       \/ ReadSeatMap(l, x)
       \/ \E s \in Screens : BookSeat(l, x, s) \/ GetBookingMetadata(l, x, s)

(* A read leaves the rows, and the other answers, as they are. *)
LEMMA OneReads ==
  ASSUME TypeOK, ListingStepping
  PROVE  /\ UNCHANGED <<theaterVars, movieVars, showtimeVars>>
         /\ \E k \in Listings :
              ListRead(k) /\ \A l \in Listings : l # k => listing'[l] = listing[l]
<1>1. PICK k \in Listings : ListRead(k)
  BY DEF ListingStepping, ListRead
<1>2. \A l \in Listings : l # k => listing'[l] = listing[l]
  BY <1>1
  DEF ListRead, GetShowtimeListOfTheater, GetShowtimeListOfTheaterByMovieId, ListMovies,
      ReadListedShowtimes, ReadListedMovie, ReadRow, ListScreens, ReadListedScreen,
      AnswerListing, GetShowtimeMetadata, ReadSeatMap, ReadMapScreen, ReadMapSeats,
      ReadMapMovie, ReadMapTheater, BookSeat, GetBookingMetadata, GetBookingList,
      ReadOwnMovie, ReadOwnSeat, ReadOwnScreen, ReadOwnTheater, Follow, FollowLast, End,
      TypeOK, ShowtimeTypeOK
<1>3. QED
  BY <1>1, <1>2 DEF ListingStepping

(* Where nothing is read, an answer stays what it is, or is cut off.         *)
LEMMA AnswersStay ==
  ASSUME TypeOK, [Next]_vars, ~ ListingStepping, NEW l \in Listings
  PROVE  listing'[l] = listing[l] \/ listing'[l] = Ended(l, "cut")
<1>1. CASE ShowtimesInterrupted
  BY <1>1 DEF ShowtimesInterrupted, Ended
<1>2. CASE UNCHANGED listing
  BY <1>2
<1>3. QED
  BY <1>1, <1>2
  DEF Next, TheaterStep, ConsumerStep, ScreenDeletion, MovieStepping, MovieDeletion,
      SetupStep, ShowtimeStepping, Fault, TheaterFault, MovieFault, ProgrammeFault,
      SetupFault, ServerStops, vars, programmeVars

(* An answer that has ended is about nothing. *)
LEMMA EndedFields ==
  ASSUME NEW l \in Listings, NEW step
  PROVE  /\ Ended(l, step).step = step
         /\ Ended(l, step).showtimes = {}
         /\ Ended(l, step).seat = {}
         /\ ~ Ended(l, step).missing
  BY DEF Ended, NoListing

LEMMA EndedOK ==
  ASSUME NEW l \in Listings, NEW step, step \notin {"movies", "screens"},
         listing'[l] = Ended(l, step)
  PROVE  ListingOK(l)'
<1>1. /\ listing'[l].step = step
      /\ listing'[l].showtimes = {}
      /\ listing'[l].seat = {}
  BY EndedFields
<1>2. QED
  BY <1>1 DEF ListingOK

LEMMA EndIs ==
  ASSUME TypeOK, NEW l \in Listings, NEW step, End(l, step)
  PROVE  listing'[l] = Ended(l, step)
  BY DEF TypeOK, ShowtimeTypeOK, End, Ended

(* A call that goes on, or ends, is about what it was about, or nothing.     *)
LEMMA GoesOnOK ==
  ASSUME TypeOK, UNCHANGED <<theaterVars, showtimeVars>>, NEW l \in Listings, ListingOK(l),
         NEW to, to \notin {"movies", "screens"},
         listing' = [listing EXCEPT ![l].step = to] \/ End(l, to)
  PROVE  ListingOK(l)'
<1>1. CASE End(l, to)
  BY <1>1, EndIs, EndedOK
<1>2. CASE listing' = [listing EXCEPT ![l].step = to]
  <2>1. /\ listing'[l].step = to
        /\ listing'[l].showtimes = listing[l].showtimes
        /\ listing'[l].seat = listing[l].seat
    BY <1>2 DEF TypeOK, ShowtimeTypeOK
  <2>2. QED
    BY <2>1 DEF ListingOK, showtimeVars, theaterVars, tableVars
<1>3. QED
  BY <1>1, <1>2

(* Every read of a list, a seat map or a booking keeps it, too.              *)
LEMMA ReadOK ==
  ASSUME TypeOK, UNCHANGED <<theaterVars, showtimeVars>>, NEW l \in Listings, ListingOK(l),
         ListRead(l)
  PROVE  ListingOK(l)'
<1> DEFINE Same == UNCHANGED <<screen, seats, showtime, plan>>
<1>0. Same
  BY DEF theaterVars, tableVars, showtimeVars
<1>1. ASSUME NEW M, ListMovies(l, M) PROVE ListingOK(l)'
  <2>1. CASE End(l, "notFound")
    BY <2>1, EndIs, EndedOK
  <2>2. CASE listing' = [listing EXCEPT ![l].step = "showtimes", ![l].movies = M]
    <3>1. /\ listing'[l].step = "showtimes"
          /\ listing'[l].showtimes = listing[l].showtimes
          /\ listing'[l].seat = listing[l].seat
      BY <2>2 DEF TypeOK, ShowtimeTypeOK
    <3>2. QED
      BY <1>0, <3>1 DEF ListingOK
  <2>3. QED
    BY <1>1, <2>1, <2>2 DEF ListMovies
<1>2. CASE ReadListedShowtimes(l)
  <2> DEFINE X == {x \in ShowtimesOn(ScreensOf(listing[l].theater)) :
                     Shown(x) /\ plan[x].movie \in listing[l].movies}
  <2>1. /\ listing'[l].step = "movies"
        /\ listing'[l].showtimes = X
        /\ listing'[l].seat = listing[l].seat
        /\ listing'[l].unread = {plan[x].movie : x \in X}
    BY <1>2 DEF ReadListedShowtimes, TypeOK, ShowtimeTypeOK
  <2>2. \A x \in X : showtime[x] = "present"
    BY DEF Shown
  <2> HIDE DEF X
  <2>3. QED
    BY <1>0, <2>1, <2>2 DEF ListingOK
<1>3. ASSUME NEW step, step \in {"movies", "screens"}, NEW row, NEW found,
             ReadRow(l, step, row, found)
      PROVE  ListingOK(l)'
  <2>1. /\ listing[l].step = step /\ listing'[l].step = step
        /\ listing'[l].showtimes = listing[l].showtimes
        /\ listing'[l].seat = listing[l].seat
        /\ listing'[l].unread \subseteq listing[l].unread
    BY <1>3 DEF ReadRow, TypeOK, ShowtimeTypeOK
  <2>2. QED
    BY <1>0, <2>1 DEF ListingOK
<1>4. CASE ListScreens(l)
  <2>1. /\ listing'[l].step = "screens"
        /\ listing'[l].showtimes = listing[l].showtimes
        /\ listing'[l].seat = listing[l].seat
        /\ listing'[l].unread = {plan[x].screen : x \in listing[l].showtimes}
    BY <1>4 DEF ListScreens, TypeOK, ShowtimeTypeOK
  <2>2. QED
    BY <1>0, <2>1 DEF ListingOK
<1>5. CASE AnswerListing(l)
  <2>1. End(l, "threw") \/ End(l, "done")
    BY <1>5 DEF AnswerListing
  <2>2. QED
    BY <2>1, EndIs, EndedOK
<1>6. ASSUME NEW x \in Showtimes, GetShowtimeMetadata(l, x) PROVE ListingOK(l)'
  <2>1. CASE End(l, "notFound")
    BY <2>1, EndIs, EndedOK
  <2>2. CASE ~ End(l, "notFound")
    <3>1. /\ listing'[l].step = "map screen"
          /\ listing'[l].showtimes = {x}
          /\ listing'[l].seat = listing[l].seat
          /\ Shown(x)
      <4>1. Shown(x) /\ listing' = [listing EXCEPT ![l].step = "map screen",
                                                  ![l].showtimes = {x}]
        BY <1>6, <2>2 DEF GetShowtimeMetadata
      <4>2. QED
        BY <4>1 DEF TypeOK, ShowtimeTypeOK
    <3>2. QED
      BY <1>0, <3>1 DEF ListingOK, Shown
  <2>3. QED
    BY <2>1, <2>2
<1>7. ASSUME NEW x \in Showtimes, NEW s \in Screens, BookSeat(l, x, s) PROVE ListingOK(l)'
  <2>1. /\ listing'[l].step = "booked"
        /\ listing'[l].showtimes = {x}
        /\ listing'[l].seat = {s}
        /\ Shown(x)
        /\ seats[s] # {}
    BY <1>7 DEF BookSeat, TypeOK, ShowtimeTypeOK
  <2>2. QED
    BY <1>0, <2>1 DEF ListingOK, Shown
<1>8. ASSUME NEW x \in Showtimes, ReadMapSeats(l, x) PROVE ListingOK(l)'
  <2>1. /\ listing'[l].step = "map movie"
        /\ listing'[l].showtimes = listing[l].showtimes
        /\ listing'[l].seat = listing[l].seat
    BY <1>8 DEF ReadMapSeats, TypeOK, ShowtimeTypeOK
  <2>2. QED
    BY <1>0, <2>1 DEF ListingOK
<1>9. ASSUME NEW found, NEW to, to \notin {"movies", "screens"}, Follow(l, found, to)
      PROVE  ListingOK(l)'
  BY <1>9, GoesOnOK DEF Follow
<1>10. ASSUME NEW found, FollowLast(l, found) PROVE ListingOK(l)'
  BY <1>10, GoesOnOK DEF FollowLast
<1>11. QED
  BY <1>1, <1>2, <1>3, <1>4, <1>5, <1>6, <1>7, <1>8, <1>9, <1>10
  DEF ListRead, GetShowtimeListOfTheater, GetShowtimeListOfTheaterByMovieId,
      ReadListedMovie, ReadListedScreen, ReadSeatMap, ReadMapScreen, ReadMapMovie,
      ReadMapTheater, GetBookingMetadata, GetBookingList, ReadOwnMovie, ReadOwnSeat,
      ReadOwnScreen, ReadOwnTheater

LEMMA AnswersStep ==
  ASSUME TypeOK, ScreenInv, ShowtimeInv, AnswersInv, [Next]_vars
  PROVE  AnswersInv'
<1>1. ASSUME NEW l \in Listings, listing'[l] = listing[l] PROVE ListingOK(l)'
  <2>1. ListingOK(l) /\ listing[l].showtimes \subseteq Showtimes /\ listing[l].seat \subseteq Screens
    BY DEF AnswersInv, TypeOK, ShowtimeTypeOK
  <2>2. \A x \in listing[l].showtimes : showtime'[x] \in {"present", "deleted"}
    BY <2>1, ShownStays DEF ListingOK, TypeOK
  <2>3. \A s \in listing[l].seat : screen'[s] = "deleted" \/ seats'[s] # {}
    BY <2>1, SeatsStay DEF ListingOK
  <2>4. plan' = plan
    BY NothingReplanned
  <2>5. QED
    BY <1>1, <2>1, <2>2, <2>3, <2>4 DEF ListingOK
<1>2. CASE ~ ListingStepping
  BY <1>1, <1>2, AnswersStay, EndedOK DEF AnswersInv
<1>3. CASE ListingStepping
  <2>1. PICK k \in Listings :
          ListRead(k) /\ \A l \in Listings : l # k => listing'[l] = listing[l]
    BY <1>3, OneReads
  <2>2. ListingOK(k)'
    BY <1>3, <2>1, OneReads, ReadOK DEF AnswersInv
  <2>3. QED
    BY <1>1, <2>1, <2>2 DEF AnswersInv
<1>4. QED
  BY <1>2, <1>3

(* What a shown showtime refers to is there, so what is not there tells of a *)
(* showtime that is deleted.                                                 *)
LEMMA HoleMeansDeleted ==
  ASSUME TypeOK, ScreenInv, ShowtimeInv, NEW x \in Showtimes,
         showtime[x] \in {"present", "deleted"},
         ~ Shown(x) \/ ~ MovieThere(x) \/ ~ ScreenThere(x) \/ ~ TheaterThere(x)
  PROVE  showtime[x] = "deleted"
  BY DEF ShowtimeInv, ShowtimeOK, Live, Shown, Grounded, MovieThere, ScreenThere,
         TheaterThere, ScreenInv, ScreenOK, TypeOK, ShowtimeTypeOK

(* A screen that is there and has no seats awaits them.                      *)
LEMMA SeatsAreAwaited ==
  ASSUME ScreenInv, DeliveryInv, NEW s \in Screens, screen[s] = "present", seats[s] = {}
  PROVE  Awaited(s)
  BY DEF ScreenInv, ScreenOK, DeliveryInv, Delivered, SeatedByMessage, Awaited

(* A call that goes on, or ends well, is not torn by it.                     *)
LEMMA GoesOnWhole ==
  ASSUME TypeOK, NEW l \in Listings, NEW to, to \notin {"threw", "gone"}, ~ Torn(l),
         listing' = [listing EXCEPT ![l].step = to] \/ End(l, to)
  PROVE  ~ Torn(l)'
<1>1. CASE End(l, to)
  <2>1. listing'[l].step = to /\ ~ listing'[l].missing
    BY <1>1, EndIs, EndedFields
  <2>2. QED
    BY <2>1 DEF Torn
<1>2. CASE listing' = [listing EXCEPT ![l].step = to]
  <2>1. listing'[l].step = to /\ listing'[l].missing = listing[l].missing
    BY <1>2 DEF TypeOK, ShowtimeTypeOK
  <2>2. QED
    BY <2>1 DEF Torn
<1>3. QED
  BY <1>1, <1>2

(* A read that tears an answer about a showtime or a booked seat.            *)
LEMMA TornByOne ==
  ASSUME TypeOK, ScreenInv, DeliveryInv, ShowtimeInv, NEW l \in Listings, ListingOK(l),
         NEW x \in Showtimes,
         ReadSeatMap(l, x) \/ \E s \in Screens : GetBookingMetadata(l, x, s),
         Torn(l)', ~ Torn(l)
  PROVE  AfterDelete(l) \/ BeforeSeats(l)
<1>0. ~ End(l, "done")
  BY GoesOnWhole
<1>1. ASSUME x \in listing[l].showtimes,
             ~ Shown(x) \/ ~ MovieThere(x) \/ ~ ScreenThere(x) \/ ~ TheaterThere(x)
      PROVE  AfterDelete(l)
  BY <1>1, HoleMeansDeleted DEF ListingOK, AfterDelete
<1>2. ASSUME NEW s \in Screens, s \in listing[l].seat,
             \/ seats[s] = {} \/ screen[s] # "present"
             \/ theater[wanted[s].theater] # "present"
      PROVE  AfterDelete(l)
  BY <1>2 DEF ListingOK, AfterDelete, ScreenInv, ScreenOK
<1>3. CASE ReadMapSeats(l, x)
  <2>1. /\ listing[l].step = "map seats"
        /\ x \in listing[l].showtimes
        /\ seats[plan[x].screen] = {}
    BY <1>3 DEF ReadMapSeats, About, Torn, TypeOK, ShowtimeTypeOK
  <2>2. plan[x].screen \in Screens
    BY DEF TypeOK, ShowtimeTypeOK
  <2>3. showtime[x] = "deleted" \/ screen[plan[x].screen] = "present"
    BY <2>1 DEF ListingOK, ShowtimeInv, ShowtimeOK, Live, Shown, Grounded
  <2>4. QED
    BY <2>1, <2>2, <2>3, SeatsAreAwaited DEF AfterDelete, BeforeSeats
<1>4. CASE ReadMapScreen(l, x) \/ ReadMapMovie(l, x) \/ ReadMapTheater(l, x)
  <2>1. ReadMapScreen(l, x) => ~ ScreenThere(x)
    BY GoesOnWhole DEF ReadMapScreen, Follow
  <2>2. ReadMapMovie(l, x) => ~ MovieThere(x)
    BY GoesOnWhole DEF ReadMapMovie, Follow
  <2>3. ReadMapTheater(l, x) => ~ TheaterThere(x)
    BY <1>0 DEF ReadMapTheater, FollowLast
  <2>4. x \in listing[l].showtimes
    BY <1>4 DEF ReadMapScreen, ReadMapMovie, ReadMapTheater, About
  <2>5. QED
    BY <1>1, <1>4, <2>1, <2>2, <2>3, <2>4
<1>5. CASE GetBookingList(l, x) \/ ReadOwnMovie(l, x)
  <2>1. GetBookingList(l, x) => ~ Shown(x)
    BY GoesOnWhole DEF GetBookingList, Follow
  <2>2. ReadOwnMovie(l, x) => ~ MovieThere(x)
    BY GoesOnWhole DEF ReadOwnMovie, Follow
  <2>3. x \in listing[l].showtimes
    BY <1>5 DEF GetBookingList, ReadOwnMovie, About
  <2>4. QED
    BY <1>1, <1>5, <2>1, <2>2, <2>3
<1>6. ASSUME NEW s \in Screens,
             ReadOwnSeat(l, s) \/ ReadOwnScreen(l, s) \/ ReadOwnTheater(l, s)
      PROVE  AfterDelete(l)
  <2>1. ReadOwnSeat(l, s) => seats[s] = {}
    BY GoesOnWhole DEF ReadOwnSeat, Follow
  <2>2. ReadOwnScreen(l, s) => screen[s] # "present"
    <3>1. ~ (listing' = [listing EXCEPT ![l].step = "own theater"])
      BY GoesOnWhole
    <3>2. QED
      BY <3>1 DEF ReadOwnScreen, Follow
  <2>3. ReadOwnTheater(l, s) => theater[wanted[s].theater] # "present"
    BY <1>0 DEF ReadOwnTheater, FollowLast
  <2>4. s \in listing[l].seat
    BY <1>6 DEF ReadOwnSeat, ReadOwnScreen, ReadOwnTheater, AboutSeat
  <2>5. QED
    BY <1>2, <1>6, <2>1, <2>2, <2>3, <2>4
<1>7. QED
  BY <1>3, <1>4, <1>5, <1>6 DEF ReadSeatMap, GetBookingMetadata

(* A read that tears the list of a theater's showtimes.                      *)
LEMMA TornByRow ==
  ASSUME TypeOK, ScreenInv, ShowtimeInv, NEW l \in Listings, ListingOK(l), NEW row,
         \/ ReadRow(l, "movies", row, movie[row] = "present")
         \/ ReadRow(l, "screens", row, screen[row] = "present"),
         Torn(l)', ~ Torn(l)
  PROVE  AfterDelete(l)
<1>1. CASE ReadRow(l, "movies", row, movie[row] = "present")
  <2>1. row \in {plan[x].movie : x \in listing[l].showtimes} /\ movie[row] # "present"
    BY <1>1 DEF ReadRow, ListingOK, Torn, TypeOK, ShowtimeTypeOK
  <2>2. QED
    BY <2>1, HoleMeansDeleted DEF MovieThere, ListingOK, AfterDelete, TypeOK, ShowtimeTypeOK
<1>2. CASE ReadRow(l, "screens", row, screen[row] = "present")
  <2>1. row \in {plan[x].screen : x \in listing[l].showtimes} /\ screen[row] # "present"
    BY <1>2 DEF ReadRow, ListingOK, Torn, TypeOK, ShowtimeTypeOK
  <2>2. QED
    BY <2>1, HoleMeansDeleted DEF ScreenThere, ListingOK, AfterDelete, TypeOK, ShowtimeTypeOK
<1>3. QED
  BY <1>1, <1>2

(* The other reads tear nothing. *)
LEMMA TornNotBy ==
  ASSUME TypeOK, NEW l \in Listings, ~ Torn(l)
  PROVE  /\ \A M \in SUBSET Movies : ListMovies(l, M) => ~ Torn(l)'
         /\ ReadListedShowtimes(l) \/ ListScreens(l) \/ AnswerListing(l) => ~ Torn(l)'
         /\ \A x \in Showtimes : GetShowtimeMetadata(l, x) => ~ Torn(l)'
         /\ \A x \in Showtimes, s \in Screens : BookSeat(l, x, s) => ~ Torn(l)'
<1>1. CASE End(l, "notFound") \/ End(l, "done")
  BY <1>1, GoesOnWhole
<1>2. CASE ~ End(l, "notFound") /\ ~ End(l, "done")
  <2>0. ASSUME listing'[l].missing = listing[l].missing,
               listing'[l].step \notin {"threw", "gone"}
        PROVE  ~ Torn(l)'
    BY <2>0 DEF Torn
  <2>1. ASSUME NEW M \in SUBSET Movies, ListMovies(l, M) PROVE ~ Torn(l)'
    <3>1. listing' = [listing EXCEPT ![l].step = "showtimes", ![l].movies = M]
      BY <1>2, <2>1 DEF ListMovies
    <3>2. QED
      BY <2>0, <3>1 DEF TypeOK, ShowtimeTypeOK
  <2>2. CASE ReadListedShowtimes(l)
    BY <2>0, <2>2 DEF ReadListedShowtimes, TypeOK, ShowtimeTypeOK
  <2>3. CASE ListScreens(l)
    BY <2>0, <2>3 DEF ListScreens, TypeOK, ShowtimeTypeOK
  <2>4. ASSUME NEW x \in Showtimes, GetShowtimeMetadata(l, x) PROVE ~ Torn(l)'
    <3>1. listing' = [listing EXCEPT ![l].step = "map screen", ![l].showtimes = {x}]
      BY <1>2, <2>4 DEF GetShowtimeMetadata
    <3>2. QED
      BY <2>0, <3>1 DEF TypeOK, ShowtimeTypeOK
  <2>5. ASSUME NEW x \in Showtimes, NEW s \in Screens, BookSeat(l, x, s) PROVE ~ Torn(l)'
    BY <2>0, <2>5 DEF BookSeat, TypeOK, ShowtimeTypeOK
  <2>6. ~ AnswerListing(l)
    BY <1>2 DEF AnswerListing, Torn
  <2>7. QED
    BY <2>1, <2>2, <2>3, <2>4, <2>5, <2>6
<1>3. QED
  BY <1>1, <1>2

(* Whatever step tears an answer, there is a reason for it. *)
LEMMA TornStep ==
  ASSUME TypeOK, ScreenInv, DeliveryInv, ShowtimeInv, AnswersInv, [Next]_vars,
         NEW l \in Listings, Torn(l)', ~ Torn(l)
  PROVE  AfterDelete(l) \/ BeforeSeats(l)
<1>1. listing'[l] # listing[l]
  BY DEF Torn
<1>0. listing'[l] # Ended(l, "cut")
  <2>1. Ended(l, "cut").step = "cut" /\ ~ Ended(l, "cut").missing
    BY EndedFields
  <2>2. QED
    BY <2>1 DEF Torn
<1>2. ListRead(l)
  BY <1>0, <1>1, AnswersStay, OneReads
<1>3. ListingOK(l)
  BY DEF AnswersInv
<1>4. QED
  BY <1>2, <1>3, TornByOne, TornByRow, TornNotBy
  DEF ListRead, GetShowtimeListOfTheater, GetShowtimeListOfTheaterByMovieId,
      ReadListedMovie, ReadListedScreen

---------------------------------------------------------------------------
(* The initialization job *)

(* A step of the job in which nothing fails. *)
LEMMA JobInvRuns == SetupTypeOK /\ JobInv /\ SetupStep => JobInv'
<1> SUFFICES ASSUME SetupTypeOK, JobInv, SetupStep, faults = 0 PROVE JobInv'
  BY DEF SetupStep, JobInv
<1> USE DEF SetupTypeOK, JobInv, JobTo, Tables
<1>0. faults' = faults
  BY DEF SetupStep
<1>1. ASSUME NEW j \in Jobs, StartJob(j) PROVE JobInv'
  BY <1>0, <1>1 DEF StartJob
<1>2. ASSUME NEW j \in Jobs, NEW t \in Tables, CountEmpty(j, t) PROVE JobInv'
  BY <1>0, <1>2 DEF CountEmpty
<1>3. ASSUME NEW j \in Jobs, NEW t \in Tables, CountFilled(j, t) PROVE JobInv'
  BY <1>0, <1>3 DEF CountFilled
<1>4. ASSUME NEW j \in Jobs, NEW t \in Tables, InsertDefaults(j, t) PROVE JobInv'
  BY <1>0, <1>4 DEF InsertDefaults, Inserting
<1>5. ASSUME NEW j \in Jobs, NEW t \in Tables, InsertRefused(j, t) PROVE JobInv'
  <2>1. /\ job'[j] = [step |-> "failed", left |-> job[j].left \ {t}]
        /\ \A k \in Jobs \ {j} : job'[k] = job[k]
        /\ filled' = filled /\ t \in filled
        /\ Tables \ job[j].left \subseteq filled
    BY <1>5 DEF InsertRefused, Inserting
  <2>2. ASSUME filled # Tables PROVE job'[j].left # {}
    <3>1. PICK u \in Tables : u \notin filled
      BY <2>2
    <3>2. u \in job[j].left \ {t}
      BY <2>1, <3>1
    <3>3. QED
      BY <2>1, <3>2
  <2>3. QED
    BY <1>0, <2>1, <2>2
<1>6. QED
  BY <1>1, <1>2, <1>3, <1>4, <1>5 DEF SetupStep

LEMMA JobInvStep == TypeOK /\ JobInv /\ [Next]_vars => JobInv'
<1> SUFFICES ASSUME TypeOK, JobInv, [Next]_vars PROVE JobInv'
  OBVIOUS
<1>1. CASE SetupStep
  BY <1>1, JobInvRuns DEF TypeOK
<1>2. CASE Fault
  BY <1>2 DEF Fault, JobInv, TypeOK
<1>3. CASE UNCHANGED <<setupVars, faults>>
  BY <1>3 DEF JobInv, setupVars
<1>4. QED
  BY <1>1, <1>2, <1>3
  DEF Next, TheaterStep, ConsumerStep, ScreenDeletion, MovieStepping, MovieDeletion,
      ShowtimeStepping, ListingStepping, vars

---------------------------------------------------------------------------
(* All of it *)

(* The inductive invariant of MovieService. *)
IInv ==
  /\ TypeOK
  /\ ScreenInv
  /\ ShowtimeInv
  /\ OverlapInv
  /\ AnswersInv
  /\ PartInv
  /\ FileInv
  /\ WholeInv
  /\ JobInv

LEMMA IInvInitially == Init => IInv
<1> SUFFICES ASSUME Init PROVE IInv
  OBVIOUS
<1>1. TypeOK /\ ScreenInv
  BY TypeInitially, ScreensInitially
<1>2. ShowtimeInv /\ OverlapInv
  BY DEF Init, ShowtimeInit, ShowtimeInv, ShowtimeOK, OverlapInv, Live, Shown, Pending
<1>3. AnswersInv
  BY DEF Init, ShowtimeInit, AnswersInv, ListingOK, NoListing
<1>4. PartInv /\ FileInv
  BY DEF Init, MovieInit, PartInv, FileInv
<1>5. WholeInv
  BY DEF Init, MovieInit, WholeInv, MadeOK
<1>6. JobInv
  BY DEF Init, SetupInit, JobInv
<1>7. QED
  BY <1>1, <1>2, <1>3, <1>4, <1>5, <1>6 DEF IInv

LEMMA IInvPreserved == IInv /\ [Next]_vars => IInv'
<1> SUFFICES ASSUME IInv, [Next]_vars PROVE IInv'
  OBVIOUS
<1> USE DEF IInv
<1>1. TypeOK' /\ ScreenInv'
  BY TypePreserved, ScreenInvStep
<1>2. ShowtimeInv' /\ OverlapInv'
  BY ShowtimeInvStep, OverlapInvStep
<1>3. AnswersInv'
  BY AnswersStep
<1>4. PartInv' /\ FileInv' /\ WholeInv'
  BY PartInvStep, FileInvStep, WholeInvStep
<1>5. JobInv'
  BY JobInvStep
<1>6. QED
  BY <1>1, <1>2, <1>3, <1>4, <1>5

THEOREM Inductive == Spec => []IInv
<1>1. QED
  BY IInvInitially, IInvPreserved, PTL DEF Spec

(* No row refers to one that is not there, whatever is deleted meanwhile.    *)
THEOREM RowsReferToRows == Spec => []NoOrphans
<1>1. IInv => NoOrphans
  BY DEF IInv, ScreenInv, ScreenOK, ShowtimeInv, ShowtimeOK, Live, Grounded, PartInv,
         NoOrphans
<1>2. QED
  BY <1>1, Inductive, PTL

(* The trigger keeps showtimes on a screen apart, unless one was inserted    *)
(* while the other was not committed.                                        *)
THEOREM TriggerSeesCommitted == Spec => []OverlapOnlyIfConcurrent
<1>1. IInv => OverlapOnlyIfConcurrent
  BY DEF IInv, OverlapInv, Live, OverlapOnlyIfConcurrent
<1>2. QED
  BY <1>1, Inductive, PTL

(* An answer put together from several reads is torn only where a delete was *)
(* faster, or the seats of a screen are not there.                           *)
THEOREM TornAnswersAreExplained == Spec => TornOnlyByDeleteOrDelay
<1>1. IInv /\ DeliveryInv /\ [Next]_vars =>
        [\A l \in Listings :
           Torn(l)' /\ ~ Torn(l) => AfterDelete(l) \/ BeforeSeats(l)]_vars
  BY TornStep DEF IInv
<1>2. QED
  BY <1>1, Inductive, ScreensHold, PTL DEF Spec, TornOnlyByDeleteOrDelay

(* A movie whose CreateMovie call answered has all the parts it asked for.   *)
THEOREM AnsweredIsWhole == Spec => []AnsweredMovieIsWhole
<1>1. IInv => AnsweredMovieIsWhole
  <2> SUFFICES ASSUME IInv, NEW m \in Movies, movieCall[m] = "done", Exists(m)
               PROVE  /\ \A i \in DOMAIN film[m].genres :
                           genre[film[m].genres[i]] = "present" =>
                             <<m, film[m].genres[i]>> \in genreLinks
                      /\ \A i \in Images \union {Poster} : <<m, i>> \in pictureRow
                      /\ m \in trailer
    BY DEF AnsweredMovieIsWhole
  <2>1. MadeOK(m)
    BY DEF IInv, WholeInv
  <2>2. QED
    BY <2>1 DEF MadeOK, GenresLinked
<1>2. QED
  BY <1>1, Inductive, PTL

(* A row names a file that is stored or on its way, unless something failed. *)
THEOREM FilesBehindRows == Spec => []RowHasFile
<1>1. IInv => RowHasFile
  BY DEF IInv, FileInv, RowHasFile, TypeOK, MovieTypeOK
<1>2. QED
  BY <1>1, Inductive, PTL

(* However many runs of the initialization job there are, both tables are    *)
(* filled when they have ended, unless something failed.                     *)
THEOREM JobsFillBoth == Spec => []SetupFillsBoth
<1>1. IInv => SetupFillsBoth
  <2> SUFFICES ASSUME IInv, faults = 0, NEW j \in Jobs, job[j].step # "idle",
                      \A k \in Jobs : job[k].left = {}
               PROVE  filled = Tables
    BY DEF SetupFillsBoth
  <2>1. filled \subseteq Tables /\ job[j].step \in JobStep
    BY DEF IInv, TypeOK, SetupTypeOK
  <2>2. CASE job[j].step \in {"inserting", "failed", "done"}
    BY <2>1, <2>2 DEF IInv, JobInv
  <2>3. CASE job[j].step = "skipped"
    BY <2>1, <2>3 DEF IInv, JobInv
  <2>4. CASE job[j].step = "counting"
    BY <2>4 DEF IInv, JobInv
  <2>5. QED
    BY <2>1, <2>2, <2>3, <2>4 DEF JobStep
<1>2. QED
  BY <1>1, Inductive, PTL

---------------------------------------------------------------------------
(* The counters of a theater *)

Undeleted(t) == \A s \in Screens : wanted[s].theater = t => screen[s] # "deleted"

Counted(t) ==
  /\ IsFiniteSet(ScreensOf(t)) /\ screenCount[t] = Cardinality(ScreensOf(t))
  /\ IsFiniteSet(NumberedSeats(t)) /\ seatCount[t] = Cardinality(NumberedSeats(t))

CountInv == \A t \in Theaters : Undeleted(t) => Counted(t)

(* A theater whose screens and counters stay as they are. *)
LEMMA CountStands ==
  ASSUME CountInv, NEW t \in Theaters, Undeleted(t)', Undeleted(t),
         ScreensOf(t)' = ScreensOf(t), wanted' = wanted,
         screenCount'[t] = screenCount[t], seatCount'[t] = seatCount[t]
  PROVE  Counted(t)'
<1>1. NumberedSeats(t)' = NumberedSeats(t)
  BY DEF NumberedSeats
<1>2. QED
  BY <1>1 DEF CountInv, Counted

(* The seats of one screen are as many as its type says. *)
LEMMA SeatsOfOne ==
  ASSUME NEW s, NEW n \in Nat
  PROVE  /\ IsFiniteSet({s} \X (1 .. n))
         /\ Cardinality({s} \X (1 .. n)) = n
<1>1. IsFiniteSet({s}) /\ Cardinality({s}) = 1
  BY FS_Singleton
<1>2. IsFiniteSet(1 .. n) /\ Cardinality(1 .. n) = n
  <2>1. IsFiniteSet(1 .. n) /\ Cardinality(1 .. n) = IF 1 > n THEN 0 ELSE n - 1 + 1
    BY FS_Interval
  <2>2. QED
    BY <2>1
<1>3. /\ IsFiniteSet({s} \X (1 .. n))
      /\ Cardinality({s} \X (1 .. n)) = Cardinality({s}) * Cardinality(1 .. n)
  BY <1>1, <1>2, FS_Product
<1>4. QED
  BY <1>1, <1>2, <1>3

(* A screen that is committed is new to its theater, and so are its seats. *)
LEMMA CountCommitted ==
  ASSUME TypeOK, ScreenInv, CountInv, NEW s \in Screens, CommitScreen(s)
  PROVE  CountInv'
<1> DEFINE n == SeatsOfType[wanted[s].type]
           plan1 == {s} \X (1 .. n)
<1>0. PICK t \in Theaters : t = wanted[s].theater
  BY DEF TypeOK, TheaterTypeOK
<1>1. /\ t \in Theaters /\ n \in Nat /\ screenCount[t] \in Nat /\ seatCount[t] \in Nat
      /\ wanted' = wanted /\ screen[s] = "inserted"
  BY <1>0, SeatsAssumption
  DEF TypeOK, TheaterTypeOK, CommitScreen, ScreenStepFrom, ScreenInv, ScreenOK
<1>2. /\ screen' = [screen EXCEPT ![s] = "present"]
      /\ screenCount' = [screenCount EXCEPT ![t] = screenCount[t] + 1]
      /\ seatCount' = [seatCount EXCEPT ![t] = seatCount[t] + n]
  BY <1>0 DEF CommitScreen, CountScreen
<1>3. \A u \in Theaters : Undeleted(u)' => Undeleted(u)
  BY <1>1, <1>2 DEF Undeleted, TypeOK, TheaterTypeOK
<1>4. /\ ScreensOf(t)' = ScreensOf(t) \union {s}
      /\ \A u \in Theaters \ {t} : ScreensOf(u)' = ScreensOf(u)
  BY <1>0, <1>1, <1>2 DEF ScreensOf, TypeOK, TheaterTypeOK
<1>5. s \notin ScreensOf(t)
  BY <1>1 DEF ScreensOf
<1>6. NumberedSeats(t)' = NumberedSeats(t) \union plan1
  BY <1>1, <1>4 DEF NumberedSeats
<1>7. NumberedSeats(t) \intersect plan1 = {}
  BY <1>5 DEF NumberedSeats
<1>8. IsFiniteSet(plan1) /\ Cardinality(plan1) = n
  BY <1>1, SeatsOfOne
<1> HIDE DEF plan1, n
<1>9. ASSUME Undeleted(t) PROVE Counted(t)'
  <2>1. Counted(t)
    BY <1>1, <1>9 DEF CountInv
  <2>2. /\ IsFiniteSet(ScreensOf(t) \union {s})
        /\ Cardinality(ScreensOf(t) \union {s}) = screenCount[t] + 1
    BY <1>5, <2>1, FS_AddElement DEF Counted
  <2>3. /\ IsFiniteSet(NumberedSeats(t) \union plan1)
        /\ Cardinality(NumberedSeats(t) \union plan1) =
             Cardinality(NumberedSeats(t)) + Cardinality(plan1)
               - Cardinality(NumberedSeats(t) \intersect plan1)
    BY <1>8, <2>1, FS_Union DEF Counted
  <2>4. Cardinality(NumberedSeats(t) \intersect plan1) = 0
    BY <1>7, FS_EmptySet
  <2>5. Cardinality(NumberedSeats(t) \union plan1) = seatCount[t] + n
    BY <1>1, <1>8, <2>1, <2>3, <2>4 DEF Counted
  <2>6. screenCount'[t] = screenCount[t] + 1 /\ seatCount'[t] = seatCount[t] + n
    BY <1>1, <1>2 DEF TypeOK, TheaterTypeOK
  <2>7. QED
    BY <1>4, <1>6, <2>2, <2>3, <2>5, <2>6 DEF Counted
<1>10. ASSUME NEW u \in Theaters \ {t}, Undeleted(u)' PROVE Counted(u)'
  BY <1>1, <1>2, <1>3, <1>4, <1>10, CountStands DEF TypeOK, TheaterTypeOK
<1>11. QED
  BY <1>1, <1>3, <1>9, <1>10 DEF CountInv

(* Every other step leaves the counters alone; it commits no screen, and a    *)
(* screen it deletes stays deleted.                                           *)
LEMMA CountQuiet ==
  ASSUME CountInv, UNCHANGED <<screenCount, seatCount, wanted>>,
         \A s \in Screens : /\ screen[s] = "deleted" => screen'[s] = "deleted"
                            /\ screen'[s] = "present" => screen[s] = "present"
                            /\ screen[s] = "present" => screen'[s] \in {"present", "deleted"}
  PROVE  CountInv'
<1> SUFFICES ASSUME NEW t \in Theaters, Undeleted(t)' PROVE Counted(t)'
  BY DEF CountInv
<1>1. Undeleted(t)
  BY DEF Undeleted
<1>2. ScreensOf(t)' = ScreensOf(t)
  BY DEF ScreensOf, Undeleted
<1>3. QED
  BY <1>1, <1>2, CountStands

LEMMA CountInvStep == TypeOK /\ ScreenInv /\ CountInv /\ [Next]_vars => CountInv'
<1> SUFFICES ASSUME TypeOK, ScreenInv, CountInv, [Next]_vars PROVE CountInv'
  OBVIOUS
<1> DEFINE Quiet == UNCHANGED <<screenCount, seatCount, screen>>
<1>0. wanted' = wanted
  BY NothingReplanned
<1>1. Quiet => CountInv'
  BY <1>0, CountQuiet
<1>2. CASE TheaterStep
  <2>1. ASSUME NEW s \in Screens, InsertScreen(s) PROVE CountInv'
    <3>1. screen' = screen \/ screen' = [screen EXCEPT ![s] = "inserted"]
      BY <2>1 DEF InsertScreen
    <3>2. screen[s] \notin {"present", "deleted"}
      BY <2>1 DEF InsertScreen, ScreenStepFrom, ScreenInv, ScreenOK
    <3>3. QED
      BY <1>0, <2>1, <3>1, <3>2, CountQuiet DEF InsertScreen, TypeOK, TheaterTypeOK
  <2>2. ASSUME NEW s \in Screens, CommitScreen(s) PROVE CountInv'
    BY <2>2, CountCommitted
  <2>3. QED
    BY <1>1, <1>2, <2>1, <2>2
    DEF TheaterStep, CreateScreenStep, CreateTheater, CreateScreenType, StartCreateScreen,
        ReadScreenType, RejectScreen, ProduceScreenCreated, UpdateScreen, tableVars
<1>3. CASE ConsumerStep
  BY <1>1, <1>3
  DEF ConsumerStep, OnScreenCreated, CommitOffsets, CreateAllSeatOfScreen, SeedingStepOf,
      ReadScreenToSeat, InsertSeats, SeedingFindsNoScreen, SeedingThrows, ConsumerDies,
      AnswerSeedingError, tableVars
<1>4. ASSUME NEW t \in Theaters, DeleteTheater(t) PROVE CountInv'
  BY <1>0, <1>4, CountQuiet DEF DeleteTheater, DropScreens, ScreensOf
<1>5. ASSUME NEW s \in Screens, DeleteScreen(s) PROVE CountInv'
  BY <1>0, <1>5, CountQuiet DEF DeleteScreen, DropScreens
<1>6. CASE TheaterFault
  <2>1. ASSUME NEW s \in Screens, CreateScreenFails(s) PROVE CountInv'
    <3>1. screen[s] \notin {"present", "deleted"}
      BY <2>1 DEF CreateScreenFails, ScreenInv, ScreenOK
    <3>2. QED
      BY <1>0, <2>1, <3>1, CountQuiet DEF CreateScreenFails, TypeOK, TheaterTypeOK
  <2>2. QED
    BY <1>1, <1>6, <2>1
    DEF TheaterFault, SeedingFails, SeedingThrows, ConsumerDies, AnswerSeedingError,
        ConsumerRejoins, tableVars
<1>7. CASE TheatersInterrupted
  BY <1>0, <1>7, CountQuiet DEF TheatersInterrupted
<1>8. CASE UNCHANGED theaterVars
  BY <1>1, <1>8 DEF theaterVars, tableVars
<1>9. QED
  BY <1>2, <1>3, <1>4, <1>5, <1>6, <1>7, <1>8, TheaterSteps

(* A theater's counters tell how many screens and seats it has, as long as    *)
(* no screen of it has been deleted, whatever calls fail or run side by side. *)
THEOREM CountersMatch == Spec => []CountsMatch
<1>1. Init => CountInv
  <2> SUFFICES ASSUME Init, NEW t \in Theaters PROVE Counted(t)
    BY DEF CountInv
  <2>1. ScreensOf(t) = {}
    BY DEF Init, TheaterInit, ScreensOf
  <2>2. NumberedSeats(t) = {}
    BY <2>1 DEF NumberedSeats
  <2>3. QED
    BY <2>1, <2>2, FS_EmptySet DEF Init, TheaterInit, Counted
<1>2. CountInv => CountsMatch
  BY DEF CountInv, Undeleted, Counted, CountsMatch
<1>3. IInv => TypeOK /\ ScreenInv
  BY DEF IInv
<1>4. QED
  BY <1>1, <1>2, <1>3, CountInvStep, Inductive, PTL DEF Spec

---------------------------------------------------------------------------
(* Prices *)

(* What a seat costs when the rows are the default ones. *)
LEMMA DefaultPrice ==
  ASSUME NEW type \in MovieTypeIds, NEW seatType \in {1, 2}, NEW hour \in 0 .. 23,
         NEW day \in 0 .. 6
  PROVE  GetPrice(DefaultPrices, type, seatType, hour, day) =
           (IF type \in {1, 2} THEN 100 ELSE 150)
           + (IF seatType = 2 THEN 10 ELSE 0)
           + (IF GetDayOfTheWeekId(day) = 2 THEN 20 ELSE 0)
<1> DEFINE slot == GetSlotId(hour)
           weekday == GetDayOfTheWeekId(day)
           k == <<type, seatType, slot, weekday>>
<1>1. slot \in {1, 2} /\ weekday \in {1, 2}
  BY DEF GetSlotId, GetDayOfTheWeekId, ShowtimeSlotType, ShowtimeDayOfTheWeekType
<1>2. GetPrice(DefaultPrices, type, seatType, hour, day) =
        IF k \in DOMAIN DefaultPrices THEN DefaultPrices[k] ELSE NoPrice
  BY DEF GetPrice
<1> HIDE DEF slot, weekday
<1>3. k \in PriceKeys /\ k[1] = type /\ k[2] = seatType /\ k[4] = weekday
  BY <1>1 DEF PriceKeys
<1> HIDE DEF k
<1>4. /\ k \in DOMAIN DefaultPrices
      /\ DefaultPrices[k] = IF type \in {1, 2} THEN Price2D(k) ELSE Price3D(k)
  BY <1>3 DEF DefaultPrices
<1>5. Extra(k) = (IF seatType = 2 THEN 10 ELSE 0) + (IF weekday = 2 THEN 20 ELSE 0)
  BY <1>3 DEF Extra, SeatTypeId, ShowtimeDayOfTheWeekType
<1>6. Extra(k) \in Nat
  BY <1>5
<1>7. QED
  BY <1>1, <1>2, <1>4, <1>5, <1>6 DEF Price2D, Price3D, weekday

(* With the default prices every seat of every screen a movie may be shown on *)
(* has a price at every hour of every day, and no seat of a weekend is        *)
(* cheaper than the same seat before it.                                      *)
THEOREM SeatsArePriced == Spec => []EverySeatHasPrice
<1>1. EverySeatHasPrice
  <2> SUFFICES ASSUME "price" \in filled, NEW l \in linkRows, NEW hour \in 0 .. 23,
                      NEW seat \in SeatPlan(ScreenTypeSeed[l[2]]),
                      NEW day \in 0 .. 6, NEW weekend \in {0, 5, 6}
               PROVE  LET Price(d) == GetPrice(priceRows, l[1], seat.type, hour, d)
                      IN  Price(day) # NoPrice /\ Price(day) <= Price(weekend)
    BY DEF EverySeatHasPrice
  <2>1. l[1] \in MovieTypeIds
    BY DEF linkRows, DefaultLinks, MovieTypeIds
  <2>2. seat.type \in {1, 2}
    BY DEF SeatPlan, SeatTypeId
  <2>3. priceRows = DefaultPrices
    BY DEF priceRows
  <2>4. /\ GetDayOfTheWeekId(weekend) = 2
        /\ weekend \in 0 .. 6
    BY DEF GetDayOfTheWeekId, ShowtimeDayOfTheWeekType
  <2>5. /\ GetPrice(priceRows, l[1], seat.type, hour, day) =
             (IF l[1] \in {1, 2} THEN 100 ELSE 150)
             + (IF seat.type = 2 THEN 10 ELSE 0)
             + (IF GetDayOfTheWeekId(day) = 2 THEN 20 ELSE 0)
        /\ GetPrice(priceRows, l[1], seat.type, hour, weekend) =
             (IF l[1] \in {1, 2} THEN 100 ELSE 150)
             + (IF seat.type = 2 THEN 10 ELSE 0)
             + 20
    BY <2>1, <2>2, <2>3, <2>4, DefaultPrice
  <2>6. QED
    BY <2>5 DEF NoPrice
<1>2. QED
  BY <1>1, PTL
==============================================================================
