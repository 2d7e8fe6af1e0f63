-------------------------- MODULE MovieServiceTypes --------------------------
(***************************************************************************)
(* Type correctness of MovieService, for every set of screens, movies and  *)
(* showtimes and every bound.  Each part of the state is typed by itself:  *)
(* no step of one part needs the types of another.                         *)
(***************************************************************************)
EXTENDS MovieService, TLAPS

(* A part nobody touches keeps its types. *)
LEMMA UntouchedTheaters == TheaterTypeOK /\ UNCHANGED theaterVars => TheaterTypeOK'
  BY DEF theaterVars, tableVars, consumerVars, TheaterTypeOK

LEMMA UntouchedMovies == MovieTypeOK /\ UNCHANGED movieVars => MovieTypeOK'
  BY DEF movieVars, partVars, uploadVars, MovieTypeOK

LEMMA UntouchedSetup == SetupTypeOK /\ UNCHANGED setupVars => SetupTypeOK'
  BY DEF setupVars, SetupTypeOK

LEMMA UntouchedShowtimes == ShowtimeTypeOK /\ UNCHANGED programmeVars => ShowtimeTypeOK'
  BY DEF programmeVars, showtimeVars, ShowtimeTypeOK

(* Nothing has been asked for, and the tables are empty or seeded. *)
LEMMA TypeInitially == Init => TypeOK
<1> SUFFICES ASSUME Init PROVE TypeOK
  OBVIOUS
<1>1. TheaterTypeOK
  BY DEF Init, TheaterInit, TheaterTypeOK, RowState, ScreenStep, SeedingStep
<1>2. MovieTypeOK
  BY DEF Init, MovieInit, MovieTypeOK, Rows, MovieStep, PictureStep, File
<1>3. SetupTypeOK
  BY DEF Init, SetupInit, SetupTypeOK, Tables, JobStep
<1>4. ShowtimeTypeOK
  <2>1. PICK t \in [Listings -> Theaters] : listing = [l \in Listings |-> NoListing(t[l])]
    BY DEF Init, ShowtimeInit
  <2>2. \A l \in Listings :
          NoListing(t[l]) \in
            [step : ListingStep, theater : Theaters, movies : SUBSET Movies,
             showtimes : SUBSET Showtimes, seat : SUBSET Screens,
             unread : (SUBSET Movies) \union (SUBSET Screens), missing : BOOLEAN]
    BY <2>1 DEF NoListing, ListingStep
  <2>3. QED
    BY <2>1, <2>2 DEF Init, ShowtimeInit, ShowtimeTypeOK, RowState, ShowtimeStep
<1>5. faults \in 0 .. MaxFaults
  BY MaxFaultsAssumption DEF Init
<1>6. QED
  BY <1>1, <1>2, <1>3, <1>4, <1>5 DEF TypeOK

---------------------------------------------------------------------------
(* Theaters, screens and seats *)

(* A call of the gRPC server about theaters and screens. *)
LEMMA TheaterStepType == TheaterTypeOK /\ TheaterStep => TheaterTypeOK'
<1> SUFFICES ASSUME TheaterTypeOK, TheaterStep PROVE TheaterTypeOK'
  OBVIOUS
<1> USE DEF TheaterTypeOK, tableVars, consumerVars, ScreenStepFrom, RowState, ScreenStep
<1>1. ASSUME NEW t \in Theaters, CreateTheater(t) PROVE TheaterTypeOK'
  BY <1>1 DEF CreateTheater
<1>2. ASSUME NEW k \in ScreenTypes, CreateScreenType(k) PROVE TheaterTypeOK'
  BY <1>2 DEF CreateScreenType
<1>3. ASSUME NEW s \in Screens, StartCreateScreen(s) PROVE TheaterTypeOK'
  BY <1>3 DEF StartCreateScreen
<1>4. ASSUME NEW s \in Screens, ReadScreenType(s) PROVE TheaterTypeOK'
  BY <1>4 DEF ReadScreenType
<1>5. ASSUME NEW s \in Screens, RejectScreen(s) PROVE TheaterTypeOK'
  BY <1>5 DEF RejectScreen
<1>6. ASSUME NEW s \in Screens, InsertScreen(s) PROVE TheaterTypeOK'
  <2>1. CASE screen' = [screen EXCEPT ![s] = "inserted"]
    BY <1>6, <2>1 DEF InsertScreen
  <2>2. CASE screen' = screen
    BY <1>6, <2>2 DEF InsertScreen
  <2>3. QED
    BY <1>6, <2>1, <2>2 DEF InsertScreen
<1>7. ASSUME NEW s \in Screens, ProduceScreenCreated(s) PROVE TheaterTypeOK'
  BY <1>7 DEF ProduceScreenCreated
<1>8. ASSUME NEW s \in Screens, CommitScreen(s) PROVE TheaterTypeOK'
  <2>1. wanted[s].theater \in Theaters /\ SeatsOfType[wanted[s].type] \in Nat
    BY SeatsAssumption
  <2>2. screenCount' \in [Theaters -> Nat] /\ seatCount' \in [Theaters -> Nat]
    BY <1>8, <2>1 DEF CommitScreen, CountScreen
  <2>3. QED
    BY <1>8, <2>2 DEF CommitScreen
<1>9. ASSUME NEW s \in Screens, NEW n \in Names, UpdateScreen(s, n) PROVE TheaterTypeOK'
  BY <1>9 DEF UpdateScreen
<1>10. QED
  BY <1>1, <1>2, <1>3, <1>4, <1>5, <1>6, <1>7, <1>8, <1>9
  DEF TheaterStep, CreateScreenStep

(* Rows and seats of screens that go. *)
LEMMA DropScreensType ==
  ASSUME TheaterTypeOK, NEW S, DropScreens(S)
  PROVE  screen' \in [Screens -> RowState] /\ seats' \in [Screens -> SUBSET Seedings]
  BY DEF TheaterTypeOK, DropScreens, RowState

LEMMA ScreenDeletionType == TheaterTypeOK /\ ScreenDeletion => TheaterTypeOK'
<1> SUFFICES ASSUME TheaterTypeOK, ScreenDeletion PROVE TheaterTypeOK'
  OBVIOUS
<1>1. ASSUME NEW t \in Theaters, DeleteTheater(t) PROVE TheaterTypeOK'
  BY <1>1, DropScreensType DEF DeleteTheater, TheaterTypeOK, RowState, consumerVars
<1>2. ASSUME NEW s \in Screens, DeleteScreen(s) PROVE TheaterTypeOK'
  BY <1>2, DropScreensType DEF DeleteScreen, TheaterTypeOK, consumerVars
<1>3. QED
  BY <1>1, <1>2 DEF ScreenDeletion, DeleteScreenType

(* What a seeding that throws leaves behind. *)
LEMMA SeedingThrowsType ==
  ASSUME TheaterTypeOK, NEW d \in Seedings, SeedingThrows(d)
  PROVE  TheaterTypeOK'
<1> USE DEF TheaterTypeOK, tableVars, SeedingStep
<1>1. CASE ConsumerDies
  <2>1. seeding' \in [Seedings -> [step : SeedingStep, screen : Screens, kafka : BOOLEAN]]
    BY <1>1 DEF ConsumerDies
  <2>2. QED
    BY <1>1, <2>1 DEF ConsumerDies, ReadAgain
<1>2. CASE AnswerSeedingError(d)
  BY <1>2 DEF AnswerSeedingError, SeedingStepTo
<1>3. QED
  BY <1>1, <1>2 DEF SeedingThrows

LEMMA ConsumerStepType == TheaterTypeOK /\ ConsumerStep => TheaterTypeOK'
<1> SUFFICES ASSUME TheaterTypeOK, ConsumerStep PROVE TheaterTypeOK'
  OBVIOUS
<1> USE DEF TheaterTypeOK, tableVars, SeedingStep, StartSeeding, SeedingStepTo
<1>1. ASSUME NEW d \in Seedings, NEW s \in Screens, OnScreenCreated(d, s)
      PROVE  TheaterTypeOK'
  BY <1>1 DEF OnScreenCreated
<1>2. CASE CommitOffsets
  BY <1>2 DEF CommitOffsets
<1>3. ASSUME NEW d \in Seedings, NEW s \in Screens, CreateAllSeatOfScreen(d, s)
      PROVE  TheaterTypeOK'
  BY <1>3 DEF CreateAllSeatOfScreen
<1>4. ASSUME NEW d \in Seedings, ReadScreenToSeat(d) PROVE TheaterTypeOK'
  BY <1>4 DEF ReadScreenToSeat
<1>5. ASSUME NEW d \in Seedings, InsertSeats(d) PROVE TheaterTypeOK'
  BY <1>5 DEF InsertSeats
<1>6. ASSUME NEW d \in Seedings, SeedingFindsNoScreen(d) PROVE TheaterTypeOK'
  BY <1>6, SeedingThrowsType DEF SeedingFindsNoScreen
<1>7. QED
  BY <1>1, <1>2, <1>3, <1>4, <1>5, <1>6 DEF ConsumerStep, SeedingStepOf

LEMMA TheaterFaultType == TheaterTypeOK /\ TheaterFault => TheaterTypeOK'
<1> SUFFICES ASSUME TheaterTypeOK, TheaterFault PROVE TheaterTypeOK'
  OBVIOUS
<1> USE DEF TheaterTypeOK, tableVars, RowState, ScreenStep
<1>1. ASSUME NEW s \in Screens, CreateScreenFails(s) PROVE TheaterTypeOK'
  BY <1>1 DEF CreateScreenFails
<1>2. ASSUME NEW d \in Seedings, SeedingFails(d) PROVE TheaterTypeOK'
  BY <1>2, SeedingThrowsType DEF SeedingFails
<1>3. CASE ConsumerRejoins
  BY <1>3 DEF ConsumerRejoins, ReadAgain
<1>4. QED
  BY <1>1, <1>2, <1>3 DEF TheaterFault

LEMMA TheatersInterruptedType == TheaterTypeOK /\ TheatersInterrupted => TheaterTypeOK'
<1> SUFFICES ASSUME TheaterTypeOK, TheatersInterrupted PROVE TheaterTypeOK'
  OBVIOUS
<1> USE DEF TheaterTypeOK, TheatersInterrupted, RowState, ScreenStep, SeedingStep
<1>1. screenCall' \in [Screens -> ScreenStep] /\ screen' \in [Screens -> RowState]
  OBVIOUS
<1>2. topic' \subseteq Screens
  <2>1. PICK sent \in SUBSET {s \in Screens : screenCall[s] = "producing"} :
          topic' = topic \union sent
    OBVIOUS
  <2>2. QED
    BY <2>1
<1>3. seeding' \in [Seedings -> [step : SeedingStep, screen : Screens, kafka : BOOLEAN]]
  BY DEF Running
<1>4. QED
  BY <1>1, <1>2, <1>3

---------------------------------------------------------------------------
(* Genres and movies *)

(* A call about genres, movies or pictures, or an upload. *)
LEMMA MovieSteppingType == MovieTypeOK /\ MovieStepping => MovieTypeOK'
<1> SUFFICES ASSUME MovieTypeOK, MovieStepping PROVE MovieTypeOK'
  OBVIOUS
<1> USE DEF MovieTypeOK, partVars, uploadVars, MovieStepFrom, Rows, MovieStep,
            PictureStep, File
<1>1. ASSUME NEW g \in Genres, CreateMovieGenre(g) PROVE MovieTypeOK'
  BY <1>1 DEF CreateMovieGenre
<1>2. ASSUME NEW g \in Genres, DeleteMovieGenre(g) PROVE MovieTypeOK'
  BY <1>2 DEF DeleteMovieGenre
<1>3. ASSUME NEW m \in Movies, StartCreateMovie(m) PROVE MovieTypeOK'
  BY <1>3 DEF StartCreateMovie
<1>4. ASSUME NEW m \in Movies, InsertMovie(m) PROVE MovieTypeOK'
  BY <1>4 DEF InsertMovie
<1>5. ASSUME NEW m \in Movies, RefuseTitle(m) PROVE MovieTypeOK'
  BY <1>5 DEF RefuseTitle
<1>6. ASSUME NEW m \in Movies, LinkGenres(m) PROVE MovieTypeOK'
  <2>1. \A i \in DOMAIN film[m].genres : film[m].genres[i] \in Genres
    BY GenreListsAssumption DEF Films
  <2>2. genreLinks' \subseteq Movies \X Genres
    BY <1>6, <2>1 DEF LinkGenres
  <2>3. picture' \in [Picture -> PictureStep]
    BY <1>6 DEF LinkGenres
  <2>4. QED
    BY <1>6, <2>2, <2>3 DEF LinkGenres
<1>7. ASSUME NEW m \in Movies, RefuseGenres(m) PROVE MovieTypeOK'
  BY <1>7 DEF RefuseGenres
<1>8. ASSUME NEW m \in Movies, FinishImages(m) PROVE MovieTypeOK'
  BY <1>8 DEF FinishImages
<1>9. ASSUME NEW m \in Movies, FinishPoster(m) PROVE MovieTypeOK'
  BY <1>9 DEF FinishPoster
<1>10. ASSUME NEW m \in Movies, InsertTrailer(m) PROVE MovieTypeOK'
  BY <1>10 DEF InsertTrailer
<1>11. ASSUME NEW m \in Movies, TrailerFindsNoMovie(m) PROVE MovieTypeOK'
  BY <1>11 DEF TrailerFindsNoMovie
<1>12. ASSUME NEW q \in Picture, ReadMovieOfPicture(q) PROVE MovieTypeOK'
  BY <1>12 DEF ReadMovieOfPicture
<1>13. ASSUME NEW q \in Picture, InsertPicture(q) PROVE MovieTypeOK'
  BY <1>13 DEF InsertPicture
<1>14. ASSUME NEW q \in Picture, PictureThrows(q) PROVE MovieTypeOK'
  BY <1>14 DEF PictureThrows
<1>15. ASSUME NEW q \in Picture, UploadFinishes(q) PROVE MovieTypeOK'
  BY <1>15 DEF UploadFinishes
<1>16. QED
  BY <1>1, <1>2, <1>3, <1>4, <1>5, <1>6, <1>7, <1>8, <1>9, <1>10, <1>11, <1>12,
     <1>13, <1>14, <1>15
  DEF MovieStepping, CreateMovieStep, CreatePictureStep, PictureFindsNoMovie

LEMMA MovieDeletionType == MovieTypeOK /\ MovieDeletion => MovieTypeOK'
  BY DEF MovieDeletion, DeleteMovie, MovieTypeOK, Rows, uploadVars

LEMMA MovieFaultType == MovieTypeOK /\ MovieFault => MovieTypeOK'
<1> USE DEF MovieTypeOK, partVars, uploadVars, MovieStep, PictureStep
<1>1. ASSUME MovieTypeOK, NEW m \in Movies, CreateMovieFails(m) PROVE MovieTypeOK'
  BY <1>1 DEF CreateMovieFails
<1>2. ASSUME MovieTypeOK, NEW q \in Picture, PictureFails(q) PROVE MovieTypeOK'
  BY <1>2 DEF PictureFails, PictureThrows
<1>3. QED
  BY <1>1, <1>2 DEF MovieFault

LEMMA MoviesInterruptedType == MovieTypeOK /\ MoviesInterrupted => MovieTypeOK'
  BY DEF MoviesInterrupted, MovieTypeOK, partVars, MovieStep, PictureStep, File

---------------------------------------------------------------------------
(* The initialization job *)

LEMMA SetupStepType == SetupTypeOK /\ SetupStep => SetupTypeOK'
<1> SUFFICES ASSUME SetupTypeOK, SetupStep PROVE SetupTypeOK'
  OBVIOUS
<1> USE DEF SetupTypeOK, JobTo, JobStep
<1>1. ASSUME NEW j \in Jobs, StartJob(j) PROVE SetupTypeOK'
  BY <1>1 DEF StartJob
<1>2. ASSUME NEW j \in Jobs, NEW t \in Tables, CountEmpty(j, t) PROVE SetupTypeOK'
  <2>1. job[j].left \ {t} \subseteq Tables
    OBVIOUS
  <2>2. QED
    BY <1>2, <2>1 DEF CountEmpty
<1>3. ASSUME NEW j \in Jobs, NEW t \in Tables, CountFilled(j, t) PROVE SetupTypeOK'
  BY <1>3 DEF CountFilled
<1>4. ASSUME NEW j \in Jobs, NEW t \in Tables, InsertDefaults(j, t) PROVE SetupTypeOK'
  <2>1. job[j].left \ {t} \subseteq Tables /\ job[j].step \in JobStep
    OBVIOUS
  <2>2. QED
    BY <1>4, <2>1 DEF InsertDefaults
<1>5. ASSUME NEW j \in Jobs, NEW t \in Tables, InsertRefused(j, t) PROVE SetupTypeOK'
  <2>1. job[j].left \ {t} \subseteq Tables
    OBVIOUS
  <2>2. QED
    BY <1>5, <2>1 DEF InsertRefused
<1>6. QED
  BY <1>1, <1>2, <1>3, <1>4, <1>5 DEF SetupStep

LEMMA SetupFaultType == SetupTypeOK /\ SetupFault => SetupTypeOK'
<1> SUFFICES ASSUME SetupTypeOK, NEW j \in Jobs, NEW t \in Tables, JobFails(j, t)
             PROVE  SetupTypeOK'
  BY DEF SetupFault
<1>1. job[j].left \ {t} \subseteq Tables
  BY DEF SetupTypeOK
<1>2. QED
  BY <1>1 DEF JobFails, SetupTypeOK, JobTo, JobStep

---------------------------------------------------------------------------
(* Showtimes, and answers about them *)

(* A call about a showtime, other than the delete of a row. *)
LEMMA ReadStepType ==
  ASSUME ShowtimeTypeOK, UNCHANGED listing, NEW x \in Showtimes, NEW found \in BOOLEAN,
         NEW from, NEW to \in ShowtimeStep, ReadStep(x, found, from, to)
  PROVE  ShowtimeTypeOK'
  BY DEF ReadStep, ShowtimeStepFrom, ShowtimeTypeOK, ShowtimeStep

LEMMA DropShowtimesType ==
  ASSUME ShowtimeTypeOK, UNCHANGED listing, NEW X, DropShowtimes(X)
  PROVE  ShowtimeTypeOK'
  BY DEF DropShowtimes, ShowtimeTypeOK, RowState

LEMMA ShowtimeSteppingType == ShowtimeTypeOK /\ ShowtimeStepping => ShowtimeTypeOK'
<1> SUFFICES ASSUME ShowtimeTypeOK, UNCHANGED listing, NEW x \in Showtimes,
                    \/ StartCreateShowtime(x)
                    \/ RefuseTimeStart(x)
                    \/ CreateShowtimeStep(x)
                    \/ DeleteShowtime(x)
             PROVE  ShowtimeTypeOK'
  BY DEF ShowtimeStepping
<1> USE DEF ShowtimeStep
<1>1. CASE StartCreateShowtime(x)
  BY <1>1, ReadStepType DEF StartCreateShowtime
<1>2. CASE RefuseTimeStart(x)
  BY <1>2, ReadStepType DEF RefuseTimeStart
<1>4. CASE ReadScreenToShow(x)
  BY <1>4, ReadStepType DEF ReadScreenToShow
<1>5. CASE ReadLink(x)
  <2>1. Linked(x) \in BOOLEAN
    BY DEF Linked
  <2>2. QED
    BY <1>5, <2>1, ReadStepType DEF ReadLink
<1>6. CASE InsertShowtime(x)
  BY <1>6 DEF InsertShowtime, ShowtimeStepFrom, ShowtimeTypeOK, RowState
<1>7. CASE InsertShowtimeRefused(x)
  BY <1>7 DEF InsertShowtimeRefused, ShowtimeStepFrom, ShowtimeTypeOK
<1>8. CASE CommitShowtime(x)
  BY <1>8 DEF CommitShowtime, ShowtimeStepFrom, ShowtimeTypeOK, RowState
<1>9. CASE DeleteShowtime(x)
  BY <1>9, DropShowtimesType DEF DeleteShowtime
<1>10. QED
  BY <1>1, <1>2, <1>4, <1>5, <1>6, <1>7, <1>8, <1>9 DEF CreateShowtimeStep

LEMMA ProgrammeFaultType == ShowtimeTypeOK /\ ProgrammeFault => ShowtimeTypeOK'
  BY DEF ProgrammeFault, CreateShowtimeFails, ShowtimeTypeOK, ShowtimeStep, RowState

(* What an answer under way is. *)
Answer ==
  [step : ListingStep, theater : Theaters, movies : SUBSET Movies,
   showtimes : SUBSET Showtimes, seat : SUBSET Screens,
   unread : (SUBSET Movies) \union (SUBSET Screens), missing : BOOLEAN]

(* A call that has ended. *)
Ended(l, step) == [NoListing(listing[l].theater) EXCEPT !.step = step]

LEMMA EndedType ==
  ASSUME ShowtimeTypeOK, NEW l \in Listings, NEW step \in ListingStep
  PROVE  Ended(l, step) \in Answer
<1>1. NoListing(listing[l].theater) \in Answer
  BY DEF ShowtimeTypeOK, NoListing, Answer, ListingStep
<1>2. QED
  BY <1>1 DEF Ended, Answer

LEMMA EndEnds ==
  ASSUME ShowtimeTypeOK, NEW l \in Listings, NEW step \in ListingStep, End(l, step)
  PROVE  listing' = [listing EXCEPT ![l] = Ended(l, step)]
  BY DEF ShowtimeTypeOK, End, Ended

(* A read that leads to an answer. *)
LEMMA AnswerType ==
  ASSUME ShowtimeTypeOK, UNCHANGED showtimeVars, NEW l \in Listings,
         NEW a \in Answer, listing' = [listing EXCEPT ![l] = a]
  PROVE  ShowtimeTypeOK'
  BY DEF ShowtimeTypeOK, showtimeVars, Answer

LEMMA EndType ==
  ASSUME ShowtimeTypeOK, UNCHANGED showtimeVars, NEW l \in Listings,
         NEW step \in ListingStep, End(l, step)
  PROVE  ShowtimeTypeOK'
  BY EndEnds, EndedType, AnswerType

LEMMA ShowtimesInterruptedType == ShowtimeTypeOK /\ ShowtimesInterrupted => ShowtimeTypeOK'
<1> SUFFICES ASSUME ShowtimeTypeOK, ShowtimesInterrupted PROVE ShowtimeTypeOK'
  OBVIOUS
<1> USE DEF ShowtimeTypeOK, ShowtimesInterrupted
<1>1. showtimeCall' \in [Showtimes -> ShowtimeStep]
  BY DEF ShowtimeStep
<1>2. showtime' \in [Showtimes -> RowState]
  BY DEF RowState
<1>3. ASSUME NEW l \in Listings PROVE listing'[l] \in Answer
  <2>1. listing[l] \in Answer
    BY DEF Answer
  <2>2. listing'[l] = listing[l] \/ listing'[l] = Ended(l, "cut")
    BY DEF Ended
  <2>3. Ended(l, "cut") \in Answer
    BY EndedType DEF ListingStep
  <2>4. QED
    BY <2>1, <2>2, <2>3
<1>4. listing' \in [Listings -> Answer]
  BY <1>3
<1>5. QED
  BY <1>1, <1>2, <1>4 DEF Answer

(* What showtimes are of and on. *)
LEMMA PlannedType ==
  ASSUME ShowtimeTypeOK, NEW X \in SUBSET Showtimes
  PROVE  /\ {plan[x].movie : x \in X} \in (SUBSET Movies) \union (SUBSET Screens)
         /\ {plan[x].screen : x \in X} \in (SUBSET Movies) \union (SUBSET Screens)
<1>1. \A x \in Showtimes : plan[x] \in [movie : Movies, screen : Screens, start : Starts]
  BY DEF ShowtimeTypeOK
<1>2. \A x \in Showtimes : plan[x].movie \in Movies /\ plan[x].screen \in Screens
  BY <1>1
<1>3. {plan[x].movie : x \in X} \subseteq Movies
  BY <1>2
<1>4. {plan[x].screen : x \in X} \subseteq Screens
  BY <1>2
<1>5. QED
  BY <1>3, <1>4

(* The list of a theater's showtimes. *)
LEMMA ListStepType ==
  ASSUME ShowtimeTypeOK, UNCHANGED showtimeVars, NEW l \in Listings,
         \/ GetShowtimeListOfTheater(l)
         \/ \E m \in Movies : GetShowtimeListOfTheaterByMovieId(l, m)
         \/ ReadListedShowtimes(l)
         \/ \E m \in Movies : ReadListedMovie(l, m)
         \/ ListScreens(l)
         \/ \E s \in Screens : ReadListedScreen(l, s)
         \/ AnswerListing(l)
  PROVE  ShowtimeTypeOK'
<1> DEFINE a == listing'[l]
<1>1. listing[l] \in Answer
  BY DEF ShowtimeTypeOK, Answer
<1>2. ASSUME NEW M \in SUBSET Movies, ListMovies(l, M) PROVE ShowtimeTypeOK'
  <2>1. CASE End(l, "notFound")
    BY <2>1, EndType DEF ListingStep
  <2>2. CASE listing' = [listing EXCEPT ![l].step = "showtimes", ![l].movies = M]
    <3> DEFINE b == [listing[l] EXCEPT !.step = "showtimes", !.movies = M]
    <3>1. listing' = [listing EXCEPT ![l] = b]
      BY <2>2 DEF ShowtimeTypeOK
    <3>2. b \in Answer
      BY <1>1 DEF Answer, ListingStep
    <3>3. QED
      BY <3>1, <3>2, AnswerType
  <2>3. QED
    BY <1>2, <2>1, <2>2 DEF ListMovies
<1>3. CASE AnswerListing(l)
  <2>1. End(l, "threw") \/ End(l, "done")
    BY <1>3 DEF AnswerListing
  <2>2. QED
    BY <2>1, EndType DEF ListingStep
<1>4. ASSUME ~ AnswerListing(l), \A M \in SUBSET Movies : ~ ListMovies(l, M)
      PROVE  listing' = [listing EXCEPT ![l] = a] /\ a \in Answer
  <2>1. listing' = [listing EXCEPT ![l] = a]
    BY <1>4 DEF ShowtimeTypeOK, GetShowtimeListOfTheater, GetShowtimeListOfTheaterByMovieId,
                ReadListedShowtimes, ReadListedMovie, ReadRow, ListScreens, ReadListedScreen
  <2>2. a \in Answer
    <3> USE DEF Answer, ListingStep, ShowtimeTypeOK
    <3>4. CASE ReadListedShowtimes(l)
      <4> DEFINE X == {x \in ShowtimesOn(ScreensOf(listing[l].theater)) :
                         Shown(x) /\ plan[x].movie \in listing[l].movies}
      <4>1. X \subseteq Showtimes
        BY DEF ShowtimesOn
      <4>2. {plan[x].movie : x \in X} \in (SUBSET Movies) \union (SUBSET Screens)
        BY <4>1, PlannedType
      <4>3. a = [listing[l] EXCEPT !.step = "movies", !.showtimes = X,
                                   !.unread = {plan[x].movie : x \in X}]
        BY <3>4 DEF ReadListedShowtimes
      <4>4. QED
        BY <1>1, <4>1, <4>2, <4>3
    <3>5. ASSUME NEW m \in Movies, ReadListedMovie(l, m) PROVE a \in Answer
      <4>1. listing[l].unread \ {m} \in (SUBSET Movies) \union (SUBSET Screens)
        BY <1>1
      <4>2. a = [listing[l] EXCEPT !.unread = listing[l].unread \ {m},
                                   !.missing = listing[l].missing \/ ~ (movie[m] = "present")]
        BY <3>5 DEF ReadListedMovie, ReadRow
      <4>3. QED
        BY <1>1, <4>1, <4>2
    <3>6. CASE ListScreens(l)
      <4> DEFINE S == {plan[x].screen : x \in listing[l].showtimes}
      <4>1. listing[l].showtimes \subseteq Showtimes
        BY <1>1
      <4>2. S \in (SUBSET Movies) \union (SUBSET Screens)
        BY <4>1, PlannedType
      <4>3. a = [listing[l] EXCEPT !.step = "screens", !.unread = S]
        BY <3>6 DEF ListScreens
      <4>4. "screens" \in ListingStep
        OBVIOUS
      <4> HIDE DEF S, a, ShowtimeTypeOK, ListingStep
      <4>5. QED
        BY <1>1, <4>2, <4>3, <4>4
    <3>7. ASSUME NEW s \in Screens, ReadListedScreen(l, s) PROVE a \in Answer
      <4>1. listing[l].unread \ {s} \in (SUBSET Movies) \union (SUBSET Screens)
        BY <1>1
      <4>2. a = [listing[l] EXCEPT !.unread = listing[l].unread \ {s},
                                   !.missing = listing[l].missing \/ ~ (screen[s] = "present")]
        BY <3>7 DEF ReadListedScreen, ReadRow
      <4>3. QED
        BY <1>1, <4>1, <4>2
    <3>8. QED
      BY <1>4, <3>4, <3>5, <3>6, <3>7
      DEF GetShowtimeListOfTheater, GetShowtimeListOfTheaterByMovieId
  <2>3. QED
    BY <2>1, <2>2
<1>5. QED
  BY <1>2, <1>3, <1>4, AnswerType
  DEF GetShowtimeListOfTheater, GetShowtimeListOfTheaterByMovieId

(* The seat map of a showtime and a user's list of bookings. *)
LEMMA ReadAboutType ==
  ASSUME ShowtimeTypeOK, UNCHANGED showtimeVars, NEW l \in Listings, NEW x \in Showtimes,
         \/ GetShowtimeMetadata(l, x)
         \/ ReadSeatMap(l, x)
         \/ \E s \in Screens : BookSeat(l, x, s) \/ GetBookingMetadata(l, x, s)
  PROVE  ShowtimeTypeOK'
<1> DEFINE a == listing'[l]
<1>1. listing[l] \in Answer
  BY DEF ShowtimeTypeOK, Answer
<1>2. \A step \in ListingStep : End(l, step) => a = Ended(l, step)
  BY EndEnds DEF ShowtimeTypeOK
<1>3. listing' = [listing EXCEPT ![l] = a]
  BY DEF ShowtimeTypeOK, GetShowtimeMetadata, ReadSeatMap, ReadMapScreen, ReadMapSeats,
         ReadMapMovie, ReadMapTheater, BookSeat, GetBookingMetadata, GetBookingList,
         ReadOwnMovie, ReadOwnSeat, ReadOwnScreen, ReadOwnTheater, Follow, FollowLast, End
<1>4. \/ a = [listing[l] EXCEPT !.step = "map screen", !.showtimes = {x}]
      \/ \E s \in Screens :
           a = [listing[l] EXCEPT !.step = "booked", !.showtimes = {x}, !.seat = {s}]
      \/ a = [listing[l] EXCEPT !.step = "map movie",
                                !.missing = (seats[plan[x].screen] = {})]
      \/ \E step \in ListingStep : a = [listing[l] EXCEPT !.step = step]
      \/ \E step \in ListingStep : a = Ended(l, step)
  BY <1>2
  DEF ShowtimeTypeOK, GetShowtimeMetadata, ReadSeatMap, ReadMapScreen, ReadMapSeats,
      ReadMapMovie, ReadMapTheater, BookSeat, GetBookingMetadata, GetBookingList,
      ReadOwnMovie, ReadOwnSeat, ReadOwnScreen, ReadOwnTheater, Follow, FollowLast, ListingStep
<1>5. a \in Answer
  <2> HIDE DEF a
  <2>1. CASE \E step \in ListingStep : a = Ended(l, step)
    BY <2>1, EndedType
  <2>2. CASE \E step \in ListingStep : a = [listing[l] EXCEPT !.step = step]
    BY <1>1, <2>2 DEF Answer
  <2>3. CASE a = [listing[l] EXCEPT !.step = "map screen", !.showtimes = {x}]
    BY <1>1, <2>3 DEF Answer, ListingStep
  <2>4. CASE a = [listing[l] EXCEPT !.step = "map movie",
                                   !.missing = (seats[plan[x].screen] = {})]
    BY <1>1, <2>4 DEF Answer, ListingStep
  <2>5. ASSUME NEW s \in Screens,
               a = [listing[l] EXCEPT !.step = "booked", !.showtimes = {x}, !.seat = {s}]
        PROVE  a \in Answer
    <3>1. {s} \in SUBSET Screens /\ {x} \in SUBSET Showtimes
      OBVIOUS
    <3>2. QED
      BY <1>1, <2>5, <3>1 DEF Answer, ListingStep
  <2>6. QED
    BY <1>4, <2>1, <2>2, <2>3, <2>4, <2>5
<1>6. QED
  BY <1>3, <1>5, AnswerType

LEMMA ListingSteppingType == ShowtimeTypeOK /\ ListingStepping => ShowtimeTypeOK'
<1> SUFFICES ASSUME ShowtimeTypeOK, ListingStepping PROVE ShowtimeTypeOK'
  OBVIOUS
<1>1. PICK l \in Listings :
        \/ GetShowtimeListOfTheater(l)
        \/ \E m \in Movies : GetShowtimeListOfTheaterByMovieId(l, m)
        \/ ReadListedShowtimes(l)
        \/ \E m \in Movies : ReadListedMovie(l, m)
        \/ ListScreens(l)
        \/ \E s \in Screens : ReadListedScreen(l, s)
        \/ AnswerListing(l)
        \/ \E x \in Showtimes :
             \/ GetShowtimeMetadata(l, x)
             \/ ReadSeatMap(l, x)
             \/ \E s \in Screens : BookSeat(l, x, s) \/ GetBookingMetadata(l, x, s)
  BY DEF ListingStepping
<1>2. UNCHANGED showtimeVars
  BY DEF ListingStepping
<1>3. QED
  BY <1>1, <1>2, ListStepType, ReadAboutType

---------------------------------------------------------------------------
(* Every step, of every part. *)
LEMMA TypePreserved == TypeOK /\ [Next]_vars => TypeOK'
<1> SUFFICES ASSUME TypeOK, [Next]_vars PROVE TypeOK'
  OBVIOUS
<1> USE UntouchedTheaters, UntouchedMovies, UntouchedSetup, UntouchedShowtimes DEF TypeOK
<1>1. CASE TheaterStep
  BY <1>1, TheaterStepType DEF TheaterStep
<1>2. CASE ConsumerStep
  BY <1>2, ConsumerStepType DEF ConsumerStep
<1>3. CASE ScreenDeletion
  BY <1>3, ScreenDeletionType, DropShowtimesType DEF ScreenDeletion
<1>4. CASE MovieStepping
  BY <1>4, MovieSteppingType DEF MovieStepping
<1>5. CASE MovieDeletion
  BY <1>5, MovieDeletionType, DropShowtimesType DEF MovieDeletion
<1>6. CASE SetupStep
  BY <1>6, SetupStepType DEF SetupStep
<1>7. CASE ShowtimeStepping
  BY <1>7, ShowtimeSteppingType DEF ShowtimeStepping
<1>8. CASE ListingStepping
  BY <1>8, ListingSteppingType DEF ListingStepping
<1>9. CASE Fault
  <2>1. faults' \in 0 .. MaxFaults
    BY <1>9, MaxFaultsAssumption DEF Fault
  <2>2. CASE TheaterFault
    BY <2>1, <2>2, TheaterFaultType DEF TheaterFault
  <2>3. CASE MovieFault
    BY <2>1, <2>3, MovieFaultType DEF MovieFault
  <2>4. CASE ProgrammeFault
    BY <2>1, <2>4, ProgrammeFaultType DEF ProgrammeFault
  <2>5. CASE SetupFault
    BY <2>1, <2>5, SetupFaultType DEF SetupFault
  <2>6. CASE ServerStops
    BY <2>1, <2>6, TheatersInterruptedType, MoviesInterruptedType,
       ShowtimesInterruptedType
    DEF ServerStops
  <2>7. QED
    BY <1>9, <2>2, <2>3, <2>4, <2>5, <2>6 DEF Fault
<1>10. CASE UNCHANGED vars
  BY <1>10 DEF vars, programmeVars
<1>11. QED
  BY <1>1, <1>2, <1>3, <1>4, <1>5, <1>6, <1>7, <1>8, <1>9, <1>10 DEF Next

(* MovieService's state has its types, whatever calls come in and whatever   *)
(* fails.                                                                    *)
THEOREM TypesHold == Spec => []TypeOK
  BY TypeInitially, TypePreserved, PTL DEF Spec
==============================================================================
