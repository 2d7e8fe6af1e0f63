---------------------------- MODULE MovieService ----------------------------
(***************************************************************************)
(* MovieService as a whole: a process for its gRPC calls, a process for    *)
(* the topic screen_created and the initialization job, over one database. *)
(***************************************************************************)
EXTENDS Showtimes, FiniteSets

CONSTANT MaxFaults  \* bound on the failures of one behaviour

ASSUME MaxFaultsAssumption == MaxFaults \in Nat

VARIABLE faults     \* failures so far

programmeVars == <<showtimeVars, listing>>
vars == <<theaterVars, movieVars, setupVars, programmeVars, faults>>

TypeOK ==
  /\ TheaterTypeOK
  /\ MovieTypeOK
  /\ SetupTypeOK
  /\ ShowtimeTypeOK
  /\ faults \in 0 .. MaxFaults

Init ==
  /\ TheaterInit
  /\ MovieInit
  /\ SetupInit
  /\ ShowtimeInit
  /\ faults = 0

---------------------------------------------------------------------------
(* Theaters, screens and seats *)

CreateScreenStep(s) ==
  \/ ReadScreenType(s)
  \/ InsertScreen(s)
  \/ ProduceScreenCreated(s)
  \/ CommitScreen(s)

TheaterStep ==
  /\ \/ \E t \in Theaters : CreateTheater(t)
     \/ \E k \in ScreenTypes : CreateScreenType(k)
     \/ \E s \in Screens : StartCreateScreen(s)
     \/ \E s \in Screens : CreateScreenStep(s)
     \/ \E s \in Screens : RejectScreen(s)
     \/ \E s \in Screens, n \in Names : UpdateScreen(s, n)
  /\ UNCHANGED <<movieVars, setupVars, programmeVars, faults>>

SeedingStepOf(d) ==
  \/ ReadScreenToSeat(d)
  \/ InsertSeats(d)
  \/ SeedingFindsNoScreen(d)

ConsumerStep ==
  /\ \/ \E d \in Seedings, s \in Screens : OnScreenCreated(d, s)
     \/ CommitOffsets
     \/ \E d \in Seedings, s \in Screens : CreateAllSeatOfScreen(d, s)
     \/ \E d \in Seedings : SeedingStepOf(d)
  /\ UNCHANGED <<movieVars, setupVars, programmeVars, faults>>

(* The showtimes of a screen are deleted with it. *)
ScreenDeletion ==
  /\ \/ \E t \in Theaters :
          DeleteTheater(t) /\ DropShowtimes(ShowtimesOn(ScreensOf(t)))
     \/ \E s \in Screens :
          DeleteScreen(s) /\ DropShowtimes(ShowtimesOn({s}))
     \/ \E s \in Screens :
          DeleteScreenType(s) /\ DropShowtimes(ShowtimesOn({s}))
  /\ UNCHANGED <<movieVars, setupVars, listing, faults>>

---------------------------------------------------------------------------
(* Genres and movies *)

CreateMovieStep(m) ==
  \/ InsertMovie(m)
  \/ RefuseTitle(m)
  \/ LinkGenres(m)
  \/ RefuseGenres(m)
  \/ FinishImages(m)
  \/ FinishPoster(m)
  \/ InsertTrailer(m)
  \/ TrailerFindsNoMovie(m)

CreatePictureStep(q) ==
  \/ ReadMovieOfPicture(q)
  \/ InsertPicture(q)
  \/ PictureFindsNoMovie(q)

MovieStepping ==
  /\ \/ \E g \in Genres : CreateMovieGenre(g) \/ DeleteMovieGenre(g)
     \/ \E m \in Movies : StartCreateMovie(m)
     \/ \E m \in Movies : CreateMovieStep(m)
     \/ \E q \in Picture : CreatePictureStep(q)
     \/ \E q \in Picture : UploadFinishes(q)
  /\ UNCHANGED <<theaterVars, setupVars, programmeVars, faults>>

(* The showtimes of a movie are deleted with it. *)
MovieDeletion ==
  /\ \E m \in Movies : DeleteMovie(m) /\ DropShowtimes(ShowtimesOf(m))
  /\ UNCHANGED <<theaterVars, setupVars, listing, faults>>

---------------------------------------------------------------------------
(* The initialization job, showtimes and lists of them *)

SetupStep ==
  /\ \/ \E j \in Jobs : StartJob(j)
     \/ \E j \in Jobs, t \in Tables : CountEmpty(j, t) \/ CountFilled(j, t)
     \/ \E j \in Jobs, t \in Tables : InsertDefaults(j, t) \/ InsertRefused(j, t)
  /\ UNCHANGED <<theaterVars, movieVars, programmeVars, faults>>

CreateShowtimeStep(x) ==
  \/ ReadScreenToShow(x)
  \/ ReadLink(x)
  \/ InsertShowtime(x)
  \/ InsertShowtimeRefused(x)
  \/ CommitShowtime(x)

ShowtimeStepping ==
  /\ \E x \in Showtimes :
       \/ StartCreateShowtime(x)
       \/ RefuseTimeStart(x)
       \/ CreateShowtimeStep(x)
       \/ DeleteShowtime(x)
  /\ UNCHANGED <<theaterVars, movieVars, setupVars, listing, faults>>

ListingStepping ==
  /\ \E l \in Listings :
       \/ GetShowtimeListOfTheater(l)
       \/ \E m \in Movies : GetShowtimeListOfTheaterByMovieId(l, m)
       \/ ReadListedShowtimes(l)
       \/ \E m \in Movies : ReadListedMovie(l, m)
       \/ ListScreens(l)
       \/ \E s \in Screens : ReadListedScreen(l, s)
       \/ AnswerListing(l)
       \/ \E x \in Showtimes :
            \/ GetShowtimeMetadata(l, x)
            \/ ReadSeatMap(l, x)
            \/ \E s \in Screens : BookSeat(l, x, s) \/ GetBookingMetadata(l, x, s)
  /\ UNCHANGED <<theaterVars, movieVars, setupVars, showtimeVars, faults>>

---------------------------------------------------------------------------
(* Failures *)

TheaterFault ==
  /\ \/ \E s \in Screens : CreateScreenFails(s)
     \/ \E d \in Seedings : SeedingFails(d)
     \/ ConsumerRejoins
  /\ UNCHANGED <<movieVars, setupVars, programmeVars>>

MovieFault ==
  /\ \/ \E m \in Movies : CreateMovieFails(m)
     \/ \E q \in Picture : PictureFails(q)
  /\ UNCHANGED <<theaterVars, setupVars, programmeVars>>

ProgrammeFault ==
  /\ \E x \in Showtimes : CreateShowtimeFails(x)
  /\ UNCHANGED <<theaterVars, movieVars, setupVars, listing>>

SetupFault ==
  /\ \E j \in Jobs, t \in Tables : JobFails(j, t)
  /\ UNCHANGED <<theaterVars, movieVars, programmeVars>>

(* The gRPC server is restarted, or an upload nobody waits for fails: a      *)
(* rejection nobody handles ends the process.                                *)
ServerStops ==
  /\ TheatersInterrupted
  /\ MoviesInterrupted
  /\ ShowtimesInterrupted
  /\ UNCHANGED setupVars

Fault ==
  /\ faults < MaxFaults
  /\ faults' = faults + 1
  /\ TheaterFault \/ MovieFault \/ ProgrammeFault \/ SetupFault \/ ServerStops

Next ==
  \/ TheaterStep
  \/ ConsumerStep
  \/ ScreenDeletion
  \/ MovieStepping
  \/ MovieDeletion
  \/ SetupStep
  \/ ShowtimeStepping
  \/ ListingStepping
  \/ Fault

Spec == Init /\ [][Next]_vars

---------------------------------------------------------------------------
(* Fairness.  A call or a handler that has begun goes on unless it fails or *)
(* is cut off; an upload comes to an end; the consumer polls its topic.     *)
(* Nobody need create or delete anything.                                   *)
Others == <<theaterVars, setupVars, programmeVars, faults>>

Fairness ==
  /\ \A s \in Screens :
       WF_vars(/\ \E d \in Seedings : OnScreenCreated(d, s)
               /\ UNCHANGED <<movieVars, setupVars, programmeVars, faults>>)
  /\ \A d \in Seedings :
       WF_vars(SeedingStepOf(d) /\ UNCHANGED <<movieVars, setupVars, programmeVars, faults>>)
  /\ \A m \in Movies : WF_vars(CreateMovieStep(m) /\ UNCHANGED Others)
  /\ \A q \in Picture :
       /\ WF_vars(CreatePictureStep(q) /\ UNCHANGED Others)
       /\ WF_vars(UploadFinishes(q) /\ UNCHANGED Others)

FairSpec == Spec /\ Fairness

---------------------------------------------------------------------------
(* Screens and seats *)

(* The consumer's handling of a screen_created message inserts the seat plan *)
(* of the screen at most once, unless the message is read again: nothing in  *)
(* createAllSeatOfScreen looks for seats that are there.                     *)
SeatsOnce ==
  \A s \in Screens : \A d, e \in seats[s] :
    seeding[d].kafka /\ seeding[e].kafka /\ d # e => s \in again

(* The counters of a theater are right until one of its screens is deleted:  *)
(* the trigger counts a screen when it is committed, and nothing counts down. *)
NumberedSeats(t) ==
  UNION {{s} \X (1 .. SeatsOfType[wanted[s].type]) : s \in ScreensOf(t)}

CountsMatch ==
  \A t \in Theaters :
    (\A s \in Screens : wanted[s].theater = t => screen[s] # "deleted") =>
      /\ screenCount[t] = Cardinality(ScreensOf(t))
      /\ seatCount[t] = Cardinality(NumberedSeats(t))

HandlerRuns(s) ==
  \E d \in Seedings : Running(d) /\ seeding[d].kafka /\ seeding[d].screen = s

(* The message that brings the screen its seats is under way, or lost. *)
Awaited(s) == s \in topic \union uncommitted \union lost \/ HandlerRuns(s)

SeatedByMessage(s) == \E d \in seats[s] : seeding[d].kafka

(* A screen that is there gets its seats, or its handler died after the      *)
(* offset of its message was committed: the message is sent before the       *)
(* commit it announces, and a handler that comes too early ends the consumer *)
(* together with every other handler that runs.                              *)
UnseatedOnlyIfLost ==
  \A s \in Screens :
    screen[s] = "present" => Awaited(s) \/ SeatedByMessage(s)

(* Rows refer to rows that are there, whatever is deleted while a call runs: *)
(* screens to their theater, seats to their screen, showtimes to their       *)
(* screen and movie, genre links, pictures and trailers to their movie.      *)
NoOrphans ==
  /\ \A s \in Screens :
       /\ screen[s] = "present" => theater[wanted[s].theater] = "present"
       /\ seats[s] # {} => screen[s] = "present"
  /\ \A x \in Showtimes :
       Shown(x) => movie[plan[x].movie] = "present" /\ screen[plan[x].screen] = "present"
  /\ \A m \in Movies, g \in Genres :
       <<m, g>> \in genreLinks => Exists(m) /\ genre[g] = "present"
  /\ \A q \in pictureRow : Exists(q[1])
  /\ \A m \in trailer : Exists(m)

(* A screen whose message waits gets its seats, or is deleted, or its        *)
(* message is lost, or no run of createAllSeatOfScreen is left in the model. *)
ScreenIsSeated ==
  \A s \in Screens :
    s \in topic /\ screen[s] = "present" ~>
      \/ seats[s] # {} \/ screen[s] = "deleted" \/ s \in lost
      \/ \A d \in Seedings : seeding[d].step # "idle"

---------------------------------------------------------------------------
(* Showtimes *)

(* Two showtimes share a screen at the same time only when one was inserted  *)
(* while the other was not committed: the trigger counts what it can see.    *)
OverlapOnlyIfConcurrent ==
  \A x, y \in Showtimes :
    x # y /\ Shown(x) /\ Shown(y) /\ Overlap(x, y) =>
      x \in concurrent[y] \/ y \in concurrent[x]

(* The answer has a hole, or is an error half way. *)
Torn(l) == listing[l].missing \/ listing[l].step \in {"threw", "gone"}

(* A showtime it is about is deleted, or the screen of the booked seat.      *)
AfterDelete(l) ==
  \/ \E x \in listing[l].showtimes : showtime[x] = "deleted"
  \/ \E s \in listing[l].seat : screen[s] = "deleted"

(* It asks for the seats of a screen that has none yet, or never will.       *)
BeforeSeats(l) ==
  /\ listing[l].step = "map seats"
  /\ \E x \in listing[l].showtimes : Awaited(plan[x].screen)

(* An answer put together from several reads is whole, or at the read that   *)
(* tears it a showtime it is about was deleted, with its movie, screen or    *)
(* theater, or the screen of the booked seat was, or it is a seat map and    *)
(* the message that brings the screen its seats is under way or lost: only   *)
(* then does the list of a theater's showtimes end in a TypeError, does a    *)
(* seat map have no seats or stop half way, does a user's list of bookings   *)
(* end in an error.                                                          *)
TornOnlyByDeleteOrDelay ==
  [][\A l \in Listings :
       Torn(l)' /\ ~ Torn(l) => AfterDelete(l) \/ BeforeSeats(l)]_vars

(* A delete alone does not explain it: no run finds this to hold. *)
TornOnlyByDelete ==
  [][\A l \in Listings : Torn(l)' /\ ~ Torn(l) => AfterDelete(l)]_vars

---------------------------------------------------------------------------
(* Movies *)

(* A CreateMovie call that has answered made the movie with all its parts,   *)
(* and what is there later lacks the genres deleted since, and nothing else. *)
AnsweredMovieIsWhole ==
  \A m \in Movies :
    movieCall[m] = "done" /\ Exists(m) =>
      /\ \A i \in DOMAIN film[m].genres :
           genre[film[m].genres[i]] = "present" => <<m, film[m].genres[i]>> \in genreLinks
      /\ \A i \in Images \union {Poster} : <<m, i>> \in pictureRow
      /\ m \in trailer

(* A row names a file that is in the store or on its way, unless something   *)
(* went wrong: the upload is not waited for, and nothing repairs the row.    *)
RowHasFile ==
  \A q \in pictureRow :
    file[q] \in {"uploading", "stored"} \/ (file[q] = "lost" /\ faults > 0)

(* A CreateMovie call that has begun comes to an end, though its images are  *)
(* made at the same time and each of them may fail it.                       *)
CreateMovieEnds ==
  \A m \in Movies :
    movieCall[m] # "idle" ~> movieCall[m] \in {"done", "failed"}

---------------------------------------------------------------------------
(* The initialization job *)

(* When the runs of the job have ended and nothing went wrong, both tables   *)
(* are filled, however many runs there were and whichever of them failed.    *)
SetupFillsBoth ==
  /\ faults = 0
  /\ \E j \in Jobs : job[j].step # "idle"
  /\ \A j \in Jobs : job[j].left = {}
  => filled = Tables

(* With the default prices, every seat of every screen that a movie may be   *)
(* shown on has a price at every hour of every day, and a seat of a weekend  *)
(* is not cheaper than the same seat before it.                              *)
EverySeatHasPrice ==
  "price" \in filled =>
    \A l \in linkRows, hour \in 0 .. 23 :
      \A seatType \in {seat.type : seat \in SeatPlan(ScreenTypeSeed[l[2]])} :
        LET Price(day) == GetPrice(priceRows, l[1], seatType, hour, day) IN
        \A day \in 0 .. 6, weekend \in {0, 5, 6} :
          Price(day) # NoPrice /\ Price(day) <= Price(weekend)
============================================================================
