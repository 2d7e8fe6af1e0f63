----------------------------- MODULE Showtimes -----------------------------
(***************************************************************************)
(* MovieService: showtimes, over the rows of movies and screens, and the   *)
(* calls that put an answer together from several reads: the showtimes of  *)
(* a theater, the seat map of a showtime, and BookingService's list of the *)
(* bookings of a user, which refer to showtimes and seats kept here.       *)
(*                                                                         *)
(* A CreateShowtime call inserts at most one showtime, so x names both.    *)
(* The transactions run under READ COMMITTED: the trigger that looks for   *)
(* an overlap sees the rows that are committed, and no others.             *)
(***************************************************************************)
EXTENDS Theaters, Movies, Setup

CONSTANTS
  Showtimes,  \* CreateShowtime calls, and their showtimes
  Starts,     \* the times they start
  Listings    \* calls that read a list or a seat map; bookings to be listed

ASSUME StartsAssumption == Starts \subseteq Nat

VARIABLES
  plan,          \* [movie, screen, start] a call asks for
  showtime,      \* the row of a showtime
  showtimeCall,  \* where the CreateShowtime call is
  concurrent,    \* history: the showtimes not committed at a showtime's insert
  listing        \* [step, theater, movies, showtimes, seat, unread, missing]

showtimeVars == <<plan, showtime, showtimeCall, concurrent>>

ShowtimeStep == {"idle", "screen", "link", "inserting", "committing",
                 "done", "failed"}
ListingStep == {"idle", "showtimes", "movies", "screens",
                "map screen", "map seats", "map movie", "map theater",
                "booked", "own movie", "own seat", "own screen", "own theater",
                "done", "notFound", "gone", "threw", "cut"}

ShowtimeTypeOK ==
  /\ plan \in [Showtimes -> [movie : Movies, screen : Screens, start : Starts]]
  /\ showtime \in [Showtimes -> RowState]
  /\ showtimeCall \in [Showtimes -> ShowtimeStep]
  /\ concurrent \in [Showtimes -> SUBSET Showtimes]
  /\ listing \in [Listings ->
       [step : ListingStep, theater : Theaters, movies : SUBSET Movies,
        showtimes : SUBSET Showtimes, seat : SUBSET Screens,
        unread : (SUBSET Movies) \union (SUBSET Screens), missing : BOOLEAN]]

NoListing(t) ==
  [step |-> "idle", theater |-> t, movies |-> Movies, showtimes |-> {},
   seat |-> {}, unread |-> {}, missing |-> FALSE]

ShowtimeInit ==
  /\ plan \in [Showtimes -> [movie : Movies, screen : Screens, start : Starts]]
  /\ showtime = [x \in Showtimes |-> "absent"]
  /\ showtimeCall = [x \in Showtimes |-> "idle"]
  /\ concurrent = [x \in Showtimes |-> {}]
  /\ \E t \in [Listings -> Theaters] : listing = [l \in Listings |-> NoListing(t[l])]

TimeStart(x) == plan[x].start
TimeEnd(x) == plan[x].start + film[plan[x].movie].duration

(* The condition of the trigger check_showtime_overlap. *)
Overlap(x, y) ==
  /\ plan[x].screen = plan[y].screen
  /\ ~ (TimeStart(x) >= TimeEnd(y) \/ TimeEnd(x) <= TimeStart(y))

Shown(x) == showtime[x] = "present"
Pending(x) == showtime[x] = "inserted"

---------------------------------------------------------------------------
(* CreateShowtime; here and below a call begins with its first read. *)

ShowtimeStepFrom(x, from, to) ==
  /\ showtimeCall[x] = from
  /\ showtimeCall' = [showtimeCall EXCEPT ![x] = to]

ReadStep(x, found, from, to) ==
  /\ ShowtimeStepFrom(x, from, IF found THEN to ELSE "failed")
  /\ UNCHANGED <<plan, showtime, concurrent>>

StartCreateShowtime(x) ==
  ReadStep(x, movie[plan[x].movie] = "present", "idle", "screen")

(* The time to start is no time, or is over. *)
RefuseTimeStart(x) == ReadStep(x, FALSE, "idle", "screen")

ReadScreenToShow(x) ==
  ReadStep(x, screen[plan[x].screen] = "present", "screen", "link")

(* What getMovieTypeHasScreenType looks for. *)
Linked(x) ==
  <<film[plan[x].movie].type, wanted[plan[x].screen].type>> \in linkRows

ReadLink(x) == ReadStep(x, Linked(x), "link", "inserting")

(* Mutant: a showtime that starts with another one does not overlap it. *)
InsertableBeside(x) ==
  /\ movie[plan[x].movie] = "present"
  /\ screen[plan[x].screen] = "present"
  /\ \A y \in Showtimes :
       Shown(y) => ~ (Overlap(x, y) /\ TimeStart(x) # TimeStart(y))

(* The trigger and the foreign keys; slot and day follow from the start. *)
Insertable(x) ==
  /\ movie[plan[x].movie] = "present"
  /\ screen[plan[x].screen] = "present"
  /\ \A y \in Showtimes : Shown(y) => ~ Overlap(x, y)

InsertShowtime(x) ==
  /\ Insertable(x)
  /\ ShowtimeStepFrom(x, "inserting", "committing")
  /\ showtime' = [showtime EXCEPT ![x] = "inserted"]
  /\ concurrent' = [concurrent EXCEPT ![x] = {y \in Showtimes : Pending(y)}]
  /\ UNCHANGED plan

InsertShowtimeRefused(x) ==
  /\ ~ Insertable(x)
  /\ ShowtimeStepFrom(x, "inserting", "failed")
  /\ UNCHANGED <<plan, showtime, concurrent>>

CommitShowtime(x) ==
  /\ ShowtimeStepFrom(x, "committing", "done")
  /\ showtime' = [showtime EXCEPT ![x] = "present"]
  /\ UNCHANGED <<plan, concurrent>>

CreateShowtimeFails(x) ==
  /\ showtimeCall[x] \in {"screen", "link", "inserting", "committing"}
  /\ showtimeCall' = [showtimeCall EXCEPT ![x] = "failed"]
  /\ showtime' = [showtime EXCEPT ![x] = "absent"]
  /\ UNCHANGED <<plan, concurrent>>

---------------------------------------------------------------------------
(* Deleting: a row goes, and the showtimes that refer to it go with it, when *)
(* no transaction holds the row for a showtime it has inserted.              *)

(* Mutant: no row is held for a showtime that is not committed. *)
DropCommittedShowtimes(X) ==
  /\ showtime' = [x \in Showtimes |->
                    IF x \in X /\ Shown(x) THEN "deleted" ELSE showtime[x]]
  /\ UNCHANGED <<plan, showtimeCall, concurrent>>

DropShowtimes(X) ==
  /\ \A x \in X : ~ Pending(x)
  /\ showtime' = [x \in Showtimes |->
                    IF x \in X /\ Shown(x) THEN "deleted" ELSE showtime[x]]
  /\ UNCHANGED <<plan, showtimeCall, concurrent>>

DeleteShowtime(x) == Shown(x) /\ DropShowtimes({x})

ShowtimesOn(S) == {x \in Showtimes : plan[x].screen \in S}
ShowtimesOf(m) == {x \in Showtimes : plan[x].movie = m}

---------------------------------------------------------------------------
(* The showtimes of a theater, of all movies or of one *)

(* A call ends: with its answer or without, what it has read is gone. *)
End(l, step) ==
  listing' = [listing EXCEPT ![l] = [NoListing(@.theater) EXCEPT !.step = step]]

ListMovies(l, M) ==
  /\ listing[l].step = "idle"
  /\ \/ /\ theater[listing[l].theater] = "present"
        /\ listing' = [listing EXCEPT ![l].step = "showtimes", ![l].movies = M]
     \/ theater[listing[l].theater] # "present" /\ End(l, "notFound")

GetShowtimeListOfTheater(l) == ListMovies(l, Movies)

GetShowtimeListOfTheaterByMovieId(l, m) == ListMovies(l, {m})

(* Mutant: showtimes that are not committed are read. *)
ReadUncommittedShowtimes(l) ==
  LET X == {x \in ShowtimesOn(ScreensOf(listing[l].theater)) :
              (Shown(x) \/ Pending(x)) /\ plan[x].movie \in listing[l].movies}
  IN  /\ listing[l].step = "showtimes"
      /\ listing' = [listing EXCEPT ![l].step = "movies",
                                    ![l].showtimes = X,
                                    ![l].unread = {plan[x].movie : x \in X}]

(* The day of the request is the day of all showtimes here. *)
ReadListedShowtimes(l) ==
  LET X == {x \in ShowtimesOn(ScreensOf(listing[l].theater)) :
              Shown(x) /\ plan[x].movie \in listing[l].movies}
  IN  /\ listing[l].step = "showtimes"
      /\ listing' = [listing EXCEPT ![l].step = "movies",
                                    ![l].showtimes = X,
                                    ![l].unread = {plan[x].movie : x \in X}]

(* The rows are read one by one, in any order; one that is not there leaves *)
(* a hole in the map the answer is made from.                               *)
ReadRow(l, step, row, found) ==
  /\ listing[l].step = step
  /\ row \in listing[l].unread
  /\ listing' = [listing EXCEPT ![l].unread = @ \ {row},
                                ![l].missing = @ \/ ~ found]

ReadListedMovie(l, m) == ReadRow(l, "movies", m, movie[m] = "present")

ReadListedScreen(l, s) == ReadRow(l, "screens", s, screen[s] = "present")

ListScreens(l) ==
  /\ listing[l].step = "movies"
  /\ listing[l].unread = {}
  /\ listing' = [listing EXCEPT ![l].step = "screens",
                                ![l].unread = {plan[x].screen :
                                                 x \in listing[l].showtimes}]

(* A property of undefined: the answer is a TypeError. *)
AnswerListing(l) ==
  /\ listing[l].step = "screens"
  /\ listing[l].unread = {}
  /\ End(l, IF listing[l].missing THEN "threw" ELSE "done")

---------------------------------------------------------------------------
(* The seat map of a showtime *)

(* A call that is about showtime x; plan and rows say what x refers to. *)
About(l, step, x) ==
  /\ listing[l].step = step
  /\ x \in listing[l].showtimes

(* One row is read; a row that is not there ends the call, as the last does. *)
Follow(l, found, to) ==
  \/ found /\ listing' = [listing EXCEPT ![l].step = to]
  \/ ~ found /\ End(l, "gone")

FollowLast(l, found) ==
  \/ found /\ End(l, "done")
  \/ ~ found /\ End(l, "gone")

MovieThere(x) == movie[plan[x].movie] = "present"
ScreenThere(x) == screen[plan[x].screen] = "present"
TheaterThere(x) == theater[wanted[plan[x].screen].theater] = "present"

(* The caller has the id of x from a list. *)
GetShowtimeMetadata(l, x) ==
  /\ listing[l].step = "idle"
  /\ \/ /\ Shown(x)
        /\ listing' = [listing EXCEPT ![l].step = "map screen", ![l].showtimes = {x}]
     \/ showtime[x] = "deleted" /\ End(l, "notFound")

ReadMapScreen(l, x) ==
  About(l, "map screen", x) /\ Follow(l, ScreenThere(x), "map seats")

(* Seats go with their screen, and come after it; no seat is no error. *)
ReadMapSeats(l, x) ==
  /\ About(l, "map seats", x)
  /\ listing' = [listing EXCEPT ![l].step = "map movie",
                                ![l].missing = seats[plan[x].screen] = {}]

ReadMapMovie(l, x) ==
  About(l, "map movie", x) /\ Follow(l, MovieThere(x), "map theater")

(* After it come the bookings of the showtime, and a price for each seat. *)
ReadMapTheater(l, x) ==
  About(l, "map theater", x) /\ FollowLast(l, TheaterThere(x))

ReadSeatMap(l, x) ==
  \/ ReadMapScreen(l, x)
  \/ ReadMapSeats(l, x)
  \/ ReadMapMovie(l, x)
  \/ ReadMapTheater(l, x)

---------------------------------------------------------------------------
(* BookingService's list of bookings: each is completed by five calls of    *)
(* MovieService, and the first that finds nothing ends the whole list.  No  *)
(* foreign key leads from a booking to its showtime or its seat, and nobody *)
(* looks whether the seat is on the showtime's screen.                      *)

(* What createBooking finds at MovieService before it inserts; the price is *)
(* that of the seat's type.                                                 *)
BookSeat(l, x, s) ==
  /\ listing[l].step = "idle"
  /\ Shown(x)
  /\ seats[s] # {}
  /\ "price" \in filled
  /\ listing' = [listing EXCEPT ![l].step = "booked", ![l].showtimes = {x},
                                ![l].seat = {s}]

GetBookingList(l, x) ==
  About(l, "booked", x) /\ Follow(l, Shown(x), "own movie")

ReadOwnMovie(l, x) ==
  About(l, "own movie", x) /\ Follow(l, MovieThere(x), "own seat")

AboutSeat(l, step, s) ==
  /\ listing[l].step = step
  /\ s \in listing[l].seat

ReadOwnSeat(l, s) ==
  AboutSeat(l, "own seat", s) /\ Follow(l, seats[s] # {}, "own screen")

ReadOwnScreen(l, s) ==
  AboutSeat(l, "own screen", s) /\ Follow(l, screen[s] = "present", "own theater")

ReadOwnTheater(l, s) ==
  /\ AboutSeat(l, "own theater", s)
  /\ FollowLast(l, theater[wanted[s].theater] = "present")

GetBookingMetadata(l, x, s) ==
  \/ GetBookingList(l, x)
  \/ ReadOwnMovie(l, x)
  \/ ReadOwnSeat(l, s)
  \/ ReadOwnScreen(l, s)
  \/ ReadOwnTheater(l, s)

(* The process of the gRPC server ends. *)
ShowtimesInterrupted ==
  /\ showtimeCall' = [x \in Showtimes |->
                        IF showtimeCall[x] \in {"idle", "done"}
                        THEN showtimeCall[x] ELSE "failed"]
  /\ showtime' = [x \in Showtimes |->
                    IF Pending(x) THEN "absent" ELSE showtime[x]]
  /\ listing' = [l \in Listings |->
       IF listing[l].step \in {"idle", "booked", "done", "notFound", "gone", "threw"}
       THEN listing[l]
       ELSE [NoListing(listing[l].theater) EXCEPT !.step = "cut"]]
  /\ UNCHANGED <<plan, concurrent>>
============================================================================
