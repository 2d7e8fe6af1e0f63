# Verification of the movie-ticket booking system

TLA+ models of the services in this repository, TLC runs that check them on small
instances, and TLAPS proofs for every instance. Each definition is translated from the
code; `PROJECT.json` maps it to the lines it stands for and lists runs, findings, hazards
and theorems.

## 1. Inventory

The system is a set of services, each with a database of its own. HTTP reaches `gateway`,
which calls the services over gRPC; services call each other over gRPC, publish on Kafka,
queue delayed jobs in Redis (BullMQ), and use Stripe for payment, S3 for files and an SMTP
server for mail.

| component | state it keeps | operations | interacts by |
|---|---|---|---|
| BookingService | booking table (status INITIALIZING, PENDING, CONFIRMED, CANCEL), delayed jobs | CreateBooking, status updates, list queries; job worker; consumer of `payment_service_payment_transaction_completed` | gRPC from gateway and PaymentService, gRPC to MovieService, BullMQ, Kafka |
| PaymentService | payment transactions, checkout sessions | CreatePaymentTransaction, CancelPaymentTransaction, Stripe webhook | gRPC to BookingService and MovieService, Stripe, Kafka |
| MovieService, theaters | theaters with counters kept by triggers, screen types, screens, seats | create, update, delete; consumer of `movie_service_screen_created` | gRPC, Kafka to itself |
| MovieService, catalogue | movies, genres and their links, images, posters, trailers, prices, links of movie and screen types | create, update, delete; initialization job | gRPC, S3 |
| MovieService, showtimes | showtimes, guarded by a trigger against overlaps | create, delete, lists, seat map | gRPC, also from BookingService |
| UserService | users, passwords, roles, permissions and their links; public keys, blacklist of tokens | accounts, login, verification, logout; initialization job; job that clears the blacklist | gRPC |
| NotificationService | notifications | on a completed payment: create a notification, render a PDF, mail it | Kafka, gRPC to the others, mail |
| gateway | a cookie in each browser | routes with the rights they ask for; authentication and authorization of a request; one or two gRPC calls behind it | gRPC |
| deploy | none | compose files | |

What is hard, and where it bites:

* **concurrency.** Every `await` is a point where another call, job, webhook or message
  handler runs. `createBooking` checks a seat and inserts later; its two counts are sent
  together on two connections; `createPaymentTransaction` counts and inserts without a
  unique index; the delayed job races with the payment; Kafka handlers are not awaited;
  triggers see only what is committed; answers are put together from several reads; the
  roles of a user are read before their permissions.
* **failure.** A process may die between two writes: row and job, transaction and message,
  PENDING booking and transaction, session at Stripe and session row, movie and its parts,
  user and password.
* **delivery.** The webhook endpoint never answers, so Stripe repeats every event;
  Kafka redelivers what was not committed, and what was committed may not have been
  handled; two messages are sent before the commit they announce.
* **time.** Bookings close before the showtime; INITIALIZING bookings expire after 5
  minutes, sessions after 35; tokens expire and are renewed while they are checked, and
  the blacklist is cleared of what has expired.

What makes each component correct: a seat is booked at most once and never after it was
sold; a booking has one payment transaction and one checkout page; money is taken only
while the seat is held, and decides the final status; final statuses are final; every
booking settles (BookingService and PaymentService). A screen gets its seats exactly once;
counters equal what they count; showtimes of a screen do not overlap; rows and answers
have no holes; a movie is whole; every seat has a price (MovieService). A token that was
revoked is not accepted, one that was not is; no request does what its user may not
(UserService and gateway). One mail per completed payment, with the outcome the payment
had (NotificationService).

## 2. Plan

Done, in this order; the most important behaviour is the money and the seat.

1. `BookingMessages`, `BookingService`, `PaymentService`: one module per service.
2. `TicketSales`: their composition, with faults; its properties; `BookingLifecycle`: what
   the two promise together, as an abstract specification.
3. `TicketSalesProofs`: type correctness, the inductive invariant and what follows from it,
   the refinement.
4. `ConsumerGroup`, `NotificationService` and their composition `TicketNotices` with the
   abstract `BookingLifecycle`; `TicketNoticesTypes`, `TicketNoticesProofs`.
5. `Theaters`, `Movies`, `Prices`, `Setup`, `Showtimes`: MovieService by table, and
   `MovieService`, their composition; `MovieServiceTypes`, `MovieServiceProofs`.
   `MoviePages`: what the gateway shows of movies meanwhile; `MoviePagesProofs`.
6. `Accounts`, `Sessions` and `UserService`; `UserServiceProofs`. `Gateway`: the routes in
   front of it and the calls behind them; `GatewayProofs`.
7. The exact condition under which a PENDING booking settles: `StuckOnlyWithoutSession`,
   and the part of it that a proof reaches, `PendingIsServed`.

Left, in the order it would be worth it: abstract specifications of a notification (created,
claimed, mailed or failed, without evictions) and of a session (issued, revoked, expired),
with their refinements; several partitions per topic.

## 3. Modules

### Selling tickets

**BookingMessages**: booking ids and the completed-payment message.

**BookingService**: `status`, `place` and `bookingTime` are the booking table, one row per
`CreateBooking` call (a call inserts at most one); a place is a (showtime, seat) pair.
`call` and `counts` are a call's program counter and the local results of its two counts.
`jobs` holds the runs left of the delayed job (the code grants 5), `handling` the message
handlers that are running. Each `await` of `createBooking` is an action; a transaction that
begins with `FOR UPDATE` on the row it writes is one action. The three lookups in
MovieService change nothing and are folded into the action that uses their answer:
`InsertBooking` if all succeed, `RejectBooking` if one does not. `before` is a history
variable: who held and who had bought the place when the call began.

**PaymentService**: `pt` and `sessionRow` are its two tables, one row per
`CreatePaymentTransaction` call; `payCall`, `seen` and `url` are the call's program counter,
what its first two reads returned, and its answer. `cancelCall`, `cancelOf` are the same for
`CancelPaymentTransaction`; `cancelSaw` is history. `stripe` is the session at Stripe:
absent, open, then paid or expired, once. `hooks` holds the runs of the webhook handler: the
pair of a session and the step the run is at. As an event may be delivered any number of
times, one set stands for every multiset of runs. `topic` holds the messages Kafka may
still deliver.

**TicketSales**: composes the two. `AskForBooking` and `AskToMarkPending` are gRPC calls
from one service to the other, `DeliverMessage` passes a message. `Fault` is every failure:
a process that dies or a database, queue, broker or service that refuses, at any step. A
gRPC call whose reply is lost is `AskToMarkPending` followed by `CreatePaymentFails`.

**BookingLifecycle**: one booking's path and its money, with no trace of requests, tables or
messages. `TicketSales` implements it with `outcome` read off the sessions at Stripe.

### Notifications

**ConsumerGroup**: NotificationService's Kafka consumer. `log` is the two topics it reads,
`session` what a process's current `Consume` call is at, `waiting` the topics whose `Consume`
call has not had the group's lock. `Start` calls `Consume` once per topic, in goroutines, and
`Consume` holds the lock for its whole session; the order the goroutines get it in is
arbitrary. `JoinGroup` is a rebalance: those who are ready join, each topic's partition goes
to one of them. `CancelSession` ends a session's context (its handler runs on, phase
"ending"); `Evict` is the broker giving up a process that does not know it. No offset is
ever marked, so a session starts behind the newest message.

**NotificationService**: `row` is the notification table, one row per booking
(`of_booking_id` is unique), `serial` its id sequence, `task` the handler a process runs and
its local copy of the row, `sent` and `told` what has been mailed. Each statement and each
group of calls to other services is an action. The accessor's statements are outside the
transaction, because `WithDB` ignores its argument; the insert is inside and becomes visible
with `CommitNotification`, and meanwhile blocks other inserts (two rows with the file name ""
collide). `OnTheWire` is what the numbering of the two `BookingStatus` enums does to a
status.

What a handler still does once its session is over depends on who is given the context. The
begin of a transaction (in `StartHandler`), the insert, a commit, gRPC and the download from
S3 are (`Live`, `CancelledCall`); every read and update made with the plain database handle,
the producer, the upload and the mail server are not. So the claim is three steps: a begin
that needs the session, then `ReadNotification` and `MarkProcessing`, which do not, then
`CommitClaim`, which does. And a transaction that has inserted a row is rolled back when its
session ends, whatever its handler is doing: other inserts wait only for one whose session
lives (`Holding`), and the produce of the row that is gone may still follow.

The message about a new notification carries the booking's id (`logic/notification.go:87`)
and its reader looks for a `notification_id` (`Found`): the two agree only when the ids happen
to, and `notices` shows what still holds when they do not.

**TicketNotices**: composes the two with `BookingLifecycle`, which stands for BookingService
and PaymentService: a settled payment is announced, any number of times up to `MaxMessages`,
and BookingService acts on it whenever it comes to it. `Fault` is every failure of a call, a
statement, a process or a session; `Eviction` is recorded apart, as `MailedOnceWhileHeard`
depends on it, and shares the bound with the failures.

### Movies, theaters and showtimes

A call that creates a row names the row: it inserts at most one. Rows of a transaction that
is under way are "inserted" and visible to nobody; whoever would wait for its locks is not
enabled. A row that was deleted stays "deleted", as ids are not given out again.

**Theaters**: `screen` and `screenCall` are a screen's row and the `CreateScreen` call behind
it, `name` the display name under its unique index, `screenCount` and `seatCount` the columns
the trigger on `screen` keeps. The call inserts the screen, sends `screen_created` and then
commits. `topic` and `uncommitted` are the messages not fetched and those whose offset is
not committed; `seeding` is one run of `createAllSeatOfScreen`, for a message or for the
gRPC call of that name, and `seats` the copies of the seat plan a screen holds. A handler is
not awaited, so one that throws, as when it comes before the commit, ends the consumer's
process and every other handler with it (`ConsumerDies`); the next consumer reads again what
was not committed. `lost` and `again` record the screens whose handler died after the
commit of its offset and those whose message was put back. `DeleteScreenType` deletes the
*screen* with the id it is given, as the handler does.

**Movies**: `movieCall` is where a `CreateMovie` call is, `film` what it asks for. It runs one
transaction after another (movie, genres, images, poster, trailer) and undoes none. The
images are made side by side; `picture` is where each is, `file` what has become of its
upload, which is started and not awaited. The check of the genres is a promise that is
always true, so a genre that is not there is found by the foreign key, and one that is named
twice by the unique index, when the movie is there (`RefuseGenres`).

**MoviePages**: `page` is what a `GetMovie` of the gateway has read: the movie joined with its
poster and trailer, then its genres, then its images, three statements and no transaction.
The join gives two columns the same name and the trailer's comes last, so a movie without a
trailer shows no poster (`PosterShown`), and the gateway throws at a poster that is not there
(`Converted`). A list of movies is one statement; `ListAnswered` says when it converts.

**Prices**: the seeds and what the initialization job inserts, seat plans, slots, days and
`GetPrice`, as pure operators. **Setup**: the job; `filled` says which of the two tables it
fills are full, `job` where a run is. Counts and inserts are sent side by side on
connections of their own.

**Showtimes**: `plan` is what a `CreateShowtime` call asks for; `showtime`, `showtimeCall` its
row and program counter, `concurrent` the history of what was not committed when it was
inserted. `Insertable` is the trigger and the foreign keys. `listing` is one read of many
statements: a theater's showtimes (of all movies or one), a seat map, or BookingService's
list of a user's bookings, which asks MovieService for each booking's showtime, movie, seat,
screen and theater. `showtimes` and `seat` hold what it is about (a seat stands for those of
its screen), `unread` the ids still to be read, `missing` that a row was not there when a map
was filled, or that there were no seats. A call begins with its first read and forgets at its
end what it has read (`End`). `ReadMapSeats` answers the seats the screen has: none, and no
error, as long as `screen_created` has not been handled, and for ever if it was lost;
`createShowtime` does not look for seats. `BookSeat` is what `createBooking` finds at
MovieService: a showtime and a seat, of any screen, as nobody compares the two.

**MovieService**: composes them. Deleting a movie, screen or theater deletes its showtimes in
the same step (`DropShowtimes`), unless an insert that is not committed holds the row.
`ServerStops` is the end of the server's process, also by a rejection nobody handles.

### Users and sessions

**Accounts**: `rows` and `used` are the users, roles and permissions that are there and the
ids that were given out; `handle`, `password` and `permissionName` their columns; `links` the
two tables of links. `userCall` is the gateway's call that makes a user and then its
password, `linkCall` a call that reads both ends of a link and then changes it, `job` a run
of the initialization job, which counts three tables and then makes the first user, its
password, a role, and permission after permission with its link. Deleting a role or a
permission takes its links with it.

**Sessions**: `token` holds user, id, time and key of each token; ids are rounded, so two
tokens of one instant may share one. `server` is the process that serves and `keyRows` the
processes that stored a public key; a restart makes a new pair of keys. A `request` is a
login, a visit through the authentication middleware or a logout, with the step it is at
and what it has read: token, user, whether the token is near its end (`begun`), roles,
permissions. `revocation` is the work of `BlacklistToken`, which goes on after the answer;
`cleaning` the runs of the job that deletes expired rows, each with the time it took at its
start. `watch` is history: what the user held while the request ran, and whether it lost a
role; `Watch` updates it with every step.

**UserService**: composes them with `Fault`.

**Gateway**: a route is the operator's method it calls, whether it asks for a login, and the
permission it needs; a router is a set of them. An operator is a set of pairs, the method and
the service's call it makes (`Calls`). `wish` is the route a request asks for, `handler` where
the handler behind the middleware is, `patched` whom an `updateUser` has updated before it
comes to the password. `MiddlewareStep` runs the handler only when the middleware calls
`next`. Calls that change permissions or users are those of `Accounts`; what is done by
another service is `CallElsewhere`, and changes nothing here. `Served` is what the server
serves: the token of the roles' router is bound to the users' router, so the routes that
would give a role or a permission are not among them.

**MCTicketSales, MCTicketNotices, MCMovieService, MCMoviePages, MCUserService, MCGateway**:
symmetry sets and small constants for TLC.

Definitions marked *Mutant* are faulty variants of the definition that follows them. Nothing
uses them: substituting one for the original must make the property named in `PROJECT.json`
fail, which shows that the property can fail.

## 4. Runs

| run | instance | shows |
|---|---|---|
| `payment_safety` | 1 booking, 2 payment calls, 1 cancel, 2 faults | money, status, transaction and checkout page stay consistent; final statuses are final; `BookingLifecycle` is implemented |
| `seats` | 2 bookings of 1 seat, 1 payment call, clock to 2 with deadline 1, 1 fault | a sold seat is not booked by a later call |
| `recovery` | 1 booking, 2 payment calls, 1 fault, fairness | paid ends in CONFIRMED, expired in CANCEL, through one failure; without one every booking settles; a PENDING booking stays so only if no session was ever opened for it |
| `seat_race` | 2 bookings, no fault | **violated**: two concurrent calls book one seat |
| `notices` | 1 booking (with id 2), 3 processes, 2 messages, 1 fault or eviction | one mail at most per booking; mail follows payment; SUCCESS was mailed; SUCCESS and FAILED are overwritten by nothing but a claim that came too late |
| `screens` | 1 theater, 2 screens of 90 seats, 2 names, 2 seedings, 1 fault, fairness | a message seats its screen once; a screen without seats has lost its message; counters are right until a screen is deleted; a message that waits is served |
| `programme` | 1 screen that is seated once or not at all, 1 movie, 2 showtimes at one time, 1 listing, 1 fault | no orphans; overlaps only of concurrent inserts; answers are torn only by deletions, and seat maps by seats that are not there yet or never will be |
| `catalogue` | 2 movies of one title, 1 genre (named once or twice), 1 image and poster, the page of one movie, 1 fault, fairness | an answered movie is whole, and so is an answered page; a row has its file, or it was lost to a failure; the call ends; a half-made movie spoils its page and its lists until it is deleted |
| `setup` | 3 runs of the job, 1 fault | both tables are filled; every seat that can be shown has a price at every hour, on a weekend not a lower one |
| `accounts` | 2 runs of the job, 1 user, 1 role, 1 permission, 1 link call, 1 request, 1 fault | what the job has made is whole; a user whose making failed half way stays without a password and keeps its names |
| `rights` | 1 run of the job, 1 role, 2 permissions, 3 requests of which 2 at a time, 1 fault; asked for: the calls for permissions, `updateUser`, `deleteTheater` | a guarded call is made only for who held its permission; when nobody holds the one over permissions, nobody ever will |
| `sessions` | 1 user, 3 requests of which 2 at a time, 2 tokens, 2 processes, clock to 1, 1 fault | revoked tokens are refused, logged-out ones are revoked, others are not refused |

Why the bounds are enough. Two payment calls for one booking are the smallest instance with
a race for its transaction; two bookings of one seat the smallest with a race for it; the
proofs show the safety properties for any number. Two attempts per job let a job run again
after an unacknowledged run. Two faults let one failure hit the recovery from another. The
clock matters only relative to the deadline and to equal booking times, so three values
suffice. Two processes are the fewest that mail at all (`AloneIsSilent`); three are the fewest
of which two are at work on one notification, one of them with a session that is over, while
the third creates it or produces for it. Any session may be cancelled at any time a process
wants to join, without a fault; a fault cancels one besides, and an eviction is what
`MailedOnceWhileHeard` is conditional on, so the two share one bound. Two messages let a
payment be announced again before, while or after its notification is handled. The booking's
id is 2, so that its notification is found only when a first id was spent on an insert that
did not last; notifications of other bookings under its id are left to the proofs, which hold
for any set of bookings. `ActsBeforeFetch` keeps BookingService from acting on a settlement
until a handler is about to ask for the booking: nothing else in the run reads its status, so
acting earlier leads to the same answers. Each topic has one partition, Kafka's default.

Two screens let one handler's end cut off another, two names let a rename collide. Two
showtimes are the smallest overlap; that showtimes which only touch do not overlap, and a
booked seat of another screen than the showtime's, are left to the proofs. One seeding gives
the screen of `programme` its seats late, or never when the fault takes the message.
`ShowtimesAfterMovies` lets calls about showtimes begin when no movie is in the making: they
read its row, which is the first of the parts that `catalogue` makes. Two movies of one title
collide. Three runs of the initialization job let one start after, beside and before others.
Requests of one user on one browser share the cookie, which is where they meet; the first
token is there at the start and the second is its renewal or that of a login. The clock of
`sessions` passes the end of the first token, and the renewal time makes every token due for
renewal; that one which is not due goes on without is left to the proofs, which hold for every
renewal time. `rights` asks for one route of each sort and all that change permissions: two
requests may rename or delete each other's permission, and the third comes afterwards; the
routes it leaves out differ only in names, and the proofs hold for all. Calls are finite, so
every run ends with nothing to do: `CHECK_DEADLOCK FALSE`.

### Findings

* `seat_race`: between the check (`booking_management_operator.ts:43`) and the insert (`:74`)
  another call does the same; the unique index of the table contains `booking_time` and helps
  only within one millisecond.

The modules also state eight things the code does not do, as definitions that no run checks.
Each is false in the small instance given here:

| definition | false because | instance |
|---|---|---|
| `TicketSales!HeldSeatStaysHeld` | the count of CONFIRMED rows is answered first, then the holder goes from PENDING to CONFIRMED, then the other count is answered; both are 0. In the opposite order nothing is lost, and a seat *sold* before is always seen: `SoldSeatStaysSold` | 2 bookings, no fault |
| `TicketSales!InitializingExpires` | row and delayed job are written one after the other to two stores | 1 booking, 1 fault, fairness |
| `TicketSales!CancelNeedsPending` | a missing `await` (`payment_transaction_management_operator.ts:139`) makes the status check a test of a promise. `StatusFollowsMoney` and `LifeSpec` bound the consequence: Stripe expires only an open session, which is always of a PENDING booking | 1 booking, 1 cancel, no fault |
| `TicketNotices!MailedOnce` | `WithDB` drops the transaction and gorm v2 has no `gorm:query_option`, so the claim is a read and a later write. It is still exclusive while a process hears of the loss of its partition: its next transaction does not begin or commit. A process paused for longer than the session timeout does not hear | 1 booking, 3 processes, 1 message, 1 eviction |
| `TicketNotices!MailTellsOutcome` | a CONFIRMED booking is answered as CANCEL and mailed "Payment transaction failed"; one that is still PENDING is answered as CONFIRMED and mailed "Payment transaction successfully" | 1 booking, 2 processes, 1 message, no fault |
| `TicketNotices!FinalNoticeIsFinal` | the claim's read and write go on without their session. One process inserts a row and its session ends: the row is rolled back, its id is spent, and its produce follows all the same. A second process takes that message and begins its claim; then its session ends too. The third creates the row, with the next id, and produces it; the first reads that in a new session and carries it to its end, SUCCESS or FAILED. Meanwhile the second has read PENDING, and now writes PROCESSING over the end; its commit fails and the row stays so. There is no second mail: `EndedUnlessLateClaim` and `MailedOnceWhileHeard` bound the consequence | the instance of `notices`, no fault |
| `TicketNotices!PaidIsMailed` | a process creates notifications and never reads the messages about them, or reads that topic and creates none | 1 booking, 1 process, no fault, fairness |
| `MovieService!TornOnlyByDelete` | the seat map of a screen that is there, and whose `screen_created` is not handled or was lost, has no seats; nothing was deleted | the instance of `programme`, also without its fault |

Met while modelling, and part of the models without a property of their own:

* a booking outlives its showtime, as no foreign key leads from one service to another: the
  list of a user's bookings then fails at the first such booking, for as long as it is there;
* a screen that is deleted between two reads, or that has no seats yet, gives a seat map without
  seats and without error, and a showtime may be created on a screen without seats;
* a booking is accepted for a seat of another screen than the showtime's: `createBooking` asks
  for both and compares nothing;
* `DELETE /api/theaters` and `DELETE /api/screen-types` both delete a *screen*: the first calls
  `deleteScreenType`, whose handler calls `deleteScreen`. A theater or a screen type is never
  deleted over HTTP, and a screen may be with any of three permissions (`RightsFor`);
* no route gives a role to a user or a permission to a role (`Served`), so who deletes or
  renames the last permission over permissions locks everybody out: `LockedOutForGood`;
* nothing repairs a movie or a user whose call failed half way: `HalfMadeForGood`,
  `HalfMadeUserForGood`. Too short a password is found when the user is there;
* a renewal that is under way while its user logs out puts a new, valid token in the cookie;
* a public key that cannot be read makes the token invalid and takes the cookie away.

## 5. Fairness

`TicketSales!FairSpec` assumes weak fairness of: each step of a `CreateBooking` or
`CreatePaymentTransaction` call that has begun (Node runs its continuations); the delayed job
(BullMQ runs a due job); the expiry of an open session (`expires_at` is set on creation);
`ReceiveEvent` (Stripe repeats an event until it is answered, and the endpoint never
answers); the two steps of the webhook handler; delivery and handling of a message.
Nothing is assumed of customers: they need not book, pay or cancel. Fairness of
`ReceiveEvent` is what carries `recovery`: a lost webhook run or message is replaced by the
next repetition. Stripe stops repeating after some days; a failure that lasts longer is not
covered. `EveryBookingSettles` is claimed for runs without failure, since one failure can
leave a booking INITIALIZING (`InitializingExpires`) or PENDING without a session for ever.
`StuckOnlyWithoutSession` says that with failures this is the only way to stay PENDING.

`MovieService!FairSpec` assumes weak fairness of: the consumer, which polls its topic; each
step of a run of `createAllSeatOfScreen` that has begun; each step of a `CreateMovie` call
and of its pictures; the end of an upload. Nobody need create or delete anything, and nobody
need commit an offset. `ScreenIsSeated` lets a message wait when no run of
`createAllSeatOfScreen` is left in the model, as a bound on runs is a bound of the model.
`MoviePages!PagesFairSpec` is the same: who reads a page owes nothing.

`TicketNotices!FairSpec` assumes weak fairness of the first announcement of a settled
payment, of BookingService's reaction to it, of `Rebalance` (the group's members join when
the broker asks), of `LeaveSession` and of each process's handlers. It serves
`PaidIsMailed`, which is false under it, so that the missing mail is not a matter of
scheduling. UserService and Gateway have no liveness of their own: their properties are
about what a request may not see or do.

## 6. Proofs

The theorems hold for every value of the constants that satisfies the assumptions named, and
so for any number of calls, rows, messages, processes, failures and ticks.

### TicketSales

Assumed: `AttemptsAssumption`, `TimeAssumption`, `MaxFaultsAssumption` (the bounds are natural
numbers) and `NoCallAssumption` (the null value is not a call).

`TicketSalesProofs`: `TypeCorrect`, `Spec => []TypeOK`; `InductiveInvariant`,
`Spec => []IInv`, and from it `OneTransaction`, `PayableIsHeld`, `MoneyIsFollowed`, `OnePage`,
`SoldStaysSold`, `FinalIsFinal`, `PendingIsAlwaysServed`; and `Implements`, `Spec => LifeSpec`.

Why an invariant is needed: nothing in PaymentService forbids a second transaction. The only
lock is BookingService's move of the booking from INITIALIZING to PENDING, made under a row
lock and accepted once. `IInv` says so: a call *owns* its booking from the step after that
move until for ever (`Owns`), no two calls own one booking, and an owned booking is never
INITIALIZING again (`OwnerInv`). Hence the session, the transaction, the messages and the
booking's status all speak of one session, and they agree (`StepInv`, `MoneyInv`,
`MessageInv`): a late, repeated or reordered message can only repeat what is true. That is
why `MessageInv` is needed for `StatusFollowsMoney`. `UrlInv` carries ownership to the
answers of repeated calls, `HistoryInv` carries "sold" through the two counts, `RowInv`
says when a row exists.

The proof has one lemma per group of steps, one step per action in it, and one step per part
of the invariant the action disturbs; `Frames` disposes of the rest. For the refinement,
`StepShape` classifies every step as an early move, a late move, a settlement or a step that
changes neither status nor outcome, and each class is matched with its abstract action.

`PendingIsServed` is what the liveness of PENDING bookings rests on: without a failure such a
booking has a call that still goes on towards a session, or a session that is there. That
the session then settles it is fairness, and TLC's (`StuckOnlyWithoutSession`).

### TicketNotices

Assumed: `IdsAssumption` (bookings are natural numbers) and `BoundsAssumption`.

* `TicketNoticesTypes`: `TypeCorrect`, `Spec => []TypeOK`, together with `Fetched` (what a
  session has fetched is in the topic) and `Named` (a handler works on a booking), without
  which a step would read outside the topic or the table.
* `TicketNoticesProofs`: `NoticeInvariant`, `Spec => []NoticeInv`, and from it
  `MailedOnceHolds`, `MailFollows`, `SuccessMailed`, `AloneIsSilent` and `EndedNoticeHolds`.

Why `NoticeInv` is needed: nothing locks the row between the claim's read and its write, and
neither looks at the session. `SessionInv` says that one session at most has a topic claimed,
and that a handler belongs to the topic of its session. So while nobody is evicted, one
handler at most has read PENDING with a session that still lets its claim commit
(`Claiming`), and `MailInv` says that nobody is then past the claim of that row and nothing
was sent: others may write the row late, but go no further. `TaskInv` and `PaymentInv` carry
the announcement from the message to the row and from the row to the mail: the insert commits
an absent row, since other inserts wait for it while its session lives, and it does not commit
after (`HoldsOn`). `SilentInv` says that a session that was alone when it joined the topic of
notifications stands at its end.

`WriterInv` goes on from the mail to the mark: one handler at most is past the claim
(`Writing`), and the row is then PROCESSING, for a late claim that writes over it writes
the same; while another may still get past the claim nobody is. Hence a row that has ended
has no handler past its claim and none that gets there, and what still writes it is a late
claim: `EndedRowWritten`, and from it `EndedNoticeHolds`.

`HandlerStep` covers every step of a handler but four: start, the claim's read, its commit and
the mail. These have lemmas of their own, as have the steps of the group and of the bookings.

### MovieService

Assumed: `SeatsAssumption`, `DurationsAssumption`, `StartsAssumption`, `MaxFaultsAssumption`
(numbers are natural), `GenreListsAssumption` (lists of genres) and `PosterAssumption` (the
poster is not one of the images).

* `MovieServiceTypes`: `TypesHold`, `Spec => []TypeOK`, table by table.
* `MovieServiceProofs`: first the screens with their messages (`ScreenInv`, `MessageInv` and
  `DeliveryInv` in the lemma `ScreensHold`), and from them `SeatsAreMadeOnce` and
  `ScreenIsSeatedOrLost`; then `Inductive`, `Spec => []IInv`, and from it `RowsReferToRows`,
  `TriggerSeesCommitted`, `TornAnswersAreExplained`, `AnsweredIsWhole`, `FilesBehindRows` and
  `JobsFillBoth`; `CountersMatch` and `SeatsArePriced`.
* `MoviePagesProofs` (assumed besides: `PagesAssumption`, pages are of movies):
  `PagesAreMovieService`, so that all of this holds with readers of pages too;
  `PagesInductive`, and from it `PagesAreWhole` and `HalfMadeMovieStays`.

`ScreenInv` and `MessageInv` tie a screen to its call and its message: a message is there
only after the insert, and unless it was put back it is in the topic or has one handler.
`DeliveryInv` follows it on: a message that is fetched has a handler that runs or has made
the seats, or the handler died with the consumer. The hard step is `ConsumerDies`, which puts
some messages back and loses others. `OverlapInv` is the promise of the trigger about *live*
showtimes, committed or not: whoever is inserted sees the committed ones, and records the
others in `concurrent`. `AnswersInv` says that what a listing is about was shown when it was
read and that `unread` refers to it, so a row that is missing later was deleted, and
`ShowtimeInv` that its showtime was deleted with it. A booked seat was there, so when it is
missing its screen was deleted. `TornAnswersAreExplained` looks at the read that tears an
answer: these two, and a seat map that finds no seats. There `DeliveryInv` says of a screen
that is present and has none that its message is under way or was lost (`SeatsAreAwaited`).

`MadeOK` lists, for each step of a `CreateMovie` call, what is there by then; `FileInv` that
an upload is under way before its row. `JobInv` holds while no failure has struck: a table
that is not filled has a run that still has it to do.

`CountersMatch` has an invariant of its own, `CountInv`: while no screen of a theater was
deleted, the counters are the cardinalities of the sets of its screens and of their numbered
seats, which are finite. The trigger counts a screen once, when it is committed, and its
numbered seats are nobody else's. `SeatsArePriced` is about fixed rows and goes by cases over
types, slots and days.

For pages, `TrailerInv` says that the trailer comes last, so that a movie that shows a poster
was whole when its row was read (`Settled`); `PageOK` follows the page through the two later
reads, in which only a deletion can take something away. `HalfMadeMovieStays` needs that no
step but a movie's own call gives it a poster, and that the call has ended.

### UserService

Assumed: `JobsAssumption`, `EarlierAssumption`, `FirstUserAssumption` (runs of the job name
their users, which ask for the configured name), `TablesAssumption` (a user is not a role or a
permission), `NoPasswordAssumption`, `NoTokenAssumption` (null values),
`FirstPermissionsAssumption` (a list of names), `LoginsAssumption`, `CookieAssumption`,
`OrderAssumption`, `TimesAssumption` and `MaxFaultsAssumption`.

`UserServiceProofs`: `TypesHold`; `Inductive`, `Spec => []IInv`; `SetupWhole`,
`LinksAreBetweenRows`, `RevokedAreRefused`, `LoggedOutAreRevoked`, `GrantedWasHeld` and
`RefusedForAReason`; and `HalfMadeUserStays`.

The invariant has two halves that meet in `GrantInv`. `JobInv` says that a run of the job has
one role and has linked every permission it created, but for the last before its grant, as
long as nobody removed a link. For sessions the difficulty is that ids are rounded and that a
clean-up works with a time read earlier. `TokenOK` says that an id is that of a token of the
same instant, so whoever shares an id shares its end; `BlacklistInv` that a row carries
exactly that end, and that clean-ups work with a time that has passed: so a row is deleted
only when every token with its id has expired, and a row with the id of another token is as
good as one's own. `RevokedInv` then keeps a request that began with a revoked token from
getting past the blacklist before the token's end. `GrantOK` keeps the history ahead of the
request: between the two reads the roles are those the user still has, or one was lost.
`HalfMadeUserStays` rests on the unique indexes (`EmailsApart`): whoever could take the names
of a half-made user finds them taken (`UsersKept`).

### Gateway

Assumed: what UserService assumes. `GatewayProofs` shows first that a gateway's behaviour is
one of UserService (`GatewayIsUserService`): a handler does nothing to it that `Spec` does not
allow, so every theorem above holds behind the routes as well. `GatewayInductive` adds
`RouteInv`: a visit has what its route needs, and a handler runs only behind a visit that was
let in with those permissions.

* `ChangesNeedARight` joins three facts: `GuardedRoutes`, which looks at every route and every
  call and finds the right guard in front of each; `RouteInv`, that what the guard asks was
  granted; and `GrantInv`, that what was granted was held, or a role was lost.
* `NoWayBackIn`: a new handler for permissions would need a visit that was granted the right,
  and the middleware grants what the names of the roles' permissions say at that moment
  (`NobodyLetIn`): nobody's do, and no handler is left that could change a name. Runs of the
  initialization job have ended, and no route changes links.

### Theorems without a run

Some theorems state what no run checks as a property, as the runs check what follows from it:
the inductive invariants; `AloneIsSilent`, `LinksAreBetweenRows` (foreign keys over links read
earlier), `GrantedWasHeld`, `PendingIsAlwaysServed`; and the type correctness of UserService,
which `rights` checks as part of `GatewayTypeOK`.

### Only model-checked

Every safety and action property of a passing run is a theorem. Liveness under fairness is
beyond the prover and stays with TLC: `PaidIsConfirmed`, `ExpiredIsReleased`,
`EveryBookingSettles`, `StuckOnlyWithoutSession`, `ScreenIsSeated` and `CreateMovieEnds`.

## 7. Not modelled

* Everywhere: amounts, currencies and texts; gRPC transport; updates that only change a text
  (a theater's, genre's, role's or screen type's name); searches, and lists that are one read
  of one table. Ids no row ever had are answered like those of deleted rows.
* MovieService: `updateShowtime`, `deleteImage` and `deletePoster`, which nothing calls; screen
  types with more than 26 rows, for which the seat plan has no letters; the row `getPrice`
  returns, which swaps slot and day and of which only the price is used.
* NotificationService: the PDF, the user's data and addresses; a message that is not JSON
  (none is published); the graceful exit on an interrupt, which is a restart.
* UserService: clocks that differ between machines; the cryptography of tokens and hashes.
* gateway: how an answer is converted, except where a movie's conversion can fail; the schemas
  of requests. The routes, the calls behind them and their order are modelled.
* deploy: compose files, no program logic.
