------------------------------ MODULE Gateway ------------------------------
(***************************************************************************)
(* The gateway's routes in front of UserService.  A request behind the     *)
(* authentication middleware asks for a route; when the middleware lets it *)
(* through, the route's handler calls a method of an operator, and that    *)
(* calls a service.  UserService does what it is called for here; what     *)
(* the other services do is in the modules about them.                     *)
(*                                                                         *)
(* Routes are named after the operator's method.  Logging in and out are   *)
(* requests of their own, in Sessions.                                     *)
(***************************************************************************)
EXTENDS UserService

CONSTANT Asked  \* the methods whose routes are asked for

VARIABLES
  wish,     \* the route a request asks for
  handler,  \* where the handler behind the middleware is
  patched   \* pairs of a request and the user its updateUser has updated

gatewayVars == <<wish, handler, patched>>
allVars == <<vars, gatewayVars>>

---------------------------------------------------------------------------
(* The routes: open to everyone, to a user who is logged in, or to one with *)
(* a permission of a name.                                                  *)

Open(call) == [call |-> call, login |-> FALSE, needs |-> {}]
LoggedIn(call) == [call |-> call, login |-> TRUE, needs |-> {}]
Guarded(call, right) == [call |-> call, login |-> TRUE, needs |-> {right}]

UsersRouter == {Open("createUser"), LoggedIn("updateUser")}

SessionsRouter ==
  {LoggedIn("user"), LoggedIn("getBookingList"),
   LoggedIn("createPaymentTransaction"), LoggedIn("cancelPaymentTransaction")}

(* Mutant: whoever is logged in may rename a permission. *)
LooseUserPermissionsRouter ==
  {Guarded("createUserPermission", "user_permissions.manage"),
   Guarded("getUserPermissionList", "user_permissions.manage"),
   LoggedIn("updateUserPermission"),
   Guarded("deleteUserPermission", "user_permissions.manage")}

UserPermissionsRouter ==
  {Guarded("createUserPermission", "user_permissions.manage"),
   Guarded("getUserPermissionList", "user_permissions.manage"),
   Guarded("updateUserPermission", "user_permissions.manage"),
   Guarded("deleteUserPermission", "user_permissions.manage")}

MovieGenresRouter ==
  {Guarded("createMovieGenre", "movie_genres.manage"),
   Guarded("updateMovieGenre", "movie_genres.manage"),
   Guarded("deleteMovieGenre", "movie_genres.manage")}

MoviesRouter ==
  {Guarded("createMovie", "movies.manage"), Open("getMovie"),
   LoggedIn("searchMovieList"), Open("getCurrentShowingMovieList"),
   Open("getUpcomingMovieList"), Guarded("deleteMovie", "movies.manage")}

ScreenTypesRouter ==
  {Guarded("createScreenType", "screen_types.manage"),
   Guarded("deleteScreenType", "screen_types.manage")}

ScreensRouter ==
  {Guarded("createScreen", "screens.manage"),
   Guarded("deleteScreen", "screens.manage")}

TheatersRouter ==
  {Guarded("createTheater", "theaters.manage"), Open("getTheaterList"),
   Guarded("deleteTheater", "theaters.manage"), Open("getShowtimeListOfTheater"),
   Open("getShowtimeListOfTheaterByMovieId")}

ShowtimesRouter ==
  {Guarded("createShowtime", "showtimes.manage"), Open("getShowtimeMetadata"),
   LoggedIn("createBooking")}

(* The token of the roles' router is bound to the users' router: no route   *)
(* gives a role to a user, or a permission to a role.                       *)
Served ==
  UsersRouter \union SessionsRouter \union UsersRouter
    \union UserPermissionsRouter \union MovieGenresRouter \union MoviesRouter
    \union ScreenTypesRouter \union ScreensRouter \union TheatersRouter
    \union ShowtimesRouter

---------------------------------------------------------------------------
(* The operators: a method, and the call it makes; it throws when the call  *)
(* fails.                                                                   *)

Same(calls) == {<<c, c>> : c \in calls}

UserPermissionOperator ==
  Same({"createUserPermission", "getUserPermissionList", "updateUserPermission",
        "deleteUserPermission"})

MovieGenreOperator == Same({"createMovieGenre", "updateMovieGenre", "deleteMovieGenre"})

MovieOperator ==
  Same({"createMovie", "deleteMovie", "getMovie", "getCurrentShowingMovieList",
        "getUpcomingMovieList"})
    \union {<<"searchMovieList", "searchMovie">>}

ScreenTypeOperator == Same({"createScreenType", "deleteScreenType"})

ScreenOperator == Same({"createScreen", "deleteScreen"})

(* A theater is never deleted: the method calls for something else. *)
TheaterOperator ==
  Same({"createTheater", "getTheaterList"})
    \union {<<"deleteTheater", "deleteScreenType">>}

ShowtimeOperator == Same({"createShowtime", "getShowtimeMetadata"})

ShowtimeListOperator ==
  Same({"getShowtimeListOfTheater", "getShowtimeListOfTheaterByMovieId"})

BookingOperator == Same({"createBooking", "getBookingList"})

PaymentTransactionOperator ==
  Same({"createPaymentTransaction", "cancelPaymentTransaction"})

Calls ==
  UserPermissionOperator \union MovieGenreOperator \union MovieOperator
    \union ScreenTypeOperator \union ScreenOperator \union TheaterOperator
    \union ShowtimeOperator \union ShowtimeListOperator \union BookingOperator
    \union PaymentTransactionOperator

---------------------------------------------------------------------------
NoWish == Open("none")
HandlerStep == {"none", "calling", "password", "answered", "failed"}

GatewayTypeOK ==
  /\ TypeOK
  /\ wish \in [Requests -> Served \union {NoWish}]
  /\ handler \in [Requests -> HandlerStep]
  /\ patched \subseteq Requests \X Users

GatewayInit ==
  /\ Init
  /\ wish = [q \in Requests |-> NoWish]
  /\ handler = [q \in Requests |-> "none"]
  /\ patched = {}

(* A route whose permission no row can have is left out. *)
VisitRoute(q, b, route) ==
  /\ route.login
  /\ route.call \in Asked
  /\ route.needs \subseteq PermissionNames
  /\ Visit(q, b, route.needs)
  /\ wish' = [wish EXCEPT ![q] = route]
  /\ UNCHANGED <<handler, patched>>

(* Mutant: the handler runs for the refused, too. *)
MiddlewareCallsNextAlways(q) ==
  /\ RequestStepOf(q)
  /\ handler' = IF /\ request[q].kind = "visit"
                   /\ request'[q].step \in {"done", "forbidden"}
                THEN [handler EXCEPT ![q] = "calling"] ELSE handler
  /\ UNCHANGED <<wish, patched>>

(* When the middleware lets a visit through it calls next. *)
MiddlewareStep(q) ==
  /\ RequestStepOf(q)
  /\ handler' = IF request[q].kind = "visit" /\ request'[q].step = "done"
                THEN [handler EXCEPT ![q] = "calling"] ELSE handler
  /\ UNCHANGED <<wish, patched>>

---------------------------------------------------------------------------
(* The handlers *)

Handling(q, call) == handler[q] = "calling" /\ wish[q].call = call

(* The answer may be lost when the call has done its part. *)
HandlerEnds(q) ==
  \E end \in {"answered", "failed"} : handler' = [handler EXCEPT ![q] = end]

PermissionCalls ==
  {"createUserPermission", "updateUserPermission", "deleteUserPermission"}

CallForPermission(q) ==
  /\ \E p \in Permissions :
       \/ /\ Handling(q, "createUserPermission")
          /\ \E n \in PermissionNames : CreateUserPermission(p, n)
       \/ /\ Handling(q, "updateUserPermission")
          /\ \E n \in PermissionNames : UpdateUserPermission(p, n)
       \/ /\ Handling(q, "deleteUserPermission")
          /\ DeleteUserPermission(p)
  /\ HandlerEnds(q)
  /\ UNCHANGED <<wish, patched>>

(* Mutant: the user and the request are taken for one another. *)
CallUpdateUserSwapped(q) ==
  /\ Handling(q, "updateUser")
  /\ \E u \in Users, n \in Usernames :
       UpdateUser(u, n) /\ patched' = patched \union {<<u, q>>}
  /\ HandlerEnds(q) \/ handler' = [handler EXCEPT ![q] = "password"]
  /\ UNCHANGED wish

(* updateUser: the user of the path is updated, then its password if the    *)
(* request has one.                                                         *)
CallUpdateUser(q) ==
  /\ Handling(q, "updateUser")
  /\ \E u \in Users, n \in Usernames :
       UpdateUser(u, n) /\ patched' = patched \union {<<q, u>>}
  /\ HandlerEnds(q) \/ handler' = [handler EXCEPT ![q] = "password"]
  /\ UNCHANGED wish

CallUpdateUserPassword(q) ==
  /\ handler[q] = "password"
  /\ \E u \in Users, w \in Passwords :
       <<q, u>> \in patched /\ UpdateUserPassword(u, w)
  /\ HandlerEnds(q)
  /\ UNCHANGED <<wish, patched>>

(* What is read, or done by another service. *)
CallElsewhere(q) ==
  /\ handler[q] = "calling"
  /\ wish[q].call \notin PermissionCalls \union {"updateUser"}
  /\ HandlerEnds(q)
  /\ UNCHANGED <<vars, wish, patched>>

CallRefused(q) ==
  /\ handler[q] \in {"calling", "password"}
  /\ handler' = [handler EXCEPT ![q] = "failed"]
  /\ UNCHANGED <<vars, wish, patched>>

---------------------------------------------------------------------------
(* createUser needs nobody to be logged in. *)
CreateUserStep ==
  \E u \in Users :
    \/ CreateUser(u)
    \/ RefuseUser(u)
    \/ \E w \in Passwords : CreateUserPassword(u, w)
    \/ RefusePassword(u)

SessionStart(q, b) ==
  \/ \E l \in Logins : LoginWithPassword(q, b, l[1], l[2])
  \/ Logout(q, b)

(* What goes on without the routes above. *)
ServiceStep ==
  /\ \/ /\ CreateUserStep \/ JobStepping
        /\ UNCHANGED <<sessionVars, faults>>
     \/ /\ \/ ProcessStepping
           \/ \E q \in Requests, b \in Browsers : SessionStart(q, b)
           \/ \E q \in Requests : RevocationStepOf(q)
        /\ UNCHANGED <<accountVars, faults>>
     \/ Fault
  /\ UNCHANGED gatewayVars

RouteStep ==
  /\ \E q \in Requests :
       \/ \E b \in Browsers, route \in Served : VisitRoute(q, b, route)
       \/ MiddlewareStep(q)
  /\ UNCHANGED <<accountVars, faults>>

UserServiceCall ==
  /\ \E q \in Requests :
       CallForPermission(q) \/ CallUpdateUser(q) \/ CallUpdateUserPassword(q)
  /\ UNCHANGED <<sessionVars, faults>>

GatewayNext ==
  \/ (ServiceStep \/ RouteStep \/ UserServiceCall) /\ Watch
  \/ \E q \in Requests : CallElsewhere(q) \/ CallRefused(q)

GatewaySpec == GatewayInit /\ [][GatewayNext]_allVars

---------------------------------------------------------------------------
(* Properties *)

(* The permissions of which one at least a user must hold for a call to be  *)
(* made.  deleteScreenType deletes a screen: MovieService's handler calls   *)
(* deleteScreen.  So a screen may be deleted with any of three.             *)
RightsFor(call) ==
  CASE call \in PermissionCalls \union {"getUserPermissionList"} ->
         {"user_permissions.manage"}
    [] call \in {"createMovieGenre", "updateMovieGenre", "deleteMovieGenre"} ->
         {"movie_genres.manage"}
    [] call \in {"createMovie", "deleteMovie"} -> {"movies.manage"}
    [] call = "createScreenType" -> {"screen_types.manage"}
    [] call \in {"createScreen", "deleteScreen"} -> {"screens.manage"}
    [] call = "deleteScreenType" ->
         {"screens.manage", "screen_types.manage", "theaters.manage"}
    [] call = "createTheater" -> {"theaters.manage"}
    [] call = "createShowtime" -> {"showtimes.manage"}
    [] OTHER -> {}

(* A handler makes a call that changes the programme, the theaters or the   *)
(* permissions only for a user who held a permission for it while the       *)
(* middleware looked, or lost a role meanwhile: whichever requests, renamed *)
(* and deleted permissions go on at the same time.                          *)
ChangedOnlyWithRight ==
  \A q \in Requests : \A c \in Calls :
    handler[q] # "none" /\ c[1] = wish[q].call /\ RightsFor(c[2]) # {} =>
      RightsFor(c[2]) \intersect watch[q].held # {} \/ watch[q].lost

(* Nobody holds the permission to manage permissions, and no handler that   *)
(* was let in with it is still to call.                                     *)
LockedOut ==
  /\ \A j \in Jobs : job[j].step \in {"done", "skipped", "failed"}
  /\ "user_permissions.manage" \notin NamesOf(Roles)
  /\ \A q \in Requests : handler[q] = "calling" => wish[q].call \notin PermissionCalls

(* Once the last such permission is deleted or renamed there is no way back *)
(* through the gateway: no permission and no link ever changes again.       *)
LockedOutForGood ==
  [][LockedOut =>
       /\ LockedOut'
       /\ UNCHANGED <<links, permissionName>>
       /\ rows' \intersect Permissions = rows \intersect Permissions]_allVars
============================================================================
