---------------------------- MODULE GatewayProofs ----------------------------
(***************************************************************************)
(* The gateway's routes, for every set of users, permissions, requests and *)
(* routes and every bound: what they do is what UserService lets anybody   *)
(* do, so its invariants hold behind them; and who is let in.              *)
(***************************************************************************)
EXTENDS Gateway, UserServiceProofs

---------------------------------------------------------------------------
(* The gateway adds no step to UserService *)

LEMMA RouteSteps ==
  ASSUME NEW q \in Requests, MiddlewareStep(q) \/ \E b \in Browsers, r \in Served : VisitRoute(q, b, r)
  PROVE  RequestStart \/ \E p \in Requests : RequestStepOf(p)
<1>1. CASE MiddlewareStep(q)
  BY <1>1 DEF MiddlewareStep
<1>2. ASSUME NEW b \in Browsers, NEW r \in Served, VisitRoute(q, b, r)
      PROVE  RequestStart
  <2>1. r.needs \in SUBSET PermissionNames /\ Visit(q, b, r.needs)
    BY <1>2 DEF VisitRoute
  <2>2. QED
    BY <2>1 DEF RequestStart
<1>3. QED
  BY <1>1, <1>2

LEMMA CallSteps ==
  ASSUME NEW q \in Requests,
         CallForPermission(q) \/ CallUpdateUser(q) \/ CallUpdateUserPassword(q)
  PROVE  RoleStepping \/ UserStepping
  BY DEF CallForPermission, CallUpdateUser, CallUpdateUserPassword, RoleStepping, UserStepping

LEMMA GatewayStepIsStep == [GatewayNext]_allVars => [Next]_vars
<1> SUFFICES ASSUME [GatewayNext]_allVars PROVE [Next]_vars
  OBVIOUS
<1>1. CASE ServiceStep /\ Watch
  <2>1. CASE (CreateUserStep \/ JobStepping) /\ UNCHANGED <<sessionVars, faults>>
    BY <1>1, <2>1 DEF CreateUserStep, UserStepping, AccountStep, Next
  <2>2. CASE /\ \/ ProcessStepping
                \/ \E q \in Requests, b \in Browsers : SessionStart(q, b)
                \/ \E q \in Requests : RevocationStepOf(q)
             /\ UNCHANGED <<accountVars, faults>>
    BY <1>1, <2>2 DEF SessionStart, RequestStart, SessionStep, Next
  <2>3. CASE Fault
    BY <1>1, <2>3 DEF Next
  <2>4. QED
    BY <1>1, <2>1, <2>2, <2>3 DEF ServiceStep
<1>2. CASE RouteStep /\ Watch
  BY <1>2, RouteSteps DEF RouteStep, SessionStep, Next
<1>3. CASE UserServiceCall /\ Watch
  BY <1>3, CallSteps DEF UserServiceCall, AccountStep, Next
<1>4. CASE \E q \in Requests : CallElsewhere(q) \/ CallRefused(q)
  BY <1>4 DEF CallElsewhere, CallRefused, vars
<1>5. CASE UNCHANGED allVars
  BY <1>5 DEF allVars, vars
<1>6. QED
  BY <1>1, <1>2, <1>3, <1>4, <1>5 DEF GatewayNext

(* Whatever the routes, the middleware and the handlers behind it do is a    *)
(* behaviour of UserService and its callers, so everything proved of it      *)
(* holds behind the gateway (the gateway's routes and operators).            *)
THEOREM GatewayIsUserService == GatewaySpec => Spec
<1>1. GatewayInit => Init
  BY DEF GatewayInit
<1>2. QED
  BY <1>1, GatewayStepIsStep, PTL DEF GatewaySpec, Spec

LEMMA ServiceHolds == GatewaySpec => []IInv
  BY GatewayIsUserService, Inductive

---------------------------------------------------------------------------
(* The invariant of the routes *)

(* A visit has what its route asks for; only a logout is answered while its  *)
(* token is still good; and a handler runs behind a visit that was let in    *)
(* with the permissions of its route.                                        *)
VisitOK(q) ==
  /\ request[q].step \in {"leaving", "answered"} => request[q].kind = "logout"
  /\ request[q].kind = "visit" =>
       /\ wish[q] \in Served
       /\ wish[q].needs = request[q].needs
       /\ request[q].step = "done" => request[q].needs \subseteq request[q].granted

RouteOK(q) ==
  /\ Stored(q) => VisitOK(q)
  /\ handler[q] # "none" =>
       Stored(q) /\ request[q].kind = "visit" /\ request[q].step = "done"

RouteInv == \A q \in Requests : RouteOK(q)

(* What a step leaves of a request that is under way.                        *)
UnderWay(q) ==
  /\ Stored(q) /\ Stored(q)'
  /\ request[q].step # "done"
  /\ request'[q].kind = request[q].kind
  /\ request'[q].needs = request[q].needs

(* How a request comes to its last steps.                                    *)
Ends(q) ==
  \/ request'[q].step \notin {"leaving", "answered", "done"}
  \/ /\ request'[q].granted = NamesOf(request[q].roles)
     /\ request[q].needs \subseteq request'[q].granted
     /\ request'[q].step \in {"leaving", "answered"} => request[q].kind = "logout"
  \/ request[q].step \in {"leaving", "answered"}

LEMMA StepEnds ==
  ASSUME Sound, NEW q \in Requests, Stored(q), request[q].step # "done",
         NEW s \in RequestStep,
         request' = [request EXCEPT ![q].step = s],
         \/ s \notin {"leaving", "answered", "done"}
         \/ request[q].step \in {"leaving", "answered"}
  PROVE  /\ UnderWay(q) /\ Ends(q)
         /\ \A p \in Requests \ {q} : request'[p] = request[p]
<1>1. request[q] \in RequestRow
  BY StoredRow DEF Sound
<1>2. /\ request'[q] = [request[q] EXCEPT !.step = s]
      /\ \A p \in Requests \ {q} : request'[p] = request[p]
  BY DEF Sound, SessionRows
<1>3. s # "idle"
  BY DEF RequestStep, Refusals
<1>4. QED
  BY <1>1, <1>2, <1>3 DEF RequestRow, UnderWay, Ends, Stored

LEMMA RequestStepEnds ==
  ASSUME Sound, NEW q \in Requests,
         RequestStepOf(q) \/ RequestFails(q) \/ KeyReadFails(q)
  PROVE  /\ UnderWay(q) /\ Ends(q)
         /\ \A p \in Requests \ {q} : request'[p] = request[p]
<1>1. Stored(q) /\ request[q].step # "done"
  BY DEF RequestStepOf, Stored, ReadUsername, ReadHash, ComparePassword, RequestTo,
         IncorrectPassword, Decode, RefuseToken, CheckBlacklist, RefuseBlacklisted,
         ReadUser, RenewToken, ReadRoleIds, Authorize, BlacklistToken, ClearCookie,
         RequestFails, KeyReadFails, Active
<1>2. request[q] \in RequestRow
  BY <1>1, StoredRow DEF Sound
<1>3. CASE \/ ReadUsername(q) \/ Decode(q) \/ CheckBlacklist(q) \/ ReadUser(q)
           \/ IncorrectPassword(q) \/ RefuseToken(q) \/ RefuseBlacklisted(q)
           \/ RequestFails(q) \/ KeyReadFails(q)
  <2>1. PICK s \in RequestStep \ {"leaving", "answered", "done"} :
          request' = [request EXCEPT ![q].step = s]
    BY <1>3 DEF ReadUsername, Decode, CheckBlacklist, ReadUser, IncorrectPassword,
                RefuseToken, RefuseBlacklisted, RequestFails, KeyReadFails, Refuse,
                RequestTo, RequestStep, Refusals
  <2>2. QED
    BY <1>1, <2>1, StepEnds
<1>4. CASE BlacklistToken(q) \/ ClearCookie(q)
  <2>1. PICK s \in RequestStep :
          /\ request' = [request EXCEPT ![q].step = s]
          /\ request[q].step \in {"leaving", "answered"}
    BY <1>4 DEF BlacklistToken, ClearCookie, RequestTo, RequestStep, Refusals
  <2>2. QED
    BY <1>1, <2>1, StepEnds
<1>5. CASE ReadHash(q)
  <2> DEFINE w == password[request[q].user]
  <2>1. PICK s \in {"failed", "comparing"} :
          request' = [request EXCEPT ![q].step = s, ![q].hash = w]
    BY <1>5 DEF ReadHash
  <2> HIDE DEF w
  <2>2. /\ request'[q] = [request[q] EXCEPT !.step = s, !.hash = w]
        /\ \A p \in Requests \ {q} : request'[p] = request[p]
    BY <2>1 DEF Sound, SessionRows
  <2>3. QED
    BY <1>1, <1>2, <2>2 DEF RequestRow, UnderWay, Ends, Stored
<1>6. CASE ReadRoleIds(q)
  <2>1. PICK R : request' = [request EXCEPT ![q].step = "permissions", ![q].roles = R]
    BY <1>6 DEF ReadRoleIds
  <2>2. /\ request'[q] = [request[q] EXCEPT !.step = "permissions", !.roles = R]
        /\ \A p \in Requests \ {q} : request'[p] = request[p]
    BY <2>1 DEF Sound, SessionRows
  <2>3. QED
    BY <1>1, <1>2, <2>2 DEF RequestRow, UnderWay, Ends, Stored
<1>7. CASE \E t, i \in Tokens : ComparePassword(q, t, i) \/ RenewToken(q, t, i)
  <2>1. PICK t \in Tokens : request' = [request EXCEPT ![q].step = "roles", ![q].renewed = t]
    BY <1>7 DEF ComparePassword, RenewToken
  <2>2. /\ request'[q] = [request[q] EXCEPT !.step = "roles", !.renewed = t]
        /\ \A p \in Requests \ {q} : request'[p] = request[p]
    BY <2>1 DEF Sound, SessionRows
  <2>3. QED
    BY <1>1, <1>2, <2>2 DEF RequestRow, UnderWay, Ends, Stored
<1>8. CASE Authorize(q)
  <2> DEFINE G == NamesOf(request[q].roles)
  <2>1. PICK s \in {"forbidden", "leaving", "done"} :
          /\ request' = [request EXCEPT ![q].granted = G, ![q].step = s]
          /\ s = "leaving" => request[q].kind = "logout"
          /\ s # "forbidden" => request[q].needs \subseteq G
    BY <1>8 DEF Authorize
  <2> HIDE DEF G
  <2>2. /\ request'[q] = [request[q] EXCEPT !.granted = G, !.step = s]
        /\ \A p \in Requests \ {q} : request'[p] = request[p]
    BY <2>1 DEF Sound, SessionRows
  <2>3. /\ request'[q].step = s /\ request'[q].granted = G
        /\ request'[q].kind = request[q].kind /\ request'[q].needs = request[q].needs
    BY <1>2, <2>2 DEF RequestRow
  <2>4. UnderWay(q)
    BY <1>1, <2>3 DEF UnderWay, Stored
  <2>5. Ends(q)
    BY <2>1, <2>3 DEF Ends, G
  <2>6. QED
    BY <2>2, <2>4, <2>5
<1>9. QED
  BY <1>3, <1>4, <1>5, <1>6, <1>7, <1>8 DEF RequestStepOf

(* A login or a logout begins.                                               *)
StartsNoVisit(q) ==
  /\ ~ Stored(q)
  /\ request'[q].kind # "visit"
  /\ request'[q].step \notin {"leaving", "answered", "done"}

Goes(q) ==
  \/ request'[q] = request[q]
  \/ UnderWay(q) /\ Ends(q)
  \/ StartsNoVisit(q)

LEMMA GoesWell ==
  ASSUME NEW q \in Requests, RouteOK(q), Goes(q), wish'[q] = wish[q],
         handler'[q] = handler[q] \/ handler[q] # "none"
  PROVE  RouteOK(q)'
<1>1. CASE request'[q] = request[q]
  BY <1>1 DEF RouteOK, VisitOK, Stored
<1>2. CASE UnderWay(q) /\ Ends(q)
  BY <1>2 DEF UnderWay, Ends, RouteOK, VisitOK, Stored
<1>3. CASE StartsNoVisit(q)
  BY <1>3 DEF StartsNoVisit, RouteOK, VisitOK, Stored
<1>4. QED
  BY <1>1, <1>2, <1>3 DEF Goes

(* Whatever goes on without the routes.                                      *)
LEMMA ServiceGoes ==
  ASSUME Sound, ServiceStep, NEW q \in Requests
  PROVE  Goes(q)
<1>1. CASE UNCHANGED request
  BY <1>1 DEF Goes
<1>2. ASSUME NEW c \in Processes, ServerRestarts(c) PROVE Goes(q)
  <2>1. CASE Active(q)
    <3>1. Stored(q) /\ request[q] \in RequestRow
      BY <2>1, StoredRow DEF Sound, Active, Stored
    <3>2. request'[q] = [request[q] EXCEPT !.step = "failed"]
      BY <1>2, <2>1 DEF ServerRestarts
    <3>3. QED
      BY <2>1, <3>1, <3>2 DEF RequestRow, Goes, UnderWay, Ends, Stored, Active
  <2>2. CASE ~ Active(q)
    BY <1>2, <2>2 DEF ServerRestarts, Goes
  <2>3. QED
    BY <2>1, <2>2
<1>3. ASSUME NEW p \in Requests, NEW b \in Browsers, SessionStart(p, b) PROVE Goes(q)
  <2> DEFINE New(row) == row.step \in {"name", "decoding"} /\ row.kind \in {"login", "logout"}
  <2>1. PICK row : New(row) /\ Start(p, row)
    <3>1. \A u, w, t : /\ New(NewRequest("login", b, u, w, t, {}))
                       /\ New(NewRequest("logout", b, u, w, t, {}))
      BY DEF NewRequest
    <3>2. QED
      BY <1>3, <3>1 DEF SessionStart, LoginWithPassword, Logout
  <2>2. CASE p = q
    <3>1. request[q] = Idle /\ request'[q] = row
      BY <2>1, <2>2 DEF Start, Sound, SessionRows
    <3>2. QED
      BY <2>1, <3>1 DEF Goes, StartsNoVisit, Idle, Stored
  <2>3. CASE p # q
    BY <2>1, <2>3 DEF Start, Sound, SessionRows, Goes
  <2>4. QED
    BY <2>2, <2>3
<1>4. ASSUME NEW p \in Requests, RequestFails(p) \/ KeyReadFails(p) PROVE Goes(q)
  BY <1>4, RequestStepEnds DEF Goes
<1>5. ASSUME NEW p \in Requests, RevocationStepOf(p) \/ RevocationFails(p)
      PROVE  UNCHANGED request
  BY <1>5 DEF RevocationStepOf, DecodeToRevoke, CreateBlacklistedToken, RevocationFails,
              RevocationTo
<1>6. CASE ProcessStepping
  BY <1>1, <1>2, <1>6 DEF ProcessStepping, Tick, DeleteExpiredBlacklistedTokenJob,
                          DeleteExpiredBlacklistedToken
<1>7. CASE Fault
  BY <1>1, <1>4, <1>5, <1>7 DEF Fault, SessionFault, sessionVars
<1>8. QED
  BY <1>1, <1>3, <1>5, <1>6, <1>7 DEF ServiceStep, sessionVars

LEMMA VisitRouteGoes ==
  ASSUME Sound, GatewayTypeOK, NEW q \in Requests, NEW b \in Browsers, NEW r \in Served,
         VisitRoute(q, b, r), RouteInv
  PROVE  RouteInv'
<1>1. /\ request[q] = Idle
      /\ request'[q].step = "decoding" /\ request'[q].kind = "visit"
      /\ request'[q].needs = r.needs
      /\ \A p \in Requests \ {q} : request'[p] = request[p]
  BY DEF VisitRoute, Visit, Start, NewRequest, Sound, SessionRows
<1>2. wish'[q] = r /\ \A p \in Requests \ {q} : wish'[p] = wish[p]
  BY DEF VisitRoute, GatewayTypeOK
<1>3. handler' = handler
  BY DEF VisitRoute
<1>4. RouteOK(q)'
  BY <1>1, <1>2, <1>3 DEF RouteInv, RouteOK, VisitOK, Stored, Idle
<1>5. ASSUME NEW p \in Requests \ {q} PROVE RouteOK(p)'
  BY <1>1, <1>2, <1>3, GoesWell DEF RouteInv, Goes
<1>6. QED
  BY <1>4, <1>5 DEF RouteInv

LEMMA MiddlewareGoes ==
  ASSUME Sound, GatewayTypeOK, NEW q \in Requests, MiddlewareStep(q), RouteInv
  PROVE  RouteInv'
<1>1. /\ UnderWay(q) /\ Ends(q)
      /\ \A p \in Requests \ {q} : request'[p] = request[p]
  BY RequestStepEnds DEF MiddlewareStep
<1>2. /\ wish' = wish
      /\ \A p \in Requests \ {q} : handler'[p] = handler[p]
      /\ handler'[q] = IF request[q].kind = "visit" /\ request'[q].step = "done"
                       THEN "calling" ELSE handler[q]
  BY DEF MiddlewareStep, GatewayTypeOK
<1>3. RouteOK(q)'
  <2>1. CASE handler'[q] = handler[q]
    BY <1>1, <1>2, <2>1, GoesWell DEF RouteInv, Goes
  <2>2. CASE request[q].kind = "visit" /\ request'[q].step = "done"
    BY <1>1, <1>2, <2>2 DEF RouteInv, RouteOK, VisitOK, UnderWay, Ends, Stored
  <2>3. QED
    BY <1>2, <2>1, <2>2
<1>4. ASSUME NEW p \in Requests \ {q} PROVE RouteOK(p)'
  BY <1>1, <1>2, GoesWell DEF RouteInv, Goes
<1>5. QED
  BY <1>3, <1>4 DEF RouteInv

(* A handler goes on only behind a visit that was let in.                    *)
LEMMA HandlerGoes ==
  ASSUME RouteInv, UNCHANGED <<request, wish>>,
         \A q \in Requests : handler'[q] = handler[q] \/ handler[q] # "none"
  PROVE  RouteInv'
  BY GoesWell DEF RouteInv, Goes

LEMMA CallGoes ==
  ASSUME GatewayTypeOK, NEW q \in Requests,
         \/ CallForPermission(q) \/ CallUpdateUser(q) \/ CallUpdateUserPassword(q)
         \/ CallElsewhere(q) \/ CallRefused(q)
  PROVE  /\ wish' = wish
         /\ handler' \in [Requests -> HandlerStep]
         /\ handler[q] \in {"calling", "password"} /\ handler'[q] # "calling"
         /\ \A p \in Requests \ {q} : handler'[p] = handler[p]
  BY DEF CallForPermission, CallUpdateUser, CallUpdateUserPassword, CallElsewhere,
         CallRefused, HandlerEnds, Handling, GatewayTypeOK, HandlerStep

LEMMA RouteNext ==
  IInv /\ GatewayTypeOK /\ RouteInv /\ [GatewayNext]_allVars => RouteInv'
<1> SUFFICES ASSUME IInv, GatewayTypeOK, RouteInv, [GatewayNext]_allVars
             PROVE  RouteInv'
  OBVIOUS
<1>1. Sound
  BY DEF IInv
<1>2. CASE ServiceStep
  <2>1. wish' = wish /\ handler' = handler
    BY <1>2 DEF ServiceStep, gatewayVars
  <2>2. QED
    BY <1>1, <1>2, <2>1, ServiceGoes, GoesWell DEF RouteInv
<1>3. CASE RouteStep
  BY <1>1, <1>3, VisitRouteGoes, MiddlewareGoes DEF RouteStep
<1>4. CASE UserServiceCall
  <2>1. request' = request
    BY <1>4 DEF UserServiceCall, sessionVars
  <2>2. QED
    BY <1>4, <2>1, CallGoes, HandlerGoes DEF UserServiceCall
<1>5. CASE \E q \in Requests : CallElsewhere(q) \/ CallRefused(q)
  <2>1. request' = request
    BY <1>5 DEF CallElsewhere, CallRefused, vars, sessionVars
  <2>2. QED
    BY <1>5, <2>1, CallGoes, HandlerGoes
<1>6. CASE UNCHANGED allVars
  BY <1>6, HandlerGoes DEF allVars, vars, sessionVars, gatewayVars
<1>7. QED
  BY <1>2, <1>3, <1>4, <1>5, <1>6 DEF GatewayNext

---------------------------------------------------------------------------
(* Types *)

LEMMA ServiceTypes == IInv => TypeOK
  BY DEF IInv, Accounted, Sound, SessionRows, WatchType, FaultsType, TypeOK, SessionTypeOK

LEMMA GatewayTypesNext ==
  IInv' /\ GatewayTypeOK /\ [GatewayNext]_allVars => GatewayTypeOK'
<1> SUFFICES ASSUME IInv', GatewayTypeOK, [GatewayNext]_allVars PROVE GatewayTypeOK'
  OBVIOUS
<1>1. TypeOK'
  BY ServiceTypes, PTL
<1> DEFINE Typed == /\ wish \in [Requests -> Served \union {NoWish}]
                    /\ handler \in [Requests -> HandlerStep]
                    /\ patched \subseteq Requests \X Users
<1>2. Typed
  BY DEF GatewayTypeOK
<1>3. Typed'
  <2>1. CASE UNCHANGED gatewayVars
    BY <1>2, <2>1 DEF gatewayVars
  <2>2. ASSUME NEW q \in Requests, NEW b \in Browsers, NEW r \in Served, VisitRoute(q, b, r)
        PROVE  Typed'
    BY <1>2, <2>2 DEF VisitRoute
  <2>3. ASSUME NEW q \in Requests, MiddlewareStep(q) PROVE Typed'
    BY <1>2, <2>3 DEF MiddlewareStep, HandlerStep
  <2>4. CASE UserServiceCall
    <3>1. patched' \subseteq Requests \X Users
      BY <1>2, <2>4 DEF UserServiceCall, CallForPermission, CallUpdateUser,
                        CallUpdateUserPassword
    <3>2. QED
      BY <1>2, <2>4, <3>1, CallGoes DEF UserServiceCall
  <2>5. CASE \E q \in Requests : CallElsewhere(q) \/ CallRefused(q)
    BY <1>2, <2>5, CallGoes DEF CallElsewhere, CallRefused
  <2>6. QED
    BY <2>1, <2>2, <2>3, <2>4, <2>5 DEF GatewayNext, ServiceStep, RouteStep, allVars
<1>4. QED
  BY <1>1, <1>3 DEF GatewayTypeOK

GatewayIInv == IInv /\ GatewayTypeOK /\ RouteInv

(* The inductive invariant of the gateway in front of UserService.           *)
THEOREM GatewayInductive == GatewaySpec => []GatewayIInv
<1>1. GatewayInit => GatewayTypeOK /\ RouteInv
  <2> SUFFICES ASSUME GatewayInit PROVE GatewayTypeOK /\ RouteInv
    OBVIOUS
  <2>1. IInv
    BY InvInitially DEF GatewayInit
  <2>2. GatewayTypeOK
    BY <2>1, ServiceTypes DEF GatewayInit, GatewayTypeOK, HandlerStep
  <2>3. RouteInv
    BY DEF GatewayInit, Init, SessionInit, Idle, RouteInv, RouteOK, Stored
  <2>4. QED
    BY <2>2, <2>3
<1>2. QED
  BY <1>1, ServiceHolds, RouteNext, GatewayTypesNext, PTL DEF GatewaySpec, GatewayIInv

(* Every variable of the gateway keeps its type: only a request and a user   *)
(* it has updated are ever paired (updateUser and its second call), whatever *)
(* requests and handlers go on at one time.                                  *)
THEOREM GatewayTypesHold == GatewaySpec => []GatewayTypeOK
<1>1. GatewayIInv => GatewayTypeOK
  BY DEF GatewayIInv
<1>2. QED
  BY <1>1, GatewayInductive, PTL

---------------------------------------------------------------------------
(* Who is let in *)

(* A call is made only on routes that ask for a permission for it.           *)
RouteIsGuarded(route) ==
  \A c \in Calls : c[1] = route.call /\ RightsFor(c[2]) # {} =>
                     RightsFor(c[2]) \intersect route.needs # {}

(* A method calls for what it is named after, but for two.                   *)
LEMMA CallsByName ==
  ASSUME NEW c \in Calls
  PROVE  \/ c[2] = c[1]
         \/ c[1] = "searchMovieList" /\ c[2] = "searchMovie"
         \/ c[1] = "deleteTheater" /\ c[2] = "deleteScreenType"
<1>1. \A S : \A d \in Same(S) : d[2] = d[1]
  BY DEF Same
<1>2. ASSUME c \in MovieOperator, c[2] # c[1]
      PROVE  c[1] = "searchMovieList" /\ c[2] = "searchMovie"
  BY <1>1, <1>2 DEF MovieOperator
<1>3. ASSUME c \in TheaterOperator, c[2] # c[1]
      PROVE  c[1] = "deleteTheater" /\ c[2] = "deleteScreenType"
  BY <1>1, <1>3 DEF TheaterOperator
<1>4. QED
  BY <1>1, <1>2, <1>3 DEF Calls, UserPermissionOperator, MovieGenreOperator,
     ScreenTypeOperator, ScreenOperator, ShowtimeOperator, ShowtimeListOperator,
     BookingOperator, PaymentTransactionOperator

LEMMA GuardedIsEnough ==
  ASSUME NEW route,
         RightsFor(route.call) # {} => RightsFor(route.call) \intersect route.needs # {},
         route.call = "deleteTheater" => "theaters.manage" \in route.needs
  PROVE  RouteIsGuarded(route)
<1>1. RightsFor("searchMovie") = {}
  BY DEF RightsFor, PermissionCalls
<1>2. RightsFor("deleteScreenType")
        = {"screens.manage", "screen_types.manage", "theaters.manage"}
  BY DEF RightsFor, PermissionCalls
<1>3. QED
  BY <1>1, <1>2, CallsByName DEF RouteIsGuarded

LEMMA GuardedRoutes == \A route \in Served : RouteIsGuarded(route)
<1>1. \A route \in UsersRouter : RouteIsGuarded(route)
  BY GuardedIsEnough DEF UsersRouter, Open, LoggedIn, RightsFor, PermissionCalls
<1>2. \A route \in SessionsRouter : RouteIsGuarded(route)
  BY GuardedIsEnough DEF SessionsRouter, LoggedIn, RightsFor, PermissionCalls
<1>3. \A route \in UserPermissionsRouter : RouteIsGuarded(route)
  BY GuardedIsEnough DEF UserPermissionsRouter, Guarded, RightsFor, PermissionCalls
<1>4. \A route \in MovieGenresRouter : RouteIsGuarded(route)
  BY GuardedIsEnough DEF MovieGenresRouter, Guarded, RightsFor, PermissionCalls
<1>5. \A route \in MoviesRouter : RouteIsGuarded(route)
  BY GuardedIsEnough DEF MoviesRouter, Open, LoggedIn, Guarded, RightsFor, PermissionCalls
<1>6. \A route \in ScreenTypesRouter \union ScreensRouter : RouteIsGuarded(route)
  BY GuardedIsEnough
     DEF ScreenTypesRouter, ScreensRouter, Guarded, RightsFor, PermissionCalls
<1>7. \A route \in TheatersRouter : RouteIsGuarded(route)
  BY GuardedIsEnough DEF TheatersRouter, Open, Guarded, RightsFor, PermissionCalls
<1>8. \A route \in ShowtimesRouter : RouteIsGuarded(route)
  BY GuardedIsEnough DEF ShowtimesRouter, Open, LoggedIn, Guarded, RightsFor, PermissionCalls
<1>9. QED
  BY <1>1, <1>2, <1>3, <1>4, <1>5, <1>6, <1>7, <1>8 DEF Served

(* A handler makes a call that changes the programme, the theaters or the    *)
(* permissions only for a user who held a permission for it while the        *)
(* middleware looked, or lost a role meanwhile (the routers, the middleware  *)
(* and the operators, under every interleaving with UserService).            *)
THEOREM ChangesNeedARight == GatewaySpec => []ChangedOnlyWithRight
<1>1. GatewayIInv => ChangedOnlyWithRight
  <2> SUFFICES ASSUME GatewayIInv,
                      NEW q \in Requests, NEW c \in Calls,
                      handler[q] # "none", c[1] = wish[q].call, RightsFor(c[2]) # {}
               PROVE  RightsFor(c[2]) \intersect watch[q].held # {} \/ watch[q].lost
    BY DEF ChangedOnlyWithRight
  <2>1. /\ Stored(q)
        /\ wish[q] \in Served
        /\ wish[q].needs \subseteq request[q].granted
    BY DEF GatewayIInv, RouteInv, RouteOK, VisitOK
  <2>2. RightsFor(c[2]) \intersect wish[q].needs # {}
    BY <2>1, GuardedRoutes DEF RouteIsGuarded
  <2>3. request[q].granted \subseteq watch[q].held \/ watch[q].lost
    BY <2>1 DEF GatewayIInv, IInv, GrantInv, GrantOK
  <2>4. QED
    BY <2>1, <2>2, <2>3
<1>2. QED
  BY <1>1, GatewayInductive, PTL

---------------------------------------------------------------------------
(* Nobody left to manage permissions *)

Ended(j) == job[j].step \in {"done", "skipped", "failed"}

PermissionsKept ==
  /\ UNCHANGED <<links, permissionName>>
  /\ rows' \intersect Permissions = rows \intersect Permissions

LEMMA EndedJobsRest ==
  ASSUME NEW j \in Jobs, Ended(j)
  PROVE  ~ JobFails(j) /\ ~ \E k \in {j} :
           \/ StartJob(k) \/ CountUsers(k) \/ CountRoles(k) \/ CountPermissions(k)
           \/ CreateFirstUser(k)
           \/ \E w \in Passwords : CreateFirstPassword(k, w)
           \/ \E r \in Roles : CreateFirstRole(k, r) \/ LinkFirstRole(k, r)
           \/ \E p \in Permissions : CreateFirstPermission(k, p)
           \/ \E r \in Roles : GrantFirstPermission(k, r)
           \/ JobRefused(k)
  BY DEF Ended, JobFails, StartJob, CountUsers, CountRoles, CountPermissions, JobReads,
         JobTo, CreateFirstUser, CreateFirstPassword, CreateFirstRole, LinkFirstRole,
         CreateFirstPermission, GrantFirstPermission, JobRefused, FirstRefused

(* Users come without touching a permission. *)
LEMMA UserComes ==
  ASSUME NEW u \in Users, InsertRow(u)
  PROVE  rows' \intersect Permissions = rows \intersect Permissions
  BY TablesAssumption DEF InsertRow

LEMMA LockedAccounts ==
  ASSUME LockedOut, [GatewayNext]_allVars
  PROVE  PermissionsKept /\ job' = job
<1> USE DEF PermissionsKept
<1>1. CASE UNCHANGED accountVars
  BY <1>1 DEF accountVars, linkVars
<1>2. CASE CreateUserStep
  BY <1>2, UserComes DEF CreateUserStep, CreateUser, RefuseUser, CreateUserPassword,
     RefusePassword, linkVars
<1>3. \A j \in Jobs : Ended(j)
  BY DEF LockedOut, Ended
<1>4. ~ JobStepping
  BY <1>3, EndedJobsRest DEF JobStepping
<1>5. CASE AccountFault
  <2>1. ASSUME NEW u \in Users, CreateUserFails(u) PROVE PermissionsKept /\ job' = job
    BY <2>1, UserComes DEF CreateUserFails, linkVars
  <2>2. ASSUME NEW c \in LinkCalls, LinkCallFails(c) PROVE PermissionsKept /\ job' = job
    BY <2>2 DEF LinkCallFails, LinkStepFrom
  <2>3. QED
    BY <1>3, <1>5, <2>1, <2>2, EndedJobsRest DEF AccountFault
<1>6. CASE UserServiceCall
  <2>1. ASSUME NEW q \in Requests, CallForPermission(q) PROVE FALSE
    BY <2>1 DEF CallForPermission, Handling, LockedOut, PermissionCalls
  <2>2. QED
    BY <1>6, <2>1 DEF UserServiceCall, CallUpdateUser, CallUpdateUserPassword,
       UpdateUser, UpdateUserPassword, linkVars
<1>7. CASE \E q \in Requests : CallElsewhere(q) \/ CallRefused(q)
  BY <1>1, <1>7 DEF CallElsewhere, CallRefused, vars
<1>8. QED
  BY <1>1, <1>2, <1>4, <1>5, <1>6, <1>7
     DEF GatewayNext, ServiceStep, Fault, RouteStep, allVars, vars

(* Who calls for permissions was let in to manage them.                      *)
LEMMA PermissionRoutes ==
  ASSUME NEW route \in Served, route.call \in PermissionCalls
  PROVE  "user_permissions.manage" \in route.needs
<1>1. <<route.call, route.call>> \in Calls
  BY DEF Calls, UserPermissionOperator, Same, PermissionCalls
<1>2. RightsFor(route.call) = {"user_permissions.manage"}
  BY DEF RightsFor, PermissionCalls
<1>3. QED
  BY <1>1, <1>2, GuardedRoutes DEF RouteIsGuarded

Waits(q) == handler[q] = "calling" /\ wish[q].call \in PermissionCalls

LEMMA NobodyLetIn ==
  ASSUME GatewayIInv, NEW q \in Requests, MiddlewareStep(q), LockedOut
  PROVE  ~ Waits(q)'
<1>1. /\ UnderWay(q) /\ Ends(q)
      /\ wish' = wish
      /\ RouteOK(q)
      /\ request[q] \in RequestRow
  BY RequestStepEnds, StoredRow
     DEF MiddlewareStep, UnderWay, GatewayIInv, IInv, Sound, RouteInv
<1>2. CASE handler'[q] = handler[q]
  BY <1>1, <1>2 DEF Waits, LockedOut
<1>3. CASE request[q].kind = "visit" /\ request'[q].step = "done"
  <2>1. /\ wish[q] \in Served
        /\ wish[q].needs \subseteq NamesOf(request[q].roles)
    BY <1>1, <1>3 DEF UnderWay, Ends, RouteOK, VisitOK
  <2>2. NamesOf(request[q].roles) \subseteq NamesOf(Roles)
    BY <1>1 DEF RequestRow, NamesOf
  <2>3. "user_permissions.manage" \notin wish[q].needs
    BY <2>1, <2>2 DEF LockedOut
  <2>4. QED
    BY <1>1, <2>1, <2>3, PermissionRoutes DEF Waits
<1>4. QED
  BY <1>2, <1>3 DEF MiddlewareStep, GatewayIInv, GatewayTypeOK

LEMMA LockedHandlers ==
  ASSUME GatewayIInv, LockedOut, [GatewayNext]_allVars, NEW q \in Requests
  PROVE  ~ Waits(q)'
<1>1. ~ Waits(q)
  BY DEF LockedOut, Waits
<1>2. CASE UNCHANGED gatewayVars
  BY <1>1, <1>2 DEF gatewayVars, Waits
<1>3. ASSUME NEW p \in Requests, NEW b \in Browsers, NEW r \in Served, VisitRoute(p, b, r)
      PROVE  ~ Waits(q)'
  <2>1. CASE p = q
    BY <1>3, <2>1 DEF VisitRoute, Visit, Start, Idle, GatewayIInv, RouteInv, RouteOK,
                      Stored, Waits
  <2>2. CASE p # q
    BY <1>1, <1>3, <2>2 DEF VisitRoute, GatewayIInv, GatewayTypeOK, Waits
  <2>3. QED
    BY <2>1, <2>2
<1>4. ASSUME NEW p \in Requests, MiddlewareStep(p) PROVE ~ Waits(q)'
  <2>1. CASE p = q
    BY <1>4, <2>1, NobodyLetIn
  <2>2. CASE p # q
    BY <1>1, <1>4, <2>2 DEF MiddlewareStep, GatewayIInv, GatewayTypeOK, Waits
  <2>3. QED
    BY <2>1, <2>2
<1>5. ASSUME NEW p \in Requests,
             \/ CallForPermission(p) \/ CallUpdateUser(p) \/ CallUpdateUserPassword(p)
             \/ CallElsewhere(p) \/ CallRefused(p)
      PROVE  ~ Waits(q)'
  BY <1>1, <1>5, CallGoes DEF GatewayIInv, Waits
<1>6. QED
  BY <1>2, <1>3, <1>4, <1>5 DEF GatewayNext, ServiceStep, RouteStep, UserServiceCall, allVars

(* Once nobody holds the permission to manage permissions, and nobody who    *)
(* was let in with it is still to call, no permission and no link ever       *)
(* changes again through the gateway (the routers bind no route that gives a *)
(* role or a permission; the job has ended).                                 *)
THEOREM NoWayBackIn == GatewaySpec => LockedOutForGood
<1> DEFINE Stays == LockedOut => /\ LockedOut'
                                 /\ UNCHANGED <<links, permissionName>>
                                 /\ rows' \intersect Permissions = rows \intersect Permissions
<1>1. ASSUME GatewayIInv, LockedOut, [GatewayNext]_allVars
      PROVE  LockedOut'
  <2>1. job' = job /\ links' = links /\ permissionName' = permissionName
    BY <1>1, LockedAccounts DEF PermissionsKept
  <2>2. NamesOf(Roles)' = NamesOf(Roles)
    BY <2>1 DEF NamesOf
  <2>3. \A q \in Requests : ~ Waits(q)'
    BY <1>1, LockedHandlers
  <2>4. QED
    BY <1>1, <2>1, <2>2, <2>3 DEF LockedOut, Waits
<1>2. GatewayIInv /\ [GatewayNext]_allVars => Stays
  BY <1>1, LockedAccounts DEF PermissionsKept
<1>3. QED
  BY <1>2, GatewayInductive, PTL DEF GatewaySpec, LockedOutForGood

============================================================================
