------------------------------ MODULE Sessions ------------------------------
(***************************************************************************)
(* UserService's tokens, and the requests of the gateway that are made     *)
(* with them: logging in, a request behind the authentication middleware,  *)
(* and logging out.                                                        *)
(*                                                                         *)
(* A token is signed with the key of the process that made it; the public  *)
(* keys stay in the database.  Its id is a rounded number, which two       *)
(* tokens of one instant may share.  All processes read one clock.         *)
(***************************************************************************)
EXTENDS Accounts, FiniteSets

CONSTANTS
  Browsers,   \* browsers, each with a cookie
  Requests,   \* requests to the gateway, in the order they begin
  Tokens,     \* tokens, in the order they are made
  NoToken,    \* no token
  FirstCookie,\* the cookies at the start, with tokens of users that are there
  Logins,     \* pairs of a user and the password given at a login
  Processes,  \* processes: the server, again after a restart, and clean-ups
  Expire,     \* jwtExpireTime
  Renew,      \* jwtRenewTime
  MaxTime,    \* bound on the clock
  MaxActive   \* bound on the requests under way at one time

ASSUME LoginsAssumption == Logins \subseteq Users \X (Passwords \union {NoPassword})
ASSUME OrderAssumption == Requests \subseteq Nat /\ Tokens \subseteq Nat
ASSUME TimesAssumption == Expire \in Nat \ {0} /\ Renew \in Nat /\ MaxTime \in Nat
ASSUME NoTokenAssumption == NoToken \notin Tokens \union Users
ASSUME CookieAssumption == FirstCookie \in [Browsers -> Tokens \union {NoToken}]

VARIABLES
  now,        \* the clock
  server,     \* the process that serves
  keyRows,    \* processes that have stored their public key
  token,      \* the tokens that were made
  blacklist,  \* when the token with a blacklisted id expires; 0 for no row
  cleaning,   \* pairs of a clean-up and the time it works with
  cookie,     \* the token in a browser's cookie
  request,    \* the requests
  revocation, \* where the BlacklistToken call of a request is
  watch       \* history: permissions held while a request runs

processVars == <<now, server, keyRows, cleaning>>
sessionVars == <<processVars, token, blacklist, cookie, request, revocation>>

MaybeToken == Tokens \union {NoToken}
TokenRow == [user : Users, id : Tokens, at : Nat, key : Processes]
NoRow == [at |-> MaxTime + 1]
Kinds == {"login", "visit", "logout"}
Refusals == {"refused", "forbidden", "failed"}
Idle == [step |-> "idle"]
RequestStep == {"name", "hash", "comparing", "decoding", "checking", "reading",
                "renewing", "roles", "permissions", "leaving", "answered",
                "done"} \union Refusals
RequestRow ==
  [step : RequestStep, kind : Kinds, browser : Browsers, user : Users,
   given : Passwords \union {NoPassword}, hash : Passwords \union {NoPassword},
   token : MaybeToken, renewed : MaybeToken, begun : Nat, revoked : BOOLEAN,
   needs : SUBSET PermissionNames, roles : SUBSET Roles,
   granted : SUBSET PermissionNames]
RevocationStep == {"none", "decoding", "inserting", "ended", "lost"}

SessionTypeOK ==
  /\ now \in 0 .. MaxTime
  /\ server \in Processes
  /\ keyRows \subseteq Processes
  /\ token \in [Tokens -> TokenRow \union {NoRow}]
  /\ blacklist \in [Tokens -> Nat]
  /\ cleaning \subseteq Processes \X Nat
  /\ cookie \in [Browsers -> MaybeToken]
  /\ request \in [Requests -> RequestRow \union {Idle}]
  /\ revocation \in [Requests -> RevocationStep]
  /\ watch \in [Requests -> [held : SUBSET PermissionNames, lost : BOOLEAN]]

SessionInit ==
  /\ now = 0
  /\ server \in Processes
  /\ keyRows = {server}
  /\ \E u \in [Tokens -> Earlier \union {NoToken}] :
       /\ \A t \in Tokens : u[t] = NoToken <=> \A b \in Browsers : FirstCookie[b] # t
       /\ token = [t \in Tokens |->
            IF u[t] = NoToken THEN NoRow
            ELSE [user |-> u[t], id |-> t, at |-> 0, key |-> server]]
  /\ blacklist = [t \in Tokens |-> 0]
  /\ cleaning = {}
  /\ cookie = FirstCookie
  /\ request = [q \in Requests |-> Idle]
  /\ revocation = [q \in Requests |-> "none"]
  /\ watch = [q \in Requests |-> [held |-> {}, lost |-> FALSE]]

Made(t) == token[t] # NoRow
ExpireAt(t) == token[t].at + Expire
Expired(t) == ExpireAt(t) <= now
Blacklisted(t) == blacklist[token[t].id] # 0

---------------------------------------------------------------------------
(* The clock and the processes *)

Tick ==
  /\ now < MaxTime
  /\ now' = now + 1
  /\ UNCHANGED <<server, keyRows, cleaning, token, blacklist, cookie, request,
                 revocation>>

(* A process makes a pair of keys when it starts, and stores the public one. *)
NewKey(c) ==
  /\ c \notin keyRows
  /\ keyRows' = keyRows \union {c}

DeleteExpiredBlacklistedTokenJob(c) ==
  /\ NewKey(c)
  /\ cleaning' = cleaning \union {<<c, now>>}
  /\ UNCHANGED <<now, server, token, blacklist, cookie, request, revocation>>

(* Mutant: a row is deleted before its token has expired. *)
DeleteExpiringBlacklistedToken(c, n) ==
  /\ <<c, n>> \in cleaning
  /\ blacklist' = [i \in Tokens |-> IF blacklist[i] <= n + 1 THEN 0 ELSE blacklist[i]]
  /\ cleaning' = cleaning \ {<<c, n>>}
  /\ UNCHANGED <<now, server, keyRows, token, cookie, request, revocation>>

DeleteExpiredBlacklistedToken(c, n) ==
  /\ <<c, n>> \in cleaning
  /\ blacklist' = [i \in Tokens |-> IF blacklist[i] <= n THEN 0 ELSE blacklist[i]]
  /\ cleaning' = cleaning \ {<<c, n>>}
  /\ UNCHANGED <<now, server, keyRows, token, cookie, request, revocation>>

Active(q) == request[q].step \notin {"idle", "answered", "done"} \union Refusals

(* What the old process was doing is cut off. *)
ServerRestarts(c) ==
  /\ NewKey(c)
  /\ server' = c
  /\ request' = [q \in Requests |->
                   IF Active(q) THEN [request[q] EXCEPT !.step = "failed"]
                   ELSE request[q]]
  /\ revocation' = [q \in Requests |->
                      IF revocation[q] \in {"decoding", "inserting"} THEN "lost"
                      ELSE revocation[q]]
  /\ UNCHANGED <<now, cleaning, token, blacklist, cookie>>

---------------------------------------------------------------------------
(* Requests *)

NewRequest(kind, b, u, w, t, needs) ==
  [step |-> IF kind = "login" THEN "name" ELSE "decoding", kind |-> kind,
   browser |-> b, user |-> u, given |-> w, hash |-> NoPassword, token |-> t,
   renewed |-> NoToken, begun |-> now, needs |-> needs, roles |-> {},
   granted |-> {}, revoked |-> t # NoToken /\ Blacklisted(t)]

Start(q, row) ==
  /\ request[q] = Idle
  /\ \A p \in Requests : p < q => request[p] # Idle
  /\ Cardinality({p \in Requests : Active(p)}) < MaxActive
  /\ request' = [request EXCEPT ![q] = row]
  /\ UNCHANGED <<processVars, token, blacklist, cookie, revocation>>

LoginWithPassword(q, b, u, w) ==
  Start(q, NewRequest("login", b, u, w, NoToken, {}))

(* The middleware, on the way to a handler that needs these permissions.     *)
Visit(q, b, needs) ==
  LET t == cookie[b] IN
  /\ t # NoToken
  /\ Start(q, NewRequest("visit", b, token[t].user, NoPassword, t, needs))

(* The middleware without token refresh, on the way to the handler that logs out. *)
Logout(q, b) ==
  LET t == cookie[b] IN
  /\ t # NoToken
  /\ Start(q, NewRequest("logout", b, token[t].user, NoPassword, t, {}))

RequestTo(q, from, to) ==
  /\ request[q].step = from
  /\ request' = [request EXCEPT ![q].step = to]

OnlyRequest == UNCHANGED <<processVars, token, blacklist, cookie, revocation>>

(* generate: the id is the token's own, or that of one of the same instant.  *)
Generate(t, u, i) ==
  /\ ~ Made(t)
  /\ \A s \in Tokens : s < t => Made(s)
  /\ i = t \/ \E s \in Tokens : Made(s) /\ token[s].at = now /\ token[s].id = i
  /\ token' = [token EXCEPT ![t] = [user |-> u, id |-> i, at |-> now, key |-> server]]

(* loginWithPassword *)
ReadUsername(q) ==
  /\ RequestTo(q, "name", IF request[q].user \in rows THEN "hash" ELSE "failed")
  /\ OnlyRequest

ReadHash(q) ==
  LET hash == password[request[q].user] IN
  /\ request[q].step = "hash"
  /\ request' = [request EXCEPT
       ![q].step = IF hash = NoPassword THEN "failed" ELSE "comparing",
       ![q].hash = hash]
  /\ OnlyRequest

ComparePassword(q, t, i) ==
  /\ request[q].step = "comparing"
  /\ request[q].hash = request[q].given
  /\ Generate(t, request[q].user, i)
  /\ request' = [request EXCEPT ![q].step = "roles", ![q].renewed = t]
  /\ UNCHANGED <<processVars, blacklist, cookie, revocation>>

IncorrectPassword(q) ==
  /\ RequestTo(q, "comparing", "refused")
  /\ request[q].hash # request[q].given
  /\ OnlyRequest

(* getUserFromToken.  A refusal takes the cookie away. *)
Refuse(q, from) ==
  /\ RequestTo(q, from, "refused")
  /\ cookie' = [cookie EXCEPT ![request[q].browser] = NoToken]
  /\ UNCHANGED <<processVars, token, blacklist, revocation>>

(* Mutant: only the keys of this process are known. *)
DecodableHere(t) == token[t].key = server /\ ~ Expired(t)

Decodable(t) == token[t].key \in keyRows /\ ~ Expired(t)

Decode(q) ==
  /\ RequestTo(q, "decoding", "checking")
  /\ Decodable(request[q].token)
  /\ OnlyRequest

RefuseToken(q) ==
  /\ request[q].step = "decoding"
  /\ ~ Decodable(request[q].token)
  /\ Refuse(q, "decoding")

CheckBlacklist(q) ==
  /\ request[q].step = "checking"
  /\ ~ Blacklisted(request[q].token)
  /\ RequestTo(q, "checking", "reading")
  /\ OnlyRequest

RefuseBlacklisted(q) ==
  /\ request[q].step = "checking"
  /\ Blacklisted(request[q].token)
  /\ Refuse(q, "checking")

NearExpireTime(q) == request[q].begun + Renew >= ExpireAt(request[q].token)

(* The user is there: no user is ever deleted. *)
ReadUser(q) ==
  /\ RequestTo(q, "reading", IF NearExpireTime(q) THEN "renewing" ELSE "roles")
  /\ OnlyRequest

RenewToken(q, t, i) ==
  /\ request[q].step = "renewing"
  /\ Generate(t, request[q].user, i)
  /\ request' = [request EXCEPT ![q].step = "roles", ![q].renewed = t]
  /\ UNCHANGED <<processVars, blacklist, cookie, revocation>>

(* Mutant: the roles of all users are read. *)
ReadAllRoleIds(q) ==
  /\ request[q].step = "roles"
  /\ request' = [request EXCEPT ![q].step = "permissions",
                                ![q].roles = Roles \intersect rows]
  /\ OnlyRequest

(* getUserPermissionListOfUser, after a list of the roles that is only shown *)
ReadRoleIds(q) ==
  /\ request[q].step = "roles"
  /\ request' = [request EXCEPT ![q].step = "permissions",
                                ![q].roles = RolesOf(request[q].user)]
  /\ OnlyRequest

(* The answer: a login or a renewed token sets the cookie, unless the        *)
(* permissions do not do.                                                    *)
Authorize(q) ==
  LET granted == NamesOf(request[q].roles)
      allowed == request[q].needs \subseteq granted
      setsCookie == allowed /\ request[q].kind # "logout" /\ request[q].renewed # NoToken
  IN  /\ request[q].step = "permissions"
      /\ request' = [request EXCEPT
           ![q].granted = granted,
           ![q].step = IF ~ allowed THEN "forbidden"
                       ELSE IF request[q].kind = "logout" THEN "leaving" ELSE "done"]
      /\ cookie' = IF setsCookie
                   THEN [cookie EXCEPT ![request[q].browser] = request[q].renewed]
                   ELSE cookie
      /\ UNCHANGED <<processVars, token, blacklist, revocation>>

---------------------------------------------------------------------------
(* BlacklistToken answers, and does its work afterwards *)

BlacklistToken(q) ==
  /\ RequestTo(q, "leaving", "answered")
  /\ revocation' = [revocation EXCEPT ![q] = "decoding"]
  /\ UNCHANGED <<processVars, token, blacklist, cookie>>

ClearCookie(q) ==
  /\ RequestTo(q, "answered", "done")
  /\ cookie' = [cookie EXCEPT ![request[q].browser] = NoToken]
  /\ UNCHANGED <<processVars, token, blacklist, revocation>>

RevocationTo(q, from, to) ==
  /\ revocation[q] = from
  /\ revocation' = [revocation EXCEPT ![q] = to]
  /\ UNCHANGED <<processVars, token, cookie, request>>

(* Mutant: a token that is near its end is not worth a row. *)
DecodeToRevokeLater(q) ==
  /\ RevocationTo(q, "decoding",
       IF Decodable(request[q].token) /\ now + Renew < ExpireAt(request[q].token)
       THEN "inserting" ELSE "ended")
  /\ UNCHANGED blacklist

DecodeToRevoke(q) ==
  /\ RevocationTo(q, "decoding",
       IF Decodable(request[q].token) THEN "inserting" ELSE "ended")
  /\ UNCHANGED blacklist

(* A row with the id is an error, which nobody hears of. *)
CreateBlacklistedToken(q) ==
  LET t == request[q].token IN
  /\ RevocationTo(q, "inserting", "ended")
  /\ blacklist' = IF Blacklisted(t) THEN blacklist
                  ELSE [blacklist EXCEPT ![token[t].id] = ExpireAt(t)]

---------------------------------------------------------------------------
(* Failures *)

RequestFails(q) ==
  /\ Active(q) \/ request[q].step = "answered"
  /\ RequestTo(q, request[q].step, "failed")
  /\ OnlyRequest

(* A public key that cannot be read makes the token an invalid one. *)
KeyReadFails(q) == request[q].step = "decoding" /\ Refuse(q, "decoding")

RevocationFails(q) ==
  /\ revocation[q] \in {"decoding", "inserting"}
  /\ RevocationTo(q, revocation[q], "lost")
  /\ UNCHANGED blacklist

(* What a request's user held while it ran, and whether it lost a role.      *)
Held == [u \in Users |-> HeldBy(u)]
RolesHeld == [u \in Users |-> RolesOf(u)]

Watch ==
  watch' = [q \in Requests |->
    IF request'[q].step \in {"idle", "done"} \union Refusals THEN watch[q]
    ELSE [held |-> watch[q].held \union Held'[request'[q].user],
          lost |-> \/ watch[q].lost
                   \/ ~ RolesHeld[request'[q].user]
                         \subseteq RolesHeld'[request'[q].user]]]
============================================================================
