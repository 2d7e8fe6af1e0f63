----------------------------- MODULE UserService -----------------------------
(***************************************************************************)
(* UserService as a whole, with the gateway's part in users and sessions.  *)
(***************************************************************************)
EXTENDS Sessions

CONSTANT MaxFaults  \* bound on the failures of one behaviour

ASSUME MaxFaultsAssumption == MaxFaults \in Nat

VARIABLE faults     \* failures so far

vars == <<accountVars, sessionVars, watch, faults>>

TypeOK ==
  /\ AccountTypeOK
  /\ SessionTypeOK
  /\ faults \in 0 .. MaxFaults

Init ==
  /\ AccountInit
  /\ SessionInit
  /\ faults = 0

---------------------------------------------------------------------------
UserStepping ==
  \E u \in Users :
    \/ CreateUser(u)
    \/ RefuseUser(u)
    \/ \E w \in Passwords : CreateUserPassword(u, w)
    \/ RefusePassword(u)
    \/ \E n \in Usernames : UpdateUser(u, n)
    \/ \E w \in Passwords : UpdateUserPassword(u, w)

RoleStepping ==
  \/ \E r \in Roles : CreateUserRole(r) \/ DeleteUserRole(r)
  \/ \E p \in Permissions, n \in PermissionNames :
       CreateUserPermission(p, n) \/ UpdateUserPermission(p, n)
  \/ \E p \in Permissions : DeleteUserPermission(p)

LinkStepping ==
  \E c \in LinkCalls :
    \/ \E u \in Users, r \in Roles :
         AddUserRoleToUser(c, u, r) \/ RemoveUserRoleFromUser(c, u, r)
    \/ \E r \in Roles, p \in Permissions :
         \/ AddUserPermissionToUserRole(c, r, p)
         \/ RemoveUserPermissionFromUserRole(c, r, p)
    \/ ReadEnds(c)
    \/ AddLink(c)
    \/ RemoveLink(c)
    \/ RefuseLink(c)

JobStepping ==
  \E j \in Jobs :
    \/ StartJob(j)
    \/ CountUsers(j)
    \/ CountRoles(j)
    \/ CountPermissions(j)
    \/ CreateFirstUser(j)
    \/ \E w \in Passwords : CreateFirstPassword(j, w)
    \/ \E r \in Roles : CreateFirstRole(j, r) \/ LinkFirstRole(j, r)
    \/ \E p \in Permissions : CreateFirstPermission(j, p)
    \/ \E r \in Roles : GrantFirstPermission(j, r)
    \/ JobRefused(j)

AccountFault ==
  \/ \E u \in Users : CreateUserFails(u)
  \/ \E c \in LinkCalls : LinkCallFails(c)
  \/ \E j \in Jobs : JobFails(j)

ProcessStepping ==
  \/ Tick
  \/ \E c \in Processes :
       \/ DeleteExpiredBlacklistedTokenJob(c)
       \/ \E n \in 0 .. MaxTime : DeleteExpiredBlacklistedToken(c, n)
       \/ ServerRestarts(c)

RequestStart ==
  \E q \in Requests, b \in Browsers :
    \/ \E l \in Logins : LoginWithPassword(q, b, l[1], l[2])
    \/ \E needs \in SUBSET PermissionNames : Visit(q, b, needs)
    \/ Logout(q, b)

RequestStepOf(q) ==
  \/ ReadUsername(q)
  \/ ReadHash(q)
  \/ \E t, i \in Tokens : ComparePassword(q, t, i)
  \/ IncorrectPassword(q)
  \/ Decode(q)
  \/ RefuseToken(q)
  \/ CheckBlacklist(q)
  \/ RefuseBlacklisted(q)
  \/ ReadUser(q)
  \/ \E t, i \in Tokens : RenewToken(q, t, i)
  \/ ReadRoleIds(q)
  \/ Authorize(q)
  \/ BlacklistToken(q)
  \/ ClearCookie(q)

RevocationStepOf(q) == DecodeToRevoke(q) \/ CreateBlacklistedToken(q)

SessionFault ==
  \E q \in Requests : RequestFails(q) \/ KeyReadFails(q) \/ RevocationFails(q)

Fault ==
  /\ faults < MaxFaults
  /\ faults' = faults + 1
  /\ \/ AccountFault /\ UNCHANGED sessionVars
     \/ SessionFault /\ UNCHANGED accountVars

AccountStep ==
  /\ UserStepping \/ RoleStepping \/ LinkStepping \/ JobStepping
  /\ UNCHANGED <<sessionVars, faults>>

SessionStep ==
  /\ \/ ProcessStepping
     \/ RequestStart
     \/ \E q \in Requests : RequestStepOf(q) \/ RevocationStepOf(q)
  /\ UNCHANGED <<accountVars, faults>>

Next == (AccountStep \/ SessionStep \/ Fault) /\ Watch

Spec == Init /\ [][Next]_vars

---------------------------------------------------------------------------
(* Accounts *)

(* Links are between rows that are there, whatever is deleted between the    *)
(* reads of a call and its transaction, or while the job runs.               *)
NoDanglingLinks == \A l \in links : l[1] \in rows /\ l[2] \in rows

(* A run of the job that ends well has given the first user a role and the   *)
(* role every permission of the configuration, whoever else creates rows and *)
(* links while it runs, until somebody takes a link away.                    *)
SetupIsWhole ==
  \A j \in Jobs :
    job[j].step = "done" /\ ~ unlinked =>
      /\ Len(job[j].permissions) = Len(FirstPermissions)
      /\ \E r \in RolesOf(j) \intersect job[j].role :
           \A i \in DOMAIN job[j].permissions : <<r, job[j].permissions[i]>> \in links

(* The call of createUser has failed between the user and the password.     *)
HalfMadeUser(u) ==
  /\ u \in rows \ Jobs
  /\ userCall[u] = "failed"
  /\ password[u] = NoPassword

(* Such a user is never mended: it never gets a password, so nobody logs in  *)
(* as it, and it keeps its email address from everybody else, whatever calls *)
(* and runs of the job follow.                                               *)
HalfMadeUserForGood ==
  [][\A u \in Users :
       HalfMadeUser(u) =>
         /\ HalfMadeUser(u)'
         /\ \A v \in (Users \intersect rows') \ {u} :
              handle'[v].email # handle[u].email]_vars

(* A permission is granted to a request only when its user held it while the *)
(* request ran, or lost a role meanwhile: the roles are read before their    *)
(* permissions, and no transaction holds them together.                      *)
GrantedOnlyWhatWasHeld ==
  \A q \in Requests :
    request[q].step # "idle" =>
      request[q].granted \subseteq watch[q].held \/ watch[q].lost

---------------------------------------------------------------------------
(* Sessions *)

Accepted(q) ==
  /\ request[q].step \in {"reading", "renewing", "roles", "permissions",
                          "leaving", "answered", "done", "forbidden"}
  /\ request[q].kind # "login"

(* A token that was blacklisted before a request began is not accepted by    *)
(* it, or has expired meanwhile: the clean-up may take the row between the   *)
(* look at the token's time and the look at the blacklist, but no sooner     *)
(* than the token has expired.                                               *)
RevokedIsRefused ==
  \A q \in Requests :
    Accepted(q) /\ request[q].revoked => Expired(request[q].token)

(* A token that was logged out with an answer is blacklisted until it has    *)
(* expired, unless the work after the answer still goes on or was lost.      *)
LoggedOutIsRevoked ==
  \A q \in Requests :
    revocation[q] = "ended" =>
      Blacklisted(request[q].token) \/ Expired(request[q].token)

LoggedOut(t) ==
  \E p \in Requests : revocation[p] # "none" /\ request[p].token = t

(* A token is refused only when it has expired, or it or a token of the same *)
(* instant was logged out, or its key could not be read: whatever process    *)
(* made it, and though ids are rounded.                                      *)
RefusedOnlyForAReason ==
  faults = 0 =>
    \A q \in Requests :
      request[q].step = "refused" /\ request[q].kind # "login" =>
        \/ Expired(request[q].token)
        \/ \E t \in Tokens :
             /\ Made(t)
             /\ token[t].at = token[request[q].token].at
             /\ LoggedOut(t)
============================================================================
