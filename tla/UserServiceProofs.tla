-------------------------- MODULE UserServiceProofs --------------------------
(***************************************************************************)
(* UserService's types and safety properties, for every set of users,      *)
(* roles, requests and tokens and every bound.  Each property is shown     *)
(* inductive with what it rests on: how far a run of the job is, which     *)
(* tokens were made when, and what a request has read.                     *)
(***************************************************************************)
EXTENDS UserService, TLAPS

---------------------------------------------------------------------------
(* The invariants of the accounts *)

(* A run of the job has one role, and links each permission it creates.      *)
JobOK(j) ==
  LET P == job[j].permissions
      step == job[j].step
  IN
  /\ step \in {"idle", "users", "roles", "permissions", "user", "password",
               "role", "link"} => P = <<>>
  /\ Len(P) <= Len(FirstPermissions)
  /\ step = "permission" => Len(P) < Len(FirstPermissions)
  /\ step = "grant" => Len(P) > 0
  /\ step = "done" => Len(P) = Len(FirstPermissions)
  /\ step \in {"link", "permission", "grant", "done"} =>
       \E r \in Roles :
         /\ job[j].role = {r}
         /\ step # "link" /\ ~ unlinked =>
              /\ <<j, r>> \in links
              /\ \A i \in 1 .. Len(P) :
                   i < Len(P) \/ step # "grant" => <<r, P[i]>> \in links

JobInv == \A j \in Jobs : JobOK(j)

(* The invariants of the sessions *)

(* A token's id is that of a token of the same instant, and its key is kept. *)
TokenOK(t) ==
  /\ token[t] \in TokenRow
  /\ token[t].at <= now
  /\ token[t].key \in keyRows
  /\ Made(token[t].id)
  /\ token[token[t].id].at = token[t].at

TokenInv ==
  /\ server \in keyRows
  /\ \A t \in Tokens : Made(t) => TokenOK(t)
  /\ \A b \in Browsers : cookie[b] # NoToken => Made(cookie[b])

(* The row of an id is that of a token that was logged out.                  *)
LoggedOutAs(i) == \E t \in Tokens : Made(t) /\ token[t].id = i /\ LoggedOut(t)

BlacklistInv ==
  /\ \A i \in Tokens :
       blacklist[i] # 0 =>
         /\ Made(i)
         /\ blacklist[i] = ExpireAt(i)
         /\ LoggedOutAs(i)
  /\ \A c \in cleaning : c[2] <= now

(* A request that is not a login has the token it began with.                *)
Stored(q) == request[q].step # "idle"

RequestOK(q) ==
  /\ request[q].kind # "login" => request[q].token \in Tokens /\ Made(request[q].token)
  /\ request[q].renewed # NoToken => Made(request[q].renewed)
  /\ request[q].step \in {"name", "hash", "comparing"} => request[q].kind = "login"
  /\ request[q].step \in {"decoding", "checking", "reading", "renewing",
                          "leaving", "answered"} => request[q].kind # "login"
  /\ request[q].revoked => request[q].kind # "login"

RequestInv ==
  \A q \in Requests :
    /\ Stored(q) => RequestOK(q)
    /\ revocation[q] # "none" => Stored(q) /\ request[q].kind # "login"

(* A token that was blacklisted when its request began still is, or expired. *)
RevokedInv ==
  \A q \in Requests :
    Stored(q) /\ request[q].revoked =>
      \/ Expired(request[q].token)
      \/ Blacklisted(request[q].token) /\ ~ Accepted(q)

(* What a request has read was held when it was read.                        *)
Running(q) == request[q].step \notin {"idle", "done"} \union Refusals

GrantOK(q) ==
  /\ request[q].granted \subseteq watch[q].held \/ watch[q].lost
  /\ Running(q) => HeldBy(request[q].user) \subseteq watch[q].held
  /\ request[q].step = "permissions" =>
       request[q].roles \subseteq RolesOf(request[q].user) \/ watch[q].lost

GrantInv == \A q \in Requests : Stored(q) => GrantOK(q)

---------------------------------------------------------------------------
(* Types *)

(* The job creates users of its own, and only configured permissions.        *)
LEMMA FirstPermissionIsName ==
  ASSUME NEW n \in 1 .. Len(FirstPermissions)
  PROVE  FirstPermissions[n] \in PermissionNames
  BY FirstPermissionsAssumption

Accounted == AccountTypeOK /\ JobInv

LEMMA AccountsInitially == AccountInit => Accounted
<1> SUFFICES ASSUME AccountInit PROVE AccountTypeOK /\ JobInv
  BY DEF Accounted
<1>1. AccountTypeOK
  <2>1. PICK w \in Passwords :
          password = [u \in Users |-> IF u \in Earlier THEN w ELSE NoPassword]
    BY DEF AccountInit
  <2>2. PICK l \in [LinkCalls -> Links] :
          linkCall = [c \in LinkCalls |-> [step |-> "idle", add |-> FALSE, link |-> l[c]]]
    BY DEF AccountInit
  <2>3. password \in [Users -> Passwords \union {NoPassword}]
    BY <2>1
  <2>4. linkCall \in [LinkCalls -> [step : LinkStep, add : BOOLEAN, link : Links]]
    BY <2>2 DEF LinkStep
  <2>5. userCall \in [Users -> UserStep]
    BY DEF AccountInit, UserStep
  <2>6. job \in [Jobs -> [step : JobStep, role : SUBSET Roles, permissions : Seq(Permissions)]]
    BY DEF AccountInit, JobStep
  <2>7. QED
    BY <2>3, <2>4, <2>5, <2>6, EarlierAssumption DEF AccountInit, AccountTypeOK, Ids
<1>2. JobInv
  BY FirstPermissionsAssumption DEF AccountInit, JobInv, JobOK
<1>3. QED
  BY <1>1, <1>2

(* The links only grow, or a link was removed: what a run has linked stays.  *)
LinksKept ==
  /\ unlinked' \in BOOLEAN
  /\ ~ unlinked' => ~ unlinked /\ links \subseteq links'

LEMMA JobsUntouched ==
  ASSUME JobInv, LinksKept, job' = job
  PROVE  JobInv'
  BY DEF JobInv, JobOK, LinksKept

LEMMA DropRowAccounted ==
  ASSUME Accounted, NEW i \in Ids, DropRow(i)
  PROVE  Accounted'
<1>1. AccountTypeOK'
  BY DEF Accounted, AccountTypeOK, DropRow
<1>2. LinksKept
  BY DEF Accounted, AccountTypeOK, DropRow, LinksKept
<1>3. QED
  BY <1>1, <1>2, JobsUntouched DEF Accounted, DropRow

LEMMA UserSteppingAccounted == Accounted /\ UserStepping => Accounted'
<1> SUFFICES ASSUME Accounted, NEW u \in Users,
                    \/ CreateUser(u) \/ RefuseUser(u)
                    \/ \E w \in Passwords : CreateUserPassword(u, w)
                    \/ RefusePassword(u)
                    \/ \E n \in Usernames : UpdateUser(u, n)
                    \/ \E w \in Passwords : UpdateUserPassword(u, w)
             PROVE  Accounted'
  BY DEF UserStepping
<1> USE DEF UserStepFrom, InsertRow, UserStep, linkVars, Ids
<1>1. AccountTypeOK'
  <2>1. CASE CreateUser(u)
    BY <2>1 DEF Accounted, AccountTypeOK, CreateUser
  <2>2. CASE RefuseUser(u)
    BY <2>2 DEF Accounted, AccountTypeOK, RefuseUser
  <2>3. ASSUME NEW w \in Passwords, CreateUserPassword(u, w) PROVE AccountTypeOK'
    BY <2>3 DEF Accounted, AccountTypeOK, CreateUserPassword
  <2>4. CASE RefusePassword(u)
    BY <2>4 DEF Accounted, AccountTypeOK, RefusePassword
  <2>5. ASSUME NEW n \in Usernames, UpdateUser(u, n) PROVE AccountTypeOK'
    BY <2>5 DEF Accounted, AccountTypeOK, UpdateUser, Handles
  <2>6. ASSUME NEW w \in Passwords, UpdateUserPassword(u, w) PROVE AccountTypeOK'
    BY <2>6 DEF Accounted, AccountTypeOK, UpdateUserPassword
  <2>7. QED
    BY <2>1, <2>2, <2>3, <2>4, <2>5, <2>6
<1>2. LinksKept /\ job' = job
  BY DEF Accounted, AccountTypeOK, LinksKept, CreateUser, RefuseUser,
         CreateUserPassword, RefusePassword, UpdateUser, UpdateUserPassword
<1>3. QED
  BY <1>1, <1>2, JobsUntouched DEF Accounted

LEMMA RoleSteppingAccounted == Accounted /\ RoleStepping => Accounted'
<1> SUFFICES ASSUME Accounted, RoleStepping PROVE Accounted'
  OBVIOUS
<1>1. ASSUME NEW i \in Ids, DropRow(i) PROVE Accounted'
  BY <1>1, DropRowAccounted
<1>2. ASSUME NEW r \in Roles, CreateUserRole(r) PROVE Accounted'
  <2>1. AccountTypeOK' /\ LinksKept /\ job' = job
    BY <1>2 DEF Accounted, AccountTypeOK, LinksKept, CreateUserRole, InsertRow, linkVars, Ids
  <2>2. QED
    BY <2>1, JobsUntouched DEF Accounted
<1>3. ASSUME NEW p \in Permissions, NEW n \in PermissionNames,
             CreateUserPermission(p, n) \/ UpdateUserPermission(p, n)
      PROVE  Accounted'
  <2>1. AccountTypeOK' /\ LinksKept /\ job' = job
    BY <1>3 DEF Accounted, AccountTypeOK, LinksKept, CreateUserPermission,
                UpdateUserPermission, InsertPermission, InsertRow, linkVars, Ids
  <2>2. QED
    BY <2>1, JobsUntouched DEF Accounted
<1>4. QED
  BY <1>1, <1>2, <1>3 DEF RoleStepping, DeleteUserRole, DeleteUserPermission, Ids

LEMMA LinkSteppingAccounted == Accounted /\ LinkStepping => Accounted'
<1> SUFFICES ASSUME Accounted, NEW c \in LinkCalls,
                    \/ \E l \in Links, add \in BOOLEAN : StartLinkCall(c, add, l)
                    \/ ReadEnds(c) \/ AddLink(c) \/ RemoveLink(c) \/ RefuseLink(c)
             PROVE  Accounted'
  BY DEF LinkStepping, Links, AddUserRoleToUser, RemoveUserRoleFromUser,
         AddUserPermissionToUserRole, RemoveUserPermissionFromUserRole
<1> USE DEF LinkStepFrom, LinkStep
<1>1. AccountTypeOK'
  <2>1. ASSUME NEW l \in Links, NEW add \in BOOLEAN, StartLinkCall(c, add, l)
        PROVE  AccountTypeOK'
    BY <2>1 DEF Accounted, AccountTypeOK, StartLinkCall
  <2>2. CASE ReadEnds(c)
    BY <2>2 DEF Accounted, AccountTypeOK, ReadEnds
  <2>3. CASE AddLink(c)
    BY <2>3 DEF Accounted, AccountTypeOK, AddLink
  <2>4. CASE RemoveLink(c)
    BY <2>4 DEF Accounted, AccountTypeOK, RemoveLink
  <2>5. CASE RefuseLink(c)
    BY <2>5 DEF Accounted, AccountTypeOK, RefuseLink
  <2>6. QED
    BY <2>1, <2>2, <2>3, <2>4, <2>5
<1>2. LinksKept /\ job' = job
  BY DEF Accounted, AccountTypeOK, LinksKept, StartLinkCall, ReadEnds, AddLink,
         RemoveLink, RefuseLink
<1>3. QED
  BY <1>1, <1>2, JobsUntouched DEF Accounted

(* A step of a run leaves the others where they are.                         *)
LEMMA OtherJobs ==
  ASSUME JobInv, LinksKept, NEW j \in Jobs, JobOK(j)',
         \A k \in Jobs \ {j} : job'[k] = job[k]
  PROVE  JobInv'
<1>1. ASSUME NEW k \in Jobs \ {j} PROVE JobOK(k)'
  <2>1. JobOK(k) /\ job'[k] = job[k]
    BY DEF JobInv
  <2>2. QED
    BY <2>1 DEF JobOK, LinksKept
<1>2. QED
  BY <1>1 DEF JobInv

(* A step that only moves a run on, or ends it.                              *)
LEMMA JobMoves ==
  ASSUME Accounted, NEW j \in Jobs, NEW s \in JobStep,
         job' = [job EXCEPT ![j].step = s],
         UNCHANGED <<links, unlinked>>,
         \/ /\ s \in {"users", "roles", "permissions", "user", "password", "role"}
            /\ job[j].step \in {"idle", "users", "roles", "permissions", "user",
                                "password", "role"}
         \/ s \in {"skipped", "failed"}
  PROVE  JobInv'
<1>1. JobOK(j)
  BY DEF Accounted, JobInv
<1>2. /\ job'[j].step = s
      /\ job'[j].permissions = job[j].permissions
      /\ \A k \in Jobs \ {j} : job'[k] = job[k]
  BY DEF Accounted, AccountTypeOK
<1>3. JobOK(j)'
  BY <1>1, <1>2 DEF JobOK
<1>4. QED
  BY <1>2, <1>3, OtherJobs DEF Accounted, AccountTypeOK, LinksKept

LEMMA JobStepType ==
  ASSUME Accounted, NEW j \in Jobs, NEW s, s \in JobStep,
         job' = [job EXCEPT ![j].step = s]
  PROVE  job' \in [Jobs -> [step : JobStep, role : SUBSET Roles, permissions : Seq(Permissions)]]
  BY DEF Accounted, AccountTypeOK

LEMMA JobReadsAccounted ==
  ASSUME Accounted, NEW j \in Jobs, NEW from, NEW empty, NEW to,
         from \in {"idle", "users", "roles", "permissions"},
         to \in {"users", "roles", "permissions", "user"},
         JobReads(j, from, empty, to)
  PROVE  Accounted'
<1>1. PICK s \in {"users", "roles", "permissions", "user", "skipped"} :
        job' = [job EXCEPT ![j].step = s] /\ job[j].step = from
    BY DEF JobReads, JobTo
<1>2. s \in JobStep
  BY DEF JobStep
<1>3. JobInv'
  BY <1>1, <1>2, JobMoves DEF JobReads, linkVars
<1>4. AccountTypeOK'
  BY <1>1, <1>2, JobStepType DEF Accounted, AccountTypeOK, JobReads, linkVars
<1>5. QED
  BY <1>3, <1>4 DEF Accounted

LEMMA EndJobAccounted ==
  ASSUME Accounted, NEW j \in Jobs, EndJob(j)
  PROVE  Accounted'
<1>1. "failed" \in JobStep
  BY DEF JobStep
<1>2. job' = [job EXCEPT ![j].step = "failed"]
  BY DEF EndJob, JobTo
<1>3. JobInv'
  BY <1>1, <1>2, JobMoves DEF EndJob, linkVars
<1>4. AccountTypeOK'
  BY <1>1, <1>2, JobStepType DEF Accounted, AccountTypeOK, EndJob, linkVars
<1>5. QED
  BY <1>3, <1>4 DEF Accounted

LEMMA FirstUserAccounted ==
  ASSUME Accounted, NEW j \in Jobs,
         CreateFirstUser(j) \/ \E w \in Passwords : CreateFirstPassword(j, w)
  PROVE  Accounted'
<1>1. PICK s \in {"password", "role"} :
        job' = [job EXCEPT ![j].step = s] /\ job[j].step \in {"user", "password"}
  BY DEF CreateFirstUser, CreateFirstPassword, JobTo
<1>2. s \in JobStep
  BY DEF JobStep
<1>3. JobInv'
  BY <1>1, <1>2, JobMoves DEF CreateFirstUser, CreateFirstPassword, linkVars
<1>4. AccountTypeOK'
  <2>1. job' \in [Jobs -> [step : JobStep, role : SUBSET Roles, permissions : Seq(Permissions)]]
    BY <1>1, <1>2, JobStepType
  <2>2. j \in Users
    BY JobsAssumption
  <2>3. QED
    BY <2>1, <2>2 DEF Accounted, AccountTypeOK, CreateFirstUser, CreateFirstPassword,
                      InsertRow, linkVars, Ids
<1>5. QED
  BY <1>3, <1>4 DEF Accounted

LEMMA FirstRoleAccounted ==
  ASSUME Accounted, NEW j \in Jobs, NEW r \in Roles, CreateFirstRole(j, r)
  PROVE  Accounted'
<1>1. /\ job'[j] = [step |-> "link", role |-> {r}, permissions |-> job[j].permissions]
      /\ \A k \in Jobs \ {j} : job'[k] = job[k]
      /\ job' \in [Jobs -> [step : JobStep, role : SUBSET Roles, permissions : Seq(Permissions)]]
  BY DEF Accounted, AccountTypeOK, CreateFirstRole, JobStep
<1>2. job[j].permissions = <<>>
  BY DEF CreateFirstRole, Accounted, JobInv, JobOK
<1>3. JobOK(j)'
  BY <1>1, <1>2, FirstPermissionsAssumption DEF JobOK
<1>4. JobInv'
  BY <1>1, <1>3, OtherJobs DEF Accounted, AccountTypeOK, CreateFirstRole, linkVars, LinksKept
<1>5. AccountTypeOK'
  BY <1>1 DEF Accounted, AccountTypeOK, CreateFirstRole, InsertRow, linkVars, Ids
<1>6. QED
  BY <1>4, <1>5 DEF Accounted

LEMMA LinkFirstRoleAccounted ==
  ASSUME Accounted, NEW j \in Jobs, NEW r \in Roles, LinkFirstRole(j, r)
  PROVE  Accounted'
<1>1. /\ job'[j].step = NextPermission(j)
      /\ job'[j].role = job[j].role
      /\ job'[j].permissions = job[j].permissions
      /\ \A k \in Jobs \ {j} : job'[k] = job[k]
      /\ NextPermission(j) \in JobStep
  BY DEF Accounted, AccountTypeOK, LinkFirstRole, JobTo, JobStep, NextPermission
<1>2. JobOK(j) /\ job[j].step = "link"
  BY DEF Accounted, JobInv, LinkFirstRole, JobTo
<1>3. job[j].permissions = <<>> /\ job[j].role = {r}
  BY <1>2 DEF JobOK, LinkFirstRole
<1>4. JobOK(j)'
  <2>1. job'[j].step = IF Len(FirstPermissions) = 0 THEN "done" ELSE "permission"
    BY <1>1, <1>3 DEF NextPermission, Created
  <2>2. <<j, r>> \in links'
    BY DEF LinkFirstRole
  <2>3. Len(FirstPermissions) \in Nat
    BY FirstPermissionsAssumption
  <2>4. QED
    BY <1>1, <1>3, <2>1, <2>2, <2>3 DEF JobOK
<1>5. JobInv'
  BY <1>1, <1>4, OtherJobs DEF Accounted, AccountTypeOK, LinkFirstRole, LinksKept
<1>6. AccountTypeOK'
  <2>1. job' \in [Jobs -> [step : JobStep, role : SUBSET Roles, permissions : Seq(Permissions)]]
    BY <1>1, JobStepType DEF LinkFirstRole, JobTo
  <2>2. <<j, r>> \in Links
    BY JobsAssumption DEF Links
  <2>3. QED
    BY <2>1, <2>2 DEF Accounted, AccountTypeOK, LinkFirstRole
<1>7. QED
  BY <1>5, <1>6 DEF Accounted

LEMMA FirstPermissionAccounted ==
  ASSUME Accounted, NEW j \in Jobs, NEW p \in Permissions, CreateFirstPermission(j, p)
  PROVE  Accounted'
<1> DEFINE P == job[j].permissions
           Q == Append(P, p)
<1>1. JobOK(j) /\ job[j].step = "permission" /\ P \in Seq(Permissions)
  BY DEF Accounted, AccountTypeOK, JobInv, CreateFirstPermission
<1>2. /\ job'[j] = [step |-> "grant", role |-> job[j].role, permissions |-> Q]
      /\ \A k \in Jobs \ {j} : job'[k] = job[k]
      /\ job' \in [Jobs -> [step : JobStep, role : SUBSET Roles, permissions : Seq(Permissions)]]
  BY DEF Accounted, AccountTypeOK, CreateFirstPermission, JobStep
<1>3. Len(Q) = Len(P) + 1 /\ Len(P) \in Nat /\ \A i \in 1 .. Len(P) : Q[i] = P[i]
  BY <1>1
<1>4. JobOK(j)'
  <2>1. PICK r \in Roles :
          /\ job[j].role = {r}
          /\ ~ unlinked => /\ <<j, r>> \in links
                           /\ \A i \in 1 .. Len(P) : <<r, P[i]>> \in links
    BY <1>1 DEF JobOK
  <2>2. links' = links /\ unlinked' = unlinked
    BY DEF CreateFirstPermission, linkVars
  <2>3. ~ unlinked' => \A i \in 1 .. Len(Q) : i < Len(Q) => <<r, Q[i]>> \in links'
    BY <1>3, <2>1, <2>2
  <2>4. Len(P) < Len(FirstPermissions) /\ Len(FirstPermissions) \in Nat
    BY <1>1, FirstPermissionsAssumption DEF JobOK
  <2>5. /\ job'[j].step = "grant"
        /\ job'[j].role = {r}
        /\ job'[j].permissions = Q
    BY <1>2, <2>1
  <2>6. Len(Q) \in Nat /\ Len(Q) > 0 /\ Len(Q) <= Len(FirstPermissions)
    BY <1>3, <2>4
  <2>7. ~ unlinked' => <<j, r>> \in links'
    BY <2>1, <2>2
  <2> HIDE DEF P, Q
  <2>8. QED
    BY <2>3, <2>5, <2>6, <2>7 DEF JobOK
<1>5. JobInv'
  BY <1>2, <1>4, OtherJobs DEF Accounted, AccountTypeOK, CreateFirstPermission, linkVars, LinksKept
<1>6. AccountTypeOK'
  <2>1. FirstPermissions[Created(j) + 1] \in PermissionNames
    <3>1. Len(P) + 1 \in 1 .. Len(FirstPermissions)
      BY <1>1, <1>3, FirstPermissionsAssumption DEF JobOK
    <3>2. QED
      BY <3>1, FirstPermissionIsName DEF Created
  <2>2. QED
    BY <1>2, <2>1 DEF Accounted, AccountTypeOK, CreateFirstPermission, InsertPermission,
                      InsertRow, linkVars, Ids
<1>7. QED
  BY <1>5, <1>6 DEF Accounted

LEMMA GrantFirstPermissionAccounted ==
  ASSUME Accounted, NEW j \in Jobs, NEW r \in Roles, GrantFirstPermission(j, r)
  PROVE  Accounted'
<1> DEFINE P == job[j].permissions
           l == <<r, P[Len(P)]>>
<1>1. JobOK(j) /\ job[j].step = "grant" /\ P \in Seq(Permissions)
  BY DEF Accounted, AccountTypeOK, JobInv, GrantFirstPermission, JobTo
<1>2. /\ job'[j].step = NextPermission(j)
      /\ job'[j].role = job[j].role
      /\ job'[j].permissions = P
      /\ \A k \in Jobs \ {j} : job'[k] = job[k]
      /\ NextPermission(j) \in JobStep
  BY DEF Accounted, AccountTypeOK, GrantFirstPermission, JobTo, JobStep, NextPermission
<1>3. Len(P) > 0 /\ Len(P) \in Nat
  BY <1>1 DEF JobOK
<1>4. links' = links \union {l} /\ unlinked' = unlinked
  BY DEF GrantFirstPermission, Created
<1>5. JobOK(j)'
  <2>1. /\ job[j].role = {r}
        /\ ~ unlinked => /\ <<j, r>> \in links
                         /\ \A i \in 1 .. Len(P) : i < Len(P) => <<r, P[i]>> \in links
    BY <1>1 DEF JobOK, GrantFirstPermission
  <2>2. ~ unlinked' => \A i \in 1 .. Len(P) : <<r, P[i]>> \in links'
    <3> SUFFICES ASSUME ~ unlinked', NEW i \in 1 .. Len(P) PROVE <<r, P[i]>> \in links'
      OBVIOUS
    <3>1. CASE i = Len(P)
      BY <3>1, <1>4
    <3>2. CASE i # Len(P)
      BY <3>2, <1>3, <1>4, <2>1
    <3>3. QED
      BY <3>1, <3>2
  <2>3. ~ unlinked' => <<j, r>> \in links'
    BY <1>4, <2>1
  <2>4. Len(P) <= Len(FirstPermissions) /\ Len(FirstPermissions) \in Nat
    BY <1>1, FirstPermissionsAssumption DEF JobOK
  <2>5. job'[j].step = IF Len(P) = Len(FirstPermissions) THEN "done" ELSE "permission"
    BY <1>2 DEF NextPermission, Created
  <2> HIDE DEF P
  <2>6. QED
    BY <1>2, <1>3, <2>1, <2>2, <2>3, <2>4, <2>5 DEF JobOK
<1>6. JobInv'
  BY <1>2, <1>4, <1>5, OtherJobs DEF Accounted, AccountTypeOK, LinksKept
<1>7. AccountTypeOK'
  <2>1. job' \in [Jobs -> [step : JobStep, role : SUBSET Roles, permissions : Seq(Permissions)]]
    BY <1>2, JobStepType DEF GrantFirstPermission, JobTo
  <2>2. l \in Links
    BY <1>1, <1>3 DEF Links
  <2>3. QED
    BY <1>4, <2>1, <2>2 DEF Accounted, AccountTypeOK, GrantFirstPermission
<1>8. QED
  BY <1>6, <1>7 DEF Accounted

LEMMA JobSteppingAccounted == Accounted /\ JobStepping => Accounted'
<1> SUFFICES ASSUME Accounted, JobStepping PROVE Accounted'
  OBVIOUS
<1>1. ASSUME NEW j \in Jobs,
             StartJob(j) \/ CountUsers(j) \/ CountRoles(j) \/ CountPermissions(j)
      PROVE  Accounted'
  <2>1. CASE StartJob(j)
    BY <2>1, JobReadsAccounted DEF StartJob
  <2>2. CASE CountUsers(j)
    BY <2>2, JobReadsAccounted DEF CountUsers
  <2>3. CASE CountRoles(j)
    BY <2>3, JobReadsAccounted DEF CountRoles
  <2>4. CASE CountPermissions(j)
    BY <2>4, JobReadsAccounted DEF CountPermissions
  <2>5. QED
    BY <1>1, <2>1, <2>2, <2>3, <2>4
<1>2. ASSUME NEW j \in Jobs, JobRefused(j) PROVE Accounted'
  BY <1>2, EndJobAccounted DEF JobRefused
<1>3. QED
  BY <1>1, <1>2, FirstUserAccounted, FirstRoleAccounted, LinkFirstRoleAccounted,
     FirstPermissionAccounted, GrantFirstPermissionAccounted DEF JobStepping

LEMMA AccountFaultAccounted == Accounted /\ AccountFault => Accounted'
<1> SUFFICES ASSUME Accounted, AccountFault PROVE Accounted'
  OBVIOUS
<1>1. ASSUME NEW u \in Users, CreateUserFails(u) PROVE Accounted'
  <2>1. AccountTypeOK' /\ LinksKept /\ job' = job
    BY <1>1 DEF Accounted, AccountTypeOK, LinksKept, CreateUserFails, UserStepFrom,
                InsertRow, UserStep, linkVars, Ids
  <2>2. QED
    BY <2>1, JobsUntouched DEF Accounted
<1>2. ASSUME NEW c \in LinkCalls, LinkCallFails(c) PROVE Accounted'
  <2>1. AccountTypeOK' /\ LinksKept /\ job' = job
    BY <1>2 DEF Accounted, AccountTypeOK, LinksKept, LinkCallFails, LinkStepFrom, LinkStep
  <2>2. QED
    BY <2>1, JobsUntouched DEF Accounted
<1>3. ASSUME NEW j \in Jobs, JobFails(j) PROVE Accounted'
  BY <1>3, EndJobAccounted DEF JobFails
<1>4. QED
  BY <1>1, <1>2, <1>3 DEF AccountFault

(* A session leaves the accounts alone.                                      *)
LEMMA UntouchedAccounts == Accounted /\ UNCHANGED accountVars => Accounted'
<1> SUFFICES ASSUME Accounted, UNCHANGED accountVars PROVE Accounted'
  OBVIOUS
<1>1. AccountTypeOK'
  BY DEF Accounted, AccountTypeOK, accountVars, linkVars
<1>2. LinksKept /\ job' = job
  BY DEF Accounted, AccountTypeOK, accountVars, linkVars, LinksKept
<1>3. QED
  BY <1>1, <1>2, JobsUntouched DEF Accounted

LEMMA AccountsNext == Accounted /\ [Next]_vars => Accounted'
<1> SUFFICES ASSUME Accounted, [Next]_vars PROVE Accounted'
  OBVIOUS
<1>1. CASE AccountStep
  BY <1>1, UserSteppingAccounted, RoleSteppingAccounted, LinkSteppingAccounted,
     JobSteppingAccounted DEF AccountStep
<1>2. CASE SessionStep
  BY <1>2, UntouchedAccounts DEF SessionStep
<1>3. CASE Fault
  BY <1>3, UntouchedAccounts, AccountFaultAccounted DEF Fault
<1>4. CASE UNCHANGED vars
  BY <1>4, UntouchedAccounts DEF vars
<1>5. QED
  BY <1>1, <1>2, <1>3, <1>4 DEF Next

THEOREM AccountsHold == Spec => []Accounted
<1>1. Init => Accounted
  BY AccountsInitially DEF Init
<1>2. QED
  BY <1>1, AccountsNext, PTL DEF Spec

(* A run of the job that ends well has linked its role and every permission  *)
(* it created, however other calls and the other run interleave with it      *)
(* (initialization job: main, createFirstUser and what follows).             *)
THEOREM SetupWhole == Spec => []SetupIsWhole
<1>1. Accounted => SetupIsWhole
  <2> SUFFICES ASSUME Accounted, NEW j \in Jobs, job[j].step = "done", ~ unlinked
               PROVE  /\ Len(job[j].permissions) = Len(FirstPermissions)
                      /\ \E r \in RolesOf(j) \intersect job[j].role :
                           \A i \in DOMAIN job[j].permissions :
                             <<r, job[j].permissions[i]>> \in links
    BY DEF SetupIsWhole
  <2>1. JobOK(j) /\ job[j].permissions \in Seq(Permissions)
    BY DEF Accounted, AccountTypeOK, JobInv
  <2>2. PICK r \in Roles :
          /\ job[j].role = {r}
          /\ <<j, r>> \in links
          /\ \A i \in 1 .. Len(job[j].permissions) : <<r, job[j].permissions[i]>> \in links
    BY <2>1 DEF JobOK
  <2>3. QED
    BY <2>1, <2>2 DEF JobOK, RolesOf
<1>2. QED
  BY <1>1, AccountsHold, PTL

---------------------------------------------------------------------------
(* The links *)

(* A link is added only between rows that are there, and goes with them.     *)
LEMMA LinksNext ==
  ASSUME NoDanglingLinks, Next
  PROVE  NoDanglingLinks'
<1> USE DEF NoDanglingLinks, linkVars
<1>1. CASE UserStepping
  BY <1>1 DEF UserStepping, CreateUser, RefuseUser, CreateUserPassword,
              RefusePassword, UpdateUser, UpdateUserPassword, InsertRow
<1>2. CASE RoleStepping
  BY <1>2 DEF RoleStepping, CreateUserRole, DeleteUserRole, DeleteUserPermission,
              CreateUserPermission, UpdateUserPermission, InsertPermission,
              InsertRow, DropRow
<1>3. CASE LinkStepping
  BY <1>3 DEF LinkStepping, AddUserRoleToUser, RemoveUserRoleFromUser,
              AddUserPermissionToUserRole, RemoveUserPermissionFromUserRole,
              StartLinkCall, LinkStepFrom, ReadEnds, AddLink, RemoveLink,
              RefuseLink, Addable
<1>4. CASE JobStepping
  BY <1>4 DEF JobStepping, StartJob, CountUsers, CountRoles, CountPermissions,
              JobReads, CreateFirstUser, CreateFirstPassword, CreateFirstRole,
              LinkFirstRole, CreateFirstPermission, GrantFirstPermission,
              InsertPermission, InsertRow, Addable, JobRefused, EndJob
<1>5. CASE AccountFault
  BY <1>5 DEF AccountFault, CreateUserFails, InsertRow, LinkCallFails,
              LinkStepFrom, JobFails, EndJob
<1>6. CASE UNCHANGED accountVars
  BY <1>6 DEF accountVars
<1>7. QED
  BY <1>1, <1>2, <1>3, <1>4, <1>5, <1>6 DEF Next, AccountStep, SessionStep, Fault

(* The rows a link is between are there: a role or a permission takes its    *)
(* links with it, and a call whose row went between its two reads and its    *)
(* transaction fails (addUserRoleToUser, addUserPermissionToUserRole).       *)
THEOREM LinksAreBetweenRows == Spec => []NoDanglingLinks
<1>1. Init => NoDanglingLinks
  BY DEF Init, AccountInit, NoDanglingLinks
<1>2. NoDanglingLinks /\ UNCHANGED vars => NoDanglingLinks'
  BY DEF NoDanglingLinks, vars, accountVars, linkVars
<1>3. QED
  BY <1>1, <1>2, LinksNext, PTL DEF Spec

---------------------------------------------------------------------------
(* The sessions: their types but for the history, and what they rest on      *)

SessionRows ==
  /\ now \in 0 .. MaxTime
  /\ server \in Processes
  /\ keyRows \subseteq Processes
  /\ token \in [Tokens -> TokenRow \union {NoRow}]
  /\ blacklist \in [Tokens -> Nat]
  /\ cleaning \subseteq Processes \X Nat
  /\ cookie \in [Browsers -> MaybeToken]
  /\ request \in [Requests -> RequestRow \union {Idle}]
  /\ revocation \in [Requests -> RevocationStep]

Sound ==
  /\ SessionRows
  /\ TokenInv
  /\ BlacklistInv
  /\ RequestInv
  /\ RevokedInv
  /\ LoggedOutIsRevoked

LEMMA StoredRow ==
  ASSUME SessionRows, NEW q \in Requests, Stored(q)
  PROVE  request[q] \in RequestRow
  BY DEF SessionRows, Stored, Idle

LEMMA MadeRow ==
  ASSUME SessionRows, NEW t \in Tokens, Made(t)
  PROVE  token[t] \in TokenRow
  BY DEF SessionRows, Made

LEMMA SessionsInitially == AccountInit /\ SessionInit => Sound
<1> SUFFICES ASSUME SessionInit PROVE Sound
  OBVIOUS
<1>1. PICK u \in [Tokens -> Earlier \union {NoToken}] :
        /\ \A t \in Tokens : u[t] = NoToken <=> \A b \in Browsers : FirstCookie[b] # t
        /\ token = [t \in Tokens |->
             IF u[t] = NoToken THEN NoRow
             ELSE [user |-> u[t], id |-> t, at |-> 0, key |-> server]]
  BY DEF SessionInit
<1>2. \A t \in Tokens :
        Made(t) => /\ token[t] \in TokenRow
                   /\ token[t].id = t /\ token[t].at = 0 /\ token[t].key = server
  BY <1>1, EarlierAssumption, NoTokenAssumption DEF Made, SessionInit, TokenRow
<1>3. \A t \in Tokens : u[t] # NoToken => Made(t)
  BY <1>1, TimesAssumption DEF Made, NoRow
<1>4. \A q \in Requests : request[q] = Idle /\ revocation[q] = "none"
  BY DEF SessionInit
<1>5. SessionRows
  BY <1>1, EarlierAssumption, TimesAssumption, CookieAssumption
     DEF SessionRows, SessionInit, TokenRow, MaybeToken, RevocationStep
<1>6. TokenInv
  <2>1. \A b \in Browsers : cookie[b] # NoToken => Made(cookie[b])
    BY <1>1, <1>3, CookieAssumption DEF SessionInit
  <2>2. QED
    BY <1>2, <2>1 DEF TokenInv, TokenOK, SessionInit
<1>7. BlacklistInv
  BY DEF BlacklistInv, SessionInit
<1>8. RequestInv /\ RevokedInv /\ LoggedOutIsRevoked
  BY <1>4 DEF RequestInv, RevokedInv, LoggedOutIsRevoked, Stored, Idle
<1>9. QED
  BY <1>5, <1>6, <1>7, <1>8 DEF Sound

(* A token that was made stays as it is.                                     *)
TokensKept == \A t \in Tokens : Made(t) => Made(t)' /\ token'[t] = token[t]

(* What a request is about stays.                                            *)
SameRequest(q) ==
  /\ Stored(q) /\ Stored(q)'
  /\ request'[q].kind = request[q].kind
  /\ request'[q].token = request[q].token
  /\ request'[q].user = request[q].user
  /\ request'[q].revoked = request[q].revoked

(* A request moves on; one that gets past the blacklist was not on it.       *)
Moved(q) ==
  /\ SameRequest(q)
  /\ RequestOK(q)'
  /\ Accepted(q)' => Accepted(q) \/ ~ Blacklisted(request[q].token)

RevocationMoved(q) ==
  \/ revocation'[q] = revocation[q]
  \/ revocation[q] # "none" /\ revocation'[q] = "lost"
  \/ Stored(q) /\ request[q].kind # "login" /\ revocation'[q] = "decoding"

Moves ==
  /\ UNCHANGED <<now, cleaning, blacklist>>
  /\ \A q \in Requests : request'[q] = request[q] \/ Moved(q)
  /\ \A q \in Requests : RevocationMoved(q)

LEMMA LoggedOutStays ==
  ASSUME Sound, TokensKept, NEW i \in Tokens, LoggedOutAs(i),
         \A q \in Requests : request'[q] = request[q] \/ SameRequest(q),
         \A q \in Requests : revocation[q] # "none" => revocation'[q] # "none"
  PROVE  LoggedOutAs(i)'
<1>1. PICK t \in Tokens : Made(t) /\ token[t].id = i /\ LoggedOut(t)
  BY DEF LoggedOutAs
<1>2. PICK p \in Requests : revocation[p] # "none" /\ request[p].token = t
  BY <1>1 DEF LoggedOut
<1>3. revocation'[p] # "none" /\ request'[p].token = t
  BY <1>2 DEF SameRequest
<1>4. Made(t)' /\ token'[t].id = i
  BY <1>1 DEF TokensKept
<1>5. QED
  BY <1>3, <1>4 DEF LoggedOutAs, LoggedOut

LEMMA MovesSound ==
  ASSUME Sound, Moves, TokensKept, TokenInv', SessionRows'
  PROVE  Sound'
<1>1. \A q \in Requests : request'[q] = request[q] \/ SameRequest(q)
  BY DEF Moves, Moved
<1>2. \A q \in Requests : revocation[q] # "none" => revocation'[q] # "none"
  BY DEF Moves, RevocationMoved
<1>3. \A t \in Tokens : Made(t) =>
        /\ Made(t)'
        /\ token'[t] = token[t]
        /\ Expired(t)' = Expired(t)
        /\ Blacklisted(t)' = Blacklisted(t)
        /\ ExpireAt(t)' = ExpireAt(t)
  BY DEF TokensKept, Moves, Expired, ExpireAt, Blacklisted
<1>4. BlacklistInv'
  <2>1. ASSUME NEW i \in Tokens, blacklist'[i] # 0
        PROVE  Made(i)' /\ blacklist'[i] = ExpireAt(i)' /\ LoggedOutAs(i)'
    <3>1. Made(i) /\ blacklist[i] = ExpireAt(i) /\ LoggedOutAs(i) /\ blacklist' = blacklist
      BY <2>1 DEF Sound, BlacklistInv, Moves
    <3>2. LoggedOutAs(i)'
      BY <1>1, <1>2, <3>1, LoggedOutStays
    <3>3. QED
      BY <1>3, <3>1, <3>2
  <2>2. \A c \in cleaning' : c[2] <= now'
    BY DEF Sound, BlacklistInv, Moves
  <2>3. QED
    BY <2>1, <2>2 DEF BlacklistInv
<1>5. RequestInv'
  <2>1. ASSUME NEW q \in Requests, Stored(q)' PROVE RequestOK(q)'
    <3>1. CASE request'[q] = request[q]
      <4>1. Stored(q) /\ RequestOK(q)
        BY <2>1, <3>1 DEF Sound, RequestInv, Stored
      <4>2. request[q].renewed \in MaybeToken
        BY <4>1, StoredRow DEF Sound, RequestRow
      <4>3. QED
        BY <1>3, <3>1, <4>1, <4>2 DEF RequestOK, MaybeToken
    <3>2. CASE Moved(q)
      BY <3>2 DEF Moved
    <3>3. QED
      BY <3>1, <3>2 DEF Moves
  <2>2. ASSUME NEW q \in Requests, revocation'[q] # "none"
        PROVE  Stored(q)' /\ request'[q].kind # "login"
    <3>1. Stored(q) /\ request[q].kind # "login"
      BY <2>2 DEF Sound, RequestInv, Moves, RevocationMoved
    <3>2. QED
      BY <1>1, <3>1 DEF SameRequest, Stored
  <2>3. QED
    BY <2>1, <2>2 DEF RequestInv
<1>6. RevokedInv'
  <2> SUFFICES ASSUME NEW q \in Requests, Stored(q)', request'[q].revoked
               PROVE  \/ Expired(request[q].token)'
                      \/ Blacklisted(request[q].token)' /\ ~ Accepted(q)'
    BY DEF RevokedInv
  <2>1. /\ Stored(q) /\ request[q].revoked
        /\ request'[q].token = request[q].token
    BY <1>1 DEF SameRequest, Stored
  <2>2. request[q].token \in Tokens /\ Made(request[q].token)
    BY <2>1 DEF Sound, RequestInv, RequestOK
  <2>3. Accepted(q)' => Accepted(q) \/ ~ Blacklisted(request[q].token)
    BY DEF Moves, Moved, Accepted
  <2>4. QED
    BY <1>3, <2>1, <2>2, <2>3 DEF Sound, RevokedInv, Expired, ExpireAt, Blacklisted
<1>7. LoggedOutIsRevoked'
  <2> SUFFICES ASSUME NEW q \in Requests, revocation'[q] = "ended"
               PROVE  (Blacklisted(request[q].token) \/ Expired(request[q].token))'
    BY DEF LoggedOutIsRevoked
  <2>1. revocation[q] = "ended"
    BY DEF Moves, RevocationMoved
  <2>2. Stored(q) /\ request[q].kind # "login"
    BY <2>1 DEF Sound, RequestInv
  <2>3. request[q].token \in Tokens /\ Made(request[q].token)
    BY <2>2 DEF Sound, RequestInv, RequestOK
  <2>4. request'[q].token = request[q].token
    BY <1>1 DEF SameRequest
  <2>5. Blacklisted(request[q].token) \/ Expired(request[q].token)
    BY <2>1 DEF Sound, LoggedOutIsRevoked
  <2>6. QED
    BY <1>3, <2>3, <2>4, <2>5 DEF Blacklisted, Expired, ExpireAt
<1>8. QED
  BY <1>4, <1>5, <1>6, <1>7 DEF Sound

(* A step that makes no token.                                               *)
LEMMA SameTokens ==
  ASSUME Sound, UNCHANGED <<now, token>>, server' \in keyRows', keyRows \subseteq keyRows',
         \A b \in Browsers : cookie'[b] \in {NoToken, cookie[b]} \/ Made(cookie'[b])
  PROVE  TokensKept /\ TokenInv'
<1>1. TokensKept
  BY DEF TokensKept, Made
<1>2. \A t \in Tokens : Made(t)' => TokenOK(t)'
  BY DEF Sound, TokenInv, TokenOK, Made
<1>3. \A b \in Browsers : cookie'[b] # NoToken => token'[cookie'[b]] # NoRow
  BY DEF Sound, TokenInv, Made
<1>4. QED
  BY <1>1, <1>2, <1>3 DEF TokenInv, Made

(* A step of one request, which makes no token and has no row blacklisted.   *)
LEMMA OneMoves ==
  ASSUME Sound, SessionRows', NEW q \in Requests, Moved(q),
         UNCHANGED <<processVars, token, blacklist>>,
         \A b \in Browsers : cookie'[b] \in {NoToken, cookie[b]} \/ Made(cookie'[b]),
         \A p \in Requests \ {q} : request'[p] = request[p],
         \A p \in Requests : RevocationMoved(p)
  PROVE  Sound'
<1>1. TokensKept /\ TokenInv'
  BY SameTokens DEF Sound, TokenInv, processVars
<1>2. Moves
  BY DEF Moves, processVars
<1>3. QED
  BY <1>1, <1>2, MovesSound

(* A step that only takes a request from one step to another.                *)
EarlySteps == {"name", "hash", "comparing"}
TokenSteps == {"decoding", "checking", "reading", "renewing", "leaving", "answered"}

LEMMA StepMoves ==
  ASSUME Sound, NEW q \in Requests, Stored(q), NEW s \in RequestStep,
         request' = [request EXCEPT ![q].step = s],
         s \in EarlySteps => request[q].kind = "login",
         s \in TokenSteps => request[q].kind # "login",
         s \notin {"refused", "failed"} =>
           request[q].kind = "login" \/ Accepted(q) \/ ~ Blacklisted(request[q].token)
              \/ s \notin {"reading", "renewing", "roles", "permissions",
                           "leaving", "answered", "done", "forbidden"},
         UNCHANGED token
  PROVE  /\ Moved(q)
         /\ request' \in [Requests -> RequestRow \union {Idle}]
         /\ \A p \in Requests \ {q} : request'[p] = request[p]
<1>1. request[q] \in RequestRow /\ RequestOK(q)
  BY StoredRow DEF Sound, RequestInv
<1>2. /\ request'[q] = [request[q] EXCEPT !.step = s]
      /\ \A p \in Requests \ {q} : request'[p] = request[p]
  BY DEF Sound, SessionRows
<1>3. /\ request'[q] \in RequestRow
      /\ request'[q].step = s
      /\ request'[q].kind = request[q].kind
      /\ request'[q].token = request[q].token
      /\ request'[q].renewed = request[q].renewed
      /\ request'[q].user = request[q].user
      /\ request'[q].revoked = request[q].revoked
  BY <1>1, <1>2 DEF RequestRow
<1>4. request' \in [Requests -> RequestRow \union {Idle}]
  BY <1>2, <1>3 DEF Sound, SessionRows
<1>5. SameRequest(q)
  BY <1>3 DEF SameRequest, Stored, RequestStep, Refusals
<1>6. RequestOK(q)'
  BY <1>1, <1>3 DEF RequestOK, Made, EarlySteps, TokenSteps
<1>7. Accepted(q)' => Accepted(q) \/ ~ Blacklisted(request[q].token)
  BY <1>3 DEF Accepted
<1>8. QED
  BY <1>2, <1>4, <1>5, <1>6, <1>7 DEF Moved

LEMMA OnlyRequestSound ==
  ASSUME Sound, OnlyRequest, NEW q \in Requests, Moved(q),
         request' \in [Requests -> RequestRow \union {Idle}],
         \A p \in Requests \ {q} : request'[p] = request[p]
  PROVE  Sound'
<1>1. SessionRows'
  BY DEF Sound, SessionRows, OnlyRequest, processVars
<1>2. \A p \in Requests : RevocationMoved(p)
  BY DEF OnlyRequest, RevocationMoved
<1>3. QED
  BY <1>1, <1>2, OneMoves DEF OnlyRequest

LEMMA StepSound ==
  ASSUME Sound, OnlyRequest, NEW q \in Requests, NEW s \in RequestStep,
         request' = [request EXCEPT ![q].step = s], Stored(q),
         s \in EarlySteps => request[q].kind = "login",
         s \in TokenSteps => request[q].kind # "login",
         s \notin {"refused", "failed"} =>
           request[q].kind = "login" \/ Accepted(q) \/ ~ Blacklisted(request[q].token)
              \/ s \notin {"reading", "renewing", "roles", "permissions",
                           "leaving", "answered", "done", "forbidden"}
  PROVE  Sound'
<1>1. UNCHANGED token
  BY DEF OnlyRequest
<1>2. QED
  BY <1>1, StepMoves, OnlyRequestSound

LEMMA KindOfStep ==
  ASSUME Sound, NEW q \in Requests, Stored(q)
  PROVE  /\ request[q].step \in EarlySteps => request[q].kind = "login"
         /\ request[q].step \in TokenSteps => request[q].kind # "login"
  BY DEF Sound, RequestInv, RequestOK, EarlySteps, TokenSteps

LEMMA PlainStepsSound ==
  ASSUME Sound, NEW q \in Requests,
         \/ ReadUsername(q) \/ IncorrectPassword(q) \/ Decode(q)
         \/ CheckBlacklist(q) \/ ReadUser(q) \/ RequestFails(q)
  PROVE  Sound'
<1> USE KindOfStep DEF RequestTo, Stored, EarlySteps, TokenSteps, RequestStep, Refusals
<1>1. CASE ReadUsername(q)
  <2>1. PICK s \in {"hash", "failed"} : request' = [request EXCEPT ![q].step = s]
    BY <1>1 DEF ReadUsername
  <2>2. QED
    BY <1>1, <2>1, StepSound DEF ReadUsername
<1>2. CASE IncorrectPassword(q)
  BY <1>2, StepSound DEF IncorrectPassword
<1>3. CASE Decode(q)
  BY <1>3, StepSound DEF Decode
<1>4. CASE CheckBlacklist(q)
  BY <1>4, StepSound DEF CheckBlacklist
<1>5. CASE ReadUser(q)
  <2>1. PICK s \in {"renewing", "roles"} : request' = [request EXCEPT ![q].step = s]
    BY <1>5 DEF ReadUser
  <2>2. Accepted(q)
    BY <1>5 DEF ReadUser, Accepted
  <2>3. QED
    BY <1>5, <2>1, <2>2, StepSound DEF ReadUser
<1>6. CASE RequestFails(q)
  <2>1. request' = [request EXCEPT ![q].step = "failed"] /\ Stored(q) /\ OnlyRequest
    BY <1>6 DEF RequestFails, Active
  <2>2. QED
    BY <2>1, StepSound
<1>7. QED
  BY <1>1, <1>2, <1>3, <1>4, <1>5, <1>6

LEMMA RefuseSound ==
  ASSUME Sound, NEW q \in Requests, NEW from \in {"decoding", "checking"}, Refuse(q, from)
  PROVE  Sound'
<1>1. request' = [request EXCEPT ![q].step = "refused"] /\ Stored(q)
  BY DEF Refuse, RequestTo, Stored
<1>2. /\ Moved(q)
      /\ request' \in [Requests -> RequestRow \union {Idle}]
      /\ \A p \in Requests \ {q} : request'[p] = request[p]
  <2>1. UNCHANGED token
    BY DEF Refuse
  <2>2. QED
    BY <1>1, <2>1, StepMoves DEF EarlySteps, TokenSteps, RequestStep, Refusals
<1>3. \A b \in Browsers : cookie'[b] \in {NoToken, cookie[b]}
  BY DEF Refuse, Sound, SessionRows
<1>4. SessionRows'
  BY <1>2 DEF Refuse, Sound, SessionRows, processVars, MaybeToken
<1>5. \A p \in Requests : RevocationMoved(p)
  BY DEF Refuse, RevocationMoved
<1>6. QED
  BY <1>2, <1>3, <1>4, <1>5, OneMoves DEF Refuse

LEMMA LogoutStepsSound ==
  ASSUME Sound, NEW q \in Requests, BlacklistToken(q) \/ ClearCookie(q)
  PROVE  Sound'
<1>1. PICK s \in {"answered", "done"} :
        /\ request' = [request EXCEPT ![q].step = s]
        /\ request[q].step \in {"leaving", "answered"}
  BY DEF BlacklistToken, ClearCookie, RequestTo
<1>2. Stored(q) /\ request[q].kind # "login" /\ Accepted(q)
  BY <1>1, KindOfStep DEF Stored, TokenSteps, Accepted
<1>3. /\ Moved(q)
      /\ request' \in [Requests -> RequestRow \union {Idle}]
      /\ \A p \in Requests \ {q} : request'[p] = request[p]
  <2>1. UNCHANGED token
    BY DEF BlacklistToken, ClearCookie
  <2>2. s \in RequestStep
    BY DEF RequestStep
  <2>3. QED
    BY <1>1, <1>2, <2>1, <2>2, StepMoves DEF EarlySteps, TokenSteps
<1>4. \A b \in Browsers : cookie'[b] \in {NoToken, cookie[b]}
  BY DEF BlacklistToken, ClearCookie, Sound, SessionRows
<1>5. SessionRows'
  BY <1>3 DEF BlacklistToken, ClearCookie, Sound, SessionRows, processVars,
              MaybeToken, RevocationStep
<1>6. \A p \in Requests : RevocationMoved(p)
  BY <1>2 DEF BlacklistToken, ClearCookie, RevocationMoved, Sound, SessionRows
<1>7. QED
  BY <1>3, <1>4, <1>5, <1>6, OneMoves DEF BlacklistToken, ClearCookie

LEMMA ReadsSound ==
  ASSUME Sound, AccountTypeOK, NEW q \in Requests, ReadHash(q) \/ ReadRoleIds(q)
  PROVE  Sound'
<1>1. Stored(q) /\ RequestOK(q) /\ request[q] \in RequestRow
  <2>1. Stored(q)
    BY DEF ReadHash, ReadRoleIds, Stored
  <2>2. QED
    BY <2>1, StoredRow DEF Sound, RequestInv
<1>2. CASE ReadHash(q)
  <2>1. PICK s \in {"failed", "comparing"} :
          request' = [request EXCEPT ![q].step = s,
                                     ![q].hash = password[request[q].user]]
    BY <1>2 DEF ReadHash
  <2>2. password[request[q].user] \in Passwords \union {NoPassword}
    BY <1>1 DEF AccountTypeOK, RequestRow
  <2>3. /\ request'[q] = [request[q] EXCEPT !.step = s, !.hash = password[request[q].user]]
        /\ \A p \in Requests \ {q} : request'[p] = request[p]
    BY <2>1 DEF Sound, SessionRows
  <2>4. /\ request'[q] \in RequestRow
        /\ request'[q].step = s
        /\ request'[q].kind = request[q].kind
        /\ request'[q].token = request[q].token
        /\ request'[q].renewed = request[q].renewed
        /\ request'[q].user = request[q].user
        /\ request'[q].revoked = request[q].revoked
    BY <1>1, <2>2, <2>3 DEF RequestRow, RequestStep, Refusals
  <2>5. request' \in [Requests -> RequestRow \union {Idle}]
    BY <2>1, <2>3, <2>4 DEF Sound, SessionRows
  <2>6. request[q].kind = "login" /\ UNCHANGED token
    BY <1>1, <1>2 DEF ReadHash, OnlyRequest, RequestOK, EarlySteps
  <2>7. Moved(q)
    BY <1>1, <2>4, <2>6 DEF Moved, SameRequest, Stored, RequestOK, Made, Accepted
  <2>8. QED
    BY <1>2, <2>3, <2>5, <2>7, OnlyRequestSound DEF ReadHash
<1>3. CASE ReadRoleIds(q)
  <2>1. RolesOf(request[q].user) \in SUBSET Roles
    BY DEF RolesOf
  <2>2. request' = [request EXCEPT ![q].step = "permissions",
                                   ![q].roles = RolesOf(request[q].user)]
    BY <1>3 DEF ReadRoleIds
  <2>3. /\ request'[q] = [request[q] EXCEPT !.step = "permissions",
                                            !.roles = RolesOf(request[q].user)]
        /\ \A p \in Requests \ {q} : request'[p] = request[p]
    BY <2>2 DEF Sound, SessionRows
  <2>4. /\ request'[q] \in RequestRow
        /\ request'[q].step = "permissions"
        /\ request'[q].kind = request[q].kind
        /\ request'[q].token = request[q].token
        /\ request'[q].renewed = request[q].renewed
        /\ request'[q].user = request[q].user
        /\ request'[q].revoked = request[q].revoked
    BY <1>1, <2>1, <2>3 DEF RequestRow, RequestStep, Refusals
  <2>5. request' \in [Requests -> RequestRow \union {Idle}]
    BY <2>2, <2>3, <2>4 DEF Sound, SessionRows
  <2>6. UNCHANGED token /\ request[q].step = "roles"
    BY <1>3 DEF ReadRoleIds, OnlyRequest
  <2>7. Moved(q)
    BY <1>1, <2>4, <2>6 DEF Moved, SameRequest, Stored, RequestOK, Made, Accepted
  <2>8. QED
    BY <1>3, <2>3, <2>5, <2>7, OnlyRequestSound DEF ReadRoleIds
<1>4. QED
  BY <1>2, <1>3

LEMMA AuthorizeSound ==
  ASSUME Sound, AccountTypeOK, NEW q \in Requests, Authorize(q)
  PROVE  Sound'
<1> DEFINE granted == NamesOf(request[q].roles)
<1>1. Stored(q) /\ RequestOK(q) /\ request[q] \in RequestRow
  <2>1. Stored(q)
    BY DEF Authorize, Stored
  <2>2. QED
    BY <2>1, StoredRow DEF Sound, RequestInv
<1>2. PICK s \in {"forbidden", "leaving", "done"} :
        /\ request' = [request EXCEPT ![q].granted = granted, ![q].step = s]
        /\ s = "leaving" => request[q].kind # "login"
  BY DEF Authorize
<1>3. granted \in SUBSET PermissionNames
  BY DEF NamesOf, AccountTypeOK
<1>4. /\ request'[q] = [request[q] EXCEPT !.granted = granted, !.step = s]
      /\ \A p \in Requests \ {q} : request'[p] = request[p]
  BY <1>2 DEF Sound, SessionRows
<1> HIDE DEF granted
<1>5. /\ request'[q] \in RequestRow
      /\ request'[q].step = s
      /\ request'[q].kind = request[q].kind
      /\ request'[q].token = request[q].token
      /\ request'[q].renewed = request[q].renewed
      /\ request'[q].user = request[q].user
      /\ request'[q].revoked = request[q].revoked
  BY <1>1, <1>3, <1>4 DEF RequestRow, RequestStep, Refusals
<1>6. request' \in [Requests -> RequestRow \union {Idle}]
  BY <1>2, <1>4, <1>5 DEF Sound, SessionRows
<1>7. UNCHANGED token /\ request[q].step = "permissions"
  BY DEF Authorize
<1>8. Moved(q)
  BY <1>1, <1>2, <1>5, <1>7 DEF Moved, SameRequest, Stored, RequestOK, Made, Accepted
<1>9. \/ cookie' = cookie
      \/ /\ cookie' = [cookie EXCEPT ![request[q].browser] = request[q].renewed]
         /\ request[q].renewed \in Tokens /\ Made(request[q].renewed)
  BY <1>1 DEF Authorize, RequestOK, RequestRow, MaybeToken
<1>10. \A b \in Browsers : cookie'[b] \in {NoToken, cookie[b]} \/ Made(cookie'[b])
  BY <1>9 DEF Sound, SessionRows
<1>11. SessionRows'
  BY <1>6, <1>9 DEF Authorize, Sound, SessionRows, processVars, MaybeToken
<1>12. \A p \in Requests : RevocationMoved(p)
  BY DEF Authorize, RevocationMoved
<1>13. QED
  BY <1>4, <1>8, <1>10, <1>11, <1>12, OneMoves DEF Authorize

(* A new token takes its id from itself or from one of the same instant.     *)
LEMMA GenerateTokens ==
  ASSUME Sound, NEW t \in Tokens, NEW i \in Tokens, NEW u \in Users, Generate(t, u, i),
         UNCHANGED <<now, server, keyRows, cookie>>
  PROVE  /\ TokensKept /\ TokenInv' /\ Made(t)'
         /\ token' \in [Tokens -> TokenRow \union {NoRow}]
<1> DEFINE row == [user |-> u, id |-> i, at |-> now, key |-> server]
<1>1. /\ ~ Made(t)
      /\ token' = [token EXCEPT ![t] = row]
      /\ i = t \/ \E s \in Tokens : Made(s) /\ token[s].at = now /\ token[s].id = i
  BY DEF Generate
<1>2. row \in TokenRow /\ row # NoRow
  BY TimesAssumption DEF Sound, SessionRows, TokenRow, NoRow
<1>3. token'[t] = row /\ \A s \in Tokens \ {t} : token'[s] = token[s]
  BY <1>1 DEF Sound, SessionRows
<1>4. TokensKept /\ Made(t)'
  BY <1>1, <1>2, <1>3 DEF TokensKept, Made
<1>5. TokenOK(t)'
  <2>1. CASE i = t
    BY <1>2, <1>3, <1>4, <2>1 DEF TokenOK, Sound, SessionRows, TokenInv
  <2>2. ASSUME NEW s \in Tokens, Made(s), token[s].at = now, token[s].id = i
        PROVE  TokenOK(t)'
    <3>1. Made(i) /\ token[i].at = now
      BY <2>2 DEF Sound, TokenInv, TokenOK
    <3>2. Made(i)' /\ token'[i].at = now
      BY <3>1, <1>4 DEF TokensKept
    <3>3. QED
      BY <1>2, <1>3, <3>2 DEF TokenOK, Sound, SessionRows, TokenInv
  <2>3. QED
    BY <1>1, <2>1, <2>2
<1>6. ASSUME NEW s \in Tokens \ {t}, Made(s)' PROVE TokenOK(s)'
  <2>1. Made(s) /\ TokenOK(s)
    BY <1>3, <1>6 DEF Made, Sound, TokenInv
  <2>2. token[s].id \in Tokens
    BY <2>1 DEF TokenOK, TokenRow
  <2>3. QED
    BY <1>3, <1>4, <2>1, <2>2 DEF TokenOK, TokensKept
<1>7. \A b \in Browsers : cookie'[b] # NoToken => Made(cookie[b])'
  BY <1>4 DEF Sound, SessionRows, TokenInv, TokensKept, MaybeToken
<1>8. TokenInv'
  BY <1>5, <1>6, <1>7 DEF TokenInv, Sound
<1>9. token' \in [Tokens -> TokenRow \union {NoRow}]
  BY <1>1, <1>2 DEF Sound, SessionRows
<1>10. QED
  BY <1>4, <1>8, <1>9

LEMMA GeneratesSound ==
  ASSUME Sound, NEW q \in Requests, NEW t \in Tokens, NEW i \in Tokens,
         ComparePassword(q, t, i) \/ RenewToken(q, t, i)
  PROVE  Sound'
<1>1. Stored(q) /\ RequestOK(q) /\ request[q] \in RequestRow
  <2>1. Stored(q)
    BY DEF ComparePassword, RenewToken, Stored
  <2>2. QED
    BY <2>1, StoredRow DEF Sound, RequestInv
<1>2. /\ Generate(t, request[q].user, i)
      /\ request[q].step \in {"comparing", "renewing"}
      /\ request' = [request EXCEPT ![q].step = "roles", ![q].renewed = t]
      /\ UNCHANGED <<now, server, keyRows, cleaning, blacklist, cookie, revocation>>
  BY DEF ComparePassword, RenewToken, processVars
<1>3. request[q].user \in Users
  BY <1>1 DEF RequestRow
<1>4. /\ TokensKept /\ TokenInv' /\ Made(t)'
      /\ token' \in [Tokens -> TokenRow \union {NoRow}]
  BY <1>2, <1>3, GenerateTokens
<1>5. /\ request'[q] = [request[q] EXCEPT !.step = "roles", !.renewed = t]
      /\ \A p \in Requests \ {q} : request'[p] = request[p]
  BY <1>2 DEF Sound, SessionRows
<1>6. /\ request'[q] \in RequestRow
      /\ request'[q].step = "roles"
      /\ request'[q].kind = request[q].kind
      /\ request'[q].token = request[q].token
      /\ request'[q].renewed = t
      /\ request'[q].user = request[q].user
      /\ request'[q].revoked = request[q].revoked
  BY <1>1, <1>5 DEF RequestRow, RequestStep, MaybeToken
<1>7. SessionRows'
  BY <1>2, <1>4, <1>5, <1>6 DEF Sound, SessionRows
<1>8. Moved(q)
  BY <1>1, <1>2, <1>4, <1>6 DEF Moved, SameRequest, Stored, RequestOK, TokensKept, Accepted
<1>9. Moves
  BY <1>2, <1>5, <1>8 DEF Moves, RevocationMoved
<1>10. QED
  BY <1>4, <1>7, <1>9, MovesSound

(* A restart cuts off the requests and the revocations under way.            *)
LEMMA RestartSound ==
  ASSUME Sound, NEW c \in Processes, ServerRestarts(c)
  PROVE  Sound'
<1>1. TokensKept /\ TokenInv'
  BY SameTokens DEF ServerRestarts, NewKey
<1>2. ASSUME NEW q \in Requests
      PROVE  /\ request'[q] = request[q] \/ Moved(q)
             /\ request'[q] \in RequestRow \union {Idle}
  <2>1. CASE Active(q)
    <3>1. Stored(q) /\ RequestOK(q) /\ request[q] \in RequestRow
      <4>1. Stored(q)
        BY <2>1 DEF Active, Stored
      <4>2. QED
        BY <4>1, StoredRow DEF Sound, RequestInv
    <3>2. request'[q] = [request[q] EXCEPT !.step = "failed"]
      BY <2>1 DEF ServerRestarts
    <3>3. /\ request'[q] \in RequestRow
          /\ request'[q].step = "failed"
          /\ request'[q].kind = request[q].kind
          /\ request'[q].token = request[q].token
          /\ request'[q].renewed = request[q].renewed
          /\ request'[q].user = request[q].user
          /\ request'[q].revoked = request[q].revoked
      BY <3>1, <3>2 DEF RequestRow, RequestStep, Refusals
    <3>4. UNCHANGED token
      BY DEF ServerRestarts
    <3>5. QED
      BY <3>1, <3>3, <3>4 DEF Moved, SameRequest, Stored, RequestOK, Made, Accepted
  <2>2. CASE ~ Active(q)
    BY <2>2 DEF ServerRestarts, Sound, SessionRows
  <2>3. QED
    BY <2>1, <2>2
<1>3. SessionRows'
  <2>1. request' \in [Requests -> RequestRow \union {Idle}]
    BY <1>2 DEF ServerRestarts
  <2>2. revocation' \in [Requests -> RevocationStep]
    BY DEF ServerRestarts, RevocationStep, Sound, SessionRows
  <2>3. QED
    BY <2>1, <2>2 DEF ServerRestarts, NewKey, Sound, SessionRows
<1>4. Moves
  BY <1>2 DEF Moves, RevocationMoved, ServerRestarts
<1>5. QED
  BY <1>1, <1>3, <1>4, MovesSound

LEMMA RevocationFailsSound ==
  ASSUME Sound, NEW q \in Requests, RevocationFails(q)
  PROVE  Sound'
<1>1. UNCHANGED <<processVars, token, cookie, request, blacklist>>
  BY DEF RevocationFails, RevocationTo
<1>2. revocation' = [revocation EXCEPT ![q] = "lost"] /\ revocation[q] # "none"
  BY DEF RevocationFails, RevocationTo
<1>3. TokensKept /\ TokenInv'
  <2>1. \A b \in Browsers : cookie'[b] \in {NoToken, cookie[b]}
    BY <1>1
  <2>2. QED
    BY <1>1, <2>1, SameTokens DEF processVars, Sound, TokenInv
<1>4. SessionRows'
  BY <1>1, <1>2 DEF processVars, Sound, SessionRows, RevocationStep
<1>5. Moves
  BY <1>1, <1>2 DEF processVars, Moves, RevocationMoved, Sound, SessionRows
<1>6. QED
  BY <1>3, <1>4, <1>5, MovesSound

---------------------------------------------------------------------------
(* The steps that are not moves of a request *)

(* What a token's end and its row were, they are, but for the clock.         *)
LEMMA TickSound == Sound /\ Tick => Sound'
<1> SUFFICES ASSUME Sound, Tick PROVE Sound'
  OBVIOUS
<1>1. /\ now < now' /\ now' \in 0 .. MaxTime
      /\ UNCHANGED <<server, keyRows, cleaning, token, blacklist, cookie, request, revocation>>
  BY TimesAssumption DEF Tick, Sound, SessionRows
<1>2. SessionRows'
  BY <1>1 DEF Sound, SessionRows
<1>3. TokenInv'
  <2>1. ASSUME NEW t \in Tokens, Made(t)' PROVE TokenOK(t)'
    <3>1. Made(t) /\ TokenOK(t)
      BY <1>1, <2>1 DEF Made, Sound, TokenInv
    <3>2. token[t].at \in Nat /\ now \in Nat
      BY <3>1 DEF TokenOK, TokenRow, Sound, SessionRows
    <3>3. QED
      BY <1>1, <3>1, <3>2 DEF TokenOK, Made
  <2>2. QED
    BY <1>1, <2>1 DEF Sound, TokenInv, Made
<1>4. BlacklistInv'
  <2>1. ASSUME NEW c \in cleaning' PROVE c[2] <= now'
    BY <1>1 DEF Sound, SessionRows, BlacklistInv
  <2>2. QED
    BY <1>1, <2>1 DEF Sound, BlacklistInv, LoggedOutAs, LoggedOut, Made, ExpireAt
<1>5. RequestInv'
  BY <1>1 DEF Sound, RequestInv, RequestOK, Stored, Made
<1>6. ASSUME NEW t \in Tokens, Made(t), Expired(t) PROVE Expired(t)'
  <2>1. ExpireAt(t) \in Nat /\ now \in Nat
    BY <1>6, MadeRow, TimesAssumption DEF ExpireAt, TokenRow, Sound, SessionRows
  <2>2. QED
    BY <1>1, <1>6, <2>1 DEF Expired, ExpireAt
<1>7. RevokedInv'
  <2> SUFFICES ASSUME NEW q \in Requests, Stored(q), request[q].revoked
               PROVE  \/ Expired(request[q].token)'
                      \/ Blacklisted(request[q].token) /\ ~ Accepted(q)
    BY <1>1 DEF RevokedInv, Stored, Blacklisted, Accepted
  <2>1. request[q].token \in Tokens /\ Made(request[q].token)
    BY DEF Sound, RequestInv, RequestOK
  <2>2. request'[q].token = request[q].token
    BY <1>1
  <2>3. QED
    BY <1>1, <1>6, <2>1 DEF Sound, RevokedInv, Expired, ExpireAt
<1>8. LoggedOutIsRevoked'
  <2> SUFFICES ASSUME NEW q \in Requests, revocation[q] = "ended"
               PROVE  Blacklisted(request[q].token) \/ Expired(request[q].token)'
    BY <1>1 DEF LoggedOutIsRevoked, Blacklisted
  <2>1. request[q].token \in Tokens /\ Made(request[q].token)
    BY DEF Sound, RequestInv, RequestOK
  <2>2. QED
    BY <1>1, <1>6, <2>1 DEF Sound, LoggedOutIsRevoked, Expired, ExpireAt
<1>9. QED
  BY <1>2, <1>3, <1>4, <1>5, <1>7, <1>8 DEF Sound

(* Rows are taken away only of tokens that have expired.                     *)
LEMMA CleaningSound ==
  ASSUME Sound, NEW c \in Processes,
         \/ DeleteExpiredBlacklistedTokenJob(c)
         \/ \E n \in 0 .. MaxTime : DeleteExpiredBlacklistedToken(c, n)
  PROVE  Sound'
<1>1. /\ UNCHANGED <<now, server, token, cookie, request, revocation>>
      /\ keyRows \subseteq keyRows' /\ keyRows' \subseteq Processes
  BY DEF DeleteExpiredBlacklistedTokenJob, DeleteExpiredBlacklistedToken, NewKey,
         Sound, SessionRows
<1>2. /\ cleaning' \subseteq Processes \X Nat
      /\ \A d \in cleaning' : d[2] <= now'
  <2>1. now \in Nat /\ now <= now
    BY DEF Sound, SessionRows
  <2>2. cleaning' \subseteq cleaning \union {<<c, now>>}
    BY DEF DeleteExpiredBlacklistedTokenJob, DeleteExpiredBlacklistedToken
  <2>3. QED
    BY <1>1, <2>1, <2>2 DEF Sound, SessionRows, BlacklistInv
<1>3. /\ blacklist' \in [Tokens -> Nat]
      /\ \A i \in Tokens :
           \/ blacklist'[i] = blacklist[i]
           \/ blacklist'[i] = 0 /\ blacklist[i] <= now
  <2>1. CASE DeleteExpiredBlacklistedTokenJob(c)
    BY <2>1 DEF DeleteExpiredBlacklistedTokenJob, Sound, SessionRows
  <2>2. ASSUME NEW n \in 0 .. MaxTime, DeleteExpiredBlacklistedToken(c, n)
        PROVE  /\ blacklist' \in [Tokens -> Nat]
               /\ \A i \in Tokens :
                    \/ blacklist'[i] = blacklist[i]
                    \/ blacklist'[i] = 0 /\ blacklist[i] <= now
    <3>1. n <= now /\ n \in Nat
      BY <2>2, TimesAssumption DEF DeleteExpiredBlacklistedToken, Sound, BlacklistInv
    <3>2. blacklist' = [i \in Tokens |-> IF blacklist[i] <= n THEN 0 ELSE blacklist[i]]
      BY <2>2 DEF DeleteExpiredBlacklistedToken
    <3>3. now \in Nat /\ blacklist \in [Tokens -> Nat]
      BY DEF Sound, SessionRows
    <3>4. QED
      BY <3>1, <3>2, <3>3
  <2>3. QED
    BY <2>1, <2>2
<1>4. SessionRows'
  BY <1>1, <1>2, <1>3 DEF Sound, SessionRows
<1>5. TokenInv'
  <2>1. \A b \in Browsers : cookie'[b] \in {NoToken, cookie[b]}
    BY <1>1
  <2>2. QED
    BY <1>1, <2>1, SameTokens DEF Sound, TokenInv
<1>6. BlacklistInv'
  BY <1>1, <1>2, <1>3 DEF Sound, BlacklistInv, LoggedOutAs, LoggedOut, Made, ExpireAt
<1>7. RequestInv'
  BY <1>1 DEF Sound, RequestInv, RequestOK, Stored, Made
<1>8. ASSUME NEW t \in Tokens, Made(t), Blacklisted(t)
      PROVE  Blacklisted(t)' \/ Expired(t)
  <2>1. TokenOK(t)
    BY <1>8 DEF Sound, TokenInv
  <2>2. token[t].id \in Tokens /\ blacklist[token[t].id] = ExpireAt(token[t].id)
    BY <1>8, <2>1 DEF TokenOK, TokenRow, Sound, BlacklistInv, Blacklisted
  <2>3. ExpireAt(token[t].id) = ExpireAt(t)
    BY <2>1 DEF TokenOK, ExpireAt
  <2>4. QED
    BY <1>1, <1>3, <1>8, <2>2, <2>3 DEF Blacklisted, Expired
<1>9. RevokedInv'
  <2> SUFFICES ASSUME NEW q \in Requests, Stored(q), request[q].revoked
               PROVE  \/ Expired(request[q].token)
                      \/ Blacklisted(request[q].token)' /\ ~ Accepted(q)
    BY <1>1 DEF RevokedInv, Stored, Blacklisted, Accepted, Expired, ExpireAt
  <2>1. request[q].token \in Tokens /\ Made(request[q].token)
    BY DEF Sound, RequestInv, RequestOK
  <2>2. QED
    BY <1>1, <1>8, <2>1 DEF Sound, RevokedInv, Blacklisted
<1>10. LoggedOutIsRevoked'
  <2> SUFFICES ASSUME NEW q \in Requests, revocation[q] = "ended"
               PROVE  Blacklisted(request[q].token)' \/ Expired(request[q].token)
    BY <1>1 DEF LoggedOutIsRevoked, Blacklisted, Expired, ExpireAt
  <2>1. request[q].token \in Tokens /\ Made(request[q].token)
    BY DEF Sound, RequestInv, RequestOK
  <2>2. QED
    BY <1>1, <1>8, <2>1 DEF Sound, LoggedOutIsRevoked, Blacklisted
<1>11. QED
  BY <1>4, <1>5, <1>6, <1>7, <1>9, <1>10 DEF Sound

(* The work after the answer to a logout.                                    *)
LEMMA RevocationSound ==
  ASSUME Sound, NEW q \in Requests, RevocationStepOf(q)
  PROVE  Sound'
<1> DEFINE t == request[q].token
<1>1. PICK s \in {"inserting", "ended"} :
        /\ revocation' = [revocation EXCEPT ![q] = s]
        /\ revocation[q] # "none"
        /\ UNCHANGED <<now, server, keyRows, cleaning, token, cookie, request>>
  BY DEF RevocationStepOf, DecodeToRevoke, CreateBlacklistedToken, RevocationTo, processVars
<1>2. /\ t \in Tokens /\ Made(t)
      /\ TokenOK(t) /\ token[t].id \in Tokens
      /\ ExpireAt(t) \in Nat /\ ExpireAt(t) # 0
  <2>1. t \in Tokens /\ Made(t)
    BY <1>1 DEF Sound, RequestInv, RequestOK
  <2>2. TokenOK(t)
    BY <2>1 DEF Sound, TokenInv
  <2>3. QED
    BY <2>1, <2>2, TimesAssumption DEF TokenOK, TokenRow, ExpireAt
<1>3. \/ blacklist' = blacklist
      \/ /\ blacklist' = [blacklist EXCEPT ![token[t].id] = ExpireAt(t)]
         /\ ~ Blacklisted(t)
  BY DEF RevocationStepOf, DecodeToRevoke, CreateBlacklistedToken
<1>4. s = "ended" => Blacklisted(t)' \/ Expired(t)
  <2>1. CASE DecodeToRevoke(q)
    <3>1. s = "ended" => ~ Decodable(t)
      BY <1>1, <2>1 DEF DecodeToRevoke, RevocationTo, Sound, SessionRows
    <3>2. QED
      BY <1>2, <3>1 DEF Decodable, TokenOK
  <2>2. CASE CreateBlacklistedToken(q)
    <3>1. CASE Blacklisted(t)
      BY <1>1, <2>2, <3>1 DEF CreateBlacklistedToken, Blacklisted
    <3>2. CASE ~ Blacklisted(t)
      <4>1. blacklist' = [blacklist EXCEPT ![token[t].id] = ExpireAt(t)]
        BY <2>2, <3>2 DEF CreateBlacklistedToken
      <4>2. blacklist'[token[t].id] # 0
        BY <1>2, <4>1 DEF Sound, SessionRows
      <4>3. QED
        BY <1>1, <4>2 DEF Blacklisted
    <3>3. QED
      BY <3>1, <3>2
  <2>3. QED
    BY <2>1, <2>2 DEF RevocationStepOf
<1>5. SessionRows'
  BY <1>1, <1>2, <1>3 DEF Sound, SessionRows, RevocationStep
<1>6. TokenInv'
  <2>1. \A b \in Browsers : cookie'[b] \in {NoToken, cookie[b]}
    BY <1>1
  <2>2. QED
    BY <1>1, <2>1, SameTokens DEF Sound, TokenInv
<1>7. /\ \A i \in Tokens :
           \/ blacklist'[i] = blacklist[i]
           \/ i = token[t].id /\ blacklist'[i] = ExpireAt(t)
      /\ \A u \in Tokens : Made(u) /\ Blacklisted(u) => Blacklisted(u)'
  <2>1. CASE blacklist' = blacklist
    BY <1>1, <2>1 DEF Blacklisted
  <2>2. CASE /\ blacklist' = [blacklist EXCEPT ![token[t].id] = ExpireAt(t)]
             /\ ~ Blacklisted(t)
    <3>1. \A i \in Tokens : blacklist'[i] =
            IF i = token[t].id THEN ExpireAt(t) ELSE blacklist[i]
      BY <2>2 DEF Sound, SessionRows
    <3>2. \A u \in Tokens : Made(u) => token[u].id \in Tokens
      BY DEF Sound, TokenInv, TokenOK, TokenRow
    <3>3. QED
      BY <1>1, <1>2, <3>1, <3>2 DEF Blacklisted
  <2>3. QED
    BY <1>3, <2>1, <2>2
<1>8. BlacklistInv'
  <2>1. \A i \in Tokens : LoggedOutAs(i) => LoggedOutAs(i)'
    BY <1>1 DEF LoggedOutAs, LoggedOut, Made, Sound, SessionRows
  <2>2. LoggedOutAs(token[t].id)'
    BY <1>1, <1>2 DEF LoggedOutAs, LoggedOut, Made, Sound, SessionRows
  <2>3. ExpireAt(token[t].id) = ExpireAt(t) /\ Made(token[t].id)
    BY <1>2 DEF TokenOK, ExpireAt
  <2>4. ASSUME NEW i \in Tokens, blacklist'[i] # 0
        PROVE  Made(i)' /\ blacklist'[i] = ExpireAt(i)' /\ LoggedOutAs(i)'
    <3>1. Made(i) /\ blacklist'[i] = ExpireAt(i) /\ LoggedOutAs(i)'
      <4>1. CASE blacklist'[i] = blacklist[i]
        <5>1. Made(i) /\ blacklist[i] = ExpireAt(i) /\ LoggedOutAs(i)
          BY <2>4, <4>1 DEF Sound, BlacklistInv
        <5>2. LoggedOutAs(i)'
          BY <2>1, <5>1
        <5>3. QED
          BY <4>1, <5>1, <5>2
      <4>2. CASE i = token[t].id /\ blacklist'[i] = ExpireAt(t)
        <5>1. LoggedOutAs(i)'
          BY <1>1, <2>2, <4>2
        <5>2. QED
          BY <2>3, <4>2, <5>1
      <4>3. QED
        BY <1>7, <4>1, <4>2
    <3>2. QED
      BY <1>1, <3>1 DEF Made, ExpireAt
  <2>5. \A d \in cleaning' : d[2] <= now'
    BY <1>1 DEF Sound, BlacklistInv
  <2>6. QED
    BY <2>4, <2>5 DEF BlacklistInv
<1>9. RequestInv'
  <2>1. \A p \in Requests : revocation'[p] # "none" => revocation[p] # "none"
    BY <1>1 DEF Sound, SessionRows
  <2>2. QED
    BY <1>1, <2>1 DEF Sound, RequestInv, RequestOK, Stored, Made
<1>10. RevokedInv'
  <2> SUFFICES ASSUME NEW p \in Requests, Stored(p), request[p].revoked
               PROVE  \/ Expired(request[p].token)
                      \/ Blacklisted(request[p].token)' /\ ~ Accepted(p)
    BY <1>1 DEF RevokedInv, Stored, Blacklisted, Accepted, Expired, ExpireAt
  <2>1. request[p].token \in Tokens /\ Made(request[p].token)
    BY DEF Sound, RequestInv, RequestOK
  <2>2. QED
    BY <1>1, <1>7, <2>1 DEF Sound, RevokedInv, Blacklisted
<1>11. LoggedOutIsRevoked'
  <2> SUFFICES ASSUME NEW p \in Requests, revocation'[p] = "ended"
               PROVE  Blacklisted(request[p].token)' \/ Expired(request[p].token)
    BY <1>1 DEF LoggedOutIsRevoked, Blacklisted, Expired, ExpireAt
  <2>1. CASE p = q
    BY <1>1, <1>4, <2>1 DEF Sound, SessionRows, Blacklisted
  <2>2. CASE p # q
    <3>1. revocation[p] = "ended"
      BY <1>1, <2>2 DEF Sound, SessionRows
    <3>2. request[p].token \in Tokens /\ Made(request[p].token)
      BY <3>1 DEF Sound, RequestInv, RequestOK
    <3>3. QED
      BY <1>1, <1>7, <3>1, <3>2 DEF Sound, LoggedOutIsRevoked, Blacklisted
  <2>3. QED
    BY <2>1, <2>2
<1>12. QED
  BY <1>5, <1>6, <1>8, <1>9, <1>10, <1>11 DEF Sound

(* A request that begins has no token, or one that was made.                 *)
LEMMA StartSound ==
  ASSUME Sound, NEW q \in Requests, NEW b \in Browsers,
         \/ \E l \in Logins : LoginWithPassword(q, b, l[1], l[2])
         \/ \E needs \in SUBSET PermissionNames : Visit(q, b, needs)
         \/ Logout(q, b)
  PROVE  Sound'
<1> DEFINE Sensible(row) ==
      /\ row \in RequestRow
      /\ row.token = NoToken <=> row.kind = "login"
      /\ row.token # NoToken => Made(row.token)
      /\ row.renewed = NoToken
      /\ row.step = IF row.kind = "login" THEN "name" ELSE "decoding"
      /\ row.revoked => row.kind # "login" /\ Blacklisted(row.token)
<1>1. PICK row : Sensible(row) /\ Start(q, row)
  <2>1. ASSUME NEW kind \in Kinds, NEW u \in Users, NEW w \in Passwords \union {NoPassword},
               NEW t \in MaybeToken, NEW needs \in SUBSET PermissionNames,
               t = NoToken <=> kind = "login", t # NoToken => Made(t)
        PROVE  Sensible(NewRequest(kind, b, u, w, t, needs))
    <3>1. now \in Nat /\ NoToken \in MaybeToken
      BY DEF Sound, SessionRows, MaybeToken
    <3>2. NewRequest(kind, b, u, w, t, needs) \in RequestRow
      BY <2>1, <3>1 DEF NewRequest, RequestRow, RequestStep
    <3>3. QED
      BY <2>1, <3>2 DEF NewRequest
  <2>2. CASE \E l \in Logins : LoginWithPassword(q, b, l[1], l[2])
    <3>1. PICK l \in Logins : LoginWithPassword(q, b, l[1], l[2])
      BY <2>2
    <3>2. /\ l[1] \in Users /\ l[2] \in Passwords \union {NoPassword}
          /\ NoToken \in MaybeToken /\ {} \in SUBSET PermissionNames
          /\ "login" \in Kinds
      BY LoginsAssumption DEF MaybeToken, Kinds
    <3>3. Sensible(NewRequest("login", b, l[1], l[2], NoToken, {}))
      BY <2>1, <3>2
    <3>4. QED
      BY <3>1, <3>3 DEF LoginWithPassword
  <2>3. ASSUME NEW kind \in {"visit", "logout"}, NEW needs \in SUBSET PermissionNames,
               cookie[b] # NoToken,
               Start(q, NewRequest(kind, b, token[cookie[b]].user, NoPassword, cookie[b], needs))
        PROVE  \E row : Sensible(row) /\ Start(q, row)
    <3>1. cookie[b] \in Tokens /\ Made(cookie[b])
      BY <2>3 DEF Sound, SessionRows, TokenInv, MaybeToken
    <3>2. /\ token[cookie[b]].user \in Users /\ cookie[b] \in MaybeToken
          /\ NoPassword \in Passwords \union {NoPassword} /\ kind \in Kinds
      BY <3>1, MadeRow DEF Sound, TokenRow, MaybeToken, Kinds
    <3>3. kind # "login"
      OBVIOUS
    <3>4. Sensible(NewRequest(kind, b, token[cookie[b]].user, NoPassword, cookie[b], needs))
      BY <2>1, <2>3, <3>1, <3>2, <3>3
    <3>5. QED
      BY <2>3, <3>4
  <2>4. QED
    BY <2>2, <2>3 DEF Visit, Logout
<1>2. /\ request[q] = Idle
      /\ request' = [request EXCEPT ![q] = row]
      /\ UNCHANGED <<now, server, keyRows, cleaning, token, blacklist, cookie, revocation>>
  BY <1>1 DEF Start, processVars
<1>3. revocation[q] = "none"
  BY <1>2 DEF Sound, RequestInv, Stored, Idle
<1>4. \A p \in Requests : request'[p] = IF p = q THEN row ELSE request[p]
  BY <1>2 DEF Sound, SessionRows
<1>5. SessionRows'
  BY <1>1, <1>2 DEF Sound, SessionRows
<1>6. TokensKept /\ TokenInv'
  <2>1. \A c \in Browsers : cookie'[c] \in {NoToken, cookie[c]}
    BY <1>2
  <2>2. QED
    BY <1>2, <2>1, SameTokens DEF Sound, TokenInv
<1>7. BlacklistInv'
  <2>1. \A i \in Tokens : LoggedOutAs(i) => LoggedOutAs(i)'
    BY <1>2, <1>3, <1>4 DEF LoggedOutAs, LoggedOut, Made
  <2>2. QED
    BY <1>2, <2>1 DEF Sound, BlacklistInv, Made, ExpireAt
<1>8. RequestInv'
  <2>1. ASSUME NEW p \in Requests, Stored(p)' PROVE RequestOK(p)'
    <3>1. CASE p = q
      <4>1. request'[p] = row /\ row.token \in MaybeToken
        BY <1>1, <1>4, <3>1 DEF RequestRow
      <4>2. QED
        BY <1>1, <1>2, <4>1 DEF RequestOK, Made, MaybeToken
    <3>2. CASE p # q
      BY <1>2, <1>4, <2>1, <3>2 DEF Sound, RequestInv, RequestOK, Stored, Made
    <3>3. QED
      BY <3>1, <3>2
  <2>2. \A p \in Requests : revocation'[p] # "none" => Stored(p)' /\ request'[p].kind # "login"
    BY <1>2, <1>3, <1>4 DEF Sound, RequestInv, Stored
  <2>3. QED
    BY <2>1, <2>2 DEF RequestInv
<1>9. RevokedInv'
  <2> SUFFICES ASSUME NEW p \in Requests, Stored(p)', request'[p].revoked
               PROVE  \/ Expired(request[p].token)'
                      \/ Blacklisted(request[p].token)' /\ ~ Accepted(p)'
    BY DEF RevokedInv
  <2>1. CASE p = q
    BY <1>1, <1>2, <1>4, <2>1 DEF Blacklisted, Accepted
  <2>2. CASE p # q
    BY <1>2, <1>4, <2>2 DEF Sound, RevokedInv, Stored, Blacklisted, Accepted, Expired, ExpireAt
  <2>3. QED
    BY <2>1, <2>2
<1>10. LoggedOutIsRevoked'
  BY <1>2, <1>3, <1>4 DEF Sound, LoggedOutIsRevoked, Blacklisted, Expired, ExpireAt
<1>11. QED
  BY <1>5, <1>6, <1>7, <1>8, <1>9, <1>10 DEF Sound

---------------------------------------------------------------------------
(* The sessions as a whole *)

LEMMA UntouchedSessions == Sound /\ UNCHANGED sessionVars => Sound'
<1> SUFFICES ASSUME Sound, UNCHANGED sessionVars PROVE Sound'
  OBVIOUS
<1>1. SessionRows'
  BY DEF sessionVars, processVars, Sound, SessionRows
<1>2. TokensKept /\ TokenInv'
  <2>1. \A c \in Browsers : cookie'[c] \in {NoToken, cookie[c]}
    BY DEF sessionVars
  <2>2. QED
    BY <2>1, SameTokens DEF Sound, TokenInv, sessionVars, processVars
<1>3. Moves
  BY DEF Moves, RevocationMoved, sessionVars, processVars
<1>4. QED
  BY <1>1, <1>2, <1>3, MovesSound

LEMMA RequestStepSound ==
  ASSUME Sound, AccountTypeOK, NEW q \in Requests, RequestStepOf(q)
  PROVE  Sound'
<1>1. CASE ReadUsername(q) \/ IncorrectPassword(q) \/ Decode(q) \/ CheckBlacklist(q) \/ ReadUser(q)
  BY <1>1, PlainStepsSound
<1>2. CASE RefuseToken(q) \/ RefuseBlacklisted(q)
  BY <1>2, RefuseSound DEF RefuseToken, RefuseBlacklisted
<1>3. CASE ReadHash(q) \/ ReadRoleIds(q)
  BY <1>3, ReadsSound
<1>4. CASE \E t, i \in Tokens : ComparePassword(q, t, i) \/ RenewToken(q, t, i)
  BY <1>4, GeneratesSound
<1>5. CASE BlacklistToken(q) \/ ClearCookie(q)
  BY <1>5, LogoutStepsSound
<1>6. CASE Authorize(q)
  BY <1>6, AuthorizeSound
<1>7. QED
  BY <1>1, <1>2, <1>3, <1>4, <1>5, <1>6 DEF RequestStepOf

LEMMA SessionStepSound ==
  ASSUME Sound, AccountTypeOK, SessionStep
  PROVE  Sound'
<1>1. CASE ProcessStepping
  BY <1>1, TickSound, CleaningSound, RestartSound DEF ProcessStepping
<1>2. CASE RequestStart
  BY <1>2, StartSound DEF RequestStart
<1>3. CASE \E q \in Requests : RequestStepOf(q) \/ RevocationStepOf(q)
  BY <1>3, RequestStepSound, RevocationSound
<1>4. QED
  BY <1>1, <1>2, <1>3 DEF SessionStep

LEMMA SessionFaultSound ==
  ASSUME Sound, SessionFault
  PROVE  Sound'
<1>1. ASSUME NEW q \in Requests, KeyReadFails(q) PROVE Sound'
  BY <1>1, RefuseSound DEF KeyReadFails
<1>2. QED
  BY <1>1, PlainStepsSound, RevocationFailsSound DEF SessionFault

LEMMA SessionsNext == Accounted /\ Sound /\ [Next]_vars => Sound'
<1> SUFFICES ASSUME Accounted, Sound, [Next]_vars PROVE Sound'
  OBVIOUS
<1>1. CASE AccountStep
  BY <1>1, UntouchedSessions DEF AccountStep
<1>2. CASE SessionStep
  BY <1>2, SessionStepSound DEF Accounted
<1>3. CASE Fault
  BY <1>3, UntouchedSessions, SessionFaultSound DEF Fault
<1>4. CASE UNCHANGED vars
  BY <1>4, UntouchedSessions DEF vars
<1>5. QED
  BY <1>1, <1>2, <1>3, <1>4 DEF Next

THEOREM SessionsHold == Spec => []Sound
<1>1. Init => Sound
  BY SessionsInitially DEF Init
<1>2. QED
  BY <1>1, AccountsHold, SessionsNext, PTL DEF Spec

(* A token that was blacklisted when its request began is refused, or has    *)
(* expired: the clean-up takes only rows of expired tokens, though tokens of *)
(* one instant may share an id (getUserFromToken, deleteExpiredBlacklisted-  *)
(* Token).                                                                   *)
THEOREM RevokedAreRefused == Spec => []RevokedIsRefused
<1>1. Sound => RevokedIsRefused
  BY DEF Sound, RevokedInv, RevokedIsRefused, Accepted, Stored
<1>2. QED
  BY <1>1, SessionsHold, PTL

(* The work after the answer to a logout ends with the token blacklisted     *)
(* until it has expired (blacklistToken, createBlacklistedToken).            *)
THEOREM LoggedOutAreRevoked == Spec => []LoggedOutIsRevoked
<1>1. Sound => LoggedOutIsRevoked
  BY DEF Sound
<1>2. QED
  BY <1>1, SessionsHold, PTL

---------------------------------------------------------------------------
(* What was granted, and what was refused *)

(* How a request changes in a step: it begins; it moves on with what it has  *)
(* read; it reads its roles or their permissions; or it stays.               *)
Begins(q) ==
  /\ ~ Stored(q) /\ Stored(q)'
  /\ request'[q].granted = {}
  /\ request'[q].step \in {"name", "decoding"}

Proceeds(q) ==
  /\ SameRequest(q)
  /\ request'[q].granted = request[q].granted
  /\ request'[q].step \notin {"permissions", "refused"}

Refused(q) ==
  /\ SameRequest(q)
  /\ request'[q].granted = request[q].granted
  /\ request'[q].step = "refused"
  /\ \/ request[q].kind = "login"
     \/ Expired(request[q].token) \/ Blacklisted(request[q].token)

KeyUnread(q) ==
  /\ SameRequest(q)
  /\ request'[q].granted = request[q].granted
  /\ request'[q].step = "refused"

Changed(q) ==
  \/ request'[q] = request[q]
  \/ Begins(q)
  \/ Proceeds(q)
  \/ Refused(q)
  \/ SameRequest(q) /\ (ReadRoleIds(q) \/ Authorize(q))

(* The fields a step of one request leaves alone.                            *)
LEMMA StepChange ==
  ASSUME Sound, NEW q \in Requests, Stored(q), NEW s \in RequestStep,
         request' = [request EXCEPT ![q].step = s]
  PROVE  /\ SameRequest(q)
         /\ request'[q].step = s
         /\ request'[q].granted = request[q].granted
         /\ \A p \in Requests \ {q} : request'[p] = request[p]
<1>1. request[q] \in RequestRow
  BY StoredRow DEF Sound
<1>2. /\ request'[q] = [request[q] EXCEPT !.step = s]
      /\ \A p \in Requests \ {q} : request'[p] = request[p]
  BY DEF Sound, SessionRows
<1>3. s # "idle"
  BY DEF RequestStep, Refusals
<1>4. QED
  BY <1>1, <1>2, <1>3 DEF RequestRow, SameRequest, Stored

LEMMA RequestStepChanges ==
  ASSUME Sound, NEW q \in Requests, RequestStepOf(q)
  PROVE  Changed(q) /\ \A p \in Requests \ {q} : request'[p] = request[p]
<1>1. Stored(q)
  BY DEF RequestStepOf, Stored, ReadUsername, ReadHash, ComparePassword, RequestTo,
         IncorrectPassword, Decode, RefuseToken, CheckBlacklist, RefuseBlacklisted,
         ReadUser, RenewToken, ReadRoleIds, Authorize, BlacklistToken, ClearCookie
<1>2. request[q] \in RequestRow /\ RequestOK(q)
  BY <1>1, StoredRow DEF Sound, RequestInv
<1>3. CASE ReadUsername(q) \/ Decode(q) \/ CheckBlacklist(q) \/ ReadUser(q)
             \/ BlacklistToken(q) \/ ClearCookie(q)
  <2>1. PICK s \in RequestStep \ {"permissions", "refused"} :
          request' = [request EXCEPT ![q].step = s]
    BY <1>3 DEF ReadUsername, Decode, CheckBlacklist, ReadUser, BlacklistToken,
                ClearCookie, RequestTo, RequestStep, Refusals
  <2>2. QED
    BY <1>1, <2>1, StepChange DEF Changed, Proceeds
<1>4. CASE IncorrectPassword(q) \/ RefuseToken(q) \/ RefuseBlacklisted(q)
  <2>1. request' = [request EXCEPT ![q].step = "refused"] /\ "refused" \in RequestStep
    BY <1>4 DEF IncorrectPassword, RefuseToken, RefuseBlacklisted, Refuse, RequestTo,
                RequestStep, Refusals
  <2>2. \/ request[q].kind = "login"
        \/ Expired(request[q].token) \/ Blacklisted(request[q].token)
    <3>1. CASE IncorrectPassword(q)
      BY <1>2, <3>1 DEF IncorrectPassword, RequestTo, RequestOK
    <3>2. CASE RefuseToken(q)
      <4>1. ~ Decodable(request[q].token) /\ request[q].step = "decoding"
        BY <3>2 DEF RefuseToken
      <4>2. request[q].token \in Tokens /\ Made(request[q].token)
        BY <1>2, <4>1 DEF RequestOK
      <4>3. QED
        BY <4>1, <4>2 DEF Decodable, Sound, TokenInv, TokenOK
    <3>3. CASE RefuseBlacklisted(q)
      BY <3>3 DEF RefuseBlacklisted
    <3>4. QED
      BY <1>4, <3>1, <3>2, <3>3
  <2>3. QED
    BY <1>1, <2>1, <2>2, StepChange DEF Changed, Refused
<1>5. ASSUME \/ ReadHash(q) \/ ReadRoleIds(q) \/ Authorize(q)
             \/ \E t, i \in Tokens : ComparePassword(q, t, i) \/ RenewToken(q, t, i)
      PROVE  /\ SameRequest(q)
             /\ \A p \in Requests \ {q} : request'[p] = request[p]
             /\ ReadRoleIds(q) \/ Authorize(q) \/ Proceeds(q)
  <2>1. CASE ReadHash(q)
    <3> DEFINE w == password[request[q].user]
    <3>1. PICK s \in {"failed", "comparing"} :
            request' = [request EXCEPT ![q].step = s, ![q].hash = w]
      BY <2>1 DEF ReadHash
    <3> HIDE DEF w
    <3>2. /\ request'[q] = [request[q] EXCEPT !.step = s, !.hash = w]
          /\ \A p \in Requests \ {q} : request'[p] = request[p]
      BY <3>1 DEF Sound, SessionRows
    <3>3. QED
      BY <1>1, <1>2, <3>2 DEF RequestRow, SameRequest, Stored, Proceeds
  <2>2. CASE ReadRoleIds(q)
    <3>1. PICK R : request' = [request EXCEPT ![q].step = "permissions", ![q].roles = R]
      BY <2>2 DEF ReadRoleIds
    <3>2. /\ request'[q] = [request[q] EXCEPT !.step = "permissions", !.roles = R]
          /\ \A p \in Requests \ {q} : request'[p] = request[p]
      BY <3>1 DEF Sound, SessionRows
    <3>3. QED
      BY <1>1, <1>2, <2>2, <3>2 DEF RequestRow, SameRequest, Stored
  <2>3. CASE Authorize(q)
    <3> DEFINE G == NamesOf(request[q].roles)
    <3>1. PICK s \in {"forbidden", "leaving", "done"} :
            request' = [request EXCEPT ![q].granted = G, ![q].step = s]
      BY <2>3 DEF Authorize
    <3> HIDE DEF G
    <3>2. /\ request'[q] = [request[q] EXCEPT !.granted = G, !.step = s]
          /\ \A p \in Requests \ {q} : request'[p] = request[p]
      BY <3>1 DEF Sound, SessionRows
    <3>3. QED
      BY <1>1, <1>2, <2>3, <3>2 DEF RequestRow, SameRequest, Stored
  <2>4. CASE \E t, i \in Tokens : ComparePassword(q, t, i) \/ RenewToken(q, t, i)
    <3>1. PICK t \in Tokens : request' = [request EXCEPT ![q].step = "roles", ![q].renewed = t]
      BY <2>4 DEF ComparePassword, RenewToken
    <3>2. /\ request'[q] = [request[q] EXCEPT !.step = "roles", !.renewed = t]
          /\ \A p \in Requests \ {q} : request'[p] = request[p]
      BY <3>1 DEF Sound, SessionRows
    <3>3. QED
      BY <1>1, <1>2, <3>2 DEF RequestRow, SameRequest, Stored, Proceeds
  <2>5. QED
    BY <1>5, <2>1, <2>2, <2>3, <2>4
<1>6. QED
  BY <1>3, <1>4, <1>5 DEF RequestStepOf, Changed

LEMMA SessionStepChanges ==
  ASSUME Sound, SessionStep, NEW q \in Requests
  PROVE  Changed(q)
<1>1. CASE ProcessStepping
  <2>1. CASE UNCHANGED request
    BY <2>1 DEF Changed
  <2>2. ASSUME NEW c \in Processes, ServerRestarts(c), Active(q) PROVE Changed(q)
    <3>1. Stored(q) /\ request[q] \in RequestRow
      BY <2>2, StoredRow DEF Sound, Active, Stored
    <3>2. request'[q] = [request[q] EXCEPT !.step = "failed"]
      BY <2>2 DEF ServerRestarts
    <3>3. QED
      BY <3>1, <3>2 DEF RequestRow, Changed, Proceeds, SameRequest, Stored
  <2>3. ASSUME NEW c \in Processes, ServerRestarts(c), ~ Active(q) PROVE Changed(q)
    BY <2>3 DEF ServerRestarts, Changed
  <2>4. QED
    BY <1>1, <2>1, <2>2, <2>3 DEF ProcessStepping, Tick, DeleteExpiredBlacklistedTokenJob,
                                  DeleteExpiredBlacklistedToken
<1>2. CASE RequestStart
  <2> DEFINE New(row) == row.step \in {"name", "decoding"} /\ row.granted = {}
  <2>1. PICK p \in Requests : \E row : New(row) /\ Start(p, row)
    <3>1. \A kind, b, u, w, t, needs : New(NewRequest(kind, b, u, w, t, needs))
      BY DEF NewRequest
    <3>2. QED
      BY <1>2, <3>1 DEF RequestStart, LoginWithPassword, Visit, Logout
  <2>2. CASE p = q
    <3>1. PICK row : /\ New(row)
                     /\ request[q] = Idle
                     /\ request'[q] = row
      BY <2>1, <2>2 DEF Start, Sound, SessionRows
    <3>2. QED
      BY <3>1 DEF Changed, Begins, Idle, Stored
  <2>3. CASE p # q
    BY <2>1, <2>3 DEF Start, Sound, SessionRows, Changed
  <2>4. QED
    BY <2>2, <2>3
<1>3. ASSUME NEW p \in Requests, RequestStepOf(p) PROVE Changed(q)
  BY <1>3, RequestStepChanges DEF Changed
<1>4. ASSUME NEW p \in Requests, RevocationStepOf(p) PROVE Changed(q)
  BY <1>4 DEF RevocationStepOf, DecodeToRevoke, CreateBlacklistedToken, RevocationTo, Changed
<1>5. QED
  BY <1>1, <1>2, <1>3, <1>4 DEF SessionStep

LEMMA SessionFaultChanges ==
  ASSUME Sound, SessionFault, NEW q \in Requests
  PROVE  Changed(q) \/ KeyUnread(q)
<1>1. PICK p \in Requests : RequestFails(p) \/ KeyReadFails(p) \/ RevocationFails(p)
  BY DEF SessionFault
<1>2. CASE RequestFails(p)
  <2>1. Stored(p) /\ request' = [request EXCEPT ![p].step = "failed"] /\ "failed" \in RequestStep
    BY <1>2 DEF RequestFails, RequestTo, Active, Stored, RequestStep, Refusals
  <2>2. QED
    BY <2>1, StepChange DEF Changed, Proceeds
<1>3. CASE KeyReadFails(p)
  <2>1. Stored(p) /\ request' = [request EXCEPT ![p].step = "refused"] /\ "refused" \in RequestStep
    BY <1>3 DEF KeyReadFails, Refuse, RequestTo, Stored, RequestStep, Refusals
  <2>2. QED
    BY <1>3, <2>1, StepChange DEF Changed, KeyUnread
<1>4. CASE RevocationFails(p)
  BY <1>4 DEF RevocationFails, RevocationTo, Changed
<1>5. QED
  BY <1>1, <1>2, <1>3, <1>4

(* A request changes only while the accounts stand still.                    *)
LEMMA NextChanges ==
  ASSUME Sound, Next, NEW q \in Requests
  PROVE  \/ request'[q] = request[q]
         \/ UNCHANGED accountVars /\ Changed(q)
         \/ UNCHANGED accountVars /\ KeyUnread(q) /\ faults' = faults + 1
<1>1. CASE AccountStep
  BY <1>1 DEF AccountStep, sessionVars
<1>2. CASE SessionStep
  BY <1>2, SessionStepChanges DEF SessionStep
<1>3. CASE Fault
  BY <1>3, SessionFaultChanges DEF Fault, sessionVars
<1>4. QED
  BY <1>1, <1>2, <1>3 DEF Next

WatchType == watch \in [Requests -> [held : SUBSET PermissionNames, lost : BOOLEAN]]

LEMMA HeldAreNames ==
  ASSUME AccountTypeOK, NEW u
  PROVE  HeldBy(u) \subseteq PermissionNames
  BY DEF AccountTypeOK, HeldBy, NamesOf

(* The history only grows, and covers what a running request's user holds.   *)
LEMMA WatchNext ==
  ASSUME Watch, WatchType, Sound', NEW q \in Requests
  PROVE  /\ watch[q].held \subseteq watch'[q].held
         /\ watch[q].lost => watch'[q].lost
         /\ Running(q)' =>
              /\ HeldBy(request[q].user)' \subseteq watch'[q].held
              /\ \/ watch'[q].lost
                 \/ RolesOf(request'[q].user) \subseteq RolesOf(request[q].user)'
<1>1. CASE ~ Running(q)'
  BY <1>1 DEF Watch, Running
<1>2. CASE Running(q)'
  <2>1. request'[q].user \in Users
    <3>1. Stored(q)'
      BY <1>2 DEF Running, Stored
    <3>2. request'[q] \in RequestRow
      BY <3>1 DEF Sound, SessionRows, Stored, Idle
    <3>3. QED
      BY <3>2 DEF RequestRow
  <2>2. /\ Held'[request'[q].user] = HeldBy(request[q].user)'
        /\ RolesHeld'[request'[q].user] = RolesOf(request[q].user)'
        /\ RolesHeld[request'[q].user] = RolesOf(request'[q].user)
    BY <2>1 DEF Held, RolesHeld
  <2>3. watch'[q] =
          [held |-> watch[q].held \union Held'[request'[q].user],
           lost |-> \/ watch[q].lost
                    \/ ~ RolesHeld[request'[q].user] \subseteq RolesHeld'[request'[q].user]]
    BY <1>2 DEF Watch, Running
  <2>4. QED
    BY <2>2, <2>3
<1>3. QED
  BY <1>1, <1>2

LEMMA WatchTypeNext ==
  ASSUME Watch, WatchType, Sound', AccountTypeOK'
  PROVE  WatchType'
<1>1. ASSUME NEW q \in Requests, Running(q)'
      PROVE  Held'[request'[q].user] \subseteq PermissionNames
  <2>1. request'[q] \in RequestRow
    BY <1>1 DEF Sound, SessionRows, Running, Idle
  <2>2. \A u \in Users : HeldBy(u)' \subseteq PermissionNames
    BY DEF AccountTypeOK, HeldBy, NamesOf
  <2>3. QED
    BY <2>1, <2>2 DEF RequestRow, Held
<1>2. QED
  BY <1>1 DEF Watch, WatchType, Running

LEMMA GrantNext ==
  ASSUME Sound, Sound', WatchType, GrantInv, Next
  PROVE  GrantInv'
<1> SUFFICES ASSUME NEW q \in Requests, Stored(q)' PROVE GrantOK(q)'
  BY DEF GrantInv
<1>1. Watch
  BY DEF Next
<1>2. /\ watch[q].held \subseteq watch'[q].held
      /\ watch[q].lost => watch'[q].lost
      /\ Running(q)' =>
           /\ HeldBy(request[q].user)' \subseteq watch'[q].held
           /\ \/ watch'[q].lost
              \/ RolesOf(request'[q].user) \subseteq RolesOf(request[q].user)'
  BY <1>1, WatchNext
<1>3. CASE request'[q] = request[q]
  <2>1. GrantOK(q)
    BY <1>3 DEF GrantInv, Stored
  <2>2. request[q].granted \subseteq watch'[q].held \/ watch'[q].lost
    BY <1>2, <2>1 DEF GrantOK
  <2>3. request'[q].step = "permissions" =>
          request'[q].roles \subseteq RolesOf(request[q].user)' \/ watch'[q].lost
    BY <1>2, <1>3, <2>1 DEF GrantOK, Running, Refusals
  <2>4. QED
    BY <1>2, <1>3, <2>2, <2>3 DEF GrantOK
<1>4. CASE Begins(q)
  BY <1>2, <1>4 DEF Begins, GrantOK
<1>5. CASE Proceeds(q) \/ Refused(q) \/ KeyUnread(q)
  <2>1. GrantOK(q)
    BY <1>5 DEF Proceeds, Refused, KeyUnread, SameRequest, GrantInv
  <2>2. /\ request'[q].granted = request[q].granted
        /\ request'[q].step # "permissions"
    BY <1>5 DEF Proceeds, Refused, KeyUnread
  <2>3. QED
    BY <1>2, <2>1, <2>2 DEF GrantOK
<1>6. CASE UNCHANGED accountVars /\ SameRequest(q) /\ (ReadRoleIds(q) \/ Authorize(q))
  <2>1. /\ Stored(q) /\ GrantOK(q)
        /\ request[q] \in RequestRow
        /\ request'[q].user = request[q].user
    BY <1>6, StoredRow DEF SameRequest, GrantInv, Sound
  <2>2. UNCHANGED <<links, permissionName>>
    BY <1>6 DEF accountVars, linkVars
  <2>3. CASE ReadRoleIds(q)
    <3>1. /\ request'[q].roles = RolesOf(request[q].user)
          /\ request'[q].granted = request[q].granted
      BY <2>1, <2>3 DEF ReadRoleIds, Sound, SessionRows, RequestRow
    <3>2. request'[q].roles = RolesOf(request[q].user)'
      BY <2>1, <2>2, <3>1 DEF RolesOf
    <3>3. request'[q].granted \subseteq watch'[q].held \/ watch'[q].lost
      BY <1>2, <2>1, <3>1 DEF GrantOK
    <3>4. QED
      BY <1>2, <3>2, <3>3 DEF GrantOK
  <2>4. CASE Authorize(q)
    <3>1. /\ request[q].step = "permissions"
          /\ request'[q].granted = NamesOf(request[q].roles)
          /\ request'[q].step # "permissions"
      BY <2>1, <2>4 DEF Authorize, Sound, SessionRows, RequestRow
    <3>2. request[q].roles \subseteq RolesOf(request[q].user) \/ watch[q].lost
      BY <2>1, <3>1 DEF GrantOK
    <3>3. HeldBy(request[q].user) \subseteq watch[q].held
      BY <2>1, <3>1 DEF GrantOK, Running, Refusals
    <3>4. request'[q].granted \subseteq watch[q].held \/ watch[q].lost
      <4>1. CASE request[q].roles \subseteq RolesOf(request[q].user)
        <5>1. NamesOf(request[q].roles) \subseteq HeldBy(request[q].user)
          BY <4>1 DEF HeldBy, NamesOf
        <5>2. QED
          BY <3>1, <3>3, <5>1
      <4>2. QED
        BY <3>2, <4>1
    <3>5. QED
      BY <1>2, <3>1, <3>4 DEF GrantOK
  <2>5. QED
    BY <1>6, <2>3, <2>4
<1>7. QED
  BY <1>3, <1>4, <1>5, <1>6, NextChanges DEF Changed

FaultsType == faults \in 0 .. MaxFaults

(* Everything that holds of accounts, sessions and their history.            *)
IInv == Accounted /\ Sound /\ WatchType /\ GrantInv /\ FaultsType /\ RefusedOnlyForAReason

(* What was made stays, the clock goes on, and a logout is not taken back.   *)
LEMMA NextKeeps ==
  ASSUME Sound, Sound', Next
  PROVE  /\ TokensKept
         /\ now \in Nat /\ now' \in Nat /\ now <= now'
         /\ \A t \in Tokens : LoggedOut(t) => LoggedOut(t)'
<1>1. now \in Nat /\ now' \in Nat
  BY DEF Sound, SessionRows
<1>2. now <= now' /\ TokensKept
  <2>1. CASE UNCHANGED <<now, token>>
    BY <1>1, <2>1 DEF TokensKept, Made
  <2>2. CASE Tick
    BY <1>1, <2>2 DEF Tick, TokensKept, Made
  <2>3. ASSUME NEW q \in Requests, NEW t \in Tokens, NEW i \in Tokens,
               ComparePassword(q, t, i) \/ RenewToken(q, t, i)
        PROVE  now <= now' /\ TokensKept
    <3>1. /\ Generate(t, request[q].user, i) /\ Stored(q)
          /\ UNCHANGED <<now, server, keyRows, cookie>>
      BY <2>3 DEF ComparePassword, RenewToken, RequestTo, Stored, processVars
    <3>2. request[q].user \in Users
      BY <3>1, StoredRow DEF Sound, RequestRow
    <3>3. QED
      BY <1>1, <3>1, <3>2, GenerateTokens
  <2>4. CASE AccountStep
    BY <2>1, <2>4 DEF AccountStep, sessionVars, processVars
  <2>5. CASE SessionStep
    <3>1. CASE ProcessStepping
      BY <2>1, <2>2, <3>1 DEF ProcessStepping, DeleteExpiredBlacklistedTokenJob,
                              DeleteExpiredBlacklistedToken, ServerRestarts
    <3>2. CASE RequestStart
      BY <2>1, <3>2 DEF RequestStart, LoginWithPassword, Visit, Logout, Start, processVars
    <3>3. ASSUME NEW q \in Requests, RequestStepOf(q) PROVE now <= now' /\ TokensKept
      <4>1. CASE \E t, i \in Tokens : ComparePassword(q, t, i) \/ RenewToken(q, t, i)
        BY <2>3, <4>1
      <4>2. CASE UNCHANGED <<now, token>>
        BY <2>1, <4>2
      <4>3. QED
        BY <3>3, <4>1, <4>2
           DEF RequestStepOf, ReadUsername, ReadHash, IncorrectPassword, Decode, RefuseToken,
               CheckBlacklist, RefuseBlacklisted, ReadUser, ReadRoleIds, Authorize,
               BlacklistToken, ClearCookie, OnlyRequest, Refuse, processVars
    <3>4. ASSUME NEW q \in Requests, RevocationStepOf(q) PROVE now <= now' /\ TokensKept
      BY <2>1, <3>4 DEF RevocationStepOf, DecodeToRevoke, CreateBlacklistedToken,
                        RevocationTo, processVars
    <3>5. QED
      BY <2>5, <3>1, <3>2, <3>3, <3>4 DEF SessionStep
  <2>6. CASE Fault
    BY <2>1, <2>6 DEF Fault, SessionFault, RequestFails, KeyReadFails, RevocationFails,
                      OnlyRequest, Refuse, RevocationTo, sessionVars, processVars
  <2>7. QED
    BY <2>4, <2>5, <2>6 DEF Next
<1>3. \A q \in Requests : revocation[q] # "none" => revocation'[q] # "none"
  <2>1. CASE UNCHANGED revocation
    BY <2>1
  <2>2. CASE \E q \in Requests :
               BlacklistToken(q) \/ RevocationStepOf(q) \/ RevocationFails(q)
    BY <2>2 DEF BlacklistToken, RevocationStepOf, DecodeToRevoke, CreateBlacklistedToken,
                RevocationFails, RevocationTo, Sound, SessionRows
  <2>3. CASE \E c \in Processes : ServerRestarts(c)
    BY <2>3 DEF ServerRestarts
  <2>4. CASE AccountStep
    BY <2>1, <2>4 DEF AccountStep, sessionVars
  <2>5. CASE SessionStep
    BY <2>1, <2>2, <2>3, <2>5
       DEF SessionStep, ProcessStepping, Tick, DeleteExpiredBlacklistedTokenJob,
           DeleteExpiredBlacklistedToken, RequestStart, LoginWithPassword, Visit, Logout,
           Start, RequestStepOf, ReadUsername, ReadHash, ComparePassword, IncorrectPassword,
           Decode, RefuseToken, CheckBlacklist, RefuseBlacklisted, ReadUser, RenewToken,
           ReadRoleIds, Authorize, ClearCookie, OnlyRequest, Refuse
  <2>6. CASE Fault
    BY <2>1, <2>2, <2>6 DEF Fault, SessionFault, RequestFails, KeyReadFails, OnlyRequest,
                            Refuse, sessionVars
  <2>7. QED
    BY <2>4, <2>5, <2>6 DEF Next
<1>4. ASSUME NEW t \in Tokens, LoggedOut(t) PROVE LoggedOut(t)'
  <2>1. PICK p \in Requests : revocation[p] # "none" /\ request[p].token = t
    BY <1>4 DEF LoggedOut
  <2>2. Stored(p)
    BY <2>1 DEF Sound, RequestInv
  <2>3. request'[p].token = t
    BY <2>1, <2>2, NextChanges DEF Changed, Begins, Proceeds, Refused, KeyUnread, SameRequest
  <2>4. QED
    BY <1>3, <2>1, <2>3 DEF LoggedOut
<1>5. QED
  BY <1>1, <1>2, <1>4

LEMMA RefusedNext ==
  ASSUME Sound, Sound', FaultsType, RefusedOnlyForAReason, Next
  PROVE  RefusedOnlyForAReason'
<1> SUFFICES ASSUME faults' = 0, NEW q \in Requests,
                    request'[q].step = "refused", request'[q].kind # "login"
             PROVE  \/ Expired(request[q].token)'
                    \/ \E t \in Tokens :
                         Made(t)' /\ token'[t].at = token'[request'[q].token].at /\ LoggedOut(t)'
  BY DEF RefusedOnlyForAReason
<1>1. faults = 0 /\ faults' # faults + 1
  BY DEF Next, AccountStep, SessionStep, Fault, FaultsType
<1>2. /\ Stored(q)
      /\ request'[q].token = request[q].token
      /\ request[q].kind # "login"
      /\ \/ request[q].step = "refused"
         \/ Expired(request[q].token)
         \/ Blacklisted(request[q].token)
  <2>1. ~ Begins(q) /\ ~ Proceeds(q)
    BY DEF Begins, Proceeds
  <2>2. CASE request'[q] = request[q]
    BY <2>2 DEF Stored
  <2>3. CASE Refused(q)
    BY <2>3 DEF Refused, SameRequest
  <2>4. CASE SameRequest(q) /\ (ReadRoleIds(q) \/ Authorize(q))
    <3>1. Stored(q) /\ request[q] \in RequestRow
      BY <2>4, StoredRow DEF SameRequest, Sound
    <3>2. request'[q].step # "refused"
      BY <2>4, <3>1 DEF ReadRoleIds, Authorize, Sound, SessionRows, RequestRow
    <3>3. QED
      BY <3>2
  <2>5. QED
    BY <1>1, <2>1, <2>2, <2>3, <2>4, NextChanges DEF Changed
<1>3. request[q].token \in Tokens /\ Made(request[q].token)
  BY <1>2 DEF Sound, RequestInv, RequestOK
<1>4. TokensKept /\ now <= now' /\ now \in Nat /\ now' \in Nat
  BY NextKeeps
<1>5. \A t \in Tokens : LoggedOut(t) => LoggedOut(t)'
  BY NextKeeps
<1>6. ASSUME Expired(request[q].token) PROVE Expired(request[q].token)'
  <2>1. ExpireAt(request[q].token) \in Nat
    BY <1>3, MadeRow, TimesAssumption DEF ExpireAt, TokenRow, Sound
  <2>2. QED
    BY <1>2, <1>3, <1>4, <1>6, <2>1 DEF Expired, ExpireAt, TokensKept
<1>7. ASSUME NEW t \in Tokens, Made(t), token[t].at = token[request[q].token].at, LoggedOut(t)
      PROVE  Made(t)' /\ token'[t].at = token'[request'[q].token].at /\ LoggedOut(t)'
  BY <1>2, <1>3, <1>4, <1>5, <1>7 DEF TokensKept
<1>8. CASE request[q].step = "refused"
  BY <1>1, <1>2, <1>6, <1>7, <1>8 DEF RefusedOnlyForAReason
<1>9. CASE Blacklisted(request[q].token)
  <2>1. /\ TokenOK(request[q].token)
        /\ token[request[q].token].id \in Tokens
    BY <1>3 DEF Sound, TokenInv, TokenOK, TokenRow
  <2>2. PICK t \in Tokens :
          Made(t) /\ token[t].id = token[request[q].token].id /\ LoggedOut(t)
    BY <1>9, <2>1 DEF Blacklisted, Sound, BlacklistInv, LoggedOutAs
  <2>3. token[t].at = token[request[q].token].at
    BY <2>1, <2>2 DEF Sound, TokenInv, TokenOK
  <2>4. QED
    BY <1>7, <2>2, <2>3
<1>10. QED
  BY <1>2, <1>6, <1>8, <1>9

LEMMA InvInitially == Init => IInv
<1> SUFFICES ASSUME Init PROVE IInv
  OBVIOUS
<1>1. Accounted /\ Sound
  BY AccountsInitially, SessionsInitially DEF Init
<1>2. WatchType /\ FaultsType
  BY MaxFaultsAssumption DEF Init, SessionInit, WatchType, FaultsType
<1>3. GrantInv /\ RefusedOnlyForAReason
  BY DEF Init, SessionInit, GrantInv, RefusedOnlyForAReason, Stored, Idle
<1>4. QED
  BY <1>1, <1>2, <1>3 DEF IInv

LEMMA InvNext == IInv /\ [Next]_vars => IInv'
<1> SUFFICES ASSUME IInv, [Next]_vars PROVE IInv'
  OBVIOUS
<1>1. Accounted' /\ Sound'
  BY AccountsNext, SessionsNext DEF IInv
<1>2. CASE Next
  <2>1. WatchType'
    BY <1>1, <1>2, WatchTypeNext DEF IInv, Next, Accounted
  <2>2. FaultsType'
    BY <1>2, MaxFaultsAssumption DEF IInv, FaultsType, Next, AccountStep, SessionStep, Fault
  <2>3. QED
    BY <1>1, <1>2, <2>1, <2>2, GrantNext, RefusedNext DEF IInv
<1>3. CASE UNCHANGED vars
  <2>1. WatchType' /\ FaultsType'
    BY <1>3 DEF vars, IInv, WatchType, FaultsType
  <2>2. GrantInv'
    BY <1>3 DEF vars, accountVars, linkVars, sessionVars, IInv, GrantInv, GrantOK, Stored,
                Running, HeldBy, RolesOf, NamesOf
  <2>3. RefusedOnlyForAReason'
    BY <1>3 DEF vars, sessionVars, processVars, IInv, RefusedOnlyForAReason, Expired,
                ExpireAt, Made, LoggedOut
  <2>4. QED
    BY <1>1, <2>1, <2>2, <2>3 DEF IInv
<1>4. QED
  BY <1>2, <1>3

(* The inductive invariant of UserService.                                   *)
THEOREM Inductive == Spec => []IInv
  BY InvInitially, InvNext, PTL DEF Spec

(* Every variable of UserService keeps its type (all its handlers, and the   *)
(* gateway's, under every interleaving and failure).                         *)
THEOREM TypesHold == Spec => []TypeOK
<1>1. IInv => TypeOK
  BY DEF IInv, Accounted, Sound, SessionRows, WatchType, FaultsType, TypeOK, SessionTypeOK
<1>2. QED
  BY <1>1, Inductive, PTL

(* A permission that a request is granted was held by its user while it ran, *)
(* unless the user lost a role (getUserPermissionListOfUser, the gateway's   *)
(* middleware).                                                              *)
THEOREM GrantedWasHeld == Spec => []GrantedOnlyWhatWasHeld
<1>1. IInv => GrantedOnlyWhatWasHeld
  BY DEF IInv, GrantInv, GrantOK, GrantedOnlyWhatWasHeld, Stored
<1>2. QED
  BY <1>1, Inductive, PTL

(* A token is refused only when it expired or a token of its instant was     *)
(* logged out, as long as nothing fails (getUserFromToken).                  *)
THEOREM RefusedForAReason == Spec => []RefusedOnlyForAReason
<1>1. IInv => RefusedOnlyForAReason
  BY DEF IInv
<1>2. QED
  BY <1>1, Inductive, PTL

---------------------------------------------------------------------------
(* Half-made users *)

(* The unique index over emails.                                             *)
EmailsApart ==
  \A u, v \in Users \intersect rows : u # v => handle[u].email # handle[v].email

(* No step changes an email, takes a user away or mends a half-made one, and *)
(* one that makes a user finds its names free.                               *)
UsersKept ==
  /\ \A u \in Users : handle'[u].email = handle[u].email
  /\ \/ Users \intersect rows' = Users \intersect rows
     \/ \E u \in Users : ~ Taken(u) /\ rows' = rows \union {u}
  /\ \A u \in Users : HalfMadeUser(u) => HalfMadeUser(u)'

LEMMA UserSteppingKeeps ==
  ASSUME Accounted, NEW u \in Users,
         \/ CreateUser(u) \/ RefuseUser(u)
         \/ \E w \in Passwords : CreateUserPassword(u, w)
         \/ RefusePassword(u)
         \/ \E n \in Usernames : UpdateUser(u, n)
         \/ \E w \in Passwords : UpdateUserPassword(u, w)
         \/ CreateUserFails(u)
  PROVE  UsersKept
<1> USE DEF UserStepFrom, InsertRow, linkVars, Accounted, AccountTypeOK, Handles,
            UsersKept, HalfMadeUser
<1>1. CASE CreateUser(u)
  BY <1>1 DEF CreateUser
<1>2. CASE RefuseUser(u)
  BY <1>2 DEF RefuseUser
<1>3. ASSUME NEW w \in Passwords, CreateUserPassword(u, w) PROVE UsersKept
  BY <1>3 DEF CreateUserPassword
<1>4. CASE RefusePassword(u)
  BY <1>4 DEF RefusePassword
<1>5. ASSUME NEW n \in Usernames, UpdateUser(u, n) PROVE UsersKept
  BY <1>5 DEF UpdateUser
<1>6. ASSUME NEW w \in Passwords, UpdateUserPassword(u, w) PROVE UsersKept
  BY <1>6 DEF UpdateUserPassword
<1>7. CASE CreateUserFails(u)
  <2>1. CASE ~ Taken(u) /\ UserStepFrom(u, "idle", "failed") /\ InsertRow(u)
             /\ UNCHANGED <<handle, password, permissionName, linkVars, job>>
    BY <2>1
  <2>2. CASE /\ UserStepFrom(u, "password", "failed")
             /\ \E w \in Passwords : password' = [password EXCEPT ![u] = w]
             /\ UNCHANGED <<rows, used, handle, permissionName, linkVars, job>>
    BY <2>2
  <2>3. QED
    BY <1>7, <2>1, <2>2 DEF CreateUserFails
<1>8. QED
  BY <1>1, <1>2, <1>3, <1>4, <1>5, <1>6, <1>7

(* Roles, permissions and links are in tables of their own.                  *)
LEMMA OtherTablesKeep ==
  ASSUME UNCHANGED <<handle, password, userCall>>,
         Users \intersect rows' = Users \intersect rows
  PROVE  UsersKept
  BY DEF UsersKept, HalfMadeUser

LEMMA RoleSteppingKeeps ==
  ASSUME RoleStepping
  PROVE  UsersKept
<1>1. UNCHANGED <<handle, password, userCall>>
  BY DEF RoleStepping, CreateUserRole, DeleteUserRole, CreateUserPermission,
         UpdateUserPermission, DeleteUserPermission, DropRow
<1>2. \/ rows' = rows
      \/ \E i \in Roles \union Permissions : rows' = rows \union {i} \/ rows' = rows \ {i}
  BY DEF RoleStepping, CreateUserRole, DeleteUserRole, CreateUserPermission,
         UpdateUserPermission, DeleteUserPermission, DropRow, InsertRow, InsertPermission
<1>3. Users \intersect rows' = Users \intersect rows
  BY <1>2, TablesAssumption
<1>4. QED
  BY <1>1, <1>3, OtherTablesKeep

LEMMA LinkSteppingKeeps ==
  ASSUME LinkStepping \/ \E c \in LinkCalls : LinkCallFails(c)
  PROVE  UsersKept
<1>1. UNCHANGED <<rows, handle, password, userCall>>
  BY DEF LinkStepping, AddUserRoleToUser, RemoveUserRoleFromUser,
         AddUserPermissionToUserRole, RemoveUserPermissionFromUserRole, StartLinkCall,
         ReadEnds, AddLink, RemoveLink, RefuseLink, LinkCallFails, LinkStepFrom
<1>2. QED
  BY <1>1, OtherTablesKeep

LEMMA JobSteppingKeeps ==
  ASSUME Accounted, JobStepping \/ \E j \in Jobs : JobFails(j)
  PROVE  UsersKept
<1> PICK j \in Jobs :
      \/ StartJob(j) \/ CountUsers(j) \/ CountRoles(j) \/ CountPermissions(j)
      \/ CreateFirstUser(j)
      \/ \E w \in Passwords : CreateFirstPassword(j, w)
      \/ \E r \in Roles : CreateFirstRole(j, r) \/ LinkFirstRole(j, r)
      \/ \E p \in Permissions : CreateFirstPermission(j, p)
      \/ \E r \in Roles : GrantFirstPermission(j, r)
      \/ EndJob(j)
  BY DEF JobStepping, JobRefused, JobFails
<1>1. CASE StartJob(j) \/ CountUsers(j) \/ CountRoles(j) \/ CountPermissions(j) \/ EndJob(j)
  BY <1>1, OtherTablesKeep
     DEF StartJob, CountUsers, CountRoles, CountPermissions, EndJob, JobReads
<1>2. CASE CreateFirstUser(j)
  BY <1>2, JobsAssumption DEF CreateFirstUser, InsertRow, UsersKept, HalfMadeUser
<1>3. ASSUME NEW w \in Passwords, CreateFirstPassword(j, w) PROVE UsersKept
  BY <1>3 DEF CreateFirstPassword, UsersKept, HalfMadeUser, Accounted, AccountTypeOK
<1>4. ASSUME NEW i \in Roles \union Permissions, InsertRow(i),
             UNCHANGED <<handle, password, userCall>>
      PROVE  UsersKept
  <2>1. Users \intersect rows' = Users \intersect rows
    BY <1>4, TablesAssumption DEF InsertRow
  <2>2. QED
    BY <1>4, <2>1, OtherTablesKeep
<1>5. ASSUME NEW r \in Roles, CreateFirstRole(j, r) PROVE UsersKept
  BY <1>4, <1>5 DEF CreateFirstRole
<1>6. ASSUME NEW p \in Permissions, CreateFirstPermission(j, p) PROVE UsersKept
  BY <1>4, <1>6 DEF CreateFirstPermission, InsertPermission
<1>7. ASSUME NEW r \in Roles, LinkFirstRole(j, r) \/ GrantFirstPermission(j, r)
      PROVE  UsersKept
  BY <1>7, OtherTablesKeep DEF LinkFirstRole, GrantFirstPermission
<1>8. QED
  BY <1>1, <1>2, <1>3, <1>5, <1>6, <1>7

LEMMA UsersNext == Accounted /\ [Next]_vars => UsersKept
<1> SUFFICES ASSUME Accounted, [Next]_vars PROVE UsersKept
  OBVIOUS
<1>1. CASE AccountStep
  BY <1>1, UserSteppingKeeps, RoleSteppingKeeps, LinkSteppingKeeps, JobSteppingKeeps
     DEF AccountStep, UserStepping
<1>2. CASE UNCHANGED accountVars
  BY <1>2, OtherTablesKeep DEF accountVars
<1>3. CASE AccountFault
  BY <1>3, UserSteppingKeeps, LinkSteppingKeeps, JobSteppingKeeps DEF AccountFault
<1>4. QED
  BY <1>1, <1>2, <1>3 DEF Next, SessionStep, Fault, vars

LEMMA EmailsNext == Accounted /\ EmailsApart /\ [Next]_vars => EmailsApart'
<1> SUFFICES ASSUME Accounted, EmailsApart, [Next]_vars PROVE EmailsApart'
  OBVIOUS
<1>1. UsersKept
  BY UsersNext
<1>2. CASE Users \intersect rows' = Users \intersect rows
  BY <1>1, <1>2 DEF UsersKept, EmailsApart
<1>3. ASSUME NEW u \in Users, ~ Taken(u), rows' = rows \union {u} PROVE EmailsApart'
  BY <1>1, <1>3 DEF UsersKept, EmailsApart, Taken
<1>4. QED
  BY <1>1, <1>2, <1>3 DEF UsersKept

(* A user whose creation failed between its two calls never gets a password  *)
(* and keeps its email from everybody else, whatever calls, runs of the job  *)
(* and failures follow (the gateway's createUser, UserService's CreateUser,  *)
(* CreateUserPassword and UpdateUserPassword).                               *)
THEOREM HalfMadeUserStays == Spec => HalfMadeUserForGood
<1>1. Init => EmailsApart
  BY EarlierAssumption DEF Init, AccountInit, EmailsApart, Taken
<1>2. Accounted /\ EmailsApart /\ EmailsApart' /\ [Next]_vars =>
        [\A u \in Users :
           HalfMadeUser(u) =>
             /\ HalfMadeUser(u)'
             /\ \A v \in (Users \intersect rows') \ {u} :
                  handle'[v].email # handle[u].email]_vars
  <2> SUFFICES ASSUME Accounted, EmailsApart', [Next]_vars,
                      NEW u \in Users, HalfMadeUser(u)
               PROVE  /\ HalfMadeUser(u)'
                      /\ \A v \in (Users \intersect rows') \ {u} :
                           handle'[v].email # handle[u].email
    OBVIOUS
  <2>1. UsersKept
    BY UsersNext
  <2>2. HalfMadeUser(u)' /\ handle'[u].email = handle[u].email
    BY <2>1 DEF UsersKept
  <2>3. u \in rows'
    BY <2>2 DEF HalfMadeUser
  <2>4. QED
    BY <2>2, <2>3 DEF EmailsApart
<1>3. QED
  BY <1>1, <1>2, AccountsHold, EmailsNext, PTL DEF Spec, HalfMadeUserForGood
=============================================================================
