------------------------------ MODULE Accounts ------------------------------
(***************************************************************************)
(* UserService: users and their passwords, roles and permissions, the      *)
(* links between them, and the initialization job; and of the gateway, the *)
(* call that creates a user and then its password.                         *)
(*                                                                         *)
(* A transaction ends with its one insert or update, and what it has read  *)
(* it has locked or an index guards, so it is one step.  No user is ever   *)
(* deleted.  A run of the job creates at most one user: a run is also the  *)
(* name of its user.                                                       *)
(***************************************************************************)
EXTENDS Naturals, Sequences

CONSTANTS
  Users,            \* calls that create a user, and their users
  Jobs,             \* runs of the initialization job
  Earlier,          \* users that are there at the start
  Usernames,        \* usernames
  Emails,           \* email addresses
  FirstUser,        \* [username, email] of the first user, from the configuration
  Passwords,        \* passwords
  NoPassword,       \* no row in the table of the passwords; a password nobody has
  Roles,            \* rows of roles
  Permissions,      \* rows of permissions
  PermissionNames,  \* their names
  FirstPermissions, \* the names of the first permissions, from the configuration
  LinkCalls         \* calls that add or remove a link

Handles == [username : Usernames, email : Emails]

ASSUME JobsAssumption == Jobs \subseteq Users
ASSUME TablesAssumption == Users \intersect (Roles \union Permissions) = {}
ASSUME EarlierAssumption == Earlier \subseteq Users \ Jobs
ASSUME FirstUserAssumption == Jobs # {} => FirstUser \in Handles
ASSUME NoPasswordAssumption == NoPassword \notin Passwords
ASSUME FirstPermissionsAssumption == FirstPermissions \in Seq(PermissionNames)

VARIABLES
  rows,            \* the users, roles and permissions that are there
  used,            \* the ids the tables have given out
  handle,          \* username and email a call asks for, then the user's
  password,        \* the password of a user
  userCall,        \* where the gateway's call that creates a user is
  permissionName,  \* the name of a permission
  links,           \* pairs of a user and a role, of a role and a permission
  unlinked,        \* history: a link was removed
  linkCall,        \* [step, add, link]: where a call is
  job              \* [step, role, permissions]: where a run of the job is

linkVars == <<links, unlinked, linkCall>>
accountVars == <<rows, used, handle, password, userCall, permissionName,
                 linkVars, job>>

Ids == Users \union Roles \union Permissions
Links == (Users \X Roles) \union (Roles \X Permissions)

UserStep == {"idle", "password", "done", "failed"}
LinkStep == {"idle", "reading", "writing", "done", "failed"}
JobStep == {"idle", "users", "roles", "permissions", "user", "password", "role",
            "link", "permission", "grant", "done", "skipped", "failed"}

AccountTypeOK ==
  /\ rows \subseteq Ids
  /\ used \subseteq Ids
  /\ handle \in [Users -> Handles]
  /\ password \in [Users -> Passwords \union {NoPassword}]
  /\ userCall \in [Users -> UserStep]
  /\ permissionName \in [Permissions -> PermissionNames]
  /\ links \subseteq Links
  /\ unlinked \in BOOLEAN
  /\ linkCall \in [LinkCalls -> [step : LinkStep, add : BOOLEAN, link : Links]]
  /\ job \in [Jobs -> [step : JobStep, role : SUBSET Roles,
                     permissions : Seq(Permissions)]]

(* The unique indexes over usernames and over emails. *)
Taken(u) ==
  \E v \in (Users \intersect rows) \ {u} :
    \/ handle[v].username = handle[u].username
    \/ handle[v].email = handle[u].email

AccountInit ==
  /\ rows = Earlier
  /\ used = Earlier
  /\ handle \in [Users -> Handles]
  /\ \A j \in Jobs : handle[j] = FirstUser
  /\ \A u \in Earlier : ~ Taken(u)
  /\ \E w \in Passwords :
       password = [u \in Users |-> IF u \in Earlier THEN w ELSE NoPassword]
  /\ userCall = [u \in Users |-> IF u \in Earlier THEN "done" ELSE "idle"]
  /\ permissionName \in [Permissions -> PermissionNames]
  /\ links = {}
  /\ unlinked = FALSE
  /\ \E l \in [LinkCalls -> Links] :
       linkCall = [c \in LinkCalls |->
                     [step |-> "idle", add |-> FALSE, link |-> l[c]]]
  /\ job = [j \in Jobs |-> [step |-> "idle", role |-> {}, permissions |-> <<>>]]

RolesOf(u) == {r \in Roles : <<u, r>> \in links}
NamesOf(R) == {permissionName[p] :
                 p \in {p \in Permissions : \E r \in R : <<r, p>> \in links}}

(* What a user may do by the roles it has now. *)
HeldBy(u) == NamesOf(RolesOf(u))

---------------------------------------------------------------------------
(* Users and passwords *)

InsertRow(i) ==
  /\ i \notin used
  /\ rows' = rows \union {i}
  /\ used' = used \union {i}

UserStepFrom(u, from, to) ==
  /\ u \notin Jobs
  /\ userCall[u] = from
  /\ userCall' = [userCall EXCEPT ![u] = to]

CreateUser(u) ==
  /\ UserStepFrom(u, "idle", "password")
  /\ ~ Taken(u)
  /\ InsertRow(u)
  /\ UNCHANGED <<handle, password, permissionName, linkVars, job>>

(* Taken, or not a valid name. *)
RefuseUser(u) ==
  /\ UserStepFrom(u, "idle", "failed")
  /\ UNCHANGED <<rows, used, handle, password, permissionName, linkVars, job>>

CreateUserPassword(u, w) ==
  /\ UserStepFrom(u, "password", "done")
  /\ password[u] = NoPassword
  /\ password' = [password EXCEPT ![u] = w]
  /\ UNCHANGED <<rows, used, handle, permissionName, linkVars, job>>

(* Too short a password is found when the user is there. *)
RefusePassword(u) ==
  /\ UserStepFrom(u, "password", "failed")
  /\ UNCHANGED <<rows, used, handle, password, permissionName, linkVars, job>>

(* The gateway's call to update a user is an UpdateUser and then, if it names *)
(* a password, an UpdateUserPassword.                                         *)
UpdateUser(u, n) ==
  /\ u \in rows
  /\ \A v \in Users \intersect rows : v # u => handle[v].username # n
  /\ handle' = [handle EXCEPT ![u].username = n]
  /\ UNCHANGED <<rows, used, password, userCall, permissionName, linkVars, job>>

(* Mutant: a password that is not there is made. *)
UpsertUserPassword(u, w) ==
  /\ u \in rows
  /\ password' = [password EXCEPT ![u] = w]
  /\ UNCHANGED <<rows, used, handle, userCall, permissionName, linkVars, job>>

UpdateUserPassword(u, w) ==
  /\ password[u] # NoPassword
  /\ password' = [password EXCEPT ![u] = w]
  /\ UNCHANGED <<rows, used, handle, userCall, permissionName, linkVars, job>>

(* The gateway's call is cut off when UserService has done its part, or has   *)
(* not: the user is there without a password, or with one nobody was told of. *)
CreateUserFails(u) ==
  \/ /\ ~ Taken(u)
     /\ UserStepFrom(u, "idle", "failed")
     /\ InsertRow(u)
     /\ UNCHANGED <<handle, password, permissionName, linkVars, job>>
  \/ /\ UserStepFrom(u, "password", "failed")
     /\ \E w \in Passwords : password' = [password EXCEPT ![u] = w]
     /\ UNCHANGED <<rows, used, handle, permissionName, linkVars, job>>

---------------------------------------------------------------------------
(* Roles and permissions *)

CreateUserRole(r) ==
  /\ InsertRow(r)
  /\ UNCHANGED <<handle, password, userCall, permissionName, linkVars, job>>

(* Mutant: the links stay. *)
DropRowOnly(i) ==
  /\ i \in rows
  /\ rows' = rows \ {i}
  /\ UNCHANGED <<used, handle, password, userCall, permissionName, linkVars, job>>

(* The foreign keys take the links of a row with it. *)
DropRow(i) ==
  LET dropped == {l \in links : l[1] = i \/ l[2] = i} IN
  /\ i \in rows
  /\ rows' = rows \ {i}
  /\ links' = links \ dropped
  /\ unlinked' = (unlinked \/ dropped # {})
  /\ UNCHANGED <<used, handle, password, userCall, permissionName, linkCall, job>>

DeleteUserRole(r) == DropRow(r)

NameFree(n, p) ==
  \A o \in Permissions \intersect rows : o # p => permissionName[o] # n

InsertPermission(p, n) ==
  /\ NameFree(n, p)
  /\ InsertRow(p)
  /\ permissionName' = [permissionName EXCEPT ![p] = n]

CreateUserPermission(p, n) ==
  /\ InsertPermission(p, n)
  /\ UNCHANGED <<handle, password, userCall, linkVars, job>>

UpdateUserPermission(p, n) ==
  /\ p \in rows
  /\ NameFree(n, p)
  /\ permissionName' = [permissionName EXCEPT ![p] = n]
  /\ UNCHANGED <<rows, used, handle, password, userCall, linkVars, job>>

DeleteUserPermission(p) == DropRow(p)

---------------------------------------------------------------------------
(* Links: both ends are read, then a transaction changes the link *)

StartLinkCall(c, add, l) ==
  /\ linkCall[c].step = "idle"
  /\ linkCall' = [linkCall EXCEPT ![c] = [step |-> "reading", add |-> add, link |-> l]]
  /\ UNCHANGED <<rows, used, handle, password, userCall, permissionName,
                 links, unlinked, job>>

AddUserRoleToUser(c, u, r) == StartLinkCall(c, TRUE, <<u, r>>)

RemoveUserRoleFromUser(c, u, r) == StartLinkCall(c, FALSE, <<u, r>>)

AddUserPermissionToUserRole(c, r, p) == StartLinkCall(c, TRUE, <<r, p>>)

RemoveUserPermissionFromUserRole(c, r, p) == StartLinkCall(c, FALSE, <<r, p>>)

LinkStepFrom(c, from, to) ==
  /\ linkCall[c].step = from
  /\ linkCall' = [linkCall EXCEPT ![c].step = to]
  /\ UNCHANGED <<rows, used, handle, password, userCall, permissionName, job>>

(* A row that goes between the two reads is missed by the second, or by the  *)
(* foreign key.                                                              *)
ReadEnds(c) ==
  LET l == linkCall[c].link IN
  /\ LinkStepFrom(c, "reading",
       IF l[1] \in rows /\ l[2] \in rows THEN "writing" ELSE "failed")
  /\ UNCHANGED <<links, unlinked>>

(* The unique index, and the foreign keys. *)
Addable(l) == l[1] \in rows /\ l[2] \in rows /\ l \notin links

(* Mutant: the columns are swapped. *)
AddLinkSwapped(c) ==
  LET l == linkCall[c].link IN
  /\ linkCall[c].add
  /\ Addable(l)
  /\ LinkStepFrom(c, "writing", "done")
  /\ links' = links \union {<<l[2], l[1]>>}
  /\ UNCHANGED unlinked

AddLink(c) ==
  LET l == linkCall[c].link IN
  /\ linkCall[c].add
  /\ Addable(l)
  /\ LinkStepFrom(c, "writing", "done")
  /\ links' = links \union {l}
  /\ UNCHANGED unlinked

RemoveLink(c) ==
  LET l == linkCall[c].link IN
  /\ ~ linkCall[c].add
  /\ l \in links
  /\ LinkStepFrom(c, "writing", "done")
  /\ links' = links \ {l}
  /\ unlinked' = TRUE

RefuseLink(c) ==
  LET l == linkCall[c].link IN
  /\ IF linkCall[c].add THEN ~ Addable(l) ELSE l \notin links
  /\ LinkStepFrom(c, "writing", "failed")
  /\ UNCHANGED <<links, unlinked>>

LinkCallFails(c) ==
  /\ linkCall[c].step \in {"reading", "writing"}
  /\ LinkStepFrom(c, linkCall[c].step, "failed")
  /\ UNCHANGED <<links, unlinked>>

---------------------------------------------------------------------------
(* The initialization job *)

JobTo(j, from, to) ==
  /\ job[j].step = from
  /\ job' = [job EXCEPT ![j].step = to]

JobReads(j, from, empty, to) ==
  /\ JobTo(j, from, IF empty THEN to ELSE "skipped")
  /\ UNCHANGED <<rows, used, handle, password, userCall, permissionName, linkVars>>

StartJob(j) == JobReads(j, "idle", TRUE, "users")
CountUsers(j) == JobReads(j, "users", rows \intersect Users = {}, "roles")
CountRoles(j) == JobReads(j, "roles", rows \intersect Roles = {}, "permissions")
CountPermissions(j) ==
  JobReads(j, "permissions", rows \intersect Permissions = {}, "user")

CreateFirstUser(j) ==
  /\ ~ Taken(j)
  /\ JobTo(j, "user", "password")
  /\ InsertRow(j)
  /\ UNCHANGED <<handle, password, userCall, permissionName, linkVars>>

CreateFirstPassword(j, w) ==
  /\ JobTo(j, "password", "role")
  /\ password' = [password EXCEPT ![j] = w]
  /\ UNCHANGED <<rows, used, handle, userCall, permissionName, linkVars>>

CreateFirstRole(j, r) ==
  /\ job[j].step = "role"
  /\ job' = [job EXCEPT ![j].step = "link", ![j].role = {r}]
  /\ InsertRow(r)
  /\ UNCHANGED <<handle, password, userCall, permissionName, linkVars>>

Created(j) == Len(job[j].permissions)

(* Mutant: the loop ends one too soon. *)
NextPermissionButOne(j) ==
  IF Created(j) + 1 >= Len(FirstPermissions) THEN "done" ELSE "permission"

(* The loop over the permissions. *)
NextPermission(j) ==
  IF Created(j) = Len(FirstPermissions) THEN "done" ELSE "permission"

(* What the calls of the two links read first can only make them fail, as    *)
(* the foreign keys would.                                                   *)
LinkFirstRole(j, r) ==
  /\ r \in job[j].role
  /\ Addable(<<j, r>>)
  /\ JobTo(j, "link", NextPermission(j))
  /\ links' = links \union {<<j, r>>}
  /\ UNCHANGED <<rows, used, handle, password, userCall, permissionName,
                 unlinked, linkCall>>

CreateFirstPermission(j, p) ==
  /\ job[j].step = "permission"
  /\ job' = [job EXCEPT ![j].step = "grant",
                           ![j].permissions = Append(@, p)]
  /\ InsertPermission(p, FirstPermissions[Created(j) + 1])
  /\ UNCHANGED <<handle, password, userCall, linkVars>>

GrantFirstPermission(j, r) ==
  LET l == <<r, job[j].permissions[Created(j)]>> IN
  /\ JobTo(j, "grant", NextPermission(j))
  /\ r \in job[j].role
  /\ Addable(l)
  /\ links' = links \union {l}
  /\ UNCHANGED <<rows, used, handle, password, userCall, permissionName,
                 unlinked, linkCall>>

(* A name is taken, an end of a link is gone or the link is there.           *)
FirstRefused(j) ==
  CASE job[j].step = "user" -> Taken(j)
    [] job[j].step = "link" -> \A r \in job[j].role : ~ Addable(<<j, r>>)
    [] job[j].step = "permission" ->
         \E p \in Permissions \intersect rows :
           permissionName[p] = FirstPermissions[Created(j) + 1]
    [] job[j].step = "grant" ->
         \A r \in job[j].role : ~ Addable(<<r, job[j].permissions[Created(j)]>>)
    [] OTHER -> FALSE

EndJob(j) ==
  /\ JobTo(j, job[j].step, "failed")
  /\ UNCHANGED <<rows, used, handle, password, userCall, permissionName, linkVars>>

(* The error ends the process, and what was created stays.                   *)
JobRefused(j) == FirstRefused(j) /\ EndJob(j)

JobFails(j) ==
  /\ job[j].step \notin {"idle", "done", "skipped", "failed"}
  /\ EndJob(j)
============================================================================
