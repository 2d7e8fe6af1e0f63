SPECIFICATION Spec
CONSTANTS
  Users = {u1}
  Jobs = {}
  Earlier = {u1}
  Usernames = {a1}
  Emails = {e1}
  FirstUser <- AdminHandle
  Passwords = {w1}
  NoPassword = NoPassword
  Roles = {}
  Permissions = {}
  PermissionNames = {}
  FirstPermissions <- NoPermissions
  LinkCalls = {}
  Browsers = {b1}
  Requests = {1, 2, 3}
  Tokens = {1, 2}
  NoToken = 0
  FirstCookie <- OneCookie
  Logins <- AllLogins
  Processes = {s1, s2}
  Expire = 1
  Renew = 1
  MaxTime = 1
  MaxActive = 2
  MaxFaults = 1
  n1 = n1
  a1 = a1
  e1 = e1
  v1 = u1
  w1 = w1
INVARIANT RevokedIsRefused LoggedOutIsRevoked RefusedOnlyForAReason
CHECK_DEADLOCK FALSE
