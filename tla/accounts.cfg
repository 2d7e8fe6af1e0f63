SPECIFICATION Spec
CONSTANTS
  Users = {j1, j2, u1}
  Jobs = {j1, j2}
  Earlier = {}
  Usernames = {a1}
  Emails = {e1}
  FirstUser <- AdminHandle
  Passwords = {w1}
  NoPassword = NoPassword
  Roles = {r1}
  Permissions = {p1}
  PermissionNames = {n1}
  FirstPermissions <- OnePermission
  LinkCalls = {c1}
  Browsers = {b1}
  Requests = {1}
  Tokens = {1}
  NoToken = 0
  FirstCookie <- NoCookies
  Logins <- AdminLogin
  Processes = {s1}
  Expire = 1
  Renew = 0
  MaxTime = 0
  MaxActive = 2
  MaxFaults = 1
  n1 = n1
  a1 = a1
  e1 = e1
  v1 = j1
  w1 = w1
INVARIANT SetupIsWhole
PROPERTY HalfMadeUserForGood
CHECK_DEADLOCK FALSE
