SPECIFICATION GatewaySpec
CONSTANTS
  Users = {j1}
  Jobs = {j1}
  Earlier = {}
  Usernames = {a1}
  Emails = {e1}
  FirstUser <- AdminHandle
  Passwords = {w1}
  NoPassword = NoPassword
  Roles = {r1}
  Permissions = {p1, p2}
  PermissionNames <- TwoRights
  FirstPermissions <- TwoPermissions
  LinkCalls = {}
  Browsers = {b1}
  Requests = {1, 2, 3}
  Tokens = {1}
  NoToken = 0
  FirstCookie <- NoCookies
  Logins <- AdminLogin
  Processes = {s1}
  Expire = 1
  Renew = 0
  MaxTime = 0
  MaxActive = 2
  MaxFaults = 1
  Asked <- AskedMethods
  a1 = a1
  e1 = e1
  v1 = j1
  w1 = w1
INVARIANT GatewayTypeOK ChangedOnlyWithRight
PROPERTY LockedOutForGood
CHECK_DEADLOCK FALSE
