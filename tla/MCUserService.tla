--------------------------- MODULE MCUserService ---------------------------
(* UserService for TLC: small sets of model values. *)
EXTENDS UserService

CONSTANTS n1, a1, e1, v1, w1

AdminHandle == [username |-> a1, email |-> e1]

OnePermission == <<n1>>
NoPermissions == <<>>

AdminLogin == {<<v1, w1>>}
AllLogins == {v1} \X {w1, NoPassword}

NoCookies == [b \in Browsers |-> NoToken]
OneCookie == [b \in Browsers |-> 1]
============================================================================
