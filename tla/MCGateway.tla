----------------------------- MODULE MCGateway -----------------------------
(* Gateway for TLC: small sets of model values. *)
EXTENDS Gateway

CONSTANTS a1, e1, v1, w1

AdminHandle == [username |-> a1, email |-> e1]

(* The rights over permissions and theaters. *)
TwoRights == {"user_permissions.manage", "theaters.manage"}
TwoPermissions == <<"user_permissions.manage", "theaters.manage">>

(* Routes of both sorts, and all that change permissions. *)
AskedMethods ==
  PermissionCalls \union {"updateUser", "deleteTheater"}

AdminLogin == {<<v1, w1>>}

NoCookies == [b \in Browsers |-> NoToken]
============================================================================
