---------------------------- MODULE IdentityFlow ----------------------------
(***************************************************************************)
(* The identity page of the web console (src/src/App.tsx): signing in as a *)
(* user of the simulated database, rotating the access token, the two      *)
(* places to sign out from, and the test of the protected routes.  The     *)
(* sign-up, verification and recovery handlers are bound to no control of  *)
(* the page, so that the database is constant.  The password is a state no *)
(* control changes, and no handler compares it.                            *)
(***************************************************************************)
EXTENDS Naturals, FiniteSets

CONSTANTS
  Users,          \* the ids in the database
  EmailOf,        \* each user's address
  RolesOf,        \* each user's roles
  Verified,       \* the users whose address is verified
  TypedEmails,    \* what the login field can hold
  FirstEmail,     \* what it holds at first
  Lifetime,       \* of an access token
  MaxTime,        \* bound: the clock
  None

Roles     == {"ROLE_USER", "ROLE_MODERATOR", "ROLE_ADMIN"}
Resources == {"/api/public/status", "/api/management/moderation", "/api/admin/dashboard"}

ASSUME IdentityAssumption ==
  /\ EmailOf \in [Users -> TypedEmails] /\ FirstEmail \in TypedEmails
  /\ RolesOf \in [Users -> SUBSET Roles]
  /\ \A u, v \in Users : EmailOf[u] = EmailOf[v] => u = v
  /\ Verified \subseteq Users
  /\ Lifetime \in Nat /\ MaxTime \in Nat
  /\ None \notin Users \cup [sub : Users, roles : SUBSET Roles, exp : Nat]

VARIABLES
  loginEmail,
  loggedInUser,
  simToken,         \* the claims of the access token
  simRefreshToken,  \* whom the refresh token was issued to
  accessed,         \* the last route tested, its outcome and the claims held then
  now

session == <<loggedInUser, simToken, simRefreshToken>>
identityVars == <<loginEmail, session, accessed, now>>

IdentityInit ==
  /\ loginEmail = FirstEmail
  /\ loggedInUser = None /\ simToken = None /\ simRefreshToken = None
  /\ accessed = None
  /\ now = 0

Claims(u) == [sub |-> u, roles |-> RolesOf[u], exp |-> now + Lifetime]

-----------------------------------------------------------------------------

handleLogin ==
  \E u \in Verified :
    /\ EmailOf[u] = loginEmail
    /\ loggedInUser' = u
    /\ simToken' = Claims(u)
    /\ simRefreshToken' = u
    /\ UNCHANGED <<loginEmail, accessed, now>>

\* Mutant of handleLogout: the access token is forgotten.
FaultyLogout ==
  /\ loggedInUser' = None /\ simRefreshToken' = None
  /\ UNCHANGED <<simToken, loginEmail, accessed, now>>

handleLogout ==
  /\ loggedInUser' = None /\ simToken' = None /\ simRefreshToken' = None
  /\ UNCHANGED <<loginEmail, accessed, now>>

(* The claims are those of the user in the page's state.                   *)
handleTriggerSessionRefresh ==
  /\ simRefreshToken # None
  /\ simToken' = Claims(loggedInUser)
  /\ UNCHANGED <<loginEmail, loggedInUser, simRefreshToken, accessed, now>>

triggerRefreshJwtToken == loggedInUser # None /\ handleTriggerSessionRefresh

\* Mutant of Denied: moderators pass for administrators.
FaultyDenied(resource) ==
  \/ simToken = None \/ loggedInUser = None
  \/ /\ resource # "/api/public/status"
     /\ RolesOf[loggedInUser] \cap {"ROLE_ADMIN", "ROLE_MODERATOR"} = {}

(* Also the public route asks for a token.  The expiry is not looked at.   *)
Denied(resource) ==
  \/ simToken = None \/ loggedInUser = None
  \/ resource = "/api/admin/dashboard" /\ "ROLE_ADMIN" \notin RolesOf[loggedInUser]
  \/ /\ resource = "/api/management/moderation"
     /\ "ROLE_MODERATOR" \notin RolesOf[loggedInUser]
     /\ "ROLE_ADMIN" \notin RolesOf[loggedInUser]

testSecureRoleAccess(resource) ==
  /\ accessed' = [resource |-> resource, granted |-> ~Denied(resource), claims |-> simToken]
  /\ UNCHANGED <<loginEmail, session, now>>

-----------------------------------------------------------------------------
(* The page and the profile in the header.                                 *)

UserList ==
  /\ \E u \in Users : loginEmail' = EmailOf[u]
  /\ UNCHANGED <<session, accessed, now>>

AuthPanel ==
  \/ loggedInUser # None /\ (triggerRefreshJwtToken \/ handleLogout)
  \/ /\ loggedInUser = None
     /\ \/ handleLogin
        \/ \E typed \in TypedEmails :
             loginEmail' = typed /\ UNCHANGED <<session, accessed, now>>

ProfileBar == loggedInUser # None /\ handleLogout

RouteTest == \E resource \in Resources : testSecureRoleAccess(resource)

Tick == now < MaxTime /\ now' = now + 1 /\ UNCHANGED <<loginEmail, session, accessed>>

IdentityNext == UserList \/ AuthPanel \/ ProfileBar \/ RouteTest \/ Tick

IdentitySpec == IdentityInit /\ [][IdentityNext]_identityVars

-----------------------------------------------------------------------------

(* The three parts of a session come and go together, whichever of the two *)
(* ways out is taken and however often the claims are rotated: signed out  *)
(* means that no token is left, signed in that both tokens are those of    *)
(* the user shown, who is verified, with that user's roles.                *)
SessionWhole ==
  \/ session = <<None, None, None>>
  \/ /\ loggedInUser \in Verified
     /\ simRefreshToken = loggedInUser
     /\ simToken.sub = loggedInUser /\ simToken.roles = RolesOf[loggedInUser]
     /\ simToken.exp <= now + Lifetime

(* The roles the page lists under each protected route.                    *)
Required == [r \in Resources \ {"/api/public/status"} |->
               IF r = "/api/admin/dashboard" THEN {"ROLE_ADMIN"}
                                             ELSE {"ROLE_ADMIN", "ROLE_MODERATOR"}]

(* Testing a protected route grants exactly what the page says it          *)
(* requires: to a session whose token carries one of the roles listed, and *)
(* to no other.  The route listed as "Permit All" is not a protected one   *)
(* to the page, although it is denied without a token as well.             *)
AccessByRole ==
  accessed # None /\ accessed.resource # "/api/public/status" =>
    (accessed.granted <=>
       /\ accessed.claims # None
       /\ accessed.claims.roles \cap Required[accessed.resource] # {})
=============================================================================
