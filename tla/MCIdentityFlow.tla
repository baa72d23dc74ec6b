--------------------------- MODULE MCIdentityFlow ---------------------------
(* The two seeded users; the login field may also hold an address nobody   *)
(* has.                                                                    *)
EXTENDS IdentityFlow

MCUsers == {"shrey", "alex"}
MCEmailOf == [u \in MCUsers |-> u]
MCRolesOf ==
  [u \in MCUsers |->
     {"ROLE_USER", IF u = "shrey" THEN "ROLE_ADMIN" ELSE "ROLE_MODERATOR"}]
MCTypedEmails == MCUsers \cup {"nobody"}
=============================================================================
