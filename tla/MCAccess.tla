------------------------------ MODULE MCAccess ------------------------------
(* The panel's administration: Staff and Sessions share no row but an account's *)
(* active flag, so a behaviour exercises the one or the other.                  *)
EXTENDS Staff, Sessions, TLC
CONSTANTS a1, a2, a3, root, help, k1, k2
VARIABLE part
vars == <<part, staffVars, sessionVars>>
MCFirstAdmins == a1 :> root @@ a2 :> root
MCFirstRoles == root :> ROLE_PERMISSIONS.SUPER_ADMIN @@ help :> ROLE_PERMISSIONS.SUPPORT
MCGrants == {ROLE_PERMISSIONS.SUPPORT, ROLE_PERMISSIONS.SUPER_ADMIN}
ClerkSymmetry == Permutations({k1, k2})
Init == part \in {"staff", "sessions"} /\ StaffInit /\ SessionsInit /\ (part = "sessions" => practice = "careful")
Next == \/ part = "staff" /\ StaffNext /\ UNCHANGED <<part, sessionVars>>
        \/ part = "sessions" /\ SessionsNext /\ UNCHANGED <<part, staffVars>>
Spec == Init /\ [][Next]_vars
=============================================================================
