---------------------------- MODULE TeamDirectory ----------------------------
(***************************************************************************)
(* What accounts and team management promise an organization: a directory  *)
(* of members and roles in which every change takes effect at once, and    *)
(* that never loses its last owner (LastOwnerError: "an action would leave *)
(* an organization with zero owners").                                     *)
(***************************************************************************)

CONSTANTS Users, Orgs, Nobody

VARIABLES
    home,   \* the organization each user joined, Nobody's before that
    role    \* his role in it, "none" before he joins and after he left

directoryVars == <<home, role>>

Roles == {"owner", "admin", "member"}

Owners(o) == {u \in Users : home[u] = o /\ role[u] = "owner"}

Init ==
    /\ home = [u \in Users |-> Nobody]
    /\ role = [u \in Users |-> "none"]

Join(u, o, r) ==
    /\ home[u] = Nobody
    /\ home' = [home EXCEPT ![u] = o]
    /\ role' = [role EXCEPT ![u] = r]

\* An organization begins with its owner, and everyone else is invited.
Found(u, o)     == (\A v \in Users : home[v] # o) /\ Join(u, o, "owner")
Invite(u, o, r) == Owners(o) # {} /\ Join(u, o, r)

SomeoneElseOwns(u) == \E v \in Owners(home[u]) : v # u

ChangeRole(u, r) ==
    /\ role[u] # "none"
    /\ role[u] = "owner" /\ r # "owner" => SomeoneElseOwns(u)
    /\ role' = [role EXCEPT ![u] = r]
    /\ UNCHANGED home

Leave(u) ==
    /\ role[u] # "none"
    /\ role[u] = "owner" => SomeoneElseOwns(u)
    /\ role' = [role EXCEPT ![u] = "none"]
    /\ UNCHANGED home

Next ==
    \E u \in Users :
        \/ \E o \in Orgs : Found(u, o) \/ \E r \in Roles : Invite(u, o, r)
        \/ \E r \in Roles : ChangeRole(u, r)
        \/ Leave(u)

Spec == Init /\ [][Next]_directoryVars
=============================================================================
