---------------------------- MODULE ProvenRelease ----------------------------
(***************************************************************************)
(* What a verification promises about a protected action: it is released   *)
(* once, for a subject all of whose required gates were proven on that     *)
(* very subject, and, where policy asks, on a consent that is used up by   *)
(* the release.  Passes, observations, processes and kills do not exist    *)
(* here.                                                                   *)
(***************************************************************************)
CONSTANTS
    Subject,   \* an exact call at a contract and a workspace
    Required,  \* the gates each subject requires
    Asked,     \* subjects for which policy asks the user
    Denied     \* subjects for which policy denies

VARIABLES
    proven,    \* gate receipts: pairs of a gate and a subject
    approved,  \* consents that were not used yet
    released

Release_vars == <<proven, approved, released>>

Init == proven = {} /\ approved = {} /\ released = {}

Prove(g, s) ==
    /\ g \in Required[s]
    /\ <<g, s>> \notin proven
    /\ proven' = proven \cup {<<g, s>>}
    /\ UNCHANGED <<approved, released>>

Approve(s) ==
    /\ s \in Asked
    /\ approved' = approved \cup {s}
    /\ UNCHANGED <<proven, released>>

Decline(s) ==
    /\ approved' = approved \ {s}
    /\ UNCHANGED <<proven, released>>

Release(s) ==
    /\ s \notin Denied \cup released
    /\ \A g \in Required[s] : <<g, s>> \in proven
    /\ s \in Asked => s \in approved
    /\ released' = released \cup {s}
    /\ approved' = approved \ {s}
    /\ UNCHANGED proven

Next == \E s \in Subject :
            \/ \E g \in Required[s] : Prove(g, s)
            \/ Approve(s) \/ Decline(s) \/ Release(s)

Spec == Init /\ [][Next]_Release_vars
=============================================================================
