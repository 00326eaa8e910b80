--------------------------- MODULE DeviceDirectory ---------------------------
(***************************************************************************)
(* What the registry promises, whatever runs concurrently: a directory of  *)
(* keys with at most `ceiling` rows, in which a row, once there, stays;    *)
(* its token changes by a registration of that key, and is taken away only *)
(* when APNs has called exactly that token bad.                            *)
(***************************************************************************)
EXTENDS Naturals, FiniteSets

CONSTANTS Key, Token, Absent, Cleared

VARIABLES
    directory,  \* the token of each key, Cleared, or Absent
    dead,       \* the tokens APNs has called bad
    ceiling     \* how many rows the operator has allowed

Enrolled == {k \in Key : directory[k] # Absent}

Init ==
    /\ directory \in [Key -> Token \cup {Absent, Cleared}]
    /\ dead = {}
    /\ ceiling \in Nat
    /\ Cardinality(Enrolled) <= ceiling

Enroll(k, t) ==
    /\ directory[k] = Absent
    /\ Cardinality(Enrolled) < ceiling
    /\ directory' = [directory EXCEPT ![k] = t]
    /\ UNCHANGED <<dead, ceiling>>

Renew(k, t) ==
    /\ directory[k] # Absent
    /\ directory' = [directory EXCEPT ![k] = t]
    /\ UNCHANGED <<dead, ceiling>>

Report(t) ==
    /\ dead' = dead \cup {t}
    /\ UNCHANGED <<directory, ceiling>>

Retire(k) ==
    /\ directory[k] \in dead
    /\ directory' = [directory EXCEPT ![k] = Cleared]
    /\ UNCHANGED <<dead, ceiling>>

RaiseCeiling ==
    /\ ceiling' \in Nat
    /\ ceiling' > ceiling
    /\ UNCHANGED <<directory, dead>>

Next ==
    \/ \E k \in Key, t \in Token : Enroll(k, t) \/ Renew(k, t)
    \/ \E t \in Token : Report(t)
    \/ \E k \in Key : Retire(k)
    \/ RaiseCeiling

Spec == Init /\ [][Next]_<<directory, dead, ceiling>>

=============================================================================
