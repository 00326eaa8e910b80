------------------------------ MODULE PushSender ------------------------------
(***************************************************************************)
(* What pushOne relies on when it awaits pushSender.send: APNs takes a     *)
(* message at most once, "ok" is answered only for a message that was      *)
(* taken, "badToken" only when APNs refused it because of its token, and a *)
(* failed send says nothing: the message may have been taken, or may still *)
(* be taken later.                                                         *)
(***************************************************************************)
EXTENDS Naturals

CONSTANT Sender     \* the sends of one isolate

VARIABLES
    outcome,    \* what the caller of each send has learnt
    copies,     \* how often APNs took the message of each send
    condemned   \* the sends whose device token APNs called bad

Init ==
    /\ outcome = [s \in Sender |-> "waiting"]
    /\ copies = [s \in Sender |-> 0]
    /\ condemned = {}

Take(s) ==
    /\ outcome[s] \in {"waiting", "failed"}
    /\ copies[s] = 0
    /\ s \notin condemned
    /\ copies' = [copies EXCEPT ![s] = 1]
    /\ UNCHANGED <<outcome, condemned>>

Condemn(s) ==
    /\ outcome[s] \in {"waiting", "failed"}
    /\ copies[s] = 0
    /\ condemned' = condemned \cup {s}
    /\ UNCHANGED <<outcome, copies>>

Resolve(s) ==
    /\ outcome[s] = "waiting"
    /\ copies[s] = 1
    /\ outcome' = [outcome EXCEPT ![s] = "ok"]
    /\ UNCHANGED <<copies, condemned>>

ReportBadToken(s) ==
    /\ outcome[s] = "waiting"
    /\ s \in condemned
    /\ outcome' = [outcome EXCEPT ![s] = "badToken"]
    /\ UNCHANGED <<copies, condemned>>

Fail(s) ==
    /\ outcome[s] = "waiting"
    /\ outcome' = [outcome EXCEPT ![s] = "failed"]
    /\ UNCHANGED <<copies, condemned>>

Next ==
    \E s \in Sender :
        Take(s) \/ Condemn(s) \/ Resolve(s) \/ ReportBadToken(s) \/ Fail(s)

Spec == Init /\ [][Next]_<<outcome, copies, condemned>>

=============================================================================
