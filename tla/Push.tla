-------------------------------- MODULE Push --------------------------------
(***************************************************************************)
(* pushOne: one notification to one device, one state machine per call.    *)
(* A call reads the device's token, awaits APNs with that token, and when  *)
(* APNs calls the token bad it clears the row again with a third statement *)
(* that compares the token.  Between the three awaits the row may have     *)
(* been registered anew.                                                   *)
(***************************************************************************)
EXTENDS D1Devices

CONSTANT Pusher     \* pushOne calls that can be under way

VARIABLES
    pphase,     \* the phase of each call
    pkey,       \* message.deviceKey
    ptoken,     \* the local deviceToken, read before the send
    dead        \* history: the tokens APNs has called bad

pushVars == <<pphase, pkey, ptoken, dead>>

\* Awaiting the lookup, the send, or the cleanup.
Pushing == {"lookup", "send", "cleanup"}

\* The PushAttempt: 400 (noKey, noToken), 200 (delivered), 500 (undelivered).
Pushed == {"noKey", "noToken", "delivered", "undelivered"}

PushTypeOK ==
    /\ pphase \in [Pusher -> {"idle"} \cup Pushing \cup Pushed]
    /\ pkey \in [Pusher -> Key \cup {NoKey}]
    /\ ptoken \in [Pusher -> Token \cup {Absent}]
    /\ dead \subseteq Token

PushInit ==
    /\ pphase = [p \in Pusher |-> "idle"]
    /\ pkey = [p \in Pusher |-> NoKey]
    /\ ptoken = [p \in Pusher |-> Absent]
    /\ dead = {}

-----------------------------------------------------------------------------

\* pushOne runs to its first await as soon as it is called.
FirstPhase(k) == IF k = NoKey THEN "noKey" ELSE "lookup"

StartPush(p, k) ==
    /\ pphase[p] \notin Pushing
    /\ pphase' = [pphase EXCEPT ![p] = FirstPhase(k)]
    /\ pkey' = [pkey EXCEPT ![p] = k]
    /\ ptoken' = [ptoken EXCEPT ![p] = Absent]
    /\ UNCHANGED <<devices, dead>>

PushGoto(p, phase) ==
    /\ pphase' = [pphase EXCEPT ![p] = phase]
    /\ UNCHANGED pkey

LookupFindsToken(p) ==
    /\ pphase[p] = "lookup"
    /\ HasToken(pkey[p])
    /\ ptoken' = [ptoken EXCEPT ![p] = devices[pkey[p]]]
    /\ PushGoto(p, "send")
    /\ UNCHANGED <<devices, dead>>

\* No row, an empty token, or a D1 error: all of them are answered 400.
LookupFails(p) ==
    /\ pphase[p] = "lookup"
    /\ PushGoto(p, "noToken")
    /\ UNCHANGED <<devices, ptoken, dead>>

SendSucceeds(p) ==
    /\ pphase[p] = "send"
    /\ PushGoto(p, "delivered")
    /\ UNCHANGED <<devices, ptoken, dead>>

\* A network error, a time-out, a rejected JWT, a payload that is too large...
SendFails(p) ==
    /\ pphase[p] = "send"
    /\ PushGoto(p, "undelivered")
    /\ UNCHANGED <<devices, ptoken, dead>>

\* isBadDeviceTokenError: status 410, or 400 BadDeviceToken.
SendFindsTokenDead(p) ==
    /\ pphase[p] = "send"
    /\ dead' = dead \cup {ptoken[p]}
    /\ PushGoto(p, "cleanup")
    /\ UNCHANGED <<devices, ptoken>>

CleanUp(p) ==
    /\ pphase[p] = "cleanup"
    /\ ClearDevice(pkey[p], ptoken[p])
    /\ PushGoto(p, "undelivered")
    /\ UNCHANGED <<ptoken, dead>>

\* The failure of the cleanup is logged and swallowed.
CleanUpFails(p) ==
    /\ pphase[p] = "cleanup"
    /\ PushGoto(p, "undelivered")
    /\ UNCHANGED <<devices, ptoken, dead>>

\* The steps D1 and APNs owe a call: a statement returns or throws, and the
\* fetch is aborted by its time-out.
PushStep(p) ==
    \/ LookupFindsToken(p)
    \/ LookupFails(p)
    \/ SendSucceeds(p)
    \/ SendFails(p)
    \/ SendFindsTokenDead(p)
    \/ CleanUp(p)
    \/ CleanUpFails(p)

=============================================================================
