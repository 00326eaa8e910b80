---------------------------- MODULE Registration ----------------------------
(***************************************************************************)
(* POST and GET /register: doRegister and the registry's                   *)
(* saveDeviceTokenByKey, one state machine per request.  Every await of    *)
(* the code is a phase; a step is one D1 statement together with the local *)
(* code that follows its answer up to the next await.  Requests of several *)
(* isolates share nothing but the table, so they interleave at statements. *)
(***************************************************************************)
EXTENDS D1Devices

CONSTANTS
    Registrant,             \* registration requests that can be under way
    MaxGenerationAttempts,  \* MAX_GENERATION_ATTEMPTS
    Policies                \* configurations [mode, maxDevices] ever deployed

Modes == {"open", "existing-only", "closed"}

ASSUME RegistrationAssumption ==
    /\ MaxGenerationAttempts \in Nat \ {0}
    /\ Policies \subseteq [mode: Modes, maxDevices: Nat]

VARIABLES
    deployed,   \* the configuration a request that arrives now is served with
    rphase,     \* the phase of each request
    rkey,       \* the key it presented, and the key it answers at the end
    rtoken,     \* the token it brings
    rpolicy,    \* the configuration it was served with
    attempt,    \* the counter of the generation loop
    ceiling,    \* history: the most rows any deployed configuration or the
                \*   import allowed so far
    stored,     \* history: the last token a registration or import stored
    known       \* history: the key was in the table when the request arrived

registrationVars ==
    <<deployed, rphase, rkey, rtoken, rpolicy, attempt, ceiling, stored, known>>

\* Awaiting the UPDATE, the INSERT, or the COUNT of saveDeviceTokenByKey.
Registering == {"update", "insert", "count"}

\* What doRegister answers: 200 (updated, enrolled), 403 (closed, disabled,
\* limitReached), 400 (badRequest), 500 (exhausted, failed).
Registered == {"updated", "enrolled", "closed", "disabled", "limitReached",
               "badRequest", "exhausted", "failed"}

RegistrationTypeOK ==
    /\ devices \in Tables
    /\ deployed \in Policies
    /\ rphase \in [Registrant -> {"idle"} \cup Registering \cup Registered]
    /\ rkey \in [Registrant -> Key \cup {NoKey}]
    /\ rtoken \in [Registrant -> Token \cup {Absent}]
    /\ rpolicy \in [Registrant -> Policies]
    /\ attempt \in [Registrant -> 0 .. MaxGenerationAttempts - 1]
    /\ ceiling \in Nat
    /\ stored \in Tables
    /\ known \in [Registrant -> BOOLEAN]

\* The table may hold what the migration imported: any rows, also more of them
\* than maxDevices allows (the import does not look at the limit).
RegistrationInit ==
    /\ devices \in Tables
    /\ deployed \in Policies
    /\ rphase = [r \in Registrant |-> "idle"]
    /\ rkey = [r \in Registrant |-> NoKey]
    /\ rtoken = [r \in Registrant |-> Absent]
    /\ rpolicy = [r \in Registrant |-> deployed]
    /\ attempt = [r \in Registrant |-> 0]
    /\ ceiling = IF countAll > deployed.maxDevices
                   THEN countAll ELSE deployed.maxDevices
    /\ stored = devices
    /\ known = [r \in Registrant |-> FALSE]

\* A new configuration goes live; requests under way keep the one they have.
Redeploy(policy) ==
    /\ policy # deployed
    /\ deployed' = policy
    /\ ceiling' = IF policy.maxDevices > ceiling THEN policy.maxDevices ELSE ceiling
    /\ UNCHANGED <<devices, rphase, rkey, rtoken, rpolicy, attempt, stored, known>>

-----------------------------------------------------------------------------
(* doRegister up to its first await. *)

Goto(r, phase) == rphase' = [rphase EXCEPT ![r] = phase]

\* The slot of a request is free again once its answer is sent.  An answer
\* given before the registry is called keeps no key and no token.
Arrive(r, k, t) ==
    /\ rphase[r] \notin Registering
    /\ rkey' = [rkey EXCEPT ![r] = k]
    /\ rtoken' = [rtoken EXCEPT ![r] = t]
    /\ rpolicy' = [rpolicy EXCEPT ![r] = deployed]
    /\ attempt' = [attempt EXCEPT ![r] = 0]
    /\ known' = [known EXCEPT ![r] = k \in Rows]
    /\ UNCHANGED <<devices, deployed, ceiling, stored>>

\* The mode is looked at before the body is.
RefuseClosed(r) ==
    /\ deployed.mode = "closed"
    /\ Arrive(r, NoKey, Absent)
    /\ Goto(r, "closed")

\* An unreadable body, a key or token that is no string, an empty or overlong token.
RejectRegistration(r) ==
    /\ deployed.mode # "closed"
    /\ Arrive(r, NoKey, Absent)
    /\ Goto(r, "badRequest")

\* Where a request goes when no row takes its token: into the generation loop,
\* if the policy it was served with allows new devices.
NewDevicePhase(policy) == IF policy.mode = "open" THEN "insert" ELSE "disabled"

AcceptRegistration(r, k, t) ==
    /\ deployed.mode # "closed"
    /\ Arrive(r, k, t)
    /\ Goto(r, IF k = NoKey THEN NewDevicePhase(deployed) ELSE "update")

-----------------------------------------------------------------------------
(* saveDeviceTokenByKey, one action per statement and outcome. *)

UpdateExisting(r) ==
    /\ rphase[r] = "update"
    /\ UpdateMatches(rkey[r])
    /\ UpdateDevice(rkey[r], rtoken[r])
    /\ stored' = [stored EXCEPT ![rkey[r]] = rtoken[r]]
    /\ Goto(r, "updated")
    /\ UNCHANGED <<deployed, rkey, rtoken, rpolicy, attempt, ceiling, known>>

\* A key the table does not have is dropped: the device gets a new one.
UpdateNothing(r) ==
    /\ rphase[r] = "update"
    /\ ~UpdateMatches(rkey[r])
    /\ Goto(r, NewDevicePhase(rpolicy[r]))
    /\ UNCHANGED <<devices, deployed, rkey, rtoken, rpolicy, attempt, ceiling,
                   stored, known>>

\* generateDeviceKey may return any key, one that is taken included.
Enroll(r, k) ==
    /\ rphase[r] = "insert"
    /\ InsertApplies(k, rpolicy[r].maxDevices)
    /\ InsertDevice(k, rtoken[r])
    /\ stored' = [stored EXCEPT ![k] = rtoken[r]]
    /\ rkey' = [rkey EXCEPT ![r] = k]
    /\ Goto(r, "enrolled")
    /\ UNCHANGED <<deployed, rtoken, rpolicy, attempt, ceiling, known>>

InsertNothing(r, k) ==
    /\ rphase[r] = "insert"
    /\ ~InsertApplies(k, rpolicy[r].maxDevices)
    /\ Goto(r, "count")
    /\ UNCHANGED <<devices, deployed, rkey, rtoken, rpolicy, attempt, ceiling,
                   stored, known>>

\* Seeded fault: the limit is taken for reached one row early.
LimitReachedEarly(max) == countAll + 1 >= max

LimitReached(max) == countAll >= max

\* Seeded fault: the loop does not count.
SameAttempt(r) == attempt[r]

\* The loop header: attempt++, attempt < MAX_GENERATION_ATTEMPTS.
NextAttempt(r) == attempt[r] + 1

\* Seeded fault: `<=` in the loop header.
OneAttemptTooMany(r) == NextAttempt(r) <= MaxGenerationAttempts

MayTryAgain(r) == NextAttempt(r) < MaxGenerationAttempts

\* The count is a statement of its own, after the INSERT that changed nothing.
CountAfterInsert(r) ==
    /\ rphase[r] = "count"
    /\ \/ /\ LimitReached(rpolicy[r].maxDevices)
          /\ Goto(r, "limitReached")
          /\ UNCHANGED attempt
       \/ /\ ~LimitReached(rpolicy[r].maxDevices)
          /\ MayTryAgain(r)
          /\ attempt' = [attempt EXCEPT ![r] = NextAttempt(r)]
          /\ Goto(r, "insert")
       \/ /\ ~LimitReached(rpolicy[r].maxDevices)
          /\ ~MayTryAgain(r)
          /\ Goto(r, "exhausted")
          /\ UNCHANGED attempt
    /\ UNCHANGED <<devices, deployed, rkey, rtoken, rpolicy, ceiling, stored, known>>

\* A statement throws, or the client is gone before it ran: nothing is written.
RegistrationFails(r) ==
    /\ rphase[r] \in Registering
    /\ Goto(r, "failed")
    /\ UNCHANGED <<devices, deployed, rkey, rtoken, rpolicy, attempt, ceiling,
                   stored, known>>

\* The statement was applied but its answer is lost; for an INSERT the row
\* stays under a key nobody was told.
UpdateReplyLost(r) ==
    /\ rphase[r] = "update"
    /\ UpdateMatches(rkey[r])
    /\ UpdateDevice(rkey[r], rtoken[r])
    /\ stored' = [stored EXCEPT ![rkey[r]] = rtoken[r]]
    /\ Goto(r, "failed")
    /\ UNCHANGED <<deployed, rkey, rtoken, rpolicy, attempt, ceiling, known>>

InsertReplyLost(r, k) ==
    /\ rphase[r] = "insert"
    /\ InsertApplies(k, rpolicy[r].maxDevices)
    /\ InsertDevice(k, rtoken[r])
    /\ stored' = [stored EXCEPT ![k] = rtoken[r]]
    /\ Goto(r, "failed")
    /\ UNCHANGED <<deployed, rkey, rtoken, rpolicy, attempt, ceiling, known>>

RegistrationArrives(r) ==
    \/ RefuseClosed(r)
    \/ RejectRegistration(r)
    \/ \E k \in Key \cup {NoKey}, t \in Token : AcceptRegistration(r, k, t)

\* The steps D1 owes a request: every statement returns or throws.
RegistrationStep(r) ==
    \/ UpdateExisting(r)
    \/ UpdateNothing(r)
    \/ \E k \in Key : Enroll(r, k) \/ InsertNothing(r, k) \/ InsertReplyLost(r, k)
    \/ CountAfterInsert(r)
    \/ RegistrationFails(r)
    \/ UpdateReplyLost(r)

=============================================================================
