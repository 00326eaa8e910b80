--------------------------- MODULE BarkWorkerProofs ---------------------------
(***************************************************************************)
(* Proofs about the worker, for any sets of keys, tokens, requests and     *)
(* configurations.  PhaseInv ties the local variables of each request to   *)
(* its phase and is inductive on its own; Rows never shrink; the other     *)
(* parts of IInv are inductive relative to these two.                      *)
(***************************************************************************)
EXTENDS BarkWorker, FiniteSetTheorems, TLAPS

USE D1Assumption, RegistrationAssumption

\* A request that awaits a statement holds the values the statement binds.
RegistrationPhases ==
    \A r \in Registrant :
        /\ rphase[r] \in Registering => rtoken[r] \in Token
        /\ rphase[r] = "update" => rkey[r] \in Key

\* So does a push, and one that cleans up has a verdict of APNs on its token.
PushPhases ==
    \A p \in Pusher :
        /\ pphase[p] \in Pushing => pkey[p] \in Key
        /\ pphase[p] \in {"send", "cleanup"} => ptoken[p] \in Token
        /\ pphase[p] = "cleanup" => ptoken[p] \in dead

PhaseInv == WorkerTypeOK /\ RegistrationPhases /\ PushPhases

\* The step of a request, as the disjunction of the component steps.
RegistrationMoves(r) == RegistrationArrives(r) \/ RegistrationStep(r)

-----------------------------------------------------------------------------
(* Type correctness *)

\* The registration component keeps its variables well-typed and its phases
\* consistent, whatever statement, failure or redeployment comes next.
LEMMA RegistrationKeepsPhases ==
    ASSUME RegistrationTypeOK, RegistrationPhases, RegistrationNext
    PROVE  RegistrationTypeOK' /\ RegistrationPhases'
<1> USE DEF RegistrationTypeOK, RegistrationPhases, Registering, Registered, Tables
<1>1. ASSUME NEW policy \in Policies, Redeploy(policy)
      PROVE  RegistrationTypeOK' /\ RegistrationPhases'
  BY <1>1 DEF Redeploy
<1>2. ASSUME NEW r \in Registrant, RegistrationArrives(r)
      PROVE  RegistrationTypeOK' /\ RegistrationPhases'
  <2>1. CASE RefuseClosed(r) \/ RejectRegistration(r)
    <3>1. PICK phase \in {"closed", "badRequest"} : rphase' = [rphase EXCEPT ![r] = phase]
      BY <2>1 DEF RefuseClosed, RejectRegistration, Goto
    <3>2. Arrive(r, NoKey, Absent)
      BY <2>1 DEF RefuseClosed, RejectRegistration
    <3> QED BY <3>1, <3>2 DEF Arrive
  <2>2. ASSUME NEW k \in Key \cup {NoKey}, NEW t \in Token, AcceptRegistration(r, k, t)
        PROVE  RegistrationTypeOK' /\ RegistrationPhases'
    <3>1. PICK phase \in {"insert", "disabled", "update"} :
             /\ phase = "update" => k \in Key
             /\ rphase' = [rphase EXCEPT ![r] = phase]
      BY <2>2 DEF AcceptRegistration, NewDevicePhase, Goto
    <3> QED BY <2>2, <3>1 DEF AcceptRegistration, Arrive
  <2> QED BY <1>2, <2>1, <2>2 DEF RegistrationArrives
<1>3. ASSUME NEW r \in Registrant, RegistrationStep(r)
      PROVE  RegistrationTypeOK' /\ RegistrationPhases'
  <2> USE DEF Goto
  <2>1. CASE UpdateExisting(r) \/ UpdateReplyLost(r)
    BY <2>1 DEF UpdateExisting, UpdateReplyLost, UpdateDevice
  <2>2. CASE UpdateNothing(r)
    <3>1. PICK phase \in {"insert", "disabled"} : rphase' = [rphase EXCEPT ![r] = phase]
      BY <2>2 DEF UpdateNothing, NewDevicePhase
    <3> QED BY <2>2, <3>1 DEF UpdateNothing
  <2>3. ASSUME NEW k \in Key, Enroll(r, k) \/ InsertReplyLost(r, k)
        PROVE  RegistrationTypeOK' /\ RegistrationPhases'
    <3>1. CASE Enroll(r, k)
      BY <3>1 DEF Enroll, InsertDevice
    <3>2. CASE InsertReplyLost(r, k)
      BY <3>2 DEF InsertReplyLost, InsertDevice
    <3> QED BY <2>3, <3>1, <3>2
  <2>4. ASSUME NEW k \in Key, InsertNothing(r, k)
        PROVE  RegistrationTypeOK' /\ RegistrationPhases'
    BY <2>4 DEF InsertNothing
  <2>5. CASE CountAfterInsert(r)
    <3>1. attempt' \in [Registrant -> 0 .. MaxGenerationAttempts - 1]
      BY <2>5 DEF CountAfterInsert, MayTryAgain, NextAttempt
    <3>2. PICK phase \in {"limitReached", "insert", "exhausted"} :
             rphase' = [rphase EXCEPT ![r] = phase]
      BY <2>5 DEF CountAfterInsert
    <3> QED BY <2>5, <3>1, <3>2 DEF CountAfterInsert
  <2>6. CASE RegistrationFails(r)
    BY <2>6 DEF RegistrationFails
  <2> QED BY <1>3, <2>1, <2>2, <2>3, <2>4, <2>5, <2>6 DEF RegistrationStep
<1> QED BY <1>1, <1>2, <1>3 DEF RegistrationNext

\* So does the push component.
LEMMA PushKeepsPhases ==
    ASSUME devices \in Tables, PushTypeOK, PushPhases, PushNext
    PROVE  devices' \in Tables /\ PushTypeOK' /\ PushPhases'
<1> USE DEF PushTypeOK, PushPhases, Pushing, Pushed, Tables
<1>1. ASSUME NEW p \in Pusher, NEW k \in Key \cup {NoKey}, StartPush(p, k)
      PROVE  devices' \in Tables /\ PushTypeOK' /\ PushPhases'
  BY <1>1 DEF StartPush, FirstPhase
<1>2. ASSUME NEW p \in Pusher, PushStep(p)
      PROVE  devices' \in Tables /\ PushTypeOK' /\ PushPhases'
  <2> USE DEF PushGoto
  <2>1. CASE LookupFindsToken(p)
    BY <2>1 DEF LookupFindsToken, HasToken
  <2>2. CASE LookupFails(p) \/ SendSucceeds(p) \/ SendFails(p) \/ CleanUpFails(p)
    BY <2>2 DEF LookupFails, SendSucceeds, SendFails, CleanUpFails
  <2>3. CASE SendFindsTokenDead(p)
    BY <2>3 DEF SendFindsTokenDead
  <2>4. CASE CleanUp(p)
    BY <2>4 DEF CleanUp, ClearDevice
  <2> QED BY <1>2, <2>1, <2>2, <2>3, <2>4 DEF PushStep
<1> QED BY <1>1, <1>2 DEF PushNext

\* PhaseInv is inductive.
LEMMA PhaseInvInductive ==
    /\ Init => PhaseInv
    /\ PhaseInv /\ [Next]_vars => PhaseInv'
<1>1. ASSUME Init PROVE PhaseInv
  <2>1. countAll \in Nat
    BY <1>1, FS_CardinalityType, FS_Subset DEF countAll, Rows
  <2> QED
    BY <1>1, <2>1 DEF Init, RegistrationInit, PushInit, PhaseInv, WorkerTypeOK,
       RegistrationTypeOK, PushTypeOK, RegistrationPhases, PushPhases,
       Registering, Pushing, Tables
<1>2. ASSUME PhaseInv, [Next]_vars PROVE PhaseInv'
  <2> USE <1>2 DEF PhaseInv, WorkerTypeOK
  <2>1. CASE RegistrationNext
    <3>1. PushTypeOK' /\ PushPhases'
      BY <2>1 DEF RegistrationNext, pushVars, PushTypeOK, PushPhases
    <3> QED BY <2>1, <3>1, RegistrationKeepsPhases
  <2>2. CASE PushNext
    <3>1. devices' \in Tables /\ PushTypeOK' /\ PushPhases'
      BY <2>2, PushKeepsPhases DEF RegistrationTypeOK
    <3>2. RegistrationTypeOK' /\ RegistrationPhases'
      BY <2>2, <3>1 DEF PushNext, registrationVars, RegistrationTypeOK,
                        RegistrationPhases
    <3> QED BY <3>1, <3>2
  <2>3. CASE UNCHANGED vars
    BY <2>3 DEF vars, registrationVars, pushVars, RegistrationTypeOK,
                RegistrationPhases, PushTypeOK, PushPhases
  <2> QED BY <2>1, <2>2, <2>3 DEF Next
<1> QED BY <1>1, <1>2

\* In every reachable state of every instance the variables have their types.
THEOREM TypeCorrect == SafetySpec => []WorkerTypeOK
<1>1. PhaseInv => WorkerTypeOK
  BY DEF PhaseInv
<1> QED BY <1>1, PhaseInvInductive, PTL DEF SafetySpec

-----------------------------------------------------------------------------
(* The table only grows *)

\* Counting is arithmetic on a finite table.
LEMMA CountIsNat == countAll \in Nat /\ IsFiniteSet(Rows)
BY FS_CardinalityType, FS_Subset DEF countAll, Rows

\* A step that writes only rows that exist leaves the set of rows alone.
LEMMA SameRows ==
    ASSUME \A k \in Key : devices'[k] = Absent <=> devices[k] = Absent
    PROVE  Rows' = Rows /\ countAll' = countAll
BY DEF Rows, countAll

\* An INSERT that applies adds exactly one row.
LEMMA OneMoreRow ==
    ASSUME devices \in Tables, NEW k \in Key, NEW t \in Token,
           devices[k] = Absent, InsertDevice(k, t)
    PROVE  Rows' = Rows \cup {k} /\ countAll' = countAll + 1
<1>1. Rows' = Rows \cup {k}
  BY DEF Rows, InsertDevice, Tables
<1>2. k \notin Rows
  BY DEF Rows
<1> QED BY <1>1, <1>2, CountIsNat, FS_AddElement DEF countAll

\* What a step of a registration may do to the table: nothing, a new token for
\* the row whose key the request presented, or a new row below its limit.
TableStep ==
    \/ UNCHANGED <<devices, stored>>
    \/ \E r \in Registrant :
          /\ rphase[r] = "update"
          /\ rkey[r] \in Rows
          /\ UpdateDevice(rkey[r], rtoken[r])
          /\ stored' = [stored EXCEPT ![rkey[r]] = rtoken[r]]
    \/ \E r \in Registrant, k \in Key :
          /\ rphase[r] = "insert"
          /\ InsertApplies(k, rpolicy[r].maxDevices)
          /\ InsertDevice(k, rtoken[r])
          /\ stored' = [stored EXCEPT ![k] = rtoken[r]]

\* The statements of a registration are the ones TableStep lists.
LEMMA RegistrationWrites ==
    ASSUME PhaseInv, RegistrationNext PROVE TableStep
<1>1. ASSUME NEW policy \in Policies, Redeploy(policy) PROVE TableStep
  BY <1>1 DEF Redeploy, TableStep
<1>2. ASSUME NEW r \in Registrant, RegistrationArrives(r) PROVE TableStep
  BY <1>2 DEF RegistrationArrives, RefuseClosed, RejectRegistration,
              AcceptRegistration, Arrive, TableStep
<1>3. ASSUME NEW r \in Registrant, RegistrationStep(r) PROVE TableStep
  <2>1. CASE UpdateExisting(r) \/ UpdateReplyLost(r)
    <3>1. rkey[r] \in Rows
      BY <2>1 DEF PhaseInv, RegistrationPhases, UpdateExisting, UpdateReplyLost,
                  UpdateMatches, Rows
    <3> QED BY <2>1, <3>1 DEF UpdateExisting, UpdateReplyLost, TableStep
  <2>2. ASSUME NEW k \in Key, Enroll(r, k) \/ InsertReplyLost(r, k) PROVE TableStep
    BY <2>2 DEF Enroll, InsertReplyLost, TableStep
  <2>3. ASSUME NEW k \in Key, InsertNothing(r, k) PROVE TableStep
    BY <2>3 DEF InsertNothing, TableStep
  <2>4. CASE UpdateNothing(r) \/ CountAfterInsert(r) \/ RegistrationFails(r)
    BY <2>4 DEF UpdateNothing, CountAfterInsert, RegistrationFails, TableStep
  <2> QED BY <1>3, <2>1, <2>2, <2>3, <2>4 DEF RegistrationStep
<1> QED BY <1>1, <1>2, <1>3 DEF RegistrationNext

\* What a push may do to the table: nothing, or take the token of the row it
\* was sent for, if that token is still the one APNs called bad.
CleanStep ==
    /\ UNCHANGED stored
    /\ \/ UNCHANGED devices
       \/ \E k \in Key : devices[k] \in dead /\ devices' = [devices EXCEPT ![k] = Cleared]

\* The only write of a push clears a token that APNs has called bad.
LEMMA PushWrites ==
    ASSUME PhaseInv, PushNext PROVE CleanStep /\ dead \subseteq dead'
<1> USE DEF PushNext, registrationVars
<1>1. ASSUME NEW p \in Pusher, NEW k \in Key \cup {NoKey}, StartPush(p, k)
      PROVE  CleanStep /\ dead \subseteq dead'
  BY <1>1 DEF StartPush, CleanStep
<1>2. ASSUME NEW p \in Pusher, PushStep(p)
      PROVE  CleanStep /\ dead \subseteq dead'
  <2>1. CASE CleanUp(p)
    <3>1. pkey[p] \in Key /\ ptoken[p] \in dead
      BY <2>1 DEF PhaseInv, PushPhases, Pushing, CleanUp
    <3>2. devices' = [devices EXCEPT ![pkey[p]] =
                         IF @ = ptoken[p] THEN Cleared ELSE @]
      BY <2>1 DEF CleanUp, ClearDevice
    <3>3. devices \in Tables
      BY DEF PhaseInv, WorkerTypeOK, RegistrationTypeOK
    <3>4. CASE devices[pkey[p]] = ptoken[p]
      BY <2>1, <3>1, <3>2, <3>4 DEF CleanUp, CleanStep
    <3>5. CASE devices[pkey[p]] # ptoken[p]
      <4>1. devices' = devices
        BY <3>1, <3>2, <3>3, <3>5 DEF Tables
      <4> QED BY <2>1, <4>1 DEF CleanUp, CleanStep
    <3> QED BY <3>4, <3>5
  <2>2. CASE SendFindsTokenDead(p)
    BY <2>2 DEF SendFindsTokenDead, CleanStep
  <2>3. CASE \/ LookupFindsToken(p) \/ LookupFails(p) \/ SendSucceeds(p)
             \/ SendFails(p) \/ CleanUpFails(p)
    BY <2>3 DEF LookupFindsToken, LookupFails, SendSucceeds, SendFails,
                CleanUpFails, CleanStep
  <2> QED BY <1>2, <2>1, <2>2, <2>3 DEF PushStep
<1> QED BY <1>1, <1>2

\* No step makes a row disappear, so the count never decreases.
LEMMA RowsStay ==
    ASSUME PhaseInv, [Next]_vars
    PROVE  Rows \subseteq Rows' /\ countAll' >= countAll
<1>1. Rows \subseteq Rows'
  <2> USE DEF PhaseInv, WorkerTypeOK, RegistrationTypeOK, RegistrationPhases,
              Registering, Rows, Tables
  <2>1. CASE RegistrationNext
    <3>1. TableStep
      BY <2>1, RegistrationWrites
    <3> QED BY <3>1 DEF TableStep, UpdateDevice, InsertDevice
  <2>2. CASE PushNext
    <3>1. CleanStep
      BY <2>2, PushWrites
    <3> QED BY <3>1 DEF CleanStep
  <2>3. CASE UNCHANGED vars
    BY <2>3 DEF vars
  <2> QED BY <2>1, <2>2, <2>3 DEF Next
<1>2. IsFiniteSet(Rows')
  BY FS_Subset DEF Rows
<1>3. Cardinality(Rows) <= Cardinality(Rows')
  BY <1>1, <1>2, FS_Subset
<1>4. Cardinality(Rows') \in Nat /\ Cardinality(Rows) \in Nat
  BY <1>2, CountIsNat, FS_CardinalityType DEF countAll
<1> QED BY <1>1, <1>3, <1>4 DEF countAll

-----------------------------------------------------------------------------
(* The inductive invariant *)

\* DeviceLimit is inductive only with the limits that requests still carry:
\* `ceiling` covers the deployed configuration and those of requests under way.
LimitInv ==
    /\ DeviceLimit
    /\ deployed.maxDevices <= ceiling
    /\ \A r \in Registrant : rpolicy[r].maxDevices <= ceiling

\* A key that was known when its request arrived is still in the table when the
\* UPDATE runs.
KnownInv ==
    /\ KnownKeyIsServed
    /\ \A r \in Registrant : known[r] /\ rphase[r] = "update" => rkey[r] \in Rows

IInv == PhaseInv /\ LimitInv /\ StoredOrRetired /\ KnownInv /\ RefusalIsJustified

\* The invariant holds when the table holds what was imported.
LEMMA InitEstablishesIInv == Init => IInv
<1> SUFFICES ASSUME Init PROVE IInv
  OBVIOUS
<1>1. PhaseInv
  BY PhaseInvInductive
<1>2. LimitInv
  BY CountIsNat DEF Init, RegistrationInit, LimitInv, DeviceLimit
<1>3. StoredOrRetired
  BY DEF Init, RegistrationInit, StoredOrRetired
<1>4. KnownInv
  BY DEF Init, RegistrationInit, KnownInv, KnownKeyIsServed
<1>5. RefusalIsJustified
  BY DEF Init, RegistrationInit, RefusalIsJustified
<1> QED BY <1>1, <1>2, <1>3, <1>4, <1>5 DEF IInv

\* The ceiling follows every redeployment, and a request carries a limit that
\* was deployed when it arrived.
LEMMA PoliciesStayBelowCeiling ==
    ASSUME PhaseInv, LimitInv, RegistrationNext
    PROVE  /\ ceiling <= ceiling'
           /\ deployed'.maxDevices <= ceiling'
           /\ \A r \in Registrant : rpolicy'[r].maxDevices <= ceiling'
<1> USE DEF PhaseInv, WorkerTypeOK, RegistrationTypeOK, LimitInv
<1>1. \A policy \in Policies : policy.maxDevices \in Nat
  OBVIOUS
<1>2. ASSUME NEW policy \in Policies, Redeploy(policy)
      PROVE  /\ ceiling <= ceiling'
             /\ deployed'.maxDevices <= ceiling'
             /\ \A r \in Registrant : rpolicy'[r].maxDevices <= ceiling'
  BY <1>1, <1>2 DEF Redeploy
<1>3. ASSUME NEW r \in Registrant, RegistrationArrives(r)
      PROVE  /\ UNCHANGED <<deployed, ceiling>>
             /\ rpolicy' = [rpolicy EXCEPT ![r] = deployed]
  BY <1>3 DEF RegistrationArrives, RefuseClosed, RejectRegistration,
              AcceptRegistration, Arrive
<1>4. ASSUME NEW r \in Registrant, RegistrationStep(r)
      PROVE  UNCHANGED <<deployed, ceiling, rpolicy>>
  BY <1>4 DEF RegistrationStep, UpdateExisting, UpdateNothing, Enroll, InsertNothing,
              InsertReplyLost, CountAfterInsert, RegistrationFails, UpdateReplyLost
<1> QED BY <1>1, <1>2, <1>3, <1>4 DEF RegistrationNext

\* The table stays below the ceiling: the only statement that adds a row
\* counts them, against a limit that is below the ceiling.
LEMMA LimitInvPreserved ==
    ASSUME PhaseInv, LimitInv, [Next]_vars PROVE LimitInv'
<1> USE DEF PhaseInv, WorkerTypeOK, RegistrationTypeOK, LimitInv, DeviceLimit
<1>1. CASE RegistrationNext
  <2>1. /\ ceiling <= ceiling'
        /\ deployed'.maxDevices <= ceiling'
        /\ \A r \in Registrant : rpolicy'[r].maxDevices <= ceiling'
    BY <1>1, PoliciesStayBelowCeiling
  <2>2. countAll' <= ceiling'
    <3>0. ceiling' \in Nat /\ countAll \in Nat
      BY <1>1, RegistrationKeepsPhases, CountIsNat
    <3>1. CASE UNCHANGED <<devices, stored>>
      BY <2>1, <3>0, <3>1 DEF countAll, Rows
    <3>2. ASSUME NEW r \in Registrant, rkey[r] \in Rows, rtoken[r] \in Token,
                 UpdateDevice(rkey[r], rtoken[r])
          PROVE  countAll' <= ceiling'
      <4>1. \A k \in Key : devices'[k] = Absent <=> devices[k] = Absent
        BY <3>2 DEF UpdateDevice, Tables, Rows
      <4> QED BY <2>1, <3>0, <4>1, SameRows
    <3>3. ASSUME NEW r \in Registrant, NEW k \in Key, rtoken[r] \in Token,
                 InsertApplies(k, rpolicy[r].maxDevices), InsertDevice(k, rtoken[r])
          PROVE  countAll' <= ceiling'
      <4>1. countAll' = countAll + 1
        BY <3>3, OneMoreRow DEF InsertApplies
      <4>2. rpolicy[r].maxDevices \in Nat
        OBVIOUS
      <4> QED BY <2>1, <3>0, <3>3, <4>1, <4>2 DEF InsertApplies
    <3> QED BY <1>1, <3>1, <3>2, <3>3, RegistrationWrites
            DEF TableStep, RegistrationPhases, Registering
  <2> QED BY <2>1, <2>2
<1>2. CASE PushNext
  <2>1. \A k \in Key : devices'[k] = Absent <=> devices[k] = Absent
    BY <1>2, PushWrites DEF CleanStep, Tables, PushTypeOK
  <2> QED BY <1>2, <2>1, SameRows DEF PushNext, registrationVars
<1>3. CASE UNCHANGED vars
  BY <1>3 DEF vars, registrationVars, countAll, Rows
<1> QED BY <1>1, <1>2, <1>3 DEF Next

\* A row loses its token only to a verdict on exactly that token.
LEMMA StoredOrRetiredPreserved ==
    ASSUME PhaseInv, StoredOrRetired, [Next]_vars PROVE StoredOrRetired'
<1> USE DEF PhaseInv, WorkerTypeOK, RegistrationTypeOK, StoredOrRetired, Rows, Tables
<1>1. CASE RegistrationNext
  <2>1. dead' = dead
    BY <1>1 DEF RegistrationNext, pushVars
  <2>2. CASE UNCHANGED <<devices, stored>>
    BY <2>1, <2>2
  <2>3. ASSUME NEW k \in Key, NEW t \in Token,
               devices' = [devices EXCEPT ![k] = t], stored' = [stored EXCEPT ![k] = t]
        PROVE  StoredOrRetired'
    BY <2>1, <2>3
  <2> QED BY <1>1, <2>2, <2>3, RegistrationWrites
          DEF TableStep, UpdateDevice, InsertDevice, RegistrationPhases, Registering
<1>2. CASE PushNext
  <2>1. CleanStep /\ dead \subseteq dead'
    BY <1>2, PushWrites
  <2>2. CASE UNCHANGED <<devices, stored>>
    BY <2>1, <2>2
  <2>3. ASSUME NEW k \in Key, devices[k] \in dead, stored' = stored,
               devices' = [devices EXCEPT ![k] = Cleared]
        PROVE  StoredOrRetired'
    <3>1. devices[k] \in Token
      BY <2>3 DEF PushTypeOK
    <3>2. stored[k] \in dead'
      BY <2>1, <2>3, <3>1
    <3> QED BY <2>1, <2>3, <3>2
  <2> QED BY <2>1, <2>2, <2>3 DEF CleanStep
<1>3. CASE UNCHANGED vars
  BY <1>3 DEF vars, registrationVars, pushVars
<1> QED BY <1>1, <1>2, <1>3 DEF Next

\* A request changes its own local variables only, and those it arrived with
\* only by arriving again or by enrolling.
LEMMA KnownInvPreserved ==
    ASSUME PhaseInv, KnownInv, [Next]_vars PROVE KnownInv'
<1> USE DEF KnownInv, KnownKeyIsServed
<1>0. Rows \subseteq Rows'
  BY RowsStay
<1>1. CASE RegistrationNext
  <2> USE DEF PhaseInv, WorkerTypeOK, RegistrationTypeOK
  <2>1. ASSUME NEW policy \in Policies, Redeploy(policy) PROVE KnownInv'
    BY <1>0, <2>1 DEF Redeploy
  <2>2. ASSUME NEW r \in Registrant, RegistrationArrives(r) PROVE KnownInv'
    <3>1. PICK k \in Key \cup {NoKey}, phase \in {"closed", "badRequest", "insert",
                                                 "disabled", "update"} :
             /\ phase \notin {"closed", "badRequest", "update"} => k = NoKey
             /\ rphase' = [rphase EXCEPT ![r] = phase]
             /\ rkey' = [rkey EXCEPT ![r] = k]
             /\ known' = [known EXCEPT ![r] = k \in Rows]
      BY <2>2 DEF RegistrationArrives, RefuseClosed, RejectRegistration,
                  AcceptRegistration, NewDevicePhase, Arrive, Goto
    <3>2. NoKey \notin Rows
      BY DEF Rows
    <3> QED BY <1>0, <3>1, <3>2
  <2>3. ASSUME NEW r \in Registrant, RegistrationStep(r) PROVE KnownInv'
    <3> USE DEF Goto
    <3>1. CASE UpdateExisting(r) \/ UpdateReplyLost(r) \/ RegistrationFails(r)
      BY <1>0, <3>1 DEF UpdateExisting, UpdateReplyLost, RegistrationFails
    <3>2. CASE UpdateNothing(r)
      <4>1. ~known[r]
        BY <3>2 DEF UpdateNothing, UpdateMatches, Rows
      <4> QED BY <1>0, <3>2, <4>1 DEF UpdateNothing
    <3>3. ASSUME NEW k \in Key,
                 Enroll(r, k) \/ InsertNothing(r, k) \/ InsertReplyLost(r, k)
          PROVE  KnownInv'
      BY <1>0, <3>3 DEF Enroll, InsertNothing, InsertReplyLost
    <3>4. CASE CountAfterInsert(r)
      BY <1>0, <3>4 DEF CountAfterInsert
    <3> QED BY <2>3, <3>1, <3>2, <3>3, <3>4 DEF RegistrationStep
  <2> QED BY <1>1, <2>1, <2>2, <2>3 DEF RegistrationNext
<1>2. CASE UNCHANGED registrationVars
  BY <1>0, <1>2 DEF registrationVars
<1> QED BY <1>1, <1>2 DEF Next, PushNext, vars

\* A refusal is given for a full table, and rows stay.
LEMMA RefusalIsJustifiedPreserved ==
    ASSUME PhaseInv, RefusalIsJustified, [Next]_vars PROVE RefusalIsJustified'
<1> USE DEF RefusalIsJustified
<1>0. countAll \in Nat /\ countAll' \in Nat /\ countAll' >= countAll
  <2>1. IsFiniteSet(Rows')
    BY FS_Subset DEF Rows
  <2> QED BY <2>1, RowsStay, CountIsNat, FS_CardinalityType DEF countAll
<1>1. CASE RegistrationNext
  <2> USE DEF PhaseInv, WorkerTypeOK, RegistrationTypeOK
  <2>0. \A policy \in Policies : policy.maxDevices \in Nat
    OBVIOUS
  <2>1. ASSUME NEW policy \in Policies, Redeploy(policy) PROVE RefusalIsJustified'
    BY <1>0, <2>0, <2>1 DEF Redeploy
  <2>2. ASSUME NEW r \in Registrant, RegistrationArrives(r) PROVE RefusalIsJustified'
    <3>1. /\ rphase'[r] # "limitReached"
          /\ \A s \in Registrant \ {r} :
                rphase'[s] = rphase[s] /\ rpolicy'[s] = rpolicy[s]
      BY <2>2 DEF RegistrationArrives, RefuseClosed, RejectRegistration,
                  AcceptRegistration, NewDevicePhase, Arrive, Goto
    <3> QED BY <1>0, <2>0, <3>1
  <2>3. ASSUME NEW r \in Registrant, RegistrationStep(r) PROVE RefusalIsJustified'
    <3>1. /\ rpolicy' = rpolicy
          /\ rphase'[r] = "limitReached" => countAll >= rpolicy[r].maxDevices
          /\ \A s \in Registrant \ {r} : rphase'[s] = rphase[s]
      BY <2>3 DEF RegistrationStep, UpdateExisting, UpdateNothing, NewDevicePhase,
                  Enroll, InsertNothing, InsertReplyLost, CountAfterInsert,
                  LimitReached, RegistrationFails, UpdateReplyLost, Goto
    <3> QED BY <1>0, <2>0, <3>1
  <2> QED BY <1>1, <2>1, <2>2, <2>3 DEF RegistrationNext
<1>2. CASE UNCHANGED registrationVars
  <2>1. \A r \in Registrant : rpolicy[r].maxDevices \in Nat
    BY DEF PhaseInv, WorkerTypeOK, RegistrationTypeOK
  <2> QED BY <1>0, <1>2, <2>1 DEF registrationVars
<1> QED BY <1>1, <1>2 DEF Next, PushNext, vars

\* The invariant of every reachable state.
LEMMA IInvInvariant == SafetySpec => []IInv
<1>1. IInv /\ [Next]_vars => IInv'
  BY PhaseInvInductive, LimitInvPreserved, StoredOrRetiredPreserved,
     KnownInvPreserved, RefusalIsJustifiedPreserved DEF IInv
<1> QED BY <1>1, InitEstablishesIInv, PTL DEF SafetySpec

-----------------------------------------------------------------------------
(* The theorems *)

\* Concurrent registrations never grow the table beyond the highest limit that
\* was deployed (or what was imported).
THEOREM DeviceLimitHolds == SafetySpec => []DeviceLimit
<1>1. IInv => DeviceLimit
  BY DEF IInv, LimitInv
<1> QED BY <1>1, IInvInvariant, PTL

\* A cleanup never takes a token that was registered after the push read it.
THEOREM CleanupIsSafe == SafetySpec => []StoredOrRetired
<1>1. IInv => StoredOrRetired
  BY DEF IInv
<1> QED BY <1>1, IInvInvariant, PTL

\* A request for a key that was in the table is never sent to the generation
\* loop nor refused for the limit or the mode "existing-only".
THEOREM KnownKeysAreServed == SafetySpec => []KnownKeyIsServed
<1>1. IInv => KnownKeyIsServed
  BY DEF IInv, KnownInv
<1> QED BY <1>1, IInvInvariant, PTL

\* "device limit reached" is never answered in error, and stays right.
THEOREM RefusalsAreJustified == SafetySpec => []RefusalIsJustified
<1>1. IInv => RefusalIsJustified
  BY DEF IInv
<1> QED BY <1>1, IInvInvariant, PTL

\* A row is rewritten only by a request that presented its key, and never
\* disappears.
THEOREM RowsBelongToTheirKey == SafetySpec => RowsChangeByTheirKey
<1> DEFINE Step ==
      \A k \in Rows :
          devices'[k] # devices[k] =>
              \/ devices'[k] = Cleared
              \/ \E r \in Registrant :
                     rphase[r] = "update" /\ rkey[r] = k /\ devices'[k] = rtoken[r]
<1>1. ASSUME PhaseInv, Next PROVE Step
  <2> USE <1>1 DEF PhaseInv, WorkerTypeOK, RegistrationTypeOK, Tables, Rows
  <2>1. CASE RegistrationNext
    <3>1. TableStep
      BY <2>1, RegistrationWrites
    <3> QED BY <3>1 DEF TableStep, UpdateDevice, InsertDevice, InsertApplies
  <2>2. CASE PushNext
    <3>1. CleanStep
      BY <2>2, PushWrites
    <3> QED BY <3>1 DEF CleanStep
  <2> QED BY <1>1, <2>1, <2>2 DEF Next
<1>2. PhaseInv /\ [Next]_vars => [Step]_vars
  BY <1>1
<1>3. []PhaseInv /\ [][Next]_vars => [][Step]_vars
  BY <1>2, PTL
<1> QED BY <1>3, PhaseInvInductive, PTL DEF SafetySpec, RowsChangeByTheirKey

-----------------------------------------------------------------------------
(* The worker implements the directory *)

\* The abstract module counts the same rows, by its own instance of FiniteSets.
LEMMA SameCount == Directory!Cardinality(Directory!Enrolled) = countAll
<1>1. Directory!Cardinality(Rows) = Cardinality(Rows)
  BY DEF Directory!Cardinality, Cardinality
<1>2. Directory!Enrolled = Rows
  BY DEF Directory!Enrolled, Rows
<1> QED BY <1>1, <1>2 DEF countAll

\* The initial states of the worker are initial states of the directory.
LEMMA DirectoryInit == Init => Directory!Init
<1> SUFFICES ASSUME Init PROVE Directory!Init
  OBVIOUS
<1>1. PhaseInv /\ DeviceLimit
  BY InitEstablishesIInv DEF IInv, LimitInv
<1> QED BY <1>1, SameCount DEF Directory!Init, Init, PushInit, DeviceLimit, PhaseInv,
            WorkerTypeOK, RegistrationTypeOK, Tables

\* A statement that writes is Renew, Enroll or Retire; a verdict of APNs is
\* Report; a redeployment raises the ceiling or stutters; the rest stutters.
LEMMA DirectoryStep ==
    ASSUME IInv, [Next]_vars PROVE Directory!Next \/ UNCHANGED <<devices, dead, ceiling>>
<1> USE DEF IInv, PhaseInv, WorkerTypeOK, RegistrationTypeOK, Directory!Next
<1>1. CASE RegistrationNext
  <2>0. dead' = dead
    BY <1>1 DEF RegistrationNext, pushVars
  <2>1. ASSUME NEW policy \in Policies, Redeploy(policy)
        PROVE  Directory!Next \/ UNCHANGED <<devices, dead, ceiling>>
    <3>1. policy.maxDevices \in Nat
      OBVIOUS
    <3> QED BY <2>0, <2>1, <3>1 DEF Redeploy, Directory!RaiseCeiling
  <2>2. ASSUME NEW r \in Registrant, RegistrationArrives(r) \/ RegistrationStep(r)
        PROVE  ceiling' = ceiling
    BY <2>2 DEF RegistrationArrives, RefuseClosed, RejectRegistration,
       AcceptRegistration, Arrive, RegistrationStep, UpdateExisting, UpdateNothing,
       Enroll, InsertNothing, InsertReplyLost, CountAfterInsert,
       RegistrationFails, UpdateReplyLost
  <2>3. ASSUME ceiling' = ceiling
        PROVE  Directory!Next \/ UNCHANGED <<devices, dead, ceiling>>
    <3>1. ASSUME NEW r \in Registrant, rphase[r] = "update", rkey[r] \in Rows,
                 UpdateDevice(rkey[r], rtoken[r])
          PROVE  Directory!Renew(rkey[r], rtoken[r]) /\ rkey[r] \in Key /\ rtoken[r] \in Token
      BY <2>0, <2>3, <3>1 DEF Directory!Renew, UpdateDevice, Rows,
                              RegistrationPhases, Registering
    <3>2. ASSUME NEW r \in Registrant, NEW k \in Key, rphase[r] = "insert",
                 InsertApplies(k, rpolicy[r].maxDevices), InsertDevice(k, rtoken[r])
          PROVE  Directory!Enroll(k, rtoken[r]) /\ rtoken[r] \in Token
      <4>1. rpolicy[r].maxDevices \in Nat /\ countAll \in Nat
        BY CountIsNat
      <4>2. Directory!Cardinality(Directory!Enrolled) < ceiling
        BY <3>2, <4>1, SameCount DEF InsertApplies, LimitInv
      <4> QED BY <2>0, <2>3, <3>2, <4>2 DEF Directory!Enroll, InsertApplies,
                 InsertDevice, RegistrationPhases, Registering
    <3>3. TableStep
      BY <1>1, RegistrationWrites
    <3> QED BY <2>0, <2>3, <3>1, <3>2, <3>3 DEF TableStep
  <2> QED BY <1>1, <2>1, <2>2, <2>3 DEF RegistrationNext
<1>2. CASE PushNext
  <2>0. ceiling' = ceiling
    BY <1>2 DEF PushNext, registrationVars
  <2>1. ASSUME NEW p \in Pusher, SendFindsTokenDead(p)
        PROVE  Directory!Next
    <3>1. ptoken[p] \in Token
      BY <2>1 DEF PushPhases, SendFindsTokenDead
    <3> QED BY <2>0, <2>1, <3>1 DEF SendFindsTokenDead, Directory!Report
  <2>2. ASSUME dead' = dead
        PROVE  Directory!Next \/ UNCHANGED <<devices, dead, ceiling>>
    BY <1>2, <2>0, <2>2, PushWrites DEF CleanStep, Directory!Retire
  <2>3. ASSUME NEW p \in Pusher, NEW k \in Key \cup {NoKey}, StartPush(p, k)
        PROVE  dead' = dead
    BY <2>3 DEF StartPush
  <2>4. ASSUME NEW p \in Pusher, PushStep(p)
        PROVE  SendFindsTokenDead(p) \/ dead' = dead
    BY <2>4 DEF PushStep, LookupFindsToken, LookupFails, SendSucceeds, SendFails,
                CleanUp, CleanUpFails
  <2> QED BY <1>2, <2>1, <2>2, <2>3, <2>4 DEF PushNext
<1>3. CASE UNCHANGED vars
  BY <1>3 DEF vars, registrationVars, pushVars
<1> QED BY <1>1, <1>2, <1>3 DEF Next

\* Registrations, pushes and redeployments together do nothing to the table
\* that DeviceDirectory does not allow.
THEOREM WorkerImplementsDirectory == SafetySpec => ImplementsDirectory
<1>1. IInv /\ [Next]_vars => [Directory!Next]_<<devices, dead, ceiling>>
  BY DirectoryStep
<1>2. []IInv /\ [][Next]_vars => [][Directory!Next]_<<devices, dead, ceiling>>
  BY <1>1, PTL
<1> QED BY <1>2, DirectoryInit, IInvInvariant, PTL
        DEF SafetySpec, ImplementsDirectory, Directory!Spec

=============================================================================
