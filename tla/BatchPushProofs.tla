---------------------------- MODULE BatchPushProofs ----------------------------
(***************************************************************************)
(* Proofs about one push request, for any chunk size, any length of its    *)
(* list and any interleaving of its calls with other requests.             *)
(***************************************************************************)
EXTENDS BatchPush, FiniteSetTheorems, SequenceTheorems, TLAPS

USE D1Assumption, BatchAssumption

Running == {p \in Pusher : pphase[p] \in Pushing}

\* The calls that may be under way, by the state of the request.
MayRun ==
    CASE response = "running" -> Chunk(deviceKeys, from)
      [] response = "single" -> {1}
      [] OTHER -> {}

\* Only calls of the current chunk are under way: the barrier of Promise.all.
BarrierInv ==
    /\ pphase \in [Pusher -> {"idle"} \cup Pushing \cup Pushed]
    /\ from \in Nat
    /\ deviceKeys \in Seq(Key \cup {NoKey})
    /\ response = "none" => from = 0
    /\ Running \subseteq MayRun

\* A chunk is an interval of positions, no longer than BATCH_PUSH_CONCURRENCY.
LEMMA ChunkIsSmall ==
    ASSUME NEW keys \in Seq(Key \cup {NoKey}), NEW i \in Nat
    PROVE  /\ IsFiniteSet(Chunk(keys, i))
           /\ Cardinality(Chunk(keys, i)) <= BatchConcurrency
<1>1. Chunk(keys, i) \subseteq i + 1 .. i + BatchConcurrency
  BY DEF Chunk
<1>2. /\ IsFiniteSet(i + 1 .. i + BatchConcurrency)
      /\ Cardinality(i + 1 .. i + BatchConcurrency) = BatchConcurrency
  BY FS_Interval
<1>3. /\ IsFiniteSet(Chunk(keys, i))
      /\ Cardinality(Chunk(keys, i)) <= Cardinality(i + 1 .. i + BatchConcurrency)
  BY <1>1, <1>2, FS_Subset
<1> QED BY <1>2, <1>3

\* A step of a call keeps it under way or settles it; it starts no other call.
LEMMA CallStepRunning ==
    ASSUME BarrierInv, NEW p \in Pusher, PushStep(p)
    PROVE  /\ pphase' \in [Pusher -> {"idle"} \cup Pushing \cup Pushed]
           /\ Running' \subseteq Running
<1>1. /\ pphase[p] \in Pushing
      /\ \E phase \in Pushing \cup Pushed : pphase' = [pphase EXCEPT ![p] = phase]
  BY DEF PushStep, LookupFindsToken, LookupFails, SendSucceeds, SendFails,
         SendFindsTokenDead, CleanUp, CleanUpFails, PushGoto, Pushing, Pushed
<1> QED BY <1>1 DEF BarrierInv, Running

\* The calls under way belong to the current chunk, or to the single push.
LEMMA BarrierInvInductive ==
    /\ Init => BarrierInv
    /\ BarrierInv /\ [Next]_vars => BarrierInv'
<1>1. Init => BarrierInv
  BY DEF Init, PushInit, BarrierInv, Running, MayRun, Pushing
<1>2. ASSUME BarrierInv, [Next]_vars PROVE BarrierInv'
  <2> USE <1>2 DEF BarrierInv
  <2>1. ASSUME RejectKeys \/ (\E keys \in KeyLists : RefuseBatch(keys)) PROVE BarrierInv'
    BY <2>1 DEF RejectKeys, RefuseBatch, pushVars, Running, MayRun
  <2>2. ASSUME NEW k \in Key \cup {NoKey}, StartSingle(k) PROVE BarrierInv'
    <3>1. Running = {}
      BY <2>2 DEF StartSingle, MayRun
    <3>2. PICK phase \in Pushing \cup Pushed : pphase' = [pphase EXCEPT ![1] = phase]
      BY <2>2 DEF StartSingle, StartPush, FirstPhase, Pushing, Pushed
    <3>3. Running' \subseteq {1}
      BY <3>1, <3>2 DEF Running
    <3>4. /\ response' = "single" /\ from' = from /\ deviceKeys' = deviceKeys
          /\ pphase' \in [Pusher -> {"idle"} \cup Pushing \cup Pushed]
      BY <2>2, <3>2 DEF StartSingle
    <3> QED BY <3>3, <3>4 DEF MayRun
  <2>3. ASSUME NEW keys \in Seq(Key \cup {NoKey}), NEW i \in Nat, Running = {},
               StartCalls(Chunk(keys, i), keys)
        PROVE  /\ pphase' \in [Pusher -> {"idle"} \cup Pushing \cup Pushed]
               /\ Running' \subseteq Chunk(keys, i)
    BY <2>3 DEF StartCalls, FirstPhase, Running, Pushing, Pushed
  <2>4. ASSUME NEW keys \in KeyLists, StartBatch(keys) PROVE BarrierInv'
    <3>1. keys \in Seq(Key \cup {NoKey})
      BY DEF KeyLists
    <3>2. Running = {} /\ from = 0 /\ from' = from /\ deviceKeys' = keys /\ response' = "running"
      BY <2>4 DEF StartBatch, MayRun
    <3>3. StartCalls(Chunk(keys, 0), keys)
      BY <2>4 DEF StartBatch
    <3> QED BY <2>3, <3>1, <3>2, <3>3 DEF MayRun
  <2>5. CASE FinishChunk
    <3>1. Running = {}
      BY <2>5 DEF FinishChunk, Settled, MayRun, Running, Pushing, Pushed
    <3>2. /\ from' = from + BatchConcurrency /\ deviceKeys' = deviceKeys
          /\ from' \in Nat
      BY <2>5 DEF FinishChunk
    <3>3. CASE response' = "answered" /\ UNCHANGED <<devices, pushVars>>
      BY <3>1, <3>2, <3>3 DEF pushVars, Running, MayRun
    <3>4. CASE /\ response' = "running"
               /\ StartCalls(Chunk(deviceKeys, from + BatchConcurrency), deviceKeys)
      BY <2>3, <3>1, <3>2, <3>4 DEF MayRun
    <3> QED BY <2>5, <3>3, <3>4 DEF FinishChunk
  <2>6. ASSUME NEW p \in Pusher, CallStep(p) PROVE BarrierInv'
    BY <2>6, CallStepRunning DEF CallStep, batchVars, MayRun
  <2>7. ASSUME NEW k \in Key, NEW t \in Token, Reregister(k, t) PROVE BarrierInv'
    BY <2>7 DEF Reregister, pushVars, batchVars, Running, MayRun
  <2>8. CASE UNCHANGED vars
    BY <2>8 DEF vars, pushVars, batchVars, Running, MayRun
  <2> QED BY <2>1, <2>2, <2>4, <2>5, <2>6, <2>7, <2>8 DEF Next
<1> QED BY <1>1, <1>2

\* Never more than BATCH_PUSH_CONCURRENCY calls of a request are under way.
THEOREM ConcurrencyIsBounded == SafetySpec => []AtMostConcurrency
<1>1. ASSUME BarrierInv PROVE AtMostConcurrency
  <2>1. IsFiniteSet(MayRun) /\ Cardinality(MayRun) <= BatchConcurrency
    <3>1. IsFiniteSet({1}) /\ Cardinality({1}) <= BatchConcurrency
      <4>1. IsFiniteSet({1}) /\ Cardinality({1}) = 1
        BY FS_Singleton
      <4> QED BY <4>1
    <3>2. IsFiniteSet({}) /\ Cardinality({}) <= BatchConcurrency
      BY FS_EmptySet
    <3>3. CASE response = "running"
      BY <1>1, <3>3, ChunkIsSmall DEF MayRun, BarrierInv
    <3>4. CASE response # "running"
      BY <3>1, <3>2, <3>4 DEF MayRun
    <3> QED BY <3>3, <3>4
  <2>2. IsFiniteSet(Running) /\ Cardinality(Running) <= Cardinality(MayRun)
    BY <1>1, <2>1, FS_Subset DEF BarrierInv
  <2>3. Cardinality(Running) \in Nat /\ Cardinality(MayRun) \in Nat
    BY <2>1, <2>2, FS_CardinalityType
  <2> QED BY <2>1, <2>2, <2>3 DEF AtMostConcurrency, Running
<1> QED BY <1>1, BarrierInvInductive, PTL DEF SafetySpec

-----------------------------------------------------------------------------
(* The rows *)

\* The call for position i has settled, and rows[i] is its result.
Done(i) ==
    /\ pphase[i] \in Pushed
    /\ pkey[i] = deviceKeys[i]
    /\ rows[i] = RowOf(i)

\* A call that awaits APNs or the cleanup has read a token.
TokenInv == \A p \in Pusher : pphase[p] \in {"send", "cleanup"} => ptoken[p] \in Token

\* Up to the chunk every position is done, in it every call has its key, and
\* after it no call has started.
RowsInv ==
    /\ response = "none" => rows = <<>> /\ \A p \in Pusher : pphase[p] = "idle"
    /\ response = "running" =>
          /\ from < Len(deviceKeys) /\ Len(rows) = from
          /\ \A p \in Pusher : p <= from => Done(p)
          /\ \A p \in Chunk(deviceKeys, from) : pkey[p] = deviceKeys[p]
          /\ \A p \in Pusher : p > from + BatchConcurrency => pphase[p] = "idle"
    /\ response = "answered" =>
          Len(rows) = Len(deviceKeys) /\ \A p \in 1 .. Len(deviceKeys) : Done(p)

BatchInv == BatchTypeOK /\ BarrierInv /\ TokenInv /\ RowsInv

\* A chunk begins at the next position and ends with the list at the latest.
LEMMA ChunkSize ==
    ASSUME NEW keys \in Seq(Key \cup {NoKey}), NEW i \in Nat, i < Len(keys)
    PROVE  Cardinality(Chunk(keys, i)) =
             IF i + BatchConcurrency <= Len(keys) THEN BatchConcurrency ELSE Len(keys) - i
<1>1. Len(keys) \in Nat
  OBVIOUS
<1> DEFINE last == IF i + BatchConcurrency <= Len(keys) THEN i + BatchConcurrency ELSE Len(keys)
<1>2. Chunk(keys, i) = i + 1 .. last
  BY <1>1 DEF Chunk
<1>3. last \in Int /\ i + 1 \in Int /\ ~(i + 1 > last)
  BY <1>1
<1> HIDE DEF last
<1>4. Cardinality(i + 1 .. last) = last - (i + 1) + 1
  BY <1>3, FS_Interval
<1> QED BY <1>1, <1>2, <1>4 DEF last

\* The rows of the current chunk are those of its calls, in their order.
LEMMA ChunkRowsAre ==
    ASSUME BatchInv, response = "running"
    PROVE  LET size == Cardinality(Chunk(deviceKeys, from))
               new == ChunkRows(Chunk(deviceKeys, from))
           IN  /\ size \in Nat
               /\ size = IF from + BatchConcurrency <= Len(deviceKeys)
                         THEN BatchConcurrency ELSE Len(deviceKeys) - from
               /\ new \in Seq(Row) /\ Len(new) = size
               /\ \A j \in 1 .. size : new[j] = RowOf(from + j)
<1> DEFINE size == Cardinality(Chunk(deviceKeys, from))
           all == [p \in 1 .. Len(deviceKeys) |-> RowOf(p)]
<1>1. /\ deviceKeys \in Seq(Key \cup {NoKey}) /\ Len(deviceKeys) \in Nat
      /\ Len(deviceKeys) <= MaxListed /\ from \in Nat /\ from < Len(deviceKeys)
  BY DEF BatchInv, BatchTypeOK, RowsInv
<1>2. /\ size = IF from + BatchConcurrency <= Len(deviceKeys)
                THEN BatchConcurrency ELSE Len(deviceKeys) - from
  BY <1>1, ChunkSize
<1>3. size \in Nat /\ from + size <= Len(deviceKeys) /\ size > 0
  BY <1>1, <1>2
<1>4. \A p \in 1 .. Len(deviceKeys) : all[p] = RowOf(p) /\ RowOf(p) \in Row
  BY <1>1 DEF BatchInv, BatchTypeOK, PushTypeOK, RowOf, Row, Code
<1> HIDE DEF size, all
<1>5. from + 1 \in Int /\ from + size \in Int
      /\ \A j \in from + 1 .. from + size : all[j] \in Row
  BY <1>1, <1>3, <1>4
<1>6. /\ SubSeq(all, from + 1, from + size) \in Seq(Row)
      /\ Len(SubSeq(all, from + 1, from + size)) = size
      /\ \A j \in 1 .. size : SubSeq(all, from + 1, from + size)[j] = all[from + j]
  BY <1>1, <1>3, <1>5, SubSeqProperties
<1>7. \A j \in 1 .. size : all[from + j] = RowOf(from + j)
  BY <1>1, <1>3, <1>4
<1> QED BY <1>2, <1>3, <1>6, <1>7 DEF ChunkRows, size, all

\* A step of a call settles no call twice, and keeps types and tokens.
LEMMA CallStepKeeps ==
    ASSUME BatchInv, NEW p \in Pusher, PushStep(p)
    PROVE  /\ devices' \in Tables /\ PushTypeOK' /\ TokenInv'
           /\ pkey' = pkey /\ pphase[p] \in Pushing
           /\ \A q \in Pusher \ {p} : pphase'[q] = pphase[q]
<1> USE DEF BatchInv, BatchTypeOK, PushTypeOK, TokenInv, Pushing, Pushed
<1>1. CASE LookupFindsToken(p)
  BY <1>1 DEF LookupFindsToken, HasToken, PushGoto
<1>2. CASE LookupFails(p) \/ SendSucceeds(p) \/ SendFails(p) \/ CleanUpFails(p)
  BY <1>2 DEF LookupFails, SendSucceeds, SendFails, CleanUpFails, PushGoto
<1>3. CASE SendFindsTokenDead(p)
  BY <1>3 DEF SendFindsTokenDead, PushGoto
<1>4. CASE CleanUp(p)
  BY <1>4 DEF CleanUp, ClearDevice, PushGoto, Tables
<1> QED BY <1>1, <1>2, <1>3, <1>4 DEF PushStep

\* A chunk starts calls with their keys and leaves the others alone.
LEMMA StartCallsStarts ==
    ASSUME BatchInv, NEW keys \in Seq(Key \cup {NoKey}), Len(keys) <= MaxListed, NEW i \in Nat,
           StartCalls(Chunk(keys, i), keys)
    PROVE  /\ devices' = devices /\ PushTypeOK' /\ TokenInv'
           /\ \A p \in Chunk(keys, i) : pkey'[p] = keys[p]
           /\ \A p \in Pusher \ Chunk(keys, i) : pphase'[p] = pphase[p] /\ pkey'[p] = pkey[p]
<1>1. \A p \in Chunk(keys, i) : keys[p] \in Key \cup {NoKey} /\ p \in Pusher
  BY DEF Chunk
<1> QED BY <1>1 DEF StartCalls, FirstPhase, BatchInv, BatchTypeOK, PushTypeOK, TokenInv, Pushing, Pushed

LEMMA BatchInvInit == Init => BatchInv
<1> SUFFICES ASSUME Init PROVE BatchInv
  OBVIOUS
<1>1. BatchTypeOK /\ TokenInv
  BY DEF Init, PushInit, BatchTypeOK, PushTypeOK, TokenInv
<1>2. RowsInv
  BY DEF Init, PushInit, RowsInv
<1> QED BY <1>1, <1>2, BarrierInvInductive DEF BatchInv

LEMMA FinishChunkKeeps ==
    ASSUME BatchInv, FinishChunk
    PROVE  /\ BatchTypeOK' /\ TokenInv' /\ RowsInv'
           /\ \A p \in Pusher : pphase[p] \in Pushed => pphase'[p] = pphase[p]
<1> DEFINE chunk == Chunk(deviceKeys, from)
           next == from + BatchConcurrency
           size == Cardinality(chunk)
           new == ChunkRows(chunk)
<1>1. /\ response = "running" /\ Settled(chunk) /\ rows' = rows \o new /\ from' = next
      /\ deviceKeys' = deviceKeys
      /\ \/ /\ next < Len(deviceKeys) /\ StartCalls(Chunk(deviceKeys, next), deviceKeys)
            /\ response' = response
         \/ next >= Len(deviceKeys) /\ response' = "answered" /\ UNCHANGED <<devices, pushVars>>
  BY DEF FinishChunk
<1>2. /\ deviceKeys \in Seq(Key \cup {NoKey}) /\ Len(deviceKeys) \in Nat
      /\ Len(deviceKeys) <= MaxListed /\ from \in Nat /\ next \in Nat
      /\ rows \in Seq(Row) /\ Len(rows) = from /\ from < Len(deviceKeys)
  BY <1>1 DEF BatchInv, BatchTypeOK, RowsInv
<1>3. /\ size \in Nat /\ new \in Seq(Row) /\ Len(new) = size
      /\ size = IF next <= Len(deviceKeys) THEN BatchConcurrency ELSE Len(deviceKeys) - from
      /\ \A j \in 1 .. size : new[j] = RowOf(from + j)
  BY <1>1, ChunkRowsAre
<1> HIDE DEF new, size
<1>4. /\ rows' \in Seq(Row) /\ Len(rows') = from + size
      /\ \A i \in 1 .. from + size : rows'[i] = IF i <= from THEN rows[i] ELSE new[i - from]
  BY <1>1, <1>2, <1>3, ConcatProperties
<1>5. \A i \in 1 .. from + size : /\ rows'[i] = RowOf(i) /\ pphase[i] \in Pushed
                                 /\ pkey[i] = deviceKeys[i] /\ i \in Pusher
  <2> SUFFICES ASSUME NEW i \in 1 .. from + size
               PROVE  /\ rows'[i] = RowOf(i) /\ pphase[i] \in Pushed
                      /\ pkey[i] = deviceKeys[i] /\ i \in Pusher
    OBVIOUS
  <2>1. i \in Pusher /\ i \in Nat /\ i <= Len(deviceKeys)
    BY <1>2, <1>3
  <2>2. CASE i <= from
    BY <1>1, <1>2, <1>4, <2>1, <2>2 DEF BatchInv, RowsInv, Done
  <2>3. CASE i > from
    <3>1. i \in chunk
      BY <1>2, <1>3, <2>1, <2>3 DEF Chunk
    <3>2. rows'[i] = RowOf(i)
      <4>1. i - from \in 1 .. size /\ from + (i - from) = i
        BY <1>2, <1>3, <2>1, <2>3
      <4>2. rows'[i] = new[i - from]
        BY <1>2, <1>4, <2>1, <2>3
      <4>3. new[i - from] = RowOf(from + (i - from))
        BY <1>3, <4>1
      <4> QED BY <4>1, <4>2, <4>3
    <3> QED BY <1>1, <2>1, <3>1, <3>2 DEF Settled, BatchInv, RowsInv
  <2> QED BY <1>2, <2>1, <2>2, <2>3
<1>6. CASE next < Len(deviceKeys)
  <2>1. /\ StartCalls(Chunk(deviceKeys, next), deviceKeys) /\ response' = "running"
        /\ from + size = next
    BY <1>1, <1>2, <1>3, <1>6
  <2>2. /\ devices' = devices /\ PushTypeOK' /\ TokenInv'
        /\ \A p \in Chunk(deviceKeys, next) : pkey'[p] = deviceKeys[p]
        /\ \A p \in Pusher \ Chunk(deviceKeys, next) : pphase'[p] = pphase[p] /\ pkey'[p] = pkey[p]
    BY <1>2, <2>1, StartCallsStarts
  <2>3. BatchTypeOK'
    BY <1>1, <1>2, <1>4, <2>1, <2>2 DEF BatchInv, BatchTypeOK
  <2>4. ASSUME NEW p \in Pusher, p <= next
        PROVE  pphase'[p] = pphase[p] /\ pkey'[p] = pkey[p] /\ Done(p)'
    <3>1. p \notin Chunk(deviceKeys, next) /\ p \in 1 .. from + size
      BY <1>2, <2>1, <2>4 DEF Chunk
    <3>2. pphase'[p] = pphase[p] /\ pkey'[p] = pkey[p]
      BY <2>2, <3>1
    <3>3. rows'[p] = RowOf(p) /\ pphase[p] \in Pushed /\ pkey[p] = deviceKeys[p]
      BY <1>5, <3>1
    <3>4. RowOf(p)' = RowOf(p)
      BY <3>2 DEF RowOf, Code
    <3>5. deviceKeys' = deviceKeys
      BY <1>1
    <3> QED BY <3>2, <3>3, <3>4, <3>5 DEF Done
  <2>5. ASSUME NEW p \in Pusher, p > next
        PROVE  /\ pphase[p] = "idle"
               /\ p > next + BatchConcurrency => pphase'[p] = "idle"
    <3>1. pphase[p] = "idle"
      BY <1>1, <2>5 DEF BatchInv, RowsInv
    <3>2. p > next + BatchConcurrency => p \notin Chunk(deviceKeys, next)
      BY <1>2 DEF Chunk
    <3> QED BY <2>2, <3>1, <3>2
  <2>6. RowsInv'
    <3>1. \A p \in Pusher : p > next + BatchConcurrency => pphase'[p] = "idle"
      BY <1>2, <2>5
    <3> QED BY <1>1, <1>2, <1>4, <1>6, <2>1, <2>2, <2>4, <3>1 DEF RowsInv
  <2>7. \A p \in Pusher : pphase[p] \in Pushed => pphase'[p] = pphase[p]
    BY <1>2, <2>4, <2>5 DEF Pushed
  <2> QED BY <2>2, <2>3, <2>6, <2>7
<1>7. CASE next >= Len(deviceKeys)
  <2>1. /\ response' = "answered" /\ from + size = Len(deviceKeys)
        /\ devices' = devices /\ pphase' = pphase /\ pkey' = pkey /\ ptoken' = ptoken /\ dead' = dead
    BY <1>1, <1>2, <1>3, <1>7 DEF pushVars
  <2>2. BatchTypeOK' /\ TokenInv'
    BY <1>1, <1>2, <1>4, <2>1 DEF BatchInv, BatchTypeOK, PushTypeOK, TokenInv
  <2>3. \A p \in 1 .. Len(deviceKeys) : Done(p)'
    BY <1>1, <1>5, <2>1 DEF Done, RowOf, Code
  <2>4. RowsInv'
    BY <1>1, <1>4, <2>1, <2>3 DEF RowsInv
  <2> QED BY <2>1, <2>2, <2>4
<1> QED BY <1>2, <1>6, <1>7

\* What a step that leaves the request alone keeps.
LEMMA CallsKeepRows ==
    ASSUME BatchInv, UNCHANGED batchVars, pkey' = pkey, response # "none",
           pphase' \in [Pusher -> {"idle"} \cup Pushing \cup Pushed],
           \A p \in Pusher : pphase[p] \in {"idle"} \cup Pushed => pphase'[p] = pphase[p]
    PROVE  RowsInv'
<1>1. response' = response /\ deviceKeys' = deviceKeys /\ from' = from /\ rows' = rows
  BY DEF batchVars
<1>2. ASSUME NEW i \in Pusher, Done(i) PROVE Done(i)'
  BY <1>1, <1>2 DEF Done, RowOf, Code
<1>3. \A i \in 1 .. Len(deviceKeys) : i \in Pusher
  BY DEF BatchInv, BatchTypeOK
<1> QED BY <1>1, <1>2, <1>3 DEF BatchInv, RowsInv

LEMMA BatchInvNext ==
    ASSUME BatchInv, [Next]_vars
    PROVE  /\ BatchInv'
           /\ \A p \in Pusher : pphase[p] \in Pushed => pphase'[p] = pphase[p]
<1> DEFINE Kept == /\ BatchTypeOK' /\ TokenInv' /\ RowsInv'
                   /\ \A p \in Pusher : pphase[p] \in Pushed => pphase'[p] = pphase[p]
<1>1. BarrierInv'
  BY BarrierInvInductive DEF BatchInv
<1> SUFFICES Kept
  BY <1>1 DEF BatchInv
<1>2. ASSUME RejectKeys \/ (\E keys \in KeyLists : RefuseBatch(keys)) PROVE Kept
  <2>1. /\ response' \in {"invalidKeys", "tooMany"} /\ UNCHANGED <<deviceKeys, from, rows>>
        /\ devices' = devices /\ pphase' = pphase /\ pkey' = pkey /\ ptoken' = ptoken /\ dead' = dead
    BY <1>2 DEF RejectKeys, RefuseBatch, pushVars
  <2> QED BY <2>1 DEF BatchInv, BatchTypeOK, PushTypeOK, TokenInv, RowsInv
<1>3. ASSUME NEW k \in Key \cup {NoKey}, StartSingle(k) PROVE Kept
  <2>1. /\ response = "none" /\ response' = "single" /\ StartPush(1, k) /\ 1 \in Pusher
        /\ deviceKeys' = deviceKeys /\ from' = from /\ rows' = rows
    BY <1>3 DEF StartSingle
  <2>2. /\ pphase' = [pphase EXCEPT ![1] = FirstPhase(k)] /\ pkey' = [pkey EXCEPT ![1] = k]
        /\ ptoken' = [ptoken EXCEPT ![1] = Absent] /\ devices' = devices /\ dead' = dead
    BY <2>1 DEF StartPush
  <2>3. PushTypeOK' /\ TokenInv'
    BY <2>2 DEF BatchInv, BatchTypeOK, PushTypeOK, TokenInv, FirstPhase, Pushing, Pushed
  <2>4. BatchTypeOK' /\ RowsInv'
    BY <2>1, <2>2, <2>3 DEF BatchInv, BatchTypeOK, RowsInv
  <2>5. \A p \in Pusher : pphase[p] = "idle"
    BY <2>1 DEF BatchInv, RowsInv
  <2> QED BY <2>3, <2>4, <2>5 DEF Pushed
<1>4. ASSUME NEW keys \in KeyLists, StartBatch(keys) PROVE Kept
  <2>1. keys \in Seq(Key \cup {NoKey}) /\ Len(keys) \in 1 .. MaxListed
    BY DEF KeyLists
  <2>2. /\ response = "none" /\ response' = "running" /\ deviceKeys' = keys
        /\ StartCalls(Chunk(keys, 0), keys) /\ from' = from /\ rows' = rows
    BY <1>4 DEF StartBatch
  <2>3. from = 0 /\ rows = <<>> /\ \A p \in Pusher : pphase[p] = "idle"
    BY <2>2 DEF BatchInv, BarrierInv, RowsInv
  <2>4. /\ devices' = devices /\ PushTypeOK' /\ TokenInv'
        /\ \A p \in Chunk(keys, 0) : pkey'[p] = keys[p]
        /\ \A p \in Pusher \ Chunk(keys, 0) : pphase'[p] = "idle"
    BY <2>1, <2>2, <2>3, StartCallsStarts
  <2>5. BatchTypeOK'
    BY <2>1, <2>2, <2>4 DEF BatchInv, BatchTypeOK
  <2>6. \A p \in Pusher : p > 0 + BatchConcurrency => pphase'[p] = "idle"
    BY <2>4 DEF Chunk
  <2>7. RowsInv'
    BY <2>1, <2>2, <2>3, <2>4, <2>6 DEF RowsInv
  <2> QED BY <2>3, <2>4, <2>5, <2>7 DEF Pushed
<1>5. CASE FinishChunk
  BY <1>5, FinishChunkKeeps
<1>6. ASSUME NEW p \in Pusher, CallStep(p) PROVE Kept
  <2>1. PushStep(p) /\ UNCHANGED batchVars
    BY <1>6 DEF CallStep
  <2>2. /\ devices' \in Tables /\ PushTypeOK' /\ TokenInv' /\ pkey' = pkey
        /\ pphase[p] \in Pushing /\ \A q \in Pusher \ {p} : pphase'[q] = pphase[q]
    BY <2>1, CallStepKeeps
  <2>3. response # "none"
    BY <2>2 DEF BatchInv, RowsInv, Pushing
  <2>4. \A q \in Pusher : pphase[q] \in {"idle"} \cup Pushed => pphase'[q] = pphase[q]
    BY <2>2 DEF Pushing, Pushed
  <2>5. RowsInv'
    BY <2>1, <2>2, <2>3, <2>4, CallsKeepRows DEF PushTypeOK
  <2>6. BatchTypeOK'
    BY <2>1, <2>2 DEF BatchInv, BatchTypeOK, batchVars
  <2> QED BY <2>2, <2>4, <2>5, <2>6
<1>7. ASSUME NEW k \in Key, NEW t \in Token, Reregister(k, t) PROVE Kept
  <2>1. devices' \in Tables
    BY <1>7 DEF Reregister, UpdateDevice, BatchInv, BatchTypeOK, Tables
  <2>2. /\ pphase' = pphase /\ pkey' = pkey /\ ptoken' = ptoken /\ dead' = dead
        /\ response' = response /\ deviceKeys' = deviceKeys /\ from' = from /\ rows' = rows
    BY <1>7 DEF Reregister, pushVars, batchVars
  <2> QED BY <2>1, <2>2 DEF BatchInv, BatchTypeOK, PushTypeOK, TokenInv, RowsInv, Done, RowOf, Code
<1>8. CASE UNCHANGED vars
  <2>1. /\ pphase' = pphase /\ pkey' = pkey /\ ptoken' = ptoken /\ dead' = dead /\ devices' = devices
        /\ response' = response /\ deviceKeys' = deviceKeys /\ from' = from /\ rows' = rows
    BY <1>8 DEF vars, pushVars, batchVars
  <2> QED BY <2>1 DEF BatchInv, BatchTypeOK, PushTypeOK, TokenInv, RowsInv, Done, RowOf, Code
<1> QED BY <1>2, <1>3, <1>4, <1>5, <1>6, <1>7, <1>8 DEF Next

LEMMA BatchInductive == SafetySpec => []BatchInv
BY BatchInvInit, BatchInvNext, PTL DEF SafetySpec

\* Every variable has its type.
THEOREM BatchTypeCorrect == SafetySpec => []BatchTypeOK
<1>1. BatchInv => BatchTypeOK
  BY DEF BatchInv
<1> QED BY <1>1, BatchInductive, PTL

\* The rows answer the keys of the list, position by position, for any list,
\* chunk size and order in which the calls settle.
THEOREM RowsAreInOrder == SafetySpec => []RowsAnswerKeys
<1>1. BatchInv => RowsAnswerKeys
  <2> SUFFICES ASSUME BatchInv, response = "answered", NEW i \in 1 .. Len(deviceKeys)
               PROVE  /\ Len(rows) = Len(deviceKeys)
                      /\ rows[i].device_key = deviceKeys[i] /\ rows[i].code = Code(i)
    BY DEF RowsAnswerKeys, BatchInv, RowsInv
  <2>1. Len(rows) = Len(deviceKeys) /\ rows[i] = RowOf(i) /\ pkey[i] = deviceKeys[i]
    BY DEF BatchInv, RowsInv, Done
  <2>2. RowOf(i).device_key = pkey[i] /\ RowOf(i).code = Code(i)
    BY DEF RowOf
  <2> QED BY <2>1, <2>2
<1> QED BY <1>1, BatchInductive, PTL

\* No position of the list is pushed twice.
THEOREM NoPositionIsPushedTwice == SafetySpec => NoCallRestarts
<1>1. ASSUME BatchInv, [Next]_vars
      PROVE  [\A p \in Pusher : pphase[p] \in Pushed => pphase'[p] = pphase[p]]_vars
  BY <1>1, BatchInvNext
<1> QED BY <1>1, BatchInductive, PTL DEF SafetySpec, NoCallRestarts

=============================================================================
