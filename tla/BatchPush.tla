------------------------------ MODULE BatchPush ------------------------------
(***************************************************************************)
(* POST /push with a JSON body (routeDoPushV2): one request that pushes to *)
(* one device or to a list of them.  A batch runs its pushOne calls in     *)
(* chunks; the calls of a chunk interleave, the next chunk starts when all *)
(* of them have settled, and the rows answer the keys in their order.      *)
(* Meanwhile other requests may register the same devices.                 *)
(***************************************************************************)
EXTENDS Push, Sequences

CONSTANTS
    BatchConcurrency,   \* BATCH_PUSH_CONCURRENCY
    MaxBatchPushCount,  \* config.maxBatchPushCount
    MaxListed           \* bound: a request lists at most this many keys

\* The call for the i-th key of the list is the pusher i.
ASSUME BatchAssumption ==
    /\ BatchConcurrency \in Nat \ {0}
    /\ MaxBatchPushCount \in Nat \ {0}
    /\ MaxListed \in Nat
    /\ Pusher = 1 .. MaxListed

VARIABLES
    response,   \* "none", "running", or how the request was answered
    deviceKeys, \* the keys the request lists
    from,       \* i of the loop in pushBatch: where the current chunk begins
    rows        \* the rows answered so far

batchVars == <<response, deviceKeys, from, rows>>
vars == <<devices, pushVars, batchVars>>

Row == [code: {200, 400, 500}, device_key: Key \cup {NoKey}]

BatchTypeOK ==
    /\ devices \in Tables
    /\ PushTypeOK
    /\ response \in {"none", "running", "single", "answered", "invalidKeys",
                     "tooMany"}
    /\ deviceKeys \in Seq(Key \cup {NoKey})
    /\ Len(deviceKeys) <= MaxListed
    /\ from \in Nat
    /\ rows \in Seq(Row)

Init ==
    /\ devices \in Tables
    /\ PushInit
    /\ response = "none"
    /\ deviceKeys = <<>>
    /\ from = 0
    /\ rows = <<>>

KeyLists == UNION {[1 .. n -> Key \cup {NoKey}] : n \in 1 .. MaxListed}

\* Seeded fault: a chunk is one key longer than the step of the loop.
LongChunk(keys, i) == {p \in 1 .. Len(keys) : i < p /\ p <= i + BatchConcurrency + 1}

\* Seeded fault: the slice starts one key early.
OverlappingChunk(keys, i) == {p \in 1 .. Len(keys) : i <= p /\ p <= i + BatchConcurrency}

\* deviceKeys.slice(i, i + BATCH_PUSH_CONCURRENCY), as the set of its indices.
Chunk(keys, i) == {p \in 1 .. Len(keys) : i < p /\ p <= i + BatchConcurrency}

\* chunk.map calls pushOne for every key of the chunk before any of them awaits.
StartCalls(calls, keys) ==
    /\ pphase' = [p \in Pusher |->
                     IF p \in calls THEN FirstPhase(keys[p]) ELSE pphase[p]]
    /\ pkey' = [p \in Pusher |-> IF p \in calls THEN keys[p] ELSE pkey[p]]
    /\ UNCHANGED <<devices, ptoken, dead>>

\* Seeded fault: Promise.all waits for deliveries, not for settled calls.
Delivered(calls) == \A p \in calls : pphase[p] = "delivered"

Settled(calls) == \A p \in calls : pphase[p] \in Pushed

Code(p) ==
    CASE pphase[p] \in {"noKey", "noToken"} -> 400
      [] pphase[p] = "undelivered" -> 500
      [] OTHER -> 200

RowOf(p) == [code |-> Code(p), device_key |-> pkey[p]]

-----------------------------------------------------------------------------

\* A body that cannot be read, a malformed path or message, or a device_keys
\* that is neither a string nor an array: nothing is sent.
RejectKeys ==
    /\ response = "none"
    /\ response' = "invalidKeys"
    /\ UNCHANGED <<devices, pushVars, deviceKeys, from, rows>>

\* No list, or an empty one: one pushOne for the device_key of the request.
StartSingle(k) ==
    /\ response = "none"
    /\ MaxListed > 0
    /\ response' = "single"
    /\ StartPush(1, k)
    /\ UNCHANGED <<deviceKeys, from, rows>>

RefuseBatch(keys) ==
    /\ response = "none"
    /\ Len(keys) > MaxBatchPushCount
    /\ response' = "tooMany"
    /\ UNCHANGED <<devices, pushVars, deviceKeys, from, rows>>

StartBatch(keys) ==
    /\ response = "none"
    /\ Len(keys) <= MaxBatchPushCount
    /\ response' = "running"
    /\ deviceKeys' = keys
    /\ StartCalls(Chunk(keys, 0), keys)
    /\ UNCHANGED <<from, rows>>

\* Seeded fault: the last row of a chunk is lost.
ShortChunkRows(calls) ==
    SubSeq([p \in 1 .. Len(deviceKeys) |-> RowOf(p)], from + 1, from + Cardinality(calls) - 1)

\* Promise.all has resolved: the rows of the chunk are appended in the order of
\* its keys, whatever order its calls settled in, and the loop goes on.
ChunkRows(calls) ==
    SubSeq([p \in 1 .. Len(deviceKeys) |-> RowOf(p)], from + 1, from + Cardinality(calls))

FinishChunk ==
    LET chunk == Chunk(deviceKeys, from)
        next  == from + BatchConcurrency
    IN
    /\ response = "running"
    /\ Settled(chunk)
    /\ rows' = rows \o ChunkRows(chunk)
    /\ from' = next
    /\ \/ /\ next < Len(deviceKeys)
          /\ StartCalls(Chunk(deviceKeys, next), deviceKeys)
          /\ UNCHANGED response
       \/ /\ next >= Len(deviceKeys)
          /\ response' = "answered"
          /\ UNCHANGED <<devices, pushVars>>
    /\ UNCHANGED deviceKeys

CallStep(p) == PushStep(p) /\ UNCHANGED batchVars

\* A registration of another request, between any two steps of this one.
Reregister(k, t) ==
    /\ UpdateMatches(k)
    /\ UpdateDevice(k, t)
    /\ UNCHANGED <<pushVars, batchVars>>

Next ==
    \/ RejectKeys
    \/ \E k \in Key \cup {NoKey} : StartSingle(k)
    \/ \E keys \in KeyLists : RefuseBatch(keys) \/ StartBatch(keys)
    \/ FinishChunk
    \/ \E p \in Pusher : CallStep(p)
    \/ \E k \in Key, t \in Token : Reregister(k, t)

SafetySpec == Init /\ [][Next]_vars

\* The statements of D1 and the sends settle, and the event loop runs the
\* continuation of a Promise.all that has resolved.
Spec == SafetySpec /\ WF_vars(FinishChunk) /\ \A p \in Pusher : WF_vars(CallStep(p))

-----------------------------------------------------------------------------
(* Properties *)

\* README: a batch has at most 6 requests to APNs under way at a time (its
\* lookups and cleanups count too), although a chunk may start when calls of
\* an earlier one have just settled.
AtMostConcurrency ==
    Cardinality({p \in Pusher : pphase[p] \in Pushing}) <= BatchConcurrency

\* The answer has one row for each listed key, in the order of the list, with
\* the result of the call for that very position: also for an incomplete last
\* chunk, a key listed twice, and calls that settle out of order.
RowsAnswerKeys ==
    response = "answered" =>
        /\ Len(rows) = Len(deviceKeys)
        /\ \A i \in 1 .. Len(deviceKeys) :
              /\ rows[i].device_key = deviceKeys[i]
              /\ rows[i].code = Code(i)

\* No position of the list is pushed twice: chunks do not overlap.
NoCallRestarts ==
    [][\A p \in Pusher : pphase[p] \in Pushed => pphase'[p] = pphase[p]]_vars

\* A batch is answered, although every device of it may fail.
BatchIsAnswered == response = "running" ~> response = "answered"

=============================================================================
