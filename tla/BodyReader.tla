----------------------------- MODULE BodyReader -----------------------------
(***************************************************************************)
(* readLimitedBytes (utils/validation.ts): the body of a request is a      *)
(* stream whose length the client decides while it is read.  A chunk is    *)
(* awaited at a time and counted before it is kept; however reading ends,  *)
(* the stream is unlocked, and cancelled unless it has come to its end.    *)
(* Sizes are in some unit of bytes.                                        *)
(***************************************************************************)
EXTENDS Naturals

CONSTANTS
    NoLength,       \* no Content-Length, or one that is no number
    MaxChunk,       \* bound: the largest chunk a client sends
    HardMax         \* HARD_MAX_REQUEST_BODY_BYTES

ASSUME ReaderAssumption ==
    /\ NoLength \notin Nat
    /\ MaxChunk \in Nat \ {0} /\ HardMax \in Nat \ {0}

VARIABLES
    limit,      \* maxBytes of this call
    reader,     \* "off", awaiting a "chunk", "done" or "failed"
    stream,     \* request.body: "null", "open", "locked", "consumed" or "cancelled"
    total,      \* the bytes that are kept
    sent        \* history: the bytes the client has sent, up to HardMax + MaxChunk

readerVars == <<limit, reader, stream, total, sent>>

ReaderInit ==
    /\ limit = 0 /\ reader = "off" /\ stream = "null" /\ total = 0 /\ sent = 0

ReaderTypeOK ==
    /\ limit \in Nat /\ total \in Nat /\ sent \in Nat
    /\ reader \in {"off", "chunk", "done", "failed"}
    /\ stream \in {"null", "open", "locked", "consumed", "cancelled"}

\* The request arrives with a body or without one.
OpenStream(body) ==
    /\ stream' = IF body THEN "open" ELSE "null"
    /\ limit' = 0 /\ reader' = "off" /\ total' = 0 /\ sent' = 0

TooLong(length, max) == length # NoLength /\ length > max

\* assertContentLengthWithinLimit, and getReader.  A body that announces too
\* much is cancelled before the error is thrown.
StartReading(max, length) ==
    /\ limit' = max
    /\ \/ /\ TooLong(length, max)
          /\ reader' = "failed"
          /\ stream' = IF stream = "null" THEN "null" ELSE "cancelled"
       \/ /\ ~TooLong(length, max)
          /\ reader' = IF stream = "null" THEN "done" ELSE "chunk"
          /\ stream' = IF stream = "null" THEN "null" ELSE "locked"
    /\ UNCHANGED <<total, sent>>

Counted(size) == total + size

\* Seeded fault: the limit is checked before the chunk is counted.
OldTotalFits(size) == total <= limit

Fits(size) == Counted(size) <= limit

\* reader.read() gives a chunk; too much is an error.
ReceiveChunk(size) ==
    /\ reader = "chunk"
    /\ sent' = IF sent > HardMax THEN sent ELSE sent + size
    /\ \/ Fits(size) /\ total' = Counted(size) /\ UNCHANGED <<reader, stream>>
       \/ ~Fits(size) /\ reader' = "failed" /\ stream' = "cancelled" /\ UNCHANGED total
    /\ UNCHANGED limit

ReceiveEnd ==
    /\ reader = "chunk"
    /\ reader' = "done" /\ stream' = "consumed"
    /\ UNCHANGED <<limit, total, sent>>

\* The connection breaks: read rejects, and the rejection of cancel is ignored.
ReceiveError ==
    /\ reader = "chunk"
    /\ reader' = "failed" /\ stream' = "cancelled"
    /\ UNCHANGED <<limit, total, sent>>

\* What the client does while it is waited for.
ClientStep ==
    \/ \E size \in 1 .. MaxChunk : ReceiveChunk(size)
    \/ ReceiveEnd
    \/ ReceiveError

\* A body that is handed over is all that the client has sent, up to the end of
\* the stream, and within the limit of the call; and no stream stays locked.
ReadingEndsClean ==
    /\ reader = "done" =>
          /\ total = sent /\ total <= limit /\ limit <= HardMax
          /\ stream \in {"null", "consumed"}
    /\ reader \in {"done", "failed"} => stream \notin {"open", "locked"}

=============================================================================
