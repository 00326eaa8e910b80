----------------------------- MODULE ApnsClient -----------------------------
(***************************************************************************)
(* CloudflareApnsClient: the sends of one isolate share a cached JWT and an *)
(* imported key, and interleave at every await (importKey, sign, getJwt,    *)
(* fetch, response.json).  APNs decides about a POST independently of the   *)
(* client, which may have given up waiting by then.                         *)
(***************************************************************************)
EXTENDS Naturals

CONSTANTS
    Sender,     \* the calls of send in the life of the isolate
    JwtReuse,   \* JWT_REUSE_SECONDS
    MaxTime,    \* bound: the wall clock stays within 0 .. MaxTime
    NoJwt       \* null

\* ECDSA signatures are randomized, so every signing gives another JWT: the
\* send and the attempt that signed it identify it.
Jwt == [by: Sender, attempt: {0, 1}, iat: 0 .. MaxTime]

ASSUME ApnsAssumption ==
    /\ JwtReuse \in Nat \ {0}
    /\ MaxTime \in Nat
    /\ NoJwt \notin Jwt

VARIABLES
    now,        \* Date.now() in seconds; a wall clock may be set back
    cachedJwt,  \* this.cachedJwt
    cryptoKey,  \* this.cryptoKey is set
    phase,      \* what each send awaits
    attempt,    \* the counter of its loop
    iat,        \* the issue time taken at the start of its getJwt
    jwt,        \* the JWT its getJwt returned
    server,     \* what APNs decided about its last POST
    copies,     \* history: how often APNs took its message
    condemned,  \* history: the sends whose token APNs called bad
    rejected    \* history: the JWTs whose rejection made a send retry

sendVars == <<phase, attempt, iat, jwt>>
apnsVars == <<server, copies, condemned>>
vars == <<now, cachedJwt, cryptoKey, sendVars, apnsVars, rejected>>

Sending == {"import", "sign", "ready", "post", "body"}

\* send returned, threw a bad-token error, or threw another error.
Done == {"sent", "badToken", "failed"}

\* Answers of APNs: 200, 410, 400 BadDeviceToken, 403 ExpiredProviderToken,
\* and every other refusal.
Refusals == {"gone", "badDeviceToken", "expired", "refused"}

TypeOK ==
    /\ now \in 0 .. MaxTime
    /\ cachedJwt \in Jwt \cup {NoJwt}
    /\ cryptoKey \in BOOLEAN
    /\ phase \in [Sender -> {"idle"} \cup Sending \cup Done]
    /\ attempt \in [Sender -> {0, 1}]
    /\ iat \in [Sender -> 0 .. MaxTime]
    /\ jwt \in [Sender -> Jwt \cup {NoJwt}]
    /\ server \in [Sender -> {"none", "pending", "ok"} \cup Refusals]
    /\ copies \in [Sender -> Nat]
    /\ condemned \subseteq Sender
    /\ rejected \subseteq Jwt

Init ==
    /\ now \in 0 .. MaxTime
    /\ cachedJwt = NoJwt
    /\ cryptoKey = FALSE
    /\ phase = [s \in Sender |-> "idle"]
    /\ attempt = [s \in Sender |-> 0]
    /\ iat = [s \in Sender |-> 0]
    /\ jwt = [s \in Sender |-> NoJwt]
    /\ server = [s \in Sender |-> "none"]
    /\ copies = [s \in Sender |-> 0]
    /\ condemned = {}
    /\ rejected = {}

SetClock(t) ==
    /\ t # now
    /\ now' = t
    /\ UNCHANGED <<cachedJwt, cryptoKey, sendVars, apnsVars, rejected>>

-----------------------------------------------------------------------------
(* getJwt, and the fetch with the JWT it returned. *)

Goto(s, p) == phase' = [phase EXCEPT ![s] = p]

Reusable(cached) ==
    /\ cached # NoJwt
    /\ now >= cached.iat
    /\ now - cached.iat < JwtReuse

\* getJwt returns; other sends may run before send goes on.
Return(s, token) ==
    /\ jwt' = [jwt EXCEPT ![s] = token]
    /\ Goto(s, "ready")

\* An attempt begins: `cached` is what the cache holds at that point.
Acquire(s, cached) ==
    \/ /\ Reusable(cached)
       /\ Return(s, cached)
       /\ UNCHANGED iat
    \/ /\ ~Reusable(cached)
       /\ iat' = [iat EXCEPT ![s] = now]
       /\ Goto(s, IF cryptoKey THEN "sign" ELSE "import")
       /\ UNCHANGED jwt

StartSend(s) ==
    /\ phase[s] = "idle"
    /\ Acquire(s, cachedJwt)
    /\ UNCHANGED <<now, cachedJwt, cryptoKey, attempt, apnsVars, rejected>>

\* An incomplete configuration (500) or a payload over 4096 bytes (413).
RefuseSend(s) ==
    /\ phase[s] = "idle"
    /\ Goto(s, "failed")
    /\ UNCHANGED <<now, cachedJwt, cryptoKey, attempt, iat, jwt, apnsVars, rejected>>

ImportKey(s) ==
    /\ phase[s] = "import"
    /\ cryptoKey' = TRUE
    /\ Goto(s, "sign")
    /\ UNCHANGED <<now, cachedJwt, attempt, iat, jwt, apnsVars, rejected>>

\* Whatever was cached meanwhile is overwritten, by an older JWT as well.
Sign(s) ==
    LET token == [by |-> s, attempt |-> attempt[s], iat |-> iat[s]] IN
    /\ phase[s] = "sign"
    /\ cachedJwt' = token
    /\ Return(s, token)
    /\ UNCHANGED <<now, cryptoKey, attempt, iat, apnsVars, rejected>>

\* A key that cannot be parsed, imported or used to sign.
KeyFails(s) ==
    /\ phase[s] \in {"import", "sign"}
    /\ Goto(s, "failed")
    /\ UNCHANGED <<now, cachedJwt, cryptoKey, attempt, iat, jwt, apnsVars, rejected>>

\* fetch is called: the POST is on its way to APNs.
Post(s) ==
    /\ phase[s] = "ready"
    /\ server' = [server EXCEPT ![s] = "pending"]
    /\ Goto(s, "post")
    /\ UNCHANGED <<now, cachedJwt, cryptoKey, attempt, iat, jwt, copies, condemned,
                   rejected>>

-----------------------------------------------------------------------------
(* APNs, which may decide after the client has given up. *)

ApnsTakes(s) ==
    /\ server[s] = "pending"
    /\ server' = [server EXCEPT ![s] = "ok"]
    /\ copies' = [copies EXCEPT ![s] = @ + 1]
    /\ UNCHANGED <<now, cachedJwt, cryptoKey, sendVars, condemned, rejected>>

ApnsRefuses(s, verdict) ==
    /\ server[s] = "pending"
    /\ server' = [server EXCEPT ![s] = verdict]
    /\ condemned' = IF verdict \in {"gone", "badDeviceToken"}
                      THEN condemned \cup {s} ELSE condemned
    /\ UNCHANGED <<now, cachedJwt, cryptoKey, sendVars, copies, rejected>>

-----------------------------------------------------------------------------
(* What send does with the answer. *)

\* Seeded fault: a time-out is retried like an expired JWT.
RetryNetworkError(s) ==
    /\ phase[s] = "post"
    /\ attempt[s] = 0
    /\ attempt' = [attempt EXCEPT ![s] = 1]
    /\ Acquire(s, cachedJwt)
    /\ UNCHANGED <<now, cachedJwt, cryptoKey, apnsVars, rejected>>

\* The fetch throws: no connection, or AbortSignal.timeout while APNs decides
\* or after it did.  The send is not repeated.
NetworkError(s) ==
    /\ phase[s] = "post"
    /\ Goto(s, "failed")
    /\ UNCHANGED <<now, cachedJwt, cryptoKey, attempt, iat, jwt, apnsVars, rejected>>

ResponseOk(s) ==
    /\ phase[s] = "post"
    /\ server[s] = "ok"
    /\ Goto(s, "sent")
    /\ UNCHANGED <<now, cachedJwt, cryptoKey, attempt, iat, jwt, apnsVars, rejected>>

ResponseRefused(s) ==
    /\ phase[s] = "post"
    /\ server[s] \in Refusals
    /\ Goto(s, "body")
    /\ UNCHANGED <<now, cachedJwt, cryptoKey, attempt, iat, jwt, apnsVars, rejected>>

\* The body is read, or turns out not to be JSON: then the reason is lost and
\* only the status is left.
Reasons(verdict) == {verdict, IF verdict = "gone" THEN "gone" ELSE "refused"}

\* Seeded fault: the retry is not bounded.
RetryAlways(s, reason) == reason = "expired"

MayRetry(s, reason) == attempt[s] = 0 /\ reason = "expired"

\* Seeded fault: the rejected JWT stays cached.
KeepCache(s) == cachedJwt

\* The cache is reset whatever it holds by now.
CacheAfterRejection(s) == NoJwt

\* Seeded fault: the loop does not count.
SameAttempt(s) == attempt[s]

\* attempt++ of the loop.
NextAttempt(s) == attempt[s] + 1

RetryExpired(s) ==
    /\ phase[s] = "body"
    /\ \E reason \in Reasons(server[s]) : MayRetry(s, reason)
    /\ rejected' = rejected \cup {jwt[s]}
    /\ attempt' = [attempt EXCEPT ![s] = NextAttempt(s)]
    /\ cachedJwt' = CacheAfterRejection(s)
    /\ Acquire(s, CacheAfterRejection(s))
    /\ UNCHANGED <<now, cryptoKey, apnsVars>>

ThrowRefusal(s) ==
    /\ phase[s] = "body"
    /\ \E reason \in Reasons(server[s]) :
          /\ ~MayRetry(s, reason)
          /\ Goto(s, IF reason \in {"gone", "badDeviceToken"}
                       THEN "badToken" ELSE "failed")
    /\ UNCHANGED <<now, cachedJwt, cryptoKey, attempt, iat, jwt, apnsVars, rejected>>

ClientStep(s) ==
    \/ ImportKey(s) \/ Sign(s) \/ KeyFails(s) \/ Post(s)
    \/ NetworkError(s) \/ ResponseOk(s) \/ ResponseRefused(s)
    \/ RetryExpired(s) \/ ThrowRefusal(s)

Next ==
    \/ \E t \in 0 .. MaxTime : SetClock(t)
    \/ \E s \in Sender :
          \/ StartSend(s) \/ RefuseSend(s) \/ ClientStep(s)
          \/ ApnsTakes(s)
          \/ \E verdict \in Refusals : ApnsRefuses(s, verdict)

SafetySpec == Init /\ [][Next]_vars

\* WebCrypto settles its promises, and the time-out aborts the fetch and the
\* reading of its body; APNs and the callers owe nothing.
Spec == SafetySpec /\ \A s \in Sender : WF_vars(ClientStep(s))

-----------------------------------------------------------------------------
(* Properties *)

\* Once the rejection of a JWT has made some send retry, getJwt never returns
\* that JWT again on this isolate, to the retry or to another send, although
\* sends that were signing when the cache was reset store theirs afterwards.
RejectedJwtIsNotReused ==
    [][\A s \in Sender :
          phase[s] # "ready" /\ phase'[s] = "ready" => jwt'[s] \notin rejected']_vars

\* Every send returns or throws: at most one retry, and no wait without a
\* time-out.
SendsSettle == \A s \in Sender : phase[s] \in Sending ~> phase[s] \in Done

\* What the caller of send has learnt.
Outcome ==
    [s \in Sender |->
        IF phase[s] = "sent" THEN "ok"
        ELSE IF phase[s] \in {"badToken", "failed"} THEN phase[s]
        ELSE "waiting"]

Promised == INSTANCE PushSender WITH outcome <- Outcome

\* The client keeps the promise of PushSender: a message is not delivered
\* twice, also when a POST that timed out is taken late, and what pushOne
\* learns about a token is what APNs said about it.
ImplementsSender == Promised!Spec

=============================================================================
