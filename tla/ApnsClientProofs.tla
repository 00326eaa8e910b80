--------------------------- MODULE ApnsClientProofs ---------------------------
(***************************************************************************)
(* Proofs about the APNs client, for any number of sends on one isolate,   *)
(* any clock and any behaviour of APNs.                                    *)
(***************************************************************************)
EXTENDS ApnsClient, TLAPS

USE ApnsAssumption

\* What APNs has decided by the time a send is in each phase.  Only a send whose
\* POST was refused as expired, or that has not posted yet, may post.
PhaseInv ==
    \A s \in Sender :
        /\ phase[s] = "idle" => server[s] = "none" /\ attempt[s] = 0
        /\ phase[s] \in {"import", "sign", "ready"} => server[s] \in {"none", "expired"}
        /\ phase[s] \in {"ready", "post"} => jwt[s] \in Jwt
        /\ phase[s] = "body" => server[s] \in Refusals /\ jwt[s] \in Jwt
        /\ phase[s] = "sent" => server[s] = "ok"
        /\ phase[s] = "badToken" => server[s] \in {"gone", "badDeviceToken"}
        /\ server[s] = "pending" => phase[s] \in {"post", "failed"}

\* The histories say what the last decision says: no earlier one was final.
HistoryInv ==
    \A s \in Sender :
        /\ copies[s] = IF server[s] = "ok" THEN 1 ELSE 0
        /\ s \in condemned <=> server[s] \in {"gone", "badDeviceToken"}

SendInv == TypeOK /\ PhaseInv /\ HistoryInv

\* An attempt either takes the cached JWT or goes on to the key and a new one.
LEMMA AcquireChoices ==
    ASSUME NEW s \in Sender, NEW cached \in Jwt \cup {NoJwt}, Acquire(s, cached), TypeOK
    PROVE  \/ /\ cached \in Jwt
              /\ jwt' = [jwt EXCEPT ![s] = cached]
              /\ phase' = [phase EXCEPT ![s] = "ready"]
              /\ iat' = iat
           \/ /\ iat' = [iat EXCEPT ![s] = now]
              /\ \E p \in {"import", "sign"} : phase' = [phase EXCEPT ![s] = p]
              /\ jwt' = jwt
BY DEF Acquire, Reusable, Return, Goto

\* SendInv is inductive: what each phase says about the POST and its history.
LEMMA SendInvInductive ==
    /\ Init => SendInv
    /\ SendInv /\ [Next]_vars => SendInv'
<1> USE DEF SendInv
<1>1. Init => SendInv
  <2>1. ASSUME Init PROVE TypeOK
    <3>1. iat \in [Sender -> 0 .. MaxTime] /\ now \in 0 .. MaxTime
      BY <2>1 DEF Init
    <3>2. phase \in [Sender -> {"idle"}] /\ server \in [Sender -> {"none"}]
      BY <2>1 DEF Init
    <3> QED BY <2>1, <3>1, <3>2 DEF Init, TypeOK
  <2>2. Init => PhaseInv /\ HistoryInv
    BY DEF Init, PhaseInv, HistoryInv, Refusals
  <2> QED BY <2>1, <2>2
<1>2. ASSUME SendInv, [Next]_vars PROVE SendInv'
  <2> USE <1>2 DEF TypeOK, PhaseInv, HistoryInv, Sending, Done, Refusals
  <2>1. ASSUME NEW t \in 0 .. MaxTime, SetClock(t) PROVE SendInv'
    BY <2>1 DEF SetClock, sendVars, apnsVars
  <2>2. ASSUME NEW s \in Sender, StartSend(s) PROVE SendInv'
    <3>1. phase[s] = "idle" /\ Acquire(s, cachedJwt)
      BY <2>2 DEF StartSend
    <3> QED BY <2>2, <3>1, AcquireChoices DEF StartSend, apnsVars
  <2>3. ASSUME NEW s \in Sender, RefuseSend(s) \/ KeyFails(s) PROVE SendInv'
    BY <2>3 DEF RefuseSend, KeyFails, Goto, apnsVars
  <2>4. ASSUME NEW s \in Sender, ImportKey(s) PROVE SendInv'
    BY <2>4 DEF ImportKey, Goto, apnsVars
  <2>5. ASSUME NEW s \in Sender, Sign(s) PROVE SendInv'
    <3>1. [by |-> s, attempt |-> attempt[s], iat |-> iat[s]] \in Jwt
      BY DEF Jwt
    <3> QED BY <2>5, <3>1 DEF Sign, Return, Goto, apnsVars
  <2>12. ASSUME NEW s \in Sender, Post(s) PROVE SendInv'
    BY <2>12 DEF Post, Goto
  <2>6. ASSUME NEW s \in Sender, ApnsTakes(s) PROVE SendInv'
    BY <2>6 DEF ApnsTakes, sendVars
  <2>7. ASSUME NEW s \in Sender, NEW verdict \in Refusals, ApnsRefuses(s, verdict)
        PROVE  SendInv'
    <3>1. /\ condemned' \subseteq Sender
          /\ \A r \in Sender : r \in condemned' <=>
                 (r \in condemned \/ (r = s /\ verdict \in {"gone", "badDeviceToken"}))
      BY <2>7 DEF ApnsRefuses
    <3> QED BY <2>7, <3>1 DEF ApnsRefuses, sendVars
  <2>8. ASSUME NEW s \in Sender, NetworkError(s) \/ ResponseOk(s) \/ ResponseRefused(s)
        PROVE  SendInv'
    BY <2>8 DEF NetworkError, ResponseOk, ResponseRefused, Goto, apnsVars
  <2>9. ASSUME NEW s \in Sender, RetryExpired(s) PROVE SendInv'
    <3>1. /\ phase[s] = "body" /\ server[s] = "expired" /\ attempt[s] = 0
          /\ attempt' = [attempt EXCEPT ![s] = 1]
          /\ rejected' = rejected \cup {jwt[s]}
          /\ cachedJwt' = NoJwt
          /\ Acquire(s, NoJwt)
          /\ UNCHANGED <<now, cryptoKey, apnsVars>>
      BY <2>9 DEF RetryExpired, MayRetry, Reasons, NextAttempt, CacheAfterRejection
    <3> QED BY <3>1, AcquireChoices DEF apnsVars
  <2>10. ASSUME NEW s \in Sender, ThrowRefusal(s) PROVE SendInv'
    <3>1. PICK p \in {"badToken", "failed"} :
             /\ phase[s] = "body"
             /\ phase' = [phase EXCEPT ![s] = p]
             /\ p = "badToken" => server[s] \in {"gone", "badDeviceToken"}
             /\ UNCHANGED <<now, cachedJwt, cryptoKey, attempt, iat, jwt, apnsVars, rejected>>
      BY <2>10 DEF ThrowRefusal, Reasons, Goto
    <3> QED BY <3>1 DEF apnsVars
  <2>11. CASE UNCHANGED vars
    BY <2>11 DEF vars, sendVars, apnsVars
  <2> QED BY <2>1, <2>2, <2>3, <2>4, <2>5, <2>6, <2>7, <2>8, <2>9, <2>10, <2>11, <2>12
          DEF Next, ClientStep
<1> QED BY <1>1, <1>2

\* The client's variables have their types in every reachable state; in
\* particular its loop makes at most two attempts.
THEOREM ClientTypeCorrect == SafetySpec => []TypeOK
<1>1. SendInv => TypeOK
  BY DEF SendInv
<1> QED BY <1>1, SendInvInductive, PTL DEF SafetySpec

-----------------------------------------------------------------------------
(* A rejected JWT is not returned again *)

\* The JWT of an attempt that has not signed yet: nobody can hold it.
Unsigned(token) ==
    \/ token.attempt > attempt[token.by]
    \/ token.attempt = attempt[token.by] /\ phase[token.by] \in {"idle", "import", "sign"}

\* Every JWT in the cache, of a send or in the history was signed once; one that
\* made a send retry has left the cache, and cannot be signed a second time.
JwtInv ==
    /\ cachedJwt # NoJwt => ~Unsigned(cachedJwt) /\ cachedJwt \notin rejected
    /\ \A s \in Sender : jwt[s] # NoJwt => ~Unsigned(jwt[s])
    /\ \A token \in rejected : ~Unsigned(token)

\* The phases and attempts of a send only move forward past its signing.
LEMMA SignedStaysSigned ==
    ASSUME SendInv, [Next]_vars, NEW token \in Jwt, ~Unsigned(token)
    PROVE  ~Unsigned(token)'
<1> USE DEF SendInv, TypeOK, PhaseInv, Unsigned, Jwt
<1>1. ASSUME NEW s \in Sender, StartSend(s) PROVE ~Unsigned(token)'
  <2>1. phase[s] = "idle" /\ Acquire(s, cachedJwt) /\ attempt' = attempt
    BY <1>1 DEF StartSend
  <2> QED BY <2>1, AcquireChoices
<1>2. ASSUME NEW s \in Sender, RetryExpired(s) PROVE ~Unsigned(token)'
  <2>1. /\ phase[s] = "body" /\ attempt[s] = 0
        /\ attempt' = [attempt EXCEPT ![s] = 1]
        /\ Acquire(s, NoJwt)
    BY <1>2 DEF RetryExpired, MayRetry, NextAttempt, CacheAfterRejection
  <2> QED BY <2>1, AcquireChoices
<1>3. ASSUME NEW s \in Sender,
             \/ RefuseSend(s) \/ ImportKey(s) \/ Sign(s) \/ KeyFails(s) \/ Post(s)
             \/ NetworkError(s) \/ ResponseOk(s) \/ ResponseRefused(s) \/ ThrowRefusal(s)
      PROVE  ~Unsigned(token)'
  <2>1. /\ attempt' = attempt
        /\ \/ phase[s] = "idle"
           \/ phase[s] = "import" /\ phase' = [phase EXCEPT ![s] = "sign"]
           \/ phase'[s] \notin {"idle", "import", "sign"}
        /\ \A r \in Sender \ {s} : phase'[r] = phase[r]
    BY <1>3 DEF RefuseSend, ImportKey, Sign, KeyFails, NetworkError, ResponseOk,
                ResponseRefused, ThrowRefusal, Post, Return, Goto
  <2> QED BY <2>1
<1>4. CASE UNCHANGED <<phase, attempt>>
  BY <1>4
<1>5. ASSUME NEW s \in Sender,
             ApnsTakes(s) \/ (\E verdict \in Refusals : ApnsRefuses(s, verdict))
      PROVE  UNCHANGED <<phase, attempt>>
  BY <1>5 DEF ApnsTakes, ApnsRefuses, sendVars
<1> QED BY <1>1, <1>2, <1>3, <1>4, <1>5
        DEF Next, ClientStep, SetClock, vars, sendVars

\* So is JwtInv: a rejected JWT is neither cached nor to be signed again.
LEMMA JwtInvInductive ==
    /\ Init => JwtInv
    /\ SendInv /\ JwtInv /\ [Next]_vars => JwtInv'
<1>1. Init => JwtInv
  BY DEF Init, JwtInv
<1>2. ASSUME SendInv, JwtInv, [Next]_vars PROVE JwtInv'
  <2>0. \A token \in Jwt : ~Unsigned(token) => ~Unsigned(token)'
    BY <1>2, SignedStaysSigned
  <2> USE <1>2, <2>0 DEF SendInv, TypeOK, JwtInv
  <2>1. CASE UNCHANGED <<cachedJwt, jwt, rejected>>
    BY <2>1
  <2>2. ASSUME NEW s \in Sender, StartSend(s) PROVE JwtInv'
    <3>1. /\ UNCHANGED <<cachedJwt, rejected>>
          /\ \/ jwt' = jwt
             \/ cachedJwt \in Jwt /\ jwt' = [jwt EXCEPT ![s] = cachedJwt]
      BY <2>2, AcquireChoices DEF StartSend
    <3> QED BY <3>1
  <2>3. ASSUME NEW s \in Sender, Sign(s) PROVE JwtInv'
    <3>0. [by |-> s, attempt |-> attempt[s], iat |-> iat[s]] \in Jwt
      BY DEF Jwt
    <3>1. PICK token \in Jwt :
             /\ token.by = s /\ token.attempt = attempt[s]
             /\ cachedJwt' = token
             /\ jwt' = [jwt EXCEPT ![s] = token]
             /\ UNCHANGED rejected
      BY <2>3, <3>0 DEF Sign, Return
    <3>2. Unsigned(token) /\ ~Unsigned(token)'
      BY <2>3, <3>1 DEF Unsigned, Sign, Return, Goto
    <3> QED BY <3>1, <3>2
  <2>4. ASSUME NEW s \in Sender, RetryExpired(s) PROVE JwtInv'
    <3>1. /\ phase[s] = "body"
          /\ rejected' = rejected \cup {jwt[s]}
          /\ cachedJwt' = NoJwt
          /\ Acquire(s, NoJwt)
      BY <2>4 DEF RetryExpired, CacheAfterRejection
    <3>2. jwt' = jwt /\ jwt[s] \in Jwt
      BY <3>1, AcquireChoices DEF PhaseInv
    <3> QED BY <3>1, <3>2
  <2>5. CASE \/ UNCHANGED vars
             \/ \E t \in 0 .. MaxTime : SetClock(t)
             \/ \E s \in Sender :
                   \/ RefuseSend(s) \/ ImportKey(s) \/ KeyFails(s) \/ Post(s)
                   \/ NetworkError(s) \/ ResponseOk(s) \/ ResponseRefused(s)
                   \/ ThrowRefusal(s) \/ ApnsTakes(s)
                   \/ \E verdict \in Refusals : ApnsRefuses(s, verdict)
    <3>1. UNCHANGED <<cachedJwt, jwt, rejected>>
      BY <2>5 DEF vars, sendVars, SetClock, RefuseSend, ImportKey, KeyFails, Post,
                  NetworkError, ResponseOk, ResponseRefused, ThrowRefusal,
                  ApnsTakes, ApnsRefuses
    <3> QED BY <3>1, <2>1
  <2> QED BY <2>2, <2>3, <2>4, <2>5 DEF Next, ClientStep
<1> QED BY <1>1, <1>2

\* However the sends of an isolate interleave, a JWT whose rejection made one of
\* them retry is never returned by getJwt again.
THEOREM RejectedJwtsAreDropped == SafetySpec => RejectedJwtIsNotReused
<1> DEFINE Step == \A s \in Sender :
                      phase[s] # "ready" /\ phase'[s] = "ready" => jwt'[s] \notin rejected'
<1>1. ASSUME SendInv, JwtInv, Next PROVE Step
  <2> SUFFICES ASSUME NEW s \in Sender, phase[s] # "ready", phase'[s] = "ready"
               PROVE  jwt'[s] \notin rejected'
    OBVIOUS
  <2> USE <1>1 DEF SendInv, TypeOK
  <2>1. CASE StartSend(s)
    <3>1. Acquire(s, cachedJwt) /\ rejected' = rejected
      BY <2>1 DEF StartSend
    <3>2. jwt' = [jwt EXCEPT ![s] = cachedJwt] /\ cachedJwt \in Jwt
      BY <3>1, AcquireChoices
    <3> QED BY <3>1, <3>2 DEF JwtInv
  <2>2. CASE Sign(s)
    <3> DEFINE token == [by |-> s, attempt |-> attempt[s], iat |-> iat[s]]
    <3>1. jwt'[s] = token /\ rejected' = rejected
      BY <2>2 DEF Sign, Return
    <3>2. Unsigned(token)
      BY <2>2 DEF Sign, Unsigned
    <3> HIDE DEF token
    <3> QED BY <3>1, <3>2 DEF JwtInv
  <2>3. CASE RetryExpired(s)
    <3>1. Acquire(s, NoJwt)
      BY <2>3 DEF RetryExpired, CacheAfterRejection
    <3>2. phase'[s] # "ready"
      BY <3>1, AcquireChoices
    <3> QED BY <3>2
  <2>4. StartSend(s) \/ Sign(s) \/ RetryExpired(s)
    <3>1. ASSUME NEW r \in Sender, StartSend(r) \/ RetryExpired(r) PROVE r = s
      <4>1. \E p : phase' = [phase EXCEPT ![r] = p]
        BY <3>1 DEF StartSend, RetryExpired, Acquire, Return, Goto
      <4> QED BY <4>1
    <3>2. ASSUME NEW r \in Sender, Sign(r) PROVE r = s
      BY <3>2 DEF Sign, Return, Goto
    <3>3. ASSUME NEW r \in Sender,
                 \/ RefuseSend(r) \/ ImportKey(r) \/ KeyFails(r) \/ NetworkError(r)
                 \/ ResponseOk(r) \/ ResponseRefused(r) \/ ThrowRefusal(r) \/ Post(r)
          PROVE  FALSE
      BY <3>3 DEF RefuseSend, ImportKey, KeyFails, NetworkError, ResponseOk,
                  ResponseRefused, ThrowRefusal, Post, Goto
    <3>4. ASSUME NEW r \in Sender,
                 ApnsTakes(r) \/ (\E verdict \in Refusals : ApnsRefuses(r, verdict))
          PROVE  FALSE
      BY <3>4 DEF ApnsTakes, ApnsRefuses, sendVars
    <3>5. ASSUME NEW t \in 0 .. MaxTime, SetClock(t) PROVE FALSE
      BY <3>5 DEF SetClock, sendVars
    <3> QED BY <3>1, <3>2, <3>3, <3>4, <3>5 DEF Next, ClientStep
  <2> QED BY <2>1, <2>2, <2>3, <2>4
<1>2. SendInv /\ JwtInv /\ [Next]_vars => [Step]_vars
  BY <1>1
<1>3. []SendInv /\ []JwtInv /\ [][Next]_vars => [][Step]_vars
  BY <1>2, PTL
<1> QED BY <1>3, SendInvInductive, JwtInvInductive, PTL
        DEF SafetySpec, RejectedJwtIsNotReused

-----------------------------------------------------------------------------
(* The client keeps the promise of PushSender *)

\* A step between two awaits tells the caller nothing.
LEMMA StillWaiting ==
    ASSUME TypeOK, NEW s \in Sender, NEW p \in Sending \cup {"idle"},
           phase[s] \in Sending \cup {"idle"}, phase' = [phase EXCEPT ![s] = p]
    PROVE  Outcome' = Outcome
BY DEF Outcome, TypeOK, Sending, Done

\* The last step of a send tells it how it ended.
LEMMA Settles ==
    ASSUME TypeOK, NEW s \in Sender, NEW p \in Done, phase[s] \in Sending \cup {"idle"},
           phase' = [phase EXCEPT ![s] = p]
    PROVE  /\ Outcome[s] = "waiting"
           /\ Outcome' = [Outcome EXCEPT ![s] = IF p = "sent" THEN "ok" ELSE p]
BY DEF Outcome, TypeOK, Sending, Done

\* Every step of the client or of APNs is a step of PushSender, or a stutter.
LEMMA PromisedStep ==
    ASSUME SendInv, [Next]_vars
    PROVE  Promised!Next \/ UNCHANGED <<Outcome, copies, condemned>>
<1> USE DEF SendInv, PhaseInv, HistoryInv, Promised!Next
<1>1. ASSUME NEW s \in Sender, StartSend(s) \/ RetryExpired(s)
      PROVE  UNCHANGED <<Outcome, copies, condemned>>
  <2>1. /\ phase[s] \in {"idle", "body"}
        /\ \E cached \in Jwt \cup {NoJwt} : Acquire(s, cached)
        /\ UNCHANGED <<copies, condemned>>
    BY <1>1 DEF StartSend, RetryExpired, CacheAfterRejection, TypeOK, apnsVars
  <2>2. \E p \in Sending : phase' = [phase EXCEPT ![s] = p]
    BY <2>1, AcquireChoices DEF Sending
  <2> QED BY <2>1, <2>2, StillWaiting DEF Sending
<1>2. ASSUME NEW s \in Sender,
             ImportKey(s) \/ Sign(s) \/ Post(s) \/ ResponseRefused(s)
      PROVE  UNCHANGED <<Outcome, copies, condemned>>
  <2>1. /\ phase[s] \in Sending
        /\ \E p \in Sending : phase' = [phase EXCEPT ![s] = p]
        /\ UNCHANGED <<copies, condemned>>
    BY <1>2 DEF ImportKey, Sign, ResponseRefused, Post, Return, Goto, Sending, apnsVars
  <2> QED BY <2>1, StillWaiting
<1>3. ASSUME NEW s \in Sender, RefuseSend(s) \/ KeyFails(s) \/ NetworkError(s)
      PROVE  Promised!Next
  <2>1. /\ phase[s] \in Sending \cup {"idle"}
        /\ phase' = [phase EXCEPT ![s] = "failed"]
        /\ UNCHANGED <<copies, condemned>>
    BY <1>3 DEF RefuseSend, KeyFails, NetworkError, Goto, Sending, apnsVars
  <2>2. Promised!Fail(s)
    BY <2>1, Settles DEF Promised!Fail, Done
  <2> QED BY <2>2
<1>4. ASSUME NEW s \in Sender, ResponseOk(s) PROVE Promised!Next
  <2>1. /\ phase[s] \in Sending
        /\ server[s] = "ok"
        /\ phase' = [phase EXCEPT ![s] = "sent"]
        /\ UNCHANGED <<copies, condemned>>
    BY <1>4 DEF ResponseOk, Goto, Sending, apnsVars
  <2>2. Promised!Resolve(s)
    BY <2>1, Settles DEF Promised!Resolve, Done
  <2> QED BY <2>2
<1>5. ASSUME NEW s \in Sender, ThrowRefusal(s) PROVE Promised!Next
  <2>1. PICK p \in {"badToken", "failed"} :
           /\ phase[s] = "body"
           /\ phase' = [phase EXCEPT ![s] = p]
           /\ p = "badToken" => server[s] \in {"gone", "badDeviceToken"}
           /\ UNCHANGED <<copies, condemned>>
    BY <1>5 DEF ThrowRefusal, Reasons, Goto, apnsVars, Refusals
  <2>2. /\ Outcome[s] = "waiting"
        /\ Outcome' = [Outcome EXCEPT ![s] = p]
    BY <2>1, Settles DEF Done, Sending
  <2>3. Promised!ReportBadToken(s) \/ Promised!Fail(s)
    BY <2>1, <2>2 DEF Promised!ReportBadToken, Promised!Fail
  <2> QED BY <2>3
<1>6. ASSUME NEW s \in Sender, server[s] = "pending"
      PROVE  Outcome[s] \in {"waiting", "failed"} /\ copies[s] = 0 /\ s \notin condemned
  BY <1>6 DEF Outcome
<1>7. ASSUME NEW s \in Sender, ApnsTakes(s) PROVE Promised!Next
  <2>1. UNCHANGED <<Outcome, condemned>> /\ server[s] = "pending"
    BY <1>7 DEF ApnsTakes, Outcome, sendVars
  <2>2. copies' = [copies EXCEPT ![s] = 1]
    <3>1. copies' = [copies EXCEPT ![s] = copies[s] + 1] /\ copies[s] = 0
      BY <1>6, <1>7, <2>1 DEF ApnsTakes
    <3> QED BY <3>1
  <2>3. Promised!Take(s)
    BY <1>6, <2>1, <2>2 DEF Promised!Take
  <2> QED BY <2>3
<1>8. ASSUME NEW s \in Sender, NEW verdict \in Refusals, ApnsRefuses(s, verdict)
      PROVE  Promised!Next \/ UNCHANGED <<Outcome, copies, condemned>>
  <2>1. Promised!Condemn(s) \/ UNCHANGED <<Outcome, copies, condemned>>
    BY <1>6, <1>8 DEF ApnsRefuses, Promised!Condemn, Outcome, sendVars
  <2> QED BY <2>1
<1>9. CASE (\E t \in 0 .. MaxTime : SetClock(t)) \/ UNCHANGED vars
  BY <1>9 DEF SetClock, vars, sendVars, apnsVars, Outcome
<1> QED BY <1>1, <1>2, <1>3, <1>4, <1>5, <1>7, <1>8, <1>9 DEF Next, ClientStep

\* A message is taken at most once, "ok" is true, and a bad-token error is what
\* APNs said: for every number of sends, also when answers are lost or late.
THEOREM ClientImplementsSender == SafetySpec => ImplementsSender
<1>1. Init => Promised!Init
  BY DEF Init, Promised!Init, Outcome
<1>2. SendInv /\ [Next]_vars => [Promised!Next]_<<Outcome, copies, condemned>>
  BY PromisedStep
<1>3. []SendInv /\ [][Next]_vars => [][Promised!Next]_<<Outcome, copies, condemned>>
  BY <1>2, PTL
<1> QED BY <1>1, <1>3, SendInvInductive, PTL DEF SafetySpec, ImplementsSender, Promised!Spec

=============================================================================
