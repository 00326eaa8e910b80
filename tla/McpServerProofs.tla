--------------------------- MODULE McpServerProofs ---------------------------
(***************************************************************************)
(* Proofs about the MCP endpoints, for any number of requests, secrets,    *)
(* versions and sessions, and any course of time.                          *)
(***************************************************************************)
EXTENDS McpServer, SequenceTheorems, TLAPS

USE McpAssumption

\* What each phase says about the locals of its request: what it asks for, the
\* secret and the time it has read, and its reply.
Good(ph, m, s, t, answer) ==
    /\ ph \notin {"idle", "refused"} => m \in Messages
    /\ ph = "validating" => m.call.method # "initialize" /\ m.session \notin {None, Empty}
    /\ ph \in {"pushing", "notified"} => m.call.method = "notify" /\ m.call.hasId
    /\ ph = "pushing" => ToolKey(m) # NoKey
    /\ ph \in {"issuing", "initialized"} =>
          /\ m.call.method = "initialize" /\ ~Mismatch(m)
          /\ answer.version = Negotiated(m) /\ Negotiated(m) \in Version
    /\ ph = "issuing" => s # NoSecret
    /\ ph = "initialized" =>
          answer.session = IF s = NoSecret THEN None
                           ELSE [secret |-> s, iat |-> t, version |-> SessionVersion(m),
                                 endpoint |-> m.endpoint]
    /\ ph \in {"badSession", "expired"} => ~Opens(m.session, m.endpoint, s, t)
    /\ /\ ph \in Answers \cup {"pushing"}
       /\ m.call.method # "initialize"
       /\ m.session \notin {None, Empty}
       => Opens(m.session, m.endpoint, s, t)

IInv ==
    /\ TypeOK
    /\ message \in [Request -> Messages \cup {None}]
    /\ \A r \in Request : Good(phase[r], message[r], msecret[r], mnow[r], reply[r])

LEMMA CallTypes ==
    ASSUME NEW c \in Calls
    PROVE  /\ c.method \in {"initialize", "notify", "tools/list", "unknown", "response"}
           /\ c.version \in Version \cup {Dated, Odd, Null, None}
           /\ c.method = "notify" => c.arguments \in Arguments
BY DEF Calls, Call

LEMMA MessageTypes ==
    ASSUME NEW m \in Messages
    PROVE  /\ m.call.method \in {"initialize", "notify", "tools/list", "unknown", "response"}
           /\ m.call.version \in Version \cup {Dated, Odd, Null, None}
           /\ m.header \in Version \cup {None} /\ m.endpoint \in Endpoint
           /\ m.session \in Session \cup {None, Garbled, Empty}
BY CallTypes DEF Messages, Headers

\* A verdict is valid exactly when the session opens its endpoint.
LEMMA VerdictIsRight ==
    ASSUME NEW m \in Messages, m.session \notin {None, Empty}, NEW s, NEW t \in Nat
    PROVE  /\ Verdict(m.session, m, s, t) \in {"valid", "badSession", "expired"}
           /\ Verdict(m.session, m, s, t) = "valid" <=> Opens(m.session, m.endpoint, s, t)
<1>1. CASE m.session = Garbled
  BY <1>1 DEF Verdict, Genuine, Opens
<1>2. CASE m.session \in Session
  <2>1. m.session # Garbled /\ m.session.iat \in Nat
    BY <1>2 DEF Session
  <2>2. Expired(m.session, t) <=> ~(t - m.session.iat < SessionTtl)
    BY <2>1 DEF Expired
  <2> QED BY <2>1, <2>2 DEF Verdict, Genuine, Bound, Opens
<1> QED BY <1>1, <1>2, MessageTypes

\* What an initialize that is served is dispatched to.
LEMMA DispatchPhases ==
    ASSUME NEW m \in Messages, NEW s
    PROVE  LET next == DispatchPhase(m, s) IN
           /\ next \in {"accepted", "listed", "notFound", "unsupported", "initialized",
                        "issuing", "toolError", "pushing"}
           /\ next = "pushing" => m.call.method = "notify" /\ m.call.hasId
           /\ next = "pushing" => ToolKey(m) # NoKey
           /\ next \in {"unsupported", "initialized", "issuing"} => m.call.method = "initialize"
           /\ next \in {"initialized", "issuing"} => Negotiated(m) # Odd
           /\ next = "initialized" => s = NoSecret
           /\ next = "issuing" => s # NoSecret
<1>1. CASE Silent(m)
  BY <1>1 DEF DispatchPhase
<1>2. CASE ~Silent(m) /\ m.call.method \in {"tools/list", "unknown"}
  BY <1>2 DEF DispatchPhase
<1>3. CASE ~Silent(m) /\ m.call.method = "initialize"
  BY <1>3 DEF DispatchPhase
<1>4. CASE ~Silent(m) /\ m.call.method = "notify"
  <2>1. m.call.hasId
    BY <1>4, Zenon DEF Silent
  <2> QED BY <1>4, <2>1 DEF DispatchPhase
<1>5. m.call.method = "response" => Silent(m)
  BY DEF Silent
<1> QED BY <1>1, <1>2, <1>3, <1>4, <1>5, MessageTypes

LEMMA NegotiatedVersion ==
    ASSUME NEW m \in Messages, Negotiated(m) # Odd
    PROVE  Negotiated(m) \in Version
<1>1. ASSUME NEW v, Negotiate(v) # Odd PROVE Negotiate(v) \in Version
  <2>1. CASE v \in Version
    BY <2>1 DEF Negotiate
  <2>2. CASE v \notin Version
    BY <1>1, <2>2 DEF Negotiate
  <2> QED BY <2>1, <2>2
<1> QED BY <1>1 DEF Negotiated

LEMMA SessionVersionIsNegotiated ==
    ASSUME NEW m \in Messages, m.call.method = "initialize", ~Mismatch(m)
    PROVE  /\ m.header # None => Negotiated(m) = m.header
           /\ SessionVersion(m) = Negotiated(m)
           /\ m.call.version \in Version => Negotiated(m) = m.call.version
BY MessageTypes DEF Negotiated, Negotiate, SessionVersion, Mismatch

\* What buildPushMessage reads after args.device_key = k, if the arguments do not
\* spell device_key in two ways: it has k where the name already is, ...
LEMMA AssignedInPlace ==
    ASSUME NEW S, NEW object \in Seq(S), NamesDistinct(object), Has(object, "device_key"), NEW k
    PROVE  LET o == Assign(object, "device_key", k) IN
           /\ DeviceKey(o) \in {k, NoKey}
           /\ k \in Key => DeviceKey(o) = k
<1> DEFINE o == Assign(object, "device_key", k)
<1>1. PICK i \in 1 .. Len(object) : object[i].name = "device_key"
  BY DEF Has
<1>2. o = [j \in 1 .. Len(object) |->
             IF object[j].name = "device_key" THEN Entry("device_key", k) ELSE object[j]]
  BY DEF Assign
<1>3. Len(o) = Len(object)
  BY <1>2
<1>4. \A j \in 1 .. Len(o) : Lower(o[j].name) = "device_key" <=> j = i
  BY <1>1, <1>2, <1>3 DEF NamesDistinct, Lower, Entry
<1>5. o[i].value = k
  BY <1>1, <1>2 DEF Entry
<1> HIDE DEF o
<1>6. Named(o) = IF k \in Key \cup {NoKey} THEN {i} ELSE {}
  BY <1>1, <1>3, <1>4, <1>5 DEF Named
<1>7. CASE k \in Key \cup {NoKey}
  <2>1. (CHOOSE l \in Named(o) : \A j \in Named(o) : j <= l) = i
    BY <1>6, <1>7
  <2> QED BY <1>5, <1>6, <1>7, <2>1 DEF DeviceKey, o
<1>8. CASE k \notin Key \cup {NoKey}
  BY <1>6, <1>8 DEF DeviceKey, o
<1> QED BY <1>7, <1>8

\* ... and at the end where it is not, after every other spelling.
LEMMA AssignedLast ==
    ASSUME NEW S, NEW object \in Seq(S), ~Has(object, "device_key"), NEW k \in Key
    PROVE  DeviceKey(Assign(object, "device_key", k)) = k
<1> DEFINE o == Append(object, Entry("device_key", k))
           n == Len(object) + 1
<1>1. Assign(object, "device_key", k) = o
  BY DEF Assign
<1>2. Len(o) = n /\ o[n] = Entry("device_key", k) /\ n \in Nat
  OBVIOUS
<1> HIDE DEF o
<1>3. n \in Named(o) /\ \A j \in Named(o) : j \in Nat /\ j <= n
  BY <1>2 DEF Named, Lower, Entry
<1>4. (CHOOSE l \in Named(o) : \A j \in Named(o) : j <= l) = n
  BY <1>2, <1>3
<1>5. o[n].value = k /\ Named(o) # {}
  BY <1>2, <1>3 DEF Entry
<1> QED BY <1>1, <1>4, <1>5 DEF DeviceKey

-----------------------------------------------------------------------------
(* The inductive invariant *)

\* An action of one request disturbs the invariant of no other.
LEMMA OneRequest ==
    ASSUME IInv, NEW r \in Request, TypeOK', message' \in [Request -> Messages \cup {None}],
           \A q \in Request \ {r} :
               /\ phase'[q] = phase[q] /\ message'[q] = message[q] /\ msecret'[q] = msecret[q]
               /\ mnow'[q] = mnow[q] /\ reply'[q] = reply[q],
           Good(phase'[r], message'[r], msecret'[r], mnow'[r], reply'[r])
    PROVE  IInv'
<1>1. \A q \in Request : Good(phase'[q], message'[q], msecret'[q], mnow'[q], reply'[q])
  BY DEF IInv
<1> QED BY <1>1 DEF IInv

\* A request that is dispatched after Opens has been checked, or need not be.
LEMMA DispatchIsGood ==
    ASSUME NEW m \in Messages, NEW s \in Secret \cup {NoSecret}, NEW t \in 0 .. MaxTime,
           ~Mismatch(m),
           m.call.method # "initialize" /\ m.session \notin {None, Empty} =>
               Opens(m.session, m.endpoint, s, t),
           NEW answer,
           DispatchPhase(m, s) \in {"initialized", "issuing"} =>
               answer = [version |-> Negotiated(m), session |-> None]
    PROVE  Good(DispatchPhase(m, s), m, s, t, answer)
<1>1. DispatchPhase(m, s) \in {"initialized", "issuing"} => Negotiated(m) \in Version
  BY DispatchPhases, NegotiatedVersion
<1> QED BY <1>1, DispatchPhases DEF Good

LEMMA InitIInv == Init => IInv
BY DEF Init, IInv, TypeOK, NoReply, Headers, Good, Answers

\* Arrive keeps the types, and makes the message, secret and time those of now.
LEMMA ArriveTypes ==
    ASSUME IInv, NEW r \in Request, NEW m \in Messages, Arrive(r, m)
    PROVE  /\ message' \in [Request -> Messages \cup {None}] /\ message'[r] = m
           /\ msecret' \in [Request -> Secret \cup {NoSecret}] /\ msecret'[r] = secret
           /\ mnow' \in [Request -> 0 .. MaxTime] /\ mnow'[r] = clock
           /\ \A q \in Request \ {r} :
                 message'[q] = message[q] /\ msecret'[q] = msecret[q] /\ mnow'[q] = mnow[q]
           /\ clock' = clock /\ secret' = secret /\ sessions' = sessions
BY DEF IInv, TypeOK, Arrive

LEMMA GotoTypes ==
    ASSUME IInv, NEW r \in Request, NEW ph \in {"idle"} \cup Serving \cup Refusals \cup Answers,
           Goto(r, ph)
    PROVE  /\ phase' \in [Request -> {"idle"} \cup Serving \cup Refusals \cup Answers]
           /\ phase'[r] = ph
           /\ \A q \in Request \ {r} : phase'[q] = phase[q]
BY DEF IInv, TypeOK, Goto

LEMMA DispatchTypes ==
    ASSUME IInv, NEW r \in Request, NEW m \in Messages, NEW s \in Secret \cup {NoSecret},
           Dispatch(r, m, s)
    PROVE  /\ phase' \in [Request -> {"idle"} \cup Serving \cup Refusals \cup Answers]
           /\ phase'[r] = DispatchPhase(m, s)
           /\ reply' \in [Request -> [version : Headers, session : Session \cup {None}]]
           /\ DispatchPhase(m, s) \in {"initialized", "issuing"} =>
                 reply'[r] = [version |-> Negotiated(m), session |-> None]
           /\ \A q \in Request \ {r} : phase'[q] = phase[q] /\ reply'[q] = reply[q]
<1>1. DispatchPhase(m, s) \in {"idle"} \cup Serving \cup Refusals \cup Answers
  BY DispatchPhases DEF Serving, Refusals, Answers
<1>2. Goto(r, DispatchPhase(m, s))
  BY DEF Dispatch
<1>3. DispatchPhase(m, s) \in {"initialized", "issuing"} => Negotiated(m) \in Version
  BY DispatchPhases, NegotiatedVersion
<1>4. reply' = [reply EXCEPT ![r] =
                   IF DispatchPhase(m, s) \in {"initialized", "issuing"}
                   THEN [version |-> Negotiated(m), session |-> None] ELSE @]
  BY DEF Dispatch
<1>5. /\ reply \in [Request -> [version : Headers, session : Session \cup {None}]]
  BY DEF IInv, TypeOK
<1>6. DispatchPhase(m, s) \in {"initialized", "issuing"} =>
         [version |-> Negotiated(m), session |-> None] \in [version : Headers, session : Session \cup {None}]
  BY <1>3 DEF Headers
<1>7. /\ reply' \in [Request -> [version : Headers, session : Session \cup {None}]]
      /\ DispatchPhase(m, s) \in {"initialized", "issuing"} =>
            reply'[r] = [version |-> Negotiated(m), session |-> None]
      /\ \A q \in Request \ {r} : reply'[q] = reply[q]
  BY <1>4, <1>5, <1>6
<1> QED BY <1>1, <1>2, <1>7, GotoTypes

LEMMA NextIInv == IInv /\ [Next]_vars => IInv'
<1> SUFFICES ASSUME IInv, [Next]_vars PROVE IInv'
  OBVIOUS
<1>1. ASSUME NEW r \in Request, phase[r] = "idle", RefuseRequest(r) PROVE IInv'
  <2>1. phase' \in [Request -> {"idle"} \cup Serving \cup Refusals \cup Answers]
        /\ phase'[r] = "refused" /\ \A q \in Request \ {r} : phase'[q] = phase[q]
    BY <1>1, GotoTypes DEF RefuseRequest, Refusals
  <2>2. UNCHANGED <<clock, secret, sessions, message, msecret, mnow, reply>>
    BY <1>1 DEF RefuseRequest
  <2>3. TypeOK' /\ message' \in [Request -> Messages \cup {None}]
    BY <2>1, <2>2 DEF IInv, TypeOK
  <2>4. Good("refused", message'[r], msecret'[r], mnow'[r], reply'[r])
    BY DEF Good, Answers
  <2> QED BY <2>1, <2>2, <2>3, <2>4, OneRequest
<1>2. ASSUME NEW r \in Request, NEW m \in Messages,
             RefuseSessionHeader(r, m) \/ RefuseMismatch(r, m) \/ StartValidation(r, m)
      PROVE  IInv'
  <2>1. Arrive(r, m) /\ reply' = reply
    BY <1>2 DEF RefuseSessionHeader, RefuseMismatch, StartValidation
  <2>2. PICK ph \in {"refused", "mismatch", "validating"} :
          /\ Goto(r, ph)
          /\ ph = "validating" => MustValidate(m)
    BY <1>2 DEF RefuseSessionHeader, RefuseMismatch, StartValidation
  <2>3. phase' \in [Request -> {"idle"} \cup Serving \cup Refusals \cup Answers]
        /\ phase'[r] = ph /\ \A q \in Request \ {r} : phase'[q] = phase[q]
    BY <2>2, GotoTypes DEF Refusals, Serving
  <2>4. TypeOK'
    BY <2>1, <2>3, ArriveTypes DEF IInv, TypeOK
  <2>5. Good(ph, m, secret, clock, reply[r])
    BY <2>2 DEF Good, Answers, MustValidate
  <2> QED BY <2>1, <2>3, <2>4, <2>5, ArriveTypes, OneRequest
<1>3. ASSUME NEW r \in Request, NEW m \in Messages, ServeDirectly(r, m) PROVE IInv'
  <2>1. Arrive(r, m) /\ Dispatch(r, m, secret) /\ ~Mismatch(m)
    BY <1>3 DEF ServeDirectly
  <2>2. ~(m.call.method # "initialize" /\ m.session \notin {None, Empty})
    BY <1>3 DEF ServeDirectly, SessionsDisabled, MustValidate
  <2>3. secret \in Secret \cup {NoSecret} /\ clock \in 0 .. MaxTime
    BY DEF IInv, TypeOK
  <2>4. TypeOK'
    BY <2>1, <2>3, ArriveTypes, DispatchTypes DEF IInv, TypeOK
  <2>5. Good(DispatchPhase(m, secret), m, secret, clock, reply'[r])
    BY <2>1, <2>2, <2>3, DispatchTypes, DispatchIsGood
  <2>6. /\ phase'[r] = DispatchPhase(m, secret)
        /\ \A q \in Request \ {r} : phase'[q] = phase[q] /\ reply'[q] = reply[q]
    BY <2>1, <2>3, DispatchTypes
  <2>7. /\ message' \in [Request -> Messages \cup {None}] /\ message'[r] = m
        /\ msecret'[r] = secret /\ mnow'[r] = clock
        /\ \A q \in Request \ {r} :
              message'[q] = message[q] /\ msecret'[q] = msecret[q] /\ mnow'[q] = mnow[q]
    BY <2>1, ArriveTypes
  <2>8. Good(phase'[r], message'[r], msecret'[r], mnow'[r], reply'[r])
    BY <2>5, <2>6, <2>7
  <2> QED BY <2>4, <2>6, <2>7, <2>8, OneRequest
\* The steps of a request under way.
<1>4. ASSUME NEW r \in Request
      PROVE  /\ msecret[r] \in Secret \cup {NoSecret} /\ mnow[r] \in 0 .. MaxTime
             /\ Good(phase[r], message[r], msecret[r], mnow[r], reply[r])
             /\ phase[r] \in Serving \cup Answers => message[r] \in Messages
  BY DEF IInv, TypeOK, Good, Serving, Answers
<1>5. ASSUME NEW r \in Request, NEW ph \in {"idle"} \cup Serving \cup Refusals \cup Answers,
             Goto(r, ph), Good(ph, message[r], msecret[r], mnow[r], reply[r]),
             UNCHANGED <<clock, secret, sessions, message, msecret, mnow, reply>>
      PROVE  IInv'
  <2>1. TypeOK' /\ message' \in [Request -> Messages \cup {None}]
    BY <1>5, GotoTypes DEF IInv, TypeOK
  <2> QED BY <1>5, <2>1, GotoTypes, OneRequest
<1>6. ASSUME NEW r \in Request, Refuse(r) PROVE IInv'
  <2> DEFINE m == message[r]
             verdict == Verdict(m.session, m, msecret[r], mnow[r])
  <2>1. phase[r] = "validating" /\ verdict # "valid" /\ Goto(r, verdict)
        /\ UNCHANGED <<clock, secret, sessions, message, msecret, mnow, reply>>
    BY <1>6 DEF Refuse
  <2>5. Good("validating", m, msecret[r], mnow[r], reply[r]) /\ mnow[r] \in 0 .. MaxTime
    BY <1>4, <2>1
  <2>2. m \in Messages /\ m.session \notin {None, Empty} /\ mnow[r] \in Nat
    BY <2>5 DEF Good
  <2>3. verdict \in {"badSession", "expired"} /\ ~Opens(m.session, m.endpoint, msecret[r], mnow[r])
    BY <2>1, <2>2, VerdictIsRight
  <2>4. Good(verdict, m, msecret[r], mnow[r], reply[r])
    BY <2>2, <2>3 DEF Good, Answers
  <2> QED BY <1>5, <2>1, <2>3, <2>4 DEF Refusals
<1>7. ASSUME NEW r \in Request, Serve(r) PROVE IInv'
  <2> DEFINE m == message[r]
  <2>1. phase[r] = "validating" /\ Dispatch(r, m, msecret[r])
        /\ Verdict(m.session, m, msecret[r], mnow[r]) = "valid"
        /\ UNCHANGED <<clock, secret, sessions, message, msecret, mnow>>
    BY <1>7 DEF Serve
  <2>6. Good("validating", m, msecret[r], mnow[r], reply[r]) /\ mnow[r] \in 0 .. MaxTime
    BY <1>4, <2>1
  <2>2. m \in Messages /\ m.session \notin {None, Empty} /\ mnow[r] \in Nat
        /\ m.call.method # "initialize"
    BY <2>6 DEF Good
  <2>3. Opens(m.session, m.endpoint, msecret[r], mnow[r]) /\ ~Mismatch(m)
    BY <2>1, <2>2, VerdictIsRight DEF Mismatch
  <2>4. TypeOK' /\ message' \in [Request -> Messages \cup {None}]
    BY <1>4, <2>1, <2>2, DispatchTypes DEF IInv, TypeOK
  <2>5. Good(DispatchPhase(m, msecret[r]), m, msecret[r], mnow[r], reply'[r])
    BY <1>4, <2>1, <2>2, <2>3, DispatchTypes, DispatchIsGood
  <2>7. /\ phase'[r] = DispatchPhase(m, msecret[r])
        /\ \A q \in Request \ {r} : phase'[q] = phase[q] /\ reply'[q] = reply[q]
    BY <1>4, <2>1, <2>2, DispatchTypes
  <2>8. message' = message /\ msecret' = msecret /\ mnow' = mnow
    BY <2>1
  <2>9. Good(phase'[r], message'[r], msecret'[r], mnow'[r], reply'[r])
    BY <2>5, <2>7, <2>8
  <2> QED BY <2>4, <2>7, <2>8, <2>9, OneRequest
<1>8. ASSUME NEW r \in Request, AnswerCall(r) PROVE IInv'
  <2>1. PICK ph \in {"notified", "toolError"} : Goto(r, ph)
    BY <1>8 DEF AnswerCall
  <2>2. phase[r] = "pushing" /\ UNCHANGED <<clock, secret, sessions, message, msecret, mnow, reply>>
    BY <1>8 DEF AnswerCall
  <2>3. Good(ph, message[r], msecret[r], mnow[r], reply[r])
    BY <1>4, <2>2 DEF Good, Answers
  <2> QED BY <1>5, <2>1, <2>2, <2>3 DEF Answers
<1>9. ASSUME NEW r \in Request, CreateSession(r) PROVE IInv'
  <2> DEFINE m == message[r]
             session == [secret |-> msecret[r], iat |-> mnow[r],
                         version |-> SessionVersion(m), endpoint |-> m.endpoint]
  <2>1. /\ phase[r] = "issuing" /\ sessions' = sessions \cup {session}
        /\ reply' = [reply EXCEPT ![r].session = session] /\ Goto(r, "initialized")
        /\ UNCHANGED <<clock, secret, message, msecret, mnow>>
    BY <1>9 DEF CreateSession
  <2>2. m \in Messages /\ m.call.method = "initialize" /\ ~Mismatch(m) /\ msecret[r] # NoSecret
        /\ reply[r].version = Negotiated(m) /\ Negotiated(m) \in Version
    BY <1>4, <2>1 DEF Good, Serving
  <2>3. session \in Session
    BY <1>4, <2>2, SessionVersionIsNegotiated, MessageTypes DEF Session
  <2>4. /\ reply' \in [Request -> [version : Headers, session : Session \cup {None}]]
        /\ reply'[r].version = reply[r].version /\ reply'[r].session = session
        /\ \A q \in Request \ {r} : reply'[q] = reply[q]
    <3> HIDE DEF session
    <3> QED BY <2>1, <2>3 DEF IInv, TypeOK
  <2>5. TypeOK' /\ message' \in [Request -> Messages \cup {None}]
    BY <2>1, <2>3, <2>4, GotoTypes DEF IInv, TypeOK, Answers
  <2>6. Good("initialized", m, msecret[r], mnow[r], reply'[r])
    BY <2>2, <2>4 DEF Good
  <2> QED BY <2>1, <2>4, <2>5, <2>6, GotoTypes, OneRequest DEF Answers
<1>10. ASSUME NEW r \in Request, Finish(r) PROVE IInv'
  <2>1. TypeOK' /\ message' \in [Request -> Messages \cup {None}]
    BY <1>10, GotoTypes DEF Finish, IInv, TypeOK, NoReply, Headers
  <2>2. Good("idle", message'[r], msecret'[r], mnow'[r], reply'[r])
    BY DEF Good, Answers
  <2>3. phase'[r] = "idle"
    BY <1>10, GotoTypes DEF Finish
  <2>4. \A q \in Request \ {r} :
           /\ phase'[q] = phase[q] /\ message'[q] = message[q] /\ msecret'[q] = msecret[q]
           /\ mnow'[q] = mnow[q] /\ reply'[q] = reply[q]
    BY <1>10, GotoTypes DEF Finish, IInv, TypeOK
  <2> QED BY <2>1, <2>2, <2>3, <2>4, OneRequest
<1>11. ASSUME UNCHANGED <<phase, message, msecret, mnow, reply>>,
              clock' \in 0 .. MaxTime, secret' \in Secret \cup {NoSecret}, sessions' \subseteq Session
       PROVE  IInv'
  BY <1>11 DEF IInv, TypeOK
<1>12. CASE Tick \/ (\E s \in Secret \cup {NoSecret} : Deploy(s))
            \/ (\E session \in sessions : Forget(session)) \/ UNCHANGED vars
  BY <1>11, <1>12 DEF IInv, TypeOK, Tick, Deploy, Forget, vars
<1>13. ASSUME NEW r \in Request, RequestArrives(r) PROVE IInv'
  <2>1. sessions \subseteq Session
    BY DEF IInv, TypeOK
  <2>2. ASSUME NEW endpoint \in Endpoint, NEW header \in Headers, NEW call \in Calls,
               NEW session \in sessions \cup {None, Garbled, Empty}
        PROVE  [endpoint |-> endpoint, header |-> header, session |-> session, call |-> call]
                  \in Messages
    BY <2>1 DEF Messages
  <2> QED BY <1>1, <1>2, <1>3, <1>13, <2>2 DEF RequestArrives
<1> QED BY <1>6, <1>7, <1>8, <1>9, <1>10, <1>12, <1>13 DEF Next, RequestStep

LEMMA Inductive == SafetySpec => []IInv
BY InitIInv, NextIInv, PTL DEF SafetySpec

-----------------------------------------------------------------------------
(* Theorems *)

\* Every variable has its type: no request is answered or served but in one of
\* the ways handlePost has, and no session is of a version nobody supports.
THEOREM McpTypeCorrect == SafetySpec => []TypeOK
<1>1. IInv => TypeOK
  BY DEF IInv
<1> QED BY <1>1, Inductive, PTL

\* The header, the answer and the session of an initialize name one version.
THEOREM OneVersionIsNamed == SafetySpec => []VersionsAgree
<1>1. ASSUME IInv, NEW r \in Request, phase[r] = "initialized"
      PROVE  /\ reply[r].version \in Version
             /\ message[r].header # None => reply[r].version = message[r].header
             /\ message[r].call.version \in Version =>
                   reply[r].version = message[r].call.version
             /\ reply[r].session # None <=> msecret[r] # NoSecret
             /\ reply[r].session # None =>
                   /\ reply[r].session.version = reply[r].version
                   /\ reply[r].session.endpoint = message[r].endpoint
                   /\ ~Expired(reply[r].session, mnow[r])
  <2> DEFINE m == message[r]
  <2>1. /\ m \in Messages /\ m.call.method = "initialize" /\ ~Mismatch(m)
        /\ reply[r].version = Negotiated(m) /\ Negotiated(m) \in Version
        /\ reply[r].session = IF msecret[r] = NoSecret THEN None
                              ELSE [secret |-> msecret[r], iat |-> mnow[r],
                                    version |-> SessionVersion(m), endpoint |-> m.endpoint]
    BY <1>1 DEF IInv, Good
  <2>2. reply[r].session \in Session \cup {None} /\ mnow[r] \in Nat
        /\ msecret[r] \in Secret \cup {NoSecret}
    BY <1>1 DEF IInv, TypeOK
  <2>3. CASE msecret[r] = NoSecret
    BY <2>1, <2>3, SessionVersionIsNegotiated
  <2>4. CASE msecret[r] # NoSecret
    <3>1. reply[r].session = [secret |-> msecret[r], iat |-> mnow[r],
                              version |-> SessionVersion(m), endpoint |-> m.endpoint]
      BY <2>1, <2>4
    <3>2. reply[r].session.secret = msecret[r]
      BY <3>1
    <3>3. reply[r].session # None
      <4>1. SessionVersion(m) \in Version /\ m.endpoint \in Endpoint
        BY <2>1, SessionVersionIsNegotiated, MessageTypes
      <4>2. reply[r].session \in Session
        BY <1>1, <2>2, <2>4, <3>1, <4>1 DEF IInv, TypeOK, Session
      <4> QED BY <4>2
    <3>4. ~Expired(reply[r].session, mnow[r])
      BY <2>2, <3>1 DEF Expired
    <3> QED BY <2>1, <2>4, <3>1, <3>3, <3>4, SessionVersionIsNegotiated
  <2> QED BY <2>3, <2>4
<1>2. IInv => VersionsAgree
  BY <1>1 DEF VersionsAgree
<1> QED BY <1>2, Inductive, PTL

\* A request with a session is served exactly when the session opens its endpoint,
\* although time passes and the secret is replaced while the token is checked.
THEOREM SessionsOpenTheirEndpoint == SafetySpec => []SessionVerdicts
<1>1. IInv => SessionVerdicts
  BY DEF IInv, Good, SessionVerdicts
<1> QED BY <1>1, Inductive, PTL

\* Neither a notification nor a client response ever pushes.
THEOREM OnlyRequestsPush == SafetySpec => []OnlyCallsPush
<1>1. IInv => OnlyCallsPush
  BY DEF IInv, Good, OnlyCallsPush
<1> QED BY <1>1, Inductive, PTL

\* /mcp/:device_key notifies that device, and /mcp the device of its argument,
\* for any arguments that do not spell the name in two ways.
THEOREM EndpointDecides == SafetySpec => []PushReachesEndpoint
<1>1. ASSUME IInv, NEW r \in Request, phase[r] = "pushing",
             NamesDistinct(message[r].call.arguments)
      PROVE  IF message[r].endpoint # NoKey THEN PushKey(message[r]) = message[r].endpoint
             ELSE PushKey(message[r]) \in {Argument(message[r]), NoKey}
  <2> DEFINE m == message[r]
             args == m.call.arguments
  <2>1. Good("pushing", m, msecret[r], mnow[r], reply[r])
    BY <1>1 DEF IInv
  <2>2. m \in Messages /\ m.call.method = "notify" /\ ToolKey(m) # NoKey
    BY <2>1 DEF Good
  <2>3. m.call \in Calls /\ m.endpoint \in Key \cup {NoKey}
    BY <2>2 DEF Messages, Endpoint
  <2>4. args \in Seq({args[i] : i \in DOMAIN args})
    BY <2>2, <2>3, CallTypes
  <2>5. PushKey(m) = DeviceKey(Assign(args, "device_key", ToolKey(m)))
    BY DEF PushKey
  <2>6. ToolKey(m) = IF m.endpoint # NoKey THEN m.endpoint ELSE Argument(m)
    BY DEF ToolKey
  <2> HIDE DEF m, args
  <2>7. CASE Has(args, "device_key")
    BY <1>1, <2>3, <2>4, <2>5, <2>6, <2>7, AssignedInPlace DEF m, args
  <2>8. CASE ~Has(args, "device_key")
    <3>1. Argument(m) = NoKey
      BY <2>8 DEF Argument, args
    <3> QED BY <2>2, <2>3, <2>4, <2>5, <2>6, <2>8, <3>1, AssignedLast DEF m, args
  <2> QED BY <2>7, <2>8
<1>2. IInv => PushReachesEndpoint
  BY <1>1 DEF PushReachesEndpoint
<1> QED BY <1>2, Inductive, PTL

=============================================================================
