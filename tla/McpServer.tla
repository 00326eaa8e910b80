------------------------------ MODULE McpServer ------------------------------
(***************************************************************************)
(* POST /mcp and /mcp/:device_key (handlePost, handleMcpRequest).  A       *)
(* request is one JSON-RPC message.  A session is a token that the server  *)
(* signs at initialize and the client keeps; the server stores nothing.  A *)
(* request awaits the check of its token, pushOne, and the signing of a    *)
(* new token; meanwhile time passes and a deployment may change or remove  *)
(* the secret.  What pushOne does is the subject of Push; here it is an    *)
(* await that ends with a result or with an error.                         *)
(***************************************************************************)
EXTENDS Params, FiniteSets

CONSTANTS
    Request,            \* slots: requests that can be under way
    Secret, NoSecret,   \* values of MCP_SESSION_SECRET; it is not set
    Version,            \* SUPPORTED_PROTOCOL_VERSIONS
    ServerVersion,      \* SERVER_PROTOCOL_VERSION
    Dated,              \* 2024-11-05, or another date that is not supported
    Odd,                \* a version that is no date, or no string
    Null,               \* JSON null
    None,               \* a header or a parameter that is absent
    Garbled,            \* a session header nobody signed
    Empty,              \* a session header without a value
    Arguments,          \* argument objects of tools/call
    SessionTtl,         \* SESSION_TTL_SECONDS
    MaxTime,            \* bound: the clock stops at MaxTime
    MaxSessions         \* bound: so many sessions are in circulation

\* /mcp, or /mcp/:device_key
Endpoint == Key \cup {NoKey}

\* The payload of a session token and the secret that signed it.  Its exp is
\* iat + SESSION_TTL_SECONDS, its scope follows from the endpoint.
Session == [secret: Secret, iat: 0 .. MaxTime, version: Version, endpoint: Endpoint]

ASSUME McpAssumption ==
    /\ {None, Garbled, Empty} \cap Session = {}
    /\ NoSecret \notin Secret
    /\ ServerVersion \in Version
    /\ {Dated, Odd, Null, None} \cap Version = {}
    /\ Dated # Odd /\ Dated # Null /\ Dated # None
    /\ Odd # Null /\ Odd # None /\ Null # None
    /\ SessionTtl \in Nat \ {0}
    /\ MaxTime \in Nat
    /\ NoKey \notin Key
    /\ \A args \in Arguments : args \in Seq({args[i] : i \in DOMAIN args})
    /\ MaxSessions \in Nat

VARIABLES
    clock,      \* deps.now()
    secret,     \* the secret of the deployment that serves new requests
    sessions,   \* the sessions created, which clients may present
    phase,      \* the phase of each request, and its answer at the end
    message,    \* what it asks for
    msecret,    \* the secret of the deployment that serves it
    mnow,       \* the time it reads, for its session or for a new one
    reply       \* of an initialize: its protocol version and its session

vars == <<clock, secret, sessions, phase, message, msecret, mnow, reply>>

\* Awaiting the check of a token, pushOne, or the signing of a token.
Serving == {"validating", "pushing", "issuing"}

\* 400, 403, 404 or 406 before the dispatch, or from initialize.
Refusals == {"refused", "mismatch", "badSession", "expired", "unsupported"}

\* 202 for what needs no answer, and JSON-RPC results and errors.
Answers == {"accepted", "initialized", "listed", "notFound", "toolError", "notified"}

Call(method, id, version, args) ==
    [method |-> method, hasId |-> id, version |-> version, arguments |-> args]

\* "notify" is tools/call of this tool, "unknown" another method or tool; a
\* client response has an id but no method.
Calls ==
    {Call("initialize", id, v, <<>>) :
        id \in BOOLEAN, v \in Version \cup {Dated, Odd, Null, None}}
    \cup {Call("notify", id, None, args) : id \in BOOLEAN, args \in Arguments}
    \cup {Call(method, id, None, <<>>) :
        method \in {"tools/list", "unknown"}, id \in BOOLEAN}
    \cup {Call("response", TRUE, None, <<>>)}

Headers == Version \cup {None}

Messages ==
    [endpoint: Endpoint, header: Headers, session: Session \cup {None, Garbled, Empty},
     call: Calls]

NoReply == [version |-> None, session |-> None]

TypeOK ==
    /\ clock \in 0 .. MaxTime
    /\ secret \in Secret \cup {NoSecret}
    /\ sessions \subseteq Session
    /\ phase \in [Request -> {"idle"} \cup Serving \cup Refusals \cup Answers]
    /\ \A r \in Request : message[r] \in Messages \cup {None}
    /\ msecret \in [Request -> Secret \cup {NoSecret}]
    /\ mnow \in [Request -> 0 .. MaxTime]
    /\ reply \in [Request -> [version: Headers, session: Session \cup {None}]]

Init ==
    /\ clock = 0
    /\ secret \in Secret \cup {NoSecret}
    /\ sessions = {}
    /\ phase = [r \in Request |-> "idle"]
    /\ message = [r \in Request |-> None]
    /\ msecret = [r \in Request |-> NoSecret]
    /\ mnow = [r \in Request |-> 0]
    /\ reply = [r \in Request |-> NoReply]

Tick ==
    /\ clock < MaxTime
    /\ clock' = clock + 1
    /\ UNCHANGED <<secret, sessions, phase, message, msecret, mnow, reply>>

Deploy(s) ==
    /\ s # secret
    /\ secret' = s
    /\ UNCHANGED <<clock, sessions, phase, message, msecret, mnow, reply>>

-----------------------------------------------------------------------------
(* The versions of initialize *)

\* Seeded fault: a date that is not supported is accepted as it is.
NegotiateAnyDate(version) ==
    CASE version \in Version \cup {Dated} -> version
      [] version = None -> ServerVersion
      [] OTHER -> Odd

\* negotiateInitializeProtocolVersion; Odd is the invalid outcome.
Negotiate(version) ==
    CASE version \in Version -> version
      [] version \in {None, Dated} -> ServerVersion
      [] OTHER -> Odd

\* Seeded fault: the header is not consulted.
NegotiatedWithoutHeader(m) == Negotiate(m.call.version)

\* clientVersion ?? protocolHeader
Negotiated(m) ==
    Negotiate(IF m.call.version \in {None, Null} THEN m.header ELSE m.call.version)

Mismatch(m) ==
    /\ m.call.method = "initialize"
    /\ m.header # None
    /\ m.call.version # None
    /\ m.call.version # m.header

\* The version of the session: protocolHeader ?? the negotiated one.
SessionVersion(m) == IF m.header # None THEN m.header ELSE Negotiated(m)

-----------------------------------------------------------------------------
(* handleMcpRequest, from its dispatch to its next await *)

Goto(r, ph) == phase' = [phase EXCEPT ![r] = ph]

\* Seeded fault: a notification is dispatched like a request.
ClientResponse(m) == m.call.method = "response"

\* A client response or a notification: nothing is dispatched.
Silent(m) == m.call.method = "response" \/ ~m.call.hasId

Argument(m) == IF Has(m.call.arguments, "device_key")
               THEN Get(m.call.arguments, "device_key") ELSE NoKey

\* Seeded fault: the path is only a default.
ArgumentFirst(m) == IF Argument(m) # NoKey THEN Argument(m) ELSE m.endpoint

\* The device key of a notify: that of the path, else the argument of this very
\* name; NoKey if there is none.
ToolKey(m) == IF m.endpoint # NoKey THEN m.endpoint ELSE Argument(m)

\* args.device_key = deviceKey, as buildPushMessage reads it.
PushKey(m) == DeviceKey(Assign(m.call.arguments, "device_key", ToolKey(m)))

\* s is the secret of the deployment that serves the request.
DispatchPhase(m, s) ==
    IF Silent(m) THEN "accepted"
    ELSE CASE m.call.method = "tools/list" -> "listed"
           [] m.call.method = "unknown" -> "notFound"
           [] m.call.method = "initialize" ->
                IF Negotiated(m) = Odd THEN "unsupported"
                ELSE IF s = NoSecret THEN "initialized" ELSE "issuing"
           [] m.call.method = "notify" ->
                IF ToolKey(m) = NoKey THEN "toolError" ELSE "pushing"

\* An initialize that is served has its version now, its session later.
Dispatch(r, m, s) ==
    LET next == DispatchPhase(m, s) IN
    /\ Goto(r, next)
    /\ reply' = [reply EXCEPT ![r] =
                    IF next \in {"initialized", "issuing"}
                    THEN [version |-> Negotiated(m), session |-> None] ELSE @]

-----------------------------------------------------------------------------
(* handlePost *)

\* Bound: no initialize while MaxSessions sessions are in circulation.
Room == Cardinality(sessions) + Cardinality({r \in Request : phase[r] = "issuing"})
            < MaxSessions

Arrive(r, m) ==
    /\ m.call.method = "initialize" => Room
    /\ message' = [message EXCEPT ![r] = m]
    /\ msecret' = [msecret EXCEPT ![r] = secret]
    /\ mnow' = [mnow EXCEPT ![r] = clock]
    /\ UNCHANGED <<clock, secret, sessions>>

\* A protocol header that is not supported, another origin, an accept header
\* without JSON, or a body that is no JSON-RPC message.
RefuseRequest(r) ==
    /\ Goto(r, "refused")
    /\ UNCHANGED <<clock, secret, sessions, message, msecret, mnow, reply>>

SessionsDisabled(m) == secret = NoSecret /\ m.session # None

\* A session header although sessions are not enabled, an empty one as well.
RefuseSessionHeader(r, m) ==
    /\ SessionsDisabled(m)
    /\ Arrive(r, m)
    /\ Goto(r, "refused")
    /\ UNCHANGED reply

RefuseMismatch(r, m) ==
    /\ ~SessionsDisabled(m)
    /\ Mismatch(m)
    /\ Arrive(r, m)
    /\ Goto(r, "mismatch")
    /\ UNCHANGED reply

\* The check is optional: a request without a session header passes.
MustValidate(m) ==
    /\ secret # NoSecret
    /\ m.call.method # "initialize"
    /\ m.session \notin {None, Empty}

StartValidation(r, m) ==
    /\ MustValidate(m)
    /\ Arrive(r, m)
    /\ Goto(r, "validating")
    /\ UNCHANGED reply

ServeDirectly(r, m) ==
    /\ ~SessionsDisabled(m)
    /\ ~Mismatch(m)
    /\ ~MustValidate(m)
    /\ Arrive(r, m)
    /\ Dispatch(r, m, secret)

Genuine(session, s) == session # Garbled /\ session.secret = s

\* Seeded fault: a session of one device opens the endpoint of another.
AnyScope(session, endpoint) == session.endpoint = NoKey <=> endpoint = NoKey

\* Scope and device key.
Bound(session, endpoint) == session.endpoint = endpoint

Expired(session, time) == time >= session.iat + SessionTtl

\* validateSessionToken, in the order of its checks.
Verdict(session, m, s, time) ==
    CASE ~Genuine(session, s) -> "badSession"
      [] Genuine(session, s) /\ Expired(session, time) -> "expired"
      [] Genuine(session, s) /\ ~Expired(session, time) ->
           IF Bound(session, m.endpoint) THEN "valid" ELSE "badSession"

Refuse(r) ==
    LET verdict == Verdict(message[r].session, message[r], msecret[r], mnow[r]) IN
    /\ phase[r] = "validating"
    /\ verdict # "valid"
    /\ Goto(r, verdict)
    /\ UNCHANGED <<clock, secret, sessions, message, msecret, mnow, reply>>

Serve(r) ==
    /\ phase[r] = "validating"
    /\ Verdict(message[r].session, message[r], msecret[r], mnow[r]) = "valid"
    /\ Dispatch(r, message[r], msecret[r])
    /\ UNCHANGED <<clock, secret, sessions, message, msecret, mnow>>

\* Seeded fault: only a result is answered.
AnswerResult(r) ==
    /\ phase[r] = "pushing"
    /\ PushKey(message[r]) # NoKey
    /\ Goto(r, "notified")
    /\ UNCHANGED <<clock, secret, sessions, message, msecret, mnow, reply>>

\* pushOne has returned; without a device key it is always an error.
AnswerCall(r) ==
    /\ phase[r] = "pushing"
    /\ \/ PushKey(message[r]) # NoKey /\ Goto(r, "notified")
       \/ Goto(r, "toolError")
    /\ UNCHANGED <<clock, secret, sessions, message, msecret, mnow, reply>>

CreateSession(r) ==
    LET session == [secret |-> msecret[r], iat |-> mnow[r],
                    version |-> SessionVersion(message[r]),
                    endpoint |-> message[r].endpoint]
    IN
    /\ phase[r] = "issuing"
    /\ sessions' = sessions \cup {session}
    /\ reply' = [reply EXCEPT ![r].session = session]
    /\ Goto(r, "initialized")
    /\ UNCHANGED <<clock, secret, message, msecret, mnow>>

\* The answer is sent; the slot may serve another request.
Finish(r) ==
    /\ phase[r] \in Refusals \cup Answers
    /\ Goto(r, "idle")
    /\ message' = [message EXCEPT ![r] = None]
    /\ msecret' = [msecret EXCEPT ![r] = NoSecret]
    /\ mnow' = [mnow EXCEPT ![r] = 0]
    /\ reply' = [reply EXCEPT ![r] = NoReply]
    /\ UNCHANGED <<clock, secret, sessions>>

\* A client loses its session.
Forget(session) ==
    /\ session \in sessions
    /\ sessions' = sessions \ {session}
    /\ UNCHANGED <<clock, secret, phase, message, msecret, mnow, reply>>

RequestStep(r) == Refuse(r) \/ Serve(r) \/ AnswerCall(r) \/ CreateSession(r)

RequestArrives(r) ==
    /\ phase[r] = "idle"
    /\ \/ RefuseRequest(r)
       \/ \E endpoint \in Endpoint, header \in Headers, call \in Calls,
             session \in sessions \cup {None, Garbled, Empty} :
             LET m == [endpoint |-> endpoint, header |-> header,
                       session |-> session, call |-> call]
             IN \/ RefuseSessionHeader(r, m) \/ RefuseMismatch(r, m)
                \/ StartValidation(r, m) \/ ServeDirectly(r, m)

Next ==
    \/ Tick
    \/ \E s \in Secret \cup {NoSecret} : Deploy(s)
    \/ \E session \in sessions : Forget(session)
    \/ \E r \in Request : RequestArrives(r) \/ RequestStep(r) \/ Finish(r)

SafetySpec == Init /\ [][Next]_vars

\* WebCrypto and pushOne settle.
Spec == SafetySpec /\ \A r \in Request : WF_vars(RequestStep(r))

-----------------------------------------------------------------------------
(* Properties *)

\* An initialize that is served names one version everywhere: the one of its
\* header, if it has one; the one it asks for, if the server supports it; and the
\* session it gets, if any, is of that version, of its endpoint and not expired.
VersionsAgree ==
    \A r \in Request : phase[r] = "initialized" =>
        LET m == message[r]  answer == reply[r] IN
        /\ answer.version \in Version
        /\ m.header # None => answer.version = m.header
        /\ m.call.version \in Version => answer.version = m.call.version
        /\ answer.session # None <=> msecret[r] # NoSecret
        /\ answer.session # None =>
             /\ answer.session.version = answer.version
             /\ answer.session.endpoint = m.endpoint
             /\ ~Expired(answer.session, mnow[r])

\* The session opens the endpoint it was created at, under the secret that signed
\* it, for SESSION_TTL_SECONDS.
Opens(session, endpoint, s, time) ==
    /\ session # Garbled
    /\ session.secret = s
    /\ session.endpoint = endpoint
    /\ time - session.iat < SessionTtl

\* Whatever deployments and time do meanwhile, a request with a session is served
\* exactly when the session opens its endpoint at the moment it is read, under
\* the secret of the deployment that serves it.
SessionVerdicts ==
    \A r \in Request :
        LET m == message[r]
            opens == Opens(m.session, m.endpoint, msecret[r], mnow[r])
        IN
        /\ phase[r] \in {"badSession", "expired"} => ~opens
        /\ /\ phase[r] \in Answers \cup {"pushing"}
           /\ m.call.method # "initialize"
           /\ m.session \notin {None, Empty}
           => opens

\* A push is sent only for a tools/call that has an id: never for a notification
\* or a client response, which nobody would answer.
OnlyCallsPush ==
    \A r \in Request : phase[r] \in {"pushing", "notified"} =>
        message[r].call.method = "notify" /\ message[r].call.hasId

\* /mcp/:device_key notifies that device whatever the arguments say, unless these
\* spell device_key in two ways; /mcp notifies the device of the argument.
PushReachesEndpoint ==
    \A r \in Request : phase[r] = "pushing" /\ NamesDistinct(message[r].call.arguments) =>
        LET m == message[r] IN
        IF m.endpoint # NoKey THEN PushKey(m) = m.endpoint
        ELSE PushKey(m) \in {Argument(m), NoKey}

\* docs/MCP.md:10: "The `device_key` is fixed by the URL".
EndpointIsFixed ==
    \A r \in Request : phase[r] = "pushing" /\ message[r].endpoint # NoKey =>
        PushKey(message[r]) = message[r].endpoint

\* A request that waits for its session, its push or its token is answered.
McpRequestsSettle ==
    \A r \in Request : phase[r] \in Serving ~> phase[r] \in Refusals \cup Answers

=============================================================================
