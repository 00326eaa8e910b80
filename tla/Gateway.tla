------------------------------ MODULE Gateway ------------------------------
(***************************************************************************)
(* The way of a request to its handler: protectRequest (index.ts) asks the *)
(* rate limiter unless the path is a health check, the middleware of       *)
(* createApp asks for credentials unless the route is free, Hono chooses   *)
(* the handler, and the handler reads the body.  Each of the three decides *)
(* on its own what the path is below the configured prefix, and only Hono  *)
(* decodes it.                                                             *)
(*                                                                         *)
(* A path is the sequence of its segments, none of them empty, as they are *)
(* spelled in the URL, and whether it ends in "/".                         *)
(* Requests share nothing here, so one slot, reused without end, suffices. *)
(***************************************************************************)
EXTENDS BodyReader, Sequences, SequencesExt

CONSTANTS
    Env,            \* the environments a worker may be deployed with
    Method, Path,   \* of the requests
    Unset,          \* no such variable, or one that is not a number
    Credentials,    \* pairs of user and password
    NoCredentials,  \* no Authorization header, or one that is not Basic
    DefaultMax,     \* DEFAULT_MAX_REQUEST_BODY_BYTES
    PrefixedNames,  \* segments that begin with the prefix, as "barkping"
    Escapes         \* the segments with percent-encoding, each with its name

ASSUME GatewayAssumption ==
    /\ DefaultMax \in 1 .. HardMax
    /\ Unset \notin Nat /\ \A env \in Env : env.maxBody \in Nat \cup {Unset}
    /\ \A path \in Path : path \in [segs : Seq(STRING), slash : BOOLEAN]

\* The names the three look for.
RouteNames == {"ping", "healthz", "info", "register", "mcp"}

\* A name without "%" has nothing to decode.
ASSUME EscapeAssumption ==
    /\ DOMAIN Escapes \cap RouteNames = {}
    /\ \A raw \in DOMAIN Escapes : Escapes[raw] \in STRING

VARIABLES
    config,     \* createConfigFromEnv, and whether the limiter is bound
    request,
    phase,      \* where the request is, between two awaits
    granted,    \* history: the limiter has let the request pass
    answer      \* the status

vars == <<config, request, phase, granted, answer, readerVars>>

-----------------------------------------------------------------------------
(* Configuration *)

\* Seeded fault: the maximum is not checked.
ParseUnbounded(raw, fallback, maximum) ==
    IF raw # Unset /\ raw > 0 THEN raw ELSE fallback

\* parsePositiveInteger, after parseInt
ParsePositive(raw, fallback, maximum) ==
    IF raw # Unset /\ raw > 0 /\ raw <= maximum THEN raw ELSE fallback

\* normalizeUrlPrefix: the slashes around the name do not count.  A prefix is
\* <<>> for "/", or <<name>>.
NormalizePrefix(raw) == SelectSeq(raw, LAMBDA part : part # "/")

\* The names that begin with the prefix are longer than it.
ASSUME PrefixAssumption ==
    \A env \in Env, name \in PrefixedNames : NormalizePrefix(env.prefix) # <<name>>

CreateConfig(env) ==
    [prefix |-> NormalizePrefix(env.prefix), basicAuth |-> env.basicAuth,
     maxBody |-> ParsePositive(env.maxBody, DefaultMax, HardMax),
     limiter |-> env.limiter]

\* basicAuth is the user and the password, "" when not set.
HasAuth == config.basicAuth # <<"", "">>

-----------------------------------------------------------------------------
(* The path, as the limiter, the authentication and the router see it *)

Root == [segs |-> <<>>, slash |-> FALSE]

Below(path) == [segs |-> Tail(path.segs), slash |-> path.slash]

HasPrefix(path) == path.segs # <<>> /\ <<Head(path.segs)>> = config.prefix

\* "/" and "/<prefix>/" are below the prefix the root.
Rooted(path) == IF path.segs = <<>> THEN Root ELSE path

\* protectRequest: only what follows "<prefix>/" is relative.
RelativePath(path) ==
    IF HasPrefix(path) /\ (Len(path.segs) > 1 \/ path.slash)
      THEN Rooted(Below(path)) ELSE path

\* stripPrefix: startsWith also accepts a longer first segment, of which a rest
\* without "/" in front remains, and that is the path of no free route.
StripPrefix(path) ==
    IF HasPrefix(path) THEN Rooted(Below(path)) ELSE path

Cut(path) ==
    config.prefix # <<>> /\ path.segs # <<>> /\ Head(path.segs) \in PrefixedNames

Is(path, segs) == path = [segs |-> segs, slash |-> FALSE]

HealthPaths == {<<>>, <<"ping">>, <<"healthz">>}

\* Seeded fault: the method does not matter.
HealthPath(method, path) == \E segs \in HealthPaths : Is(RelativePath(path), segs)

ExemptFromLimit(method, path) ==
    method = "GET" /\ \E segs \in HealthPaths : Is(RelativePath(path), segs)

\* Seeded fault: the rest of the path may contain "/".
BelowRegister(method, path) ==
    method = "GET" /\ Len(path.segs) > 1 /\ Head(path.segs) = "register"

\* isRegisterCheckPath
RegisterCheckPath(method, path) ==
    /\ method = "GET" /\ ~path.slash
    /\ Len(path.segs) = 2 /\ Head(path.segs) = "register"

\* isAuthFreeRoute
AuthFree(method, path) ==
    LET relative == StripPrefix(path)
    IN  /\ ~Cut(path)
        /\ \/ method = "GET" /\ \E segs \in HealthPaths : Is(relative, segs)
           \/ method \in {"GET", "POST"} /\ Is(relative, <<"register">>)
           \/ RegisterCheckPath(method, relative)

Route(verbs, segs, name) == [verbs |-> verbs, segs |-> segs, name |-> name]

\* createRouteGroup: the routes before those of registerPushRoutes.  No two of
\* them match the same request.
Routes ==
    << Route({"GET"}, <<>>, "health"),
       Route({"GET"}, <<"ping">>, "health"),
       Route({"GET"}, <<"healthz">>, "health"),
       Route({"GET"}, <<"info">>, "info"),
       Route({"POST"}, <<"register">>, "register"),
       Route({"GET"}, <<"register", ":">>, "check"),
       Route({"GET"}, <<"register">>, "register"),
       Route({"POST"}, <<"mcp">>, "mcp"),
       Route({"POST"}, <<"mcp", ":">>, "mcp"),
       Route({"GET", "DELETE"}, <<"mcp">>, "notAllowed"),
       Route({"GET", "DELETE"}, <<"mcp", ":">>, "notAllowed") >>

Matches(route, verb, segs) ==
    /\ verb \in route.verbs
    /\ Len(route.segs) = Len(segs)
    /\ \A i \in DOMAIN segs : route.segs[i] \in {":", segs[i]}

RouteOf(verb, segs) ==
    IF \E i \in DOMAIN Routes : Matches(Routes[i], verb, segs)
      THEN Routes[CHOOSE i \in DOMAIN Routes : Matches(Routes[i], verb, segs)].name
      ELSE IF verb \in {"GET", "POST"} /\ Len(segs) \in 1 .. 4 THEN "push" ELSE "none"

\* Hono's getPath decodes the path by decodeURI before any route is matched.  No
\* "/" comes of it, so that it can be done segment by segment.
Decode(raw) == IF raw \in DOMAIN Escapes THEN Escapes[raw] ELSE raw

Decoded(path) == [i \in DOMAIN path.segs |-> Decode(path.segs[i])]

Mounted(segs) ==
    config.prefix = <<>> \/ (segs # <<>> /\ <<Head(segs)>> = config.prefix)

\* Hono routes HEAD as GET, and a path that ends in "/" matches no route.
Handler(method, path) ==
    LET segs == Decoded(path)
    IN  IF path.slash \/ ~Mounted(segs) THEN "none"
          ELSE RouteOf(IF method = "HEAD" THEN "GET" ELSE method,
                       IF config.prefix = <<>> THEN segs ELSE Tail(segs))

handler == Handler(request.method, request.path)

-----------------------------------------------------------------------------
(* One request *)

NoConfig == [prefix |-> <<>>, basicAuth |-> <<"", "">>, maxBody |-> DefaultMax, limiter |-> FALSE]
NoRequest == [method |-> "GET", path |-> Root, credentials |-> NoCredentials, length |-> NoLength]

Init ==
    /\ config = NoConfig /\ request = NoRequest
    /\ phase = "idle" /\ granted = FALSE /\ answer = 0
    /\ ReaderInit

Arrive ==
    /\ phase = "idle"
    /\ \E env \in Env : config' = CreateConfig(env)
    /\ \E method \in Method, path \in Path, credentials \in {NoCredentials} \cup Credentials,
          body \in BOOLEAN, length \in {NoLength} \cup 1 .. HardMax + 1 :
          /\ body => method = "POST"
          /\ length # NoLength => body
          /\ request' = [method |-> method, path |-> path,
                         credentials |-> credentials, length |-> length]
          /\ OpenStream(body)
    /\ phase' = "received" /\ granted' = FALSE /\ answer' = 0

frame == <<config, request>>

AnswerWith(status) ==
    /\ answer' = status /\ phase' = "answered"

\* protectRequest up to its await
SkipLimiter ==
    /\ phase = "received" /\ ExemptFromLimit(request.method, request.path)
    /\ phase' = "app"
    /\ UNCHANGED <<frame, granted, answer, readerVars>>

AskLimiter ==
    /\ phase = "received" /\ ~ExemptFromLimit(request.method, request.path)
    /\ \/ config.limiter /\ phase' = "limiter" /\ UNCHANGED answer
       \/ ~config.limiter /\ AnswerWith(503)
    /\ UNCHANGED <<frame, granted, readerVars>>

\* limit() lets the request pass, refuses it, or throws.
LimiterGrants ==
    /\ phase = "limiter"
    /\ granted' = TRUE /\ phase' = "app"
    /\ UNCHANGED <<frame, answer, readerVars>>

\* Seeded fault: a limiter that throws is asked again.
LimiterIsRetried ==
    /\ phase = "limiter"
    /\ AnswerWith(429) \/ (phase' = "received" /\ UNCHANGED answer)
    /\ UNCHANGED <<frame, granted, readerVars>>

LimiterRefuses ==
    /\ phase = "limiter"
    /\ AnswerWith(429) \/ AnswerWith(503)
    /\ UNCHANGED <<frame, granted, readerVars>>

\* createBasicAuthMiddleware; comparing the credentials awaits two digests.
Authenticate ==
    /\ phase = "app"
    /\ \/ ~HasAuth \/ AuthFree(request.method, request.path)
       \/ request.credentials = config.basicAuth
    /\ phase' = "routing"
    /\ UNCHANGED <<frame, granted, answer, readerVars>>

RejectCredentials ==
    /\ phase = "app"
    /\ HasAuth /\ ~AuthFree(request.method, request.path)
    /\ request.credentials # config.basicAuth
    /\ AnswerWith(418)
    /\ UNCHANGED <<frame, granted, readerVars>>

\* The routes that answer at once, and no route.
AnswerDirectly ==
    /\ phase = "routing"
    /\ \/ handler = "health" /\ AnswerWith(200)
       \/ handler = "notAllowed" /\ AnswerWith(405)
       \/ handler = "none" /\ AnswerWith(404)
    /\ UNCHANGED <<frame, granted, readerVars>>

\* The handlers that await the registry, APNs or the body.
ReadsBody == handler \in {"push", "mcp"} \/ (handler = "register" /\ request.method = "POST")

StartHandler ==
    /\ phase = "routing" /\ handler \in {"info", "check", "register"} /\ ~ReadsBody
    /\ phase' = "handling"
    /\ UNCHANGED <<frame, granted, answer, readerVars>>

StartBody ==
    /\ phase = "routing" /\ ReadsBody
    /\ phase' = "reading"
    /\ StartReading(config.maxBody, request.length)
    /\ UNCHANGED <<frame, granted, answer>>

\* Registration is closed, or the headers of an MCP request are refused.
RefuseUnread ==
    /\ phase = "routing" /\ handler \in {"register", "mcp"} /\ ReadsBody
    /\ AnswerWith(403)
    /\ UNCHANGED <<frame, granted, readerVars>>

ClientSends ==
    /\ phase = "reading"
    /\ ClientStep
    /\ UNCHANGED <<frame, phase, granted, answer>>

UseBody ==
    /\ phase = "reading"
    /\ \/ reader = "done" /\ phase' = "handling" /\ UNCHANGED answer
       \/ reader = "failed" /\ AnswerWith(400)
    /\ UNCHANGED <<frame, granted, readerVars>>

\* The handler answers, also with an error, or throws, which onError answers.
FinishHandler ==
    /\ phase = "handling"
    /\ \E status \in {200, 400, 403, 500} : AnswerWith(status)
    /\ UNCHANGED <<frame, granted, readerVars>>

Forget ==
    /\ phase = "answered"
    /\ config' = NoConfig /\ request' = NoRequest
    /\ phase' = "idle" /\ granted' = FALSE /\ answer' = 0
    /\ OpenStream(FALSE)

Step ==
    \/ SkipLimiter \/ AskLimiter \/ LimiterGrants \/ LimiterRefuses
    \/ Authenticate \/ RejectCredentials
    \/ AnswerDirectly \/ StartHandler \/ StartBody \/ RefuseUnread
    \/ ClientSends \/ UseBody \/ FinishHandler

Next == Arrive \/ Step \/ Forget

SafetySpec == Init /\ [][Next]_vars

\* What the worker awaits answers or fails; so does a client, which the platform
\* cuts off when it stalls.
Spec == SafetySpec /\ WF_vars(Step)

-----------------------------------------------------------------------------
(* Properties *)

\* Every variable has its type.
TypeOK ==
    /\ DOMAIN config = DOMAIN NoConfig /\ config.maxBody \in 1 .. HardMax
    /\ DOMAIN request = DOMAIN NoRequest
    /\ phase \in {"idle", "received", "limiter", "app", "routing", "reading", "handling", "answered"}
    /\ granted \in BOOLEAN
    /\ answer \in {0, 200, 400, 403, 404, 405, 418, 429, 500, 503}
    /\ ReaderTypeOK

InHandler == phase \in {"reading", "handling"}

\* README.md: only the limiter opens the way to the database and to APNs.  What
\* protectRequest exempts by its path is no such route for the router, although
\* the two read the path differently and HEAD is routed as GET.
LimiterGuardsRoutes == InHandler => granted

\* With credentials configured, no device is read or notified without them,
\* except by the routes of registration.
CredentialsGuardRoutes ==
    InHandler /\ HasAuth /\ request.credentials # config.basicAuth =>
        handler \in {"register", "check"}

\* README.md: where the limiter is missing, fails or refuses, the health checks by
\* GET stay available.  (Violated by GET /<prefix>, which router and authentication
\* take for "/" below the prefix.)
HealthStaysAvailable ==
    phase = "answered" /\ request.method = "GET" /\ handler = "health" =>
        answer \notin {429, 503}

\* Every request is answered, also one whose body does not end.
RequestsAreAnswered == phase = "received" ~> phase = "answered"

=============================================================================
