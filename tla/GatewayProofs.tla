---------------------------- MODULE GatewayProofs ----------------------------
(***************************************************************************)
(* Proofs about the way of a request to its handler, for any environment,  *)
(* prefix, path and method, and any body.                                  *)
(***************************************************************************)
EXTENDS Gateway, SequenceTheorems, TLAPS

Paths == [segs : Seq(STRING), slash : BOOLEAN]

\* Decoding keeps the segments apart, and the names of the routes as they are.
LEMMA DecodedSegments ==
    ASSUME NEW path \in Paths
    PROVE  /\ path.segs \in Seq(STRING) /\ Decoded(path) \in Seq(STRING)
           /\ Len(Decoded(path)) = Len(path.segs)
           /\ \A i \in 1 .. Len(path.segs) :
                 /\ Decoded(path)[i] = Decode(path.segs[i])
                 /\ path.segs[i] \in RouteNames => Decoded(path)[i] = path.segs[i]
<1>1. path.segs \in Seq(STRING) /\ DOMAIN path.segs = 1 .. Len(path.segs)
  BY DEF Paths
<1>2. ASSUME NEW raw \in STRING
      PROVE  Decode(raw) \in STRING /\ (raw \in RouteNames => Decode(raw) = raw)
  BY EscapeAssumption DEF Decode
<1>3. ASSUME NEW i \in 1 .. Len(path.segs) PROVE path.segs[i] \in STRING
  BY <1>1
<1>4. Decoded(path) = [i \in 1 .. Len(path.segs) |-> Decode(path.segs[i])]
  BY <1>1 DEF Decoded
<1> DEFINE n == Len(path.segs)
           names == [i \in 1 .. n |-> Decode(path.segs[i])]
<1>5. \A i \in 1 .. n : names[i] = Decode(path.segs[i]) /\ names[i] \in STRING
  BY <1>2, <1>3
<1>6. names \in Seq(STRING) /\ Len(names) = n
  <2>1. n \in Nat
    BY <1>1
  <2>2. \A i \in 1 .. n : Decode(path.segs[i]) \in STRING
    BY <1>2, <1>3
  <2>3. names \in [1 .. n -> STRING]
    BY <2>2
  <2> HIDE DEF names, n
  <2>4. DOMAIN names = 1 .. n
    BY <2>3
  <2> QED BY <2>1, <2>3, <2>4
<1> QED BY <1>1, <1>2, <1>3, <1>4, <1>5, <1>6

\* What the router looks up: the segments below the prefix, decoded.
Routed(path) == IF config.prefix = <<>> THEN Decoded(path) ELSE Tail(Decoded(path))

\* The path spells a route or the prefix with percent-encoding: the router reads
\* another name than the limiter and the authentication.
Respelled(path) ==
    \E i \in DOMAIN path.segs :
        LET name == Decode(path.segs[i])
        IN  name # path.segs[i] /\ (name \in RouteNames \/ <<name>> = config.prefix)

\* What the guards look at: the segments below the prefix as they are spelled.
Spelled(path) == IF HasPrefix(path) THEN Tail(path.segs) ELSE path.segs

\* What the router answers for the paths the limiter and the authentication
\* let through.
LEMMA HealthIsHealth ==
    ASSUME NEW segs \in HealthPaths
    PROVE  RouteOf("GET", segs) = "health"
<1>1. 1 \in DOMAIN Routes /\ 2 \in DOMAIN Routes /\ 3 \in DOMAIN Routes
  BY DEF Routes
<1>2. \/ Matches(Routes[1], "GET", segs)
      \/ Matches(Routes[2], "GET", segs)
      \/ Matches(Routes[3], "GET", segs)
  BY DEF HealthPaths, Routes, Route, Matches
<1>3. ASSUME NEW i \in DOMAIN Routes, Matches(Routes[i], "GET", segs)
      PROVE  Routes[i].name = "health"
  BY <1>3 DEF HealthPaths, Routes, Route, Matches
<1> QED BY <1>1, <1>2, <1>3 DEF RouteOf

LEMMA RegisterIsRegister ==
    ASSUME NEW method \in {"GET", "POST"}
    PROVE  RouteOf(method, <<"register">>) = "register"
<1>1. \E i \in DOMAIN Routes : Matches(Routes[i], method, <<"register">>)
  <2>1. CASE method = "POST"
    <3>1. 5 \in DOMAIN Routes /\ Matches(Routes[5], "POST", <<"register">>)
      BY DEF Routes, Route, Matches
    <3> QED BY <2>1, <3>1
  <2>2. CASE method = "GET"
    <3>1. 7 \in DOMAIN Routes /\ Matches(Routes[7], "GET", <<"register">>)
      BY DEF Routes, Route, Matches
    <3> QED BY <2>2, <3>1
  <2> QED BY <2>1, <2>2
<1>2. ASSUME NEW i \in DOMAIN Routes, Matches(Routes[i], method, <<"register">>)
      PROVE  Routes[i].name = "register"
  <2>1. Matches(Routes[i], "GET", <<"register">>) => Routes[i].name = "register"
    <3>1. ~Matches(Routes[1], "GET", <<"register">>)
      BY DEF Routes, Route, Matches
    <3>2. ~Matches(Routes[2], "GET", <<"register">>)
      BY DEF Routes, Route, Matches
    <3>3. ~Matches(Routes[3], "GET", <<"register">>)
      BY DEF Routes, Route, Matches
    <3>4. ~Matches(Routes[4], "GET", <<"register">>)
      BY DEF Routes, Route, Matches
    <3>5. ~Matches(Routes[5], "GET", <<"register">>)
      BY DEF Routes, Route, Matches
    <3>6. ~Matches(Routes[6], "GET", <<"register">>)
      BY DEF Routes, Route, Matches
    <3>7. ~Matches(Routes[8], "GET", <<"register">>)
      BY DEF Routes, Route, Matches
    <3>8. ~Matches(Routes[9], "GET", <<"register">>)
      BY DEF Routes, Route, Matches
    <3>9. ~Matches(Routes[10], "GET", <<"register">>)
      BY DEF Routes, Route, Matches
    <3>10. ~Matches(Routes[11], "GET", <<"register">>)
      BY DEF Routes, Route, Matches
    <3>11. i \in {1, 2, 3, 4, 5, 6, 8, 9, 10, 11} \/ i = 7
      BY DEF Routes
    <3>12. Routes[7].name = "register"
      BY DEF Routes, Route
    <3> QED BY <3>1, <3>2, <3>3, <3>4, <3>5, <3>6, <3>7, <3>8, <3>9, <3>10, <3>11, <3>12
  <2>2. Matches(Routes[i], "POST", <<"register">>) => Routes[i].name = "register"
    BY DEF Routes, Route, Matches
  <2> QED BY <1>2, <2>1, <2>2
<1> QED BY <1>1, <1>2 DEF RouteOf

LEMMA CheckIsCheck ==
    ASSUME NEW segs \in Seq(STRING), Len(segs) = 2, segs[1] = "register"
    PROVE  RouteOf("GET", segs) = "check"
<1>1. 6 \in DOMAIN Routes /\ Matches(Routes[6], "GET", segs)
  BY DEF Routes, Route, Matches
<1>2. ASSUME NEW i \in DOMAIN Routes, Matches(Routes[i], "GET", segs)
      PROVE  Routes[i].name = "check"
  BY <1>2 DEF Routes, Route, Matches
<1> QED BY <1>1, <1>2 DEF RouteOf

\* The paths below the prefix, for the router and for the two others.
LEMMA TailIsBelow ==
    ASSUME NEW path \in Paths, HasPrefix(path)
    PROVE  /\ Tail(path.segs) \in Seq(STRING) /\ Len(Tail(path.segs)) = Len(path.segs) - 1
           /\ Rooted(Below(path)) =
                 IF Tail(path.segs) = <<>> THEN Root
                   ELSE [segs |-> Tail(path.segs), slash |-> path.slash]
<1>1. path.segs \in Seq(STRING) /\ path.segs # <<>>
  BY DEF Paths, HasPrefix
<1>2. Tail(path.segs) \in Seq(STRING) /\ Len(Tail(path.segs)) = Len(path.segs) - 1
  BY <1>1, HeadTailProperties
<1> QED BY <1>2 DEF Rooted, Below

\* What lies below the prefix, where the router and the guards agree on the prefix.
LEMMA RoutedSegments ==
    ASSUME NEW path \in Paths, Mounted(Decoded(path)), config.prefix # <<>> => HasPrefix(path)
    PROVE  /\ Spelled(path) \in Seq(STRING) /\ Routed(path) \in Seq(STRING)
           /\ Len(Routed(path)) = Len(Spelled(path))
           /\ \A i \in 1 .. Len(Spelled(path)) :
                 /\ Spelled(path)[i] \in RouteNames => Routed(path)[i] = Spelled(path)[i]
                 /\ ~Respelled(path) /\ Routed(path)[i] \in RouteNames =>
                       Spelled(path)[i] = Routed(path)[i]
<1>1. /\ path.segs \in Seq(STRING) /\ Decoded(path) \in Seq(STRING)
      /\ Len(Decoded(path)) = Len(path.segs)
      /\ \A i \in 1 .. Len(path.segs) :
            /\ Decoded(path)[i] = Decode(path.segs[i])
            /\ path.segs[i] \in RouteNames => Decoded(path)[i] = path.segs[i]
  BY DecodedSegments
<1>2. ~Respelled(path) =>
         \A i \in 1 .. Len(path.segs) :
            Decoded(path)[i] \in RouteNames => path.segs[i] = Decoded(path)[i]
  BY <1>1 DEF Respelled
<1> HIDE DEF Decoded, Respelled
<1>3. CASE config.prefix = <<>>
  <2>1. Spelled(path) = path.segs /\ Routed(path) = Decoded(path)
    BY <1>3 DEF Spelled, Routed, HasPrefix
  <2> QED BY <1>1, <1>2, <2>1
<1>4. CASE config.prefix # <<>>
  <2>1. Spelled(path) = Tail(path.segs) /\ Routed(path) = Tail(Decoded(path))
    BY <1>4 DEF Spelled, Routed
  <2>2. path.segs # <<>> /\ Decoded(path) # <<>>
    BY <1>4 DEF HasPrefix, Mounted
  <2>3. /\ Tail(path.segs) \in Seq(STRING) /\ Tail(Decoded(path)) \in Seq(STRING)
        /\ Len(Tail(path.segs)) = Len(path.segs) - 1
        /\ Len(Tail(Decoded(path))) = Len(Decoded(path)) - 1
        /\ \A i \in 1 .. Len(path.segs) - 1 :
              Tail(path.segs)[i] = path.segs[i + 1] /\ Tail(Decoded(path))[i] = Decoded(path)[i + 1]
    <3>1. ASSUME NEW s \in Seq(STRING), s # <<>>
          PROVE  /\ Tail(s) \in Seq(STRING) /\ Len(Tail(s)) = Len(s) - 1
                 /\ \A i \in 1 .. Len(s) - 1 : Tail(s)[i] = s[i + 1]
      BY <3>1, HeadTailProperties
    <3> QED BY <1>1, <2>2, <3>1
  <2>4. \A i \in 1 .. Len(path.segs) - 1 : i + 1 \in 1 .. Len(path.segs)
    BY <1>1
  <2> QED BY <1>1, <1>2, <2>1, <2>3, <2>4
<1> QED BY <1>3, <1>4

\* A prefix that is the name of a route is spelled as it is.
LEMMA NamedPrefix ==
    ASSUME NEW path \in Paths, Mounted(Decoded(path)), config.prefix # <<>>,
           path.segs # <<>> => path.segs[1] \in RouteNames
    PROVE  HasPrefix(path)
<1>1. /\ path.segs \in Seq(STRING) /\ Decoded(path) \in Seq(STRING)
      /\ Len(Decoded(path)) = Len(path.segs)
      /\ \A i \in 1 .. Len(path.segs) :
            path.segs[i] \in RouteNames => Decoded(path)[i] = path.segs[i]
  BY DecodedSegments
<1> HIDE DEF Decoded
<1>2. Decoded(path) # <<>> /\ <<Head(Decoded(path))>> = config.prefix
  BY DEF Mounted
<1>3. Len(path.segs) > 0 /\ path.segs # <<>>
  BY <1>1, <1>2
<1>4. Head(path.segs) = path.segs[1] /\ Head(Decoded(path)) = Decoded(path)[1]
  BY <1>1, <1>2, <1>3
<1>5. Decoded(path)[1] = path.segs[1]
  BY <1>1, <1>3
<1> QED BY <1>2, <1>3, <1>4, <1>5 DEF HasPrefix

\* A path that only consists of names of routes.
LEMMA RoutedNames ==
    ASSUME NEW path \in Paths, Mounted(Decoded(path)), config.prefix # <<>> => HasPrefix(path),
           NEW segs \in HealthPaths \cup {<<"register">>}, Spelled(path) = segs
    PROVE  Routed(path) = segs
<1>1. /\ Routed(path) \in Seq(STRING) /\ Len(Routed(path)) = Len(segs)
      /\ \A i \in 1 .. Len(segs) : segs[i] \in RouteNames => Routed(path)[i] = segs[i]
  BY RoutedSegments
<1> DEFINE routed == Routed(path)
<1> HIDE DEF routed
<1>2. routed \in Seq(STRING) /\ Len(routed) = Len(segs)
      /\ \A i \in 1 .. Len(segs) : segs[i] \in RouteNames => routed[i] = segs[i]
  BY <1>1 DEF routed
<1>3. CASE segs = <<>>
  BY <1>2, <1>3 DEF routed
<1>4. ASSUME NEW name \in RouteNames, segs = <<name>> PROVE routed = segs
  <2>1. Len(routed) = 1 /\ routed[1] = name
    BY <1>2, <1>4
  <2> QED BY <1>2, <1>4, <2>1
<1>5. segs = <<>> \/ \E name \in RouteNames : segs = <<name>>
  BY DEF HealthPaths, RouteNames
<1> QED BY <1>3, <1>4, <1>5 DEF routed

\* protectRequest exempts only health checks and requests without a route.
LEMMA ExemptRoutes ==
    ASSUME NEW path \in Paths, NEW method, ExemptFromLimit(method, path)
    PROVE  Handler(method, path) \in {"health", "none"}
<1>1. PICK segs \in HealthPaths : RelativePath(path) = [segs |-> segs, slash |-> FALSE]
  BY DEF ExemptFromLimit, Is
<1>2. method = "GET"
  BY DEF ExemptFromLimit
<1> SUFFICES ASSUME ~path.slash, Mounted(Decoded(path))
             PROVE  RouteOf("GET", Routed(path)) = "health"
  BY <1>2 DEF Handler, Routed
<1>3. /\ Spelled(path) \in HealthPaths
      /\ ~HasPrefix(path) => path.segs = segs
  <2>1. CASE HasPrefix(path) /\ Len(path.segs) > 1
    <3>1. Tail(path.segs) # <<>>
      <4> DEFINE tail == Tail(path.segs)
      <4>1. tail \in Seq(STRING) /\ Len(tail) > 0
        BY <2>1, TailIsBelow DEF Paths
      <4> HIDE DEF tail
      <4>2. tail # <<>>
        BY <4>1
      <4> QED BY <4>2 DEF tail
    <3>2. Tail(path.segs) = segs
      BY <1>1, <2>1, <3>1, TailIsBelow DEF RelativePath
    <3> QED BY <2>1, <3>2 DEF Spelled
  <2>2. CASE HasPrefix(path) /\ ~(Len(path.segs) > 1)
    <3>1. Tail(path.segs) = <<>>
      BY <2>2, TailIsBelow DEF Paths, HasPrefix
    <3> QED BY <2>2, <3>1 DEF HealthPaths, Spelled
  <2>3. CASE ~HasPrefix(path)
    <3>1. path.segs = segs
      BY <1>1, <2>3 DEF RelativePath, Paths
    <3> QED BY <2>3, <3>1 DEF Spelled
  <2> QED BY <2>1, <2>2, <2>3
<1>4. config.prefix # <<>> => HasPrefix(path)
  <2> SUFFICES ASSUME config.prefix # <<>>, ~HasPrefix(path) PROVE FALSE
    OBVIOUS
  <2>1. path.segs # <<>> => path.segs[1] \in RouteNames
    BY <1>3 DEF HealthPaths, RouteNames
  <2> QED BY <2>1, NamedPrefix
<1>5. Routed(path) = Spelled(path)
  BY <1>3, <1>4, RoutedNames
<1> QED BY <1>3, <1>5, HealthIsHealth

\* isAuthFreeRoute frees only health checks, registration and its check.
LEMMA AuthFreeRoutes ==
    ASSUME NEW path \in Paths, NEW method, AuthFree(method, path)
    PROVE  Handler(method, path) \in {"health", "register", "check", "none"}
<1> SUFFICES ASSUME ~path.slash, Mounted(Decoded(path))
             PROVE  RouteOf(IF method = "HEAD" THEN "GET" ELSE method, Routed(path))
                       \in {"health", "register", "check"}
  BY DEF Handler, Routed
<1> DEFINE segs == Spelled(path)
<1>1. segs \in Seq(STRING) /\ StripPrefix(path) = [segs |-> segs, slash |-> FALSE]
  BY TailIsBelow DEF StripPrefix, Spelled, Paths, Root
<1> HIDE DEF segs
<1>2. ASSUME NEW s, Is(StripPrefix(path), s)
      PROVE  segs = s
  BY <1>1, <1>2 DEF Is
<1>3. \/ method = "GET" /\ segs \in HealthPaths
      \/ method \in {"GET", "POST"} /\ segs = <<"register">>
      \/ method = "GET" /\ Len(segs) = 2 /\ segs[1] = "register"
  <2>1. \/ method = "GET" /\ \E s \in HealthPaths : Is(StripPrefix(path), s)
        \/ method \in {"GET", "POST"} /\ Is(StripPrefix(path), <<"register">>)
        \/ RegisterCheckPath(method, StripPrefix(path))
    BY DEF AuthFree
  <2>2. RegisterCheckPath(method, StripPrefix(path)) =>
           method = "GET" /\ Len(segs) = 2 /\ segs[1] = "register"
    BY <1>1 DEF RegisterCheckPath
  <2> QED BY <1>2, <2>1, <2>2
<1>4. config.prefix # <<>> => HasPrefix(path)
  <2> SUFFICES ASSUME config.prefix # <<>>, ~HasPrefix(path) PROVE FALSE
    OBVIOUS
  <2>1. segs = path.segs
    BY DEF segs, Spelled
  <2>2. path.segs # <<>> => path.segs[1] \in RouteNames
    BY <1>3, <2>1 DEF HealthPaths, RouteNames
  <2> QED BY <2>2, NamedPrefix
<1>5. segs \in HealthPaths \cup {<<"register">>} => Routed(path) = segs
  BY <1>4, RoutedNames DEF segs
<1>6. CASE method = "GET" /\ segs \in HealthPaths
  BY <1>5, <1>6, HealthIsHealth
<1>7. CASE method \in {"GET", "POST"} /\ segs = <<"register">>
  BY <1>5, <1>7, RegisterIsRegister
<1>8. CASE method = "GET" /\ Len(segs) = 2 /\ segs[1] = "register"
  <2>1. Routed(path) \in Seq(STRING) /\ Len(Routed(path)) = 2 /\ Routed(path)[1] = "register"
    <3>1. /\ Routed(path) \in Seq(STRING) /\ Len(Routed(path)) = Len(segs)
          /\ \A i \in 1 .. Len(segs) : segs[i] \in RouteNames => Routed(path)[i] = segs[i]
      BY <1>4, RoutedSegments DEF segs
    <3> QED BY <1>8, <3>1 DEF RouteNames
  <2> QED BY <1>8, <2>1, CheckIsCheck
<1> QED BY <1>3, <1>6, <1>7, <1>8

\* No segment that begins with the prefix is the prefix.
PrefixIsWhole == \A name \in PrefixedNames : config.prefix # <<name>>

\* The converse: what the router takes for a free route.
LEMMA FreeRouteShapes ==
    ASSUME NEW method, NEW segs, RouteOf(method, segs) \in {"health", "register", "check"}
    PROVE  \/ /\ RouteOf(method, segs) = "health" /\ method = "GET"
              /\ Len(segs) = 0 \/ (Len(segs) = 1 /\ segs[1] \in {"ping", "healthz"})
           \/ /\ RouteOf(method, segs) = "register" /\ method \in {"GET", "POST"}
              /\ Len(segs) = 1 /\ segs[1] = "register"
           \/ /\ RouteOf(method, segs) = "check" /\ method = "GET"
              /\ Len(segs) = 2 /\ segs[1] = "register"
<1>1. PICK i \in DOMAIN Routes : Matches(Routes[i], method, segs)
                               /\ RouteOf(method, segs) = Routes[i].name
  BY DEF RouteOf
<1>2. DOMAIN Routes = 1 .. 11
  BY DEF Routes
<1>3. Routes[i].name \in {"health", "register", "check"}
  BY <1>1
<1>4. i \in {1, 2, 3, 5, 6, 7}
  BY <1>2, <1>3 DEF Routes, Route
<1> QED BY <1>1, <1>4 DEF Routes, Route, Matches

LEMMA ShortSequences ==
    ASSUME NEW segs \in Seq(STRING)
    PROVE  /\ Len(segs) = 0 => segs = <<>>
           /\ Len(segs) = 1 => segs = <<segs[1]>> /\ Head(segs) = segs[1]
OBVIOUS

\* A path that respells nothing has the prefix of its route.
LEMMA SpelledPrefix ==
    ASSUME NEW path \in Paths, Mounted(Decoded(path)), ~Respelled(path), config.prefix # <<>>
    PROVE  HasPrefix(path)
<1>1. /\ path.segs \in Seq(STRING) /\ Decoded(path) \in Seq(STRING)
      /\ Len(Decoded(path)) = Len(path.segs)
      /\ \A i \in 1 .. Len(path.segs) : Decoded(path)[i] = Decode(path.segs[i])
  BY DecodedSegments
<1> HIDE DEF Decoded
<1>2. Decoded(path) # <<>> /\ <<Head(Decoded(path))>> = config.prefix
  BY DEF Mounted
<1>3. Len(path.segs) > 0 /\ path.segs # <<>>
  BY <1>1, <1>2
<1>4. Head(path.segs) = path.segs[1] /\ Head(Decoded(path)) = Decode(path.segs[1])
  BY <1>1, <1>2, <1>3
<1>5. Decode(path.segs[1]) = path.segs[1]
  BY <1>1, <1>2, <1>3, <1>4 DEF Respelled
<1> QED BY <1>2, <1>3, <1>4, <1>5 DEF HasPrefix

\* What the router calls a free route the guards spell as one.
LEMMA FreeRoutesAreSpelled ==
    ASSUME NEW path \in Paths, NEW method, method # "HEAD", ~Respelled(path),
           Handler(method, path) \in {"health", "register", "check"}
    PROVE  /\ ~path.slash /\ Spelled(path) \in Seq(STRING)
           /\ config.prefix # <<>> => HasPrefix(path)
           /\ \/ Handler(method, path) = "health" /\ method = "GET" /\ Spelled(path) \in HealthPaths
              \/ /\ Handler(method, path) = "register" /\ method \in {"GET", "POST"}
                 /\ Spelled(path) = <<"register">>
              \/ /\ Handler(method, path) = "check" /\ method = "GET"
                 /\ Len(Spelled(path)) = 2 /\ Spelled(path)[1] = "register"
<1> DEFINE routed == Routed(path)
           segs == Spelled(path)
<1>1. /\ ~path.slash /\ Mounted(Decoded(path))
      /\ Handler(method, path) = RouteOf(method, routed)
  BY DEF Handler, Routed
<1>2. config.prefix # <<>> => HasPrefix(path)
  BY <1>1, SpelledPrefix
<1>3. /\ segs \in Seq(STRING) /\ routed \in Seq(STRING) /\ Len(routed) = Len(segs)
      /\ \A i \in 1 .. Len(segs) : routed[i] \in RouteNames => segs[i] = routed[i]
  BY <1>1, <1>2, RoutedSegments
<1>4. \/ /\ RouteOf(method, routed) = "health" /\ method = "GET"
         /\ Len(routed) = 0 \/ (Len(routed) = 1 /\ routed[1] \in {"ping", "healthz"})
      \/ /\ RouteOf(method, routed) = "register" /\ method \in {"GET", "POST"}
         /\ Len(routed) = 1 /\ routed[1] = "register"
      \/ /\ RouteOf(method, routed) = "check" /\ method = "GET"
         /\ Len(routed) = 2 /\ routed[1] = "register"
  BY <1>1, FreeRouteShapes
<1> HIDE DEF routed, segs
<1>5. /\ Len(segs) = 0 => segs = <<>>
      /\ Len(segs) = 1 => segs = <<segs[1]>>
  BY <1>3, ShortSequences
<1>6. Len(routed) # 0 /\ routed[1] \in RouteNames => segs[1] = routed[1]
  BY <1>3
<1>7. \/ RouteOf(method, routed) = "health" /\ method = "GET" /\ segs \in HealthPaths
      \/ RouteOf(method, routed) = "register" /\ method \in {"GET", "POST"} /\ segs = <<"register">>
      \/ /\ RouteOf(method, routed) = "check" /\ method = "GET"
         /\ Len(segs) = 2 /\ segs[1] = "register"
  <2>1. CASE RouteOf(method, routed) = "health" /\ method = "GET"
             /\ (Len(routed) = 0 \/ (Len(routed) = 1 /\ routed[1] \in {"ping", "healthz"}))
    BY <1>3, <1>5, <1>6, <2>1 DEF HealthPaths, RouteNames
  <2>2. CASE RouteOf(method, routed) = "register" /\ method \in {"GET", "POST"}
             /\ Len(routed) = 1 /\ routed[1] = "register"
    BY <1>3, <1>5, <1>6, <2>2 DEF RouteNames
  <2>3. CASE RouteOf(method, routed) = "check" /\ method = "GET"
             /\ Len(routed) = 2 /\ routed[1] = "register"
    BY <1>3, <1>6, <2>3 DEF RouteNames
  <2> QED BY <1>4, <2>1, <2>2, <2>3
<1> QED BY <1>1, <1>2, <1>3, <1>7 DEF segs

\* What the router calls a free route is free for the authentication.
LEMMA FreeRoutesAreFree ==
    ASSUME NEW path \in Paths, NEW method, method # "HEAD", ~Respelled(path), PrefixIsWhole,
           Handler(method, path) \in {"health", "register", "check"}
    PROVE  AuthFree(method, path)
<1> DEFINE segs == Spelled(path)
<1>1. /\ ~path.slash /\ segs \in Seq(STRING) /\ (config.prefix # <<>> => HasPrefix(path))
      /\ \/ method = "GET" /\ segs \in HealthPaths
         \/ method \in {"GET", "POST"} /\ segs = <<"register">>
         \/ method = "GET" /\ Len(segs) = 2 /\ segs[1] = "register"
  BY FreeRoutesAreSpelled
<1>2. StripPrefix(path) = [segs |-> segs, slash |-> FALSE]
  BY <1>1, TailIsBelow DEF StripPrefix, Spelled, Paths, Root
<1>3. ~Cut(path)
  BY <1>1 DEF Cut, HasPrefix, PrefixIsWhole
<1> HIDE DEF segs
<1>4. method = "GET" /\ Len(segs) = 2 /\ segs[1] = "register" =>
         RegisterCheckPath(method, StripPrefix(path))
  BY <1>1, <1>2 DEF RegisterCheckPath
<1> QED BY <1>1, <1>2, <1>3, <1>4 DEF AuthFree, Is

\* A health check of the router is one for protectRequest, except at the prefix.
LEMMA HealthIsExempt ==
    ASSUME NEW path \in Paths, NEW method, method # "HEAD", ~Respelled(path),
           Handler(method, path) = "health",
           ~(config.prefix # <<>> /\ path.segs = config.prefix)
    PROVE  ExemptFromLimit(method, path)
<1> DEFINE segs == Spelled(path)
<1>1. ~path.slash /\ segs \in Seq(STRING) /\ method = "GET" /\ segs \in HealthPaths
  BY FreeRoutesAreSpelled
<1>2. RelativePath(path) = [segs |-> segs, slash |-> FALSE]
  <2>1. CASE HasPrefix(path)
    <3>1. Len(path.segs) # 1
      <4>1. Len(path.segs) = 1 => path.segs = <<Head(path.segs)>>
        BY ShortSequences DEF Paths
      <4>2. config.prefix = <<Head(path.segs)>> /\ <<Head(path.segs)>> # <<>>
        BY <2>1 DEF HasPrefix
      <4> QED BY <4>1, <4>2
    <3>2. Len(path.segs) > 1
      BY <2>1, <3>1 DEF HasPrefix, Paths
    <3>3. path.slash = FALSE
      BY <1>1 DEF Paths
    <3> QED BY <2>1, <3>2, <3>3, TailIsBelow DEF RelativePath, Spelled, Root
  <2>2. CASE ~HasPrefix(path)
    BY <1>1, <2>2 DEF RelativePath, Spelled, Paths
  <2> QED BY <2>1, <2>2
<1> HIDE DEF segs
<1> QED BY <1>1, <1>2 DEF ExemptFromLimit, Is

-----------------------------------------------------------------------------
(* The inductive invariant *)

\* What has let the request pass stays true of it.
Passed ==
    /\ request.path \in Paths
    /\ phase \in {"app", "routing", "reading", "handling"} =>
          granted \/ ExemptFromLimit(request.method, request.path)
    /\ phase \in {"routing", "reading", "handling"} =>
          ~HasAuth \/ AuthFree(request.method, request.path)
              \/ request.credentials = config.basicAuth
    /\ InHandler => handler \in {"info", "check", "register", "push", "mcp"}

\* What is kept of a body is what has been sent, and fits.
Kept ==
    /\ phase \in {"received", "limiter", "app", "routing"} =>
          reader = "off" /\ total = 0 /\ sent = 0
    /\ reader = "chunk" =>
          total = sent /\ total <= limit /\ limit <= HardMax /\ stream = "locked"

\* Only a path that is not exempt, or not free, is asked and refused.
Refused ==
    /\ phase = "limiter" \/ (phase = "answered" /\ answer \in {429, 503}) =>
          ~ExemptFromLimit(request.method, request.path)
    /\ phase = "answered" /\ answer = 418 => ~AuthFree(request.method, request.path)

IInv == TypeOK /\ Passed /\ Refused /\ PrefixIsWhole /\ Kept /\ ReadingEndsClean

\* While config and request stay, so does what is decided from them.
LEMMA FrameDecides ==
    ASSUME UNCHANGED frame
    PROVE  /\ handler' = handler /\ HasAuth' = HasAuth /\ ReadsBody' = ReadsBody
           /\ ExemptFromLimit(request.method, request.path)' =
                 ExemptFromLimit(request.method, request.path)
           /\ AuthFree(request.method, request.path)' =
                 AuthFree(request.method, request.path)
<1>1. config' = config /\ request' = request
  BY DEF frame
<1> QED BY <1>1 DEF handler, Handler, Mounted, Decoded, HasPrefix, HasAuth, ReadsBody,
              ExemptFromLimit, RelativePath, AuthFree, Cut, StripPrefix

LEMMA MaxBodyInRange ==
    ASSUME NEW env \in Env
    PROVE  ParsePositive(env.maxBody, DefaultMax, HardMax) \in 1 .. HardMax
BY GatewayAssumption, ReaderAssumption DEF ParsePositive

LEMMA InitIInv == Init => IInv
<1> SUFFICES ASSUME Init PROVE IInv
  OBVIOUS
<1>1. TypeOK
  BY GatewayAssumption DEF Init, ReaderInit, TypeOK, ReaderTypeOK, NoConfig, NoRequest
<1>2. Passed
  BY EmptySeq DEF Init, Passed, NoRequest, Root, Paths, InHandler
<1>3. Kept /\ ReadingEndsClean
  BY DEF Init, ReaderInit, Kept, ReadingEndsClean
<1>4. Refused /\ PrefixIsWhole
  BY DEF Init, Refused, PrefixIsWhole, NoConfig
<1> QED BY <1>1, <1>2, <1>3, <1>4 DEF IInv

\* The steps of the body reader.
LEMMA ClientKeeps ==
    ASSUME IInv, phase = "reading", ClientStep
    PROVE  ReaderTypeOK' /\ ReadingEndsClean' /\
           (reader' = "chunk" =>
              total' = sent' /\ total' <= limit' /\ limit' <= HardMax /\ stream' = "locked")
<1> USE ReaderAssumption DEF IInv, TypeOK, ReaderTypeOK, Kept, ReadingEndsClean
<1>1. ASSUME NEW size \in 1 .. MaxChunk, ReceiveChunk(size)
      PROVE  ReaderTypeOK' /\ ReadingEndsClean' /\
             (reader' = "chunk" =>
                total' = sent' /\ total' <= limit' /\ limit' <= HardMax /\ stream' = "locked")
  BY <1>1 DEF ReceiveChunk, Fits, Counted
<1>2. CASE ReceiveEnd
  BY <1>2 DEF ReceiveEnd
<1>3. CASE ReceiveError
  BY <1>3 DEF ReceiveError
<1> QED BY <1>1, <1>2, <1>3 DEF ClientStep

LEMMA NextIInv == IInv /\ [Next]_vars => IInv'
<1> SUFFICES ASSUME IInv, [Next]_vars PROVE IInv'
  OBVIOUS
<1>1. CASE Arrive
  <2>1. PICK env \in Env : config' = CreateConfig(env)
    BY <1>1 DEF Arrive
  <2>2. ASSUME NEW method \in Method, NEW path \in Path,
               NEW credentials \in {NoCredentials} \cup Credentials,
               NEW body \in BOOLEAN, NEW length \in {NoLength} \cup 1 .. HardMax + 1,
               request' = [method |-> method, path |-> path,
                           credentials |-> credentials, length |-> length],
               OpenStream(body)
        PROVE  /\ request'.path \in Paths /\ DOMAIN request' = DOMAIN NoRequest
               /\ ReaderTypeOK' /\ Kept' /\ ReadingEndsClean'
    <3>1. request'.path \in Paths /\ DOMAIN request' = DOMAIN NoRequest
      BY <2>2, GatewayAssumption DEF Paths, NoRequest
    <3>2. ReaderTypeOK' /\ Kept' /\ ReadingEndsClean'
      BY <2>2 DEF OpenStream, ReaderTypeOK, Kept, ReadingEndsClean
    <3> QED BY <3>1, <3>2
  <2>3. /\ request'.path \in Paths /\ DOMAIN request' = DOMAIN NoRequest
        /\ ReaderTypeOK' /\ Kept' /\ ReadingEndsClean'
    BY <1>1, <2>2 DEF Arrive
  <2>4. DOMAIN config' = DOMAIN NoConfig /\ config'.maxBody \in 1 .. HardMax
    BY <2>1, MaxBodyInRange DEF CreateConfig, NoConfig
  <2>6. phase' = "received" /\ granted' = FALSE /\ answer' = 0
    BY <1>1 DEF Arrive
  <2>7. Passed'
    BY <2>3, <2>6 DEF Passed, InHandler
  <2>8. Refused' /\ PrefixIsWhole'
    BY <2>1, <2>6, PrefixAssumption DEF Refused, PrefixIsWhole, CreateConfig
  <2> QED BY <2>3, <2>4, <2>6, <2>7, <2>8 DEF IInv, TypeOK
<1>2. CASE Forget
  <2>1. TypeOK'
    BY <1>2, GatewayAssumption DEF Forget, OpenStream, TypeOK, ReaderTypeOK, NoConfig, NoRequest
  <2>2. Passed'
    BY <1>2, EmptySeq DEF Forget, Passed, NoRequest, Root, Paths, InHandler
  <2>3. Kept' /\ ReadingEndsClean'
    BY <1>2 DEF Forget, OpenStream, Kept, ReadingEndsClean
  <2>4. Refused' /\ PrefixIsWhole'
    BY <1>2 DEF Forget, Refused, PrefixIsWhole, NoConfig
  <2> QED BY <2>1, <2>2, <2>3, <2>4 DEF IInv
<1>3. CASE Step
  <2>1. UNCHANGED frame
    BY <1>3 DEF Step, SkipLimiter, AskLimiter, LimiterGrants, LimiterRefuses, Authenticate,
        RejectCredentials, AnswerDirectly, StartHandler, StartBody, RefuseUnread,
        ClientSends, UseBody, FinishHandler, frame
  <2>2. config' = config /\ request' = request
    BY <2>1 DEF frame
  <2>3. TypeOK' /\ Kept' /\ ReadingEndsClean'
    <3>1. CASE StartBody
      BY <2>2, <3>1, ReaderAssumption DEF IInv, TypeOK, ReaderTypeOK, Kept, ReadingEndsClean,
         StartBody, StartReading
    <3>2. CASE ClientSends
      BY <2>2, <3>2, ClientKeeps DEF IInv, TypeOK, Kept, ClientSends
    <3>3. CASE UNCHANGED readerVars /\ ~StartBody /\ ~ClientSends
      <4>1. limit' = limit /\ reader' = reader /\ stream' = stream /\ total' = total /\ sent' = sent
        BY <3>3 DEF readerVars
      <4>2. \/ answer' \in {400, 403, 404, 405, 418, 429, 503, 200, 500}
                  /\ phase' = "answered" /\ granted' = granted
            \/ /\ phase' \in {"app", "limiter", "routing"}
               /\ phase \in {"received", "limiter", "app"}
               /\ answer' = answer /\ (granted' = granted \/ granted' = TRUE)
            \/ phase' = "handling" /\ answer' = answer /\ granted' = granted
        <5>1. CASE SkipLimiter \/ LimiterGrants \/ Authenticate \/ StartHandler
          BY <5>1 DEF SkipLimiter, LimiterGrants, Authenticate, StartHandler
        <5>2. CASE AskLimiter \/ LimiterRefuses \/ RejectCredentials
          BY <5>2 DEF AskLimiter, LimiterRefuses, RejectCredentials, AnswerWith
        <5>3. CASE AnswerDirectly \/ RefuseUnread \/ UseBody
          BY <5>3 DEF AnswerDirectly, RefuseUnread, UseBody, AnswerWith
        <5>4. CASE FinishHandler
          BY <5>4 DEF FinishHandler, AnswerWith
        <5> QED BY <1>3, <3>3, <5>1, <5>2, <5>3, <5>4 DEF Step
      <4>3. granted' \in BOOLEAN
        <5>1. granted \in BOOLEAN
          BY DEF IInv, TypeOK
        <5>2. granted' = granted \/ granted' = TRUE
          BY <4>2
        <5> QED BY <5>1, <5>2
      <4>4. TypeOK'
        <5>1. phase' \in {"app", "limiter", "routing", "handling", "answered"}
          BY <4>2
        <5>2. answer' \in {0, 200, 400, 403, 404, 405, 418, 429, 500, 503}
          BY <4>2 DEF IInv, TypeOK
        <5> QED BY <2>2, <4>1, <4>3, <5>1, <5>2 DEF IInv, TypeOK, ReaderTypeOK
      <4>5. Kept'
        BY <4>1, <4>2 DEF IInv, Kept
      <4>6. ReadingEndsClean'
        BY <4>1 DEF IInv, ReadingEndsClean
      <4> QED BY <4>4, <4>5, <4>6
    <3>4. UNCHANGED readerVars \/ StartBody \/ ClientSends
      BY <1>3 DEF Step, SkipLimiter, AskLimiter, LimiterGrants, LimiterRefuses, Authenticate,
         RejectCredentials, AnswerDirectly, StartHandler, RefuseUnread, UseBody, FinishHandler
    <3> QED BY <3>1, <3>2, <3>3, <3>4
  <2>4. Passed'
    <3> USE <2>1, <2>2, FrameDecides DEF IInv, Passed, InHandler
    <3>1. CASE SkipLimiter
      BY <3>1 DEF SkipLimiter
    <3>2. CASE LimiterGrants
      BY <3>2 DEF LimiterGrants
    <3>3. CASE Authenticate
      BY <3>3 DEF Authenticate
    <3>4. CASE StartHandler
      BY <3>4 DEF StartHandler
    <3>5. CASE StartBody
      BY <3>5 DEF StartBody, ReadsBody
    <3>6. CASE ClientSends
      BY <3>6 DEF ClientSends
    <3>7. CASE UseBody
      BY <3>7 DEF UseBody, AnswerWith
    <3>8. CASE AskLimiter \/ LimiterRefuses \/ RejectCredentials \/ AnswerDirectly
               \/ RefuseUnread \/ FinishHandler
      <4>1. phase' \in {"limiter", "answered"}
        BY <3>8 DEF AskLimiter, LimiterRefuses, RejectCredentials, AnswerDirectly,
           RefuseUnread, FinishHandler, AnswerWith
      <4> QED BY <4>1
    <3> QED BY <1>3, <3>1, <3>2, <3>3, <3>4, <3>5, <3>6, <3>7, <3>8 DEF Step
  <2>5. PrefixIsWhole'
    BY <2>2 DEF IInv, PrefixIsWhole
  <2>6. Refused'
    <3> USE <2>1, FrameDecides DEF IInv, Refused
    <3>1. CASE SkipLimiter \/ LimiterGrants \/ Authenticate \/ StartHandler \/ StartBody
      <4>1. phase' \in {"app", "routing", "handling", "reading"}
        BY <3>1 DEF SkipLimiter, LimiterGrants, Authenticate, StartHandler, StartBody
      <4> QED BY <4>1
    <3>2. CASE AskLimiter
      BY <3>2 DEF AskLimiter, AnswerWith
    <3>3. CASE LimiterRefuses
      BY <3>3 DEF LimiterRefuses, AnswerWith
    <3>4. CASE RejectCredentials
      BY <3>4 DEF RejectCredentials, AnswerWith
    <3>5. CASE AnswerDirectly \/ RefuseUnread \/ FinishHandler
      <4>1. phase' = "answered" /\ answer' \in {200, 400, 403, 404, 405, 500}
        BY <3>5 DEF AnswerDirectly, RefuseUnread, FinishHandler, AnswerWith
      <4> QED BY <4>1
    <3>6. CASE UseBody
      BY <3>6 DEF UseBody, AnswerWith
    <3>7. CASE ClientSends
      BY <3>7 DEF ClientSends
    <3> QED BY <1>3, <3>1, <3>2, <3>3, <3>4, <3>5, <3>6, <3>7 DEF Step
  <2> QED BY <2>3, <2>4, <2>5, <2>6 DEF IInv
<1>4. CASE UNCHANGED vars
  <2>1. UNCHANGED <<config, request, phase, granted, answer, limit, reader, stream, total, sent>>
    BY <1>4 DEF vars, readerVars
  <2>2. UNCHANGED frame
    BY <2>1 DEF frame
  <2>3. TypeOK' /\ Kept' /\ ReadingEndsClean'
    BY <2>1 DEF IInv, TypeOK, ReaderTypeOK, Kept, ReadingEndsClean
  <2>4. Passed'
    BY <2>1, <2>2, FrameDecides DEF IInv, Passed, InHandler
  <2>5. Refused' /\ PrefixIsWhole'
    BY <2>1, <2>2, FrameDecides DEF IInv, Refused, PrefixIsWhole
  <2> QED BY <2>3, <2>4, <2>5 DEF IInv
<1> QED BY <1>1, <1>2, <1>3, <1>4 DEF Next

LEMMA Inductive == SafetySpec => []IInv
BY InitIInv, NextIInv, PTL DEF SafetySpec

-----------------------------------------------------------------------------
(* Theorems *)

\* Every variable has its type, for any environment and path.
THEOREM GatewayTypeCorrect == SafetySpec => []TypeOK
<1>1. IInv => TypeOK
  BY DEF IInv
<1> QED BY <1>1, Inductive, PTL

\* No handler that reads a body or awaits the registry runs without the
\* limiter's consent, whatever the prefix is.
THEOREM LimiterIsAsked == SafetySpec => []LimiterGuardsRoutes
<1>1. IInv => LimiterGuardsRoutes
  <2> SUFFICES ASSUME IInv, InHandler PROVE granted
    BY DEF LimiterGuardsRoutes
  <2>1. handler \in {"info", "check", "register", "push", "mcp"} /\ request.path \in Paths
    BY DEF IInv, Passed
  <2>2. ~ExemptFromLimit(request.method, request.path)
    BY <2>1, ExemptRoutes DEF handler
  <2> QED BY <2>2 DEF IInv, Passed, InHandler
<1> QED BY <1>1, Inductive, PTL

\* With credentials configured, only registration and its check run without.
THEOREM CredentialsAreAsked == SafetySpec => []CredentialsGuardRoutes
<1>1. IInv => CredentialsGuardRoutes
  <2> SUFFICES ASSUME IInv, InHandler, HasAuth, request.credentials # config.basicAuth
               PROVE  handler \in {"register", "check"}
    BY DEF CredentialsGuardRoutes
  <2>1. handler \in {"info", "check", "register", "push", "mcp"} /\ request.path \in Paths
    BY DEF IInv, Passed
  <2>2. AuthFree(request.method, request.path)
    BY DEF IInv, Passed, InHandler
  <2> QED BY <2>1, <2>2, AuthFreeRoutes DEF handler
<1> QED BY <1>1, Inductive, PTL

\* A body is handed over whole and within the limit, and no stream stays locked,
\* for any limits and chunks.
THEOREM BodiesAreWhole == SafetySpec => []ReadingEndsClean
<1>1. IInv => ReadingEndsClean
  BY DEF IInv
<1> QED BY <1>1, Inductive, PTL

\* What the router takes for a free route or a health check the two guards do not
\* refuse, with two exceptions: the path spells a route or the prefix with
\* percent-encoding, as every path below a prefix that is not ASCII does, or it is
\* the prefix itself, which protectRequest takes for no health check.
OpenRoutesStayOpen ==
    phase = "answered" /\ request.method # "HEAD" /\ ~Respelled(request.path) =>
        /\ answer = 418 => handler \notin {"health", "register", "check"}
        /\ answer \in {429, 503} /\ handler = "health" =>
              config.prefix # <<>> /\ request.path.segs = config.prefix

\* This holds for any prefix, path, decoding and method: apart from percent-encoding the
\* finding that GET /<prefix> is refused is the only one of its kind.
THEOREM FreeRoutesStayOpen == SafetySpec => []OpenRoutesStayOpen
<1>1. IInv => OpenRoutesStayOpen
  <2> SUFFICES ASSUME IInv, phase = "answered", request.method # "HEAD",
                      ~Respelled(request.path)
               PROVE  /\ answer = 418 => handler \notin {"health", "register", "check"}
                      /\ answer \in {429, 503} /\ handler = "health" =>
                            config.prefix # <<>> /\ request.path.segs = config.prefix
    BY DEF OpenRoutesStayOpen
  <2>1. request.path \in Paths /\ PrefixIsWhole /\ Refused
    BY DEF IInv, Passed
  <2>2. answer = 418 => handler \notin {"health", "register", "check"}
    BY <2>1, FreeRoutesAreFree DEF handler, Refused
  <2>3. answer \in {429, 503} /\ handler = "health" =>
           config.prefix # <<>> /\ request.path.segs = config.prefix
    BY <2>1, HealthIsExempt DEF handler, Refused
  <2> QED BY <2>2, <2>3
<1> QED BY <1>1, Inductive, PTL

=============================================================================
