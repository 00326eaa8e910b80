----------------------------- MODULE MCGateway -----------------------------
(***************************************************************************)
(* Paths below and beside the prefix "bark", with and without a last "/",  *)
(* names spelled with percent-encoding, and environments whose prefix and  *)
(* limit are spelled in several ways.  The name "baerk" stands for one that *)
(* is not ASCII, which a URL spells "b%C3%A4rk".                           *)
(***************************************************************************)
EXTENDS Gateway

Names == {"ping", "info", "register", "mcp", "k"}

Relative == {<<>>} \cup {<<n>> : n \in Names}
    \cup {<<"register", "k">>, <<"mcp", "k">>, <<"k", "ping">>, <<"register", "k", "k">>}

MCEscapes ==
    [raw \in {"%70ing", "%72egister", "%62ark", "%6B", "b%C3%A4rk"} |->
        CASE raw = "%70ing" -> "ping"
          [] raw = "%72egister" -> "register"
          [] raw = "%62ark" -> "bark"
          [] raw = "%6B" -> "k"
          [] raw = "b%C3%A4rk" -> "baerk"]

EscapedPaths ==
    { <<"%70ing">>, <<"%72egister", "k">>, <<"register", "%6B">>,
      <<"bark", "%70ing">>, <<"%62ark", "ping">>, <<"%62ark", "register", "k">>,
      <<"b%C3%A4rk">>, <<"b%C3%A4rk", "ping">>, <<"b%C3%A4rk", "register">>,
      <<"b%C3%A4rk", "k">> }

MCPath ==
    {Root} \cup {[segs |-> s, slash |-> FALSE] : s \in EscapedPaths} \cup
    {[segs |-> s, slash |-> e] : s \in Relative \ {<<>>}, e \in BOOLEAN} \cup
    {[segs |-> <<"bark">> \o s, slash |-> e] : s \in Relative, e \in BOOLEAN} \cup
    {[segs |-> <<s>>, slash |-> FALSE] : s \in {"barkping", "barkregister"}}

\* The health checks of deployments with and without the prefix "bark".
MCHealthPaths ==
    {[segs |-> prefix \o segs, slash |-> FALSE] :
        prefix \in {<<>>, <<"bark">>}, segs \in {<<>>, <<"ping">>, <<"healthz">>}}

MCCredentials == {<<"user", "">>, <<"user", "secret">>}

MCEnv ==
    [prefix : {<<>>, <<"/", "/">>, <<"/", "bark", "/">>, <<"baerk">>, <<"b%C3%A4rk">>},
     basicAuth : {<<"", "">>} \cup MCCredentials,
     maxBody : {Unset, 0, 1, HardMax, HardMax + 1}, limiter : BOOLEAN]

=============================================================================
