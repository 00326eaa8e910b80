---------------------------- MODULE MCPushParams ----------------------------
(* Every object over three names with a few values each, and every query and *)
(* form of at most two entries.                                              *)
EXTENDS PushParams, SequencesExt

CONSTANTS k1, k2

BodyValues == [device_key  |-> {k1, NoKey, NotString},
               Device_Key  |-> {k2, NotString},
               device_keys |-> {<<>>, <<k1, k2>>, k2, NotString}]

\* The ways to order some of the names.
Spellings == UNION {SetToSeqs(names) : names \in SUBSET DOMAIN BodyValues}

MCBodies ==
    UNION {{body \in [1 .. Len(names) -> UNION {
                        {Entry(n, v) : v \in BodyValues[n]} : n \in DOMAIN BodyValues}] :
               \A i \in 1 .. Len(names) : body[i].name = names[i]} :
           names \in Spellings}

MCEntry == {Entry("device_key", k1), Entry("device_key", NoKey),
            Entry("Device_Key", k2), Entry("device_keys", <<k2, k1>>)}

MCEntries == UNION {[1 .. n -> MCEntry] : n \in 0 .. 2}

=============================================================================
