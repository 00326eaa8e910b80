------------------------------ MODULE PushParams ------------------------------
(***************************************************************************)
(* Which devices a request to the push routes reaches.  Its parameters     *)
(* come from the body, the query and the path and are merged in that order *)
(* (V2, JSON) or query, form, path (V1); the names of a JSON body are not  *)
(* folded before the merge but, in buildPushMessage, after it.  How the    *)
(* calls of a batch run, and its limit, is the subject of BatchPush.       *)
(***************************************************************************)
EXTENDS Params

CONSTANTS
    NoParam,    \* the path has no device_key
    NotString,  \* a JSON value that is no string
    Bodies,     \* JSON bodies: objects whose values are keys, lists, NotString
    Entries     \* queries and forms: sequences of entries whose names may repeat

Strings == Key \cup {NoKey}

Values == Strings \cup {NotString} \cup Seq(Strings)

ASSUME PushParamsAssumption ==
    \A object \in Bodies \cup Entries : object \in Seq([name: STRING, value: Values])

VARIABLES
    request,    \* [version, body, query, path] of the request
    stage,      \* "received", "pushed", or refused (400): "badRequest", "invalidKeys"
    targets     \* the device keys of its pushOne calls, in order

vars == <<request, stage, targets>>

Requests ==
    [version: {"V1"}, body: Entries, query: Entries, path: Key \cup {NoParam}]
    \cup
    [version: {"V2"}, body: Bodies, query: Entries, path: Key \cup {NoParam}]

TypeOK ==
    /\ request \in Requests
    /\ stage \in {"received", "pushed", "badRequest", "invalidKeys"}
    /\ targets \in Seq(Strings)

Init ==
    /\ request \in Requests
    /\ stage = "received"
    /\ targets = <<>>

PathParams == IF request.path = NoParam THEN <<>>
              ELSE <<Entry("device_key", request.path)>>

\* The body is too large or no form or JSON, or the path cannot be decoded.
RejectRequest ==
    /\ stage = "received"
    /\ stage' = "badRequest"
    /\ UNCHANGED <<request, targets>>

Answer(keys) ==
    /\ stage' = "pushed"
    /\ targets' = keys
    /\ UNCHANGED request

\* Seeded fault: the path is merged before the query and the form.
PathFirst ==
    AssignAll(AssignAll(PathParams, LowerCaseEntryMap(request.query)),
              LowerCaseEntryMap(request.body))

ParamsV1 ==
    AssignAll(AssignAll(LowerCaseEntryMap(request.query),
                        LowerCaseEntryMap(request.body)),
              PathParams)

\* A form or a GET: device_keys is an ordinary parameter.
PushV1 ==
    /\ request.version = "V1"
    /\ stage = "received"
    /\ Answer(<<DeviceKey(ParamsV1)>>)

ParamsV2 ==
    AssignAll(AssignAll(request.body, LowerCaseEntryMap(request.query)), PathParams)

\* readDeviceKeys: a string is split at its commas; one of several parts is
\* represented by the list of its parts.
ReadDeviceKeys(value) == IF value \in Strings THEN <<value>> ELSE value

ListedKeys ==
    IF Has(ParamsV2, "device_keys")
      THEN ReadDeviceKeys(Get(ParamsV2, "device_keys")) ELSE <<>>

RejectKeys ==
    /\ request.version = "V2"
    /\ stage = "received"
    /\ Has(ParamsV2, "device_keys")
    /\ Get(ParamsV2, "device_keys") = NotString
    /\ stage' = "invalidKeys"
    /\ UNCHANGED <<request, targets>>

\* Seeded fault: the key of the batch goes in front of the parameters.
KeyInFront(params, key) == <<Entry("device_key", key)>> \o params

\* { ...params, device_key: key }
WithKey(params, key) == Assign(params, "device_key", key)

PushV2 ==
    LET keys == ListedKeys
        rest == Delete(ParamsV2, "device_keys")
    IN
    /\ request.version = "V2"
    /\ stage = "received"
    /\ keys # NotString
    /\ Answer(IF Len(keys) = 0 THEN <<DeviceKey(rest)>>
              ELSE [i \in 1 .. Len(keys) |-> DeviceKey(WithKey(rest, keys[i]))])

Next == RejectRequest \/ PushV1 \/ RejectKeys \/ PushV2

Spec == Init /\ [][Next]_vars

-----------------------------------------------------------------------------
(* Properties *)

\* /:device_key/... reaches the device of the path: no spelling of device_key
\* in a query or a form overrides it, nor in a JSON body that does not itself
\* spell device_key in two ways.
PathDecides ==
    /\ stage = "pushed"
    /\ request.path # NoParam
    /\ request.version = "V1" \/ NamesDistinct(request.body)
    /\ request.version = "V1" \/ ListedKeys = <<>>
    => targets = <<request.path>>

\* A batch reaches the devices it lists, one by one and in their order, although
\* body, query and path may name a device as well.
BatchReachesListed ==
    /\ stage = "pushed"
    /\ request.version = "V2"
    /\ ListedKeys # <<>>
    /\ NamesDistinct(request.body)
    => targets = ListedKeys

=============================================================================
