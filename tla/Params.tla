-------------------------------- MODULE Params --------------------------------
(***************************************************************************)
(* Parameter objects.  A JavaScript object is the sequence of its entries  *)
(* in insertion order, with distinct names.  Of the names only those       *)
(* matter here that decide where a push goes: device_key, which            *)
(* buildPushMessage recognizes in any case, and device_keys.               *)
(***************************************************************************)
EXTENDS Naturals, Sequences, SequencesExt

CONSTANTS
    Key,        \* device keys
    NoKey       \* the empty string

\* "Device_Key" stands for every spelling of device_key with a capital letter.
Lower(name) == IF name = "Device_Key" THEN "device_key" ELSE name

Entry(name, value) == [name |-> name, value |-> value]

Has(object, name) == \E i \in 1 .. Len(object) : object[i].name = name

\* The place of a name the object has.
Position(object, name) == CHOOSE i \in 1 .. Len(object) : object[i].name = name

\* object[name], for a name the object has.
Get(object, name) == object[Position(object, name)].value

\* object[name] = value: an entry that exists keeps its place.
Assign(object, name, value) ==
    IF Has(object, name)
      THEN [i \in 1 .. Len(object) |->
              IF object[i].name = name THEN Entry(name, value) ELSE object[i]]
      ELSE Append(object, Entry(name, value))

\* Object.assign(object, source)
AssignAll(object, source) ==
    LET merged[n \in 0 .. Len(source)] ==
            IF n = 0 THEN object
            ELSE Assign(merged[n - 1], source[n].name, source[n].value)
    IN  merged[Len(source)]

\* lowerCaseEntryMap, for entries whose names may repeat.
LowerCaseEntryMap(entries) ==
    AssignAll(<<>>, [i \in 1 .. Len(entries) |->
                        Entry(Lower(entries[i].name), entries[i].value)])

\* delete object[name]
Delete(object, name) ==
    IF Has(object, name) THEN RemoveAt(object, Position(object, name)) ELSE object

\* Seeded fault: a value of any type is taken for the device key.
NamedByAny(object) == {i \in 1 .. Len(object) : Lower(object[i].name) = "device_key"}

\* The entries buildPushMessage takes for the device key, whatever their spelling.
Named(object) ==
    {i \in 1 .. Len(object) :
        Lower(object[i].name) = "device_key" /\ object[i].value \in Key \cup {NoKey}}

\* message.deviceKey of buildPushMessage: the last of them; "" if there is none.
DeviceKey(object) ==
    IF Named(object) = {} THEN NoKey
    ELSE object[CHOOSE i \in Named(object) : \A j \in Named(object) : j <= i].value

\* No two names of the object fold together.
NamesDistinct(object) ==
    \A i, j \in 1 .. Len(object) :
        Lower(object[i].name) = Lower(object[j].name) => i = j

=============================================================================
