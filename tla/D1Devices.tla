------------------------------ MODULE D1Devices ------------------------------
(***************************************************************************)
(* The `devices` table of the D1 database and the SQL statements the       *)
(* registry sends to it.  D1 is SQLite behind an asynchronous call: one    *)
(* statement is atomic, two statements of one request are not, and a call  *)
(* may throw whether or not its statement was applied.  The modules that   *)
(* EXTEND this one decide when a statement runs and what its caller does   *)
(* with the answer; here is only what each statement does to the table.    *)
(***************************************************************************)
EXTENDS Naturals, FiniteSets

CONSTANTS
    Key,        \* every device key of a row or of a request
    NoKey,      \* the empty key, which no row has
    Token,      \* non-empty APNs device tokens
    Absent,     \* "the table has no row with this key"
    Cleared     \* the empty token '' of a row whose token was taken away

\* Keys are finite in number: a key is a string of 22 letters or came with an
\* import.  '' is no token a request can store (register.ts refuses it).
ASSUME D1Assumption ==
    /\ IsFiniteSet(Key)
    /\ NoKey \notin Key
    /\ Absent \notin Token \cup {Cleared}
    /\ Cleared \notin Token

VARIABLE devices    \* the table: device_key -> device_token, or Absent

Tables == [Key -> Token \cup {Absent, Cleared}]

Rows == {k \in Key : devices[k] # Absent}

\* SELECT COUNT(*): cleared rows count as well.
countAll == Cardinality(Rows)

\* Seeded fault: the empty token is taken for a token.
AnyRow(k) == devices[k] # Absent

\* SELECT device_token ... WHERE device_key = k; deviceTokenByKey throws for
\* a missing row and for an empty token alike.
HasToken(k) == devices[k] \in Token

\* Seeded fault: the UPDATE takes no row whose token was cleared.
MatchesToken(k) == devices[k] \in Token

\* UPDATE ... SET device_token = t WHERE device_key = k; `changes` > 0 exactly
\* when the row exists.
UpdateMatches(k) == devices[k] # Absent

UpdateDevice(k, t) == devices' = [devices EXCEPT ![k] = t]

\* Seeded fault: the INSERT without its COUNT.
InsertUncounted(k, max) == devices[k] = Absent

\* Seeded fault: INSERT OR REPLACE.
InsertOrReplace(k, max) == countAll < max

\* INSERT ... SELECT ... WHERE (SELECT COUNT(*)) < max ON CONFLICT DO NOTHING:
\* the count and the insertion are one statement.
InsertApplies(k, max) ==
    /\ countAll < max
    /\ devices[k] = Absent

InsertDevice(k, t) == devices' = [devices EXCEPT ![k] = t]

\* Seeded fault: the cleanup does not compare the token.
ClearAnyToken(k, expected) == devices' = [devices EXCEPT ![k] = Cleared]

\* Seeded fault: DELETE instead of clearing the token.
DeleteRow(k, expected) ==
    devices' = [devices EXCEPT ![k] = IF @ = expected THEN Absent ELSE @]

\* UPDATE ... SET device_token = '' WHERE device_key = k AND device_token = t:
\* a compare-and-set that leaves the row in place.
ClearDevice(k, expected) ==
    devices' = [devices EXCEPT ![k] = IF @ = expected THEN Cleared ELSE @]

=============================================================================
