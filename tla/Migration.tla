------------------------------ MODULE Migration ------------------------------
(***************************************************************************)
(* Moving the devices of an old Bark server: bark-db export writes its     *)
(* Bolt file to an export file, device-export-to-d1.mjs converts that to   *)
(* SQL which wrangler executes in D1, and bark-db import makes a Bolt file *)
(* of it for the way back.  The export carries a checksum over its rows    *)
(* sorted by key; the three programs sort with two different orders.       *)
(* Files may be damaged between two programs, and a program may fail or be *)
(* killed between two of its system calls.                                 *)
(***************************************************************************)
EXTENDS Naturals, Sequences, FiniteSets, SequencesExt

CONSTANTS
    Key, Token,
    Absent,         \* no such row, or no such file
    Partial,        \* a file that is no complete JSON document
    ByteOrder,      \* the keys in the order of < on Go strings
    LocaleOrder,    \* the keys in the order of localeCompare
    Importer        \* bark-db import processes with the same -output

ASSUME MigrationAssumption ==
    /\ IsFiniteSet(Key)
    /\ Absent \notin Token /\ Absent \notin [Key -> Token \cup {Absent}]
    /\ Partial # Absent
    /\ \A order \in {ByteOrder, LocaleOrder} :
          order \in [1 .. Cardinality(Key) -> Key] /\ Range(order) = Key

Tables == [Key -> Token \cup {Absent}]

VARIABLES
    source,     \* the rows of the old Bolt file, which nobody writes any more
    export,     \* devices.bark-export.json
    damaged,    \* history: the file was changed after it was exported
    sql,        \* devices.bark-backup.sql: the rows of its statements
    table,      \* the devices table of D1
    executed,   \* history: the SQL file was executed when it was complete
    target,     \* the rows of the new Bolt file
    ephase, cphase, iphase,     \* of export, conversion, and each import
    cdevices, idevices,         \* the devices they have read and verified
    linked,     \* the imports that have the file at -output open, and locked
    seen        \* history: what was at -output when an import looked

exportVars == <<export, damaged, ephase>>
convertVars == <<sql, cphase, cdevices>>
d1Vars == <<table, executed>>
importVars == <<target, iphase, idevices, linked, seen>>
vars == <<source, exportVars, convertVars, d1Vars, importVars>>

-----------------------------------------------------------------------------
(* Rows, orders and the checksum *)

Row == [key: Key, token: Token]

Rank(order, key) == CHOOSE i \in DOMAIN order : order[i] = key

\* The place of a row is the number of rows before it; keys are distinct.
Place(devices, order, i) ==
    1 + Cardinality({j \in DOMAIN devices :
                        Rank(order, devices[j].key) < Rank(order, devices[i].key)})

SortedBy(devices, order) ==
    [n \in 1 .. Len(devices) |->
        devices[CHOOSE i \in DOMAIN devices : Place(devices, order, i) = n]]

\* canonicalHash, checksumDevices: SHA-256 of the rows, one after the other.
\* Only equal lists have the same sum, so the list stands for it.
Checksum(devices) == devices

\* Seeded fault: keys without a token are rows too.
RowsOfAllKeys(t) == {[key |-> k, token |-> t[k]] : k \in Key}

RowsOf(t) == {[key |-> k, token |-> t[k]] : k \in {k \in Key : t[k] # Absent}}

\* The devices of a table, in any order.
Listings(t) ==
    {s \in [1 .. Cardinality(RowsOf(t)) -> RowsOf(t)] : Range(s) = RowsOf(t)}

Payload(devices, sha) == [count |-> Len(devices), sha256 |-> sha, devices |-> devices]

WellFormed(file) ==
    /\ file.count = Len(file.devices)
    /\ IsInjective([i \in DOMAIN file.devices |-> file.devices[i].key])

\* Seeded fault: the checksum is not compared.
UnsummedExport(file, order) == file # Partial /\ WellFormed(file)

\* json.Unmarshal and validateExport, parseDeviceExport
Accepted(file, order) ==
    /\ file # Partial
    /\ WellFormed(file)
    /\ Checksum(SortedBy(file.devices, order)) = file.sha256

\* INSERT ... ON CONFLICT(device_key) DO UPDATE, or Put, row by row.
Upsert(t, rows) ==
    [k \in Key |->
        IF \E i \in DOMAIN rows : rows[i].key = k
          THEN rows[CHOOSE i \in DOMAIN rows : rows[i].key = k].token ELSE t[k]]

\* Seeded fault: ON CONFLICT DO NOTHING.
InsertNew(t, rows) ==
    [k \in Key |-> IF t[k] # Absent THEN t[k] ELSE Upsert(t, rows)[k]]

\* Seeded fault: the table is emptied first.
UpsertCleared(t, rows) == Upsert([k \in Key |-> Absent], rows)

\* wrangler d1 execute --file: all of the statements or none.
D1After(t, rows) == Upsert(t, rows)

Empty == [k \in Key |-> Absent]

Init ==
    /\ source \in Tables
    \* D1 is empty, or holds rows of an earlier attempt, with older tokens.
    /\ table \in {t \in Tables : \A k \in Key : source[k] = Absent => t[k] = Absent}
    /\ export = Absent /\ sql = Absent /\ target = Absent
    /\ damaged = FALSE /\ executed = FALSE
    /\ ephase = "idle" /\ cphase = "idle" /\ iphase = [i \in Importer |-> "idle"]
    /\ cdevices = <<>> /\ idevices = [i \in Importer |-> <<>>]
    /\ linked = {} /\ seen = [i \in Importer |-> Absent]

-----------------------------------------------------------------------------
(* bark-db export *)

\* O_EXCL: an existing file is not touched.
CreateExport ==
    /\ ephase = "idle"
    /\ \/ export = Absent /\ export' = Partial /\ ephase' = "writing"
       \/ export # Absent /\ ephase' = "failed" /\ UNCHANGED export
    /\ UNCHANGED <<source, damaged, convertVars, d1Vars, importVars>>

\* ForEach, sort.Slice, canonicalHash, and the write of writeExclusive.
WriteExport ==
    /\ ephase = "writing"
    /\ \E devices \in Listings(source) :
          LET sorted == SortedBy(devices, ByteOrder)
          IN  export' = Payload(sorted, Checksum(sorted))
    /\ ephase' = "exported"
    /\ UNCHANGED <<source, damaged, convertVars, d1Vars, importVars>>

\* Write or Sync fails, and the file is removed.  A kill leaves it as it is.
ExportStops ==
    /\ ephase = "writing"
    /\ export' \in {Absent, export}
    /\ ephase' = "failed"
    /\ UNCHANGED <<source, damaged, convertVars, d1Vars, importVars>>

-----------------------------------------------------------------------------
(* What happens to the files between two programs *)

\* A row is lost, gets another token, or is there twice; or the file is cut.
Damages(devices) ==
    {Tail(devices), Append(devices, Head(devices))}
        \cup {[devices EXCEPT ![1].token = token] : token \in Token \ {Head(devices).token}}

DamageExport ==
    /\ ephase = "exported" /\ ~damaged
    /\ damaged' = TRUE
    /\ \/ export' = Partial
       \/ /\ export.devices # <<>>
          /\ \E devices \in Damages(export.devices) : \E count \in {export.count, Len(devices)} :
                export' = [export EXCEPT !.devices = devices, !.count = count]
    /\ UNCHANGED <<source, ephase, convertVars, d1Vars, importVars>>

\* The operator clears away what a failed conversion has left, and retries.
DiscardSql ==
    /\ cphase = "failed"
    /\ sql' = Absent /\ cphase' = "idle"
    /\ UNCHANGED <<source, exportVars, cdevices, d1Vars, importVars>>

\* wrangler d1 execute: also a file whose conversion has stopped half-way.
ExecuteSql ==
    /\ sql # Absent
    /\ table' = D1After(table, sql)
    /\ executed' = (executed \/ cphase = "converted")
    /\ UNCHANGED <<source, exportVars, convertVars, importVars>>

-----------------------------------------------------------------------------
(* device-export-to-d1.mjs *)

convertFrame == <<source, exportVars, d1Vars, importVars>>

RefuseExport ==
    /\ cphase = "idle" /\ export # Absent
    /\ ~Accepted(export, LocaleOrder)
    /\ cphase' = IF export # Partial /\ WellFormed(export) THEN "mismatch" ELSE "refused"
    /\ UNCHANGED <<sql, cdevices, convertFrame>>

\* The flag "wx": an existing file is not touched.
CreateSql ==
    /\ cphase = "idle" /\ export # Absent
    /\ Accepted(export, LocaleOrder)
    /\ \/ /\ sql = Absent
          /\ sql' = <<>> /\ cphase' = "writing"
          /\ cdevices' = SortedBy(export.devices, LocaleOrder)
       \/ sql # Absent /\ cphase' = "failed" /\ UNCHANGED <<sql, cdevices>>
    /\ UNCHANGED convertFrame

WriteStatement ==
    /\ cphase = "writing" /\ Len(sql) < Len(cdevices)
    /\ sql' = Append(sql, cdevices[Len(sql) + 1])
    /\ UNCHANGED <<cphase, cdevices, convertFrame>>

FinishSql ==
    /\ cphase = "writing" /\ Len(sql) = Len(cdevices)
    /\ cphase' = "converted"
    /\ UNCHANGED <<sql, cdevices, convertFrame>>

\* A write fails, or the script is killed: nothing removes the file.
ConversionStops ==
    /\ cphase = "writing"
    /\ cphase' = "failed"
    /\ UNCHANGED <<sql, cdevices, convertFrame>>

-----------------------------------------------------------------------------
(* bark-db import *)

importFrame == <<source, exportVars, convertVars, d1Vars>>

GoTo(i, phase) == iphase' = [iphase EXCEPT ![i] = phase]

ImportReads(i) ==
    /\ iphase[i] = "idle" /\ export # Absent
    /\ \/ /\ Accepted(export, ByteOrder)
          /\ idevices' = [idevices EXCEPT ![i] = SortedBy(export.devices, ByteOrder)]
          /\ GoTo(i, "validated")
       \/ ~Accepted(export, ByteOrder) /\ GoTo(i, "refused") /\ UNCHANGED idevices
    /\ UNCHANGED <<target, linked, seen, importFrame>>

Look(i, next) ==
    /\ iphase[i] = "validated"
    /\ seen' = [seen EXCEPT ![i] = target]
    /\ GoTo(i, next)
    /\ UNCHANGED <<target, idevices, linked, importFrame>>

\* Seeded fault: a file that is there is opened.
OpenAnyTarget(i) == Look(i, "absent")

\* os.Stat
LookForTarget(i) == Look(i, IF target = Absent THEN "absent" ELSE "refused")

\* bolt.Open creates the file, or opens the one created since, unless another
\* process holds its lock for longer than the time-out.
OpenTarget(i) ==
    /\ iphase[i] = "absent"
    /\ \/ /\ linked = {}
          /\ target' = IF target = Absent THEN Empty ELSE target
          /\ linked' = {i} /\ GoTo(i, "open")
       \/ linked # {} /\ GoTo(i, "refused") /\ UNCHANGED <<target, linked>>
    /\ UNCHANGED <<idevices, seen, importFrame>>

\* db.Update commits one transaction; a removed file takes it along.
UpdateTarget(i) ==
    /\ iphase[i] = "open"
    /\ GoTo(i, "updated")
    /\ target' = IF i \in linked THEN Upsert(target, idevices[i]) ELSE target
    /\ UNCHANGED <<idevices, linked, seen, importFrame>>

\* db.Sync, and db.Close releases the lock.
FinishImport(i) ==
    /\ iphase[i] = "updated"
    /\ GoTo(i, "imported") /\ linked' = linked \ {i}
    /\ UNCHANGED <<target, idevices, seen, importFrame>>

\* Update or Sync fails: the file is closed, then removed by its name.
CloseTarget(i) ==
    /\ iphase[i] \in {"open", "updated"}
    /\ GoTo(i, "closed") /\ linked' = linked \ {i}
    /\ UNCHANGED <<target, idevices, seen, importFrame>>

RemoveTarget(i) ==
    /\ iphase[i] = "closed"
    /\ GoTo(i, "failed") /\ target' = Absent /\ linked' = {}
    /\ UNCHANGED <<idevices, seen, importFrame>>

ImportIsKilled(i) ==
    /\ iphase[i] \in {"open", "updated", "closed"}
    /\ GoTo(i, "killed") /\ linked' = linked \ {i}
    /\ UNCHANGED <<target, idevices, seen, importFrame>>

Import(i) ==
    \/ ImportReads(i) \/ LookForTarget(i) \/ OpenTarget(i) \/ UpdateTarget(i)
    \/ FinishImport(i) \/ CloseTarget(i) \/ RemoveTarget(i) \/ ImportIsKilled(i)

Next ==
    \/ CreateExport \/ WriteExport \/ ExportStops
    \/ DamageExport \/ DiscardSql \/ ExecuteSql
    \/ RefuseExport \/ CreateSql \/ WriteStatement \/ FinishSql \/ ConversionStops
    \/ \E i \in Importer : Import(i)

Spec == Init /\ [][Next]_vars

-----------------------------------------------------------------------------
(* Properties *)

\* Every variable has its type.
TypeOK ==
    /\ source \in Tables /\ table \in Tables /\ target \in Tables \cup {Absent}
    /\ export \in {Absent, Partial} \/
          (export.count \in Nat /\ Range(export.devices) \cup Range(export.sha256) \subseteq Row)
    /\ sql = Absent \/ Range(sql) \subseteq Row
    /\ damaged \in BOOLEAN /\ executed \in BOOLEAN
    /\ ephase \in {"idle", "writing", "exported", "failed"}
    /\ cphase \in {"idle", "refused", "mismatch", "writing", "converted", "failed"}
    /\ \A i \in Importer :
          /\ iphase[i] \in {"idle", "validated", "absent", "open", "updated", "closed",
                            "refused", "imported", "failed", "killed"}
          /\ Range(idevices[i]) \subseteq Row
    /\ Range(cdevices) \subseteq Row /\ linked \subseteq Importer
    /\ seen \in [Importer -> Tables \cup {Absent}]

\* After a complete SQL file was executed, D1 holds the exported rows, however the
\* export was damaged before or while the script ran, and whatever was executed
\* before: half a file, or an older export.
MigrationIsComplete == executed => table = source

\* Executing a SQL file never loses a row of D1 and never writes one that the old
\* server had not, also when the script has stopped half-way through the file, the
\* export was damaged, or the file is executed again.
UploadsOnlyRenew ==
    [][\A k \in Key : table'[k] # table[k] =>
          source[k] # Absent /\ table'[k] = source[k]]_vars

\* At no time, not between two statements and not after a crash, does the new
\* Bolt file hold a part of the exported rows or a damaged one, also when two
\* imports write to it.
TargetIsWhole == target \in {Absent, Empty, source}

\* An import that reports success has left its file, and no later import takes
\* it away: only one that had looked before the file was there, and then failed,
\* may have removed it.
ImportedIsThere ==
    \A i \in Importer : iphase[i] = "imported" =>
        \/ target = source
        \/ \E j \in Importer \ {i} : iphase[j] = "failed" /\ seen[j] = Absent

\* docs/MIGRATION.md: only a failed verification refuses an export.  The script
\* answers "device export checksum mismatch", so it says that the file was
\* damaged.  (Violated: the checksum is taken after another sort.)
AuthenticExportConverts == cphase = "mismatch" => damaged

=============================================================================
