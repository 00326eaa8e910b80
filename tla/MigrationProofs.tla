---------------------------- MODULE MigrationProofs ----------------------------
(***************************************************************************)
(* Proofs about the migration, for any devices, any two orders of the keys *)
(* and any number of imports at once.                                      *)
(***************************************************************************)
EXTENDS Migration, FunctionTheorems, FiniteSetTheorems, SequenceTheorems, TLAPS

Orders == {ByteOrder, LocaleOrder}

\* Rows whose keys are all different.
Distinct(devices) ==
    /\ devices \in Seq(Row)
    /\ \A i, j \in 1 .. Len(devices) : devices[i].key = devices[j].key => i = j

-----------------------------------------------------------------------------
(* The sorts *)

\* An order ranks the keys, each at a rank of its own.
LEMMA RankIsOneToOne ==
    ASSUME NEW order \in Orders, NEW a \in Key, NEW b \in Key
    PROVE  /\ Rank(order, a) \in Nat
           /\ Rank(order, a) = Rank(order, b) => a = b
<1>1. /\ order \in [1 .. Cardinality(Key) -> Key] /\ Range(order) = Key
      /\ Cardinality(Key) \in Nat
  BY MigrationAssumption, FS_CardinalityType DEF Orders
<1>2. ASSUME NEW k \in Key
      PROVE  Rank(order, k) \in 1 .. Cardinality(Key) /\ order[Rank(order, k)] = k
  <2>1. \E i \in DOMAIN order : order[i] = k
    BY <1>1 DEF Range
  <2> QED BY <1>1, <2>1 DEF Rank
<1>3. Rank(order, a) \in 1 .. Cardinality(Key)
  BY <1>2
<1>4. order[Rank(order, a)] = a /\ order[Rank(order, b)] = b
  BY <1>2
<1> QED BY <1>1, <1>3, <1>4

\* The rows before a row are fewer than all, and fewer than those before the next.
LEMMA PlaceIsOneToOne ==
    ASSUME NEW order \in Orders, NEW devices, Distinct(devices)
    PROVE  [i \in 1 .. Len(devices) |-> Place(devices, order, i)]
              \in Injection(1 .. Len(devices), 1 .. Len(devices))
<1> DEFINE N == 1 .. Len(devices)
<1>1. /\ DOMAIN devices = N /\ Len(devices) \in Nat
      /\ \A i \in N : devices[i].key \in Key
  <2>1. DOMAIN devices = N /\ Len(devices) \in Nat /\ \A i \in N : devices[i] \in Row
    BY DEF Distinct
  <2> QED BY <2>1 DEF Row
<1> DEFINE rank(i) == Rank(order, devices[i].key)
           before(i) == {j \in N : rank(j) < rank(i)}
<1>2. \A i, j \in N : rank(i) \in Nat /\ (rank(i) = rank(j) => i = j)
  BY <1>1, RankIsOneToOne DEF Distinct
<1> HIDE DEF rank
<1>3. IsFiniteSet(N) /\ Cardinality(N) = Len(devices)
  BY <1>1, FS_Interval
<1>4. ASSUME NEW i \in N
      PROVE  /\ IsFiniteSet(before(i)) /\ Cardinality(before(i)) \in Nat
             /\ Cardinality(before(i)) + 1 <= Len(devices)
             /\ Place(devices, order, i) = Cardinality(before(i)) + 1
  <2>1. IsFiniteSet(before(i)) /\ Cardinality(before(i)) \in Nat
    BY <1>3, FS_Subset, FS_CardinalityType
  <2>2. i \notin before(i) /\ before(i) \cup {i} \subseteq N
    BY <1>2
  <2>3. Cardinality(before(i) \cup {i}) = Cardinality(before(i)) + 1
    BY <2>1, <2>2, FS_AddElement
  <2>4. Cardinality(before(i) \cup {i}) <= Len(devices)
    BY <1>3, <2>2, FS_Subset
  <2>5. Place(devices, order, i) = 1 + Cardinality(before(i))
    BY <1>1 DEF Place, rank
  <2> QED BY <2>1, <2>3, <2>4, <2>5
<1>5. ASSUME NEW i \in N, NEW j \in N, rank(i) < rank(j)
      PROVE  Cardinality(before(i)) < Cardinality(before(j))
  <2>1. before(i) \cup {i} \subseteq before(j) /\ i \notin before(i)
    BY <1>2, <1>5
  <2>2. Cardinality(before(i) \cup {i}) = Cardinality(before(i)) + 1
    BY <1>4, <2>1, FS_AddElement
  <2>3. Cardinality(before(i) \cup {i}) <= Cardinality(before(j))
    BY <1>4, <2>1, FS_Subset
  <2>4. Cardinality(before(i)) \in Nat /\ Cardinality(before(j)) \in Nat
    BY <1>4
  <2> HIDE DEF before
  <2> QED BY <2>2, <2>3, <2>4
<1> HIDE DEF before
<1>6. ASSUME NEW i \in N, NEW j \in N, Place(devices, order, i) = Place(devices, order, j)
      PROVE  i = j
  <2>1. Cardinality(before(i)) = Cardinality(before(j))
    BY <1>4, <1>6
  <2>2. ~(rank(i) < rank(j)) /\ ~(rank(j) < rank(i))
    BY <1>4, <1>5, <2>1
  <2> QED BY <1>2, <2>2
<1>7. \A i \in N : Place(devices, order, i) \in N
  BY <1>1, <1>4
<1> QED BY <1>6, <1>7 DEF Injection, IsInjective

\* Sorting loses no row and adds none, in either order.
LEMMA SortedByPermutes ==
    ASSUME NEW order \in Orders, NEW devices, Distinct(devices)
    PROVE  /\ SortedBy(devices, order) \in Seq(Row)
           /\ Len(SortedBy(devices, order)) = Len(devices)
           /\ Range(SortedBy(devices, order)) = Range(devices)
<1> DEFINE N == 1 .. Len(devices)
           f == [i \in N |-> Place(devices, order, i)]
           at(n) == CHOOSE i \in DOMAIN devices : Place(devices, order, i) = n
<1>1. DOMAIN devices = N /\ Len(devices) \in Nat /\ devices \in [N -> Row]
  BY DEF Distinct
<1>2. f \in Injection(N, N)
  BY PlaceIsOneToOne
<1>3. IsFiniteSet(N)
  BY <1>1, FS_Interval
<1>4. f \in Surjection(N, N)
  BY <1>2, <1>3, FS_Injection
<1>5. ASSUME NEW n \in N PROVE at(n) \in N /\ Place(devices, order, at(n)) = n
  <2>1. \E i \in N : f[i] = n
    BY <1>4 DEF Surjection
  <2> QED BY <1>1, <2>1
<1>6. ASSUME NEW i \in N PROVE Place(devices, order, i) \in N /\ at(Place(devices, order, i)) = i
  <2>1. Place(devices, order, i) = f[i] /\ f[i] \in N
    BY <1>2 DEF Injection
  <2>2. at(f[i]) \in N /\ f[at(f[i])] = f[i]
    BY <1>5, <2>1
  <2> QED BY <1>2, <2>1, <2>2 DEF Injection, IsInjective
<1> HIDE DEF at
<1>7. SortedBy(devices, order) = [n \in N |-> devices[at(n)]]
  BY DEF SortedBy, at
<1>8. SortedBy(devices, order) \in Seq(Row) /\ Len(SortedBy(devices, order)) = Len(devices)
  BY <1>1, <1>5, <1>7
<1>9. Range(SortedBy(devices, order)) = Range(devices)
  <2> DEFINE s == SortedBy(devices, order)
  <2>1. Range(s) = {devices[at(n)] : n \in N}
    BY <1>7 DEF Range
  <2>2. Range(devices) = {devices[i] : i \in N}
    BY <1>1 DEF Range
  <2>3. ASSUME NEW i \in N PROVE devices[i] \in {devices[at(n)] : n \in N}
    BY <1>6
  <2>4. ASSUME NEW n \in N PROVE devices[at(n)] \in {devices[i] : i \in N}
    BY <1>5
  <2>5. Range(devices) \subseteq Range(s)
    BY <2>1, <2>2, <2>3
  <2>6. Range(s) \subseteq Range(devices)
    BY <2>1, <2>2, <2>4
  <2> QED BY <2>5, <2>6
<1> QED BY <1>8, <1>9

\* A sorted list has every row at its place: sorting it again changes nothing.
LEMMA SortedIsSorted ==
    ASSUME NEW order \in Orders, NEW devices, Distinct(devices)
    PROVE  LET sorted == SortedBy(devices, order)
           IN  Distinct(sorted) /\ SortedBy(sorted, order) = sorted
<1> DEFINE N == 1 .. Len(devices)
           sorted == SortedBy(devices, order)
           at(n) == CHOOSE i \in DOMAIN devices : Place(devices, order, i) = n
           rank(row) == Rank(order, row.key)
<1>1. /\ DOMAIN devices = N /\ Len(devices) \in Nat
      /\ \A i, j \in N : devices[i].key = devices[j].key => i = j
  BY DEF Distinct
<1>2. \A n \in N : at(n) \in N /\ Place(devices, order, at(n)) = n
  <2> DEFINE f == [i \in N |-> Place(devices, order, i)]
  <2>1. IsFiniteSet(N)
    BY <1>1, FS_Interval
  <2>2. f \in Surjection(N, N)
    BY <2>1, PlaceIsOneToOne, FS_Injection
  <2>3. \A n \in N : \E i \in N : f[i] = n
    BY <2>2 DEF Surjection
  <2> QED BY <1>1, <2>3
<1>3. \A n, m \in N : at(n) = at(m) => n = m
  BY <1>2
<1>4. \A i \in N : \E n \in N : at(n) = i
  <2>1. [i \in N |-> Place(devices, order, i)] \in Injection(N, N)
    BY PlaceIsOneToOne
  <2>2. \A i, j \in N : Place(devices, order, i) = Place(devices, order, j) => i = j
    BY <2>1 DEF Injection, IsInjective
  <2>3. \A i \in N : Place(devices, order, i) \in N
    BY <2>1 DEF Injection
  <2> HIDE DEF at
  <2> QED BY <1>2, <2>2, <2>3
<1> HIDE DEF at
<1>5. sorted = [n \in N |-> devices[at(n)]]
  BY DEF SortedBy, at
<1>6. sorted \in Seq(Row) /\ Len(sorted) = Len(devices)
  BY SortedByPermutes
<1> HIDE DEF sorted
<1>7. Distinct(sorted)
  BY <1>1, <1>2, <1>3, <1>5, <1>6 DEF Distinct
<1>8. ASSUME NEW n \in N PROVE Place(sorted, order, n) = n
  <2> DEFINE before == {j \in N : rank(devices[j]) < rank(devices[at(n)])}
             among == {m \in N : rank(sorted[m]) < rank(sorted[n])}
             g == [m \in among |-> at(m)]
  <2>1. among = {m \in N : at(m) \in before}
    BY <1>2, <1>5
  <2> HIDE DEF before
  <2>2. g \in Injection(among, before)
    <3>1. ASSUME NEW m \in among PROVE m \in N /\ g[m] = at(m) /\ at(m) \in before
      BY <2>1
    <3> HIDE DEF among
    <3>2. g \in [among -> before] /\ \A m, l \in among : g[m] = g[l] => m = l
      BY <1>3, <3>1
    <3> QED BY <3>2 DEF Injection, IsInjective
  <2>3. g \in Surjection(among, before)
    <3>1. ASSUME NEW j \in before PROVE \E m \in among : g[m] = j
      <4>1. j \in N
        BY DEF before
      <4>2. PICK m \in N : at(m) = j
        BY <1>4, <4>1
      <4>3. m \in among
        BY <2>1, <4>2
      <4> QED BY <4>2, <4>3
    <3>2. g \in [among -> before]
      BY <2>2 DEF Injection
    <3> QED BY <3>1, <3>2 DEF Surjection
  <2>4. IsFiniteSet(before)
    <3>1. IsFiniteSet(N)
      BY <1>1, FS_Interval
    <3>2. before \subseteq N
      BY DEF before
    <3> QED BY <3>1, <3>2, FS_Subset
  <2>5. Cardinality(among) = Cardinality(before)
    BY <2>2, <2>3, <2>4, FS_Injection
  <2>6. Place(sorted, order, n) = 1 + Cardinality(among)
    <3>1. DOMAIN sorted = N
      BY <1>6
    <3> QED BY <3>1 DEF Place
  <2>7. Place(devices, order, at(n)) = 1 + Cardinality(before)
    BY <1>1 DEF Place, before
  <2> QED BY <1>2, <2>5, <2>6, <2>7
<1>9. SortedBy(sorted, order) = sorted
  <2>1. DOMAIN sorted = N /\ Len(sorted) = Len(devices)
    BY <1>6
  <2>2. \A n \in N : (CHOOSE i \in N : Place(sorted, order, i) = n) = n
    BY <1>8
  <2>3. SortedBy(sorted, order)
           = [n \in N |-> sorted[CHOOSE i \in N : Place(sorted, order, i) = n]]
    BY <2>1 DEF SortedBy
  <2>4. SortedBy(sorted, order) = [n \in N |-> sorted[n]]
    BY <2>2, <2>3
  <2> QED BY <1>5, <2>4
<1> QED BY <1>7, <1>9 DEF sorted

\* A listing of a table has each of its rows once.
LEMMA ListingIsDistinct ==
    ASSUME NEW t \in Tables, NEW devices \in Listings(t)
    PROVE  Distinct(devices) /\ Range(devices) = RowsOf(t)
<1> DEFINE R == RowsOf(t)
           keys == {k \in Key : t[k] # Absent}
<1>1. R \subseteq Row
  BY DEF RowsOf, Row, Tables
<1>2. IsFiniteSet(R)
  <2>1. IsFiniteSet(keys)
    BY MigrationAssumption, FS_Subset
  <2>2. [k \in keys |-> [key |-> k, token |-> t[k]]] \in Surjection(keys, R)
    BY DEF Surjection, RowsOf
  <2> QED BY <2>1, <2>2, FS_Surjection
<1>3. devices \in [1 .. Cardinality(R) -> R] /\ Range(devices) = R /\ Cardinality(R) \in Nat
  BY <1>2, FS_CardinalityType DEF Listings
<1>4. devices \in Surjection(1 .. Cardinality(R), R)
  BY <1>3 DEF Surjection, Range
<1>5. devices \in Injection(1 .. Cardinality(R), R)
  <2>1. IsFiniteSet(1 .. Cardinality(R)) /\ Cardinality(1 .. Cardinality(R)) = Cardinality(R)
    BY <1>3, FS_Interval
  <2> QED BY <1>4, <2>1, FS_Surjection
<1>6. ASSUME NEW a \in R, NEW b \in R, a.key = b.key PROVE a = b
  BY <1>6 DEF RowsOf
<1> HIDE DEF R
<1>7. devices \in Seq(Row) /\ Len(devices) = Cardinality(R)
  BY <1>1, <1>3
<1>8. \A i, j \in 1 .. Len(devices) : devices[i].key = devices[j].key => i = j
  BY <1>3, <1>5, <1>6, <1>7 DEF Injection, IsInjective
<1> QED BY <1>3, <1>7, <1>8 DEF Distinct, R

-----------------------------------------------------------------------------
(* Writing rows into a table *)

\* Rows for which the old server has some row of the same key: t has no others.
Below(t, whole) == t \in Tables /\ \A k \in Key : whole[k] = Absent => t[k] = Absent

\* What rows of the old server write is below it, and all of them write it.
LEMMA UpsertWrites ==
    ASSUME NEW whole \in Tables, NEW t, Below(t, whole),
           NEW rows \in Seq(Row), Range(rows) \subseteq RowsOf(whole)
    PROVE  /\ Below(Upsert(t, rows), whole)
           /\ Range(rows) = RowsOf(whole) => Upsert(t, rows) = whole
<1> DEFINE U == Upsert(t, rows)
           named(k) == \E i \in DOMAIN rows : rows[i].key = k
<1>1. ASSUME NEW i \in DOMAIN rows
      PROVE  /\ rows[i].key \in Key /\ rows[i].token = whole[rows[i].key]
             /\ whole[rows[i].key] # Absent
  <2>1. rows[i] \in RowsOf(whole)
    BY DEF Range
  <2> QED BY <2>1 DEF RowsOf
<1>2. ASSUME NEW k \in Key
      PROVE  U[k] = IF named(k) THEN whole[k] ELSE t[k]
  BY <1>1 DEF Upsert
<1>3. DOMAIN U = Key /\ U = [k \in Key |-> U[k]]
  BY DEF Upsert
<1>4. ASSUME NEW k \in Key, named(k) PROVE whole[k] # Absent
  BY <1>1, <1>4
<1> HIDE DEF U
<1>5. Below(U, whole)
  BY <1>2, <1>3, <1>4 DEF Below, Tables
<1>6. ASSUME Range(rows) = RowsOf(whole) PROVE U = whole
  <2>1. ASSUME NEW k \in Key, whole[k] # Absent PROVE named(k)
    <3>1. [key |-> k, token |-> whole[k]] \in Range(rows)
      BY <1>6, <2>1 DEF RowsOf
    <3> QED BY <3>1 DEF Range
  <2>2. ASSUME NEW k \in Key PROVE U[k] = whole[k]
    BY <1>2, <2>1 DEF Below
  <2> QED BY <1>3, <2>2 DEF Tables
<1> QED BY <1>5, <1>6 DEF U

-----------------------------------------------------------------------------
(* The inductive invariant *)

\* Rows that are exactly those of the old server.
WholeSource(rows) == rows \in Seq(Row) /\ Range(rows) = RowsOf(source)

\* A damaged export still carries the checksum of the rows that were exported.
Exported(file) ==
    /\ file \in [count : Nat, sha256 : Seq(Row), devices : Seq(Row)]
    /\ WholeSource(file.sha256)

ExportInv ==
    /\ source \in Tables /\ damaged \in BOOLEAN
    /\ ephase \in {"idle", "writing", "exported", "failed"}
    /\ export \in {Absent, Partial} \/ Exported(export)
    /\ ephase = "exported" /\ ~damaged => Exported(export)

\* A SQL file holds rows of the old server, the first ones that were verified.
ConversionInv ==
    /\ cphase \in {"idle", "refused", "mismatch", "writing", "converted", "failed"}
    /\ cdevices = <<>> \/ WholeSource(cdevices)
    /\ sql = Absent \/ (sql \in Seq(Row) /\ Range(sql) \subseteq RowsOf(source))
    /\ cphase \in {"writing", "converted"} =>
          /\ WholeSource(cdevices) /\ sql \in Seq(Row) /\ Len(sql) <= Len(cdevices)
          /\ \A i \in 1 .. Len(sql) : sql[i] = cdevices[i]
    /\ cphase = "converted" => Len(sql) = Len(cdevices)

TableInv ==
    /\ executed \in BOOLEAN /\ Below(table, source)
    /\ executed => table = source

\* A file at -output is whole unless it is still empty; an import that has updated
\* it finds it whole, or another import has failed and removed it.
ImportInv ==
    /\ target \in {Absent, Empty, source}
    /\ linked \subseteq Importer /\ seen \in [Importer -> Tables \cup {Absent}]
    /\ iphase \in [Importer -> {"idle", "validated", "absent", "open", "updated", "closed",
                                "refused", "imported", "failed", "killed"}]
    /\ idevices \in [Importer -> Seq(Row)]
    /\ linked # {} => target # Absent
    /\ \A i \in Importer :
          /\ idevices[i] = <<>> \/ WholeSource(idevices[i])
          /\ iphase[i] \notin {"idle", "refused"} => WholeSource(idevices[i])
          /\ iphase[i] \in {"absent", "open", "updated", "closed", "failed"} => seen[i] = Absent
          /\ i \in linked => iphase[i] \in {"open", "updated"}
          /\ iphase[i] \in {"updated", "imported"} =>
                \/ target = source
                \/ \E j \in Importer \ {i} : iphase[j] = "failed" /\ seen[j] = Absent
          /\ iphase[i] \in {"open", "updated"} /\ i \notin linked =>
                \E j \in Importer \ {i} : iphase[j] = "failed" /\ seen[j] = Absent

IInv == ExportInv /\ ConversionInv /\ TableInv /\ ImportInv

\* What the two readers of an export accept is what was exported.
LEMMA AcceptedIsWhole ==
    ASSUME ExportInv, export # Absent, NEW order, Accepted(export, order)
    PROVE  WholeSource(SortedBy(export.devices, order))
BY DEF ExportInv, Accepted, Checksum, Exported

\* The export of a listing is whole.
LEMMA WrittenIsExported ==
    ASSUME source \in Tables, NEW devices \in Listings(source)
    PROVE  LET sorted == SortedBy(devices, ByteOrder)
           IN  Exported(Payload(sorted, Checksum(sorted)))
<1> DEFINE sorted == SortedBy(devices, ByteOrder)
<1>1. sorted \in Seq(Row) /\ Range(sorted) = RowsOf(source)
  BY ListingIsDistinct, SortedByPermutes DEF Orders
<1>2. Len(sorted) \in Nat
  BY <1>1
<1> HIDE DEF sorted
<1>3. Exported(Payload(sorted, Checksum(sorted)))
  BY <1>1, <1>2 DEF Exported, WholeSource, Payload, Checksum
<1> QED BY <1>3 DEF sorted

\* A damaged export keeps its checksum.
LEMMA DamagedIsExported ==
    ASSUME Exported(export), export.devices # <<>>,
           NEW devices \in Damages(export.devices), NEW count \in {export.count, Len(devices)}
    PROVE  Exported([export EXCEPT !.devices = devices, !.count = count])
<1> DEFINE old == export.devices
<1>1. old \in Seq(Row) /\ old # <<>> /\ old[1] \in Row /\ Head(old) \in Row
  BY DEF Exported
<1>2. devices \in Seq(Row)
  <2>1. Tail(old) \in Seq(Row) /\ Append(old, Head(old)) \in Seq(Row)
    BY <1>1
  <2>2. ASSUME NEW token \in Token PROVE [old EXCEPT ![1].token = token] \in Seq(Row)
    <3>1. [old[1] EXCEPT !.token = token] \in Row
      BY <1>1 DEF Row
    <3> QED BY <1>1, <3>1
  <2> QED BY <2>1, <2>2 DEF Damages
<1>3. count \in Nat
  BY <1>2 DEF Exported
<1> QED BY <1>2, <1>3 DEF Exported, WholeSource

LEMMA InitIInv == Init => IInv
<1> SUFFICES ASSUME Init PROVE IInv
  OBVIOUS
<1>1. source \in Tables /\ Below(table, source)
  BY DEF Init, Below
<1>2. ExportInv /\ ConversionInv /\ TableInv
  BY <1>1 DEF Init, ExportInv, ConversionInv, TableInv
<1>3. ImportInv
  BY DEF Init, ImportInv
<1> QED BY <1>2, <1>3 DEF IInv

-----------------------------------------------------------------------------
(* The steps *)

\* An action leaves alone what its part of the invariant does not mention.
LEMMA Frames ==
    ASSUME IInv, source' = source
    PROVE  /\ \A rows : WholeSource(rows)' = WholeSource(rows)
           /\ UNCHANGED exportVars => ExportInv'
           /\ UNCHANGED convertVars => ConversionInv'
           /\ UNCHANGED d1Vars => TableInv'
           /\ UNCHANGED importVars => ImportInv'
<1>1. \A rows : WholeSource(rows)' = WholeSource(rows)
  BY DEF WholeSource
<1>2. UNCHANGED exportVars => ExportInv'
  BY DEF IInv, exportVars, ExportInv, Exported, WholeSource
<1>3. UNCHANGED convertVars => ConversionInv'
  BY DEF IInv, convertVars, ConversionInv, WholeSource
<1>4. UNCHANGED d1Vars => TableInv'
  BY DEF IInv, d1Vars, TableInv, Below
<1>5. UNCHANGED importVars => ImportInv'
  BY DEF IInv, importVars, ImportInv, WholeSource
<1> QED BY <1>1, <1>2, <1>3, <1>4, <1>5

LEMMA ExportSteps ==
    ASSUME IInv, CreateExport \/ WriteExport \/ ExportStops \/ DamageExport
    PROVE  ExportInv'
<1> USE DEF IInv, ExportInv
<1>1. source' = source
  BY DEF CreateExport, WriteExport, ExportStops, DamageExport
<1>2. \A file : Exported(file) => Exported(file)'
  BY <1>1 DEF Exported, WholeSource
<1>3. CASE CreateExport
  BY <1>1, <1>2, <1>3 DEF CreateExport
<1>4. CASE WriteExport
  BY <1>1, <1>2, <1>4, WrittenIsExported DEF WriteExport
<1>5. CASE ExportStops
  BY <1>1, <1>2, <1>5 DEF ExportStops
<1>6. CASE DamageExport
  BY <1>1, <1>2, <1>6, DamagedIsExported DEF DamageExport
<1> QED BY <1>3, <1>4, <1>5, <1>6

LEMMA ConversionSteps ==
    ASSUME IInv, DiscardSql \/ RefuseExport \/ CreateSql \/ WriteStatement \/ FinishSql
                 \/ ConversionStops
    PROVE  ConversionInv'
<1> USE DEF IInv, ConversionInv
<1>1. source' = source
  BY DEF DiscardSql, RefuseExport, CreateSql, WriteStatement, FinishSql, ConversionStops,
     convertFrame
<1>2. \A rows : WholeSource(rows)' = WholeSource(rows)
  BY <1>1, Frames
<1>3. CASE DiscardSql
  BY <1>1, <1>2, <1>3 DEF DiscardSql
<1>4. CASE RefuseExport
  BY <1>1, <1>2, <1>4 DEF RefuseExport
<1>5. CASE CreateSql
  <2>1. CASE sql = Absent /\ sql' = <<>> /\ cphase' = "writing"
             /\ cdevices' = SortedBy(export.devices, LocaleOrder)
    <3>1. WholeSource(cdevices')
      BY <1>5, <2>1, AcceptedIsWhole DEF CreateSql
    <3>2. cdevices' \in Seq(Row) /\ sql' \in Seq(Row) /\ Len(sql') = 0 /\ Range(sql') = {}
      BY <2>1, <3>1 DEF WholeSource, Range
    <3> QED BY <1>1, <1>2, <2>1, <3>1, <3>2
  <2>2. CASE cphase' = "failed" /\ UNCHANGED <<sql, cdevices>>
    BY <1>1, <1>2, <2>2
  <2> QED BY <1>5, <2>1, <2>2 DEF CreateSql
<1>6. CASE WriteStatement
  <2>1. /\ cphase = "writing" /\ Len(sql) < Len(cdevices) /\ cphase' = cphase
        /\ cdevices' = cdevices /\ sql' = Append(sql, cdevices[Len(sql) + 1])
    BY <1>6 DEF WriteStatement
  <2>2. cdevices \in Seq(Row) /\ Range(cdevices) = RowsOf(source) /\ sql \in Seq(Row)
    BY <2>1 DEF WholeSource
  <2>3. /\ cdevices[Len(sql) + 1] \in Row /\ cdevices[Len(sql) + 1] \in Range(cdevices)
        /\ Len(sql) + 1 <= Len(cdevices)
    BY <2>1, <2>2 DEF Range
  <2>4. /\ sql' \in Seq(Row) /\ Len(sql') = Len(sql) + 1
        /\ \A i \in 1 .. Len(sql') : sql'[i] = cdevices[i]
    BY <2>1, <2>2, <2>3
  <2>5. Range(sql') \subseteq RowsOf(source)
    BY <2>2, <2>3, <2>4 DEF Range
  <2> QED BY <1>1, <1>2, <2>1, <2>3, <2>4, <2>5
<1>7. CASE FinishSql
  BY <1>1, <1>2, <1>7 DEF FinishSql
<1>8. CASE ConversionStops
  BY <1>1, <1>2, <1>8 DEF ConversionStops
<1> QED BY <1>3, <1>4, <1>5, <1>6, <1>7, <1>8

\* Executing part of the rows writes nothing wrong, and all of them the source.
LEMMA ExecuteKeeps ==
    ASSUME IInv, ExecuteSql
    PROVE  TableInv'
<1> USE DEF IInv, TableInv
<1>1. /\ source' = source /\ source \in Tables /\ table' = Upsert(table, sql)
      /\ executed' = (executed \/ cphase = "converted")
      /\ sql \in Seq(Row) /\ Range(sql) \subseteq RowsOf(source)
  BY DEF ExecuteSql, D1After, ExportInv, ConversionInv
<1>2. Below(table', source)
  BY <1>1, UpsertWrites
<1>3. CASE cphase = "converted"
  <2>1. sql = cdevices
    BY <1>3 DEF ConversionInv, WholeSource
  <2> QED BY <1>1, <1>2, <1>3, <2>1, UpsertWrites DEF ConversionInv, WholeSource, Below
<1>4. CASE cphase # "converted"
  <2>1. ASSUME executed PROVE table' = source
    <3>1. table = source
      BY <2>1
    <3>2. \A k \in Key : Upsert(table, sql)[k] = source[k]
      <4> SUFFICES ASSUME NEW k \in Key PROVE Upsert(table, sql)[k] = source[k]
        OBVIOUS
      <4>1. ASSUME NEW i \in DOMAIN sql, sql[i].key = k PROVE sql[i].token = source[k]
        <5>1. sql[i] \in RowsOf(source)
          BY <1>1 DEF Range
        <5> QED BY <4>1, <5>1 DEF RowsOf
      <4> QED BY <3>1, <4>1 DEF Upsert
    <3> QED BY <1>1, <1>2, <3>2 DEF Below, Tables
  <2> QED BY <1>1, <1>2, <1>4, <2>1 DEF Below
<1> QED BY <1>3, <1>4

\* A file at -output that an import has open is empty or whole, and below the source.
LEMMA OpenTargetIsBelow ==
    ASSUME IInv
    PROVE  /\ Empty \in Tables /\ Absent \notin Tables /\ Empty # Absent /\ source # Absent
           /\ Below(Empty, source) /\ Below(source, source)
<1>1. Empty \in Tables /\ source \in Tables /\ Absent \notin Tables
  BY MigrationAssumption DEF IInv, ExportInv, Empty, Tables
<1> QED BY <1>1 DEF Below, Empty

LEMMA ImportSteps ==
    ASSUME IInv, NEW i \in Importer, Import(i)
    PROVE  ImportInv'
<1> USE DEF IInv, ImportInv, GoTo
<1>1. /\ source' = source /\ source \in Tables
      /\ source # Absent /\ Empty # Absent /\ Absent \notin Tables /\ Empty \in Tables
  BY OpenTargetIsBelow DEF ExportInv, Import, ImportReads, LookForTarget, Look, OpenTarget, UpdateTarget,
     FinishImport, CloseTarget, RemoveTarget, ImportIsKilled, importFrame
<1>2. \A rows : WholeSource(rows)' = WholeSource(rows)
  BY <1>1, Frames
<1>3. CASE ImportReads(i)
  <2>1. /\ iphase[i] = "idle" /\ export # Absent
        /\ target' = target /\ linked' = linked /\ seen' = seen
    BY <1>3 DEF ImportReads
  <2>2. \/ \E rows : WholeSource(rows) /\ idevices' = [idevices EXCEPT ![i] = rows]
                      /\ iphase' = [iphase EXCEPT ![i] = "validated"]
        \/ iphase' = [iphase EXCEPT ![i] = "refused"] /\ idevices' = idevices
    BY <1>3, AcceptedIsWhole DEF ImportReads
  <2>3. CASE iphase' = [iphase EXCEPT ![i] = "refused"] /\ idevices' = idevices
    BY <1>1, <1>2, <2>1, <2>3
  <2>4. ASSUME NEW rows, WholeSource(rows), idevices' = [idevices EXCEPT ![i] = rows],
               iphase' = [iphase EXCEPT ![i] = "validated"]
        PROVE  ImportInv'
    <3>1. rows \in Seq(Row)
      BY <2>4 DEF WholeSource
    <3> QED BY <1>1, <1>2, <2>1, <2>4, <3>1
  <2> QED BY <2>2, <2>3, <2>4
<1>4. CASE LookForTarget(i)
  BY <1>1, <1>2, <1>4 DEF LookForTarget, Look
<1>5. CASE OpenTarget(i)
  <2>1. /\ iphase[i] = "absent" /\ idevices' = idevices /\ seen' = seen
    BY <1>5 DEF OpenTarget
  <2>2. CASE linked # {} /\ iphase' = [iphase EXCEPT ![i] = "refused"] /\ UNCHANGED <<target, linked>>
    BY <1>1, <1>2, <2>1, <2>2
  <2>3. CASE /\ linked = {} /\ linked' = {i} /\ iphase' = [iphase EXCEPT ![i] = "open"]
             /\ target' = IF target = Absent THEN Empty ELSE target
    <3>1. target' \in {Empty, source} /\ (target = source => target' = source)
      BY <1>1, <2>3
    <3> QED BY <1>1, <1>2, <2>1, <2>3, <3>1
  <2> QED BY <1>5, <2>2, <2>3 DEF OpenTarget
<1>6. CASE UpdateTarget(i)
  <2>1. CASE i \in linked
    <3>1. target \in {Empty, source} /\ WholeSource(idevices[i])
      BY <1>1, <1>6, <2>1 DEF UpdateTarget
    <3>2. target' = source
      <4>1. target' = Upsert(target, idevices[i])
        BY <1>6, <2>1 DEF UpdateTarget
      <4> QED BY <1>1, <3>1, <4>1, UpsertWrites, OpenTargetIsBelow DEF WholeSource
    <3> QED BY <1>1, <1>2, <1>6, <3>2 DEF UpdateTarget
  <2>2. CASE i \notin linked
    BY <1>1, <1>2, <1>6, <2>2 DEF UpdateTarget
  <2> QED BY <2>1, <2>2
<1>7. CASE FinishImport(i)
  BY <1>1, <1>2, <1>7 DEF FinishImport
<1>8. CASE CloseTarget(i)
  BY <1>1, <1>2, <1>8 DEF CloseTarget
<1>9. CASE RemoveTarget(i)
  BY <1>1, <1>2, <1>9 DEF RemoveTarget
<1>10. CASE ImportIsKilled(i)
  BY <1>1, <1>2, <1>10 DEF ImportIsKilled
<1> QED BY <1>3, <1>4, <1>5, <1>6, <1>7, <1>8, <1>9, <1>10 DEF Import

LEMMA NextIInv == IInv /\ [Next]_vars => IInv'
<1> SUFFICES ASSUME IInv, [Next]_vars PROVE IInv'
  OBVIOUS
<1>1. CASE CreateExport \/ WriteExport \/ ExportStops \/ DamageExport
  <2>1. UNCHANGED <<source, convertVars, d1Vars, importVars>>
    BY <1>1 DEF CreateExport, WriteExport, ExportStops, DamageExport
  <2> QED BY <1>1, <2>1, ExportSteps, Frames DEF IInv
<1>2. CASE DiscardSql \/ RefuseExport \/ CreateSql \/ WriteStatement \/ FinishSql
           \/ ConversionStops
  <2>1. UNCHANGED <<source, exportVars, d1Vars, importVars>>
    BY <1>2 DEF DiscardSql, RefuseExport, CreateSql, WriteStatement, FinishSql, ConversionStops,
       convertFrame
  <2> QED BY <1>2, <2>1, ConversionSteps, Frames DEF IInv
<1>3. CASE ExecuteSql
  <2>1. UNCHANGED <<source, exportVars, convertVars, importVars>>
    BY <1>3 DEF ExecuteSql
  <2> QED BY <1>3, <2>1, ExecuteKeeps, Frames DEF IInv
<1>4. CASE \E i \in Importer : Import(i)
  <2> SUFFICES ASSUME NEW i \in Importer, Import(i) PROVE IInv'
    BY <1>4
  <2>1. UNCHANGED <<source, exportVars, convertVars, d1Vars>>
    BY DEF Import, ImportReads, LookForTarget, Look, OpenTarget, UpdateTarget, FinishImport,
       CloseTarget, RemoveTarget, ImportIsKilled, importFrame
  <2> QED BY <2>1, ImportSteps, Frames DEF IInv
<1>5. CASE UNCHANGED vars
  BY <1>5, Frames DEF IInv, vars
<1> QED BY <1>1, <1>2, <1>3, <1>4, <1>5 DEF Next

LEMMA Inductive == Spec => []IInv
BY InitIInv, NextIInv, PTL DEF Spec

-----------------------------------------------------------------------------
(* The theorems *)

\* Every variable has its type.
THEOREM MigrationTypeCorrect == Spec => []TypeOK
<1>1. IInv => TypeOK
  <2> SUFFICES ASSUME IInv PROVE TypeOK
    OBVIOUS
  <2>1. \A rows \in Seq(Row) : Range(rows) \subseteq Row
    BY DEF Range
  <2>2. \A rows : rows = <<>> \/ WholeSource(rows) => Range(rows) \subseteq Row
    BY <2>1 DEF WholeSource, Range
  <2>3. source \in Tables /\ table \in Tables /\ target \in Tables \cup {Absent}
    BY OpenTargetIsBelow DEF IInv, ExportInv, TableInv, ImportInv, Below
  <2>4. export \in {Absent, Partial} \/
           (export.count \in Nat /\ Range(export.devices) \cup Range(export.sha256) \subseteq Row)
    BY <2>1 DEF IInv, ExportInv, Exported
  <2>5. sql = Absent \/ Range(sql) \subseteq Row
    BY <2>1 DEF IInv, ConversionInv
  <2>6. \A i \in Importer :
           /\ iphase[i] \in {"idle", "validated", "absent", "open", "updated", "closed",
                             "refused", "imported", "failed", "killed"}
           /\ Range(idevices[i]) \subseteq Row
    BY <2>2 DEF IInv, ImportInv
  <2>7. Range(cdevices) \subseteq Row
    BY <2>2 DEF IInv, ConversionInv
  <2> QED BY <2>3, <2>4, <2>5, <2>6, <2>7
          DEF TypeOK, IInv, ExportInv, ConversionInv, TableInv, ImportInv
<1> QED BY Inductive, <1>1, PTL

\* After a complete SQL file was executed, D1 holds exactly the exported rows, for
\* any devices, any damage to the export and any order of executions.
THEOREM MigrationIsFaithful == Spec => []MigrationIsComplete
<1>1. IInv => MigrationIsComplete
  BY DEF IInv, TableInv, MigrationIsComplete
<1> QED BY Inductive, <1>1, PTL

\* The new Bolt file never holds a part of the rows, for any number of imports.
THEOREM TargetsAreWhole == Spec => []TargetIsWhole
<1>1. IInv => TargetIsWhole
  BY DEF IInv, ImportInv, TargetIsWhole
<1> QED BY Inductive, <1>1, PTL

\* What a successful import has written is there, or was removed by an import that
\* had looked before it was there, for any number of imports.
THEOREM ImportsStay == Spec => []ImportedIsThere
<1>1. IInv => ImportedIsThere
  BY DEF IInv, ImportInv, ImportedIsThere
<1> QED BY Inductive, <1>1, PTL

\* No execution of a SQL file, complete or not, loses a row of D1 or writes another
\* one than that of the old server, for any devices and damage.
THEOREM UploadsAreHarmless == Spec => UploadsOnlyRenew
<1> DEFINE Renews == \A k \in Key : table'[k] # table[k] =>
                         source[k] # Absent /\ table'[k] = source[k]
<1>1. ASSUME IInv, [Next]_vars PROVE [Renews]_vars
  <2>1. CASE ExecuteSql
    <3>1. sql \in Seq(Row) /\ Range(sql) \subseteq RowsOf(source)
      BY <1>1, <2>1 DEF IInv, ConversionInv, ExecuteSql
    <3>2. ASSUME NEW i \in DOMAIN sql
          PROVE  sql[i].token = source[sql[i].key] /\ source[sql[i].key] # Absent
      <4>1. sql[i] \in RowsOf(source)
        BY <3>1 DEF Range
      <4> QED BY <4>1 DEF RowsOf
    <3>3. \A k \in Key :
             table'[k] = IF \E i \in DOMAIN sql : sql[i].key = k
                           THEN sql[CHOOSE i \in DOMAIN sql : sql[i].key = k].token
                           ELSE table[k]
      BY <2>1 DEF ExecuteSql, D1After, Upsert
    <3> QED BY <3>2, <3>3
  <2>2. CASE table' = table
    BY <2>2
  <2>3. ExecuteSql \/ table' = table
    BY <1>1 DEF Next, CreateExport, WriteExport, ExportStops, DamageExport, DiscardSql,
       RefuseExport, CreateSql, WriteStatement, FinishSql, ConversionStops, convertFrame,
       Import, ImportReads, LookForTarget, Look, OpenTarget, UpdateTarget, FinishImport,
       CloseTarget, RemoveTarget, ImportIsKilled, importFrame, d1Vars, vars
  <2> QED BY <2>1, <2>2, <2>3
<1>2. IInv /\ [Next]_vars => [Renews]_vars
  BY <1>1
<1> QED BY Inductive, <1>2, PTL DEF Spec, UploadsOnlyRenew

-----------------------------------------------------------------------------
(* The checksum *)

\* An export nobody has damaged is accepted by a reader that sorts as its writer did.
AuthenticInv ==
    /\ export \in {Absent, Partial} \/ damaged \/ Accepted(export, ByteOrder)
    /\ ByteOrder = LocaleOrder /\ cphase = "mismatch" => damaged

LEMMA AuthenticStays == Spec => []AuthenticInv
<1>1. Init => AuthenticInv
  BY DEF Init, AuthenticInv
<1>2. IInv /\ AuthenticInv /\ [Next]_vars => AuthenticInv'
  <2> SUFFICES ASSUME IInv, AuthenticInv, [Next]_vars PROVE AuthenticInv'
    OBVIOUS
  <2>1. CASE WriteExport
    <3>1. PICK devices \in Listings(source) :
             export' = Payload(SortedBy(devices, ByteOrder),
                               Checksum(SortedBy(devices, ByteOrder)))
      BY <2>1 DEF WriteExport
    <3> DEFINE sorted == SortedBy(devices, ByteOrder)
    <3>2. Distinct(sorted) /\ SortedBy(sorted, ByteOrder) = sorted
      <4>1. Distinct(devices)
        BY ListingIsDistinct DEF IInv, ExportInv
      <4> QED BY <4>1, SortedIsSorted DEF Orders
    <3> HIDE DEF sorted
    <3>3. /\ export' = Payload(sorted, Checksum(sorted))
          /\ export'.devices = sorted /\ export'.count = Len(sorted) /\ export'.sha256 = sorted
      BY <3>1 DEF sorted, Payload, Checksum
    <3>4. WellFormed(export')
      BY <3>2, <3>3 DEF WellFormed, IsInjective, Distinct
    <3>5. export' = Partial \/ Accepted(export', ByteOrder)
      BY <3>2, <3>3, <3>4 DEF Accepted, Checksum
    <3> QED BY <2>1, <3>5 DEF WriteExport, AuthenticInv, convertVars
  <2>2. CASE CreateExport \/ ExportStops \/ DamageExport
    BY <2>2 DEF CreateExport, ExportStops, DamageExport, AuthenticInv, convertVars
  <2>3. CASE RefuseExport
    BY <2>3 DEF RefuseExport, convertFrame, exportVars, AuthenticInv
  <2>4. CASE DiscardSql \/ CreateSql \/ WriteStatement \/ FinishSql \/ ConversionStops
    BY <2>4 DEF DiscardSql, CreateSql, WriteStatement, FinishSql, ConversionStops,
       convertFrame, exportVars, AuthenticInv
  <2>5. CASE ExecuteSql
    BY <2>5 DEF ExecuteSql, exportVars, convertVars, AuthenticInv
  <2>6. CASE \E i \in Importer : Import(i)
    BY <2>6 DEF Import, ImportReads, LookForTarget, Look, OpenTarget, UpdateTarget, FinishImport,
       CloseTarget, RemoveTarget, ImportIsKilled, importFrame, exportVars, convertVars, AuthenticInv
  <2>7. CASE UNCHANGED vars
    BY <2>7 DEF vars, exportVars, convertVars, AuthenticInv
  <2> QED BY <2>1, <2>2, <2>3, <2>4, <2>5, <2>6, <2>7 DEF Next
<1> QED BY Inductive, <1>1, <1>2, PTL DEF Spec

\* If the keys had one order only, the script would answer "checksum mismatch" to a
\* damaged export alone: the two orders are the only reason why it also refuses an
\* authentic one.
THEOREM OneOrderConverts == ByteOrder = LocaleOrder => (Spec => []AuthenticExportConverts)
<1> SUFFICES ASSUME ByteOrder = LocaleOrder PROVE Spec => []AuthenticExportConverts
  OBVIOUS
<1>1. AuthenticInv => AuthenticExportConverts
  BY DEF AuthenticInv, AuthenticExportConverts
<1> QED BY AuthenticStays, <1>1, PTL

\* bark-db import, which sorts as bark-db export does, refuses the contents of an
\* export only if it is damaged or its export has not come to its end.
AuthenticExportImports ==
    [][\A i \in Importer :
          iphase[i] = "idle" /\ iphase'[i] = "refused" => damaged \/ export = Partial]_vars

\* It does so whatever the keys and their two orders are.
THEOREM AuthenticImports == Spec => AuthenticExportImports
<1>1. ASSUME IInv, AuthenticInv, [Next]_vars
      PROVE  [\A i \in Importer :
                 iphase[i] = "idle" /\ iphase'[i] = "refused" => damaged \/ export = Partial]_vars
  <2> SUFFICES ASSUME Next, NEW i \in Importer, iphase[i] = "idle", iphase'[i] = "refused"
               PROVE  damaged \/ export = Partial
    BY <1>1
  <2> USE DEF GoTo
  <2>1. CASE iphase' = iphase
    BY <2>1
  <2>2. ASSUME NEW j \in Importer, Import(j) PROVE damaged \/ export = Partial
    <3>1. i = j /\ iphase[j] = "idle"
      BY <1>1, <2>2 DEF Import, ImportReads, LookForTarget, Look, OpenTarget, UpdateTarget,
         FinishImport, CloseTarget, RemoveTarget, ImportIsKilled, IInv, ImportInv
    <3>2. ImportReads(j)
      BY <2>2, <3>1 DEF Import, LookForTarget, Look, OpenTarget, UpdateTarget, FinishImport,
         CloseTarget, RemoveTarget, ImportIsKilled
    <3>3. export # Absent /\ ~Accepted(export, ByteOrder)
      BY <1>1, <3>1, <3>2 DEF ImportReads, IInv, ImportInv
    <3> QED BY <1>1, <3>3 DEF AuthenticInv
  <2>3. importVars' = importVars => iphase' = iphase
    BY DEF importVars
  <2> QED BY <2>1, <2>2, <2>3
        DEF Next, CreateExport, WriteExport, ExportStops, DamageExport, DiscardSql, ExecuteSql,
            RefuseExport, CreateSql, WriteStatement, FinishSql, ConversionStops, convertFrame
<1>2. IInv /\ AuthenticInv /\ [Next]_vars
         => [\A i \in Importer :
                iphase[i] = "idle" /\ iphase'[i] = "refused" => damaged \/ export = Partial]_vars
  BY <1>1
<1> QED BY Inductive, AuthenticStays, <1>2, PTL DEF Spec, AuthenticExportImports

=============================================================================
