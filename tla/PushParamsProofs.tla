--------------------------- MODULE PushParamsProofs ---------------------------
(***************************************************************************)
(* Proofs about the parameters of a push, for any keys, any JSON bodies    *)
(* and any queries and forms.                                              *)
(***************************************************************************)
EXTENDS PushParams, FiniteSetTheorems, TLAPS

\* This is STRING itself; that a string literal is in it no prover here knows.
Name == STRING \cup {"device_key"}

Param == [name: Name, value: Values]

\* The steps of Object.assign: what it has after n entries of the source.
IsMerge(f, object, source, N) ==
    f = [n \in 0 .. N |->
            IF n = 0 THEN object
            ELSE Assign(f[n - 1], source[n].name, source[n].value)]

-----------------------------------------------------------------------------
(* Object.assign *)

\* A set of numbers that is not empty has a least one.
LEMMA LeastNumber ==
    ASSUME NEW T \in SUBSET Nat, T # {}
    PROVE  \E n \in T : \A m \in T : n <= m
<1>0. T \subseteq Nat
  OBVIOUS
<1> DEFINE upTo == {1 .. n : n \in T}
           smaller == StrictSubsetOrdering(Nat)
<1>1. IsWellFoundedOn(smaller, FiniteSubsetsOf(Nat))
  BY FS_StrictSubsetOrderingWellFounded
<1>2. upTo \subseteq FiniteSubsetsOf(Nat) /\ upTo # {}
  <2>1. \A n \in T : 1 .. n \in SUBSET Nat /\ IsFiniteSet(1 .. n)
    BY <1>0, FS_Interval
  <2> QED BY <2>1 DEF FiniteSubsetsOf
<1>3. \E x \in upTo : \A y \in upTo : ~(<<y, x>> \in smaller)
  <2> HIDE DEF upTo, smaller
  <2> QED BY <1>1, <1>2, WFMin
<1>4. PICK n \in T : \A m \in T : ~(<<1 .. m, 1 .. n>> \in smaller)
  BY <1>3
<1>5. ASSUME NEW m \in T, m < n PROVE <<1 .. m, 1 .. n>> \in smaller
  <2>1. n \in 1 .. n /\ n \notin 1 .. m /\ 1 .. m \subseteq 1 .. n
    BY <1>5
  <2>2. 1 .. m \in SUBSET Nat /\ 1 .. n \in SUBSET Nat
    OBVIOUS
  <2> QED BY <2>1, <2>2 DEF StrictSubsetOrdering
<1>6. \A m \in T : ~(m < n)
  BY <1>4, <1>5
<1>7. \A m \in T : n <= m
  BY <1>0, <1>6
<1> QED BY <1>7

\* The recursion of AssignAll has a solution, for sources of any length.
LEMMA MergeExists ==
    ASSUME NEW object, NEW source, NEW N \in Nat
    PROVE  \E f : IsMerge(f, object, source, N)
<1> DEFINE Bad == {n \in Nat : ~ \E f : IsMerge(f, object, source, n)}
<1> SUFFICES ASSUME Bad # {} PROVE FALSE
  OBVIOUS
<1>1. PICK n \in Bad : \A m \in Bad : n <= m
  BY LeastNumber
<1>2. CASE n = 0
  <2>1. IsMerge([m \in 0 .. 0 |-> object], object, source, 0)
    BY DEF IsMerge
  <2> QED BY <1>1, <1>2, <2>1
<1>3. CASE n # 0
  <2>1. n - 1 \in Nat /\ n - 1 \notin Bad
    BY <1>1, <1>3
  <2>2. PICK f : IsMerge(f, object, source, n - 1)
    BY <2>1
  <2> DEFINE g == [m \in 0 .. n |->
                      IF m = n THEN Assign(f[n - 1], source[n].name, source[n].value)
                      ELSE f[m]]
  <2>3. \A m \in 0 .. n - 1 :
           f[m] = IF m = 0 THEN object ELSE Assign(f[m - 1], source[m].name, source[m].value)
    BY <2>2 DEF IsMerge
  <2>4. ASSUME NEW m \in 0 .. n
        PROVE  g[m] = IF m = 0 THEN object
                      ELSE Assign(g[m - 1], source[m].name, source[m].value)
    <3>1. CASE m = n
      BY <1>3, <3>1
    <3>2. CASE m # n
      <4>1. m \in 0 .. n - 1 /\ g[m] = f[m] /\ (m # 0 => g[m - 1] = f[m - 1])
        BY <3>2
      <4> QED BY <2>3, <4>1
    <3> QED BY <3>1, <3>2
  <2>5. IsMerge(g, object, source, n)
    BY <2>4 DEF IsMerge
  <2> QED BY <1>1, <2>5
<1> QED BY <1>2, <1>3

\* The whole of Object.assign is its steps, one after the other.
LEMMA AssignsInSteps ==
    ASSUME NEW object, NEW source, Len(source) \in Nat
    PROVE  \E f : /\ f[0] = object /\ f[Len(source)] = AssignAll(object, source)
                  /\ \A n \in 1 .. Len(source) :
                        f[n] = Assign(f[n - 1], source[n].name, source[n].value)
<1> DEFINE f == CHOOSE f : IsMerge(f, object, source, Len(source))
<1>1. IsMerge(f, object, source, Len(source))
  BY MergeExists
<1>2. f[Len(source)] = AssignAll(object, source)
  BY DEF IsMerge, AssignAll
<1> HIDE DEF f
<1>3. \A n \in 0 .. Len(source) :
         f[n] = IF n = 0 THEN object ELSE Assign(f[n - 1], source[n].name, source[n].value)
  BY <1>1 DEF IsMerge
<1> QED BY <1>2, <1>3

-----------------------------------------------------------------------------
(* Which entry decides *)

\* No name of the object has another spelling.
Lowercase(object) == \A i \in 1 .. Len(object) : Lower(object[i].name) = object[i].name

\* No other spelling comes after device_key, and device_key is there once at most.
Ordered(object) ==
    \A i, j \in 1 .. Len(object) :
        object[i].name = "device_key" /\ Lower(object[j].name) = "device_key" => j <= i

\* Of the spellings of device_key the last one has the value k.
Decides(object, k) ==
    \E i \in 1 .. Len(object) :
        /\ object[i] = Entry("device_key", k)
        /\ \A j \in 1 .. Len(object) : Lower(object[j].name) = "device_key" => j <= i

LEMMA DecidingKey ==
    ASSUME NEW object \in Seq(Param), NEW k \in Strings, Decides(object, k)
    PROVE  DeviceKey(object) = k
<1>1. PICK i \in 1 .. Len(object) :
         /\ object[i] = Entry("device_key", k)
         /\ \A j \in 1 .. Len(object) : Lower(object[j].name) = "device_key" => j <= i
  BY DEF Decides
<1>2. i \in Named(object) /\ i \in Nat /\ \A j \in Named(object) : j \in Nat /\ j <= i
  BY <1>1 DEF Named, Strings, Entry, Lower
<1>3. (CHOOSE l \in Named(object) : \A j \in Named(object) : j <= l) = i
  <2>1. \A l \in Named(object) : (\A j \in Named(object) : j <= l) <=> l = i
    BY <1>2
  <2> QED BY <1>2, <2>1
<1>4. object[i].value = k /\ Named(object) # {}
  BY <1>1, <1>2 DEF Entry
<1> QED BY <1>3, <1>4 DEF DeviceKey

\* An assignment under a name without capital letters keeps the order: it adds its
\* entry at the end, or the name keeps the place it has.
LEMMA AssignKeeps ==
    ASSUME NEW object \in Seq(Param), NEW name \in Name, Lower(name) = name, NEW v \in Values
    PROVE  /\ Assign(object, name, v) \in Seq(Param)
           /\ Ordered(object) => Ordered(Assign(object, name, v))
           /\ Lowercase(object) => Lowercase(Assign(object, name, v))
<1> DEFINE new == Assign(object, name, v)
<1>0. Entry(name, v) \in Param /\ Entry(name, v).name = name
  BY DEF Param, Entry
<1>1. CASE Has(object, name)
  <2>1. new = [i \in 1 .. Len(object) |->
                  IF object[i].name = name THEN Entry(name, v) ELSE object[i]]
    BY <1>1 DEF Assign
  <2>2. new \in Seq(Param) /\ Len(new) = Len(object)
    BY <1>0, <2>1
  <2>3. \A i \in 1 .. Len(object) : new[i].name = object[i].name
    BY <1>0, <2>1
  <2> HIDE DEF new
  <2>4. (Ordered(object) => Ordered(new)) /\ (Lowercase(object) => Lowercase(new))
    BY <2>2, <2>3 DEF Ordered, Lowercase
  <2> QED BY <2>2, <2>4 DEF new
<1>2. CASE ~Has(object, name)
  <2>1. new = Append(object, Entry(name, v))
    BY <1>2 DEF Assign
  <2>2. /\ new \in Seq(Param) /\ Len(new) = Len(object) + 1
        /\ new[Len(object) + 1] = Entry(name, v)
        /\ \A i \in 1 .. Len(object) : new[i] = object[i]
    BY <1>0, <2>1
  <2>3. \A i \in 1 .. Len(object) : object[i].name # name
    BY <1>2 DEF Has
  <2> HIDE DEF new
  <2>4. Lowercase(object) => Lowercase(new)
    BY <1>0, <2>2 DEF Lowercase
  <2>5. ASSUME Ordered(object), NEW i \in 1 .. Len(new), NEW j \in 1 .. Len(new),
               new[i].name = "device_key", Lower(new[j].name) = "device_key"
        PROVE  j <= i
    <3>1. CASE i = Len(object) + 1
      BY <2>2, <3>1
    <3>2. CASE i # Len(object) + 1 /\ j # Len(object) + 1
      BY <2>2, <2>5, <3>2 DEF Ordered
    <3>3. CASE i # Len(object) + 1 /\ j = Len(object) + 1
      <4>1. name = "device_key"
        BY <1>0, <2>2, <2>5, <3>3
      <4>2. i \in 1 .. Len(object) /\ object[i].name = "device_key"
        BY <2>2, <2>5, <3>3
      <4> QED BY <2>3, <4>1, <4>2
    <3> QED BY <3>1, <3>2, <3>3
  <2> QED BY <2>2, <2>4, <2>5 DEF Ordered, new
<1> QED BY <1>1, <1>2

\* After it the assigned device_key decides.
LEMMA AssignDecides ==
    ASSUME NEW object \in Seq(Param), Ordered(object), NEW k \in Strings
    PROVE  Decides(Assign(object, "device_key", k), k)
<1> DEFINE new == Assign(object, "device_key", k)
<1>0. k \in Values /\ "device_key" \in Name /\ Lower("device_key") = "device_key"
  <2>1. k \in Values
    BY DEF Values
  <2>2. "device_key" \in Name
    BY DEF Name
  <2>3. Lower("device_key") = "device_key"
    BY DEF Lower
  <2> QED BY <2>1, <2>2, <2>3
<1>1. new \in Seq(Param) /\ Ordered(new)
  BY <1>0, AssignKeeps, Zenon
<1>2. \E i \in 1 .. Len(new) : new[i] = Entry("device_key", k)
  <2>1. CASE Has(object, "device_key")
    <3>1. new = [i \in 1 .. Len(object) |->
                    IF object[i].name = "device_key" THEN Entry("device_key", k) ELSE object[i]]
      BY <2>1 DEF Assign
    <3>2. PICK i \in 1 .. Len(object) : object[i].name = "device_key"
      BY <2>1 DEF Has
    <3>3. Len(new) = Len(object) /\ new[i] = Entry("device_key", k)
      BY <3>1, <3>2
    <3> QED BY <3>3
  <2>2. CASE ~Has(object, "device_key")
    <3>1. new = Append(object, Entry("device_key", k))
      BY <2>2 DEF Assign
    <3>2. Len(object) + 1 \in 1 .. Len(new) /\ new[Len(object) + 1] = Entry("device_key", k)
      BY <3>1
    <3> QED BY <3>2
  <2> QED BY <2>1, <2>2
<1> HIDE DEF new
<1>3. PICK i \in 1 .. Len(new) : new[i] = Entry("device_key", k)
  BY <1>2
<1>4. new[i].name = "device_key"
  BY <1>3 DEF Entry
<1> QED BY <1>1, <1>3, <1>4 DEF Ordered, Decides, new

\* So does Object.assign, from an object without capital letters.
LEMMA AssignAllKeeps ==
    ASSUME NEW object \in Seq(Param), NEW source \in Seq(Param), Lowercase(source)
    PROVE  /\ AssignAll(object, source) \in Seq(Param)
           /\ Ordered(object) => Ordered(AssignAll(object, source))
           /\ Lowercase(object) => Lowercase(AssignAll(object, source))
<1> DEFINE N == Len(source)
           Kept(o) == /\ o \in Seq(Param)
                      /\ Ordered(object) => Ordered(o)
                      /\ Lowercase(object) => Lowercase(o)
<1>1. N \in Nat
  OBVIOUS
<1>2. PICK f : /\ f[0] = object /\ f[N] = AssignAll(object, source)
               /\ \A n \in 1 .. N : f[n] = Assign(f[n - 1], source[n].name, source[n].value)
  BY <1>1, AssignsInSteps
<1>3. ASSUME NEW o, Kept(o), NEW n \in 1 .. N
      PROVE  Kept(Assign(o, source[n].name, source[n].value))
  <2>1. source[n] \in Param /\ Lower(source[n].name) = source[n].name
    BY DEF Lowercase
  <2>2. source[n].name \in Name /\ source[n].value \in Values
    BY <2>1 DEF Param
  <2> QED BY <1>3, <2>1, <2>2, AssignKeeps
<1> DEFINE Bad == {n \in 0 .. N : ~Kept(f[n])}
<1>4. ~Kept(f[N]) => Bad # {} /\ Bad \in SUBSET Nat
  BY <1>1
<1>5. ASSUME Bad # {}, Bad \in SUBSET Nat PROVE FALSE
  <2>1. PICK n \in Bad : \A m \in Bad : n <= m
    BY <1>5, LeastNumber
  <2>2. n # 0
    BY <1>2, <2>1
  <2>3. n \in 1 .. N /\ n - 1 \in 0 .. N /\ ~(n <= n - 1)
    BY <1>1, <2>1, <2>2
  <2>4. Kept(f[n - 1])
    BY <2>1, <2>3
  <2>5. Kept(f[n])
    <3> HIDE DEF Kept
    <3> QED BY <1>2, <1>3, <2>3, <2>4
  <2> QED BY <2>1, <2>5
<1>6. Kept(AssignAll(object, source))
  BY <1>2, <1>4, <1>5
<1> QED BY <1>6

\* lowerCaseEntryMap has no other spelling of device_key, and it once at most.
LEMMA LowerCaseEntryMapKeeps ==
    ASSUME NEW entries \in Seq(Param)
    PROVE  /\ LowerCaseEntryMap(entries) \in Seq(Param)
           /\ Ordered(LowerCaseEntryMap(entries)) /\ Lowercase(LowerCaseEntryMap(entries))
<1> DEFINE lowered == [i \in 1 .. Len(entries) |->
                          Entry(Lower(entries[i].name), entries[i].value)]
<1>1. ASSUME NEW i \in 1 .. Len(entries)
      PROVE  /\ lowered[i] \in Param
             /\ Lower(lowered[i].name) = lowered[i].name
  <2>1. entries[i] \in Param
    OBVIOUS
  <2>2. Lower(entries[i].name) \in Name /\ entries[i].value \in Values
    BY <2>1 DEF Param, Lower, Name
  <2> QED BY <2>2 DEF Param, Entry, Lower
<1>2. lowered \in Seq(Param) /\ Len(lowered) = Len(entries)
  BY <1>1
<1>3. Lowercase(lowered)
  BY <1>1, <1>2 DEF Lowercase
<1>4. <<>> \in Seq(Param) /\ Ordered(<<>>) /\ Lowercase(<<>>)
  BY DEF Ordered, Lowercase
<1>5. LowerCaseEntryMap(entries) = AssignAll(<<>>, lowered)
  BY DEF LowerCaseEntryMap
<1> HIDE DEF lowered
<1> QED BY <1>2, <1>3, <1>4, <1>5, AssignAllKeeps

\* Deleting another name changes neither the order nor who decides.
LEMMA DeleteKeeps ==
    ASSUME NEW object \in Seq(Param)
    PROVE  LET rest == Delete(object, "device_keys")
           IN  /\ rest \in Seq(Param)
               /\ Ordered(object) => Ordered(rest)
               /\ \A k : Decides(object, k) => Decides(rest, k)
<1> DEFINE rest == Delete(object, "device_keys")
           p == Position(object, "device_keys")
<1>1. CASE ~Has(object, "device_keys")
  BY <1>1 DEF Delete
<1>2. CASE Has(object, "device_keys")
  <2>1. p \in 1 .. Len(object) /\ object[p].name = "device_keys"
    BY <1>2 DEF Has, Position
  <2>2. rest = SubSeq(object, 1, p - 1) \o SubSeq(object, p + 1, Len(object))
    BY <1>2 DEF Delete, RemoveAt
  <2> HIDE DEF p
  <2>3. /\ rest \in Seq(Param) /\ Len(rest) = Len(object) - 1
        /\ \A i \in 1 .. Len(rest) : rest[i] = object[IF i < p THEN i ELSE i + 1]
    <3> DEFINE a == SubSeq(object, 1, p - 1)
               b == SubSeq(object, p + 1, Len(object))
    <3>1. /\ a \in Seq(Param) /\ Len(a) = p - 1
          /\ \A i \in 1 .. p - 1 : a[i] = object[i]
      BY <2>1
    <3>2. /\ b \in Seq(Param) /\ Len(b) = Len(object) - p
          /\ \A i \in 1 .. Len(object) - p : b[i] = object[p + i]
      BY <2>1
    <3> HIDE DEF a, b
    <3>3. a \o b \in Seq(Param) /\ Len(a \o b) = Len(object) - 1
      <4>1. a \o b \in Seq(Param) /\ Len(a \o b) = Len(a) + Len(b)
        BY <3>1, <3>2
      <4>2. Len(object) \in Nat
        OBVIOUS
      <4> QED BY <2>1, <3>1, <3>2, <4>1, <4>2
    <3>4. ASSUME NEW i \in 1 .. Len(object) - 1
          PROVE  (a \o b)[i] = object[IF i < p THEN i ELSE i + 1]
      <4>1. CASE i < p
        BY <2>1, <3>1, <3>2, <4>1
      <4>2. CASE ~(i < p)
        <5>1. i - (p - 1) \in 1 .. Len(object) - p /\ p + (i - (p - 1)) = i + 1
          BY <2>1, <4>2
        <5>2. (a \o b)[i] = b[i - (p - 1)]
          BY <2>1, <3>1, <3>2, <4>2
        <5> QED BY <3>2, <4>2, <5>1, <5>2
      <4> QED BY <4>1, <4>2
    <3> QED BY <2>2, <3>3, <3>4 DEF a, b
  <2> HIDE DEF rest
  <2>4. ASSUME Ordered(object), NEW i \in 1 .. Len(rest), NEW j \in 1 .. Len(rest),
               rest[i].name = "device_key", Lower(rest[j].name) = "device_key"
        PROVE  j <= i
    <3> DEFINE old(n) == IF n < p THEN n ELSE n + 1
    <3>1. /\ old(i) \in 1 .. Len(object) /\ rest[i] = object[old(i)]
          /\ old(j) \in 1 .. Len(object) /\ rest[j] = object[old(j)]
      BY <2>1, <2>3
    <3>2. old(j) <= old(i) => j <= i
      BY <2>1, <2>3
    <3> HIDE DEF old
    <3>3. old(j) <= old(i)
      BY <2>4, <3>1 DEF Ordered
    <3> QED BY <3>2, <3>3
  <2>5. ASSUME NEW k, Decides(object, k) PROVE Decides(rest, k)
    <3>1. PICK i \in 1 .. Len(object) :
             /\ object[i] = Entry("device_key", k)
             /\ \A j \in 1 .. Len(object) : Lower(object[j].name) = "device_key" => j <= i
      BY <2>5 DEF Decides
    <3>2. i # p
      BY <2>1, <3>1 DEF Entry
    <3> DEFINE l == IF i < p THEN i ELSE i - 1
    <3>3. l \in 1 .. Len(rest) /\ rest[l] = Entry("device_key", k)
      BY <2>1, <2>3, <3>1, <3>2
    <3>4. \A j \in 1 .. Len(rest) : Lower(rest[j].name) = "device_key" => j <= l
      BY <2>1, <2>3, <3>1, <3>2
    <3> QED BY <3>3, <3>4 DEF Decides
  <2> QED BY <2>3, <2>4, <2>5 DEF rest, Ordered
<1> QED BY <1>1, <1>2

-----------------------------------------------------------------------------
(* The parameters of a request *)

\* Parameters name a device, or none.
LEMMA DeviceKeyTyped ==
    ASSUME NEW object \in Seq(Param)
    PROVE  DeviceKey(object) \in Strings
<1>1. CASE Named(object) = {}
  BY <1>1 DEF DeviceKey, Strings
<1>2. CASE Named(object) # {}
  <2> DEFINE behind == {Len(object) - i : i \in Named(object)}
  <2>1. Named(object) \subseteq 1 .. Len(object) /\ Len(object) \in Nat
    BY DEF Named
  <2>2. behind # {} /\ behind \in SUBSET Nat
    BY <1>2, <2>1
  <2>3. PICK n \in behind : \A m \in behind : n <= m
    <3> HIDE DEF behind
    <3> QED BY <2>2, LeastNumber
  <2>4. PICK i \in Named(object) : n = Len(object) - i
    BY <2>3
  <2>5. ASSUME NEW j \in Named(object) PROVE j <= i
    <3>1. n <= Len(object) - j
      BY <2>3
    <3>2. i \in Int /\ j \in Int /\ Len(object) \in Int
      BY <2>1
    <3> QED BY <2>4, <3>1, <3>2
  <2> DEFINE last == CHOOSE l \in Named(object) : \A j \in Named(object) : j <= l
  <2>6. last \in Named(object)
    BY <2>5
  <2>7. object[last].value \in Key \cup {NoKey}
    BY <2>6 DEF Named
  <2> QED BY <1>2, <2>7 DEF DeviceKey, Strings
<1> QED BY <1>1, <1>2

\* The parameters of the path are merged last: the device they name decides.
LEMMA PathKeeps ==
    ASSUME NEW object \in Seq(Param), request \in Requests
    PROVE  LET params == AssignAll(object, PathParams)
           IN  /\ params \in Seq(Param)
               /\ Ordered(object) => Ordered(params)
               /\ Ordered(object) /\ request.path # NoParam => Decides(params, request.path)
<1>1. request.path \in Key \cup {NoParam}
  BY DEF Requests
<1>2. CASE request.path = NoParam
  <2>1. PathParams = <<>> /\ Len(<<>>) = 0
    BY <1>2 DEF PathParams
  <2>2. AssignAll(object, <<>>) = object
    BY <2>1, AssignsInSteps
  <2> QED BY <1>2, <2>1, <2>2
<1>3. CASE request.path # NoParam
  <2> DEFINE k == request.path
  <2>1. PathParams = <<Entry("device_key", k)>> /\ k \in Strings
    BY <1>1, <1>3 DEF PathParams, Strings
  <2>2. Entry("device_key", k).name = "device_key" /\ Entry("device_key", k).value = k
    BY DEF Entry
  <2>3. AssignAll(object, PathParams) = Assign(object, "device_key", k)
    <3>1. Len(PathParams) = 1 /\ PathParams[1] = Entry("device_key", k)
      BY <2>1
    <3> HIDE DEF k
    <3>2. PICK f : /\ f[0] = object /\ f[1] = AssignAll(object, PathParams)
                   /\ \A n \in 1 .. 1 :
                         f[n] = Assign(f[n - 1], PathParams[n].name, PathParams[n].value)
      <4>1. Len(PathParams) \in Nat
        BY <3>1
      <4>2. PICK f : /\ f[0] = object /\ f[Len(PathParams)] = AssignAll(object, PathParams)
                     /\ \A n \in 1 .. Len(PathParams) :
                           f[n] = Assign(f[n - 1], PathParams[n].name, PathParams[n].value)
        BY <4>1, AssignsInSteps
      <4> QED BY <3>1, <4>2
    <3> QED BY <2>2, <3>1, <3>2
  <2>4. k \in Values /\ "device_key" \in Name /\ Lower("device_key") = "device_key"
    BY <2>1 DEF Values, Name, Lower
  <2> QED BY <1>3, <2>1, <2>3, <2>4, AssignKeeps, AssignDecides
<1> QED BY <1>2, <1>3

LEMMA RequestTyped ==
    ASSUME request \in Requests
    PROVE  /\ request.query \in Seq(Param) /\ request.body \in Seq(Param)
           /\ request.version \in {"V1", "V2"}
<1>1. \A object \in Bodies \cup Entries : object \in Seq(Param)
  <2> SUFFICES ASSUME NEW object \in Bodies \cup Entries PROVE object \in Seq(Param)
    OBVIOUS
  <2> DEFINE R == [name: STRING, value: Values]
  <2>1. object \in Seq(R)
    BY PushParamsAssumption
  <2>2. R \subseteq Param
    BY DEF Param, Name
  <2> HIDE DEF R
  <2> QED BY <2>1, <2>2
<1> QED BY <1>1 DEF Requests

LEMMA ParamsV1Decided ==
    ASSUME request \in Requests
    PROVE  /\ ParamsV1 \in Seq(Param)
           /\ request.path # NoParam => Decides(ParamsV1, request.path)
<1> DEFINE query == LowerCaseEntryMap(request.query)
           form == LowerCaseEntryMap(request.body)
<1>1. /\ query \in Seq(Param) /\ Ordered(query)
      /\ form \in Seq(Param) /\ Lowercase(form)
  BY RequestTyped, LowerCaseEntryMapKeeps
<1> HIDE DEF query, form
<1>2. AssignAll(query, form) \in Seq(Param) /\ Ordered(AssignAll(query, form))
  BY <1>1, AssignAllKeeps
<1>3. ParamsV1 = AssignAll(AssignAll(query, form), PathParams)
  BY DEF ParamsV1, query, form
<1> QED BY <1>2, <1>3, PathKeeps

LEMMA ParamsV2Decided ==
    ASSUME request \in Requests
    PROVE  /\ ParamsV2 \in Seq(Param)
           /\ NamesDistinct(request.body) => Ordered(ParamsV2)
           /\ NamesDistinct(request.body) /\ request.path # NoParam
                 => Decides(ParamsV2, request.path)
<1> DEFINE query == LowerCaseEntryMap(request.query)
           merged == AssignAll(request.body, query)
<1>1. query \in Seq(Param) /\ Lowercase(query) /\ request.body \in Seq(Param)
  BY RequestTyped, LowerCaseEntryMapKeeps
<1>2. NamesDistinct(request.body) => Ordered(request.body)
  BY <1>1 DEF NamesDistinct, Ordered, Lower
<1> HIDE DEF query
<1>3. merged \in Seq(Param) /\ (NamesDistinct(request.body) => Ordered(merged))
  BY <1>1, <1>2, AssignAllKeeps
<1>4. ParamsV2 = AssignAll(merged, PathParams)
  BY DEF ParamsV2, merged, query
<1> HIDE DEF merged
<1> QED BY <1>3, <1>4, PathKeeps

LEMMA ListedKeysTyped ==
    ASSUME request \in Requests
    PROVE  ListedKeys \in Seq(Strings) \cup {NotString}
<1>1. CASE Has(ParamsV2, "device_keys")
  <2> DEFINE p == Position(ParamsV2, "device_keys")
  <2>1. p \in 1 .. Len(ParamsV2)
    BY <1>1 DEF Has, Position
  <2>2. ParamsV2[p] \in Param
    BY <2>1, ParamsV2Decided
  <2>3. Get(ParamsV2, "device_keys") \in Values
    BY <2>2 DEF Get, Param
  <2>4. \A v \in Values : ReadDeviceKeys(v) \in Seq(Strings) \cup {NotString}
    <3>1. \A v \in Strings : <<v>> \in Seq(Strings)
      OBVIOUS
    <3> QED BY <3>1 DEF ReadDeviceKeys, Values
  <2> QED BY <1>1, <2>3, <2>4 DEF ListedKeys
<1>2. CASE ~Has(ParamsV2, "device_keys")
  BY <1>2 DEF ListedKeys
<1> QED BY <1>1, <1>2

-----------------------------------------------------------------------------
(* The theorems *)

IInv == TypeOK /\ PathDecides /\ BatchReachesListed

LEMMA InitIInv == Init => IInv
BY DEF Init, IInv, TypeOK, PathDecides, BatchReachesListed

\* The single call of a form reaches the device of its path.
LEMMA PushV1Keeps ==
    ASSUME IInv, PushV1
    PROVE  IInv'
<1>1. /\ request \in Requests /\ request' = request /\ request.version = "V1"
      /\ stage' = "pushed" /\ targets' = <<DeviceKey(ParamsV1)>>
  BY DEF IInv, TypeOK, PushV1, Answer
<1>2. DeviceKey(ParamsV1) \in Strings
  BY <1>1, ParamsV1Decided, DeviceKeyTyped
<1>3. ASSUME request.path # NoParam PROVE DeviceKey(ParamsV1) = request.path
  <2>1. request.path \in Strings
    BY <1>1, <1>3 DEF Requests, Strings
  <2> QED BY <1>1, <1>3, <2>1, ParamsV1Decided, DecidingKey
<1>4. TypeOK'
  BY <1>1, <1>2 DEF TypeOK
<1>5. PathDecides' /\ BatchReachesListed'
  BY <1>1, <1>3 DEF PathDecides, BatchReachesListed
<1> QED BY <1>4, <1>5 DEF IInv

\* So does the one of a JSON body without a list; with one, each call has its own key.
LEMMA PushV2Keeps ==
    ASSUME IInv, PushV2
    PROVE  IInv'
<1> DEFINE keys == ListedKeys
           rest == Delete(ParamsV2, "device_keys")
<1>1. /\ request \in Requests /\ request' = request /\ request.version = "V2"
      /\ stage' = "pushed" /\ keys # NotString
      /\ targets' = IF Len(keys) = 0 THEN <<DeviceKey(rest)>>
                    ELSE [i \in 1 .. Len(keys) |-> DeviceKey(WithKey(rest, keys[i]))]
  BY DEF IInv, TypeOK, PushV2, Answer
<1>2. keys \in Seq(Strings)
  BY <1>1, ListedKeysTyped
<1>3. /\ ParamsV2 \in Seq(Param)
      /\ NamesDistinct(request.body) => Ordered(ParamsV2)
      /\ NamesDistinct(request.body) /\ request.path # NoParam => Decides(ParamsV2, request.path)
  BY <1>1, ParamsV2Decided
<1>4. /\ rest \in Seq(Param)
      /\ NamesDistinct(request.body) => Ordered(rest)
      /\ NamesDistinct(request.body) /\ request.path # NoParam => Decides(rest, request.path)
  BY <1>3, DeleteKeeps
<1>5. ListedKeys' = keys
  BY <1>1 DEF ListedKeys, ParamsV2, PathParams
<1> HIDE DEF keys, rest
<1>6. ASSUME NEW k \in Strings
      PROVE  /\ DeviceKey(WithKey(rest, k)) \in Strings
             /\ NamesDistinct(request.body) => DeviceKey(WithKey(rest, k)) = k
  <2>1. k \in Values /\ "device_key" \in Name /\ Lower("device_key") = "device_key"
    BY DEF Values, Name, Lower
  <2>2. WithKey(rest, k) \in Seq(Param)
    BY <1>4, <2>1, AssignKeeps DEF WithKey
  <2>3. NamesDistinct(request.body) => Decides(WithKey(rest, k), k)
    BY <1>4, AssignDecides DEF WithKey
  <2> QED BY <2>2, <2>3, DeviceKeyTyped, DecidingKey
<1>7. targets' \in Seq(Strings)
  <2>1. CASE Len(keys) = 0
    BY <1>1, <1>4, <2>1, DeviceKeyTyped
  <2>2. CASE Len(keys) # 0
    BY <1>1, <1>2, <1>6, <2>2
  <2> QED BY <2>1, <2>2
<1>8. ASSUME NamesDistinct(request.body), request.path # NoParam, keys = <<>>
      PROVE  targets' = <<request.path>>
  <2>1. request.path \in Strings
    BY <1>1, <1>8 DEF Requests, Strings
  <2>2. DeviceKey(rest) = request.path
    BY <1>4, <1>8, <2>1, DecidingKey
  <2> QED BY <1>1, <1>8, <2>2
<1>9. ASSUME NamesDistinct(request.body), keys # <<>>
      PROVE  targets' = keys
  <2>1. Len(keys) # 0 /\ keys = [i \in 1 .. Len(keys) |-> keys[i]]
    BY <1>2, <1>9
  <2>2. \A i \in 1 .. Len(keys) : DeviceKey(WithKey(rest, keys[i])) = keys[i]
    BY <1>2, <1>6, <1>9
  <2> QED BY <1>1, <2>1, <2>2
<1>10. TypeOK'
  BY <1>1, <1>7 DEF TypeOK, Requests, Strings
<1>11. PathDecides' /\ BatchReachesListed'
  BY <1>1, <1>5, <1>8, <1>9 DEF PathDecides, BatchReachesListed, NamesDistinct
<1> QED BY <1>10, <1>11 DEF IInv

LEMMA NextIInv == IInv /\ [Next]_vars => IInv'
<1> SUFFICES ASSUME IInv, [Next]_vars PROVE IInv'
  OBVIOUS
<1>1. CASE RejectRequest
  BY <1>1 DEF RejectRequest, IInv, TypeOK, PathDecides, BatchReachesListed
<1>2. CASE RejectKeys
  BY <1>2 DEF RejectKeys, IInv, TypeOK, PathDecides, BatchReachesListed
<1>3. CASE UNCHANGED vars
  BY <1>3 DEF vars, IInv, TypeOK, PathDecides, BatchReachesListed, ListedKeys, ParamsV2, PathParams
<1> QED BY <1>1, <1>2, <1>3, PushV1Keeps, PushV2Keeps DEF Next

LEMMA Inductive == Spec => []IInv
BY InitIInv, NextIInv, PTL DEF Spec

\* Every push reaches strings, whatever the values of the parameters are.
THEOREM PushParamsTypeCorrect == Spec => []TypeOK
<1>1. IInv => TypeOK
  BY DEF IInv
<1> QED BY Inductive, <1>1, PTL

\* A push to /:device_key/... reaches the device of its path, for any query and form
\* and any JSON body that spells device_key in one way.
THEOREM PathsDecide == Spec => []PathDecides
<1>1. IInv => PathDecides
  BY DEF IInv
<1> QED BY Inductive, <1>1, PTL

\* A batch of any length reaches the devices it lists, in their order.
THEOREM BatchesReachListed == Spec => []BatchReachesListed
<1>1. IInv => BatchReachesListed
  BY DEF IInv
<1> QED BY Inductive, <1>1, PTL

=============================================================================
