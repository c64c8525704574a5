---------------------------- MODULE SyncMapProofs ----------------------------
(***************************************************************************)
(* Theorems about SyncHashMap, SyncBtreeMap and SyncIndexMap for every set *)
(* of threads, guards and entries.  First what the methods do with a       *)
(* sequence of entries, then that its calls are what Container asks for,   *)
(* so that the theorems of ContainerProofs hold of it, and then that the   *)
(* atomic map they give is a function from keys to values.                 *)
(***************************************************************************)
EXTENDS SyncMap, FiniteSetTheorems, SequenceTheorems, WellFoundedInduction,
  TLAPS

(* The entries of a map of any length.                                     *)
Pairs == Seq(Entries)

(* No key twice; the keys in the order of a btree.                         *)
Distinct(s) == \A i, j \in DOMAIN s : s[i][1] = s[j][1] => i = j
InOrder(s)  == \A i, j \in DOMAIN s : i < j => s[i][1] < s[j][1]
(* The value of a key that is there.                                       *)
Value(s, k) == s[At(s, k)][2]

(* What the assumption says of the entries of a sequence.                  *)
LEMMA PairsAre ==
  ASSUME NEW s \in Pairs
  PROVE  /\ Len(s) \in Nat /\ DOMAIN s = 1 .. Len(s)
         /\ \A i \in DOMAIN s :
              s[i] \in Entries /\ s[i][1] \in Int /\ s[i] = <<s[i][1], s[i][2]>>
  BY SyncMapAssumption DEF Pairs

(* A key that is there is found (get, contains_key).                       *)
LEMMA Found ==
  ASSUME NEW s, NEW k, Has(s, k)
  PROVE  At(s, k) \in DOMAIN s /\ s[At(s, k)][1] = k
  BY DEF Has, At

(* It is found at its only place.                                          *)
LEMMA FoundOnce ==
  ASSUME NEW s, Distinct(s), NEW i \in DOMAIN s
  PROVE  /\ At(s, s[i][1]) = i /\ Has(s, s[i][1]) /\ s[i][1] \in KeysOf(s)
         /\ Value(s, s[i][1]) = s[i][2]
  BY Found DEF Has, Distinct, KeysOf, Value

(* A key is there if some entry has it.                                    *)
LEMMA HasKey ==
  ASSUME NEW s, NEW k
  PROVE  Has(s, k) <=> k \in KeysOf(s)
  BY DEF Has, KeysOf

(* The entries of u are those of s but for the one at i, in the places     *)
(* that m says.                                                            *)
Matches(u, s, i, m) ==
  /\ m \in [DOMAIN u -> DOMAIN s \ {i}]
  /\ \A j, l \in DOMAIN u : m[j] = m[l] => j = l
  /\ \A l \in DOMAIN s \ {i} : \E j \in DOMAIN u : m[j] = l
  /\ \A j \in DOMAIN u : u[j] = s[m[j]]

(* An entry is taken out.                                                  *)
LEMMA Fewer ==
  ASSUME NEW s \in Pairs, NEW u \in Pairs, Distinct(s), NEW i \in DOMAIN s,
         NEW m, Matches(u, s, i, m)
  PROVE  /\ Distinct(u)
         /\ KeysOf(u) = KeysOf(s) \ {s[i][1]}
         /\ \A k \in KeysOf(u) : Value(u, k) = Value(s, k)
<1> USE DEF Matches
<1>1. Distinct(u)
  BY DEF Distinct
<1>2. KeysOf(u) = KeysOf(s) \ {s[i][1]}
  BY DEF Distinct, KeysOf
<1>3. ASSUME NEW k \in KeysOf(u)
      PROVE  Value(u, k) = Value(s, k)
  <2>1. PICK j \in DOMAIN u : u[j][1] = k
    BY <1>3 DEF KeysOf
  <2>2. Value(u, k) = u[j][2]
    BY <1>1, <2>1, FoundOnce
  <2>3. m[j] \in DOMAIN s /\ s[m[j]] = u[j]
    OBVIOUS
  <2>4. Value(s, k) = s[m[j]][2]
    BY <2>1, <2>3, FoundOnce
  <2> QED
    BY <2>2, <2>3, <2>4
<1> QED
  BY <1>1, <1>2, <1>3

(* An entry with another key is put in.                                    *)
LEMMA More ==
  ASSUME NEW s \in Pairs, NEW u \in Pairs, Distinct(s), NEW i \in DOMAIN u,
         u[i][1] \notin KeysOf(s),
         NEW m, Matches(s, u, i, m)
  PROVE  /\ Distinct(u)
         /\ KeysOf(u) = KeysOf(s) \cup {u[i][1]}
         /\ \A k \in KeysOf(s) : Value(u, k) = Value(s, k)
         /\ Value(u, u[i][1]) = u[i][2]
<1> USE DEF Matches
<1>1. Distinct(u)
  <2> SUFFICES ASSUME NEW a \in DOMAIN u, NEW b \in DOMAIN u, u[a][1] = u[b][1]
               PROVE  a = b
    BY DEF Distinct
  <2>1. \A l \in DOMAIN u \ {i} : u[l][1] \in KeysOf(s)
    BY DEF KeysOf
  <2>2. CASE a = i \/ b = i
    BY <2>1, <2>2
  <2>3. CASE a # i /\ b # i
    <3>1. PICK j \in DOMAIN s : m[j] = a
      BY <2>3
    <3>2. PICK l \in DOMAIN s : m[l] = b
      BY <2>3
    <3> QED
      BY <3>1, <3>2 DEF Distinct
  <2> QED
    BY <2>2, <2>3
<1>2. KeysOf(u) = KeysOf(s) \cup {u[i][1]}
  <2>1. \A l \in DOMAIN u \ {i} : u[l][1] \in KeysOf(s)
    BY DEF KeysOf
  <2>2. \A j \in DOMAIN s : s[j][1] \in KeysOf(u)
    BY DEF KeysOf
  <2>3. u[i][1] \in KeysOf(u)
    BY DEF KeysOf
  <2> QED
    BY <2>1, <2>2, <2>3 DEF KeysOf
<1>3. ASSUME NEW k \in KeysOf(s)
      PROVE  Value(u, k) = Value(s, k)
  <2>1. PICK j \in DOMAIN s : s[j][1] = k
    BY <1>3 DEF KeysOf
  <2>2. Value(s, k) = s[j][2]
    BY <2>1, FoundOnce
  <2>3. m[j] \in DOMAIN u /\ u[m[j]] = s[j]
    OBVIOUS
  <2>4. Value(u, k) = u[m[j]][2]
    BY <1>1, <2>1, <2>3, FoundOnce
  <2> QED
    BY <2>2, <2>3, <2>4
<1> QED
  BY <1>1, <1>2, <1>3, FoundOnce

(* One entry is replaced by one with the same key.                         *)
LEMMA Replaced ==
  ASSUME NEW s \in Pairs, Distinct(s), NEW i \in DOMAIN s, NEW e \in Entries,
         e[1] = s[i][1]
  PROVE  LET u == [s EXCEPT ![i] = e]
         IN  /\ u \in Pairs /\ Distinct(u) /\ KeysOf(u) = KeysOf(s)
             /\ InOrder(s) => InOrder(u)
             /\ Len(u) = Len(s)
             /\ \A k \in KeysOf(s) : At(u, k) = At(s, k)
             /\ \A k \in KeysOf(s) :
                  Value(u, k) = IF k = e[1] THEN e[2] ELSE Value(s, k)
<1> DEFINE u == [s EXCEPT ![i] = e]
<1>1. u \in Pairs /\ Len(u) = Len(s) /\ DOMAIN u = DOMAIN s
  BY DEF Pairs
<1>2. \A j \in DOMAIN s : u[j][1] = s[j][1] /\ (j # i => u[j] = s[j])
  OBVIOUS
<1>3. u[i] = e
  OBVIOUS
<1> HIDE DEF u
<1>4. Distinct(u) /\ KeysOf(u) = KeysOf(s) /\ (InOrder(s) => InOrder(u))
  BY <1>1, <1>2 DEF Distinct, KeysOf, InOrder
<1>5. ASSUME NEW k \in KeysOf(s)
      PROVE  /\ At(u, k) = At(s, k)
             /\ Value(u, k) = IF k = e[1] THEN e[2] ELSE Value(s, k)
  <2>1. PICK j \in DOMAIN s : s[j][1] = k
    BY <1>5 DEF KeysOf
  <2>2. At(s, k) = j /\ Value(s, k) = s[j][2]
    BY <2>1, FoundOnce
  <2>3. At(u, k) = j /\ Value(u, k) = u[j][2]
    BY <1>1, <1>2, <1>4, <2>1, FoundOnce
  <2>4. k = e[1] <=> j = i
    BY <2>1 DEF Distinct
  <2> QED
    BY <1>2, <1>3, <2>2, <2>3, <2>4
<1> QED
  BY <1>1, <1>4, <1>5 DEF u

(* u is s with e put in at place p.                                        *)
PutIn(u, s, e, p) ==
  /\ p \in 1 .. Len(s) + 1
  /\ u \in Pairs /\ Len(u) = Len(s) + 1 /\ u[p] = e
  /\ \A j \in 1 .. Len(s) : s[j] = u[IF j < p THEN j ELSE j + 1]

(* What InsertAt, RemoveAt and SwapRemove do, place by place.              *)
LEMMA InsertedAt ==
  ASSUME NEW s \in Pairs, NEW e \in Entries, NEW p \in 1 .. Len(s) + 1
  PROVE  PutIn(S!InsertAt(s, p, e), s, e, p)
<1> DEFINE a == SubSeq(s, 1, p - 1)
           b == SubSeq(s, p, Len(s))
           u == S!InsertAt(s, p, e)
<1>1. Len(s) \in Nat /\ p \in Nat
  BY DEF Pairs
<1>2. a \in Pairs /\ Len(a) = p - 1 /\ \A j \in 1 .. p - 1 : a[j] = s[j]
  BY <1>1 DEF Pairs
<1>3. b \in Pairs /\ Len(b) = Len(s) - p + 1
  BY <1>1 DEF Pairs
<1>4. \A j \in 1 .. Len(s) - p + 1 : b[j] = s[p - 1 + j]
  BY <1>1 DEF Pairs
<1>5. u = (a \o <<e>>) \o b
  BY DEF S!InsertAt
<1> HIDE DEF a, b, u
<1>6. a \o <<e>> \in Pairs /\ Len(a \o <<e>>) = p
  BY <1>1, <1>2 DEF Pairs
<1>7. (a \o <<e>>)[p] = e /\ \A j \in 1 .. p - 1 : (a \o <<e>>)[j] = a[j]
  BY <1>1, <1>2 DEF Pairs
<1> DEFINE d == a \o <<e>>
<1> HIDE DEF d
<1>8. u \in Pairs /\ Len(u) = Len(s) + 1
  BY <1>1, <1>3, <1>5, <1>6 DEF d, Pairs
<1>9. u[p] = e
  BY <1>1, <1>3, <1>5, <1>6, <1>7 DEF d, Pairs
<1>10. ASSUME NEW j \in 1 .. Len(s)
       PROVE  s[j] = u[IF j < p THEN j ELSE j + 1]
  <2>1. CASE j < p
    <3>1. u[j] = d[j]
      BY <1>1, <1>3, <1>5, <1>6, <2>1 DEF d, Pairs
    <3> QED
      BY <1>1, <1>2, <1>7, <2>1, <3>1 DEF d
  <2>2. CASE ~(j < p)
    <3>1. u[j + 1] = b[j + 1 - p]
      BY <1>1, <1>3, <1>5, <1>6, <2>2 DEF d, Pairs
    <3>2. j + 1 - p \in 1 .. Len(s) - p + 1 /\ p - 1 + (j + 1 - p) = j
      BY <1>1, <2>2
    <3> QED
      BY <1>4, <2>2, <3>1, <3>2
  <2> QED
    BY <2>1, <2>2
<1> QED
  BY <1>8, <1>9, <1>10 DEF u, PutIn

LEMMA RemovedAt ==
  ASSUME NEW s \in Pairs, NEW i \in 1 .. Len(s)
  PROVE  LET u == S!RemoveAt(s, i)
         IN  /\ u \in Pairs /\ Len(u) = Len(s) - 1
             /\ \A j \in 1 .. Len(s) - 1 : u[j] = s[IF j < i THEN j ELSE j + 1]
<1> DEFINE a == SubSeq(s, 1, i - 1)
           b == SubSeq(s, i + 1, Len(s))
           u == S!RemoveAt(s, i)
<1>1. Len(s) \in Nat /\ i \in Nat
  BY DEF Pairs
<1>2. a \in Pairs /\ Len(a) = i - 1 /\ \A j \in 1 .. i - 1 : a[j] = s[j]
  BY <1>1 DEF Pairs
<1>3. b \in Pairs /\ Len(b) = Len(s) - i
  BY <1>1 DEF Pairs
<1>4. \A j \in 1 .. Len(s) - i : b[j] = s[i + j]
  BY <1>1 DEF Pairs
<1>5. u = a \o b
  BY DEF S!RemoveAt
<1> HIDE DEF a, b, u
<1>6. u \in Pairs /\ Len(u) = Len(s) - 1
  BY <1>1, <1>2, <1>3, <1>5 DEF Pairs
<1>7. ASSUME NEW j \in 1 .. Len(s) - 1
      PROVE  u[j] = s[IF j < i THEN j ELSE j + 1]
  <2>1. CASE j < i
    BY <1>1, <1>2, <1>3, <1>5, <2>1 DEF Pairs
  <2>2. CASE ~(j < i)
    <3>1. u[j] = b[j - i + 1]
      BY <1>1, <1>2, <1>3, <1>5, <2>2 DEF Pairs
    <3>2. j - i + 1 \in 1 .. Len(s) - i /\ i + (j - i + 1) = j + 1
      BY <1>1, <2>2
    <3> QED
      BY <1>4, <2>2, <3>1, <3>2
  <2> QED
    BY <2>1, <2>2
<1> QED
  BY <1>6, <1>7 DEF u

LEMMA SwapRemoved ==
  ASSUME NEW s \in Pairs, NEW i \in 1 .. Len(s)
  PROVE  LET u == SwapRemove(s, i)
         IN  /\ u \in Pairs /\ Len(u) = Len(s) - 1
             /\ \A j \in 1 .. Len(s) - 1 : u[j] = s[IF j = i THEN Len(s) ELSE j]
<1> DEFINE w == [j \in DOMAIN s |-> IF j = i THEN s[Len(s)] ELSE s[j]]
<1>1. Len(s) \in Nat /\ i \in Nat /\ DOMAIN s = 1 .. Len(s)
  BY DEF Pairs
<1>2. w \in [1 .. Len(s) -> Entries]
  BY <1>1 DEF Pairs
<1>3. w \in Pairs /\ Len(w) = Len(s)
  BY <1>1, <1>2 DEF Pairs
<1>4. \A j \in 1 .. Len(s) : w[j] = s[IF j = i THEN Len(s) ELSE j]
  BY <1>1
<1>5. SwapRemove(s, i) = SubSeq(w, 1, Len(w) - 1)
  BY DEF SwapRemove, S!Front
<1> HIDE DEF w
<1> QED
  BY <1>1, <1>3, <1>4, <1>5 DEF Pairs

(* Where a key that is not there belongs.                                  *)
LEMMA Position ==
  ASSUME NEW s \in Pairs, InOrder(s), NEW k \in Int, k \notin KeysOf(s)
  PROVE  LET p == Cardinality({i \in DOMAIN s : s[i][1] < k}) + 1
         IN  /\ p \in 1 .. Len(s) + 1
             /\ \A i \in DOMAIN s : IF i < p THEN s[i][1] < k ELSE k < s[i][1]
<1> DEFINE A == {i \in DOMAIN s : s[i][1] < k}
           B == (1 .. Len(s) + 1) \ A
<1>1. Len(s) \in Nat /\ DOMAIN s = 1 .. Len(s) /\ \A i \in DOMAIN s : s[i][1] \in Int
  BY PairsAre
<1>2. B \subseteq Nat /\ Len(s) + 1 \in B
  BY <1>1
<1>3. PICK p \in B : \A i \in B : ~(<<i, p>> \in OpToRel(<, Nat))
  BY <1>2, NatLessThanWellFounded, WFMin
<1>4. \A i \in B : p <= i
  <2>1. \A i \in B : i < p => <<i, p>> \in OpToRel(<, Nat)
    BY <1>2 DEF OpToRel
  <2>2. \A i \in B : ~(i < p)
    BY <1>3, <2>1
  <2> QED
    BY <1>2, <2>2
<1>5. A = 1 .. p - 1
  <2>1. ASSUME NEW i \in 1 .. p - 1
        PROVE  i \in A
    BY <1>1, <1>2, <1>4
  <2>2. ASSUME NEW i \in A
        PROVE  i \in 1 .. p - 1
    <3>1. CASE p = Len(s) + 1
      BY <1>1, <3>1
    <3>2. CASE p # Len(s) + 1
      <4>1. p \in DOMAIN s /\ ~(s[p][1] < k)
        BY <1>1, <3>2
      <4>2. ~(p < i) /\ p # i
        BY <1>1, <2>2, <4>1 DEF InOrder
      <4> QED
        BY <1>1, <1>2, <4>2
    <3> QED
      BY <3>1, <3>2
  <2> QED
    BY <2>1, <2>2
<1>6. Cardinality(A) = p - 1
  <2>1. p \in Nat /\ p >= 1
    BY <1>1, <1>2
  <2>2. Cardinality(1 .. p - 1) = p - 1
    BY <2>1, FS_Interval
  <2> QED
    BY <1>5, <2>2
<1>7. Cardinality(A) + 1 = p /\ p \in 1 .. Len(s) + 1
  BY <1>1, <1>2, <1>6
<1>8. ASSUME NEW i \in DOMAIN s
      PROVE  IF i < p THEN s[i][1] < k ELSE k < s[i][1]
  <2>1. s[i][1] # k
    BY DEF KeysOf
  <2>2. i < p <=> i \in A
    BY <1>1, <1>5, <1>7
  <2> QED
    BY <1>1, <2>1, <2>2
<1> QED
  BY <1>7, <1>8

(* What is put in with a new key leaves the other keys their values        *)
(* (insert of map_hash.rs, map_btree.rs, map_index.rs).                    *)
LEMMA Grown ==
  ASSUME NEW s \in Pairs, Distinct(s), NEW e \in Entries, e[1] \notin KeysOf(s),
         NEW u, NEW p, PutIn(u, s, e, p)
  PROVE  /\ Distinct(u)
         /\ KeysOf(u) = KeysOf(s) \cup {e[1]}
         /\ \A k \in KeysOf(s) : Value(u, k) = Value(s, k)
         /\ Value(u, e[1]) = e[2]
<1> DEFINE m == [j \in DOMAIN s |-> IF j < p THEN j ELSE j + 1]
<1> USE DEF PutIn
<1>1. /\ Len(s) \in Nat /\ DOMAIN s = 1 .. Len(s)
      /\ DOMAIN u = 1 .. Len(s) + 1 /\ p \in DOMAIN u
  BY PairsAre
<1>2. m \in [DOMAIN s -> DOMAIN u \ {p}]
  BY <1>1
<1>3. \A j, l \in DOMAIN s : m[j] = m[l] => j = l
  BY <1>1
<1>4. ASSUME NEW l \in DOMAIN u \ {p}
      PROVE  \E j \in DOMAIN s : m[j] = l
  <2>1. CASE l < p
    BY <1>1, <2>1
  <2>2. CASE ~(l < p)
    <3>1. l - 1 \in DOMAIN s /\ m[l - 1] = l
      BY <1>1, <2>2
    <3> QED
      BY <3>1
  <2> QED
    BY <2>1, <2>2
<1>5. \A j \in DOMAIN s : s[j] = u[m[j]]
  BY <1>1
<1> HIDE DEF m
<1>6. p \in DOMAIN u /\ u[p][1] \notin KeysOf(s)
  BY <1>1
<1>7. /\ Distinct(u)
      /\ KeysOf(u) = KeysOf(s) \cup {u[p][1]}
      /\ \A k \in KeysOf(s) : Value(u, k) = Value(s, k)
      /\ Value(u, u[p][1]) = u[p][2]
  <2>1. Matches(s, u, p, m)
    BY <1>2, <1>3, <1>4, <1>5 DEF Matches
  <2> QED
    BY <1>6, <2>1, More
<1> QED
  BY <1>7

(* Put in where its key belongs, it keeps the order that the searches of a *)
(* btree rely on.                                                          *)
LEMMA GrownInOrder ==
  ASSUME NEW s \in Pairs, InOrder(s), NEW e \in Entries,
         NEW u, NEW p, PutIn(u, s, e, p),
         \A j \in DOMAIN s : IF j < p THEN s[j][1] < e[1] ELSE e[1] < s[j][1]
  PROVE  InOrder(u)
<1> USE DEF PutIn
<1>1. /\ Len(s) \in Nat /\ DOMAIN s = 1 .. Len(s) /\ DOMAIN u = 1 .. Len(s) + 1
      /\ p \in Nat /\ \A j \in DOMAIN s : s[j][1] \in Int
  BY PairsAre
<1>2. ASSUME NEW a \in DOMAIN u, a < p
      PROVE  a \in DOMAIN s /\ u[a] = s[a]
  BY <1>1, <1>2
<1>3. ASSUME NEW a \in DOMAIN u, p < a
      PROVE  a - 1 \in DOMAIN s /\ u[a] = s[a - 1] /\ ~(a - 1 < p)
  BY <1>1, <1>3
<1>4. ASSUME NEW a \in DOMAIN u, NEW b \in DOMAIN u, a < b
      PROVE  u[a][1] < u[b][1]
  <2>1. CASE a < p /\ b < p
    BY <1>2, <1>4, <2>1 DEF InOrder
  <2>2. CASE a < p /\ b = p
    BY <1>2, <2>2
  <2>3. CASE a < p /\ p < b
    BY <1>1, <1>2, <1>3, <2>3 DEF InOrder
  <2>4. CASE a = p /\ p < b
    BY <1>3, <2>4
  <2>5. CASE p < a /\ p < b
    BY <1>1, <1>3, <1>4, <2>5 DEF InOrder
  <2> QED
    BY <1>1, <1>4, <2>1, <2>2, <2>3, <2>4, <2>5
<1> QED
  BY <1>4 DEF InOrder

(* What remove of a btree takes out leaves the others in their order.      *)
LEMMA Shrunk ==
  ASSUME NEW s \in Pairs, Distinct(s), NEW i \in 1 .. Len(s)
  PROVE  LET u == S!RemoveAt(s, i)
         IN  /\ u \in Pairs /\ Distinct(u)
             /\ InOrder(s) => InOrder(u)
             /\ KeysOf(u) = KeysOf(s) \ {s[i][1]}
             /\ \A k \in KeysOf(u) : Value(u, k) = Value(s, k)
<1> DEFINE u == S!RemoveAt(s, i)
           m == [j \in DOMAIN u |-> IF j < i THEN j ELSE j + 1]
<1>0. u \in Pairs /\ Len(u) = Len(s) - 1
  BY RemovedAt
<1>1. /\ Len(s) \in Nat /\ DOMAIN s = 1 .. Len(s) /\ DOMAIN u = 1 .. Len(s) - 1
  BY <1>0, PairsAre
<1>2. \A j \in 1 .. Len(s) - 1 : u[j] = s[IF j < i THEN j ELSE j + 1]
  BY RemovedAt
<1> HIDE DEF u
<1>3. m \in [DOMAIN u -> DOMAIN s \ {i}]
  BY <1>1
<1>4. /\ \A j, l \in DOMAIN u : m[j] = m[l] => j = l
      /\ \A j, l \in DOMAIN u : j < l => m[j] < m[l]
  BY <1>1
<1>5. ASSUME NEW l \in DOMAIN s \ {i}
      PROVE  \E j \in DOMAIN u : m[j] = l
  <2>1. CASE l < i
    BY <1>1, <2>1
  <2>2. CASE ~(l < i)
    <3>1. l - 1 \in DOMAIN u /\ m[l - 1] = l
      BY <1>1, <2>2
    <3> QED
      BY <3>1
  <2> QED
    BY <2>1, <2>2
<1>6. \A j \in DOMAIN u : u[j] = s[m[j]]
  BY <1>1, <1>2
<1> HIDE DEF m
<1>7. InOrder(s) => InOrder(u)
  BY <1>3, <1>4, <1>6 DEF InOrder
<1>8. i \in DOMAIN s
  BY <1>1
<1>9. /\ Distinct(u) /\ KeysOf(u) = KeysOf(s) \ {s[i][1]}
      /\ \A k \in KeysOf(u) : Value(u, k) = Value(s, k)
  <2>1. Matches(u, s, i, m)
    BY <1>3, <1>4, <1>5, <1>6 DEF Matches
  <2> QED
    BY <1>0, <1>8, <2>1, Fewer
<1> QED
  BY <1>0, <1>7, <1>9 DEF u

(* What swap_remove of an index map takes out leaves the others in their   *)
(* places but for the last.                                                *)
LEMMA SwapShrunk ==
  ASSUME NEW s \in Pairs, Distinct(s), NEW i \in 1 .. Len(s)
  PROVE  LET u == SwapRemove(s, i)
         IN  /\ u \in Pairs /\ Distinct(u) /\ Len(u) = Len(s) - 1
             /\ KeysOf(u) = KeysOf(s) \ {s[i][1]}
             /\ \A k \in KeysOf(u) :
                  /\ Value(u, k) = Value(s, k)
                  /\ At(s, k) = Len(s) \/ At(u, k) = At(s, k)
<1> DEFINE u == SwapRemove(s, i)
           m == [j \in DOMAIN u |-> IF j = i THEN Len(s) ELSE j]
<1>0. u \in Pairs /\ Len(u) = Len(s) - 1
  BY SwapRemoved
<1>1. /\ Len(s) \in Nat /\ DOMAIN s = 1 .. Len(s) /\ DOMAIN u = 1 .. Len(s) - 1
  BY <1>0, PairsAre
<1>2. \A j \in 1 .. Len(s) - 1 : u[j] = s[IF j = i THEN Len(s) ELSE j]
  BY SwapRemoved
<1>10. /\ \A j \in 1 .. Len(s) - 1 : j \in 1 .. Len(s) /\ j # Len(s)
       /\ Len(s) \in 1 .. Len(s)
       /\ \A j \in 1 .. Len(s) : j # Len(s) => j \in 1 .. Len(s) - 1
  <2>1. \A n \in Nat : \A j \in 1 .. n - 1 : j \in 1 .. n /\ j # n
    OBVIOUS
  <2>2. \A n \in Nat : \A j \in 1 .. n : n \in 1 .. n
    OBVIOUS
  <2>3. \A n \in Nat : \A j \in 1 .. n : j # n => j \in 1 .. n - 1
    OBVIOUS
  <2> QED
    BY <1>1, <2>1, <2>2, <2>3
<1> HIDE DEF u
<1>3. m \in [DOMAIN u -> DOMAIN s \ {i}]
  <2>1. ASSUME NEW j \in 1 .. Len(s) - 1
        PROVE  (IF j = i THEN Len(s) ELSE j) \in (1 .. Len(s)) \ {i}
    <3>1. j \in 1 .. Len(s) /\ Len(s) \in 1 .. Len(s) /\ Len(s) # j
      BY <1>10
    <3> QED
      BY <3>1
  <2> QED
    BY <1>1, <2>1
<1>4. \A j, l \in DOMAIN u : m[j] = m[l] => j = l
  BY <1>1
<1>5. ASSUME NEW l \in DOMAIN s \ {i}
      PROVE  \E j \in DOMAIN u : m[j] = l
  <2>1. CASE l = Len(s)
    <3>1. i \in DOMAIN u
      BY <1>1, <1>5, <1>10, <2>1
    <3>2. m[i] = l
      BY <2>1, <3>1
    <3> QED
      BY <3>1, <3>2
  <2>2. CASE l # Len(s)
    BY <1>1, <1>5, <2>2
  <2> QED
    BY <2>1, <2>2
<1>6. \A j \in DOMAIN u : u[j] = s[m[j]]
  BY <1>1, <1>2
<1>7. \A j \in DOMAIN u : m[j] = Len(s) \/ m[j] = j
  OBVIOUS
<1> HIDE DEF m
<1>8. /\ Distinct(u) /\ KeysOf(u) = KeysOf(s) \ {s[i][1]}
      /\ \A k \in KeysOf(u) : Value(u, k) = Value(s, k)
  <2>1. i \in DOMAIN s
    BY <1>1
  <2> QED
    <3>1. Matches(u, s, i, m)
      BY <1>3, <1>4, <1>5, <1>6 DEF Matches
    <3> QED
      BY <1>0, <2>1, <3>1, Fewer
<1>9. ASSUME NEW k \in KeysOf(u)
      PROVE  At(s, k) = Len(s) \/ At(u, k) = At(s, k)
  <2>1. PICK j \in DOMAIN u : u[j][1] = k
    BY <1>9 DEF KeysOf
  <2>2. At(u, k) = j
    BY <1>8, <2>1, FoundOnce
  <2>3. At(s, k) = m[j]
    BY <1>3, <1>6, <2>1, FoundOnce
  <2> QED
    BY <1>7, <2>2, <2>3
<1> QED
  BY <1>0, <1>8, <1>9 DEF u

(* The form of a map: the inductive invariant of its contents.             *)
Good(c) ==
  /\ c \in [kind : Kinds, entries : Pairs]
  /\ Distinct(c.entries)
  /\ c.kind = "sorted" => InOrder(c.entries)

(* The entries that stay keep their places in an index map, as             *)
(* PositionsKept says.                                                     *)
Kept(c, d) ==
  \A k \in KeysOf(c.entries) \cap KeysOf(d.entries) :
    c.kind = "index" /\ At(d.entries, k) # At(c.entries, k) =>
      /\ At(c.entries, k) = Len(c.entries)
      /\ Len(d.entries) = Len(c.entries) - 1

(* The map d comes of c by a write that returns x.                         *)
Comes(op, c, d, x) ==
  /\ Good(d) /\ Kept(c, d)
  /\ [contents |-> AsFunction(d), result |-> x] \in FunctionEffects(op, AsFunction(c))

(* A map with other entries.                                               *)
LEMMA With ==
  ASSUME NEW c, Good(c), NEW u \in Pairs
  PROVE  LET d == [c EXCEPT !.entries = u]
         IN  /\ d \in [kind : Kinds, entries : Pairs]
             /\ d.kind = c.kind /\ d.entries = u
  BY DEF Good

(* What insert of a new key comes to, of either kind of map.               *)
LEMMA Placed ==
  ASSUME NEW c, Good(c), NEW e \in Entries, e[1] \notin KeysOf(c.entries)
  PROVE  LET u == WithNew(c, e)
             s == c.entries
         IN  /\ u \in Pairs /\ Distinct(u)
             /\ c.kind = "sorted" => InOrder(u)
             /\ KeysOf(u) = KeysOf(s) \cup {e[1]}
             /\ \A k \in KeysOf(s) :
                  /\ Value(u, k) = Value(s, k)
                  /\ c.kind = "index" => At(u, k) = At(s, k)
             /\ Value(u, e[1]) = e[2]
<1> DEFINE s == c.entries
           u == WithNew(c, e)
<1>1. s \in Pairs /\ Distinct(s) /\ c.kind \in {"sorted", "index"} /\ e[1] \in Int
  BY SyncMapAssumption DEF Good, Kinds
<1>2. Len(s) \in Nat /\ DOMAIN s = 1 .. Len(s)
  BY <1>1, PairsAre
<1> HIDE DEF s
<1>3. CASE c.kind = "index"
  <2>1. u = Append(s, e)
    BY <1>3 DEF WithNew, s
  <2>2. u \in Pairs /\ Len(u) = Len(s) + 1 /\ u[Len(s) + 1] = e
    BY <1>1, <2>1 DEF Pairs
  <2>3. \A j \in 1 .. Len(s) : s[j] = u[j]
    BY <1>1, <2>1 DEF Pairs
  <2>4. DOMAIN u = 1 .. Len(s) + 1
    BY <1>2, <2>2, PairsAre
  <2> HIDE DEF u
  <2>5. PutIn(u, s, e, Len(s) + 1)
    BY <1>2, <2>2, <2>3 DEF PutIn
  <2>6. /\ Distinct(u) /\ KeysOf(u) = KeysOf(s) \cup {e[1]}
        /\ \A k \in KeysOf(s) : Value(u, k) = Value(s, k)
        /\ Value(u, e[1]) = e[2]
    BY <1>1, <2>5, Grown DEF s
  <2>7. ASSUME NEW k \in KeysOf(s)
        PROVE  At(u, k) = At(s, k)
    <3>1. PICK j \in DOMAIN s : s[j][1] = k
      BY <2>7 DEF KeysOf
    <3>2. j \in DOMAIN u /\ u[j][1] = k
      BY <1>2, <2>3, <2>4, <3>1
    <3> QED
      BY <1>1, <2>6, <3>1, <3>2, FoundOnce
  <2> QED
    BY <1>3, <2>2, <2>6, <2>7 DEF u, s
<1>4. CASE c.kind = "sorted"
  <2> DEFINE p == Cardinality({i \in DOMAIN s : s[i][1] < e[1]}) + 1
  <2>1. InOrder(s) /\ u = S!InsertAt(s, p, e)
    BY <1>4 DEF Good, WithNew, Sorted, s
  <2>2. /\ p \in 1 .. Len(s) + 1
        /\ \A i \in DOMAIN s : IF i < p THEN s[i][1] < e[1] ELSE e[1] < s[i][1]
    BY <1>1, <2>1, Position DEF s
  <2> HIDE DEF p, u
  <2>3. PutIn(u, s, e, p)
    BY <1>1, <2>1, <2>2, InsertedAt
  <2>4. /\ Distinct(u) /\ KeysOf(u) = KeysOf(s) \cup {e[1]}
        /\ \A k \in KeysOf(s) : Value(u, k) = Value(s, k)
        /\ Value(u, e[1]) = e[2]
    BY <1>1, <2>3, Grown DEF s
  <2>5. InOrder(u)
    BY <1>1, <2>1, <2>2, <2>3, GrownInOrder
  <2> QED
    BY <1>4, <2>3, <2>4, <2>5 DEF u, s, PutIn
<1> QED
  BY <1>1, <1>3, <1>4

(* What remove of a key that is there comes to, of either kind of map.     *)
LEMMA TakenOut ==
  ASSUME NEW c, Good(c), NEW i \in 1 .. Len(c.entries)
  PROVE  LET u == Without(c, i)
             s == c.entries
         IN  /\ u \in Pairs /\ Distinct(u)
             /\ c.kind = "sorted" => InOrder(u)
             /\ KeysOf(u) = KeysOf(s) \ {s[i][1]}
             /\ \A k \in KeysOf(u) :
                  /\ Value(u, k) = Value(s, k)
                  /\ c.kind = "index" => At(s, k) = Len(s) \/ At(u, k) = At(s, k)
             /\ c.kind = "index" => Len(u) = Len(s) - 1
<1>1. c.entries \in Pairs /\ Distinct(c.entries) /\ c.kind \in {"sorted", "index"}
  BY DEF Good, Kinds
<1>2. CASE c.kind = "index"
  <2>1. Without(c, i) = SwapRemove(c.entries, i)
    BY <1>2 DEF Without
  <2> QED
    BY <1>1, <1>2, <2>1, SwapShrunk
<1>3. CASE c.kind = "sorted"
  <2>1. Without(c, i) = S!RemoveAt(c.entries, i) /\ InOrder(c.entries)
    BY <1>3 DEF Without, Good
  <2> QED
    BY <1>1, <1>3, <2>1, Shrunk
<1> QED
  BY <1>1, <1>2, <1>3

(* A map as a function from its keys to their values.                      *)
LEMMA FunctionOf ==
  ASSUME NEW c
  PROVE  /\ DOMAIN AsFunction(c) = KeysOf(c.entries)
         /\ AsFunction(c) = [k \in KeysOf(c.entries) |-> Value(c.entries, k)]
         /\ \A k \in KeysOf(c.entries) : AsFunction(c)[k] = Value(c.entries, k)
  BY DEF AsFunction, Value

(* insert on a map is the update of a function, and returns the old value. *)
LEMMA InsertComes ==
  ASSUME NEW c, Good(c), NEW op, op[1] = "insert", <<op[2], op[3]>> \in Entries,
         NEW e \in Insert(c, op[2], op[3])
  PROVE  Comes(op, c, e.contents, e.result)
<1> DEFINE k == op[2]
           v == op[3]
           s == c.entries
           f == AsFunction(c)
           d == e.contents
<1>1. s \in Pairs /\ Distinct(s) /\ c.kind \in Kinds
  BY DEF Good
<1>2. f = [q \in KeysOf(s) |-> Value(s, q)]
  BY FunctionOf
<1> HIDE DEF f
<1>3. CASE k \in KeysOf(s)
  <2> DEFINE i == At(s, k)
             u == [s EXCEPT ![i] = <<k, v>>]
  <2>1. Has(s, k) /\ i \in DOMAIN s /\ s[i][1] = k
    BY <1>3, Found, HasKey
  <2>2. d = [c EXCEPT !.entries = u] /\ e.result = Some(Value(s, k))
    BY <2>1 DEF Insert, Replace, Outcome, Value
  <2>3. /\ u \in Pairs /\ Distinct(u) /\ KeysOf(u) = KeysOf(s)
        /\ InOrder(s) => InOrder(u)
        /\ \A q \in KeysOf(s) : At(u, q) = At(s, q)
        /\ \A q \in KeysOf(s) : Value(u, q) = IF q = k THEN v ELSE Value(s, q)
    <3>1. <<k, v>> \in Entries /\ <<k, v>>[1] = s[i][1]
      BY <2>1
    <3>2. LET w == [s EXCEPT ![i] = <<k, v>>]
          IN  /\ w \in Pairs /\ Distinct(w) /\ KeysOf(w) = KeysOf(s)
              /\ InOrder(s) => InOrder(w)
              /\ \A q \in KeysOf(s) : At(w, q) = At(s, q)
              /\ \A q \in KeysOf(s) :
                   Value(w, q) = IF q = <<k, v>>[1] THEN <<k, v>>[2] ELSE Value(s, q)
      <4> HIDE DEF i, k, v, s
      <4> QED
        BY <1>1, <2>1, <3>1, Replaced
    <3> QED
      BY <3>2
  <2> HIDE DEF u, i
  <2>4. d \in [kind : Kinds, entries : Pairs] /\ d.kind = c.kind /\ d.entries = u
    BY <2>2, <2>3, With
  <2>5. Good(d) /\ Kept(c, d)
    BY <2>3, <2>4 DEF Good, Kept
  <2>6. AsFunction(d) = [q \in KeysOf(s) \cup {k} |-> IF q = k THEN v ELSE f[q]]
    <3>1. KeysOf(s) \cup {k} = KeysOf(s)
      BY <1>3
    <3>2. AsFunction(d) = [q \in KeysOf(s) |-> Value(u, q)]
      BY <2>3, <2>4, FunctionOf
    <3> QED
      BY <1>2, <2>3, <3>1, <3>2
  <2>7. k \in DOMAIN f /\ f[k] = Value(s, k) /\ DOMAIN f = KeysOf(s)
    BY <1>2, <1>3
  <2>8. [contents |-> AsFunction(d), result |-> e.result] \in FunctionEffects(op, f)
    BY <2>2, <2>6, <2>7 DEF FunctionEffects
  <2> QED
    BY <2>5, <2>8 DEF Comes, f
<1>4. CASE k \notin KeysOf(s)
  <2> DEFINE u == WithNew(c, <<k, v>>)
  <2>1. ~Has(s, k)
    BY <1>4, HasKey
  <2>2. d = [c EXCEPT !.entries = u] /\ e.result = Nothing
    BY <2>1 DEF Insert, Outcome
  <2>3. /\ u \in Pairs /\ Distinct(u)
        /\ c.kind = "sorted" => InOrder(u)
        /\ KeysOf(u) = KeysOf(s) \cup {k}
        /\ \A q \in KeysOf(s) :
             /\ Value(u, q) = Value(s, q)
             /\ c.kind = "index" => At(u, q) = At(s, q)
        /\ Value(u, k) = v
    <3>1. <<k, v>> \in Entries /\ <<k, v>>[1] = k /\ <<k, v>>[2] = v
      OBVIOUS
    <3> HIDE DEF k, v
    <3> QED
      BY <1>4, <3>1, Placed
  <2> HIDE DEF u
  <2>4. d \in [kind : Kinds, entries : Pairs] /\ d.kind = c.kind /\ d.entries = u
    BY <2>2, <2>3, With
  <2>5. Good(d) /\ Kept(c, d)
    BY <2>3, <2>4 DEF Good, Kept
  <2>6. AsFunction(d) = [q \in KeysOf(s) \cup {k} |-> IF q = k THEN v ELSE f[q]]
    <3>1. AsFunction(d) = [q \in KeysOf(s) \cup {k} |-> Value(u, q)]
      BY <2>3, <2>4, FunctionOf
    <3> QED
      BY <1>2, <1>4, <2>3, <3>1
  <2>7. k \notin DOMAIN f /\ DOMAIN f = KeysOf(s)
    BY <1>2, <1>4
  <2>8. [contents |-> AsFunction(d), result |-> e.result] \in FunctionEffects(op, f)
    BY <2>2, <2>6, <2>7 DEF FunctionEffects
  <2> QED
    BY <2>5, <2>8 DEF Comes, f
<1> QED
  BY <1>3, <1>4

(* remove on a map takes a key out of the function, and returns its value. *)
LEMMA RemoveComes ==
  ASSUME NEW c, Good(c), NEW op, op[1] = "remove", NEW e \in Remove(c, op[2])
  PROVE  Comes(op, c, e.contents, e.result)
<1> DEFINE k == op[2]
           s == c.entries
           f == AsFunction(c)
           d == e.contents
<1>1. s \in Pairs /\ Distinct(s) /\ c.kind \in Kinds
  BY DEF Good
<1>2. f = [q \in KeysOf(s) |-> Value(s, q)]
  BY FunctionOf
<1> HIDE DEF f
<1>3. CASE k \in KeysOf(s)
  <2> DEFINE i == At(s, k)
             u == Without(c, i)
  <2>1. Has(s, k) /\ i \in DOMAIN s /\ s[i][1] = k /\ i \in 1 .. Len(s)
    BY <1>1, <1>3, Found, HasKey, PairsAre
  <2>2. d = [c EXCEPT !.entries = u] /\ e.result = Some(Value(s, k))
    BY <2>1 DEF Remove, Outcome, Value
  <2>3. /\ u \in Pairs /\ Distinct(u)
        /\ c.kind = "sorted" => InOrder(u)
        /\ KeysOf(u) = KeysOf(s) \ {k}
        /\ \A q \in KeysOf(u) :
             /\ Value(u, q) = Value(s, q)
             /\ c.kind = "index" => At(s, q) = Len(s) \/ At(u, q) = At(s, q)
        /\ c.kind = "index" => Len(u) = Len(s) - 1
    <3> HIDE DEF i
    <3> QED
      BY <2>1, TakenOut
  <2> HIDE DEF u, i
  <2>4. d \in [kind : Kinds, entries : Pairs] /\ d.kind = c.kind /\ d.entries = u
    BY <2>2, <2>3, With
  <2>5. Good(d) /\ Kept(c, d)
    BY <2>3, <2>4 DEF Good, Kept
  <2>6. AsFunction(d) = [q \in KeysOf(s) \ {k} |-> f[q]]
    <3>1. AsFunction(d) = [q \in KeysOf(s) \ {k} |-> Value(u, q)]
      BY <2>3, <2>4, FunctionOf
    <3> QED
      BY <1>2, <2>3, <3>1
  <2>7. k \in DOMAIN f /\ f[k] = Value(s, k) /\ DOMAIN f = KeysOf(s)
    BY <1>2, <1>3
  <2>8. [contents |-> AsFunction(d), result |-> e.result] \in FunctionEffects(op, f)
    BY <2>2, <2>6, <2>7 DEF FunctionEffects
  <2> QED
    BY <2>5, <2>8 DEF Comes, f
<1>4. CASE k \notin KeysOf(s)
  <2>1. ~Has(s, k)
    BY <1>4, HasKey
  <2>2. d = c /\ e.result = Nothing
    <3>1. d = [c EXCEPT !.entries = s] /\ e.result = Nothing
      BY <2>1 DEF Remove, Outcome
    <3> QED
      BY <3>1 DEF Good
  <2>5. Good(d) /\ Kept(c, d)
    BY <2>2 DEF Kept
  <2>6. DOMAIN f \ {k} = DOMAIN f /\ f = [q \in DOMAIN f |-> f[q]] /\ k \notin DOMAIN f
    BY <1>2, <1>4
  <2>8. [contents |-> AsFunction(d), result |-> e.result] \in FunctionEffects(op, f)
    BY <2>2, <2>6 DEF FunctionEffects, f
  <2> QED
    BY <2>5, <2>8 DEF Comes, f
<1> QED
  BY <1>3, <1>4

(* A panic in Hash, Eq or Ord of a key leaves the map as it was.           *)
LEMMA PanicComes ==
  ASSUME NEW c, Good(c), NEW op, op[1] \in {"insert", "remove"}, NEW e \in KeyPanics(c)
  PROVE  Comes(op, c, e.contents, e.result)
<1>1. UserPanics /\ e.contents = [c EXCEPT !.entries = c.entries] /\ e.result = Panic
  BY SyncMapAssumption DEF KeyPanics, Outcome
<1>2. e.contents = c
  BY <1>1 DEF Good
<1>3. [contents |-> AsFunction(c), result |-> Panic] \in FunctionEffects(op, AsFunction(c))
  BY <1>1 DEF FunctionEffects
<1> QED
  BY <1>1, <1>2, <1>3 DEF Comes, Kept

(* clear gives the empty function.                                         *)
LEMMA ClearComes ==
  ASSUME NEW c, Good(c), NEW op, op[1] = "clear", NEW e \in Clear(c)
  PROVE  Comes(op, c, e.contents, e.result)
<1> DEFINE d == e.contents
<1>1. d = [c EXCEPT !.entries = <<>>] /\ e.result = Nothing
  BY DEF Clear, Outcome
<1>2. <<>> \in Pairs /\ DOMAIN <<>> = {}
  BY DEF Pairs
<1>3. KeysOf(<<>>) = {} /\ Distinct(<<>>) /\ InOrder(<<>>)
  BY <1>2 DEF KeysOf, Distinct, InOrder
<1>4. d \in [kind : Kinds, entries : Pairs] /\ d.kind = c.kind /\ d.entries = <<>>
  BY <1>1, <1>2, With
<1>5. Good(d) /\ Kept(c, d)
  BY <1>3, <1>4 DEF Good, Kept
<1>6. AsFunction(d) = [q \in {} |-> AsFunction(c)[q]]
  BY <1>3, <1>4 DEF AsFunction
<1>7. [contents |-> AsFunction(d), result |-> Nothing] \in FunctionEffects(op, AsFunction(c))
  BY <1>6 DEF FunctionEffects
<1> QED
  BY <1>1, <1>5, <1>7 DEF Comes

(* So every write method of the maps does.                                 *)
LEMMA EffectsFit ==
  ASSUME NEW c, Good(c), NEW op \in Writes, NEW e \in Effects(op, c)
  PROVE  Comes(op, c, e.contents, e.result)
<1>1. CASE op[1] = "insert"
  <2>1. PICK w \in Entries : op = <<"insert", w[1], w[2]>>
    BY <1>1 DEF Writes
  <2>2. <<op[2], op[3]>> \in Entries
    <3>1. op[2] = w[1] /\ op[3] = w[2]
      BY <2>1
    <3> QED
      BY <3>1, SyncMapAssumption
  <2>3. e \in Insert(c, op[2], op[3]) \/ e \in KeyPanics(c)
    BY <1>1 DEF Effects
  <2> QED
    BY <1>1, <2>2, <2>3, InsertComes, PanicComes
<1>2. CASE op[1] = "remove"
  <2>1. e \in Remove(c, op[2]) \/ e \in KeyPanics(c)
    BY <1>2 DEF Effects
  <2> QED
    BY <1>2, <2>1, RemoveComes, PanicComes
<1>3. CASE op[1] = "clear"
  <2>1. e \in Clear(c)
    BY <1>3 DEF Effects
  <2> QED
    BY <1>3, <2>1, ClearComes
<1> QED
  BY <1>1, <1>2, <1>3 DEF Writes

(* A store behind get_mut or iter_mut changes the value of one key, which  *)
(* stays where it is.                                                      *)
LEMMA StoresFit ==
  ASSUME NEW c, Good(c), NEW p, p \subseteq KeysOf(c.entries),
         NEW d \in Stores(p, c)
  PROVE  /\ Good(d) /\ Kept(c, d) /\ KeysOf(d.entries) = KeysOf(c.entries)
         /\ \E e \in Entries :
              e[1] \in p /\ AsFunction(d) = [AsFunction(c) EXCEPT ![e[1]] = e[2]]
<1> DEFINE s == c.entries
           f == AsFunction(c)
<1>1. s \in Pairs /\ Distinct(s) /\ c.kind \in Kinds
  BY DEF Good
<1>2. f = [q \in KeysOf(s) |-> Value(s, q)]
  BY FunctionOf
<1> HIDE DEF f
<1>3. PICK e \in Entries :
        e[1] \in p /\ d = [c EXCEPT !.entries[At(s, e[1])] = e]
  BY DEF Stores
<1> DEFINE i == At(s, e[1])
           u == [s EXCEPT ![i] = e]
<1>4. i \in DOMAIN s /\ s[i][1] = e[1]
  BY <1>3, Found, HasKey
<1>5. d = [c EXCEPT !.entries = u]
  BY <1>3 DEF Good
<1>6. /\ u \in Pairs /\ Distinct(u) /\ KeysOf(u) = KeysOf(s)
      /\ InOrder(s) => InOrder(u)
      /\ \A q \in KeysOf(s) : At(u, q) = At(s, q)
      /\ \A q \in KeysOf(s) : Value(u, q) = IF q = e[1] THEN e[2] ELSE Value(s, q)
  <2> HIDE DEF i, s
  <2> QED
    BY <1>1, <1>4, Replaced
<1> HIDE DEF u, i
<1>7. d \in [kind : Kinds, entries : Pairs] /\ d.kind = c.kind /\ d.entries = u
  BY <1>5, <1>6, With
<1>8. Good(d) /\ Kept(c, d)
  BY <1>6, <1>7 DEF Good, Kept
<1>9. AsFunction(d) = [f EXCEPT ![e[1]] = e[2]]
  <2>1. AsFunction(d) = [q \in KeysOf(s) |-> Value(u, q)]
    BY <1>6, <1>7, FunctionOf
  <2> QED
    BY <1>2, <1>6, <2>1
<1> QED
  BY <1>3, <1>6, <1>7, <1>8, <1>9 DEF f

(* get, get_mut, iter and the others find the keys that the function has   *)
(* ...                                                                     *)
LEMMA PlaceIs ==
  ASSUME NEW c, NEW op
  PROVE  /\ Place(op, c) = FunctionPlace(op, AsFunction(c))
         /\ Place(op, c) # None => Place(op, c) \subseteq KeysOf(c.entries)
  BY HasKey, FunctionOf DEF Place, FunctionPlace

(* ... and the values it gives them.                                       *)
LEMMA LookIs ==
  ASSUME NEW c, NEW p, p \subseteq KeysOf(c.entries)
  PROVE  Look(p, c) = <<"at", [k \in p |-> AsFunction(c)[k]]>>
<1>1. [k \in p |-> c.entries[At(c.entries, k)][2]] = [k \in p |-> AsFunction(c)[k]]
  BY DEF AsFunction
<1> QED
  BY <1>1 DEF Look

(* There are as many keys as entries, since no key is there twice (len).   *)
LEMMA CountIs ==
  ASSUME NEW s \in Pairs, Distinct(s)
  PROVE  IsFiniteSet(KeysOf(s)) /\ Cardinality(KeysOf(s)) = Len(s)
<1>1. Len(s) \in Nat /\ DOMAIN s = 1 .. Len(s)
  BY PairsAre
<1> DEFINE b == [i \in 1 .. Len(s) |-> s[i][1]]
<1>2. b \in Bijection(1 .. Len(s), KeysOf(s))
  BY <1>1 DEF Bijection, Injection, Surjection, IsInjective, Distinct, KeysOf
<1>3. IsFiniteSet(1 .. Len(s)) /\ Cardinality(1 .. Len(s)) = Len(s)
  <2>1. Len(s) \in Int /\ 1 \in Int
    BY <1>1
  <2>2. IF 1 > Len(s) THEN Len(s) = 0 ELSE Len(s) - 1 + 1 = Len(s)
    BY <1>1
  <2>3. /\ IsFiniteSet(1 .. Len(s))
        /\ Cardinality(1 .. Len(s)) = IF 1 > Len(s) THEN 0 ELSE Len(s) - 1 + 1
    BY <2>1, FS_Interval
  <2> QED
    BY <2>2, <2>3
<1>4. ExistsBijection(1 .. Len(s), KeysOf(s))
  BY <1>2 DEF ExistsBijection
<1> QED
  BY <1>3, <1>4, FS_Bijection

(* What len, is_empty, contains_key, and get of nothing, return is what    *)
(* the function says.                                                      *)
LEMMA AnswerIs ==
  ASSUME NEW c, Good(c), NEW op,
         \/ op \in Reads
         \/ op \in Borrows \cup Edits /\ Place(op, c) = None,
         \A p \in SUBSET Keys : p # None
  PROVE  Answer(op, c) = FunctionAnswer(op, AsFunction(c))
<1> DEFINE s == c.entries
<1>1. s \in Pairs /\ Distinct(s)
  BY DEF Good
<1>2. DOMAIN AsFunction(c) = KeysOf(s)
  BY FunctionOf
<1>3. CASE op[1] = "len"
  BY <1>1, <1>2, <1>3, CountIs DEF Answer, FunctionAnswer
<1>4. CASE op[1] = "is_empty"
  <2>1. (s = <<>>) <=> (KeysOf(s) = {})
    <3>1. Len(s) \in Nat /\ DOMAIN s = 1 .. Len(s)
      BY <1>1, PairsAre
    <3>2. s = <<>> => KeysOf(s) = {}
      BY DEF KeysOf
    <3>3. ASSUME KeysOf(s) = {}
          PROVE  s = <<>>
      <4>1. 1 \notin DOMAIN s
        BY <3>3 DEF KeysOf
      <4>2. Len(s) = 0
        BY <3>1, <4>1
      <4> QED
        BY <1>1, <4>2 DEF Pairs
    <3> QED
      BY <3>2, <3>3
  <2> QED
    BY <1>2, <1>4, <2>1 DEF Answer, FunctionAnswer
<1>5. CASE op[1] = "contains_key"
  BY <1>2, <1>5, HasKey DEF Answer, FunctionAnswer
<1>6. CASE op[1] \in {"index", "get", "get_mut"}
  BY <1>6 DEF Answer, FunctionAnswer
<1>7. op[1] \in {"len", "is_empty", "contains_key", "index", "get", "get_mut"}
  <2>1. CASE op \in Reads
    BY <2>1 DEF Reads
  <2>2. CASE op \in Borrows \cup Edits /\ Place(op, c) = None
    <3>1. op[1] \in {"get", "get_mut", "index", "iter", "dirty_ref", "iter_mut"}
      BY <2>2 DEF Borrows, Edits, Unsynced
    <3>2. KeysOf(s) \in SUBSET Keys
      BY <1>1, PairsAre DEF KeysOf, Keys
    <3>3. op[1] \notin {"iter", "dirty_ref", "iter_mut"}
      BY <2>2, <3>2 DEF Place
    <3> QED
      BY <3>1, <3>3
  <2> QED
    BY <2>1, <2>2
<1> QED
  BY <1>3, <1>4, <1>5, <1>6, <1>7

-----------------------------------------------------------------------------
(* The theorems about Container, with the calls of a map.                  *)
P == INSTANCE ContainerProofs WITH Contents <- Maps, Contract <- TRUE

LEMMA SameInit == Init <=> P!Init
  BY DEF Init, P!Init, Lock!Init, P!Lock!Init

(* ... and take the same steps.                                            *)
LEMMA SameNext == Next <=> P!Next
<1>0. Calls = P!Calls
  BY DEF Calls, P!Calls
<1>1. ASSUME NEW t \in Threads, NEW c \in Calls
      PROVE  Call(t, c) <=> P!Call(t, c)
  BY DEF Call, P!Call, Goto, P!Goto, Raw, P!Raw, RawEdit, P!RawEdit,
    lockVars, P!lockVars
<1>2. ASSUME NEW t \in Threads
      PROVE  Admit(t) <=> P!Admit(t)
  BY DEF Admit, P!Admit, Goto, P!Goto, Lock!StartRead, P!Lock!StartRead
<1>3. ASSUME NEW t \in Threads
      PROVE  LookUp(t) <=> P!LookUp(t)
  BY DEF LookUp, P!LookUp, Goto, P!Goto, lockVars, P!lockVars
<1>4. ASSUME NEW t \in Threads
      PROVE  EndRead(t) <=> P!EndRead(t)
  BY DEF EndRead, P!EndRead, Goto, P!Goto, Tell, P!Tell, Forget, P!Forget,
    Intact, P!Intact, Lock!EndRead, P!Lock!EndRead
<1>5. ASSUME NEW t \in Threads, NEW g \in Guards
      PROVE  KeepGuard(t, g) <=> P!KeepGuard(t, g)
  BY DEF KeepGuard, P!KeepGuard, Goto, P!Goto, Tell, P!Tell, Forget,
    P!Forget, Intact, P!Intact, Holder, P!Holder, Lock!HandOver,
    P!Lock!HandOver
<1>6. ASSUME NEW t \in Threads, NEW g \in Guards
      PROVE  Deref(t, g) <=> P!Deref(t, g)
  BY DEF Deref, P!Deref, Intact, P!Intact, lockVars, P!lockVars
<1>7. ASSUME NEW t \in Threads, NEW g \in Guards
      PROVE  DropGuard(t, g) <=> P!DropGuard(t, g)
  BY DEF DropGuard, P!DropGuard, Raw, P!Raw, lockVars, P!lockVars,
    Lock!EndRead, P!Lock!EndRead
<1>8. ASSUME NEW t \in Threads, NEW g \in Guards
      PROVE  KeepItems(t, g) <=> P!KeepItems(t, g)
  BY DEF KeepItems, P!KeepItems, Permitted, P!Permitted, WritePhases,
    P!WritePhases, Lock!EndRead, P!Lock!EndRead
<1>9. ASSUME NEW t \in Threads, NEW g \in Guards
      PROVE  Index(t, g) <=> P!Index(t, g)
  BY DEF Index, P!Index, Tell, P!Tell, MayIndex, P!MayIndex, Goto, P!Goto,
    Permitted, P!Permitted, WritePhases, P!WritePhases, lockVars, P!lockVars
<1>10. ASSUME NEW t \in Threads
      PROVE  IndexNothing(t) <=> P!IndexNothing(t)
  BY DEF IndexNothing, P!IndexNothing, Tell, P!Tell, MayIndex, P!MayIndex,
    Goto, P!Goto, Permitted, P!Permitted, WritePhases, P!WritePhases,
    lockVars, P!lockVars
<1>11. ASSUME NEW t \in Threads
      PROVE  Enter(t) <=> P!Enter(t)
  BY DEF Enter, P!Enter, Goto, P!Goto, Lock!StartWrite, P!Lock!StartWrite
<1>12. ASSUME NEW t \in Threads
      PROVE  StartChange(t) <=> P!StartChange(t)
  BY DEF StartChange, P!StartChange, Goto, P!Goto, lockVars, P!lockVars
<1>13. ASSUME NEW t \in Threads
      PROVE  FinishChange(t) <=> P!FinishChange(t)
  BY DEF FinishChange, P!FinishChange, Goto, P!Goto, Tell, P!Tell, Forget,
    P!Forget, lockVars, P!lockVars
<1>14. ASSUME NEW t \in Threads
      PROVE  EditNothing(t) <=> P!EditNothing(t)
  BY DEF EditNothing, P!EditNothing, Goto, P!Goto, Tell, P!Tell, lockVars,
    P!lockVars
<1>15. ASSUME NEW t \in Threads
      PROVE  Leave(t) <=> P!Leave(t)
  BY DEF Leave, P!Leave, Goto, P!Goto, Lock!EndWrite, P!Lock!EndWrite
<1>16. ASSUME NEW t \in Threads
      PROVE  KeepWriteGuard(t) <=> P!KeepWriteGuard(t)
  BY DEF KeepWriteGuard, P!KeepWriteGuard, Goto, P!Goto, Tell, P!Tell,
    Holder, P!Holder, lockVars, P!lockVars
<1>17. ASSUME NEW t \in Threads
      PROVE  KeepItemsMut(t) <=> P!KeepItemsMut(t)
  BY DEF KeepItemsMut, P!KeepItemsMut, Lock!EndWrite, P!Lock!EndWrite
<1>18. ASSUME NEW t \in Threads
      PROVE  Assign(t) <=> P!Assign(t)
  BY DEF Assign, P!Assign, lockVars, P!lockVars
<1>19. ASSUME NEW t \in Threads
      PROVE  DropWriteGuard(t) <=> P!DropWriteGuard(t)
  BY DEF DropWriteGuard, P!DropWriteGuard, RawEdit, P!RawEdit, lockVars,
    P!lockVars, Lock!EndWrite, P!Lock!EndWrite
<1> QED
    BY <1>0, <1>1, <1>2, <1>3, <1>4, <1>5, <1>6, <1>7, <1>8, <1>9, <1>10,
      <1>11, <1>12, <1>13, <1>14, <1>15, <1>16, <1>17, <1>18, <1>19 DEF
      Next, P!Next

(* A method of the maps is of one kind: it looks, borrows, writes or       *)
(* edits.                                                                  *)
LEMMA Disjoint ==
  /\ Reads \cap Borrows = {}
  /\ (Reads \cup Borrows) \cap (Writes \cup Edits) = {}
  /\ Writes \cap Edits = {}
  /\ Unsynced \subseteq Borrows \ Iterators
<1>1. \A op \in Reads : op[1] \in {"len", "is_empty", "contains_key"}
  BY DEF Reads
<1>2. \A op \in Borrows : op[1] \in {"get", "iter", "dirty_ref", "index"}
  BY DEF Borrows, Unsynced
<1>3. \A op \in Edits : op[1] \in {"get_mut", "iter_mut"}
  BY DEF Edits
<1>4. \A op \in Writes : op[1] \in {"insert", "remove", "clear"}
  BY DEF Writes
<1>5. \A op \in Unsynced : op[1] = "index"
  BY DEF Unsynced
<1>6. \A op \in Iterators : op[1] \in {"iter", "iter_mut"}
  BY DEF Iterators
<1>7. Unsynced \subseteq Borrows
  BY DEF Borrows
<1> QED
  BY <1>1, <1>2, <1>3, <1>4, <1>5, <1>6, <1>7

(* What get, get_mut, iter, iter_mut and dirty_ref refer to is keys.       *)
LEMMA PlaceFits ==
  ASSUME NEW op \in Borrows \cup Edits, NEW c \in Maps, Place(op, c) # None
  PROVE  Place(op, c) \in Places
<1>1. PICK n \in 0 .. Cardinality(Keys) : c.entries \in [1 .. n -> Entries]
  BY DEF Maps
<1>2. KeysOf(c.entries) \subseteq Keys
  BY <1>1 DEF KeysOf, Keys
<1>3. Place(op, c) \subseteq KeysOf(c.entries)
  BY PlaceIs
<1> QED
  BY <1>2, <1>3 DEF Places

(* A map made by new is one.                                               *)
LEMMA StartFits == Start \subseteq Maps
<1>1. <<>> \in [1 .. 0 -> Entries]
  OBVIOUS
<1>2. Cardinality(Keys) \in Nat
  <2> DEFINE key == [e \in Entries |-> e[1]]
  <2>1. key \in Surjection(Entries, Keys)
    BY DEF Surjection, Keys
  <2>2. IsFiniteSet(Keys)
    <3> HIDE DEF key
    <3> QED
      BY <2>1, FS_Surjection, SyncMapAssumption
  <2> QED
    BY <2>2, FS_CardinalityType
<1>3. 0 \in 0 .. Cardinality(Keys)
  BY <1>2
<1> QED
  BY <1>1, <1>3 DEF Start, Maps

(* The calls of the maps are what Container asks for.                      *)
LEMMA Fits == P!ContainerAssumption
<1>1. Threads \cap Guards = {} /\ NoneIsNothing
  BY SyncMapAssumption
<1> QED
  BY <1>1, Disjoint, PlaceFits, StartFits
     DEF P!ContainerAssumption, NoneIsNothing, Calls, View, P!View, Edit, P!Edit,
     Holds, P!Holds

(* So every behaviour of SyncMap is one of that Container.                 *)
LEMMA SameSpec == Spec => P!Spec
<1>1. [Next]_vars => [P!Next]_(P!vars)
  BY SameNext DEF vars, P!vars
<1> QED BY <1>1, SameInit, PTL DEF Spec, P!Spec

(* Every variable of a shared map has its type, and the owner of a write   *)
(* guard holds the WriteLock (mod.rs:188-195).                             *)
THEOREM MapTypes == Spec => []TypeOK
<1>1. P!Spec => []P!TypeOK
  BY Fits, P!TypeCorrect
<1>2. TypeOK <=> P!TypeOK
  BY DEF TypeOK, P!TypeOK, Labels, P!Labels, Calls, P!Calls, View, P!View,
     Edit, P!Edit, Holds, P!Holds, RawEdit, P!RawEdit
<1> QED
  BY <1>1, <1>2, SameSpec, PTL

(* What get, iter, dirty_ref and Index of a map give access to stays as it *)
(* was when it was given out (mod.rs:79-85).                               *)
THEOREM MapViewsStable == Spec => []StableViews
<1>1. P!Spec => []P!StableViews
  BY Fits, P!ViewsStable
<1>2. StableViews <=> P!StableViews
  BY DEF StableViews, P!StableViews, Intact, P!Intact
<1> QED
  BY <1>1, <1>2, SameSpec, PTL

(* In a map nobody who reads, or keeps a reference, meets a writer         *)
(* (README:41-42), if who keeps what Index or an iterator gave out sees to *)
(* it that nobody writes meanwhile.                                        *)
THEOREM MapReadersApart == Spec => []ReaderNeverMeetsWriter
<1>1. P!Spec => []P!ReaderNeverMeetsWriter
  BY Fits, P!ReadersApart
<1>2. ReaderNeverMeetsWriter <=> P!ReaderNeverMeetsWriter
  BY DEF ReaderNeverMeetsWriter, P!ReaderNeverMeetsWriter
<1> QED
  BY <1>1, <1>2, SameSpec, PTL

(* Every method of the maps takes effect at once, between its begin and    *)
(* its return, and guards freeze what they refer to.                       *)
THEOREM MapAtomic == Spec => ImplementsAtomic
<1>1. P!Spec => P!ImplementsAtomic
  BY Fits, P!Refinement
<1>2. P!Abstract!Init => Abstract!Init
  BY DEF P!Abstract!Init, Abstract!Init, Opened, P!Opened, Edited, P!Edited
<1>3. P!Abstract!vars = Abstract!vars /\ P!Abstract!vars' = Abstract!vars'
  BY DEF P!Abstract!vars, Abstract!vars, Opened, P!Opened, Edited, P!Edited
<1>4. Abstract!Unedited <=> P!Abstract!Unedited
  BY DEF Abstract!Unedited, P!Abstract!Unedited, Edited, P!Edited
<1>5. Abstract!Unread <=> P!Abstract!Unread
  BY DEF Abstract!Unread, P!Abstract!Unread, Opened, P!Opened
<1>6. P!Abstract!Next => Abstract!Next
  <2>1. ASSUME NEW t \in Threads, NEW c \in Calls
       PROVE  P!Abstract!Begin(t, c) => Abstract!Begin(t, c)
    BY <1>4, <1>5 DEF P!Abstract!Begin, Abstract!Begin, P!Abstract!Tell, Abstract!Tell,
       Opened, P!Opened, Edited, P!Edited
  <2>2. ASSUME NEW t \in Threads
       PROVE  P!Abstract!Read(t) => Abstract!Read(t)
    BY <1>4, <1>5 DEF P!Abstract!Read, Abstract!Read, P!Abstract!Tell, Abstract!Tell,
       Opened, P!Opened, Edited, P!Edited
  <2>3. ASSUME NEW t \in Threads
       PROVE  P!Abstract!Write(t) => Abstract!Write(t)
    BY <1>4, <1>5 DEF P!Abstract!Write, Abstract!Write, P!Abstract!Tell, Abstract!Tell,
       Opened, P!Opened, Edited, P!Edited
  <2>4. ASSUME NEW t \in Threads
       PROVE  P!Abstract!OpenEdit(t) => Abstract!OpenEdit(t)
    BY <1>4, <1>5 DEF P!Abstract!OpenEdit, Abstract!OpenEdit, P!Abstract!Tell, Abstract!Tell,
       Opened, P!Opened, Edited, P!Edited
  <2>5. ASSUME NEW t \in Threads
       PROVE  P!Abstract!Store(t) => Abstract!Store(t)
    BY <1>4, <1>5 DEF P!Abstract!Store, Abstract!Store, P!Abstract!Tell, Abstract!Tell,
       Opened, P!Opened, Edited, P!Edited
  <2>6. ASSUME NEW t \in Threads
       PROVE  P!Abstract!CloseEdit(t) => Abstract!CloseEdit(t)
    BY <1>4, <1>5 DEF P!Abstract!CloseEdit, Abstract!CloseEdit, P!Abstract!Tell, Abstract!Tell,
       Opened, P!Opened, Edited, P!Edited
  <2>7. ASSUME NEW t \in Threads, NEW g \in Guards
       PROVE  P!Abstract!Open(t, g) => Abstract!Open(t, g)
    BY <1>4, <1>5 DEF P!Abstract!Open, Abstract!Open, P!Abstract!Tell, Abstract!Tell,
       Opened, P!Opened, Edited, P!Edited
  <2>8. ASSUME NEW t \in Threads, NEW g \in Guards
       PROVE  P!Abstract!Peek(t, g) => Abstract!Peek(t, g)
    BY <1>4, <1>5 DEF P!Abstract!Peek, Abstract!Peek, P!Abstract!Tell, Abstract!Tell,
       Opened, P!Opened, Edited, P!Edited
  <2>9. ASSUME NEW g \in Guards
       PROVE  P!Abstract!Close(g) => Abstract!Close(g)
    BY <1>4, <1>5 DEF P!Abstract!Close, Abstract!Close, P!Abstract!Tell, Abstract!Tell,
       Opened, P!Opened, Edited, P!Edited
  <2> QED
    BY <2>1, <2>2, <2>3, <2>4, <2>5, <2>6, <2>7, <2>8, <2>9
       DEF P!Abstract!Next, Abstract!Next, Calls
<1>7. [P!Abstract!Next]_(P!Abstract!vars) => [Abstract!Next]_(Abstract!vars)
  BY <1>3, <1>6
<1> QED
  BY <1>1, <1>2, <1>7, SameSpec, PTL
     DEF ImplementsAtomic, P!ImplementsAtomic, Abstract!Spec, P!Abstract!Spec

-----------------------------------------------------------------------------
(* What a guard or write guard refers to is there.                         *)
Within(p, c) == p # None => p \subseteq KeysOf(c.entries)

(* The inductive invariant, of the container with atomic calls.            *)
MapInv ==
  /\ Good(contents)
  /\ \A g \in Guards : Within(Opened[g], contents)
  /\ Edited # None => Edited.place \subseteq KeysOf(contents.entries)

(* Nothing moves when nothing changes.                                     *)
LEMMA NothingMoved == \A c : Kept(c, c)
  BY DEF Kept

(* Steps that leave the contents and the guards alone.                     *)
LEMMA Unchanged ==
  ASSUME MapInv, UNCHANGED <<contents, Opened, Edited>>
  PROVE  MapInv' /\ Kept(contents, contents') /\ AsFunction(contents)' = AsFunction(contents)
<1>1. Kept(contents, contents')
  BY NothingMoved
<1>2. AsFunction(contents)' = AsFunction(contents)
  BY DEF AsFunction
<1> QED
  BY <1>1, <1>2 DEF MapInv, Within, Good

(* Every step with a map is a step with the function that it is, keeps the *)
(* map in form, and the entries in their places.                           *)
LEMMA MapStep ==
  ASSUME MapInv, Abstract!Next
  PROVE  MapInv' /\ Kept(contents, contents') /\ AbstractMap!Next
<1> DEFINE Goal == MapInv' /\ Kept(contents, contents') /\ AbstractMap!Next
<1> USE DEF Within
<1>0. \A p \in SUBSET Keys : p # None
  BY SyncMapAssumption DEF NoneIsNothing, Places
<1>1. ASSUME NEW t \in Threads, NEW c \in Calls, Abstract!Begin(t, c)
      PROVE  Goal
  <2>1. AbstractMap!Begin(t, c) /\ UNCHANGED <<contents, Opened, Edited>>
    BY <1>1 DEF Abstract!Begin, AbstractMap!Begin, AsFunction
  <2> QED
    BY <2>1, Unchanged DEF AbstractMap!Next, Calls
<1>2. ASSUME NEW t \in Threads, Abstract!Read(t)
      PROVE  Goal
  <2>1. Good(contents) /\ UNCHANGED <<contents, Opened, Edited>>
    BY <1>2 DEF MapInv, Abstract!Read
  <2>2. Answer(call[t], contents) = FunctionAnswer(call[t], AsFunction(contents))
    BY <1>0, <1>2, <2>1, AnswerIs DEF Abstract!Read
  <2>3. Place(call[t], contents) = FunctionPlace(call[t], AsFunction(contents))
    BY PlaceIs
  <2>4. AsFunction(contents)' = AsFunction(contents)
    BY <2>1, Unchanged
  <2>5. AbstractMap!Read(t)
    BY <1>2, <2>1, <2>2, <2>3, <2>4
       DEF Abstract!Read, AbstractMap!Read, Abstract!Tell, AbstractMap!Tell,
           Abstract!Unedited, AbstractMap!Unedited
  <2> QED
    BY <2>1, <2>5, Unchanged DEF AbstractMap!Next
<1>3. ASSUME NEW t \in Threads, Abstract!Write(t)
      PROVE  Goal
  <2>1. PICK e \in Effects(call[t], contents) : contents' = e.contents /\ Abstract!Tell(t, e.result)
    BY <1>3 DEF Abstract!Write
  <2>2. Comes(call[t], contents, contents', e.result)
    BY <1>3, <2>1, EffectsFit DEF MapInv, Abstract!Write
  <2>3. /\ Edited = None /\ UNCHANGED <<Opened, Edited>>
        /\ \A g \in Guards : Opened[g] = None
    BY <1>3 DEF Abstract!Write, Abstract!Unedited, Abstract!Unread
  <2>4. MapInv' /\ Kept(contents, contents')
    <3>1. Good(contents')
      BY <2>2 DEF Comes
    <3>2. Good(contents)'
      BY <3>1 DEF Good
    <3> QED
      BY <2>2, <2>3, <3>2 DEF Comes, MapInv
  <2>5. AsFunction(contents)' = AsFunction(contents')
    BY DEF AsFunction
  <2>6. \E x \in FunctionEffects(call[t], AsFunction(contents)) :
          AsFunction(contents)' = x.contents /\ AbstractMap!Tell(t, x.result)
    BY <2>1, <2>2, <2>5 DEF Comes, Abstract!Tell, AbstractMap!Tell
  <2>7. AbstractMap!Write(t)
    BY <1>3, <2>3, <2>6
       DEF Abstract!Write, AbstractMap!Write, AbstractMap!Unedited, AbstractMap!Unread
  <2> QED
    BY <2>4, <2>7 DEF AbstractMap!Next
<1>4. ASSUME NEW t \in Threads, NEW g \in Guards, Abstract!Open(t, g)
      PROVE  Goal
  <2>1. /\ Good(contents) /\ UNCHANGED <<contents, Edited>>
        /\ Opened' = [Opened EXCEPT ![g] = Place(call[t], contents)]
    BY <1>4 DEF MapInv, Abstract!Open
  <2>2. Place(call[t], contents) = FunctionPlace(call[t], AsFunction(contents))
    BY PlaceIs
  <2>3. AsFunction(contents)' = AsFunction(contents)
    BY <2>1 DEF AsFunction
  <2>4. AbstractMap!Open(t, g)
    BY <1>4, <2>1, <2>2, <2>3
       DEF Abstract!Open, AbstractMap!Open, Abstract!Tell, AbstractMap!Tell,
           Abstract!Unedited, AbstractMap!Unedited
  <2>5. Kept(contents, contents')
    BY <2>1, NothingMoved
  <2>6. \A h \in Guards : Within(Opened[h], contents)'
    <3>1. Within(Place(call[t], contents), contents)
      BY PlaceIs
    <3>2. \A h \in Guards : Opened'[h] = Opened[h] \/ Opened'[h] = Place(call[t], contents)
      BY <2>1 DEF Opened
    <3> QED
      BY <2>1, <3>1, <3>2 DEF MapInv
  <2>7. MapInv'
    BY <2>1, <2>6 DEF MapInv, Good
  <2> QED
    BY <2>4, <2>5, <2>7 DEF AbstractMap!Next
<1>5. ASSUME NEW t \in Threads, NEW g \in Guards, Abstract!Peek(t, g)
      PROVE  Goal
  <2>1. UNCHANGED <<contents, Opened, Edited>>
    BY <1>5 DEF Abstract!Peek
  <2>2. AsFunction(contents)' = AsFunction(contents)
    BY <2>1, Unchanged
  <2>3. Look(Opened[g], contents) = <<"at", [k \in Opened[g] |-> AsFunction(contents)[k]]>>
    BY <1>5, LookIs DEF MapInv, Abstract!Peek
  <2>4. AbstractMap!Peek(t, g)
    BY <1>5, <2>1, <2>2, <2>3 DEF Abstract!Peek, AbstractMap!Peek
  <2> QED
    BY <2>1, <2>4, Unchanged DEF AbstractMap!Next
<1>6. ASSUME NEW g \in Guards, Abstract!Close(g)
      PROVE  Goal
  <2>1. UNCHANGED <<contents, Edited>> /\ Opened' = [Opened EXCEPT ![g] = None]
    BY <1>6 DEF Abstract!Close
  <2>2. AsFunction(contents)' = AsFunction(contents)
    BY <2>1 DEF AsFunction
  <2>3. AbstractMap!Close(g)
    BY <1>6, <2>1, <2>2 DEF Abstract!Close, AbstractMap!Close
  <2>4. Kept(contents, contents')
    BY <2>1, NothingMoved
  <2>5. \A h \in Guards : Within(Opened[h], contents)'
    <3>1. \A h \in Guards : Opened'[h] = Opened[h] \/ Opened'[h] = None
      BY <2>1 DEF Opened
    <3> QED
      BY <2>1, <3>1 DEF MapInv
  <2>6. MapInv'
    BY <2>1, <2>5 DEF MapInv, Good
  <2> QED
    BY <2>3, <2>4, <2>6 DEF AbstractMap!Next
<1>7. ASSUME NEW t \in Threads, Abstract!OpenEdit(t)
      PROVE  Goal
  <2>1. /\ UNCHANGED <<contents, Opened>>
        /\ Edited' = [owner |-> t, place |-> Place(call[t], contents)]
        /\ Place(call[t], contents) # None
    BY <1>7 DEF Abstract!OpenEdit
  <2>2. Place(call[t], contents) = FunctionPlace(call[t], AsFunction(contents))
    BY PlaceIs
  <2>3. AsFunction(contents)' = AsFunction(contents)
    BY <2>1 DEF AsFunction
  <2>4. AbstractMap!OpenEdit(t)
    BY <1>7, <2>1, <2>2, <2>3
       DEF Abstract!OpenEdit, AbstractMap!OpenEdit, Abstract!Tell, AbstractMap!Tell,
           Abstract!Unedited, AbstractMap!Unedited, Abstract!Unread, AbstractMap!Unread
  <2>5. Kept(contents, contents')
    BY <2>1, NothingMoved
  <2>6. Edited'.place \subseteq KeysOf(contents.entries)
    BY <2>1, PlaceIs
  <2>7. MapInv'
    BY <2>1, <2>6 DEF MapInv, Good
  <2> QED
    BY <2>4, <2>5, <2>7 DEF AbstractMap!Next
<1>8. ASSUME NEW t \in Threads, Abstract!Store(t)
      PROVE  Goal
  <2>1. /\ Good(contents) /\ Edited # None /\ Edited.owner = t
        /\ Edited.place \subseteq KeysOf(contents.entries)
        /\ contents' \in Stores(Edited.place, contents)
        /\ UNCHANGED <<call, told, Opened, Edited>>
    BY <1>8 DEF MapInv, Abstract!Store
  <2>2. /\ Good(contents') /\ Kept(contents, contents')
        /\ KeysOf(contents'.entries) = KeysOf(contents.entries)
        /\ \E e \in Entries :
             /\ e[1] \in Edited.place
             /\ AsFunction(contents') = [AsFunction(contents) EXCEPT ![e[1]] = e[2]]
    BY <2>1, StoresFit
  <2>3. AsFunction(contents)' = AsFunction(contents') /\ (Good(contents') => Good(contents)')
    BY DEF AsFunction, Good
  <2>4. MapInv'
    BY <2>1, <2>2, <2>3 DEF MapInv
  <2>5. AbstractMap!Store(t)
    BY <2>1, <2>2, <2>3 DEF AbstractMap!Store
  <2> QED
    BY <2>2, <2>4, <2>5 DEF AbstractMap!Next
<1>9. ASSUME NEW t \in Threads, Abstract!CloseEdit(t)
      PROVE  Goal
  <2>1. UNCHANGED <<contents, Opened>> /\ Edited' = None
    BY <1>9 DEF Abstract!CloseEdit
  <2>2. AsFunction(contents)' = AsFunction(contents)
    BY <2>1 DEF AsFunction
  <2>3. AbstractMap!CloseEdit(t)
    BY <1>9, <2>1, <2>2 DEF Abstract!CloseEdit, AbstractMap!CloseEdit
  <2>4. Kept(contents, contents')
    BY <2>1, NothingMoved
  <2>5. MapInv'
    BY <2>1 DEF MapInv, Good
  <2> QED
    BY <2>3, <2>4, <2>5 DEF AbstractMap!Next
<1> QED
  BY <1>1, <1>2, <1>3, <1>4, <1>5, <1>6, <1>7, <1>8, <1>9 DEF Abstract!Next, Calls

(* A new map is the empty function.                                        *)
LEMMA MapStart == Abstract!Init => MapInv /\ AbstractMap!Init
<1> SUFFICES ASSUME Abstract!Init
             PROVE  MapInv /\ AbstractMap!Init
  OBVIOUS
<1>1. contents \in [kind : Kinds, entries : {<<>>}]
  BY DEF Abstract!Init, Start
<1>2. contents.entries = <<>> /\ contents.kind \in Kinds /\ contents \in [kind : Kinds, entries : Pairs]
  <2>1. <<>> \in Pairs
    BY DEF Pairs
  <2> QED
    BY <1>1, <2>1
<1>3. Good(contents)
  BY <1>2 DEF Good, Distinct, InOrder
<1>4. \A g \in Guards : Opened[g] = None
  BY DEF Abstract!Init
<1>5. MapInv
  BY <1>3, <1>4 DEF MapInv, Within, Abstract!Init
<1>6. AsFunction(contents) \in {AsFunction(c) : c \in Start}
  BY DEF Abstract!Init
<1> QED
  BY <1>5, <1>6 DEF Abstract!Init, AbstractMap!Init

(* The three facts about a step, also one that changes nothing.            *)
LEMMA MapAlways ==
  /\ MapInv /\ [Abstract!Next]_(Abstract!vars) => MapInv'
  /\ MapInv /\ [Abstract!Next]_(Abstract!vars) => Kept(contents, contents')
  /\ MapInv /\ [Abstract!Next]_(Abstract!vars) => [AbstractMap!Next]_(AbstractMap!vars)
<1>1. ASSUME MapInv, UNCHANGED Abstract!vars
      PROVE  MapInv' /\ Kept(contents, contents') /\ UNCHANGED AbstractMap!vars
  <2>1. UNCHANGED <<contents, Opened, Edited, call, told>>
    BY <1>1 DEF Abstract!vars
  <2>2. MapInv' /\ Kept(contents, contents') /\ AsFunction(contents)' = AsFunction(contents)
    BY <1>1, <2>1, Unchanged
  <2> QED
    BY <2>1, <2>2 DEF AbstractMap!vars
<1> QED
  BY <1>1, MapStep

(* A map is in form, and what guards refer to is there, always.            *)
LEMMA MapInvariance == Spec => []MapInv
  BY MapAtomic, MapStart, MapAlways, PTL DEF ImplementsAtomic, Abstract!Spec

(* Every key is there once, and a btree has its keys in order (what the    *)
(* searches of map_btree.rs and the indices of map_index.rs rely on),      *)
(* whatever threads call, panic or store behind write guards, and however  *)
(* large the map is.                                                       *)
THEOREM MapWellFormed == Spec => []WellFormed
<1>1. MapInv => WellFormed
  <2> SUFFICES ASSUME MapInv
               PROVE  WellFormed
    OBVIOUS
  <2>1. Good(contents) /\ contents.entries \in Pairs
    BY DEF MapInv, Good
  <2>2. \A i, j \in DOMAIN contents.entries : i < j => i # j
    BY <2>1, PairsAre
  <2> QED
    BY <2>1, <2>2 DEF WellFormed, Good, Distinct, InOrder
<1> QED
  BY <1>1, MapInvariance, PTL

(* The entries of a SyncIndexMap (map_index.rs) stay where insert has put  *)
(* them but for the last one, which a remove moves.                        *)
THEOREM MapPositionsKept == Spec => PositionsKept
<1> DEFINE Moved ==
      LET s == contents.entries
      IN  \A k \in KeysOf(s) \cap KeysOf(s') :
            contents.kind = "index" /\ At(s', k) # At(s, k) =>
              /\ At(s, k) = Len(s)
              /\ Len(s') = Len(s) - 1
<1>1. Kept(contents, contents') => Moved
  BY DEF Kept
<1>2. MapInv /\ [Abstract!Next]_(Abstract!vars) => [Moved]_vars
  BY <1>1, MapAlways
<1> QED
  BY <1>2, MapInvariance, MapAtomic, PTL DEF ImplementsAtomic, Abstract!Spec, PositionsKept

(* Each of the three maps is, for every thread, one function from keys to  *)
(* values that changes atomically: README:1-6 of maps of every size.       *)
THEOREM MapRefinement == Spec => ImplementsMap
  BY MapInvariance, MapAtomic, MapStart, MapAlways, PTL
     DEF ImplementsAtomic, Abstract!Spec, ImplementsMap, AbstractMap!Spec

=============================================================================
