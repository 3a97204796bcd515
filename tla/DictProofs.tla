----------------------------- MODULE DictProofs -----------------------------
(***************************************************************************)
(* Theorems of Dict: a compiled Dict answers as the interpreter's list of  *)
(* pairs does, whatever the hash gives, and every search of an index ends. *)
(* Theorems of ListSort: the order it finds is that of a stable sort.      *)
(* Theorems of Scan: the loops of find_all, replace and split_re keep the  *)
(* text and end.                                                           *)
(***************************************************************************)
EXTENDS Dict, ListSort, Scan, FiniteSetTheorems, SequenceTheorems, WellFoundedInduction, TLAPS

-----------------------------------------------------------------------------
(* The invariant: the entries are the pairs, no two with one key; an index   *)
(* has one slot for each entry, which a search for its key reaches over      *)
(* slots that are taken, and is at most half full; no two Dicts share an     *)
(* array.                                                                    *)
Pair == [key : Keys, val : Values]
Rows == Seq(Pair \cup {Unused})
Tables == UNION {[0..(n - 1) -> Nat \cup {Empty}] : n \in Nat}

DictTypes ==
  /\ hash \in [Keys -> HashRange]
  /\ dict \in [Dicts -> [arr : Nat, idx : Nat, len : Nat, cap : Nat, islots : Nat]]
  /\ entries \in Seq(Rows) /\ index \in Seq(Tables)
  /\ pairs \in [Dicts -> Seq(Pair)]

\* A search for k is not stopped before step n by a free slot.
Reaches(idx, slots, k, n) == \A m \in 0..(n - 1) : idx[Probe(k, slots, m)] # Empty

Indexed(e, len, idx, slots) ==
  /\ idx \in [0..(slots - 1) -> Nat \cup {Empty}]
  /\ \A s \in 0..(slots - 1) : idx[s] # Empty => idx[s] < len
  /\ \A s, t \in 0..(slots - 1) : (idx[s] = idx[t] /\ idx[s] # Empty) => s = t
  /\ \A p \in 0..(len - 1) : \E n \in 0..(slots - 1) :
       idx[Probe(e[p + 1].key, slots, n)] = p /\ Reaches(idx, slots, e[p + 1].key, n)

\* What the arrays of a Dict that has any hold.
Filled(x, ps) ==
  /\ x.arr \in DOMAIN entries /\ x.idx \in DOMAIN index
  /\ x.len >= 1 /\ x.len <= x.cap /\ x.len * 2 <= x.islots
  /\ Len(entries[x.arr]) = x.cap
  /\ Len(ps) = x.len /\ \A n \in 1..x.len : entries[x.arr][n] = ps[n]
  /\ Indexed(ps, x.len, index[x.idx], x.islots)

Unrepeated(ps) == \A m, n \in DOMAIN ps : ps[m].key = ps[n].key => m = n

Apart ==
  \A c, d \in Dicts : /\ (dict[c].arr = dict[d].arr /\ dict[c].arr # Null) => c = d
                      /\ (dict[c].idx = dict[d].idx /\ dict[c].idx # Null) => c = d

DictInv ==
  /\ DictTypes
  /\ \A d \in Dicts : (dict[d] = New /\ pairs[d] = << >>) \/ Filled(dict[d], pairs[d])
  /\ \A d \in Dicts : Unrepeated(pairs[d])
  /\ Apart

-----------------------------------------------------------------------------
(* Numbers: least elements, and the division a probe makes.                  *)

\* A set of natural numbers that is not empty has a least element.
LEMMA Least ==
  ASSUME NEW T \in SUBSET Nat, T # {}
  PROVE  \E x \in T : \A y \in T : x <= y
  <1>1. PICK x \in T : \A y \in T : ~(<<y, x>> \in OpToRel(<, Nat))
    BY WFMin, NatLessThanWellFounded
  <1>2. \A y \in T : ~(y < x)
    BY <1>1 DEF OpToRel
  <1> QED
    BY <1>2

\* A probe stays in the index.
LEMMA ProbeInside ==
  ASSUME NEW h \in Nat, NEW n \in Nat, NEW b \in Nat \ {0}
  PROVE  (h + n) % b \in 0..(b - 1)
  OBVIOUS

\* From any hash, every slot is probed in one round.
LEMMA Round ==
  ASSUME NEW h \in Nat, NEW b \in Nat \ {0}, NEW s \in 0..(b - 1)
  PROVE  \E n \in 0..(b - 1) : (h + n) % b = s
  <1> DEFINE q == h \div b
             r == h % b
  <1>1. q \in Nat /\ r \in 0..(b - 1) /\ h = b * q + r
    OBVIOUS
  <1> HIDE DEF q, r
  <1>2. CASE r <= s
    <2>1. (h + (s - r)) = b * q + s
      BY <1>1
    <2>2. (b * q + s) % b = s
      BY <1>1
    <2>3. s - r \in 0..(b - 1)
      BY <1>1, <1>2
    <2> QED
      BY <2>1, <2>2, <2>3
  <1>3. CASE ~(r <= s)
    <2>1. h + (s - r + b) = b * (q + 1) + s
      BY <1>1
    <2>2. (b * (q + 1) + s) % b = s
      <3> DEFINE t == q + 1
      <3>1. t \in Nat
        BY <1>1
      <3> HIDE DEF t
      <3> SUFFICES (b * t + s) % b = s
        BY DEF t
      <3> QED
        BY <3>1
    <2>3. s - r + b \in 0..(b - 1)
      BY <1>1, <1>3
    <2> QED
      BY <2>1, <2>2, <2>3
  <1> QED
    BY <1>2, <1>3

-----------------------------------------------------------------------------
(* Searches of one index.                                                    *)

\* What is in the index is reached: a slot of any key, some step from its hash.
LEMMA SomeProbe ==
  ASSUME NEW k, hash[k] \in Nat, NEW slots \in Nat \ {0}, NEW s \in 0..(slots - 1)
  PROVE  \E n \in 0..(slots - 1) : Probe(k, slots, n) = s
  BY Round DEF Probe

\* A search that may stop stops, at the first slot of its path where it may.
LEMMA FirstStop ==
  ASSUME NEW k, hash[k] \in Nat, NEW slots \in Nat \ {0},
         NEW stops \in SUBSET (0..(slots - 1)), stops # {}
  PROVE  /\ FirstProbe(k, slots, stops) \in 0..(slots - 1)
         /\ SlotOf(k, slots, stops) \in stops
         /\ \A m \in 0..(FirstProbe(k, slots, stops) - 1) : Probe(k, slots, m) \notin stops
  <1> DEFINE T == {n \in 0..(slots - 1) : Probe(k, slots, n) \in stops}
             First(n) == /\ Probe(k, slots, n) \in stops
                         /\ \A m \in 0..(n - 1) : Probe(k, slots, m) \notin stops
  <1>1. PICK s \in stops : TRUE
    OBVIOUS
  <1>2. \E n \in 0..(slots - 1) : Probe(k, slots, n) = s
    BY <1>1, SomeProbe
  <1>3. T # {} /\ T \in SUBSET Nat
    BY <1>1, <1>2
  <1>4. PICK x \in T : \A y \in T : x <= y
    <2> HIDE DEF T
    <2> QED
      BY <1>3, Least
  <1>5. x \in 0..(slots - 1) /\ First(x)
    <2>1. x \in 0..(slots - 1) /\ Probe(k, slots, x) \in stops
      BY <1>4
    <2>2. ASSUME NEW m \in 0..(x - 1), Probe(k, slots, m) \in stops
          PROVE  FALSE
      <3>1. m \in 0..(slots - 1) /\ m < x
        BY <2>1
      <3>2. m \in T
        BY <3>1, <2>2
      <3>3. x <= m
        BY <3>2, <1>4
      <3> QED
        BY <3>1, <3>3, <2>1
    <2> QED
      BY <2>1, <2>2
  <1>6. FirstProbe(k, slots, stops) = CHOOSE n \in 0..(slots - 1) : First(n)
    BY DEF FirstProbe
  <1>7. /\ FirstProbe(k, slots, stops) \in 0..(slots - 1)
        /\ First(FirstProbe(k, slots, stops))
    <2> HIDE DEF First
    <2> QED
      BY <1>5, <1>6
  <1> QED
    BY <1>7 DEF SlotOf

\* An index of more slots than entries has a free one.
LEMMA SomeSlotFree ==
  ASSUME NEW len \in Nat, NEW slots \in Nat, len < slots, NEW idx, NEW e, Indexed(e, len, idx, slots)
  PROVE  FreeSlots(idx, slots) \in SUBSET (0..(slots - 1)) /\ FreeSlots(idx, slots) # {}
  <1> SUFFICES ASSUME FreeSlots(idx, slots) = {} PROVE FALSE
    BY DEF FreeSlots
  <1>1. \A s \in 0..(slots - 1) : idx[s] # Empty
    BY DEF FreeSlots
  <1>2. idx \in [0..(slots - 1) -> 0..(len - 1)]
    BY <1>1 DEF Indexed, Empty
  <1>3. /\ IsFiniteSet(0..(slots - 1)) /\ Cardinality(0..(slots - 1)) = slots
        /\ IsFiniteSet(0..(len - 1)) /\ Cardinality(0..(len - 1)) = len
    <2>1. \A n \in Nat : IsFiniteSet(0..(n - 1)) /\ Cardinality(0..(n - 1)) = n
      <3> TAKE n \in Nat
      <3>1. 0 \in Int /\ n - 1 \in Int
        OBVIOUS
      <3>2. IsFiniteSet(0..(n - 1)) /\ Cardinality(0..(n - 1)) = IF 0 > n - 1 THEN 0 ELSE (n - 1) - 0 + 1
        BY <3>1, FS_Interval
      <3> QED
        BY <3>2
    <2> QED
      BY <2>1
  <1>4. \E x, y \in 0..(slots - 1) : x # y /\ idx[x] = idx[y]
    BY <1>2, <1>3, FS_PigeonHole, SMTT(40)
  <1> QED
    BY <1>1, <1>4 DEF Indexed

\* An entry put into the first free slot of its key joins the index.
LEMMA PlacedIndexes ==
  ASSUME NEW len \in Nat, NEW slots \in Nat, len < slots, NEW idx, NEW e, Indexed(e, len, idx, slots),
         \A p \in 0..len : hash[e[p + 1].key] \in Nat
  PROVE  Indexed(e, len + 1, Placed(e, idx, slots, len), slots)
  <1> DEFINE k == e[len + 1].key
             free == FreeSlots(idx, slots)
             f == FirstProbe(k, slots, free)
             at == SlotOf(k, slots, free)
             new == Placed(e, idx, slots, len)
  <1>1. free \in SUBSET (0..(slots - 1)) /\ free # {}
    BY SomeSlotFree
  <1>2. slots \in Nat \ {0} /\ hash[k] \in Nat
    OBVIOUS
  <1>3. /\ f \in 0..(slots - 1) /\ at \in free
        /\ \A m \in 0..(f - 1) : Probe(k, slots, m) \notin free
    <2> HIDE DEF k, free
    <2> QED
      BY <1>1, <1>2, FirstStop
  <1>4. at = Probe(k, slots, f)
    BY DEF SlotOf
  <1>5. new = [idx EXCEPT ![at] = len]
    BY DEF Placed
  <1>6. at \in 0..(slots - 1) /\ idx[at] = Empty
    BY <1>3 DEF FreeSlots
  <1>7. idx \in [0..(slots - 1) -> Nat \cup {Empty}]
    BY DEF Indexed
  <1>8. /\ new \in [0..(slots - 1) -> Nat \cup {Empty}] /\ new[at] = len
        /\ \A s \in 0..(slots - 1) : s # at => new[s] = idx[s]
    <2> HIDE DEF new, at
    <2> QED
      BY <1>5, <1>6, <1>7
  <1>9. \A m \in Nat : \A j \in 0..len : Probe(e[j + 1].key, slots, m) \in 0..(slots - 1)
    BY <1>2, ProbeInside DEF Probe
  <1> HIDE DEF new, at, f
  <1>10. \A s \in 0..(slots - 1) : new[s] # Empty => new[s] < len + 1
    BY <1>8 DEF Indexed, Empty
  <1>11. \A s, t \in 0..(slots - 1) : (new[s] = new[t] /\ new[s] # Empty) => s = t
    BY <1>8, SMTT(40) DEF Indexed, Empty
  <1>12. \A s \in 0..(slots - 1) : idx[s] # Empty => new[s] # Empty
    BY <1>8 DEF Empty
  <1>13. ASSUME NEW p \in 0..len
         PROVE  \E n \in 0..(slots - 1) : new[Probe(e[p + 1].key, slots, n)] = p /\ Reaches(new, slots, e[p + 1].key, n)
    <2>1. CASE p = len
      <3>1. new[Probe(e[p + 1].key, slots, f)] = p
        BY <1>4, <1>8, <2>1
      <3>2. ASSUME NEW m \in 0..(f - 1) PROVE new[Probe(e[p + 1].key, slots, m)] # Empty
        <4>1. m \in Nat /\ Probe(k, slots, m) \in 0..(slots - 1)
          BY <1>3, <1>9
        <4>2. idx[Probe(k, slots, m)] # Empty
          BY <1>3, <4>1 DEF FreeSlots
        <4> QED
          BY <4>1, <4>2, <1>12, <2>1
      <3> QED
        BY <1>3, <3>1, <3>2 DEF Reaches
    <2>2. CASE p # len
      <3>1. p \in 0..(len - 1)
        BY <2>2
      <3>2. PICK n \in 0..(slots - 1) : idx[Probe(e[p + 1].key, slots, n)] = p /\ Reaches(idx, slots, e[p + 1].key, n)
        BY <3>1 DEF Indexed
      <3>3. Probe(e[p + 1].key, slots, n) # at
        BY <3>2, <1>6 DEF Empty
      <3>4. Probe(e[p + 1].key, slots, n) \in 0..(slots - 1)
        BY <1>9
      <3>5. new[Probe(e[p + 1].key, slots, n)] = p
        BY <3>2, <3>3, <3>4, <1>8
      <3>6. Reaches(new, slots, e[p + 1].key, n)
        BY <3>2, <1>9, <1>12 DEF Reaches
      <3> QED
        BY <3>5, <3>6
    <2> QED
      BY <2>1, <2>2
  <1>14. (len + 1) - 1 = len
    OBVIOUS
  <1>15. Indexed(e, len + 1, new, slots)
    BY <1>8, <1>10, <1>11, <1>13, <1>14, Zenon DEF Indexed
  <1> QED
    BY <1>15 DEF new

\* The first len entries have the same keys.
SameKeys(e, g, len) == \A p \in 0..(len - 1) : e[p + 1].key = g[p + 1].key

\* What a search for a key gives: the entry that has it, nothing if none has.
LEMMA FindAnswers ==
  ASSUME NEW len \in Nat, NEW slots \in Nat, len < slots, NEW idx, NEW ps, Indexed(ps, len, idx, slots),
         NEW e, SameKeys(e, ps, len),
         NEW k, hash[k] \in Nat,
         NEW r, r = mi_dict_find(e, idx, slots, k)
  PROVE  \/ r \in 0..(len - 1) /\ ps[r + 1].key = k
         \/ r = Empty /\ \A p \in 0..(len - 1) : ps[p + 1].key # k
  <1> DEFINE with == SlotsWith(e, idx, slots, k)
             free == FreeSlots(idx, slots)
             stops == free \cup with
             f == FirstProbe(k, slots, stops)
             at == SlotOf(k, slots, stops)
  <1>1. stops \in SUBSET (0..(slots - 1)) /\ stops # {}
    BY SomeSlotFree DEF SlotsWith
  <1>2. slots \in Nat \ {0} /\ r = idx[at]
    BY DEF mi_dict_find
  <1>3. /\ f \in 0..(slots - 1) /\ at \in stops
        /\ \A m \in 0..(f - 1) : Probe(k, slots, m) \notin stops
    <2> HIDE DEF stops
    <2> QED
      BY <1>1, <1>2, FirstStop
  <1>4. at = Probe(k, slots, f)
    BY DEF SlotOf
  <1> HIDE DEF at, f
  <1>5. CASE at \in with
    <2>1. at \in 0..(slots - 1) /\ idx[at] # Empty /\ e[idx[at] + 1].key = k
      BY <1>5 DEF SlotsWith
    <2>2. idx[at] \in 0..(len - 1)
      BY <2>1 DEF Indexed
    <2> QED
      BY <1>2, <2>1, <2>2 DEF SameKeys
  <1>6. CASE at \notin with
    <2>1. at \in free
      BY <1>3, <1>6
    <2>2. r = Empty
      BY <1>2, <2>1 DEF FreeSlots
    <2>3. ASSUME NEW p \in 0..(len - 1), ps[p + 1].key = k
          PROVE  FALSE
      <3>1. PICK n \in 0..(slots - 1) : idx[Probe(k, slots, n)] = p /\ Reaches(idx, slots, k, n)
        BY <2>3 DEF Indexed
      <3>2. Probe(k, slots, n) \in 0..(slots - 1)
        BY <1>2, ProbeInside DEF Probe
      <3>3. Probe(k, slots, n) \in with
        BY <3>1, <3>2, <2>3 DEF SlotsWith, SameKeys, Empty
      <3>4. ~(n < f)
        BY <3>3, <1>3
      <3>5. n # f
        BY <3>3, <1>4, <1>6
      <3>6. f \in 0..(n - 1)
        BY <3>4, <3>5, <1>3
      <3>7. idx[at] # Empty
        BY <3>1, <3>6, <1>4 DEF Reaches
      <3> QED
        BY <3>7, <2>2, <1>2
    <2> QED
      BY <2>2, <2>3
  <1> QED
    BY <1>5, <1>6

\* What is in an index depends on the keys of the entries alone.
LEMMA KeysIndex ==
  ASSUME NEW len \in Nat, NEW slots, NEW idx, NEW e, NEW g, Indexed(e, len, idx, slots),
         SameKeys(e, g, len)
  PROVE  Indexed(g, len, idx, slots)
  BY DEF Indexed, SameKeys

-----------------------------------------------------------------------------
(* mi_dict_reindex: the indexes it makes on the way, one entry after the     *)
(* other.                                                                    *)

\* at[n] is the index once n entries are in.
Built(at, e, len, slots) ==
  at = [n \in 0..len |-> IF n = 0 THEN [s \in 0..(slots - 1) |-> Empty] ELSE Placed(e, at[n - 1], slots, n - 1)]

\* A set of natural numbers that has 0 and every successor is all of them.
LEMMA Induct ==
  ASSUME NEW S, 0 \in S, \A n \in Nat : n \in S => n + 1 \in S
  PROVE  Nat \subseteq S
  <1> DEFINE T == {n \in Nat : n \notin S}
  <1> SUFFICES ASSUME T # {} PROVE FALSE
    OBVIOUS
  <1>1. PICK x \in T : \A y \in T : x <= y
    BY Least
  <1>2. x # 0 /\ x - 1 \in Nat
    OBVIOUS
  <1>3. x - 1 \in S
    BY <1>1, <1>2
  <1>4. (x - 1) + 1 \in S
    BY <1>2, <1>3
  <1> QED
    BY <1>4

\* There is such a sequence of indexes.
LEMMA BuiltExists ==
  ASSUME NEW e, NEW slots, NEW len \in Nat
  PROVE  \E at : Built(at, e, len, slots)
  <1> DEFINE none == [s \in 0..(slots - 1) |-> Empty]
             Next(x, n) == Placed(e, x, slots, n)
             History(at, n) == at = [m \in 0..n |-> IF m = 0 THEN none ELSE Next(at[m - 1], m - 1)]
             S == {n \in Nat : \E at : History(at, n)}
  <1>1. \A at : History(at, len) <=> Built(at, e, len, slots)
    BY DEF Built
  <1> HIDE DEF none, Next
  <1>2. 0 \in S
    <2> DEFINE at == [m \in 0..0 |-> none]
    <2>1. History(at, 0)
      <3>1. [m \in 0..0 |-> none] = [m \in 0..0 |-> IF m = 0 THEN none ELSE Next(at[m - 1], m - 1)]
        OBVIOUS
      <3> QED
        BY <3>1
    <2> HIDE DEF History, at
    <2> QED
      BY <2>1
  <1>3. ASSUME NEW n \in Nat, n \in S
        PROVE  n + 1 \in S
    <2>1. PICK at : History(at, n)
      BY <1>3
    <2>2. \A m \in 0..n : at[m] = IF m = 0 THEN none ELSE Next(at[m - 1], m - 1)
      BY <2>1
    <2> DEFINE more == [m \in 0..(n + 1) |-> IF m <= n THEN at[m] ELSE Next(at[n], n)]
    <2>3. \A m \in 0..(n + 1) : more[m] = IF m = 0 THEN none ELSE Next(more[m - 1], m - 1)
      <3> TAKE m \in 0..(n + 1)
      <3>1. CASE m = 0
        BY <3>1, <2>2
      <3>2. CASE m # 0 /\ m <= n
        <4>1. more[m] = at[m] /\ more[m - 1] = at[m - 1]
          BY <3>2
        <4> QED
          BY <4>1, <3>2, <2>2
      <3>3. CASE m = n + 1
        <4>1. more[m] = Next(at[n], n) /\ more[m - 1] = at[n] /\ m - 1 = n
          BY <3>3
        <4> QED
          BY <4>1, <3>3
      <3> QED
        BY <3>1, <3>2, <3>3
    <2>4. DOMAIN more = 0..(n + 1) /\ more = [m \in 0..(n + 1) |-> more[m]]
      OBVIOUS
    <2> HIDE DEF more
    <2>5. History(more, n + 1)
      BY <2>3, <2>4
    <2> HIDE DEF History
    <2> QED
      BY <2>5
  <1>4. len \in S
    <2> HIDE DEF S
    <2> QED
      BY <1>2, <1>3, Induct
  <1> QED
    BY <1>4, <1>1

\* mi_dict_reindex enters every entry it is given.
LEMMA ReindexIndexes ==
  ASSUME NEW len \in Nat, NEW slots \in Nat, len < slots, NEW e,
         \A p \in 0..(len - 1) : hash[e[p + 1].key] \in Nat
  PROVE  Indexed(e, len, mi_dict_reindex(e, len, slots), slots)
  <1>1. PICK at : Built(at, e, len, slots) /\ mi_dict_reindex(e, len, slots) = at[len]
    <2>1. \E at : Built(at, e, len, slots)
      BY BuiltExists
    <2> QED
      BY <2>1 DEF mi_dict_reindex, Built
  <1> DEFINE none == [s \in 0..(slots - 1) |-> Empty]
             S == {n \in Nat : n <= len => Indexed(e, n, at[n], slots)}
  <1>2. \A n \in 0..len : at[n] = IF n = 0 THEN none ELSE Placed(e, at[n - 1], slots, n - 1)
    BY <1>1 DEF Built
  <1>3. 0 \in S
    <2>1. at[0] = none
      BY <1>2
    <2>2. Indexed(e, 0, none, slots)
      BY DEF Indexed
    <2> QED
      BY <2>1, <2>2
  <1>4. ASSUME NEW n \in Nat, n \in S
        PROVE  n + 1 \in S
    <2> SUFFICES ASSUME n + 1 <= len PROVE Indexed(e, n + 1, at[n + 1], slots)
      OBVIOUS
    <2>1. Indexed(e, n, at[n], slots) /\ n < slots
      BY <1>4
    <2>2. n + 1 \in 0..len /\ (n + 1) - 1 = n /\ n + 1 # 0
      OBVIOUS
    <2>3. at[n + 1] = Placed(e, at[n], slots, n)
      BY <1>2, <2>2
    <2>4. \A p \in 0..n : hash[e[p + 1].key] \in Nat
      OBVIOUS
    <2> QED
      BY <2>1, <2>3, <2>4, PlacedIndexes
  <1>5. len \in S
    <2> HIDE DEF S
    <2> QED
      BY <1>3, <1>4, Induct
  <1> QED
    BY <1>1, <1>5

-----------------------------------------------------------------------------
(* The interpreter's list of pairs.                                          *)

\* Setting a key that is there changes the value of its one pair.
LEMMA PairSetReplaces ==
  ASSUME NEW ps \in Seq(Pair), Unrepeated(ps), NEW p \in 1..Len(ps), NEW k \in Keys, NEW v \in Values,
         ps[p].key = k
  PROVE  /\ PairSet(ps, k, v) \in Seq(Pair) /\ Unrepeated(PairSet(ps, k, v))
         /\ PairSet(ps, k, v) = [ps EXCEPT ![p] = Entry(k, v)]
  <1> DEFINE new == [ps EXCEPT ![p] = Entry(k, v)]
             first(n) == ps[n].key = k /\ \A m \in 1..(n - 1) : ps[m].key # k
  <1>1. DOMAIN ps = 1..Len(ps) /\ Entry(k, v) \in Pair /\ Entry(k, v).key = k
    BY DEF Pair, Entry
  <1>2. \A n \in DOMAIN ps : first(n) <=> n = p
    BY <1>1 DEF Unrepeated
  <1>3. PairSet(ps, k, v) = [n \in DOMAIN ps |-> IF first(n) THEN Entry(k, v) ELSE ps[n]]
    <2>1. \E n \in DOMAIN ps : ps[n].key = k
      BY <1>1
    <2> QED
      BY <2>1 DEF PairSet
  <1> HIDE DEF first
  <1>4. \A n \in DOMAIN ps : new[n] = IF n = p THEN Entry(k, v) ELSE ps[n]
    OBVIOUS
  <1>5. [n \in DOMAIN ps |-> IF first(n) THEN Entry(k, v) ELSE ps[n]] = new
    BY <1>2
  <1>6. new \in Seq(Pair)
    BY <1>1
  <1>7. Unrepeated(new)
    <2>1. DOMAIN new = DOMAIN ps /\ \A n \in DOMAIN ps : new[n].key = ps[n].key
      BY <1>1, <1>4
    <2> HIDE DEF new
    <2> QED
      BY <2>1 DEF Unrepeated
  <1> QED
    BY <1>3, <1>5, <1>6, <1>7

\* Setting one that is not adds a pair.
LEMMA PairSetAppends ==
  ASSUME NEW ps \in Seq(Pair), Unrepeated(ps), NEW k \in Keys, NEW v \in Values,
         \A n \in 1..Len(ps) : ps[n].key # k
  PROVE  /\ PairSet(ps, k, v) \in Seq(Pair) /\ Unrepeated(PairSet(ps, k, v))
         /\ PairSet(ps, k, v) = Append(ps, Entry(k, v))
  <1> DEFINE new == Append(ps, Entry(k, v))
  <1>1. DOMAIN ps = 1..Len(ps) /\ Entry(k, v) \in Pair /\ Entry(k, v).key = k
    BY SMTT(40) DEF Pair, Entry
  <1>2. PairSet(ps, k, v) = new
    BY <1>1 DEF PairSet
  <1>3. new \in Seq(Pair)
    BY <1>1
  <1>4. /\ DOMAIN new = 1..(Len(ps) + 1)
        /\ \A n \in 1..Len(ps) : new[n] = ps[n]
        /\ new[Len(ps) + 1] = Entry(k, v)
    BY <1>1
  <1>5. Unrepeated(new)
    <2> HIDE DEF new
    <2>1. SUFFICES ASSUME NEW m \in 1..(Len(ps) + 1), NEW n \in 1..(Len(ps) + 1), new[m].key = new[n].key
                   PROVE  m = n
      BY <1>4 DEF Unrepeated
    <2>2. CASE m \in 1..Len(ps) /\ n \in 1..Len(ps)
      BY <2>1, <2>2, <1>1, <1>4 DEF Unrepeated
    <2>3. CASE m \in 1..Len(ps) /\ n = Len(ps) + 1
      BY <2>1, <2>3, <1>1, <1>4
    <2>4. CASE m = Len(ps) + 1 /\ n \in 1..Len(ps)
      BY <2>1, <2>4, <1>1, <1>4
    <2>5. Len(ps) \in Nat
      OBVIOUS
    <2> QED
      BY <2>2, <2>3, <2>4, <2>5
  <1> QED
    BY <1>2, <1>3, <1>5

-----------------------------------------------------------------------------
(* Steps.                                                                    *)

\* A Dict is new, or its arrays hold its pairs.
LEMMA Shape ==
  ASSUME DictInv, NEW d \in Dicts
  PROVE  /\ pairs[d] \in Seq(Pair) /\ Unrepeated(pairs[d])
         /\ dict[d] \in [arr : Nat, idx : Nat, len : Nat, cap : Nat, islots : Nat]
         /\ \/ dict[d] = New /\ pairs[d] = << >> /\ EntriesOf(d) = << >> /\ IndexOf(d) = << >>
            \/ /\ Filled(dict[d], pairs[d])
               /\ dict[d].arr # Null /\ dict[d].idx # Null
               /\ EntriesOf(d) = entries[dict[d].arr] /\ IndexOf(d) = index[dict[d].idx]
  <1>1. /\ pairs[d] \in Seq(Pair) /\ Unrepeated(pairs[d])
        /\ dict[d] \in [arr : Nat, idx : Nat, len : Nat, cap : Nat, islots : Nat]
    BY DEF DictInv, DictTypes
  <1>2. CASE dict[d] = New /\ pairs[d] = << >>
    BY <1>1, <1>2 DEF New, EntriesOf, IndexOf
  <1>3. CASE Filled(dict[d], pairs[d])
    <2>1. DOMAIN entries = 1..Len(entries) /\ DOMAIN index = 1..Len(index)
      BY DEF DictInv, DictTypes
    <2>2. dict[d].arr # Null /\ dict[d].idx # Null
      BY <1>3, <2>1 DEF Filled, Null
    <2> QED
      BY <1>1, <1>3, <2>2 DEF EntriesOf, IndexOf
  <1> QED
    BY <1>2, <1>3 DEF DictInv

\* What Find gives.
LEMMA FindInDict ==
  ASSUME DictInv, DictAssumption, NEW d \in Dicts, NEW k \in Keys, NEW r, r = Find(d, k)
  PROVE  \/ r \in 0..(dict[d].len - 1) /\ pairs[d][r + 1].key = k
            /\ Filled(dict[d], pairs[d]) /\ r + 1 \in 1..Len(pairs[d])
         \/ r = Empty /\ \A n \in 1..Len(pairs[d]) : pairs[d][n].key # k
  <1>1. CASE dict[d] = New /\ pairs[d] = << >>
    BY <1>1 DEF New, Find, Slots, mi_dict_find
  <1>2. CASE Filled(dict[d], pairs[d])
    <2>1. PICK len, slots, ps, e, idx : /\ len = dict[d].len /\ slots = dict[d].islots
                                        /\ ps = pairs[d] /\ e = entries[dict[d].arr] /\ idx = index[dict[d].idx]
      OBVIOUS
    <2>2. len \in Nat /\ slots \in Nat /\ len < slots /\ Indexed(ps, len, idx, slots)
      BY <1>2, <2>1, Shape DEF Filled
    <2>3. SameKeys(e, ps, len)
      <3>1. \A n \in 1..len : e[n] = ps[n]
        BY <1>2, <2>1 DEF Filled
      <3> QED
        BY <3>1, <2>2 DEF SameKeys
    <2>4. hash[k] \in Nat
      BY DEF DictInv, DictTypes, DictAssumption
    <2>5. r = mi_dict_find(e, idx, slots, k)
      <3>1. EntriesOf(d) = e /\ IndexOf(d) = idx
        BY <1>2, <2>1, Shape DEF Filled, New
      <3> QED
        BY <3>1, <2>1 DEF Find, Slots
    <2>6. \/ r \in 0..(len - 1) /\ ps[r + 1].key = k
          \/ r = Empty /\ \A p \in 0..(len - 1) : ps[p + 1].key # k
      BY <2>2, <2>3, <2>4, <2>5, FindAnswers
    <2>7. Len(ps) = len
      BY <1>2, <2>1 DEF Filled
    <2>8. ASSUME NEW n \in 1..Len(ps), \A p \in 0..(len - 1) : ps[p + 1].key # k PROVE ps[n].key # k
      <3>1. n - 1 \in 0..(len - 1) /\ (n - 1) + 1 = n
        BY <2>7
      <3> QED
        BY <3>1, <2>8
    <2>9. r \in 0..(len - 1) => r + 1 \in 1..Len(ps)
      BY <2>2, <2>7
    <2> QED
      BY <1>2, <2>1, <2>6, <2>8, <2>9
  <1> QED
    BY <1>1, <1>2 DEF DictInv

\* Arrays that are not written keep what their Dict holds.
LEMMA StillFilled ==
  ASSUME hash' = hash, NEW x, NEW ps, Filled(x, ps),
         x.arr \in DOMAIN entries', entries'[x.arr] = entries[x.arr],
         x.idx \in DOMAIN index', index'[x.idx] = index[x.idx]
  PROVE  Filled(x, ps)'
  BY DEF Filled, Indexed, Reaches, Probe

\* The same of a Dict named by its variable.
LEMMA FilledAt ==
  ASSUME NEW c, NEW x, NEW ps, dict'[c] = x, pairs'[c] = ps, Filled(x, ps)'
  PROVE  Filled(dict[c], pairs[c])'
  <1>1. PICK y, qs : y = dict'[c] /\ qs = pairs'[c]
    OBVIOUS
  <1>2. y = x /\ qs = ps
    BY <1>1
  <1>3. Filled(y, qs)'
    BY <1>2, SMTT(40)
  <1>4. Indexed(pairs[c], dict[c].len, index[dict[c].idx], dict[c].islots)'
    <2>1. Indexed(qs, y.len, index[y.idx], y.islots)'
      BY <1>3 DEF Filled
    <2> QED
      BY <1>1, <2>1 DEF Indexed, Reaches, Probe
  <1> QED
    BY <1>1, <1>3, <1>4 DEF Filled

\* What s has at places other than `at`, t has too.
Kept(s, t, at) == \A n \in DOMAIN s : n # at => n \in DOMAIN t /\ t[n] = s[n]

\* A step that changes one Dict, in its own arrays or in new ones.
LEMMA OneChanged ==
  ASSUME DictInv, hash' = hash, NEW d \in Dicts,
         NEW x \in [arr : Nat, idx : Nat, len : Nat, cap : Nat, islots : Nat], NEW ps \in Seq(Pair),
         dict' = [dict EXCEPT ![d] = x], pairs' = [pairs EXCEPT ![d] = ps],
         entries' \in Seq(Rows), index' \in Seq(Tables), Unrepeated(ps),
         x.arr = dict[d].arr \/ x.arr = Len(entries) + 1,
         x.idx = dict[d].idx \/ x.idx = Len(index) + 1,
         Kept(entries, entries', x.arr), Kept(index, index', x.idx),
         (x = New /\ ps = << >>) \/ Filled(x, ps)'
  PROVE  DictInv'
  <1>1. /\ dict'[d] = x /\ pairs'[d] = ps
        /\ \A c \in Dicts : c # d => dict'[c] = dict[c] /\ pairs'[c] = pairs[c]
    BY DEF DictInv, DictTypes
  <1>2. DictTypes'
    BY DEF DictInv, DictTypes
  <1>3. DOMAIN entries = 1..Len(entries) /\ DOMAIN index = 1..Len(index) /\ Len(entries) \in Nat /\ Len(index) \in Nat
    BY SMTT(40) DEF DictInv, DictTypes
  <1>4. ASSUME NEW c \in Dicts, c # d, Filled(dict[c], pairs[c])
        PROVE  /\ dict[c].arr # x.arr /\ dict[c].idx # x.idx
               /\ dict[c].arr \in DOMAIN entries /\ dict[c].idx \in DOMAIN index
    <2>1. dict[c].arr \in DOMAIN entries /\ dict[c].idx \in DOMAIN index
      BY <1>4 DEF Filled
    <2>2. dict[c].arr # Null /\ dict[c].idx # Null
      BY <2>1, <1>3 DEF Null
    <2>3. dict[c].arr # dict[d].arr /\ dict[c].idx # dict[d].idx
      BY <2>2, <1>4 DEF DictInv, Apart
    <2>4. PICK a, i : a = dict[c].arr /\ i = dict[c].idx
      OBVIOUS
    <2>5. a \in 1..Len(entries) /\ i \in 1..Len(index)
      BY <2>1, <2>4, <1>3
    <2>6. a # Len(entries) + 1 /\ i # Len(index) + 1
      BY <2>5, <1>3
    <2> QED
      BY <2>1, <2>3, <2>4, <2>6
  <1>5. ASSUME NEW c \in Dicts
        PROVE  (dict'[c] = New /\ pairs'[c] = << >>) \/ Filled(dict[c], pairs[c])'
    <2>1. CASE c = d
      <3>1. CASE Filled(x, ps)'
        BY <3>1, <1>1, <2>1, FilledAt
      <3> QED
        BY <3>1, <1>1, <2>1
    <2>2. CASE c # d /\ Filled(dict[c], pairs[c])
      <3>1. PICK y, qs : y = dict[c] /\ qs = pairs[c] /\ y = dict'[c] /\ qs = pairs'[c]
        BY <1>1, <2>2
      <3>2. Filled(y, qs)
        BY <3>1, <2>2
      <3>3. /\ y.arr \in DOMAIN entries' /\ entries'[y.arr] = entries[y.arr]
            /\ y.idx \in DOMAIN index' /\ index'[y.idx] = index[y.idx]
        BY <3>1, <2>2, <1>4 DEF Kept
      <3>4. Filled(y, qs)'
        BY <3>2, <3>3, StillFilled
      <3> QED
        BY <3>1, <3>4, FilledAt
    <2>3. CASE c # d /\ dict[c] = New /\ pairs[c] = << >>
      BY <2>3, <1>1
    <2> QED
      BY <2>1, <2>2, <2>3 DEF DictInv
  <1>6. \A c \in Dicts : Unrepeated(pairs'[c])
    BY <1>1 DEF DictInv
  <1>7. Apart'
    <2>1. ASSUME NEW b \in Dicts, NEW c \in Dicts, b # c
          PROVE  /\ ~(dict'[b].arr = dict'[c].arr /\ dict'[b].arr # Null)
                 /\ ~(dict'[b].idx = dict'[c].idx /\ dict'[b].idx # Null)
      <3>1. CASE b # d /\ c # d
        BY <2>1, <3>1, <1>1 DEF DictInv, Apart
      <3>2. ASSUME NEW g \in Dicts, g # d
            PROVE  /\ ~(dict[g].arr = x.arr /\ dict[g].arr # Null)
                   /\ ~(dict[g].idx = x.idx /\ dict[g].idx # Null)
        <4>1. CASE dict[g] = New
          BY <4>1 DEF New
        <4>2. CASE Filled(dict[g], pairs[g])
          BY <4>2, <3>2, <1>4
        <4> QED
          BY <4>1, <4>2 DEF DictInv
      <3>3. CASE b = d
        BY <3>2, <3>3, <2>1, <1>1
      <3>4. CASE c = d
        BY <3>2, <3>4, <2>1, <1>1
      <3> QED
        BY <3>1, <3>3, <3>4
    <2> QED
      BY <2>1 DEF Apart
  <1>8. (\A c \in Dicts : Unrepeated(pairs[c]))'
    BY <1>6
  <1>9. (\A c \in Dicts : (dict[c] = New /\ pairs[c] = << >>) \/ Filled(dict[c], pairs[c]))'
    BY <1>5, SMTT(40) DEF New
  <1> QED
    BY <1>2, <1>7, <1>8, <1>9 DEF DictInv

\* mi_dict_set of a key that is there.
LEMMA ReplaceKeeps ==
  ASSUME DictInv, DictAssumption, NEW d \in Dicts, NEW k \in Keys, NEW v \in Values,
         Replace(d, k, v), pairs' = [pairs EXCEPT ![d] = PairSet(@, k, v)]
  PROVE  DictInv'
  <1>1. PICK r, x, ps : r = Find(d, k) /\ x = dict[d] /\ ps = pairs[d]
    OBVIOUS
  <1>2. /\ r # Empty /\ UNCHANGED << hash, dict, index >>
        /\ entries' = [entries EXCEPT ![x.arr][r + 1].val = v]
    BY <1>1 DEF Replace
  <1>3. /\ r \in 0..(x.len - 1) /\ ps[r + 1].key = k /\ Filled(x, ps) /\ r + 1 \in 1..Len(ps)
    BY <1>1, <1>2, FindInDict
  <1>4. /\ ps \in Seq(Pair) /\ Unrepeated(ps)
        /\ x \in [arr : Nat, idx : Nat, len : Nat, cap : Nat, islots : Nat]
    BY <1>1, Shape
  <1>5. PICK n : n = r + 1
    OBVIOUS
  <1>6. PICK qs : qs = PairSet(ps, k, v)
    OBVIOUS
  <1>7. qs \in Seq(Pair) /\ Unrepeated(qs) /\ qs = [ps EXCEPT ![n] = Entry(k, v)]
    BY <1>3, <1>4, <1>5, <1>6, PairSetReplaces
  <1>8. PICK a, row : a = x.arr /\ row = entries[a]
    OBVIOUS
  <1>9. a \in DOMAIN entries /\ row \in Rows /\ DOMAIN entries = 1..Len(entries) /\ DOMAIN index = 1..Len(index)
    BY <1>3, <1>8 DEF DictInv, DictTypes, Filled
  <1>10. /\ n \in 1..x.len /\ x.len \in Nat /\ x.cap \in Nat /\ x.len <= x.cap
         /\ Len(row) = x.cap /\ DOMAIN row = 1..x.cap /\ row[n] = ps[n]
    <2>1. n \in 1..x.len /\ x.len <= x.cap /\ Len(row) = x.cap /\ \A i \in 1..x.len : row[i] = ps[i]
      BY <1>3, <1>4, <1>5, <1>8 DEF Filled
    <2>2. DOMAIN row = 1..Len(row)
      BY <1>9 DEF Rows
    <2> QED
      BY <2>1, <2>2, <1>4
  <1>11. [ps[n] EXCEPT !.val = v] = Entry(k, v)
    <2>1. ps[n] \in Pair /\ ps[n].key = k
      BY <1>3, <1>4, <1>5
    <2> QED
      BY <2>1 DEF Pair, Entry
  <1> DEFINE new == [row EXCEPT ![n] = Entry(k, v)]
  <1>12. entries' = [entries EXCEPT ![a] = new]
    <2>1. entries' = [entries EXCEPT ![a] = [entries[a] EXCEPT ![n] = [entries[a][n] EXCEPT !.val = v]]]
      BY <1>2, <1>5, <1>8, <1>9
    <2> QED
      BY <2>1, <1>8, <1>10, <1>11
  <1>13. new \in Rows /\ Len(new) = x.cap /\ \A i \in 1..x.cap : new[i] = IF i = n THEN Entry(k, v) ELSE row[i]
    <2> DEFINE P == Pair \cup {Unused}
    <2>1. Entry(k, v) \in P
      BY DEF Entry, Pair
    <2>2. row \in Seq(P)
      BY <1>9 DEF Rows
    <2>3. new \in Seq(P) /\ Len(new) = Len(row)
      <3> HIDE DEF P
      <3>1. PICK y : y = Entry(k, v)
        OBVIOUS
      <3>2. [row EXCEPT ![n] = y] \in Seq(P)
        BY <2>1, <2>2, <3>1, <1>10
      <3>3. Len([row EXCEPT ![n] = y]) = Len(row)
        BY <2>2
      <3> QED
        BY <3>1, <3>2, <3>3
    <2>4. new \in Rows
      BY <2>3 DEF Rows
    <2> QED
      BY <2>3, <2>4, <1>10
  <1> HIDE DEF new
  <1>14. entries' \in Seq(Rows) /\ entries'[a] = new /\ DOMAIN entries' = DOMAIN entries
         /\ \A i \in DOMAIN entries : i # a => entries'[i] = entries[i]
    BY <1>9, <1>12, <1>13 DEF DictInv, DictTypes
  <1>15. Len(qs) = x.len /\ \A i \in 1..x.len : qs[i] = IF i = n THEN Entry(k, v) ELSE ps[i]
    <2>1. Len(ps) = x.len
      BY <1>3 DEF Filled
    <2> QED
      BY <2>1, <1>4, <1>7, <1>10
  <1>16. Filled(x, qs)'
    <2>1. ASSUME NEW i \in 1..x.len PROVE entries'[x.arr][i] = qs[i]
      <3>1. i \in 1..x.cap
        BY <1>10
      <3>2. row[i] = ps[i]
        BY <1>3, <1>8 DEF Filled
      <3> QED
        BY <3>1, <3>2, <1>8, <1>13, <1>14, <1>15
    <2>2. SameKeys(ps, qs, x.len)
      <3>1. ASSUME NEW p \in 0..(x.len - 1) PROVE ps[p + 1].key = qs[p + 1].key
        <4>1. p + 1 \in 1..x.len
          BY <1>10
        <4> QED
          BY <4>1, <1>15, <1>3, <1>5, SMTT(40) DEF Entry
      <3> QED
        BY <3>1 DEF SameKeys
    <2>3. Indexed(ps, x.len, index[x.idx], x.islots)
      BY <1>3 DEF Filled
    <2>4. Indexed(qs, x.len, index[x.idx], x.islots)
      BY <2>2, <2>3, <1>10, KeysIndex
    <2>5. (Indexed(qs, x.len, index[x.idx], x.islots))'
      BY <2>4, <1>2 DEF Indexed, Reaches, Probe
    <2>6. /\ x.arr \in DOMAIN entries' /\ x.idx \in DOMAIN index'
          /\ x.len >= 1 /\ x.len <= x.cap /\ x.len * 2 <= x.islots
      BY <1>2, <1>3, <1>8, <1>9, <1>14 DEF Filled
    <2>7. Len(entries'[x.arr]) = x.cap
      BY <1>8, <1>13, <1>14
    <2> QED
      BY <2>1, <2>5, <2>6, <2>7, <1>15 DEF Filled
  <1>17. dict' = [dict EXCEPT ![d] = x] /\ pairs' = [pairs EXCEPT ![d] = qs] /\ index' \in Seq(Tables) /\ index' = index
    BY <1>1, <1>2, <1>6 DEF DictInv, DictTypes
  <1>18. Kept(entries, entries', x.arr)
    BY <1>8, <1>14 DEF Kept
  <1>19. Kept(index, index', x.idx)
    BY <1>17 DEF Kept
  <1> QED
    BY <1>1, <1>2, <1>4, <1>7, <1>14, <1>16, <1>17, <1>18, <1>19, OneChanged, ZenonT(60)

\* mi_dict_copy, field by field.
LEMMA CopyFields ==
  ASSUME NEW x \in [arr : Nat, idx : Nat, len : Nat, cap : Nat, islots : Nat]
  PROVE  mi_dict_copy(x) = [arr |-> IF x.cap > 0 THEN Len(entries) + 1 ELSE x.arr,
                            idx |-> IF x.islots > 0 THEN Len(index) + 1 ELSE x.idx,
                            len |-> x.len, cap |-> x.cap, islots |-> x.islots]
  <1> DEFINE a == IF x.cap > 0 THEN Len(entries) + 1 ELSE x.arr
             i == IF x.islots > 0 THEN Len(index) + 1 ELSE x.idx
  <1>1. mi_dict_copy(x) = [x EXCEPT !.arr = a, !.idx = i]
    BY DEF mi_dict_copy
  <1> HIDE DEF a, i
  <1>2. [x EXCEPT !.arr = a, !.idx = i] = [arr |-> a, idx |-> i, len |-> x.len, cap |-> x.cap, islots |-> x.islots]
    <2>1. x = [arr |-> x.arr, idx |-> x.idx, len |-> x.len, cap |-> x.cap, islots |-> x.islots]
      OBVIOUS
    <2>2. PICK p, q, l, c, n : x = [arr |-> p, idx |-> q, len |-> l, cap |-> c, islots |-> n]
      BY <2>1
    <2>3. [x EXCEPT !.arr = a] = [arr |-> a, idx |-> q, len |-> l, cap |-> c, islots |-> n]
      BY <2>2
    <2>4. [x EXCEPT !.arr = a, !.idx = i] = [[x EXCEPT !.arr = a] EXCEPT !.idx = i]
      OBVIOUS
    <2>5. [x EXCEPT !.arr = a, !.idx = i] = [arr |-> a, idx |-> i, len |-> l, cap |-> c, islots |-> n]
      <3>1. [[arr |-> a, idx |-> q, len |-> l, cap |-> c, islots |-> n] EXCEPT !.idx = i]
              = [arr |-> a, idx |-> i, len |-> l, cap |-> c, islots |-> n]
        OBVIOUS
      <3> QED
        BY <2>3, <2>4, <3>1, Zenon
    <2> QED
      BY <2>2, <2>5
  <1> QED
    BY <1>1, <1>2 DEF a, i

\* `let a = b`.
LEMMA CopyKeeps ==
  ASSUME DictInv, NEW a \in Dicts, NEW b \in Dicts, Copy(a, b)
  PROVE  DictInv'
  <1>1. PICK x, ps, y, row, tab : /\ x = dict[b] /\ ps = pairs[b] /\ y = mi_dict_copy(x)
                                  /\ row = EntriesOf(b) /\ tab = IndexOf(b)
    OBVIOUS
  <1>2. /\ dict[a] = New /\ UNCHANGED hash
        /\ dict' = [dict EXCEPT ![a] = y] /\ pairs' = [pairs EXCEPT ![a] = ps]
        /\ entries' = IF x.cap > 0 THEN Append(entries, row) ELSE entries
        /\ index' = IF x.islots > 0 THEN Append(index, tab) ELSE index
    BY <1>1 DEF Copy
  <1>3. /\ ps \in Seq(Pair) /\ Unrepeated(ps)
        /\ x \in [arr : Nat, idx : Nat, len : Nat, cap : Nat, islots : Nat]
        /\ entries \in Seq(Rows) /\ index \in Seq(Tables)
    BY <1>1, Shape DEF DictInv, DictTypes
  <1>4. CASE x = New /\ ps = << >>
    <2>1. y = New /\ entries' = entries /\ index' = index
      BY <1>1, <1>2, <1>3, <1>4, CopyFields DEF New, Null
    <2>2. y.arr = dict[a].arr /\ y.idx = dict[a].idx
      BY <2>1, <1>2
    <2>3. y \in [arr : Nat, idx : Nat, len : Nat, cap : Nat, islots : Nat]
      BY <2>1 DEF New, Null
    <2>4. Kept(entries, entries', y.arr) /\ Kept(index, index', y.idx)
      BY <2>1 DEF Kept
    <2> QED
      BY <2>1, <2>2, <2>3, <2>4, <1>2, <1>3, <1>4, OneChanged
  <1>5. CASE Filled(x, ps)
    <2>1. x.cap > 0 /\ x.islots > 0
      BY <1>3, <1>5 DEF Filled
    <2>2. row = entries[x.arr] /\ tab = index[x.idx] /\ x.arr \in DOMAIN entries /\ x.idx \in DOMAIN index
      BY <1>1, <1>3, <1>5 DEF Filled, EntriesOf, IndexOf, Null
    <2>3. row \in Rows /\ tab \in Tables
      BY <2>2, <1>3
    <2>4. entries' = Append(entries, row) /\ index' = Append(index, tab)
      BY <2>1, <1>2
    <2>5. /\ y \in [arr : Nat, idx : Nat, len : Nat, cap : Nat, islots : Nat]
          /\ y.arr = Len(entries) + 1 /\ y.idx = Len(index) + 1
          /\ y.len = x.len /\ y.cap = x.cap /\ y.islots = x.islots
      <3>1. y = [arr |-> Len(entries) + 1, idx |-> Len(index) + 1, len |-> x.len, cap |-> x.cap, islots |-> x.islots]
        BY <2>1, <1>1, <1>3, CopyFields
      <3>2. Len(entries) + 1 \in Nat /\ Len(index) + 1 \in Nat
        BY <1>3
      <3> QED
        BY <3>1, <3>2, <1>3
    <2>6. /\ entries' \in Seq(Rows) /\ Len(entries') = Len(entries) + 1 /\ entries'[Len(entries) + 1] = row
          /\ \A n \in DOMAIN entries : n \in DOMAIN entries' /\ entries'[n] = entries[n]
          /\ Len(entries) + 1 \in DOMAIN entries'
      BY <2>3, <2>4, <1>3
    <2>7. /\ index' \in Seq(Tables) /\ Len(index') = Len(index) + 1 /\ index'[Len(index) + 1] = tab
          /\ \A n \in DOMAIN index : n \in DOMAIN index' /\ index'[n] = index[n]
          /\ Len(index) + 1 \in DOMAIN index'
      BY <2>3, <2>4, <1>3
    <2>8. Kept(entries, entries', y.arr) /\ Kept(index, index', y.idx)
      BY <2>6, <2>7 DEF Kept
    <2>9. Filled(y, ps)'
      <3>1. /\ x.len >= 1 /\ x.len <= x.cap /\ x.len * 2 <= x.islots /\ Len(row) = x.cap
            /\ Len(ps) = x.len /\ \A n \in 1..x.len : row[n] = ps[n]
        BY <2>2, <1>5 DEF Filled
      <3>2. Indexed(ps, x.len, tab, x.islots)
        BY <2>2, <1>5 DEF Filled
      <3>3. Indexed(ps, x.len, tab, x.islots)'
        BY <3>2, <1>2, SMTT(40) DEF Indexed, Reaches, Probe
      <3>4. Indexed(ps, y.len, index[y.idx], y.islots)'
        <4>1. PICK i, l, s, t : i = y.idx /\ l = y.len /\ s = y.islots /\ t = index'[i]
          OBVIOUS
        <4>2. l = x.len /\ s = x.islots /\ t = tab
          BY <4>1, <2>5, <2>7
        <4>3. Indexed(ps, l, t, s)'
          BY <4>2, <3>3
        <4> QED
          BY <4>1, <4>3 DEF Indexed, Reaches, Probe
      <3>5. entries'[y.arr] = row /\ y.arr \in DOMAIN entries' /\ y.idx \in DOMAIN index'
        BY <2>5, <2>6, <2>7
      <3> QED
        BY <3>1, <3>4, <3>5, <2>5 DEF Filled
    <2> QED
      BY <2>5, <2>6, <2>7, <2>8, <2>9, <1>2, <1>3, OneChanged
  <1> QED
    BY <1>1, <1>4, <1>5 DEF DictInv

\* The room mi_dict_set makes: the entries there were, and the new one.
Room(had, len, cap, k, v) == [n \in 1..cap |-> IF n = len THEN Entry(k, v) ELSE IF n < len THEN had[n] ELSE Unused]

\* The entries in front are the pairs.
Begins(e, ps) == \A n \in 1..Len(ps) : e[n] = ps[n]

\* It holds the pairs and the new one.
LEMMA RoomHolds ==
  ASSUME NEW ps \in Seq(Pair), NEW cap \in Nat, Len(ps) + 1 <= cap, NEW k \in Keys, NEW v \in Values,
         NEW had, Begins(had, ps)
  PROVE  /\ Room(had, Len(ps) + 1, cap, k, v) \in Rows
         /\ Len(Room(had, Len(ps) + 1, cap, k, v)) = cap
         /\ \A n \in 1..(Len(ps) + 1) : Room(had, Len(ps) + 1, cap, k, v)[n] = Append(ps, Entry(k, v))[n]
  <1> DEFINE room == Room(had, Len(ps) + 1, cap, k, v)
             P == Pair \cup {Unused}
  <1>1. Len(ps) \in Nat /\ Entry(k, v) \in P /\ Unused \in P /\ \A n \in 1..Len(ps) : ps[n] \in P
    <2>1. Entry(k, v) \in Pair
      BY DEF Pair, Entry
    <2>2. Len(ps) \in Nat /\ \A n \in 1..Len(ps) : ps[n] \in Pair
      OBVIOUS
    <2> QED
      BY <2>1, <2>2
  <1>2. \A n \in 1..cap : room[n] = IF n = Len(ps) + 1 THEN Entry(k, v) ELSE IF n < Len(ps) + 1 THEN ps[n] ELSE Unused
    BY <1>1 DEF Room, Begins
  <1>3. room = [n \in 1..cap |-> room[n]]
    BY DEF Room
  <1>4. \A n \in 1..cap : room[n] \in P
    <2> HIDE DEF P, room
    <2> QED
      BY <1>1, <1>2
  <1>5. room \in Seq(P) /\ Len(room) = cap
    <2> HIDE DEF P, room
    <2>1. PICK f : f = room
      OBVIOUS
    <2>2. f \in [1..cap -> P]
      BY <2>1, <1>3, <1>4
    <2>3. f \in Seq(P) /\ Len(f) = cap
      BY <2>2
    <2> QED
      BY <2>1, <2>3
  <1>6. ASSUME NEW n \in 1..(Len(ps) + 1)
        PROVE  room[n] = Append(ps, Entry(k, v))[n]
    <2> HIDE DEF P, room
    <2>1. n \in 1..cap
      BY <1>1
    <2> QED
      BY <2>1, <1>1, <1>2
  <1> QED
    BY <1>5, <1>6 DEF Rows

\* mi_dict_set of a key that is not there.
LEMMA InsertKeeps ==
  ASSUME DictInv, DictAssumption, NEW d \in Dicts, NEW k \in Keys, NEW v \in Values,
         Insert(d, k, v), pairs' = [pairs EXCEPT ![d] = PairSet(@, k, v)]
  PROVE  DictInv'
  <1>1. PICK x, ps, had, tab : x = dict[d] /\ ps = pairs[d] /\ had = EntriesOf(d) /\ tab = IndexOf(d)
    OBVIOUS
  <1>2. /\ ps \in Seq(Pair) /\ Unrepeated(ps)
        /\ x \in [arr : Nat, idx : Nat, len : Nat, cap : Nat, islots : Nat]
        /\ FirstCap \in Nat \ {0} /\ FirstSlots \in Nat \ {0}
        /\ entries \in Seq(Rows) /\ index \in Seq(Tables)
    BY <1>1, Shape DEF DictInv, DictTypes, DictAssumption
  <1>3. /\ x.arr \in Nat /\ x.idx \in Nat /\ x.len \in Nat /\ x.cap \in Nat /\ x.islots \in Nat
        /\ FirstCap \in Nat \ {0} /\ FirstSlots \in Nat \ {0}
    BY <1>2
  <1>4. \/ x = New /\ ps = << >> /\ x.arr = Null /\ x.idx = Null
        \/ /\ Filled(x, ps) /\ x.arr # Null /\ x.idx # Null
           /\ had = entries[x.arr] /\ tab = index[x.idx]
           /\ x.arr \in DOMAIN entries /\ x.idx \in DOMAIN index
    BY <1>1, Shape, SMTT(40) DEF New, Filled
  <1> DEFINE ln == x.len + 1
             cp == IF x.len # x.cap THEN x.cap ELSE IF x.cap = 0 THEN FirstCap ELSE 2 * x.cap
             full == x.islots = 0 \/ ln * 2 > x.islots
             sl == IF ~full THEN x.islots ELSE Enough(ln, IF x.islots = 0 THEN FirstSlots ELSE 2 * x.islots)
  <1>5. PICK len, cap, slots : len = ln /\ cap = cp /\ slots = sl
    OBVIOUS
  <1>6. PICK arr, idx : /\ arr = (IF x.arr = Null THEN Len(entries) + 1 ELSE x.arr)
                        /\ idx = (IF x.idx = Null THEN Len(index) + 1 ELSE x.idx)
    OBVIOUS
  <1>7. PICK room : room = Room(had, len, cap, k, v)
    OBVIOUS
  <1>8. PICK now : now = (IF full THEN mi_dict_reindex(room, len, slots) ELSE Placed(room, tab, slots, len - 1))
    OBVIOUS
  <1>9. /\ Find(d, k) = Empty /\ UNCHANGED hash
        /\ entries' = IF x.arr = Null THEN Append(entries, room) ELSE [entries EXCEPT ![arr] = room]
        /\ index' = IF x.idx = Null THEN Append(index, now) ELSE [index EXCEPT ![idx] = now]
        /\ dict' = [dict EXCEPT ![d] = [arr |-> arr, idx |-> idx, len |-> len, cap |-> cap, islots |-> slots]]
    BY <1>1, <1>5, <1>6, <1>7, <1>8 DEF Insert, Room
  <1>10. /\ Len(ps) = x.len /\ \A n \in 1..Len(ps) : had[n] = ps[n]
         /\ x.len <= x.cap /\ x.len * 2 <= x.islots
         /\ (x.islots = 0 <=> x.len = 0)
         /\ (x.cap = 0 <=> x.len = 0)
    <2>1. CASE x = New /\ ps = << >>
      BY <2>1 DEF New
    <2>2. CASE Filled(x, ps) /\ had = entries[x.arr]
      <3>1. Len(ps) = x.len /\ \A n \in 1..x.len : had[n] = ps[n]
        BY <2>2 DEF Filled
      <3>2. x.len >= 1 /\ x.len <= x.cap /\ x.len * 2 <= x.islots
        BY <2>2 DEF Filled
      <3> QED
        BY <3>1, <3>2, <1>3
    <2> QED
      BY <1>4, <2>1, <2>2
  <1>11. len \in Nat /\ len = x.len + 1 /\ len - 1 = x.len
    BY <1>3, <1>5
  <1> HIDE DEF ln
  <1>12. /\ x.len <= x.cap /\ x.len * 2 <= x.islots
         /\ (x.islots = 0 <=> x.len = 0)
         /\ (x.cap = 0 <=> x.len = 0)
    BY <1>10
  <1>13. len = ln
    BY <1>5
  <1>14. cap \in Nat /\ len <= cap
    <2>1. cap = IF x.len # x.cap THEN x.cap ELSE IF x.cap = 0 THEN FirstCap ELSE 2 * x.cap
      BY <1>5
    <2> QED
      BY <2>1, <1>3, <1>12, <1>11
  <1>15. slots \in Nat /\ len * 2 <= slots /\ len < slots
    <2>1. CASE ~full
      <3>1. slots = x.islots /\ len * 2 <= x.islots
        BY <2>1, <1>5, <1>13, <1>3, <1>11
      <3> QED
        BY <3>1, <1>3, <1>11
    <2>2. CASE x.islots = 0
      <3>1. len = 1
        BY <2>2, <1>12, <1>11
      <3>2. slots = Enough(1, FirstSlots)
        BY <2>2, <3>1, <1>5, <1>13
      <3> QED
        BY <3>1, <3>2, <1>3 DEF Enough
    <2>3. CASE full /\ x.islots # 0
      <3>1. slots = Enough(len, 2 * x.islots)
        BY <2>3, <1>5, <1>13
      <3>2. len * 2 <= 2 * x.islots
        BY <2>3, <1>3, <1>12, <1>11
      <3> QED
        BY <3>1, <3>2, <1>3, <1>11 DEF Enough
    <2> QED
      BY <2>1, <2>2, <2>3
  <1> HIDE DEF cp
  <1>16. PICK qs : qs = PairSet(ps, k, v)
    OBVIOUS
  <1>17. qs \in Seq(Pair) /\ Unrepeated(qs) /\ qs = Append(ps, Entry(k, v))
    <2>1. \A n \in 1..Len(ps) : ps[n].key # k
      BY <1>1, <1>9, FindInDict DEF Empty
    <2> QED
      BY <2>1, <1>2, <1>16, PairSetAppends
  <1>18. room \in Rows /\ Len(room) = cap /\ \A n \in 1..len : room[n] = qs[n]
    <2>1. /\ Len(ps) + 1 = len /\ Len(ps) + 1 <= cap
          /\ Begins(had, ps)
      BY <1>10, <1>11, <1>14 DEF Begins
    <2>2. /\ Room(had, Len(ps) + 1, cap, k, v) \in Rows
          /\ Len(Room(had, Len(ps) + 1, cap, k, v)) = cap
          /\ \A n \in 1..(Len(ps) + 1) : Room(had, Len(ps) + 1, cap, k, v)[n] = Append(ps, Entry(k, v))[n]
      BY <2>1, <1>2, <1>14, RoomHolds
    <2>3. room = Room(had, Len(ps) + 1, cap, k, v)
      BY <2>1, <1>7
    <2> QED
      BY <2>1, <2>2, <2>3, <1>17
  <1>19. Len(qs) = len /\ \A n \in 1..x.len : qs[n] = ps[n]
    BY <1>2, <1>10, <1>11, <1>17, SMTT(40)
  <1>20. SameKeys(room, qs, len) /\ SameKeys(ps, room, x.len)
    <2>1. ASSUME NEW p \in 0..(len - 1) PROVE room[p + 1].key = qs[p + 1].key
      <3>1. p + 1 \in 1..len
        BY <1>11
      <3> QED
        BY <3>1, <1>18
    <2>2. ASSUME NEW p \in 0..(x.len - 1) PROVE ps[p + 1].key = room[p + 1].key
      <3>1. p + 1 \in 1..len /\ p + 1 \in 1..x.len
        BY <1>3, <1>11
      <3> QED
        BY <3>1, <1>18, <1>19
    <2> QED
      BY <2>1, <2>2 DEF SameKeys
  <1>21. \A p \in 0..x.len : hash[room[p + 1].key] \in Nat
    <2> TAKE p \in 0..x.len
    <2>1. p + 1 \in 1..len
      BY <1>3, <1>11
    <2>2. room[p + 1] \in Pair
      BY <2>1, <1>17, <1>18, <1>19
    <2>3. room[p + 1].key \in Keys
      BY <2>2 DEF Pair
    <2> QED
      BY <2>3 DEF DictInv, DictTypes, DictAssumption
  <1>22. Indexed(room, len, now, slots)
    <2>1. CASE full
      <3>1. now = mi_dict_reindex(room, len, slots)
        BY <2>1, <1>8
      <3>2. 0..(len - 1) = 0..x.len
        BY <1>11
      <3>3. \A p \in 0..(len - 1) : hash[room[p + 1].key] \in Nat
        BY <3>2, <1>21
      <3> QED
        BY <3>1, <3>3, <1>11, <1>15, ReindexIndexes
    <2>2. CASE ~full
      <3>1. now = Placed(room, tab, slots, x.len) /\ slots = x.islots /\ x.islots # 0
        BY <2>2, <1>8, <1>5, <1>11
      <3>2. Filled(x, ps) /\ tab = index[x.idx]
        BY <3>1, <1>4 DEF New
      <3>3. Indexed(ps, x.len, tab, slots)
        BY <3>1, <3>2 DEF Filled
      <3>4. Indexed(room, x.len, tab, slots)
        BY <3>3, <1>3, <1>20, KeysIndex
      <3>5. x.len < slots
        BY <1>3, <1>11, <1>15
      <3>6. Indexed(room, x.len + 1, now, slots)
        BY <3>1, <3>4, <3>5, <1>3, <1>15, <1>21, PlacedIndexes
      <3> QED
        BY <3>6, <1>11
    <2> QED
      BY <2>1, <2>2
  <1>23. Indexed(qs, len, now, slots)
    BY <1>11, <1>20, <1>22, KeysIndex
  <1>24. now \in Tables
    BY <1>15, <1>23 DEF Indexed, Tables
  <1> HIDE DEF full, sl
  <1>25. /\ entries' \in Seq(Rows) /\ arr \in Nat /\ arr \in DOMAIN entries' /\ entries'[arr] = room
         /\ Kept(entries, entries', arr) /\ (arr = x.arr \/ arr = Len(entries) + 1)
    <2>1. CASE x.arr = Null
      <3>1. arr = Len(entries) + 1 /\ entries' = Append(entries, room)
        BY <2>1, <1>6, <1>9
      <3> QED
        BY <3>1, <1>2, <1>18 DEF Kept
    <2>2. CASE x.arr # Null
      <3>1. arr = x.arr /\ entries' = [entries EXCEPT ![arr] = room] /\ arr \in DOMAIN entries
        BY <2>2, <1>4, <1>6, <1>9
      <3> QED
        BY <3>1, <1>2, <1>18 DEF Kept
    <2> QED
      BY <2>1, <2>2
  <1>26. /\ index' \in Seq(Tables) /\ idx \in Nat /\ idx \in DOMAIN index' /\ index'[idx] = now
         /\ Kept(index, index', idx) /\ (idx = x.idx \/ idx = Len(index) + 1)
    <2>1. CASE x.idx = Null
      <3>1. idx = Len(index) + 1 /\ index' = Append(index, now)
        BY <2>1, <1>6, <1>9
      <3> QED
        BY <3>1, <1>2, <1>24, SMTT(40) DEF Kept
    <2>2. CASE x.idx # Null
      <3>1. idx = x.idx /\ index' = [index EXCEPT ![idx] = now] /\ idx \in DOMAIN index
        BY <2>2, <1>4, <1>6, <1>9
      <3> QED
        BY <3>1, <1>2, <1>24 DEF Kept
    <2> QED
      BY <2>1, <2>2
  <1>27. PICK y : y = [arr |-> arr, idx |-> idx, len |-> len, cap |-> cap, islots |-> slots]
    OBVIOUS
  <1>28. /\ y \in [arr : Nat, idx : Nat, len : Nat, cap : Nat, islots : Nat]
         /\ y.arr = arr /\ y.idx = idx /\ y.len = len /\ y.cap = cap /\ y.islots = slots
    BY <1>11, <1>14, <1>15, <1>25, <1>26, <1>27
  <1>29. Filled(y, qs)'
    <2>1. Indexed(qs, y.len, index[y.idx], y.islots)'
      <3>1. Indexed(qs, len, now, slots)'
        BY <1>9, <1>23 DEF Indexed, Reaches, Probe
      <3>2. PICK i, l, s, t : i = y.idx /\ l = y.len /\ s = y.islots /\ t = index'[i]
        OBVIOUS
      <3>3. l = len /\ s = slots /\ t = now
        BY <3>2, <1>26, <1>28
      <3>4. Indexed(qs, l, t, s)'
        BY <3>1, <3>3
      <3> QED
        BY <3>2, <3>4 DEF Indexed, Reaches, Probe
    <2>2. \A n \in 1..y.len : entries'[y.arr][n] = qs[n]
      BY <1>18, <1>25, <1>28
    <2>3. y.arr \in DOMAIN entries' /\ y.idx \in DOMAIN index' /\ Len(entries'[y.arr]) = y.cap /\ Len(qs) = y.len
      BY <1>18, <1>19, <1>25, <1>26, <1>28
    <2>4. y.len >= 1 /\ y.len <= y.cap /\ y.len * 2 <= y.islots
      BY <1>3, <1>11, <1>14, <1>15, <1>28
    <2> QED
      BY <2>1, <2>2, <2>3, <2>4 DEF Filled
  <1>30. dict' = [dict EXCEPT ![d] = y] /\ pairs' = [pairs EXCEPT ![d] = qs]
    BY <1>1, <1>9, <1>16, <1>27
  <1> QED
    <2>1. y.arr = dict[d].arr \/ y.arr = Len(entries) + 1
      BY <1>1, <1>25, <1>28
    <2>2. y.idx = dict[d].idx \/ y.idx = Len(index) + 1
      BY <1>1, <1>26, <1>28
    <2>3. Kept(entries, entries', y.arr) /\ Kept(index, index', y.idx)
      BY <1>25, <1>26, <1>28
    <2> QED
      BY <2>1, <2>2, <2>3, <1>9, <1>17, <1>25, <1>26, <1>28, <1>29, <1>30, OneChanged, ZenonT(60)

-----------------------------------------------------------------------------
(* Theorems.                                                                 *)

\* DictInv holds at the start, and where nothing changes.
LEMMA InvInit ==
  ASSUME DictInit, DictAssumption
  PROVE  DictInv
  BY DEF DictInit, DictInv, DictTypes, New, Null, Apart, Unrepeated

LEMMA InvStutters ==
  ASSUME DictInv, UNCHANGED dictVars
  PROVE  DictInv'
  <1>1. /\ hash' = hash /\ dict' = dict /\ entries' = entries /\ index' = index /\ pairs' = pairs
    BY DEF dictVars
  <1>2. DictTypes' /\ Apart'
    BY <1>1 DEF DictInv, DictTypes, Apart
  <1>3. ASSUME NEW c \in Dicts
        PROVE  (dict'[c] = New /\ pairs'[c] = << >>) \/ Filled(dict[c], pairs[c])'
    <2>1. CASE Filled(dict[c], pairs[c])
      <3>1. PICK x, ps : x = dict[c] /\ ps = pairs[c]
        OBVIOUS
      <3>2. x.arr \in DOMAIN entries /\ x.idx \in DOMAIN index /\ Filled(x, ps)
        BY <2>1, <3>1 DEF Filled
      <3>3. Filled(x, ps)'
        BY <3>2, <1>1, StillFilled
      <3> QED
        BY <3>1, <3>3, <1>1, FilledAt
    <2>2. CASE dict[c] = New /\ pairs[c] = << >>
      BY <2>2, <1>1
    <2> QED
      BY <2>1, <2>2 DEF DictInv
  <1>4. (\A c \in Dicts : Unrepeated(pairs[c]))'
    BY <1>1 DEF DictInv
  <1>5. (\A c \in Dicts : (dict[c] = New /\ pairs[c] = << >>) \/ Filled(dict[c], pairs[c]))'
    BY <1>3 DEF New
  <1> QED
    BY <1>2, <1>4, <1>5 DEF DictInv

\* Whatever the hash gives, the entries of a compiled Dict are the pairs the
\* interpreter would have, its index leads to each of them, and no two Dicts
\* share an array (mi_dict_set, mi_dict_reindex, mi_dict_copy).
THEOREM DictsHold == DictSpec => []DictInv
  <1>1. DictInit => DictInv
    BY DictAssumption, InvInit
  <1>2. DictInv /\ [DictNext]_dictVars => DictInv'
    <2> SUFFICES ASSUME DictInv, [DictNext]_dictVars PROVE DictInv'
      OBVIOUS
    <2>1. ASSUME NEW d \in Dicts, NEW k \in Keys, NEW v \in Values, Set(d, k, v)
          PROVE  DictInv'
      <3>1. (Replace(d, k, v) \/ Insert(d, k, v)) /\ pairs' = [pairs EXCEPT ![d] = PairSet(@, k, v)]
        BY <2>1 DEF Set
      <3> QED
        BY <3>1, DictAssumption, ReplaceKeeps, InsertKeeps
    <2>2. ASSUME NEW a \in Dicts, NEW b \in Dicts, Copy(a, b)
          PROVE  DictInv'
      BY <2>2, CopyKeeps
    <2>3. CASE UNCHANGED dictVars
      BY <2>3, InvStutters
    <2> QED
      BY <2>1, <2>2, <2>3 DEF DictNext
  <1> QED
    BY <1>1, <1>2, PTL DEF DictSpec

\* What DictInv says of entries and index is what `keys` and `get` see.
LEMMA InvAgrees ==
  ASSUME DictInv, DictAssumption
  PROVE  DictsAgree
  <1>1. ASSUME NEW d \in Dicts
        PROVE  mi_dict_keys(d) = PairKeys(d)
    <2>1. DOMAIN pairs[d] = 1..Len(pairs[d])
      BY Shape
    <2>2. CASE dict[d] = New /\ pairs[d] = << >>
      BY <2>2 DEF New, mi_dict_keys, PairKeys
    <2>3. CASE Filled(dict[d], pairs[d])
      <3>1. PICK len, ps, e : len = dict[d].len /\ ps = pairs[d] /\ e = EntriesOf(d)
        OBVIOUS
      <3>2. Len(ps) = len /\ \A n \in 1..len : e[n] = ps[n]
        BY <2>3, <3>1, Shape DEF Filled, New
      <3>3. [n \in 1..len |-> e[n].key] = [n \in 1..len |-> ps[n].key]
        BY <3>2
      <3> QED
        BY <2>1, <3>1, <3>2, <3>3 DEF mi_dict_keys, PairKeys
    <2> QED
      BY <2>2, <2>3 DEF DictInv
  <1>2. ASSUME NEW d \in Dicts, NEW k \in Keys
        PROVE  mi_dict_at(d, k) = PairGet(d, k)
    <2>1. PICK r, ps, e, at, get : /\ r = Find(d, k) /\ ps = pairs[d] /\ e = EntriesOf(d)
                                   /\ at = mi_dict_at(d, k) /\ get = PairGet(d, k)
      OBVIOUS
    <2>2. DOMAIN ps = 1..Len(ps) /\ Unrepeated(ps)
      BY <2>1, Shape
    <2>3. at = (IF r = Empty THEN {} ELSE {e[r + 1].val})
      BY <2>1 DEF mi_dict_at
    <2>4. get = {ps[n].val : n \in {m \in DOMAIN ps : ps[m].key = k}}
      BY <2>1 DEF PairGet
    <2>5. \/ r \in 0..(dict[d].len - 1) /\ ps[r + 1].key = k /\ Filled(dict[d], ps) /\ r + 1 \in 1..Len(ps)
          \/ r = Empty /\ \A n \in 1..Len(ps) : ps[n].key # k
      BY <2>1, DictAssumption, FindInDict
    <2>6. CASE r = Empty /\ \A n \in 1..Len(ps) : ps[n].key # k
      <3>1. {m \in DOMAIN ps : ps[m].key = k} = {}
        BY <2>2, <2>6
      <3>2. get = {}
        BY <2>4, <3>1
      <3> QED
        BY <2>1, <2>3, <2>6, <3>2
    <2>7. CASE r \in 0..(dict[d].len - 1) /\ ps[r + 1].key = k /\ Filled(dict[d], ps) /\ r + 1 \in 1..Len(ps)
      <3>1. PICK n : n = r + 1
        OBVIOUS
      <3>2. n \in DOMAIN ps /\ ps[n].key = k
        BY <2>2, <2>7, <3>1
      <3>3. {m \in DOMAIN ps : ps[m].key = k} = {n}
        BY <2>2, <3>2 DEF Unrepeated
      <3>4. get = {ps[n].val}
        BY <2>4, <3>3
      <3>5. e[n] = ps[n]
        <4>1. Len(ps) = dict[d].len /\ \A i \in 1..dict[d].len : entries[dict[d].arr][i] = ps[i]
          BY <2>7 DEF Filled
        <4>2. e = entries[dict[d].arr]
          BY <2>1, <2>7, Shape DEF Filled, New
        <4> QED
          BY <4>1, <4>2, <2>7, <3>1
      <3>6. at = {e[n].val}
        <4>1. r # Empty
          BY <2>7 DEF Empty
        <4> QED
          BY <4>1, <2>3, <3>1
      <3> QED
        BY <2>1, <3>4, <3>5, <3>6
    <2> QED
      BY <2>1, <2>5, <2>6, <2>7
  <1> QED
    BY <1>1, <1>2 DEF DictsAgree

\* and what a search that ends needs.
LEMMA InvEnds ==
  ASSUME DictInv
  PROVE  ProbingEnds
  <1> DEFINE used(d) == {s \in DOMAIN IndexOf(d) : IndexOf(d)[s] # Empty}
  <1>1. ASSUME NEW d \in Dicts
        PROVE  /\ Slots(d) > 0 => Cardinality(used(d)) < Slots(d)
               /\ {IndexOf(d)[s] : s \in used(d)} = 0..(dict[d].len - 1)
               /\ Cardinality(used(d)) = dict[d].len
    <2>1. CASE dict[d] = New /\ IndexOf(d) = << >>
      <3>1. used(d) = {} /\ dict[d].len = 0 /\ Slots(d) = 0
        BY <2>1 DEF New, Slots
      <3>2. Cardinality({}) = 0
        BY FS_EmptySet
      <3> HIDE DEF used
      <3> QED
        BY <3>1, <3>2
    <2>2. CASE Filled(dict[d], pairs[d]) /\ IndexOf(d) = index[dict[d].idx]
      <3>1. PICK ps, len, idx, slots, S : /\ ps = pairs[d] /\ len = dict[d].len /\ idx = IndexOf(d)
                                          /\ slots = Slots(d) /\ S = used(d)
        OBVIOUS
      <3>2. Indexed(ps, len, idx, slots) /\ len \in Nat /\ slots \in Nat /\ len * 2 <= slots /\ len >= 1
        BY <2>2, <3>1, Shape DEF Filled, Slots
      <3>3. DOMAIN idx = 0..(slots - 1) /\ S = {s \in 0..(slots - 1) : idx[s] # Empty}
        BY <3>1, <3>2 DEF Indexed
      <3>4. \A s \in S : idx[s] \in 0..(len - 1)
        BY <3>2, <3>3 DEF Indexed
      <3>5. \A p \in 0..(len - 1) : \E s \in S : idx[s] = p
        <4> TAKE p \in 0..(len - 1)
        <4>1. PICK n \in 0..(slots - 1) : idx[Probe(ps[p + 1].key, slots, n)] = p
          BY <3>2 DEF Indexed
        <4>2. Probe(ps[p + 1].key, slots, n) \in 0..(slots - 1)
          <5>1. ps[p + 1].key \in Keys
            <6>1. p + 1 \in 1..Len(ps)
              BY <2>2, <3>1, <3>2, SMTT(40) DEF Filled
            <6>2. ps \in Seq(Pair)
              BY <3>1, Shape
            <6>3. ps[p + 1] \in Pair
              BY <6>1, <6>2
            <6> QED
              BY <6>3 DEF Pair
          <5>2. hash[ps[p + 1].key] \in Nat
            BY <5>1, DictAssumption DEF DictInv, DictTypes, DictAssumption
          <5> QED
            BY <5>2, <3>2, ProbeInside DEF Probe
        <4> QED
          BY <4>1, <4>2, <3>3 DEF Empty
      <3>6. {idx[s] : s \in S} = 0..(len - 1)
        BY <3>4, <3>5
      <3>7. Cardinality(S) = len
        <4> DEFINE f == [s \in S |-> idx[s]]
        <4>1. f \in Bijection(S, 0..(len - 1))
          <5>1. f \in [S -> 0..(len - 1)]
            BY <3>4
          <5>2. \A s, t \in S : f[s] = f[t] => s = t
            BY <3>2, <3>3 DEF Indexed
          <5>3. \A p \in 0..(len - 1) : \E s \in S : f[s] = p
            BY <3>5
          <5> HIDE DEF f
          <5> QED
            BY <5>1, <5>2, <5>3 DEF Bijection, Injection, Surjection, IsInjective
        <4>2. ExistsBijection(S, 0..(len - 1))
          BY <4>1 DEF ExistsBijection
        <4>3. IsFiniteSet(S)
          <5>1. IsFiniteSet(0..(slots - 1))
            <6>1. 0 \in Int /\ slots - 1 \in Int
              BY <3>2
            <6> QED
              BY <6>1, FS_Interval
          <5>2. S \in SUBSET (0..(slots - 1))
            BY <3>3
          <5> QED
            BY <5>1, <5>2, FS_Subset
        <4>4. Cardinality(S) = Cardinality(0..(len - 1))
          BY <4>2, <4>3, FS_Bijection
        <4>5. Cardinality(0..(len - 1)) = len
          <5>1. 0 \in Int /\ len - 1 \in Int
            BY <3>2
          <5>2. Cardinality(0..(len - 1)) = IF 0 > len - 1 THEN 0 ELSE (len - 1) - 0 + 1
            BY <5>1, FS_Interval
          <5> QED
            BY <5>2, <3>2
        <4> QED
          BY <4>4, <4>5
      <3>8. Cardinality(S) < slots
        BY <3>2, <3>7
      <3> HIDE DEF used
      <3> QED
        BY <3>1, <3>6, <3>7, <3>8
    <2> QED
      BY <2>1, <2>2, Shape
  <1> QED
    BY <1>1 DEF ProbingEnds

\* Both kinds of Dict answer alike for every hash, any number of Dicts, keys
\* and values and any length: growth, replaced values and copies included.
THEOREM AnswersAgree == DictSpec => []DictsAgree
  BY DictsHold, InvAgrees, DictAssumption, PTL

\* A search of an index always meets a free slot or its key: the loops of
\* mi_dict_find, mi_dict_set and mi_dict_reindex end.
THEOREM SearchesEnd == DictSpec => []ProbingEnds
  BY DictsHold, InvEnds, DictAssumption, PTL

-----------------------------------------------------------------------------
(* The sort of lists.  A run of the pass before holds the positions of its   *)
(* places in order, so that equal keys of the left one come first; what was  *)
(* written of a pair of runs comes before all that is left of either.        *)
\* Where runs of d positions start
Starts(d) == {s \in Nat : \E q \in Nat : s = q * d}
\* The places from..to-1 of f hold positions of these places only, in order.
Run(f, from, to) ==
  /\ \A p \in from..to - 1 : f[p] \in from..to - 1
  /\ \A p, q \in from..to - 1 : p < q => Before(f[p], f[q])

SortTypes ==
  /\ keys \in Seq(Int)
  /\ order \in [0..Size - 1 -> Int] /\ spare \in [0..Size - 1 -> Int]
  /\ width \in Nat \ {0} /\ lo \in Nat /\ left \in Nat /\ right \in Nat
\* Every run of the pass before is sorted, and every pair of runs merged in this one.
RunsSorted == \A s \in Starts(width) : s < Size => Run(order, s, Lesser(s + width, Size))
PairsSorted == \A s \in Starts(2 * width) : s < lo => Run(spare, s, Lesser(s + 2 * width, Size))
\* What was merged of a pair comes before what is left of it.
Ahead(t, k, from, to) == \A p \in lo..k - 1 : \A q \in from..to - 1 : Before(t[p], order[q])
Merging(t, k, i, j, m, h) ==
  /\ i \in lo..m /\ j \in m..h /\ k = i + j - m
  /\ \A p \in lo..k - 1 : t[p] \in lo..h - 1
  /\ \A p, q \in lo..k - 1 : p < q => Before(t[p], t[q])
  /\ Ahead(t, k, i, m) /\ Ahead(t, k, j, h)
SortInv ==
  /\ SortTypes /\ RunsSorted
  /\ ~Sorted => /\ lo \in Starts(2 * width) /\ lo < Size /\ PairsSorted
                /\ Merging(spare, Out, left, right, Mid, Hi)

\* Places where runs start are at least a run apart.
LEMMA StartsApart ==
  ASSUME NEW d \in Nat \ {0}, NEW s \in Starts(d), NEW t \in Starts(d), s < t
  PROVE  s + d <= t
  <1>1. PICK a \in Nat : s = a * d
    BY DEF Starts
  <1>2. PICK b \in Nat : t = b * d
    BY DEF Starts
  <1>3. a < b
    <2> SUFFICES ASSUME ~(a < b)  PROVE FALSE
      OBVIOUS
    <2>1. PICK c \in Nat : a = b + c
      <3>1. a - b \in Nat /\ a = b + (a - b)
        OBVIOUS
      <3> QED
        BY <3>1
    <2>2. s = b * d + c * d /\ c * d >= 0
      BY <1>1, <2>1
    <2> QED
      BY <1>2, <2>2
  <1>4. PICK c \in Nat : b = a + 1 + c
    <2>1. b - a - 1 \in Nat /\ b = a + 1 + (b - a - 1)
      BY <1>3
    <2> QED
      BY <2>1
  <1>5. t = a * d + d + c * d /\ c * d >= 0
    BY <1>2, <1>4
  <1> QED
    BY <1>1, <1>5

\* Two runs make one of double width.
LEMMA StartsDouble ==
  ASSUME NEW d \in Nat \ {0}
  PROVE  /\ 2 * d \in Nat \ {0} /\ 0 \in Starts(d)
         /\ \A s \in Starts(d) : s \in Nat /\ s + d \in Starts(d)
         /\ \A s \in Starts(2 * d) : s \in Starts(d)
  <1>1. 0 \in Starts(d)
    <2>1. 0 = 0 * d
      OBVIOUS
    <2> QED
      BY <2>1 DEF Starts
  <1>2. ASSUME NEW s \in Starts(d)  PROVE s \in Nat /\ s + d \in Starts(d)
    <2>1. PICK a \in Nat : s = a * d
      BY DEF Starts
    <2>2. s + d = (a + 1) * d /\ a + 1 \in Nat /\ s + d \in Nat
      BY <2>1
    <2> QED
      BY <2>2 DEF Starts
  <1>3. ASSUME NEW s \in Starts(2 * d)  PROVE s \in Starts(d)
    <2>1. PICK a \in Nat : s = a * (2 * d)
      BY DEF Starts
    <2>2. s = (2 * a) * d /\ 2 * a \in Nat /\ s \in Nat
      BY <2>1
    <2> QED
      BY <2>2 DEF Starts
  <1> QED
    BY <1>1, <1>2, <1>3

\* What goes out first, when it is before all that is left, keeps the pair in order.
LEMMA Written ==
  ASSUME NEW h, NEW m, NEW k, NEW i, NEW j, NEW v, NEW i2, NEW j2,
         SortTypes, Merging(spare, k, i, j, m, h), m \in Nat, h \in Nat, m <= h, h <= Size,
         k < h, k \in Nat,
         v \in lo..h - 1,
         \/ i2 = i + 1 /\ j2 = j /\ i < m /\ v = order[i]
         \/ i2 = i /\ j2 = j + 1 /\ j < h /\ v = order[j],
         \A q \in i2..m - 1 : Before(v, order[q]),
         \A q \in j2..h - 1 : Before(v, order[q])
  PROVE  Merging([spare EXCEPT ![k] = v], k + 1, i2, j2, m, h) /\ [spare EXCEPT ![k] = v] \in [0..Size - 1 -> Int]
  <1> DEFINE t == [spare EXCEPT ![k] = v]
  <1>1. lo \in Nat /\ i \in Nat /\ j \in Nat /\ Size \in Nat /\ lo <= k /\ k \in 0..Size - 1 /\ v \in Int
    BY LenProperties, SMTT(40) DEF SortTypes, Merging, Size
  <1>2. t \in [0..Size - 1 -> Int] /\ t[k] = v /\ \A p \in lo..k - 1 : t[p] = spare[p]
    BY <1>1, SMTT(40) DEF SortTypes
  <1>3. i2 \in lo..m /\ j2 \in m..h /\ k + 1 = i2 + j2 - m
    BY <1>1 DEF Merging
  <1> HIDE DEF t
  <1>4. \A p \in lo..(k + 1) - 1 : p \in lo..k - 1 \/ p = k
    BY <1>1
  <1>5. \A p \in lo..(k + 1) - 1 : t[p] \in lo..h - 1
    BY <1>2, <1>4 DEF Merging
  <1>6. \A p \in lo..k - 1 : Before(spare[p], v)
    BY <1>1 DEF Merging, Ahead
  <1>7. ASSUME NEW p \in lo..(k + 1) - 1, NEW q \in lo..(k + 1) - 1, p < q  PROVE Before(t[p], t[q])
    <2>1. p \in lo..k - 1
      BY <1>1, <1>7
    <2>2. CASE q = k
      BY <1>2, <1>6, <2>1, <2>2
    <2>3. CASE q \in lo..k - 1
      BY <1>2, <1>7, <2>1, <2>3 DEF Merging
    <2> QED
      BY <1>4, <2>2, <2>3
  <1>8. ASSUME NEW p \in lo..(k + 1) - 1, NEW q \in i2..m - 1  PROVE Before(t[p], order[q])
    <2>1. q \in i..m - 1
      BY <1>1, <1>3
    <2> QED
      BY <1>2, <1>4, <2>1 DEF Merging, Ahead
  <1>9. ASSUME NEW p \in lo..(k + 1) - 1, NEW q \in j2..h - 1  PROVE Before(t[p], order[q])
    <2>1. q \in j..h - 1
      BY <1>1, <1>3
    <2> QED
      BY <1>2, <1>4, <2>1 DEF Merging, Ahead
  <1> QED
    BY <1>2, <1>3, <1>5, <1>7, <1>8, <1>9 DEF Merging, Ahead, t

\* The bounds of the two runs that are being merged, both sorted.
LEMMA TwoRuns ==
  ASSUME SortInv, ~Sorted
  PROVE  /\ Size \in Nat /\ Mid \in Nat /\ Hi \in Nat /\ lo <= Mid /\ Mid <= Hi /\ Hi <= Size
         /\ Run(order, lo, Mid) /\ Run(order, Mid, Hi)
         /\ Out \in Nat /\ left \in lo..Mid /\ right \in Mid..Hi
  <1>1. Size \in Nat /\ width \in Nat \ {0} /\ lo \in Nat /\ lo < Size /\ lo \in Starts(2 * width)
    BY LenProperties DEF SortInv, SortTypes, Size
  <1>2. Mid \in Nat /\ Hi \in Nat /\ lo <= Mid /\ Mid <= Hi /\ Hi <= Size
    BY <1>1 DEF Mid, Hi, Lesser
  <1>3. lo \in Starts(width) /\ lo + width \in Starts(width)
    BY <1>1, StartsDouble
  <1>4. Run(order, lo, Mid)
    BY <1>1, <1>3 DEF SortInv, RunsSorted, Mid
  <1>5. Run(order, Mid, Hi)
    <2>1. CASE lo + width < Size
      <3>1. Mid = lo + width /\ Hi = Lesser((lo + width) + width, Size)
        BY <2>1, <1>1 DEF Mid, Hi, Lesser
      <3> QED
        BY <2>1, <3>1, <1>3 DEF SortInv, RunsSorted
    <2>2. CASE ~(lo + width < Size)
      <3>1. Mid = Size /\ Hi = Size
        BY <2>2, <1>1 DEF Mid, Hi, Lesser
      <3> QED
        BY <3>1, <1>1 DEF Run
    <2> QED
      BY <2>1, <2>2
  <1>6. left \in lo..Mid /\ right \in Mid..Hi
    BY DEF SortInv, Merging
  <1>7. Out \in Nat
    BY <1>1, <1>2, <1>6 DEF Out
  <1> QED
    BY <1>1, <1>2, <1>4, <1>5, <1>6, <1>7

\* Keys of positions are numbers.
LEMMA KeysAreInts == ASSUME SortTypes, NEW p \in 0..Size - 1  PROVE Key(p) \in Int
  <1>1. Size \in Nat /\ p + 1 \in 1..Size
    BY LenProperties DEF SortTypes, Size
  <1> QED
    BY <1>1, ElementOfSeq DEF SortTypes, Size, Key

\* The comparison takes the position that belongs before all that are left:
\* on equal keys the one of the left run.
LEMMA MergeInv ==
  ASSUME SortInv, Merge
  PROVE  SortInv'
  <1>1. ~Sorted /\ Out < Hi /\ keys' = keys /\ order' = order /\ width' = width /\ lo' = lo
    BY DEF Merge
  <1>2. PICK m \in Nat : m = Mid
    BY <1>1, TwoRuns
  <1>3. PICK h \in Nat : h = Hi
    BY <1>1, TwoRuns
  <1>4. PICK k \in Nat : k = Out
    BY <1>1, TwoRuns
  <1>5. /\ SortTypes /\ Size \in Nat /\ m <= h /\ h <= Size /\ lo <= m /\ Run(order, lo, m) /\ Run(order, m, h)
        /\ left \in lo..m /\ right \in m..h /\ k < h /\ k = left + right - m /\ Merging(spare, k, left, right, m, h)
        /\ lo \in Nat /\ left \in Nat /\ right \in Nat
    BY <1>1, <1>2, <1>3, <1>4, TwoRuns DEF SortInv, SortTypes, Out
  <1>6. Size' = Size /\ Mid' = m /\ Hi' = h /\ (Sorted <=> Sorted')
    BY <1>1, <1>2, <1>3 DEF Size, Mid, Hi, Sorted
  <1>7. /\ \A q \in lo..m - 1 : order[q] \in lo..m - 1 /\ order[q] \in 0..Size - 1
        /\ \A q \in m..h - 1 : order[q] \in m..h - 1 /\ order[q] \in 0..Size - 1
    BY <1>5 DEF Run
  <1>8. ASSUME RightFirst
        PROVE  Merging(spare', k + 1, left', right', m, h) /\ spare' \in [0..Size - 1 -> Int] /\ \E v : spare' = [spare EXCEPT ![k] = v]
    <2> DEFINE v == order[right]
    <2>1. right < h /\ (left >= m \/ Key(order[right]) < Key(order[left]))
      BY <1>2, <1>3, <1>8 DEF RightFirst
    <2>2. right \in m..h - 1 /\ v \in m..h - 1 /\ v \in lo..h - 1 /\ v \in 0..Size - 1
      BY <1>5, <1>7, <2>1
    <2>3. \A q \in right + 1..h - 1 : Before(v, order[q])
      BY <1>5, <2>2 DEF Run
    <2>4. ASSUME NEW q \in left..m - 1  PROVE Before(v, order[q])
      <3>1. left \in lo..m - 1 /\ q \in lo..m - 1 /\ Key(v) < Key(order[left])
        BY <1>5, <2>1, <2>4
      <3>2. q = left \/ Before(order[left], order[q])
        BY <1>5, <3>1 DEF Run
      <3>3. Key(v) \in Int /\ Key(order[left]) \in Int /\ Key(order[q]) \in Int
        BY <1>5, <1>7, <2>2, <3>1, KeysAreInts
      <3> QED
        BY <3>1, <3>2, <3>3 DEF Before
    <2> HIDE DEF v
    <2>5. Merging([spare EXCEPT ![k] = v], k + 1, left, right + 1, m, h) /\ [spare EXCEPT ![k] = v] \in [0..Size - 1 -> Int]
      <3>1. v = order[right] /\ left = left
        BY DEF v
      <3> QED
        BY <1>5, <2>1, <2>2, <2>3, <2>4, <3>1, Written
    <2>6. spare' = [spare EXCEPT ![k] = v] /\ left' = left /\ right' = right + 1
      BY <1>4, <1>8 DEF Merge, v
    <2> QED
      BY <2>5, <2>6
  <1>9. ASSUME ~RightFirst
        PROVE  Merging(spare', k + 1, left', right', m, h) /\ spare' \in [0..Size - 1 -> Int] /\ \E v : spare' = [spare EXCEPT ![k] = v]
    <2> DEFINE v == order[left]
    <2>1. ~(right < h) \/ (left < m /\ ~(Key(order[right]) < Key(order[left])))
      BY <1>2, <1>3, <1>5, <1>9 DEF RightFirst
    <2>2. left < m
      BY <1>5, <2>1
    <2>3. left \in lo..m - 1 /\ v \in lo..m - 1 /\ v \in lo..h - 1 /\ v \in 0..Size - 1
      BY <1>5, <1>7, <2>2
    <2>4. \A q \in left + 1..m - 1 : Before(v, order[q])
      BY <1>5, <2>3 DEF Run
    <2>5. ASSUME NEW q \in right..h - 1  PROVE Before(v, order[q])
      <3>1. right \in m..h - 1 /\ q \in m..h - 1 /\ ~(Key(order[right]) < Key(v))
        BY <1>5, <2>1, <2>5
      <3>2. q = right \/ Before(order[right], order[q])
        BY <1>5, <3>1 DEF Run
      <3>3. Key(v) \in Int /\ Key(order[right]) \in Int /\ Key(order[q]) \in Int
        BY <1>5, <1>7, <2>3, <3>1, KeysAreInts
      <3>4. order[q] \in m..h - 1 /\ v < order[q]
        BY <1>5, <1>7, <2>3, <3>1
      <3> QED
        BY <3>1, <3>2, <3>3, <3>4 DEF Before
    <2> HIDE DEF v
    <2>6. Merging([spare EXCEPT ![k] = v], k + 1, left + 1, right, m, h) /\ [spare EXCEPT ![k] = v] \in [0..Size - 1 -> Int]
      <3>1. v = order[left] /\ right = right
        BY DEF v
      <3> QED
        BY <1>5, <2>2, <2>3, <2>4, <2>5, <3>1, Written
    <2>7. spare' = [spare EXCEPT ![k] = v] /\ left' = left + 1 /\ right' = right
      BY <1>4, <1>9 DEF Merge, v
    <2> QED
      BY <2>6, <2>7
  <1>10. /\ Merging(spare', k + 1, left', right', m, h) /\ spare' \in [0..Size - 1 -> Int]
         /\ \E v : spare' = [spare EXCEPT ![k] = v]
    BY <1>8, <1>9
  <1>11. left' \in lo..m /\ right' \in m..h /\ k + 1 = left' + right' - m
    BY <1>10 DEF Merging
  <1>12. Out' = k + 1
    BY <1>6, <1>11 DEF Out
  <1>13. SortTypes'
    <2>1. left' \in Nat /\ right' \in Nat
      BY <1>5, <1>11
    <2> QED
      BY <1>1, <1>5, <1>6, <1>10, <2>1 DEF SortTypes
  <1>14. RunsSorted'
    BY <1>1, <1>6 DEF SortInv, RunsSorted, Run, Before, Key
  <1>15. PairsSorted'
    <2> SUFFICES ASSUME NEW s \in Starts(2 * width), s < lo  PROVE Run(spare, s, Lesser(s + 2 * width, Size))'
      BY <1>1 DEF PairsSorted
    <2>1. width \in Nat \ {0} /\ lo \in Starts(2 * width) /\ lo < Size
      BY <1>1 DEF SortInv, SortTypes
    <2>2. s \in Nat /\ s + 2 * width <= lo
      BY <2>1, StartsApart, StartsDouble
    <2> DEFINE e == Lesser(s + 2 * width, Size)
    <2>3. e \in Nat /\ e <= lo /\ lo <= k
      BY <1>5, <2>1, <2>2 DEF Lesser
    <2>4. Run(spare, s, e)
      BY <1>1 DEF SortInv, PairsSorted
    <2>5. e' = e
      BY <1>1, <1>6 DEF Lesser
    <2> HIDE DEF e
    <2>6. \A p \in s..e - 1 : spare'[p] = spare[p]
      <3> SUFFICES ASSUME NEW p \in s..e - 1  PROVE spare'[p] = spare[p]
        OBVIOUS
      <3>1. p # k /\ p \in 0..Size - 1
        BY <1>5, <2>1, <2>2, <2>3
      <3> QED
        BY <3>1, <1>5, <1>10 DEF SortTypes
    <2>7. /\ \A p \in s..e - 1 : spare'[p] \in s..e - 1
          /\ \A p, q \in s..e - 1 : p < q => Before(spare'[p], spare'[q])
      BY <2>4, <2>6 DEF Run
    <2> QED
      BY <1>1, <2>5, <2>7 DEF Run, Before, Key, e
  <1>16. Merging(spare, Out, left, right, Mid, Hi)'
    <2>1. /\ \A p \in lo..(k + 1) - 1 : spare'[p] \in lo..h - 1
          /\ \A p, q \in lo..(k + 1) - 1 : p < q => Before(spare'[p], spare'[q])
          /\ Ahead(spare', k + 1, left', m) /\ Ahead(spare', k + 1, right', h)
      BY <1>10 DEF Merging
    <2>3. /\ \A p \in lo'..Out' - 1 : spare'[p] \in lo'..Hi' - 1
          /\ \A p, q \in lo'..Out' - 1 : p < q => Before(spare[p], spare[q])'
      BY <1>1, <1>6, <1>12, <2>1 DEF Before, Key
    <2>4. Ahead(spare, Out, left, Mid)' /\ Ahead(spare, Out, right, Hi)'
      BY <1>1, <1>6, <1>12, <2>1 DEF Ahead, Before, Key
    <2>5. left' \in lo'..Mid' /\ right' \in Mid'..Hi' /\ Out' = left' + right' - Mid'
      BY <1>1, <1>6, <1>11, <1>12
    <2> QED
      BY <2>3, <2>4, <2>5 DEF Merging
  <1> QED
    BY <1>1, <1>5, <1>6, <1>13, <1>14, <1>15, <1>16 DEF SortInv

\* A pair that is merged completely is a sorted run.
LEMMA PairDone ==
  ASSUME SortInv, ~Sorted, Out = Hi
  PROVE  Run(spare, lo, Hi) /\ Hi = Lesser(lo + 2 * width, Size)
  BY DEF SortInv, Merging, Run, Hi

\* The places of the next pair: nothing of it is written yet.
LEMMA FromInv ==
  ASSUME NEW at \in Nat, NEW w \in Nat \ {0}, From(at, w), width' = w, SortTypes, keys' = keys, at < Size
  PROVE  /\ Merging(spare, Out, left, right, Mid, Hi)'
         /\ lo' = at /\ left' \in Nat /\ right' \in Nat
  <1>1. Size \in Nat /\ Size' = Size
    BY LenProperties DEF SortTypes, Size
  <1>2. lo' = at /\ left' = at /\ right' = Lesser(at + w, Size)
    BY DEF From
  <1>3. Mid' = right' /\ Mid' \in Nat /\ Hi' \in Nat /\ at <= Mid' /\ Mid' <= Hi'
    BY <1>1, <1>2 DEF Mid, Hi, Lesser
  <1>4. Out' = at
    BY <1>2, <1>3 DEF Out
  <1> QED
    <2>1. \A p \in lo'..Out' - 1 : FALSE
      BY <1>2, <1>4
    <2>2. left' \in lo'..Mid' /\ right' \in Mid'..Hi' /\ Out' = left' + right' - Mid'
      BY <1>2, <1>3 DEF Out
    <2>3. Merging(spare, Out, left, right, Mid, Hi)'
      BY <2>1, <2>2 DEF Merging, Ahead
    <2> QED
      BY <1>2, <1>3, <2>3

\* On to the next two runs.
LEMMA NextRunsInv ==
  ASSUME SortInv, NextRuns
  PROVE  SortInv'
  <1>1. /\ ~Sorted /\ Out = Hi /\ lo + 2 * width < Size /\ From(lo + 2 * width, width)
        /\ keys' = keys /\ order' = order /\ spare' = spare /\ width' = width
    BY DEF NextRuns
  <1>2. SortTypes /\ width \in Nat \ {0} /\ lo \in Nat /\ lo \in Starts(2 * width) /\ lo + 2 * width \in Nat
    BY <1>1 DEF SortInv, SortTypes
  <1>3. Size' = Size /\ (Sorted <=> Sorted')
    BY <1>1 DEF Size, Sorted
  <1>4. /\ Merging(spare, Out, left, right, Mid, Hi)'
        /\ lo' = lo + 2 * width /\ left' \in Nat /\ right' \in Nat
    BY <1>1, <1>2, FromInv
  <1>5. SortTypes'
    BY <1>1, <1>2, <1>3, <1>4 DEF SortTypes
  <1>6. RunsSorted'
    BY <1>1, <1>3 DEF SortInv, RunsSorted, Run, Before, Key
  <1>7. lo' \in Starts(2 * width') /\ lo' < Size'
    <2>1. 2 * width \in Nat \ {0}
      BY <1>2
    <2> QED
      BY <2>1, <1>1, <1>2, <1>3, <1>4, StartsDouble
  <1>8. PairsSorted'
    <2> SUFFICES ASSUME NEW s \in Starts(2 * width), s < lo + 2 * width  PROVE Run(spare, s, Lesser(s + 2 * width, Size))'
      BY <1>1, <1>4 DEF PairsSorted
    <2>1. s \in Nat /\ 2 * width \in Nat \ {0}
      BY <1>2, StartsDouble
    <2>2. s < lo \/ s = lo
      <3>1. ~(lo < s)
        <4>1. lo < s => lo + 2 * width <= s
          BY <1>2, <2>1, StartsApart
        <4> QED
          BY <4>1, <1>2, <2>1
      <3> QED
        BY <3>1, <1>2, <2>1
    <2>3. Run(spare, s, Lesser(s + 2 * width, Size))
      BY <1>1, <2>2, PairDone DEF SortInv, PairsSorted
    <2> QED
      BY <1>1, <1>3, <2>3 DEF Run, Before, Key, Lesser
  <1> QED
    BY <1>4, <1>5, <1>6, <1>7, <1>8 DEF SortInv

\* On to the next pass: the pairs merged are its runs.
LEMMA NextPassInv ==
  ASSUME SortInv, NextPass
  PROVE  SortInv'
  <1>1. /\ ~Sorted /\ Out = Hi /\ lo + 2 * width >= Size /\ From(0, 2 * width)
        /\ keys' = keys /\ order' = spare /\ spare' = order /\ width' = 2 * width
    BY DEF NextPass
  <1>2. SortTypes /\ width \in Nat \ {0} /\ lo \in Nat /\ lo \in Starts(2 * width) /\ 2 * width \in Nat \ {0}
    BY <1>1 DEF SortInv, SortTypes
  <1>3. Size' = Size /\ Size \in Nat /\ 0 < Size
    BY <1>1, <1>2, LenProperties DEF Size, Sorted, SortTypes
  <1>4. /\ Merging(spare, Out, left, right, Mid, Hi)'
        /\ lo' = 0 /\ left' \in Nat /\ right' \in Nat
    BY <1>1, <1>2, <1>3, FromInv
  <1>5. SortTypes'
    BY <1>1, <1>2, <1>3, <1>4 DEF SortTypes
  <1>6. RunsSorted'
    <2> SUFFICES ASSUME NEW s \in Starts(2 * width), s < Size  PROVE Run(order, s, Lesser(s + width, Size))'
      BY <1>1, <1>3 DEF RunsSorted
    <2>1. s \in Nat
      BY <1>2, StartsDouble
    <2>2. s < lo \/ s = lo
      <3>1. ~(lo < s)
        <4>1. lo < s => lo + 2 * width <= s
          BY <1>2, StartsApart
        <4> QED
          BY <4>1, <1>1, <1>2, <1>3, <2>1
      <3> QED
        BY <3>1, <1>2, <2>1
    <2>3. Run(spare, s, Lesser(s + 2 * width, Size))
      BY <1>1, <2>2, PairDone DEF SortInv, PairsSorted
    <2> QED
      BY <1>1, <1>3, <2>3 DEF Run, Before, Key, Lesser
  <1>7. lo' \in Starts(2 * width') /\ lo' < Size' /\ PairsSorted'
    <2>1. 2 * (2 * width) \in Nat \ {0}
      BY <1>2
    <2>2. 0 \in Starts(2 * (2 * width)) /\ \A s \in Starts(2 * (2 * width)) : s \in Nat
      BY <2>1, StartsDouble
    <2> QED
      BY <2>2, <1>1, <1>3, <1>4 DEF PairsSorted
  <1> QED
    BY <1>4, <1>5, <1>6, <1>7 DEF SortInv

\* Every position alone is a sorted run.
LEMMA InitSortInv == SortInit => SortInv
  <1> SUFFICES ASSUME SortInit  PROVE SortInv
    OBVIOUS
  <1>1. keys \in Seq(Int) /\ Size \in Nat
    BY KeyListsAssumption, LenProperties DEF SortInit, Size
  <1>2. /\ order = [p \in 0..Size - 1 |-> p] /\ spare = [p \in 0..Size - 1 |-> Unwritten]
        /\ width = 1 /\ lo = 0 /\ left = 0 /\ right = Lesser(1, Size)
    BY DEF SortInit
  <1>3. SortTypes
    BY <1>1, <1>2 DEF SortTypes, Unwritten, Lesser
  <1>4. RunsSorted
    <2> SUFFICES ASSUME NEW s \in Starts(1), s < Size  PROVE Run(order, s, Lesser(s + 1, Size))
      BY <1>2 DEF RunsSorted
    <2>1. s \in Nat
      BY StartsDouble
    <2>2. Lesser(s + 1, Size) = s + 1 /\ \A p \in s..(s + 1) - 1 : p = s
      BY <1>1, <2>1 DEF Lesser
    <2> QED
      BY <1>1, <1>2, <2>1, <2>2 DEF Run
  <1>5. ASSUME ~Sorted
        PROVE  lo \in Starts(2 * width) /\ lo < Size /\ PairsSorted /\ Merging(spare, Out, left, right, Mid, Hi)
    <2>1. 1 < Size
      BY <1>1, <1>2, <1>5 DEF Sorted
    <2>2. 0 \in Starts(2) /\ \A s \in Starts(2) : s \in Nat
      BY StartsDouble
    <2>3. Mid = 1 /\ Hi = 2 /\ right = 1 /\ Out = 0
      BY <1>1, <1>2, <2>1 DEF Mid, Hi, Lesser, Out
    <2>4. Merging(spare, Out, left, right, Mid, Hi)
      BY <1>2, <2>3 DEF Merging, Ahead
    <2> QED
      <3>1. 2 * width = 2 /\ lo = 0
        BY <1>2
      <3>2. PairsSorted
        BY <2>2, <3>1 DEF PairsSorted
      <3>3. lo \in Starts(2 * width)
        BY <2>2, <3>1, Zenon
      <3>4. lo < Size
        BY <1>1, <2>1, <3>1
      <3> QED
        BY <2>4, <3>2, <3>3, <3>4
  <1> QED
    BY <1>3, <1>4, <1>5 DEF SortInv

\* The inductive invariant of the sort.
THEOREM SortInductive == SortSpec => []SortInv
  <1>1. SortInv /\ [SortNext]_sortVars => SortInv'
    <2> SUFFICES ASSUME SortInv, [SortNext]_sortVars  PROVE SortInv'
      OBVIOUS
    <2>1. CASE Merge
      BY <2>1, MergeInv
    <2>2. CASE NextRuns
      BY <2>2, NextRunsInv
    <2>3. CASE NextPass
      BY <2>3, NextPassInv
    <2>4. CASE UNCHANGED sortVars
      <3>1. /\ Size' = Size /\ Mid' = Mid /\ Hi' = Hi /\ Out' = Out /\ Sorted' = Sorted
        BY <2>4 DEF sortVars, Size, Mid, Hi, Out, Sorted, Lesser
      <3> QED
        BY <2>4, <3>1 DEF sortVars, SortInv, SortTypes, RunsSorted, PairsSorted, Merging, Ahead, Run, Before, Key, Lesser
    <2> QED
      BY <2>1, <2>2, <2>3, <2>4 DEF SortNext
  <1> QED
    BY <1>1, InitSortInv, PTL DEF SortSpec

\* Whatever the keys are and however many, mi_list_sort_keyed finds the order
\* of a stable sort and loses no element.
THEOREM SortIsStable == SortSpec => []SortedStably
  <1>1. SortInv => SortedStably
    <2> SUFFICES ASSUME SortInv, Sorted
                 PROVE  /\ \A p \in 0..Size - 1 : order[p] \in 0..Size - 1
                        /\ \A p, q \in 0..Size - 1 : p < q => Before(order[p], order[q])
      BY DEF SortedStably
    <2>1. Size \in Nat /\ width \in Nat \ {0} /\ width >= Size
      BY LenProperties DEF SortInv, SortTypes, Size, Sorted
    <2>2. CASE Size = 0
      BY <2>2
    <2>3. CASE Size > 0
      <3>1. Lesser(0 + width, Size) = Size
        BY <2>1 DEF Lesser
      <3>2. 0 \in Starts(width)
        BY <2>1, StartsDouble
      <3>3. Run(order, 0, Size)
        BY <2>3, <3>1, <3>2 DEF SortInv, RunsSorted
      <3> QED
        BY <3>3 DEF Run
    <2> QED
      BY <2>1, <2>2, <2>3
  <1> QED
    BY <1>1, SortInductive, PTL

\* Every step of the sort goes on to a longer width, while that is shorter than
\* the list, or to a later pair of runs in it, or writes one more position of the
\* pair: it ends, after finitely many of each.
THEOREM SortEnds ==
  SortSpec => [][\/ width < width' /\ width < Size
                 \/ width' = width /\ lo < lo' /\ lo' < Size
                 \/ width' = width /\ lo' = lo /\ Out' = Out + 1 /\ Out' <= Size]_sortVars
  <1>1. ASSUME SortInv, SortNext
        PROVE  \/ width < width' /\ width < Size
               \/ width' = width /\ lo < lo' /\ lo' < Size
               \/ width' = width /\ lo' = lo /\ Out' = Out + 1 /\ Out' <= Size
    <2>1. /\ Size \in Nat /\ width \in Nat \ {0} /\ lo \in Nat /\ left \in Nat /\ right \in Nat
          /\ Mid \in Nat /\ Hi \in Nat /\ Hi <= Size
      BY <1>1, LenProperties DEF SortInv, SortTypes, Size, Mid, Hi, Lesser
    <2>2. CASE Merge
      <3>1. width' = width /\ lo' = lo /\ Size' = Size /\ left' + right' = left + right + 1
            /\ ~Sorted /\ Out < Hi
        BY <2>1, <2>2 DEF Merge, Size
      <3>2. Mid' = Mid
        BY <3>1 DEF Mid, Lesser
      <3>3. left' \in Nat /\ right' \in Nat
        BY <2>1, <2>2 DEF Merge
      <3>4. Out' = Out + 1 /\ Out \in Int
        <4>1. Out = left + right - Mid /\ Out' = left' + right' - Mid'
          BY DEF Out
        <4>2. PICK l \in Nat, r \in Nat, m \in Nat : l = left /\ r = right /\ m = Mid
          BY <2>1
        <4>3. PICK i \in Nat, j \in Nat : i = left' /\ j = right'
          BY <3>3
        <4>4. i + j = l + r + 1 /\ Out = l + r - m /\ Out' = i + j - m
          BY <3>1, <3>2, <4>1, <4>2, <4>3
        <4> QED
          BY <4>4
      <3> QED
        BY <2>1, <3>1, <3>4
    <2>3. CASE NextRuns
      BY <2>1, <2>3 DEF NextRuns, From
    <2>4. CASE NextPass
      BY <2>1, <2>4 DEF NextPass, Sorted
    <2> QED
      BY <1>1, <2>2, <2>3, <2>4 DEF SortNext
  <1> QED
    BY <1>1, SortInductive, PTL DEF SortSpec

-----------------------------------------------------------------------------
(* The scans of a text.  What has been written out ends where the last match *)
(* does, and every match that begins before `start` has been dealt with.        *)
Span == [from : Nat, to : Nat]
ScanTypes ==
  /\ loop \in {"find_all", "replace", "split_re"} /\ over \in BOOLEAN
  /\ chars \in Nat /\ ends \in Matchers(chars)
  /\ start \in 0..chars + 1 /\ last \in 0..chars /\ last <= start
  /\ hits \in Seq(Span) /\ pieces \in Seq(Span)
WrittenOut == loop # "find_all" => last = IF hits = << >> THEN 0 ELSE hits[Len(hits)].to
HitsBehind == \A i \in DOMAIN hits : hits[i].to <= start /\ hits[i].from < start
Passed == \A p \in 0..chars : (p < start \/ over) /\ ends[p] # NoMatch => Covered(p)
ScanInv == ScanTypes /\ WrittenOut /\ HitsBehind /\ HitsInOrder /\ PiecesBetween /\ Passed

\* Where the pattern matches, the match ends in the text and not before it begins.
LEMMA MatchInText ==
  ASSUME chars \in Nat, ends \in Matchers(chars), NEW p \in 0..chars
  PROVE  /\ ends[p] = NoMatch \/ ends[p] \in p..chars
         /\ ends[p] # NoMatch => ends[p] \in Nat /\ p <= ends[p] /\ ends[p] <= chars
  BY DEF Matchers, NoMatch

\* One more match at the end of those found: all are still in order.
LEMMA HitInOrder ==
  ASSUME ScanInv, NEW p \in Nat, Search(p), Hit(p), UNCHANGED << loop, chars, ends >>,
         loop = "split_re" => p < ends[p]
  PROVE  /\ p <= chars /\ start <= p /\ p <= ends[p] /\ ends[p] <= chars /\ ends[p] \in Nat
         /\ hits' \in Seq(Span) /\ Len(hits') = Len(hits) + 1 /\ Len(hits) \in Nat
         /\ \A i \in 1..Len(hits) : hits'[i] = hits[i]
         /\ hits'[Len(hits) + 1] = Piece(p, ends[p])
         /\ HitsInOrder'
  <1>1. p \in 0..chars /\ start <= p /\ start \in Nat /\ chars \in Nat /\ ends[p] # NoMatch
    BY DEF ScanInv, ScanTypes, Search
  <1>2. ends[p] \in Nat /\ p <= ends[p] /\ ends[p] <= chars
    BY <1>1, MatchInText DEF ScanInv, ScanTypes
  <1>3. Piece(p, ends[p]) \in Span
    BY <1>1, <1>2 DEF Piece, Span
  <1>4. hits \in Seq(Span) /\ Len(hits) \in Nat
    BY LenProperties DEF ScanInv, ScanTypes
  <1>5. /\ hits' \in Seq(Span) /\ Len(hits') = Len(hits) + 1
        /\ \A i \in 1..Len(hits) : hits'[i] = hits[i]
        /\ hits'[Len(hits) + 1] = Piece(p, ends[p])
    BY <1>3, <1>4, AppendProperties DEF Hit
  <1>6. DOMAIN hits = 1..Len(hits) /\ DOMAIN hits' = 1..Len(hits) + 1
    BY <1>4, <1>5, LenProperties
  <1>7. Piece(p, ends[p]).from = p /\ Piece(p, ends[p]).to = ends[p]
    BY DEF Piece
  <1>8. \A i \in 1..Len(hits) : hits[i].from \in Nat /\ hits[i].to \in Nat /\ hits[i].to <= p /\ hits[i].from < p
    <2> SUFFICES ASSUME NEW i \in 1..Len(hits)
                 PROVE  hits[i].from \in Nat /\ hits[i].to \in Nat /\ hits[i].to <= p /\ hits[i].from < p
      OBVIOUS
    <2>1. hits[i] \in Span
      BY <1>4, ElementOfSeq
    <2> QED
      BY <1>1, <1>6, <2>1 DEF ScanInv, HitsBehind, Span
  <1>9. \A i \in DOMAIN hits' : /\ hits'[i].from \in 0..chars /\ hits'[i].to = ends[hits'[i].from]
                                /\ hits'[i].from <= hits'[i].to
                                /\ loop = "split_re" => hits'[i].from < hits'[i].to
    <2> SUFFICES ASSUME NEW i \in 1..Len(hits) + 1
                 PROVE  /\ hits'[i].from \in 0..chars /\ hits'[i].to = ends[hits'[i].from]
                        /\ hits'[i].from <= hits'[i].to
                        /\ loop = "split_re" => hits'[i].from < hits'[i].to
      BY <1>6
    <2>1. CASE i \in 1..Len(hits)
      BY <2>1, <1>5, <1>6 DEF ScanInv, HitsInOrder
    <2>2. CASE i = Len(hits) + 1
      BY <2>2, <1>1, <1>2, <1>5, <1>7
    <2> QED
      BY <1>4, <2>1, <2>2
  <1>10. \A i, j \in DOMAIN hits' : i < j => hits'[i].to <= hits'[j].from /\ hits'[i].from < hits'[j].from
    <2> SUFFICES ASSUME NEW i \in 1..Len(hits) + 1, NEW j \in 1..Len(hits) + 1, i < j
                 PROVE  hits'[i].to <= hits'[j].from /\ hits'[i].from < hits'[j].from
      BY <1>6
    <2>1. i \in 1..Len(hits) /\ hits'[i] = hits[i]
      BY <1>4, <1>5
    <2>2. CASE j \in 1..Len(hits)
      BY <2>1, <2>2, <1>5, <1>6 DEF ScanInv, HitsInOrder
    <2>3. CASE j = Len(hits) + 1
      BY <2>1, <2>3, <1>5, <1>7, <1>8
    <2> QED
      BY <1>4, <2>2, <2>3
  <1> QED
    BY <1>1, <1>2, <1>4, <1>5, <1>9, <1>10 DEF HitsInOrder

\* A match is passed when the scan goes on behind it: nothing before the new
\* place is missed.
LEMMA HitPassed ==
  ASSUME ScanInv, NEW p \in Nat, Search(p), Hit(p), UNCHANGED << loop, chars, ends, over >>,
         loop = "split_re" => p < ends[p],
         start' = Further(p)
  PROVE  HitsBehind' /\ Passed' /\ start' \in p + 1..chars + 1 /\ ends[p] <= start'
  <1>1. /\ p <= chars /\ start <= p /\ p <= ends[p] /\ ends[p] <= chars /\ ends[p] \in Nat
        /\ hits' \in Seq(Span) /\ Len(hits') = Len(hits) + 1 /\ Len(hits) \in Nat
        /\ \A i \in 1..Len(hits) : hits'[i] = hits[i]
        /\ hits'[Len(hits) + 1] = Piece(p, ends[p])
        /\ HitsInOrder'
    BY HitInOrder
  <1>2. chars \in Nat /\ start \in Nat
    BY DEF ScanInv, ScanTypes
  <1>3. /\ start' \in p + 1..chars + 1 /\ ends[p] <= start'
        /\ \A q \in Nat : q < start' => q <= p \/ q < ends[p]
    BY <1>1, <1>2 DEF Further
  <1>4. DOMAIN hits = 1..Len(hits) /\ DOMAIN hits' = 1..Len(hits) + 1
    BY <1>1, LenProperties DEF ScanInv, ScanTypes
  <1>5. Piece(p, ends[p]).from = p /\ Piece(p, ends[p]).to = ends[p]
    BY DEF Piece
  <1>6. HitsBehind'
    <2> SUFFICES ASSUME NEW i \in 1..Len(hits) + 1
                 PROVE  hits'[i].to <= start' /\ hits'[i].from < start'
      BY <1>4 DEF HitsBehind
    <2>1. CASE i \in 1..Len(hits)
      <3>1. hits[i] \in Span
        BY <2>1, ElementOfSeq DEF ScanInv, ScanTypes
      <3>2. hits[i].from \in Nat /\ hits[i].to \in Nat
        BY <3>1 DEF Span
      <3>3. hits[i].to <= start /\ hits[i].from < start
        BY <2>1, <1>4 DEF ScanInv, HitsBehind
      <3> QED
        BY <2>1, <3>2, <3>3, <1>1, <1>2, <1>3, SMTT(40)
    <2>2. CASE i = Len(hits) + 1
      BY <2>2, <1>1, <1>3, <1>5
    <2> QED
      BY <1>1, <2>1, <2>2
  <1>7. Passed'
    <2> SUFFICES ASSUME NEW q \in 0..chars, q < start', ends[q] # NoMatch
                 PROVE  Covered(q)'
      BY DEF Passed, Search
    <2>1. CASE q < start
      <3>1. Covered(q)
        BY <2>1 DEF ScanInv, Passed
      <3> QED
        BY <3>1, <1>1, <1>4 DEF Covered
    <2>2. CASE start <= q /\ q < p
      BY <2>2, <1>2 DEF Search
    <2>3. CASE q = p
      BY <2>3, <1>1, <1>4, <1>5 DEF Covered
    <2>4. CASE p < q
      <3>1. q < ends[p]
        BY <2>4, <1>3
      <3> QED
        BY <2>4, <3>1, <1>1, <1>4, <1>5 DEF Covered
    <2> QED
      BY <1>2, <2>1, <2>2, <2>3, <2>4
  <1> QED
    BY <1>3, <1>6, <1>7

\* What is taken over up to a match fits between it and the match before.
LEMMA PieceKept ==
  ASSUME ScanInv, NEW p \in Nat, Search(p), Hit(p), Keep(p), UNCHANGED << loop, chars, ends, over >>,
         loop = "split_re" => p < ends[p], loop # "find_all"
  PROVE  pieces' \in Seq(Span) /\ PiecesBetween' /\ WrittenOut' /\ last' \in 0..chars /\ last' = ends[p]
  <1>1. /\ p <= chars /\ start <= p /\ p <= ends[p] /\ ends[p] <= chars /\ ends[p] \in Nat
        /\ hits' \in Seq(Span) /\ Len(hits') = Len(hits) + 1 /\ Len(hits) \in Nat
        /\ \A i \in 1..Len(hits) : hits'[i] = hits[i]
        /\ hits'[Len(hits) + 1] = Piece(p, ends[p])
    BY HitInOrder
  <1>2. /\ chars \in Nat /\ start \in Nat /\ last \in Nat /\ last <= start
        /\ hits \in Seq(Span) /\ pieces \in Seq(Span) /\ ~over
    BY DEF ScanInv, ScanTypes, Search
  <1>3. Piece(last, p) \in Span /\ Piece(last, p).from = last /\ Piece(last, p).to = p
    BY <1>2 DEF Piece, Span
  <1>4. Len(pieces) = Len(hits)
    BY <1>2 DEF ScanInv, PiecesBetween
  <1>5. /\ pieces' \in Seq(Span) /\ Len(pieces') = Len(hits) + 1
        /\ \A i \in 1..Len(hits) : pieces'[i] = pieces[i]
        /\ pieces'[Len(hits) + 1] = Piece(last, p)
    BY <1>2, <1>3, <1>4, AppendProperties DEF Keep
  <1>6. DOMAIN pieces = 1..Len(hits) /\ DOMAIN pieces' = 1..Len(hits) + 1
    BY <1>2, <1>4, <1>5, LenProperties
  <1>7. Piece(p, ends[p]).from = p /\ Piece(p, ends[p]).to = ends[p]
    BY DEF Piece
  <1>8. last = IF Len(hits) = 0 THEN 0 ELSE hits[Len(hits)].to
    BY <1>2, EmptySeq, LenProperties DEF ScanInv, WrittenOut
  <1>9. \A i \in 1..Len(hits) + 1 :
          /\ pieces'[i].from = IF i = 1 THEN 0 ELSE hits'[i - 1].to
          /\ pieces'[i].to = IF i <= Len(hits) + 1 THEN hits'[i].from ELSE chars
          /\ pieces'[i].from <= pieces'[i].to
    <2> SUFFICES ASSUME NEW i \in 1..Len(hits) + 1
                 PROVE  /\ pieces'[i].from = IF i = 1 THEN 0 ELSE hits'[i - 1].to
                        /\ pieces'[i].to = hits'[i].from
                        /\ pieces'[i].from <= pieces'[i].to
      BY <1>1
    <2>1. CASE i \in 1..Len(hits)
      <3>1. /\ pieces[i].from = IF i = 1 THEN 0 ELSE hits[i - 1].to
            /\ pieces[i].to = hits[i].from
            /\ pieces[i].from <= pieces[i].to
        BY <2>1, <1>1, <1>2, <1>6, SMTT(40) DEF ScanInv, PiecesBetween
      <3>2. i # 1 => i - 1 \in 1..Len(hits)
        BY <2>1, <1>1
      <3> QED
        BY <2>1, <3>1, <3>2, <1>1, <1>5
    <2>2. CASE i = Len(hits) + 1
      <3>1. i # 1 => i - 1 = Len(hits) /\ Len(hits) \in 1..Len(hits)
        BY <2>2, <1>1
      <3> QED
        BY <2>2, <3>1, <1>1, <1>2, <1>3, <1>5, <1>7, <1>8
    <2> QED
      BY <1>1, <2>1, <2>2
  <1>10. PiecesBetween'
    BY <1>1, <1>2, <1>5, <1>6, <1>9 DEF PiecesBetween
  <1>11. WrittenOut' /\ last' = ends[p]
    <2>1. hits' # << >>
      BY <1>1, EmptySeq
    <2> QED
      BY <2>1, <1>1, <1>7 DEF WrittenOut, Keep
  <1> QED
    BY <1>1, <1>5, <1>10, <1>11

LEMMA FindAllInv ==
  ASSUME ScanInv, NEW p \in Nat, find_all(p)
  PROVE  ScanInv'
  <1>1. Search(p) /\ Hit(p) /\ loop = "find_all" /\ start' = Further(p) /\ UNCHANGED << loop, chars, ends, last, pieces, over >>
    BY DEF find_all
  <1>2. HitsInOrder' /\ hits' \in Seq(Span) /\ start <= p
    BY <1>1, HitInOrder
  <1>3. HitsBehind' /\ Passed' /\ start' \in p + 1..chars + 1
    BY <1>1, HitPassed
  <1>4. ScanTypes'
    BY <1>1, <1>2, <1>3 DEF ScanInv, ScanTypes
  <1>5. PiecesBetween' /\ WrittenOut'
    BY <1>1 DEF PiecesBetween, WrittenOut
  <1> QED
    BY <1>2, <1>3, <1>4, <1>5 DEF ScanInv

LEMMA ReplaceInv ==
  ASSUME ScanInv, NEW p \in Nat, replace(p)
  PROVE  ScanInv'
  <1>1. /\ Search(p) /\ Hit(p) /\ Keep(p) /\ loop = "replace" /\ start' = Further(p)
        /\ UNCHANGED << loop, chars, ends, over >>
    BY DEF replace
  <1>2. HitsInOrder' /\ hits' \in Seq(Span) /\ start <= p
    BY <1>1, HitInOrder
  <1>3. HitsBehind' /\ Passed' /\ start' \in p + 1..chars + 1 /\ ends[p] <= start'
    BY <1>1, HitPassed
  <1>4. pieces' \in Seq(Span) /\ PiecesBetween' /\ WrittenOut' /\ last' \in 0..chars /\ last' = ends[p]
    BY <1>1, PieceKept
  <1>5. ScanTypes'
    BY <1>1, <1>2, <1>3, <1>4 DEF ScanInv, ScanTypes
  <1> QED
    BY <1>2, <1>3, <1>4, <1>5 DEF ScanInv

LEMMA SplitInv ==
  ASSUME ScanInv, NEW p \in Nat, split_re(p)
  PROVE  ScanInv'
  <1>1. Search(p) /\ loop = "split_re" /\ UNCHANGED << loop, chars, ends, over >>
    BY DEF split_re
  <1>2. /\ p \in 0..chars /\ start <= p /\ start \in Nat /\ chars \in Nat /\ ends[p] # NoMatch
        /\ \A q \in start..p - 1 : ends[q] = NoMatch
    BY <1>1 DEF ScanInv, ScanTypes, Search
  <1>3. p <= ends[p] /\ ends[p] \in Nat
    BY <1>2, MatchInText DEF ScanInv, ScanTypes
  <1>4. CASE ends[p] = p
    <2>1. start' = p + 1 /\ UNCHANGED << hits, pieces, last >>
      BY <1>4 DEF split_re
    <2>2. ScanTypes'
      BY <1>1, <1>2, <2>1 DEF ScanInv, ScanTypes
    <2>3. HitsInOrder' /\ PiecesBetween' /\ WrittenOut'
      BY <1>1, <2>1 DEF ScanInv, HitsInOrder, PiecesBetween, WrittenOut
    <2>4. HitsBehind'
      <3> SUFFICES ASSUME NEW i \in DOMAIN hits
                   PROVE  hits[i].to <= start' /\ hits[i].from < start'
        BY <2>1 DEF HitsBehind
      <3>1. hits[i] \in Span /\ hits[i].to <= start /\ hits[i].from < start
        BY ElementOfSeq, LenProperties DEF ScanInv, ScanTypes, HitsBehind
      <3> QED
        BY <1>2, <2>1, <3>1 DEF Span
    <2>5. Passed'
      <3> SUFFICES ASSUME NEW q \in 0..chars, q < start', ends[q] # NoMatch
                   PROVE  Covered(q)'
        BY <1>1 DEF Passed, Search
      <3>1. CASE q < start
        BY <3>1, <1>1, <2>1 DEF ScanInv, Passed, Covered
      <3>2. CASE start <= q /\ q < p
        BY <3>2, <1>2
      <3>3. CASE q = p
        BY <3>3, <1>1, <1>4 DEF Covered
      <3> QED
        BY <1>2, <2>1, <3>1, <3>2, <3>3
    <2> QED
      BY <2>2, <2>3, <2>4, <2>5 DEF ScanInv
  <1>5. CASE ends[p] # p
    <2>1. Keep(p) /\ Hit(p) /\ start' = Further(p) /\ p < ends[p]
      BY <1>2, <1>3, <1>5 DEF split_re, Further
    <2>2. HitsInOrder' /\ hits' \in Seq(Span) /\ start <= p
      BY <1>1, <1>2, <2>1, HitInOrder
    <2>3. HitsBehind' /\ Passed' /\ start' \in p + 1..chars + 1 /\ ends[p] <= start'
      BY <1>1, <1>2, <2>1, HitPassed
    <2>4. pieces' \in Seq(Span) /\ PiecesBetween' /\ WrittenOut' /\ last' \in 0..chars /\ last' = ends[p]
      BY <1>1, <2>1, PieceKept
    <2>5. ScanTypes'
      BY <1>1, <1>2, <2>2, <2>3, <2>4 DEF ScanInv, ScanTypes
    <2> QED
      BY <2>2, <2>3, <2>4, <2>5 DEF ScanInv
  <1> QED
    BY <1>4, <1>5

\* The last piece goes from the last match to the end of the text.
LEMMA RestInv ==
  ASSUME ScanInv, Rest
  PROVE  ScanInv'
  <1>1. /\ ~over /\ over' = TRUE /\ UNCHANGED << loop, chars, ends, start, last, hits >>
        /\ \A q \in start..chars : ends[q] = NoMatch
    BY DEF Rest
  <1>2. /\ chars \in Nat /\ start \in Nat /\ last \in 0..chars
        /\ hits \in Seq(Span) /\ pieces \in Seq(Span) /\ Len(hits) \in Nat /\ Len(pieces) \in Nat
    BY LenProperties DEF ScanInv, ScanTypes
  <1>3. HitsBehind' /\ HitsInOrder' /\ WrittenOut'
    BY <1>1 DEF ScanInv, HitsBehind, HitsInOrder, WrittenOut
  <1>4. Passed'
    <2> SUFFICES ASSUME NEW q \in 0..chars, ends[q] # NoMatch
                 PROVE  Covered(q)'
      BY <1>1 DEF Passed
    <2>1. q < start
      BY <1>1, <1>2
    <2> QED
      BY <1>1, <2>1 DEF ScanInv, Passed, Covered
  <1>5. pieces' \in Seq(Span) /\ PiecesBetween'
    <2>1. CASE loop = "find_all"
      BY <2>1, <1>1, <1>2 DEF Rest, PiecesBetween
    <2>2. CASE loop # "find_all"
      <3>1. Piece(last, chars) \in Span /\ Piece(last, chars).from = last /\ Piece(last, chars).to = chars
        BY <1>2 DEF Piece, Span
      <3>2. Len(pieces) = Len(hits)
        BY <2>2, <1>1 DEF ScanInv, PiecesBetween
      <3>3. /\ pieces' \in Seq(Span) /\ Len(pieces') = Len(hits) + 1
            /\ \A i \in 1..Len(hits) : pieces'[i] = pieces[i]
            /\ pieces'[Len(hits) + 1] = Piece(last, chars)
        BY <2>2, <3>1, <3>2, <1>2, AppendProperties DEF Rest
      <3>4. DOMAIN pieces = 1..Len(hits) /\ DOMAIN pieces' = 1..Len(hits) + 1
        BY <3>2, <3>3, <1>2, LenProperties
      <3>5. last = IF Len(hits) = 0 THEN 0 ELSE hits[Len(hits)].to
        BY <2>2, <1>2, EmptySeq, LenProperties DEF ScanInv, WrittenOut
      <3>6. \A i \in 1..Len(hits) + 1 :
              /\ pieces'[i].from = IF i = 1 THEN 0 ELSE hits[i - 1].to
              /\ pieces'[i].to = IF i <= Len(hits) THEN hits[i].from ELSE chars
              /\ pieces'[i].from <= pieces'[i].to
        <4> TAKE i \in 1..Len(hits) + 1
        <4>1. CASE i \in 1..Len(hits)
          BY <4>1, <2>2, <3>3, <3>4, <1>1 DEF ScanInv, PiecesBetween
        <4>2. CASE i = Len(hits) + 1
          BY <4>2, <3>1, <3>3, <3>5, <1>2
        <4> QED
          BY <1>2, <4>1, <4>2
      <3> QED
        BY <3>3, <3>4, <3>6, <1>1 DEF PiecesBetween
    <2> QED
      BY <2>1, <2>2
  <1>6. ScanTypes'
    BY <1>1, <1>5 DEF ScanInv, ScanTypes
  <1> QED
    BY <1>3, <1>4, <1>5, <1>6 DEF ScanInv

LEMMA InitScanInv == ScanInit => ScanInv
  <1> SUFFICES ASSUME ScanInit  PROVE ScanInv
    OBVIOUS
  <1>1. /\ chars \in Nat /\ ends \in Matchers(chars) /\ loop \in {"find_all", "replace", "split_re"}
        /\ start = 0 /\ last = 0 /\ over = FALSE /\ hits = << >> /\ pieces = << >>
    BY LengthsAssumption DEF ScanInit
  <1>2. << >> \in Seq(Span) /\ Len(<< >>) = 0 /\ DOMAIN << >> = {}
    BY EmptySeq
  <1>3. ScanTypes
    <2>1. hits \in Seq(Span) /\ pieces \in Seq(Span)
      BY <1>1, <1>2
    <2>2. start \in 0..chars + 1 /\ last \in 0..chars /\ last <= start
      BY <1>1
    <2> QED
      BY <1>1, <2>1, <2>2 DEF ScanTypes
  <1>4. DOMAIN hits = {} /\ DOMAIN pieces = {} /\ Len(hits) = 0 /\ Len(pieces) = 0
    BY <1>1, <1>2
  <1>5. WrittenOut
    BY <1>1 DEF WrittenOut
  <1>6. HitsBehind /\ HitsInOrder
    BY <1>4 DEF HitsBehind, HitsInOrder
  <1>7. PiecesBetween
    BY <1>1, <1>4 DEF PiecesBetween
  <1>8. Passed
    BY <1>1 DEF Passed
  <1> QED
    BY <1>3, <1>5, <1>6, <1>7, <1>8 DEF ScanInv

LEMMA NextScanInv == ScanInv /\ [ScanNext]_scanVars => ScanInv'
  <1> SUFFICES ASSUME ScanInv, [ScanNext]_scanVars  PROVE ScanInv'
    OBVIOUS
  <1>1. ASSUME NEW p \in 0..chars, find_all(p) \/ replace(p) \/ split_re(p)  PROVE ScanInv'
    <2>1. p \in Nat
      BY DEF ScanInv, ScanTypes
    <2> QED
      BY <1>1, <2>1, FindAllInv, ReplaceInv, SplitInv
  <1>2. CASE Rest
    BY <1>2, RestInv
  <1>3. CASE UNCHANGED scanVars
    BY <1>3 DEF scanVars, ScanInv, ScanTypes, WrittenOut, HitsBehind, HitsInOrder, PiecesBetween, Passed, Covered
  <1> QED
    BY <1>1, <1>2, <1>3 DEF ScanNext

\* ScanInv holds throughout: what was found and written out is what lies before `start`.
THEOREM ScanInductive == ScanSpec => []ScanInv
  BY InitScanInv, NextScanInv, PTL DEF ScanSpec

\* For every text and every pattern, find_all, split_re and replace find every
\* match that is not inside an earlier one, and the pieces with the matches
\* between them are the text.
THEOREM ScansKeepText == ScanSpec => []NothingRepeated
  <1>1. ScanInv => NothingRepeated
    BY DEF ScanInv, ScanTypes, NothingRepeated, NothingMissed, Passed
  <1> QED
    BY <1>1, ScanInductive, PTL

\* A round of a loop looks on further behind, or it is the last: at most one
\* round for each place of the text and one more.
THEOREM ScansEnd == ScanSpec => [][over' \/ start < start']_scanVars
  <1>1. ASSUME ScanInv, ScanNext  PROVE over' \/ start < start'
    <2>1. ASSUME NEW p \in 0..chars, find_all(p) \/ replace(p) \/ split_re(p)  PROVE start < start'
      <3>1. Search(p) /\ (start' = Further(p) \/ start' = p + 1 \/ (start' = ends[p] /\ ends[p] # p))
        BY <2>1 DEF find_all, replace, split_re
      <3>2. p \in 0..chars /\ start <= p /\ start \in Nat /\ chars \in Nat /\ ends[p] # NoMatch
        BY <1>1, <3>1 DEF ScanInv, ScanTypes, Search
      <3>3. p <= ends[p] /\ ends[p] \in Nat
        BY <1>1, <3>2, MatchInText DEF ScanInv, ScanTypes
      <3> QED
        BY <3>1, <3>2, <3>3 DEF Further
    <2>2. CASE Rest
      BY <2>2 DEF Rest
    <2> QED
      BY <1>1, <2>1, <2>2 DEF ScanNext
  <1> QED
    BY <1>1, ScanInductive, PTL DEF ScanSpec
=============================================================================
