-------------------------------- MODULE Dict --------------------------------
(***************************************************************************)
(* Dict, twice: compiled programs keep entries in the order they came and  *)
(* an index of slots that is probed one by one; the interpreter keeps a    *)
(* list of pairs it searches from the front.  The arrays of a compiled     *)
(* Dict live behind pointers: `entries` and `index` map the pointers to    *)
(* what they point at, so that a copy that shares an array shows.          *)
(***************************************************************************)
EXTENDS Integers, Sequences, FiniteSets, Functions

CONSTANTS Dicts,        \* variables of the program that hold a Dict
          Keys, Values,
          HashRange,    \* values the hash of a key may have
          FirstCap,     \* 8: entries the first time they are allocated
          FirstSlots,   \* 16: slots of the first index
          MaxLen,       \* bound: entries of one Dict
          MaxArrays     \* bound: arrays of entries
ASSUME DictAssumption ==
  /\ FirstCap \in Nat \ {0} /\ FirstSlots \in Nat \ {0} /\ MaxLen \in Nat
  /\ HashRange \subseteq Nat

VARIABLES hash,         \* FNV-1a of each key, any function here
          dict,         \* Dicts -> [arr, idx, len, cap, islots]
          entries,      \* pointer -> entries, as many as were allocated
          index,        \* pointer -> slots
          pairs         \* the interpreter's Dicts
dictVars == << hash, dict, entries, index, pairs >>

Null == 0
Empty == -1
Unused == << >>
Entry(k, v) == [key |-> k, val |-> v]

\* mi_dict_new
New == [arr |-> Null, idx |-> Null, len |-> 0, cap |-> 0, islots |-> 0]

DictInit ==
  /\ hash \in [Keys -> HashRange]
  /\ dict = [d \in Dicts |-> New]
  /\ entries = << >> /\ index = << >>
  /\ pairs = [d \in Dicts |-> << >>]

\* the slots from the hash of k on, in the order they are probed, up to the
\* first one in stops
Probe(k, slots, n) == (hash[k] + n) % slots
FirstProbe(k, slots, stops) ==
  CHOOSE n \in 0..(slots - 1) : /\ Probe(k, slots, n) \in stops
                                /\ \A m \in 0..(n - 1) : Probe(k, slots, m) \notin stops
SlotOf(k, slots, stops) == Probe(k, slots, FirstProbe(k, slots, stops))

FreeSlots(idx, slots) == {s \in 0..(slots - 1) : idx[s] = Empty}
SlotsWith(e, idx, slots, k) == {s \in 0..(slots - 1) : idx[s] # Empty /\ e[idx[s] + 1].key = k}
mi_dict_find(e, idx, slots, k) ==
  IF slots = 0 THEN Empty
  ELSE idx[SlotOf(k, slots, FreeSlots(idx, slots) \cup SlotsWith(e, idx, slots, k))]

\* entry p into the first free slot of its key
Placed(e, idx, slots, p) == [idx EXCEPT ![SlotOf(e[p + 1].key, slots, FreeSlots(idx, slots))] = p]

\* deviation: the entry that made the index grow is left out
mi_dict_reindex_short(e, len, slots) ==
  LET at[n \in 0..len] == IF n = 0 THEN [s \in 0..(slots - 1) |-> Empty] ELSE Placed(e, at[n - 1], slots, n - 1)
  IN  at[len - 1]
mi_dict_reindex(e, len, slots) ==
  LET at[n \in 0..len] == IF n = 0 THEN [s \in 0..(slots - 1) |-> Empty] ELSE Placed(e, at[n - 1], slots, n - 1)
  IN  at[len]

EntriesOf(d) == IF dict[d].arr = Null THEN << >> ELSE entries[dict[d].arr]
IndexOf(d) == IF dict[d].idx = Null THEN << >> ELSE index[dict[d].idx]
Slots(d) == dict[d].islots
Find(d, k) == mi_dict_find(EntriesOf(d), IndexOf(d), Slots(d), k)

\* `while (d->len * 2 > slots) slots *= 2`, one doubling is enough
Enough(len, slots) == IF len * 2 > slots THEN 2 * slots ELSE slots

\* the interpreter's set: the first pair with that key, or one more
PairSet(ps, k, v) ==
  IF \E n \in DOMAIN ps : ps[n].key = k
  THEN [n \in DOMAIN ps |-> IF ps[n].key = k /\ \A m \in 1..(n - 1) : ps[m].key # k THEN Entry(k, v) ELSE ps[n]]
  ELSE Append(ps, Entry(k, v))

\* mi_dict_set where the key is there: the value is replaced in place
Replace(d, k, v) ==
  LET e == Find(d, k) IN
  /\ e # Empty
  /\ entries' = [entries EXCEPT ![dict[d].arr][e + 1].val = v]
  /\ UNCHANGED << hash, dict, index >>

\* mi_dict_set where it is not: room for one more entry, then the index, which
\* is built anew when it would be more than half full
Insert(d, k, v) ==
  LET x == dict[d]
      len == x.len + 1
      cap == IF x.len # x.cap THEN x.cap ELSE IF x.cap = 0 THEN FirstCap ELSE 2 * x.cap
      had == EntriesOf(d)
      room == [n \in 1..cap |-> IF n = len THEN Entry(k, v) ELSE IF n < len THEN had[n] ELSE Unused]
      arr == IF x.arr = Null THEN Len(entries) + 1 ELSE x.arr
      full == x.islots = 0 \/ len * 2 > x.islots
      slots == IF ~full THEN x.islots ELSE Enough(len, IF x.islots = 0 THEN FirstSlots ELSE 2 * x.islots)
      slotsNow == IF full THEN mi_dict_reindex(room, len, slots) ELSE Placed(room, IndexOf(d), slots, len - 1)
      idx == IF x.idx = Null THEN Len(index) + 1 ELSE x.idx
  IN
  /\ Find(d, k) = Empty
  /\ x.len < MaxLen
  /\ entries' = IF x.arr = Null THEN Append(entries, room) ELSE [entries EXCEPT ![arr] = room]
  /\ index' = IF x.idx = Null THEN Append(index, slotsNow) ELSE [index EXCEPT ![idx] = slotsNow]
  /\ dict' = [dict EXCEPT ![d] = [arr |-> arr, idx |-> idx, len |-> len, cap |-> cap, islots |-> slots]]
  /\ UNCHANGED hash

Set(d, k, v) ==
  /\ Replace(d, k, v) \/ Insert(d, k, v)
  /\ pairs' = [pairs EXCEPT ![d] = PairSet(@, k, v)]

\* `let a = b` copies: mi_dict_copy there, deep_clone here.  Arrays are made
\* for a Dict that has any.
\* deviation: the copy keeps the arrays of what it was made from
mi_dict_copy_shared(x) == x
mi_dict_copy(x) ==
  [x EXCEPT !.arr = IF x.cap > 0 THEN Len(entries) + 1 ELSE x.arr,
            !.idx = IF x.islots > 0 THEN Len(index) + 1 ELSE x.idx]
Copy(a, b) ==
  /\ a # b /\ dict[a] = New
  /\ Len(entries) < MaxArrays
  /\ dict' = [dict EXCEPT ![a] = mi_dict_copy(dict[b])]
  /\ entries' = IF dict[b].cap > 0 THEN Append(entries, EntriesOf(b)) ELSE entries
  /\ index' = IF dict[b].islots > 0 THEN Append(index, IndexOf(b)) ELSE index
  /\ pairs' = [pairs EXCEPT ![a] = pairs[b]]
  /\ UNCHANGED hash

DictNext ==
  \/ \E d \in Dicts, k \in Keys, v \in Values : Set(d, k, v)
  \/ \E a, b \in Dicts : Copy(a, b)

DictSpec == DictInit /\ [][DictNext]_dictVars

mi_dict_keys(d) == [n \in 1..dict[d].len |-> EntriesOf(d)[n].key]
PairKeys(d) == [n \in DOMAIN pairs[d] |-> pairs[d][n].key]
PairGet(d, k) == {pairs[d][n].val : n \in {m \in DOMAIN pairs[d] : pairs[d][m].key = k}}
mi_dict_at(d, k) == IF Find(d, k) = Empty THEN {} ELSE {EntriesOf(d)[Find(d, k) + 1].val}

\* Both kinds of Dict answer `get`, `has`, `keys` and `len` alike, whatever the
\* hash does, through growth, replaced values and copies that go their own way.
DictsAgree ==
  \A d \in Dicts : /\ mi_dict_keys(d) = PairKeys(d)
                   /\ \A k \in Keys : mi_dict_at(d, k) = PairGet(d, k)

\* A search and an insertion end: there is always a free slot, and what is
\* indexed is exactly what was entered, each entry once.
ProbingEnds ==
  \A d \in Dicts :
    LET used == {s \in DOMAIN IndexOf(d) : IndexOf(d)[s] # Empty}
    IN  /\ Slots(d) > 0 => Cardinality(used) < Slots(d)
        /\ {IndexOf(d)[s] : s \in used} = 0..(dict[d].len - 1)
        /\ Cardinality(used) = dict[d].len
=============================================================================
