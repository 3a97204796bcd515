-------------------------- MODULE ConcNativeProofs --------------------------
(***************************************************************************)
(* Proofs about ConcNative, for any finite set of tasks, any channels, any  *)
(* first size of a ring and any bound on the calls.                         *)
(***************************************************************************)
EXTENDS ConcNative, FiniteSetTheorems, TLAPS

-----------------------------------------------------------------------------
(* The ring is a queue *)

\* One lap around at most: the remainder, and the i-th place behind the head.
Around(x, b) == IF x < b THEN x ELSE x - b
Place(r, i) == Around(r.head + i, r.bcap)

LEMMA Wrap ==
  ASSUME NEW b \in Nat, NEW h \in 0..(b - 1), NEW i \in 0..b
  PROVE  (h + i) % b = Around(h + i, b)
  <1>1. ASSUME NEW x \in Nat, x < 2 * b  PROVE x % b = IF x < b THEN x ELSE x - b
    BY <1>1
  <1> QED
    BY <1>1 DEF Around

LEMMA Places ==
  ASSUME NEW r, IsRing(r), NEW i \in 0..(r.bcap - 1)
  PROVE  /\ (r.head + i) % r.bcap = Place(r, i)
         /\ Place(r, i) \in 0..(r.bcap - 1)
  <1>1. r.bcap \in Nat /\ r.bcap # 0 /\ r.head \in 0..(r.bcap - 1) /\ i \in Nat
    BY DEF IsRing
  <1>2. (r.head + i) % r.bcap = Place(r, i)
    <2>1. i \in 0..r.bcap
      BY <1>1
    <2>2. (r.head + i) % r.bcap = Around(r.head + i, r.bcap)
      BY <1>1, <2>1, Wrap
    <2> QED
      BY <2>2 DEF Place
  <1> QED
    BY <1>1, <1>2 DEF Place, Around

\* What a ring stands for, element by element.
LEMMA Elements ==
  ASSUME NEW r, IsRing(r)
  PROVE  /\ Contents(r) \in Seq(Values) /\ Len(Contents(r)) = r.len
         /\ \A i \in 1..r.len : Contents(r)[i] = r.buf[Place(r, i - 1)]
         /\ \A i \in 0..(r.len - 1) : r.buf[Place(r, i)] \in Values
  <1>1. r.len \in Nat /\ r.bcap \in Nat /\ r.len <= r.bcap
    BY DEF IsRing
  <1>2. ASSUME NEW i \in 0..(r.len - 1)  PROVE r.buf[Place(r, i)] \in Values
    <2>1. (r.head + i) % r.bcap = Place(r, i)
      BY <1>1, Places
    <2>2. r.buf[(r.head + i) % r.bcap] \in Values
      BY DEF IsRing
    <2> QED
      BY <2>1, <2>2
  <1>3. ASSUME NEW i \in 1..r.len
        PROVE  r.buf[(r.head + i - 1) % r.bcap] = r.buf[Place(r, i - 1)]
    <2>1. i - 1 \in 0..(r.len - 1) /\ i - 1 \in 0..(r.bcap - 1)
      BY <1>1
    <2>2. r.head + i - 1 = r.head + (i - 1)
      BY <1>1 DEF IsRing
    <2> QED
      BY <2>1, <2>2, Places
  <1>4. \A i \in 1..r.len : Contents(r)[i] = r.buf[Place(r, i - 1)]
    BY <1>3 DEF Contents
  <1>5. Contents(r) \in [1..r.len -> Values]
    BY <1>1, <1>2, <1>3 DEF Contents
  <1>6. Contents(r) \in Seq(Values) /\ Len(Contents(r)) = r.len
    BY <1>1, <1>5
  <1> QED
    BY <1>2, <1>4, <1>6

\* Moving to a larger array straightens the queue out and keeps it.
LEMMA GrowRing ==
  ASSUME NEW r, IsRing(r), r.len = r.bcap
  PROVE  /\ IsRing(Grow(r)) /\ Contents(Grow(r)) = Contents(r)
         /\ Grow(r).len = r.len /\ Grow(r).len < Grow(r).bcap
  <1> DEFINE nb == IF r.bcap = 0 THEN FirstCap ELSE r.bcap * 2
             g == Grow(r)
  <1>1. r.len \in Nat /\ r.bcap \in Nat /\ nb \in Nat /\ nb > r.len
    BY FirstCapAssumption DEF IsRing, FirstCapAssumption
  <1>2. /\ g.head = 0 /\ g.len = r.len /\ g.bcap = nb
        /\ g.buf = [i \in 0..(nb - 1) |-> IF i < r.len THEN r.buf[(r.head + i) % r.bcap] ELSE NoVal]
        /\ g = [buf |-> g.buf, head |-> g.head, len |-> g.len, bcap |-> g.bcap]
    BY DEF Grow
  <1> HIDE DEF nb, g
  <1>3. \A i \in 0..(nb - 1) : g.buf[i] = IF i < r.len THEN r.buf[Place(r, i)] ELSE NoVal
    BY <1>1, <1>2, Places
  <1>4. \A i \in 0..(r.len - 1) : r.buf[Place(r, i)] \in Values
    BY Elements
  <1>5. DOMAIN g.buf = 0..(nb - 1) /\ g.buf = [i \in 0..(nb - 1) |-> g.buf[i]]
    BY <1>2
  <1>6. g.buf \in [0..(nb - 1) -> Values \cup {NoVal}]
    <2>1. \A i \in 0..(nb - 1) : g.buf[i] \in Values \cup {NoVal}
      BY <1>1, <1>3, <1>4
    <2> QED
      BY <1>5, <2>1
  <1>7. \A i \in 0..(nb - 1) : Place(g, i) = i
    BY <1>1, <1>2 DEF Place, Around
  <1>8. IsRing(g)
    <2>1. \A i \in 0..(r.len - 1) : (0 + i) % nb = i
      <3> TAKE i \in 0..(r.len - 1)
      <3>1. nb \in Nat /\ 0 \in 0..(nb - 1) /\ i \in 0..nb /\ 0 + i < nb /\ 0 + i = i
        BY <1>1
      <3> QED
        BY <3>1, Wrap DEF Around
    <2>2. \A i \in 0..(g.len - 1) : g.buf[(g.head + i) % g.bcap] \in Values
      BY <1>1, <1>2, <1>3, <1>4, <2>1
    <2> QED
      <3>1. g.bcap \in Nat /\ g.len \in 0..g.bcap /\ g.head \in 0..(g.bcap - 1)
        BY <1>1, <1>2
      <3>2. g.buf \in [0..(g.bcap - 1) -> Values \cup {NoVal}]
        BY <1>2, <1>6
      <3>3. g = [buf |-> g.buf, head |-> g.head, len |-> g.len, bcap |-> g.bcap]
        BY <1>2
      <3> QED
        BY <2>2, <3>1, <3>2, <3>3 DEF IsRing
  <1>9. Contents(g) = Contents(r)
    <2>1. \A i \in 1..r.len : Contents(g)[i] = Contents(r)[i]
      <3> TAKE i \in 1..r.len
      <3>1. i - 1 \in 0..(nb - 1) /\ i - 1 < r.len
        BY <1>1
      <3>2. Contents(g)[i] = g.buf[Place(g, i - 1)]
        <4>1. i \in 1..g.len
          BY <1>2
        <4> QED
          BY <1>8, <4>1, Elements
      <3>3. Contents(g)[i] = g.buf[i - 1]
        BY <1>7, <3>1, <3>2
      <3> QED
        BY <1>3, <3>1, <3>3, Elements
    <2>2. Contents(g) \in Seq(Values) /\ Contents(r) \in Seq(Values)
            /\ Len(Contents(g)) = r.len /\ Len(Contents(r)) = r.len
      BY <1>2, <1>8, Elements
    <2> QED
      BY <2>1, <2>2
  <1> QED
    BY <1>1, <1>2, <1>8, <1>9 DEF g

\* Where there is room, what is put goes behind all the others.
LEMMA PutRing ==
  ASSUME NEW r, IsRing(r), r.len < r.bcap, NEW v \in Values
  PROVE  IsRing(Put(r, v)) /\ Contents(Put(r, v)) = Append(Contents(r), v)
  <1> DEFINE p == Put(r, v)
             e == Place(r, r.len)
  <1>1. /\ r.len \in Nat /\ r.bcap \in Nat /\ r.head \in 0..(r.bcap - 1)
        /\ r.buf \in [0..(r.bcap - 1) -> Values \cup {NoVal}]
    BY DEF IsRing
  <1>2. r.len \in 0..(r.bcap - 1)
    BY <1>1
  <1>3. (r.head + r.len) % r.bcap = e /\ e \in 0..(r.bcap - 1)
    BY <1>2, Places
  <1>4. /\ p.head = r.head /\ p.len = r.len + 1 /\ p.bcap = r.bcap
        /\ p.buf = [r.buf EXCEPT ![e] = v]
        /\ p = [buf |-> p.buf, head |-> p.head, len |-> p.len, bcap |-> p.bcap]
    BY <1>3 DEF Put
  <1>5. \A i : Place(p, i) = Place(r, i)
    BY <1>4 DEF Place, Around
  <1> HIDE DEF p
  <1>6. \A i \in 0..(r.len - 1) : Place(r, i) # e
    BY <1>1 DEF Place, Around
  <1> HIDE DEF e
  <1>7. \A i \in 0..(r.len - 1) : p.buf[Place(r, i)] = r.buf[Place(r, i)]
    <2> TAKE i \in 0..(r.len - 1)
    <2>1. i \in 0..(r.bcap - 1)
      BY <1>1
    <2>2. Place(r, i) \in 0..(r.bcap - 1)
      BY <2>1, Places
    <2> QED
      BY <1>1, <1>4, <1>6, <2>2
  <1>8. p.buf[e] = v /\ p.buf \in [0..(r.bcap - 1) -> Values \cup {NoVal}]
    BY <1>1, <1>3, <1>4
  <1>9. IsRing(p)
    <2>1. ASSUME NEW i \in 0..(p.len - 1)
          PROVE  p.buf[(p.head + i) % p.bcap] \in Values
      <3>1. i \in 0..(r.bcap - 1) /\ (i < r.len \/ i = r.len)
        BY <1>1, <1>4
      <3>2. (p.head + i) % p.bcap = Place(r, i)
        BY <1>4, <3>1, Places
      <3>3. CASE i < r.len
        BY <1>1, <1>7, <2>1, <3>2, <3>3, Elements
      <3>4. CASE i = r.len
        BY <1>8, <3>2, <3>4 DEF e
      <3> QED
        BY <3>1, <3>3, <3>4
    <2> QED
      BY <1>1, <1>4, <1>8, <2>1 DEF IsRing
  <1>10. Contents(p) = Append(Contents(r), v)
    <2>1. /\ Contents(r) \in Seq(Values) /\ Len(Contents(r)) = r.len
          /\ Contents(p) \in Seq(Values) /\ Len(Contents(p)) = r.len + 1
          /\ \A i \in 1..r.len : Contents(r)[i] = r.buf[Place(r, i - 1)]
          /\ \A i \in 1..(r.len + 1) : Contents(p)[i] = p.buf[Place(p, i - 1)]
      BY <1>4, <1>9, Elements
    <2>a. \A i \in 1..(r.len + 1) : Contents(p)[i] = p.buf[Place(r, i - 1)]
      BY <1>5, <2>1
    <2>2. \A i \in 1..r.len : Contents(p)[i] = Contents(r)[i]
      <3> TAKE i \in 1..r.len
      <3>1. i - 1 \in 0..(r.len - 1) /\ i \in 1..(r.len + 1)
        BY <1>1
      <3> QED
        BY <1>7, <2>1, <2>a, <3>1
    <2>3. Contents(p)[r.len + 1] = v
      <3>1. r.len + 1 \in 1..(r.len + 1) /\ (r.len + 1) - 1 = r.len
        BY <1>1
      <3> QED
        BY <1>8, <2>a, <3>1 DEF e
    <2> QED
      BY <1>1, <2>1, <2>2, <2>3
  <1> QED
    BY <1>9, <1>10 DEF p

\* mi_chan_send puts a value at the end of the queue, whatever the ring looks like.
LEMMA PushRing ==
  ASSUME NEW r, IsRing(r), NEW v \in Values
  PROVE  IsRing(Push(r, v)) /\ Contents(Push(r, v)) = Append(Contents(r), v)
  <1>1. CASE r.len = r.bcap
    BY <1>1, GrowRing, PutRing DEF Push
  <1>2. CASE r.len # r.bcap
    <2>1. r.len < r.bcap
      BY <1>2 DEF IsRing
    <2> QED
      BY <1>2, <2>1, PutRing DEF Push
  <1> QED
    BY <1>1, <1>2

\* mi_chan_recv takes the value that has waited longest.
LEMMA PopRing ==
  ASSUME NEW r, IsRing(r), r.len # 0
  PROVE  /\ IsRing(Pop(r)) /\ Contents(r) # << >>
         /\ First(r) = Head(Contents(r)) /\ First(r) \in Values
         /\ Contents(Pop(r)) = Tail(Contents(r))
  <1> DEFINE p == Pop(r)
  <1>1. /\ r.len \in Nat /\ r.bcap \in Nat /\ r.head \in 0..(r.bcap - 1) /\ r.len <= r.bcap
        /\ r.buf \in [0..(r.bcap - 1) -> Values \cup {NoVal}] /\ r.len > 0
    BY DEF IsRing
  <1>2. (r.head + 1) % r.bcap = Around(r.head + 1, r.bcap)
    <2>1. 1 \in 0..r.bcap
      BY <1>1
    <2> QED
      BY <1>1, <2>1, Wrap
  <1>3. /\ p.head = Around(r.head + 1, r.bcap)
        /\ p.len = r.len - 1 /\ p.bcap = r.bcap /\ p.buf = r.buf
        /\ p = [buf |-> p.buf, head |-> p.head, len |-> p.len, bcap |-> p.bcap]
    BY <1>2 DEF Pop
  <1> HIDE DEF p
  <1>4. p.head \in 0..(r.bcap - 1)
    BY <1>1, <1>3 DEF Around
  <1>5. \A i \in 0..(r.len - 2) : Place(p, i) = Place(r, i + 1)
    <2> TAKE i \in 0..(r.len - 2)
    <2>0. r.head \in Nat /\ i \in Nat /\ i + 1 < r.bcap /\ r.head < r.bcap
      BY <1>1
    <2>1. CASE r.head + 1 < r.bcap
      <3>1. p.head = r.head + 1 /\ p.bcap = r.bcap
        BY <1>3, <2>1 DEF Around
      <3>2. p.head + i = r.head + (i + 1)
        BY <2>0, <3>1
      <3> QED
        BY <3>1, <3>2 DEF Place
    <2>2. CASE ~(r.head + 1 < r.bcap)
      <3>1. p.head = 0 /\ p.bcap = r.bcap /\ r.head + 1 = r.bcap
        <4>1. r.head + 1 = r.bcap
          BY <1>1, <2>0, <2>2
        <4>2. Around(r.bcap, r.bcap) = 0
          BY <1>1 DEF Around
        <4> QED
          BY <1>3, <4>1, <4>2
      <3>2. Place(p, i) = i
        BY <1>1, <2>0, <3>1 DEF Place, Around
      <3>3. Place(r, i + 1) = i
        BY <1>1, <2>0, <3>1, SMTT(40) DEF Place, Around
      <3> QED
        BY <3>2, <3>3
    <2> QED
      BY <2>1, <2>2
  <1>6. IsRing(p)
    <2>1. ASSUME NEW i \in 0..(p.len - 1)
          PROVE  p.buf[(p.head + i) % p.bcap] \in Values
      <3>1. i \in 0..(r.len - 2) /\ i + 1 \in 0..(r.len - 1) /\ i \in Nat /\ i < r.bcap
        BY <1>1, <1>3
      <3>2. (p.head + i) % p.bcap = Place(p, i)
        <4>1. p.head \in 0..(p.bcap - 1) /\ i \in 0..p.bcap /\ p.bcap \in Nat
          BY <1>1, <1>3, <1>4, <3>1
        <4> QED
          BY <4>1, Wrap DEF Place
      <3> QED
        BY <1>3, <1>5, <3>1, <3>2, Elements
    <2> QED
      BY <1>1, <1>3, <1>4, <2>1 DEF IsRing
  <1>7. /\ Contents(r) \in Seq(Values) /\ Len(Contents(r)) = r.len
        /\ Contents(p) \in Seq(Values) /\ Len(Contents(p)) = r.len - 1
        /\ \A i \in 1..r.len : Contents(r)[i] = r.buf[Place(r, i - 1)]
        /\ \A i \in 1..(r.len - 1) : Contents(p)[i] = r.buf[Place(p, i - 1)]
    BY <1>3, <1>6, Elements
  <1>8. Contents(r) # << >> /\ First(r) = Head(Contents(r)) /\ First(r) \in Values
    <2>1. Place(r, 0) = r.head /\ 1 \in 1..r.len /\ 1 - 1 = 0
      BY <1>1 DEF Place, Around
    <2>2. Contents(r)[1] = First(r)
      BY <1>7, <2>1 DEF First
    <2> QED
      BY <1>1, <1>7, <2>2
  <1>9. Contents(p) = Tail(Contents(r))
    <2>1. \A i \in 1..(r.len - 1) : Contents(p)[i] = Contents(r)[i + 1]
      <3> TAKE i \in 1..(r.len - 1)
      <3>1. i - 1 \in 0..(r.len - 2) /\ i + 1 \in 1..r.len /\ (i - 1) + 1 = (i + 1) - 1
        BY <1>1
      <3>2. Contents(p)[i] = r.buf[Place(r, (i - 1) + 1)]
        BY <1>5, <1>7, <3>1
      <3>3. Contents(r)[i + 1] = r.buf[Place(r, (i + 1) - 1)]
        BY <1>7, <3>1
      <3> QED
        BY <3>1, <3>2, <3>3
    <2>2. /\ Tail(Contents(r)) \in Seq(Values) /\ Len(Tail(Contents(r))) = r.len - 1
          /\ \A i \in 1..(r.len - 1) : Tail(Contents(r))[i] = Contents(r)[i + 1]
      BY <1>1, <1>7, <1>8
    <2> QED
      BY <1>1, <1>7, <2>1, <2>2
  <1> QED
    BY <1>6, <1>8, <1>9 DEF p

\* Which fields a call has follows from its kind.
LEMMA OpFields ==
  ASSUME NEW o \in AllOps \cup SpawnOps
  PROVE  /\ o.kind \in {"none", "all", "send", "recv", "wait", "spawn"}
         /\ o.kind = "send" => o.ch \in Chans /\ o.val \in Values /\ o \in SendOps
         /\ o.kind = "recv" => o.ch \in Chans /\ o \in RecvOps
         /\ o.kind = "wait" => o.task \in Tasks /\ o \in WaitOps
         /\ o.kind = "spawn" => o.task \in Tasks
         /\ o.kind = "all" => o = AllOp
  BY DEF AllOps, SpawnOps, SendOps, RecvOps, WaitOps, AllOp, Idle

\* Counting the elements of a subset of the tasks.
LEMMA Counting ==
  ASSUME NEW S \in SUBSET Tasks
  PROVE  /\ IsFiniteSet(S) /\ Cardinality(S) \in Nat
         /\ \A x \in Tasks : Cardinality(S \cup {x}) =
              IF x \in S THEN Cardinality(S) ELSE Cardinality(S) + 1
         /\ \A x : Cardinality(S \ {x}) =
              IF x \in S THEN Cardinality(S) - 1 ELSE Cardinality(S)
         /\ \A T \in SUBSET S : Cardinality(T) <= Cardinality(S)
         /\ \A T \in SUBSET S : Cardinality(T) = Cardinality(S) => T = S
  <1>1. IsFiniteSet(S)
    BY FS_Subset, ConcAssumption DEF ConcAssumption
  <1> QED
    BY <1>1, FS_Subset, FS_AddElement, FS_RemoveElement, FS_CardinalityType

-----------------------------------------------------------------------------
(* Type correctness *)

LEMMA RingAt ==
  ASSUME TypeOK, NEW c \in Chans, NEW x
  PROVE  /\ IsRing(ring[c])
         /\ [ring EXCEPT ![c] = x] = [d \in Chans |-> IF d = c THEN x ELSE ring[d]]
  BY DEF TypeOK

LEMMA RingsKept ==
  ASSUME TypeOK, NEW c \in Chans, NEW x, IsRing(x), ring' = [ring EXCEPT ![c] = x]
  PROVE  ring' = [d \in Chans |-> ring'[d]] /\ \A d \in Chans : IsRing(ring'[d])
  <1>1. ring' = [d \in Chans |-> IF d = c THEN x ELSE ring[d]]
    BY RingAt
  <1>2. \A d \in Chans : IsRing(ring'[d])
    BY <1>1 DEF TypeOK
  <1> QED
    BY <1>1, <1>2

LEMMA InitType == Init => TypeOK
  <1> SUFFICES ASSUME Init  PROVE TypeOK
    OBVIOUS
  <1>1. IsRing(EmptyRing)
    <2>1. 0..(0 - 1) = {}
      OBVIOUS
    <2>2. [i \in {} |-> NoVal] \in [0..(0 - 1) -> Values \cup {NoVal}]
      BY <2>1
    <2> QED
      BY <2>1, <2>2 DEF IsRing, EmptyRing
  <1>2. ring = [c \in Chans |-> ring[c]] /\ \A c \in Chans : IsRing(ring[c])
    BY <1>1 DEF Init
  <1> QED
    BY <1>2, ConcAssumption, MaxOpsAssumption
    DEF Init, TypeOK, ConcAssumption, MaxOpsAssumption, PCs, AllOps, Results

LEMMA WakeType ==
  ASSUME TypeOK, NEW p \in [Tasks -> PCs], mi_wake_all(p)
  PROVE  /\ pc' \in [Tasks -> PCs]
         /\ since' \in [Tasks -> Nat]
         /\ mi_blocked' \in Nat /\ mi_epoch' \in Nat
  BY DEF TypeOK, mi_wake_all, PCs

\* One turn of the loop of a call that waits, entered with mi_blocked = b.
Loop(t, b) == Proceed(t, b) \/ mi_block(t, b)

LEMMA ProceedType ==
  ASSUME TypeOK, NEW t \in Tasks, NEW b \in Nat, Proceed(t, b)
  PROVE  TypeOK'
  <1> USE DEF TypeOK
  <1>0. \A x \in {"running", "failed", "reading"} : [pc EXCEPT ![t] = x] \in [Tasks -> PCs]
    BY DEF PCs
  <1>1. ASSUME NEW c \in Chans, mi_chan_send(t, c, b)  PROVE TypeOK'
    <2>1. op[t].val \in Values
      BY <1>1, OpFields DEF mi_chan_send
    <2>2. op' \in [Tasks -> AllOps \cup SpawnOps] /\ outcome' = outcome
      BY <1>1 DEF mi_chan_send, AllOps
    <2>3. CASE /\ closed[c]
               /\ why' = [why EXCEPT ![t] = "closed"]
               /\ Leave([pc EXCEPT ![t] = "failed"], b)
               /\ UNCHANGED <<ring, got>>
      <3>1. why' \in [Tasks -> {"none", "error", "spawn", "closed", "deadlock"}]
        BY <2>3
      <3>2. /\ pc' \in [Tasks -> PCs] /\ since' \in [Tasks -> Nat]
            /\ mi_blocked' \in Nat /\ mi_epoch' \in Nat
        BY <1>0, <2>3 DEF Leave
      <3> QED
        BY <1>1, <2>2, <2>3, <3>1, <3>2 DEF Proceed, cells
    <2>4. CASE /\ ~closed[c]
               /\ ring' = [ring EXCEPT ![c] = Push(@, op[t].val)]
               /\ got' = [got EXCEPT ![t] = NoVal]
               /\ mi_wake_all([pc EXCEPT ![t] = "running"])
               /\ UNCHANGED why
      <3>1. ring' = [ring EXCEPT ![c] = Push(ring[c], op[t].val)]
        BY <2>4
      <3>2. ring' = [d \in Chans |-> ring'[d]] /\ \A d \in Chans : IsRing(ring'[d])
        BY <2>1, <3>1, RingAt, RingsKept, PushRing
      <3>3. got' \in [Tasks -> Results]
        BY <2>4 DEF Results
      <3>4. /\ pc' \in [Tasks -> PCs] /\ since' \in [Tasks -> Nat]
            /\ mi_blocked' \in Nat /\ mi_epoch' \in Nat
        BY <1>0, <2>4, WakeType
      <3> QED
        BY <1>1, <2>2, <2>4, <3>2, <3>3, <3>4 DEF Proceed, cells
    <2> QED
      BY <1>1, <2>3, <2>4 DEF mi_chan_send
  <1>2. ASSUME NEW c \in Chans, mi_chan_recv(t, c, b)  PROVE TypeOK'
    <2>1. op' \in [Tasks -> AllOps \cup SpawnOps] /\ UNCHANGED <<why, outcome>>
      BY <1>2 DEF mi_chan_recv, AllOps
    <2>2. CASE /\ ring[c].len = 0
               /\ got' = [got EXCEPT ![t] = NoVal]
               /\ Leave([pc EXCEPT ![t] = "running"], b)
               /\ UNCHANGED ring
      <3>1. got' \in [Tasks -> Results]
        BY <2>2 DEF Results
      <3>2. /\ pc' \in [Tasks -> PCs] /\ since' \in [Tasks -> Nat]
            /\ mi_blocked' \in Nat /\ mi_epoch' \in Nat
        BY <1>0, <2>2 DEF Leave
      <3> QED
        BY <1>2, <2>1, <2>2, <3>1, <3>2 DEF Proceed, cells
    <2>3. CASE /\ ring[c].len # 0
               /\ got' = [got EXCEPT ![t] = First(ring[c])]
               /\ ring' = [ring EXCEPT ![c] = Pop(@)]
               /\ mi_wake_all([pc EXCEPT ![t] = "running"])
      <3>1. IsRing(Pop(ring[c])) /\ First(ring[c]) \in Values
        BY <2>3, RingAt, PopRing
      <3>2. ring' = [ring EXCEPT ![c] = Pop(ring[c])]
        BY <2>3
      <3>3. ring' = [d \in Chans |-> ring'[d]] /\ \A d \in Chans : IsRing(ring'[d])
        BY <3>1, <3>2, RingsKept
      <3>4. got' \in [Tasks -> Results]
        BY <2>3, <3>1 DEF Results
      <3>5. /\ pc' \in [Tasks -> PCs] /\ since' \in [Tasks -> Nat]
            /\ mi_blocked' \in Nat /\ mi_epoch' \in Nat
        BY <1>0, <2>3, WakeType
      <3> QED
        BY <1>2, <2>1, <3>3, <3>4, <3>5 DEF Proceed, cells
    <2> QED
      BY <1>2, <2>2, <2>3 DEF mi_chan_recv
  <1>3. CASE mi_task_wait(t, b)
    BY <1>0, <1>3 DEF Proceed, mi_task_wait, Leave, cells
  <1>4. CASE mi_tasks_finish(t, b)
    BY <1>4 DEF Proceed, mi_tasks_finish, Leave, cells
  <1> QED
    BY <1>1, <1>2, <1>3, <1>4 DEF Proceed

\* Where the code subtracts from a counter, the counter is positive.
LEMMA CountersPositive ==
  ASSUME TypeOK, CountersExact, NEW t \in Tasks
  PROVE  /\ pc[t] \notin {"unborn", "ended"} => mi_live >= 1
         /\ Fresh(t) /\ LockFree => mi_blocked >= 1
  <1>1. LiveSet \in SUBSET Tasks /\ FreshSet \in SUBSET Tasks
    BY DEF LiveSet, FreshSet
  <1>2. ASSUME NEW S \in SUBSET Tasks, t \in S  PROVE Cardinality(S) >= 1
    <2>1. Cardinality(S \ {t}) = Cardinality(S) - 1
            /\ Cardinality(S \ {t}) \in Nat /\ Cardinality(S) \in Nat
      BY <1>2, Counting
    <2> QED
      BY <2>1
  <1>3. pc[t] \notin {"unborn", "ended"} => t \in LiveSet
    BY DEF LiveSet
  <1>4. Fresh(t) => t \in FreshSet
    BY DEF FreshSet
  <1> QED
    BY <1>1, <1>2, <1>3, <1>4 DEF CountersExact

LEMMA UncountType ==
  ASSUME TypeOK, CountersExact, NEW t \in Tasks, Return(t)
  PROVE  Uncount(t) \in Nat
  BY CountersPositive DEF Return, Uncount, TypeOK, Fresh, Waiting

LEMMA LoopType ==
  ASSUME TypeOK, NEW t \in Tasks, NEW b \in Nat, Loop(t, b)
  PROVE  TypeOK'
  <1>1. CASE Proceed(t, b)
    BY <1>1, ProceedType
  <1>2. CASE mi_deadlock(t, b)
    BY <1>2 DEF TypeOK, mi_deadlock, PCs, AllOps, chans, cells
  <1>3. CASE Park(t, b)
    BY <1>3 DEF TypeOK, Park, PCs, chans, cells
  <1> QED
    BY <1>1, <1>2, <1>3 DEF Loop, mi_block

LEMMA NextType ==
  ASSUME TypeOK, Bookkeeping, CountersExact, [Next]_vars
  PROVE  TypeOK'
  <1>1. ASSUME NEW t \in Tasks, NEW u \in Tasks, mi_task_spawn(t, u)  PROVE TypeOK'
    <2>1. [kind |-> "spawn", task |-> u] \in SpawnOps
      BY DEF SpawnOps
    <2>2. fuel' \in [Tasks -> 0..MaxOps]
      BY <1>1, MaxOpsAssumption DEF mi_task_spawn, Spend, TypeOK, MaxOpsAssumption
    <2>3. pc' \in [Tasks -> PCs] /\ op' \in [Tasks -> AllOps \cup SpawnOps]
      BY <1>1, <2>1 DEF TypeOK, mi_task_spawn, PCs
    <2>4. mi_live' \in Nat
      BY <1>1 DEF TypeOK, mi_task_spawn
    <2>5. UNCHANGED <<mi_blocked, mi_epoch, since, why, got, chans, cells, outcome>>
      BY <1>1 DEF mi_task_spawn
    <2> QED
      BY <2>2, <2>3, <2>4, <2>5 DEF TypeOK, chans, cells
  <1>2. ASSUME NEW t \in Tasks, ThreadStarts(t)  PROVE TypeOK'
    BY <1>2 DEF TypeOK, ThreadStarts, PCs, AllOps, sched, chans, cells
  <1>3. ASSUME NEW t \in Tasks, ThreadRefused(t)  PROVE TypeOK'
    BY <1>3 DEF TypeOK, ThreadRefused, PCs, AllOps, sched, chans, cells
  <1>4. ASSUME NEW t \in Tasks, NEW o \in AllOps, Call(t, o),
               Spend(t) \/ UNCHANGED fuel
        PROVE  TypeOK'
    <2>1. fuel' \in [Tasks -> 0..MaxOps]
      <3>1. CASE UNCHANGED fuel
        BY <3>1 DEF TypeOK
      <3>2. CASE Spend(t)
        BY <3>2, MaxOpsAssumption DEF Spend, TypeOK, MaxOpsAssumption
      <3> QED
        BY <1>4, <3>1, <3>2
    <2> QED
      BY <1>4, <2>1 DEF TypeOK, Call, PCs, sched, chans, cells
  <1>5. ASSUME NEW t \in Tasks, CallSend(t) \/ CallRecv(t) \/ CallWait(t) \/ MainEnds(t)
        PROVE  TypeOK'
    <2>1. SendOps \cup RecvOps \cup WaitOps \cup {AllOp} \subseteq AllOps
      BY DEF AllOps
    <2> QED
      BY <1>4, <1>5, <2>1 DEF CallSend, CallRecv, CallWait, MainEnds
  <1>6. ASSUME NEW t \in Tasks, Enter(t)  PROVE TypeOK'
    BY <1>6, LoopType DEF Enter, Loop, TypeOK
  <1>7. ASSUME NEW t \in Tasks, Return(t)  PROVE TypeOK'
    BY <1>7, UncountType, LoopType DEF Return, Loop
  <1>8. ASSUME NEW t \in Tasks, ReadResult(t)  PROVE TypeOK'
    <2>1. op[t].task \in Tasks
      BY <1>8, OpFields DEF ReadResult, Bookkeeping, TypeOK
    <2> QED
      BY <1>8, <2>1 DEF TypeOK, ReadResult, PCs, AllOps, sched, chans, cells
  <1>9. ASSUME NEW t \in Tasks, NEW c \in Chans, mi_chan_close(t, c)  PROVE TypeOK'
    <2>1. fuel' \in [Tasks -> 0..MaxOps]
      BY <1>9, MaxOpsAssumption DEF mi_chan_close, Spend, TypeOK, MaxOpsAssumption
    <2>2. pc \in [Tasks -> PCs] /\ mi_wake_all(pc)
      BY <1>9 DEF mi_chan_close, TypeOK
    <2> QED
      BY <1>9, <2>1, <2>2, WakeType DEF TypeOK, mi_chan_close, cells
  <1>10. ASSUME NEW t \in Tasks, StoreResult(t)  PROVE TypeOK'
    BY <1>10 DEF TypeOK, StoreResult, PCs, sched, chans
  <1>11. ASSUME NEW t \in Tasks, mi_task_main(t)  PROVE TypeOK'
    <2>1. [pc EXCEPT ![t] = "ended"] \in [Tasks -> PCs]
      BY DEF TypeOK, PCs
    <2>2. mi_live >= 1
      BY <1>11, CountersPositive DEF mi_task_main
    <2>3. mi_live' \in Nat
      BY <1>11, <2>2 DEF TypeOK, mi_task_main
    <2>4. mi_wake_all([pc EXCEPT ![t] = "ended"])
      BY <1>11 DEF mi_task_main
    <2>5. /\ pc' \in [Tasks -> PCs] /\ since' \in [Tasks -> Nat]
          /\ mi_blocked' \in Nat /\ mi_epoch' \in Nat
      BY <2>1, <2>4, WakeType
    <2> QED
      BY <1>11, <2>3, <2>5 DEF TypeOK, mi_task_main, chans
  <1>12. ASSUME NEW t \in Tasks, RuntimeError(t)  PROVE TypeOK'
    BY <1>12 DEF TypeOK, RuntimeError, PCs, sched, chans, cells
  <1>13. ASSUME NEW t \in Tasks, Exit1(t)  PROVE TypeOK'
    BY <1>13 DEF TypeOK, Exit1, Bookkeeping, sched, chans, cells
  <1>14. ASSUME NEW t \in Tasks, SpuriousWakeup(t)  PROVE TypeOK'
    BY <1>14 DEF TypeOK, SpuriousWakeup, PCs, sched, chans, cells
  <1>15. CASE UNCHANGED vars
    BY <1>15 DEF TypeOK, vars
  <1> QED
    BY <1>1, <1>2, <1>3, <1>5, <1>6, <1>7, <1>8, <1>9, <1>10, <1>11, <1>12,
       <1>13, <1>14, <1>15 DEF Next, Step, Exited

-----------------------------------------------------------------------------
(* The kinds of steps, seen from the waiting threads *)

\* Everyone is notified, and nobody has the verdict of a deadlock.
WakeStep ==
  /\ LockFree /\ LockFree'
  /\ mi_blocked' = 0 /\ FreshSet' = {}
  /\ \A u \in Tasks : pc'[u] # "parked"

\* Nobody is notified, and nothing anyone waits for becomes true.
KeepStep ==
  /\ mi_blocked' = mi_blocked /\ FreshSet' = FreshSet
  /\ \A u \in Tasks : pc'[u] = "parked" => pc[u] = "parked"
  /\ \A u \in FreshSet : Ready(op[u])' => Ready(op[u])
  /\ (LockFree /\ LockFree') \/ (why' = why /\ LiveSet' = LiveSet)
  /\ \E u \in LiveSet' : u \notin FreshSet

ParkStep(t) ==
  /\ t \in LiveSet /\ ~Ready(op[t])
  /\ mi_blocked' = Cardinality(FreshSet \ {t}) + 1 /\ mi_blocked' < mi_live
  /\ FreshSet' = FreshSet \cup {t}
  /\ \A u \in Tasks : pc'[u] = "parked" => pc[u] = "parked" \/ u = t
  /\ UNCHANGED <<op, why, chans, done, mi_live, outcome>> /\ LiveSet' = LiveSet

VerdictStep(t) ==
  /\ t \in LiveSet /\ ~Ready(op[t]) /\ LockFree
  /\ Cardinality(FreshSet \ {t}) + 1 >= mi_live
  /\ FreshSet' = FreshSet \ {t}
  /\ \A u \in Tasks : pc'[u] = "parked" => pc[u] = "parked" /\ u # t
  /\ op' = [op EXCEPT ![t] = Idle]
  /\ why' = [why EXCEPT ![t] = "deadlock"]
  /\ UNCHANGED <<chans, done, mi_live, outcome>> /\ LiveSet' = LiveSet

\* A thread that is awake, or was notified, shows that nobody has a verdict.
LEMMA NoVerdict ==
  ASSUME IndInv, NEW t \in LiveSet, pc[t] # "failed", t \notin FreshSet
  PROVE  LockFree
  BY DEF IndInv, VerdictFacts, LockFree, FreshSet, LiveSet, Bookkeeping, TypeOK

LEMMA WakeEffect ==
  ASSUME IndInv, NEW t \in LiveSet, pc[t] # "failed", t \notin FreshSet,
         NEW p, mi_wake_all(p), DOMAIN p = Tasks, why' = why
  PROVE  WakeStep
  <1>1. LockFree
    BY NoVerdict
  <1>2. LockFree'
    BY <1>1 DEF LockFree
  <1>3. \A u \in Tasks : pc'[u] # "parked"
    BY DEF mi_wake_all
  <1>4. \A u \in Tasks : since'[u] # mi_epoch'
    BY DEF mi_wake_all, IndInv, Bookkeeping, TypeOK
  <1>5. FreshSet' = {}
    BY <1>4 DEF FreshSet, Fresh
  <1> QED
    BY <1>1, <1>2, <1>3, <1>5 DEF WakeStep, mi_wake_all

\* A step of t outside the lock, one that leaves it without a wake, or that
\* only raises mi_live: the waiting threads keep their place and their call.
LEMMA KeepEffect ==
  ASSUME IndInv, NEW t \in Tasks, t \notin FreshSet, NEW u \in Tasks, UNCHANGED <<mi_blocked, mi_epoch, since, chans, done>>,
         \A w \in Tasks \ {t, u} : pc'[w] = pc[w],
         \A w \in Tasks \ {t} : op'[w] = op[w],
         pc'[t] \notin {"unborn", "ended", "parked"},
         Waiting(t)' => Waiting(t), u = t \/ (~Waiting(u) /\ ~Waiting(u)'),
         mi_live' <= 1 => mi_live <= 1,
         (LockFree /\ LockFree') \/ (why' = why /\ LiveSet' = LiveSet)
  PROVE  KeepStep
  <1>1. \A w \in Tasks : Fresh(w)' <=> Fresh(w)
    BY DEF Fresh, Waiting, FreshSet
  <1>2. FreshSet' = FreshSet
    BY <1>1 DEF FreshSet
  <1>3. \A w \in Tasks : pc'[w] = "parked" => pc[w] = "parked"
    BY DEF Waiting
  <1>4. ASSUME NEW w \in FreshSet, Ready(op[w])'  PROVE Ready(op[w])
    <2>1. w # t /\ w \in Tasks
      BY DEF FreshSet
    <2> QED
      BY <1>4, <2>1 DEF Ready, chans
  <1>5. t \in LiveSet'
    BY DEF LiveSet
  <1> QED
    BY <1>2, <1>3, <1>4, <1>5 DEF KeepStep

LEMMA LoopKinds ==
  ASSUME IndInv, LockFree, NEW t \in Tasks, pc[t] \in {"locking", "woken"},
         NEW b \in Nat, b = Cardinality(FreshSet \ {t}), Loop(t, b)
  PROVE  WakeStep \/ KeepStep \/ ParkStep(t) \/ VerdictStep(t)
  <1>0. t \in LiveSet /\ pc[t] # "failed" /\ DOMAIN pc = Tasks
    BY DEF LiveSet, IndInv, TypeOK
  <1>1. CASE Proceed(t, b)
    <2>1. t \notin FreshSet
      BY <1>1 DEF Proceed, IndInv, CountedFacts, FreshSet
    <2>2. b = mi_blocked
      <3>1. FreshSet \ {t} = FreshSet
        BY <2>1
      <3> QED
        BY <3>1 DEF IndInv, CountersExact
    <2>3. ASSUME mi_wake_all([pc EXCEPT ![t] = "running"]), why' = why
          PROVE  WakeStep
      <3>1. DOMAIN [pc EXCEPT ![t] = "running"] = Tasks
        BY <1>0
      <3> QED
        BY <1>0, <2>1, <2>3, <3>1, WakeEffect
    <2>4. ASSUME NEW x \in {"running", "failed", "reading", "locking", "woken"},
                 x \in {"locking", "woken"} => x = pc[t],
                 Leave([pc EXCEPT ![t] = x], b),
                 \A w \in Tasks \ {t} : op'[w] = op[w],
                 why' = why \/ why' = [why EXCEPT ![t] = "closed"],
                 UNCHANGED <<ring, mi_live, closed, cells>>
          PROVE  KeepStep
      <3>1. \A w \in Tasks : pc'[w] = IF w = t THEN x ELSE pc[w]
        BY <1>0, <2>4 DEF Leave
      <3>2. UNCHANGED <<mi_blocked, mi_epoch, since, chans, done, mi_live>>
        BY <2>2, <2>4 DEF Leave, chans, cells
      <3>3. LockFree'
        BY <2>4 DEF LockFree, IndInv, TypeOK
      <3>4. Waiting(t)' => Waiting(t)
        BY <2>4, <3>1 DEF Waiting
      <3>5. pc'[t] \notin {"unborn", "ended", "parked"}
        BY <3>1
      <3> QED
        BY <2>1, <2>4, <3>1, <3>2, <3>3, <3>4, <3>5, KeepEffect
    <2>5. ASSUME NEW c \in Chans, mi_chan_send(t, c, b)  PROVE WakeStep \/ KeepStep
      <3>1. \A w \in Tasks \ {t} : op'[w] = op[w]
        BY <2>5 DEF mi_chan_send, IndInv, TypeOK
      <3>2. CASE closed[c] /\ why' = [why EXCEPT ![t] = "closed"]
                 /\ Leave([pc EXCEPT ![t] = "failed"], b) /\ UNCHANGED <<ring, got>>
        BY <1>1, <2>4, <3>1, <3>2 DEF Proceed
      <3>3. CASE mi_wake_all([pc EXCEPT ![t] = "running"]) /\ UNCHANGED why
        BY <2>3, <3>3
      <3> QED
        BY <2>5, <3>2, <3>3 DEF mi_chan_send
    <2>6. ASSUME NEW c \in Chans, mi_chan_recv(t, c, b)  PROVE WakeStep \/ KeepStep
      <3>1. (\A w \in Tasks \ {t} : op'[w] = op[w]) /\ why' = why
        BY <2>6 DEF mi_chan_recv, IndInv, TypeOK
      <3>2. CASE Leave([pc EXCEPT ![t] = "running"], b) /\ UNCHANGED ring
        BY <1>1, <2>4, <3>1, <3>2 DEF Proceed
      <3>3. CASE mi_wake_all([pc EXCEPT ![t] = "running"])
        BY <2>3, <3>1, <3>3
      <3> QED
        BY <2>6, <3>2, <3>3 DEF mi_chan_recv
    <2>7. ASSUME mi_task_wait(t, b)  PROVE KeepStep
      BY <1>1, <2>4, <2>7 DEF Proceed, mi_task_wait
    <2>8. ASSUME mi_tasks_finish(t, b)  PROVE KeepStep
      <3>1. [pc EXCEPT ![t] = pc[t]] = pc
        BY DEF IndInv, TypeOK
      <3> QED
        BY <1>1, <2>4, <2>8, <3>1 DEF Proceed, mi_tasks_finish
    <2> QED
      BY <1>1, <2>5, <2>6, <2>7, <2>8 DEF Proceed
  <1>2. CASE ~Ready(op[t]) /\ mi_deadlock(t, b)
    <2>1. \A u \in Tasks : pc'[u] = IF u = t THEN "failed" ELSE pc[u]
      BY <1>2 DEF mi_deadlock, IndInv, TypeOK
    <2>2. FreshSet' = FreshSet \ {t}
      BY <1>2, <2>1 DEF mi_deadlock, FreshSet, Fresh, Waiting
    <2>3. LiveSet' = LiveSet
      BY <1>0, <2>1 DEF LiveSet
    <2> QED
      BY <1>0, <1>2, <2>1, <2>2, <2>3 DEF mi_deadlock, VerdictStep, cells
  <1>3. CASE ~Ready(op[t]) /\ Park(t, b)
    <2>1. \A u \in Tasks : pc'[u] = IF u = t THEN "parked" ELSE pc[u]
      BY <1>3 DEF Park, IndInv, TypeOK
    <2>2. \A u \in Tasks : since'[u] = IF u = t THEN mi_epoch ELSE since[u]
      BY <1>3 DEF Park, IndInv, TypeOK
    <2>3. FreshSet' = FreshSet \cup {t}
      BY <1>3, <2>1, <2>2 DEF Park, FreshSet, Fresh, Waiting
    <2>4. LiveSet' = LiveSet
      BY <1>0, <2>1 DEF LiveSet
    <2> QED
      BY <1>0, <1>3, <2>1, <2>3, <2>4 DEF Park, ParkStep, cells
  <1> QED
    BY <1>1, <1>2, <1>3 DEF Loop, mi_block

\* Every step is of one of the four kinds.
LEMMA StepKinds ==
  ASSUME IndInv, [Next]_vars
  PROVE  WakeStep \/ KeepStep \/ \E t \in Tasks : ParkStep(t) \/ VerdictStep(t)
  <1> DEFINE Goal == WakeStep \/ KeepStep \/ \E t \in Tasks : ParkStep(t) \/ VerdictStep(t)
  <1>0. ASSUME NEW t \in Tasks, pc[t] \in {"running", "starting", "reading", "stored"}
        PROVE  t \in LiveSet /\ t \notin FreshSet /\ LockFree
    <2>1. t \in LiveSet /\ t \notin FreshSet /\ pc[t] # "failed"
      BY <1>0 DEF LiveSet, FreshSet, Fresh, Waiting
    <2> QED
      BY <2>1, NoVerdict
  <1>1. ASSUME NEW t \in Tasks, NEW u \in Tasks, mi_task_spawn(t, u)  PROVE Goal
    <2>1. \A w \in Tasks : pc'[w] = IF w = u THEN "born" ELSE IF w = t THEN "starting" ELSE pc[w]
      BY <1>1 DEF mi_task_spawn, IndInv, TypeOK
    <2>2. \A w \in Tasks \ {t} : op'[w] = op[w]
      BY <1>1 DEF mi_task_spawn, IndInv, TypeOK
    <2>3. LockFree /\ LockFree' /\ t \notin FreshSet
      BY <1>0, <1>1 DEF mi_task_spawn, LockFree
    <2>4. mi_live' <= 1 => mi_live <= 1
      BY <1>1 DEF mi_task_spawn, IndInv, TypeOK
    <2>5. t # u /\ ~Waiting(u)
      BY <1>1 DEF mi_task_spawn, Waiting
    <2>6. ~Waiting(u)' /\ pc'[t] \notin {"parked", "unborn", "ended"} /\ ~Waiting(t)'
      BY <2>1, <2>5 DEF Waiting
    <2>7. UNCHANGED <<mi_blocked, mi_epoch, since, chans, done>>
      BY <1>1 DEF mi_task_spawn, cells
    <2> QED
      BY <2>1, <2>2, <2>3, <2>4, <2>5, <2>6, <2>7, KeepEffect
  <1>2. ASSUME NEW t \in Tasks, ThreadStarts(t)  PROVE Goal
    <2>1. PICK u \in Tasks : u = op[t].task /\ pc[u] = "born" /\ pc[t] = "starting"
      BY <1>2, OpFields DEF IndInv, Bookkeeping, TypeOK, ThreadStarts
    <2>2. \A w \in Tasks : pc'[w] = IF w = u \/ w = t THEN "running" ELSE pc[w]
      BY <1>2, <2>1 DEF ThreadStarts, IndInv, TypeOK
    <2>3. \A w \in Tasks \ {t} : op'[w] = op[w]
      BY <1>2 DEF ThreadStarts, IndInv, TypeOK
    <2>4. LockFree /\ LockFree' /\ t \notin FreshSet
      BY <1>0, <1>2 DEF ThreadStarts, LockFree
    <2>5. ~Waiting(u) /\ ~Waiting(u)' /\ pc'[t] \notin {"parked", "unborn", "ended"} /\ ~Waiting(t)'
      BY <2>1, <2>2 DEF Waiting
    <2>6. UNCHANGED <<mi_blocked, mi_epoch, since, chans, done, mi_live>>
      BY <1>2 DEF ThreadStarts, sched, cells
    <2> QED
      BY <2>1, <2>2, <2>3, <2>4, <2>5, <2>6, KeepEffect
  \* Steps of t alone that touch neither the counters nor the channels.
  <1>3. ASSUME NEW t \in Tasks, NEW x \in PCs \ {"parked", "woken", "unborn", "ended"},
               pc[t] \in {"running", "starting", "reading", "stored"},
               pc' = [pc EXCEPT ![t] = x],
               \A w \in Tasks \ {t} : op'[w] = op[w],
               why' = why \/ (\E code \in {"error", "spawn"} : why' = [why EXCEPT ![t] = code]),
               UNCHANGED <<sched, chans, done>>
        PROVE  Goal
    <2>1. \A w \in Tasks : pc'[w] = IF w = t THEN x ELSE pc[w]
      BY <1>3 DEF IndInv, TypeOK
    <2>2. LockFree /\ LockFree' /\ t \notin FreshSet
      BY <1>0, <1>3 DEF LockFree, IndInv, TypeOK
    <2>3. UNCHANGED <<mi_blocked, mi_epoch, since, chans, done, mi_live>>
            /\ ~Waiting(t)' /\ pc'[t] \notin {"parked", "unborn", "ended"}
      BY <1>3, <2>1 DEF sched, Waiting
    <2> QED
      BY <1>3, <2>1, <2>2, <2>3, KeepEffect
  <1>4. ASSUME NEW t \in Tasks, ThreadRefused(t)  PROVE Goal
    <2>1. "failed" \in PCs \ {"parked", "woken", "unborn", "ended"}
      BY DEF PCs
    <2>2. \A w \in Tasks \ {t} : op'[w] = op[w]
      BY <1>4 DEF ThreadRefused, IndInv, TypeOK
    <2> QED
      BY <1>3, <1>4, <2>1, <2>2 DEF ThreadRefused, cells
  <1>5. ASSUME NEW t \in Tasks, NEW o, Call(t, o)  PROVE Goal
    <2>1. "locking" \in PCs \ {"parked", "woken", "unborn", "ended"}
      BY DEF PCs
    <2>2. \A w \in Tasks \ {t} : op'[w] = op[w]
      BY <1>5 DEF Call, IndInv, TypeOK
    <2> QED
      BY <1>3, <1>5, <2>1, <2>2 DEF Call, cells
  <1>6. ASSUME NEW t \in Tasks, CallSend(t) \/ CallRecv(t) \/ CallWait(t) \/ MainEnds(t)
        PROVE  Goal
    BY <1>5, <1>6 DEF CallSend, CallRecv, CallWait, MainEnds
  <1>7. ASSUME NEW t \in Tasks, ReadResult(t)  PROVE Goal
    <2>1. "running" \in PCs \ {"parked", "woken", "unborn", "ended"}
      BY DEF PCs
    <2>2. \A w \in Tasks \ {t} : op'[w] = op[w]
      BY <1>7 DEF ReadResult, IndInv, TypeOK
    <2> QED
      BY <1>3, <1>7, <2>1, <2>2 DEF ReadResult, cells
  <1>8. ASSUME NEW t \in Tasks, StoreResult(t)  PROVE Goal
    <2>1. "stored" \in PCs \ {"parked", "woken", "unborn", "ended"}
      BY DEF PCs
    <2> QED
      BY <1>3, <1>8, <2>1 DEF StoreResult
  <1>9. ASSUME NEW t \in Tasks, RuntimeError(t)  PROVE Goal
    <2>1. "failed" \in PCs \ {"parked", "woken", "unborn", "ended"}
      BY DEF PCs
    <2> QED
      BY <1>3, <1>9, <2>1 DEF RuntimeError, cells
  <1>10. ASSUME NEW t \in Tasks, NEW p, mi_wake_all(p), DOMAIN p = Tasks, why' = why,
                pc[t] \in {"running", "starting", "reading", "stored"}
         PROVE  Goal
    <2>1. t \in LiveSet /\ t \notin FreshSet /\ pc[t] # "failed"
      BY <1>0, <1>10
    <2> QED
      BY <1>10, <2>1, WakeEffect
  <1>11. ASSUME NEW t \in Tasks, NEW c \in Chans, mi_chan_close(t, c)  PROVE Goal
    BY <1>10, <1>11 DEF mi_chan_close, IndInv, TypeOK
  <1>12. ASSUME NEW t \in Tasks, mi_task_main(t)  PROVE Goal
    <2>1. DOMAIN [pc EXCEPT ![t] = "ended"] = Tasks
      BY DEF IndInv, TypeOK
    <2> QED
      BY <1>10, <1>12, <2>1 DEF mi_task_main
  <1>13. ASSUME NEW t \in Tasks, Enter(t)  PROVE Goal
    <2>1. t \notin FreshSet /\ FreshSet \ {t} = FreshSet
      BY <1>13 DEF Enter, FreshSet, Fresh, Waiting
    <2>2. mi_blocked \in Nat /\ mi_blocked = Cardinality(FreshSet \ {t})
      BY <1>13, <2>1 DEF Enter, IndInv, TypeOK, CountersExact
    <2> QED
      BY <1>13, <2>2, LoopKinds DEF Enter, Loop
  <1>14. ASSUME NEW t \in Tasks, Return(t)  PROVE Goal
    <2>1. t \in FreshSet <=> since[t] = mi_epoch
      BY <1>14 DEF Return, FreshSet, Fresh, Waiting
    <2>2. FreshSet \in SUBSET Tasks
      BY DEF FreshSet
    <2>3. mi_blocked = Cardinality(FreshSet)
      BY <1>14 DEF Return, IndInv, CountersExact
    <2>4. Uncount(t) = Cardinality(FreshSet \ {t})
      BY <2>1, <2>2, <2>3, Counting DEF Uncount
    <2>5. FreshSet \ {t} \in SUBSET Tasks
      BY <2>2
    <2>6. Cardinality(FreshSet \ {t}) \in Nat
      BY <2>5, Counting
    <2> QED
      BY <1>14, <2>4, <2>6, LoopKinds DEF Return, Loop
  <1>15. ASSUME NEW t \in Tasks, SpuriousWakeup(t)  PROVE Goal
    <2>1. \A w \in Tasks : pc'[w] = IF w = t THEN "woken" ELSE pc[w]
      BY <1>15 DEF SpuriousWakeup, IndInv, TypeOK
    <2>2. LiveSet' = LiveSet
      BY <1>15, <2>1 DEF LiveSet, SpuriousWakeup
    <2>3. FreshSet' = FreshSet
      BY <1>15, <2>1 DEF FreshSet, Fresh, Waiting, SpuriousWakeup, sched
    <2>4. \A w \in FreshSet : Ready(op[w])' => Ready(op[w])
      BY <1>15 DEF SpuriousWakeup, Ready, sched, chans, cells
    <2> QED
      BY <1>15, <2>1, <2>2, <2>3, <2>4 DEF SpuriousWakeup, KeepStep, IndInv, sched
  <1>16. ASSUME UNCHANGED <<pc, op, sched, why, chans, cells>>  PROVE Goal
    BY <1>16 DEF KeepStep, IndInv, FreshSet, Fresh, Waiting, LiveSet, Ready, sched, chans, cells
  <1>17. ASSUME NEW t \in Tasks, Exit1(t)  PROVE Goal
    BY <1>16, <1>17 DEF Exit1
  <1>18. ASSUME UNCHANGED vars  PROVE Goal
    BY <1>16, <1>18 DEF vars, sched, chans, cells
  <1> HIDE DEF Goal
  <1>19. ASSUME NEW t \in Tasks, Step(t)  PROVE Goal
    BY <1>1, <1>2, <1>4, <1>6, <1>7, <1>8, <1>9, <1>11, <1>12, <1>13, <1>14,
       <1>17, <1>19, Zenon DEF Step
  <1>20. Goal
    <2>1. ASSUME \E t \in Tasks : Step(t) \/ SpuriousWakeup(t)  PROVE Goal
      BY <1>15, <1>19, <2>1
    <2>2. ASSUME Exited  PROVE Goal
      BY <1>18, <2>2 DEF Exited
    <2> QED
      BY <1>18, <2>1, <2>2 DEF Next
  <1> QED
    BY <1>20 DEF Goal

-----------------------------------------------------------------------------
(* What a step preserves, kind by kind *)

LEMMA NextBlocked ==
  ASSUME IndInv, [Next]_vars
  PROVE  LockFree' => mi_blocked' = Cardinality(FreshSet')
  <1>1. FreshSet \in SUBSET Tasks
    BY DEF FreshSet
  <1>2. CASE WakeStep
    BY <1>2, FS_EmptySet DEF WakeStep
  <1>3. CASE KeepStep
    <2>1. LockFree' => LockFree
      BY <1>3 DEF KeepStep, LockFree
    <2> QED
      BY <1>3, <2>1 DEF KeepStep, IndInv, CountersExact
  <1>4. ASSUME NEW t \in Tasks, ParkStep(t)  PROVE mi_blocked' = Cardinality(FreshSet')
    <2>1. FreshSet \ {t} \in SUBSET Tasks /\ t \notin FreshSet \ {t}
      BY <1>1
    <2>2. Cardinality((FreshSet \ {t}) \cup {t}) = Cardinality(FreshSet \ {t}) + 1
      BY <2>1, Counting
    <2>3. (FreshSet \ {t}) \cup {t} = FreshSet'
      BY <1>4 DEF ParkStep
    <2> QED
      BY <1>4, <2>2, <2>3 DEF ParkStep
  <1>5. ASSUME NEW t \in Tasks, VerdictStep(t)  PROVE ~LockFree'
    BY <1>5 DEF VerdictStep, LockFree, IndInv, TypeOK
  <1> QED
    BY <1>2, <1>3, <1>4, <1>5, StepKinds

LEMMA NextCounted ==
  ASSUME IndInv, [Next]_vars, TypeOK'
  PROVE  CountedFacts'
  <1>0. /\ \A u \in Tasks : u \in FreshSet <=> Fresh(u)
        /\ \A u \in Tasks : u \in FreshSet' <=> Fresh(u)'
        /\ \A u \in Tasks : pc[u] = "parked" => u \in FreshSet
        /\ \A u \in FreshSet : u \in Tasks /\ ~Ready(op[u])
    BY DEF FreshSet, IndInv, CountedFacts
  <1>1. SUFFICES /\ \A u \in Tasks : pc'[u] = "parked" => u \in FreshSet'
                 /\ \A u \in FreshSet' : ~Ready(op[u])'
    BY <1>0 DEF CountedFacts
  <1>2. CASE WakeStep
    BY <1>2 DEF WakeStep
  <1>3. CASE KeepStep
    BY <1>0, <1>3 DEF KeepStep
  <1>4. ASSUME NEW t \in Tasks, ParkStep(t)
        PROVE  /\ \A u \in Tasks : pc'[u] = "parked" => u \in FreshSet'
               /\ \A u \in FreshSet' : ~Ready(op[u])'
    <2>1. \A u \in Tasks : ~Ready(op[u]) => ~Ready(op[u])'
      BY <1>4 DEF ParkStep, Ready, chans
    <2> QED
      BY <1>0, <1>4, <2>1 DEF ParkStep
  <1>5. ASSUME NEW t \in Tasks, VerdictStep(t)
        PROVE  /\ \A u \in Tasks : pc'[u] = "parked" => u \in FreshSet'
               /\ \A u \in FreshSet' : ~Ready(op[u])'
    <2>1. \A u \in Tasks \ {t} : op'[u] = op[u]
      BY <1>5 DEF VerdictStep, IndInv, TypeOK
    <2>2. \A u \in Tasks \ {t} : ~Ready(op[u]) => ~Ready(op[u])'
      BY <1>5, <2>1 DEF VerdictStep, Ready, chans
    <2> QED
      BY <1>0, <1>5, <2>2 DEF VerdictStep
  <1> QED
    BY <1>2, <1>3, <1>4, <1>5, StepKinds

\* A verdict means that all the others are counted; nobody else can get one.
LEMMA NextVerdict ==
  ASSUME IndInv, [Next]_vars
  PROVE  VerdictFacts'
  <1>0. /\ FreshSet \in SUBSET Tasks /\ LiveSet \in SUBSET Tasks
        /\ FreshSet \subseteq LiveSet
        /\ \A u \in Tasks : u \in FreshSet' <=> Fresh(u)'
        /\ \A u \in Tasks : u \in FreshSet <=> Fresh(u)
        /\ mi_live = Cardinality(LiveSet)
    BY DEF FreshSet, Fresh, Waiting, LiveSet, IndInv, CountersExact
  <1>1. CASE LockFree'
    BY <1>1 DEF LockFree, VerdictFacts
  <1>2. ASSUME why' = why, LiveSet' = LiveSet, FreshSet \subseteq FreshSet'
        PROVE  VerdictFacts'
    BY <1>0, <1>2 DEF VerdictFacts, IndInv
  <1>3. CASE KeepStep
    BY <1>1, <1>2, <1>3 DEF KeepStep
  <1>4. ASSUME NEW t \in Tasks, ParkStep(t)  PROVE VerdictFacts'
    BY <1>2, <1>4 DEF ParkStep
  <1>5. ASSUME NEW t \in Tasks, VerdictStep(t)  PROVE VerdictFacts'
    <2>1. /\ FreshSet \ {t} \subseteq LiveSet \ {t}
          /\ LiveSet \ {t} \in SUBSET Tasks /\ FreshSet \ {t} \in SUBSET Tasks
          /\ t \in LiveSet
      BY <1>0, <1>5 DEF VerdictStep
    <2>2. Cardinality(LiveSet \ {t}) = mi_live - 1
      BY <1>0, <2>1, Counting
    <2>3. Cardinality(FreshSet \ {t}) >= mi_live - 1
      <3>1. Cardinality(FreshSet \ {t}) \in Nat /\ mi_live \in Nat
        BY <1>0, <2>1, Counting
      <3> QED
        BY <1>5, <3>1 DEF VerdictStep
    <2>4. Cardinality(FreshSet \ {t}) <= Cardinality(LiveSet \ {t})
      BY <2>1, Counting
    <2>5. Cardinality(FreshSet \ {t}) = Cardinality(LiveSet \ {t})
      <3>1. /\ Cardinality(FreshSet \ {t}) \in Nat
            /\ Cardinality(LiveSet \ {t}) \in Nat
        BY <2>1, Counting
      <3> QED
        BY <2>2, <2>3, <2>4, <3>1
    <2>6. FreshSet \ {t} = LiveSet \ {t}
      BY <2>1, <2>5, Counting
    <2>7. \A u \in LiveSet \ {t} : Fresh(u)'
      BY <1>0, <1>5, <2>6 DEF VerdictStep
    <2>8. \A u \in Tasks : why'[u] = "deadlock" => u = t
      BY <1>5 DEF VerdictStep, LockFree, IndInv, TypeOK
    <2> QED
      BY <1>5, <2>7, <2>8 DEF VerdictFacts, VerdictStep
  <1>6. CASE WakeStep
    BY <1>1, <1>6 DEF WakeStep
  <1> QED
    BY <1>3, <1>4, <1>5, <1>6, StepKinds

\* Somebody stays awake: nobody parks as the last one (see ParkStep).
LEMMA NextAwake ==
  ASSUME IndInv, [Next]_vars, TypeOK', Bookkeeping'
  PROVE  \E t \in LiveSet' : t \notin FreshSet'
  <1>0. PICK a \in LiveSet : a \notin FreshSet
    BY DEF IndInv
  <1>1. CASE FreshSet' = {}
    <2>1. Main \in LiveSet'
      BY ConcAssumption DEF ConcAssumption, Bookkeeping, LiveSet
    <2> QED
      BY <1>1, <2>1
  <1>2. CASE LiveSet' = LiveSet /\ FreshSet' \subseteq FreshSet
    BY <1>0, <1>2
  <1>3. ASSUME NEW t \in Tasks, ParkStep(t)
        PROVE  \E u \in LiveSet' : u \notin FreshSet'
    <2>1. FreshSet \in SUBSET Tasks /\ LiveSet \in SUBSET Tasks
            /\ FreshSet \subseteq LiveSet /\ t \in LiveSet /\ LiveSet' = LiveSet
      BY <1>3 DEF FreshSet, Fresh, Waiting, LiveSet, ParkStep
    <2>2. FreshSet' = FreshSet \cup {t} /\ FreshSet' \in SUBSET LiveSet
      BY <1>3, <2>1 DEF ParkStep
    <2>3. Cardinality(FreshSet') < Cardinality(LiveSet)
      <3>1. FreshSet \ {t} \in SUBSET Tasks /\ t \notin FreshSet \ {t}
        BY <2>1
      <3>2. Cardinality((FreshSet \ {t}) \cup {t}) = Cardinality(FreshSet \ {t}) + 1
        BY <3>1, Counting
      <3>3. (FreshSet \ {t}) \cup {t} = FreshSet'
        BY <2>2
      <3> QED
        BY <1>3, <3>2, <3>3 DEF ParkStep, IndInv, CountersExact
    <2>4. Cardinality(FreshSet') \in Nat /\ Cardinality(LiveSet) \in Nat
      BY <2>1, <2>2, Counting
    <2>5. FreshSet' # LiveSet
      BY <2>3, <2>4
    <2> QED
      BY <2>1, <2>2, <2>5
  <1>4. CASE KeepStep
    BY <1>4 DEF KeepStep
  <1>5. ASSUME NEW t \in Tasks, VerdictStep(t)
        PROVE  \E u \in LiveSet' : u \notin FreshSet'
    BY <1>2, <1>5 DEF VerdictStep
  <1>6. CASE WakeStep
    BY <1>1, <1>6 DEF WakeStep
  <1> QED
    BY <1>3, <1>4, <1>5, <1>6, StepKinds

LEMMA NextLive ==
  ASSUME IndInv, [Next]_vars
  PROVE  mi_live' = Cardinality(LiveSet')
  <1>0. LiveSet \in SUBSET Tasks /\ mi_live = Cardinality(LiveSet)
    BY DEF LiveSet, IndInv, CountersExact
  <1>1. ASSUME NEW t \in Tasks, NEW u \in Tasks, mi_task_spawn(t, u)
        PROVE  mi_live' = Cardinality(LiveSet')
    <2>1. LiveSet' = LiveSet \cup {u} /\ u \notin LiveSet
      BY <1>1 DEF mi_task_spawn, LiveSet, IndInv, TypeOK
    <2> QED
      BY <1>0, <1>1, <2>1, Counting DEF mi_task_spawn
  <1>2. ASSUME NEW t \in Tasks, mi_task_main(t)
        PROVE  mi_live' = Cardinality(LiveSet')
    <2>1. \A w \in Tasks : pc'[w] = IF w = t THEN "ended"
                                    ELSE IF pc[w] = "parked" THEN "woken" ELSE pc[w]
      BY <1>2 DEF mi_task_main, mi_wake_all, IndInv, TypeOK
    <2>2. LiveSet' = LiveSet \ {t} /\ t \in LiveSet
      BY <1>2, <2>1 DEF LiveSet, mi_task_main
    <2> QED
      BY <1>0, <1>2, <2>2, Counting DEF mi_task_main
  <1>3. ASSUME mi_live' = mi_live,
               \A w \in Tasks : pc[w] \in {"unborn", "ended"} <=> pc'[w] \in {"unborn", "ended"}
        PROVE  mi_live' = Cardinality(LiveSet')
    <2>1. LiveSet' = LiveSet
      BY <1>3 DEF LiveSet
    <2> QED
      BY <1>0, <1>3, <2>1
  <1>4. ASSUME NEW t \in Tasks, pc[t] \notin {"unborn", "ended"}, mi_live' = mi_live,
               NEW x, x \notin {"unborn", "ended"}, pc' = [pc EXCEPT ![t] = x]
        PROVE  mi_live' = Cardinality(LiveSet')
    BY <1>3, <1>4 DEF IndInv, TypeOK
  <1>5. ASSUME NEW t \in Tasks, pc[t] \notin {"unborn", "ended"}, mi_live' = mi_live,
               NEW x, x \notin {"unborn", "ended"}, mi_wake_all([pc EXCEPT ![t] = x])
        PROVE  mi_live' = Cardinality(LiveSet')
    <2>1. \A w \in Tasks : pc'[w] = IF w = t /\ x # "parked" THEN x
                                    ELSE IF w = t \/ pc[w] = "parked" THEN "woken" ELSE pc[w]
      BY <1>5 DEF mi_wake_all, IndInv, TypeOK
    <2> QED
      BY <1>3, <1>5, <2>1
  <1>6. ASSUME NEW t \in Tasks, NEW b, pc[t] \in {"locking", "woken"}, Loop(t, b)
        PROVE  mi_live' = Cardinality(LiveSet')
    <2>1. ASSUME NEW c \in Chans, Proceed(t, b), mi_chan_send(t, c, b)
          PROVE  mi_live' = Cardinality(LiveSet')
      BY <1>4, <1>5, <1>6, <2>1 DEF Proceed, mi_chan_send, Leave
    <2>2. ASSUME NEW c \in Chans, Proceed(t, b), mi_chan_recv(t, c, b)
          PROVE  mi_live' = Cardinality(LiveSet')
      BY <1>4, <1>5, <1>6, <2>2 DEF Proceed, mi_chan_recv, Leave
    <2>3. ASSUME Proceed(t, b), mi_task_wait(t, b)  PROVE mi_live' = Cardinality(LiveSet')
      BY <1>4, <1>6, <2>3 DEF Proceed, mi_task_wait, Leave
    <2>4. ASSUME Proceed(t, b), mi_tasks_finish(t, b)  PROVE mi_live' = Cardinality(LiveSet')
      BY <1>3, <1>6, <2>4 DEF Proceed, mi_tasks_finish, Leave
    <2>5. CASE mi_deadlock(t, b)
      BY <1>4, <1>6, <2>5 DEF mi_deadlock
    <2>6. CASE Park(t, b)
      BY <1>4, <1>6, <2>6 DEF Park
    <2> QED
      BY <1>6, <2>1, <2>2, <2>3, <2>4, <2>5, <2>6, Zenon DEF Loop, mi_block, Proceed
  <1>7. ASSUME NEW t \in Tasks, ThreadStarts(t)  PROVE mi_live' = Cardinality(LiveSet')
    <2>1. PICK u \in Tasks : u = op[t].task /\ pc[u] = "born" /\ pc[t] = "starting"
      BY <1>7, OpFields DEF IndInv, Bookkeeping, TypeOK, ThreadStarts
    <2>2. \A w \in Tasks : pc'[w] = IF w = u \/ w = t THEN "running" ELSE pc[w]
      BY <1>7, <2>1 DEF ThreadStarts, IndInv, TypeOK
    <2>3. \A w \in Tasks : pc[w] \in {"unborn", "ended"} <=> pc'[w] \in {"unborn", "ended"}
      BY <2>1, <2>2
    <2>4. mi_live' = mi_live
      BY <1>7 DEF ThreadStarts, sched
    <2> QED
      BY <1>3, <2>3, <2>4
  <1>8. ASSUME NEW t \in Tasks, NEW o, Call(t, o)  PROVE mi_live' = Cardinality(LiveSet')
    BY <1>4, <1>8 DEF Call, sched
  <1>9. ASSUME NEW t \in Tasks, CallSend(t) \/ CallRecv(t) \/ CallWait(t) \/ MainEnds(t)
         PROVE  mi_live' = Cardinality(LiveSet')
    BY <1>8, <1>9 DEF CallSend, CallRecv, CallWait, MainEnds
  <1>10. ASSUME NEW t \in Tasks, Enter(t) \/ Return(t)
         PROVE  mi_live' = Cardinality(LiveSet')
    BY <1>6, <1>10 DEF Enter, Return, Loop
  <1>11. ASSUME NEW t \in Tasks, ReadResult(t)  PROVE mi_live' = Cardinality(LiveSet')
    BY <1>4, <1>11 DEF ReadResult, sched
  <1>12. ASSUME NEW t \in Tasks, NEW c \in Chans, mi_chan_close(t, c)
         PROVE  mi_live' = Cardinality(LiveSet')
    BY <1>3, <1>12 DEF mi_chan_close, mi_wake_all
  <1>13. ASSUME NEW t \in Tasks, StoreResult(t)  PROVE mi_live' = Cardinality(LiveSet')
    BY <1>4, <1>13 DEF StoreResult, sched
  <1>14. ASSUME NEW t \in Tasks, RuntimeError(t) \/ ThreadRefused(t)
         PROVE  mi_live' = Cardinality(LiveSet')
    BY <1>4, <1>14 DEF RuntimeError, ThreadRefused, sched
  <1>15. ASSUME NEW t \in Tasks, Exit1(t)  PROVE mi_live' = Cardinality(LiveSet')
    BY <1>3, <1>15 DEF Exit1, sched
  <1>16. ASSUME NEW t \in Tasks, SpuriousWakeup(t)  PROVE mi_live' = Cardinality(LiveSet')
    BY <1>4, <1>16 DEF SpuriousWakeup, sched
  <1>17. CASE UNCHANGED vars
    BY <1>3, <1>17 DEF vars
  <1>18. ASSUME NEW t \in Tasks, Step(t)  PROVE mi_live' = Cardinality(LiveSet')
    BY <1>1, <1>2, <1>7, <1>9, <1>10, <1>11, <1>12, <1>13, <1>14, <1>15,
       <1>18, Zenon DEF Step
  <1> QED
    BY <1>16, <1>17, <1>18 DEF Next, Exited

-----------------------------------------------------------------------------
(* The places of the threads and their calls *)

\* A step that changes the place of t only (and wakes the parked).
LEMMA BookOne ==
  ASSUME IndInv, TypeOK', NEW t \in Tasks, pc[t] # "born", mi_epoch' >= mi_epoch,
         \A w \in Tasks \ {t} :
            /\ pc'[w] = pc[w] \/ (pc[w] = "parked" /\ pc'[w] = "woken")
            /\ op'[w] = op[w] /\ why'[w] = why[w] /\ done'[w] = done[w]
            /\ since'[w] = since[w],
         pc'[t] \notin {"starting", "born", "unborn"},
         t = Main => pc'[t] \notin {"stored", "ended"},
         pc'[t] \in {"locking", "parked", "woken"} =>
            op'[t].kind \in {"send", "recv", "wait", "all"},
         pc'[t] = "reading" => op'[t].kind = "wait" /\ done'[op'[t].task],
         op'[t].kind = "all" => t = Main,
         since'[t] <= mi_epoch',
         done[t] => done'[t],
         done'[t] <=> pc'[t] = "ended",
         why'[t] # "none" <=> pc'[t] = "failed"
  PROVE  Bookkeeping'
  <1>1. pc'[Main] \notin {"unborn", "born", "stored", "ended"}
    BY ConcAssumption DEF ConcAssumption, IndInv, Bookkeeping
  <1>2. ASSUME NEW w \in Tasks \ {t}
        PROVE  /\ pc'[w] \in {"locking", "parked", "woken"} =>
                     op'[w].kind \in {"send", "recv", "wait", "all"}
               /\ pc'[w] = "reading" => op'[w].kind = "wait" /\ done'[op'[w].task]
               /\ op'[w].kind = "all" => w = Main
               /\ pc'[w] = "starting" => op'[w].kind = "spawn" /\ pc'[op'[w].task] = "born"
               /\ since'[w] <= mi_epoch'
               /\ done'[w] <=> pc'[w] = "ended"
               /\ why'[w] # "none" <=> pc'[w] = "failed"
    <2>1. pc'[w] = "reading" => op'[w].kind = "wait" /\ done'[op'[w].task]
      <3>1. pc[w] = "reading" => op[w].kind = "wait" /\ op[w].task \in Tasks /\ done[op[w].task]
        BY OpFields DEF IndInv, Bookkeeping, TypeOK
      <3> QED
        BY <3>1
    <2>2. pc'[w] = "starting" => op'[w].kind = "spawn" /\ pc'[op'[w].task] = "born"
      <3>1. pc[w] = "starting" => op[w].kind = "spawn" /\ op[w].task \in Tasks
                                    /\ pc[op[w].task] = "born"
        BY OpFields DEF IndInv, Bookkeeping, TypeOK
      <3> QED
        BY <3>1
    <2>3. since'[w] <= mi_epoch'
      BY DEF IndInv, Bookkeeping, TypeOK
    <2> QED
      BY <2>1, <2>2, <2>3 DEF IndInv, Bookkeeping
  <1>3. \A w, u \in Tasks : pc'[w] = "starting" /\ pc'[u] = "starting"
                              /\ op'[w].task = op'[u].task => w = u
    BY DEF IndInv, Bookkeeping
  <1> QED
    BY <1>1, <1>2, <1>3 DEF Bookkeeping

\* t leaves for x, the other threads keep their calls.
GoesTo(t, x) ==
  /\ pc[t] \notin {"born", "unborn", "ended"}
  /\ x \in {"running", "locking", "parked", "woken", "reading", "stored", "failed"}
  /\ t = Main => x # "stored"
  /\ pc' = [pc EXCEPT ![t] = x] \/ mi_wake_all([pc EXCEPT ![t] = x])
  /\ mi_epoch' \in {mi_epoch, mi_epoch + 1}
  /\ \A w \in Tasks \ {t} : op'[w] = op[w] /\ since'[w] = since[w]
  /\ since'[t] <= mi_epoch
  /\ UNCHANGED done
  /\ op'[t].kind = "all" => t = Main
  /\ x \in {"locking", "parked", "woken"} => op'[t].kind \in {"send", "recv", "wait", "all"}
  /\ x = "reading" => op'[t].kind = "wait" /\ done[op'[t].task]
  /\ IF x = "failed"
     THEN \E code \in {"error", "spawn", "closed", "deadlock"} : why' = [why EXCEPT ![t] = code]
     ELSE why' = why /\ pc[t] # "failed"

LEMMA BookSimple ==
  ASSUME IndInv, TypeOK', NEW t \in Tasks, NEW x, GoesTo(t, x)
  PROVE  Bookkeeping'
  <1> USE DEF GoesTo
  <1>1. \A w \in Tasks \ {t} : pc'[w] = pc[w] \/ (pc[w] = "parked" /\ pc'[w] = "woken")
    BY DEF IndInv, TypeOK, mi_wake_all
  <1>2. pc'[t] = x \/ (x = "parked" /\ pc'[t] = "woken")
    BY DEF IndInv, TypeOK, mi_wake_all
  <1>3. \A w \in Tasks \ {t} : why'[w] = why[w]
    BY DEF IndInv, TypeOK
  <1>4. why'[t] # "none" <=> x = "failed"
    BY DEF IndInv, TypeOK, Bookkeeping
  <1>5. mi_epoch' >= mi_epoch /\ since'[t] <= mi_epoch'
    BY DEF IndInv, TypeOK
  <1>6. ~done[t]
    BY DEF IndInv, TypeOK, Bookkeeping
  <1> QED
    BY <1>1, <1>2, <1>3, <1>4, <1>5, <1>6, BookOne

LEMMA LoopBook ==
  ASSUME IndInv, TypeOK', NEW t \in Tasks, NEW b \in Nat,
         pc[t] \in {"locking", "woken"}, Loop(t, b)
  PROVE  Bookkeeping'
  <1>0. /\ op[t].kind \in {"send", "recv", "wait", "all"}
        /\ op[t].kind = "all" => t = Main
        /\ since[t] <= mi_epoch /\ mi_epoch \in Nat
        /\ Idle.kind = "none"
    BY DEF IndInv, Bookkeeping, TypeOK, Idle
  \* Leaving the lock, with or without a wake.
  <1>1. ASSUME NEW x \in {"running", "reading"}, NEW p, p = [pc EXCEPT ![t] = x],
               Leave(p, b) \/ mi_wake_all(p), UNCHANGED <<why, done>>,
               op'[t].kind # "all", \A w \in Tasks \ {t} : op'[w] = op[w],
               x = "reading" => op'[t].kind = "wait" /\ done[op'[t].task]
        PROVE  Bookkeeping'
    <2>1. since' = since /\ mi_epoch' \in {mi_epoch, mi_epoch + 1}
      BY <1>1 DEF Leave, mi_wake_all
    <2>2. pc' = [pc EXCEPT ![t] = x] \/ mi_wake_all([pc EXCEPT ![t] = x])
      BY <1>1 DEF Leave
    <2>3. since'[t] <= mi_epoch /\ \A w \in Tasks \ {t} : op'[w] = op[w] /\ since'[w] = since[w]
      BY <1>0, <1>1, <2>1
    <2>4. GoesTo(t, x)
      BY <1>1, <2>1, <2>2, <2>3 DEF GoesTo
    <2> QED
      BY <2>4, BookSimple
  <1>2. ASSUME NEW code \in {"closed", "deadlock"},
               pc' = [pc EXCEPT ![t] = "failed"], why' = [why EXCEPT ![t] = code],
               UNCHANGED <<mi_epoch, since, done>>,
               op'[t].kind # "all", \A w \in Tasks \ {t} : op'[w] = op[w]
        PROVE  Bookkeeping'
    <2>1. \E k \in {"error", "spawn", "closed", "deadlock"} : why' = [why EXCEPT ![t] = k]
      BY <1>2
    <2>2. since'[t] <= mi_epoch /\ \A w \in Tasks \ {t} : op'[w] = op[w] /\ since'[w] = since[w]
      BY <1>0, <1>2
    <2>3. GoesTo(t, "failed")
      BY <1>2, <2>1, <2>2 DEF GoesTo
    <2> QED
      BY <2>3, BookSimple
  <1>3. ASSUME NEW c \in Chans, Proceed(t, b), mi_chan_send(t, c, b)  PROVE Bookkeeping'
    <2>1. /\ \A w \in Tasks \ {t} : op'[w] = op[w]
          /\ op'[t].kind # "all" /\ UNCHANGED done
      BY <1>0, <1>3 DEF Proceed, mi_chan_send, cells, IndInv, TypeOK
    <2>2. \/ mi_wake_all([pc EXCEPT ![t] = "running"]) /\ why' = why
          \/ Leave([pc EXCEPT ![t] = "failed"], b) /\ why' = [why EXCEPT ![t] = "closed"]
      BY <1>3 DEF mi_chan_send
    <2>3. CASE mi_wake_all([pc EXCEPT ![t] = "running"]) /\ why' = why
      BY <1>1, <2>1, <2>3
    <2>4. CASE Leave([pc EXCEPT ![t] = "failed"], b) /\ why' = [why EXCEPT ![t] = "closed"]
      BY <1>2, <2>1, <2>4 DEF Leave
    <2> QED
      BY <2>2, <2>3, <2>4
  <1>4. ASSUME NEW c \in Chans, Proceed(t, b), mi_chan_recv(t, c, b)  PROVE Bookkeeping'
    <2>1. /\ \A w \in Tasks \ {t} : op'[w] = op[w]
          /\ op'[t].kind # "all" /\ UNCHANGED <<done, why>>
          /\ Leave([pc EXCEPT ![t] = "running"], b) \/ mi_wake_all([pc EXCEPT ![t] = "running"])
      BY <1>0, <1>4 DEF Proceed, mi_chan_recv, cells, IndInv, TypeOK
    <2> QED
      BY <1>1, <2>1
  <1>5. ASSUME Proceed(t, b), mi_task_wait(t, b)  PROVE Bookkeeping'
    <2>1. /\ \A w \in Tasks \ {t} : op'[w] = op[w]
          /\ op'[t].kind = "wait" /\ done[op'[t].task] /\ UNCHANGED <<done, why>>
          /\ Leave([pc EXCEPT ![t] = "reading"], b)
      BY <1>5 DEF Proceed, Ready, mi_task_wait, cells
    <2> QED
      BY <1>1, <2>1
  <1>6. ASSUME UNCHANGED <<pc, op, since, mi_epoch, done, why>>  PROVE Bookkeeping'
    BY <1>6 DEF IndInv, Bookkeeping
  <1>7. ASSUME Proceed(t, b), mi_tasks_finish(t, b)  PROVE Bookkeeping'
    BY <1>6, <1>7 DEF Proceed, mi_tasks_finish, Leave, cells
  <1>8. ASSUME mi_deadlock(t, b)  PROVE Bookkeeping'
    <2>1. /\ op'[t].kind # "all" /\ \A w \in Tasks \ {t} : op'[w] = op[w]
          /\ UNCHANGED <<mi_epoch, since, done>>
      BY <1>0, <1>8 DEF mi_deadlock, cells, IndInv, TypeOK
    <2> QED
      BY <1>2, <1>8, <2>1 DEF mi_deadlock
  <1>9. ASSUME Park(t, b)  PROVE Bookkeeping'
    <2>1. /\ \A w \in Tasks \ {t} : op'[w] = op[w] /\ since'[w] = since[w]
          /\ since'[t] <= mi_epoch /\ op'[t] = op[t]
          /\ UNCHANGED <<done, mi_epoch, why>>
      BY <1>0, <1>9 DEF Park, cells, IndInv, TypeOK
    <2>2. pc' = [pc EXCEPT ![t] = "parked"]
      BY <1>9 DEF Park
    <2>3. /\ mi_epoch' \in {mi_epoch, mi_epoch + 1}
          /\ op'[t].kind \in {"send", "recv", "wait", "all"}
          /\ op'[t].kind = "all" => t = Main
          /\ pc[t] # "failed"
      BY <1>0, <2>1
    <2>4. GoesTo(t, "parked")
      BY <2>1, <2>2, <2>3 DEF GoesTo
    <2> QED
      BY <2>4, BookSimple
  <1> QED
    BY <1>3, <1>4, <1>5, <1>7, <1>8, <1>9, Zenon DEF Loop, mi_block, Proceed

\* Starting a task: the child is reserved by one starter.
LEMMA SpawnBook ==
  ASSUME IndInv, TypeOK', NEW t \in Tasks, NEW u \in Tasks, mi_task_spawn(t, u)
  PROVE  Bookkeeping'
  <1>1. \A w \in Tasks : pc'[w] = IF w = u THEN "born" ELSE IF w = t THEN "starting" ELSE pc[w]
    BY DEF mi_task_spawn, IndInv, TypeOK
  <1>2. \A w \in Tasks : op'[w] = IF w = t THEN [kind |-> "spawn", task |-> u] ELSE op[w]
    BY DEF mi_task_spawn, IndInv, TypeOK
  <1>3. pc[t] = "running" /\ pc[u] = "unborn" /\ UNCHANGED <<since, mi_epoch, why, done>>
    BY DEF mi_task_spawn, cells
  <1>4. \A w \in Tasks : pc[w] = "starting" => op[w].task \in Tasks /\ pc[op[w].task] = "born"
    BY OpFields DEF IndInv, Bookkeeping, TypeOK
  <1>5. \A w \in Tasks : pc[w] = "reading" => op[w].task \in Tasks /\ done[op[w].task]
    BY OpFields DEF IndInv, Bookkeeping, TypeOK
  <1>6. \A w, v \in Tasks : pc'[w] = "starting" /\ pc'[v] = "starting"
                              /\ op'[w].task = op'[v].task => w = v
    BY <1>1, <1>2, <1>3, <1>4 DEF IndInv, Bookkeeping
  <1>7. Main # u
    BY <1>3 DEF IndInv, Bookkeeping
  <1> QED
    BY <1>1, <1>2, <1>3, <1>4, <1>5, <1>6, <1>7, ConcAssumption
    DEF IndInv, Bookkeeping, ConcAssumption

\* The thread exists, or was refused, and then its child stays behind.
LEMMA StartedBook ==
  ASSUME IndInv, TypeOK', NEW t \in Tasks, ThreadStarts(t) \/ ThreadRefused(t)
  PROVE  Bookkeeping'
  <1>1. PICK u \in Tasks : u = op[t].task /\ pc[u] = "born" /\ pc[t] = "starting"
    BY OpFields DEF IndInv, Bookkeeping, TypeOK, ThreadStarts, ThreadRefused
  <1>2. PICK x \in {"running", "failed"}, y \in {"running", "born"} :
          /\ \A w \in Tasks : pc'[w] = IF w = u THEN y ELSE IF w = t THEN x ELSE pc[w]
          /\ \A w \in Tasks : why'[w] = IF w = t /\ x = "failed" THEN "spawn" ELSE why[w]
    <2>1. CASE ThreadStarts(t)
      BY <1>1, <2>1 DEF ThreadStarts, IndInv, TypeOK
    <2>2. CASE ThreadRefused(t)
      BY <1>1, <2>2 DEF ThreadRefused, IndInv, TypeOK
    <2> QED
      BY <2>1, <2>2
  <1>3. \A w \in Tasks : op'[w] = IF w = t THEN Idle ELSE op[w]
    BY DEF ThreadStarts, ThreadRefused, IndInv, TypeOK
  <1>4. UNCHANGED <<since, mi_epoch, done>> /\ Idle.kind = "none"
    BY DEF ThreadStarts, ThreadRefused, sched, cells, Idle
  <1>5. \A w \in Tasks \ {t} : pc[w] = "starting" =>
          op[w].kind = "spawn" /\ op[w].task \in Tasks /\ pc[op[w].task] = "born" /\ op[w].task # u
    <2> SUFFICES ASSUME NEW w \in Tasks, w # t, pc[w] = "starting"
                 PROVE  /\ op[w].kind = "spawn" /\ op[w].task \in Tasks
                        /\ pc[op[w].task] = "born" /\ op[w].task # u
      OBVIOUS
    <2>1. op[w].kind = "spawn" /\ pc[op[w].task] = "born" /\ op[w].task # u
      BY <1>1 DEF IndInv, Bookkeeping
    <2> QED
      BY <2>1, OpFields DEF IndInv, TypeOK
  <1>6. \A w \in Tasks : pc[w] = "reading" => op[w].task \in Tasks /\ done[op[w].task]
    BY OpFields DEF IndInv, Bookkeeping, TypeOK
  <1>7. Main # u /\ u # t
    BY <1>1 DEF IndInv, Bookkeeping
  <1>8. \A w, v \in Tasks : pc'[w] = "starting" /\ pc'[v] = "starting"
                              /\ op'[w].task = op'[v].task => w = v
    BY <1>1, <1>2, <1>3 DEF IndInv, Bookkeeping
  <1>9. pc'[Main] \notin {"unborn", "born", "stored", "ended"}
    BY <1>2, <1>7, ConcAssumption DEF ConcAssumption, IndInv, Bookkeeping
  <1> QED
    BY <1>1, <1>2, <1>3, <1>4, <1>5, <1>6, <1>7, <1>8, <1>9 DEF IndInv, Bookkeeping

LEMMA NextBook ==
  ASSUME IndInv, TypeOK', [Next]_vars
  PROVE  Bookkeeping'
  <1>0. ASSUME NEW t \in Tasks
        PROVE  /\ since[t] <= mi_epoch
               /\ op[t].kind = "all" => t = Main
               /\ Idle.kind = "none" /\ mi_epoch \in Nat
    BY DEF IndInv, Bookkeeping, TypeOK, Idle
  <1>1. ASSUME NEW t \in Tasks, NEW o \in AllOps \ {Idle}, Call(t, o), o = AllOp => t = Main
        PROVE  Bookkeeping'
    <2>1. o.kind \in {"send", "recv", "wait", "all"} /\ (o.kind = "all" => t = Main)
      BY <1>1 DEF AllOps, Idle, AllOp, SendOps, RecvOps, WaitOps
    <2>2. op'[t] = o /\ \A w \in Tasks \ {t} : op'[w] = op[w] /\ since'[w] = since[w]
      BY <1>1 DEF Call, sched, IndInv, TypeOK
    <2>3. GoesTo(t, "locking")
      BY <1>0, <1>1, <2>1, <2>2 DEF GoesTo, Call, sched, cells
    <2> QED
      BY <2>3, BookSimple
  <1>2. ASSUME NEW t \in Tasks, CallSend(t) \/ CallRecv(t) \/ CallWait(t) \/ MainEnds(t)
        PROVE  Bookkeeping'
    <2>1. /\ SendOps \cup RecvOps \cup WaitOps \subseteq AllOps \ {Idle, AllOp}
          /\ AllOp \in AllOps \ {Idle}
      BY DEF AllOps, Idle, AllOp, SendOps, RecvOps, WaitOps
    <2> QED
      BY <1>1, <1>2, <2>1 DEF CallSend, CallRecv, CallWait, MainEnds
  <1>3. ASSUME NEW t \in Tasks, Enter(t) \/ Return(t)  PROVE Bookkeeping'
    <2>1. mi_blocked \in Nat /\ (Return(t) => Uncount(t) \in Nat)
      BY UncountType DEF IndInv, TypeOK
    <2> QED
      BY <1>3, <2>1, LoopBook DEF Enter, Return, Loop
  <1>4. ASSUME NEW t \in Tasks, ReadResult(t)  PROVE Bookkeeping'
    <2>1. \A w \in Tasks : op'[w] = IF w = t THEN Idle ELSE op[w]
      BY <1>4 DEF ReadResult, IndInv, TypeOK
    <2>2. GoesTo(t, "running")
      BY <1>0, <1>4, <2>1 DEF GoesTo, ReadResult, sched, cells
    <2> QED
      BY <2>2, BookSimple
  <1>5. ASSUME NEW t \in Tasks, NEW c \in Chans, mi_chan_close(t, c)  PROVE Bookkeeping'
    <2>1. [pc EXCEPT ![t] = "running"] = pc
      BY <1>5 DEF mi_chan_close, IndInv, TypeOK
    <2>2. GoesTo(t, "running")
      BY <1>0, <1>5, <2>1 DEF GoesTo, mi_chan_close, mi_wake_all, cells
    <2> QED
      BY <2>2, BookSimple
  <1>6. ASSUME NEW t \in Tasks, StoreResult(t)  PROVE Bookkeeping'
    <2>1. GoesTo(t, "stored")
      BY <1>0, <1>6 DEF GoesTo, StoreResult, sched
    <2> QED
      BY <2>1, BookSimple
  <1>7. ASSUME NEW t \in Tasks, RuntimeError(t)  PROVE Bookkeeping'
    <2>1. \E code \in {"error", "spawn", "closed", "deadlock"} : why' = [why EXCEPT ![t] = code]
      BY <1>7 DEF RuntimeError
    <2>2. GoesTo(t, "failed")
      BY <1>0, <1>7, <2>1 DEF GoesTo, RuntimeError, sched, cells
    <2> QED
      BY <2>2, BookSimple
  <1>8. ASSUME NEW t \in Tasks, SpuriousWakeup(t)  PROVE Bookkeeping'
    <2>1. op[t].kind \in {"send", "recv", "wait", "all"}
      BY <1>8 DEF SpuriousWakeup, IndInv, Bookkeeping
    <2>2. GoesTo(t, "woken")
      BY <1>0, <1>8, <2>1 DEF GoesTo, SpuriousWakeup, sched, cells
    <2> QED
      BY <2>2, BookSimple
  <1>9. ASSUME NEW t \in Tasks, mi_task_main(t)  PROVE Bookkeeping'
    <2>1. \A w \in Tasks : pc'[w] = IF w = t THEN "ended"
                                    ELSE IF pc[w] = "parked" THEN "woken" ELSE pc[w]
      BY <1>9 DEF mi_task_main, mi_wake_all, IndInv, TypeOK
    <2>2. \A w \in Tasks : done'[w] = IF w = t THEN TRUE ELSE done[w]
      BY <1>9 DEF mi_task_main, IndInv, TypeOK
    <2>3. mi_epoch' = mi_epoch + 1 /\ UNCHANGED <<since, op, why>> /\ pc[t] = "stored"
      BY <1>9 DEF mi_task_main, mi_wake_all
    <2>4. t # Main /\ why[t] = "none"
      BY <2>3 DEF IndInv, Bookkeeping
    <2>5. mi_epoch' >= mi_epoch /\ since'[t] <= mi_epoch'
      BY <1>0, <2>3 DEF IndInv, TypeOK
    <2> QED
      BY <1>0, <2>1, <2>2, <2>3, <2>4, <2>5, BookOne
  <1>10. ASSUME UNCHANGED <<pc, op, since, mi_epoch, done, why>>  PROVE Bookkeeping'
    BY <1>10 DEF IndInv, Bookkeeping
  <1>11. ASSUME NEW t \in Tasks, Exit1(t)  PROVE Bookkeeping'
    BY <1>10, <1>11 DEF Exit1, sched, cells
  <1>12. CASE UNCHANGED vars
    BY <1>10, <1>12 DEF vars
  <1>13. ASSUME NEW t \in Tasks, Step(t)  PROVE Bookkeeping'
    BY <1>2, <1>3, <1>4, <1>5, <1>6, <1>7, <1>9, <1>11, <1>13,
       SpawnBook, StartedBook, Zenon DEF Step
  <1> QED
    BY <1>8, <1>12, <1>13 DEF Next, Exited

\* wait_all lets main go only when it is the last unfinished task.
LEMMA MainAlone ==
  ASSUME IndInv, mi_live <= 1
  PROVE  \A t \in Tasks \ {Main} : pc[t] \in {"unborn", "ended"}
  <1>1. LiveSet \in SUBSET Tasks /\ Main \in LiveSet /\ mi_live = Cardinality(LiveSet)
    BY ConcAssumption DEF LiveSet, ConcAssumption, IndInv, Bookkeeping, CountersExact
  <1>2. Cardinality(LiveSet \ {Main}) = Cardinality(LiveSet) - 1
    BY <1>1, Counting
  <1>3. LiveSet \ {Main} \in SUBSET Tasks
    BY <1>1
  <1>4. Cardinality(LiveSet \ {Main}) \in Nat /\ Cardinality(LiveSet) \in Nat
    BY <1>1, <1>3, Counting
  <1>5. Cardinality(LiveSet \ {Main}) = 0
    BY <1>1, <1>2, <1>4
  <1>6. LiveSet \ {Main} = {}
    BY <1>3, <1>5, Counting, FS_EmptySet
  <1> QED
    BY <1>6 DEF LiveSet

-----------------------------------------------------------------------------
(* Theorems *)

LEMMA InitIndInv == Init => IndInv
  <1> SUFFICES ASSUME Init  PROVE IndInv
    OBVIOUS
  <1>1. LiveSet = {Main} /\ FreshSet = {}
    BY ConcAssumption DEF ConcAssumption, Init, LiveSet, FreshSet, Fresh, Waiting
  <1>2. CountersExact
    BY <1>1, FS_Singleton, FS_EmptySet DEF Init, CountersExact
  <1>3. Bookkeeping
    BY ConcAssumption DEF ConcAssumption, Init, Bookkeeping, Idle
  <1>4. CountedFacts /\ VerdictFacts
    BY DEF Init, CountedFacts, Fresh, Waiting, VerdictFacts
  <1> QED
    BY <1>1, <1>2, <1>3, <1>4, InitType DEF IndInv

LEMMA NextIndInv == IndInv /\ [Next]_vars => IndInv'
  <1> SUFFICES ASSUME IndInv, [Next]_vars  PROVE IndInv'
    OBVIOUS
  <1>1. TypeOK'
    BY NextType DEF IndInv
  <1>2. Bookkeeping'
    BY <1>1, NextBook
  <1>3. CountersExact'
    BY NextLive, NextBlocked DEF CountersExact
  <1>4. CountedFacts' /\ VerdictFacts'
    BY <1>1, NextCounted, NextVerdict
  <1> QED
    BY <1>1, <1>2, <1>3, <1>4, NextAwake DEF IndInv

\* IndInv holds in every reachable state of the native runtime, for any number
\* of tasks, channels and calls: counters, wait set and calls stay consistent.
THEOREM Inductive == Spec => []IndInv
  BY InitIndInv, NextIndInv, PTL DEF Spec

\* The runtime's state keeps its types, and every ring its head and length
\* inside its capacity, across growth and wrap.
THEOREM TypeCorrect == Spec => []TypeOK
  <1>1. IndInv => TypeOK
    BY DEF IndInv
  <1> QED
    BY <1>1, Inductive, PTL

\* mi_live counts the unfinished tasks and mi_blocked the waiting ones exactly,
\* up to the report that ends the program.
THEOREM CountersCorrect == Spec => []CountersExact
  <1>1. IndInv => CountersExact
    BY DEF IndInv
  <1> QED
    BY <1>1, Inductive, PTL

\* No thread sleeps in mi_block while the condition it waits for is true.
THEOREM NoWakeupLost == Spec => []NoLostWakeup
  <1>1. IndInv => NoLostWakeup
    BY DEF IndInv, CountedFacts, NoLostWakeup
  <1> QED
    BY <1>1, Inductive, PTL

\* mi_deadlock is reached only when no other task can ever go on.
THEOREM DeadlockIsReal == Spec => []DeadlockSound
  <1>1. IndInv => DeadlockSound
    <2> SUFFICES ASSUME IndInv, NEW t \in Tasks, why[t] = "deadlock",
                        NEW u \in LiveSet \ {t}
                 PROVE  Waiting(u) /\ ~Ready(op[u])
      BY DEF DeadlockSound
    <2>1. Fresh(u) /\ u \in Tasks
      BY DEF IndInv, VerdictFacts, LiveSet
    <2> QED
      BY <2>1 DEF IndInv, CountedFacts, Fresh
  <1> QED
    BY <1>1, Inductive, PTL

-----------------------------------------------------------------------------
(* Refinement: what the program sees is ConcSpec *)

\* A step that moves t only, as far as the program can see.
LEMMA OneTask ==
  ASSUME TypeOK, TypeOK', NEW t \in Tasks,
         \A u \in Tasks \ {t} : Seen(pc'[u]) = Seen(pc[u]),
         \A u \in Tasks \ {t} : op'[u] = op[u]
  PROVE  /\ AbsSt' = [AbsSt EXCEPT ![t] = Seen(pc'[t])]
         /\ AbsOp' = [AbsOp EXCEPT ![t] = IF Seen(pc'[t]) = "asking" THEN op'[t] ELSE Idle]
  <1>1. AbsSt' = [AbsSt EXCEPT ![t] = Seen(pc'[t])]
    BY DEF AbsSt
  <1>2. AbsOp' = [AbsOp EXCEPT ![t] = IF Seen(pc'[t]) = "asking" THEN op'[t] ELSE Idle]
    BY DEF AbsOp, AbsSt
  <1> QED
    BY <1>1, <1>2

\* A wake hides behind "asking": the notified were asking before.
LEMMA WakeUnseen ==
  ASSUME TypeOK, NEW t \in Tasks, NEW x, x # "parked",
         mi_wake_all([pc EXCEPT ![t] = x]) \/ pc' = [pc EXCEPT ![t] = x]
  PROVE  /\ pc'[t] = x
         /\ \A u \in Tasks \ {t} : Seen(pc'[u]) = Seen(pc[u])
  <1>1. \A u \in Tasks : \/ pc'[u] = [pc EXCEPT ![t] = x][u]
                         \/ [pc EXCEPT ![t] = x][u] = "parked" /\ pc'[u] = "woken"
    BY DEF mi_wake_all
  <1>2. \A u \in Tasks : [pc EXCEPT ![t] = x][u] = IF u = t THEN x ELSE pc[u]
    BY DEF TypeOK
  <1> QED
    BY <1>1, <1>2 DEF Seen

LEMMA AbsInit == Init => Abs!Init
  <1> SUFFICES ASSUME Init  PROVE Abs!Init
    OBVIOUS
  <1>1. AbsSt = [t \in Tasks |-> IF t = Main THEN "running" ELSE "unborn"]
    BY DEF Init, AbsSt, Seen
  <1>2. AbsOp = [t \in Tasks |-> Idle] /\ AbsResult = [t \in Tasks |-> NoVal]
    BY DEF Init, AbsOp, AbsResult
  <1>3. AbsQ = [c \in Chans |-> << >>]
    <2>1. Contents(EmptyRing) = << >>
      BY DEF Contents, EmptyRing
    <2>2. \A c \in Chans : ring[c] = EmptyRing
      BY DEF Init
    <2> QED
      BY <2>1, <2>2 DEF AbsQ
  <1> QED
    BY <1>1, <1>2, <1>3 DEF Init, Abs!Init, Idle, Abs!Idle

\* The two modules take their names from ConcTypes.
LEMMA SameNames ==
  /\ Abs!Idle = Idle /\ Abs!AllOp = AllOp /\ Abs!Results = Results
  /\ Abs!SendOps = SendOps /\ Abs!RecvOps = RecvOps /\ Abs!WaitOps = WaitOps
  BY DEF Idle, AllOp, Results, SendOps, RecvOps, WaitOps,
         Abs!Idle, Abs!AllOp, Abs!Results, Abs!SendOps, Abs!RecvOps, Abs!WaitOps

\* What the program sees of t, which is asking or not.
LEMMA SeenOf ==
  ASSUME NEW t \in Tasks
  PROVE  /\ AbsSt[t] = Seen(pc[t])
         /\ AbsOp[t] = IF Seen(pc[t]) = "asking" THEN op[t] ELSE Idle
         /\ AbsResult[t] = IF done[t] THEN res[t] ELSE NoVal
  BY DEF AbsSt, AbsOp, AbsResult

\* The queue of a channel is empty when its ring is, and as long.
LEMMA QueueOf ==
  ASSUME TypeOK, NEW c \in Chans
  PROVE  /\ AbsQ[c] = Contents(ring[c]) /\ AbsQ[c] \in Seq(Values)
         /\ Len(AbsQ[c]) = ring[c].len
         /\ AbsQ[c] = << >> <=> ring[c].len = 0
  <1>1. AbsQ[c] = Contents(ring[c])
    BY DEF AbsQ
  <1>2. Contents(ring[c]) \in Seq(Values) /\ Len(Contents(ring[c])) = ring[c].len
    BY RingAt, Elements
  <1> QED
    BY <1>1, <1>2

\* Only the queue of c changes with its ring.
LEMMA QueueStep ==
  ASSUME TypeOK, NEW c \in Chans, NEW x, ring' = [ring EXCEPT ![c] = x]
  PROVE  AbsQ' = [AbsQ EXCEPT ![c] = Contents(x)]
  <1>1. ring' = [d \in Chans |-> IF d = c THEN x ELSE ring[d]]
    BY RingAt
  <1>2. AbsQ' = [d \in Chans |-> Contents(ring'[d])]
    BY DEF AbsQ
  <1>3. \A d \in Chans : Contents(ring'[d]) = IF d = c THEN Contents(x) ELSE Contents(ring[d])
    BY <1>1
  <1>4. [AbsQ EXCEPT ![c] = Contents(x)]
          = [d \in Chans |-> IF d = c THEN Contents(x) ELSE Contents(ring[d])]
    BY DEF AbsQ
  <1> QED
    BY <1>2, <1>3, <1>4

\* The conditions of the calls on a channel or a task are those of ConcSpec.
LEMMA SameReady ==
  ASSUME TypeOK, NEW t \in Tasks, op[t].kind \in {"send", "recv", "wait"}
  PROVE  Ready(op[t]) <=> Abs!Ready(op[t])
  <1>1. op[t] \in AllOps \cup SpawnOps
    BY DEF TypeOK
  <1>2. CASE op[t].kind = "wait"
    BY <1>2 DEF Ready, Abs!Ready
  <1>3. CASE op[t].kind = "send"
    BY <1>1, <1>3, OpFields, QueueOf DEF Ready, Abs!Ready
  <1>4. CASE op[t].kind = "recv"
    BY <1>1, <1>4, OpFields, QueueOf DEF Ready, Abs!Ready
  <1> QED
    BY <1>2, <1>3, <1>4

\* A call that begins is a request that is asked.
LEMMA AbsCall ==
  ASSUME TypeOK, TypeOK', NEW t \in Tasks, NEW o, Call(t, o)
  PROVE  Abs!Ask(t, o)
  <1>1. pc'[t] = "locking" /\ op'[t] = o
    BY DEF Call, TypeOK
  <1>2. \A u \in Tasks \ {t} : pc'[u] = pc[u] /\ op'[u] = op[u]
    BY DEF Call, TypeOK
  <1>3. /\ AbsSt' = [AbsSt EXCEPT ![t] = "asking"]
        /\ AbsOp' = [AbsOp EXCEPT ![t] = o]
    BY <1>1, <1>2, OneTask DEF Seen
  <1>4. UNCHANGED <<AbsQ, closed, done, AbsResult, got, why, outcome>>
    BY DEF Call, chans, cells, AbsResult, AbsQ
  <1>5. AbsSt[t] = "running"
    BY SeenOf DEF Call, Seen
  <1> QED
    BY <1>3, <1>4, <1>5 DEF Abs!Ask

\* A thread whose request is done under the lock: it goes on, or it fails.
LEMMA AbsGoes ==
  ASSUME TypeOK, TypeOK', NEW t \in Tasks, NEW x \in {"running", "failed"},
         mi_wake_all([pc EXCEPT ![t] = x]) \/ pc' = [pc EXCEPT ![t] = x],
         op' = [op EXCEPT ![t] = Idle]
  PROVE  AbsSt' = [AbsSt EXCEPT ![t] = x] /\ AbsOp' = [AbsOp EXCEPT ![t] = Idle]
  <1>1. /\ pc'[t] = x
        /\ \A u \in Tasks \ {t} : Seen(pc'[u]) = Seen(pc[u])
    BY WakeUnseen
  <1>2. \A u \in Tasks \ {t} : op'[u] = op[u]
    BY DEF TypeOK
  <1>3. Seen(x) = x
    BY DEF Seen
  <1> QED
    BY <1>1, <1>2, <1>3, OneTask

\* A value goes into the ring, and to the end of the queue.
LEMMA AbsSend ==
  ASSUME TypeOK, TypeOK', NEW t \in Tasks, NEW c \in Chans, NEW b, Ready(op[t]),
         pc[t] \in {"locking", "woken"}, mi_chan_send(t, c, b),
         UNCHANGED <<mi_live, fuel, closed, cells>>
  PROVE  Abs!Sent(t) \/ Abs!SendOnClosed(t)
  <1>1. AbsSt[t] = "asking" /\ AbsOp[t] = op[t]
    BY SeenOf DEF Seen
  <1>2. op[t].kind = "send" /\ op[t].ch = c /\ op[t].val \in Values
    <2>1. op[t] \in AllOps \cup SpawnOps
      BY DEF TypeOK
    <2> QED
      BY <2>1, OpFields DEF mi_chan_send
  <1>3. op' = [op EXCEPT ![t] = Idle] /\ outcome' = outcome
    BY DEF mi_chan_send
  <1>4. AbsResult' = AbsResult /\ UNCHANGED <<closed, done>>
    BY DEF AbsResult, cells
  <1>5. CASE /\ ~closed[c]
             /\ ring' = [ring EXCEPT ![c] = Push(@, op[t].val)]
             /\ got' = [got EXCEPT ![t] = NoVal]
             /\ mi_wake_all([pc EXCEPT ![t] = "running"])
             /\ UNCHANGED why
    <2>1. /\ AbsSt' = [AbsSt EXCEPT ![t] = "running"]
          /\ AbsOp' = [AbsOp EXCEPT ![t] = Idle]
      BY <1>3, <1>5, AbsGoes
    <2>2. AbsQ' = [AbsQ EXCEPT ![c] = Append(AbsQ[c], op[t].val)]
      <3>1. ring' = [ring EXCEPT ![c] = Push(ring[c], op[t].val)]
        BY <1>5
      <3>2. Contents(Push(ring[c], op[t].val)) = Append(Contents(ring[c]), op[t].val)
        BY <1>2, RingAt, PushRing
      <3>3. AbsQ[c] = Contents(ring[c])
        BY QueueOf
      <3>4. AbsQ' = [AbsQ EXCEPT ![c] = Contents(Push(ring[c], op[t].val))]
        BY <3>1, QueueStep
      <3> QED
        BY <3>2, <3>3, <3>4, Zenon
    <2>3. Abs!Ready(AbsOp[t])
      BY <1>1, <1>2, SameReady
    <2>4. Abs!Answer(t, NoVal)
      BY <1>1, <1>3, <1>4, <1>5, <2>1, SameNames DEF Abs!Answer
    <2> QED
      BY <1>1, <1>2, <1>5, <2>2, <2>3, <2>4 DEF Abs!Sent
  <1>6. CASE /\ closed[c]
             /\ why' = [why EXCEPT ![t] = "closed"]
             /\ Leave([pc EXCEPT ![t] = "failed"], b)
             /\ UNCHANGED <<ring, got>>
    <2>1. /\ AbsSt' = [AbsSt EXCEPT ![t] = "failed"]
          /\ AbsOp' = [AbsOp EXCEPT ![t] = Idle]
      BY <1>3, <1>6, AbsGoes DEF Leave
    <2>2. AbsQ' = AbsQ
      BY <1>6 DEF AbsQ
    <2>3. Abs!Fail(t, "closed")
      BY <1>3, <1>4, <1>6, <2>1, <2>2, SameNames DEF Abs!Fail
    <2> QED
      BY <1>1, <1>2, <1>6, <2>3 DEF Abs!SendOnClosed
  <1> QED
    BY <1>5, <1>6 DEF mi_chan_send

\* The oldest value leaves the ring, and the queue.
LEMMA AbsRecv ==
  ASSUME TypeOK, TypeOK', NEW t \in Tasks, NEW c \in Chans, NEW b, Ready(op[t]),
         pc[t] \in {"locking", "woken"}, mi_chan_recv(t, c, b),
         UNCHANGED <<mi_live, fuel, closed, cells>>
  PROVE  Abs!Received(t) \/ Abs!EndOfChannel(t)
  <1>1. AbsSt[t] = "asking" /\ AbsOp[t] = op[t]
    BY SeenOf DEF Seen
  <1>2. op[t].kind = "recv" /\ op[t].ch = c
    BY DEF mi_chan_recv
  <1>3. op' = [op EXCEPT ![t] = Idle] /\ UNCHANGED <<why, outcome>>
    BY DEF mi_chan_recv
  <1>4. AbsResult' = AbsResult /\ UNCHANGED <<closed, done>>
    BY DEF AbsResult, cells
  <1>5. mi_wake_all([pc EXCEPT ![t] = "running"]) \/ pc' = [pc EXCEPT ![t] = "running"]
    BY DEF mi_chan_recv, Leave
  <1>6. /\ AbsSt' = [AbsSt EXCEPT ![t] = "running"]
        /\ AbsOp' = [AbsOp EXCEPT ![t] = Idle]
    BY <1>3, <1>5, AbsGoes
  <1>7. ASSUME NEW v, got' = [got EXCEPT ![t] = v]  PROVE Abs!Answer(t, v)
    BY <1>1, <1>3, <1>4, <1>6, <1>7, SameNames DEF Abs!Answer
  <1>8. CASE /\ ring[c].len # 0
             /\ got' = [got EXCEPT ![t] = First(ring[c])]
             /\ ring' = [ring EXCEPT ![c] = Pop(@)]
    <2>1. ring' = [ring EXCEPT ![c] = Pop(ring[c])]
      BY <1>8
    <2>2. /\ Contents(ring[c]) # << >>
          /\ First(ring[c]) = Head(Contents(ring[c]))
          /\ Contents(Pop(ring[c])) = Tail(Contents(ring[c]))
      BY <1>8, RingAt, QueueOf, PopRing
    <2>3. AbsQ[c] = Contents(ring[c])
      BY QueueOf
    <2>4. AbsQ' = [AbsQ EXCEPT ![c] = Tail(AbsQ[c])]
      BY <2>1, <2>2, <2>3, QueueStep
    <2>5. Abs!Answer(t, Head(AbsQ[c]))
      BY <1>7, <1>8, <2>2, <2>3
    <2> QED
      BY <1>1, <1>2, <2>2, <2>3, <2>4, <2>5 DEF Abs!Received
  <1>9. CASE /\ ring[c].len = 0
             /\ got' = [got EXCEPT ![t] = NoVal]
             /\ UNCHANGED ring
    <2>1. closed[c]
      BY <1>2, <1>9 DEF Ready
    <2>2. AbsQ' = AbsQ /\ AbsQ[c] = << >>
      BY <1>9, QueueOf DEF AbsQ
    <2>3. Abs!Answer(t, NoVal)
      BY <1>7, <1>9
    <2> QED
      BY <1>1, <1>2, <2>1, <2>2, <2>3 DEF Abs!EndOfChannel
  <1> QED
    BY <1>8, <1>9 DEF mi_chan_recv

\* main lets go when the others have ended: only then is it the last one.
LEMMA AbsAll ==
  ASSUME IndInv, TypeOK', NEW t \in Tasks, NEW b, Ready(op[t]),
         pc[t] \in {"locking", "woken"}, mi_tasks_finish(t, b),
         UNCHANGED <<mi_live, fuel, closed, cells>>
  PROVE  Abs!Finish
  <1>1. t = Main /\ op[t].kind = "all" /\ mi_live <= 1
    BY DEF mi_tasks_finish, IndInv, Bookkeeping, Ready
  <1>2. AbsSt[t] = "asking" /\ AbsOp[t] = op[t]
    BY SeenOf DEF Seen
  <1>3. \A u \in Tasks \ {Main} : AbsSt[u] \in {"unborn", "ended"}
    BY <1>1, MainAlone, SeenOf DEF Seen
  <1>4. Abs!Ready(AbsOp[Main])
    BY <1>1, <1>2, <1>3 DEF Abs!Ready
  <1>5. UNCHANGED <<pc, op, ring, got, why, done, res>> /\ outcome' = "ok"
    BY DEF mi_tasks_finish, Leave, cells
  <1>6. AbsSt' = AbsSt /\ AbsOp' = AbsOp /\ AbsResult' = AbsResult /\ AbsQ' = AbsQ
    BY <1>5 DEF AbsSt, AbsOp, AbsResult, AbsQ
  <1> QED
    BY <1>1, <1>2, <1>4, <1>5, <1>6 DEF Abs!Finish

\* The thread that gets the verdict of a deadlock: by then all the others
\* that are unfinished are asking for something that is false.
LEMMA AbsVerdict ==
  ASSUME IndInv, IndInv', NEW t \in Tasks, pc[t] \in {"locking", "woken"},
         NEW b, ~Ready(op[t]), mi_deadlock(t, b)
  PROVE  Abs!Deadlock(t)
  <1> USE DEF IndInv
  <1>1. /\ pc'[t] = "failed" /\ op'[t] = Idle /\ why'[t] = "deadlock"
        /\ \A u \in Tasks \ {t} : pc'[u] = pc[u] /\ op'[u] = op[u]
    BY DEF mi_deadlock, TypeOK
  <1>2. /\ AbsSt' = [AbsSt EXCEPT ![t] = "failed"]
        /\ AbsOp' = [AbsOp EXCEPT ![t] = Idle]
    BY AbsGoes DEF mi_deadlock
  <1>3. Abs!Fail(t, "deadlock")
    BY <1>2, SameNames DEF Abs!Fail, mi_deadlock, chans, cells, AbsResult, AbsQ
  <1>4. AbsSt[t] = "asking"
    BY SeenOf DEF Seen
  <1>5. ASSUME NEW u \in LiveSet
        PROVE  pc[u] \in {"locking", "parked", "woken"} /\ ~Ready(op[u])
    <2>1. CASE u = t
      BY <2>1
    <2>2. CASE u # t
      <3>1. u \in Tasks /\ u \in LiveSet' \ {t}
        BY <1>1, <2>2 DEF LiveSet
      <3>2. Fresh(u)'
        BY <1>1, <3>1 DEF VerdictFacts
      <3>3. Fresh(u)
        BY <1>1, <2>2, <3>1, <3>2 DEF Fresh, Waiting, mi_deadlock
      <3> QED
        BY <3>1, <3>3 DEF Fresh, Waiting, CountedFacts
    <2> QED
      BY <2>1, <2>2
  <1>6. ASSUME NEW u \in Tasks, AbsSt[u] \notin {"unborn", "ended"}
        PROVE  AbsSt[u] = "asking" /\ ~Abs!Ready(AbsOp[u])
    <2>1. u \in LiveSet
      BY <1>6, SeenOf DEF Seen, LiveSet
    <2>2. pc[u] \in {"locking", "parked", "woken"} /\ ~Ready(op[u])
      BY <1>5, <2>1
    <2>3. AbsSt[u] = "asking" /\ AbsOp[u] = op[u]
            /\ op[u].kind \in {"send", "recv", "wait", "all"}
      BY <2>2, SeenOf DEF Seen, Bookkeeping
    <2>4. CASE op[u].kind = "all"
      <3>1. u = Main /\ ~(mi_live <= 1)
        BY <2>2, <2>4 DEF Bookkeeping, Ready
      <3>2. PICK w \in LiveSet : w # Main
        <4>1. SUFFICES ASSUME LiveSet \subseteq {Main}  PROVE FALSE
          OBVIOUS
        <4>2. {Main} \in SUBSET Tasks /\ Cardinality({Main}) = 1
          BY <3>1, FS_Singleton
        <4>3. Cardinality(LiveSet) <= 1
          BY <4>1, <4>2, Counting
        <4> QED
          BY <3>1, <4>3 DEF CountersExact
      <3>3. w \in Tasks /\ AbsSt[w] = "asking"
        BY <1>5, SeenOf DEF Seen, LiveSet
      <3> QED
        BY <2>3, <2>4, <3>1, <3>2, <3>3 DEF Abs!Ready
    <2>5. CASE op[u].kind # "all"
      BY <2>2, <2>3, <2>5, SameReady
    <2> QED
      BY <2>3, <2>4, <2>5
  <1> QED
    BY <1>3, <1>4, <1>6 DEF Abs!Deadlock, Abs!Live

\* The turns of the loop around mi_block: the request is done, the verdict is
\* given, or nothing shows.
LEMMA AbsLoop ==
  ASSUME IndInv, IndInv', NEW t \in Tasks, pc[t] \in {"locking", "woken"},
         NEW b, Loop(t, b)
  PROVE  Abs!Step(t) \/ Abs!Finish \/ UNCHANGED Abs!vars
  <1> USE DEF IndInv
  <1>1. ASSUME NEW c \in Chans, Proceed(t, b), mi_chan_send(t, c, b)  PROVE Abs!Step(t)
    BY <1>1, AbsSend DEF Proceed, Abs!Step
  <1>2. ASSUME NEW c \in Chans, Proceed(t, b), mi_chan_recv(t, c, b)  PROVE Abs!Step(t)
    BY <1>2, AbsRecv DEF Proceed, Abs!Step
  <1>3. CASE Proceed(t, b) /\ mi_task_wait(t, b)
    <2>1. UNCHANGED <<op, ring, got, why, outcome, closed, done, res>>
      BY <1>3 DEF Proceed, mi_task_wait, cells
    <2>2. \A u \in Tasks : Seen(pc'[u]) = Seen(pc[u])
      BY <1>3 DEF mi_task_wait, Leave, TypeOK, Seen
    <2>3. AbsSt' = AbsSt /\ AbsOp' = AbsOp /\ AbsResult' = AbsResult /\ AbsQ' = AbsQ
      BY <2>1, <2>2 DEF AbsSt, AbsOp, AbsResult, AbsQ
    <2> QED
      BY <2>1, <2>3 DEF Abs!vars
  <1>4. CASE Proceed(t, b) /\ mi_tasks_finish(t, b)
    BY <1>4, AbsAll DEF Proceed
  <1>5. CASE ~Ready(op[t]) /\ mi_deadlock(t, b)
    BY <1>5, AbsVerdict DEF Abs!Step
  <1>6. CASE Park(t, b)
    <2>1. UNCHANGED <<op, ring, got, why, outcome, closed, done, res>>
      BY <1>6 DEF Park, chans, cells
    <2>2. \A u \in Tasks : Seen(pc'[u]) = Seen(pc[u])
      BY <1>6 DEF Park, TypeOK, Seen
    <2>3. AbsSt' = AbsSt /\ AbsOp' = AbsOp /\ AbsResult' = AbsResult /\ AbsQ' = AbsQ
      BY <2>1, <2>2 DEF AbsSt, AbsOp, AbsResult, AbsQ
    <2> QED
      BY <2>1, <2>3 DEF Abs!vars
  <1> QED
    BY <1>1, <1>2, <1>3, <1>4, <1>5, <1>6 DEF Loop, mi_block, Proceed

\* Starting a thread: the task exists for the program when its thread runs.
LEMMA AbsStart ==
  ASSUME IndInv, TypeOK', NEW t \in Tasks
  PROVE  /\ \A u \in Tasks : mi_task_spawn(t, u) => UNCHANGED Abs!vars
         /\ ThreadStarts(t) => Abs!Step(t)
         /\ ThreadRefused(t) => Abs!Step(t)
  <1> USE DEF IndInv
  <1>1. ASSUME NEW u \in Tasks, mi_task_spawn(t, u)  PROVE UNCHANGED Abs!vars
    <2>1. \A w \in Tasks : Seen(pc'[w]) = Seen(pc[w])
      BY <1>1 DEF mi_task_spawn, TypeOK, Seen
    <2>2. \A w \in Tasks : Seen(pc[w]) = "asking" => op'[w] = op[w]
      BY <1>1 DEF mi_task_spawn, TypeOK, Seen
    <2>3. UNCHANGED <<ring, got, why, outcome, closed, done, res>>
      BY <1>1 DEF mi_task_spawn, chans, cells
    <2>4. AbsSt' = AbsSt /\ AbsOp' = AbsOp /\ AbsResult' = AbsResult /\ AbsQ' = AbsQ
      BY <2>1, <2>2, <2>3 DEF AbsSt, AbsOp, AbsResult, AbsQ
    <2> QED
      BY <2>3, <2>4 DEF Abs!vars
  <1>2. ASSUME ThreadStarts(t)  PROVE Abs!Step(t)
    <2>1. PICK u \in Tasks : u = op[t].task /\ pc[u] = "born" /\ pc[t] = "starting" /\ u # t
      BY <1>2, OpFields DEF TypeOK, Bookkeeping, ThreadStarts
    <2>2. \A w \in Tasks : pc'[w] = IF w = u \/ w = t THEN "running" ELSE pc[w]
      BY <1>2, <2>1 DEF ThreadStarts, TypeOK
    <2>3. \A w \in Tasks \ {t} : op'[w] = op[w]
      BY <1>2 DEF ThreadStarts, TypeOK
    <2>4. AbsSt[t] = "running" /\ AbsSt[u] = "unborn"
      BY <2>1, SeenOf DEF Seen
    <2>5. AbsSt' = [AbsSt EXCEPT ![u] = "running"]
      BY <2>1, <2>2 DEF AbsSt, Seen
    <2>6. AbsOp' = AbsOp
      BY <2>1, <2>2, <2>3 DEF AbsOp, AbsSt, Seen
    <2>7. Abs!Spawn(t, u)
      BY <1>2, <2>4, <2>5, <2>6 DEF Abs!Spawn, ThreadStarts, AbsResult, AbsQ, chans, cells
    <2> QED
      BY <2>1, <2>7 DEF Abs!Step
  <1>3. ASSUME ThreadRefused(t)  PROVE Abs!Step(t)
    <2>1. op' = [op EXCEPT ![t] = Idle] /\ pc' = [pc EXCEPT ![t] = "failed"]
      BY <1>3 DEF ThreadRefused
    <2>2. AbsSt[t] = "running"
      BY <1>3, SeenOf DEF ThreadRefused, Seen
    <2>3. AbsSt' = [AbsSt EXCEPT ![t] = "failed"] /\ AbsOp' = [AbsOp EXCEPT ![t] = Idle]
      BY <2>1, AbsGoes
    <2>4. Abs!Fail(t, "spawn")
      BY <1>3, <2>3, SameNames DEF Abs!Fail, ThreadRefused, AbsResult, AbsQ, chans, cells
    <2>5. Abs!Err(t)
      BY <2>2, <2>4 DEF Abs!Err
    <2> QED
      BY <2>5 DEF Abs!Step
  <1> QED
    BY <1>1, <1>2, <1>3

\* A result shows when its task leaves the count, not when it is stored.
LEMMA AbsEnd ==
  ASSUME IndInv, TypeOK', NEW t \in Tasks
  PROVE  /\ StoreResult(t) => UNCHANGED Abs!vars
         /\ mi_task_main(t) => Abs!Step(t)
  <1> USE DEF IndInv
  <1>1. ASSUME StoreResult(t)  PROVE UNCHANGED Abs!vars
    <2>1. PICK v \in Results : res' = [res EXCEPT ![t] = v]
      BY <1>1 DEF StoreResult
    <2>2. ~done[t] /\ UNCHANGED <<op, ring, got, why, outcome, closed, done>>
      BY <1>1 DEF StoreResult, Bookkeeping, chans
    <2>3. \A w \in Tasks : done[w] => res'[w] = res[w]
      BY <2>1, <2>2 DEF TypeOK
    <2>4. \A w \in Tasks : Seen(pc'[w]) = Seen(pc[w])
      BY <1>1 DEF StoreResult, TypeOK, Seen
    <2>5. AbsSt' = AbsSt /\ AbsOp' = AbsOp /\ AbsResult' = AbsResult /\ AbsQ' = AbsQ
      BY <2>2, <2>3, <2>4 DEF AbsSt, AbsOp, AbsResult, AbsQ
    <2> QED
      BY <2>2, <2>5 DEF Abs!vars
  <1>2. ASSUME mi_task_main(t)  PROVE Abs!Step(t)
    <2>1. t # Main /\ AbsSt[t] = "running"
      BY <1>2, SeenOf DEF mi_task_main, Bookkeeping, Seen
    <2>2. pc'[t] = "ended" /\ \A u \in Tasks \ {t} : Seen(pc'[u]) = Seen(pc[u])
      BY <1>2, WakeUnseen DEF mi_task_main
    <2>3. op' = op /\ UNCHANGED <<ring, got, why, outcome, closed, res>>
            /\ done' = [done EXCEPT ![t] = TRUE] /\ pc[t] = "stored"
      BY <1>2 DEF mi_task_main, chans
    <2>4. AbsSt' = [AbsSt EXCEPT ![t] = "ended"]
      BY <2>2, <2>3, OneTask DEF Seen
    <2>5. \A w \in Tasks : Seen(pc'[w]) = "asking" <=> Seen(pc[w]) = "asking"
      BY <2>2, <2>3 DEF Seen
    <2>6. AbsOp' = AbsOp /\ AbsQ' = AbsQ
      BY <2>3, <2>5 DEF AbsOp, AbsSt, AbsQ
    <2>7. AbsResult' = [AbsResult EXCEPT ![t] = res[t]]
      BY <2>3 DEF AbsResult, TypeOK
    <2>8. PICK v \in Results : v = res[t]
      BY DEF TypeOK
    <2>9. Abs!End(t, v)
      BY <2>1, <2>3, <2>4, <2>6, <2>7, <2>8 DEF Abs!End
    <2> QED
      BY <2>9, SameNames DEF Abs!Step
  <1> QED
    BY <1>1, <1>2

\* The other steps of one thread.
LEMMA AbsRest ==
  ASSUME IndInv, TypeOK', NEW t \in Tasks
  PROVE  /\ ReadResult(t) => Abs!Step(t)
         /\ \A c \in Chans : mi_chan_close(t, c) => Abs!Step(t)
         /\ RuntimeError(t) => Abs!Step(t)
         /\ Exit1(t) => Abs!Step(t)
         /\ SpuriousWakeup(t) => UNCHANGED Abs!vars
  <1> USE DEF IndInv
  <1>1. ASSUME ReadResult(t)  PROVE Abs!Step(t)
    <2>1. /\ op[t].kind = "wait" /\ op[t].task \in Tasks /\ done[op[t].task]
          /\ AbsSt[t] = "asking" /\ AbsOp[t] = op[t]
      <3>1. TypeOK /\ Bookkeeping /\ pc[t] = "reading"
        BY <1>1 DEF ReadResult
      <3>2. op[t].kind = "wait" /\ done[op[t].task] /\ op[t] \in AllOps \cup SpawnOps
        BY <3>1 DEF Bookkeeping, TypeOK
      <3>3. op[t].task \in Tasks
        BY <3>2, OpFields
      <3>4. AbsSt[t] = "asking" /\ AbsOp[t] = op[t]
        BY <3>1, SeenOf DEF Seen
      <3> QED
        BY <3>2, <3>3, <3>4
    <2>2. AbsResult[op[t].task] = res[op[t].task]
      BY <2>1, SeenOf
    <2>3. op' = [op EXCEPT ![t] = Idle] /\ pc' = [pc EXCEPT ![t] = "running"]
            /\ got' = [got EXCEPT ![t] = res[op[t].task]]
            /\ UNCHANGED <<ring, closed, why, outcome, done, res>>
      BY <1>1 DEF ReadResult, chans, cells
    <2>4. AbsSt' = [AbsSt EXCEPT ![t] = "running"] /\ AbsOp' = [AbsOp EXCEPT ![t] = Idle]
      BY <2>3, AbsGoes
    <2>5. AbsResult' = AbsResult /\ AbsQ' = AbsQ
      BY <2>3 DEF AbsResult, AbsQ
    <2>6. Abs!Answer(t, res[op[t].task])
      BY <2>1, <2>3, <2>4, <2>5, SameNames DEF Abs!Answer
    <2>7. Abs!Waited(t)
      BY <2>1, <2>2, <2>5, <2>6 DEF Abs!Waited
    <2> QED
      BY <2>7 DEF Abs!Step
  <1>2. ASSUME NEW c \in Chans, mi_chan_close(t, c)  PROVE Abs!Step(t)
    <2>1. op' = op /\ \A w \in Tasks : Seen(pc'[w]) = Seen(pc[w])
      BY <1>2 DEF mi_chan_close, mi_wake_all, Seen
    <2>2. AbsSt' = AbsSt /\ AbsOp' = AbsOp /\ AbsResult' = AbsResult /\ AbsQ' = AbsQ
      BY <1>2, <2>1 DEF AbsSt, AbsOp, AbsResult, AbsQ, mi_chan_close, cells
    <2>3. Abs!Close(t, c)
      BY <1>2, <2>2, SeenOf DEF Abs!Close, mi_chan_close, cells, Seen
    <2> QED
      BY <2>3 DEF Abs!Step
  <1>3. ASSUME RuntimeError(t)  PROVE Abs!Step(t)
    <2>1. AbsSt[t] = "running" /\ AbsOp[t] = Idle
      BY <1>3, SeenOf DEF RuntimeError, Seen
    <2>2. AbsSt' = [AbsSt EXCEPT ![t] = "failed"] /\ AbsOp' = [AbsOp EXCEPT ![t] = Idle]
      <3>1. /\ pc'[t] = "failed"
            /\ \A u \in Tasks \ {t} : pc'[u] = pc[u] /\ op'[u] = op[u]
        BY <1>3 DEF RuntimeError, TypeOK
      <3> QED
        BY <3>1, OneTask DEF Seen
    <2>3. Abs!Fail(t, "error")
      BY <1>3, <2>2, SameNames DEF Abs!Fail, RuntimeError, AbsResult, AbsQ, chans, cells
    <2>4. Abs!Err(t)
      BY <2>1, <2>3 DEF Abs!Err
    <2> QED
      BY <2>4 DEF Abs!Step
  <1>4. ASSUME Exit1(t)  PROVE Abs!Step(t)
    <2>1. AbsSt' = AbsSt /\ AbsOp' = AbsOp /\ AbsResult' = AbsResult /\ AbsQ' = AbsQ
      BY <1>4 DEF AbsSt, AbsOp, AbsResult, AbsQ, Exit1, chans, cells
    <2>2. Abs!Report(t)
      BY <1>4, <2>1, SeenOf DEF Abs!Report, Exit1, chans, cells, Seen
    <2> QED
      BY <2>2 DEF Abs!Step
  <1>5. ASSUME SpuriousWakeup(t)  PROVE UNCHANGED Abs!vars
    <2>1. \A w \in Tasks : Seen(pc'[w]) = Seen(pc[w])
      BY <1>5 DEF SpuriousWakeup, TypeOK, Seen
    <2>2. UNCHANGED <<op, ring, got, why, outcome, closed, done, res>>
      BY <1>5 DEF SpuriousWakeup, chans, cells
    <2>3. AbsSt' = AbsSt /\ AbsOp' = AbsOp /\ AbsResult' = AbsResult /\ AbsQ' = AbsQ
      BY <2>1, <2>2 DEF AbsSt, AbsOp, AbsResult, AbsQ
    <2> QED
      BY <2>2, <2>3 DEF Abs!vars
  <1> QED
    BY <1>1, <1>2, <1>3, <1>4, <1>5

LEMMA AbsNext ==
  ASSUME IndInv, IndInv', [Next]_vars
  PROVE  Abs!Next \/ UNCHANGED Abs!vars
  <1> DEFINE Goal(t) == Abs!Step(t) \/ Abs!Finish \/ UNCHANGED Abs!vars
  <1>0. TypeOK /\ TypeOK'
    BY DEF IndInv
  <1>1. ASSUME NEW t \in Tasks, Step(t)  PROVE Goal(t)
    <2>1. ASSUME NEW u \in Tasks, mi_task_spawn(t, u)  PROVE Goal(t)
      BY <1>0, <2>1, AbsStart
    <2>2. CASE ThreadStarts(t) \/ ThreadRefused(t)
      BY <1>0, <2>2, AbsStart
    <2>3. CASE CallSend(t) \/ CallRecv(t) \/ CallWait(t)
      <3>1. PICK o \in SendOps \cup RecvOps \cup WaitOps : Call(t, o)
        BY <2>3 DEF CallSend, CallRecv, CallWait
      <3>2. Abs!Ask(t, o)
        BY <1>0, <3>1, AbsCall
      <3> QED
        BY <3>2, SameNames DEF Abs!Step
    <2>4. CASE MainEnds(t)
      <3>1. Abs!Ask(t, AllOp)
        BY <1>0, <2>4, AbsCall DEF MainEnds
      <3> QED
        BY <2>4, <3>1, SameNames DEF Abs!Step, MainEnds
    <2>5. CASE Enter(t) \/ Return(t)
      <3>1. CASE Enter(t)
        BY <3>1, AbsLoop DEF Enter, Loop
      <3>2. CASE Return(t)
        BY <3>2, AbsLoop DEF Return, Loop
      <3> QED
        BY <2>5, <3>1, <3>2
    <2>6. CASE ReadResult(t) \/ RuntimeError(t) \/ Exit1(t)
      BY <1>0, <2>6, AbsRest
    <2>7. ASSUME NEW c \in Chans, mi_chan_close(t, c)  PROVE Goal(t)
      BY <1>0, <2>7, AbsRest
    <2>8. CASE StoreResult(t) \/ mi_task_main(t)
      BY <1>0, <2>8, AbsEnd
    <2> QED
      BY <1>1, <2>1, <2>2, <2>3, <2>4, <2>5, <2>6, <2>7, <2>8 DEF Step
  <1>2. ASSUME NEW t \in Tasks, SpuriousWakeup(t)  PROVE Goal(t)
    BY <1>0, <1>2, AbsRest
  <1>3. CASE UNCHANGED vars
    BY <1>3 DEF vars, AbsSt, AbsOp, AbsResult, AbsQ, Abs!vars
  <1>4. CASE outcome = "running" /\ \E t \in Tasks : Step(t) \/ SpuriousWakeup(t)
    <2>1. PICK t \in Tasks : Goal(t)
      BY <1>1, <1>2, <1>4
    <2> QED
      BY <1>4, <2>1 DEF Abs!Next
  <1> QED
    BY <1>3, <1>4 DEF Next, Exited

\* The native runtime keeps what ConcSpec promises (ImplementsConcSpec), its
\* rings being the queues: every value that is sent is received once and in
\* order, however often the buffer grows and wraps, no result is seen before
\* its task has ended, and an error is reported only where ConcSpec has one.
THEOREM Refinement == Spec => ImplementsConcSpec
  BY AbsInit, AbsNext, Inductive, PTL DEF Spec, ImplementsConcSpec, Abs!Spec
=============================================================================
