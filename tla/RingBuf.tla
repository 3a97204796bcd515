------------------------------ MODULE RingBuf ------------------------------
(***************************************************************************)
(* The buffer of a native channel (struct MiChan, mi_chan_send and          *)
(* mi_chan_recv in rt_conc.c): a circular array that doubles when full,     *)
(* as operators on the record [buf, head, len, bcap].  Slots that were      *)
(* never written hold NoVal.                                                *)
(***************************************************************************)
EXTENDS ConcTypes, Integers

CONSTANT FirstCap  \* slots of the first allocation (8 in the code)
ASSUME FirstCapAssumption == FirstCap \in Nat \ {0}

EmptyRing == [buf |-> [i \in {} |-> NoVal], head |-> 0, len |-> 0, bcap |-> 0]

\* Full, or never allocated: move the elements to a larger array.
\* Mutant: the elements move to the front, head does not.
GrowKeepingHead(r) ==
  LET nb == IF r.bcap = 0 THEN FirstCap ELSE r.bcap * 2 IN
  [buf |-> [i \in 0..(nb - 1) |->
              IF i < r.len THEN r.buf[(r.head + i) % r.bcap] ELSE NoVal],
   head |-> r.head, len |-> r.len, bcap |-> nb]

Grow(r) ==
  LET nb == IF r.bcap = 0 THEN FirstCap ELSE r.bcap * 2 IN
  [buf |-> [i \in 0..(nb - 1) |->
              IF i < r.len THEN r.buf[(r.head + i) % r.bcap] ELSE NoVal],
   head |-> 0, len |-> r.len, bcap |-> nb]

Put(r, v) ==
  [buf |-> [r.buf EXCEPT ![(r.head + r.len) % r.bcap] = v],
   head |-> r.head, len |-> r.len + 1, bcap |-> r.bcap]

Push(r, v) == Put(IF r.len = r.bcap THEN Grow(r) ELSE r, v)

First(r) == r.buf[r.head]

Pop(r) == [buf |-> r.buf, head |-> (r.head + 1) % r.bcap,
           len |-> r.len - 1, bcap |-> r.bcap]

-----------------------------------------------------------------------------
\* What a ring that the code can build looks like.
IsRing(r) ==
  /\ r = [buf |-> r.buf, head |-> r.head, len |-> r.len, bcap |-> r.bcap]
  /\ r.bcap \in Nat /\ r.len \in 0..r.bcap
  /\ r.head \in 0..(r.bcap - 1) \/ (r.bcap = 0 /\ r.head = 0)
  /\ r.buf \in [0..(r.bcap - 1) -> Values \cup {NoVal}]
  /\ \A i \in 0..(r.len - 1) : r.buf[(r.head + i) % r.bcap] \in Values

\* The queue a ring stands for, oldest element first.
Contents(r) == [i \in 1..r.len |-> r.buf[(r.head + i - 1) % r.bcap]]
=============================================================================
