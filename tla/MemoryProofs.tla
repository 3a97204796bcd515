---------------------------- MODULE MemoryProofs ----------------------------
(***************************************************************************)
(* Proofs about Memory, for any sizes of blocks and chunks and any number  *)
(* of blocks, pointers and arenas: the guard in front of a block tells     *)
(* whether it may be used.  Then about NetBuf, the other memory that is    *)
(* moved and grown by hand: no byte that arrived is lost or doubled.       *)
(***************************************************************************)
EXTENDS Memory, NetBuf, SequenceTheorems, WellFoundedInduction, TLAPS

Guards == [gen : Int, size : Int, arena : BOOLEAN]
Buffers == [alive : BOOLEAN, size : Nat, inArena : BOOLEAN]
Spots == [chunk : Nat, from : Nat, to : Nat]
Places == {Heap} \cup Spots
Chunks == [arena : Nat, used : Nat, cap : Nat]

\* A place in an arena is not the heap.
LEMMA SpotsNotHeap == ASSUME NEW x \in Spots  PROVE x # Heap
  <1>1. DOMAIN x # {}
    BY DEF Spots
  <1>2. DOMAIN Heap = {}
    BY DEF Heap
  <1> QED
    BY <1>1, <1>2

\* What is appended to a sequence stands at its end.
LEMMA Longer ==
  ASSUME NEW S, NEW s \in Seq(S), NEW x \in S
  PROVE  /\ Append(s, x) \in Seq(S) /\ Len(Append(s, x)) = Len(s) + 1
         /\ \A k \in 1..Len(s) : Append(s, x)[k] = s[k]
         /\ Append(s, x)[Len(s) + 1] = x
  BY AppendProperties

\* A change of elements keeps a sequence and its length.
LEMMA Changed ==
  ASSUME NEW S, NEW n \in Nat, NEW f \in [1..n -> S]
  PROVE  f \in Seq(S) /\ Len(f) = n
  <1>1. f \in Seq(S)
    BY IsASeq
  <1>2. DOMAIN f = 1..Len(f) /\ Len(f) \in Nat /\ DOMAIN f = 1..n
    BY <1>1, LenProperties
  <1> QED
    BY <1>1, <1>2

\* An arena that has chunks has a newest one: mi_arena_bump's a->head.
LEMMA Newest ==
  ASSUME chunks \in Seq(Chunks), NEW a, ChunksOf(a) # {}
  PROVE  Head0(a) \in ChunksOf(a)
  <1> DEFINE T == {n \in Nat : \E c \in ChunksOf(a) : n = Len(chunks) - c}
  <1>1. DOMAIN chunks = 1..Len(chunks) /\ Len(chunks) \in Nat
    BY LenProperties
  <1>2. \A c \in ChunksOf(a) : c \in 1..Len(chunks) /\ Len(chunks) - c \in T
    BY <1>1 DEF ChunksOf
  <1>3. T # {} /\ T \subseteq Nat
    BY <1>2
  <1>4. PICK n \in T : \A m \in T : <<m, n>> \notin OpToRel(<, Nat)
    <2> HIDE DEF T
    <2> QED
      BY <1>3, NatLessThanWellFounded, WFMin
  <1>5. \A m \in T : ~(m < n)
    BY <1>4 DEF OpToRel
  <1>6. PICK c \in ChunksOf(a) : n = Len(chunks) - c
    BY <1>4
  <1>7. \A o \in ChunksOf(a) : o <= c
    <2> SUFFICES ASSUME NEW o \in ChunksOf(a)  PROVE o <= c
      OBVIOUS
    <2>1. ~(Len(chunks) - o < n)
      BY <1>2, <1>5
    <2> QED
      BY <1>1, <1>2, <1>6, <2>1
  <1> QED
    BY <1>7 DEF Head0

-----------------------------------------------------------------------------
(* Each action keeps the invariant *)

\* What every new block has in common, on the heap or in an arena.
LEMMA NewBlockInv ==
  ASSUME MemoryInv, NEW n \in Sizes, NEW arena \in BOOLEAN, NewBlock(n, arena),
         NEW x \in Places, place' = Append(place, x), arena <=> x # Heap,
         chunks' \in Seq(Chunks), open' \in Seq(Nat), opened' \in Nat
  PROVE  /\ MemoryTypes' /\ PointersKeepGen' /\ GuardsTell' /\ NoUseAfterFree'
         /\ counter' = counter + 1 /\ counter \in Nat
         /\ \A b \in 1..counter : place'[b] = place[b]
         /\ place'[counter + 1] = x
  <1> DEFINE b0 == counter + 1
  <1>1. /\ counter \in Nat /\ Len(guard) = counter /\ Len(buffer) = counter /\ Len(place) = counter
        /\ guard \in Seq(Guards) /\ buffer \in Seq(Buffers) /\ place \in Seq(Places)
        /\ n \in Nat
    BY MemoryAssumption, LenProperties DEF MemoryInv, MemoryTypes, Guards, Buffers, Places, Spots, MemoryAssumption
  <1>2. /\ guard' = Append(guard, [gen |-> b0, size |-> n, arena |-> arena])
        /\ buffer' = Append(buffer, [alive |-> TRUE, size |-> n, inArena |-> arena])
        /\ pointers' = pointers \cup {[block |-> b0, off |-> 0, gen |-> b0]}
        /\ owned' = owned \cup {b0} /\ counter' = b0 /\ access' = Nothing
    BY <1>1 DEF NewBlock
  <1>3. /\ guard' \in Seq(Guards) /\ Len(guard') = b0
        /\ \A b \in 1..counter : guard'[b] = guard[b]
        /\ guard'[b0] = [gen |-> b0, size |-> n, arena |-> arena]
    <2>1. [gen |-> b0, size |-> n, arena |-> arena] \in Guards
      BY <1>1 DEF Guards
    <2> QED
      BY <1>1, <1>2, <2>1, Longer
  <1>4. /\ buffer' \in Seq(Buffers) /\ Len(buffer') = b0
        /\ \A b \in 1..counter : buffer'[b] = buffer[b]
        /\ buffer'[b0] = [alive |-> TRUE, size |-> n, inArena |-> arena]
    <2>1. [alive |-> TRUE, size |-> n, inArena |-> arena] \in Buffers
      BY <1>1 DEF Buffers
    <2> QED
      BY <1>1, <1>2, <2>1, Longer
  <1>5. /\ place' \in Seq(Places) /\ Len(place') = b0
        /\ \A b \in 1..counter : place'[b] = place[b]
        /\ place'[b0] = x
    BY <1>1, Longer
  <1>6. MemoryTypes'
    <2>1. /\ pointers' \subseteq [block : 1..counter', off : Nat, gen : Nat]
          /\ owned' \subseteq 1..counter'
      <3>1. /\ pointers \subseteq [block : 1..counter, off : Nat, gen : Nat]
            /\ owned \subseteq 1..counter
        BY DEF MemoryInv, MemoryTypes
      <3>2. 1..counter \subseteq 1..b0 /\ b0 \in 1..b0 /\ b0 \in Nat
        BY <1>1
      <3> HIDE DEF b0
      <3>3. [block |-> b0, off |-> 0, gen |-> b0] \in [block : 1..b0, off : Nat, gen : Nat]
        BY <3>2
      <3>4. \A p \in pointers : p \in [block : 1..b0, off : Nat, gen : Nat]
        BY <3>1, <3>2
      <3> QED
        BY <1>2, <3>1, <3>2, <3>3, <3>4
    <2> QED
      BY <1>1, <1>2, <1>3, <1>4, <1>5, <2>1 DEF MemoryTypes, Guards, Buffers, Places, Spots, Chunks
  <1>7. PointersKeepGen'
    BY <1>2 DEF MemoryInv, PointersKeepGen
  <1>8. GuardsTell'
    <2> SUFFICES ASSUME NEW b \in 1..b0
                 PROVE  /\ guard'[b].gen = b <=> b \in owned'
                        /\ buffer'[b].alive <=> b \in owned'
                        /\ b \in owned' => guard'[b].size = buffer'[b].size
                        /\ guard'[b].arena = buffer'[b].inArena
                        /\ buffer'[b].inArena <=> place'[b] # Heap
      BY <1>2 DEF GuardsTell
    <2>1. CASE b = b0
      BY <1>2, <1>3, <1>4, <1>5, <2>1
    <2>2. CASE b # b0
      <3>1. b \in 1..counter
        BY <1>1, <2>2
      <3> QED
        BY <1>2, <1>3, <1>4, <1>5, <2>2, <3>1 DEF MemoryInv, GuardsTell
    <2> QED
      BY <2>1, <2>2
  <1>9. NoUseAfterFree'
    BY <1>2 DEF NoUseAfterFree
  <1> QED
    BY <1>1, <1>2, <1>5, <1>6, <1>7, <1>8, <1>9

LEMMA Rounded == ASSUME NEW n \in Nat  PROVE Even(n) \in Nat /\ Even(n) >= n
  BY DEF Even

\* mi_arena_bump: the words lie above all that the chunk has given out, and in
\* what it counts as used from now on.
LEMMA Bumped ==
  ASSUME MemoryInv, NEW a \in Nat, NEW words \in Nat, mi_arena_bump(a, words)
  PROVE  \E c \in Nat, from \in Nat :
           /\ place' = Append(place, [chunk |-> c, from |-> from, to |-> from + words])
           /\ chunks' \in Seq(Chunks) /\ DOMAIN chunks \subseteq DOMAIN chunks'
           /\ c \in DOMAIN chunks' /\ from + words <= chunks'[c].used
           /\ c \in DOMAIN chunks => from = chunks[c].used
           /\ \A k \in DOMAIN chunks : chunks'[k].used >= chunks[k].used
           /\ \A k \in DOMAIN chunks' : chunks'[k].used <= chunks'[k].cap
  <1> DEFINE n == Even(words)
             grows == ChunksOf(a) = {} \/ chunks[Head0(a)].cap - chunks[Head0(a)].used < n
             cap == IF ChunksOf(a) = {} THEN Chunk0 ELSE chunks[Head0(a)].cap * 2
             c == IF grows THEN Len(chunks) + 1 ELSE Head0(a)
             from == IF grows THEN 0 ELSE chunks[c].used
             new == [arena |-> a, used |-> n, cap |-> IF cap < n THEN n ELSE cap]
  <1>1. /\ chunks \in Seq(Chunks) /\ DOMAIN chunks = 1..Len(chunks) /\ Len(chunks) \in Nat
        /\ \A k \in 1..Len(chunks) : chunks[k] \in Chunks /\ chunks[k].used <= chunks[k].cap
    <2>1. chunks \in Seq(Chunks)
      BY DEF MemoryInv, MemoryTypes, Chunks
    <2>2. DOMAIN chunks = 1..Len(chunks) /\ Len(chunks) \in Nat /\ chunks \in [1..Len(chunks) -> Chunks]
      BY <2>1, LenProperties
    <2> QED
      BY <2>1, <2>2 DEF MemoryInv, PlacesUsed
  <1>2. /\ chunks' = IF grows THEN Append(chunks, new) ELSE [chunks EXCEPT ![c].used = @ + n]
        /\ place' = Append(place, [chunk |-> c, from |-> from, to |-> from + words])
    BY DEF mi_arena_bump
  <1>3. n \in Nat /\ n >= words
    BY Rounded
  <1>4. ChunksOf(a) # {} => Head0(a) \in 1..Len(chunks)
    BY <1>1, Newest DEF ChunksOf
  <1>5. CASE grows
    <2>1. new \in Chunks /\ n <= new.cap
      <3>1. cap \in Nat
        <4>1. CASE ChunksOf(a) = {}
          BY <4>1, MemoryAssumption DEF MemoryAssumption
        <4>2. CASE ChunksOf(a) # {}
          BY <1>1, <1>4, <4>2, SMTT(40) DEF Chunks
        <4> QED
          BY <4>1, <4>2
      <3> HIDE DEF cap, n
      <3> QED
        BY <1>3, <3>1 DEF Chunks
    <2> HIDE DEF grows, n, new
    <2>2. c = Len(chunks) + 1 /\ from = 0 /\ chunks' = Append(chunks, new)
      BY <1>2, <1>5
    <2>3. /\ chunks' \in Seq(Chunks) /\ Len(chunks') = Len(chunks) + 1
          /\ \A k \in 1..Len(chunks) : chunks'[k] = chunks[k]
          /\ chunks'[Len(chunks) + 1] = new
      BY <1>1, <2>1, <2>2, Longer
    <2>4. DOMAIN chunks' = 1..Len(chunks) + 1
      BY <2>3, LenProperties
    <2>5. new.used = n
      BY DEF new
    <2> HIDE DEF c, from
    <2> c \in Nat /\ from \in Nat
      BY <1>1, <2>2
    <2>6. c \in DOMAIN chunks' /\ c \notin DOMAIN chunks /\ chunks'[c] = new
      BY <1>1, <2>2, <2>3, <2>4
    <2>7. \A k \in DOMAIN chunks' : k \in DOMAIN chunks \/ k = c
      BY <1>1, <2>2, <2>4
    <2>8. \A k \in DOMAIN chunks : chunks'[k].used >= chunks[k].used /\ chunks'[k].used <= chunks'[k].cap
      <3> SUFFICES ASSUME NEW k \in 1..Len(chunks)
                   PROVE  chunks'[k].used >= chunks[k].used /\ chunks'[k].used <= chunks'[k].cap
        BY <1>1
      <3>1. chunks'[k] = chunks[k] /\ chunks[k] \in Chunks /\ chunks[k].used <= chunks[k].cap
        BY <1>1, <2>3
      <3> QED
        BY <3>1 DEF Chunks
    <2>9. \A k \in DOMAIN chunks' : chunks'[k].used <= chunks'[k].cap
      BY <2>1, <2>5, <2>6, <2>7, <2>8
    <2>10. from + words <= chunks'[c].used
      BY <1>3, <2>2, <2>5, <2>6
    <2>11. DOMAIN chunks \subseteq DOMAIN chunks' /\ chunks' \in Seq(Chunks)
      BY <1>1, <2>3, <2>4
    <2>12. \A k \in DOMAIN chunks : chunks'[k].used >= chunks[k].used
      BY <2>8
    <2> WITNESS c \in Nat, from \in Nat
    <2> QED
      BY <1>2, <2>6, <2>9, <2>10, <2>11, <2>12
  <1>6. CASE ~grows
    <2>1. /\ c = Head0(a) /\ c \in 1..Len(chunks) /\ from = chunks[c].used
          /\ chunks[c].cap - chunks[c].used >= n
      BY <1>1, <1>3, <1>4, <1>6, SMTT(40) DEF Chunks
    <2> HIDE DEF grows, n, c, from
    <2>2. chunks' = [chunks EXCEPT ![c].used = @ + n]
      BY <1>2, <1>6
    <2>3. /\ chunks' \in [1..Len(chunks) -> Chunks]
          /\ \A k \in 1..Len(chunks) :
               /\ chunks'[k].cap = chunks[k].cap
               /\ chunks'[k].used = chunks[k].used + (IF k = c THEN n ELSE 0)
      <3>1. chunks \in [1..Len(chunks) -> Chunks]
        BY <1>1, LenProperties
      <3>2. ASSUME NEW k \in 1..Len(chunks)
            PROVE  /\ chunks'[k] \in Chunks /\ chunks'[k].cap = chunks[k].cap
                   /\ chunks'[k].used = chunks[k].used + (IF k = c THEN n ELSE 0)
        <4>1. chunks[k] \in Chunks
          BY <3>1
        <4>2. CASE k = c
          <5>1. chunks'[k] = [chunks[k] EXCEPT !.used = @ + n]
            BY <2>1, <2>2, <3>1, <4>2
          <5> QED
            BY <1>3, <4>1, <4>2, <5>1 DEF Chunks
        <4>3. CASE k # c
          <5>1. chunks'[k] = chunks[k]
            BY <2>1, <2>2, <3>1, <4>3
          <5> QED
            BY <4>1, <4>3, <5>1 DEF Chunks
        <4> QED
          BY <4>2, <4>3
      <3>3. chunks' \in [1..Len(chunks) -> Chunks]
        <4>1. DOMAIN chunks' = 1..Len(chunks) /\ chunks' = [k \in 1..Len(chunks) |-> chunks'[k]]
          BY <2>2, <3>1
        <4> QED
          BY <3>2, <4>1
      <3> QED
        BY <3>2, <3>3
    <2>4. chunks' \in Seq(Chunks) /\ DOMAIN chunks' = 1..Len(chunks)
      BY <1>1, <2>3, Changed
    <2> c \in Nat /\ from \in Nat
      BY <1>1, <2>1 DEF Chunks
    <2>5. ASSUME NEW k \in 1..Len(chunks)
          PROVE  /\ chunks'[k].used >= chunks[k].used /\ chunks'[k].used <= chunks'[k].cap
                 /\ k = c => from + words <= chunks'[k].used
      <3>1. /\ chunks[k].used \in Nat /\ chunks[k].cap \in Nat /\ chunks[k].used <= chunks[k].cap
            /\ chunks'[k].cap = chunks[k].cap
            /\ chunks'[k].used = chunks[k].used + (IF k = c THEN n ELSE 0)
        BY <1>1, <2>3 DEF Chunks
      <3> QED
        BY <1>3, <2>1, <3>1
    <2> WITNESS c \in Nat, from \in Nat
    <2> QED
      BY <1>1, <1>2, <2>1, <2>4, <2>5
  <1> QED
    BY <1>5, <1>6

\* A place above all others of its chunk keeps blocks apart.
LEMMA ArenaAllocInv ==
  ASSUME MemoryInv, NEW k \in DOMAIN open, NEW n \in Sizes, ArenaAlloc(open[k], n)
  PROVE  MemoryInv'
  <1> DEFINE w == Guard + n
  <1>1. /\ w \in Nat /\ w > 0 /\ open[k] \in Nat /\ counter \in Nat
        /\ open' = open /\ opened' = opened
        /\ open \in Seq(Nat) /\ opened \in Nat
        /\ NewBlock(n, TRUE) /\ mi_arena_bump(open[k], w)
    <2>1. open \in [1..Len(open) -> Nat] /\ DOMAIN open = 1..Len(open)
      BY LenProperties DEF MemoryInv, MemoryTypes
    <2>2. counter \in Nat
      BY LenProperties DEF MemoryInv, MemoryTypes
    <2>3. Guard \in Nat /\ Guard > 0 /\ n \in Nat
      BY MemoryAssumption DEF MemoryAssumption
    <2>4. open[k] \in Nat
      BY <2>1
    <2> QED
      <3>1. w \in Nat /\ w > 0
        BY <2>3
      <3> HIDE DEF w
      <3>2. mi_arena_bump(open[k], w)
        BY DEF ArenaAlloc, w
      <3> QED
        BY <2>2, <2>4, <3>1, <3>2 DEF ArenaAlloc, MemoryInv, MemoryTypes
  <1> HIDE DEF w
  <1>2. PICK c \in Nat, from \in Nat :
          /\ place' = Append(place, [chunk |-> c, from |-> from, to |-> from + w])
          /\ chunks' \in Seq(Chunks) /\ DOMAIN chunks \subseteq DOMAIN chunks'
          /\ c \in DOMAIN chunks' /\ from + w <= chunks'[c].used
          /\ c \in DOMAIN chunks => from = chunks[c].used
          /\ \A m \in DOMAIN chunks : chunks'[m].used >= chunks[m].used
          /\ \A m \in DOMAIN chunks' : chunks'[m].used <= chunks'[m].cap
    BY <1>1, Bumped
  <1> DEFINE x == [chunk |-> c, from |-> from, to |-> from + w]
             b0 == counter + 1
  <1>3. x \in Spots /\ x # Heap
    <2>1. x \in Spots
      BY <1>1 DEF Spots
    <2> QED
      BY <2>1, SpotsNotHeap
  <1>4. x.chunk = c /\ x.from = from /\ x.to = from + w
    OBVIOUS
  <1> HIDE DEF x
  <1>5. /\ MemoryTypes' /\ PointersKeepGen' /\ GuardsTell' /\ NoUseAfterFree'
        /\ counter' = b0
        /\ \A b \in 1..counter : place'[b] = place[b]
        /\ place'[b0] = x
    <2>1. place' = Append(place, x)
      BY <1>2 DEF x
    <2>2. x \in Places /\ TRUE \in BOOLEAN /\ (TRUE <=> x # Heap)
      BY <1>3 DEF Places
    <2>3. chunks' \in Seq(Chunks) /\ open' \in Seq(Nat) /\ opened' \in Nat
      BY <1>1, <1>2
    <2> QED
      BY <1>1, <2>1, <2>2, <2>3, NewBlockInv
  <1>6. DOMAIN place' = 1..b0 /\ DOMAIN place = 1..counter
    BY <1>5, LenProperties DEF MemoryInv, MemoryTypes
  <1>7. \A b \in 1..counter : place[b] # Heap =>
          place[b] \in Spots /\ place[b].chunk \in DOMAIN chunks
          /\ place[b].from < place[b].to /\ place[b].to <= chunks[place[b].chunk].used
    <2>1. place \in [1..counter -> Places]
      BY <1>6, LenProperties DEF MemoryInv, MemoryTypes, Places, Spots
    <2> QED
      BY <2>1 DEF MemoryInv, PlacesUsed, Places
  <1>8. \A m \in DOMAIN chunks : chunks[m].used \in Nat /\ chunks'[m].used \in Nat /\ chunks'[m].cap \in Nat
    <2>1. chunks \in [DOMAIN chunks -> Chunks] /\ chunks' \in [DOMAIN chunks' -> Chunks]
      BY <1>2, LenProperties DEF MemoryInv, MemoryTypes, Chunks
    <2> QED
      BY <1>2, <2>1 DEF Chunks
  <1>9. PlacesUsed'
    <2>1. ASSUME NEW b \in 1..b0, place'[b] # Heap
          PROVE  /\ place'[b].chunk \in DOMAIN chunks'
                 /\ place'[b].from < place'[b].to /\ place'[b].to <= chunks'[place'[b].chunk].used
      <3>1. CASE b = b0
        <4>1. /\ place'[b] = x /\ from < from + w
          BY <1>1, <1>5, <3>1
        <4> QED
          BY <1>2, <1>4, <4>1
      <3>2. CASE b # b0
        <4>1. b \in 1..counter /\ place'[b] = place[b]
          BY <1>1, <1>5, <3>2
        <4>2. /\ place[b].chunk \in DOMAIN chunks /\ place[b].from < place[b].to
              /\ place[b].to <= chunks[place[b].chunk].used /\ place[b].to \in Nat
          BY <1>7, <2>1, <4>1 DEF Spots
        <4>3. PICK m \in DOMAIN chunks : m = place[b].chunk
          BY <4>2
        <4>4. /\ m \in DOMAIN chunks' /\ chunks[m].used \in Nat /\ chunks'[m].used \in Nat
              /\ chunks'[m].used >= chunks[m].used
          BY <1>2, <1>8
        <4> QED
          BY <4>1, <4>2, <4>3, <4>4
      <3> QED
        BY <3>1, <3>2
    <2> QED
      BY <1>2, <1>5, <2>1 DEF PlacesUsed
  <1>10. BlocksApart'
    <2>1. ASSUME NEW b \in 1..b0, place'[b] # Heap  PROVE place'[b].to <= chunks'[place'[b].chunk].cap
      <3>1. /\ place'[b].chunk \in DOMAIN chunks' /\ place'[b].to <= chunks'[place'[b].chunk].used
            /\ chunks'[place'[b].chunk].used <= chunks'[place'[b].chunk].cap
        BY <1>2, <1>5, <1>9, <2>1 DEF PlacesUsed
      <3>2. place'[b] \in Spots /\ chunks'[place'[b].chunk] \in Chunks
        <4>1. chunks' \in [DOMAIN chunks' -> Chunks]
          BY <1>2, LenProperties
        <4>2. b \in 1..counter \/ b = b0
          BY <1>1
        <4> QED
          BY <1>3, <1>5, <1>7, <2>1, <3>1, <4>1, <4>2
      <3> QED
        BY <3>1, <3>2 DEF Spots, Chunks
    <2>2. ASSUME NEW b \in 1..counter, place'[b] # Heap, place'[b].chunk = c
          PROVE  place'[b].to <= x.from
      BY <1>2, <1>4, <1>5, <1>7, <2>2, ZenonT(60)
    <2>3. ASSUME NEW b \in 1..b0, NEW o \in 1..b0, o # b, place'[b] # Heap, place'[o] # Heap,
                 place'[o].chunk = place'[b].chunk
          PROVE  place'[o].to <= place'[b].from \/ place'[b].to <= place'[o].from
      <3>1. CASE b = b0
        BY <1>1, <1>4, <1>5, <2>2, <2>3, <3>1, SMTT(40)
      <3>2. CASE o = b0
        BY <1>1, <1>4, <1>5, <2>2, <2>3, <3>2, SMTT(40)
      <3>3. CASE b # b0 /\ o # b0
        <4>1. b \in 1..counter /\ o \in 1..counter
          BY <1>1, <3>3
        <4> QED
          BY <1>5, <1>6, <2>3, <4>1 DEF MemoryInv, BlocksApart
      <3> QED
        BY <3>1, <3>2, <3>3
    <2> QED
      BY <1>6, <2>1, <2>3 DEF BlocksApart
  <1> QED
    BY <1>5, <1>9, <1>10 DEF MemoryInv

LEMMA AllocInv ==
  ASSUME MemoryInv, NEW n \in Sizes, Alloc(n)
  PROVE  MemoryInv'
  <1>1. /\ NewBlock(n, FALSE) /\ place' = Append(place, Heap)
        /\ chunks' = chunks /\ open' = open /\ opened' = opened
    BY DEF Alloc
  <1>2. /\ MemoryTypes' /\ PointersKeepGen' /\ GuardsTell' /\ NoUseAfterFree'
        /\ counter' = counter + 1 /\ counter \in Nat
        /\ \A b \in 1..counter : place'[b] = place[b]
        /\ place'[counter + 1] = Heap
    <2>1. Heap \in Places /\ FALSE \in BOOLEAN /\ (FALSE <=> Heap # Heap)
      BY DEF Places
    <2>2. chunks' \in Seq(Chunks) /\ open' \in Seq(Nat) /\ opened' \in Nat
      BY <1>1 DEF MemoryInv, MemoryTypes, Chunks
    <2> QED
      BY <1>1, <2>1, <2>2, NewBlockInv
  <1>3. \A b \in 1..counter' : place'[b] # Heap => b \in 1..counter /\ place'[b] = place[b]
    BY <1>2
  <1>4. PlacesUsed'
    BY <1>1, <1>3 DEF PlacesUsed, MemoryInv
  <1>5. BlocksApart'
    <2>1. DOMAIN place' = 1..counter' /\ DOMAIN place = 1..counter
      BY <1>2, LenProperties DEF MemoryInv, MemoryTypes
    <2> QED
      <3>1. ASSUME NEW b \in DOMAIN place', place'[b] # Heap
            PROVE  b \in DOMAIN place /\ place'[b] = place[b] /\ place[b] # Heap
        BY <1>3, <2>1, <3>1
      <3>2. BlocksApart
        BY DEF MemoryInv
      <3>3. ASSUME NEW b \in DOMAIN place', place'[b] # Heap
            PROVE  place'[b].to <= chunks'[place'[b].chunk].cap
        BY <1>1, <3>1, <3>2, <3>3 DEF BlocksApart
      <3>4. ASSUME NEW b \in DOMAIN place', place'[b] # Heap, NEW o \in DOMAIN place' \ {b},
                   place'[o] # Heap, place'[o].chunk = place'[b].chunk
            PROVE  place'[o].to <= place'[b].from \/ place'[b].to <= place'[o].from
        <4>1. /\ b \in DOMAIN place /\ place'[b] = place[b]
              /\ o \in DOMAIN place \ {b} /\ place'[o] = place[o]
          BY <3>1, <3>4
        <4> QED
          BY <3>2, <3>4, <4>1 DEF BlocksApart
      <3> QED
        BY <3>3, <3>4 DEF BlocksApart
  <1> QED
    BY <1>2, <1>4, <1>5 DEF MemoryInv

LEMMA OpenArenaInv ==
  ASSUME MemoryInv, OpenArena
  PROVE  MemoryInv'
  <1>1. /\ opened' = opened + 1 /\ open' = Append(open, opened + 1) /\ access' = Nothing
        /\ UNCHANGED <<guard, place, chunks, counter, buffer, pointers, owned>>
        /\ opened \in Nat /\ open \in Seq(Nat)
    BY DEF OpenArena, MemoryInv, MemoryTypes
  <1>2. open' \in Seq(Nat) /\ opened' \in Nat
    BY <1>1, Longer
  <1> QED
    BY <1>1, <1>2 DEF MemoryInv, MemoryTypes, PointersKeepGen, GuardsTell, PlacesUsed, BlocksApart, NoUseAfterFree

\* The arena that ends overwrites every guard it gave out: the guard of a block
\* lies in the used part of its chunk.
LEMMA CloseArenaInv ==
  ASSUME MemoryInv, CloseArena
  PROVE  MemoryInv'
  <1> DEFINE a == open[Len(open)]
             mine == {b \in DOMAIN guard : place[b] # Heap /\ place[b].chunk \in ChunksOf(a)}
  <1>1. /\ guard' = [b \in DOMAIN guard |-> IF b \in Overwritten(a) THEN [gen |-> Trash, size |-> Trash, arena |-> TRUE]
                                           ELSE guard[b]]
        /\ buffer' = [b \in DOMAIN buffer |-> IF b \in mine THEN [buffer[b] EXCEPT !.alive = FALSE] ELSE buffer[b]]
        /\ owned' = owned \ mine
        /\ open # << >> /\ open' = SubSeq(open, 1, Len(open) - 1) /\ access' = Nothing
        /\ UNCHANGED <<place, chunks, opened, counter, pointers>>
    BY DEF CloseArena
  <1>2. /\ counter \in Nat /\ Len(guard) = counter /\ Len(buffer) = counter
        /\ DOMAIN guard = 1..counter /\ DOMAIN buffer = 1..counter
        /\ guard \in [1..counter -> Guards] /\ buffer \in [1..counter -> Buffers]
        /\ place \in [1..counter -> Places]
    BY LenProperties DEF MemoryInv, MemoryTypes, Guards, Buffers, Places, Spots
  <1>3. Overwritten(a) = mine
    <2>1. ASSUME NEW b \in 1..counter, place[b] # Heap, place[b].chunk \in ChunksOf(a)
          PROVE  place[b].from < chunks[place[b].chunk].used
      <3>1. /\ place[b].from < place[b].to /\ place[b].to <= chunks[place[b].chunk].used
            /\ place[b].chunk \in DOMAIN chunks
        BY <2>1 DEF MemoryInv, PlacesUsed
      <3>2. place[b].from \in Nat /\ place[b].to \in Nat
        BY <1>2, <2>1 DEF Places, Spots
      <3>3. chunks[place[b].chunk].used \in Nat
        <4>1. chunks \in [DOMAIN chunks -> [arena : Nat, used : Nat, cap : Nat]]
          BY LenProperties DEF MemoryInv, MemoryTypes
        <4> QED
          BY <3>1, <4>1
      <3> QED
        BY <3>1, <3>2, <3>3
    <2> QED
      BY <1>2, <2>1 DEF Overwritten
  <1> DEFINE trash == [gen |-> Trash, size |-> Trash, arena |-> TRUE]
  <1>4. trash \in Guards /\ trash.gen = -1 /\ trash.arena = TRUE
    BY DEF Trash, Guards
  <1> HIDE DEF mine, a, trash
  <1>5. \A b \in 1..counter :
          /\ guard'[b] = IF b \in mine THEN trash ELSE guard[b]
          /\ buffer'[b] = IF b \in mine THEN [buffer[b] EXCEPT !.alive = FALSE] ELSE buffer[b]
    BY <1>1, <1>2, <1>3 DEF trash
  <1>6. guard' \in Seq(Guards) /\ Len(guard') = counter
    <2>1. guard' \in [1..counter -> Guards]
      BY <1>1, <1>2, <1>3, <1>4 DEF trash
    <2> QED
      BY <1>2, <2>1, Changed
  <1>7. buffer' \in Seq(Buffers) /\ Len(buffer') = counter
    <2>1. buffer' \in [1..counter -> Buffers]
      <3>1. \A b \in 1..counter : [buffer[b] EXCEPT !.alive = FALSE] \in Buffers
        BY <1>2 DEF Buffers
      <3> QED
        BY <1>1, <1>2, <3>1
    <2> QED
      BY <1>2, <2>1, Changed
  <1>8. open' \in Seq(Nat)
    <2>1. open \in Seq(Nat)
      BY DEF MemoryInv, MemoryTypes
    <2>2. \A k \in 1..Len(open) - 1 : open[k] \in Nat
      BY <2>1, LenProperties, ElementOfSeq
    <2> QED
      BY <1>1, <2>1, <2>2, LenProperties, SubSeqProperties
  <1>9. MemoryTypes'
    BY <1>1, <1>6, <1>7, <1>8 DEF MemoryInv, MemoryTypes, Guards, Buffers
  <1>10. GuardsTell'
    <2> SUFFICES ASSUME NEW b \in 1..counter
                 PROVE  /\ guard'[b].gen = b <=> b \in owned'
                        /\ buffer'[b].alive <=> b \in owned'
                        /\ b \in owned' => guard'[b].size = buffer'[b].size
                        /\ guard'[b].arena = buffer'[b].inArena
                        /\ buffer'[b].inArena <=> place'[b] # Heap
      BY <1>1 DEF GuardsTell
    <2>1. /\ guard[b].gen = b <=> b \in owned
          /\ buffer[b].alive <=> b \in owned
          /\ b \in owned => guard[b].size = buffer[b].size
          /\ guard[b].arena = buffer[b].inArena
          /\ buffer[b].inArena <=> place[b] # Heap
      BY DEF MemoryInv, GuardsTell
    <2>2. CASE b \in mine
      <3>1. guard'[b] = trash /\ buffer'[b] = [buffer[b] EXCEPT !.alive = FALSE] /\ place[b] # Heap
        BY <1>5, <2>2 DEF mine
      <3>2. buffer'[b].alive = FALSE /\ buffer'[b].inArena = buffer[b].inArena
        BY <1>2, <3>1 DEF Buffers
      <3>3. b \notin owned' /\ place' = place /\ b >= 1
        BY <1>1, <1>2, <2>2
      <3>4. guard'[b].gen # b /\ guard'[b].arena = TRUE
        BY <1>2, <1>4, <3>1, <3>3
      <3>5. buffer[b].inArena = TRUE
        BY <1>2, <2>1, <3>1 DEF Buffers
      <3> QED
        BY <3>1, <3>2, <3>3, <3>4, <3>5
    <2>3. CASE b \notin mine
      BY <1>1, <1>5, <2>1, <2>3
    <2> QED
      BY <2>2, <2>3
  <1> QED
    BY <1>1, <1>9, <1>10 DEF MemoryInv, PointersKeepGen, PlacesUsed, BlocksApart, NoUseAfterFree

\* Moving a pointer changes nothing of what it is compared with.
LEMMA PtrAddInv ==
  ASSUME MemoryInv, NEW p \in pointers, NEW k \in Offsets, PtrAdd(p, k)
  PROVE  MemoryInv'
  <1> DEFINE q == [p EXCEPT !.off = @ + k]
  <1>1. /\ pointers' = pointers \cup {q} /\ access' = Nothing /\ p.off + k >= 0
        /\ UNCHANGED <<guard, place, chunks, open, opened, counter, buffer, owned>>
    BY DEF PtrAdd
  <1>2. q \in [block : 1..counter, off : Nat, gen : Nat] /\ q.gen = p.gen /\ q.block = p.block
    <2>1. p \in [block : 1..counter, off : Nat, gen : Nat] /\ k \in Int
      BY MemoryAssumption DEF MemoryAssumption, MemoryInv, MemoryTypes
    <2>2. p.off + k \in Nat
      BY <1>1, <2>1
    <2> QED
      BY <2>1, <2>2
  <1> HIDE DEF q
  <1>3. MemoryTypes'
    BY <1>1, <1>2 DEF MemoryInv, MemoryTypes
  <1>4. PointersKeepGen'
    BY <1>1, <1>2 DEF MemoryInv, PointersKeepGen
  <1> QED
    BY <1>1, <1>3, <1>4 DEF MemoryInv, GuardsTell, PlacesUsed, BlocksApart, NoUseAfterFree

\* What a verdict says that is the same for both and true if it lets through.
LEMMA Judged ==
  ASSUME NEW n \in BOOLEAN, NEW i \in BOOLEAN, NEW r \in BOOLEAN, n = i, n => r,
         access' = Verdict(n, i, r)
  PROVE  NoUseAfterFree'
  <1> DEFINE v == [native |-> n, interp |-> i, really |-> r]
  <1>1. access'[1] = v
    BY DEF Verdict
  <1>2. v.native = n /\ v.interp = i /\ v.really = r
    OBVIOUS
  <1> HIDE DEF v
  <1>3. access'[1].native = access'[1].interp /\ (access'[1].native => access'[1].really)
    BY <1>1, <1>2
  <1> QED
    BY <1>3 DEF NoUseAfterFree

\* What an access or a free compares: guard, buffer and truth agree.
LEMMA Comparable ==
  ASSUME MemoryInv, NEW p \in pointers
  PROVE  /\ p.block \in 1..counter /\ p.block \in Nat \ {0} /\ p.gen = p.block /\ p.off \in Nat
         /\ guard[p.block] \in Guards /\ buffer[p.block] \in Buffers
         /\ guard[p.block].gen = p.gen <=> p.block \in owned
         /\ buffer[p.block].alive <=> p.block \in owned
         /\ p.block \in owned => guard[p.block].size = buffer[p.block].size
         /\ guard[p.block].arena = buffer[p.block].inArena
  <1>1. /\ counter \in Nat /\ guard \in [1..counter -> Guards] /\ buffer \in [1..counter -> Buffers]
    BY LenProperties DEF MemoryInv, MemoryTypes, Guards, Buffers
  <1>2. p \in [block : 1..counter, off : Nat, gen : Nat] /\ p.gen = p.block
    BY DEF MemoryInv, MemoryTypes, PointersKeepGen
  <1> QED
    BY <1>1, <1>2 DEF MemoryInv, GuardsTell

\* The two test in another order, and decide alike.
LEMMA FreePointerInv ==
  ASSUME MemoryInv, NEW p \in pointers, FreePointer(p)
  PROVE  MemoryInv'
  <1>1. access' = Verdict(mi_ptr_free(p), InterpFree(p), p.block \in owned)
        /\ UNCHANGED <<place, chunks, open, opened, counter, pointers>>
    BY DEF FreePointer
  <1>2. mi_ptr_free(p) <=> InterpFree(p)
    BY Comparable DEF mi_ptr_free, InterpFree, Freed, Guards, Buffers
  <1>3. mi_ptr_free(p) => p.block \in owned
    BY Comparable DEF mi_ptr_free
  <1>4. NoUseAfterFree'
    <2> DEFINE n == mi_ptr_free(p)
               i == InterpFree(p)
               r == p.block \in owned
    <2>1. n \in BOOLEAN /\ i \in BOOLEAN /\ r \in BOOLEAN
      BY Comparable DEF mi_ptr_free, InterpFree, Buffers, Guards
    <2>2. n = i /\ (n => r) /\ access' = Verdict(n, i, r)
      BY <1>1, <1>2, <1>3, <2>1
    <2> HIDE DEF n, i, r
    <2> QED
      BY <2>1, <2>2, Judged
  <1>5. MemoryTypes' /\ GuardsTell'
    <2>1. CASE ~mi_ptr_free(p)
      <3>1. UNCHANGED <<guard, buffer, owned>>
        BY <2>1 DEF FreePointer
      <3> QED
        BY <1>1, <3>1 DEF MemoryInv, MemoryTypes, GuardsTell
    <2>2. CASE mi_ptr_free(p)
      <3> DEFINE b == p.block
      <3>1. /\ guard' = [guard EXCEPT ![b].gen = Freed]
            /\ buffer' = [buffer EXCEPT ![b].alive = FALSE]
            /\ owned' = owned \ {b}
        BY <2>2 DEF FreePointer
      <3>2. /\ counter \in Nat /\ guard \in [1..counter -> Guards] /\ buffer \in [1..counter -> Buffers]
            /\ b \in 1..counter
        <4>1. b \in 1..counter
          BY Comparable
        <4>2. counter \in Nat /\ guard \in [1..counter -> Guards] /\ buffer \in [1..counter -> Buffers]
          BY LenProperties DEF MemoryInv, MemoryTypes, Guards, Buffers
        <4> QED
          BY <4>1, <4>2
      <3> HIDE DEF b
      <3>3. /\ guard'[b] = [guard[b] EXCEPT !.gen = Freed] /\ buffer'[b] = [buffer[b] EXCEPT !.alive = FALSE]
            /\ \A o \in 1..counter : o # b => guard'[o] = guard[o] /\ buffer'[o] = buffer[o]
            /\ DOMAIN guard' = 1..counter /\ DOMAIN buffer' = 1..counter
            /\ guard' = [o \in 1..counter |-> guard'[o]] /\ buffer' = [o \in 1..counter |-> buffer'[o]]
        BY <3>1, <3>2
      <3>4. /\ guard'[b] \in Guards /\ guard'[b].gen = 0 /\ guard'[b].arena = guard[b].arena
            /\ buffer'[b] \in Buffers /\ buffer'[b].alive = FALSE /\ buffer'[b].inArena = buffer[b].inArena
        <4>1. guard[b] \in Guards /\ buffer[b] \in Buffers
          BY <3>2
        <4>2. guard'[b] \in Guards /\ guard'[b].gen = 0 /\ guard'[b].arena = guard[b].arena
          BY <3>3, <4>1 DEF Guards, Freed
        <4>3. buffer'[b] \in Buffers /\ buffer'[b].alive = FALSE /\ buffer'[b].inArena = buffer[b].inArena
          BY <3>3, <4>1 DEF Buffers
        <4> QED
          BY <4>2, <4>3
      <3>5. guard' \in [1..counter -> Guards] /\ buffer' \in [1..counter -> Buffers]
        <4>1. \A o \in 1..counter : guard'[o] \in Guards /\ buffer'[o] \in Buffers
          BY <3>2, <3>3, <3>4
        <4> QED
          BY <3>3, <4>1
      <3>6. MemoryTypes'
        <4>1. /\ guard' \in Seq(Guards) /\ Len(guard') = counter
              /\ buffer' \in Seq(Buffers) /\ Len(buffer') = counter
          BY <3>2, <3>5, Changed
        <4> QED
          BY <1>1, <3>1, <4>1 DEF MemoryInv, MemoryTypes, Guards, Buffers
      <3>7. GuardsTell'
        <4> SUFFICES ASSUME NEW o \in 1..counter
                     PROVE  /\ guard'[o].gen = o <=> o \in owned'
                            /\ buffer'[o].alive <=> o \in owned'
                            /\ o \in owned' => guard'[o].size = buffer'[o].size
                            /\ guard'[o].arena = buffer'[o].inArena
                            /\ buffer'[o].inArena <=> place'[o] # Heap
          BY <1>1 DEF GuardsTell
        <4>1. CASE o = b
          BY <1>1, <3>1, <3>2, <3>4, <4>1 DEF MemoryInv, GuardsTell
        <4>2. CASE o # b
          BY <1>1, <3>1, <3>3, <4>2 DEF MemoryInv, GuardsTell
        <4> QED
          BY <4>1, <4>2
      <3> QED
        BY <3>6, <3>7
    <2> QED
      BY <2>1, <2>2
  <1> QED
    BY <1>1, <1>4, <1>5 DEF MemoryInv, PointersKeepGen, PlacesUsed, BlocksApart

\* An access is judged by the guard, by the interpreter's mark, and as it is.
LEMMA AccessInv ==
  ASSUME MemoryInv, NEW p \in pointers, NEW k \in Offsets, Access(p, k)
  PROVE  MemoryInv'
  <1> DEFINE really == p.block \in owned /\ p.off + k \in 0..(buffer[p.block].size - 1)
  <1>1. /\ access' = Verdict(mi_ptr_at(p, k), check_raw(p, k), really)
        /\ UNCHANGED <<guard, place, chunks, open, opened, counter, buffer, pointers, owned>>
    BY DEF Access
  <1>2. p.off + k \in Int
    BY Comparable, MemoryAssumption DEF MemoryAssumption
  <1>3. /\ mi_ptr_at(p, k) <=> check_raw(p, k)
        /\ mi_ptr_at(p, k) => really
    <2>1. buffer[p.block].size \in Nat
      BY Comparable DEF Buffers
    <2> DEFINE at == p.off + k
               size == buffer[p.block].size
    <2>2. /\ mi_ptr_at(p, k) <=> p.block \in owned /\ at >= 0 /\ at + 1 <= size
          /\ check_raw(p, k) <=> p.block \in owned /\ at >= 0 /\ at < size
      BY Comparable DEF mi_ptr_at, check_raw
    <2>3. at \in Int /\ size \in Nat
      BY <1>2, <2>1
    <2> HIDE DEF at, size
    <2>4. /\ at + 1 <= size <=> at < size
          /\ at >= 0 /\ at < size => at \in 0..(size - 1)
      BY <2>3
    <2> QED
      BY <2>2, <2>4 DEF at, size
  <1>4. NoUseAfterFree'
    <2> DEFINE n == mi_ptr_at(p, k)
               i == check_raw(p, k)
    <2>1. n \in BOOLEAN /\ i \in BOOLEAN /\ really \in BOOLEAN
      BY Comparable DEF mi_ptr_at, check_raw, Buffers, Guards
    <2>2. n = i /\ (n => really) /\ access' = Verdict(n, i, really)
      BY <1>1, <1>3, <2>1
    <2> HIDE DEF n, i, really
    <2> QED
      BY <2>1, <2>2, Judged
  <1> QED
    BY <1>1, <1>4 DEF MemoryInv, MemoryTypes, PointersKeepGen, GuardsTell, PlacesUsed, BlocksApart

-----------------------------------------------------------------------------
(* The theorems *)

LEMMA InitMemoryInv == MemoryInit => MemoryInv
  <1> SUFFICES ASSUME MemoryInit  PROVE MemoryInv
    OBVIOUS
  <1>1. \A S : << >> \in Seq(S)
    BY EmptySeq
  <1>2. Len(<< >>) = 0 /\ DOMAIN << >> = {}
    OBVIOUS
  <1>3. MemoryTypes
    BY <1>1, <1>2 DEF MemoryInit, MemoryTypes
  <1> QED
    BY <1>2, <1>3 DEF MemoryInit, MemoryInv, PointersKeepGen, GuardsTell, PlacesUsed, BlocksApart, NoUseAfterFree, Nothing

LEMMA NextMemoryInv == MemoryInv /\ [MemoryNext]_memoryVars => MemoryInv'
  <1> SUFFICES ASSUME MemoryInv, [MemoryNext]_memoryVars  PROVE MemoryInv'
    OBVIOUS
  <1>1. CASE \E n \in Sizes : Alloc(n) \/ \E k \in DOMAIN open : ArenaAlloc(open[k], n)
    BY <1>1, AllocInv, ArenaAllocInv
  <1>2. CASE OpenArena \/ CloseArena
    BY <1>2, OpenArenaInv, CloseArenaInv
  <1>3. CASE \E p \in pointers : FreePointer(p) \/ \E k \in Offsets : PtrAdd(p, k) \/ Access(p, k)
    BY <1>3, FreePointerInv, PtrAddInv, AccessInv
  <1>4. CASE UNCHANGED memoryVars
    BY <1>4 DEF memoryVars, MemoryInv, MemoryTypes, PointersKeepGen, GuardsTell, PlacesUsed, BlocksApart, NoUseAfterFree
  <1> QED
    BY <1>1, <1>2, <1>3, <1>4 DEF MemoryNext

\* Guards, marks and places keep together through every sequence of calls.
THEOREM MemoryInductive == MemorySpec => []MemoryInv
  BY InitMemoryInv, NextMemoryInv, PTL DEF MemorySpec

\* No access or free that goes through reaches memory that was released, and
\* debug builds and the interpreter judge every one alike.
THEOREM MemorySafe == MemorySpec => []NoUseAfterFree
  <1>1. MemoryInv => NoUseAfterFree
    BY DEF MemoryInv
  <1> QED
    BY <1>1, MemoryInductive, PTL

\* The words of an arena are given out once, inside their chunk.
THEOREM ArenaBlocksApart == MemorySpec => []BlocksApart
  <1>1. MemoryInv => BlocksApart
    BY DEF MemoryInv
  <1> QED
    BY <1>1, MemoryInductive, PTL

-----------------------------------------------------------------------------
(* The receive buffer.  What was given, what is held and what is still to    *)
(* come are the stream, place by place; behind the bytes held there is room  *)
(* for the next read; up to `scan` there is no newline.                      *)
Buffer == [cell : Seq(Bytes), pos : Nat, len : Nat]
Kinds == {"idle", "line", "exact", "any"}

\* A buffer whose bounds are in order; its first allocation has room for two reads.
Sound(c) ==
  /\ c \in Buffer /\ c.pos <= c.len /\ c.len <= Len(c.cell)
  /\ c.cell = << >> \/ Len(c.cell) >= 2 * Chunk
\* Two buffers that hold the same bytes, wherever they stand.
SameHeld(c, d) ==
  /\ d.len - d.pos = c.len - c.pos
  /\ \A i \in 1..c.len - c.pos : d.cell[d.pos + i] = c.cell[c.pos + i]

NetBufTypes ==
  /\ Sound(conn)
  /\ call \in [op : Kinds, n : Int, scan : Nat]
  /\ call.op = "line" => call.scan \in conn.pos..conn.len
  /\ call.op = "exact" => call.n > 0
  /\ stream \in Seq(Bytes) /\ rest \in Seq(Bytes) /\ given \in Seq(Bytes)
  /\ got \in [op : Kinds, n : Int, bytes : Seq(Bytes), failed : BOOLEAN]

\* What was given, what is held and what is still to come are the stream.
Parts(c, r, g) ==
  /\ Len(stream) = Len(g) + (c.len - c.pos) + Len(r)
  /\ \A i \in 1..Len(g) : g[i] = stream[i]
  /\ \A i \in 1..c.len - c.pos : c.cell[c.pos + i] = stream[Len(g) + i]
  /\ \A i \in 1..Len(r) : r[i] = stream[Len(g) + (c.len - c.pos) + i]
\* No newline was passed over in the line that is looked for.
NonePassed == call.op = "line" => \A i \in conn.pos + 1..call.scan : ~conn.cell[i].newline
NetBufInv == NetBufTypes /\ Parts(conn, rest, given) /\ NonePassed /\ AnswerWhole

\* What is cut out of a sequence stands in it, in the same order.
LEMMA Cut ==
  ASSUME NEW s \in Seq(Bytes), NEW m \in Nat, NEW n \in Nat, m <= n, n <= Len(s)
  PROVE  /\ SubSeq(s, m + 1, n) \in Seq(Bytes) /\ Len(SubSeq(s, m + 1, n)) = n - m
         /\ \A i \in 1..n - m : SubSeq(s, m + 1, n)[i] = s[m + i]
  <1>1. \A i \in m + 1..n : s[i] \in Bytes
    <2>1. Len(s) \in Nat
      BY LenProperties
    <2>2. \A i \in m + 1..n : i \in 1..Len(s)
      BY <2>1
    <2> QED
      BY <2>2, ElementOfSeq
  <1> DEFINE a == m + 1
  <1>2. a \in Int /\ n \in Int
    OBVIOUS
  <1>3. \A i \in a..n : s[i] \in Bytes
    BY <1>1
  <1> HIDE DEF a
  <1>4. /\ SubSeq(s, a, n) \in Seq(Bytes) /\ Len(SubSeq(s, a, n)) = IF a <= n THEN n - a + 1 ELSE 0
        /\ \A i \in 1..n - a + 1 : SubSeq(s, a, n)[i] = s[a + i - 1]
    BY <1>2, <1>3, SubSeqProperties, SMTT(40)
  <1>5. /\ n - a + 1 = n - m /\ (a <= n => n - a + 1 = n - m) /\ (~(a <= n) => n - m = 0)
        /\ \A i \in 1..n - m : a + i - 1 = m + i
    BY DEF a
  <1>6. Len(SubSeq(s, a, n)) = n - m /\ \A i \in 1..n - m : SubSeq(s, a, n)[i] = s[m + i]
    BY <1>4, <1>5
  <1> QED
    BY <1>4, <1>6 DEF a

\* The parts put together are the stream.
LEMMA Joined ==
  ASSUME NetBufTypes, Parts(conn, rest, given)
  PROVE  given \o Waiting \o rest = stream
  <1> DEFINE w == SubSeq(conn.cell, conn.pos + 1, conn.len)
  <1>1. /\ conn.pos \in Nat /\ conn.len \in Nat /\ conn.pos <= conn.len /\ conn.len <= Len(conn.cell)
        /\ conn.cell \in Seq(Bytes) /\ Len(conn.cell) \in Nat
    BY LenProperties DEF NetBufTypes, Sound, Buffer
  <1>2. /\ w \in Seq(Bytes) /\ Len(w) = conn.len - conn.pos
        /\ \A i \in 1..conn.len - conn.pos : w[i] = conn.cell[conn.pos + i]
    BY <1>1, Cut
  <1>3. given \in Seq(Bytes) /\ rest \in Seq(Bytes) /\ stream \in Seq(Bytes)
    BY DEF NetBufTypes
  <1>4. Len(given) \in Nat /\ Len(rest) \in Nat /\ Len(w) \in Nat
    BY <1>2, <1>3, LenProperties
  <1> HIDE DEF w
  <1>5. /\ given \o w \in Seq(Bytes) /\ Len(given \o w) = Len(given) + Len(w)
        /\ \A i \in 1..Len(given) + Len(w) : (given \o w)[i] = IF i <= Len(given) THEN given[i] ELSE w[i - Len(given)]
    BY <1>2, <1>3, ConcatProperties
  <1>6. /\ (given \o w) \o rest \in Seq(Bytes) /\ Len((given \o w) \o rest) = Len(given) + Len(w) + Len(rest)
        /\ \A i \in 1..Len(given) + Len(w) + Len(rest) :
             ((given \o w) \o rest)[i] = IF i <= Len(given) + Len(w) THEN (given \o w)[i] ELSE rest[i - (Len(given) + Len(w))]
    BY <1>3, <1>5, ConcatProperties
  <1>7. Len((given \o w) \o rest) = Len(stream)
    BY <1>2, <1>6 DEF Parts
  <1>8. ASSUME NEW i \in 1..Len((given \o w) \o rest)  PROVE ((given \o w) \o rest)[i] = stream[i]
    <2>1. CASE i <= Len(given)
      BY <2>1, <1>4, <1>5, <1>6 DEF Parts
    <2>2. CASE i > Len(given) /\ i <= Len(given) + Len(w)
      <3> DEFINE k == i - Len(given)
      <3>1. k \in 1..conn.len - conn.pos /\ i = Len(given) + k
        BY <2>2, <1>1, <1>2, <1>4, <1>8
      <3> HIDE DEF k
      <3>2. ((given \o w) \o rest)[i] = w[i - Len(given)] /\ i - Len(given) = k
        BY <2>2, <3>1, <1>4, <1>5, <1>6
      <3>3. w[k] = stream[Len(given) + k]
        BY <3>1, <1>2 DEF Parts
      <3> QED
        BY <3>1, <3>2, <3>3
    <2>3. CASE i > Len(given) + Len(w)
      <3> DEFINE k == i - (Len(given) + Len(w))
      <3>1. i \in 1..Len(given) + Len(w) + Len(rest)
        BY <1>6, <1>8
      <3>2. k \in 1..Len(rest) /\ i = Len(given) + Len(w) + k /\ ~(i <= Len(given) + Len(w))
        BY <2>3, <3>1, <1>4
      <3>3. ((given \o w) \o rest)[i] = rest[i - (Len(given) + Len(w))]
        BY <3>1, <3>2, <1>6
      <3>4. ((given \o w) \o rest)[i] = rest[k]
        BY <3>3
      <3> HIDE DEF k
      <3>5. rest[k] = stream[Len(given) + (conn.len - conn.pos) + k]
        BY <3>2 DEF Parts
      <3> QED
        BY <3>2, <3>4, <3>5, <1>2
    <2> QED
      BY <1>4, <1>6, <1>8, <2>1, <2>2, <2>3
  <1>9. (given \o w) \o rest = stream
    BY <1>3, <1>6, <1>7, <1>8, SeqEqual
  <1> QED
    BY <1>9 DEF w, Waiting

\* mi_conn_fill makes room for a read and its end mark behind the bytes held,
\* with one doubling at most, and holds the same bytes as before.
LEMMA FillHasRoom ==
  ASSUME NEW c, Sound(c)
  PROVE  /\ Sound(Roomy(c)) /\ SameHeld(c, Roomy(c))
         /\ Roomy(c).len + Chunk + 1 <= Len(Roomy(c).cell)
  <1> DEFINE r == Rewound(c)
             m == Moved(r)
             l == Larger(m)
  <1>0. Chunk \in Nat \ {0}
    BY NetBufAssumption
  <1>1. Sound(r) /\ SameHeld(c, r) /\ (r.pos = r.len => r.pos = 0 /\ r.len = 0)
    <2>1. CASE c.pos > 0 /\ c.pos = c.len
      <3>1. r = [c EXCEPT !.pos = 0, !.len = 0]
        BY <2>1 DEF Rewound
      <3>2. r.pos = 0 /\ r.len = 0 /\ r.cell = c.cell /\ r \in Buffer
        <4>1. c \in Buffer
          BY DEF Sound
        <4>2. c = [cell |-> c.cell, pos |-> c.pos, len |-> c.len] /\ c.cell \in Seq(Bytes)
          BY <4>1 DEF Buffer
        <4>3. r = [cell |-> c.cell, pos |-> 0, len |-> 0]
          BY <3>1, <4>1 DEF Buffer
        <4> QED
          BY <4>2, <4>3 DEF Buffer
      <3>3. c.pos \in Nat /\ c.len \in Nat /\ Len(c.cell) \in Nat
        BY LenProperties DEF Sound, Buffer
      <3> QED
        BY <2>1, <3>2, <3>3 DEF Sound, SameHeld
    <2>2. CASE ~(c.pos > 0 /\ c.pos = c.len)
      <3>1. r = c
        BY <2>2 DEF Rewound
      <3> QED
        BY <2>2, <3>1 DEF Sound, SameHeld, Buffer
    <2> QED
      BY <2>1, <2>2
  <1> HIDE DEF r
  <1>2. Sound(m) /\ SameHeld(r, m) /\ (Short(m) => m.pos = 0)
    <2>0. r \in Buffer /\ Len(r.cell) \in Nat /\ DOMAIN r.cell = 1..Len(r.cell)
      BY <1>1, LenProperties DEF Sound, Buffer
    <2>1. CASE Short(r) /\ r.pos > 0
      <3> DEFINE f == [i \in DOMAIN r.cell |-> IF i <= r.len - r.pos THEN r.cell[r.pos + i] ELSE r.cell[i]]
      <3>1. m = [cell |-> f, pos |-> 0, len |-> r.len - r.pos]
        BY <2>1 DEF Moved
      <3>2. r.pos \in Nat /\ r.len \in Nat /\ r.pos <= r.len /\ r.len <= Len(r.cell)
        BY <1>1 DEF Sound, Buffer
      <3>3. \A i \in 1..Len(r.cell) : r.cell[i] \in Bytes
        BY <2>0, ElementOfSeq DEF Buffer
      <3>4. f \in [1..Len(r.cell) -> Bytes]
        BY <2>0, <3>2, <3>3, SMTT(40)
      <3>5. f \in Seq(Bytes) /\ Len(f) = Len(r.cell)
        BY <3>4, <2>0, Z3
      <3>6. \A i \in 1..r.len - r.pos : f[i] = r.cell[r.pos + i]
        BY <2>0, <3>2
      <3> HIDE DEF f
      <3>7. m.cell = f /\ m.pos = 0 /\ m.len = r.len - r.pos
        BY <3>1
      <3>8. m \in Buffer
        BY <3>1, <3>2, <3>5 DEF Buffer
      <3>9. SameHeld(r, m)
        BY <3>2, <3>6, <3>7 DEF SameHeld
      <3>10. m.cell = << >> \/ Len(m.cell) >= 2 * Chunk
        BY <1>1, <3>2, <2>1, <3>5, <3>7, <1>0 DEF Sound
      <3> QED
        BY <3>2, <3>5, <3>7, <3>8, <3>9, <3>10 DEF Sound
    <2>2. CASE ~(Short(r) /\ r.pos > 0)
      BY <1>1, <2>0, <2>2 DEF Moved, SameHeld, Sound, Buffer
    <2> QED
      BY <2>1, <2>2
  <1> HIDE DEF m
  <1>3. Sound(l) /\ SameHeld(m, l) /\ l.len + Chunk + 1 <= Len(l.cell)
    <2>0. /\ m \in Buffer /\ Len(m.cell) \in Nat /\ DOMAIN m.cell = 1..Len(m.cell)
          /\ m.pos \in Nat /\ m.len \in Nat /\ m.pos <= m.len /\ m.len <= Len(m.cell)
          /\ (m.cell = << >> => Len(m.cell) = 0)
      BY <1>2, LenProperties DEF Sound, Buffer
    <2>1. CASE Short(m)
      <3> DEFINE cap == IF m.cell = << >> THEN 2 * Chunk ELSE 2 * Len(m.cell)
                 f == [i \in 1..cap |-> IF i \in DOMAIN m.cell THEN m.cell[i] ELSE Junk]
      <3>1. l = [m EXCEPT !.cell = f]
        BY <2>1 DEF Larger
      <3>2. cap \in Nat /\ cap >= m.len + Chunk + 1 /\ cap >= 2 * Chunk
        BY <1>0, <1>2, <2>0, <2>1 DEF Sound
      <3>3. \A i \in 1..Len(m.cell) : m.cell[i] \in Bytes
        BY <2>0, ElementOfSeq DEF Buffer
      <3> HIDE DEF cap
      <3>4. f \in [1..cap -> Bytes]
        BY <2>0, <3>3 DEF Junk, Bytes
      <3>5. f \in Seq(Bytes) /\ Len(f) = cap
        BY <3>4, <3>2, Z3
      <3>6. \A i \in 1..m.len : f[i] = m.cell[i]
        BY <2>0, <3>2, <1>0
      <3> HIDE DEF f
      <3>7. l.cell = f /\ l.pos = m.pos /\ l.len = m.len /\ l \in Buffer
        BY <3>1, <2>0, <3>5 DEF Buffer
      <3>8. SameHeld(m, l)
        <4>1. \A i \in 1..m.len - m.pos : m.pos + i \in 1..m.len
          BY <2>0
        <4>2. \A i \in 1..m.len - m.pos : f[m.pos + i] = m.cell[m.pos + i]
          BY <3>6, <4>1
        <4> QED
          BY <3>7, <4>2 DEF SameHeld
      <3> QED
        BY <1>0, <2>0, <3>2, <3>5, <3>7, <3>8 DEF Sound
    <2>2. CASE ~Short(m)
      BY <1>0, <1>2, <2>0, <2>2 DEF Larger, Short, SameHeld, Sound, Buffer
    <2> QED
      BY <2>1, <2>2
  <1> HIDE DEF l
  <1>4. SameHeld(c, l)
    BY <1>1, <1>2, <1>3 DEF SameHeld
  <1> QED
    BY <1>3, <1>4 DEF Roomy, l, m, r

\* mi_conn_take: what is taken is what was held first, and follows what was
\* given before.
LEMMA Taken ==
  ASSUME NetBufTypes, Parts(conn, rest, given),
         NEW c, Sound(c), SameHeld(conn, c),
         NEW n \in 0..Held, Take(c, n), rest' = rest
  PROVE  /\ NetBufTypes' /\ Parts(conn, rest, given)'
         /\ call' = Idle /\ stream' = stream /\ Suffix(got.bytes, given)'
         /\ got'.op = call.op /\ got'.n = call.n /\ got'.failed = FALSE
         /\ Len(got'.bytes) = n /\ Len(given') = Len(given) + n
         /\ \A i \in 1..n : got'.bytes[i] = conn.cell[conn.pos + i]
  <1>1. /\ c \in Buffer /\ c.pos \in Nat /\ c.len \in Nat /\ c.pos <= c.len /\ c.len <= Len(c.cell) /\ c.cell \in Seq(Bytes)
        /\ conn.pos \in Nat /\ conn.len \in Nat /\ conn.pos <= conn.len
        /\ given \in Seq(Bytes) /\ rest \in Seq(Bytes) /\ stream \in Seq(Bytes) /\ call.op \in Kinds /\ call.n \in Int
        /\ (c.cell = << >> \/ Len(c.cell) >= 2 * Chunk)
    BY DEF NetBufTypes, Sound, Buffer
  <1>2. PICK p \in Nat : p = c.pos
    BY <1>1
  <1>3. PICK q \in Nat : q = conn.pos
    BY <1>1
  <1>4. PICK h \in Nat : conn.len = q + h /\ conn.len - conn.pos = h
    <2>1. conn.len - conn.pos \in Nat /\ conn.len = q + (conn.len - conn.pos)
      BY <1>1, <1>3
    <2> QED
      BY <2>1
  <1>5. c.len = p + h /\ c.len - c.pos = h
    <2>1. c.len - c.pos = h
      BY <1>4 DEF SameHeld
    <2> QED
      BY <2>1, <1>1, <1>2, SMTT(40)
  <1>6. n \in Nat /\ n <= h
    BY <1>4 DEF Held
  <1>7. PICK g \in Nat : g = Len(given)
    BY <1>1, LenProperties
  <1>8. PICK r \in Nat : r = Len(rest)
    BY <1>1, LenProperties
  <1>9. p + n \in Nat /\ p <= p + n /\ p + n <= Len(c.cell) /\ (p + n) - p = n
    <2>1. Len(c.cell) \in Nat /\ p + h <= Len(c.cell)
      BY <1>1, <1>5, LenProperties
    <2> QED
      BY <1>6, <2>1
  <1>10. PICK b \in Seq(Bytes) : b = SubSeq(c.cell, p + 1, p + n) /\ Len(b) = n /\ \A i \in 1..n : b[i] = c.cell[p + i]
    <2> DEFINE m == p + n
    <2> HIDE DEF m
    <2>1. m \in Nat /\ p <= m /\ m <= Len(c.cell) /\ m - p = n
      BY <1>9 DEF m
    <2>2. SubSeq(c.cell, p + 1, m) \in Seq(Bytes) /\ Len(SubSeq(c.cell, p + 1, m)) = n
          /\ \A i \in 1..n : SubSeq(c.cell, p + 1, m)[i] = c.cell[p + i]
      BY <1>1, <2>1, Cut, SMTT(40)
    <2> QED
      BY <2>2 DEF m
  <1>11. \A i \in 1..h : c.cell[p + i] = conn.cell[q + i]
    BY <1>2, <1>3, <1>4 DEF SameHeld
  <1>12. \A i \in 1..n : b[i] = conn.cell[q + i]
    BY <1>6, <1>10, <1>11
  <1>13. /\ conn' = [c EXCEPT !.pos = p + n]
         /\ got' = [op |-> call.op, n |-> call.n, bytes |-> b, failed |-> FALSE]
         /\ given' = given \o b /\ call' = Idle /\ stream' = stream
    BY <1>2, <1>10 DEF Take, Answered
  <1>14. /\ given' \in Seq(Bytes) /\ Len(given') = g + n
         /\ \A i \in 1..g + n : given'[i] = IF i <= g THEN given[i] ELSE b[i - g]
    <2>1. /\ given \o b \in Seq(Bytes) /\ Len(given \o b) = Len(given) + Len(b)
          /\ \A i \in 1..Len(given) + Len(b) : (given \o b)[i] = IF i <= Len(given) THEN given[i] ELSE b[i - Len(given)]
      BY <1>1, <1>10, ConcatProperties, SMTT(40)
    <2> QED
      BY <1>7, <1>10, <1>13, <2>1, Zenon
  <1>15. conn'.cell = c.cell /\ conn'.pos = p + n /\ conn'.len = p + h /\ conn' \in Buffer
    BY <1>1, <1>5, <1>9, <1>13 DEF Buffer
  <1>16. Sound(conn)'
    BY <1>1, <1>5, <1>6, <1>15 DEF Sound
  <1>17. NetBufTypes'
    <2>1. got' \in [op : Kinds, n : Int, bytes : Seq(Bytes), failed : BOOLEAN]
      BY <1>1, <1>10, <1>13
    <2>2. call' \in [op : Kinds, n : Int, scan : Nat] /\ call'.op = "idle"
      BY <1>13 DEF Idle, Kinds
    <2> QED
      BY <1>1, <1>13, <1>14, <1>16, <2>1, <2>2 DEF NetBufTypes
  <1>18. Suffix(got.bytes, given)'
    <2>1. got'.bytes = b
      BY <1>13
    <2>2. ASSUME NEW i \in 1..n  PROVE b[i] = given'[g + n - n + i]
      <3>1. g + n - n + i = g + i /\ g + i \in 1..g + n /\ ~(g + i <= g) /\ g + i - g = i
        BY <1>6, <2>2
      <3> QED
        BY <1>14, <3>1
    <2> QED
      <3>1. n <= g + n /\ Len(got'.bytes) = n /\ Len(given') = g + n
        BY <1>6, <1>10, <1>14, <2>1
      <3> QED
        <4>1. \A i \in 1..Len(got'.bytes) : got'.bytes[i] = given'[Len(given') - Len(got'.bytes) + i]
          BY <2>1, <2>2, <3>1
        <4>2. Len(got'.bytes) <= Len(given')
          BY <3>1
        <4> QED
          BY <4>1, <4>2 DEF Suffix
  <1>19. Parts(conn, rest, given)'
    <2>1. /\ Len(stream) = g + h + r
          /\ \A i \in 1..g : given[i] = stream[i]
          /\ \A i \in 1..h : conn.cell[q + i] = stream[g + i]
          /\ \A i \in 1..r : rest[i] = stream[g + h + i]
      BY <1>3, <1>4, <1>7, <1>8 DEF Parts
    <2>2. conn'.len - conn'.pos = h - n
      BY <1>6, <1>15
    <2>3. Len(stream) = (g + n) + (h - n) + r
      BY <2>1, <1>6
    <2>4. ASSUME NEW i \in 1..g + n  PROVE given'[i] = stream[i]
      <3>1. CASE i <= g
        BY <3>1, <1>14, <2>1, <1>6, SMTT(40)
      <3>2. CASE ~(i <= g)
        <4>1. i - g \in 1..n /\ i - g \in 1..h /\ g + (i - g) = i
          BY <3>2, <1>6
        <4>2. given'[i] = b[i - g]
          BY <3>2, <1>14
        <4> QED
          BY <4>1, <4>2, <1>12, <2>1
      <3> QED
        BY <3>1, <3>2
    <2>5. ASSUME NEW i \in 1..h - n  PROVE conn'.cell[p + n + i] = stream[(g + n) + i]
      <3>1. n + i \in 1..h /\ p + n + i = p + (n + i) /\ (g + n) + i = g + (n + i)
        BY <1>6
      <3> QED
        BY <1>11, <1>15, <2>1, <3>1, ZenonT(60)
    <2>6. ASSUME NEW i \in 1..r  PROVE rest[i] = stream[(g + n) + (h - n) + i]
      <3>1. (g + n) + (h - n) + i = g + h + i
        BY <1>6
      <3> QED
        BY <2>1, <3>1
    <2> QED
      BY <1>8, <1>13, <1>14, <1>15, <2>2, <2>3, <2>4, <2>5, <2>6, ZenonT(60) DEF Parts
  <1> QED
    BY <1>3, <1>7, <1>10, <1>12, <1>13, <1>14, <1>17, <1>18, <1>19

\* A line found is a line: what the loop passed over has no newline.
LEMMA LineInv ==
  ASSUME NetBufInv, TakeLine
  PROVE  NetBufInv'
  <1>1. PICK at \in call.scan + 1..conn.len :
          /\ conn.cell[at].newline /\ \A i \in call.scan + 1..at - 1 : ~conn.cell[i].newline
          /\ Take(conn, at - conn.pos)
    BY DEF TakeLine
  <1> DEFINE n == at - conn.pos
  <1>2. call.op = "line" /\ rest' = rest
    BY DEF TakeLine
  <1>3. /\ Sound(conn) /\ conn.pos \in Nat /\ conn.len \in Nat /\ conn.pos <= conn.len /\ call.scan \in Nat
        /\ conn.pos <= call.scan /\ call.scan <= conn.len
    BY <1>2 DEF NetBufInv, NetBufTypes, Sound, Buffer
  <1>4. n \in 0..Held /\ n \in Nat /\ n > 0 /\ conn.pos + n = at
    BY <1>3 DEF Held
  <1>5. SameHeld(conn, conn) /\ Take(conn, n)
    BY <1>1, <1>3 DEF SameHeld
  <1>6. \A i \in conn.pos + 1..at - 1 : ~conn.cell[i].newline
    <2>1. \A i \in conn.pos + 1..at - 1 : i \in conn.pos + 1..call.scan \/ i \in call.scan + 1..at - 1
      BY <1>3
    <2> QED
      BY <1>1, <1>2, <2>1 DEF NetBufInv, NonePassed
  <1> HIDE DEF n
  <1>7. /\ NetBufTypes' /\ Parts(conn, rest, given)' /\ call' = Idle /\ Suffix(got.bytes, given)'
        /\ got'.op = "line" /\ got'.failed = FALSE /\ Len(got'.bytes) = n
        /\ \A i \in 1..n : got'.bytes[i] = conn.cell[conn.pos + i]
    BY <1>2, <1>3, <1>4, <1>5, Taken DEF NetBufInv
  <1>8. \A i \in 1..n - 1 : ~got'.bytes[i].newline
    <2>1. \A i \in 1..n - 1 : i \in 1..n /\ conn.pos + i \in conn.pos + 1..at - 1
      BY <1>3, <1>4
    <2> QED
      BY <1>6, <1>7, <2>1
  <1>9. got'.bytes # << >> /\ got'.bytes[n].newline
    BY <1>1, <1>4, <1>7, EmptySeq
  <1>10. AnswerWhole'
    BY <1>7, <1>8, <1>9 DEF AnswerWhole
  <1>11. NonePassed'
    BY <1>7 DEF NonePassed, Idle
  <1> QED
    BY <1>7, <1>10, <1>11 DEF NetBufInv

\* recv_n and recv take what they were asked for.
LEMMA BytesInv ==
  ASSUME NetBufInv, TakeExact \/ TakeAny
  PROVE  NetBufInv'
  <1>1. /\ Sound(conn) /\ conn.pos \in Nat /\ conn.len \in Nat /\ conn.pos <= conn.len /\ call.n \in Int /\ Held \in Nat
        /\ (call.op = "exact" => call.n > 0) /\ SameHeld(conn, conn) /\ rest' = rest
    BY DEF NetBufInv, NetBufTypes, Sound, Buffer, Held, SameHeld, TakeExact, TakeAny
  <1>2. PICK n \in 0..Held :
          /\ Take(conn, n) /\ n > 0 /\ call.op \in {"exact", "any"}
          /\ call.op = "exact" => n = call.n
          /\ (call.op = "any" /\ call.n > 0) => n <= call.n
    <2>1. CASE TakeExact
      BY <2>1, <1>1 DEF TakeExact
    <2>2. CASE TakeAny
      <3> DEFINE m == IF call.n > 0 /\ Held > call.n THEN call.n ELSE Held
      <3>1. m \in 0..Held /\ m > 0 /\ (call.n > 0 => m <= call.n) /\ call.op = "any" /\ Take(conn, m)
        BY <2>2, <1>1 DEF TakeAny
      <3> HIDE DEF m
      <3> QED
        BY <3>1
    <2> QED
      BY <2>1, <2>2
  <1>3. /\ NetBufTypes' /\ Parts(conn, rest, given)' /\ call' = Idle /\ Suffix(got.bytes, given)'
        /\ got'.op = call.op /\ got'.n = call.n /\ got'.failed = FALSE /\ Len(got'.bytes) = n
    BY <1>1, <1>2, Taken DEF NetBufInv
  <1>4. got'.bytes # << >>
    BY <1>2, <1>3, EmptySeq
  <1>5. AnswerWhole'
    BY <1>2, <1>3, <1>4 DEF AnswerWhole
  <1>6. NonePassed'
    BY <1>3 DEF NonePassed, Idle
  <1> QED
    BY <1>3, <1>5, <1>6 DEF NetBufInv

\* At the end of the stream everything is given.
LEMMA EndInv ==
  ASSUME NetBufInv, End
  PROVE  NetBufInv'
  <1> DEFINE c == Roomy(conn)
  <1>1. /\ Sound(conn) /\ conn.pos \in Nat /\ conn.len \in Nat /\ conn.pos <= conn.len /\ Held \in Nat /\ Held \in 0..Held
        /\ given \in Seq(Bytes) /\ call.op \in Kinds /\ call.n \in Int /\ call.scan \in Nat
    BY DEF NetBufInv, NetBufTypes, Sound, Buffer, Held
  <1>2. Sound(c) /\ SameHeld(conn, c)
    BY <1>1, FillHasRoom
  <1>3. Take(c, Held) /\ rest' = rest /\ rest = << >> /\ Lacking
    BY DEF End
  <1> HIDE DEF c
  <1>4. /\ NetBufTypes' /\ Parts(conn, rest, given)' /\ call' = Idle /\ Suffix(got.bytes, given)' /\ stream' = stream
        /\ got'.op = call.op /\ got'.n = call.n /\ got'.failed = FALSE /\ Len(got'.bytes) = Held /\ Len(given') = Len(given) + Held
        /\ \A i \in 1..Held : got'.bytes[i] = conn.cell[conn.pos + i]
    BY <1>1, <1>2, <1>3, Taken DEF NetBufInv
  <1>5. Len(given') = Len(stream')
    <2>1. Len(rest) = 0 /\ Len(given) \in Nat
      BY <1>1, <1>3, LenProperties
    <2> QED
      BY <2>1, <1>1, <1>4 DEF NetBufInv, Parts, Held
  <1>6. call.op = "line" => \A i \in 1..Held - 1 : ~got'.bytes[i].newline
    <2> SUFFICES ASSUME call.op = "line", NEW i \in 1..Held - 1  PROVE ~got'.bytes[i].newline
      OBVIOUS
    <2>1. i \in 1..Held /\ (conn.pos + i \in conn.pos + 1..call.scan \/ conn.pos + i \in call.scan + 1..conn.len)
      BY <1>1, SMTT(40) DEF Held
    <2>2. ~conn.cell[conn.pos + i].newline
      BY <1>3, <2>1 DEF Lacking, NetBufInv, NonePassed
    <2> QED
      BY <1>4, <2>1, <2>2
  <1>7. (call.op = "exact" \/ (call.op = "any" /\ call.n > 0)) => Held <= call.n
    BY <1>1, <1>3 DEF Lacking
  <1>8. ~(Len(given') < Len(stream')) 
    BY <1>1, <1>5, <1>4, LenProperties
  <1>9. AnswerWhole'
    BY <1>4, <1>6, <1>7, <1>8 DEF AnswerWhole
  <1>10. NonePassed'
    BY <1>4 DEF NonePassed, Idle
  <1> QED
    BY <1>4, <1>9, <1>10 DEF NetBufInv

\* What arrives goes behind the bytes held, inside the buffer, and the place
\* up to which there is no newline moves with them.
LEMMA ArriveInv ==
  ASSUME NetBufInv, NEW r \in 1..Chunk, Arrive(r)
  PROVE  NetBufInv'
  <1>1. /\ Sound(conn) /\ conn.pos \in Nat /\ conn.len \in Nat /\ conn.pos <= conn.len
        /\ given \in Seq(Bytes) /\ rest \in Seq(Bytes) /\ stream \in Seq(Bytes) /\ got \in [op : Kinds, n : Int, bytes : Seq(Bytes), failed : BOOLEAN]
        /\ call \in [op : Kinds, n : Int, scan : Nat] /\ (call.op = "line" => call.scan \in conn.pos..conn.len) /\ (call.op = "exact" => call.n > 0)
        /\ Chunk \in Nat
    BY NetBufAssumption DEF NetBufInv, NetBufTypes, Sound, Buffer
  <1>2. PICK c : c = Roomy(conn)
    OBVIOUS
  <1>3. /\ Sound(c) /\ SameHeld(conn, c) /\ c.len + Chunk + 1 <= Len(c.cell)
    BY <1>1, <1>2, FillHasRoom
  <1> DEFINE f == [i \in DOMAIN c.cell |-> IF i \in c.len + 1..c.len + r THEN rest[i - c.len] ELSE c.cell[i]]
             s == IF call.op = "line" THEN Rescan(conn, c) ELSE call.scan
  <1>4. /\ Lacking /\ r <= Len(rest)
        /\ conn' = [c EXCEPT !.cell = f, !.len = c.len + r]
        /\ rest' = SubSeq(rest, r + 1, Len(rest))
        /\ call' = [call EXCEPT !.scan = s]
        /\ stream' = stream /\ given' = given /\ got' = got
    BY <1>2 DEF Arrive
  <1>5. /\ c \in Buffer /\ c.pos \in Nat /\ c.len \in Nat /\ c.pos <= c.len /\ c.len <= Len(c.cell) /\ c.cell \in Seq(Bytes)
        /\ Len(c.cell) \in Nat /\ DOMAIN c.cell = 1..Len(c.cell)
    BY <1>3, LenProperties DEF Sound, Buffer
  <1>6. PICK p \in Nat : p = c.pos
    BY <1>5
  <1>7. PICK q \in Nat : q = conn.pos
    BY <1>1
  <1>8. PICK h \in Nat : conn.len = q + h /\ conn.len - conn.pos = h
    <2>1. conn.len - conn.pos \in Nat /\ conn.len = q + (conn.len - conn.pos)
      BY <1>1, <1>7, SMTT(40)
    <2> QED
      BY <2>1
  <1>9. c.len = p + h
    <2>1. c.len - c.pos = h
      BY <1>3, <1>8 DEF SameHeld
    <2> QED
      BY <2>1, <1>5, <1>6
  <1>10. PICK g \in Nat : g = Len(given)
    BY <1>1, LenProperties
  <1>11. PICK m \in Nat : m = Len(rest)
    BY <1>1, LenProperties
  <1>12. PICK k \in Nat : k = Len(c.cell)
    BY <1>5
  <1>13. r \in Nat /\ r >= 1 /\ r <= m /\ p + h + r + 1 <= k
    <2>1. r \in Nat /\ r >= 1 /\ r <= Chunk
      BY <1>1
    <2>2. p + h + Chunk + 1 <= k
      BY <1>3, <1>9, <1>12
    <2>3. r <= m
      BY <1>4, <1>11
    <2> QED
      BY <2>1, <2>2, <2>3, <1>1
  <1>14. \A i \in 1..h : c.cell[p + i] = conn.cell[q + i]
    BY <1>3, <1>6, <1>7, <1>8 DEF SameHeld
  <1>15. f \in Seq(Bytes) /\ Len(f) = k
    <2>1. \A i \in 1..k : c.cell[i] \in Bytes
      BY <1>5, <1>12, ElementOfSeq
    <2>2. \A i \in 1..m : rest[i] \in Bytes
      BY <1>1, <1>11, ElementOfSeq
    <2>3. \A i \in c.len + 1..c.len + r : i - c.len \in 1..m
      BY <1>5, <1>13, SMTT(40)
    <2>4. f \in [1..k -> Bytes]
      BY <2>1, <2>2, <2>3, <1>5, <1>12
    <2> QED
      BY <2>4, Z3
  <1>16. \A i \in 1..h : f[p + i] = conn.cell[q + i]
    <2> SUFFICES ASSUME NEW i \in 1..h  PROVE f[p + i] = conn.cell[q + i]
      OBVIOUS
    <2>1. p + i \in 1..k /\ p + i \notin p + h + 1..p + h + r
      BY <1>13
    <2>2. f[p + i] = c.cell[p + i]
      BY <2>1, <1>5, <1>9, <1>12
    <2> QED
      BY <2>2, <1>14
  <1>17. \A i \in 1..r : f[p + h + i] = rest[i]
    <2> SUFFICES ASSUME NEW i \in 1..r  PROVE f[p + h + i] = rest[i]
      OBVIOUS
    <2>1. p + h + i \in 1..k /\ p + h + i \in p + h + 1..p + h + r /\ p + h + i - (p + h) = i
      BY <1>13
    <2> QED
      BY <2>1, <1>5, <1>9, <1>12
  <1> HIDE DEF f
  <1>18. conn'.cell = f /\ conn'.pos = p /\ conn'.len = p + h + r /\ conn' \in Buffer
    <2>1. c.len + r = p + h + r /\ p + h + r \in Nat
      BY <1>9, <1>13
    <2> QED
      BY <2>1, <1>4, <1>5, <1>6, <1>15 DEF Buffer
  <1>19. Sound(conn)'
    <2>1. p <= p + h + r /\ p + h + r <= k
      BY <1>13
    <2>2. Len(c.cell) >= 2 * Chunk
      <3>1. c.cell # << >>
        BY <1>1, <1>5, <1>12, <1>13, EmptySeq
      <3> QED
        BY <1>3, <3>1 DEF Sound
    <2>3. Len(conn'.cell) = Len(c.cell)
      BY <1>12, <1>15, <1>18
    <2> QED
      BY <1>12, <1>18, <2>1, <2>2, <2>3 DEF Sound
  <1>20. /\ rest' \in Seq(Bytes) /\ Len(rest') = m - r
         /\ \A i \in 1..m - r : rest'[i] = rest[r + i]
    <2>1. r \in Nat /\ m \in Nat /\ r <= m /\ m <= Len(rest)
      BY <1>11, <1>13
    <2>2. /\ SubSeq(rest, r + 1, m) \in Seq(Bytes) /\ Len(SubSeq(rest, r + 1, m)) = m - r
          /\ \A i \in 1..m - r : SubSeq(rest, r + 1, m)[i] = rest[r + i]
      BY <1>1, <2>1, Cut
    <2>3. rest' = SubSeq(rest, r + 1, m)
      BY <1>4, <1>11
    <2> QED
      BY <2>2, <2>3, Zenon
  <1>21. /\ s \in Nat /\ (call.op = "line" => s = p + h)
    <2>1. call.op = "line" => s = h + p
      BY <1>6, <1>8 DEF Rescan
    <2>2. ~(call.op = "line") => s = call.scan
      OBVIOUS
    <2> HIDE DEF s
    <2> QED
      BY <2>1, <2>2, <1>1
  <1> HIDE DEF s
  <1>22. call'.op = call.op /\ call'.n = call.n /\ call'.scan = s /\ call' \in [op : Kinds, n : Int, scan : Nat]
    BY <1>1, <1>4, <1>21
  <1>23. NetBufTypes'
    <2>1. call'.op = "line" => call'.scan \in p..p + h + r
      BY <1>13, <1>21, <1>22
    <2> QED
      BY <1>1, <1>4, <1>18, <1>19, <1>20, <1>22, <2>1 DEF NetBufTypes
  <1>24. Parts(conn, rest, given)'
    <2>1. /\ Len(stream) = g + h + m
          /\ \A i \in 1..g : given[i] = stream[i]
          /\ \A i \in 1..h : conn.cell[q + i] = stream[g + i]
          /\ \A i \in 1..m : rest[i] = stream[g + h + i]
      BY <1>7, <1>8, <1>10, <1>11 DEF NetBufInv, Parts
    <2>2. conn'.len - conn'.pos = h + r
      BY <1>13, <1>18
    <2>3. Len(stream) = g + (h + r) + (m - r)
      BY <2>1, <1>13
    <2>4. ASSUME NEW i \in 1..h + r  PROVE conn'.cell[p + i] = stream[g + i]
      <3>1. CASE i <= h
        <4>1. i \in 1..h
          BY <3>1, <2>4
        <4> QED
          BY <4>1, <1>16, <1>18, <2>1
      <3>2. CASE ~(i <= h)
        <4>1. PICK j \in 1..r : i = h + j
          <5>1. i - h \in 1..r /\ i = h + (i - h)
            BY <3>2, <2>4, <1>13
          <5> QED
            BY <5>1
        <4>2. j \in 1..m /\ p + i = p + h + j /\ g + i = g + h + j
          BY <4>1, <1>13
        <4>3. f[p + h + j] = rest[j] /\ rest[j] = stream[g + h + j]
          BY <4>2, <1>17, <2>1
        <4> QED
          BY <4>2, <4>3, <1>18
      <3> QED
        BY <3>1, <3>2
    <2>5. ASSUME NEW i \in 1..m - r  PROVE rest'[i] = stream[g + (h + r) + i]
      <3>1. r + i \in 1..m /\ g + (h + r) + i = g + h + (r + i)
        BY <1>13
      <3> QED
        BY <1>20, <2>1, <3>1
    <2> QED
      BY <1>4, <1>10, <1>18, <1>20, <2>1, <2>2, <2>3, <2>4, <2>5, ZenonT(60) DEF Parts
  <1>25. NonePassed'
    <2> SUFFICES ASSUME call'.op = "line", NEW i \in conn'.pos + 1..call'.scan
                 PROVE  ~conn'.cell[i].newline
      BY DEF NonePassed
    <2>1. call.op = "line" /\ i \in p + 1..p + h /\ call.scan \in Nat /\ q <= call.scan
      BY <1>1, <1>7, <1>18, <1>21, <1>22
    <2>2. PICK j \in 1..h : i = p + j
      <3>1. i - p \in 1..h /\ i = p + (i - p)
        BY <2>1
      <3> QED
        BY <3>1
    <2>3. conn'.cell[i] = conn.cell[q + j]
      BY <2>2, <1>16, <1>18
    <2>4. q + j \in q + 1..call.scan \/ q + j \in call.scan + 1..q + h
      BY <2>1
    <2>5. ~conn.cell[q + j].newline
      BY <2>1, <2>4, <1>4, <1>7, <1>8 DEF NetBufInv, NonePassed, Lacking
    <2> QED
      BY <2>3, <2>5
  <1>26. AnswerWhole'
    BY <1>4 DEF NetBufInv, AnswerWhole, Suffix
  <1> QED
    BY <1>23, <1>24, <1>25, <1>26 DEF NetBufInv

\* A call that fails has taken nothing.
LEMMA FailInv ==
  ASSUME NetBufInv, Fail
  PROVE  NetBufInv'
  <1>1. /\ Sound(conn) /\ given \in Seq(Bytes) /\ call.op \in Kinds /\ call.n \in Int /\ stream \in Seq(Bytes) /\ rest \in Seq(Bytes)
    BY DEF NetBufInv, NetBufTypes
  <1>2. Sound(Roomy(conn)) /\ SameHeld(conn, Roomy(conn))
    BY <1>1, FillHasRoom
  <1>3. /\ conn' = Roomy(conn) /\ rest' = rest /\ stream' = stream /\ call' = Idle
        /\ got' = [op |-> call.op, n |-> call.n, bytes |-> << >>, failed |-> TRUE]
        /\ given' = given
    BY <1>1, ConcatEmptySeq DEF Fail, Answered
  <1>4. << >> \in Seq(Bytes) /\ Len(<< >>) = 0
    BY EmptySeq
  <1>5. NetBufTypes'
    <2>1. got' \in [op : Kinds, n : Int, bytes : Seq(Bytes), failed : BOOLEAN]
      BY <1>1, <1>3, <1>4
    <2>2. call' \in [op : Kinds, n : Int, scan : Nat] /\ call'.op = "idle"
      BY <1>3 DEF Idle, Kinds
    <2> QED
      BY <1>1, <1>2, <1>3, <2>1, <2>2 DEF NetBufTypes
  <1>6. Parts(conn, rest, given)'
    BY <1>2, <1>3 DEF NetBufInv, Parts, SameHeld
  <1>7. AnswerWhole'
    <2>1. /\ got'.bytes = << >> /\ got'.failed /\ got'.op = call.op /\ got'.n = call.n
      BY <1>3
    <2>2. (call.op = "exact" \/ (call.op = "any" /\ call.n > 0)) => 0 <= call.n
      BY DEF NetBufInv, NetBufTypes
    <2>3. Len(given') \in Nat
      BY <1>1, <1>3, LenProperties
    <2>4. Suffix(got.bytes, given)'
      BY <1>4, <2>1, <2>3 DEF Suffix
    <2>5. \A i \in 1..Len(got'.bytes) - 1 : ~got'.bytes[i].newline
      BY <1>4, <2>1
    <2> QED
      BY <1>4, <2>1, <2>2, <2>4, <2>5 DEF AnswerWhole
  <1>8. NonePassed'
    BY <1>3 DEF NonePassed, Idle
  <1> QED
    BY <1>5, <1>6, <1>7, <1>8 DEF NetBufInv

\* A call begins where the last one stopped.
LEMMA BeginInv ==
  ASSUME NetBufInv, mi_net_recv_line \/ \E n \in Counts : mi_net_recv(n) \/ mi_net_recv_n(n)
  PROVE  NetBufInv'
  <1>1. PICK op \in Kinds, n \in Int, scan \in Nat :
          /\ Begin(op, n, scan) /\ (op = "exact" => n > 0)
          /\ op = "line" => scan = conn.pos
    <2>1. conn.pos \in Nat /\ 0 \in Int /\ 0 \in Nat
      BY DEF NetBufInv, NetBufTypes, Sound, Buffer
    <2>2. CASE mi_net_recv_line
      BY <2>1, <2>2 DEF mi_net_recv_line, Kinds
    <2>3. CASE \E n \in Counts : mi_net_recv(n) \/ mi_net_recv_n(n)
      <3>1. PICK n \in Counts : mi_net_recv(n) \/ mi_net_recv_n(n)
        BY <2>3
      <3>2. n \in Int
        BY NetBufAssumption
      <3>3. CASE mi_net_recv(n)
        BY <2>1, <3>2, <3>3 DEF mi_net_recv, Kinds
      <3>4. CASE mi_net_recv_n(n)
        BY <2>1, <3>2, <3>4 DEF mi_net_recv_n, Kinds
      <3> QED
        BY <3>1, <3>3, <3>4
    <2> QED
      BY <2>2, <2>3
  <1>2. /\ call' = [op |-> op, n |-> n, scan |-> scan]
        /\ conn' = conn /\ rest' = rest /\ stream' = stream /\ given' = given /\ got' = got
    BY <1>1 DEF Begin
  <1>3. NetBufTypes'
    <2>1. /\ call' \in [op : Kinds, n : Int, scan : Nat]
          /\ call'.op = "line" => call'.scan = conn.pos
          /\ call'.op = "exact" => call'.n > 0
      BY <1>1, <1>2
    <2>2. conn.pos \in conn.pos..conn.len
      BY DEF NetBufInv, NetBufTypes, Sound, Buffer
    <2> QED
      BY <1>2, <2>1, <2>2 DEF NetBufInv, NetBufTypes, Sound
  <1>4. NonePassed'
    <2>1. call'.op = "line" => call'.scan = conn'.pos
      BY <1>1, <1>2
    <2>2. conn'.pos \in Nat
      BY <1>2 DEF NetBufInv, NetBufTypes, Sound, Buffer
    <2> QED
      BY <2>1, <2>2 DEF NonePassed
  <1>5. Parts(conn, rest, given)' /\ AnswerWhole'
    BY <1>2 DEF NetBufInv, Parts, AnswerWhole, Suffix
  <1> QED
    BY <1>3, <1>4, <1>5 DEF NetBufInv

\* A connection that was just opened.
LEMMA InitNetBufInv == NetBufInit => NetBufInv
  <1> SUFFICES ASSUME NetBufInit  PROVE NetBufInv
    OBVIOUS
  <1>1. << >> \in Seq(Bytes) /\ Len(<< >>) = 0
    BY EmptySeq
  <1>2. stream \in Seq(Bytes) /\ rest = stream /\ given = << >>
    BY NetBufAssumption DEF NetBufInit
  <1>3. Len(stream) \in Nat
    BY <1>2, LenProperties
  <1>4. /\ conn = [cell |-> << >>, pos |-> 0, len |-> 0] /\ call = Idle
        /\ got = [op |-> "idle", n |-> 0, bytes |-> << >>, failed |-> FALSE]
    BY DEF NetBufInit
  <1>5. Sound(conn)
    BY <1>1, <1>4 DEF Sound, Buffer
  <1>6. NetBufTypes
    BY <1>1, <1>2, <1>4, <1>5 DEF NetBufTypes, Idle, Kinds
  <1>7. Parts(conn, rest, given)
    BY <1>1, <1>2, <1>3, <1>4 DEF Parts
  <1>8. NonePassed
    BY <1>4 DEF NonePassed, Idle
  <1>9. AnswerWhole
    BY <1>1, <1>2, <1>4 DEF AnswerWhole, Suffix
  <1> QED
    BY <1>6, <1>7, <1>8, <1>9 DEF NetBufInv

\* Every step of a call keeps the bytes in order.
LEMMA NextNetBufInv == NetBufInv /\ [NetBufNext]_connVars => NetBufInv'
  <1> SUFFICES ASSUME NetBufInv, [NetBufNext]_connVars  PROVE NetBufInv'
    OBVIOUS
  <1>1. CASE mi_net_recv_line \/ \E n \in Counts : mi_net_recv(n) \/ mi_net_recv_n(n)
    BY <1>1, BeginInv
  <1>2. CASE TakeLine
    BY <1>2, LineInv
  <1>3. CASE TakeExact \/ TakeAny
    BY <1>3, BytesInv
  <1>4. CASE \E r \in 1..Chunk : Arrive(r)
    BY <1>4, ArriveInv
  <1>5. CASE End
    BY <1>5, EndInv
  <1>6. CASE Fail
    BY <1>6, FailInv
  <1>7. CASE UNCHANGED connVars
    BY <1>7 DEF connVars, NetBufInv, NetBufTypes, Sound, Parts, NonePassed, AnswerWhole, Suffix
  <1> QED
    BY <1>1, <1>2, <1>3, <1>4, <1>5, <1>6, <1>7 DEF NetBufNext

\* The inductive invariant of the receive buffer.
THEOREM NetBufInductive == NetBufSpec => []NetBufInv
  <1> QED
    BY InitNetBufInv, NextNetBufInv, PTL DEF NetBufSpec

\* Whatever is sent, however it arrives and whatever is asked for, the calls
\* give every byte once and in order, and every line whole.
THEOREM BufferGivesAll == NetBufSpec => []LinesWhole
  <1>1. NetBufInv => LinesWhole
    BY Joined DEF NetBufInv, AnswerWhole, LinesWhole
  <1> QED
    BY <1>1, NetBufInductive, PTL
=============================================================================
