------------------------------- MODULE Memory -------------------------------
(***************************************************************************)
(* Memory that programs manage themselves: alloc and free, and arenas that *)
(* release all they gave when their block ends.  Debug builds of compiled  *)
(* programs put a guard with a generation number in front of every block   *)
(* and compare it with the one a pointer carries; the interpreter marks    *)
(* its buffers dead.  `owned` is the truth neither of them stores.         *)
(***************************************************************************)
EXTENDS Integers, Sequences, FiniteSets

CONSTANTS Sizes,        \* elements of a block
          Offsets,      \* how far a pointer is moved, what is indexed
          Guard,        \* words of a guard
          Chunk0,       \* MI_CHUNK0: words of the first chunk of an arena
          MaxBlocks, MaxPointers, MaxArenas        \* bounds
ASSUME MemoryAssumption ==
  Sizes \subseteq Nat /\ Offsets \subseteq Int /\ Guard \in Nat \ {0} /\ Chunk0 \in Nat

VARIABLES guard,        \* block -> [gen, size, arena]: what stands in memory
          place,        \* block -> [chunk, from, to] inside an arena, or Heap
          chunks,       \* chunk -> [arena, used, cap], the newest last
          open,         \* arenas whose blocks are running, innermost last
          opened,       \* arenas opened so far
          counter,      \* mi_gen_counter
          buffer,       \* the interpreter's: block -> [alive, size, inArena]
          pointers,     \* [block, off, gen] of every pointer the program has
          owned,        \* blocks that are allocated and not yet released
          access        \* the last access or free: the verdicts of the two
memoryVars == << guard, place, chunks, open, opened, counter, buffer, pointers, owned, access >>

Heap == << >>
Trash == -1            \* what 0xDD bytes read as a generation
Freed == 0
Nothing == << >>
Verdict(native, interp, really) == << [native |-> native, interp |-> interp, really |-> really] >>
Running == access # Nothing => access[1].native

MemoryInit ==
  /\ guard = << >> /\ place = << >> /\ chunks = << >> /\ open = << >> /\ opened = 0
  /\ counter = 0 /\ buffer = << >> /\ pointers = {} /\ owned = {} /\ access = Nothing

Fits == Len(guard) < MaxBlocks /\ Cardinality(pointers) < MaxPointers
NewBlock(n, arena) ==
  LET b == Len(guard) + 1 IN
  /\ Fits
  /\ counter' = counter + 1
  /\ guard' = Append(guard, [gen |-> counter + 1, size |-> n, arena |-> arena])
  /\ buffer' = Append(buffer, [alive |-> TRUE, size |-> n, inArena |-> arena])
  /\ pointers' = pointers \cup {[block |-> b, off |-> 0, gen |-> counter + 1]}
  /\ owned' = owned \cup {b}
  /\ access' = Nothing

\* mi_ptr_alloc
Alloc(n) == Running /\ NewBlock(n, FALSE) /\ place' = Append(place, Heap) /\ UNCHANGED << chunks, open, opened >>

\* mi_arena_new; the head of an arena is its newest chunk
OpenArena ==
  /\ Running /\ opened < MaxArenas
  /\ opened' = opened + 1 /\ open' = Append(open, opened + 1) /\ access' = Nothing
  /\ UNCHANGED << guard, place, chunks, counter, buffer, pointers, owned >>
ChunksOf(a) == {c \in DOMAIN chunks : chunks[c].arena = a}
Head0(a) == CHOOSE c \in ChunksOf(a) : \A o \in ChunksOf(a) : o <= c
\* deviation: rounded down
Even_down(n) == n - (n % 2)
Even(n) == n + (n % 2)

\* mi_arena_bump: from the newest chunk, or from a new one twice as large
mi_arena_bump(a, words) ==
  LET n == Even(words)
      grows == ChunksOf(a) = {} \/ chunks[Head0(a)].cap - chunks[Head0(a)].used < n
      cap == IF ChunksOf(a) = {} THEN Chunk0 ELSE chunks[Head0(a)].cap * 2
      c == IF grows THEN Len(chunks) + 1 ELSE Head0(a)
      from == IF grows THEN 0 ELSE chunks[c].used
  IN  /\ chunks' = IF grows THEN Append(chunks, [arena |-> a, used |-> n, cap |-> IF cap < n THEN n ELSE cap])
                   ELSE [chunks EXCEPT ![c].used = @ + n]
      /\ place' = Append(place, [chunk |-> c, from |-> from, to |-> from + words])

\* a.alloc[T](n) of any arena whose block is open
ArenaAlloc(a, n) ==
  /\ Running
  /\ mi_arena_bump(a, Guard + n)
  /\ NewBlock(n, TRUE)
  /\ UNCHANGED << open, opened >>

\* mi_arena_drop: the used part of every chunk is overwritten and kept
Overwritten(a) ==
  {b \in DOMAIN guard : /\ place[b] # Heap
                        /\ place[b].chunk \in ChunksOf(a)
                        /\ place[b].from < chunks[place[b].chunk].used}
CloseArena ==
  /\ Running /\ open # << >>
  /\ LET a == open[Len(open)]
         mine == {b \in DOMAIN guard : place[b] # Heap /\ place[b].chunk \in ChunksOf(a)}
     IN  /\ guard' = [b \in DOMAIN guard |-> IF b \in Overwritten(a) THEN [gen |-> Trash, size |-> Trash, arena |-> TRUE]
                                             ELSE guard[b]]
         /\ buffer' = [b \in DOMAIN buffer |-> IF b \in mine THEN [buffer[b] EXCEPT !.alive = FALSE] ELSE buffer[b]]
         /\ owned' = owned \ mine
  /\ open' = SubSeq(open, 1, Len(open) - 1)
  /\ access' = Nothing
  /\ UNCHANGED << place, chunks, opened, counter, pointers >>

\* p + k: the interpreter refuses to go before the start, compiled code does not look
PtrAdd(p, k) ==
  /\ Running /\ Cardinality(pointers) < MaxPointers
  /\ p.off + k >= 0
  /\ pointers' = pointers \cup {[p EXCEPT !.off = @ + k]}
  /\ access' = Nothing
  /\ UNCHANGED << guard, place, chunks, open, opened, counter, buffer, owned >>

\* free: the order of the tests differs, the verdict must not
mi_ptr_free(p) == LET g == guard[p.block] IN ~g.arena /\ p.off = 0 /\ g.gen # Freed /\ g.gen = p.gen
InterpFree(p) == LET b == buffer[p.block] IN p.off = 0 /\ ~b.inArena /\ b.alive
FreePointer(p) ==
  /\ Running
  /\ access' = Verdict(mi_ptr_free(p), InterpFree(p), p.block \in owned)
  /\ IF mi_ptr_free(p)
     THEN /\ guard' = [guard EXCEPT ![p.block].gen = Freed]
          /\ buffer' = [buffer EXCEPT ![p.block].alive = FALSE]
          /\ owned' = owned \ {p.block}
     ELSE UNCHANGED << guard, buffer, owned >>
  /\ UNCHANGED << place, chunks, open, opened, counter, pointers >>

\* p[i], read or written
\* deviation: the generation is not compared
mi_ptr_at_any(p, i) == LET g == guard[p.block] IN p.off + i >= 0 /\ p.off + i + 1 <= g.size
mi_ptr_at(p, i) == LET g == guard[p.block] IN g.gen = p.gen /\ p.off + i >= 0 /\ p.off + i + 1 <= g.size
check_raw(p, i) == LET b == buffer[p.block] IN b.alive /\ p.off + i >= 0 /\ p.off + i < b.size
Access(p, i) ==
  /\ Running
  /\ access' = Verdict(mi_ptr_at(p, i), check_raw(p, i), p.block \in owned /\ p.off + i \in 0..(buffer[p.block].size - 1))
  /\ UNCHANGED << guard, place, chunks, open, opened, counter, buffer, pointers, owned >>

MemoryNext ==
  \/ \E n \in Sizes : Alloc(n) \/ \E k \in DOMAIN open : ArenaAlloc(open[k], n)
  \/ OpenArena \/ CloseArena
  \/ \E p \in pointers : FreePointer(p) \/ \E k \in Offsets : PtrAdd(p, k) \/ Access(p, k)
MemorySpec == MemoryInit /\ [][MemoryNext]_memoryVars

\* No access that goes through touches memory that was released or is not the
\* block's, in the interpreter and in debug builds; and both judge alike.
NoUseAfterFree ==
  access # Nothing => /\ access[1].native = access[1].interp
                      /\ access[1].native => access[1].really

\* Bump allocation never hands out a word twice nor one outside of its chunk.
BlocksApart ==
  \A b \in DOMAIN place : place[b] # Heap =>
    /\ place[b].to <= chunks[place[b].chunk].cap
    /\ \A o \in DOMAIN place \ {b} : place[o] # Heap /\ place[o].chunk = place[b].chunk =>
         place[o].to <= place[b].from \/ place[b].to <= place[o].from

-----------------------------------------------------------------------------
(* The inductive invariant (MemoryProofs) *)

\* Types; the generations given out so far are the numbers of the blocks.
MemoryTypes ==
  /\ counter = Len(guard) /\ Len(buffer) = counter /\ Len(place) = counter
  /\ guard \in Seq([gen : Int, size : Int, arena : BOOLEAN])
  /\ buffer \in Seq([alive : BOOLEAN, size : Nat, inArena : BOOLEAN])
  /\ place \in Seq({Heap} \cup [chunk : Nat, from : Nat, to : Nat])
  /\ chunks \in Seq([arena : Nat, used : Nat, cap : Nat])
  /\ open \in Seq(Nat) /\ opened \in Nat
  /\ pointers \subseteq [block : 1..counter, off : Nat, gen : Nat]
  /\ owned \subseteq 1..counter

\* A pointer keeps the generation its block was made with.
PointersKeepGen == \A p \in pointers : p.gen = p.block

\* The guard in memory and the interpreter's mark both tell who is owned.
GuardsTell ==
  \A b \in 1..counter :
    /\ guard[b].gen = b <=> b \in owned
    /\ buffer[b].alive <=> b \in owned
    /\ b \in owned => guard[b].size = buffer[b].size
    /\ guard[b].arena = buffer[b].inArena
    /\ buffer[b].inArena <=> place[b] # Heap

\* A block lies in the used part of its chunk, and that part in the chunk.
PlacesUsed ==
  /\ \A b \in 1..counter : place[b] # Heap =>
       /\ place[b].chunk \in DOMAIN chunks
       /\ place[b].from < place[b].to /\ place[b].to <= chunks[place[b].chunk].used
  /\ \A c \in DOMAIN chunks : chunks[c].used <= chunks[c].cap

MemoryInv ==
  /\ MemoryTypes /\ PointersKeepGen /\ GuardsTell /\ PlacesUsed
  /\ BlocksApart /\ NoUseAfterFree
=============================================================================
