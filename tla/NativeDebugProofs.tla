-------------------------- MODULE NativeDebugProofs --------------------------
(***************************************************************************)
(* Proofs about NativeDebug, for any tasks, lines and depth of calls, with  *)
(* or without a bound on the statements reached, and whether or not the     *)
(* debugger may be killed: between two conversations the program and the    *)
(* debugger agree, and what the prompt shows is true.                       *)
(***************************************************************************)
EXTENDS NativeDebug, FiniteSetTheorems, SequenceTheorems, WellFoundedInduction, TLAPS

LEMMA Numbers ==
  /\ 0 \in Tasks /\ Tasks \subseteq Nat /\ Lines \subseteq Nat /\ 0 \notin Lines
  /\ IsFiniteSet(Lines) /\ Cardinality(Lines) \in Nat
  /\ MaxDepth \in Nat /\ MaxDepth >= 1 /\ Frames \subseteq Nat /\ NoFrame \notin Frames /\ 1 \in Frames
  BY NativeDebugAssumption, FS_CardinalityType DEF NativeDebugAssumption, Frames, NoFrame

-----------------------------------------------------------------------------
(* The breakpoints in their order *)

\* Some numbers have a least one.
LEMMA Least == ASSUME NEW S \in SUBSET Nat, S # {}  PROVE \E n \in S : \A m \in S : n <= m
  <1>1. PICK n \in S : \A m \in S : <<m, n>> \notin OpToRel(<, Nat)
    BY NatLessThanWellFounded, WFMin
  <1>2. \A m \in S : ~(m < n)
    BY <1>1 DEF OpToRel
  <1>3. \A m \in S : n <= m
    BY <1>2
  <1> QED
    BY <1>3

\* Lines can be put in order.
LEMMA Ordered ==
  ASSUME NEW s \in SUBSET Lines
  PROVE  \E q \in [1..Cardinality(s) -> s] : Increasing(q)
  <1> DEFINE InOrder(u) == \E q \in [1..Cardinality(u) -> u] : Increasing(q)
             Bad == {n \in Nat : \E u \in SUBSET Lines : Cardinality(u) = n /\ ~InOrder(u)}
  <1>1. \A u \in SUBSET Lines : IsFiniteSet(u) /\ Cardinality(u) \in Nat
    BY Numbers, FS_Subset, FS_CardinalityType
  <1>2. SUFFICES ASSUME ~InOrder(s)  PROVE FALSE
    OBVIOUS
  <1>3. Bad # {} /\ Bad \in SUBSET Nat
    BY <1>1, <1>2
  <1>4. PICK n \in Bad : \A m \in Bad : n <= m
    <2> HIDE DEF Bad
    <2> QED
      BY <1>3, Least
  <1>5. PICK u \in SUBSET Lines : Cardinality(u) = n /\ ~InOrder(u)
    BY <1>4
  <1>6. n \in Nat /\ IsFiniteSet(u)
    BY <1>1, <1>4
  <1>7. u # {}
    <2>1. SUFFICES ASSUME u = {}  PROVE InOrder(u)
      BY <1>5
    <2>2. Cardinality(u) = 0
      BY <2>1, FS_EmptySet
    <2>3. [k \in 1..0 |-> 0] \in [1..0 -> u] /\ Increasing([k \in 1..0 |-> 0])
      BY DEF Increasing
    <2> QED
      BY <2>2, <2>3
  <1>8. PICK a \in u : \A b \in u : a <= b
    BY <1>7, Least, Numbers
  <1> DEFINE v == u \ {a}
  <1>9. v \in SUBSET Lines /\ Cardinality(v) = n - 1 /\ n - 1 \in Nat
    <2>1. Cardinality(v) = Cardinality(u) - 1
      BY <1>6, <1>8, FS_RemoveElement
    <2>2. v \in SUBSET Lines /\ Cardinality(v) \in Nat
      BY <1>1
    <2> QED
      BY <2>1, <2>2, <1>5
  <1>10. InOrder(v)
    <2>1. n - 1 \notin Bad
      <3> HIDE DEF Bad
      <3> QED
        BY <1>4, <1>6, <1>9
    <2> HIDE DEF v
    <2> QED
      BY <1>9, <2>1
  <1>11. PICK p \in [1..n - 1 -> v] : Increasing(p)
    BY <1>9, <1>10
  <1> DEFINE q == [k \in 1..n |-> IF k = 1 THEN a ELSE p[k - 1]]
  <1>12. q \in [1..n -> u]
    BY <1>6, <1>8, <1>11
  <1>13. Increasing(q)
    <2>1. \A i \in 1..n - 1 : p[i] \in u /\ p[i] # a /\ p[i] \in Nat /\ a \in Nat /\ a <= p[i]
      BY <1>8, <1>11, Numbers
    <2>2. \A i \in 1..n - 1, j \in 1..n - 1 : i < j => p[i] < p[j]
      BY <1>11 DEF Increasing
    <2> SUFFICES ASSUME NEW i \in 1..n, NEW j \in 1..n, i < j  PROVE q[i] < q[j]
      BY DEF Increasing
    <2>3. j - 1 \in 1..n - 1 /\ j # 1
      BY <1>6
    <2>4. CASE i = 1
      BY <2>1, <2>3, <2>4
    <2>5. CASE i # 1
      <3>1. i - 1 \in 1..n - 1 /\ i - 1 < j - 1
        BY <2>5, <1>6
      <3> QED
        BY <2>2, <2>3, <2>5, <3>1
    <2> QED
      BY <2>4, <2>5
  <1> QED
    BY <1>5, <1>12, <1>13

\* What wire() writes: each of the breakpoints once, in a table that holds them.
LEMMA BreaksOf ==
  ASSUME NEW s \in SUBSET Lines
  PROVE  /\ Breaks(s) \in Seq(Lines) /\ Len(Breaks(s)) = Cardinality(s)
         /\ Cardinality(s) \in 0..Cardinality(Lines)
         /\ \A k \in 1..Cardinality(s) : Breaks(s)[k] \in Lines
         /\ {Breaks(s)[k] : k \in 1..Cardinality(s)} = s
  <1> DEFINE n == Cardinality(s)
             q == Breaks(s)
  <1>1. IsFiniteSet(s) /\ n \in Nat /\ n <= Cardinality(Lines)
    BY Numbers, FS_Subset, FS_CardinalityType
  <1>2. q \in [1..n -> s] /\ Increasing(q)
    BY Ordered DEF Breaks
  <1>3. q \in Seq(Lines) /\ Len(q) = n
    <2> HIDE DEF n, q
    <2>1. q \in [1..n -> Lines]
      BY <1>2
    <2> QED
      BY <1>1, <2>1, LenProperties, SeqDef
  <1>4. \A i, j \in 1..n : q[i] = q[j] => i = j
    <2> HIDE DEF n, q
    <2> SUFFICES ASSUME NEW i \in 1..n, NEW j \in 1..n, i < j  PROVE q[i] # q[j]
      BY <1>1
    <2>1. q[i] < q[j] /\ q[i] \in Nat /\ q[j] \in Nat
      BY <1>2, Numbers DEF Increasing
    <2> QED
      BY <2>1
  <1>5. q \in Surjection(1..n, s)
    <2> HIDE DEF q
    <2>1. q \in Injection(1..n, s)
      BY <1>2, <1>4 DEF Injection, IsInjective
    <2>2. Cardinality(1..n) = n
      <3> HIDE DEF n
      <3> QED
        BY <1>1, FS_Interval
    <2> QED
      BY <1>1, <2>1, <2>2, FS_Injection
  <1>6. {q[k] : k \in 1..n} = s
    <2> HIDE DEF q, n
    <2> QED
      BY <1>2, <1>5 DEF Surjection
  <1> QED
    BY <1>1, <1>2, <1>3, <1>6, Numbers

-----------------------------------------------------------------------------
(* Stacks *)

\* A new call finds a frame that is neither on the stack nor the one that is
\* remembered: the stack is shorter than MaxDepth, and there is one frame more.
LEMMA FreeFrame ==
  ASSUME NEW s \in Seq(Frames), Len(s) < MaxDepth, NEW a
  PROVE  Unused(s, a) \in Frames
  <1> DEFINE Ds == 1..Len(s)
  <1>1. Len(s) \in Nat /\ s \in [Ds -> Frames] /\ DOMAIN s = Ds /\ MaxDepth \in Nat
    BY Numbers, LenProperties
  <1>2. IsFiniteSet(Ds) /\ Cardinality(Ds) = Len(s)
    <2>1. 1 \in Int /\ Len(s) \in Int
      BY <1>1
    <2>2. IsFiniteSet(1..Len(s)) /\ Cardinality(1..Len(s)) = IF 1 > Len(s) THEN 0 ELSE Len(s) - 1 + 1
      BY <2>1, FS_Interval
    <2> QED
      BY <1>1, <2>2
  <1>3. IsFiniteSet(ToSet(s)) /\ Cardinality(ToSet(s)) <= Len(s) /\ Cardinality(ToSet(s)) \in Nat
    <2>1. s \in Surjection(Ds, ToSet(s))
      BY <1>1 DEF Surjection, ToSet
    <2> QED
      BY <2>1, <1>2, FS_Surjection, FS_CardinalityType
  <1>4. /\ IsFiniteSet(ToSet(s) \cup {a})
        /\ Cardinality(ToSet(s) \cup {a}) <= Len(s) + 1
        /\ Cardinality(ToSet(s) \cup {a}) \in Nat
    <2>1. /\ IsFiniteSet(ToSet(s) \cup {a})
          /\ Cardinality(ToSet(s) \cup {a}) =
               IF a \in ToSet(s) THEN Cardinality(ToSet(s)) ELSE Cardinality(ToSet(s)) + 1
      BY <1>3, FS_AddElement
    <2> QED
      BY <1>1, <1>3, <2>1
  <1>5. IsFiniteSet(Frames) /\ Cardinality(Frames) = MaxDepth + 1
    BY <1>1, FS_Interval DEF Frames
  <1>6. \E f \in Frames : f \notin ToSet(s) \cup {a}
    <2>1. SUFFICES ASSUME Frames \subseteq ToSet(s) \cup {a}  PROVE FALSE
      OBVIOUS
    <2>2. Cardinality(Frames) <= Cardinality(ToSet(s) \cup {a})
      BY <1>4, <2>1, FS_Subset
    <2> QED
      BY <1>1, <1>4, <1>5, <2>2
  <1> QED
    BY <1>6 DEF Unused

\* Stacks under calls and returns.
LEMMA Stacks ==
  ASSUME NEW s \in Seq(Frames)
  PROVE  /\ Len(s) \in Nat
         /\ \A f \in Frames : Append(s, f) \in Seq(Frames) /\ Len(Append(s, f)) = Len(s) + 1
         /\ Len(s) > 1 => Front(s) \in Seq(Frames) /\ Len(Front(s)) = Len(s) - 1
         /\ Len(s) >= 1 => Last(s) \in Frames
  <1>1. Len(s) \in Nat /\ \A i \in 1..Len(s) : s[i] \in Frames
    BY LenProperties, ElementOfSeq
  <1>2. \A f \in Frames : Append(s, f) \in Seq(Frames) /\ Len(Append(s, f)) = Len(s) + 1
    BY AppendProperties
  <1>3. Len(s) > 1 => Front(s) \in Seq(Frames) /\ Len(Front(s)) = Len(s) - 1
    BY <1>1, SubSeqProperties DEF Front
  <1> QED
    BY <1>1, <1>2, <1>3 DEF Last

-----------------------------------------------------------------------------
(* Pipes *)

\* The pipe of the STOPs, which holds one at most.
LEMMA StopPipe ==
  /\ << >> \in Seq(Stops) /\ Len(<< >>) = 0
  /\ \A r \in Stops : <<r>> \in Seq(Stops) /\ Len(<<r>>) = 1 /\ <<r>> # << >> /\ Append(<< >>, r) = <<r>> /\ Head(<<r>>) = r
  /\ \A q \in Seq(Stops) : Len(q) <= 1 /\ q # << >> => Head(q) \in Stops /\ Tail(q) = << >>
  <1>1. \A q \in Seq(Stops) : Len(q) <= 1 /\ q # << >> => Head(q) \in Stops /\ Tail(q) = << >>
    <2> SUFFICES ASSUME NEW q \in Seq(Stops), Len(q) <= 1, q # << >>
                 PROVE  Head(q) \in Stops /\ Tail(q) = << >>
      OBVIOUS
    <2>1. Len(q) = 1
      <3>1. Len(q) \in Nat
        BY LenProperties
      <3>2. Len(q) # 0
        BY EmptySeq
      <3> QED
        BY <3>1, <3>2
    <2>2. Head(q) \in Stops /\ Tail(q) \in Seq(Stops) /\ Len(Tail(q)) = 0
      BY <2>1, HeadTailProperties
    <2> QED
      BY <2>1, <2>2, EmptySeq
  <1> QED
    BY <1>1

\* The pipe of the replies, which holds one at most.
LEMMA ReplyPipe ==
  /\ << >> \in Seq(Replies) /\ Len(<< >>) = 0
  /\ \A r \in Replies : <<r>> \in Seq(Replies) /\ Len(<<r>>) = 1 /\ <<r>> # << >>
                        /\ Append(<< >>, r) = <<r>> /\ Head(<<r>>) = r
  /\ \A q \in Seq(Replies) : Len(q) <= 1 /\ q # << >> => Head(q) \in Replies /\ Tail(q) = << >>
  <1>1. \A q \in Seq(Replies) : Len(q) <= 1 /\ q # << >> => Head(q) \in Replies /\ Tail(q) = << >>
    <2> SUFFICES ASSUME NEW q \in Seq(Replies), Len(q) <= 1, q # << >>
                 PROVE  Head(q) \in Replies /\ Tail(q) = << >>
      OBVIOUS
    <2>1. Len(q) = 1
      <3>1. Len(q) \in Nat
        BY LenProperties
      <3>2. Len(q) # 0
        BY EmptySeq
      <3> QED
        BY <3>1, <3>2
    <2>2. Head(q) \in Replies /\ Tail(q) \in Seq(Replies) /\ Len(Tail(q)) = 0
      BY <2>1, HeadTailProperties
    <2> QED
      BY <2>2, EmptySeq
  <1> QED
    BY <1>1

-----------------------------------------------------------------------------
(* Tasks that run or ask *)

\* A task that is in no conversation, before and after, disturbs none.
LEMMA Aside ==
  ASSUME DebugInv, Alive, NEW t \in Tasks, NEW p, pc[t] \notin Conversing, p \notin Conversing,
         pc' = [pc EXCEPT ![t] = p],
         \A s \in Tasks \ {t} : stack'[s] = stack[s] /\ line'[s] = line[s] /\ idx'[s] = idx[s],
         UNCHANGED <<shared, holder, attached, pipes, user>>
  PROVE  LockFits' /\ TurnsFit' /\ ReplyFits' /\ WritesFit'
  <1>0. /\ UNCHANGED <<bps, nbp, mode, mdepth, owner>> /\ UNCHANGED <<holder, attached>>
        /\ UNCHANGED <<toDebugger, toProgram>> /\ UNCHANGED <<dbg, at, breaks, go, asked, follows>>
    BY DEF shared, pipes, user
  <1>1. holder \subseteq Tasks \ {t} /\ \A s \in Tasks : pc[s] \in Conversing => s # t
    BY DEF DebugInv, TypeOK, LockFits
  <1>2. \A s \in Tasks \ {t} : pc'[s] = pc[s] /\ Stop(s)' = Stop(s) /\ idx'[s] = idx[s]
    BY DEF DebugInv, TypeOK, Stop, Depth
  <1>3. pc'[t] = p
    BY DEF DebugInv, TypeOK
  <1>4. LockFits'
    BY <1>0, <1>1, <1>2, <1>3 DEF DebugInv, LockFits
  <1>5. TurnsFit'
    <2>1. TurnsFit
      BY DEF DebugInv
    <2>2. "talking" \in Conversing
      BY DEF Conversing
    <2> QED
      BY <1>0, <1>1, <1>2, <2>1, <2>2 DEF TurnsFit, Reply, Alive
  <1>6. ReplyFits'
    BY <1>0 DEF DebugInv, ReplyFits, Reply
  <1>7. WritesFit'
    <2>1. WritesFit
      BY DEF DebugInv
    <2> QED
      BY <1>0, <1>1, <1>2, <2>1 DEF WritesFit, Written
  <1> QED
    BY <1>4, <1>5, <1>6, <1>7

LEMMA SpawnInv ==
  ASSUME DebugInv, NEW t \in Tasks, Spawn(t)  PROVE DebugInv'
  <1>1. TypeOK' /\ ScanFits'
    BY DEF DebugInv, TypeOK, ScanFits, Spawn, At, Goto, Depth, Stop, shared, pipes, user, ghosts
  <1>2. LockFits' /\ TurnsFit' /\ ReplyFits' /\ WritesFit'
    BY Aside DEF Spawn, At, Goto, Conversing
  <1> QED
    BY <1>1, <1>2 DEF DebugInv

LEMMA CallInv ==
  ASSUME DebugInv, NEW t \in Tasks, Call(t)  PROVE DebugInv'
  <1>0. stack[t] \in Seq(Frames) /\ Len(stack[t]) < MaxDepth /\ pc[t] = "running"
    BY DEF DebugInv, TypeOK, Call, At, Depth
  <1>1. /\ stack'[t] \in Seq(Frames) /\ Len(stack'[t]) = Len(stack[t]) + 1
        /\ stack' = [stack EXCEPT ![t] = stack'[t]]
    BY <1>0, FreeFrame, Stacks DEF Call, DebugInv, TypeOK
  <1>2. TypeOK' /\ ScanFits'
    <2>1. stack' \in [Tasks -> Seq(Frames)]
      BY <1>1 DEF DebugInv, TypeOK
    <2>2. \A s \in Tasks : Len(stack'[s]) \in 1..MaxDepth
      <3>1. \A s \in Tasks : s # t => stack'[s] = stack[s]
        BY <1>1 DEF DebugInv, TypeOK
      <3>2. \A s \in Tasks : Len(stack[s]) \in 1..MaxDepth
        BY DEF DebugInv, TypeOK, Depth
      <3>3. Len(stack'[t]) \in 1..MaxDepth
        BY <1>0, <1>1, <3>2, Numbers
      <3> QED
        BY <3>1, <3>2, <3>3
    <2> QED
      BY <2>1, <2>2 DEF DebugInv, TypeOK, ScanFits, Call, Depth, shared, pipes, user, ghosts
  <1>3. pc' = [pc EXCEPT ![t] = pc[t]]
    BY DEF DebugInv, TypeOK, Call
  <1>4. LockFits' /\ TurnsFit' /\ ReplyFits' /\ WritesFit'
    BY <1>0, <1>1, <1>3, Aside DEF Call, At, Conversing, DebugInv, TypeOK
  <1> QED
    BY <1>2, <1>4 DEF DebugInv

LEMMA ReturnInv ==
  ASSUME DebugInv, NEW t \in Tasks, Return(t)  PROVE DebugInv'
  <1>0. stack[t] \in Seq(Frames) /\ Len(stack[t]) > 1 /\ pc[t] = "running"
    BY DEF DebugInv, TypeOK, Return, At, Depth
  <1>1. /\ stack'[t] \in Seq(Frames) /\ Len(stack'[t]) = Len(stack[t]) - 1
        /\ stack' = [stack EXCEPT ![t] = stack'[t]]
    BY <1>0, Stacks DEF Return, DebugInv, TypeOK
  <1>2. TypeOK' /\ ScanFits'
    <2>1. stack' \in [Tasks -> Seq(Frames)]
      BY <1>1 DEF DebugInv, TypeOK
    <2>2. \A s \in Tasks : Len(stack'[s]) \in 1..MaxDepth
      <3>1. \A s \in Tasks : s # t => stack'[s] = stack[s]
        BY <1>1 DEF DebugInv, TypeOK
      <3>2. \A s \in Tasks : Len(stack[s]) \in 1..MaxDepth
        BY DEF DebugInv, TypeOK, Depth
      <3>3. Len(stack'[t]) \in 1..MaxDepth
        BY <1>0, <1>1, <3>2, Numbers
      <3> QED
        BY <3>1, <3>2, <3>3
    <2> QED
      BY <2>1, <2>2 DEF DebugInv, TypeOK, ScanFits, Return, Depth, shared, pipes, user, ghosts
  <1>3. pc' = [pc EXCEPT ![t] = pc[t]]
    BY DEF DebugInv, TypeOK, Return
  <1>4. LockFits' /\ TurnsFit' /\ ReplyFits' /\ WritesFit'
    BY <1>0, <1>1, <1>3, Aside DEF Return, At, Conversing, DebugInv, TypeOK
  <1> QED
    BY <1>2, <1>4 DEF DebugInv

LEMMA EndInv ==
  ASSUME DebugInv, NEW t \in Tasks, End(t)  PROVE DebugInv'
  <1>1. TypeOK' /\ ScanFits'
    BY DEF DebugInv, TypeOK, ScanFits, End, At, Goto, Depth, shared, pipes, user, ghosts
  <1>2. LockFits' /\ TurnsFit' /\ ReplyFits' /\ WritesFit'
    BY Aside DEF End, At, Goto, Conversing
  <1> QED
    BY <1>1, <1>2 DEF DebugInv

LEMMA CrashInv ==
  ASSUME DebugInv, NEW t \in Tasks, Crash(t)  PROVE DebugInv'
  <1>1. TypeOK' /\ ScanFits'
    BY DEF DebugInv, TypeOK, ScanFits, Crash, Depth, taskVars, shared, pipes, user, ghosts
  <1>2. pc' = [pc EXCEPT ![t] = pc[t]] /\ pc[t] = "running" /\ UNCHANGED taskVars
    BY DEF DebugInv, TypeOK, Crash, At, taskVars
  <1>3. LockFits' /\ TurnsFit' /\ ReplyFits' /\ WritesFit'
    BY <1>2, Aside DEF Crash, At, Conversing, taskVars
  <1> QED
    BY <1>1, <1>3 DEF DebugInv

LEMMA ReachInv ==
  ASSUME DebugInv, NEW t \in Tasks, NEW l \in Lines, Reach(t, l)  PROVE DebugInv'
  <1> DEFINE s == /\ attached /\ holder = {}
                  /\ asked # NoFrame /\ l \in breaks
             d == l \in breaks \cup Known
  <1>1. \E p \in {"running", "scan"} :
          /\ pc' = [pc EXCEPT ![t] = p]
          /\ idx' = IF p = "scan" THEN [idx EXCEPT ![t] = 1] ELSE idx
    BY DEF DebugInv, TypeOK, Reach, At, Goto
  <1>2. PICK p \in {"running", "scan"} :
          /\ pc' = [pc EXCEPT ![t] = p]
          /\ idx' = IF p = "scan" THEN [idx EXCEPT ![t] = 1] ELSE idx
    BY <1>1
  <1>3. left' \in [Tasks -> IF MaxHits = Unbounded THEN {Unbounded} ELSE Nat]
    <2>1. CASE MaxHits = Unbounded
      BY <2>1 DEF DebugInv, TypeOK, Reach
    <2>2. CASE MaxHits # Unbounded
      <3>1. left' = [left EXCEPT ![t] = left[t] - 1] /\ left[t] # 0
        BY <2>2 DEF Reach
      <3>2. left \in [Tasks -> Nat]
        BY <2>2 DEF DebugInv, TypeOK
      <3>3. left' \in [Tasks -> Nat]
        BY <3>1, <3>2
      <3> QED
        BY <2>2, <3>3
    <2> QED
      BY <2>1, <2>2
  <1>4. sure' \in [Tasks -> BOOLEAN] /\ due' \in [Tasks -> BOOLEAN]
    <2>1. sure' = [sure EXCEPT ![t] = s]
      BY DEF Reach
    <2>2. due' = [due EXCEPT ![t] = d]
      BY DEF Reach
    <2>3. s \in BOOLEAN /\ d \in BOOLEAN
      BY DEF DebugInv, TypeOK
    <2> HIDE DEF s, d
    <2> QED
      BY <2>1, <2>2, <2>3 DEF DebugInv, TypeOK
  <1>5. idx' \in [Tasks -> 0..Cardinality(Lines) + 1] /\ ScanFits'
    <2>0. 1 \in 0..Cardinality(Lines) + 1
      BY Numbers
    <2>1. idx \in [Tasks -> 0..Cardinality(Lines) + 1] /\ 1 \in 0..Cardinality(Lines) + 1
      BY <2>0 DEF DebugInv, TypeOK
    <2>2. idx' \in [Tasks -> 0..Cardinality(Lines) + 1]
      BY <1>2, <2>1
    <2>3. ScanFits'
      <3> SUFFICES ASSUME NEW o \in Tasks
                   PROVE  /\ pc'[o] = "scan" => idx'[o] # 0
                          /\ pc'[o] = "compare" => idx'[o] \in Table
        BY DEF ScanFits
      <3>1. CASE o = t
        BY <1>2, <2>1, <3>1 DEF DebugInv, TypeOK
      <3>2. CASE o # t
        BY <1>2, <2>1, <3>2 DEF DebugInv, TypeOK, ScanFits
      <3> QED
        BY <3>1, <3>2
    <2> QED
      BY <2>2, <2>3
  <1>6. line' \in [Tasks -> Lines \cup {0}]
    BY DEF DebugInv, TypeOK, Reach
  <1>7. TypeOK'
    BY <1>2, <1>3, <1>4, <1>5, <1>6
    DEF DebugInv, TypeOK, Reach, Depth, shared, pipes, user
  <1>8. LockFits' /\ TurnsFit' /\ ReplyFits' /\ WritesFit'
    <2>1. /\ pc[t] = "running" /\ Alive
          /\ \A o \in Tasks \ {t} : stack'[o] = stack[o] /\ line'[o] = line[o] /\ idx'[o] = idx[o]
      BY <1>2 DEF DebugInv, TypeOK, Reach, At
    <2>2. UNCHANGED <<shared, holder, attached, pipes, user>>
      BY DEF Reach
    <2> QED
      BY <1>2, <2>1, <2>2, Aside DEF Conversing
  <1> QED
    BY <1>5, <1>7, <1>8 DEF DebugInv

LEMMA AsksInv ==
  ASSUME DebugInv, NEW t \in Tasks, Asks(t)  PROVE DebugInv'
  <1> DEFINE N == Cardinality(Lines)
  <1>1. pc \in [Tasks -> {"unborn", "running", "over", "scan", "compare", "owner", "mode",
                          "depth", "locking", "talking", "table", "go", "godepth", "goowner"}]
        /\ idx \in [Tasks -> 0..N + 1] /\ seen \in [Tasks -> 0..1] /\ nbp \in 0..N /\ N \in Nat
    BY Numbers DEF DebugInv, TypeOK
  <1>2. Local /\ Alive /\ pc[t] \in {"scan", "compare", "owner", "mode", "depth"}
    BY DEF Asks, Scan, Compare, Owner, Mode, MDepth, At
  <1>3. \E p \in {"scan", "compare", "owner", "mode", "depth", "locking", "running"} :
          pc' = [pc EXCEPT ![t] = p]
    BY DEF Asks, Scan, Compare, Owner, Mode, MDepth, Goto
  <1>4. seen' \in [Tasks -> 0..1]
    BY <1>1 DEF Asks, Scan, Compare, Owner, Mode, MDepth
  <1>5. \E i \in 0..N + 1 : /\ idx' = [idx EXCEPT ![t] = i]
                            /\ pc'[t] = "compare" => i \in 1..N
                            /\ pc'[t] = "scan" => i # 0
    <2>1. idx[t] \in 0..N + 1 /\ idx = [idx EXCEPT ![t] = idx[t]] /\ (pc[t] = "scan" => idx[t] # 0)
          /\ (pc[t] = "compare" => idx[t] \in 1..N)
      BY <1>1 DEF DebugInv, ScanFits, Table
    <2> HIDE DEF N
    <2>2. CASE Scan(t)
      <3>1. idx' = idx /\ pc[t] = "scan" /\ pc'[t] \in {"compare", "owner"}
            /\ (pc'[t] = "compare" => idx[t] <= nbp)
        BY <1>1, <2>2 DEF Scan, At, Goto
      <3> QED
        BY <1>1, <2>1, <3>1
    <2>3. CASE Compare(t)
      <3>1. pc[t] = "compare" /\ pc'[t] \in {"locking", "scan"}
            /\ ((idx' = idx /\ pc'[t] = "locking") \/ idx' = [idx EXCEPT ![t] = idx[t] + 1])
        BY <1>1, <2>3 DEF Compare, At, Goto
      <3>2. idx[t] + 1 \in 0..N + 1 /\ idx[t] + 1 # 0
        BY <1>1, <2>1, <3>1
      <3> QED
        BY <1>1, <2>1, <3>1, <3>2
    <2>4. CASE Owner(t) \/ Mode(t) \/ MDepth(t)
      <3>1. idx' = idx /\ pc'[t] \notin {"compare", "scan"}
        BY <1>1, <2>4 DEF Owner, Mode, MDepth, Goto
      <3> QED
        BY <2>1, <3>1
    <2> QED
      BY <2>2, <2>3, <2>4 DEF Asks
  <1>6. PICK p \in {"scan", "compare", "owner", "mode", "depth", "locking", "running"} :
          pc' = [pc EXCEPT ![t] = p]
    BY <1>3
  <1>7. PICK i \in 0..N + 1 : /\ idx' = [idx EXCEPT ![t] = i]
                              /\ p = "compare" => i \in 1..N
                              /\ p = "scan" => i # 0
    BY <1>1, <1>5, <1>6
  <1>8. UNCHANGED <<stack, line, left, shared, holder, attached, exit, pipes, user, ghosts>>
    BY <1>2 DEF Local
  <1>9. TypeOK'
    <2>1. idx' \in [Tasks -> 0..N + 1]
      BY <1>1, <1>7
    <2> QED
      BY <1>1, <1>4, <1>6, <1>8, <2>1, ZenonT(60) DEF DebugInv, TypeOK, Depth, shared, pipes, user, ghosts
  <1>10. ScanFits'
    <2> SUFFICES ASSUME NEW o \in Tasks
                 PROVE  /\ pc'[o] = "scan" => idx'[o] # 0
                        /\ pc'[o] = "compare" => idx'[o] \in Table
      BY DEF ScanFits
    <2>1. CASE o = t
      BY <1>1, <1>6, <1>7, <2>1 DEF Table
    <2>2. CASE o # t
      BY <1>1, <1>6, <1>7, <2>2 DEF DebugInv, ScanFits
    <2> QED
      BY <2>1, <2>2
  <1>11. LockFits' /\ TurnsFit' /\ ReplyFits' /\ WritesFit'
    <2>1. \A s \in Tasks \ {t} : stack'[s] = stack[s] /\ line'[s] = line[s] /\ idx'[s] = idx[s]
      BY <1>1, <1>7, <1>8
    <2>2. UNCHANGED <<shared, holder, attached, pipes, user>>
      BY <1>8
    <2> QED
      BY <1>2, <1>6, <2>1, <2>2, Aside DEF Conversing
  <1> QED
    BY <1>9, <1>10, <1>11 DEF DebugInv

-----------------------------------------------------------------------------
(* A conversation, from the program's side *)

\* Only one task is in a conversation; the others see nothing of it.
LEMMA LockInv ==
  ASSUME DebugInv, NEW t \in Tasks, Lock(t)  PROVE DebugInv'
  <1>0. /\ UNCHANGED <<stack, line, idx, seen, left, exit, sure, due>> /\ UNCHANGED <<bps, nbp, mode, mdepth, owner>>
        /\ UNCHANGED <<dbg, at, breaks, go, asked, follows>> /\ UNCHANGED <<attached, toProgram>>
    BY DEF Lock, shared, user, ghosts
  <1>1. /\ exit = "no" /\ pc[t] = "locking" /\ holder = {} /\ attached /\ holder' = {t}
        /\ pc' = [pc EXCEPT ![t] = "talking"] /\ \A s \in Tasks : pc[s] \notin Conversing
    BY DEF Lock, At, Alive, Goto, DebugInv, LockFits
  <1>2. toDebugger = << >> /\ toProgram = << >> /\ dbg \in {"reading", "killed"}
    BY <1>1 DEF DebugInv, TypeOK, TurnsFit, ReplyFits
  <1>3. /\ Stop(t) \in Stops /\ toDebugger' = <<Stop(t)>> /\ toDebugger' # << >>
        /\ toDebugger' \in Seq(Stops) /\ Len(toDebugger') = 1 /\ Stop(t)' = Stop(t)
    <2>1. Stop(t) \in Stops /\ toDebugger' = Append(toDebugger, Stop(t))
      BY DEF Stop, Stops, Lock, DebugInv, TypeOK
    <2>2. Stop(t)' = Stop(t)
      BY <1>0 DEF Stop, Depth
    <2> QED
      BY <1>2, <2>1, <2>2, StopPipe
  <1>4. /\ pc' \in [Tasks -> {"unborn", "running", "over", "scan", "compare", "owner", "mode",
                              "depth", "locking", "talking", "table", "go", "godepth", "goowner"}]
        /\ pc'[t] = "talking" /\ \A s \in Tasks \ {t} : pc'[s] = pc[s]
    BY <1>1 DEF DebugInv, TypeOK
  <1>5. TypeOK'
    BY <1>0, <1>1, <1>3, <1>4 DEF DebugInv, TypeOK, Depth
  <1>6. ScanFits'
    BY <1>0, <1>4 DEF DebugInv, ScanFits
  <1>7. LockFits'
    BY <1>0, <1>1, <1>4 DEF LockFits, Conversing
  <1>8. TurnsFit'
    BY <1>0, <1>1, <1>2, <1>3, <1>4 DEF TurnsFit
  <1>9. ReplyFits'
    BY <1>0, <1>2 DEF ReplyFits
  <1>10. WritesFit'
    BY <1>0, <1>1, <1>4 DEF WritesFit
  <1> QED
    BY <1>5, <1>6, <1>7, <1>8, <1>9, <1>10 DEF DebugInv

LEMMA LockBrokenInv ==
  ASSUME DebugInv, NEW t \in Tasks, LockBroken(t)  PROVE DebugInv'
  <1>1. TypeOK' /\ ScanFits'
    BY DEF DebugInv, TypeOK, ScanFits, LockBroken, Depth, taskVars, shared, pipes, user, ghosts
  <1>2. pc' = [pc EXCEPT ![t] = pc[t]] /\ pc[t] = "locking" /\ UNCHANGED taskVars
    BY DEF DebugInv, TypeOK, LockBroken, At, taskVars
  <1>3. LockFits' /\ TurnsFit' /\ ReplyFits' /\ WritesFit'
    BY <1>2, Aside DEF LockBroken, At, Conversing, taskVars
  <1> QED
    BY <1>1, <1>3 DEF DebugInv

LEMMA LockLateInv ==
  ASSUME DebugInv, NEW t \in Tasks, LockLate(t)  PROVE DebugInv'
  <1>1. TypeOK' /\ ScanFits'
    BY DEF DebugInv, TypeOK, ScanFits, LockLate, At, Goto, Depth, shared, pipes, user, ghosts
  <1>2. LockFits' /\ TurnsFit' /\ ReplyFits' /\ WritesFit'
    BY Aside DEF LockLate, At, Goto, Conversing
  <1> QED
    BY <1>1, <1>2 DEF DebugInv

\* What a task in a conversation knows: it is alone, and its reply is there.
LEMMA InConversation ==
  ASSUME DebugInv, NEW t \in Tasks, pc[t] \in Conversing
  PROVE  /\ holder = {t} /\ attached
         /\ \A s \in Tasks \ {t} : pc[s] \notin Conversing
         /\ pc[t] # "talking" => toProgram # << >> /\ Reply.go.kind # "q"
  <1>1. holder = {t} /\ \A s \in Tasks : pc[s] \in Conversing => holder = {s}
    BY DEF DebugInv, LockFits
  <1>2. attached
    BY <1>1 DEF DebugInv, LockFits
  <1>3. pc[t] # "talking" => toProgram # << >> /\ Reply.go.kind # "q"
    BY <1>1 DEF DebugInv, TurnsFit
  <1> QED
    BY <1>1, <1>2, <1>3

\* ... and what the reply says, if it lets the program go on.
LEMMA ReplyOf ==
  ASSUME DebugInv, toProgram # << >>, Reply.go.kind # "q"
  PROVE  /\ toDebugger = << >> /\ dbg \in {"reading", "killed", "done"}
         /\ Reply.breaks = Breaks(breaks) /\ Len(Reply.breaks) = Cardinality(breaks)
         /\ Reply.go = go /\ holder = {follows} /\ asked # NoFrame /\ attached
         /\ breaks \in SUBSET Lines /\ Cardinality(breaks) \in 0..Cardinality(Lines)
  <1>1. toDebugger = << >> /\ dbg \in {"reading", "killed", "done"}
    BY DEF DebugInv, ReplyFits
  <1>2. Reply = [breaks |-> Breaks(breaks), go |-> go] /\ holder = {follows} /\ asked # NoFrame
    BY DEF DebugInv, ReplyFits
  <1>3. breaks \in SUBSET Lines /\ attached
    BY <1>2 DEF DebugInv, TypeOK, LockFits
  <1> QED
    BY <1>1, <1>2, <1>3, BreaksOf

\* Where the table, mode, depth and owner are written, they alone change.
LEMMA WritingInv ==
  ASSUME DebugInv, NEW t \in Tasks, pc[t] \in {"talking", "table", "go", "godepth"},
         NEW p \in {"table", "go", "godepth", "goowner"}, pc' = [pc EXCEPT ![t] = p],
         toProgram # << >>, Reply.go.kind # "q",
         UNCHANGED <<stack, line, seen, left, owner, holder, attached, exit, pipes, user, ghosts>>,
         NEW i \in 0..Cardinality(Lines) + 1, idx' = [idx EXCEPT ![t] = i],
         bps' \in [Table -> Lines \cup {0}], nbp' \in 0..Cardinality(Lines),
         mode' \in Kinds, mdepth' \in 0..MaxDepth,
         WritesFit'
  PROVE  DebugInv'
  <1>0. /\ UNCHANGED <<stack, line>> /\ UNCHANGED <<toDebugger, toProgram>>
        /\ UNCHANGED <<dbg, at, breaks, go, asked, follows>> /\ UNCHANGED <<attached, holder, exit>>
    BY DEF pipes, user
  <1>1. /\ pc' \in [Tasks -> {"unborn", "running", "over", "scan", "compare", "owner", "mode",
                              "depth", "locking", "talking", "table", "go", "godepth", "goowner"}]
        /\ pc'[t] = p /\ \A s \in Tasks \ {t} : pc'[s] = pc[s] /\ idx'[s] = idx[s]
        /\ idx' \in [Tasks -> 0..Cardinality(Lines) + 1]
    BY DEF DebugInv, TypeOK
  <1>2. holder = {t} /\ attached /\ \A s \in Tasks \ {t} : pc[s] \notin Conversing
    BY InConversation DEF Conversing
  <1>3. toDebugger = << >> /\ dbg \in {"reading", "killed", "done"}
    BY ReplyOf
  <1>4. TypeOK'
    BY <1>1 DEF DebugInv, TypeOK, Depth, pipes, user, ghosts
  <1>5. ScanFits'
    BY <1>1 DEF DebugInv, ScanFits
  <1>6. LockFits'
    BY <1>0, <1>1, <1>2 DEF LockFits, Conversing
  <1>7. TurnsFit'
    <2>1. dbg = "done" => exit # "no"
      BY DEF DebugInv, TurnsFit
    <2> QED
      BY <1>0, <1>1, <1>2, <1>3, <2>1 DEF TurnsFit, Reply
  <1>8. ReplyFits'
    BY <1>0 DEF DebugInv, ReplyFits, Reply
  <1> QED
    BY <1>4, <1>5, <1>6, <1>7, <1>8 DEF DebugInv

LEMMA TakeReplyInv ==
  ASSUME DebugInv, NEW t \in Tasks, TakeReply(t)  PROVE DebugInv'
  <1>1. /\ pc[t] = "talking" /\ toProgram # << >> /\ Reply.go.kind # "q"
        /\ pc' = [pc EXCEPT ![t] = "table"] /\ idx' = [idx EXCEPT ![t] = 1]
        /\ UNCHANGED <<stack, line, seen, left, owner, holder, attached, exit, pipes, user, ghosts>>
        /\ UNCHANGED <<bps, nbp, mode, mdepth>>
    BY DEF TakeReply, At, Goto, shared
  <1>2. holder = {t} /\ breaks' = breaks /\ pc'[t] = "table" /\ idx'[t] = 1
        /\ Cardinality(breaks) \in Nat /\ 1 \in 0..Cardinality(Lines) + 1
    <2>1. holder = {t} /\ Cardinality(breaks) \in Nat /\ 1 \in 0..Cardinality(Lines) + 1
      BY <1>1, InConversation, ReplyOf, Numbers DEF Conversing
    <2> QED
      BY <1>1, <2>1 DEF user, DebugInv, TypeOK
  <1>3. WritesFit'
    BY <1>1, <1>2 DEF WritesFit, Written
  <1>4. /\ bps' \in [Table -> Lines \cup {0}] /\ nbp' \in 0..Cardinality(Lines)
        /\ mode' \in Kinds /\ mdepth' \in 0..MaxDepth
    BY <1>1 DEF DebugInv, TypeOK
  <1> QED
    BY <1>1, <1>2, <1>3, <1>4, WritingInv

LEMMA TakeQuitInv ==
  ASSUME DebugInv, NEW t \in Tasks, TakeQuit(t)  PROVE DebugInv'
  <1>1. /\ UNCHANGED <<pc, stack, line, idx, seen, left>> /\ UNCHANGED <<bps, nbp, mode, mdepth, owner>>
        /\ UNCHANGED <<holder, attached, toDebugger, toProgram>>
        /\ UNCHANGED <<dbg, at, breaks, go, asked, follows>> /\ UNCHANGED <<sure, due>>
        /\ exit' = "quit"
    BY DEF TakeQuit, taskVars, shared, pipes, user, ghosts
  <1>2. TypeOK'
    BY <1>1 DEF DebugInv, TypeOK, Depth
  <1>3. ScanFits' /\ LockFits' /\ ReplyFits'
    BY <1>1 DEF DebugInv, ScanFits, LockFits, ReplyFits, Reply
  <1>4. TurnsFit'
    BY <1>1 DEF DebugInv, TurnsFit, Reply, Stop, Depth
  <1>5. WritesFit'
    BY <1>1 DEF DebugInv, WritesFit, Written
  <1> QED
    BY <1>2, <1>3, <1>4, <1>5 DEF DebugInv

LEMMA HangUpInv ==
  ASSUME DebugInv, NEW t \in Tasks, HangUp(t)  PROVE DebugInv'
  <1>0. /\ UNCHANGED <<stack, line, idx>> /\ UNCHANGED <<bps, nbp, mode, mdepth, owner>>
        /\ UNCHANGED <<dbg, at, breaks, go, asked, follows>> /\ UNCHANGED <<toDebugger, toProgram, exit>>
    BY DEF HangUp, shared, user, pipes
  <1>1. /\ pc[t] = "talking" /\ toProgram = << >> /\ dbg = "killed" /\ ~attached' /\ holder' = {}
        /\ pc' = [pc EXCEPT ![t] = "running"]
    BY DEF HangUp, At, Goto
  <1>2. \A s \in Tasks \ {t} : pc[s] \notin Conversing
    BY <1>1, InConversation DEF Conversing
  <1>3. /\ pc' \in [Tasks -> {"unborn", "running", "over", "scan", "compare", "owner", "mode",
                              "depth", "locking", "talking", "table", "go", "godepth", "goowner"}]
        /\ pc'[t] = "running" /\ \A s \in Tasks \ {t} : pc'[s] = pc[s]
    BY <1>1 DEF DebugInv, TypeOK
  <1>4. TypeOK'
    BY <1>0, <1>1, <1>3 DEF HangUp, DebugInv, TypeOK, Depth, shared, user, pipes, ghosts
  <1>5. ScanFits'
    BY <1>0, <1>3 DEF DebugInv, ScanFits
  <1>6. LockFits'
    BY <1>0, <1>1, <1>2, <1>3 DEF LockFits, Conversing
  <1>7. TurnsFit'
    BY <1>0, <1>1 DEF TurnsFit
  <1>8. ReplyFits'
    BY <1>0, <1>1 DEF ReplyFits
  <1>9. WritesFit'
    BY <1>1 DEF WritesFit
  <1> QED
    BY <1>4, <1>5, <1>6, <1>7, <1>8, <1>9 DEF DebugInv

\* A task that reads a reply: what it holds and what has been written so far.
LEMMA Reading ==
  ASSUME DebugInv, NEW t \in Tasks, pc[t] \in {"table", "go", "godepth", "goowner"}
  PROVE  /\ holder = {t} /\ toProgram # << >> /\ Reply.go.kind # "q"
         /\ pc[t] = "table" => /\ idx[t] \in 1..Cardinality(breaks) + 1
                               /\ \A k \in 1..idx[t] - 1 : bps[k] = Breaks(breaks)[k]
         /\ pc[t] # "table" => /\ nbp = Cardinality(breaks)
                               /\ \A k \in 1..nbp : bps[k] = Breaks(breaks)[k]
         /\ pc[t] \in {"godepth", "goowner"} => mode = go.kind
         /\ pc[t] = "goowner" => mdepth = go.depth
  <1>1. holder = {t} /\ toProgram # << >> /\ Reply.go.kind # "q"
    BY InConversation DEF Conversing
  <1>2. WritesFit
    BY DEF DebugInv
  <1> QED
    BY <1>1, <1>2 DEF WritesFit, Written

LEMMA WriteSlotInv ==
  ASSUME DebugInv, NEW t \in Tasks, WriteSlot(t)  PROVE DebugInv'
  <1> DEFINE i == idx[t]
             b == Breaks(breaks)
             n == Cardinality(breaks)
  <1>1. /\ pc[t] = "table" /\ holder = {t} /\ toProgram # << >> /\ Reply.go.kind # "q"
        /\ i \in 1..n + 1 /\ \A k \in 1..i - 1 : bps[k] = b[k]
    BY Reading DEF WriteSlot, At
  <1>2. /\ i <= n /\ bps' = [bps EXCEPT ![i] = b[i]] /\ idx' = [idx EXCEPT ![t] = i + 1]
        /\ n \in 0..Cardinality(Lines) /\ n \in Nat /\ \A k \in 1..n : b[k] \in Lines
        /\ pc' = pc
    <2>1. breaks \in SUBSET Lines /\ Reply.breaks = b /\ Len(Reply.breaks) = n
      BY <1>1, ReplyOf
    <2>2. n \in 0..Cardinality(Lines) /\ \A k \in 1..n : b[k] \in Lines
      BY <2>1, BreaksOf
    <2> QED
      BY <2>1, <2>2, Numbers DEF WriteSlot
  <1>3. /\ UNCHANGED <<stack, line, seen, left, owner, holder, attached, exit, pipes, user, ghosts>>
        /\ UNCHANGED <<nbp, mode, mdepth>> /\ breaks' = breaks /\ holder' = {t}
    BY <1>1 DEF WriteSlot, user
  <1> DEFINE N == Cardinality(Lines)
  <1>4. /\ N \in Nat /\ bps \in [1..N -> Lines \cup {0}] /\ idx \in [Tasks -> 0..N + 1]
        /\ nbp \in 0..N /\ mode \in Kinds /\ mdepth \in 0..MaxDepth
    BY Numbers DEF DebugInv, TypeOK, Table
  <1> HIDE DEF i, b, n, N
  <1>5. i \in 1..N /\ i + 1 \in 0..N + 1 /\ i + 1 \in 1..n + 1 /\ i = (i + 1) - 1
    BY <1>1, <1>2, <1>4 DEF N
  <1>6. bps' \in [1..N -> Lines \cup {0}] /\ idx'[t] = i + 1
    BY <1>1, <1>2, <1>4, <1>5
  <1>7. \A k \in 1..idx'[t] - 1 : bps'[k] = b[k]
    <2> SUFFICES ASSUME NEW k \in 1..i  PROVE bps'[k] = b[k]
      BY <1>5, <1>6
    <2>1. k \in 1..N
      BY <1>4, <1>5
    <2>2. CASE k = i
      BY <1>2, <1>4, <2>1, <2>2
    <2>3. CASE k # i
      <3>1. k \in 1..i - 1
        BY <1>4, <1>5, <2>3
      <3> QED
        BY <1>1, <1>2, <1>4, <2>1, <2>3, <3>1
    <2> QED
      BY <2>2, <2>3
  <1>8. WritesFit'
    BY <1>1, <1>2, <1>3, <1>5, <1>6, <1>7 DEF WritesFit, Written, b, n
  <1>9. pc' = [pc EXCEPT ![t] = "table"]
    BY <1>1, <1>2 DEF DebugInv, TypeOK
  <1> QED
    BY <1>1, <1>2, <1>3, <1>4, <1>5, <1>6, <1>8, <1>9, WritingInv DEF Table, N

LEMMA WriteCountInv ==
  ASSUME DebugInv, NEW t \in Tasks, WriteCount(t)  PROVE DebugInv'
  <1>1. /\ pc[t] = "table" /\ holder = {t} /\ toProgram # << >> /\ Reply.go.kind # "q"
        /\ idx[t] \in 1..Cardinality(breaks) + 1
        /\ \A k \in 1..idx[t] - 1 : bps[k] = Breaks(breaks)[k]
    BY Reading DEF WriteCount, At
  <1>2. idx[t] > Cardinality(breaks) /\ nbp' = Cardinality(breaks)
        /\ Cardinality(breaks) \in 0..Cardinality(Lines) /\ Cardinality(breaks) \in Nat
    BY <1>1, ReplyOf, Numbers DEF WriteCount
  <1>3. /\ UNCHANGED <<stack, line, seen, left, owner, holder, attached, exit, pipes, user, ghosts>>
        /\ UNCHANGED <<bps, mode, mdepth, idx>> /\ breaks' = breaks /\ holder' = {t}
        /\ pc' = [pc EXCEPT ![t] = "go"]
    BY <1>1 DEF WriteCount, user, Goto
  <1>4. pc'[t] = "go" /\ idx' = [idx EXCEPT ![t] = idx[t]]
        /\ idx[t] \in 0..Cardinality(Lines) + 1
    BY <1>3 DEF DebugInv, TypeOK
  <1>5. idx[t] - 1 = Cardinality(breaks)
    BY <1>1, <1>2
  <1>6. WritesFit'
    BY <1>1, <1>2, <1>3, <1>4, <1>5 DEF WritesFit, Written
  <1>7. /\ bps' \in [Table -> Lines \cup {0}]
        /\ mode' \in Kinds /\ mdepth' \in 0..MaxDepth
    BY <1>3 DEF DebugInv, TypeOK
  <1> QED
    BY <1>1, <1>2, <1>3, <1>4, <1>6, <1>7, WritingInv

LEMMA WriteModeInv ==
  ASSUME DebugInv, NEW t \in Tasks, WriteMode(t)  PROVE DebugInv'
  <1>1. /\ pc[t] = "go" /\ holder = {t} /\ toProgram # << >> /\ Reply.go.kind # "q"
        /\ nbp = Cardinality(breaks) /\ \A k \in 1..nbp : bps[k] = Breaks(breaks)[k]
    BY Reading DEF WriteMode, At
  <1>2. mode' = go.kind
    BY <1>1, ReplyOf DEF WriteMode
  <1>3. /\ UNCHANGED <<stack, line, seen, left, owner, holder, attached, exit, pipes, user, ghosts>>
        /\ UNCHANGED <<bps, nbp, mdepth, idx>> /\ UNCHANGED <<breaks, go>> /\ holder' = {t}
        /\ pc' = [pc EXCEPT ![t] = "godepth"]
    BY <1>1 DEF WriteMode, user, Goto
  <1>4. pc'[t] = "godepth" /\ idx' = [idx EXCEPT ![t] = idx[t]]
        /\ idx[t] \in 0..Cardinality(Lines) + 1
    BY <1>3 DEF DebugInv, TypeOK
  <1>5. WritesFit'
    BY <1>1, <1>2, <1>3, <1>4 DEF WritesFit, Written
  <1>6. /\ bps' \in [Table -> Lines \cup {0}] /\ nbp' \in 0..Cardinality(Lines)
        /\ mode' \in Kinds /\ mdepth' \in 0..MaxDepth
    BY <1>2, <1>3 DEF DebugInv, TypeOK, Goes
  <1> QED
    BY <1>1, <1>3, <1>4, <1>5, <1>6, WritingInv

LEMMA WriteDepthInv ==
  ASSUME DebugInv, NEW t \in Tasks, WriteDepth(t)  PROVE DebugInv'
  <1>1. /\ pc[t] = "godepth" /\ holder = {t} /\ toProgram # << >> /\ Reply.go.kind # "q"
        /\ nbp = Cardinality(breaks) /\ \A k \in 1..nbp : bps[k] = Breaks(breaks)[k]
        /\ mode = go.kind
    BY Reading DEF WriteDepth, At
  <1>2. mdepth' = go.depth
    BY <1>1, ReplyOf DEF WriteDepth
  <1>3. /\ UNCHANGED <<stack, line, seen, left, owner, holder, attached, exit, pipes, user, ghosts>>
        /\ UNCHANGED <<bps, nbp, mode, idx>> /\ UNCHANGED <<breaks, go>> /\ holder' = {t}
        /\ pc' = [pc EXCEPT ![t] = "goowner"]
    BY <1>1 DEF WriteDepth, user, Goto
  <1>4. pc'[t] = "goowner" /\ idx' = [idx EXCEPT ![t] = idx[t]]
        /\ idx[t] \in 0..Cardinality(Lines) + 1
    BY <1>3 DEF DebugInv, TypeOK
  <1>5. WritesFit'
    BY <1>1, <1>2, <1>3, <1>4 DEF WritesFit, Written
  <1>6. /\ bps' \in [Table -> Lines \cup {0}] /\ nbp' \in 0..Cardinality(Lines)
        /\ mode' \in Kinds /\ mdepth' \in 0..MaxDepth
    BY <1>2, <1>3 DEF DebugInv, TypeOK, Goes
  <1> QED
    BY <1>1, <1>3, <1>4, <1>5, <1>6, WritingInv

\* The end of a conversation: everything is as the user has decided.
LEMMA WriteOwnerInv ==
  ASSUME DebugInv, NEW t \in Tasks, WriteOwner(t)  PROVE DebugInv'
  <1>1. /\ pc[t] = "goowner" /\ holder = {t} /\ toProgram # << >> /\ Reply.go.kind # "q"
        /\ nbp = Cardinality(breaks) /\ \A k \in 1..nbp : bps[k] = Breaks(breaks)[k]
        /\ mode = go.kind /\ mdepth = go.depth
    BY Reading DEF WriteOwner, At
  <1>2. toDebugger = << >> /\ dbg \in {"reading", "killed"} /\ holder = {follows} /\ attached
    <2>1. exit = "no" /\ (dbg = "done" => exit # "no")
      BY DEF WriteOwner, At, Alive, DebugInv, TurnsFit
    <2> QED
      BY <1>1, <2>1, ReplyOf
  <1>3. /\ UNCHANGED <<stack, line, idx, seen, left>> /\ UNCHANGED <<bps, nbp, mode, mdepth>>
        /\ UNCHANGED <<dbg, at, breaks, go, asked, follows>> /\ UNCHANGED <<attached, toDebugger, exit>>
        /\ UNCHANGED <<sure, due>>
        /\ owner' = t /\ holder' = {} /\ pc' = [pc EXCEPT ![t] = "running"]
    BY DEF WriteOwner, Goto, user, ghosts
  <1>4. toProgram' = << >>
    BY <1>1, ReplyPipe DEF WriteOwner, DebugInv, TypeOK
  <1>5. \A s \in Tasks \ {t} : pc[s] \notin Conversing
    BY <1>1, InConversation DEF Conversing
  <1>6. /\ pc' \in [Tasks -> {"unborn", "running", "over", "scan", "compare", "owner", "mode",
                              "depth", "locking", "talking", "table", "go", "godepth", "goowner"}]
        /\ pc'[t] = "running" /\ \A s \in Tasks \ {t} : pc'[s] = pc[s]
    BY <1>3 DEF DebugInv, TypeOK
  <1>7. TypeOK'
    BY <1>3, <1>4, <1>6, ReplyPipe DEF DebugInv, TypeOK, Depth
  <1>8. ScanFits'
    BY <1>3, <1>6 DEF DebugInv, ScanFits
  <1>9. LockFits'
    BY <1>2, <1>3, <1>5, <1>6 DEF LockFits, Conversing
  <1>10. TurnsFit'
    BY <1>2, <1>3 DEF TurnsFit
  <1>11. ReplyFits'
    BY <1>4 DEF ReplyFits
  <1>12. WritesFit'
    BY <1>1, <1>2, <1>3 DEF WritesFit, Written
  <1> QED
    BY <1>7, <1>8, <1>9, <1>10, <1>11, <1>12 DEF DebugInv

-----------------------------------------------------------------------------
(* The debugger *)

\* Its steps leave the tasks and the shared variables alone.
LEMMA ProgramStays ==
  ASSUME DebugInv, UNCHANGED Program
  PROVE  /\ UNCHANGED <<pc, stack, line, idx, seen, left>> /\ UNCHANGED <<bps, nbp, mode, mdepth, owner>>
         /\ UNCHANGED <<holder, attached, exit>>
         /\ ScanFits' /\ \A t \in Tasks : Stop(t)' = Stop(t)
  <1>1. /\ UNCHANGED <<pc, stack, line, idx, seen, left>> /\ UNCHANGED <<bps, nbp, mode, mdepth, owner>>
        /\ UNCHANGED <<holder, attached, exit>>
    BY DEF Program, taskVars, shared
  <1>2. ScanFits'
    BY <1>1 DEF DebugInv, ScanFits
  <1>3. \A t \in Tasks : Stop(t)' = Stop(t)
    BY <1>1 DEF Stop, Depth
  <1> QED
    BY <1>1, <1>2, <1>3

LEMMA ReceiveInv ==
  ASSUME DebugInv, Receive  PROVE DebugInv'
  <1>1. /\ UNCHANGED <<pc, stack, line, idx, seen, left>> /\ UNCHANGED <<bps, nbp, mode, mdepth, owner>>
        /\ UNCHANGED <<holder, attached, exit>> /\ ScanFits' /\ \A t \in Tasks : Stop(t)' = Stop(t)
        /\ UNCHANGED <<toProgram, breaks, go, asked, follows, sure, due>>
    BY ProgramStays DEF Receive, ghosts
  <1>2. /\ dbg = "reading" /\ toDebugger # << >> /\ dbg' = "stopped"
        /\ at' = Head(toDebugger) /\ toDebugger' = << >>
    BY StopPipe DEF Receive, DebugInv, TypeOK
  <1>3. attached
    BY <1>2 DEF DebugInv, TypeOK, LockFits
  <1>4. PICK t \in Tasks : holder = {t} /\ pc[t] = "talking" /\ toDebugger = <<Stop(t)>>
    <2>1. holder # {} /\ \A t \in holder : pc[t] = "talking" /\ toDebugger = <<Stop(t)>>
      BY <1>2, <1>3 DEF DebugInv, TurnsFit
    <2> QED
      BY <2>1 DEF DebugInv, TypeOK
  <1>5. toProgram = << >> /\ at' = Stop(t)
    <2>1. toProgram = << >>
      BY <1>2, <1>3 DEF DebugInv, TurnsFit
    <2> QED
      BY <1>2, <1>4, <2>1
  <1>6. TypeOK'
    BY <1>1, <1>2, StopPipe, SMTT(40) DEF DebugInv, TypeOK, Depth
  <1>7. LockFits'
    BY <1>1, <1>2, <1>3 DEF DebugInv, LockFits
  <1>8. TurnsFit'
    BY <1>1, <1>2, <1>4, <1>5 DEF TurnsFit
  <1>9. ReplyFits'
    BY <1>1, <1>5 DEF ReplyFits
  <1>10. WritesFit'
    BY <1>1 DEF DebugInv, WritesFit, Written
  <1> QED
    BY <1>1, <1>6, <1>7, <1>8, <1>9, <1>10 DEF DebugInv

\* While the user thinks: who is talking, and that nothing has been written yet.
LEMMA Prompt ==
  ASSUME DebugInv, dbg = "stopped"
  PROVE  /\ toDebugger = << >> /\ toProgram = << >> /\ attached
         /\ \E t \in Tasks : holder = {t} /\ pc[t] = "talking" /\ at = Stop(t)
  <1>1. TurnsFit /\ LockFits
    BY DEF DebugInv
  <1> QED
    BY <1>1 DEF TurnsFit, LockFits, DebugInv, TypeOK

LEMMA ResumeInv ==
  ASSUME DebugInv, NEW g \in Commands, Resume(g)  PROVE DebugInv'
  <1>1. /\ UNCHANGED <<pc, stack, line, idx, seen, left>> /\ UNCHANGED <<bps, nbp, mode, mdepth, owner>>
        /\ UNCHANGED <<holder, attached, exit>> /\ ScanFits' /\ \A t \in Tasks : Stop(t)' = Stop(t)
        /\ UNCHANGED <<toDebugger, at, breaks, sure, due>>
    BY ProgramStays DEF Resume, ghosts
  <1>2. toDebugger = << >> /\ toProgram = << >> /\ attached
    BY Prompt DEF Resume
  <1>3. PICK t \in Tasks : holder = {t} /\ pc[t] = "talking" /\ at = Stop(t)
    BY Prompt DEF Resume
  <1>4. Depth(t) \in 1..MaxDepth /\ stack[t] \in Seq(Frames) /\ at.task = t /\ at.depth = Depth(t)
    BY <1>3 DEF DebugInv, TypeOK, Stop
  <1>5. g \in Goes /\ g.kind # "q" /\ g \in [kind : Kinds \cup {"q"}, depth : 0..MaxDepth]
    <2>1. g \in [kind : Kinds, depth : 0..MaxDepth]
      BY <1>4, Numbers DEF Commands, Go, Kinds
    <2> QED
      BY <2>1 DEF Goes, Kinds
  <1> DEFINE r == [breaks |-> Breaks(breaks), go |-> g]
  <1>6. r \in Replies
    <2>1. Breaks(breaks) \in Seq(Lines)
      BY BreaksOf DEF DebugInv, TypeOK
    <2> QED
      BY <1>5, <2>1 DEF Replies
  <1>7. toProgram' = <<r>> /\ toProgram' # << >> /\ toProgram' \in Seq(Replies) /\ Len(toProgram') = 1
        /\ Head(toProgram') = r
    BY <1>2, <1>6, ReplyPipe DEF Resume
  <1>8. asked' \in Frames /\ asked' # NoFrame /\ follows' = t /\ go' = g /\ dbg' = "reading"
    BY <1>4, Stacks, Numbers DEF Resume, Depth
  <1>9. TypeOK'
    BY <1>1, <1>5, <1>7, <1>8, SMTT(40) DEF DebugInv, TypeOK, Depth
  <1>10. LockFits'
    BY <1>1, <1>2 DEF DebugInv, LockFits
  <1>11. TurnsFit'
    BY <1>1, <1>2, <1>3, <1>7, <1>8 DEF TurnsFit
  <1>12. ReplyFits'
    <2>1. r.go = g /\ breaks' = breaks
      BY <1>1
    <2> QED
      BY <1>1, <1>2, <1>3, <1>5, <1>7, <1>8, <2>1 DEF ReplyFits, Reply
  <1>13. WritesFit'
    BY <1>1, <1>3 DEF WritesFit
  <1> QED
    BY <1>1, <1>9, <1>10, <1>11, <1>12, <1>13 DEF DebugInv

\* The user's list of breakpoints changes only while nothing has been written.
LEMMA ListInv ==
  ASSUME DebugInv, dbg = "stopped", UNCHANGED Program,
         UNCHANGED <<toDebugger, toProgram, dbg, at, go, asked, follows>>,
         breaks' \in SUBSET Lines, sure' \in [Tasks -> BOOLEAN], due' \in [Tasks -> BOOLEAN]
  PROVE  DebugInv'
  <1>1. /\ UNCHANGED <<pc, stack, line, idx, seen, left>> /\ UNCHANGED <<bps, nbp, mode, mdepth, owner>>
        /\ UNCHANGED <<holder, attached, exit>> /\ ScanFits' /\ \A t \in Tasks : Stop(t)' = Stop(t)
    BY ProgramStays
  <1>2. toDebugger = << >> /\ toProgram = << >> /\ attached
    BY Prompt
  <1>3. PICK t \in Tasks : holder = {t} /\ pc[t] = "talking" /\ at = Stop(t)
    BY Prompt
  <1>4. TypeOK'
    BY <1>1 DEF DebugInv, TypeOK, Depth
  <1>5. LockFits'
    BY <1>1, <1>2 DEF DebugInv, LockFits
  <1>6. TurnsFit'
    BY <1>1, <1>2, <1>3 DEF TurnsFit
  <1>7. ReplyFits'
    BY <1>2 DEF ReplyFits
  <1>8. WritesFit'
    BY <1>1, <1>3 DEF WritesFit
  <1> QED
    BY <1>1, <1>4, <1>5, <1>6, <1>7, <1>8 DEF DebugInv

LEMMA SetBreakInv ==
  ASSUME DebugInv, NEW l \in Lines, SetBreak(l)  PROVE DebugInv'
  <1>1. /\ dbg = "stopped" /\ UNCHANGED Program
        /\ UNCHANGED <<toDebugger, toProgram, dbg, at, go, asked, follows>>
    BY DEF SetBreak, pipes
  <1>2. breaks' \in SUBSET Lines
    BY DEF SetBreak, DebugInv, TypeOK
  <1>3. sure' \in [Tasks -> BOOLEAN]
    BY DEF SetBreak, DebugInv, TypeOK
  <1>4. due' \in [Tasks -> BOOLEAN]
    BY Zenon DEF SetBreak, DebugInv, TypeOK
  <1> QED
    BY <1>1, <1>2, <1>3, <1>4, ListInv

LEMMA DeleteBreakInv ==
  ASSUME DebugInv, NEW l \in Lines, DeleteBreak(l)  PROVE DebugInv'
  <1>1. /\ dbg = "stopped" /\ UNCHANGED Program
        /\ UNCHANGED <<toDebugger, toProgram, dbg, at, go, asked, follows>>
    BY DEF DeleteBreak, pipes
  <1>2. breaks' \in SUBSET Lines
    BY DEF DeleteBreak, DebugInv, TypeOK
  <1>3. due' \in [Tasks -> BOOLEAN]
    BY DEF DeleteBreak, DebugInv, TypeOK
  <1>4. sure' \in [Tasks -> BOOLEAN]
    BY Zenon DEF DeleteBreak, DebugInv, TypeOK
  <1> QED
    BY <1>1, <1>2, <1>3, <1>4, ListInv

LEMMA QuitInv ==
  ASSUME DebugInv, Quit  PROVE DebugInv'
  <1>1. /\ UNCHANGED <<pc, stack, line, idx, seen, left>> /\ UNCHANGED <<bps, nbp, mode, mdepth, owner>>
        /\ UNCHANGED <<holder, attached, exit>> /\ ScanFits' /\ \A t \in Tasks : Stop(t)' = Stop(t)
        /\ UNCHANGED <<toDebugger, at, breaks, go, asked, follows, sure, due>> /\ dbg' = "leaving"
    BY ProgramStays DEF Quit, ghosts
  <1>2. toDebugger = << >> /\ toProgram = << >> /\ attached
    BY Prompt DEF Quit
  <1>3. PICK t \in Tasks : holder = {t} /\ pc[t] = "talking" /\ at = Stop(t)
    BY Prompt DEF Quit
  <1> DEFINE r == [breaks |-> << >>, go |-> Go("q", 0)]
  <1>4. r \in Replies /\ r.go.kind = "q"
    BY Numbers DEF Replies, Go
  <1>5. toProgram' = <<r>> /\ toProgram' # << >> /\ toProgram' \in Seq(Replies) /\ Len(toProgram') = 1
        /\ Head(toProgram') = r
    BY <1>2, <1>4, ReplyPipe DEF Quit
  <1>6. TypeOK'
    BY <1>1, <1>5 DEF DebugInv, TypeOK, Depth
  <1>7. LockFits'
    BY <1>1, <1>2 DEF DebugInv, LockFits
  <1>8. TurnsFit'
    BY <1>1, <1>2, <1>3, <1>5 DEF TurnsFit
  <1>9. ReplyFits'
    BY <1>1, <1>2, <1>3, <1>4, <1>5 DEF ReplyFits, Reply
  <1>10. WritesFit'
    BY <1>1, <1>3 DEF WritesFit
  <1> QED
    BY <1>1, <1>6, <1>7, <1>8, <1>9, <1>10 DEF DebugInv

\* The debugger ends, or is killed.
LEMMA GoneInv ==
  ASSUME DebugInv, UNCHANGED Program, sure' \in [Tasks -> BOOLEAN],
         UNCHANGED <<toDebugger, toProgram, at, breaks, go, asked, follows, due>>,
         \/ dbg' = "killed"
         \/ dbg' = "done" /\ exit # "no" /\ ((dbg = "reading" /\ toDebugger = << >>) \/ dbg = "leaving")
  PROVE  DebugInv'
  <1>1. /\ UNCHANGED <<pc, stack, line, idx, seen, left>> /\ UNCHANGED <<bps, nbp, mode, mdepth, owner>>
        /\ UNCHANGED <<holder, attached, exit>> /\ ScanFits' /\ \A t \in Tasks : Stop(t)' = Stop(t)
    BY ProgramStays
  <1>2. TypeOK'
    BY <1>1 DEF DebugInv, TypeOK, Depth
  <1>3. LockFits'
    BY <1>1 DEF DebugInv, LockFits
  <1>4. TurnsFit'
    <2>1. TurnsFit /\ (toProgram # << >> => toDebugger = << >>)
      BY DEF DebugInv, ReplyFits
    <2>2. UNCHANGED <<toDebugger, toProgram, at>> /\ UNCHANGED <<pc, stack, line, holder, attached, exit>>
      BY <1>1
    <2>3. \/ dbg' = "killed"
          \/ dbg' = "done" /\ exit # "no" /\ dbg \notin {"stopped", "killed"} /\ toDebugger = << >>
      BY <2>1 DEF TurnsFit
    <2> QED
      BY <2>1, <2>2, <2>3 DEF TurnsFit, Reply, Stop, Depth
  <1>5. ReplyFits'
    BY <1>1 DEF DebugInv, ReplyFits, Reply
  <1>6. WritesFit'
    BY <1>1 DEF DebugInv, WritesFit, Written
  <1> QED
    BY <1>1, <1>2, <1>3, <1>4, <1>5, <1>6 DEF DebugInv

LEMMA SeeEndInv == ASSUME DebugInv, SeeEnd  PROVE DebugInv'
  <1>1. UNCHANGED <<toDebugger, toProgram, at, breaks, go, asked, follows, due>> /\ sure' = sure
    BY DEF SeeEnd, pipes, ghosts
  <1> QED
    BY <1>1, GoneInv DEF SeeEnd, DebugInv, TypeOK

LEMMA DieInv == ASSUME DebugInv, Die  PROVE DebugInv'
  <1>1. UNCHANGED <<toDebugger, toProgram, at, breaks, go, asked, follows, due>>
    BY DEF Die, pipes
  <1>2. sure' \in [Tasks -> BOOLEAN]
    BY DEF Die
  <1> QED
    BY <1>1, <1>2, GoneInv DEF Die

LEMMA StutterInv == ASSUME DebugInv, UNCHANGED vars  PROVE DebugInv'
  <1>1. UNCHANGED <<taskVars, shared, holder, attached, exit>> /\ UNCHANGED <<pipes, user, ghosts>>
    BY DEF vars
  <1>2. /\ UNCHANGED <<pc, stack, line, idx, seen, left>> /\ UNCHANGED <<bps, nbp, mode, mdepth, owner>>
        /\ UNCHANGED <<holder, attached, exit>> /\ ScanFits' /\ \A t \in Tasks : Stop(t)' = Stop(t)
    BY <1>1, ProgramStays DEF Program
  <1>3. UNCHANGED <<toDebugger, toProgram>> /\ UNCHANGED <<dbg, at, breaks, go, asked, follows, sure, due>>
    BY <1>1 DEF pipes, user, ghosts
  <1>4. TypeOK'
    BY <1>2, <1>3 DEF DebugInv, TypeOK, Depth
  <1>5. LockFits'
    BY <1>2, <1>3 DEF DebugInv, LockFits
  <1>6. TurnsFit'
    <2>1. TurnsFit
      BY DEF DebugInv
    <2> QED
      BY <1>2, <1>3, <2>1 DEF TurnsFit, Reply, Stop, Depth
  <1>7. ReplyFits'
    BY <1>2, <1>3 DEF DebugInv, ReplyFits, Reply
  <1>8. WritesFit'
    BY <1>2, <1>3 DEF DebugInv, WritesFit, Written
  <1> QED
    BY <1>2, <1>4, <1>5, <1>6, <1>7, <1>8 DEF DebugInv

-----------------------------------------------------------------------------

LEMMA InitInv == Init => DebugInv
  <1> SUFFICES ASSUME Init  PROVE DebugInv
    OBVIOUS
  <1>1. <<1>> \in Seq(Frames) /\ Len(<<1>>) = 1
    BY Numbers
  <1>2. TypeOK
    <2>1. left \in [Tasks -> IF MaxHits = Unbounded THEN {Unbounded} ELSE Nat]
      BY NativeDebugAssumption DEF Init, NativeDebugAssumption
    <2>2. bps \in [Table -> Lines \cup {0}] /\ nbp \in 0..Cardinality(Lines)
          /\ idx \in [Tasks -> 0..Cardinality(Lines) + 1] /\ seen \in [Tasks -> 0..1]
      BY Numbers DEF Init
    <2>3. stack \in [Tasks -> Seq(Frames)] /\ \A t \in Tasks : Depth(t) \in 1..MaxDepth
      BY <1>1, Numbers DEF Init, Depth
    <2>4. mode \in Kinds /\ mdepth \in 0..MaxDepth /\ owner \in Tasks /\ go \in Goes /\ follows \in Tasks
      BY Numbers DEF Init, Kinds, Go, Goes
    <2> QED
      BY <2>1, <2>2, <2>3, <2>4, StopPipe, ReplyPipe DEF Init, TypeOK
  <1>3. LockFits /\ ScanFits /\ TurnsFit /\ ReplyFits /\ WritesFit
    BY DEF Init, LockFits, ScanFits, TurnsFit, ReplyFits, WritesFit, Conversing
  <1> QED
    BY <1>2, <1>3 DEF DebugInv

LEMMA NextInv == DebugInv /\ [Next]_vars => DebugInv'
  <1> SUFFICES ASSUME DebugInv, [Next]_vars  PROVE DebugInv'
    OBVIOUS
  <1>1. ASSUME NEW t \in Tasks, Runs(t)  PROVE DebugInv'
    BY <1>1, SpawnInv, CallInv, ReturnInv, EndInv, CrashInv, ReachInv DEF Runs
  <1>2. ASSUME NEW t \in Tasks, Asks(t)  PROVE DebugInv'
    BY <1>2, AsksInv
  <1>3. ASSUME NEW t \in Tasks, Talks(t)  PROVE DebugInv'
    BY <1>3, LockInv, LockBrokenInv, LockLateInv, TakeReplyInv, TakeQuitInv, HangUpInv,
       WriteSlotInv, WriteCountInv, WriteModeInv, WriteDepthInv, WriteOwnerInv DEF Talks
  <1>4. ASSUME Receive \/ Answer \/ SeeEnd \/ Die  PROVE DebugInv'
    BY <1>4, ReceiveInv, ResumeInv, QuitInv, SeeEndInv, DieInv DEF Answer
  <1>5. ASSUME NEW l \in Lines, SetBreak(l) \/ DeleteBreak(l)  PROVE DebugInv'
    BY <1>5, SetBreakInv, DeleteBreakInv
  <1>6. CASE UNCHANGED vars
    BY <1>6, StutterInv
  <1> QED
    BY <1>1, <1>2, <1>3, <1>4, <1>5, <1>6 DEF Next

\* In every behaviour a conversation is in one place and the lock with the task
\* that has it, and what has been written of a reply so far is what it says.
THEOREM Inductive == Spec => []DebugInv
  BY InitInv, NextInv, PTL DEF Spec

\* Between two conversations the table of breakpoints, the mode, the depth and
\* the owner in the program are those that the user has decided on, although
\* they are written one at a time (mi_dbg_stop against wire()).
THEOREM ProgramAgrees == Spec => []Agreement
  <1>1. DebugInv => Agreement
    <2> SUFFICES ASSUME DebugInv, holder = {}, attached, asked # NoFrame
                 PROVE  Known = breaks /\ mode = go.kind /\ mdepth = go.depth /\ owner = follows
      BY DEF Agreement
    <2>1. /\ nbp = Cardinality(breaks) /\ \A k \in 1..nbp : bps[k] = Breaks(breaks)[k]
          /\ mode = go.kind /\ mdepth = go.depth /\ owner = follows
      BY DEF DebugInv, WritesFit, Written
    <2>2. {Breaks(breaks)[k] : k \in 1..Cardinality(breaks)} = breaks
      BY BreaksOf DEF DebugInv, TypeOK
    <2> QED
      BY <2>1, <2>2 DEF Known
  <1> QED
    BY <1>1, Inductive, PTL

\* While the user is asked, the task that is shown stands where it is shown to
\* stand, has the lock, and nothing is on its way.
THEOREM PromptIsTrue == Spec => []ShownIsTrue
  <1>1. DebugInv => ShownIsTrue
    BY Prompt DEF ShownIsTrue, Stop, Depth
  <1> QED
    BY <1>1, Inductive, PTL

\* The two processes never wait for each other: if both pipes are empty and the
\* debugger waits for the program, no task of it waits for the debugger.
THEOREM NoMutualWait == Spec => []NobodyWaitsForNobody
  <1>1. DebugInv => NobodyWaitsForNobody
    <2> SUFFICES ASSUME DebugInv, dbg \in {"reading", "leaving"}, toDebugger = << >>, toProgram = << >>,
                        NEW t \in Tasks, pc[t] = "talking"
                 PROVE  FALSE
      BY DEF NobodyWaitsForNobody
    <2>1. holder = {t}
      BY InConversation DEF Conversing
    <2> QED
      BY <2>1 DEF DebugInv, TurnsFit
  <1> QED
    BY <1>1, Inductive, PTL

-----------------------------------------------------------------------------
(* Refinement: with one task and a debugger that stays, the two processes   *)
(* are Debugger.                                                            *)

\* Where the debugger is follows from where the task is.
LEMMA SoloPlace ==
  ASSUME Tasks = {0}, DebugInv, SoloInv, exit = "no"
  PROVE  /\ attached /\ holder \subseteq {0} /\ owner = 0
         /\ pc[0] \notin Conversing => holder = {} /\ toDebugger = << >> /\ toProgram = << >>
         /\ pc[0] # "talking" => dbg = "reading"
         /\ pc[0] = "talking" /\ toProgram = << >> => dbg # "leaving"
         /\ pc[0] = "talking" /\ toProgram # << >> /\ Reply.go.kind = "q" => dbg = "leaving"
         /\ pc[0] = "talking" /\ toProgram # << >> /\ Reply.go.kind # "q" => dbg = "reading"
  <1>1. attached /\ holder \subseteq {0} /\ owner = 0 /\ dbg # "killed" /\ dbg # "done"
    BY DEF DebugInv, TypeOK, LockFits, TurnsFit, SoloInv
  <1>2. pc[0] \notin Conversing => holder = {}
    BY <1>1 DEF DebugInv, LockFits
  <1>3. pc[0] \notin Conversing => toProgram = << >> /\ toDebugger = << >>
    BY <1>1, <1>2 DEF DebugInv, ReplyFits, TurnsFit
  <1>4. toProgram # << >> => dbg = IF Reply.go.kind = "q" THEN "leaving" ELSE "reading"
    BY <1>1 DEF DebugInv, ReplyFits
  <1>5. toProgram = << >> => dbg # "leaving"
    BY DEF DebugInv, TurnsFit
  <1>6. pc[0] # "talking" => dbg = "reading"
    <2>1. CASE pc[0] \in Conversing /\ pc[0] # "talking"
      <3>1. toProgram # << >> /\ Reply.go.kind # "q"
        BY <2>1, InConversation
      <3> QED
        BY <1>4, <3>1
    <2>2. CASE pc[0] \notin Conversing
      <3>1. dbg # "stopped"
        BY <1>2, <2>2 DEF DebugInv, TurnsFit
      <3> QED
        BY <1>1, <1>3, <1>5, <2>2, <3>1 DEF DebugInv, TypeOK
    <2> QED
      BY <2>1, <2>2
  <1> QED
    BY <1>1, <1>2, <1>3, <1>4, <1>5, <1>6

\* What the abstract debugger is at, case by case.
LEMMA SoloPc ==
  ASSUME Tasks = {0}, DebugInv, SoloInv
  PROVE  /\ exit # "no" => AbstractPc = "over"
         /\ exit = "no" /\ pc[0] \in {"running", "table", "go", "godepth", "goowner", "unborn", "over"}
              => AbstractPc = "running"
         /\ exit = "no" /\ pc[0] \in {"scan", "compare", "owner", "mode", "depth"} => AbstractPc = "asking"
         /\ exit = "no" /\ pc[0] = "locking" => AbstractPc = "stopped"
         /\ exit = "no" /\ pc[0] = "talking" /\ toProgram = << >> => AbstractPc = "stopped"
         /\ exit = "no" /\ pc[0] = "talking" /\ toProgram # << >> /\ Reply.go.kind # "q"
              => AbstractPc = "running"
         /\ exit = "no" /\ pc[0] = "talking" /\ toProgram # << >> /\ Reply.go.kind = "q"
              => AbstractPc = "over"
  BY SoloPlace DEF AbstractPc

\* While the task asks, its table and mode are the debugger's; before the first
\* reply it knows less breakpoints, but steps.
LEMMA SoloMirror ==
  ASSUME Tasks = {0}, DebugInv, SoloInv, exit = "no", pc[0] \notin Conversing
  PROVE  /\ mode = go.kind /\ Known \subseteq breaks
         /\ mode # "s" => Known = breaks /\ mdepth = go.depth
  <1>1. holder = {} /\ attached
    BY SoloPlace
  <1>2. CASE asked = NoFrame
    <2>1. nbp = 0 /\ mode = "s" /\ go.kind = "s"
      BY <1>2 DEF SoloInv, Go
    <2> QED
      BY <2>1 DEF Known
  <1>3. CASE asked # NoFrame
    <2>1. /\ nbp = Cardinality(breaks) /\ \A k \in 1..nbp : bps[k] = Breaks(breaks)[k]
          /\ mode = go.kind /\ mdepth = go.depth
      BY <1>1, <1>3 DEF DebugInv, WritesFit, Written
    <2>2. {Breaks(breaks)[k] : k \in 1..Cardinality(breaks)} = breaks
      BY BreaksOf DEF DebugInv, TypeOK
    <2> QED
      BY <2>1, <2>2 DEF Known
  <1> QED
    BY <1>2, <1>3

\* A step that the user does not see.
LEMMA Hidden ==
  ASSUME AbstractPc' = AbstractPc, UNCHANGED <<stack, line, breaks, go, asked>>
  PROVE  UNCHANGED D!vars
  BY DEF D!vars, AbstractMode

LEMMA SoloInit == ASSUME Tasks = {0}, Init  PROVE SoloInv /\ D!Init
  <1>1. SoloInv
    BY DEF Init, SoloInv
  <1>2. AbstractPc = "running" /\ stack[0] = <<1>> /\ line[0] = 0 /\ breaks \in SUBSET Lines
    BY DEF Init, AbstractPc
  <1>3. AbstractMode = D!Step
    BY DEF Init, AbstractMode, Go, D!Step
  <1> QED
    BY <1>1, <1>2, <1>3 DEF D!Init, Init, NoFrame, D!NoFrame

\* The program's own steps.
LEMMA SoloRuns ==
  ASSUME Tasks = {0}, DebugInv, SoloInv, Runs(0)  PROVE SoloInv' /\ [D!Next]_(D!vars)
  <1>1. CASE Spawn(0)
    BY <1>1 DEF Spawn, At
  <1>2. CASE Call(0)
    <2>1. /\ exit = "no" /\ pc[0] = "running" /\ dbg = "reading"
          /\ UNCHANGED <<pc, line, idx, seen, bps, nbp, mode, exit>> /\ UNCHANGED <<toProgram, dbg, breaks, go, asked>>
          /\ stack' = [stack EXCEPT ![0] = Append(stack[0], Unused(stack[0], asked))] /\ Len(stack[0]) < MaxDepth
      BY <1>2, SoloPlace DEF Call, At, Alive, Depth, shared, pipes, user
    <2>2. SoloInv'
      BY <2>1 DEF SoloInv
    <2>3. AbstractPc = "running" /\ AbstractPc' = "running" /\ AbstractMode' = AbstractMode
      BY <2>1 DEF AbstractPc, AbstractMode
    <2>4. stack'[0] = Append(stack[0], D!Unused(stack[0], asked))
      <3>1. Unused(stack[0], asked) = D!Unused(stack[0], asked)
        BY DEF Unused, D!Unused, Frames, D!Frames, ToSet, D!ToSet
      <3>2. stack'[0] = Append(stack[0], Unused(stack[0], asked))
        BY <2>1 DEF DebugInv, TypeOK
      <3> QED
        BY <3>1, <3>2
    <2>5. D!Call
      BY <2>1, <2>3, <2>4 DEF D!Call, D!Depth
    <2> QED
      BY <2>2, <2>5 DEF D!Next
  <1>3. CASE Return(0)
    <2>1. /\ exit = "no" /\ pc[0] = "running" /\ dbg = "reading"
          /\ UNCHANGED <<pc, line, idx, seen, bps, nbp, mode, exit>> /\ UNCHANGED <<toProgram, dbg, breaks, go, asked>>
          /\ stack' = [stack EXCEPT ![0] = Front(stack[0])] /\ Len(stack[0]) > 1
      BY <1>3, SoloPlace DEF Return, At, Alive, Depth, shared, pipes, user
    <2>2. SoloInv'
      BY <2>1 DEF SoloInv
    <2>3. AbstractPc = "running" /\ AbstractPc' = "running" /\ AbstractMode' = AbstractMode
      BY <2>1 DEF AbstractPc, AbstractMode
    <2>4. stack'[0] = Front(stack[0])
      BY <2>1 DEF DebugInv, TypeOK
    <2>5. D!Return
      BY <2>1, <2>3, <2>4 DEF D!Return, D!Depth, Front, D!Front
    <2> QED
      BY <2>2, <2>5 DEF D!Next
  <1>4. CASE End(0) \/ Crash(0)
    <2>1. /\ exit = "no" /\ pc[0] = "running" /\ dbg = "reading" /\ exit' # "no"
          /\ pc'[0] \in {"running", "over"}
          /\ UNCHANGED <<stack, line, idx, seen, bps, nbp, mode>> /\ UNCHANGED <<toProgram, dbg, breaks, go, asked>>
      BY <1>4, SoloPlace DEF End, Crash, At, Goto, Alive, DebugInv, TypeOK, taskVars, shared, pipes, user
    <2>2. SoloInv'
      BY <2>1 DEF SoloInv
    <2>3. AbstractPc = "running" /\ AbstractPc' = "over" /\ AbstractMode' = AbstractMode
      BY <2>1 DEF AbstractPc, AbstractMode
    <2>4. D!End
      BY <2>1, <2>3 DEF D!End
    <2> QED
      BY <2>2, <2>4 DEF D!Next
  <1>5. ASSUME NEW l \in Lines, Reach(0, l)  PROVE SoloInv' /\ [D!Next]_(D!vars)
    <2>1. /\ exit = "no" /\ pc[0] = "running" /\ dbg = "reading" /\ attached
          /\ UNCHANGED <<stack, seen, bps, nbp, mode, exit>> /\ UNCHANGED <<toProgram, dbg, breaks, go, asked>>
          /\ pc' = [pc EXCEPT ![0] = "scan"] /\ idx' = [idx EXCEPT ![0] = 1]
          /\ line' = [line EXCEPT ![0] = l]
      BY <1>5, SoloPlace DEF Reach, At, Goto, Alive, shared, pipes, user
    <2>2. pc'[0] = "scan" /\ idx'[0] = 1 /\ line'[0] = l
      BY <2>1 DEF DebugInv, TypeOK
    <2>3. SoloInv'
      BY <2>1, <2>2 DEF SoloInv
    <2>4. AbstractPc = "running" /\ AbstractPc' = "asking" /\ AbstractMode' = AbstractMode
      BY <2>1, <2>2 DEF AbstractPc, AbstractMode
    <2>5. D!Reach(l)
      BY <2>1, <2>2, <2>4 DEF D!Reach
    <2> QED
      BY <2>3, <2>5 DEF D!Next
  <1> QED
    BY <1>1, <1>2, <1>3, <1>4, <1>5 DEF Runs

\* The task asks: five reads are one decision.
LEMMA SoloAsks ==
  ASSUME Tasks = {0}, DebugInv, SoloInv, Asks(0)  PROVE SoloInv' /\ [D!Next]_(D!vars)
  <1>1. /\ exit = "no" /\ pc[0] \in {"scan", "compare", "owner", "mode", "depth"} /\ Local
        /\ dbg = "reading" /\ AbstractPc = "asking" /\ holder = {} /\ owner = 0
    <2>1. exit = "no" /\ pc[0] \in {"scan", "compare", "owner", "mode", "depth"} /\ Local
      BY DEF Asks, Scan, Compare, Owner, Mode, MDepth, At, Alive
    <2> QED
      BY <2>1, SoloPlace, SoloPc DEF Conversing
  <1>2. UNCHANGED <<stack, line, bps, nbp, mode, mdepth, exit>> /\ UNCHANGED <<toProgram, dbg, breaks, go, asked>>
    BY <1>1 DEF Local, shared, pipes, user
  <1>3. mode = go.kind /\ Known \subseteq breaks /\ (mode # "s" => Known = breaks /\ mdepth = go.depth)
    BY <1>1, SoloMirror DEF Conversing
  <1>4. /\ Known' = Known /\ AbstractMode' = AbstractMode
        /\ pc'[0] \in {"scan", "compare", "owner", "mode", "depth"} => AbstractPc' = "asking"
        /\ pc'[0] = "locking" => AbstractPc' = "stopped"
        /\ pc'[0] = "running" => AbstractPc' = "running"
    BY <1>1, <1>2 DEF Known, AbstractPc, AbstractMode
  <1>5. AbstractMode.kind = (CASE mode = "s" -> "step" [] mode = "c" -> "continue"
                               [] mode = "n" -> "next" [] mode = "o" -> "out")
        /\ AbstractMode.depth = go.depth
    BY <1>3 DEF AbstractMode
  <1>6. idx[0] \in 0..Cardinality(Lines) + 1 /\ nbp \in 0..Cardinality(Lines) /\ Cardinality(Lines) \in Nat
        /\ mode \in {"s", "n", "o", "c"} /\ Depth(0) \in 1..MaxDepth /\ go.depth \in 0..MaxDepth
        /\ line[0] \in Lines \cup {0}
    BY Numbers DEF DebugInv, TypeOK, Kinds, Goes
  <1>7. ASSUME AbstractPc' = "asking"  PROVE UNCHANGED D!vars
    BY <1>1, <1>2, <1>7, Hidden
  <1>8. ASSUME AbstractPc' = "stopped", D!ShouldStop  PROVE D!Next
    BY <1>1, <1>2, <1>4, <1>8 DEF D!Next, D!Decide
  <1>9. ASSUME AbstractPc' = "running", ~D!ShouldStop  PROVE D!Next
    BY <1>1, <1>2, <1>4, <1>9 DEF D!Next, D!Decide
  <1>10. CASE Scan(0)
    <2>1. pc[0] = "scan" /\ UNCHANGED <<idx, seen>>
          /\ pc'[0] = IF idx[0] <= nbp THEN "compare" ELSE "owner"
      BY <1>10 DEF Scan, At, Goto, DebugInv, TypeOK
    <2>2. \A k \in 1..idx[0] - 1 : bps[k] # line[0]
      BY <2>1 DEF SoloInv
    <2>3. pc'[0] = "owner" => line[0] \notin Known
      BY <1>6, <2>1, <2>2 DEF Known
    <2>4. SoloInv'
      BY <1>1, <1>2, <1>4, <2>1, <2>2, <2>3 DEF SoloInv
    <2> QED
      BY <1>4, <1>7, <2>1, <2>4
  <1>11. CASE Compare(0)
    <2>1. pc[0] = "compare" /\ UNCHANGED seen /\ idx[0] \in 1..nbp
      BY <1>6, <1>11 DEF Compare, At, SoloInv, DebugInv, ScanFits, Table
    <2>2. CASE bps[idx[0]] = line[0]
      <3>1. pc'[0] = "locking"
        BY <1>11, <2>2 DEF Compare, Goto, DebugInv, TypeOK
      <3>2. line[0] \in breaks
        BY <1>3, <2>1, <2>2 DEF Known
      <3>3. D!ShouldStop
        BY <3>2 DEF D!ShouldStop
      <3>4. SoloInv'
        BY <1>1, <1>2, <3>1 DEF SoloInv
      <3> QED
        BY <1>4, <1>8, <3>1, <3>3, <3>4
    <2>3. CASE bps[idx[0]] # line[0]
      <3>1. pc'[0] = "scan" /\ idx'[0] = idx[0] + 1
        BY <1>11, <2>3 DEF Compare, Goto, DebugInv, TypeOK
      <3>2. \A k \in 1..idx[0] : bps[k] # line[0]
        <4>1. \A k \in 1..idx[0] - 1 : bps[k] # line[0]
          BY <2>1 DEF SoloInv
        <4> QED
          BY <1>6, <2>3, <4>1
      <3>3. idx'[0] - 1 = idx[0]
        BY <1>6, <3>1
      <3>4. SoloInv'
        BY <1>1, <1>2, <3>1, <3>2, <3>3 DEF SoloInv
      <3> QED
        BY <1>4, <1>7, <3>1, <3>4
    <2> QED
      BY <2>2, <2>3
  <1>12. CASE Owner(0)
    <2>1. pc[0] = "owner" /\ pc'[0] = "mode" /\ UNCHANGED <<idx, seen>>
      BY <1>1, <1>12 DEF Owner, At, Goto, DebugInv, TypeOK
    <2>2. SoloInv'
      BY <1>1, <1>2, <1>4, <2>1 DEF SoloInv
    <2> QED
      BY <1>4, <1>7, <2>1, <2>2
  <1>13. CASE Mode(0)
    <2>1. /\ pc[0] = "mode" /\ UNCHANGED idx /\ seen'[0] = IF mode = "o" THEN 1 ELSE 0
          /\ pc'[0] = IF mode = "s" THEN "locking" ELSE IF mode = "c" THEN "running" ELSE "depth"
          /\ line[0] \notin Known
      BY <1>13 DEF Mode, At, Goto, DebugInv, TypeOK, SoloInv
    <2>2. SoloInv'
      BY <1>1, <1>2, <1>4, <1>6, <2>1 DEF SoloInv
    <2>3. CASE mode = "s"
      <3>1. D!ShouldStop
        BY <1>5, <2>3 DEF D!ShouldStop, D!StopsAt
      <3> QED
        BY <1>4, <1>8, <2>1, <2>2, <2>3, <3>1
    <2>4. CASE mode = "c"
      <3>1. ~D!ShouldStop
        BY <1>3, <1>5, <2>1, <2>4 DEF D!ShouldStop, D!StopsAt
      <3> QED
        BY <1>4, <1>9, <2>1, <2>2, <2>4, <3>1
    <2>5. CASE mode \in {"n", "o"}
      BY <1>4, <1>7, <2>1, <2>2, <2>5
    <2> QED
      BY <1>6, <2>3, <2>4, <2>5
  <1>14. CASE MDepth(0)
    <2>1. /\ pc[0] = "depth" /\ UNCHANGED <<idx, seen>> /\ mode \in {"n", "o"}
          /\ seen[0] = (IF mode = "o" THEN 1 ELSE 0)
          /\ pc'[0] = (IF Depth(0) + seen[0] <= mdepth THEN "locking" ELSE "running")
          /\ line[0] \notin Known
      BY <1>14 DEF MDepth, At, Goto, DebugInv, TypeOK, SoloInv
    <2>2. SoloInv'
      BY <1>1, <1>2, <2>1 DEF SoloInv
    <2>3. line[0] \notin breaks /\ mdepth = go.depth
      BY <1>3, <2>1
    <2>4. D!ShouldStop <=> Depth(0) + seen[0] <= mdepth
      <3>1. D!Depth = Depth(0)
        BY DEF D!Depth, Depth
      <3>2. CASE mode = "n"
        BY <1>5, <1>6, <2>1, <2>3, <3>1, <3>2, Numbers DEF D!ShouldStop, D!StopsAt
      <3>3. CASE mode = "o"
        BY <1>5, <1>6, <2>1, <2>3, <3>1, <3>3, Numbers DEF D!ShouldStop, D!StopsAt
      <3> QED
        BY <2>1, <3>2, <3>3
    <2>5. CASE D!ShouldStop
      BY <1>4, <1>8, <2>1, <2>2, <2>4, <2>5
    <2>6. CASE ~D!ShouldStop
      BY <1>4, <1>9, <2>1, <2>2, <2>4, <2>6
    <2> QED
      BY <2>5, <2>6
  <1> QED
    BY <1>10, <1>11, <1>12, <1>13, <1>14 DEF Asks

\* The conversation, which the user sees as a stop that goes on for a while.
LEMMA SoloTalks ==
  ASSUME Tasks = {0}, DebugInv, SoloInv, Talks(0)  PROVE SoloInv' /\ [D!Next]_(D!vars)
  <1>1. /\ exit = "no" /\ attached /\ dbg # "killed" /\ UNCHANGED <<stack, line, breaks, go, asked>>
        /\ UNCHANGED dbg
    <2>1. exit = "no" /\ UNCHANGED <<stack, line, breaks, go, asked>> /\ UNCHANGED dbg
      BY DEF Talks, Lock, LockBroken, LockLate, TakeReply, TakeQuit, HangUp, WriteSlot, WriteCount,
             WriteMode, WriteDepth, WriteOwner, At, Alive, taskVars, user
    <2> QED
      BY <2>1, SoloPlace DEF SoloInv
  <1>2. pc[0] # "talking" => dbg = "reading"
    BY <1>1, SoloPlace
  <1>3. ASSUME AbstractPc' = AbstractPc  PROVE UNCHANGED D!vars
    BY <1>1, <1>3, Hidden
  <1>4. CASE Lock(0)
    <2>1. /\ pc[0] = "locking" /\ pc'[0] = "talking" /\ holder = {} /\ toProgram = << >>
          /\ UNCHANGED <<idx, seen, bps, nbp, mode, exit, toProgram>>
      BY <1>1, <1>4, SoloPlace DEF Lock, At, Goto, DebugInv, TypeOK, shared, Conversing
    <2>2. SoloInv'
      BY <1>1, <2>1 DEF SoloInv
    <2>3. AbstractPc' = AbstractPc
      BY <1>1, <1>2, <2>1 DEF AbstractPc
    <2> QED
      BY <1>3, <2>2, <2>3
  <1>5. CASE LockBroken(0) \/ LockLate(0) \/ HangUp(0)
    BY <1>1, <1>5 DEF LockBroken, LockLate, HangUp
  <1>6. CASE TakeReply(0)
    <2>1. /\ pc[0] = "talking" /\ pc'[0] = "table" /\ toProgram # << >> /\ Reply.go.kind # "q"
          /\ UNCHANGED <<seen, bps, nbp, mode, exit, toProgram>>
      BY <1>6 DEF TakeReply, At, Goto, DebugInv, TypeOK, shared, pipes
    <2>2. SoloInv'
      BY <1>1, <2>1 DEF SoloInv
    <2>3. AbstractPc' = AbstractPc
      <3>1. dbg = "reading"
        BY <1>1, <2>1, SoloPlace
      <3> QED
        BY <1>1, <2>1, <3>1 DEF AbstractPc
    <2> QED
      BY <1>3, <2>2, <2>3
  <1>7. CASE TakeQuit(0)
    <2>1. /\ pc[0] = "talking" /\ toProgram # << >> /\ Reply.go.kind = "q" /\ exit' # "no"
          /\ UNCHANGED <<pc, idx, seen, bps, nbp, mode, toProgram>>
      BY <1>7 DEF TakeQuit, At, taskVars, shared, pipes
    <2>2. dbg = "leaving"
      BY <1>1, <2>1, SoloPlace
    <2>3. SoloInv'
      BY <1>1, <2>1, <2>2 DEF SoloInv
    <2>4. AbstractPc' = AbstractPc
      BY <1>1, <2>1, <2>2 DEF AbstractPc
    <2> QED
      BY <1>3, <2>3, <2>4
  <1>8. CASE WriteSlot(0) \/ WriteCount(0) \/ WriteMode(0) \/ WriteDepth(0) \/ WriteOwner(0)
    <2>1. /\ pc[0] \in {"table", "go", "godepth", "goowner"} /\ dbg = "reading"
          /\ pc'[0] \in {"table", "go", "godepth", "goowner", "running"} /\ UNCHANGED exit
      BY <1>2, <1>8 DEF WriteSlot, WriteCount, WriteMode, WriteDepth, WriteOwner, At, Goto, DebugInv, TypeOK
    <2>2. asked # NoFrame
      BY <2>1, Reading, ReplyOf
    <2>3. SoloInv'
      BY <1>1, <2>1, <2>2 DEF SoloInv
    <2>4. AbstractPc' = AbstractPc
      BY <1>1, <2>1 DEF AbstractPc
    <2> QED
      BY <1>3, <2>3, <2>4
  <1> QED
    BY <1>4, <1>5, <1>6, <1>7, <1>8 DEF Talks

\* The user and the debugger.
LEMMA SoloUser ==
  ASSUME Tasks = {0}, ~MayDie, DebugInv, SoloInv,
         \/ Receive \/ Answer \/ SeeEnd \/ Die
         \/ \E l \in Lines : SetBreak(l) \/ DeleteBreak(l)
  PROVE  SoloInv' /\ [D!Next]_(D!vars)
  <1>1. UNCHANGED <<pc, stack, line, idx, seen, bps, nbp, mode>> /\ UNCHANGED <<holder, attached, exit>>
    BY DEF Receive, Answer, Resume, Quit, SeeEnd, Die, SetBreak, DeleteBreak, Program, taskVars, shared
  <1>2. ASSUME dbg = "stopped"
        PROVE  /\ exit = "no" /\ pc[0] = "talking" /\ toProgram = << >> /\ AbstractPc = "stopped"
               /\ at = Stop(0) /\ Depth(0) \in 1..MaxDepth
    <2>1. pc[0] = "talking" /\ toProgram = << >> /\ at = Stop(0)
      BY <1>2, Prompt
    <2>2. exit = "no"
      BY <1>2, <2>1 DEF SoloInv
    <2> QED
      BY <2>1, <2>2, SoloPc DEF DebugInv, TypeOK
  <1>3. CASE Receive
    <2>1. dbg = "reading" /\ dbg' = "stopped" /\ UNCHANGED <<toProgram, breaks, go, asked>>
          /\ toDebugger # << >>
      BY <1>3 DEF Receive
    <2>2. SoloInv'
      BY <1>1, <2>1 DEF SoloInv, Known
    <2>3. AbstractPc' = AbstractPc
      BY <1>1, <2>1 DEF AbstractPc
    <2> QED
      BY <1>1, <2>1, <2>2, <2>3, Hidden
  <1>4. ASSUME NEW g \in Commands, Resume(g)  PROVE SoloInv' /\ [D!Next]_(D!vars)
    <2>1. /\ dbg = "stopped" /\ dbg' = "reading" /\ UNCHANGED breaks /\ go' = g
          /\ asked' = Last(stack[at.task])
          /\ toProgram' = Append(toProgram, [breaks |-> Breaks(breaks), go |-> g])
      BY <1>4 DEF Resume
    <2>2. at.task = 0 /\ at.depth = Depth(0) /\ stack[0] \in Seq(Frames) /\ Len(stack[0]) >= 1
      BY <1>2, <2>1 DEF Stop, DebugInv, TypeOK, Depth
    <2>3. asked' = Last(stack[0]) /\ asked' # NoFrame
      BY <2>1, <2>2, Stacks, Numbers
    <2>4. toProgram' # << >>
      BY <1>2, <2>1
    <2>5. SoloInv'
      BY <1>1, <1>2, <2>1, <2>3 DEF SoloInv, Known
    <2>6. AbstractPc' = "running"
      BY <1>1, <1>2, <2>1, <2>4 DEF AbstractPc
    <2>7. AbstractMode' \in {D!Step, D!Continue, D!StepOver(D!Depth), D!StepOut(D!Depth)}
      BY <2>1, <2>2 DEF AbstractMode, Commands, Go, D!Step, D!Continue, D!StepOver, D!StepOut, D!Depth, Depth
    <2>8. D!Go(AbstractMode')
      BY <1>1, <1>2, <2>1, <2>3, <2>6 DEF D!Go, D!Top, Last, D!Last
    <2>9. D!Next
      BY <2>7, <2>8 DEF D!Next, D!Resume
    <2> QED
      BY <2>5, <2>9
  <1>5. CASE Quit
    <2>1. dbg = "stopped" /\ dbg' = "leaving" /\ UNCHANGED <<breaks, go, asked>>
      BY <1>5 DEF Quit
    <2>2. SoloInv'
      BY <1>1, <2>1 DEF SoloInv, Known
    <2>3. AbstractPc' = "over" /\ AbstractMode' = AbstractMode
      BY <1>1, <2>1 DEF AbstractPc, AbstractMode
    <2>4. D!Quit
      BY <1>1, <1>2, <2>1, <2>3 DEF D!Quit
    <2> QED
      BY <2>2, <2>4 DEF D!Next
  <1>6. CASE SeeEnd
    <2>1. exit # "no" /\ dbg' = "done" /\ UNCHANGED <<breaks, go, asked>>
      BY <1>6 DEF SeeEnd
    <2>2. SoloInv'
      BY <1>1, <2>1 DEF SoloInv, Known
    <2>3. AbstractPc' = AbstractPc
      BY <1>1, <2>1 DEF AbstractPc
    <2> QED
      BY <1>1, <2>1, <2>2, <2>3, Hidden
  <1>7. CASE Die
    BY <1>7 DEF Die
  <1>8. ASSUME NEW l \in Lines, SetBreak(l) \/ DeleteBreak(l)  PROVE SoloInv' /\ [D!Next]_(D!vars)
    <2>1. /\ dbg = "stopped" /\ UNCHANGED <<toProgram, dbg, go, asked>>
          /\ (breaks' = breaks \cup {l} \/ (l \in breaks /\ breaks' = breaks \ {l}))
      BY <1>8 DEF SetBreak, DeleteBreak, pipes
    <2>2. SoloInv'
      BY <1>1, <2>1 DEF SoloInv, Known
    <2>3. AbstractPc' = AbstractPc /\ AbstractMode' = AbstractMode
      BY <1>1, <2>1 DEF AbstractPc, AbstractMode
    <2>4. D!SetBreak(l) \/ D!DeleteBreak(l)
      BY <1>1, <1>2, <2>1, <2>3 DEF D!SetBreak, D!DeleteBreak
    <2> QED
      BY <2>2, <2>4 DEF D!Next
  <1> QED
    BY <1>3, <1>4, <1>5, <1>6, <1>7, <1>8 DEF Answer

LEMMA SoloNext ==
  ASSUME Tasks = {0}, ~MayDie
  PROVE  DebugInv /\ SoloInv /\ [Next]_vars => SoloInv' /\ [D!Next]_(D!vars)
  <1> SUFFICES ASSUME DebugInv, SoloInv, [Next]_vars  PROVE SoloInv' /\ [D!Next]_(D!vars)
    OBVIOUS
  <1>1. CASE UNCHANGED vars
    <2>1. UNCHANGED <<taskVars, shared, holder, attached, exit>> /\ UNCHANGED <<pipes, user, ghosts>>
      BY <1>1 DEF vars
    <2>2. /\ UNCHANGED <<pc, stack, line, idx, seen, bps, nbp, mode>> /\ UNCHANGED exit
          /\ UNCHANGED <<toProgram, dbg, breaks, go, asked>>
      BY <2>1 DEF taskVars, shared, pipes, user
    <2>3. SoloInv'
      BY <2>2 DEF SoloInv, Known
    <2>4. AbstractPc' = AbstractPc
      BY <2>2 DEF AbstractPc
    <2> QED
      BY <2>2, <2>3, <2>4, Hidden
  <1>2. CASE Next
    <2>1. ASSUME NEW t \in Tasks, Runs(t) \/ Asks(t) \/ Talks(t)  PROVE SoloInv' /\ [D!Next]_(D!vars)
      BY <2>1, SoloRuns, SoloAsks, SoloTalks
    <2> QED
      BY <1>2, <2>1, SoloUser DEF Next
  <1> QED
    BY <1>1, <1>2

\* A program with one task, compiled and debugged by two processes, cannot be
\* told from the same program under the interpreter's debugger (rt_dbg.c and
\* run_native against debug_hook), so what is proved of that holds of it too.
THEOREM NativeImplements ==
  ASSUME Tasks = {0}, ~MayDie
  PROVE  Spec => IsDebugger
  <1>1. Init => SoloInv /\ D!Init
    BY SoloInit
  <1>2. DebugInv /\ SoloInv /\ [Next]_vars => SoloInv' /\ [D!Next]_(D!vars)
    BY SoloNext
  <1> QED
    BY <1>1, <1>2, Inductive, PTL DEF Spec, IsDebugger, D!Spec
=============================================================================
