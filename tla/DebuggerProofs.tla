--------------------------- MODULE DebuggerProofs ---------------------------
(***************************************************************************)
(* Proofs about Debugger, for any lines, any library lines and any depth of *)
(* calls: comparing depths is as good as knowing the frames.                *)
(***************************************************************************)
EXTENDS Debugger, FiniteSetTheorems, SequenceTheorems, TLAPS

\* A new call finds a frame that is neither on the stack nor the one that is
\* remembered: the stack is shorter than MaxDepth, and there is one frame more.
LEMMA FreeFrame ==
  ASSUME NEW s \in Seq(Frames), Len(s) < MaxDepth, NEW a
  PROVE  Unused(s, a) \in Frames /\ Unused(s, a) \notin ToSet(s) /\ Unused(s, a) # a
  <1> DEFINE D == 1..Len(s)
  <1>1. Len(s) \in Nat /\ s \in [D -> Frames] /\ DOMAIN s = D /\ MaxDepth \in Nat
    BY DebuggerAssumption DEF DebuggerAssumption
  <1>2. IsFiniteSet(D) /\ Cardinality(D) = Len(s)
    <2>1. 1 \in Int /\ Len(s) \in Int
      BY <1>1
    <2>2. IsFiniteSet(1..Len(s)) /\ Cardinality(1..Len(s)) = IF 1 > Len(s) THEN 0 ELSE Len(s) - 1 + 1
      BY <2>1, FS_Interval
    <2> QED
      BY <1>1, <2>2
  <1>3. IsFiniteSet(ToSet(s)) /\ Cardinality(ToSet(s)) <= Len(s) /\ Cardinality(ToSet(s)) \in Nat
    <2>1. s \in Surjection(D, ToSet(s))
      BY <1>1 DEF Surjection, ToSet, Frames
    <2> QED
      BY <2>1, <1>2, FS_Surjection, FS_CardinalityType
  <1>4. /\ IsFiniteSet(ToSet(s) \cup {a})
        /\ Cardinality(ToSet(s) \cup {a}) <= Len(s) + 1
        /\ Cardinality(ToSet(s) \cup {a}) \in Nat
    <2>1. /\ IsFiniteSet(ToSet(s) \cup {a})
          /\ Cardinality(ToSet(s) \cup {a}) =
               IF a \in ToSet(s) THEN Cardinality(ToSet(s)) ELSE Cardinality(ToSet(s)) + 1
      BY <1>3, FS_AddElement
    <2> QED
      BY <1>1, <1>3, <2>1
  <1>5. IsFiniteSet(Frames) /\ Cardinality(Frames) = MaxDepth + 1
    BY <1>1, FS_Interval DEF Frames
  <1>6. \E f \in Frames : f \notin ToSet(s) \cup {a}
    <2>1. SUFFICES ASSUME Frames \subseteq ToSet(s) \cup {a}  PROVE FALSE
      OBVIOUS
    <2>2. Cardinality(Frames) <= Cardinality(ToSet(s) \cup {a})
      BY <1>4, <2>1, FS_Subset
    <2> QED
      BY <1>1, <1>4, <1>5, <2>2
  <1> QED
    BY <1>6 DEF Unused

\* What a call leaves on the stack.
LEMMA Pushed ==
  ASSUME NEW s \in Seq(Frames), IsInjective(s), NEW f \in Frames, f \notin ToSet(s)
  PROVE  /\ Append(s, f) \in Seq(Frames) /\ IsInjective(Append(s, f))
         /\ Len(Append(s, f)) = Len(s) + 1
         /\ \A i \in DOMAIN Append(s, f) : i \in DOMAIN s \/ Append(s, f)[i] = f
         /\ \A i \in DOMAIN s : Append(s, f)[i] = s[i]
  <1>1. /\ Append(s, f) \in Seq(Frames) /\ Len(Append(s, f)) = Len(s) + 1
        /\ Append(s, f)[Len(s) + 1] = f
        /\ \A i \in 1..Len(s) : Append(s, f)[i] = s[i]
    BY AppendProperties
  <1>2. DOMAIN Append(s, f) = 1..Len(s) + 1 /\ DOMAIN s = 1..Len(s) /\ Len(s) \in Nat
    BY <1>1, LenProperties
  <1>3. \A i \in 1..Len(s) : s[i] # f
    BY <1>2 DEF ToSet
  <1>4. IsInjective(Append(s, f))
    BY <1>1, <1>2, <1>3 DEF IsInjective
  <1> QED
    BY <1>1, <1>2, <1>4

\* What a return leaves of it.
LEMMA Popped ==
  ASSUME NEW s \in Seq(Frames), IsInjective(s), Len(s) > 1
  PROVE  /\ Front(s) \in Seq(Frames) /\ IsInjective(Front(s))
         /\ Len(Front(s)) = Len(s) - 1
         /\ \A i \in DOMAIN Front(s) : i \in DOMAIN s /\ Front(s)[i] = s[i]
  <1>1. Len(s) \in Nat /\ DOMAIN s = 1..Len(s) /\ \A i \in 1..Len(s) : s[i] \in Frames
    BY LenProperties, ElementOfSeq
  <1>2. /\ Front(s) \in Seq(Frames) /\ Len(Front(s)) = Len(s) - 1
        /\ \A i \in 1..Len(s) - 1 : Front(s)[i] = s[i]
    BY <1>1, SubSeqProperties DEF Front
  <1>3. DOMAIN Front(s) = 1..Len(s) - 1
    BY <1>2, LenProperties
  <1> QED
    BY <1>1, <1>2, <1>3 DEF IsInjective

-----------------------------------------------------------------------------

LEMMA InitIndInv == Init => IndInv
  <1> SUFFICES ASSUME Init  PROVE IndInv
    OBVIOUS
  <1>1. stack \in Seq(Frames) /\ Len(stack) = 1 /\ IsInjective(stack)
    BY DebuggerAssumption DEF Init, DebuggerAssumption, Frames, IsInjective
  <1>2. Step \in Modes
    BY DebuggerAssumption DEF DebuggerAssumption, Step, Modes
  <1> QED
    BY <1>1, <1>2, DebuggerAssumption
    DEF Init, IndInv, TypeOK, AskedAtDepth, Depth, Step, Frames, DebuggerAssumption

LEMMA CallIndInv ==
  ASSUME IndInv, Call  PROVE IndInv'
  <1> DEFINE f == Unused(stack, asked)
  <1> USE DEF IndInv, TypeOK, Depth
  <1>1. f \in Frames /\ f \notin ToSet(stack) /\ f # asked /\ stack' = Append(stack, f)
    BY FreeFrame DEF Call
  <1> HIDE DEF f
  <1>2. stack' \in Seq(Frames) /\ IsInjective(stack') /\ Len(stack') = Len(stack) + 1
    BY <1>1, Pushed
  <1>3. AskedAtDepth'
    <2>1. \A i \in DOMAIN stack' : stack'[i] = asked => i \in DOMAIN stack /\ stack[i] = asked
      BY <1>1, Pushed
    <2> QED
      BY <2>1 DEF Call, AskedAtDepth
  <1> QED
    BY <1>2, <1>3, DebuggerAssumption DEF Call, DebuggerAssumption

LEMMA ReturnIndInv ==
  ASSUME IndInv, Return  PROVE IndInv'
  <1> USE DEF IndInv, TypeOK, Depth
  <1>1. stack' \in Seq(Frames) /\ IsInjective(stack') /\ Len(stack') = Len(stack) - 1
    BY Popped DEF Return
  <1>2. AskedAtDepth'
    BY Popped DEF Return, AskedAtDepth
  <1> QED
    BY <1>1, <1>2, DebuggerAssumption DEF Return, DebuggerAssumption

LEMMA ResumeIndInv ==
  ASSUME IndInv, Resume  PROVE IndInv'
  <1> USE DEF IndInv, TypeOK, Depth
  <1>1. PICK m \in {Step, Continue, StepOver(Depth), StepOut(Depth)} : Go(m)
    BY DEF Resume
  <1>2. m \in Modes /\ (m.kind \in {"next", "out"} => m.depth = Depth)
    BY DebuggerAssumption DEF Step, Continue, StepOver, StepOut, Modes, DebuggerAssumption
  <1>3. Top \in Frames /\ DOMAIN stack = 1..Len(stack) /\ Top = stack[Depth] /\ Depth \in DOMAIN stack
    BY DEF Top, Last
  <1>4. AskedAtDepth'
    BY <1>1, <1>2, <1>3 DEF Go, AskedAtDepth, IsInjective
  <1> QED
    BY <1>1, <1>2, <1>3, <1>4 DEF Go

LEMMA NextIndInv == IndInv /\ [Next]_vars => IndInv'
  <1> SUFFICES ASSUME IndInv, [Next]_vars  PROVE IndInv'
    OBVIOUS
  <1> USE DEF IndInv, TypeOK, AskedAtDepth, Depth
  <1>1. CASE Call
    BY <1>1, CallIndInv
  <1>2. CASE Return
    BY <1>2, ReturnIndInv
  <1>3. CASE End
    BY <1>3 DEF End
  <1>4. CASE Decide
    BY <1>4 DEF Decide
  <1>5. CASE Resume
    BY <1>5, ResumeIndInv
  <1>6. CASE Quit
    BY <1>6 DEF Quit
  <1>7. ASSUME NEW l \in Lines, Reach(l)  PROVE IndInv'
    BY <1>7 DEF Reach
  <1>8. ASSUME NEW l \in Lines \ StdLines, SetBreak(l) \/ DeleteBreak(l)  PROVE IndInv'
    BY <1>8 DEF SetBreak, DeleteBreak
  <1>9. CASE UNCHANGED vars
    BY <1>9 DEF vars
  <1> QED
    BY <1>1, <1>2, <1>3, <1>4, <1>5, <1>6, <1>7, <1>8, <1>9 DEF Next

\* The depth that `n` and `o` remember is where their frame stands, as long as
\* it is on the stack, for any program and any sequence of commands.
THEOREM Inductive == Spec => []IndInv
  BY InitIndInv, NextIndInv, PTL DEF Spec

\* A stop is a decision to stop, and the other way round.
LEMMA StopIsDecision ==
  ASSUME IndInv, [Next]_vars
  PROVE  /\ Stops => ShouldStop
         /\ Passes => ~ShouldStop
  BY DEF Stops, Passes, Next, vars, Call, Return, End, Decide, Resume, Go, Quit,
         Reach, SetBreak, DeleteBreak

\* `n` never stops inside a function that its line called (NextStaysOut), for
\* any depth and any recursion.
THEOREM NextNeverStopsInside == Spec => NextStaysOut
  <1> DEFINE P == Stops /\ mode.kind = "next" /\ line \notin breaks
                    => asked \notin ToSet(Front(stack))
  <1>1. IndInv /\ [Next]_vars => [P]_vars
    <2> SUFFICES ASSUME IndInv, [Next]_vars, Stops, mode.kind = "next", line \notin breaks
                 PROVE  asked \notin ToSet(Front(stack))
      OBVIOUS
    <2>1. Depth <= mode.depth
      BY StopIsDecision DEF ShouldStop, StopsAt
    <2>2. Len(stack) \in Nat /\ mode.depth \in Nat
      BY DEF IndInv, TypeOK, Modes
    <2>3. SUFFICES ASSUME NEW i \in DOMAIN Front(stack), Front(stack)[i] = asked  PROVE FALSE
      BY DEF ToSet
    <2>4. Len(stack) > 1
      BY <2>2, <2>3 DEF Front, IndInv, TypeOK, Depth
    <2>5. i \in DOMAIN stack /\ stack[i] = asked /\ i < Len(stack)
      BY <2>2, <2>3, <2>4, Popped, LenProperties DEF IndInv, TypeOK
    <2> QED
      BY <2>1, <2>2, <2>5 DEF IndInv, AskedAtDepth, Depth
  <1> QED
    BY <1>1, Inductive, PTL DEF Spec, NextStaysOut

\* `o` stops only when the function in which it was given has returned
\* (OutHasReturned).
THEOREM OutStopsAfterReturn == Spec => OutHasReturned
  <1> DEFINE P == Stops /\ mode.kind = "out" /\ line \notin breaks => asked \notin ToSet(stack)
  <1>1. IndInv /\ [Next]_vars => [P]_vars
    <2> SUFFICES ASSUME IndInv, [Next]_vars, Stops, mode.kind = "out", line \notin breaks
                 PROVE  asked \notin ToSet(stack)
      OBVIOUS
    <2>1. Depth < mode.depth
      BY StopIsDecision DEF ShouldStop, StopsAt
    <2>2. Len(stack) \in Nat /\ DOMAIN stack = 1..Len(stack) /\ mode.depth \in Nat
      BY DEF IndInv, TypeOK, Modes
    <2> QED
      BY <2>1, <2>2 DEF IndInv, AskedAtDepth, Depth, ToSet
  <1> QED
    BY <1>1, Inductive, PTL DEF Spec, OutHasReturned

\* No statement is passed over at which the user would have stopped
\* (NothingMissed): a line of the same call is never deeper than `n` allows.
THEOREM NoStopIsMissed == Spec => NothingMissed
  <1> DEFINE P == Passes /\ line \notin StdLines
                    => /\ line \notin breaks
                       /\ mode.kind # "step"
                       /\ mode.kind = "next" => Top # asked
  <1>1. IndInv /\ [Next]_vars => [P]_vars
    <2> SUFFICES ASSUME IndInv, [Next]_vars, Passes, line \notin StdLines
                 PROVE  /\ line \notin breaks
                        /\ mode.kind # "step"
                        /\ mode.kind = "next" => Top # asked
      OBVIOUS
    <2>1. line \notin breaks /\ ~StopsAt(mode, Depth)
      BY StopIsDecision DEF ShouldStop
    <2>2. Depth \in DOMAIN stack /\ Top = stack[Depth] /\ Depth \in Nat /\ mode.depth \in Nat
      BY DEF IndInv, TypeOK, Modes, Depth, Top, Last
    <2> QED
      BY <2>1, <2>2 DEF StopsAt, IndInv, AskedAtDepth
  <1> QED
    BY <1>1, Inductive, PTL DEF Spec, NothingMissed
=============================================================================
