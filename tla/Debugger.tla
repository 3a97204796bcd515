------------------------------ MODULE Debugger ------------------------------
(***************************************************************************)
(* `siskin debug` as its user sees it: debug.rs over a program with one     *)
(* task, which the interpreter runs and asks before every statement         *)
(* (Interp::debug_hook).  NativeDebug implements it with two processes.     *)
(*                                                                         *)
(* The program is any program: at each moment it may call, return or reach  *)
(* a statement.  Functions are told apart by frames, which the debugger     *)
(* does not see: it knows only how deep the stack is.  Commands that only   *)
(* show something change no state, and Enter repeats one of the others.     *)
(***************************************************************************)
EXTENDS Naturals, Sequences, SequencesExt

CONSTANTS Lines,      \* lines with statements
          StdLines,   \* those of the standard library
          MaxDepth    \* bound: calls in progress

ASSUME DebuggerAssumption ==
  /\ Lines \subseteq Nat \ {0} /\ StdLines \subseteq Lines
  /\ MaxDepth \in Nat \ {0}

\* One frame more than can be live, so that a dead one can be remembered.
Frames == 1..MaxDepth + 1
NoFrame == 0
Modes == [kind : {"step", "next", "out", "continue"}, depth : 0..MaxDepth]

VARIABLES pc,       \* "running", "asking", "stopped" or "over"
          stack,    \* the frames of the calls in progress, innermost last
          line,     \* the statement reached last; 0 at first
          breaks,   \* Debugger::breaks
          mode,     \* Debugger::mode
          asked     \* ghost: the frame in which the last command was given

vars == <<pc, stack, line, breaks, mode, asked>>

Depth == Len(stack)
Top == Last(stack)

Step == [kind |-> "step", depth |-> 0]
Continue == [kind |-> "continue", depth |-> 0]
StepOver(d) == [kind |-> "next", depth |-> d]
StepOut(d) == [kind |-> "out", depth |-> d]

\* -b gives breakpoints before the program starts.
Init ==
  /\ pc = "running"
  /\ stack = <<1>>
  /\ line = 0
  /\ breaks \in SUBSET (Lines \ StdLines)
  /\ mode = Step
  /\ asked = NoFrame

-----------------------------------------------------------------------------
(* The program *)

Unused(s, a) == CHOOSE f \in Frames : f \notin ToSet(s) \cup {a}

Call ==
  /\ pc = "running" /\ Depth < MaxDepth
  /\ stack' = Append(stack, Unused(stack, asked))
  /\ UNCHANGED <<pc, line, breaks, mode, asked>>

Return ==
  /\ pc = "running" /\ Depth > 1
  /\ stack' = Front(stack)
  /\ UNCHANGED <<pc, line, breaks, mode, asked>>

End ==
  /\ pc = "running"
  /\ pc' = "over"
  /\ UNCHANGED <<stack, line, breaks, mode, asked>>

Reach(l) ==
  /\ pc = "running"
  /\ pc' = "asking"
  /\ line' = l
  /\ UNCHANGED <<stack, breaks, mode, asked>>

-----------------------------------------------------------------------------
(* debug_hook *)

\* deviations: a call's own depth counts as returned to; only shallower lines
\* are the next line.
StopsAtLoose(m, d) ==
  \/ m.kind = "step"
  \/ m.kind = "next" /\ d <= m.depth
  \/ m.kind = "out" /\ d <= m.depth
StopsAtStrict(m, d) ==
  \/ m.kind = "step"
  \/ m.kind \in {"next", "out"} /\ d < m.depth
StopsAtDeep(m, d) ==
  \/ m.kind \in {"step", "next"}
  \/ m.kind = "out" /\ d < m.depth
StopsAt(m, d) ==
  \/ m.kind = "step"
  \/ m.kind = "next" /\ d <= m.depth
  \/ m.kind = "out" /\ d < m.depth

ShouldStop ==
  /\ line \notin StdLines
  /\ line \in breaks \/ StopsAt(mode, Depth)

Decide ==
  /\ pc = "asking"
  /\ pc' = IF ShouldStop THEN "stopped" ELSE "running"
  /\ UNCHANGED <<stack, line, breaks, mode, asked>>

-----------------------------------------------------------------------------
(* stop_at *)

Go(m) ==
  /\ pc = "stopped"
  /\ pc' = "running"
  /\ mode' = m
  /\ asked' = Top
  /\ UNCHANGED <<stack, line, breaks>>

Resume == \E m \in {Step, Continue, StepOver(Depth), StepOut(Depth)} : Go(m)

SetBreak(l) ==
  /\ pc = "stopped"
  /\ breaks' = breaks \cup {l}
  /\ UNCHANGED <<pc, stack, line, mode, asked>>

DeleteBreak(l) ==
  /\ pc = "stopped" /\ l \in breaks
  /\ breaks' = breaks \ {l}
  /\ UNCHANGED <<pc, stack, line, mode, asked>>

\* `q`, or the end of the terminal's input.
Quit ==
  /\ pc = "stopped"
  /\ pc' = "over"
  /\ UNCHANGED <<stack, line, breaks, mode, asked>>

Next ==
  \/ Call \/ Return \/ End \/ Decide \/ Resume \/ Quit
  \/ \E l \in Lines : Reach(l)
  \/ \E l \in Lines \ StdLines : SetBreak(l) \/ DeleteBreak(l)

Spec == Init /\ [][Next]_vars

-----------------------------------------------------------------------------
(* Properties.  The debugger compares depths; these speak of frames. *)

\* Types; frames stand on the stack once, and no breakpoint is inside the
\* standard library.
TypeOK ==
  /\ pc \in {"running", "asking", "stopped", "over"}
  /\ stack \in Seq(Frames) /\ Depth \in 1..MaxDepth
  /\ IsInjective(stack)
  /\ line \in Lines \cup {0}
  /\ breaks \subseteq Lines \ StdLines
  /\ mode \in Modes
  /\ asked \in Frames \cup {NoFrame}

\* What makes depths as good as frames: the frame in which `n` or `o` was given,
\* while it is on the stack, stands at the depth that the mode compares with.
AskedAtDepth ==
  mode.kind \in {"next", "out"} => \A i \in DOMAIN stack : stack[i] = asked => i = mode.depth

IndInv == TypeOK /\ AskedAtDepth

Stops == pc = "asking" /\ pc' = "stopped"
Passes == pc = "asking" /\ pc' = "running"

\* `n` runs a call in one go: a stop that no breakpoint asks for is never
\* inside a function that the line where `n` was given called, however deep
\* and however often that function recurs (GUIDE 12.3).
NextStaysOut ==
  [][Stops /\ mode.kind = "next" /\ line \notin breaks
       => asked \notin ToSet(Front(stack))]_vars

\* `o` runs until the function returns: a stop that no breakpoint asks for
\* finds that very call gone from the stack.
OutHasReturned ==
  [][Stops /\ mode.kind = "out" /\ line \notin breaks
       => asked \notin ToSet(stack)]_vars

\* Nothing is passed over that should have stopped: neither a breakpoint, nor
\* after `s` any statement, nor after `n` one of the same call.
NothingMissed ==
  [][Passes /\ line \notin StdLines
       => /\ line \notin breaks
          /\ mode.kind # "step"
          /\ mode.kind = "next" => Top # asked]_vars

\* With -b the program "runs until line 12 and stops" (GUIDE.md, 12.3): the
\* first stop is at one of the breakpoints given.
FirstStopIsBreak ==
  [][Stops /\ asked = NoFrame /\ breaks # {} => line \in breaks]_vars
=============================================================================
