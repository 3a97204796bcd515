---------------------------- MODULE NativeDebug ----------------------------
(***************************************************************************)
(* `siskin debug` for compiled programs: rt_dbg.c in the program, one       *)
(* thread per task, and run_native of debug.rs in the debugger, with a pipe *)
(* each way.                                                               *)
(*                                                                         *)
(* Each task asks at its statements whether to stop (mi_dbg_hit) and reads  *)
(* the breakpoint table, the mode, the depth and the owner one at a time    *)
(* and without the lock, while a task that was stopped writes them one at a *)
(* time.  The lock covers one conversation (mi_dbg_stop).                   *)
(*                                                                         *)
(* A message is one item of a pipe: a STOP carries line, depth and task, a  *)
(* reply the B line and the G line that are written together.  What is only *)
(* shown (variables, call stack) is left out, and so is the debugger being  *)
(* told to show something.  Breakpoints fit the table of 1024 entries.      *)
(***************************************************************************)
EXTENDS Naturals, Sequences, FiniteSets, SequencesExt

CONSTANTS Tasks,        \* 0 is main
          Lines,        \* lines with statements, which have stop points
          MaxDepth,     \* bound: calls in progress in a task
          MaxHits,      \* bound: statements that a task reaches, or Unbounded
          Unbounded,
          MayDie        \* may the debugger be killed?

Frames == 1..MaxDepth + 1
NoFrame == 0
Kinds == {"s", "n", "o", "c"}
Goes == [kind : Kinds, depth : 0..MaxDepth]
Table == 1..Cardinality(Lines)     \* the slots that can be in use

\* A set of lines as wire() writes it: the BTreeSet from its least line on.
Increasing(q) == \A i, j \in DOMAIN q : i < j => q[i] < q[j]
Breaks(s) == CHOOSE q \in [1..Cardinality(s) -> s] : Increasing(q)

ASSUME NativeDebugAssumption ==
  /\ 0 \in Tasks /\ Tasks \subseteq Nat
  /\ Lines \subseteq Nat \ {0} /\ IsFiniteSet(Lines)
  /\ MaxDepth \in Nat \ {0}
  /\ MaxHits \in Nat \cup {Unbounded}
  /\ MayDie \in BOOLEAN

VARIABLES
  \* in the program
  pc, stack, line,     \* of each task
  idx, seen,           \* of each task: i of the loop, and what was read
  left,                \* hits that are left
  bps, nbp, mode, mdepth, owner,   \* mi_dbg_bps ... mi_dbg_owner
  holder,              \* the task that holds mi_dbg_mu, if any
  attached,            \* mi_dbg_outf # NULL
  exit,                \* how the process ended, or "no"
  \* between the two
  toDebugger, toProgram,
  \* in the debugger
  dbg,                 \* "reading", "stopped", "leaving", "done" or "killed"
  at,                  \* the STOP that is being talked about
  breaks, go,          \* Debugger::breaks and Debugger::mode
  \* ghosts
  asked,               \* the frame in which the last command was given
  follows,             \* the task that was stopped then
  sure,                \* of each task: has its line been a known breakpoint all along?
  due                  \* of each task: has it been a breakpoint at any time?

taskVars == <<pc, stack, line, idx, seen, left>>
shared == <<bps, nbp, mode, mdepth, owner>>
pipes == <<toDebugger, toProgram>>
user == <<dbg, at, breaks, go, asked, follows>>
ghosts == <<sure, due>>
vars == <<taskVars, shared, holder, attached, exit, pipes, user, ghosts>>

NoStop == [line |-> 0, depth |-> 0, task |-> 0]
Go(k, d) == [kind |-> k, depth |-> d]

\* The breakpoints of -b are known to the debugger only: the program learns
\* them with the first reply.
Init ==
  /\ pc = [t \in Tasks |-> IF t = 0 THEN "running" ELSE "unborn"]
  /\ stack = [t \in Tasks |-> <<1>>]
  /\ line = [t \in Tasks |-> 0]
  /\ idx = [t \in Tasks |-> 0]
  /\ seen = [t \in Tasks |-> 0]
  /\ left = [t \in Tasks |-> MaxHits]
  /\ bps = [k \in Table |-> 0] /\ nbp = 0
  /\ mode = "s" /\ mdepth = 0 /\ owner = 0
  /\ holder = {} /\ attached = TRUE /\ exit = "no"
  /\ toDebugger = << >> /\ toProgram = << >>
  /\ dbg = "reading" /\ at = NoStop
  /\ breaks \in SUBSET Lines /\ go = Go("s", 0)
  /\ asked = NoFrame /\ follows = 0
  /\ sure = [t \in Tasks |-> FALSE] /\ due = [t \in Tasks |-> FALSE]

-----------------------------------------------------------------------------
(* The program's tasks *)

Alive == exit = "no"
At(t, label) == Alive /\ pc[t] = label
Goto(t, label) == pc' = [pc EXCEPT ![t] = label]
Depth(t) == Len(stack[t])

Unused(s, f) == CHOOSE g \in Frames : g \notin ToSet(s) \cup {f}

\* A task starts with depth 0 and a function of its own.
Spawn(t) ==
  /\ At(t, "unborn")
  /\ \E s \in Tasks : pc[s] = "running"
  /\ Goto(t, "running")
  /\ UNCHANGED <<stack, line, idx, seen, left, shared, holder, attached, exit, pipes, user, ghosts>>

\* mi_dbg_enter and mi_dbg_leave.
Call(t) ==
  /\ At(t, "running") /\ Depth(t) < MaxDepth
  /\ stack' = [stack EXCEPT ![t] = Append(@, Unused(@, asked))]
  /\ UNCHANGED <<pc, line, idx, seen, left, shared, holder, attached, exit, pipes, user, ghosts>>

Return(t) ==
  /\ At(t, "running") /\ Depth(t) > 1
  /\ stack' = [stack EXCEPT ![t] = Front(@)]
  /\ UNCHANGED <<pc, line, idx, seen, left, shared, holder, attached, exit, pipes, user, ghosts>>

\* The end of a task.  Main waits for the others, and its end is the program's.
End(t) ==
  /\ At(t, "running")
  /\ t = 0 => \A s \in Tasks \ {0} : pc[s] \in {"unborn", "over"}
  /\ Goto(t, "over")
  /\ exit' = IF t = 0 THEN "end" ELSE "no"
  /\ UNCHANGED <<stack, line, idx, seen, left, shared, holder, attached, pipes, user, ghosts>>

\* A runtime error ends the process, whatever its other tasks are at.
Crash(t) ==
  /\ At(t, "running")
  /\ exit' = "error"
  /\ UNCHANGED <<taskVars, shared, holder, attached, pipes, user, ghosts>>

-----------------------------------------------------------------------------
(* mi_dbg_hit: may task t go on, or must it stop?  One read is one step. *)

\* The breakpoints that the program has been told of.
Known == {bps[k] : k \in 1..nbp}

\* Here sure[t] says that l is a breakpoint and that the program knows it.
Reach(t, l) ==
  /\ At(t, "running") /\ left[t] # 0
  /\ line' = [line EXCEPT ![t] = l]
  /\ left' = IF MaxHits = Unbounded THEN left ELSE [left EXCEPT ![t] = @ - 1]
  /\ IF attached THEN Goto(t, "scan") /\ idx' = [idx EXCEPT ![t] = 1]
                 ELSE UNCHANGED <<pc, idx>>
  /\ sure' = [sure EXCEPT ![t] = /\ attached /\ holder = {}
                                 /\ asked # NoFrame /\ l \in breaks]
  /\ due' = [due EXCEPT ![t] = l \in breaks \cup Known]
  /\ UNCHANGED <<stack, seen, shared, holder, attached, exit, pipes, user>>

Local == UNCHANGED <<stack, line, left, shared, holder, attached, exit, pipes, user, ghosts>>

Scan(t) ==
  /\ At(t, "scan")
  /\ Goto(t, IF idx[t] <= nbp THEN "compare" ELSE "owner")
  /\ UNCHANGED <<idx, seen>> /\ Local

Compare(t) ==
  /\ At(t, "compare")
  /\ IF bps[idx[t]] = line[t] THEN Goto(t, "locking") /\ UNCHANGED idx
     ELSE Goto(t, "scan") /\ idx' = [idx EXCEPT ![t] = @ + 1]
  /\ UNCHANGED seen /\ Local

Owner(t) ==
  /\ At(t, "owner")
  /\ Goto(t, IF t = owner THEN "mode" ELSE "running")
  /\ UNCHANGED <<idx, seen>> /\ Local

Mode(t) ==
  /\ At(t, "mode")
  /\ Goto(t, IF mode = "s" THEN "locking" ELSE IF mode = "c" THEN "running" ELSE "depth")
  /\ seen' = [seen EXCEPT ![t] = IF mode = "o" THEN 1 ELSE 0]
  /\ UNCHANGED idx /\ Local

\* seen[t] = 1 says that the mode was "o": one depth less.
\* deviation: `o` stops at the depth it was given at.
MDepthLoose(t) ==
  /\ At(t, "depth")
  /\ Goto(t, IF Depth(t) <= mdepth THEN "locking" ELSE "running")
  /\ UNCHANGED <<idx, seen>> /\ Local
MDepth(t) ==
  /\ At(t, "depth")
  /\ Goto(t, IF Depth(t) + seen[t] <= mdepth THEN "locking" ELSE "running")
  /\ UNCHANGED <<idx, seen>> /\ Local

-----------------------------------------------------------------------------
(* mi_dbg_stop: the conversation, under the lock *)

\* deviation: the lock is not waited for.
LockAny(t) ==
  /\ At(t, "locking") /\ attached
  /\ holder' = {t}
  /\ Goto(t, "talking")
  /\ toDebugger' = Append(toDebugger, [line |-> line[t], depth |-> Depth(t), task |-> t])
  /\ UNCHANGED <<stack, line, idx, seen, left, shared, attached, exit, toProgram, user, ghosts>>

\* The STOP is written, if there is still somebody who can read it ...
Lock(t) ==
  /\ At(t, "locking") /\ holder = {} /\ attached
  /\ holder' = {t}
  /\ Goto(t, "talking")
  /\ toDebugger' = Append(toDebugger, [line |-> line[t], depth |-> Depth(t), task |-> t])
  /\ UNCHANGED <<stack, line, idx, seen, left, shared, attached, exit, toProgram, user, ghosts>>

\* ... and if not, the program dies of SIGPIPE, unless it used std.net, which
\* ignores that signal.
LockBroken(t) ==
  /\ At(t, "locking") /\ holder = {} /\ attached /\ dbg = "killed"
  /\ exit' = "sigpipe"
  /\ UNCHANGED <<taskVars, shared, holder, attached, pipes, user, ghosts>>

\* Another task found out that the debugger is gone.
LockLate(t) ==
  /\ At(t, "locking") /\ holder = {} /\ ~attached
  /\ Goto(t, "running")
  /\ UNCHANGED <<stack, line, idx, seen, left, shared, holder, attached, exit, pipes, user, ghosts>>

Reply == Head(toProgram)

TakeReply(t) ==
  /\ At(t, "talking") /\ toProgram # << >> /\ Reply.go.kind # "q"
  /\ Goto(t, "table")
  /\ idx' = [idx EXCEPT ![t] = 1]
  /\ UNCHANGED <<stack, line, seen, left, shared, holder, attached, exit, pipes, user, ghosts>>

TakeQuit(t) ==
  /\ At(t, "talking") /\ toProgram # << >> /\ Reply.go.kind = "q"
  /\ exit' = "quit"
  /\ UNCHANGED <<taskVars, shared, holder, attached, pipes, user, ghosts>>

\* The end of the pipe: "Run to the end without stopping."
\* deviation: the lock is not given back.
HangUpKeepingLock(t) ==
  /\ At(t, "talking") /\ toProgram = << >> /\ dbg = "killed"
  /\ attached' = FALSE
  /\ Goto(t, "running")
  /\ UNCHANGED <<stack, line, idx, seen, left, shared, holder, exit, pipes, user, ghosts>>
HangUp(t) ==
  /\ At(t, "talking") /\ toProgram = << >> /\ dbg = "killed"
  /\ attached' = FALSE
  /\ holder' = {}
  /\ Goto(t, "running")
  /\ UNCHANGED <<stack, line, idx, seen, left, shared, exit, pipes, user, ghosts>>

WriteSlot(t) ==
  /\ At(t, "table") /\ idx[t] <= Len(Reply.breaks)
  /\ bps' = [bps EXCEPT ![idx[t]] = Reply.breaks[idx[t]]]
  /\ idx' = [idx EXCEPT ![t] = @ + 1]
  /\ UNCHANGED <<pc, stack, line, seen, left, nbp, mode, mdepth, owner, holder, attached, exit, pipes, user, ghosts>>

WriteCount(t) ==
  /\ At(t, "table") /\ idx[t] > Len(Reply.breaks)
  /\ nbp' = Len(Reply.breaks)
  /\ Goto(t, "go")
  /\ UNCHANGED <<stack, line, idx, seen, left, bps, mode, mdepth, owner, holder, attached, exit, pipes, user, ghosts>>

WriteMode(t) ==
  /\ At(t, "go")
  /\ mode' = Reply.go.kind
  /\ Goto(t, "godepth")
  /\ UNCHANGED <<stack, line, idx, seen, left, bps, nbp, mdepth, owner, holder, attached, exit, pipes, user, ghosts>>

WriteDepth(t) ==
  /\ At(t, "godepth")
  /\ mdepth' = Reply.go.depth
  /\ Goto(t, "goowner")
  /\ UNCHANGED <<stack, line, idx, seen, left, bps, nbp, mode, owner, holder, attached, exit, pipes, user, ghosts>>

\* deviation: the owner stays who it was.
WriteNoOwner(t) ==
  /\ At(t, "goowner")
  /\ holder' = {}
  /\ toProgram' = Tail(toProgram)
  /\ Goto(t, "running")
  /\ UNCHANGED <<stack, line, idx, seen, left, shared, attached, exit, toDebugger, user, ghosts>>
WriteOwner(t) ==
  /\ At(t, "goowner")
  /\ owner' = t
  /\ holder' = {}
  /\ toProgram' = Tail(toProgram)
  /\ Goto(t, "running")
  /\ UNCHANGED <<stack, line, idx, seen, left, bps, nbp, mode, mdepth, attached, exit, toDebugger, user, ghosts>>

-----------------------------------------------------------------------------
(* run_native and stop_at, in the debugger *)

Program == <<taskVars, shared, holder, attached, exit>>

Receive ==
  /\ dbg = "reading" /\ toDebugger # << >>
  /\ at' = Head(toDebugger)
  /\ toDebugger' = Tail(toDebugger)
  /\ dbg' = "stopped"
  /\ UNCHANGED <<Program, toProgram, breaks, go, asked, follows, ghosts>>

\* wire(): every breakpoint and the new mode.  If the program has ended
\* meanwhile nobody reads it, and the debugger ends too.
Resume(g) ==
  /\ dbg = "stopped"
  /\ go' = g
  /\ asked' = Last(stack[at.task])
  /\ follows' = at.task
  /\ toProgram' = Append(toProgram, [breaks |-> Breaks(breaks), go |-> g])
  /\ dbg' = "reading"
  /\ UNCHANGED <<Program, toDebugger, at, breaks, ghosts>>

Commands == {Go("s", 0), Go("c", 0), Go("n", at.depth), Go("o", at.depth)}

SetBreak(l) ==
  /\ dbg = "stopped"
  /\ breaks' = breaks \cup {l}
  /\ due' = [t \in Tasks |-> due[t] \/ line[t] = l]
  /\ UNCHANGED <<Program, pipes, dbg, at, go, asked, follows, sure>>

DeleteBreak(l) ==
  /\ dbg = "stopped" /\ l \in breaks
  /\ breaks' = breaks \ {l}
  /\ sure' = [t \in Tasks |-> sure[t] /\ line[t] # l]
  /\ UNCHANGED <<Program, pipes, dbg, at, go, asked, follows, due>>

Quit ==
  /\ dbg = "stopped"
  /\ toProgram' = Append(toProgram, [breaks |-> << >>, go |-> Go("q", 0)])
  /\ dbg' = "leaving"
  /\ UNCHANGED <<Program, toDebugger, at, breaks, go, asked, follows, ghosts>>

\* child.wait: the pipe has ended and the program too.
SeeEnd ==
  /\ dbg \in {"reading", "leaving"}
  /\ toDebugger = << >> \/ dbg = "leaving"
  /\ exit # "no"
  /\ dbg' = "done"
  /\ UNCHANGED <<Program, pipes, at, breaks, go, asked, follows, ghosts>>

\* The debugger is killed, and with it the reader of toDebugger.
Die ==
  /\ MayDie /\ dbg \in {"reading", "stopped", "leaving"}
  /\ dbg' = "killed"
  /\ sure' = [t \in Tasks |-> FALSE]
  /\ UNCHANGED <<Program, pipes, at, breaks, go, asked, follows, due>>

Asks(t) == Scan(t) \/ Compare(t) \/ Owner(t) \/ Mode(t) \/ MDepth(t)

Talks(t) ==
  \/ Lock(t) \/ LockBroken(t) \/ LockLate(t) \/ TakeReply(t) \/ TakeQuit(t) \/ HangUp(t)
  \/ WriteSlot(t) \/ WriteCount(t) \/ WriteMode(t) \/ WriteDepth(t) \/ WriteOwner(t)

Runs(t) ==
  \/ Spawn(t) \/ Call(t) \/ Return(t) \/ End(t) \/ Crash(t)
  \/ \E l \in Lines : Reach(t, l)

Answer == Quit \/ \E g \in Commands : Resume(g)

Next ==
  \/ \E t \in Tasks : Runs(t) \/ Asks(t) \/ Talks(t)
  \/ Receive \/ Answer \/ SeeEnd \/ Die
  \/ \E l \in Lines : SetBreak(l) \/ DeleteBreak(l)

Spec == Init /\ [][Next]_vars

\* Threads run, a task that has run its course returns, run_native goes on
\* reading, and the user answers in the end.  The lock is not fair: a bound on
\* the statements reached makes that enough.
FairSpec ==
  /\ Spec
  /\ \A t \in Tasks : WF_vars(Asks(t) \/ Talks(t) \/ End(t))
  /\ WF_vars(Receive) /\ WF_vars(SeeEnd) /\ WF_vars(Answer)

-----------------------------------------------------------------------------
(* Properties *)

Stop(t) == [line |-> line[t], depth |-> Depth(t), task |-> t]
Stops == [line : Lines \cup {0}, depth : 1..MaxDepth, task : Tasks]
Replies == [breaks : Seq(Lines), go : [kind : Kinds \cup {"q"}, depth : 0..MaxDepth]]

\* Types; the table of breakpoints is not overrun, and one task at most has
\* the lock.
TypeOK ==
  /\ pc \in [Tasks -> {"unborn", "running", "over", "scan", "compare", "owner", "mode",
                       "depth", "locking", "talking", "table", "go", "godepth", "goowner"}]
  /\ stack \in [Tasks -> Seq(Frames)] /\ \A t \in Tasks : Depth(t) \in 1..MaxDepth
  /\ left \in [Tasks -> IF MaxHits = Unbounded THEN {Unbounded} ELSE Nat]
  /\ line \in [Tasks -> Lines \cup {0}]
  /\ idx \in [Tasks -> 0..Cardinality(Lines) + 1] /\ seen \in [Tasks -> 0..1]
  /\ bps \in [Table -> Lines \cup {0}] /\ nbp \in 0..Cardinality(Lines)
  /\ mode \in Kinds /\ mdepth \in 0..MaxDepth /\ owner \in Tasks
  /\ holder \in {{}} \cup {{t} : t \in Tasks} /\ attached \in BOOLEAN
  /\ exit \in {"no", "end", "error", "quit", "sigpipe"}
  /\ toDebugger \in Seq(Stops) /\ Len(toDebugger) <= 1
  /\ toProgram \in Seq(Replies) /\ Len(toProgram) <= 1
  /\ dbg \in {"reading", "stopped", "leaving", "done", "killed"}
  /\ breaks \subseteq Lines /\ go \in Goes
  /\ asked \in Frames \cup {NoFrame} /\ follows \in Tasks
  /\ sure \in [Tasks -> BOOLEAN] /\ due \in [Tasks -> BOOLEAN]

\* Between conversations the program does what the user asked: its breakpoint
\* table, mode, depth and owner, written one at a time, are those of the
\* debugger (rt_dbg.c against debug.rs).
Agreement ==
  holder = {} /\ attached /\ asked # NoFrame =>
    /\ Known = breaks
    /\ mode = go.kind /\ mdepth = go.depth
    /\ owner = follows

\* What the prompt shows is where the program is: while the user thinks, the
\* task that is shown stands at that line and depth, and nobody else talks.
ShownIsTrue ==
  dbg = "stopped" /\ exit = "no" =>
    /\ pc[at.task] = "talking" /\ holder = {at.task}
    /\ line[at.task] = at.line /\ Depth(at.task) = at.depth
    /\ toDebugger = << >> /\ toProgram = << >>

\* The program and the debugger never wait for each other's next message.
NobodyWaitsForNobody ==
  exit = "no" /\ dbg \in {"reading", "leaving"} /\ toDebugger = << >> /\ toProgram = << >>
    => \A t \in Tasks : pc[t] # "talking"

\* A program that ends is not kept from it by its debugger, whether the user
\* answers or the debugger is killed at any point; and the debugger ends too.
Ends == <>(exit # "no" /\ dbg \in {"done", "killed"})

Begin(t) == dbg = "reading" /\ dbg' = "stopped" /\ at'.task = t

\* "other tasks stop only at breakpoints (`b`)" (GUIDE.md 12.3): the task that
\* stops is the one that was being followed, or its line has been a breakpoint,
\* for the user or for the program, since it got there.
OthersStopAtBreaks ==
  [][\A t \in Tasks : Begin(t) => t = follows \/ due[t]]_vars

\* "`c`: Continue until a breakpoint" (GUIDE.md 12.3): no task runs past a line
\* that is a breakpoint, was one when it got there, and that the program knows.
KnownBreakStops ==
  [][\A t \in Tasks : pc[t] = "scan" /\ pc'[t] = "owner" => ~sure[t]]_vars

-----------------------------------------------------------------------------
(* With one task and a debugger that stays, the two processes are one
   debugger: what the user has decided counts as done, whatever is still on
   its way. *)

AbstractPc ==
  IF exit # "no" \/ dbg = "leaving" THEN "over"
  ELSE IF pc[0] \in {"scan", "compare", "owner", "mode", "depth"} THEN "asking"
  ELSE IF pc[0] = "locking" \/ (pc[0] = "talking" /\ toProgram = << >>) THEN "stopped"
  ELSE "running"

AbstractMode ==
  [kind |-> CASE go.kind = "s" -> "step" [] go.kind = "c" -> "continue"
              [] go.kind = "n" -> "next" [] go.kind = "o" -> "out",
   depth |-> go.depth]

D == INSTANCE Debugger WITH
       StdLines <- {}, pc <- AbstractPc, stack <- stack[0], line <- line[0], mode <- AbstractMode

\* The native debugger is the interpreter's debugger.
IsDebugger == D!Spec

-----------------------------------------------------------------------------
(* The inductive invariant (NativeDebugProofs) *)

Conversing == {"talking", "table", "go", "godepth", "goowner"}

\* Whoever is in a conversation holds the lock, and only he; a program that has
\* let go of its debugger has no conversations.
LockFits ==
  /\ \A t \in Tasks : pc[t] \in Conversing => holder = {t}
  /\ \A t \in holder : pc[t] \in Conversing
  /\ ~attached => holder = {} /\ dbg = "killed"

\* In the loop over the table the index is one of the table's.
ScanFits ==
  \A t \in Tasks : /\ pc[t] = "scan" => idx[t] # 0
                   /\ pc[t] = "compare" => idx[t] \in Table

\* A conversation is in one place: a STOP on its way, a prompt, or a reply on
\* its way, unless the debugger is gone.
TurnsFit ==
  /\ attached /\ toDebugger # << >> =>
       /\ dbg \in {"reading", "killed"} /\ toProgram = << >> /\ holder # {}
       /\ \A t \in holder : pc[t] = "talking" /\ toDebugger = <<Stop(t)>>
  /\ dbg = "stopped" =>
       /\ toDebugger = << >> /\ toProgram = << >>
       /\ \E t \in Tasks : holder = {t} /\ pc[t] = "talking" /\ at = Stop(t)
  /\ dbg = "leaving" => toProgram # << >>
  /\ dbg = "done" => exit # "no"
  /\ \A t \in holder :
       /\ pc[t] = "talking" /\ toDebugger = << >> /\ toProgram = << >> => dbg \in {"stopped", "killed"}
       /\ pc[t] # "talking" => toProgram # << >> /\ Reply.go.kind # "q"

\* A reply is what the user has decided, for the task that was stopped.
ReplyFits ==
  toProgram # << >> =>
    /\ toDebugger = << >> /\ holder # {}
    /\ IF Reply.go.kind = "q" THEN dbg \in {"leaving", "killed", "done"}
       ELSE /\ dbg \in {"reading", "killed", "done"}
            /\ Reply = [breaks |-> Breaks(breaks), go |-> go]
            /\ holder = {follows} /\ asked # NoFrame

\* What is written of the table, the mode and the depth so far.
Written(n) == \A k \in 1..n : bps[k] = Breaks(breaks)[k]
WritesFit ==
  /\ \A t \in holder :
       /\ pc[t] = "table" => /\ idx[t] \in 1..Cardinality(breaks) + 1
                             /\ Written(idx[t] - 1)
       /\ pc[t] \in {"go", "godepth", "goowner"} => nbp = Cardinality(breaks) /\ Written(nbp)
       /\ pc[t] \in {"godepth", "goowner"} => mode = go.kind
       /\ pc[t] = "goowner" => mdepth = go.depth
  /\ holder = {} /\ attached /\ asked # NoFrame =>
       /\ nbp = Cardinality(breaks) /\ Written(nbp)
       /\ mode = go.kind /\ mdepth = go.depth /\ owner = follows

DebugInv == TypeOK /\ LockFits /\ ScanFits /\ TurnsFit /\ ReplyFits /\ WritesFit

\* With one task and a debugger that stays nothing changes while the task asks:
\* what it has found out so far is still true.  Until the first reply the program
\* knows no breakpoints, but steps.
SoloInv ==
  /\ dbg # "killed"
  /\ asked = NoFrame => nbp = 0 /\ mode = "s" /\ go = Go("s", 0)
  /\ pc[0] = "compare" => idx[0] <= nbp
  /\ pc[0] \in {"scan", "compare"} => \A k \in 1..idx[0] - 1 : bps[k] # line[0]
  /\ pc[0] \in {"owner", "mode", "depth"} => line[0] \notin Known
  /\ pc[0] = "depth" => mode \in {"n", "o"} /\ seen[0] = IF mode = "o" THEN 1 ELSE 0
  /\ exit # "no" => pc[0] \in {"running", "over"} \/ dbg \in {"leaving", "done"}
=============================================================================
