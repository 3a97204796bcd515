----------------------------- MODULE ConcInterp -----------------------------
(***************************************************************************)
(* The interpreter's concurrency: conc.rs (one lock, one condition          *)
(* variable, the counters live, blocked and epoch) and the parts of         *)
(* interp.rs that use it.  Every task is an OS thread.  One action is one   *)
(* critical section of the lock SYNC, or one step taken outside it; a       *)
(* thread in CV.wait is "parked", and "woken" once a notification or a      *)
(* spurious wakeup took it out, until it holds the lock again.              *)
(***************************************************************************)
EXTENDS ConcTypes

CONSTANT MaxOps   \* bound: calls of the concurrency API a task makes in a run
ASSUME MaxOpsAssumption == MaxOps \in Nat

VARIABLES pc,       \* where each thread is
          op,       \* the call it is executing
          since,    \* wait_then's local `epoch`
          why,      \* the error a thread has raised
          got,      \* what its last blocking call returned
          fuel,     \* calls it may still make
          live, blocked, epoch,      \* the fields of Sched
          q, closed,                 \* the ChanCells
          done, result,              \* the TaskCells
          outcome   \* "running" until the process exits, then how it did

sched == <<live, blocked, epoch, since>>
chans == <<q, closed>>
cells == <<done, result>>
vars == <<pc, op, since, why, got, fuel, live, blocked, epoch, q, closed,
          done, result, outcome>>

PCs == {"unborn", "born", "running", "starting", "locking", "parked", "woken",
        "reading", "stored", "marked", "ended", "failed"}
SpawnOps == [kind : {"spawn"}, task : Tasks]

Init ==
  /\ pc = [t \in Tasks |-> IF t = Main THEN "running" ELSE "unborn"]
  /\ op = [t \in Tasks |-> Idle]
  /\ since = [t \in Tasks |-> 0]
  /\ why = [t \in Tasks |-> "none"]
  /\ got = [t \in Tasks |-> NoVal]
  /\ fuel = [t \in Tasks |-> MaxOps]
  /\ live = 1 /\ blocked = 0 /\ epoch = 0
  /\ q = [c \in Chans |-> << >>]
  /\ closed = [c \in Chans |-> FALSE]
  /\ done = [t \in Tasks |-> FALSE]
  /\ result = [t \in Tasks |-> NoVal]
  /\ outcome = "running"

LiveSet == {t \in Tasks : pc[t] \notin {"unborn", "ended"}}
Waiting(t) == pc[t] \in {"parked", "woken"}
\* Counted in `blocked`: waiting, and nobody has called wake since.
Fresh(t) == Waiting(t) /\ since[t] = epoch
FreshSet == {t \in Tasks : Fresh(t)}

Spend(t) == fuel[t] > 0 /\ fuel' = [fuel EXCEPT ![t] = @ - 1]

\* wake: every parked thread is notified.  p is pc as the caller leaves it.
NotifyAll(p) == [t \in Tasks |-> IF p[t] = "parked" THEN "woken" ELSE p[t]]
\* deviation: the woken stay counted until they run.
WakeKeepingCount(p) ==
  /\ blocked' = blocked
  /\ epoch' = epoch + 1
  /\ pc' = NotifyAll(p)
  /\ UNCHANGED since

Wake(p) ==
  /\ blocked' = 0
  /\ epoch' = epoch + 1
  /\ pc' = NotifyAll(p)
  /\ UNCHANGED since

-----------------------------------------------------------------------------
(* Starting a task: the count is raised before the thread exists. *)

Start(t, u) ==
  /\ pc[t] = "running" /\ pc[u] = "unborn"
  /\ Spend(t)
  /\ live' = live + 1
  /\ pc' = [pc EXCEPT ![t] = "starting", ![u] = "born"]
  /\ op' = [op EXCEPT ![t] = [kind |-> "spawn", task |-> u]]
  /\ UNCHANGED <<blocked, epoch, since, why, got, chans, cells, outcome>>

ThreadStarts(t) ==
  /\ pc[t] = "starting"
  /\ pc' = [pc EXCEPT ![t] = "running", ![op[t].task] = "running"]
  /\ op' = [op EXCEPT ![t] = Idle]
  /\ UNCHANGED <<sched, why, got, fuel, chans, cells, outcome>>

\* The operating system refuses the thread: E0263.
ThreadRefused(t) ==
  /\ pc[t] = "starting"
  /\ live' = live - 1
  /\ pc' = [pc EXCEPT ![t] = "failed", ![op[t].task] = "unborn"]
  /\ why' = [why EXCEPT ![t] = "spawn"]
  /\ op' = [op EXCEPT ![t] = Idle]
  /\ UNCHANGED <<blocked, epoch, since, got, fuel, chans, cells, outcome>>

-----------------------------------------------------------------------------
(* Calls that wait. *)

Call(t, o) ==
  /\ pc[t] = "running"
  /\ pc' = [pc EXCEPT ![t] = "locking"]
  /\ op' = [op EXCEPT ![t] = o]
  /\ UNCHANGED <<sched, why, got, chans, cells, outcome>>

CallSend(t) == Spend(t) /\ \E o \in SendOps : Call(t, o)
CallRecv(t) == Spend(t) /\ \E o \in RecvOps : Call(t, o)
CallWait(t) == Spend(t) /\ \E o \in WaitOps :
                 pc[o.task] # "unborn" /\ o.task # Main /\ Call(t, o)
\* main has run its last statement: run_program calls wait_all.
MainEnds(t) == t = Main /\ Call(t, AllOp) /\ UNCHANGED fuel

\* deviation: wait_all is off by one.
ReadyTooSoon(o) ==
  \/ /\ o.kind = "send"
     /\ closed[o.ch] \/ Cap[o.ch] = 0 \/ Len(q[o.ch]) < Cap[o.ch]
  \/ o.kind = "recv" /\ (q[o.ch] # << >> \/ closed[o.ch])
  \/ o.kind = "wait" /\ done[o.task]
  \/ o.kind = "all" /\ live <= 2

Ready(o) ==
  \/ /\ o.kind = "send"
     /\ closed[o.ch] \/ Cap[o.ch] = 0 \/ Len(q[o.ch]) < Cap[o.ch]
  \/ /\ o.kind = "recv"
     /\ q[o.ch] # << >> \/ closed[o.ch]
  \/ /\ o.kind = "wait"
     /\ done[o.task]
  \/ /\ o.kind = "all"
     /\ live <= 1

\* `act` of each caller, run under the lock, and what the caller does with
\* its answer.
ActSend(t, c) ==
  /\ op[t].kind = "send" /\ op[t].ch = c
  /\ \/ /\ ~closed[c]
        /\ q' = [q EXCEPT ![c] = Append(@, op[t].val)]
        /\ got' = [got EXCEPT ![t] = NoVal]
        /\ UNCHANGED why
        /\ Wake([pc EXCEPT ![t] = "running"])
     \/ /\ closed[c]
        /\ why' = [why EXCEPT ![t] = "closed"]
        /\ UNCHANGED <<q, got>>
        /\ Wake([pc EXCEPT ![t] = "failed"])
  /\ op' = [op EXCEPT ![t] = Idle]
  /\ UNCHANGED outcome

ActRecv(t, c) ==
  /\ op[t].kind = "recv" /\ op[t].ch = c
  /\ \/ /\ q[c] # << >>
        /\ q' = [q EXCEPT ![c] = Tail(@)]
        /\ got' = [got EXCEPT ![t] = Head(q[c])]
     \/ /\ q[c] = << >>
        /\ got' = [got EXCEPT ![t] = NoVal]
        /\ UNCHANGED q
  /\ op' = [op EXCEPT ![t] = Idle]
  /\ Wake([pc EXCEPT ![t] = "running"])
  /\ UNCHANGED <<why, outcome>>

ActWait(t) ==
  /\ op[t].kind = "wait"
  /\ Wake([pc EXCEPT ![t] = "reading"])
  /\ UNCHANGED <<op, q, got, why, outcome>>

ActAll(t) ==
  /\ op[t].kind = "all"
  /\ outcome' = "ok"
  /\ Wake(pc)
  /\ UNCHANGED <<op, q, got, why>>

Proceed(t) ==
  /\ Ready(op[t])
  /\ \/ \E c \in Chans : ActSend(t, c) \/ ActRecv(t, c)
     \/ ActWait(t)
     \/ ActAll(t)
  /\ UNCHANGED <<live, fuel, closed, cells>>

\* b is `blocked` as the thread finds it once it holds the lock.
\* deviation: the thread counts itself twice.
VerdictOneShort(t, b) ==
  /\ ~Ready(op[t]) /\ b + 2 >= live
  /\ blocked' = b
  /\ pc' = [pc EXCEPT ![t] = "failed"]
  /\ why' = [why EXCEPT ![t] = "deadlock"]
  /\ op' = [op EXCEPT ![t] = Idle]
  /\ UNCHANGED <<live, epoch, since, got, fuel, chans, cells, outcome>>

Verdict(t, b) ==
  /\ ~Ready(op[t]) /\ b + 1 >= live
  /\ blocked' = b
  /\ pc' = [pc EXCEPT ![t] = "failed"]
  /\ why' = [why EXCEPT ![t] = "deadlock"]
  /\ op' = [op EXCEPT ![t] = Idle]
  /\ UNCHANGED <<live, epoch, since, got, fuel, chans, cells, outcome>>

Park(t, b) ==
  /\ ~Ready(op[t]) /\ b + 1 < live
  /\ blocked' = b + 1
  /\ since' = [since EXCEPT ![t] = epoch]
  /\ pc' = [pc EXCEPT ![t] = "parked"]
  /\ UNCHANGED <<live, epoch, op, why, got, fuel, chans, cells, outcome>>

\* wait_then: one turn of its loop, on entry and after CV.wait returns.
WaitLoop(t, b) == Proceed(t) \/ Verdict(t, b) \/ Park(t, b)
Uncount(t) == IF since[t] = epoch THEN blocked - 1 ELSE blocked

Enter(t) == pc[t] = "locking" /\ WaitLoop(t, blocked)
Return(t) == pc[t] = "woken" /\ WaitLoop(t, Uncount(t))

\* A condition variable may return with no notification.
SpuriousWakeup(t) ==
  /\ pc[t] = "parked"
  /\ pc' = [pc EXCEPT ![t] = "woken"]
  /\ UNCHANGED <<op, sched, why, got, fuel, chans, cells, outcome>>

\* Task.wait copies the result after the lock is released.
ReadResult(t) ==
  /\ pc[t] = "reading"
  /\ pc' = [pc EXCEPT ![t] = "running"]
  /\ got' = [got EXCEPT ![t] = result[op[t].task]]
  /\ op' = [op EXCEPT ![t] = Idle]
  /\ UNCHANGED <<sched, why, fuel, chans, cells, outcome>>

Close(t, c) ==
  /\ pc[t] = "running"
  /\ Spend(t)
  /\ closed' = [closed EXCEPT ![c] = TRUE]
  /\ Wake(pc)
  /\ UNCHANGED <<op, why, got, live, q, cells, outcome>>

-----------------------------------------------------------------------------
(* Ending a task: the result, then done, then the count, each on its own. *)

StoreResult(t) ==
  /\ pc[t] = "running" /\ t # Main
  /\ \E v \in Results : result' = [result EXCEPT ![t] = v]
  /\ pc' = [pc EXCEPT ![t] = "stored"]
  /\ UNCHANGED <<op, sched, why, got, fuel, chans, done, outcome>>

\* deviation: `done` is stored without `change`.
MarkDoneQuietly(t) ==
  /\ pc[t] = "stored"
  /\ done' = [done EXCEPT ![t] = TRUE]
  /\ pc' = [pc EXCEPT ![t] = "marked"]
  /\ UNCHANGED <<op, sched, why, got, fuel, chans, result, outcome>>

MarkDone(t) ==
  /\ pc[t] = "stored"
  /\ done' = [done EXCEPT ![t] = TRUE]
  /\ Wake([pc EXCEPT ![t] = "marked"])
  /\ UNCHANGED <<op, why, got, fuel, live, chans, result, outcome>>

\* deviation: finish wakes nobody.
FinishQuietly(t) ==
  /\ pc[t] = "marked"
  /\ live' = live - 1
  /\ pc' = [pc EXCEPT ![t] = "ended"]
  /\ UNCHANGED <<op, blocked, epoch, since, why, got, fuel, chans, cells, outcome>>
Finish(t) ==
  /\ pc[t] = "marked"
  /\ live' = live - 1
  /\ Wake([pc EXCEPT ![t] = "ended"])
  /\ UNCHANGED <<op, why, got, fuel, chans, cells, outcome>>

-----------------------------------------------------------------------------
(* Errors: the thread that raised one reports it and ends the process. *)

RuntimeError(t) ==
  /\ pc[t] = "running"
  /\ pc' = [pc EXCEPT ![t] = "failed"]
  /\ why' = [why EXCEPT ![t] = "error"]
  /\ UNCHANGED <<op, sched, got, fuel, chans, cells, outcome>>

Report(t) ==
  /\ pc[t] = "failed"
  /\ outcome' = why[t]
  /\ UNCHANGED <<pc, op, sched, why, got, fuel, chans, cells>>

-----------------------------------------------------------------------------

Step(t) ==
  \/ \E u \in Tasks : Start(t, u)
  \/ ThreadStarts(t) \/ ThreadRefused(t)
  \/ CallSend(t) \/ CallRecv(t) \/ CallWait(t) \/ MainEnds(t)
  \/ Enter(t) \/ Return(t) \/ ReadResult(t)
  \/ \E c \in Chans : Close(t, c)
  \/ StoreResult(t) \/ MarkDone(t) \/ Finish(t)
  \/ RuntimeError(t) \/ Report(t)

Exited == outcome # "running" /\ UNCHANGED vars

Next ==
  \/ outcome = "running" /\ \E t \in Tasks : Step(t) \/ SpuriousWakeup(t)
  \/ Exited

Spec == Init /\ [][Next]_vars

\* Every thread the system can run is eventually run: it gets the lock, and
\* its program, which makes finitely many calls, takes its next step.
FairSpec == Spec /\ \A t \in Tasks : WF_vars(outcome = "running" /\ Step(t))

-----------------------------------------------------------------------------
(* Properties *)

\* Types of the scheduler's counters, of channels, waits and results.
TypeOK ==
  /\ pc \in [Tasks -> PCs]
  /\ op \in [Tasks -> AllOps \cup SpawnOps]
  /\ since \in [Tasks -> Nat]
  /\ why \in [Tasks -> {"none", "error", "spawn", "closed", "deadlock"}]
  /\ got \in [Tasks -> Results]
  /\ fuel \in [Tasks -> 0..MaxOps]
  /\ live \in Nat /\ blocked \in Nat /\ epoch \in Nat
  /\ q \in [Chans -> Seq(Values)]
  /\ closed \in [Chans -> BOOLEAN]
  /\ done \in [Tasks -> BOOLEAN]
  /\ result \in [Tasks -> Results]
  /\ outcome \in {"running", "ok", "none", "error", "spawn", "closed", "deadlock"}

\* The counters are exact whatever the interleaving of wakes, spurious
\* wakeups, starts that fail and tasks that end in two steps: `live` is the
\* number of unfinished tasks and `blocked` the number of threads that wait
\* and have not been notified (Sched in conc.rs).
CountersExact ==
  /\ live = Cardinality(LiveSet)
  /\ blocked = Cardinality(FreshSet)

\* No lost wakeup: a thread asleep in CV.wait has a condition that is still
\* false, although several writers of the state (start, its failure path)
\* change it without calling wake.
NoLostWakeup == \A t \in Tasks : pc[t] = "parked" => ~Ready(op[t])

\* The deadlock error is never a false alarm: from the moment one thread has
\* the verdict of wait_then (it reports it later, without the lock), every
\* other unfinished task waits for something that is false.
DeadlockSound ==
  \A t \in Tasks : why[t] = "deadlock" =>
    \A u \in LiveSet \ {t} : Waiting(u) /\ ~Ready(op[u])

\* And never missed: unless the process has exited, some unfinished thread is
\* not asleep waiting for the others ("If every live task is waiting
\* (deadlock) ... execution stops with a runtime error", conc.rs).
SomeoneAwake ==
  outcome = "running" => \E t \in LiveSet : ~Fresh(t)

\* A normal exit leaves no task behind and no result unset: main waited for
\* the tasks it never waited for by name (run_program, wait_all).
CleanExit ==
  outcome = "ok" => \A t \in Tasks \ {Main} :
                      pc[t] = "unborn" \/ (pc[t] = "ended" /\ done[t])

\* The strengthening that makes the safety properties inductive: which call
\* each thread is in, what is set on the way to the end of a task, that a
\* counted thread's condition is false and a parked thread is counted.
Bookkeeping ==
  /\ pc[Main] \notin {"unborn", "born", "stored", "marked", "ended"}
  /\ \A t \in Tasks :
       /\ pc[t] \in {"locking", "parked", "woken"} =>
            op[t].kind \in {"send", "recv", "wait", "all"}
       /\ pc[t] = "reading" => op[t].kind = "wait" /\ done[op[t].task]
       /\ op[t].kind = "all" => t = Main
       /\ pc[t] = "starting" => op[t].kind = "spawn" /\ pc[op[t].task] = "born"
       /\ since[t] <= epoch
       /\ done[t] <=> pc[t] \in {"marked", "ended"}
       /\ why[t] # "none" <=> pc[t] = "failed"
  /\ \A t, u \in Tasks :
       pc[t] = "starting" /\ pc[u] = "starting" /\ op[t].task = op[u].task => t = u

CountedFacts ==
  \A t \in Tasks : /\ pc[t] = "parked" => Fresh(t)
                   /\ Fresh(t) => ~Ready(op[t])

VerdictFacts ==
  \A t \in Tasks : why[t] = "deadlock" => \A u \in LiveSet \ {t} : Fresh(u)

OthersEnded ==
  outcome = "ok" => \A t \in Tasks \ {Main} : pc[t] \in {"unborn", "ended"}

IndInv ==
  /\ TypeOK /\ Bookkeeping /\ CountersExact /\ CountedFacts /\ VerdictFacts
  /\ \E t \in LiveSet : t \notin FreshSet
  /\ OthersEnded

\* What the program sees is ConcSpec: counters, epochs, the wait set and the
\* steps of starting and ending a thread are invisible.
Seen(label) ==
  IF label \in {"unborn", "born"} THEN "unborn"
  ELSE IF label \in {"running", "starting", "stored"} THEN "running"
  ELSE IF label \in {"marked", "ended"} THEN "ended"
  ELSE IF label = "failed" THEN "failed"
  ELSE "asking"
AbsSt == [t \in Tasks |-> Seen(pc[t])]
AbsOp == [t \in Tasks |-> IF AbsSt[t] = "asking" THEN op[t] ELSE Idle]
AbsResult == [t \in Tasks |-> IF done[t] THEN result[t] ELSE NoVal]

Abs == INSTANCE ConcSpec WITH st <- AbsSt, op <- AbsOp, result <- AbsResult

\* The interpreter's scheduler implements the promise of ConcSpec.
ImplementsConcSpec == Abs!Spec

\* No silent hang: a program whose tasks make finitely many calls always
\* ends, normally, with its own error or with the deadlock error.
Terminates == <>(outcome # "running")
=============================================================================
