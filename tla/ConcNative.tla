----------------------------- MODULE ConcNative -----------------------------
(***************************************************************************)
(* The native runtime's concurrency, rt_conc.c: the rules of the            *)
(* interpreter's scheduler written again in C, with a ring buffer per       *)
(* channel.  It differs from ConcInterp where the C code does: a task       *)
(* announces its end and leaves the count in one critical section, calls    *)
(* that change nothing do not wake anyone, a refused thread stays counted,  *)
(* and the deadlock report is made with the lock held.                      *)
(***************************************************************************)
EXTENDS RingBuf

CONSTANT MaxOps   \* bound: calls of the concurrency API a task makes in a run
ASSUME MaxOpsAssumption == MaxOps \in Nat

VARIABLES pc, op, why, got, fuel,
          since,                         \* `e`, the local of mi_block
          mi_live, mi_blocked, mi_epoch,
          ring, closed,                  \* struct MiChan
          done, res,                     \* struct MiTask
          outcome

sched == <<mi_live, mi_blocked, mi_epoch, since>>
chans == <<ring, closed>>
cells == <<done, res>>
vars == <<pc, op, why, got, fuel, since, mi_live, mi_blocked, mi_epoch,
          ring, closed, done, res, outcome>>

PCs == {"unborn", "born", "running", "starting", "locking", "parked", "woken",
        "reading", "stored", "ended", "failed"}
SpawnOps == [kind : {"spawn"}, task : Tasks]

Init ==
  /\ pc = [t \in Tasks |-> IF t = Main THEN "running" ELSE "unborn"]
  /\ op = [t \in Tasks |-> Idle]
  /\ why = [t \in Tasks |-> "none"]
  /\ got = [t \in Tasks |-> NoVal]
  /\ fuel = [t \in Tasks |-> MaxOps]
  /\ since = [t \in Tasks |-> 0]
  /\ mi_live = 1 /\ mi_blocked = 0 /\ mi_epoch = 0
  /\ ring = [c \in Chans |-> EmptyRing]
  /\ closed = [c \in Chans |-> FALSE]
  /\ done = [t \in Tasks |-> FALSE]
  /\ res = [t \in Tasks |-> NoVal]
  /\ outcome = "running"

LiveSet == {t \in Tasks : pc[t] \notin {"unborn", "ended"}}
Waiting(t) == pc[t] \in {"parked", "woken"}
Fresh(t) == Waiting(t) /\ since[t] = mi_epoch
FreshSet == {t \in Tasks : Fresh(t)}

\* mi_deadlock never gives mi_sync back: nobody else enters it again.
LockFree == \A t \in Tasks : why[t] # "deadlock"

Spend(t) == fuel[t] > 0 /\ fuel' = [fuel EXCEPT ![t] = @ - 1]

mi_wake_all(p) ==
  /\ mi_blocked' = 0
  /\ mi_epoch' = mi_epoch + 1
  /\ pc' = [t \in Tasks |-> IF p[t] = "parked" THEN "woken" ELSE p[t]]
  /\ UNCHANGED since

\* Leaving the lock with nobody woken; b is mi_blocked as mi_block left it.
Leave(p, b) ==
  /\ mi_blocked' = b
  /\ pc' = p
  /\ UNCHANGED <<mi_epoch, since>>

-----------------------------------------------------------------------------
mi_task_spawn(t, u) ==
  /\ pc[t] = "running" /\ pc[u] = "unborn" /\ LockFree
  /\ Spend(t)
  /\ mi_live' = mi_live + 1
  /\ pc' = [pc EXCEPT ![t] = "starting", ![u] = "born"]
  /\ op' = [op EXCEPT ![t] = [kind |-> "spawn", task |-> u]]
  /\ UNCHANGED <<mi_blocked, mi_epoch, since, why, got, chans, cells, outcome>>

ThreadStarts(t) ==
  /\ pc[t] = "starting"
  /\ pc' = [pc EXCEPT ![t] = "running", ![op[t].task] = "running"]
  /\ op' = [op EXCEPT ![t] = Idle]
  /\ UNCHANGED <<sched, why, got, fuel, chans, cells, outcome>>

ThreadRefused(t) ==
  /\ pc[t] = "starting"
  /\ pc' = [pc EXCEPT ![t] = "failed"]
  /\ why' = [why EXCEPT ![t] = "spawn"]
  /\ op' = [op EXCEPT ![t] = Idle]
  /\ UNCHANGED <<sched, got, fuel, chans, cells, outcome>>

\* t->run stores the result; then mi_task_main ends the task.
StoreResult(t) ==
  /\ pc[t] = "running" /\ t # Main
  /\ \E v \in Results : res' = [res EXCEPT ![t] = v]
  /\ pc' = [pc EXCEPT ![t] = "stored"]
  /\ UNCHANGED <<op, sched, why, got, fuel, chans, done, outcome>>

\* deviation: the end of a task wakes nobody.
task_main_quietly(t) ==
  /\ pc[t] = "stored" /\ LockFree
  /\ done' = [done EXCEPT ![t] = TRUE]
  /\ mi_live' = mi_live - 1
  /\ pc' = [pc EXCEPT ![t] = "ended"]
  /\ UNCHANGED <<mi_blocked, mi_epoch, since, op, why, got, fuel, chans, res, outcome>>

mi_task_main(t) ==
  /\ pc[t] = "stored" /\ LockFree
  /\ done' = [done EXCEPT ![t] = TRUE]
  /\ mi_live' = mi_live - 1
  /\ mi_wake_all([pc EXCEPT ![t] = "ended"])
  /\ UNCHANGED <<op, why, got, fuel, chans, res, outcome>>

-----------------------------------------------------------------------------
Call(t, o) ==
  /\ pc[t] = "running"
  /\ pc' = [pc EXCEPT ![t] = "locking"]
  /\ op' = [op EXCEPT ![t] = o]
  /\ UNCHANGED <<sched, why, got, chans, cells, outcome>>

CallSend(t) == Spend(t) /\ \E o \in SendOps : Call(t, o)
CallRecv(t) == Spend(t) /\ \E o \in RecvOps : Call(t, o)
CallWait(t) == Spend(t) /\ \E o \in WaitOps :
                 pc[o.task] # "unborn" /\ o.task # Main /\ Call(t, o)
MainEnds(t) == t = Main /\ Call(t, AllOp) /\ UNCHANGED fuel

\* The negated loop conditions around mi_block.
Ready(o) ==
  \/ o.kind = "send" /\ (closed[o.ch] \/ Cap[o.ch] = 0 \/ ring[o.ch].len < Cap[o.ch])
  \/ o.kind = "recv" /\ (ring[o.ch].len # 0 \/ closed[o.ch])
  \/ o.kind = "wait" /\ done[o.task]
  \/ o.kind = "all" /\ mi_live <= 1

mi_chan_send(t, c, b) ==
  /\ op[t].kind = "send" /\ op[t].ch = c
  /\ \/ /\ closed[c]
        /\ why' = [why EXCEPT ![t] = "closed"]
        /\ Leave([pc EXCEPT ![t] = "failed"], b)
        /\ UNCHANGED <<ring, got>>
     \/ /\ ~closed[c]
        /\ ring' = [ring EXCEPT ![c] = Push(@, op[t].val)]
        /\ got' = [got EXCEPT ![t] = NoVal]
        /\ mi_wake_all([pc EXCEPT ![t] = "running"])
        /\ UNCHANGED why
  /\ op' = [op EXCEPT ![t] = Idle]
  /\ UNCHANGED outcome

\* deviation: the element is copied out after head moved on.
chan_recv_late(t, c, b) ==
  /\ op[t].kind = "recv" /\ op[t].ch = c
  /\ \/ /\ ring[c].len = 0
        /\ got' = [got EXCEPT ![t] = NoVal]
        /\ Leave([pc EXCEPT ![t] = "running"], b)
        /\ UNCHANGED ring
     \/ /\ ring[c].len # 0
        /\ got' = [got EXCEPT ![t] = First(Pop(ring[c]))]
        /\ ring' = [ring EXCEPT ![c] = Pop(@)]
        /\ mi_wake_all([pc EXCEPT ![t] = "running"])
  /\ op' = [op EXCEPT ![t] = Idle]
  /\ UNCHANGED <<why, outcome>>

mi_chan_recv(t, c, b) ==
  /\ op[t].kind = "recv" /\ op[t].ch = c
  /\ \/ /\ ring[c].len = 0
        /\ got' = [got EXCEPT ![t] = NoVal]
        /\ Leave([pc EXCEPT ![t] = "running"], b)
        /\ UNCHANGED ring
     \/ /\ ring[c].len # 0
        /\ got' = [got EXCEPT ![t] = First(ring[c])]
        /\ ring' = [ring EXCEPT ![c] = Pop(@)]
        /\ mi_wake_all([pc EXCEPT ![t] = "running"])
  /\ op' = [op EXCEPT ![t] = Idle]
  /\ UNCHANGED <<why, outcome>>

mi_task_wait(t, b) ==
  /\ op[t].kind = "wait"
  /\ Leave([pc EXCEPT ![t] = "reading"], b)
  /\ UNCHANGED <<op, ring, got, why, outcome>>

mi_tasks_finish(t, b) ==
  /\ op[t].kind = "all"
  /\ outcome' = "ok"
  /\ Leave(pc, b)
  /\ UNCHANGED <<op, ring, got, why>>

Proceed(t, b) ==
  /\ Ready(op[t])
  /\ \/ \E c \in Chans : mi_chan_send(t, c, b) \/ mi_chan_recv(t, c, b)
     \/ mi_task_wait(t, b)
     \/ mi_tasks_finish(t, b)
  /\ UNCHANGED <<mi_live, fuel, closed, cells>>

\* mi_block up to the wait, entered with mi_blocked = b.
mi_deadlock(t, b) ==
  /\ b + 1 >= mi_live
  /\ mi_blocked' = b + 1
  /\ pc' = [pc EXCEPT ![t] = "failed"]
  /\ why' = [why EXCEPT ![t] = "deadlock"]
  /\ op' = [op EXCEPT ![t] = Idle]
  /\ UNCHANGED <<mi_live, mi_epoch, since, got, fuel, chans, cells, outcome>>

Park(t, b) ==
  /\ b + 1 < mi_live
  /\ mi_blocked' = b + 1
  /\ since' = [since EXCEPT ![t] = mi_epoch]
  /\ pc' = [pc EXCEPT ![t] = "parked"]
  /\ UNCHANGED <<mi_live, mi_epoch, op, why, got, fuel, chans, cells, outcome>>

mi_block(t, b) == ~Ready(op[t]) /\ (mi_deadlock(t, b) \/ Park(t, b))

Enter(t) ==
  /\ pc[t] = "locking" /\ LockFree
  /\ Proceed(t, mi_blocked) \/ mi_block(t, mi_blocked)

\* pthread_cond_wait has returned with the lock.
Uncount(t) == IF since[t] = mi_epoch THEN mi_blocked - 1 ELSE mi_blocked
Return(t) ==
  /\ pc[t] = "woken" /\ LockFree
  /\ Proceed(t, Uncount(t)) \/ mi_block(t, Uncount(t))

SpuriousWakeup(t) ==
  /\ pc[t] = "parked"
  /\ pc' = [pc EXCEPT ![t] = "woken"]
  /\ UNCHANGED <<op, sched, why, got, fuel, chans, cells, outcome>>

\* The caller of mi_task_wait copies *t->res after the lock is released.
ReadResult(t) ==
  /\ pc[t] = "reading"
  /\ pc' = [pc EXCEPT ![t] = "running"]
  /\ got' = [got EXCEPT ![t] = res[op[t].task]]
  /\ op' = [op EXCEPT ![t] = Idle]
  /\ UNCHANGED <<sched, why, fuel, chans, cells, outcome>>

mi_chan_close(t, c) ==
  /\ pc[t] = "running" /\ LockFree
  /\ Spend(t)
  /\ closed' = [closed EXCEPT ![c] = TRUE]
  /\ mi_wake_all(pc)
  /\ UNCHANGED <<op, why, got, mi_live, ring, cells, outcome>>

-----------------------------------------------------------------------------
RuntimeError(t) ==
  /\ pc[t] = "running"
  /\ pc' = [pc EXCEPT ![t] = "failed"]
  /\ why' = [why EXCEPT ![t] = "error"]
  /\ UNCHANGED <<op, sched, got, fuel, chans, cells, outcome>>

\* mi_panic and mi_deadlock end in exit(1).
Exit1(t) ==
  /\ pc[t] = "failed"
  /\ outcome' = why[t]
  /\ UNCHANGED <<pc, op, sched, why, got, fuel, chans, cells>>

Step(t) ==
  \/ \E u \in Tasks : mi_task_spawn(t, u)
  \/ ThreadStarts(t) \/ ThreadRefused(t)
  \/ CallSend(t) \/ CallRecv(t) \/ CallWait(t) \/ MainEnds(t)
  \/ Enter(t) \/ Return(t) \/ ReadResult(t)
  \/ \E c \in Chans : mi_chan_close(t, c)
  \/ StoreResult(t) \/ mi_task_main(t)
  \/ RuntimeError(t) \/ Exit1(t)

Exited == outcome # "running" /\ UNCHANGED vars

Next ==
  \/ outcome = "running" /\ \E t \in Tasks : Step(t) \/ SpuriousWakeup(t)
  \/ Exited

Spec == Init /\ [][Next]_vars

\* As for the interpreter: every thread that can run is eventually run.
FairSpec == Spec /\ \A t \in Tasks : WF_vars(outcome = "running" /\ Step(t))

-----------------------------------------------------------------------------
(* Properties *)

\* Types; every ring keeps its head and length inside its capacity.
TypeOK ==
  /\ pc \in [Tasks -> PCs]
  /\ op \in [Tasks -> AllOps \cup SpawnOps]
  /\ why \in [Tasks -> {"none", "error", "spawn", "closed", "deadlock"}]
  /\ got \in [Tasks -> Results]
  /\ fuel \in [Tasks -> 0..MaxOps]
  /\ since \in [Tasks -> Nat]
  /\ mi_live \in Nat /\ mi_blocked \in Nat /\ mi_epoch \in Nat
  /\ ring = [c \in Chans |-> ring[c]] /\ \A c \in Chans : IsRing(ring[c])
  /\ closed \in [Chans -> BOOLEAN]
  /\ done \in [Tasks -> BOOLEAN]
  /\ res \in [Tasks -> Results]
  /\ outcome \in {"running", "ok", "error", "spawn", "closed", "deadlock"}

\* mi_live and mi_blocked are exact until the deadlock report, which leaves
\* its own increment of mi_blocked behind.
CountersExact ==
  /\ mi_live = Cardinality(LiveSet)
  /\ LockFree => mi_blocked = Cardinality(FreshSet)

\* No lost wakeup, although recv at the end of a channel, wait and a send on a
\* closed channel leave the lock without waking anyone.
NoLostWakeup == \A t \in Tasks : pc[t] = "parked" => ~Ready(op[t])

\* The exit that mi_deadlock makes is never a false alarm.
DeadlockSound ==
  \A t \in Tasks : why[t] = "deadlock" =>
    \A u \in LiveSet \ {t} : Waiting(u) /\ ~Ready(op[u])

\* The strengthening that makes these inductive: which call each thread is in
\* and what is set on its way to the end, that a counted thread's condition is
\* false and a parked thread is counted, that everybody else is counted once
\* mi_deadlock has its verdict, and that somebody is not.
Bookkeeping ==
  /\ pc[Main] \notin {"unborn", "born", "stored", "ended"}
  /\ \A t \in Tasks :
       /\ pc[t] \in {"locking", "parked", "woken"} =>
            op[t].kind \in {"send", "recv", "wait", "all"}
       /\ pc[t] = "reading" => op[t].kind = "wait" /\ done[op[t].task]
       /\ op[t].kind = "all" => t = Main
       /\ pc[t] = "starting" => op[t].kind = "spawn" /\ pc[op[t].task] = "born"
       /\ since[t] <= mi_epoch
       /\ done[t] <=> pc[t] = "ended"
       /\ why[t] # "none" <=> pc[t] = "failed"
  /\ \A t, u \in Tasks :
       pc[t] = "starting" /\ pc[u] = "starting" /\ op[t].task = op[u].task => t = u

CountedFacts ==
  \A t \in Tasks : /\ pc[t] = "parked" => Fresh(t)
                   /\ Fresh(t) => ~Ready(op[t])

VerdictFacts ==
  \A t \in Tasks : why[t] = "deadlock" => \A u \in LiveSet \ {t} : Fresh(u)

IndInv ==
  /\ TypeOK /\ Bookkeeping /\ CountersExact /\ CountedFacts /\ VerdictFacts
  /\ \E t \in LiveSet : t \notin FreshSet

\* What the program sees is ConcSpec.
Seen(label) ==
  IF label \in {"unborn", "born"} THEN "unborn"
  ELSE IF label \in {"running", "starting", "stored"} THEN "running"
  ELSE IF label \in {"ended", "failed"} THEN label
  ELSE "asking"
AbsSt == [t \in Tasks |-> Seen(pc[t])]
AbsOp == [t \in Tasks |-> IF AbsSt[t] = "asking" THEN op[t] ELSE Idle]
AbsResult == [t \in Tasks |-> IF done[t] THEN res[t] ELSE NoVal]
AbsQ == [c \in Chans |-> Contents(ring[c])]

Abs == INSTANCE ConcSpec
         WITH st <- AbsSt, op <- AbsOp, q <- AbsQ, result <- AbsResult

\* "The native runtime follows the same rules": it implements the same
\* ConcSpec as the interpreter, its rings being the queues of that spec, so
\* values arrive once, in order, across every growth and wrap of the buffer.
ImplementsConcSpec == Abs!Spec

\* No silent hang of the native program.
Terminates == <>(outcome # "running")
=============================================================================
