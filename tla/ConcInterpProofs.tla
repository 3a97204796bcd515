-------------------------- MODULE ConcInterpProofs --------------------------
(***************************************************************************)
(* Proofs about ConcInterp, for any finite set of tasks, any channels and   *)
(* any bound on the calls.                                                  *)
(***************************************************************************)
EXTENDS ConcInterp, FiniteSetTheorems, TLAPS

\* Which fields a call has follows from its kind.
LEMMA OpFields ==
  ASSUME NEW o \in AllOps \cup SpawnOps
  PROVE  /\ o.kind \in {"none", "all", "send", "recv", "wait", "spawn"}
         /\ o.kind = "send" => o.ch \in Chans /\ o.val \in Values /\ o \in SendOps
         /\ o.kind = "recv" => o.ch \in Chans /\ o \in RecvOps
         /\ o.kind = "wait" => o.task \in Tasks /\ o \in WaitOps
         /\ o.kind = "spawn" => o.task \in Tasks
         /\ o.kind = "all" => o = AllOp
  BY DEF AllOps, SpawnOps, SendOps, RecvOps, WaitOps, AllOp, Idle

\* Counting the elements of a subset of the tasks.
LEMMA Counting ==
  ASSUME NEW S \in SUBSET Tasks
  PROVE  /\ IsFiniteSet(S) /\ Cardinality(S) \in Nat
         /\ \A x \in Tasks : Cardinality(S \cup {x}) =
              IF x \in S THEN Cardinality(S) ELSE Cardinality(S) + 1
         /\ \A x : Cardinality(S \ {x}) =
              IF x \in S THEN Cardinality(S) - 1 ELSE Cardinality(S)
         /\ \A T \in SUBSET S : Cardinality(T) <= Cardinality(S)
         /\ \A T \in SUBSET S : Cardinality(T) = Cardinality(S) => T = S
  <1>1. IsFiniteSet(S)
    BY FS_Subset, ConcAssumption DEF ConcAssumption
  <1> QED
    BY <1>1, FS_Subset, FS_AddElement, FS_RemoveElement, FS_CardinalityType

-----------------------------------------------------------------------------
(* Type correctness *)

LEMMA InitType == Init => TypeOK
  BY ConcAssumption, MaxOpsAssumption
  DEF Init, TypeOK, ConcAssumption, MaxOpsAssumption, PCs, AllOps, Results

LEMMA WakeType ==
  ASSUME TypeOK, NEW p \in [Tasks -> PCs], Wake(p)
  PROVE  /\ pc' \in [Tasks -> PCs]
         /\ since' \in [Tasks -> Nat]
         /\ blocked' \in Nat /\ epoch' \in Nat
  BY DEF TypeOK, Wake, NotifyAll, PCs

LEMMA ProceedType ==
  ASSUME TypeOK, NEW t \in Tasks, Proceed(t)
  PROVE  TypeOK'
  <1> USE DEF TypeOK
  <1>1. ASSUME NEW c \in Chans, ActSend(t, c)  PROVE TypeOK'
    <2>1. op[t].val \in Values
      BY <1>1, OpFields DEF ActSend
    <2>2. /\ [pc EXCEPT ![t] = "running"] \in [Tasks -> PCs]
          /\ [pc EXCEPT ![t] = "failed"] \in [Tasks -> PCs]
      BY DEF PCs
    <2>3. pc' \in [Tasks -> PCs] /\ since' \in [Tasks -> Nat]
            /\ blocked' \in Nat /\ epoch' \in Nat
      BY <1>1, <2>2, WakeType DEF ActSend
    <2>a. Append(q[c], op[t].val) \in Seq(Values)
      BY <2>1
    <2>b. q' = q \/ q' = [q EXCEPT ![c] = Append(@, op[t].val)]
      BY <1>1 DEF ActSend
    <2>c. got' = got \/ got' = [got EXCEPT ![t] = NoVal]
      BY <1>1 DEF ActSend
    <2>4. q' \in [Chans -> Seq(Values)] /\ got' \in [Tasks -> Results]
      BY <2>a, <2>b, <2>c DEF Results
    <2>5. op' \in [Tasks -> AllOps \cup SpawnOps]
            /\ why' \in [Tasks -> {"none", "error", "spawn", "closed", "deadlock"}]
      BY <1>1 DEF ActSend, AllOps
    <2> QED
      BY <1>1, <2>3, <2>4, <2>5, Zenon DEF Proceed, ActSend, cells
  <1>2. ASSUME NEW c \in Chans, ActRecv(t, c)  PROVE TypeOK'
    <2>1. [pc EXCEPT ![t] = "running"] \in [Tasks -> PCs]
      BY DEF PCs
    <2>2. pc' \in [Tasks -> PCs] /\ since' \in [Tasks -> Nat]
            /\ blocked' \in Nat /\ epoch' \in Nat
      BY <1>2, <2>1, WakeType DEF ActRecv
    <2>a. q[c] # << >> => Tail(q[c]) \in Seq(Values) /\ Head(q[c]) \in Values
      OBVIOUS
    <2>b. \/ /\ q[c] # << >>
             /\ q' = [q EXCEPT ![c] = Tail(@)]
             /\ got' = [got EXCEPT ![t] = Head(q[c])]
          \/ q' = q /\ got' = [got EXCEPT ![t] = NoVal]
      BY <1>2 DEF ActRecv
    <2>3. q' \in [Chans -> Seq(Values)] /\ got' \in [Tasks -> Results]
      <3>1. CASE q' = q /\ got' = [got EXCEPT ![t] = NoVal]
        BY <3>1 DEF Results
      <3>2. CASE /\ q[c] # << >>
                 /\ q' = [q EXCEPT ![c] = Tail(@)]
                 /\ got' = [got EXCEPT ![t] = Head(q[c])]
        <4>1. Tail(q[c]) \in Seq(Values) /\ Head(q[c]) \in Results
          BY <2>a, <3>2 DEF Results
        <4>2. q' \in [Chans -> Seq(Values)]
          BY <4>1, <3>2, Zenon
        <4> QED
          BY <4>1, <4>2, <3>2, Zenon
      <3> QED
        BY <2>b, <3>1, <3>2
    <2>4. op' \in [Tasks -> AllOps \cup SpawnOps]
      BY <1>2 DEF ActRecv, AllOps
    <2> QED
      BY <1>2, <2>2, <2>3, <2>4, Zenon DEF Proceed, ActRecv, cells
  <1>3. CASE ActWait(t)
    <2>1. [pc EXCEPT ![t] = "reading"] \in [Tasks -> PCs]
      BY DEF PCs
    <2> QED
      BY <1>3, <2>1, WakeType DEF Proceed, ActWait, cells
  <1>4. CASE ActAll(t)
    BY <1>4, WakeType DEF Proceed, ActAll, cells
  <1> QED
    BY <1>1, <1>2, <1>3, <1>4 DEF Proceed

\* Where the code subtracts from a counter, the counter is positive.
LEMMA CountersPositive ==
  ASSUME TypeOK, CountersExact, NEW t \in Tasks
  PROVE  /\ pc[t] \notin {"unborn", "ended"} => live >= 1
         /\ Fresh(t) => blocked >= 1
  <1>1. LiveSet \in SUBSET Tasks /\ FreshSet \in SUBSET Tasks
    BY DEF LiveSet, FreshSet
  <1>2. ASSUME NEW S \in SUBSET Tasks, t \in S  PROVE Cardinality(S) >= 1
    <2>1. Cardinality(S \ {t}) = Cardinality(S) - 1
            /\ Cardinality(S \ {t}) \in Nat /\ Cardinality(S) \in Nat
      BY <1>2, Counting
    <2> QED
      BY <2>1
  <1>3. pc[t] \notin {"unborn", "ended"} => t \in LiveSet
    BY DEF LiveSet
  <1>4. Fresh(t) => t \in FreshSet
    BY DEF FreshSet
  <1> QED
    BY <1>1, <1>2, <1>3, <1>4 DEF CountersExact

LEMMA LoopType ==
  ASSUME TypeOK, NEW t \in Tasks, NEW b \in Nat, WaitLoop(t, b)
  PROVE  TypeOK'
  <1>1. CASE Proceed(t)
    BY <1>1, ProceedType
  <1>2. CASE Verdict(t, b)
    BY <1>2 DEF TypeOK, Verdict, PCs, AllOps, chans, cells
  <1>3. CASE Park(t, b)
    BY <1>3 DEF TypeOK, Park, PCs, chans, cells
  <1> QED
    BY <1>1, <1>2, <1>3 DEF WaitLoop

LEMMA NextType ==
  ASSUME TypeOK, Bookkeeping, CountersExact, [Next]_vars
  PROVE  TypeOK'
  <1>1. ASSUME NEW t \in Tasks, NEW u \in Tasks, Start(t, u)  PROVE TypeOK'
    <2>1. [kind |-> "spawn", task |-> u] \in SpawnOps
      BY DEF SpawnOps
    <2>2. fuel' \in [Tasks -> 0..MaxOps]
      BY <1>1, MaxOpsAssumption DEF Start, Spend, TypeOK, MaxOpsAssumption
    <2>3. pc' \in [Tasks -> PCs] /\ op' \in [Tasks -> AllOps \cup SpawnOps]
      BY <1>1, <2>1 DEF TypeOK, Start, PCs
    <2>4. live' \in Nat
      BY <1>1 DEF TypeOK, Start
    <2>5. UNCHANGED <<blocked, epoch, since, why, got, chans, cells, outcome>>
      BY <1>1 DEF Start
    <2> QED
      BY <2>2, <2>3, <2>4, <2>5 DEF TypeOK, chans, cells
  <1>2. ASSUME NEW t \in Tasks, ThreadStarts(t)  PROVE TypeOK'
    BY <1>2 DEF TypeOK, ThreadStarts, PCs, AllOps, sched, chans, cells
  <1>3. ASSUME NEW t \in Tasks, ThreadRefused(t)  PROVE TypeOK'
    <2>1. live >= 1
      BY <1>3, CountersPositive DEF ThreadRefused
    <2>2. live' \in Nat
      BY <1>3, <2>1 DEF TypeOK, ThreadRefused
    <2>3. pc' \in [Tasks -> PCs] /\ op' \in [Tasks -> AllOps \cup SpawnOps]
      BY <1>3 DEF TypeOK, ThreadRefused, PCs, AllOps
    <2> QED
      BY <1>3, <2>2, <2>3 DEF TypeOK, ThreadRefused, chans, cells
  <1>4. ASSUME NEW t \in Tasks, NEW o \in AllOps, Call(t, o),
               Spend(t) \/ UNCHANGED fuel
        PROVE  TypeOK'
    <2>1. fuel' \in [Tasks -> 0..MaxOps]
      <3>1. CASE UNCHANGED fuel
        BY <3>1 DEF TypeOK
      <3>2. CASE Spend(t)
        BY <3>2, MaxOpsAssumption DEF Spend, TypeOK, MaxOpsAssumption
      <3> QED
        BY <1>4, <3>1, <3>2
    <2> QED
      BY <1>4, <2>1 DEF TypeOK, Call, PCs, sched, chans, cells
  <1>5. ASSUME NEW t \in Tasks, CallSend(t) \/ CallRecv(t) \/ CallWait(t) \/ MainEnds(t)
        PROVE  TypeOK'
    <2>1. SendOps \cup RecvOps \cup WaitOps \cup {AllOp} \subseteq AllOps
      BY DEF AllOps
    <2> QED
      BY <1>4, <1>5, <2>1 DEF CallSend, CallRecv, CallWait, MainEnds
  <1>6. ASSUME NEW t \in Tasks, Enter(t)  PROVE TypeOK'
    BY <1>6, LoopType DEF Enter, TypeOK
  <1>7. ASSUME NEW t \in Tasks, Return(t)  PROVE TypeOK'
    <2>1. Uncount(t) \in Nat
      BY <1>7, CountersPositive DEF Return, Uncount, TypeOK, Fresh, Waiting
    <2> QED
      BY <1>7, <2>1, LoopType DEF Return
  <1>8. ASSUME NEW t \in Tasks, ReadResult(t)  PROVE TypeOK'
    <2>1. op[t].task \in Tasks
      BY <1>8, OpFields DEF ReadResult, Bookkeeping, TypeOK
    <2> QED
      BY <1>8, <2>1 DEF TypeOK, ReadResult, PCs, AllOps, sched, chans, cells
  <1>9. ASSUME NEW t \in Tasks, NEW c \in Chans, Close(t, c)  PROVE TypeOK'
    <2>1. fuel' \in [Tasks -> 0..MaxOps]
      BY <1>9, MaxOpsAssumption DEF Close, Spend, TypeOK, MaxOpsAssumption
    <2>2. pc \in [Tasks -> PCs] /\ Wake(pc)
      BY <1>9 DEF Close, TypeOK
    <2> QED
      BY <1>9, <2>1, <2>2, WakeType DEF TypeOK, Close, cells
  <1>10. ASSUME NEW t \in Tasks, StoreResult(t)  PROVE TypeOK'
    BY <1>10 DEF TypeOK, StoreResult, PCs, sched, chans
  <1>11. ASSUME NEW t \in Tasks, MarkDone(t)  PROVE TypeOK'
    <2>1. [pc EXCEPT ![t] = "marked"] \in [Tasks -> PCs]
      BY DEF TypeOK, PCs
    <2> QED
      BY <1>11, <2>1, WakeType DEF TypeOK, MarkDone, chans
  <1>12. ASSUME NEW t \in Tasks, Finish(t)  PROVE TypeOK'
    <2>1. [pc EXCEPT ![t] = "ended"] \in [Tasks -> PCs]
      BY DEF TypeOK, PCs
    <2>2. live >= 1
      BY <1>12, CountersPositive DEF Finish
    <2>3. live' \in Nat
      BY <1>12, <2>2 DEF TypeOK, Finish
    <2>4. Wake([pc EXCEPT ![t] = "ended"])
      BY <1>12 DEF Finish
    <2>5. /\ pc' \in [Tasks -> PCs] /\ since' \in [Tasks -> Nat]
          /\ blocked' \in Nat /\ epoch' \in Nat
      BY <2>1, <2>4, WakeType
    <2> QED
      BY <1>12, <2>3, <2>5 DEF TypeOK, Finish, chans, cells
  <1>13. ASSUME NEW t \in Tasks, RuntimeError(t)  PROVE TypeOK'
    BY <1>13 DEF TypeOK, RuntimeError, PCs, sched, chans, cells
  <1>14. ASSUME NEW t \in Tasks, Report(t)  PROVE TypeOK'
    BY <1>14 DEF TypeOK, Report, sched, chans, cells
  <1>15. ASSUME NEW t \in Tasks, SpuriousWakeup(t)  PROVE TypeOK'
    BY <1>15 DEF TypeOK, SpuriousWakeup, PCs, sched, chans, cells
  <1>16. CASE UNCHANGED vars
    BY <1>16 DEF TypeOK, vars
  <1> QED
    BY <1>1, <1>2, <1>3, <1>5, <1>6, <1>7, <1>8, <1>9, <1>10, <1>11, <1>12,
       <1>13, <1>14, <1>15, <1>16 DEF Next, Step, Exited

-----------------------------------------------------------------------------
(* The kinds of steps, seen from the waiting threads *)

VerdictFree == \A t \in Tasks : why[t] # "deadlock"

\* Everyone is notified; the actor was awake, so there was no verdict.
WakeStep ==
  /\ VerdictFree /\ VerdictFree'
  /\ blocked' = 0 /\ FreshSet' = {}
  /\ \A u \in Tasks : pc'[u] # "parked"

\* Nobody is notified, and nothing anyone waits for becomes true.
KeepStep ==
  /\ blocked' = blocked /\ FreshSet' = FreshSet
  /\ \A u \in Tasks : pc'[u] = "parked" => pc[u] = "parked"
  /\ \A u \in FreshSet : Ready(op[u])' => Ready(op[u])
  /\ (VerdictFree /\ VerdictFree') \/ (why' = why /\ LiveSet' = LiveSet)
  /\ \E u \in LiveSet' : u \notin FreshSet

ParkStep(t) ==
  /\ t \in LiveSet /\ ~Ready(op[t])
  /\ blocked' = Cardinality(FreshSet \ {t}) + 1 /\ blocked' < live
  /\ FreshSet' = FreshSet \cup {t}
  /\ \A u \in Tasks : pc'[u] = "parked" => pc[u] = "parked" \/ u = t
  /\ UNCHANGED <<op, why, chans, done, live, outcome>> /\ LiveSet' = LiveSet

VerdictStep(t) ==
  /\ t \in LiveSet /\ ~Ready(op[t])
  /\ blocked' = Cardinality(FreshSet \ {t}) /\ blocked' + 1 >= live
  /\ FreshSet' = FreshSet \ {t}
  /\ \A u \in Tasks : pc'[u] = "parked" => pc[u] = "parked" /\ u # t
  /\ op' = [op EXCEPT ![t] = Idle]
  /\ why' = [why EXCEPT ![t] = "deadlock"]
  /\ UNCHANGED <<chans, done, live, outcome>> /\ LiveSet' = LiveSet

\* A thread that is awake, or was notified, shows that nobody has a verdict.
LEMMA NoVerdict ==
  ASSUME IndInv, NEW t \in LiveSet, pc[t] # "failed", t \notin FreshSet
  PROVE  VerdictFree
  BY DEF IndInv, VerdictFacts, VerdictFree, FreshSet, LiveSet, Bookkeeping, TypeOK

LEMMA WakeEffect ==
  ASSUME IndInv, NEW t \in LiveSet, pc[t] # "failed", t \notin FreshSet,
         NEW p, Wake(p), DOMAIN p = Tasks,
         why' = why \/ (why' = [why EXCEPT ![t] = "closed"])
  PROVE  WakeStep
  <1>1. VerdictFree
    BY NoVerdict
  <1>2. VerdictFree'
    BY <1>1 DEF VerdictFree, IndInv, TypeOK
  <1>3. \A u \in Tasks : pc'[u] # "parked"
    BY DEF Wake, NotifyAll
  <1>4. \A u \in Tasks : since'[u] # epoch'
    BY DEF Wake, IndInv, Bookkeeping, TypeOK
  <1>5. FreshSet' = {}
    BY <1>4 DEF FreshSet, Fresh
  <1> QED
    BY <1>1, <1>2, <1>3, <1>5 DEF WakeStep, Wake

\* A step of t outside the lock, or that only raises `live`: the waiting
\* threads keep their place and their call.
LEMMA KeepEffect ==
  ASSUME IndInv, NEW t \in Tasks, t \notin FreshSet, NEW u \in Tasks,
         ~Waiting(u), UNCHANGED <<blocked, epoch, since, chans, done>>,
         \A w \in Tasks \ {t, u} : pc'[w] = pc[w],
         \A w \in Tasks \ {t} : op'[w] = op[w],
         pc'[t] \notin {"parked", "woken", "unborn", "ended"}, ~Waiting(u)',
         live' <= 1 => (live <= 1 \/ Main \notin FreshSet),
         (VerdictFree /\ VerdictFree') \/ (why' = why /\ LiveSet' = LiveSet)
  PROVE  KeepStep
  <1>1. \A w \in Tasks : Fresh(w)' <=> Fresh(w)
    BY DEF Fresh, Waiting, FreshSet
  <1>2. FreshSet' = FreshSet
    BY <1>1 DEF FreshSet
  <1>3. \A w \in Tasks : pc'[w] = "parked" => pc[w] = "parked"
    BY DEF Waiting
  <1>4. ASSUME NEW w \in FreshSet, Ready(op[w])'  PROVE Ready(op[w])
    <2>1. w # t /\ w \in Tasks
      BY DEF FreshSet
    <2>2. op[w].kind = "all" => w = Main
      BY <2>1 DEF IndInv, Bookkeeping
    <2> QED
      BY <1>4, <2>1, <2>2 DEF Ready, chans
  <1>5. t \in LiveSet'
    BY DEF LiveSet
  <1> QED
    BY <1>2, <1>3, <1>4, <1>5 DEF KeepStep

LEMMA LoopKinds ==
  ASSUME IndInv, NEW t \in Tasks, pc[t] \in {"locking", "woken"},
         NEW b \in Nat, b = Cardinality(FreshSet \ {t}), WaitLoop(t, b)
  PROVE  WakeStep \/ ParkStep(t) \/ VerdictStep(t)
  <1>0. t \in LiveSet /\ pc[t] # "failed"
    BY DEF LiveSet
  <1>1. CASE Proceed(t)
    <2>1. t \notin FreshSet
      BY <1>1 DEF Proceed, IndInv, CountedFacts, FreshSet
    <2>2. PICK p : /\ Wake(p) /\ DOMAIN p = Tasks
                   /\ why' = why \/ why' = [why EXCEPT ![t] = "closed"]
      <3>1. DOMAIN pc = Tasks
        BY DEF IndInv, TypeOK
      <3>2. ASSUME NEW c \in Chans, ActSend(t, c)
            PROVE  \/ Wake([pc EXCEPT ![t] = "running"]) /\ why' = why
                   \/ /\ Wake([pc EXCEPT ![t] = "failed"])
                      /\ why' = [why EXCEPT ![t] = "closed"]
        BY <3>2 DEF ActSend
      <3>3. ASSUME NEW c \in Chans, ActRecv(t, c)
            PROVE  Wake([pc EXCEPT ![t] = "running"]) /\ why' = why
        BY <3>3 DEF ActRecv
      <3>4. ASSUME ActWait(t)
            PROVE  Wake([pc EXCEPT ![t] = "reading"]) /\ why' = why
        BY <3>4 DEF ActWait
      <3>5. ASSUME ActAll(t)  PROVE  Wake(pc) /\ why' = why
        BY <3>5 DEF ActAll
      <3>6. \A x : DOMAIN [pc EXCEPT ![t] = x] = Tasks
        BY <3>1
      <3> QED
        BY <1>1, <3>1, <3>2, <3>3, <3>4, <3>5, <3>6, Zenon DEF Proceed
    <2> QED
      BY <1>0, <2>1, <2>2, WakeEffect
  <1>2. CASE Verdict(t, b)
    <2>1. \A u \in Tasks : pc'[u] = IF u = t THEN "failed" ELSE pc[u]
      BY <1>2 DEF Verdict, IndInv, TypeOK
    <2>2. FreshSet' = FreshSet \ {t}
      BY <1>2, <2>1 DEF Verdict, FreshSet, Fresh, Waiting
    <2>3. LiveSet' = LiveSet
      BY <1>0, <2>1 DEF LiveSet
    <2> QED
      BY <1>0, <1>2, <2>1, <2>2, <2>3 DEF Verdict, VerdictStep, cells
  <1>3. CASE Park(t, b)
    <2>1. \A u \in Tasks : pc'[u] = IF u = t THEN "parked" ELSE pc[u]
      BY <1>3 DEF Park, IndInv, TypeOK
    <2>2. \A u \in Tasks : since'[u] = IF u = t THEN epoch ELSE since[u]
      BY <1>3 DEF Park, IndInv, TypeOK
    <2>3. FreshSet' = FreshSet \cup {t}
      BY <1>3, <2>1, <2>2 DEF Park, FreshSet, Fresh, Waiting
    <2>4. LiveSet' = LiveSet
      BY <1>0, <2>1 DEF LiveSet
    <2> QED
      BY <1>0, <1>3, <2>1, <2>3, <2>4 DEF Park, ParkStep, cells
  <1> QED
    BY <1>1, <1>2, <1>3 DEF WaitLoop

\* A refused thread lowers `live` with no wake, but main, the starting task
\* and the refused one were three, so main's wait for everyone stays false.
LEMMA RefusedCount ==
  ASSUME IndInv, NEW t \in Tasks, ThreadRefused(t), Main \in FreshSet
  PROVE  live >= 3
  <1>1. PICK u \in Tasks : u = op[t].task /\ pc[u] = "born" /\ pc[t] = "starting"
    BY OpFields DEF IndInv, Bookkeeping, TypeOK, ThreadRefused
  <1>2. pc[Main] \in {"parked", "woken"} /\ Main \in Tasks
    BY ConcAssumption DEF ConcAssumption, FreshSet, Fresh, Waiting
  <1>3. LiveSet \in SUBSET Tasks /\ t \in LiveSet /\ u \in LiveSet /\ Main \in LiveSet
    BY <1>1, <1>2 DEF LiveSet
  <1>4. t # u /\ t # Main /\ u # Main
    BY <1>1, <1>2
  <1>5. LiveSet \ {t} \in SUBSET Tasks /\ (LiveSet \ {t}) \ {u} \in SUBSET Tasks
    BY <1>3
  <1>6. Cardinality(LiveSet \ {t}) = Cardinality(LiveSet) - 1
    BY <1>3, Counting
  <1>7. Cardinality((LiveSet \ {t}) \ {u}) = Cardinality(LiveSet \ {t}) - 1
    BY <1>3, <1>4, <1>5, Counting
  <1>8. Cardinality(((LiveSet \ {t}) \ {u}) \ {Main})
          = Cardinality((LiveSet \ {t}) \ {u}) - 1
    <2>1. Main \in (LiveSet \ {t}) \ {u}
      BY <1>3, <1>4
    <2> QED
      BY <1>5, <2>1, Counting
  <1>9. Cardinality(((LiveSet \ {t}) \ {u}) \ {Main}) \in Nat /\ Cardinality(LiveSet) \in Nat
    BY <1>3, Counting
  <1>10. live = Cardinality(LiveSet)
    BY DEF IndInv, CountersExact
  <1> QED
    BY <1>6, <1>7, <1>8, <1>9, <1>10

\* Every step is of one of the four kinds.
LEMMA StepKinds ==
  ASSUME IndInv, [Next]_vars
  PROVE  WakeStep \/ KeepStep \/ \E t \in Tasks : ParkStep(t) \/ VerdictStep(t)
  <1> DEFINE Goal == WakeStep \/ KeepStep \/ \E t \in Tasks : ParkStep(t) \/ VerdictStep(t)
  <1>0. ASSUME NEW t \in Tasks,
               pc[t] \in {"running", "starting", "reading", "stored", "marked"}
        PROVE  t \in LiveSet /\ t \notin FreshSet /\ VerdictFree
    <2>1. t \in LiveSet /\ t \notin FreshSet /\ pc[t] # "failed"
      BY <1>0 DEF LiveSet, FreshSet, Fresh, Waiting
    <2> QED
      BY <2>1, NoVerdict
  <1>1. ASSUME NEW t \in Tasks, NEW u \in Tasks, Start(t, u)  PROVE Goal
    <2>1. \A w \in Tasks : pc'[w] = IF w = u THEN "born" ELSE IF w = t THEN "starting" ELSE pc[w]
      BY <1>1 DEF Start, IndInv, TypeOK
    <2>2. \A w \in Tasks \ {t} : op'[w] = op[w]
      BY <1>1 DEF Start, IndInv, TypeOK
    <2>3. VerdictFree /\ VerdictFree' /\ t \notin FreshSet
      BY <1>0, <1>1 DEF Start, VerdictFree
    <2>4. live' <= 1 => live <= 1
      BY <1>1 DEF Start, IndInv, TypeOK
    <2>a. t # u /\ ~Waiting(u)
      BY <1>1 DEF Start, Waiting
    <2>b. ~Waiting(u)' /\ pc'[t] \notin {"parked", "woken", "unborn", "ended"}
      BY <2>a, <2>1 DEF Waiting
    <2>5. UNCHANGED <<blocked, epoch, since, chans, done>> /\ ~Waiting(u) /\ ~Waiting(u)'
            /\ pc'[t] \notin {"parked", "woken", "unborn", "ended"}
      BY <1>1, <2>a, <2>b DEF Start, cells
    <2> QED
      BY <2>1, <2>2, <2>3, <2>4, <2>5, KeepEffect
  <1>2. ASSUME NEW t \in Tasks, ThreadStarts(t)  PROVE Goal
    <2>1. PICK u \in Tasks : u = op[t].task /\ pc[u] = "born" /\ pc[t] = "starting"
      BY <1>2, OpFields DEF IndInv, Bookkeeping, TypeOK, ThreadStarts
    <2>2. \A w \in Tasks : pc'[w] = IF w = u \/ w = t THEN "running" ELSE pc[w]
      BY <1>2, <2>1 DEF ThreadStarts, IndInv, TypeOK
    <2>3. \A w \in Tasks \ {t} : op'[w] = op[w]
      BY <1>2 DEF ThreadStarts, IndInv, TypeOK
    <2>4. VerdictFree /\ VerdictFree' /\ t \notin FreshSet
      BY <1>0, <1>2 DEF ThreadStarts, VerdictFree
    <2>b. ~Waiting(u) /\ ~Waiting(u)' /\ pc'[t] \notin {"parked", "woken", "unborn", "ended"}
      BY <2>1, <2>2 DEF Waiting
    <2>5. UNCHANGED <<blocked, epoch, since, chans, done, live>> /\ ~Waiting(u) /\ ~Waiting(u)'
            /\ pc'[t] \notin {"parked", "woken", "unborn", "ended"}
      BY <1>2, <2>b DEF ThreadStarts, sched, cells
    <2> QED
      BY <2>1, <2>2, <2>3, <2>4, <2>5, KeepEffect
  <1>3. ASSUME NEW t \in Tasks, ThreadRefused(t)  PROVE Goal
    <2>1. PICK u \in Tasks : u = op[t].task /\ pc[u] = "born" /\ pc[t] = "starting"
      BY <1>3, OpFields DEF IndInv, Bookkeeping, TypeOK, ThreadRefused
    <2>2. \A w \in Tasks : pc'[w] = IF w = u THEN "unborn" ELSE IF w = t THEN "failed" ELSE pc[w]
      BY <1>3, <2>1 DEF ThreadRefused, IndInv, TypeOK
    <2>3. \A w \in Tasks \ {t} : op'[w] = op[w]
      BY <1>3 DEF ThreadRefused, IndInv, TypeOK
    <2>4. VerdictFree /\ VerdictFree' /\ t \notin FreshSet
      BY <1>0, <1>3 DEF ThreadRefused, VerdictFree, IndInv, TypeOK
    <2>b. ~Waiting(u) /\ ~Waiting(u)' /\ pc'[t] \notin {"parked", "woken", "unborn", "ended"}
      BY <2>1, <2>2 DEF Waiting
    <2>5. UNCHANGED <<blocked, epoch, since, chans, done>> /\ ~Waiting(u) /\ ~Waiting(u)'
            /\ pc'[t] \notin {"parked", "woken", "unborn", "ended"}
      BY <1>3, <2>b DEF ThreadRefused, cells
    <2>6. live' <= 1 => Main \notin FreshSet
      <3>1. live' = live - 1 /\ live \in Nat
        BY <1>3 DEF ThreadRefused, IndInv, TypeOK
      <3>2. Main \in FreshSet => live >= 3
        BY <1>3, RefusedCount
      <3> QED
        BY <3>1, <3>2
    <2> QED
      BY <2>1, <2>2, <2>3, <2>4, <2>5, <2>6, KeepEffect
  \* Steps of t alone that touch neither the counters nor the channels.
  <1>4. ASSUME NEW t \in Tasks, NEW x \in PCs \ {"parked", "woken", "unborn", "ended"},
               pc[t] \in {"running", "starting", "reading", "stored", "marked"},
               pc' = [pc EXCEPT ![t] = x],
               \A w \in Tasks \ {t} : op'[w] = op[w],
               why' = why \/ why' = [why EXCEPT ![t] = "error"],
               UNCHANGED <<sched, chans, done>>
        PROVE  Goal
    <2>1. \A w \in Tasks : pc'[w] = IF w = t THEN x ELSE pc[w]
      BY <1>4 DEF IndInv, TypeOK
    <2>2. VerdictFree /\ VerdictFree' /\ t \notin FreshSet
      BY <1>0, <1>4 DEF VerdictFree, IndInv, TypeOK
    <2>3. UNCHANGED <<blocked, epoch, since, chans, done, live>> /\ ~Waiting(t)
            /\ ~Waiting(t)' /\ pc'[t] \notin {"parked", "woken", "unborn", "ended"}
      BY <1>4, <2>1 DEF sched, Waiting
    <2> QED
      BY <1>4, <2>1, <2>2, <2>3, KeepEffect
  <1>5. ASSUME NEW t \in Tasks, NEW o, Call(t, o)  PROVE Goal
    <2>1. "locking" \in PCs \ {"parked", "woken", "unborn", "ended"}
      BY DEF PCs
    <2>2. \A w \in Tasks \ {t} : op'[w] = op[w]
      BY <1>5 DEF Call, IndInv, TypeOK
    <2> QED
      BY <1>4, <1>5, <2>1, <2>2 DEF Call, cells
  <1>6. ASSUME NEW t \in Tasks, CallSend(t) \/ CallRecv(t) \/ CallWait(t) \/ MainEnds(t)
        PROVE  Goal
    BY <1>5, <1>6 DEF CallSend, CallRecv, CallWait, MainEnds
  <1>7. ASSUME NEW t \in Tasks, ReadResult(t)  PROVE Goal
    <2>1. "running" \in PCs \ {"parked", "woken", "unborn", "ended"}
      BY DEF PCs
    <2>2. \A w \in Tasks \ {t} : op'[w] = op[w]
      BY <1>7 DEF ReadResult, IndInv, TypeOK
    <2> QED
      BY <1>4, <1>7, <2>1, <2>2 DEF ReadResult, cells
  <1>8. ASSUME NEW t \in Tasks, StoreResult(t)  PROVE Goal
    <2>1. "stored" \in PCs \ {"parked", "woken", "unborn", "ended"}
      BY DEF PCs
    <2> QED
      BY <1>4, <1>8, <2>1 DEF StoreResult
  <1>9. ASSUME NEW t \in Tasks, RuntimeError(t)  PROVE Goal
    <2>1. "failed" \in PCs \ {"parked", "woken", "unborn", "ended"}
      BY DEF PCs
    <2> QED
      BY <1>4, <1>9, <2>1 DEF RuntimeError, cells
  <1>10. ASSUME NEW t \in Tasks, NEW p, Wake(p), DOMAIN p = Tasks, why' = why,
                pc[t] \in {"running", "starting", "reading", "stored", "marked"}
         PROVE  Goal
    BY <1>0, <1>10, WakeEffect
  <1>11. ASSUME NEW t \in Tasks, NEW c \in Chans, Close(t, c)  PROVE Goal
    BY <1>10, <1>11 DEF Close, IndInv, TypeOK
  <1>12. ASSUME NEW t \in Tasks, MarkDone(t)  PROVE Goal
    <2>1. DOMAIN [pc EXCEPT ![t] = "marked"] = Tasks
      BY DEF IndInv, TypeOK
    <2> QED
      BY <1>10, <1>12, <2>1 DEF MarkDone
  <1>13. ASSUME NEW t \in Tasks, Finish(t)  PROVE Goal
    <2>1. DOMAIN [pc EXCEPT ![t] = "ended"] = Tasks
      BY DEF IndInv, TypeOK
    <2> QED
      BY <1>10, <1>13, <2>1 DEF Finish
  <1>14. ASSUME NEW t \in Tasks, Enter(t)  PROVE Goal
    <2>1. t \notin FreshSet /\ FreshSet \ {t} = FreshSet
      BY <1>14 DEF Enter, FreshSet, Fresh, Waiting
    <2>2. blocked \in Nat /\ blocked = Cardinality(FreshSet \ {t})
      BY <2>1 DEF IndInv, TypeOK, CountersExact
    <2> QED
      BY <1>14, <2>2, LoopKinds DEF Enter
  <1>15. ASSUME NEW t \in Tasks, Return(t)  PROVE Goal
    <2>1. t \in FreshSet <=> since[t] = epoch
      BY <1>15 DEF Return, FreshSet, Fresh, Waiting
    <2>2. FreshSet \in SUBSET Tasks
      BY DEF FreshSet
    <2>3. blocked = Cardinality(FreshSet)
      BY DEF IndInv, CountersExact
    <2>4. Uncount(t) = Cardinality(FreshSet \ {t})
      BY <2>1, <2>2, <2>3, Counting DEF Uncount
    <2>5. FreshSet \ {t} \in SUBSET Tasks
      BY <2>2
    <2>6. Cardinality(FreshSet \ {t}) \in Nat
      BY <2>5, Counting
    <2> QED
      BY <1>15, <2>4, <2>6, LoopKinds DEF Return
  <1>16. ASSUME NEW t \in Tasks, SpuriousWakeup(t)  PROVE Goal
    <2>1. \A w \in Tasks : pc'[w] = IF w = t THEN "woken" ELSE pc[w]
      BY <1>16 DEF SpuriousWakeup, IndInv, TypeOK
    <2>2. LiveSet' = LiveSet
      BY <1>16, <2>1 DEF LiveSet, SpuriousWakeup
    <2>3. FreshSet' = FreshSet
      BY <1>16, <2>1 DEF FreshSet, Fresh, Waiting, SpuriousWakeup, sched
    <2>4. \A w \in FreshSet : Ready(op[w])' => Ready(op[w])
      BY <1>16 DEF SpuriousWakeup, Ready, sched, chans, cells
    <2> QED
      BY <1>16, <2>1, <2>2, <2>3, <2>4 DEF SpuriousWakeup, KeepStep, IndInv, sched
  <1>17. ASSUME UNCHANGED <<pc, op, sched, why, chans, cells>>  PROVE Goal
    BY <1>17 DEF KeepStep, IndInv, FreshSet, Fresh, Waiting, LiveSet, Ready, sched, chans, cells
  <1>18. ASSUME NEW t \in Tasks, Report(t)  PROVE Goal
    BY <1>17, <1>18 DEF Report
  <1>19. ASSUME UNCHANGED vars  PROVE Goal
    BY <1>17, <1>19 DEF vars, sched, chans, cells
  <1> HIDE DEF Goal
  <1>20. ASSUME NEW t \in Tasks, Step(t)  PROVE Goal
    BY <1>1, <1>2, <1>3, <1>6, <1>7, <1>8, <1>9, <1>11, <1>12, <1>13, <1>14,
       <1>15, <1>18, <1>20, Zenon DEF Step
  <1>21. Goal
    <2>1. ASSUME \E t \in Tasks : Step(t) \/ SpuriousWakeup(t)  PROVE Goal
      BY <1>16, <1>20, <2>1
    <2>2. ASSUME Exited  PROVE Goal
      BY <1>19, <2>2 DEF Exited
    <2> QED
      BY <1>19, <2>1, <2>2 DEF Next
  <1> QED
    BY <1>21 DEF Goal

-----------------------------------------------------------------------------
(* What a step preserves, kind by kind *)

LEMMA NextBlocked ==
  ASSUME IndInv, [Next]_vars
  PROVE  blocked' = Cardinality(FreshSet')
  <1>1. FreshSet \in SUBSET Tasks
    BY DEF FreshSet
  <1>2. CASE WakeStep
    BY <1>2, FS_EmptySet DEF WakeStep
  <1>3. CASE KeepStep
    BY <1>3 DEF KeepStep, IndInv, CountersExact
  <1>4. ASSUME NEW t \in Tasks, ParkStep(t)  PROVE blocked' = Cardinality(FreshSet')
    <2>1. FreshSet \ {t} \in SUBSET Tasks /\ t \notin FreshSet \ {t}
      BY <1>1
    <2>2. Cardinality((FreshSet \ {t}) \cup {t}) = Cardinality(FreshSet \ {t}) + 1
      BY <2>1, Counting
    <2>3. (FreshSet \ {t}) \cup {t} = FreshSet'
      BY <1>4 DEF ParkStep
    <2> QED
      BY <1>4, <2>2, <2>3 DEF ParkStep
  <1>5. ASSUME NEW t \in Tasks, VerdictStep(t)  PROVE blocked' = Cardinality(FreshSet')
    BY <1>5 DEF VerdictStep
  <1> QED
    BY <1>2, <1>3, <1>4, <1>5, StepKinds

LEMMA NextCounted ==
  ASSUME IndInv, [Next]_vars, TypeOK'
  PROVE  CountedFacts'
  <1>0. /\ \A u \in Tasks : u \in FreshSet <=> Fresh(u)
        /\ \A u \in Tasks : u \in FreshSet' <=> Fresh(u)'
        /\ \A u \in Tasks : pc[u] = "parked" => u \in FreshSet
        /\ \A u \in FreshSet : u \in Tasks /\ ~Ready(op[u])
    BY DEF FreshSet, IndInv, CountedFacts
  <1>1. SUFFICES /\ \A u \in Tasks : pc'[u] = "parked" => u \in FreshSet'
                 /\ \A u \in FreshSet' : ~Ready(op[u])'
    BY <1>0 DEF CountedFacts
  <1>2. CASE WakeStep
    BY <1>2 DEF WakeStep
  <1>3. CASE KeepStep
    BY <1>0, <1>3 DEF KeepStep
  <1>4. ASSUME NEW t \in Tasks, ParkStep(t)
        PROVE  /\ \A u \in Tasks : pc'[u] = "parked" => u \in FreshSet'
               /\ \A u \in FreshSet' : ~Ready(op[u])'
    <2>1. \A u \in Tasks : ~Ready(op[u]) => ~Ready(op[u])'
      BY <1>4 DEF ParkStep, Ready, chans
    <2> QED
      BY <1>0, <1>4, <2>1 DEF ParkStep
  <1>5. ASSUME NEW t \in Tasks, VerdictStep(t)
        PROVE  /\ \A u \in Tasks : pc'[u] = "parked" => u \in FreshSet'
               /\ \A u \in FreshSet' : ~Ready(op[u])'
    <2>1. \A u \in Tasks \ {t} : op'[u] = op[u]
      BY <1>5 DEF VerdictStep, IndInv, TypeOK
    <2>2. \A u \in Tasks \ {t} : ~Ready(op[u]) => ~Ready(op[u])'
      BY <1>5, <2>1 DEF VerdictStep, Ready, chans
    <2> QED
      BY <1>0, <1>5, <2>2 DEF VerdictStep
  <1> QED
    BY <1>2, <1>3, <1>4, <1>5, StepKinds

\* A verdict means that all the others are counted; nobody else can get one.
LEMMA NextVerdict ==
  ASSUME IndInv, [Next]_vars
  PROVE  VerdictFacts'
  <1>0. /\ FreshSet \in SUBSET Tasks /\ LiveSet \in SUBSET Tasks
        /\ FreshSet \subseteq LiveSet
        /\ \A u \in Tasks : u \in FreshSet' <=> Fresh(u)'
        /\ \A u \in Tasks : u \in FreshSet <=> Fresh(u)
        /\ live = Cardinality(LiveSet)
    BY DEF FreshSet, Fresh, Waiting, LiveSet, IndInv, CountersExact
  <1>1. CASE VerdictFree'
    BY <1>1 DEF VerdictFree, VerdictFacts
  <1>2. ASSUME why' = why, LiveSet' = LiveSet, FreshSet \subseteq FreshSet'
        PROVE  VerdictFacts'
    BY <1>0, <1>2 DEF VerdictFacts, IndInv
  <1>3. CASE KeepStep
    BY <1>1, <1>2, <1>3 DEF KeepStep
  <1>4. ASSUME NEW t \in Tasks, ParkStep(t)  PROVE VerdictFacts'
    BY <1>2, <1>4 DEF ParkStep
  <1>5. ASSUME NEW t \in Tasks, VerdictStep(t)  PROVE VerdictFacts'
    <2>1. /\ FreshSet \ {t} \subseteq LiveSet \ {t}
          /\ LiveSet \ {t} \in SUBSET Tasks /\ FreshSet \ {t} \in SUBSET Tasks
          /\ t \in LiveSet
      BY <1>0, <1>5 DEF VerdictStep
    <2>2. Cardinality(LiveSet \ {t}) = live - 1
      BY <1>0, <2>1, Counting
    <2>3. Cardinality(FreshSet \ {t}) >= live - 1
      <3>1. Cardinality(FreshSet \ {t}) \in Nat /\ live \in Nat
        BY <1>0, <2>1, Counting
      <3> QED
        BY <1>5, <3>1 DEF VerdictStep
    <2>4. Cardinality(FreshSet \ {t}) <= Cardinality(LiveSet \ {t})
      BY <2>1, Counting
    <2>5. Cardinality(FreshSet \ {t}) = Cardinality(LiveSet \ {t})
      <3>1. /\ Cardinality(FreshSet \ {t}) \in Nat
            /\ Cardinality(LiveSet \ {t}) \in Nat
        BY <2>1, Counting
      <3> QED
        BY <2>2, <2>3, <2>4, <3>1
    <2>6. FreshSet \ {t} = LiveSet \ {t}
      BY <2>1, <2>5, Counting
    <2>7. \A u \in LiveSet \ {t} : Fresh(u)'
      BY <1>0, <1>5, <2>6 DEF VerdictStep
    <2>8. ASSUME NEW u \in Tasks, u # t, why'[u] = "deadlock"  PROVE FALSE
      <3>1. why[u] = "deadlock"
        BY <1>5, <2>8 DEF VerdictStep, IndInv, TypeOK
      <3>2. Fresh(t) /\ pc[u] = "failed"
        BY <2>1, <2>8, <3>1 DEF IndInv, VerdictFacts, Bookkeeping
      <3>3. u \in LiveSet \ {t} /\ u \notin FreshSet
        BY <2>8, <3>2 DEF LiveSet, FreshSet, Fresh, Waiting
      <3> QED
        BY <2>6, <3>3
    <2> QED
      BY <1>5, <2>7, <2>8 DEF VerdictFacts, VerdictStep
  <1>6. CASE WakeStep
    BY <1>1, <1>6 DEF WakeStep
  <1> QED
    BY <1>3, <1>4, <1>5, <1>6, StepKinds

\* Somebody stays awake: nobody parks as the last one (see ParkStep).
LEMMA NextAwake ==
  ASSUME IndInv, [Next]_vars, TypeOK', Bookkeeping'
  PROVE  \E t \in LiveSet' : t \notin FreshSet'
  <1>0. PICK a \in LiveSet : a \notin FreshSet
    BY DEF IndInv
  <1>1. CASE FreshSet' = {}
    <2>1. Main \in LiveSet'
      BY ConcAssumption DEF ConcAssumption, Bookkeeping, LiveSet
    <2> QED
      BY <1>1, <2>1
  <1>2. CASE LiveSet' = LiveSet /\ FreshSet' \subseteq FreshSet
    BY <1>0, <1>2
  <1>3. ASSUME NEW t \in Tasks, ParkStep(t)
        PROVE  \E u \in LiveSet' : u \notin FreshSet'
    <2>1. FreshSet \in SUBSET Tasks /\ LiveSet \in SUBSET Tasks
            /\ FreshSet \subseteq LiveSet /\ t \in LiveSet /\ LiveSet' = LiveSet
      BY <1>3 DEF FreshSet, Fresh, Waiting, LiveSet, ParkStep
    <2>2. FreshSet' = FreshSet \cup {t} /\ FreshSet' \in SUBSET LiveSet
      BY <1>3, <2>1 DEF ParkStep
    <2>3. blocked' = Cardinality(FreshSet') /\ blocked' < live
            /\ live = Cardinality(LiveSet)
      BY <1>3, NextBlocked DEF ParkStep, IndInv, CountersExact
    <2>4. Cardinality(FreshSet') \in Nat /\ Cardinality(LiveSet) \in Nat
      BY <2>1, <2>2, Counting
    <2>5. FreshSet' # LiveSet
      BY <2>3, <2>4
    <2> QED
      BY <2>1, <2>2, <2>5
  <1>4. CASE KeepStep
    BY <1>4 DEF KeepStep
  <1>5. ASSUME NEW t \in Tasks, VerdictStep(t)
        PROVE  \E u \in LiveSet' : u \notin FreshSet'
    BY <1>2, <1>5 DEF VerdictStep
  <1>6. CASE WakeStep
    BY <1>1, <1>6 DEF WakeStep
  <1> QED
    BY <1>3, <1>4, <1>5, <1>6, StepKinds

LEMMA NextLive ==
  ASSUME IndInv, [Next]_vars
  PROVE  live' = Cardinality(LiveSet')
  <1>0. LiveSet \in SUBSET Tasks /\ live = Cardinality(LiveSet)
    BY DEF LiveSet, IndInv, CountersExact
  <1>1. ASSUME NEW t \in Tasks, NEW u \in Tasks, Start(t, u)
        PROVE  live' = Cardinality(LiveSet')
    <2>1. LiveSet' = LiveSet \cup {u} /\ u \notin LiveSet
      BY <1>1 DEF Start, LiveSet, IndInv, TypeOK
    <2> QED
      BY <1>0, <1>1, <2>1, Counting DEF Start
  <1>2. ASSUME NEW t \in Tasks, NEW u \in LiveSet, live' = live - 1,
               LiveSet' = LiveSet \ {u}
        PROVE  live' = Cardinality(LiveSet')
    BY <1>0, <1>2, Counting
  <1>3. ASSUME NEW t \in Tasks, ThreadRefused(t)
        PROVE  live' = Cardinality(LiveSet')
    <2>1. PICK u \in Tasks : u = op[t].task /\ pc[u] = "born" /\ pc[t] = "starting"
      BY <1>3, OpFields DEF IndInv, Bookkeeping, TypeOK, ThreadRefused
    <2>2. \A w \in Tasks : pc'[w] = IF w = u THEN "unborn" ELSE IF w = t THEN "failed" ELSE pc[w]
      BY <1>3, <2>1 DEF ThreadRefused, IndInv, TypeOK
    <2>3. LiveSet' = LiveSet \ {u} /\ u \in LiveSet
      BY <2>1, <2>2 DEF LiveSet
    <2> QED
      BY <1>2, <1>3, <2>3 DEF ThreadRefused
  <1>4. ASSUME NEW t \in Tasks, Finish(t)
        PROVE  live' = Cardinality(LiveSet')
    <2>1. \A w \in Tasks : pc'[w] = IF w = t THEN "ended"
                                    ELSE IF pc[w] = "parked" THEN "woken" ELSE pc[w]
      BY <1>4 DEF Finish, Wake, NotifyAll, IndInv, TypeOK
    <2>2. LiveSet' = LiveSet \ {t} /\ t \in LiveSet
      BY <1>4, <2>1 DEF LiveSet, Finish
    <2> QED
      BY <1>2, <1>4, <2>2 DEF Finish
  <1>5. ASSUME live' = live,
               \A w \in Tasks : pc[w] \in {"unborn", "ended"} <=> pc'[w] \in {"unborn", "ended"}
        PROVE  live' = Cardinality(LiveSet')
    <2>1. LiveSet' = LiveSet
      BY <1>5 DEF LiveSet
    <2> QED
      BY <1>0, <1>5, <2>1
  <1>6. ASSUME NEW t \in Tasks, pc[t] \notin {"unborn", "ended"}, live' = live,
               NEW x, x \notin {"unborn", "ended"}, pc' = [pc EXCEPT ![t] = x]
        PROVE  live' = Cardinality(LiveSet')
    BY <1>5, <1>6 DEF IndInv, TypeOK
  <1>7. ASSUME NEW t \in Tasks, pc[t] \notin {"unborn", "ended"}, live' = live,
               NEW x, x \notin {"unborn", "ended"}, Wake([pc EXCEPT ![t] = x])
        PROVE  live' = Cardinality(LiveSet')
    <2>1. \A w \in Tasks : pc'[w] = IF w = t /\ x # "parked" THEN x
                                    ELSE IF w = t \/ pc[w] = "parked" THEN "woken" ELSE pc[w]
      BY <1>7 DEF Wake, NotifyAll, IndInv, TypeOK
    <2> QED
      BY <1>5, <1>7, <2>1
  <1>8. ASSUME live' = live, Wake(pc)  PROVE live' = Cardinality(LiveSet')
    BY <1>5, <1>8 DEF Wake, NotifyAll, IndInv, TypeOK
  <1>9. ASSUME NEW t \in Tasks, NEW b, pc[t] \in {"locking", "woken"}, WaitLoop(t, b)
        PROVE  live' = Cardinality(LiveSet')
    <2>1. ASSUME NEW c \in Chans, Proceed(t), ActSend(t, c)
          PROVE  live' = Cardinality(LiveSet')
      BY <1>7, <1>9, <2>1 DEF Proceed, ActSend
    <2>2. ASSUME NEW c \in Chans, Proceed(t), ActRecv(t, c)
          PROVE  live' = Cardinality(LiveSet')
      BY <1>7, <1>9, <2>2 DEF Proceed, ActRecv
    <2>3. ASSUME Proceed(t), ActWait(t)  PROVE live' = Cardinality(LiveSet')
      BY <1>7, <1>9, <2>3 DEF Proceed, ActWait
    <2>4. ASSUME Proceed(t), ActAll(t)  PROVE live' = Cardinality(LiveSet')
      BY <1>8, <1>9, <2>4 DEF Proceed, ActAll
    <2>5. CASE Verdict(t, b)
      BY <1>6, <1>9, <2>5 DEF Verdict
    <2>6. CASE Park(t, b)
      BY <1>6, <1>9, <2>6 DEF Park
    <2> QED
      BY <1>9, <2>1, <2>2, <2>3, <2>4, <2>5, <2>6, Zenon DEF WaitLoop, Proceed
  <1>10. ASSUME NEW t \in Tasks, ThreadStarts(t)  PROVE live' = Cardinality(LiveSet')
    <2>1. PICK u \in Tasks : u = op[t].task /\ pc[u] = "born" /\ pc[t] = "starting"
      BY <1>10, OpFields DEF IndInv, Bookkeeping, TypeOK, ThreadStarts
    <2>2. \A w \in Tasks : pc'[w] = IF w = u \/ w = t THEN "running" ELSE pc[w]
      BY <1>10, <2>1 DEF ThreadStarts, IndInv, TypeOK
    <2>3. \A w \in Tasks : pc[w] \in {"unborn", "ended"} <=> pc'[w] \in {"unborn", "ended"}
      BY <2>1, <2>2
    <2>4. live' = live
      BY <1>10 DEF ThreadStarts, sched
    <2> QED
      BY <1>5, <2>3, <2>4
  <1>11. ASSUME NEW t \in Tasks, NEW o, Call(t, o)  PROVE live' = Cardinality(LiveSet')
    BY <1>6, <1>11 DEF Call, sched
  <1>12. ASSUME NEW t \in Tasks, CallSend(t) \/ CallRecv(t) \/ CallWait(t) \/ MainEnds(t)
         PROVE  live' = Cardinality(LiveSet')
    BY <1>11, <1>12 DEF CallSend, CallRecv, CallWait, MainEnds
  <1>13. ASSUME NEW t \in Tasks, Enter(t) \/ Return(t)
         PROVE  live' = Cardinality(LiveSet')
    BY <1>9, <1>13 DEF Enter, Return
  <1>14. ASSUME NEW t \in Tasks, ReadResult(t)  PROVE live' = Cardinality(LiveSet')
    BY <1>6, <1>14 DEF ReadResult, sched
  <1>15. ASSUME NEW t \in Tasks, NEW c \in Chans, Close(t, c)
         PROVE  live' = Cardinality(LiveSet')
    BY <1>8, <1>15 DEF Close
  <1>16. ASSUME NEW t \in Tasks, StoreResult(t)  PROVE live' = Cardinality(LiveSet')
    BY <1>6, <1>16 DEF StoreResult, sched
  <1>17. ASSUME NEW t \in Tasks, MarkDone(t)  PROVE live' = Cardinality(LiveSet')
    BY <1>7, <1>17 DEF MarkDone
  <1>18. ASSUME NEW t \in Tasks, RuntimeError(t)  PROVE live' = Cardinality(LiveSet')
    BY <1>6, <1>18 DEF RuntimeError, sched
  <1>19. ASSUME NEW t \in Tasks, Report(t)  PROVE live' = Cardinality(LiveSet')
    BY <1>5, <1>19 DEF Report, sched
  <1>20. ASSUME NEW t \in Tasks, SpuriousWakeup(t)  PROVE live' = Cardinality(LiveSet')
    BY <1>6, <1>20 DEF SpuriousWakeup, sched
  <1>21. CASE UNCHANGED vars
    BY <1>5, <1>21 DEF vars
  <1>22. ASSUME NEW t \in Tasks, Step(t)  PROVE live' = Cardinality(LiveSet')
    BY <1>1, <1>3, <1>4, <1>10, <1>12, <1>13, <1>14, <1>15, <1>16, <1>17,
       <1>18, <1>19, <1>22, Zenon DEF Step
  <1> QED
    BY <1>20, <1>21, <1>22 DEF Next, Exited

\* A step that changes the place of t only (and wakes the parked).
LEMMA BookOne ==
  ASSUME IndInv, TypeOK', NEW t \in Tasks, pc[t] # "born", epoch' >= epoch,
         \A w \in Tasks \ {t} :
            /\ pc'[w] = pc[w] \/ (pc[w] = "parked" /\ pc'[w] = "woken")
            /\ op'[w] = op[w] /\ why'[w] = why[w] /\ done'[w] = done[w]
            /\ since'[w] = since[w],
         pc'[t] \notin {"starting", "born", "unborn"},
         t = Main => pc'[t] \notin {"stored", "marked", "ended"},
         pc'[t] \in {"locking", "parked", "woken"} =>
            op'[t].kind \in {"send", "recv", "wait", "all"},
         pc'[t] = "reading" => op'[t].kind = "wait" /\ done'[op'[t].task],
         op'[t].kind = "all" => t = Main,
         since'[t] <= epoch',
         done[t] => done'[t],
         done'[t] <=> pc'[t] \in {"marked", "ended"},
         why'[t] # "none" <=> pc'[t] = "failed"
  PROVE  Bookkeeping'
  <1>1. pc'[Main] \notin {"unborn", "born", "stored", "marked", "ended"}
    BY ConcAssumption DEF ConcAssumption, IndInv, Bookkeeping
  <1>2. ASSUME NEW w \in Tasks \ {t}
        PROVE  /\ pc'[w] \in {"locking", "parked", "woken"} =>
                     op'[w].kind \in {"send", "recv", "wait", "all"}
               /\ pc'[w] = "reading" => op'[w].kind = "wait" /\ done'[op'[w].task]
               /\ op'[w].kind = "all" => w = Main
               /\ pc'[w] = "starting" => op'[w].kind = "spawn" /\ pc'[op'[w].task] = "born"
               /\ since'[w] <= epoch'
               /\ done'[w] <=> pc'[w] \in {"marked", "ended"}
               /\ why'[w] # "none" <=> pc'[w] = "failed"
    <2>1. pc'[w] = "reading" => op'[w].kind = "wait" /\ done'[op'[w].task]
      <3>1. pc[w] = "reading" => op[w].kind = "wait" /\ op[w].task \in Tasks /\ done[op[w].task]
        BY OpFields DEF IndInv, Bookkeeping, TypeOK
      <3> QED
        BY <3>1
    <2>2. pc'[w] = "starting" => op'[w].kind = "spawn" /\ pc'[op'[w].task] = "born"
      <3>1. pc[w] = "starting" => op[w].kind = "spawn" /\ op[w].task \in Tasks
                                    /\ pc[op[w].task] = "born"
        BY OpFields DEF IndInv, Bookkeeping, TypeOK
      <3> QED
        BY <3>1
    <2>3. since'[w] <= epoch'
      BY DEF IndInv, Bookkeeping, TypeOK
    <2> QED
      BY <2>1, <2>2, <2>3 DEF IndInv, Bookkeeping
  <1>3. \A w, u \in Tasks : pc'[w] = "starting" /\ pc'[u] = "starting"
                              /\ op'[w].task = op'[u].task => w = u
    BY DEF IndInv, Bookkeeping
  <1> QED
    BY <1>1, <1>2, <1>3 DEF Bookkeeping

\* t leaves for x, the other threads keep their calls.
GoesTo(t, x) ==
  /\ pc[t] \notin {"born", "unborn", "marked", "ended"}
  /\ x \in {"running", "locking", "parked", "woken", "reading", "stored", "failed"}
  /\ t = Main => x # "stored"
  /\ pc' = [pc EXCEPT ![t] = x] \/ Wake([pc EXCEPT ![t] = x])
  /\ epoch' \in {epoch, epoch + 1}
  /\ \A w \in Tasks \ {t} : op'[w] = op[w] /\ since'[w] = since[w]
  /\ since'[t] <= epoch
  /\ UNCHANGED done
  /\ op'[t].kind = "all" => t = Main
  /\ x \in {"locking", "parked", "woken"} => op'[t].kind \in {"send", "recv", "wait", "all"}
  /\ x = "reading" => op'[t].kind = "wait" /\ done[op'[t].task]
  /\ IF x = "failed"
     THEN \E code \in {"error", "spawn", "closed", "deadlock"} : why' = [why EXCEPT ![t] = code]
     ELSE why' = why /\ pc[t] # "failed"

LEMMA BookSimple ==
  ASSUME IndInv, TypeOK', NEW t \in Tasks, NEW x, GoesTo(t, x)
  PROVE  Bookkeeping'
  <1> USE DEF GoesTo
  <1>1. \A w \in Tasks \ {t} : pc'[w] = pc[w] \/ (pc[w] = "parked" /\ pc'[w] = "woken")
    BY DEF IndInv, TypeOK, Wake, NotifyAll
  <1>2. pc'[t] = x \/ (x = "parked" /\ pc'[t] = "woken")
    BY DEF IndInv, TypeOK, Wake, NotifyAll
  <1>3. \A w \in Tasks \ {t} : why'[w] = why[w]
    BY DEF IndInv, TypeOK
  <1>4. why'[t] # "none" <=> x = "failed"
    BY DEF IndInv, TypeOK, Bookkeeping
  <1>5. epoch' >= epoch /\ since'[t] <= epoch'
    BY DEF IndInv, TypeOK
  <1>6. ~done[t]
    BY DEF IndInv, TypeOK, Bookkeeping
  <1> QED
    BY <1>1, <1>2, <1>3, <1>4, <1>5, <1>6, BookOne

LEMMA LoopBook ==
  ASSUME IndInv, TypeOK', NEW t \in Tasks, NEW b \in Nat,
         pc[t] \in {"locking", "woken"}, WaitLoop(t, b)
  PROVE  Bookkeeping'
  <1>0. /\ op[t].kind \in {"send", "recv", "wait", "all"}
        /\ op[t].kind = "all" => t = Main
        /\ since[t] <= epoch /\ epoch \in Nat
        /\ Idle.kind = "none"
    BY DEF IndInv, Bookkeeping, TypeOK, Idle
  <1>1. ASSUME NEW c \in Chans, Proceed(t), ActSend(t, c)  PROVE Bookkeeping'
    <2>1. /\ \A w \in Tasks \ {t} : op'[w] = op[w] /\ since'[w] = since[w]
          /\ since'[t] <= epoch /\ op'[t].kind # "all"
          /\ UNCHANGED done /\ epoch' = epoch + 1
      BY <1>0, <1>1 DEF Proceed, ActSend, Wake, cells, IndInv, TypeOK
    <2>2. \/ Wake([pc EXCEPT ![t] = "running"]) /\ why' = why
          \/ Wake([pc EXCEPT ![t] = "failed"]) /\ why' = [why EXCEPT ![t] = "closed"]
      BY <1>1 DEF ActSend
    <2>3. CASE Wake([pc EXCEPT ![t] = "running"]) /\ why' = why
      <3>1. GoesTo(t, "running")
        BY <1>0, <1>1, <2>1, <2>3 DEF GoesTo
      <3> QED
        BY <3>1, BookSimple
    <2>4. CASE Wake([pc EXCEPT ![t] = "failed"]) /\ why' = [why EXCEPT ![t] = "closed"]
      <3>1. \E code \in {"error", "spawn", "closed", "deadlock"} :
               why' = [why EXCEPT ![t] = code]
        BY <2>4
      <3>2. GoesTo(t, "failed")
        BY <1>0, <2>1, <2>4, <3>1 DEF GoesTo
      <3> QED
        BY <3>2, BookSimple
    <2> QED
      BY <2>2, <2>3, <2>4
  <1>2. ASSUME NEW c \in Chans, Proceed(t), ActRecv(t, c)  PROVE Bookkeeping'
    <2>1. /\ \A w \in Tasks \ {t} : op'[w] = op[w] /\ since'[w] = since[w]
          /\ since'[t] <= epoch /\ op'[t].kind # "all"
          /\ UNCHANGED <<done, why>> /\ epoch' = epoch + 1
          /\ Wake([pc EXCEPT ![t] = "running"])
      BY <1>0, <1>2 DEF Proceed, ActRecv, Wake, cells, IndInv, TypeOK
    <2>9. GoesTo(t, "running")
      BY <1>0, <1>2, <2>1 DEF GoesTo
    <2> QED
      BY <2>9, BookSimple
  <1>3. ASSUME Proceed(t), ActWait(t)  PROVE Bookkeeping'
    <2>1. /\ \A w \in Tasks \ {t} : op'[w] = op[w] /\ since'[w] = since[w]
          /\ since'[t] <= epoch /\ op'[t].kind = "wait"
          /\ UNCHANGED <<done, why>> /\ epoch' = epoch + 1
          /\ Wake([pc EXCEPT ![t] = "reading"])
          /\ done[op'[t].task]
      BY <1>0, <1>3 DEF Proceed, Ready, ActWait, Wake, cells
    <2>9. GoesTo(t, "reading")
      BY <1>0, <1>3, <2>1 DEF GoesTo
    <2> QED
      BY <2>9, BookSimple
  <1>4. ASSUME Proceed(t), ActAll(t)  PROVE Bookkeeping'
    <2>1. /\ \A w \in Tasks : pc'[w] = IF pc[w] = "parked" THEN "woken" ELSE pc[w]
          /\ UNCHANGED <<op, since, done, why>> /\ epoch' = epoch + 1
      BY <1>4 DEF Proceed, ActAll, Wake, NotifyAll, cells
    <2>2. /\ pc[t] # "born" /\ epoch' >= epoch
          /\ \A w \in Tasks \ {t} :
               /\ pc'[w] = pc[w] \/ (pc[w] = "parked" /\ pc'[w] = "woken")
               /\ op'[w] = op[w] /\ why'[w] = why[w] /\ done'[w] = done[w]
               /\ since'[w] = since[w]
          /\ since'[t] <= epoch'
          /\ pc'[t] = pc[t] /\ op'[t] = op[t] /\ done'[t] = done[t] /\ why'[t] = why[t]
      BY <1>0, <2>1 DEF IndInv, TypeOK
    <2>3. (done[t] <=> pc[t] \in {"marked", "ended"}) /\ (why[t] # "none" <=> pc[t] = "failed")
      BY DEF IndInv, Bookkeeping
    <2> QED
      BY <1>0, <2>2, <2>3, BookOne
  <1>5. ASSUME Verdict(t, b)  PROVE Bookkeeping'
    <2>1. /\ \A w \in Tasks \ {t} : op'[w] = op[w] /\ since'[w] = since[w]
          /\ since'[t] <= epoch /\ op'[t].kind # "all"
          /\ UNCHANGED <<done, epoch>>
      BY <1>0, <1>5 DEF Verdict, cells, IndInv, TypeOK
    <2>2. /\ pc' = [pc EXCEPT ![t] = "failed"]
          /\ why' = [why EXCEPT ![t] = "deadlock"]
      BY <1>5 DEF Verdict
    <2>3. \E code \in {"error", "spawn", "closed", "deadlock"} :
             why' = [why EXCEPT ![t] = code]
      BY <2>2
    <2>4. epoch' \in {epoch, epoch + 1} /\ UNCHANGED done
      BY <2>1
    <2>9. GoesTo(t, "failed")
      BY <1>0, <2>1, <2>2, <2>3, <2>4 DEF GoesTo
    <2> QED
      BY <2>9, BookSimple
  <1>6. ASSUME Park(t, b)  PROVE Bookkeeping'
    <2>1. /\ \A w \in Tasks \ {t} : op'[w] = op[w] /\ since'[w] = since[w]
          /\ since'[t] <= epoch /\ op'[t] = op[t]
          /\ UNCHANGED <<done, epoch, why>>
      BY <1>0, <1>6 DEF Park, cells, IndInv, TypeOK
    <2>2. pc' = [pc EXCEPT ![t] = "parked"]
      BY <1>6 DEF Park
    <2>3. /\ epoch' \in {epoch, epoch + 1} /\ UNCHANGED done
          /\ op'[t].kind \in {"send", "recv", "wait", "all"}
          /\ op'[t].kind = "all" => t = Main
          /\ why' = why /\ pc[t] # "failed"
      BY <1>0, <2>1
    <2>9. GoesTo(t, "parked")
      BY <1>0, <2>1, <2>2, <2>3 DEF GoesTo
    <2> QED
      BY <2>9, BookSimple
  <1> QED
    BY <1>1, <1>2, <1>3, <1>4, <1>5, <1>6, Zenon DEF WaitLoop, Proceed

\* Starting a task: the child is reserved by one starter.
LEMMA StartBook ==
  ASSUME IndInv, TypeOK', NEW t \in Tasks, NEW u \in Tasks, Start(t, u)
  PROVE  Bookkeeping'
  <1>1. \A w \in Tasks : pc'[w] = IF w = u THEN "born" ELSE IF w = t THEN "starting" ELSE pc[w]
    BY DEF Start, IndInv, TypeOK
  <1>2. \A w \in Tasks : op'[w] = IF w = t THEN [kind |-> "spawn", task |-> u] ELSE op[w]
    BY DEF Start, IndInv, TypeOK
  <1>3. pc[t] = "running" /\ pc[u] = "unborn" /\ UNCHANGED <<since, epoch, why, done>>
    BY DEF Start, cells
  <1>4. \A w \in Tasks : pc[w] = "starting" => op[w].task \in Tasks /\ pc[op[w].task] = "born"
    BY OpFields DEF IndInv, Bookkeeping, TypeOK
  <1>5. \A w \in Tasks : pc[w] = "reading" => op[w].task \in Tasks /\ done[op[w].task]
    BY OpFields DEF IndInv, Bookkeeping, TypeOK
  <1>6. \A w, v \in Tasks : pc'[w] = "starting" /\ pc'[v] = "starting"
                              /\ op'[w].task = op'[v].task => w = v
    BY <1>1, <1>2, <1>3, <1>4 DEF IndInv, Bookkeeping
  <1>7. Main # u
    BY <1>3 DEF IndInv, Bookkeeping
  <1> QED
    BY <1>1, <1>2, <1>3, <1>4, <1>5, <1>6, <1>7, ConcAssumption
    DEF IndInv, Bookkeeping, ConcAssumption

\* The thread exists, or was refused: child and starter leave together.
LEMMA StartedBook ==
  ASSUME IndInv, TypeOK', NEW t \in Tasks, ThreadStarts(t) \/ ThreadRefused(t)
  PROVE  Bookkeeping'
  <1>1. PICK u \in Tasks : u = op[t].task /\ pc[u] = "born" /\ pc[t] = "starting"
    BY OpFields DEF IndInv, Bookkeeping, TypeOK, ThreadStarts, ThreadRefused
  <1>2. PICK x \in {"running", "failed"}, y \in {"running", "unborn"} :
          /\ \A w \in Tasks : pc'[w] = IF w = u THEN y ELSE IF w = t THEN x ELSE pc[w]
          /\ \A w \in Tasks : why'[w] = IF w = t /\ x = "failed" THEN "spawn" ELSE why[w]
    <2>1. CASE ThreadStarts(t)
      BY <1>1, <2>1 DEF ThreadStarts, IndInv, TypeOK
    <2>2. CASE ThreadRefused(t)
      BY <1>1, <2>2 DEF ThreadRefused, IndInv, TypeOK
    <2> QED
      BY <2>1, <2>2
  <1>3. \A w \in Tasks : op'[w] = IF w = t THEN Idle ELSE op[w]
    BY DEF ThreadStarts, ThreadRefused, IndInv, TypeOK
  <1>4. UNCHANGED <<since, epoch, done>> /\ Idle.kind = "none"
    BY DEF ThreadStarts, ThreadRefused, sched, cells, Idle
  <1>5. \A w \in Tasks \ {t} : pc[w] = "starting" =>
          op[w].kind = "spawn" /\ op[w].task \in Tasks /\ pc[op[w].task] = "born" /\ op[w].task # u
    <2> SUFFICES ASSUME NEW w \in Tasks, w # t, pc[w] = "starting"
                 PROVE  /\ op[w].kind = "spawn" /\ op[w].task \in Tasks
                        /\ pc[op[w].task] = "born" /\ op[w].task # u
      OBVIOUS
    <2>1. op[w].kind = "spawn" /\ pc[op[w].task] = "born" /\ op[w].task # u
      BY <1>1 DEF IndInv, Bookkeeping
    <2> QED
      BY <2>1, OpFields DEF IndInv, TypeOK
  <1>6. \A w \in Tasks : pc[w] = "reading" => op[w].task \in Tasks /\ done[op[w].task]
    BY OpFields DEF IndInv, Bookkeeping, TypeOK
  <1>7. Main # u /\ u # t
    BY <1>1 DEF IndInv, Bookkeeping
  <1>8. \A w, v \in Tasks : pc'[w] = "starting" /\ pc'[v] = "starting"
                              /\ op'[w].task = op'[v].task => w = v
    BY <1>1, <1>2, <1>3 DEF IndInv, Bookkeeping
  <1>9. pc'[Main] \notin {"unborn", "born", "stored", "marked", "ended"}
    BY <1>2, <1>7, ConcAssumption DEF ConcAssumption, IndInv, Bookkeeping
  <1> QED
    BY <1>1, <1>2, <1>3, <1>4, <1>5, <1>6, <1>7, <1>8, <1>9 DEF IndInv, Bookkeeping

LEMMA NextBook ==
  ASSUME IndInv, TypeOK', [Next]_vars
  PROVE  Bookkeeping'
  <1>0. ASSUME NEW t \in Tasks
        PROVE  /\ since[t] <= epoch
               /\ op[t].kind = "all" => t = Main
               /\ Idle.kind = "none" /\ epoch \in Nat
    BY DEF IndInv, Bookkeeping, TypeOK, Idle
  <1>1. ASSUME NEW t \in Tasks, NEW o \in AllOps \ {Idle}, Call(t, o), o = AllOp => t = Main
        PROVE  Bookkeeping'
    <2>1. o.kind \in {"send", "recv", "wait", "all"} /\ (o.kind = "all" => t = Main)
      BY <1>1 DEF AllOps, Idle, AllOp, SendOps, RecvOps, WaitOps
    <2>2. op'[t] = o /\ \A w \in Tasks \ {t} : op'[w] = op[w] /\ since'[w] = since[w]
      BY <1>1 DEF Call, sched, IndInv, TypeOK
    <2>3. GoesTo(t, "locking")
      BY <1>0, <1>1, <2>1, <2>2 DEF GoesTo, Call, sched, cells
    <2> QED
      BY <2>3, BookSimple
  <1>2. ASSUME NEW t \in Tasks, CallSend(t) \/ CallRecv(t) \/ CallWait(t) \/ MainEnds(t)
        PROVE  Bookkeeping'
    <2>1. /\ SendOps \cup RecvOps \cup WaitOps \subseteq AllOps \ {Idle, AllOp}
          /\ AllOp \in AllOps \ {Idle}
      BY DEF AllOps, Idle, AllOp, SendOps, RecvOps, WaitOps
    <2> QED
      BY <1>1, <1>2, <2>1 DEF CallSend, CallRecv, CallWait, MainEnds
  <1>3. ASSUME NEW t \in Tasks, Enter(t) \/ Return(t)  PROVE Bookkeeping'
    <2>1. blocked \in Nat /\ (Return(t) => Uncount(t) \in Nat)
      BY CountersPositive DEF IndInv, TypeOK, Uncount, Return, Fresh, Waiting
    <2> QED
      BY <1>3, <2>1, LoopBook DEF Enter, Return
  <1>4. ASSUME NEW t \in Tasks, ReadResult(t)  PROVE Bookkeeping'
    <2>1. \A w \in Tasks : op'[w] = IF w = t THEN Idle ELSE op[w]
      BY <1>4 DEF ReadResult, IndInv, TypeOK
    <2>2. GoesTo(t, "running")
      BY <1>0, <1>4, <2>1 DEF GoesTo, ReadResult, sched, cells
    <2> QED
      BY <2>2, BookSimple
  <1>5. ASSUME NEW t \in Tasks, NEW c \in Chans, Close(t, c)  PROVE Bookkeeping'
    <2>1. [pc EXCEPT ![t] = "running"] = pc
      BY <1>5 DEF Close, IndInv, TypeOK
    <2>2. GoesTo(t, "running")
      BY <1>0, <1>5, <2>1 DEF GoesTo, Close, Wake, cells
    <2> QED
      BY <2>2, BookSimple
  <1>6. ASSUME NEW t \in Tasks, StoreResult(t)  PROVE Bookkeeping'
    <2>1. GoesTo(t, "stored")
      BY <1>0, <1>6 DEF GoesTo, StoreResult, sched
    <2> QED
      BY <2>1, BookSimple
  <1>7. ASSUME NEW t \in Tasks, RuntimeError(t)  PROVE Bookkeeping'
    <2>1. \E code \in {"error", "spawn", "closed", "deadlock"} : why' = [why EXCEPT ![t] = code]
      BY <1>7 DEF RuntimeError
    <2>2. GoesTo(t, "failed")
      BY <1>0, <1>7, <2>1 DEF GoesTo, RuntimeError, sched, cells
    <2> QED
      BY <2>2, BookSimple
  <1>8. ASSUME NEW t \in Tasks, SpuriousWakeup(t)  PROVE Bookkeeping'
    <2>1. op[t].kind \in {"send", "recv", "wait", "all"}
      BY <1>8 DEF SpuriousWakeup, IndInv, Bookkeeping
    <2>2. GoesTo(t, "woken")
      BY <1>0, <1>8, <2>1 DEF GoesTo, SpuriousWakeup, sched, cells
    <2> QED
      BY <2>2, BookSimple
  <1>9. ASSUME NEW t \in Tasks, NEW x \in {"marked", "ended"}, Wake([pc EXCEPT ![t] = x]),
               pc[t] \in {"stored", "marked"}, UNCHANGED <<op, why>>,
               done' = [done EXCEPT ![t] = TRUE]
        PROVE  Bookkeeping'
    <2>1. \A w \in Tasks : pc'[w] = IF w = t THEN x
                                    ELSE IF pc[w] = "parked" THEN "woken" ELSE pc[w]
      BY <1>9 DEF Wake, NotifyAll, IndInv, TypeOK
    <2>2. \A w \in Tasks : done'[w] = IF w = t THEN TRUE ELSE done[w]
      BY <1>9 DEF IndInv, TypeOK
    <2>3. epoch' = epoch + 1 /\ since' = since
      BY <1>9 DEF Wake
    <2>4. t # Main /\ why[t] = "none"
      BY <1>9 DEF IndInv, Bookkeeping
    <2>5. epoch' >= epoch /\ since'[t] <= epoch'
      BY <1>0, <2>3 DEF IndInv, TypeOK
    <2> QED
      BY <1>0, <1>9, <2>1, <2>2, <2>3, <2>4, <2>5, BookOne
  <1>10. ASSUME NEW t \in Tasks, MarkDone(t)  PROVE Bookkeeping'
    BY <1>9, <1>10 DEF MarkDone
  <1>11. ASSUME NEW t \in Tasks, Finish(t)  PROVE Bookkeeping'
    <2>1. done' = [done EXCEPT ![t] = TRUE]
      BY <1>11 DEF Finish, cells, IndInv, Bookkeeping, TypeOK
    <2> QED
      BY <1>9, <1>11, <2>1 DEF Finish
  <1>12. ASSUME UNCHANGED <<pc, op, since, epoch, done, why>>  PROVE Bookkeeping'
    BY <1>12 DEF IndInv, Bookkeeping
  <1>13. ASSUME NEW t \in Tasks, Report(t)  PROVE Bookkeeping'
    BY <1>12, <1>13 DEF Report, sched, cells
  <1>14. CASE UNCHANGED vars
    BY <1>12, <1>14 DEF vars
  <1>15. ASSUME NEW t \in Tasks, Step(t)  PROVE Bookkeeping'
    BY <1>2, <1>3, <1>4, <1>5, <1>6, <1>7, <1>10, <1>11, <1>13, <1>15,
       StartBook, StartedBook, Zenon DEF Step
  <1> QED
    BY <1>8, <1>14, <1>15 DEF Next, Exited

\* wait_all lets main go only when it is the last unfinished task.
LEMMA MainAlone ==
  ASSUME IndInv, live <= 1
  PROVE  \A t \in Tasks \ {Main} : pc[t] \in {"unborn", "ended"}
  <1>1. LiveSet \in SUBSET Tasks /\ Main \in LiveSet /\ live = Cardinality(LiveSet)
    BY ConcAssumption DEF LiveSet, ConcAssumption, IndInv, Bookkeeping, CountersExact
  <1>2. Cardinality(LiveSet \ {Main}) = Cardinality(LiveSet) - 1
    BY <1>1, Counting
  <1>3. LiveSet \ {Main} \in SUBSET Tasks
    BY <1>1
  <1>4. Cardinality(LiveSet \ {Main}) \in Nat /\ Cardinality(LiveSet) \in Nat
    BY <1>1, <1>3, Counting
  <1>5. Cardinality(LiveSet \ {Main}) = 0
    BY <1>1, <1>2, <1>4
  <1>6. LiveSet \ {Main} = {}
    BY <1>3, <1>5, Counting, FS_EmptySet
  <1> QED
    BY <1>6 DEF LiveSet

LEMMA NextOthersEnded ==
  ASSUME IndInv, [Next]_vars
  PROVE  OthersEnded'
  <1>1. CASE UNCHANGED <<pc, outcome>>
    BY <1>1 DEF OthersEnded, IndInv
  <1>2. ASSUME NEW t \in Tasks, NEW b, WaitLoop(t, b)  PROVE OthersEnded' \/ outcome' = outcome
    <2>1. ASSUME Proceed(t), ActAll(t)  PROVE OthersEnded'
      <3>1. live <= 1
        BY <2>1 DEF Proceed, Ready, ActAll
      <3>2. \A u \in Tasks \ {Main} : pc'[u] \in {"unborn", "ended"}
        BY <2>1, <3>1, MainAlone DEF ActAll, Wake, NotifyAll
      <3> QED
        BY <3>2 DEF OthersEnded
    <2>2. ASSUME NEW c \in Chans, ActSend(t, c) \/ ActRecv(t, c)  PROVE outcome' = outcome
      BY <2>2 DEF ActSend, ActRecv
    <2>3. ASSUME ActWait(t)  PROVE outcome' = outcome
      BY <2>3 DEF ActWait
    <2>4. ASSUME Verdict(t, b) \/ Park(t, b)  PROVE outcome' = outcome
      BY <2>4 DEF Verdict, Park
    <2> QED
      BY <1>2, <2>1, <2>2, <2>3, <2>4, Zenon DEF WaitLoop, Proceed
  <1>3. ASSUME outcome = "running", NEW t \in Tasks, Step(t)
        PROVE  OthersEnded' \/ outcome' = outcome \/ outcome' = why[t]
    <2>1. ASSUME NEW u \in Tasks, Start(t, u)  PROVE outcome' = outcome
      BY <2>1 DEF Start
    <2>2. ASSUME ThreadStarts(t) \/ ThreadRefused(t)  PROVE outcome' = outcome
      BY <2>2 DEF ThreadStarts, ThreadRefused
    <2>3. ASSUME CallSend(t) \/ CallRecv(t) \/ CallWait(t) \/ MainEnds(t)
          PROVE  outcome' = outcome
      BY <2>3 DEF CallSend, CallRecv, CallWait, MainEnds, Call
    <2>4. ASSUME NEW c \in Chans, Close(t, c)  PROVE outcome' = outcome
      BY <2>4 DEF Close
    <2>5. ASSUME ReadResult(t) \/ StoreResult(t) \/ MarkDone(t) \/ Finish(t) \/ RuntimeError(t)
          PROVE  outcome' = outcome
      BY <2>5 DEF ReadResult, StoreResult, MarkDone, Finish, RuntimeError
    <2>6. ASSUME Enter(t) \/ Return(t)  PROVE OthersEnded' \/ outcome' = outcome
      BY <1>2, <2>6 DEF Enter, Return
    <2>7. ASSUME Report(t)  PROVE outcome' = why[t]
      BY <2>7 DEF Report
    <2> QED
      BY <1>3, <2>1, <2>2, <2>3, <2>4, <2>5, <2>6, <2>7, Zenon DEF Step
  <1>4. ASSUME outcome = "running", outcome' = outcome  PROVE OthersEnded'
    BY <1>4 DEF OthersEnded
  <1>5. ASSUME NEW t \in Tasks, outcome' = why[t]  PROVE OthersEnded'
    BY <1>5 DEF OthersEnded, IndInv, TypeOK
  <1>6. ASSUME NEW t \in Tasks, SpuriousWakeup(t)  PROVE outcome' = outcome
    BY <1>6 DEF SpuriousWakeup
  <1>7. CASE UNCHANGED vars
    BY <1>1, <1>7 DEF vars
  <1> QED
    BY <1>3, <1>4, <1>5, <1>6, <1>7 DEF Next, Exited

-----------------------------------------------------------------------------
(* Theorems *)

LEMMA InitIndInv == Init => IndInv
  <1> SUFFICES ASSUME Init  PROVE IndInv
    OBVIOUS
  <1>1. LiveSet = {Main} /\ FreshSet = {}
    BY ConcAssumption DEF ConcAssumption, Init, LiveSet, FreshSet, Fresh, Waiting
  <1>2. CountersExact
    BY <1>1, FS_Singleton, FS_EmptySet DEF Init, CountersExact
  <1>3. Bookkeeping
    BY ConcAssumption DEF ConcAssumption, Init, Bookkeeping, Idle
  <1>4. CountedFacts /\ VerdictFacts /\ OthersEnded
    BY DEF Init, CountedFacts, Fresh, Waiting, VerdictFacts, OthersEnded
  <1> QED
    BY <1>1, <1>2, <1>3, <1>4, InitType DEF IndInv

LEMMA NextIndInv == IndInv /\ [Next]_vars => IndInv'
  <1> SUFFICES ASSUME IndInv, [Next]_vars  PROVE IndInv'
    OBVIOUS
  <1>1. TypeOK'
    BY NextType DEF IndInv
  <1>2. Bookkeeping'
    BY <1>1, NextBook
  <1>3. CountersExact'
    BY NextLive, NextBlocked DEF CountersExact
  <1>4. CountedFacts' /\ VerdictFacts' /\ OthersEnded'
    BY <1>1, NextCounted, NextVerdict, NextOthersEnded
  <1> QED
    BY <1>1, <1>2, <1>3, <1>4, NextAwake DEF IndInv

\* IndInv holds in every reachable state, for any number of tasks, channels
\* and calls: the scheduler's counters and wait set stay consistent.
THEOREM Inductive == Spec => []IndInv
  BY InitIndInv, NextIndInv, PTL DEF Spec

\* The scheduler's state keeps its types; no counter ever goes below zero.
THEOREM TypeCorrect == Spec => []TypeOK
  <1>1. IndInv => TypeOK
    BY DEF IndInv
  <1> QED
    BY <1>1, Inductive, PTL

\* `live` and `blocked` are exact counts of unfinished and waiting threads.
THEOREM CountersCorrect == Spec => []CountersExact
  <1>1. IndInv => CountersExact
    BY DEF IndInv
  <1> QED
    BY <1>1, Inductive, PTL

\* No thread sleeps in CV.wait while the condition it waits for is true.
THEOREM NoWakeupLost == Spec => []NoLostWakeup
  <1>1. IndInv => NoLostWakeup
    BY DEF IndInv, CountedFacts, NoLostWakeup
  <1> QED
    BY <1>1, Inductive, PTL

\* A deadlock error is raised only when no other task can ever go on.
THEOREM DeadlockIsReal == Spec => []DeadlockSound
  <1>1. IndInv => DeadlockSound
    <2> SUFFICES ASSUME IndInv, NEW t \in Tasks, why[t] = "deadlock",
                        NEW u \in LiveSet \ {t}
                 PROVE  Waiting(u) /\ ~Ready(op[u])
      BY DEF DeadlockSound
    <2>1. u \in Tasks /\ Fresh(u)
      BY DEF IndInv, VerdictFacts, LiveSet
    <2> QED
      BY <2>1 DEF IndInv, CountedFacts, Fresh
  <1> QED
    BY <1>1, Inductive, PTL

\* The unfinished threads are never all asleep: a deadlock is always noticed.
THEOREM DeadlockIsNoticed == Spec => []SomeoneAwake
  <1>1. IndInv => SomeoneAwake
    <2>1. ASSUME NEW t \in LiveSet, t \notin FreshSet  PROVE ~Fresh(t)
      BY <2>1 DEF LiveSet, FreshSet
    <2> QED
      BY <2>1 DEF IndInv, SomeoneAwake
  <1> QED
    BY <1>1, Inductive, PTL

\* When the program exits normally every task it started has ended.
THEOREM ExitIsClean == Spec => []CleanExit
  <1>1. IndInv => CleanExit
    BY DEF IndInv, OthersEnded, CleanExit, Bookkeeping
  <1> QED
    BY <1>1, Inductive, PTL

-----------------------------------------------------------------------------
(* Refinement: what the program sees is ConcSpec *)

\* A step that moves t only, as far as the program can see.
LEMMA OneTask ==
  ASSUME TypeOK, TypeOK', NEW t \in Tasks,
         \A u \in Tasks \ {t} : Seen(pc'[u]) = Seen(pc[u])
         , \A u \in Tasks \ {t} : op'[u] = op[u]
  PROVE  /\ AbsSt' = [AbsSt EXCEPT ![t] = Seen(pc'[t])]
         /\ AbsOp' = [AbsOp EXCEPT ![t] = IF Seen(pc'[t]) = "asking" THEN op'[t] ELSE Idle]
  <1>1. AbsSt' = [AbsSt EXCEPT ![t] = Seen(pc'[t])]
    BY DEF AbsSt
  <1>2. AbsOp' = [AbsOp EXCEPT ![t] = IF Seen(pc'[t]) = "asking" THEN op'[t] ELSE Idle]
    BY DEF AbsOp, AbsSt
  <1> QED
    BY <1>1, <1>2

\* A wake hides behind "asking": the notified were asking before.
LEMMA WakeUnseen ==
  ASSUME TypeOK, NEW t \in Tasks, NEW x, Wake([pc EXCEPT ![t] = x]), x # "parked"
  PROVE  /\ pc'[t] = x
         /\ \A u \in Tasks \ {t} : Seen(pc'[u]) = Seen(pc[u])
  <1>1. \A u \in Tasks : pc'[u] = IF [pc EXCEPT ![t] = x][u] = "parked" THEN "woken"
                                  ELSE [pc EXCEPT ![t] = x][u]
    BY DEF Wake, NotifyAll
  <1>2. \A u \in Tasks : [pc EXCEPT ![t] = x][u] = IF u = t THEN x ELSE pc[u]
    BY DEF TypeOK
  <1> QED
    BY <1>1, <1>2 DEF Seen

LEMMA AbsInit == Init => Abs!Init
  <1> SUFFICES ASSUME Init  PROVE Abs!Init
    OBVIOUS
  <1>1. AbsSt = [t \in Tasks |-> IF t = Main THEN "running" ELSE "unborn"]
    BY DEF Init, AbsSt, Seen
  <1>2. AbsOp = [t \in Tasks |-> Idle] /\ AbsResult = [t \in Tasks |-> NoVal]
    BY DEF Init, AbsOp, AbsResult
  <1> QED
    BY <1>1, <1>2 DEF Init, Abs!Init, Idle, Abs!Idle

\* The two modules take their names from ConcTypes.
LEMMA SameNames ==
  /\ Abs!Idle = Idle /\ Abs!AllOp = AllOp /\ Abs!Results = Results
  /\ Abs!SendOps = SendOps /\ Abs!RecvOps = RecvOps /\ Abs!WaitOps = WaitOps
  BY DEF Idle, AllOp, Results, SendOps, RecvOps, WaitOps,
         Abs!Idle, Abs!AllOp, Abs!Results, Abs!SendOps, Abs!RecvOps, Abs!WaitOps

\* What the program sees of t, which is asking or not.
LEMMA SeenOf ==
  ASSUME NEW t \in Tasks
  PROVE  /\ AbsSt[t] = Seen(pc[t])
         /\ AbsOp[t] = IF Seen(pc[t]) = "asking" THEN op[t] ELSE Idle
         /\ AbsResult[t] = IF done[t] THEN result[t] ELSE NoVal
  BY DEF AbsSt, AbsOp, AbsResult

\* A call that begins is a request that is asked.
LEMMA AbsCall ==
  ASSUME TypeOK, TypeOK', NEW t \in Tasks, NEW o, Call(t, o)
  PROVE  Abs!Ask(t, o)
  <1>1. pc'[t] = "locking" /\ op'[t] = o
    BY DEF Call, TypeOK
  <1>2. \A u \in Tasks \ {t} : pc'[u] = pc[u] /\ op'[u] = op[u]
    BY DEF Call, TypeOK
  <1>3. /\ AbsSt' = [AbsSt EXCEPT ![t] = "asking"]
        /\ AbsOp' = [AbsOp EXCEPT ![t] = o]
    BY <1>1, <1>2, OneTask DEF Seen
  <1>4. UNCHANGED <<q, closed, done, AbsResult, got, why, outcome>>
    BY DEF Call, chans, cells, AbsResult
  <1>5. AbsSt[t] = "running"
    BY SeenOf DEF Call, Seen
  <1> QED
    BY <1>3, <1>4, <1>5 DEF Abs!Ask

\* A thread that lets its request be done under the lock.
LEMMA AbsSend ==
  ASSUME TypeOK, TypeOK', NEW t \in Tasks, NEW c \in Chans, Ready(op[t]),
         pc[t] \in {"locking", "woken"}, ActSend(t, c),
         UNCHANGED <<live, fuel, closed, cells>>
  PROVE  Abs!Sent(t) \/ Abs!SendOnClosed(t)
  <1>1. AbsSt[t] = "asking" /\ AbsOp[t] = op[t]
    BY SeenOf DEF Seen
  <1>2. op[t].kind = "send" /\ op[t].ch = c
    BY DEF ActSend
  <1>3. op'[t] = Idle /\ \A u \in Tasks \ {t} : op'[u] = op[u]
    BY DEF ActSend, TypeOK
  <1>4. AbsResult' = AbsResult
    BY DEF AbsResult, cells
  <1>5. CASE /\ ~closed[c]
             /\ q' = [q EXCEPT ![c] = Append(@, op[t].val)]
             /\ got' = [got EXCEPT ![t] = NoVal]
             /\ UNCHANGED why
             /\ Wake([pc EXCEPT ![t] = "running"])
    <2>1. /\ pc'[t] = "running"
          /\ \A u \in Tasks \ {t} : Seen(pc'[u]) = Seen(pc[u])
      BY <1>5, WakeUnseen
    <2>2. /\ AbsSt' = [AbsSt EXCEPT ![t] = "running"]
          /\ AbsOp' = [AbsOp EXCEPT ![t] = Idle]
      BY <1>3, <2>1, OneTask DEF Seen
    <2>3. Abs!Ready(AbsOp[t])
      BY <1>1, <1>2 DEF Ready, Abs!Ready
    <2>4. Abs!Answer(t, NoVal)
      BY <1>1, <1>4, <1>5, <2>2, SameNames DEF Abs!Answer, ActSend, cells
    <2> QED
      BY <1>1, <1>2, <1>5, <2>3, <2>4 DEF Abs!Sent
  <1>6. CASE /\ closed[c]
             /\ why' = [why EXCEPT ![t] = "closed"]
             /\ UNCHANGED <<q, got>>
             /\ Wake([pc EXCEPT ![t] = "failed"])
    <2>1. /\ pc'[t] = "failed"
          /\ \A u \in Tasks \ {t} : Seen(pc'[u]) = Seen(pc[u])
      BY <1>6, WakeUnseen
    <2>2. /\ AbsSt' = [AbsSt EXCEPT ![t] = "failed"]
          /\ AbsOp' = [AbsOp EXCEPT ![t] = Idle]
      BY <1>3, <2>1, OneTask DEF Seen
    <2>3. Abs!Fail(t, "closed")
      BY <1>4, <1>6, <2>2, SameNames DEF Abs!Fail, ActSend, cells
    <2> QED
      BY <1>1, <1>2, <1>6, <2>3 DEF Abs!SendOnClosed
  <1> QED
    BY <1>5, <1>6 DEF ActSend

LEMMA AbsRecv ==
  ASSUME TypeOK, TypeOK', NEW t \in Tasks, NEW c \in Chans, Ready(op[t]),
         pc[t] \in {"locking", "woken"}, ActRecv(t, c),
         UNCHANGED <<live, fuel, closed, cells>>
  PROVE  Abs!Received(t) \/ Abs!EndOfChannel(t)
  <1>1. AbsSt[t] = "asking" /\ AbsOp[t] = op[t]
    BY SeenOf DEF Seen
  <1>2. op[t].kind = "recv" /\ op[t].ch = c
    BY DEF ActRecv
  <1>3. op'[t] = Idle /\ \A u \in Tasks \ {t} : op'[u] = op[u]
    BY DEF ActRecv, TypeOK
  <1>4. AbsResult' = AbsResult
    BY DEF AbsResult, cells
  <1>5. /\ pc'[t] = "running"
        /\ \A u \in Tasks \ {t} : Seen(pc'[u]) = Seen(pc[u])
    BY WakeUnseen DEF ActRecv
  <1>6. /\ AbsSt' = [AbsSt EXCEPT ![t] = "running"]
        /\ AbsOp' = [AbsOp EXCEPT ![t] = Idle]
    BY <1>3, <1>5, OneTask DEF Seen
  <1>7. ASSUME NEW v, got' = [got EXCEPT ![t] = v]  PROVE Abs!Answer(t, v)
    BY <1>1, <1>4, <1>6, <1>7, SameNames DEF Abs!Answer, ActRecv, cells
  <1>8. CASE /\ q[c] # << >>
             /\ q' = [q EXCEPT ![c] = Tail(@)]
             /\ got' = [got EXCEPT ![t] = Head(q[c])]
    BY <1>1, <1>2, <1>7, <1>8 DEF Abs!Received
  <1>9. CASE /\ q[c] = << >>
             /\ got' = [got EXCEPT ![t] = NoVal]
             /\ UNCHANGED q
    <2>1. closed[c]
      BY <1>2, <1>9 DEF Ready
    <2> QED
      BY <1>1, <1>2, <1>7, <1>9, <2>1 DEF Abs!EndOfChannel
  <1> QED
    BY <1>8, <1>9 DEF ActRecv

\* main lets go when the others have ended: only then is it the last one.
LEMMA AbsAll ==
  ASSUME IndInv, TypeOK', NEW t \in Tasks, Ready(op[t]),
         pc[t] \in {"locking", "woken"}, ActAll(t),
         UNCHANGED <<live, fuel, closed, cells>>
  PROVE  Abs!Finish
  <1>1. t = Main /\ op[t].kind = "all" /\ live <= 1
    BY DEF ActAll, IndInv, Bookkeeping, Ready
  <1>2. AbsSt[t] = "asking" /\ AbsOp[t] = op[t]
    BY SeenOf DEF Seen
  <1>3. \A u \in Tasks \ {Main} : AbsSt[u] \in {"unborn", "ended"}
    BY <1>1, MainAlone, SeenOf DEF Seen
  <1>4. Abs!Ready(AbsOp[Main])
    BY <1>1, <1>2, <1>3 DEF Abs!Ready
  <1>5. pc' = NotifyAll(pc) /\ op' = op
    BY DEF ActAll, Wake
  <1>6. \A u \in Tasks : Seen(pc'[u]) = Seen(pc[u])
    BY <1>5 DEF NotifyAll, Seen
  <1>7. AbsSt' = AbsSt /\ AbsOp' = AbsOp /\ AbsResult' = AbsResult
    BY <1>5, <1>6 DEF AbsSt, AbsOp, AbsResult, cells
  <1> QED
    BY <1>1, <1>2, <1>4, <1>7 DEF Abs!Finish, ActAll, cells

\* The thread that gets the verdict of a deadlock: by then all the others
\* that are unfinished are asking for something that is false.
LEMMA AbsVerdict ==
  ASSUME IndInv, IndInv', NEW t \in Tasks, pc[t] \in {"locking", "woken"},
         NEW b, Verdict(t, b)
  PROVE  Abs!Deadlock(t)
  <1> USE DEF IndInv
  <1>1. /\ pc'[t] = "failed" /\ op'[t] = Idle /\ why'[t] = "deadlock"
        /\ \A u \in Tasks \ {t} : pc'[u] = pc[u] /\ op'[u] = op[u]
    BY DEF Verdict, TypeOK
  <1>2. /\ AbsSt' = [AbsSt EXCEPT ![t] = "failed"]
        /\ AbsOp' = [AbsOp EXCEPT ![t] = Idle]
    BY <1>1, OneTask DEF Seen
  <1>3. Abs!Fail(t, "deadlock")
    BY <1>2, SameNames DEF Abs!Fail, Verdict, chans, cells, AbsResult
  <1>4. AbsSt[t] = "asking"
    BY SeenOf DEF Seen
  <1>5. ASSUME NEW u \in LiveSet
        PROVE  pc[u] \in {"locking", "parked", "woken"} /\ ~Ready(op[u])
    <2>1. CASE u = t
      BY <2>1 DEF Verdict
    <2>2. CASE u # t
      <3>1. u \in Tasks /\ u \in LiveSet' \ {t}
        BY <1>1, <2>2 DEF LiveSet
      <3>2. Fresh(u)'
        BY <1>1, <3>1 DEF VerdictFacts
      <3>3. Fresh(u)
        BY <1>1, <2>2, <3>1, <3>2 DEF Fresh, Waiting, Verdict
      <3> QED
        BY <3>1, <3>3 DEF Fresh, Waiting, CountedFacts
    <2> QED
      BY <2>1, <2>2
  <1>6. ASSUME NEW u \in Tasks, AbsSt[u] \notin {"unborn", "ended"}
        PROVE  AbsSt[u] = "asking" /\ ~Abs!Ready(AbsOp[u])
    <2>1. u \in LiveSet
      BY <1>6, SeenOf DEF Seen, LiveSet
    <2>2. pc[u] \in {"locking", "parked", "woken"} /\ ~Ready(op[u])
      BY <1>5, <2>1
    <2>3. AbsSt[u] = "asking" /\ AbsOp[u] = op[u]
      BY <2>2, SeenOf DEF Seen
    <2>4. CASE op[u].kind = "all"
      <3>1. u = Main /\ ~(live <= 1)
        BY <2>2, <2>4 DEF Bookkeeping, Ready
      <3>2. PICK w \in LiveSet : w # Main
        <4>1. SUFFICES ASSUME LiveSet \subseteq {Main}  PROVE FALSE
          OBVIOUS
        <4>2. {Main} \in SUBSET Tasks /\ Cardinality({Main}) = 1
          BY <3>1, FS_Singleton
        <4>3. Cardinality(LiveSet) <= 1
          BY <4>1, <4>2, Counting
        <4> QED
          BY <3>1, <4>3 DEF CountersExact
      <3>3. w \in Tasks /\ AbsSt[w] = "asking"
        BY <1>5, SeenOf DEF Seen, LiveSet
      <3> QED
        BY <2>3, <2>4, <3>1, <3>2, <3>3 DEF Abs!Ready
    <2>5. CASE op[u].kind # "all"
      BY <2>2, <2>3, <2>5 DEF Ready, Abs!Ready
    <2> QED
      BY <2>3, <2>4, <2>5
  <1> QED
    BY <1>3, <1>4, <1>6 DEF Abs!Deadlock, Abs!Live

\* The steps of wait_then: the request is done, the verdict is given, or
\* nothing shows.
LEMMA AbsLoop ==
  ASSUME IndInv, IndInv', NEW t \in Tasks, pc[t] \in {"locking", "woken"},
         NEW b, WaitLoop(t, b)
  PROVE  Abs!Step(t) \/ Abs!Finish \/ UNCHANGED Abs!vars
  <1> USE DEF IndInv
  <1>1. ASSUME NEW c \in Chans, Proceed(t), ActSend(t, c)  PROVE Abs!Step(t)
    BY <1>1, AbsSend DEF Proceed, Abs!Step
  <1>2. ASSUME NEW c \in Chans, Proceed(t), ActRecv(t, c)  PROVE Abs!Step(t)
    BY <1>2, AbsRecv DEF Proceed, Abs!Step
  <1>3. CASE Proceed(t) /\ ActWait(t)
    <2>1. /\ pc'[t] = "reading" /\ op' = op
          /\ \A u \in Tasks \ {t} : Seen(pc'[u]) = Seen(pc[u])
      BY <1>3, WakeUnseen DEF ActWait
    <2>2. \A u \in Tasks : Seen(pc'[u]) = Seen(pc[u])
      BY <2>1 DEF Seen
    <2>3. AbsSt' = AbsSt /\ AbsOp' = AbsOp /\ AbsResult' = AbsResult
      BY <1>3, <2>1, <2>2 DEF AbsSt, AbsOp, AbsResult, Proceed, cells
    <2> QED
      BY <1>3, <2>3 DEF Proceed, ActWait, cells, Abs!vars
  <1>4. CASE Proceed(t) /\ ActAll(t)
    BY <1>4, AbsAll DEF Proceed
  <1>5. CASE Verdict(t, b)
    BY <1>5, AbsVerdict DEF Abs!Step
  <1>6. CASE Park(t, b)
    <2>1. \A u \in Tasks : Seen(pc'[u]) = Seen(pc[u])
      BY <1>6 DEF Park, TypeOK, Seen
    <2>2. AbsSt' = AbsSt /\ AbsOp' = AbsOp /\ AbsResult' = AbsResult
      BY <1>6, <2>1 DEF AbsSt, AbsOp, AbsResult, Park, cells
    <2> QED
      BY <1>6, <2>2 DEF Park, chans, cells, Abs!vars
  <1> QED
    BY <1>1, <1>2, <1>3, <1>4, <1>5, <1>6 DEF WaitLoop, Proceed

\* Starting a thread: the task exists for the program when its thread runs.
LEMMA AbsStart ==
  ASSUME IndInv, TypeOK', NEW t \in Tasks
  PROVE  /\ \A u \in Tasks : Start(t, u) => UNCHANGED Abs!vars
         /\ ThreadStarts(t) => Abs!Step(t)
         /\ ThreadRefused(t) => Abs!Step(t)
  <1> USE DEF IndInv
  <1>1. ASSUME NEW u \in Tasks, Start(t, u)  PROVE UNCHANGED Abs!vars
    <2>1. \A w \in Tasks : Seen(pc'[w]) = Seen(pc[w])
      BY <1>1 DEF Start, TypeOK, Seen
    <2>2. \A w \in Tasks : Seen(pc[w]) = "asking" => op'[w] = op[w]
      BY <1>1 DEF Start, TypeOK, Seen
    <2>3. AbsSt' = AbsSt /\ AbsOp' = AbsOp /\ AbsResult' = AbsResult
      BY <1>1, <2>1, <2>2 DEF AbsSt, AbsOp, AbsResult, Start, cells
    <2> QED
      BY <1>1, <2>3 DEF Start, chans, cells, Abs!vars
  <1>2. ASSUME pc[t] = "starting"
        PROVE  op[t].task \in Tasks /\ pc[op[t].task] = "born" /\ op[t].task # t
    BY <1>2, OpFields DEF TypeOK, Bookkeeping
  <1>3. ASSUME ThreadStarts(t)  PROVE Abs!Step(t)
    <2>0. PICK u \in Tasks : u = op[t].task
      BY <1>2, <1>3 DEF ThreadStarts
    <2>1. u \in Tasks /\ pc[u] = "born" /\ pc[t] = "starting" /\ u # t
      BY <2>0, <1>2, <1>3 DEF ThreadStarts
    <2>2. \A w \in Tasks : pc'[w] = IF w = u \/ w = t THEN "running" ELSE pc[w]
      BY <1>3, <2>0, <2>1 DEF ThreadStarts, TypeOK
    <2>3. \A w \in Tasks \ {t} : op'[w] = op[w]
      BY <1>3 DEF ThreadStarts, TypeOK
    <2>4. AbsSt[t] = "running" /\ AbsSt[u] = "unborn"
      BY <2>1, SeenOf DEF Seen
    <2>5. AbsSt' = [AbsSt EXCEPT ![u] = "running"]
      BY <2>1, <2>2 DEF AbsSt, Seen
    <2>6. AbsOp' = AbsOp
      BY <2>1, <2>2, <2>3 DEF AbsOp, AbsSt, Seen
    <2>7. Abs!Spawn(t, u)
      BY <1>3, <2>4, <2>5, <2>6 DEF Abs!Spawn, ThreadStarts, AbsResult, chans, cells
    <2> QED
      BY <2>1, <2>7 DEF Abs!Step
  <1>4. ASSUME ThreadRefused(t)  PROVE Abs!Step(t)
    <2> DEFINE u == op[t].task
    <2>1. u \in Tasks /\ pc[u] = "born" /\ pc[t] = "starting" /\ u # t
      BY <1>2, <1>4 DEF ThreadRefused
    <2>2. \A w \in Tasks : pc'[w] = IF w = u THEN "unborn" ELSE IF w = t THEN "failed" ELSE pc[w]
      BY <1>4, <2>1 DEF ThreadRefused, TypeOK
    <2>3. op'[t] = Idle /\ \A w \in Tasks \ {t} : op'[w] = op[w]
      BY <1>4 DEF ThreadRefused, TypeOK
    <2> HIDE DEF u
    <2>4. AbsSt[t] = "running"
      BY <2>1, SeenOf DEF Seen
    <2>5. \A w \in Tasks \ {t} : Seen(pc'[w]) = Seen(pc[w])
      BY <2>1, <2>2 DEF Seen
    <2>6. AbsSt' = [AbsSt EXCEPT ![t] = "failed"] /\ AbsOp' = [AbsOp EXCEPT ![t] = Idle]
      BY <2>1, <2>2, <2>3, <2>5, OneTask DEF Seen
    <2>7. Abs!Fail(t, "spawn")
      BY <1>4, <2>6, SameNames DEF Abs!Fail, ThreadRefused, AbsResult, chans, cells
    <2> QED
      <3>1. Abs!Err(t)
        BY <2>4, <2>7 DEF Abs!Err
      <3> QED
        BY <3>1 DEF Abs!Step
  <1> QED
    BY <1>1, <1>3, <1>4

\* The end of a task shows when `done` is stored, between its result and the
\* step that leaves the count.
LEMMA AbsEnd ==
  ASSUME IndInv, TypeOK', NEW t \in Tasks
  PROVE  /\ StoreResult(t) => UNCHANGED Abs!vars
         /\ MarkDone(t) => Abs!Step(t)
         /\ Finish(t) => UNCHANGED Abs!vars
  <1> USE DEF IndInv
  <1>1. ASSUME StoreResult(t)  PROVE UNCHANGED Abs!vars
    <2>1. PICK v \in Results : result' = [result EXCEPT ![t] = v]
      BY <1>1 DEF StoreResult
    <2>2. ~done[t]
      BY <1>1 DEF StoreResult, Bookkeeping
    <2>3. \A w \in Tasks : done[w] => result'[w] = result[w]
      BY <2>1, <2>2 DEF TypeOK
    <2>4. \A w \in Tasks : Seen(pc'[w]) = Seen(pc[w])
      BY <1>1 DEF StoreResult, TypeOK, Seen
    <2>5. AbsSt' = AbsSt /\ AbsOp' = AbsOp /\ AbsResult' = AbsResult
      BY <1>1, <2>3, <2>4 DEF AbsSt, AbsOp, AbsResult, StoreResult
    <2> QED
      BY <1>1, <2>5 DEF StoreResult, chans, Abs!vars
  <1>2. ASSUME MarkDone(t)  PROVE Abs!Step(t)
    <2>1. t # Main /\ AbsSt[t] = "running"
      BY <1>2, SeenOf DEF MarkDone, Bookkeeping, Seen
    <2>2. pc'[t] = "marked" /\ \A u \in Tasks \ {t} : Seen(pc'[u]) = Seen(pc[u])
      BY <1>2, WakeUnseen DEF MarkDone
    <2>3. AbsSt' = [AbsSt EXCEPT ![t] = "ended"]
      BY <1>2, <2>2, OneTask DEF MarkDone, Seen
    <2>4. \A w \in Tasks : Seen(pc'[w]) = "asking" <=> Seen(pc[w]) = "asking"
      BY <1>2, <2>2 DEF MarkDone, Seen
    <2>5. AbsOp' = AbsOp
      BY <1>2, <2>4 DEF MarkDone, AbsOp, AbsSt
    <2>6. AbsResult' = [AbsResult EXCEPT ![t] = result[t]]
      BY <1>2 DEF MarkDone, AbsResult, TypeOK
    <2>7. Abs!End(t, result[t])
      BY <1>2, <2>1, <2>3, <2>5, <2>6 DEF Abs!End, MarkDone, chans
    <2>8. PICK v \in Results : v = result[t]
      BY DEF TypeOK
    <2>9. Abs!End(t, v)
      BY <2>7, <2>8 DEF Abs!End
    <2> QED
      BY <2>9, SameNames DEF Abs!Step
  <1>3. ASSUME Finish(t)  PROVE UNCHANGED Abs!vars
    <2>1. pc'[t] = "ended" /\ \A u \in Tasks \ {t} : Seen(pc'[u]) = Seen(pc[u])
      BY <1>3, WakeUnseen DEF Finish
    <2>2. \A w \in Tasks : Seen(pc'[w]) = Seen(pc[w])
      BY <1>3, <2>1 DEF Finish, Seen
    <2>3. AbsSt' = AbsSt /\ AbsOp' = AbsOp /\ AbsResult' = AbsResult
      BY <1>3, <2>2 DEF AbsSt, AbsOp, AbsResult, Finish, cells
    <2> QED
      BY <1>3, <2>3 DEF Finish, chans, cells, Abs!vars
  <1> QED
    BY <1>1, <1>2, <1>3

\* The other steps of one thread.
LEMMA AbsRest ==
  ASSUME IndInv, TypeOK', NEW t \in Tasks
  PROVE  /\ ReadResult(t) => Abs!Step(t)
         /\ \A c \in Chans : Close(t, c) => Abs!Step(t)
         /\ RuntimeError(t) => Abs!Step(t)
         /\ Report(t) => Abs!Step(t)
         /\ SpuriousWakeup(t) => UNCHANGED Abs!vars
  <1> USE DEF IndInv
  <1>1. ASSUME ReadResult(t)  PROVE Abs!Step(t)
    <2>1. /\ op[t].kind = "wait" /\ op[t].task \in Tasks /\ done[op[t].task]
          /\ AbsSt[t] = "asking" /\ AbsOp[t] = op[t]
      <3>1. TypeOK /\ Bookkeeping /\ pc[t] = "reading"
        BY <1>1 DEF ReadResult
      <3>2. op[t].kind = "wait" /\ done[op[t].task] /\ op[t] \in AllOps \cup SpawnOps
        BY <3>1 DEF Bookkeeping, TypeOK
      <3>3. op[t].task \in Tasks
        BY <3>2, OpFields
      <3>4. AbsSt[t] = "asking" /\ AbsOp[t] = op[t]
        BY <3>1, SeenOf DEF Seen
      <3> QED
        BY <3>2, <3>3, <3>4
    <2>2. AbsResult[op[t].task] = result[op[t].task]
      BY <2>1, SeenOf
    <2>3. /\ pc'[t] = "running" /\ op'[t] = Idle
          /\ \A u \in Tasks \ {t} : pc'[u] = pc[u] /\ op'[u] = op[u]
      BY <1>1 DEF ReadResult, TypeOK
    <2>4. AbsSt' = [AbsSt EXCEPT ![t] = "running"] /\ AbsOp' = [AbsOp EXCEPT ![t] = Idle]
      BY <2>3, OneTask DEF Seen
    <2>5. Abs!Answer(t, result[op[t].task])
      BY <1>1, <2>1, <2>4, SameNames DEF Abs!Answer, ReadResult, AbsResult, chans, cells
    <2>6. Abs!Waited(t)
      BY <1>1, <2>1, <2>2, <2>5 DEF Abs!Waited, Abs!Answer, ReadResult, chans
    <2> QED
      BY <2>6 DEF Abs!Step
  <1>2. ASSUME NEW c \in Chans, Close(t, c)  PROVE Abs!Step(t)
    <2>1. op' = op /\ \A w \in Tasks : Seen(pc'[w]) = Seen(pc[w])
      BY <1>2 DEF Close, Wake, NotifyAll, Seen
    <2>2. AbsSt' = AbsSt /\ AbsOp' = AbsOp /\ AbsResult' = AbsResult
      BY <1>2, <2>1 DEF AbsSt, AbsOp, AbsResult, Close, cells
    <2>3. Abs!Close(t, c)
      BY <1>2, <2>2, SeenOf DEF Abs!Close, Close, cells, Seen
    <2> QED
      BY <2>3 DEF Abs!Step
  <1>3. ASSUME RuntimeError(t)  PROVE Abs!Step(t)
    <2>1. AbsSt[t] = "running" /\ AbsOp[t] = Idle
      BY <1>3, SeenOf DEF RuntimeError, Seen
    <2>2. AbsSt' = [AbsSt EXCEPT ![t] = "failed"] /\ AbsOp' = [AbsOp EXCEPT ![t] = Idle]
      <3>1. /\ pc'[t] = "failed"
            /\ \A u \in Tasks \ {t} : pc'[u] = pc[u] /\ op'[u] = op[u]
        BY <1>3 DEF RuntimeError, TypeOK
      <3> QED
        BY <3>1, OneTask DEF Seen
    <2>3. Abs!Fail(t, "error")
      BY <1>3, <2>2, SameNames DEF Abs!Fail, RuntimeError, AbsResult, chans, cells
    <2>4. Abs!Err(t)
      BY <2>1, <2>3 DEF Abs!Err
    <2> QED
      BY <2>4 DEF Abs!Step
  <1>4. ASSUME Report(t)  PROVE Abs!Step(t)
    <2>1. AbsSt' = AbsSt /\ AbsOp' = AbsOp /\ AbsResult' = AbsResult
      BY <1>4 DEF AbsSt, AbsOp, AbsResult, Report, cells
    <2>2. Abs!Report(t)
      BY <1>4, <2>1, SeenOf DEF Abs!Report, Report, chans, cells, Seen
    <2> QED
      BY <2>2 DEF Abs!Step
  <1>5. ASSUME SpuriousWakeup(t)  PROVE UNCHANGED Abs!vars
    <2>1. \A w \in Tasks : Seen(pc'[w]) = Seen(pc[w])
      BY <1>5 DEF SpuriousWakeup, TypeOK, Seen
    <2>2. AbsSt' = AbsSt /\ AbsOp' = AbsOp /\ AbsResult' = AbsResult
      BY <1>5, <2>1 DEF AbsSt, AbsOp, AbsResult, SpuriousWakeup, cells
    <2> QED
      BY <1>5, <2>2 DEF SpuriousWakeup, chans, cells, Abs!vars
  <1> QED
    BY <1>1, <1>2, <1>3, <1>4, <1>5

LEMMA AbsNext ==
  ASSUME IndInv, IndInv', [Next]_vars
  PROVE  Abs!Next \/ UNCHANGED Abs!vars
  <1> DEFINE Goal(t) == Abs!Step(t) \/ Abs!Finish \/ UNCHANGED Abs!vars
  <1>0. TypeOK /\ TypeOK'
    BY DEF IndInv
  <1>1. ASSUME NEW t \in Tasks, Step(t)  PROVE Goal(t)
    <2>1. ASSUME NEW u \in Tasks, Start(t, u)  PROVE Goal(t)
      BY <1>0, <2>1, AbsStart
    <2>2. CASE ThreadStarts(t) \/ ThreadRefused(t)
      BY <1>0, <2>2, AbsStart
    <2>3. CASE CallSend(t) \/ CallRecv(t) \/ CallWait(t)
      <3>1. PICK o \in SendOps \cup RecvOps \cup WaitOps : Call(t, o)
        BY <2>3 DEF CallSend, CallRecv, CallWait
      <3>2. Abs!Ask(t, o)
        BY <1>0, <3>1, AbsCall
      <3> QED
        BY <3>2, SameNames DEF Abs!Step
    <2>4. CASE MainEnds(t)
      <3>1. Abs!Ask(t, AllOp)
        BY <1>0, <2>4, AbsCall DEF MainEnds
      <3> QED
        BY <2>4, <3>1, SameNames DEF Abs!Step, MainEnds
    <2>5. CASE Enter(t) \/ Return(t)
      <3>1. CASE Enter(t)
        BY <3>1, AbsLoop DEF Enter
      <3>2. CASE Return(t)
        BY <3>2, AbsLoop DEF Return
      <3> QED
        BY <2>5, <3>1, <3>2
    <2>6. CASE ReadResult(t) \/ RuntimeError(t) \/ Report(t)
      BY <1>0, <2>6, AbsRest
    <2>7. ASSUME NEW c \in Chans, Close(t, c)  PROVE Goal(t)
      BY <1>0, <2>7, AbsRest
    <2>8. CASE StoreResult(t) \/ MarkDone(t) \/ Finish(t)
      BY <1>0, <2>8, AbsEnd
    <2> QED
      BY <1>1, <2>1, <2>2, <2>3, <2>4, <2>5, <2>6, <2>7, <2>8 DEF Step
  <1>2. ASSUME NEW t \in Tasks, SpuriousWakeup(t)  PROVE Goal(t)
    BY <1>0, <1>2, AbsRest
  <1>3. CASE UNCHANGED vars
    BY <1>3 DEF vars, AbsSt, AbsOp, AbsResult, Abs!vars
  <1>4. CASE outcome = "running" /\ \E t \in Tasks : Step(t) \/ SpuriousWakeup(t)
    <2>1. PICK t \in Tasks : Goal(t)
      BY <1>1, <1>2, <1>4
    <2> QED
      BY <1>4, <2>1 DEF Abs!Next
  <1> QED
    BY <1>3, <1>4 DEF Next, Exited

\* The scheduler keeps what ConcSpec promises (ImplementsConcSpec): every value
\* that is sent is received once and in order, no result is seen before its
\* task has ended, an error is reported only where ConcSpec has one.
THEOREM Refinement == Spec => ImplementsConcSpec
  BY AbsInit, AbsNext, Inductive, PTL DEF Spec, ImplementsConcSpec, Abs!Spec
=============================================================================
