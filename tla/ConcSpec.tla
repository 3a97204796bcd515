------------------------------ MODULE ConcSpec ------------------------------
(***************************************************************************)
(* What `spawn`, tasks and channels promise a Siskin program, with no       *)
(* scheduler in sight.  Blocking calls are requests that complete when      *)
(* their condition holds; a deadlock may be reported only when every        *)
(* unfinished task has a request whose condition is false.  Both runtimes   *)
(* (conc.rs with interp.rs, and rt_conc.c) are shown to implement this.     *)
(***************************************************************************)
EXTENDS ConcTypes

VARIABLES st,       \* "unborn", "running", "asking", "failed" or "ended"
          op,       \* the request of a task that is asking
          q,        \* contents of each channel, oldest first
          closed,   \* has the channel been closed?
          done,     \* has the task finished?
          result,   \* its value, once it has
          got,      \* what the task's last completed request returned
          why,      \* the error of a task that failed
          outcome   \* "running" until the process exits

vars == <<st, op, q, closed, done, result, got, why, outcome>>

\* The condition each blocking call waits for.
Ready(o) ==
  \/ /\ o.kind = "send"
     /\ closed[o.ch] \/ Cap[o.ch] = 0 \/ Len(q[o.ch]) < Cap[o.ch]
  \/ /\ o.kind = "recv"
     /\ q[o.ch] # << >> \/ closed[o.ch]
  \/ /\ o.kind = "wait"
     /\ done[o.task]
  \/ /\ o.kind = "all"
     /\ \A u \in Tasks \ {Main} : st[u] \in {"unborn", "ended"}

Live == {t \in Tasks : st[t] \notin {"unborn", "ended"}}

Init ==
  /\ st = [t \in Tasks |-> IF t = Main THEN "running" ELSE "unborn"]
  /\ op = [t \in Tasks |-> Idle]
  /\ q = [c \in Chans |-> << >>]
  /\ closed = [c \in Chans |-> FALSE]
  /\ done = [t \in Tasks |-> FALSE]
  /\ result = [t \in Tasks |-> NoVal]
  /\ got = [t \in Tasks |-> NoVal]
  /\ why = [t \in Tasks |-> "none"]
  /\ outcome = "running"

Spawn(t, u) ==
  /\ st[t] = "running" /\ st[u] = "unborn"
  /\ st' = [st EXCEPT ![u] = "running"]
  /\ UNCHANGED <<op, q, closed, done, result, got, why, outcome>>

Ask(t, o) ==
  /\ st[t] = "running"
  /\ st' = [st EXCEPT ![t] = "asking"]
  /\ op' = [op EXCEPT ![t] = o]
  /\ UNCHANGED <<q, closed, done, result, got, why, outcome>>

Close(t, c) ==
  /\ st[t] = "running"
  /\ closed' = [closed EXCEPT ![c] = TRUE]
  /\ UNCHANGED <<st, op, q, done, result, got, why, outcome>>

\* A request is over and the task goes on with v.
Answer(t, v) ==
  /\ st[t] = "asking"
  /\ st' = [st EXCEPT ![t] = "running"]
  /\ op' = [op EXCEPT ![t] = Idle]
  /\ got' = [got EXCEPT ![t] = v]
  /\ UNCHANGED <<closed, done, result, why, outcome>>

Sent(t) ==
  LET c == op[t].ch IN
  /\ op[t].kind = "send" /\ Ready(op[t]) /\ ~closed[c]
  /\ q' = [q EXCEPT ![c] = Append(@, op[t].val)]
  /\ Answer(t, NoVal)

Received(t) ==
  LET c == op[t].ch IN
  /\ op[t].kind = "recv" /\ q[c] # << >>
  /\ q' = [q EXCEPT ![c] = Tail(@)]
  /\ Answer(t, Head(q[c]))

EndOfChannel(t) ==
  /\ op[t].kind = "recv" /\ q[op[t].ch] = << >> /\ closed[op[t].ch]
  /\ Answer(t, NoVal)
  /\ UNCHANGED q

Waited(t) ==
  /\ op[t].kind = "wait" /\ done[op[t].task]
  /\ Answer(t, result[op[t].task])
  /\ UNCHANGED q

End(t, v) ==
  /\ st[t] = "running" /\ t # Main
  /\ st' = [st EXCEPT ![t] = "ended"]
  /\ done' = [done EXCEPT ![t] = TRUE]
  /\ result' = [result EXCEPT ![t] = v]
  /\ UNCHANGED <<op, q, closed, got, why, outcome>>

\* A task meets a runtime error of its own, could not start a thread, or sent
\* on a closed channel; or nobody can move any more.
Fail(t, code) ==
  /\ st' = [st EXCEPT ![t] = "failed"]
  /\ why' = [why EXCEPT ![t] = code]
  /\ op' = [op EXCEPT ![t] = Idle]
  /\ UNCHANGED <<q, closed, done, result, got, outcome>>

Err(t) == st[t] = "running" /\ \E code \in {"error", "spawn"} : Fail(t, code)

SendOnClosed(t) ==
  /\ st[t] = "asking" /\ op[t].kind = "send" /\ closed[op[t].ch]
  /\ Fail(t, "closed")

Deadlock(t) ==
  /\ t \in Live
  /\ \A u \in Live : st[u] = "asking" /\ ~Ready(op[u])
  /\ Fail(t, "deadlock")

\* The process ends: with the error of a failed task, or normally.
Report(t) ==
  /\ st[t] = "failed"
  /\ outcome' = why[t]
  /\ UNCHANGED <<st, op, q, closed, done, result, got, why>>

Finish ==
  /\ st[Main] = "asking" /\ op[Main].kind = "all" /\ Ready(op[Main])
  /\ outcome' = "ok"
  /\ UNCHANGED <<st, op, q, closed, done, result, got, why>>

Step(t) ==
  \/ \E u \in Tasks : Spawn(t, u)
  \/ \E o \in SendOps \cup RecvOps \cup WaitOps : Ask(t, o)
  \/ t = Main /\ Ask(t, AllOp)
  \/ \E c \in Chans : Close(t, c)
  \/ Sent(t) \/ Received(t) \/ EndOfChannel(t) \/ Waited(t)
  \/ \E v \in Results : End(t, v)
  \/ Err(t) \/ SendOnClosed(t) \/ Deadlock(t)
  \/ Report(t)

Next == outcome = "running" /\ ((\E t \in Tasks : Step(t)) \/ Finish)

Spec == Init /\ [][Next]_vars
=============================================================================
