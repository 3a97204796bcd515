----------------------------- MODULE ConcTypes -----------------------------
(***************************************************************************)
(* The constants and the blocking calls that the specifications of          *)
(* concurrency share: what a program's tasks can ask of the runtime.        *)
(***************************************************************************)
EXTENDS Naturals, Sequences, FiniteSets

CONSTANTS Tasks,   \* every task a run may have, Main included
          Main,    \* the task that runs the program's top level
          Chans,   \* the channels of the program
          Cap,     \* Cap[c]: size of channel c, 0 when it is unbounded
          Values,  \* what tasks return and send
          NoVal    \* the language's `none`

ASSUME ConcAssumption ==
  /\ Main \in Tasks
  /\ IsFiniteSet(Tasks)
  /\ Cap \in [Chans -> Nat]
  /\ NoVal \notin Values

Results == Values \cup {NoVal}

\* The blocking calls of the language, and main's wait for every task.
Idle == [kind |-> "none"]
SendOps == [kind : {"send"}, ch : Chans, val : Values]
RecvOps == [kind : {"recv"}, ch : Chans]
WaitOps == [kind : {"wait"}, task : Tasks]
AllOp == [kind |-> "all"]
AllOps == {Idle, AllOp} \cup SendOps \cup RecvOps \cup WaitOps
=============================================================================
