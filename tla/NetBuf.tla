------------------------------- MODULE NetBuf -------------------------------
(***************************************************************************)
(* The receive buffer of a connection (MiConn in rt_net.c).  The calls     *)
(* recv, recv_line and recv_n run one after the other under the mutex of   *)
(* the connection; each is a loop that looks at what has arrived and reads *)
(* more while that is not enough.  One action starts a call, one is a      *)
(* round of its loop, and one for each way out ends it.                    *)
(***************************************************************************)
EXTENDS Integers, Sequences

CONSTANTS Chunk,        \* bytes asked for in one read (65536 in the code)
          Streams,      \* what the peer may send before it closes
          Counts        \* arguments of recv and recv_n
Bytes == [nr : Nat, newline : BOOLEAN]
ASSUME NetBufAssumption ==
  /\ Chunk \in Nat \ {0} /\ Counts \subseteq Int
  /\ Streams \subseteq Seq(Bytes)

VARIABLES conn,         \* bytes pos+1..len of cell (capacity: its length) wait to be taken
          call,         \* the call that runs and the arguments and locals of its loop
          rest,         \* what the peer has still to send
          stream,       \* all it sends
          given,        \* the bytes the calls have returned so far
          got           \* the last call that returned, with its answer
connVars == << conn, call, rest, stream, given, got >>

Junk == [nr |-> 0, newline |-> TRUE]       \* memory that was never written may hold anything
Idle == [op |-> "idle", n |-> 0, scan |-> 0]
Held == conn.len - conn.pos

NetBufInit ==
  /\ conn = [cell |-> << >>, pos |-> 0, len |-> 0]
  /\ call = Idle
  /\ stream \in Streams /\ rest = stream
  /\ given = << >> /\ got = [op |-> "idle", n |-> 0, bytes |-> << >>, failed |-> FALSE]

(***************************************************************************)
(* mi_conn_fill before it reads: room for Chunk bytes behind those held.   *)
(* The loop that doubles the capacity needs no second turn: FillHasRoom.   *)
(***************************************************************************)
Short(c) == c.len + Chunk + 1 > Len(c.cell)
Rewound(c) == IF c.pos > 0 /\ c.pos = c.len THEN [c EXCEPT !.pos = 0, !.len = 0] ELSE c
\* memmove: what lies behind the moved bytes stays
Moved(c) ==
  IF Short(c) /\ c.pos > 0
  THEN [cell |-> [i \in DOMAIN c.cell |-> IF i <= c.len - c.pos THEN c.cell[c.pos + i] ELSE c.cell[i]],
        pos  |-> 0,
        len  |-> c.len - c.pos]
  ELSE c
Larger(c) ==
  IF ~Short(c) THEN c
  ELSE LET cap == IF c.cell = << >> THEN 2 * Chunk ELSE 2 * Len(c.cell)
       IN  [c EXCEPT !.cell = [i \in 1..cap |-> IF i \in DOMAIN @ THEN @[i] ELSE Junk]]
Roomy(c) == Larger(Moved(Rewound(c)))

\* the place behind which a newline is looked for goes with the bytes
\* deviation: it stays where it was
Rescan_fixed(c, next) == c.len
Rescan(c, next) == c.len - c.pos + next.pos

Begin(op, n, scan) ==
  /\ call = Idle
  /\ call' = [op |-> op, n |-> n, scan |-> scan]
  /\ UNCHANGED << conn, rest, stream, given, got >>
Answered(bytes, failed) ==
  /\ got' = [op |-> call.op, n |-> call.n, bytes |-> bytes, failed |-> failed]
  /\ given' = given \o bytes
  /\ call' = Idle
  /\ UNCHANGED stream
\* mi_conn_take, and the call returns
Take(c, n) ==
  /\ conn' = [c EXCEPT !.pos = @ + n]
  /\ Answered(SubSeq(c.cell, c.pos + 1, c.pos + n), FALSE)

mi_net_recv(max) == Begin("any", max, 0)
mi_net_recv_line == Begin("line", 0, conn.pos)
\* fewer than one byte are returned at once and change nothing
mi_net_recv_n(n) == n > 0 /\ Begin("exact", n, 0)

\* the ways out of the loops with what was asked for
TakeLine ==
  /\ call.op = "line"
  /\ \E at \in call.scan + 1..conn.len :
       /\ conn.cell[at].newline
       /\ \A i \in call.scan + 1..at - 1 : ~conn.cell[i].newline
       /\ Take(conn, at - conn.pos)
  /\ UNCHANGED rest
TakeExact == call.op = "exact" /\ Held >= call.n /\ Take(conn, call.n) /\ UNCHANGED rest
TakeAny ==
  /\ call.op = "any" /\ Held > 0
  /\ Take(conn, IF call.n > 0 /\ Held > call.n THEN call.n ELSE Held)
  /\ UNCHANGED rest

\* one more round: mi_conn_fill
Lacking ==
  \/ call.op = "line" /\ \A i \in call.scan + 1..conn.len : ~conn.cell[i].newline
  \/ call.op = "exact" /\ Held < call.n
  \/ call.op = "any" /\ Held = 0
Arrive(r) ==
  LET c == Roomy(conn) IN
  /\ Lacking
  /\ r <= Len(rest)
  /\ conn' = [c EXCEPT !.cell = [i \in DOMAIN @ |-> IF i \in c.len + 1..c.len + r THEN rest[i - c.len] ELSE @[i]], !.len = @ + r]
  /\ rest' = SubSeq(rest, r + 1, Len(rest))
  /\ call' = [call EXCEPT !.scan = IF call.op = "line" THEN Rescan(conn, c) ELSE @]
  /\ UNCHANGED << stream, given, got >>
\* the peer has closed: what is held is the answer
End == Lacking /\ rest = << >> /\ Take(Roomy(conn), Held) /\ UNCHANGED rest
\* time is up or the connection is lost
Fail == Lacking /\ conn' = Roomy(conn) /\ Answered(<< >>, TRUE) /\ UNCHANGED rest

NetBufNext ==
  \/ \E n \in Counts : mi_net_recv(n) \/ mi_net_recv_n(n)
  \/ mi_net_recv_line
  \/ TakeLine \/ TakeExact \/ TakeAny
  \/ \E r \in 1..Chunk : Arrive(r)
  \/ End \/ Fail
NetBufSpec == NetBufInit /\ [][NetBufNext]_connVars

Waiting == SubSeq(conn.cell, conn.pos + 1, conn.len)
Suffix(bytes, of) == /\ Len(bytes) <= Len(of)
                     /\ \A i \in 1..Len(bytes) : bytes[i] = of[Len(of) - Len(bytes) + i]

\* A line ends at its first newline, recv_n returns as many bytes as were asked
\* for and recv some; less comes only at the end of the stream.
AnswerWhole ==
  /\ Suffix(got.bytes, given)
  /\ got.failed => got.bytes = << >>
  /\ got.op = "line" => \A i \in 1..Len(got.bytes) - 1 : ~got.bytes[i].newline
  /\ (got.op = "exact" \/ (got.op = "any" /\ got.n > 0)) => Len(got.bytes) <= got.n
  /\ (~got.failed /\ Len(given) < Len(stream)) =>
       /\ got.op = "line" => got.bytes # << >> /\ got.bytes[Len(got.bytes)].newline
       /\ got.op = "exact" => Len(got.bytes) = got.n
       /\ got.op = "any" => got.bytes # << >>

\* recv, recv_line and recv_n give every byte once and in order however it
\* arrived, also when the buffer was moved while a line was looked for or when
\* a call failed in between, and every answer is whole.
LinesWhole == given \o Waiting \o rest = stream /\ AnswerWhole
=============================================================================
