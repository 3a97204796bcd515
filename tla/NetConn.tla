------------------------------ MODULE NetConn ------------------------------
(***************************************************************************)
(* The connections of std.net, rt_net.c: the table of slots and connect,    *)
(* send, recv, recv_line, recv_n and close, called by several tasks.        *)
(*                                                                         *)
(* A program holds connections as the numbers of their slots.  mi_conn_at   *)
(* looks a number up under the lock of the table; what follows holds the    *)
(* lock of the slot, which is taken after the lookup.  A system call is a   *)
(* step, so that tasks, peers and the reuse of file descriptors come in     *)
(* between.  A message is sent in two writes; bytes are told apart by their *)
(* connection and place.  The buffer is a sequence here: NetBuf has its     *)
(* layout.  TLS, proxies, accept and HTTP are left out.                     *)
(***************************************************************************)
EXTENDS Naturals, Sequences, SequencesExt, FiniteSetsExt

CONSTANTS Tasks,
          MaxConns,   \* bound: connections opened in a run, and slots
          MaxBytes,   \* bound: bytes that a peer sends
          NewlineAt,  \* which of them are newlines
          MaxCalls,   \* bound: calls of a task
          Asked,      \* the counts that recv and recv_n are called with
          Stale       \* may a closed connection be used while one is opened?

ASSUME NetConnAssumption ==
  /\ MaxConns \in Nat \ {0} /\ MaxBytes \in Nat /\ MaxCalls \in Nat
  /\ Asked \subseteq Nat \ {0} /\ NewlineAt \subseteq Nat
  /\ Stale \in BOOLEAN

Conns == 1..MaxConns
NoConn == 0
Slots == 0..MaxConns - 1
Fds == 1..MaxConns
Bytes == [conn : Conns, nth : 1..MaxBytes]

VARIABLES
  slot,       \* the table: [used, fd, buf] of each slot
  mu,         \* the task that holds c->mu of each slot, if any
  file,       \* the connection that a file descriptor stands for
  opened,     \* connections opened so far
  id,         \* the slot a connection was given: the program's Conn value
  wire,       \* bytes the peer has sent and the system holds
  sent,       \* how many the peer has sent
  hungup,     \* has the peer closed its end?
  out,        \* what was written to the peer: halves of messages
  pc, call, eof,    \* of each task: where it is, in which call, and r == 0
  at,         \* of each task: the slot that the lookup found
  ret,        \* of each task: what its last call returned
  left,       \* calls that are left
  \* ghosts
  owner,      \* of each slot: the connection that was given it last
  closed,     \* connections that the program has begun to close
  got,        \* the bytes that calls on a connection have returned
  torn        \* messages whose send failed

world == <<wire, sent, hungup>>
locals == <<pc, call, eof, at, ret, left>>
vars == <<slot, mu, file, opened, id, world, out, locals, owner, closed, got, torn>>

NoCall == [kind |-> "none", conn |-> NoConn, n |-> 0]
Ret(c, bytes, status) == [call |-> c, bytes |-> bytes, status |-> status]
NoRet == Ret(NoCall, << >>, "ok")
Fresh(fd) == [used |-> TRUE, fd |-> fd, buf |-> << >>]

Init ==
  /\ slot = [s \in Slots |-> [used |-> FALSE, fd |-> 0, buf |-> << >>]]
  /\ mu = [s \in Slots |-> {}]
  /\ file = [f \in Fds |-> NoConn]
  /\ opened = 0 /\ id = [c \in Conns |-> MaxConns]
  /\ wire = [c \in Conns |-> << >>] /\ sent = [c \in Conns |-> << >>]
  /\ hungup = [c \in Conns |-> FALSE] /\ out = [c \in Conns |-> << >>]
  /\ pc = [t \in Tasks |-> "idle"] /\ call = [t \in Tasks |-> NoCall]
  /\ eof = [t \in Tasks |-> FALSE] /\ at = [t \in Tasks |-> 0]
  /\ ret = [t \in Tasks |-> NoRet] /\ left = [t \in Tasks |-> MaxCalls]
  /\ owner = [s \in Slots |-> NoConn] /\ closed = {} /\ got = [c \in Conns |-> << >>] /\ torn = {}

-----------------------------------------------------------------------------
(* The peer *)

PeerSends(c) ==
  /\ c <= opened /\ ~hungup[c] /\ Len(sent[c]) < MaxBytes
  /\ LET b == [conn |-> c, nth |-> Len(sent[c]) + 1]
     IN  /\ wire' = [wire EXCEPT ![c] = Append(@, b)]
         /\ sent' = [sent EXCEPT ![c] = Append(@, b)]
  /\ UNCHANGED <<slot, mu, file, opened, id, owner, hungup, out, locals, closed, got, torn>>

PeerCloses(c) ==
  /\ c <= opened /\ ~hungup[c]
  /\ hungup' = [hungup EXCEPT ![c] = TRUE]
  /\ UNCHANGED <<slot, mu, file, opened, id, owner, wire, sent, out, locals, closed, got, torn>>

-----------------------------------------------------------------------------
(* Opening: mi_net_dial *)

Goto(t, label) == pc' = [pc EXCEPT ![t] = label]

InCall(c) == {t \in Tasks : call[t].conn = c}
Opening == \E t \in Tasks : pc[t] = "dialed"
TearsDown(t) == call[t].kind = "close" /\ call[t].n > 0

\* The system gives the lowest free descriptor.
Dial(t) ==
  /\ pc[t] = "idle" /\ left[t] > 0 /\ opened < MaxConns
  /\ Stale \/ \A c \in closed : \A u \in InCall(c) : TearsDown(u)
  /\ left' = [left EXCEPT ![t] = @ - 1]
  /\ opened' = opened + 1
  /\ file' = [file EXCEPT ![Min({f \in Fds : file[f] = NoConn})] = opened + 1]
  /\ call' = [call EXCEPT ![t] = [kind |-> "open", conn |-> opened + 1, n |-> 0]]
  /\ Goto(t, "dialed")
  /\ UNCHANGED <<slot, mu, id, owner, world, out, eof, at, ret, closed, got, torn>>

\* mi_conn_new: the first slot that is free, under the lock of the table only.
New(t) ==
  /\ pc[t] = "dialed"
  /\ LET c == call[t].conn
         s == Min({k \in Slots : ~slot[k].used})
     IN  /\ slot' = [slot EXCEPT ![s] = Fresh(CHOOSE f \in Fds : file[f] = c)]
         /\ id' = [id EXCEPT ![c] = s]
         /\ owner' = [owner EXCEPT ![s] = c]
  /\ Goto(t, "idle") /\ call' = [call EXCEPT ![t] = NoCall]
  /\ UNCHANGED <<mu, file, opened, world, out, eof, at, ret, left, closed, got, torn>>

-----------------------------------------------------------------------------
(* Every other call: mi_conn_get, then the lock of the slot *)

\* What a program may call.  Unless Stale, a connection that is closed, or that
\* is closed while it is in use, is found in the table only as long as its slot
\* and its descriptor have not become another's, nor are about to.
MayCall(kind, c) ==
  /\ c <= opened /\ id[c] \in Slots
  /\ ~Stale /\ slot[id[c]].used /\ (c \in closed \/ (kind = "close" /\ InCall(c) # {}))
       => /\ ~Opening
          /\ owner[id[c]] = c /\ file[slot[id[c]].fd] \in {c, NoConn}

Begin(t, kind, c) ==
  /\ pc[t] = "idle" /\ left[t] > 0 /\ MayCall(kind, c)
  /\ left' = [left EXCEPT ![t] = @ - 1]
  /\ closed' = IF kind = "close" THEN closed \cup {c} ELSE closed
  /\ UNCHANGED <<slot, mu, file, opened, id, owner, world, out, eof, got, torn>>

\* mi_conn_at, under the lock of the table.
Lookup(t, kind, c, n) ==
  /\ Begin(t, kind, c)
  /\ slot[id[c]].used
  /\ Goto(t, "locking")
  /\ call' = [call EXCEPT ![t] = [kind |-> kind, conn |-> c, n |-> n]]
  /\ at' = [at EXCEPT ![t] = id[c]]
  /\ ret' = [ret EXCEPT ![t] = NoRet]

\* "connection is already closed"
NotFound(t, kind, c, n) ==
  /\ Begin(t, kind, c)
  /\ ~slot[id[c]].used
  /\ ret' = [ret EXCEPT ![t] = Ret([kind |-> kind, conn |-> c, n |-> n], << >>, "closed")]
  /\ UNCHANGED <<pc, call, at>>

Here(t) == slot[at[t]]
Holds(t, kinds) == pc[t] = "busy" /\ call[t].kind \in kinds

Lock(t) ==
  /\ pc[t] = "locking" /\ mu[at[t]] = {}
  /\ mu' = [mu EXCEPT ![at[t]] = {t}]
  /\ Goto(t, "busy")
  /\ UNCHANGED <<slot, file, opened, id, owner, world, out, call, eof, at, ret, left, closed, got, torn>>

Return(t, bytes, status) ==
  /\ mu' = [mu EXCEPT ![at[t]] = {}]
  /\ Goto(t, "idle") /\ call' = [call EXCEPT ![t] = NoCall]
  /\ ret' = [ret EXCEPT ![t] = Ret(call[t], bytes, status)]
  /\ at' = [at EXCEPT ![t] = 0] /\ eof' = [eof EXCEPT ![t] = FALSE]
  /\ UNCHANGED left

-----------------------------------------------------------------------------
(* Receiving *)

Receiving == {"recv", "recv_line", "recv_n"}

Newlines(s) == {k \in DOMAIN s : s[k].nth \in NewlineAt}

\* Does the buffer hold what the call is for?
Enough(t) ==
  LET b == Here(t).buf IN
  CASE call[t].kind = "recv" -> b # << >>
    [] call[t].kind = "recv_line" -> Newlines(b) # {}
    [] call[t].kind = "recv_n" -> Len(b) >= call[t].n

\* How much of the buffer is returned.
Share(t) ==
  LET b == Here(t).buf IN
  IF call[t].kind = "recv_line" THEN IF Newlines(b) = {} THEN Len(b) ELSE Min(Newlines(b))
  ELSE Min({call[t].n, Len(b)})

Fills(t) == Holds(t, Receiving) /\ ~Enough(t) /\ ~eof[t]

\* The connection behind the descriptor in the slot, whatever it is by now.
Reads(t) == IF Here(t).fd \in Fds THEN file[Here(t).fd] ELSE NoConn

\* mi_conn_fill: some of the bytes that have arrived.
FillSome(t) ==
  /\ Fills(t) /\ Reads(t) # NoConn
  /\ \E k \in 1..Len(wire[Reads(t)]) :
       /\ slot' = [slot EXCEPT ![at[t]].buf = @ \o SubSeq(wire[Reads(t)], 1, k)]
       /\ wire' = [wire EXCEPT ![Reads(t)] = SubSeq(@, k + 1, Len(@))]
  /\ UNCHANGED <<mu, file, opened, id, owner, sent, hungup, out, locals, closed, got, torn>>

\* Mutant: time that is up is taken for the end.
FillEndEarly(t) ==
  /\ Fills(t) /\ Reads(t) # NoConn
  /\ wire[Reads(t)] = << >>
  /\ eof' = [eof EXCEPT ![t] = TRUE]
  /\ UNCHANGED <<slot, mu, file, opened, id, owner, world, out, pc, call, at, ret, left, closed, got, torn>>
FillEnd(t) ==
  /\ Fills(t) /\ Reads(t) # NoConn
  /\ wire[Reads(t)] = << >> /\ hungup[Reads(t)]
  /\ eof' = [eof EXCEPT ![t] = TRUE]
  /\ UNCHANGED <<slot, mu, file, opened, id, owner, world, out, pc, call, at, ret, left, closed, got, torn>>

\* The time is up, or the descriptor is closed.
\* Mutants: the lock is not given back; what was read so far is thrown away.
FillFailsLocked(t) ==
  /\ Fills(t)
  /\ Reads(t) # NoConn => wire[Reads(t)] = << >> /\ ~hungup[Reads(t)]
  /\ Goto(t, "idle") /\ call' = [call EXCEPT ![t] = NoCall]
  /\ UNCHANGED <<slot, mu, file, opened, id, owner, world, out, eof, at, ret, left, closed, got, torn>>
FillFailsForgetting(t) ==
  /\ Fills(t)
  /\ Reads(t) # NoConn => wire[Reads(t)] = << >> /\ ~hungup[Reads(t)]
  /\ Return(t, << >>, "failed")
  /\ slot' = [slot EXCEPT ![at[t]].buf = << >>]
  /\ UNCHANGED <<file, opened, id, owner, world, out, closed, got, torn>>
FillFails(t) ==
  /\ Fills(t)
  /\ Reads(t) # NoConn => wire[Reads(t)] = << >> /\ ~hungup[Reads(t)]
  /\ Return(t, << >>, "failed")
  /\ UNCHANGED <<slot, file, opened, id, owner, world, out, closed, got, torn>>

\* mi_conn_take
Take(t) ==
  /\ Holds(t, Receiving)
  /\ Enough(t) \/ eof[t]
  /\ LET b == Here(t).buf  n == Share(t)  c == call[t].conn IN
       /\ slot' = [slot EXCEPT ![at[t]].buf = SubSeq(b, n + 1, Len(b))]
       /\ got' = [got EXCEPT ![c] = @ \o SubSeq(b, 1, n)]
       /\ Return(t, SubSeq(b, 1, n), "ok")
  /\ UNCHANGED <<file, opened, id, owner, world, out, closed, torn>>

-----------------------------------------------------------------------------
(* Sending: mi_conn_write, a message in two halves *)

Message(t) == <<t, left[t]>>
Writes(t, half) == Append(out[Reads(t)], [msg |-> Message(t), half |-> half])

\* Mutant: each half takes the lock for itself.
WriteHalfUnlocking(t) ==
  /\ Holds(t, {"send"}) /\ Reads(t) # NoConn
  /\ out' = [out EXCEPT ![Reads(t)] = Writes(t, call[t].n + 1)]
  /\ IF call[t].n = 0
     THEN /\ call' = [call EXCEPT ![t].n = 1]
          /\ mu' = [mu EXCEPT ![at[t]] = {}]
          /\ Goto(t, "locking")
          /\ UNCHANGED <<eof, at, ret, left>>
     ELSE Return(t, << >>, "ok")
  /\ UNCHANGED <<slot, file, opened, id, owner, world, closed, got, torn>>

\* call.n counts the halves that are written.
WriteHalf(t) ==
  /\ Holds(t, {"send"}) /\ Reads(t) # NoConn
  /\ out' = [out EXCEPT ![Reads(t)] = Writes(t, call[t].n + 1)]
  /\ IF call[t].n = 0
     THEN /\ call' = [call EXCEPT ![t].n = 1]
          /\ UNCHANGED <<mu, pc, eof, at, ret, left>>
     ELSE Return(t, << >>, "ok")
  /\ UNCHANGED <<slot, file, opened, id, owner, world, closed, got, torn>>

\* The time is up, or the peer or this side has closed.
WriteFails(t) ==
  /\ Holds(t, {"send"})
  /\ Return(t, << >>, "failed")
  /\ torn' = torn \cup {Message(t)}
  /\ UNCHANGED <<slot, file, opened, id, owner, world, out, closed, got>>

-----------------------------------------------------------------------------
(* mi_net_close *)

\* Mutant: the slot is free before the buffer is.
CloseSlotFirst(t) ==
  /\ Holds(t, {"close"}) /\ Here(t).used /\ call[t].n = 0
  /\ file' = [file EXCEPT ![Here(t).fd] = NoConn]
  /\ slot' = [slot EXCEPT ![at[t]].used = FALSE]
  /\ call' = [call EXCEPT ![t].n = 1]
  /\ UNCHANGED <<mu, opened, id, owner, world, out, pc, eof, at, ret, left, closed, got, torn>>

\* The descriptor goes first ...
CloseFile(t) ==
  /\ Holds(t, {"close"}) /\ Here(t).used /\ call[t].n = 0
  /\ file' = [file EXCEPT ![Here(t).fd] = NoConn]
  /\ call' = [call EXCEPT ![t].n = 1]
  /\ UNCHANGED <<slot, mu, opened, id, owner, world, out, pc, eof, at, ret, left, closed, got, torn>>

\* ... then the buffer and the slot, under the lock of the table ...
CloseSlot(t) ==
  /\ Holds(t, {"close"}) /\ call[t].n = 1
  /\ slot' = [slot EXCEPT ![at[t]].used = FALSE, ![at[t]].buf = << >>]
  /\ call' = [call EXCEPT ![t].n = 2]
  /\ UNCHANGED <<mu, file, opened, id, owner, world, out, pc, eof, at, ret, left, closed, got, torn>>

\* ... and the lock of the slot, which may have been given away by now.
CloseEnd(t) ==
  /\ Holds(t, {"close"}) /\ call[t].n = 2
  /\ Return(t, << >>, "ok")
  /\ UNCHANGED <<slot, file, opened, id, owner, world, out, closed, got, torn>>

\* Another task has closed it between the lookup and the lock.
CloseLate(t) ==
  /\ Holds(t, {"close"}) /\ ~Here(t).used /\ call[t].n = 0
  /\ Return(t, << >>, "ok")
  /\ UNCHANGED <<slot, file, opened, id, owner, world, out, closed, got, torn>>

-----------------------------------------------------------------------------

Goes(t) ==
  \/ New(t) \/ Lock(t)
  \/ FillSome(t) \/ FillEnd(t) \/ FillFails(t) \/ Take(t)
  \/ WriteHalf(t) \/ WriteFails(t)
  \/ CloseFile(t) \/ CloseSlot(t) \/ CloseEnd(t) \/ CloseLate(t)

Calls(t) ==
  \/ Dial(t)
  \/ \E c \in Conns, n \in Asked, kind \in {"recv", "recv_n"} :
       Lookup(t, kind, c, n) \/ NotFound(t, kind, c, n)
  \/ \E c \in Conns, kind \in {"recv_line", "send", "close"} :
       Lookup(t, kind, c, 0) \/ NotFound(t, kind, c, 0)

Peer == \E c \in Conns : PeerCloses(c) \/ PeerSends(c)

Next == Peer \/ \E t \in Tasks : Calls(t) \/ Goes(t)

Spec == Init /\ [][Next]_vars

\* Threads run; a socket that stays silent times out, since std.net gives every
\* socket a time-out (30 s unless set_timeout says otherwise; 0 means none).
FairSpec == Spec /\ \A t \in Tasks : WF_vars(Goes(t))

-----------------------------------------------------------------------------
(* Properties *)

Kinds == {"none", "open", "send", "close"} \cup Receiving
CallType == [kind : Kinds, conn : Conns \cup {NoConn}, n : Nat]
RetType == [call : CallType, bytes : Seq(Bytes), status : {"ok", "closed", "failed"}]

\* Types; a slot's lock has one holder, and a connection one descriptor at most.
TypeOK ==
  /\ slot \in [Slots -> [used : BOOLEAN, fd : {0} \cup Fds, buf : Seq(Bytes)]]
  /\ mu \in [Slots -> {{}} \cup {{t} : t \in Tasks}]
  /\ file \in [Fds -> Conns \cup {NoConn}]
  /\ \A f, g \in Fds : file[f] = file[g] => f = g \/ file[f] = NoConn
  /\ opened \in 0..MaxConns /\ id \in [Conns -> Slots \cup {MaxConns}]
  /\ wire \in [Conns -> Seq(Bytes)] /\ sent \in [Conns -> Seq(Bytes)]
  /\ hungup \in [Conns -> BOOLEAN] /\ got \in [Conns -> Seq(Bytes)]
  /\ out \in [Conns -> Seq([msg : Tasks \X (0..MaxCalls), half : 1..2])]
  /\ pc \in [Tasks -> {"idle", "dialed", "locking", "busy"}]
  /\ call \in [Tasks -> CallType] /\ eof \in [Tasks -> BOOLEAN]
  /\ at \in [Tasks -> Slots] /\ ret \in [Tasks -> RetType] /\ left \in [Tasks -> 0..MaxCalls]
  /\ owner \in [Slots -> Conns \cup {NoConn}] /\ closed \subseteq 1..opened

\* However many tasks receive from a connection, and however often they time
\* out, what they got, what is buffered and what is on its way is what the peer
\* sent, in that order.
NothingLost ==
  \A c \in (1..opened) \ closed :
    sent[c] = got[c] \o (IF id[c] \in Slots THEN slot[id[c]].buf ELSE << >>) \o wire[c]

\* A receive that returns less than it was called for ("" for recv, a line
\* without its end, fewer than n bytes) means that the peer has closed and that
\* nothing of it is left.
ShortMeansEnd ==
  \A t \in Tasks :
    LET r == ret[t]  c == r.call.conn IN
    /\ r.status = "ok" /\ r.call.kind \in Receiving
    /\ \/ r.call.kind = "recv" /\ r.bytes = << >>
       \/ r.call.kind = "recv_line" /\ Newlines(r.bytes) = {}
       \/ r.call.kind = "recv_n" /\ Len(r.bytes) < r.call.n
    => hungup[c] /\ wire[c] = << >>

\* Messages that tasks send on one connection do not mix, and a half stands
\* alone only if its send failed.
SendsWhole ==
  \A c \in Conns : \A k \in DOMAIN out[c] :
    LET m == out[c][k] IN
    /\ m.half = 2 => k > 1 /\ out[c][k - 1] = [m EXCEPT !.half = 1]
    /\ m.half = 1 /\ k < Len(out[c]) /\ m.msg \notin torn
         => out[c][k + 1] = [m EXCEPT !.half = 2]

\* mi_conn_new does not take the lock of the slot it gives to a new connection:
\* whoever holds it by then is a close that has nothing left to do but let go.
SlotIsFree ==
  [][\A s \in Slots : ~slot[s].used /\ slot'[s].used
       => \A t \in mu[s] : Holds(t, {"close"}) /\ call[t].n = 2]_vars

\* Every call returns: nobody waits for ever for a peer or for a slot's lock.
Returns == \A t \in Tasks : pc[t] # "idle" ~> pc[t] = "idle"

\* "Find a connection by handle. NULL if closed or missing." (rt_net.c): what
\* is received from a connection was sent by its own peer.
OwnBytes ==
  \A c \in Conns : \A b \in ToSet(got[c]) : b.conn = c

-----------------------------------------------------------------------------
(* The inductive invariant (NetConnProofs), of programs that are not Stale *)

InSlot(t) == pc[t] \in {"locking", "busy"}

\* A call fits the place its task is at.
CallsFit ==
  \A t \in Tasks :
    LET k == call[t].kind  c == call[t].conn  n == call[t].n IN
    /\ pc[t] = "idle" => call[t] = NoCall
    /\ pc[t] = "dialed" => k = "open"
    /\ pc[t] # "idle" => c \in 1..opened
    /\ InSlot(t) => /\ k \in {"send", "close"} \cup Receiving
                    /\ id[c] = at[t] /\ (k = "close" => c \in closed)
    /\ k \in {"send", "close"} => n \in 0..2 /\ (n > 0 => pc[t] = "busy") /\ (k = "send" => n < 2)
    /\ k \in {"recv", "recv_n"} => n > 0

\* Whoever is busy holds the lock of the slot, and nobody else does.
LocksFit ==
  /\ \A t \in Tasks : pc[t] = "busy" => mu[at[t]] = {t}
  /\ \A s \in Slots : \A t \in mu[s] : pc[t] = "busy" /\ at[t] = s

\* A connection that is being opened has a descriptor, and no slot as yet.
OpeningFits ==
  /\ \A c \in Conns : c > opened => id[c] = MaxConns /\ wire[c] = << >> /\ sent[c] = << >> /\ got[c] = << >>
  /\ \A c \in 1..opened : id[c] = MaxConns => c \notin closed /\ \E f \in Fds : file[f] = c
  /\ \A f \in Fds : file[f] <= opened
  /\ \A t \in Tasks : pc[t] = "dialed" =>
       id[call[t].conn] = MaxConns /\ \A u \in Tasks \ {t} : pc[u] = "dialed" => call[u].conn # call[t].conn

\* A slot in use is its owner's, and so is the descriptor in it,
\* until a close has come as far as closing that.
SlotsFit ==
  /\ \A s \in Slots : slot[s].used => owner[s] \in 1..opened
  /\ \A s \in Slots : owner[s] # NoConn => id[owner[s]] = s /\ slot[s].fd \in Fds
  /\ \A c \in 1..opened : id[c] # MaxConns /\ owner[id[c]] = c /\ slot[id[c]].used =>
       \/ file[slot[id[c]].fd] = c
       \/ \E t \in mu[id[c]] : call[t].kind = "close" /\ call[t].n = 1
  /\ \A f \in Fds : \A c \in 1..opened : file[f] = c /\ id[c] # MaxConns =>
       owner[id[c]] = c /\ slot[id[c]].used /\ slot[id[c]].fd = f
  /\ \A c \in (1..opened) \ closed : id[c] # MaxConns =>
       owner[id[c]] = c /\ slot[id[c]].used /\ file[slot[id[c]].fd] = c
  /\ \A t \in Tasks : call[t].kind = "close" /\ call[t].n = 1 =>
       slot[at[t]].used /\ \A f \in Fds : file[f] # call[t].conn

\* Who is in a call has found his own connection, and no other has taken its
\* slot or its descriptor since: a slot is given away only once the close is
\* done but for letting go.
OwnersFit ==
  \A t \in Tasks : InSlot(t) /\ ~(call[t].kind = "close" /\ call[t].n = 2) =>
    LET c == call[t].conn IN
    /\ owner[id[c]] = c
    /\ ~TearsDown(t) => file[slot[id[c]].fd] \in {c, NoConn}
    /\ ~TearsDown(t) /\ Opening /\ c \in closed =>
         InCall(c) = {t} /\ slot[id[c]].used /\ file[slot[id[c]].fd] = c

\* The end of what the peer sends was seen there.
EndsSeen ==
  \A t \in Tasks :
    /\ eof[t] => /\ pc[t] = "busy" /\ call[t].kind \in Receiving
                 /\ hungup[call[t].conn] /\ wire[call[t].conn] = << >>
    /\ ret[t].call.kind = "none" \/ ret[t].call.conn \in Conns

\* A message of which one half is written is the last on its connection.
HalvesFit ==
  /\ \A t \in Tasks : call[t].kind = "send" /\ call[t].n = 1 =>
       LET o == out[call[t].conn] IN o # << >> /\ o[Len(o)] = [msg |-> Message(t), half |-> 1]
  /\ \A c \in Conns : out[c] # << >> =>
       LET m == out[c][Len(out[c])] IN
       m.half = 1 /\ m.msg \notin torn =>
         \E t \in Tasks : /\ call[t].kind = "send" /\ call[t].n = 1 /\ call[t].conn = c
                          /\ Message(t) = m.msg

\* The bytes of a connection stay with it: on its wire, in the slot that it was
\* given last, and in what was received from it.
Own(c) == {b \in Bytes : b.conn = c}
BytesOwned ==
  /\ \A c \in Conns : wire[c] \in Seq(Own(c)) /\ got[c] \in Seq(Own(c))
  /\ \A s \in Slots : slot[s].buf \in Seq(Own(owner[s]))

ConnInv ==
  /\ TypeOK /\ CallsFit /\ LocksFit /\ OpeningFits /\ SlotsFit /\ OwnersFit
  /\ EndsSeen /\ HalvesFit
  /\ NothingLost /\ ShortMeansEnd /\ SendsWhole
=============================================================================
