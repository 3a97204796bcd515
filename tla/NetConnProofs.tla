---------------------------- MODULE NetConnProofs ----------------------------
(***************************************************************************)
(* Proofs about NetConn, for any number of tasks, connections, bytes and   *)
(* calls, and programs that are not Stale: connections that share a table  *)
(* of slots and the system's descriptors do not meet.                      *)
(***************************************************************************)
EXTENDS NetConn, FiniteSetTheorems, SequenceTheorems, WellFoundedInduction, TLAPS

LEMMA Numbers ==
  /\ MaxConns \in Nat /\ MaxConns > 0 /\ MaxBytes \in Nat /\ MaxCalls \in Nat
  /\ MaxConns \notin Slots /\ 0 \in Slots /\ NoConn \notin Conns
  /\ Slots \subseteq Nat /\ Conns \subseteq Nat /\ Fds \subseteq Nat
  BY NetConnAssumption DEF NetConnAssumption, Slots, NoConn, Conns, Fds

\* The least of some numbers is one of them.
LEMMA Least == ASSUME NEW S, S \subseteq Nat, S # {}  PROVE Min(S) \in S /\ \A x \in S : Min(S) <= x
  <1>1. PICK n \in S : \A m \in S : <<m, n>> \notin OpToRel(<, Nat)
    BY NatLessThanWellFounded, WFMin
  <1>2. \A m \in S : ~(m < n)
    BY <1>1 DEF OpToRel
  <1>3. \A m \in S : n <= m
    BY <1>2
  <1> QED
    BY <1>3 DEF Min

-----------------------------------------------------------------------------
(* Free places *)

\* While there are connections to be opened, the system has a descriptor.
LEMMA FreeFd ==
  ASSUME TypeOK, OpeningFits, opened < MaxConns
  PROVE  \E f \in Fds : f = Min({g \in Fds : file[g] = NoConn}) /\ file[f] = NoConn
  <1> DEFINE F == {g \in Fds : file[g] = NoConn}
  <1>1. F # {}
    <2> SUFFICES ASSUME F = {}  PROVE FALSE
      OBVIOUS
    <2>1. opened \in Nat /\ opened < MaxConns /\ opened \in Int /\ 1 \in Int /\ MaxConns \in Int
      BY Numbers DEF TypeOK
    <2>2. file \in [Fds -> 1..opened]
      BY <2>1, Numbers DEF TypeOK, OpeningFits, Conns, NoConn
    <2>3. IsFiniteSet(Fds) /\ Cardinality(Fds) = MaxConns
      BY <2>1, Numbers, FS_Interval DEF Fds
    <2>4. IsFiniteSet(1..opened) /\ Cardinality(1..opened) = IF 1 > opened THEN 0 ELSE opened - 1 + 1
      BY <2>1, FS_Interval
    <2>5. Cardinality(1..opened) < Cardinality(Fds)
      BY <2>1, <2>3, <2>4
    <2>6. PICK f, g \in Fds : f # g /\ file[f] = file[g]
      <3> DEFINE D == 1..opened
      <3> HIDE DEF D
      <3>1. file \in [Fds -> D] /\ IsFiniteSet(D) /\ Cardinality(D) < Cardinality(Fds)
        BY <2>2, <2>4, <2>5 DEF D
      <3> QED
        BY <2>3, <3>1, FS_PigeonHole
    <2>7. file[f] # NoConn
      BY <2>2, <2>6 DEF NoConn
    <2> QED
      BY <2>6, <2>7 DEF TypeOK
  <1>2. F \subseteq Nat
    BY Numbers
  <1>3. Min(F) \in F
    BY <1>1, <1>2, Least
  <1> QED
    BY <1>3

\* A connection that is being opened has no slot yet, so there is one for it.
LEMMA FreeSlot ==
  ASSUME TypeOK, SlotsFit, OpeningFits, NEW d \in 1..opened, id[d] = MaxConns
  PROVE  \E s \in Slots : s = Min({k \in Slots : ~slot[k].used}) /\ ~slot[s].used
  <1> DEFINE F == {k \in Slots : ~slot[k].used}
  <1>1. F # {}
    <2> SUFFICES ASSUME F = {}  PROVE FALSE
      OBVIOUS
    <2> DEFINE D == (1..opened) \ {d}
    <2>1. opened \in Nat /\ opened <= MaxConns /\ opened \in Int /\ 1 \in Int /\ 0 \in Int /\ MaxConns \in Nat /\ MaxConns > 0
      BY Numbers DEF TypeOK
    <2>2. \A s \in Slots : owner[s] \in 1..opened /\ id[owner[s]] = s
      BY <2>1 DEF SlotsFit, NoConn
    <2>3. owner \in [Slots -> D]
      BY <2>2, Numbers DEF TypeOK
    <2>4. IsFiniteSet(Slots) /\ Cardinality(Slots) = MaxConns
      <3>1. MaxConns - 1 \in Int
        BY <2>1
      <3>2. IsFiniteSet(0..MaxConns - 1) /\ Cardinality(0..MaxConns - 1) = IF 0 > MaxConns - 1 THEN 0 ELSE (MaxConns - 1) - 0 + 1
        BY <2>1, <3>1, FS_Interval
      <3> QED
        BY <2>1, <3>2 DEF Slots
    <2>5. IsFiniteSet(1..opened) /\ Cardinality(1..opened) = IF 1 > opened THEN 0 ELSE opened - 1 + 1
      BY <2>1, FS_Interval
    <2>6. IsFiniteSet(D) /\ Cardinality(D) = Cardinality(1..opened) - 1
      BY <2>5, FS_RemoveElement
    <2>7. Cardinality(D) < Cardinality(Slots)
      BY <2>1, <2>4, <2>5, <2>6
    <2>8. PICK r, s \in Slots : r # s /\ owner[r] = owner[s]
      BY <2>3, <2>4, <2>6, <2>7, FS_PigeonHole
    <2> QED
      BY <2>2, <2>8
  <1>2. F \subseteq Nat
    BY Numbers
  <1>3. Min(F) \in F
    BY <1>1, <1>2, Least
  <1> QED
    BY <1>3

-----------------------------------------------------------------------------
(* Who is where *)

\* A task in a call stands at the slot of its connection; a busy one alone.
LEMMA Where ==
  ASSUME TypeOK, CallsFit, LocksFit, NEW t \in Tasks, InSlot(t)
  PROVE  /\ call[t].conn \in 1..opened /\ call[t].conn \in Conns
         /\ at[t] \in Slots /\ id[call[t].conn] = at[t] /\ at[t] # MaxConns
         /\ call[t].kind \in {"send", "close"} \cup Receiving
         /\ call[t].n \in Nat
         /\ pc[t] = "busy" => mu[at[t]] = {t}
  <1>1. call[t] \in CallType /\ opened \in 0..MaxConns /\ at[t] \in Slots
    BY DEF TypeOK
  <1>2. call[t].conn \in 1..opened
    BY DEF CallsFit, InSlot
  <1>3. call[t].conn \in Conns
    BY <1>1, <1>2, Numbers DEF Conns
  <1> QED
    BY <1>1, <1>2, <1>3, Numbers DEF CallsFit, LocksFit, InSlot, CallType

LEMMA Alone ==
  ASSUME TypeOK, LocksFit, NEW t \in Tasks, NEW u \in Tasks, pc[t] = "busy", pc[u] = "busy", at[t] = at[u]
  PROVE  t = u
  BY DEF LocksFit

\* What a receive or a send acts on is the connection it was called with.
LEMMA OwnConn ==
  ASSUME TypeOK, CallsFit, LocksFit, OwnersFit, NEW t \in Tasks, InSlot(t),
         call[t].kind # "close"
  PROVE  owner[at[t]] = call[t].conn /\ (Reads(t) = call[t].conn \/ Reads(t) = NoConn)
  <1>1. ~TearsDown(t) /\ id[call[t].conn] = at[t] /\ at[t] \in Slots
    BY Where DEF TearsDown
  <1>2. owner[id[call[t].conn]] = call[t].conn /\ file[slot[id[call[t].conn]].fd] \in {call[t].conn, NoConn}
    BY <1>1 DEF OwnersFit
  <1> QED
    BY <1>1, <1>2 DEF Reads, Here

\* Two tasks that are busy with one connection, and not done closing it, are one.
LEMMA OneUser ==
  ASSUME TypeOK, CallsFit, LocksFit, NEW t \in Tasks, NEW u \in Tasks,
         pc[t] = "busy", pc[u] = "busy", call[t].conn = call[u].conn
  PROVE  t = u
  <1>1. at[t] = at[u]
    BY Where DEF InSlot
  <1> QED
    BY <1>1, Alone

-----------------------------------------------------------------------------
(* What leaves parts of the invariant alone *)

table == <<slot, mu, file, opened, id, owner, pc, call, at, closed>>

LEMMA TableKept ==
  ASSUME CallsFit, LocksFit, SlotsFit, OwnersFit, UNCHANGED table
  PROVE  CallsFit' /\ LocksFit' /\ SlotsFit' /\ OwnersFit'
  <1> USE DEF table
  <1>1. CallsFit'
    BY DEF CallsFit, InSlot
  <1>2. LocksFit'
    BY DEF LocksFit
  <1>3. SlotsFit'
    BY DEF SlotsFit
  <1>4. OwnersFit'
    BY DEF OwnersFit, InSlot, TearsDown, Opening, InCall
  <1> QED
    BY <1>1, <1>2, <1>3, <1>4

LEMMA HalvesKept ==
  ASSUME HalvesFit, SendsWhole, UNCHANGED <<out, torn>>,
         \A t \in Tasks : call[t].kind = "send" => left'[t] = left[t],
         \A t \in Tasks : call'[t] # call[t] => call[t].kind # "send" /\ (call'[t].kind = "send" => call'[t].n = 0)
  PROVE  HalvesFit' /\ SendsWhole'
  <1>1. \A t \in Tasks : call'[t].kind = "send" /\ call'[t].n = 1 => call'[t] = call[t]
    OBVIOUS
  <1>2. \A t \in Tasks : call[t].kind = "send" => call'[t] = call[t]
    OBVIOUS
  <1>3. \A t \in Tasks : call[t].kind = "send" => Message(t)' = Message(t)
    BY DEF Message
  <1>4. HalvesFit'
    BY <1>1, <1>2, <1>3 DEF HalvesFit
  <1>5. SendsWhole'
    BY DEF SendsWhole
  <1> QED
    BY <1>4, <1>5

\* An end that was seen stays one.
LEMMA EndsKept ==
  ASSUME EndsSeen, ShortMeansEnd,
         \A c \in Conns : /\ hungup[c] => hungup'[c]
                          /\ hungup[c] /\ wire[c] = << >> => wire'[c] = << >>,
         \A t \in Tasks : eof[t] => call[t].conn \in Conns,
         \A t \in Tasks : eof'[t] => eof[t] /\ pc'[t] = pc[t] /\ call'[t] = call[t],
         \A t \in Tasks : ret'[t] # ret[t] => ret'[t].status # "ok" \/ ret'[t].call.kind \notin Receiving,
         \A t \in Tasks : ret'[t] # ret[t] => ret'[t].call.kind = "none" \/ ret'[t].call.conn \in Conns
  PROVE  EndsSeen' /\ ShortMeansEnd'
  <1>1. EndsSeen'
    BY DEF EndsSeen
  <1>2. ShortMeansEnd'
    BY DEF EndsSeen, Receiving, ShortMeansEnd, Newlines
  <1> QED
    BY <1>1, <1>2

\* Nothing is lost where nothing moves.
LEMMA LostKept ==
  ASSUME NothingLost, UNCHANGED <<opened, id>>, closed \subseteq closed',
         \A c \in (1..opened) \ closed' :
           /\ sent'[c] = sent[c] /\ got'[c] = got[c] /\ wire'[c] = wire[c]
           /\ id[c] \in Slots => slot'[id[c]].buf = slot[id[c]].buf
  PROVE  NothingLost'
  BY DEF NothingLost

LEMMA OpeningKept ==
  ASSUME OpeningFits, UNCHANGED <<opened, id, closed, file>>,
         \A c \in Conns : c > opened => wire'[c] = wire[c] /\ sent'[c] = sent[c] /\ got'[c] = got[c],
         \A t \in Tasks : pc'[t] = "dialed" => pc[t] = "dialed" /\ call'[t] = call[t]
  PROVE  OpeningFits'
  BY DEF OpeningFits

-----------------------------------------------------------------------------
(* The peer *)

LEMMA PeerSendsInv ==
  ASSUME ConnInv, NEW c \in Conns, PeerSends(c)
  PROVE  ConnInv'
  <1> DEFINE b == [conn |-> c, nth |-> Len(sent[c]) + 1]
  <1>1. /\ c <= opened /\ ~hungup[c] /\ Len(sent[c]) < MaxBytes
        /\ wire' = [wire EXCEPT ![c] = Append(@, b)]
        /\ sent' = [sent EXCEPT ![c] = Append(@, b)]
        /\ UNCHANGED <<slot, mu, file, opened, id, owner, hungup, out, locals, closed, got, torn>>
    BY DEF PeerSends
  <1>2. UNCHANGED table /\ UNCHANGED <<pc, call, eof, at, ret, left>>
    BY <1>1 DEF table, locals
  <1>3. TypeOK /\ wire[c] \in Seq(Bytes) /\ sent[c] \in Seq(Bytes)
    BY DEF ConnInv, TypeOK
  <1>4. b \in Bytes
    BY <1>1, <1>3, LenProperties, Numbers DEF Bytes
  <1> HIDE DEF b
  <1>5. TypeOK'
    <2>1. wire' \in [Conns -> Seq(Bytes)] /\ sent' \in [Conns -> Seq(Bytes)]
      BY <1>1, <1>3, <1>4, AppendProperties DEF TypeOK
    <2> QED
      BY <1>1, <1>2, <1>3, <2>1 DEF TypeOK
  <1>6. CallsFit' /\ LocksFit' /\ SlotsFit' /\ OwnersFit'
    BY <1>2, TableKept DEF ConnInv
  <1>7. OpeningFits'
    BY <1>1, <1>2, <1>3, OpeningKept, Numbers DEF ConnInv, TypeOK
  <1>8. HalvesFit' /\ SendsWhole'
    BY <1>1, <1>2, HalvesKept DEF ConnInv
  <1>9. EndsSeen' /\ ShortMeansEnd'
    <2>1. \A t \in Tasks : eof[t] => call[t].conn \in Conns
      BY <1>3, Where DEF ConnInv, EndsSeen, InSlot
    <2>2. \A d \in Conns : hungup[d] => d # c
      BY <1>1
    <2>3. \A d \in Conns : hungup[d] /\ wire[d] = << >> => wire'[d] = << >>
      BY <1>1, <1>3, <2>2 DEF TypeOK
    <2> QED
      BY <1>1, <1>2, <2>1, <2>3, EndsKept DEF ConnInv
  <1>10. NothingLost'
    <2> SUFFICES ASSUME NEW d \in (1..opened) \ closed
                 PROVE  sent'[d] = got[d] \o (IF id[d] \in Slots THEN slot[id[d]].buf ELSE << >>) \o wire'[d]
      BY <1>1, <1>2 DEF NothingLost
    <2> DEFINE B == IF id[d] \in Slots THEN slot[id[d]].buf ELSE << >>
    <2>1. d \in Conns /\ sent[d] = got[d] \o B \o wire[d]
      <3>1. d \in Conns
        BY <1>3, Numbers DEF TypeOK, Conns
      <3>2. NothingLost
        BY DEF ConnInv
      <3> QED
        BY <3>1, <3>2 DEF NothingLost
    <2>2. CASE d # c
      BY <1>1, <1>3, <2>1, <2>2, Zenon DEF TypeOK
    <2>3. CASE d = c
      <3>1. got[c] \in Seq(Bytes) /\ B \in Seq(Bytes) /\ <<b>> \in Seq(Bytes) /\ wire[c] \in Seq(Bytes)
        BY <1>3, <1>4, <2>1, <2>3 DEF TypeOK
      <3>2. sent'[c] = sent[c] \o <<b>> /\ wire'[c] = wire[c] \o <<b>>
        BY <1>1, <1>3, <1>4, AppendIsConcat DEF TypeOK
      <3> HIDE DEF B
      <3>3. got[c] \o B \in Seq(Bytes)
        BY <3>1, ConcatProperties
      <3>4. (got[c] \o B) \o (wire[c] \o <<b>>) = ((got[c] \o B) \o wire[c]) \o <<b>>
        <4> DEFINE X == got[c] \o B
                   Y == <<b>>
                   W == wire[c]
        <4>1. X \in Seq(Bytes) /\ Y \in Seq(Bytes) /\ W \in Seq(Bytes)
          BY <3>1, <3>3
        <4> HIDE DEF X, Y, W
        <4>2. X \o (W \o Y) = (X \o W) \o Y
          BY <4>1, ConcatAssociative, SMTT(40)
        <4> QED
          BY <4>2 DEF X, Y, W
      <3> QED
        BY <2>1, <2>3, <3>2, <3>4, Zenon DEF B
    <2> QED
      BY <2>2, <2>3
  <1> QED
    BY <1>5, <1>6, <1>7, <1>8, <1>9, <1>10 DEF ConnInv

LEMMA PeerClosesInv ==
  ASSUME ConnInv, NEW c \in Conns, PeerCloses(c)
  PROVE  ConnInv'
  <1>1. /\ hungup' = [hungup EXCEPT ![c] = TRUE]
        /\ UNCHANGED <<slot, mu, file, opened, id, owner, wire, sent, out, locals, closed, got, torn>>
    BY DEF PeerCloses
  <1>2. UNCHANGED table /\ UNCHANGED <<pc, call, eof, at, ret, left>>
    BY <1>1 DEF table, locals
  <1>3. TypeOK /\ TypeOK'
    BY <1>1, <1>2 DEF ConnInv, TypeOK
  <1>4. CallsFit' /\ LocksFit' /\ SlotsFit' /\ OwnersFit'
    BY <1>2, TableKept DEF ConnInv
  <1>5. OpeningFits'
    BY <1>1, <1>2, OpeningKept DEF ConnInv
  <1>6. HalvesFit' /\ SendsWhole'
    BY <1>1, <1>2, HalvesKept DEF ConnInv
  <1>7. EndsSeen' /\ ShortMeansEnd'
    <2>1. \A t \in Tasks : eof[t] => call[t].conn \in Conns
      BY <1>3, Where DEF ConnInv, EndsSeen, InSlot
    <2>2. \A d \in Conns : hungup[d] => hungup'[d]
      BY <1>1, <1>3 DEF TypeOK
    <2> QED
      BY <1>1, <1>2, <2>1, <2>2, EndsKept DEF ConnInv
  <1>8. NothingLost'
    BY <1>1, <1>2, LostKept DEF ConnInv
  <1> QED
    BY <1>3, <1>4, <1>5, <1>6, <1>7, <1>8 DEF ConnInv

-----------------------------------------------------------------------------
(* Calls begin *)

CallArgs(kind, n) ==
  \/ kind \in {"recv", "recv_n"} /\ n \in Asked
  \/ kind \in {"recv_line", "send", "close"} /\ n = 0

LEMMA CallTyped ==
  ASSUME NEW kind, NEW n, CallArgs(kind, n), NEW c \in Conns
  PROVE  /\ [kind |-> kind, conn |-> c, n |-> n] \in CallType
         /\ kind \in {"send", "close"} \cup Receiving /\ n \in Nat
         /\ kind \in {"send", "close"} => n = 0
         /\ kind \in {"recv", "recv_n"} => n > 0
  <1>1. kind \in {"send", "close"} \cup Receiving
    BY DEF CallArgs, Receiving
  <1>2. n \in Nat /\ (kind \in {"send", "close"} => n = 0) /\ (kind \in {"recv", "recv_n"} => n > 0)
    <2>1. \A m \in Asked : m \in Nat /\ m > 0
      BY NetConnAssumption DEF NetConnAssumption
    <2> QED
      BY <2>1 DEF CallArgs
  <1>3. kind \in Kinds
    BY <1>1 DEF Kinds
  <1> QED
    BY <1>1, <1>2, <1>3 DEF CallType

\* OwnersFit of the next state, task by task.
OwnerNext(u, d) ==
  LET tears == call'[u].kind = "close" /\ call'[u].n > 0 IN
  /\ owner'[id'[d]] = d
  /\ ~tears => file'[slot'[id'[d]].fd] \in {d, NoConn}
  /\ ~tears /\ Opening' /\ d \in closed' =>
       {v \in Tasks : call'[v].conn = d} = {u} /\ slot'[id'[d]].used /\ file'[slot'[id'[d]].fd] = d

LEMMA OwnersIntro ==
  ASSUME \A u \in Tasks : pc'[u] \in {"locking", "busy"} /\ ~(call'[u].kind = "close" /\ call'[u].n = 2)
           => OwnerNext(u, call'[u].conn)
  PROVE  OwnersFit'
  BY DEF OwnersFit, OwnerNext, InSlot, TearsDown, InCall

LEMMA OwnersElim ==
  ASSUME OwnersFit, NEW u \in Tasks, InSlot(u), ~(call[u].kind = "close" /\ call[u].n = 2)
  PROVE  LET d == call[u].conn  tears == call[u].kind = "close" /\ call[u].n > 0 IN
         /\ owner[id[d]] = d
         /\ ~tears => file[slot[id[d]].fd] \in {d, NoConn}
         /\ ~tears /\ Opening /\ d \in closed =>
              {v \in Tasks : call[v].conn = d} = {u} /\ slot[id[d]].used /\ file[slot[id[d]].fd] = d
  BY DEF OwnersFit, TearsDown, InCall

LEMMA NotFoundInv ==
  ASSUME ConnInv, ~Stale, NEW t \in Tasks, NEW c \in Conns, NEW kind, NEW n, CallArgs(kind, n),
         NotFound(t, kind, c, n)
  PROVE  ConnInv'
  <1>1. /\ c <= opened /\ id[c] \in Slots /\ ~slot[id[c]].used
        /\ left[t] > 0 /\ left' = [left EXCEPT ![t] = @ - 1]
        /\ closed' = IF kind = "close" THEN closed \cup {c} ELSE closed
        /\ ret' = [ret EXCEPT ![t] = Ret([kind |-> kind, conn |-> c, n |-> n], << >>, "closed")]
        /\ pc[t] = "idle"
        /\ UNCHANGED <<slot, mu, file, opened, id, owner, wire, sent, hungup, out, eof, got, torn, pc, call, at>>
    BY DEF NotFound, Begin, MayCall, world
  <1>2. TypeOK
    BY DEF ConnInv
  <1>3. c \in 1..opened /\ id[c] # MaxConns
    BY <1>1, <1>2, Numbers DEF TypeOK, Conns
  <1>4. closed' = closed
    <2>1. c \in closed
      BY <1>1, <1>3 DEF ConnInv, SlotsFit
    <2> QED
      BY <1>1, <2>1
  <1>5. [kind |-> kind, conn |-> c, n |-> n] \in CallType
    BY CallTyped
  <1>6. TypeOK'
    <2>1. ret' \in [Tasks -> RetType]
      <3>1. Ret([kind |-> kind, conn |-> c, n |-> n], << >>, "closed") \in RetType
        BY <1>5, EmptySeq DEF Ret, RetType
      <3> QED
        BY <1>1, <1>2, <3>1 DEF TypeOK
    <2>2. left' \in [Tasks -> 0..MaxCalls]
      BY <1>1, <1>2, Numbers DEF TypeOK
    <2> QED
      BY <1>1, <1>2, <1>4, <2>1, <2>2 DEF TypeOK
  <1>7. CallsFit' /\ LocksFit' /\ SlotsFit' /\ OwnersFit'
    BY <1>1, <1>4, TableKept DEF ConnInv, table
  <1>8. OpeningFits'
    BY <1>1, <1>4, OpeningKept DEF ConnInv
  <1>9. HalvesFit' /\ SendsWhole'
    <2>1. \A u \in Tasks : call[u].kind = "send" => u # t
      BY <1>1 DEF ConnInv, CallsFit, NoCall
    <2>2. \A u \in Tasks : call[u].kind = "send" => left'[u] = left[u]
      BY <1>1, <1>2, <2>1 DEF TypeOK
    <2> QED
      BY <1>1, <2>2, HalvesKept DEF ConnInv
  <1>10. EndsSeen' /\ ShortMeansEnd'
    <2>1. \A u \in Tasks : eof[u] => call[u].conn \in Conns
      BY <1>2, Where DEF ConnInv, EndsSeen, InSlot
    <2>2. \A u \in Tasks : ret'[u] # ret[u] => ret'[u].status = "closed" /\ ret'[u].call.conn = c
      BY <1>1, <1>2 DEF TypeOK, Ret
    <2> QED
      BY <1>1, <2>1, <2>2, EndsKept DEF ConnInv
  <1>11. NothingLost'
    BY <1>1, <1>4, LostKept DEF ConnInv
  <1> QED
    BY <1>6, <1>7, <1>8, <1>9, <1>10, <1>11 DEF ConnInv

\* Who finds a connection finds its own: nobody has closed it, or nobody has
\* been given its slot or its descriptor since.
LEMMA LookupInv ==
  ASSUME ConnInv, ~Stale, NEW t \in Tasks, NEW c \in Conns, NEW kind, NEW n, CallArgs(kind, n),
         Lookup(t, kind, c, n)
  PROVE  ConnInv'
  <1> DEFINE k0 == [kind |-> kind, conn |-> c, n |-> n]
  <1>1. /\ c <= opened /\ id[c] \in Slots /\ slot[id[c]].used
        /\ left[t] > 0 /\ left' = [left EXCEPT ![t] = @ - 1]
        /\ closed' = IF kind = "close" THEN closed \cup {c} ELSE closed
        /\ pc[t] = "idle" /\ pc' = [pc EXCEPT ![t] = "locking"]
        /\ call' = [call EXCEPT ![t] = k0]
        /\ at' = [at EXCEPT ![t] = id[c]]
        /\ ret' = [ret EXCEPT ![t] = NoRet]
        /\ UNCHANGED <<slot, mu, file, opened, id, owner, wire, sent, hungup, out, eof, got, torn>>
    BY DEF Lookup, Begin, MayCall, Goto, world
  <1>2. TypeOK /\ CallsFit /\ LocksFit /\ OpeningFits /\ SlotsFit /\ OwnersFit
    BY DEF ConnInv
  <1>3. c \in 1..opened /\ id[c] # MaxConns
    BY <1>1, <1>2, Numbers DEF TypeOK, Conns
  <1>4. k0 \in CallType /\ k0.kind = kind /\ k0.conn = c /\ k0.n = n
    BY CallTyped
  <1>5. /\ pc'[t] = "locking" /\ call'[t] = k0 /\ at'[t] = id[c]
        /\ \A u \in Tasks \ {t} : pc'[u] = pc[u] /\ call'[u] = call[u] /\ at'[u] = at[u]
    BY <1>1, <1>2 DEF TypeOK
  <1>6. call[t] = NoCall /\ ~(\E s \in Slots : t \in mu[s])
    BY <1>1, <1>2 DEF CallsFit, LocksFit
  <1>7. c \in closed \/ (kind = "close" /\ InCall(c) # {}) =>
          ~Opening /\ owner[id[c]] = c /\ file[slot[id[c]].fd] \in {c, NoConn}
    BY <1>1 DEF Lookup, Begin, MayCall
  <1>8. c \notin closed => owner[id[c]] = c /\ file[slot[id[c]].fd] = c
    BY <1>2, <1>3 DEF SlotsFit
  <1>9. Opening' = Opening
    BY <1>1, <1>5 DEF Opening
  <1> HIDE DEF k0
  <1>10. TypeOK'
    <2>1. ret' \in [Tasks -> RetType]
      <3>1. NoRet \in RetType
        BY EmptySeq DEF NoRet, Ret, NoCall, CallType, Kinds, RetType, NoConn
      <3> QED
        BY <1>1, <1>2, <3>1 DEF TypeOK
    <2>2. left' \in [Tasks -> 0..MaxCalls]
      BY <1>1, <1>2, Numbers DEF TypeOK
    <2>3. closed' \subseteq 1..opened
      BY <1>1, <1>2, <1>3 DEF TypeOK
    <2>4. /\ pc' \in [Tasks -> {"idle", "dialed", "locking", "busy"}]
          /\ call' \in [Tasks -> CallType] /\ at' \in [Tasks -> Slots]
      BY <1>1, <1>2, <1>4 DEF TypeOK
    <2> QED
      BY <1>1, <1>2, <2>1, <2>2, <2>3, <2>4 DEF TypeOK
  <1>11. CallsFit'
    <2>1. ASSUME NEW u \in Tasks
          PROVE  LET k == call'[u].kind  d == call'[u].conn  m == call'[u].n IN
                 /\ pc'[u] = "idle" => call'[u] = NoCall
                 /\ pc'[u] = "dialed" => k = "open"
                 /\ pc'[u] # "idle" => d \in 1..opened
                 /\ pc'[u] \in {"locking", "busy"} =>
                      /\ k \in {"send", "close"} \cup Receiving
                      /\ id[d] = at'[u] /\ (k = "close" => d \in closed')
                 /\ k \in {"send", "close"} => m \in 0..2 /\ (m > 0 => pc'[u] = "busy") /\ (k = "send" => m < 2)
                 /\ k \in {"recv", "recv_n"} => m > 0
      <3>1. CASE u = t
        <4>1. call'[u].kind = kind /\ call'[u].conn = c /\ call'[u].n = n /\ pc'[u] = "locking" /\ at'[u] = id[c]
          BY <1>4, <1>5, <3>1
        <4>2. /\ kind \in {"send", "close"} \cup Receiving
              /\ kind \in {"send", "close"} => n = 0
              /\ kind \in {"recv", "recv_n"} => n > 0
              /\ kind = "close" => c \in closed'
          BY <1>1, CallTyped
        <4> QED
          BY <1>3, <4>1, <4>2
      <3>2. CASE u # t
        BY <1>1, <1>2, <1>5, <3>2 DEF CallsFit, InSlot
      <3> QED
        BY <3>1, <3>2
    <2> QED
      BY <1>1, <2>1 DEF CallsFit, InSlot
  <1>12. LocksFit'
    BY <1>1, <1>2, <1>5, <1>6 DEF LocksFit
  <1>13. OpeningFits'
    <2>1. \A d \in 1..opened : id[d] = MaxConns => d \notin closed'
      BY <1>1, <1>2, <1>3 DEF OpeningFits
    <2> QED
      BY <1>1, <1>2, <1>5, <2>1 DEF OpeningFits
  <1>14. SlotsFit'
    <2>1. \A d \in 1..opened : \A u \in mu[id[d]] : id[d] # MaxConns => call'[u] = call[u]
      <3> SUFFICES ASSUME NEW d \in 1..opened, id[d] # MaxConns, NEW u \in mu[id[d]]
                   PROVE  call'[u] = call[u]
        OBVIOUS
      <3>1. d \in Conns
        BY <1>2, Numbers DEF TypeOK, Conns
      <3>2. id[d] \in Slots /\ u \in Tasks
        <4>1. id[d] \in Slots
          BY <1>2, <3>1 DEF TypeOK
        <4>2. mu[id[d]] \in {{}} \cup {{v} : v \in Tasks}
          BY <1>2, <4>1 DEF TypeOK
        <4> QED
          BY <4>1, <4>2
      <3> QED
        BY <1>5, <1>6, <3>2
    <2>2. \A u \in Tasks : call'[u].kind = "close" /\ call'[u].n = 1 => u # t
      BY <1>4, <1>5 DEF CallArgs
    <2>3. \A d \in (1..opened) \ closed' : d \notin closed
      BY <1>1
    <2>4. \A u \in Tasks : call'[u].kind = "close" /\ call'[u].n = 1 =>
            slot[at'[u]].used /\ \A f \in Fds : file[f] # call'[u].conn
      BY <1>2, <1>5, <2>2 DEF SlotsFit
    <2>5. \A d \in 1..opened : id[d] # MaxConns /\ owner[id[d]] = d /\ slot[id[d]].used =>
             \/ file[slot[id[d]].fd] = d
             \/ \E u \in mu[id[d]] : call'[u].kind = "close" /\ call'[u].n = 1
      BY <1>2, <2>1 DEF SlotsFit
    <2> QED
      BY <1>1, <1>2, <2>3, <2>4, <2>5 DEF SlotsFit
  <1>15. OwnersFit'
    <2> SUFFICES ASSUME NEW u \in Tasks, pc'[u] \in {"locking", "busy"},
                        ~(call'[u].kind = "close" /\ call'[u].n = 2)
                 PROVE  OwnerNext(u, call'[u].conn)
      BY OwnersIntro
    <2>1. CASE u = t
      <3>1. call'[u].conn = c /\ UNCHANGED <<owner, id, file, slot>>
        BY <1>1, <1>4, <1>5, <2>1
      <3>2. owner[id[c]] = c /\ file[slot[id[c]].fd] \in {c, NoConn}
        BY <1>7, <1>8
      <3>3. ASSUME Opening', c \in closed'
            PROVE  {v \in Tasks : call'[v].conn = c} = {t} /\ slot[id[c]].used /\ file[slot[id[c]].fd] = c
        <4>1. c \notin closed /\ InCall(c) = {}
          BY <1>1, <1>7, <1>9, <3>3
        <4>2. {v \in Tasks : call'[v].conn = c} = {t}
          BY <1>4, <1>5, <4>1 DEF InCall
        <4> QED
          BY <1>1, <1>8, <4>1, <4>2
      <3> QED
        BY <2>1, <3>1, <3>2, <3>3 DEF OwnerNext
    <2>2. CASE u # t
      <3> DEFINE d == call[u].conn
      <3>1. call'[u] = call[u] /\ pc'[u] = pc[u] /\ InSlot(u) /\ UNCHANGED <<owner, id, file, slot>>
        BY <1>1, <1>5, <2>2 DEF InSlot
      <3>2. /\ owner[id[d]] = d
            /\ ~TearsDown(u) => file[slot[id[d]].fd] \in {d, NoConn}
            /\ ~TearsDown(u) /\ Opening /\ d \in closed =>
                 InCall(d) = {u} /\ slot[id[d]].used /\ file[slot[id[d]].fd] = d
        BY <1>2, <3>1, OwnersElim DEF TearsDown, InCall
      <3>3. d \in 1..opened
        BY <1>2, <3>1, Where
      <3>4. ASSUME ~TearsDown(u), Opening, d \in closed'
            PROVE  {v \in Tasks : call'[v].conn = d} = {u} /\ slot[id[d]].used /\ file[slot[id[d]].fd] = d
        <4>1. CASE d = c
          <5>1. u \in InCall(c)
            BY <4>1 DEF InCall
          <5>2. c \in closed \/ (kind = "close" /\ InCall(c) # {})
            BY <1>1, <3>4, <4>1, <5>1
          <5> QED
            BY <1>7, <3>4, <5>2
        <4>2. CASE d # c
          <5>1. d \in closed
            BY <1>1, <3>4, <4>2
          <5>2. call[t].conn # d /\ call'[t].conn # d
            BY <1>2, <1>4, <1>5, <1>6, <3>3, <4>2 DEF NoCall, NoConn, TypeOK
          <5>3. {v \in Tasks : call'[v].conn = d} = InCall(d)
            BY <1>5, <5>2 DEF InCall
          <5> QED
            BY <3>2, <3>4, <5>1, <5>3
        <4> QED
          BY <4>1, <4>2
      <3> HIDE DEF d
      <3>5. call'[u].conn = d
        BY <3>1 DEF d
      <3> QED
        BY <1>9, <3>1, <3>2, <3>4, <3>5 DEF OwnerNext, TearsDown
    <2> QED
      BY <2>1, <2>2
  <1>16. HalvesFit' /\ SendsWhole'
    <2>1. \A u \in Tasks : call[u].kind = "send" => u # t
      BY <1>6 DEF NoCall
    <2>2. \A u \in Tasks : call[u].kind = "send" => left'[u] = left[u]
      BY <1>1, <1>2, <2>1 DEF TypeOK
    <2>3. \A u \in Tasks : call'[u] # call[u] => call[u].kind # "send" /\ (call'[u].kind = "send" => call'[u].n = 0)
      BY <1>4, <1>5, <1>6 DEF NoCall, CallArgs
    <2> QED
      BY <1>1, <2>2, <2>3, HalvesKept DEF ConnInv
  <1>17. EndsSeen' /\ ShortMeansEnd'
    <2>1. \A u \in Tasks : eof[u] => call[u].conn \in Conns
      BY <1>2, Where DEF ConnInv, EndsSeen, InSlot
    <2>2. \A u \in Tasks : eof'[u] => eof[u] /\ pc'[u] = pc[u] /\ call'[u] = call[u]
      <3>1. ~eof[t]
        BY <1>1 DEF ConnInv, EndsSeen
      <3> QED
        BY <1>1, <1>5, <3>1
    <2>3. \A u \in Tasks : ret'[u] # ret[u] => ret'[u].call.kind = "none"
      BY <1>1, <1>2 DEF TypeOK, NoRet, Ret, NoCall
    <2> QED
      BY <1>1, <2>1, <2>2, <2>3, EndsKept DEF ConnInv, Receiving
  <1>18. NothingLost'
    BY <1>1, LostKept DEF ConnInv
  <1> QED
    BY <1>10, <1>11, <1>12, <1>13, <1>14, <1>15, <1>16, <1>17, <1>18 DEF ConnInv

\* A new descriptor is nobody's: of who might still use it, everyone is
\* already past that.
LEMMA DialInv ==
  ASSUME ConnInv, ~Stale, NEW t \in Tasks, Dial(t)
  PROVE  ConnInv'
  <1> DEFINE e == opened + 1
             k0 == [kind |-> "open", conn |-> e, n |-> 0]
  <1>1. /\ pc[t] = "idle" /\ left[t] > 0 /\ opened < MaxConns
        /\ \A c \in closed : \A u \in InCall(c) : TearsDown(u)
        /\ left' = [left EXCEPT ![t] = @ - 1] /\ opened' = e
        /\ file' = [file EXCEPT ![Min({f \in Fds : file[f] = NoConn})] = e]
        /\ call' = [call EXCEPT ![t] = k0]
        /\ pc' = [pc EXCEPT ![t] = "dialed"]
        /\ UNCHANGED <<slot, mu, id, owner, wire, sent, hungup, out, eof, at, ret, closed, got, torn>>
    BY DEF Dial, Goto, world
  <1>2. TypeOK /\ CallsFit /\ LocksFit /\ OpeningFits /\ SlotsFit /\ OwnersFit
    BY DEF ConnInv
  <1>3. e \in Conns /\ e \notin 1..opened /\ 1..opened' = (1..opened) \cup {e} /\ opened \in Nat
        /\ 1..opened \subseteq Conns /\ e > opened
    <2>1. opened \in Nat /\ MaxConns \in Nat /\ opened < MaxConns /\ opened' = opened + 1
      BY <1>1, <1>2, Numbers DEF TypeOK
    <2> QED
      BY <2>1 DEF Conns
  <1>4. k0 \in CallType /\ k0.kind = "open" /\ k0.conn = e /\ k0.n = 0
    BY <1>3 DEF CallType, Kinds
  <1>5. PICK g \in Fds : g = Min({f \in Fds : file[f] = NoConn}) /\ file[g] = NoConn
    BY <1>1, <1>2, FreeFd
  <1> HIDE DEF k0, e
  <1>6. /\ pc'[t] = "dialed" /\ call'[t] = k0
        /\ \A u \in Tasks \ {t} : pc'[u] = pc[u] /\ call'[u] = call[u]
        /\ file'[g] = e /\ \A f \in Fds \ {g} : file'[f] = file[f]
    BY <1>1, <1>2, <1>5 DEF TypeOK
  <1>7. call[t] = NoCall /\ ~(\E s \in Slots : t \in mu[s])
    BY <1>1, <1>2 DEF CallsFit, LocksFit
  <1>8. \A f \in Fds : file[f] # e /\ (file[f] # NoConn => file[f] \in 1..opened)
    BY <1>2, <1>3, Numbers DEF TypeOK, OpeningFits, Conns, NoConn
  <1>9. id[e] = MaxConns /\ e \notin closed /\ wire[e] = << >> /\ sent[e] = << >> /\ got[e] = << >>
    BY <1>2, <1>3 DEF OpeningFits, TypeOK
  <1>10. TypeOK'
    <2>1. /\ left' \in [Tasks -> 0..MaxCalls] /\ file' \in [Fds -> Conns \cup {NoConn}]
          /\ call' \in [Tasks -> CallType] /\ pc' \in [Tasks -> {"idle", "dialed", "locking", "busy"}]
      BY <1>1, <1>2, <1>3, <1>4, <1>5, Numbers DEF TypeOK
    <2>2. \A f, h \in Fds : file'[f] = file'[h] => f = h \/ file'[f] = NoConn
      BY <1>2, <1>6, <1>8, ZenonT(60) DEF TypeOK
    <2>3. opened' \in 0..MaxConns /\ closed' \subseteq 1..opened'
      BY <1>1, <1>2, <1>3, Numbers DEF TypeOK, Conns
    <2> QED
      BY <1>1, <1>2, <2>1, <2>2, <2>3 DEF TypeOK
  <1>11. CallsFit'
    <2>1. ASSUME NEW u \in Tasks, u # t
          PROVE  pc'[u] = pc[u] /\ call'[u] = call[u] /\ (call[u].conn \in 1..opened => call[u].conn \in 1..opened')
      BY <1>3, <1>6, <2>1
    <2> QED
      BY <1>1, <1>2, <1>3, <1>4, <1>6, <2>1 DEF CallsFit, InSlot
  <1>12. LocksFit'
    BY <1>1, <1>2, <1>6, <1>7 DEF LocksFit
  <1>13. OpeningFits'
    <2>1. \A c \in Conns : c > opened' => id[c] = MaxConns /\ wire[c] = << >> /\ sent[c] = << >> /\ got[c] = << >>
      BY <1>1, <1>2, <1>3, Numbers DEF OpeningFits, e
    <2>2. ASSUME NEW c \in 1..opened', id[c] = MaxConns  PROVE c \notin closed /\ \E f \in Fds : file'[f] = c
      <3>1. CASE c = e
        BY <1>6, <1>9, <3>1
      <3>2. CASE c # e
        <4>1. c \in 1..opened
          BY <1>3, <3>2
        <4>2. c \notin closed /\ \E f \in Fds : file[f] = c
          BY <1>2, <2>2, <4>1 DEF OpeningFits
        <4> QED
          BY <1>5, <1>6, <4>1, <4>2 DEF NoConn
      <3> QED
        BY <3>1, <3>2
    <2>3. \A f \in Fds : file'[f] <= opened'
      <3> SUFFICES ASSUME NEW f \in Fds  PROVE file'[f] <= opened'
        OBVIOUS
      <3>1. file[f] \in Nat /\ file[f] <= opened
        BY <1>2, Numbers DEF OpeningFits, TypeOK, Conns, NoConn
      <3>2. e \in Nat /\ opened' = e /\ opened <= e
        BY <1>1, <1>3 DEF e
      <3> QED
        BY <1>3, <1>6, <3>1, <3>2
    <2>4. ASSUME NEW u \in Tasks, pc'[u] = "dialed"
          PROVE  id[call'[u].conn] = MaxConns /\ \A v \in Tasks \ {u} : pc'[v] = "dialed" => call'[v].conn # call'[u].conn
      <3>1. \A v \in Tasks \ {t} : pc[v] = "dialed" => call[v].conn # e /\ id[call[v].conn] = MaxConns
        BY <1>2, <1>3 DEF CallsFit, OpeningFits
      <3> QED
        BY <1>2, <1>4, <1>6, <1>9, <2>4, <3>1 DEF OpeningFits
    <2> QED
      BY <1>1, <2>1, <2>2, <2>3, <2>4 DEF OpeningFits
  <1>14. SlotsFit'
    <2>1. \A c \in 1..opened' : id[c] # MaxConns => c \in 1..opened /\ id[c] \in Slots
      BY <1>2, <1>3, <1>9 DEF TypeOK
    <2>2. \A u \in Tasks : call'[u].kind = "close" => u # t
      BY <1>4, <1>6
    <2>3. \A s \in Slots : slot[s].used => owner[s] \in 1..opened'
      BY <1>2, <1>3 DEF SlotsFit
    <2>4. \A c \in 1..opened' : id[c] # MaxConns => \A u \in mu[id[c]] : u \in Tasks /\ call'[u] = call[u]
      <3> SUFFICES ASSUME NEW s \in Slots, NEW u \in mu[s]  PROVE u \in Tasks /\ call'[u] = call[u]
        BY <2>1
      <3>1. mu[s] \in {{}} \cup {{v} : v \in Tasks}
        BY <1>2 DEF TypeOK
      <3> QED
        BY <1>6, <1>7, <3>1
    <2>5. ASSUME NEW c \in 1..opened', id[c] # MaxConns, owner[id[c]] = c, slot[id[c]].used
          PROVE  \/ file'[slot[id[c]].fd] = c
                 \/ \E u \in mu[id[c]] : call'[u].kind = "close" /\ call'[u].n = 1
      <3>1. c \in 1..opened /\ id[c] \in Slots /\ c # NoConn
        BY <2>1, <2>5 DEF NoConn
      <3>2. slot[id[c]].fd \in Fds
        BY <1>2, <2>5, <3>1 DEF SlotsFit
      <3>3. \/ file[slot[id[c]].fd] = c
            \/ \E u \in mu[id[c]] : call[u].kind = "close" /\ call[u].n = 1
        BY <1>2, <2>5, <3>1 DEF SlotsFit
      <3> QED
        BY <1>5, <1>6, <2>4, <2>5, <3>1, <3>2, <3>3
    <2>6. \A f \in Fds : \A c \in 1..opened' : file'[f] = c /\ id[c] # MaxConns =>
            owner[id[c]] = c /\ slot[id[c]].used /\ slot[id[c]].fd = f
      BY <1>2, <1>6, <1>9, <2>1 DEF SlotsFit
    <2>7. ASSUME NEW c \in (1..opened') \ closed, id[c] # MaxConns
          PROVE  owner[id[c]] = c /\ slot[id[c]].used /\ file'[slot[id[c]].fd] = c
      <3>1. c \in 1..opened /\ id[c] \in Slots /\ c # NoConn
        BY <2>1, <2>7 DEF NoConn
      <3>2. owner[id[c]] = c /\ slot[id[c]].used /\ file[slot[id[c]].fd] = c
        BY <1>2, <2>7, <3>1 DEF SlotsFit
      <3>3. slot[id[c]].fd \in Fds
        BY <1>2, <3>1, <3>2 DEF SlotsFit
      <3> QED
        BY <1>5, <1>6, <3>1, <3>2, <3>3
    <2>8. ASSUME NEW u \in Tasks, call'[u].kind = "close", call'[u].n = 1
          PROVE  slot[at[u]].used /\ \A f \in Fds : file'[f] # call'[u].conn
      <3>1. u # t /\ call'[u] = call[u]
        BY <1>6, <2>2, <2>8
      <3>2. slot[at[u]].used /\ \A f \in Fds : file[f] # call[u].conn
        BY <1>2, <2>8, <3>1 DEF SlotsFit
      <3>3. call[u].conn # e
        BY <1>2, <1>3, <2>8, <3>1 DEF CallsFit
      <3> QED
        BY <1>6, <3>1, <3>2, <3>3
    <2>9. \A s \in Slots : owner[s] # NoConn => id[owner[s]] = s /\ slot[s].fd \in Fds
      BY <1>2 DEF SlotsFit
    <2> QED
      BY <1>1, <2>3, <2>5, <2>6, <2>7, <2>8, <2>9 DEF SlotsFit
  <1>15. OwnersFit'
    <2> SUFFICES ASSUME NEW u \in Tasks, pc'[u] \in {"locking", "busy"},
                        ~(call'[u].kind = "close" /\ call'[u].n = 2)
                 PROVE  OwnerNext(u, call'[u].conn)
      BY OwnersIntro
    <2> DEFINE d == call[u].conn
    <2>1. call'[u] = call[u] /\ pc'[u] = pc[u] /\ InSlot(u) /\ u # t /\ UNCHANGED <<owner, id, slot, closed>>
      BY <1>1, <1>6 DEF InSlot
    <2>2. d \in 1..opened /\ id[d] \in Slots /\ owner[id[d]] = d
      BY <1>2, <2>1, Where, OwnersElim
    <2>3. slot[id[d]].fd \in Fds
      BY <1>2, <2>2 DEF SlotsFit, NoConn
    <2>4. ASSUME ~TearsDown(u)  PROVE d \notin closed /\ file[slot[id[d]].fd] = d
      <3>1. u \in InCall(d)
        BY DEF InCall
      <3>2. d \notin closed
        BY <1>1, <2>4, <3>1
      <3>3. id[d] # MaxConns
        BY <2>2, Numbers
      <3> QED
        BY <1>2, <2>2, <3>2, <3>3 DEF SlotsFit
    <2>5. ~TearsDown(u) => file'[slot[id[d]].fd] = d
      BY <1>5, <1>6, <2>2, <2>3, <2>4 DEF NoConn
    <2> HIDE DEF d
    <2>6. call'[u].conn = d
      BY <2>1 DEF d
    <2> QED
      BY <2>1, <2>2, <2>4, <2>5, <2>6 DEF OwnerNext, TearsDown
  <1>16. HalvesFit' /\ SendsWhole'
    <2>1. \A u \in Tasks : call[u].kind = "send" => u # t
      BY <1>7 DEF NoCall
    <2>2. \A u \in Tasks : call[u].kind = "send" => left'[u] = left[u]
      BY <1>1, <1>2, <2>1 DEF TypeOK
    <2>3. \A u \in Tasks : call'[u] # call[u] => call[u].kind # "send" /\ call'[u].kind # "send"
      BY <1>4, <1>6, <1>7 DEF NoCall
    <2> QED
      BY <1>1, <2>2, <2>3, HalvesKept DEF ConnInv
  <1>17. EndsSeen' /\ ShortMeansEnd'
    <2>1. \A u \in Tasks : eof[u] => call[u].conn \in Conns
      BY <1>2, Where DEF ConnInv, EndsSeen, InSlot
    <2>2. \A u \in Tasks : eof'[u] => eof[u] /\ pc'[u] = pc[u] /\ call'[u] = call[u]
      <3>1. ~eof[t]
        BY <1>1 DEF ConnInv, EndsSeen
      <3> QED
        BY <1>1, <1>6, <3>1
    <2> QED
      BY <1>1, <2>1, <2>2, EndsKept DEF ConnInv
  <1>18. NothingLost'
    <2>1. sent[e] = got[e] \o << >> \o wire[e]
      BY <1>9, EmptySeq, ConcatEmptySeq
    <2>2. id[e] \notin Slots
      BY <1>9, Numbers
    <2> QED
      BY <1>1, <1>3, <2>1, <2>2 DEF ConnInv, NothingLost
  <1> QED
    BY <1>10, <1>11, <1>12, <1>13, <1>14, <1>15, <1>16, <1>17, <1>18 DEF ConnInv

\* The slot that a new connection is given is free of everyone who could still
\* do something with it: of a close, only letting go of the lock is left.
LEMMA GivenSlot ==
  ASSUME ConnInv, NEW t \in Tasks, pc[t] = "dialed", NEW s \in Slots, ~slot[s].used,
         NEW u \in Tasks, InSlot(u), at[u] = s
  PROVE  call[u].kind = "close" /\ call[u].n = 2 /\ pc[u] = "busy"
  <1> DEFINE d == call[u].conn
  <1>1. TypeOK /\ CallsFit /\ LocksFit /\ OpeningFits /\ SlotsFit /\ OwnersFit
    BY DEF ConnInv
  <1>2. d \in 1..opened /\ id[d] = s /\ d \in Conns /\ id[d] # MaxConns
    BY <1>1, Where
  <1>3. d \in closed
    BY <1>1, <1>2 DEF SlotsFit
  <1>4. Opening
    BY DEF Opening
  <1>5. SUFFICES ASSUME ~(call[u].kind = "close" /\ call[u].n = 2)  PROVE FALSE
    BY <1>1 DEF CallsFit
  <1>6. ~(call[u].kind = "close" /\ call[u].n = 1)
    BY <1>1 DEF SlotsFit
  <1>7. ~TearsDown(u)
    BY <1>1, <1>5, <1>6 DEF CallsFit, TearsDown
  <1>8. slot[id[d]].used
    BY <1>1, <1>3, <1>4, <1>5, <1>7 DEF OwnersFit
  <1> QED
    BY <1>2, <1>8

LEMMA NewInv ==
  ASSUME ConnInv, NEW t \in Tasks, New(t)
  PROVE  ConnInv'
  <1> DEFINE c == call[t].conn
             fd == CHOOSE f \in Fds : file[f] = c
  <1>1. TypeOK /\ CallsFit /\ LocksFit /\ OpeningFits /\ SlotsFit /\ OwnersFit
    BY DEF ConnInv
  <1>2. pc[t] = "dialed" /\ c \in 1..opened /\ c \in Conns /\ c # NoConn /\ id[c] = MaxConns /\ c \notin closed
    <2>1. pc[t] = "dialed" /\ c \in 1..opened /\ id[c] = MaxConns
      BY <1>1 DEF New, CallsFit, OpeningFits
    <2>2. c \in Conns /\ c # NoConn
      BY <1>1, <2>1, Numbers DEF TypeOK, Conns, NoConn
    <2> QED
      BY <1>1, <2>1, <2>2 DEF OpeningFits
  <1>3. PICK s \in Slots : s = Min({k \in Slots : ~slot[k].used}) /\ ~slot[s].used
    BY <1>1, <1>2, FreeSlot
  <1>4. fd \in Fds /\ file[fd] = c
    <2>1. \E f \in Fds : file[f] = c
      BY <1>1, <1>2 DEF OpeningFits
    <2> QED
      BY <2>1
  <1> HIDE DEF fd
  <1>5. /\ slot' = [slot EXCEPT ![s] = Fresh(fd)] /\ id' = [id EXCEPT ![c] = s] /\ owner' = [owner EXCEPT ![s] = c]
        /\ pc' = [pc EXCEPT ![t] = "idle"] /\ call' = [call EXCEPT ![t] = NoCall]
        /\ UNCHANGED <<mu, file, opened, wire, sent, hungup, out, eof, at, ret, left, closed, got, torn>>
    BY <1>3 DEF New, Goto, world, fd
  <1>6. Fresh(fd) \in [used : BOOLEAN, fd : {0} \cup Fds, buf : Seq(Bytes)]
        /\ Fresh(fd).used = TRUE /\ Fresh(fd).fd = fd /\ Fresh(fd).buf = << >>
    BY <1>4, EmptySeq DEF Fresh
  <1> DEFINE c0 == c
  <1> HIDE DEF c0
  <1>7. c = c0 /\ call[t].conn = c0
    BY DEF c0
  <1> HIDE DEF c
  <1>8. /\ slot'[s].used = TRUE /\ slot'[s].fd = fd /\ slot'[s].buf = << >>
        /\ \A k \in Slots \ {s} : slot'[k] = slot[k] /\ owner'[k] = owner[k]
        /\ owner'[s] = c0 /\ id'[c0] = s /\ \A d \in Conns \ {c0} : id'[d] = id[d]
        /\ pc'[t] = "idle" /\ call'[t] = NoCall
        /\ \A u \in Tasks \ {t} : pc'[u] = pc[u] /\ call'[u] = call[u]
    BY <1>1, <1>2, <1>3, <1>5, <1>6, <1>7 DEF TypeOK
  <1>9. \A d \in 1..opened : d \in Conns
    BY <1>1, Numbers DEF TypeOK, Conns
  <1>10. \A u \in Tasks : InSlot(u) /\ ~(call[u].kind = "close" /\ call[u].n = 2) =>
           at[u] # s /\ at[u] \in Slots /\ call[u].conn # c0 /\ call[u].conn \in Conns /\ id[call[u].conn] = at[u]
    BY <1>1, <1>2, <1>3, <1>7, GivenSlot, Where
  <1>11. ~(\E k \in Slots : t \in mu[k])
    BY <1>1, <1>2 DEF LocksFit
  <1>12. TypeOK'
    <2>1. /\ slot' \in [Slots -> [used : BOOLEAN, fd : {0} \cup Fds, buf : Seq(Bytes)]]
          /\ id' \in [Conns -> Slots \cup {MaxConns}] /\ owner' \in [Slots -> Conns \cup {NoConn}]
      BY <1>1, <1>2, <1>3, <1>5, <1>6 DEF TypeOK
    <2>2. NoCall \in CallType
      BY DEF NoCall, CallType, Kinds
    <2>3. pc' \in [Tasks -> {"idle", "dialed", "locking", "busy"}] /\ call' \in [Tasks -> CallType]
      BY <1>1, <1>5, <2>2 DEF TypeOK
    <2> QED
      BY <1>1, <1>5, <2>1, <2>3 DEF TypeOK
  <1>13. CallsFit'
    <2>1. ASSUME NEW u \in Tasks
          PROVE  LET k == call'[u].kind  d == call'[u].conn  m == call'[u].n IN
                 /\ pc'[u] = "idle" => call'[u] = NoCall
                 /\ pc'[u] = "dialed" => k = "open"
                 /\ pc'[u] # "idle" => d \in 1..opened
                 /\ pc'[u] \in {"locking", "busy"} =>
                      /\ k \in {"send", "close"} \cup Receiving
                      /\ id'[d] = at[u] /\ (k = "close" => d \in closed)
                 /\ k \in {"send", "close"} => m \in 0..2 /\ (m > 0 => pc'[u] = "busy") /\ (k = "send" => m < 2)
                 /\ k \in {"recv", "recv_n"} => m > 0
      <3>1. CASE u = t
        BY <1>8, <3>1 DEF NoCall
      <3>2. CASE u # t
        <4>1. InSlot(u) => call[u].conn \in Conns /\ id[call[u].conn] = at[u] /\ at[u] # MaxConns
          BY <1>1, Where
        <4>2. InSlot(u) => id'[call[u].conn] = at[u]
          BY <1>2, <1>7, <1>8, <4>1
        <4> QED
          BY <1>1, <1>8, <3>2, <4>2 DEF CallsFit, InSlot
      <3> QED
        BY <3>1, <3>2
    <2> QED
      BY <1>5, <2>1 DEF CallsFit, InSlot
  <1>14. LocksFit'
    BY <1>1, <1>5, <1>8, <1>11 DEF LocksFit
  <1>15. OpeningFits'
    <2>1. \A d \in Conns : d > opened => d # c0
      BY <1>1, <1>2, <1>7 DEF TypeOK
    <2>2. \A d \in 1..opened : id'[d] = MaxConns => id[d] = MaxConns
      BY <1>2, <1>8, <1>9, <1>3, <1>7
    <2>3. ASSUME NEW u \in Tasks, pc'[u] = "dialed"
          PROVE  id'[call'[u].conn] = MaxConns /\ \A v \in Tasks \ {u} : pc'[v] = "dialed" => call'[v].conn # call'[u].conn
      <3>1. u # t /\ pc[u] = "dialed" /\ call'[u] = call[u]
        BY <1>8, <2>3
      <3>2. call[u].conn # c0 /\ call[u].conn \in Conns /\ id[call[u].conn] = MaxConns
        BY <1>1, <1>2, <1>7, <1>9, <3>1 DEF OpeningFits, CallsFit
      <3>3. \A v \in Tasks : pc'[v] = "dialed" => pc[v] = "dialed" /\ call'[v] = call[v]
        BY <1>8
      <3> QED
        BY <1>1, <1>8, <3>1, <3>2, <3>3 DEF OpeningFits
    <2> QED
      BY <1>1, <1>5, <1>8, <2>1, <2>2, <2>3 DEF OpeningFits
  <1>16. SlotsFit'
    <2>1. \A k \in Slots : slot'[k].used => owner'[k] \in 1..opened
      BY <1>1, <1>2, <1>7, <1>8 DEF SlotsFit
    <2>2. ASSUME NEW k \in Slots, owner'[k] # NoConn  PROVE id'[owner'[k]] = k /\ slot'[k].fd \in Fds
      <3>1. CASE k = s
        BY <1>4, <1>8, <3>1
      <3>2. CASE k # s
        <4>1. owner'[k] = owner[k] /\ id[owner[k]] = k /\ slot'[k].fd \in Fds /\ owner[k] \in Conns
          BY <1>1, <1>8, <2>2, <3>2 DEF SlotsFit, TypeOK
        <4>2. owner[k] # c0
          BY <1>2, <1>7, <4>1, Numbers
        <4> QED
          BY <1>8, <4>1, <4>2
      <3> QED
        BY <3>1, <3>2
    <2>3. \A d \in 1..opened : d # c0 => id'[d] = id[d] /\ (id[d] # MaxConns => id[d] \in Slots)
      BY <1>1, <1>8, <1>9 DEF TypeOK
    <2>4. ASSUME NEW k \in Slots, NEW u \in mu[k]  PROVE u \in Tasks /\ call'[u] = call[u]
      <3>1. mu[k] \in {{}} \cup {{v} : v \in Tasks}
        BY <1>1 DEF TypeOK
      <3> QED
        BY <1>8, <1>11, <2>4, <3>1
    <2>5. ASSUME NEW d \in 1..opened, id'[d] # MaxConns, owner'[id'[d]] = d, slot'[id'[d]].used
          PROVE  \/ file[slot'[id'[d]].fd] = d
                 \/ \E u \in mu[id'[d]] : call'[u].kind = "close" /\ call'[u].n = 1
      <3>1. CASE d = c0
        BY <1>4, <1>7, <1>8, <3>1
      <3>2. CASE d # c0
        <4>1. id'[d] = id[d] /\ id[d] \in Slots /\ id[d] # s
          BY <1>8, <2>3, <2>5, <3>2
        <4>2. slot'[id[d]] = slot[id[d]] /\ owner[id[d]] = d /\ id[d] # MaxConns /\ slot[id[d]].used
          BY <1>8, <2>5, <4>1
        <4>3. \/ file[slot[id[d]].fd] = d
              \/ \E u \in mu[id[d]] : call[u].kind = "close" /\ call[u].n = 1
          BY <1>1, <4>2 DEF SlotsFit
        <4> QED
          BY <2>4, <4>1, <4>2, <4>3
      <3> QED
        BY <3>1, <3>2
    <2>6. ASSUME NEW f \in Fds, NEW d \in 1..opened, file[f] = d, id'[d] # MaxConns
          PROVE  owner'[id'[d]] = d /\ slot'[id'[d]].used /\ slot'[id'[d]].fd = f
      <3>1. CASE d = c0
        <4>1. f = fd
          BY <1>1, <1>2, <1>4, <1>7, <2>6, <3>1 DEF TypeOK
        <4> QED
          BY <1>8, <3>1, <4>1
      <3>2. CASE d # c0
        <4>1. id'[d] = id[d] /\ id[d] \in Slots
          BY <2>3, <2>6, <3>2
        <4>2. owner[id[d]] = d /\ slot[id[d]].used /\ slot[id[d]].fd = f
          BY <1>1, <2>6, <4>1 DEF SlotsFit
        <4> QED
          BY <1>3, <1>8, <4>1, <4>2
      <3> QED
        BY <3>1, <3>2
    <2>7. ASSUME NEW d \in (1..opened) \ closed, id'[d] # MaxConns
          PROVE  owner'[id'[d]] = d /\ slot'[id'[d]].used /\ file[slot'[id'[d]].fd] = d
      <3>1. CASE d = c0
        BY <1>4, <1>7, <1>8, <3>1
      <3>2. CASE d # c0
        <4>1. id'[d] = id[d] /\ id[d] \in Slots /\ id[d] # MaxConns
          BY <2>3, <2>7, <3>2
        <4>2. owner[id[d]] = d /\ slot[id[d]].used /\ file[slot[id[d]].fd] = d
          BY <1>1, <4>1 DEF SlotsFit
        <4> QED
          BY <1>3, <1>8, <4>1, <4>2
      <3> QED
        BY <3>1, <3>2
    <2>8. ASSUME NEW u \in Tasks, call'[u].kind = "close", call'[u].n = 1
          PROVE  slot'[at[u]].used /\ \A f \in Fds : file[f] # call'[u].conn
      <3>1. u # t /\ call'[u] = call[u]
        BY <1>8, <2>8 DEF NoCall
      <3>2. slot[at[u]].used /\ at[u] \in Slots /\ \A f \in Fds : file[f] # call[u].conn
        BY <1>1, <2>8, <3>1 DEF SlotsFit, TypeOK
      <3> QED
        BY <1>8, <3>1, <3>2
    <2> QED
      BY <1>5, <2>1, <2>2, <2>5, <2>6, <2>7, <2>8 DEF SlotsFit
  <1>17. OwnersFit'
    <2> SUFFICES ASSUME NEW u \in Tasks, pc'[u] \in {"locking", "busy"},
                        ~(call'[u].kind = "close" /\ call'[u].n = 2)
                 PROVE  OwnerNext(u, call'[u].conn)
      BY OwnersIntro
    <2> DEFINE d == call[u].conn
    <2>1. call'[u] = call[u] /\ pc'[u] = pc[u] /\ InSlot(u) /\ u # t
      BY <1>8 DEF InSlot
    <2>2. id[d] # s /\ id[d] \in Slots /\ d # c0 /\ d \in Conns
      BY <1>10, <2>1
    <2>3. id'[d] = id[d] /\ slot'[id[d]] = slot[id[d]] /\ owner'[id[d]] = owner[id[d]]
      BY <1>8, <2>2
    <2>4. /\ owner[id[d]] = d
          /\ ~TearsDown(u) => file[slot[id[d]].fd] \in {d, NoConn}
          /\ ~TearsDown(u) /\ Opening /\ d \in closed =>
               {v \in Tasks : call[v].conn = d} = {u} /\ slot[id[d]].used /\ file[slot[id[d]].fd] = d
      BY <1>1, <2>1, OwnersElim DEF TearsDown
    <2>5. {v \in Tasks : call'[v].conn = d} = {v \in Tasks : call[v].conn = d}
      <3>1. call[t].conn # d /\ call'[t].conn # d
        BY <1>7, <1>8, <2>2, Numbers DEF NoCall
      <3> QED
        BY <1>8, <3>1
    <2>6. Opening
      BY <1>2 DEF Opening
    <2> HIDE DEF d
    <2>7. call'[u].conn = d
      BY <2>1 DEF d
    <2> QED
      BY <1>5, <2>1, <2>3, <2>4, <2>5, <2>6, <2>7 DEF OwnerNext, TearsDown
  <1>18. HalvesFit' /\ SendsWhole'
    <2>1. \A u \in Tasks : call'[u] # call[u] => call[u].kind # "send" /\ call'[u].kind # "send"
      BY <1>1, <1>2, <1>8 DEF NoCall, CallsFit
    <2> QED
      BY <1>5, <2>1, HalvesKept DEF ConnInv
  <1>19. EndsSeen' /\ ShortMeansEnd'
    <2>1. \A u \in Tasks : eof[u] => call[u].conn \in Conns
      BY <1>1, Where DEF ConnInv, EndsSeen, InSlot
    <2>2. \A u \in Tasks : eof'[u] => eof[u] /\ pc'[u] = pc[u] /\ call'[u] = call[u]
      <3>1. ~eof[t]
        BY <1>2 DEF ConnInv, EndsSeen
      <3> QED
        BY <1>5, <1>8, <3>1
    <2> QED
      BY <1>5, <2>1, <2>2, EndsKept DEF ConnInv
  <1>20. NothingLost'
    <2> SUFFICES ASSUME NEW d \in (1..opened) \ closed
                 PROVE  sent[d] = got[d] \o (IF id'[d] \in Slots THEN slot'[id'[d]].buf ELSE << >>) \o wire[d]
      BY <1>5 DEF NothingLost
    <2>1. sent[d] = got[d] \o (IF id[d] \in Slots THEN slot[id[d]].buf ELSE << >>) \o wire[d]
      BY DEF ConnInv, NothingLost
    <2>2. CASE d = c0
      BY <1>2, <1>3, <1>7, <1>8, <2>1, <2>2, Numbers
    <2>3. CASE d # c0
      <3>1. id'[d] = id[d] /\ (id[d] \in Slots => id[d] # s)
        BY <1>1, <1>3, <1>8, <1>9, <2>3, Numbers DEF SlotsFit
      <3>2. id[d] \in Slots => slot'[id[d]] = slot[id[d]]
        BY <1>8, <3>1
      <3> QED
        BY <2>1, <3>1, <3>2
    <2> QED
      BY <2>2, <2>3
  <1> QED
    BY <1>12, <1>13, <1>14, <1>15, <1>16, <1>17, <1>18, <1>19, <1>20 DEF ConnInv

-----------------------------------------------------------------------------
(* Under the lock *)

LEMMA LockInv ==
  ASSUME ConnInv, NEW t \in Tasks, Lock(t)
  PROVE  ConnInv'
  <1>1. /\ pc[t] = "locking" /\ mu[at[t]] = {} /\ at[t] \in Slots
        /\ mu' = [mu EXCEPT ![at[t]] = {t}] /\ pc' = [pc EXCEPT ![t] = "busy"]
        /\ UNCHANGED <<slot, file, opened, id, owner, wire, sent, hungup, out, call, eof, at, ret, left, closed, got, torn>>
    BY DEF Lock, Goto, world, ConnInv, TypeOK
  <1>2. TypeOK /\ CallsFit /\ LocksFit /\ OpeningFits /\ SlotsFit /\ OwnersFit
    BY DEF ConnInv
  <1>3. /\ pc'[t] = "busy" /\ mu'[at[t]] = {t}
        /\ \A u \in Tasks \ {t} : pc'[u] = pc[u]
        /\ \A s \in Slots \ {at[t]} : mu'[s] = mu[s]
    BY <1>1, <1>2 DEF TypeOK
  <1>4. TypeOK'
    <2>1. pc' \in [Tasks -> {"idle", "dialed", "locking", "busy"}] /\ mu' \in [Slots -> {{}} \cup {{u} : u \in Tasks}]
      BY <1>1, <1>2 DEF TypeOK
    <2> QED
      BY <1>1, <1>2, <2>1 DEF TypeOK
  <1>5. CallsFit'
    <2>1. \A u \in Tasks : InSlot(u)' = InSlot(u)
      BY <1>1, <1>3 DEF InSlot
    <2>2. call[t].n \in Nat
      BY <1>2 DEF TypeOK, CallType
    <2> QED
      BY <1>1, <1>2, <1>3, <2>1 DEF CallsFit
  <1>6. LocksFit'
    <2>1. \A u \in Tasks : u # t /\ pc[u] = "busy" => at[u] # at[t] /\ at[u] \in Slots
      <3> SUFFICES ASSUME NEW u \in Tasks, u # t, pc[u] = "busy"  PROVE at[u] # at[t] /\ at[u] \in Slots
        OBVIOUS
      <3>1. mu[at[u]] = {u} /\ at[u] \in Slots
        BY <1>2 DEF LocksFit, TypeOK
      <3>2. mu[at[u]] # mu[at[t]]
        BY <1>1, <3>1
      <3> QED
        BY <3>1, <3>2
    <2> QED
      BY <1>1, <1>2, <1>3, <2>1 DEF LocksFit
  <1>7. OpeningFits'
    BY <1>1, <1>3, OpeningKept DEF ConnInv
  <1>8. SlotsFit'
    <2>1. \A s \in Slots : mu[s] # {} => mu'[s] = mu[s]
      BY <1>1, <1>3
    <2>2. \A c \in 1..opened : id[c] # MaxConns => id[c] \in Slots
      BY <1>2, Numbers DEF TypeOK, Conns
    <2> QED
      BY <1>1, <1>2, <2>1, <2>2 DEF SlotsFit
  <1>9. OwnersFit'
    <2>1. \A u \in Tasks : InSlot(u)' = InSlot(u)
      BY <1>1, <1>3 DEF InSlot
    <2>2. Opening' = Opening
      BY <1>1, <1>3 DEF Opening
    <2> QED
      BY <1>1, <1>2, <2>1, <2>2 DEF OwnersFit, TearsDown, InCall
  <1>10. HalvesFit' /\ SendsWhole'
    BY <1>1, HalvesKept DEF ConnInv
  <1>11. EndsSeen' /\ ShortMeansEnd'
    <2>1. \A u \in Tasks : eof[u] => call[u].conn \in Conns
      BY <1>2, Where DEF ConnInv, EndsSeen, InSlot
    <2>2. \A u \in Tasks : eof'[u] => eof[u] /\ pc'[u] = pc[u] /\ call'[u] = call[u]
      <3>1. ~eof[t]
        BY <1>1 DEF ConnInv, EndsSeen
      <3> QED
        BY <1>1, <1>3, <3>1
    <2> QED
      BY <1>1, <2>1, <2>2, EndsKept DEF ConnInv
  <1>12. NothingLost'
    BY <1>1, LostKept DEF ConnInv
  <1> QED
    BY <1>4, <1>5, <1>6, <1>7, <1>8, <1>9, <1>10, <1>11, <1>12 DEF ConnInv

SameSlots == \A s \in Slots : slot'[s].used = slot[s].used /\ slot'[s].fd = slot[s].fd

\* A change of a buffer is no change of the table.
LEMMA SetBuf ==
  ASSUME TypeOK, NEW s \in Slots, NEW b \in Seq(Bytes), slot' = [slot EXCEPT ![s].buf = b]
  PROVE  /\ slot' \in [Slots -> [used : BOOLEAN, fd : {0} \cup Fds, buf : Seq(Bytes)]]
         /\ SameSlots /\ slot'[s].buf = b
         /\ \A k \in Slots \ {s} : slot'[k] = slot[k]
  <1>1. slot \in [Slots -> [used : BOOLEAN, fd : {0} \cup Fds, buf : Seq(Bytes)]]
    BY DEF TypeOK
  <1>2. slot'[s] = [slot[s] EXCEPT !.buf = b] /\ \A k \in Slots \ {s} : slot'[k] = slot[k]
    BY <1>1
  <1>3. slot'[s].buf = b /\ slot'[s].used = slot[s].used /\ slot'[s].fd = slot[s].fd
    BY <1>1, <1>2
  <1>4. slot' \in [Slots -> [used : BOOLEAN, fd : {0} \cup Fds, buf : Seq(Bytes)]]
    BY <1>1
  <1>5. SameSlots
    BY <1>2, <1>3 DEF SameSlots
  <1> QED
    BY <1>2, <1>3, <1>4, <1>5

LEMMA BufKept ==
  ASSUME TypeOK, CallsFit, LocksFit, SlotsFit, OwnersFit, SameSlots,
         UNCHANGED <<mu, file, opened, id, owner, pc, call, at, closed>>
  PROVE  CallsFit' /\ LocksFit' /\ SlotsFit' /\ OwnersFit'
  <1>1. CallsFit'
    BY DEF CallsFit, InSlot
  <1>2. LocksFit'
    BY DEF LocksFit
  <1>3. SlotsFit'
    <2>1. \A c \in 1..opened : id[c] # MaxConns => id[c] \in Slots
      BY Numbers DEF TypeOK, Conns
    <2>2. \A t \in Tasks : at[t] \in Slots
      BY DEF TypeOK
    <2> QED
      BY <2>1, <2>2 DEF SlotsFit, SameSlots
  <1>4. OwnersFit'
    <2> SUFFICES ASSUME NEW u \in Tasks, InSlot(u), ~(call[u].kind = "close" /\ call[u].n = 2)
                 PROVE  OwnerNext(u, call[u].conn)
      BY OwnersIntro DEF InSlot
    <2>1. id[call[u].conn] \in Slots
      BY Where
    <2>2. Opening' = Opening
      BY DEF Opening
    <2> QED
      BY <2>1, <2>2, OwnersElim DEF OwnerNext, SameSlots
  <1> QED
    BY <1>1, <1>2, <1>3, <1>4

\* A call that returns, unless it is a close that still has a slot to free.
LEMMA ReturnKept ==
  ASSUME TypeOK, CallsFit, LocksFit, SlotsFit, OwnersFit, OpeningFits, SameSlots,
         NEW t \in Tasks, pc[t] = "busy", ~(call[t].kind = "close" /\ call[t].n = 1),
         NEW bytes \in Seq(Bytes), NEW status \in {"ok", "closed", "failed"}, Return(t, bytes, status),
         UNCHANGED <<file, opened, id, owner, closed, wire, sent>>,
         \A c \in Conns : c > opened => got'[c] = got[c]
  PROVE  /\ CallsFit' /\ LocksFit' /\ SlotsFit' /\ OwnersFit' /\ OpeningFits'
         /\ pc' \in [Tasks -> {"idle", "dialed", "locking", "busy"}]
         /\ call' \in [Tasks -> CallType] /\ eof' \in [Tasks -> BOOLEAN]
         /\ at' \in [Tasks -> Slots] /\ ret' \in [Tasks -> RetType]
         /\ mu' \in [Slots -> {{}} \cup {{u} : u \in Tasks}]
         /\ pc'[t] = "idle" /\ call'[t] = NoCall /\ eof'[t] = FALSE
         /\ ret'[t].call = call[t] /\ ret'[t].bytes = bytes /\ ret'[t].status = status
         /\ \A u \in Tasks \ {t} : /\ pc'[u] = pc[u] /\ call'[u] = call[u]
                                   /\ eof'[u] = eof[u] /\ ret'[u] = ret[u]
  <1>1. /\ mu' = [mu EXCEPT ![at[t]] = {}]
        /\ pc' = [pc EXCEPT ![t] = "idle"] /\ call' = [call EXCEPT ![t] = NoCall]
        /\ ret' = [ret EXCEPT ![t] = Ret(call[t], bytes, status)]
        /\ at' = [at EXCEPT ![t] = 0] /\ eof' = [eof EXCEPT ![t] = FALSE]
    BY DEF Return, Goto
  <1>2. NoCall \in CallType /\ Ret(call[t], bytes, status) \in RetType /\ 0 \in Slots
        /\ Ret(call[t], bytes, status).call = call[t] /\ Ret(call[t], bytes, status).bytes = bytes
        /\ Ret(call[t], bytes, status).status = status
    <2>1. NoCall \in CallType
      BY DEF NoCall, CallType, Kinds
    <2>2. call[t] \in CallType
      BY DEF TypeOK
    <2> QED
      BY <2>1, <2>2, Numbers DEF Ret, RetType
  <1>3. /\ pc' \in [Tasks -> {"idle", "dialed", "locking", "busy"}]
        /\ call' \in [Tasks -> CallType] /\ eof' \in [Tasks -> BOOLEAN]
        /\ at' \in [Tasks -> Slots] /\ ret' \in [Tasks -> RetType]
        /\ mu' \in [Slots -> {{}} \cup {{u} : u \in Tasks}]
    BY <1>1, <1>2 DEF TypeOK
  <1>4. /\ pc'[t] = "idle" /\ call'[t] = NoCall /\ eof'[t] = FALSE /\ at[t] \in Slots /\ mu'[at[t]] = {}
        /\ ret'[t] = Ret(call[t], bytes, status)
        /\ \A u \in Tasks \ {t} : /\ pc'[u] = pc[u] /\ call'[u] = call[u]
                                  /\ eof'[u] = eof[u] /\ ret'[u] = ret[u] /\ at'[u] = at[u]
        /\ \A s \in Slots \ {at[t]} : mu'[s] = mu[s]
    BY <1>1 DEF TypeOK
  <1>5. mu[at[t]] = {t} /\ \A u \in Tasks \ {t} : pc[u] = "busy" => at[u] # at[t] /\ at[u] \in Slots
    BY Alone DEF LocksFit, TypeOK
  <1>6. CallsFit'
    BY <1>4 DEF CallsFit, InSlot, NoCall
  <1>7. LocksFit'
    <2>1. ASSUME NEW u \in Tasks, pc'[u] = "busy"  PROVE mu'[at'[u]] = {u}
      BY <1>4, <1>5, <2>1 DEF LocksFit
    <2>2. ASSUME NEW s \in Slots, NEW u \in mu'[s]  PROVE pc'[u] = "busy" /\ at'[u] = s
      <3>1. s # at[t] /\ u \in mu[s] /\ mu[s] \in {{}} \cup {{v} : v \in Tasks}
        BY <1>4, <2>2 DEF TypeOK
      <3> QED
        BY <1>4, <3>1 DEF LocksFit
    <2> QED
      BY <2>1, <2>2 DEF LocksFit
  <1>8. OpeningFits'
    BY <1>4, OpeningKept
  <1>9. SlotsFit'
    <2>1. \A c \in 1..opened : id[c] # MaxConns => id[c] \in Slots
      BY Numbers DEF TypeOK, Conns
    <2>2. \A u \in Tasks : call'[u].kind = "close" /\ call'[u].n = 1 => u # t /\ at'[u] \in Slots
      BY <1>3, <1>4 DEF NoCall
    <2>3. ASSUME NEW s \in Slots, NEW u \in mu[s], call[u].kind = "close", call[u].n = 1
          PROVE  u \in mu'[s] /\ call'[u] = call[u]
      <3>1. u \in Tasks /\ u # t /\ at[u] = s /\ pc[u] = "busy"
        <4>1. mu[s] \in {{}} \cup {{v} : v \in Tasks}
          BY DEF TypeOK
        <4> QED
          BY <2>3, <4>1 DEF LocksFit
      <3> QED
        BY <1>4, <1>5, <3>1
    <2>4. ASSUME NEW c \in 1..opened, id[c] # MaxConns, owner[id[c]] = c, slot[id[c]].used
          PROVE  \/ file[slot[id[c]].fd] = c
                 \/ \E u \in mu'[id[c]] : call'[u].kind = "close" /\ call'[u].n = 1
      BY <2>1, <2>3, <2>4 DEF SlotsFit
    <2>5. \A u \in Tasks : call'[u].kind = "close" /\ call'[u].n = 1 =>
            slot[at'[u]].used /\ \A f \in Fds : file[f] # call'[u].conn
      BY <1>4, <2>2 DEF SlotsFit
    <2> QED
      BY <2>1, <2>2, <2>4, <2>5 DEF SlotsFit, SameSlots
  <1>10. OwnersFit'
    <2> SUFFICES ASSUME NEW u \in Tasks, pc'[u] \in {"locking", "busy"},
                        ~(call'[u].kind = "close" /\ call'[u].n = 2)
                 PROVE  OwnerNext(u, call'[u].conn)
      BY OwnersIntro
    <2> DEFINE d == call[u].conn
    <2>1. u # t /\ call'[u] = call[u] /\ pc'[u] = pc[u] /\ InSlot(u)
      BY <1>4 DEF InSlot
    <2>2. d \in 1..opened /\ id[d] \in Slots /\ d # NoConn
      BY <2>1, Where, Numbers
    <2>3. Opening' = Opening
      BY <1>4 DEF Opening
    <2>4. /\ owner[id[d]] = d
          /\ ~TearsDown(u) => file[slot[id[d]].fd] \in {d, NoConn}
          /\ ~TearsDown(u) /\ Opening /\ d \in closed =>
               {v \in Tasks : call[v].conn = d} = {u} /\ slot[id[d]].used /\ file[slot[id[d]].fd] = d
      BY <2>1, OwnersElim DEF TearsDown
    <2>5. {v \in Tasks : call[v].conn = d} = {u} => {v \in Tasks : call'[v].conn = d} = {u}
      BY <1>4, <2>1, <2>2 DEF NoCall
    <2> HIDE DEF d
    <2>6. call'[u].conn = d
      BY <2>1 DEF d
    <2> QED
      BY <2>1, <2>2, <2>3, <2>4, <2>5, <2>6 DEF OwnerNext, TearsDown, SameSlots
  <1> QED
    BY <1>2, <1>3, <1>4, <1>6, <1>7, <1>8, <1>9, <1>10

\* Ends that were seen, when a call returns something that is not short.
LEMMA ReturnEnds ==
  ASSUME TypeOK, CallsFit, LocksFit, EndsSeen, ShortMeansEnd, UNCHANGED <<hungup, wire>>,
         NEW t \in Tasks, pc[t] = "busy",
         eof'[t] = FALSE, ret'[t].call = call[t],
         ret'[t].status = "ok" /\ call[t].kind \in Receiving =>
           \/ ~ \/ call[t].kind = "recv" /\ ret'[t].bytes = << >>
                \/ call[t].kind = "recv_line" /\ Newlines(ret'[t].bytes) = {}
                \/ call[t].kind = "recv_n" /\ Len(ret'[t].bytes) < call[t].n
           \/ hungup[call[t].conn] /\ wire[call[t].conn] = << >>,
         \A u \in Tasks \ {t} : /\ pc'[u] = pc[u] /\ call'[u] = call[u]
                                /\ eof'[u] = eof[u] /\ ret'[u] = ret[u]
  PROVE  EndsSeen' /\ ShortMeansEnd'
  <1>1. EndsSeen'
    <2>1. call[t].conn \in Conns
      BY Where DEF InSlot
    <2> QED
      BY <2>1 DEF EndsSeen
  <1>2. ShortMeansEnd'
    <2> SUFFICES ASSUME NEW u \in Tasks, ret'[u].status = "ok", ret'[u].call.kind \in Receiving,
                        \/ ret'[u].call.kind = "recv" /\ ret'[u].bytes = << >>
                        \/ ret'[u].call.kind = "recv_line" /\ Newlines(ret'[u].bytes) = {}
                        \/ ret'[u].call.kind = "recv_n" /\ Len(ret'[u].bytes) < ret'[u].call.n
                 PROVE  hungup[ret'[u].call.conn] /\ wire[ret'[u].call.conn] = << >>
      BY DEF ShortMeansEnd, Newlines
    <2>1. CASE u = t
      BY <2>1
    <2>2. CASE u # t
      BY <2>2 DEF ShortMeansEnd
    <2> QED
      BY <2>1, <2>2
  <1> QED
    BY <1>1, <1>2

-----------------------------------------------------------------------------
(* Receiving *)

LEMMA FillEndInv ==
  ASSUME ConnInv, NEW t \in Tasks, FillEnd(t)
  PROVE  ConnInv'
  <1>1. /\ Holds(t, Receiving) /\ Reads(t) # NoConn /\ wire[Reads(t)] = << >> /\ hungup[Reads(t)]
        /\ eof' = [eof EXCEPT ![t] = TRUE]
        /\ UNCHANGED <<slot, mu, file, opened, id, owner, wire, sent, hungup, out, pc, call, at, ret, left, closed, got, torn>>
    BY DEF FillEnd, Fills, world
  <1>2. TypeOK /\ CallsFit /\ LocksFit /\ OpeningFits /\ SlotsFit /\ OwnersFit
    BY DEF ConnInv
  <1>3. pc[t] = "busy" /\ call[t].kind \in Receiving /\ Reads(t) = call[t].conn
    BY <1>1, <1>2, OwnConn DEF Holds, InSlot, Receiving
  <1>4. TypeOK'
    BY <1>1, <1>2 DEF TypeOK
  <1>5. CallsFit' /\ LocksFit' /\ SlotsFit' /\ OwnersFit'
    BY <1>1, <1>2, TableKept DEF table
  <1>6. OpeningFits'
    BY <1>1, <1>2, OpeningKept
  <1>7. HalvesFit' /\ SendsWhole'
    BY <1>1, HalvesKept DEF ConnInv
  <1>8. EndsSeen'
    BY <1>1, <1>2, <1>3 DEF ConnInv, EndsSeen, TypeOK
  <1>9. ShortMeansEnd'
    BY <1>1 DEF ConnInv, ShortMeansEnd, Newlines
  <1>10. NothingLost'
    BY <1>1, LostKept DEF ConnInv
  <1> QED
    BY <1>4, <1>5, <1>6, <1>7, <1>8, <1>9, <1>10 DEF ConnInv

\* Concatenation, as the buffer and the wire need it.
LEMMA Assoc3 == \A a, b, c \in Seq(Bytes) : a \o (b \o c) = (a \o b) \o c
  BY ConcatAssociative, SMTT(40)

LEMMA Assoc4 ==
  \A a, b, c, d \in Seq(Bytes) : (a \o b) \o (c \o d) = (a \o (b \o c)) \o d
  <1> TAKE a, b, c, d \in Seq(Bytes)
  <1>1. (a \o b) \o (c \o d) = ((a \o b) \o c) \o d
    <2>1. a \o b \in Seq(Bytes)
      BY ConcatProperties
    <2> QED
      BY <2>1, Assoc3, SMTT(40)
  <1>2. (a \o b) \o c = a \o (b \o c)
    BY Assoc3, SMTT(40)
  <1> QED
    BY <1>1, <1>2

\* What is moved from the wire to the buffer stays in its place.
LEMMA FillSomeInv ==
  ASSUME ConnInv, NEW t \in Tasks, FillSome(t)
  PROVE  ConnInv'
  <1> DEFINE c == Reads(t)
             s == at[t]
  <1>1. /\ Holds(t, Receiving) /\ c # NoConn
        /\ UNCHANGED <<mu, file, opened, id, owner, sent, hungup, out, pc, call, eof, at, ret, left, closed, got, torn>>
    BY DEF FillSome, Fills, locals
  <1>2. TypeOK /\ CallsFit /\ LocksFit /\ OpeningFits /\ SlotsFit /\ OwnersFit
    BY DEF ConnInv
  <1>3. pc[t] = "busy" /\ call[t].kind \in Receiving /\ c = call[t].conn /\ owner[s] = c
        /\ c \in 1..opened /\ c \in Conns /\ s \in Slots /\ id[c] = s
    BY <1>1, <1>2, OwnConn, Where DEF Holds, InSlot, Receiving
  <1>4. PICK k \in 1..Len(wire[c]) :
          /\ slot' = [slot EXCEPT ![s].buf = slot[s].buf \o SubSeq(wire[c], 1, k)]
          /\ wire' = [wire EXCEPT ![c] = SubSeq(wire[c], k + 1, Len(wire[c]))]
    BY <1>2, <1>3 DEF FillSome, TypeOK
  <1> HIDE DEF c, s
  <1> DEFINE b == slot[s].buf
             w == wire[c]
             x == SubSeq(w, 1, k)
             y == SubSeq(w, k + 1, Len(w))
  <1>5. b \in Seq(Bytes) /\ w \in Seq(Bytes) /\ Len(w) \in Nat /\ k \in 1..Len(w)
    BY <1>2, <1>3, <1>4, SMTT(40) DEF TypeOK
  <1> HIDE DEF w
  <1>6. x \in Seq(Bytes) /\ y \in Seq(Bytes) /\ b \o x \in Seq(Bytes) /\ x \o y = w
    <2>1. \A i \in 1..Len(w) : w[i] \in Bytes
      BY <1>5, ElementOfSeq
    <2>2. x \in Seq(Bytes)
      BY <1>5, <2>1, SubSeqProperties
    <2>3. y \in Seq(Bytes)
      BY <1>5, <2>1, SubSeqProperties
    <2>4. x \o y = SubSeq(w, 1, Len(w))
      BY <1>5, ConcatAdjacentSubSeq
    <2>5. SubSeq(w, 1, Len(w)) = w
      BY <1>5, SubSeqFull
    <2> HIDE DEF x, b, y
    <2>6. b \o x \in Seq(Bytes)
      BY <1>5, <2>2, ConcatProperties
    <2> QED
      BY <2>2, <2>3, <2>4, <2>5, <2>6, Zenon
  <1>7. /\ slot' = [slot EXCEPT ![s].buf = b \o x] /\ wire' = [wire EXCEPT ![c] = y]
    BY <1>4 DEF w
  <1> HIDE DEF x, y
  <1>8. /\ slot' \in [Slots -> [used : BOOLEAN, fd : {0} \cup Fds, buf : Seq(Bytes)]]
        /\ SameSlots /\ slot'[s].buf = b \o x
        /\ \A i \in Slots \ {s} : slot'[i] = slot[i]
    BY <1>2, <1>3, <1>6, <1>7, SetBuf
  <1>9. wire' \in [Conns -> Seq(Bytes)] /\ wire'[c] = y /\ \A d \in Conns \ {c} : wire'[d] = wire[d]
    BY <1>2, <1>3, <1>6, <1>7 DEF TypeOK
  <1>10. TypeOK'
    BY <1>1, <1>2, <1>8, <1>9 DEF TypeOK
  <1>11. CallsFit' /\ LocksFit' /\ SlotsFit' /\ OwnersFit'
    BY <1>1, <1>2, <1>8, BufKept
  <1>12. OpeningFits'
    <2>1. \A d \in Conns : d > opened => d # c
      BY <1>2, <1>3 DEF TypeOK
    <2> QED
      BY <1>1, <1>2, <1>9, <2>1, OpeningKept
  <1>13. HalvesFit' /\ SendsWhole'
    BY <1>1, HalvesKept DEF ConnInv
  <1>14. EndsSeen' /\ ShortMeansEnd'
    <2>1. \A u \in Tasks : eof[u] => call[u].conn \in Conns
      BY <1>2, Where DEF ConnInv, EndsSeen, InSlot
    <2>2. w # << >>
      BY <1>5
    <2>3. \A d \in Conns : hungup[d] /\ wire[d] = << >> => wire'[d] = << >>
      BY <1>9, <2>2 DEF w
    <2> QED
      BY <1>1, <2>1, <2>3, EndsKept DEF ConnInv
  <1>15. NothingLost'
    <2> SUFFICES ASSUME NEW d \in (1..opened) \ closed
                 PROVE  sent[d] = got[d] \o (IF id[d] \in Slots THEN slot'[id[d]].buf ELSE << >>) \o wire'[d]
      BY <1>1 DEF NothingLost
    <2>1. sent[d] = got[d] \o (IF id[d] \in Slots THEN slot[id[d]].buf ELSE << >>) \o wire[d]
      BY DEF ConnInv, NothingLost
    <2>2. d \in Conns
      BY <1>2, Numbers DEF TypeOK, Conns
    <2>3. CASE d = c
      <3> DEFINE g == got[c]
      <3>1. sent[d] = (g \o b) \o (x \o y)
        BY <1>3, <1>6, <2>1, <2>3, Zenon DEF w
      <3>2. g \in Seq(Bytes) /\ b \in Seq(Bytes) /\ x \in Seq(Bytes) /\ y \in Seq(Bytes)
        BY <1>2, <1>3, <1>5, <1>6, SMTT(40) DEF TypeOK
      <3>3. got[d] \o (IF id[d] \in Slots THEN slot'[id[d]].buf ELSE << >>) \o wire'[d] = (g \o (b \o x)) \o y
        BY <1>3, <1>8, <1>9, <2>3, Zenon
      <3> HIDE DEF g, b
      <3>4. (g \o b) \o (x \o y) = (g \o (b \o x)) \o y
        <4> DEFINE Same(p, q, u, v) == (p \o q) \o (u \o v) = (p \o (q \o u)) \o v
        <4>1. \A p, q, u, v \in Seq(Bytes) : Same(p, q, u, v)
          BY Assoc4
        <4> HIDE DEF x, y, Same
        <4>2. Same(g, b, x, y)
          BY <3>2, <4>1
        <4> QED
          BY <4>2 DEF Same
      <3> QED
        BY <3>1, <3>3, <3>4, Zenon
    <2>4. CASE d # c
      <3>1. id[d] \in Slots => id[d] # s
        BY <1>2, <1>3, <2>4, Numbers DEF SlotsFit
      <3>2. id[d] \in Slots => slot'[id[d]] = slot[id[d]]
        BY <1>8, <3>1
      <3> QED
        BY <1>9, <2>1, <2>2, <2>4, <3>2
    <2> QED
      BY <2>3, <2>4
  <1> QED
    BY <1>10, <1>11, <1>12, <1>13, <1>14, <1>15 DEF ConnInv

\* A call that fails leaves what it has read so far in the buffer.
LEMMA FillFailsInv ==
  ASSUME ConnInv, NEW t \in Tasks, FillFails(t)
  PROVE  ConnInv'
  <1>1. /\ Holds(t, Receiving) /\ Return(t, << >>, "failed")
        /\ UNCHANGED <<slot, file, opened, id, owner, wire, sent, hungup, out, left, closed, got, torn>>
    BY DEF FillFails, Fills, world, Return
  <1>2. TypeOK /\ CallsFit /\ LocksFit /\ OpeningFits /\ SlotsFit /\ OwnersFit
    BY DEF ConnInv
  <1>3. pc[t] = "busy" /\ call[t].kind \in Receiving /\ call[t].kind # "close" /\ call[t].kind # "send"
    BY <1>1 DEF Holds, Receiving
  <1>4. SameSlots /\ << >> \in Seq(Bytes)
    BY <1>1, EmptySeq DEF SameSlots
  <1>5. /\ CallsFit' /\ LocksFit' /\ SlotsFit' /\ OwnersFit' /\ OpeningFits'
        /\ pc' \in [Tasks -> {"idle", "dialed", "locking", "busy"}]
        /\ call' \in [Tasks -> CallType] /\ eof' \in [Tasks -> BOOLEAN]
        /\ at' \in [Tasks -> Slots] /\ ret' \in [Tasks -> RetType]
        /\ mu' \in [Slots -> {{}} \cup {{u} : u \in Tasks}]
        /\ pc'[t] = "idle" /\ call'[t] = NoCall /\ eof'[t] = FALSE
        /\ ret'[t].call = call[t] /\ ret'[t].bytes = << >> /\ ret'[t].status = "failed"
        /\ \A u \in Tasks \ {t} : /\ pc'[u] = pc[u] /\ call'[u] = call[u]
                                  /\ eof'[u] = eof[u] /\ ret'[u] = ret[u]
    BY <1>1, <1>2, <1>3, <1>4, ReturnKept
  <1>6. TypeOK'
    BY <1>1, <1>2, <1>5 DEF TypeOK
  <1>7. HalvesFit' /\ SendsWhole'
    <2>1. \A u \in Tasks : call'[u] # call[u] => call[u].kind # "send" /\ call'[u].kind # "send"
      BY <1>3, <1>5 DEF NoCall
    <2> QED
      BY <1>1, <2>1, HalvesKept DEF ConnInv
  <1>8. EndsSeen' /\ ShortMeansEnd'
    BY <1>1, <1>2, <1>3, <1>5, ReturnEnds DEF ConnInv
  <1>9. NothingLost'
    BY <1>1, LostKept DEF ConnInv
  <1> QED
    BY <1>5, <1>6, <1>7, <1>8, <1>9 DEF ConnInv
\* How much is taken, and when it is less than what the call is for.
LEMMA Shares ==
  ASSUME TypeOK, CallsFit, LocksFit, NEW t \in Tasks, Holds(t, Receiving), Enough(t) \/ eof[t]
  PROVE  LET b == Here(t).buf  n == Share(t)  x == SubSeq(b, 1, n) IN
         /\ n \in 0..Len(b)
         /\ \/ call[t].kind = "recv" /\ x = << >>
            \/ call[t].kind = "recv_line" /\ Newlines(x) = {}
            \/ call[t].kind = "recv_n" /\ Len(x) < call[t].n
            => eof[t]
  <1> DEFINE b == Here(t).buf
             n == Share(t)
             x == SubSeq(b, 1, n)
  <1>1. at[t] \in Slots /\ call[t].n \in Nat /\ call[t].kind \in Receiving
        /\ (call[t].kind \in {"recv", "recv_n"} => call[t].n > 0)
    BY Where DEF Holds, InSlot, CallsFit
  <1>2. b \in Seq(Bytes)
    BY <1>1 DEF TypeOK, Here
  <1>3. Len(b) \in Nat /\ DOMAIN b = 1..Len(b)
    BY <1>2, LenProperties
  <1>4. Enough(t) = CASE call[t].kind = "recv" -> b # << >>
                      [] call[t].kind = "recv_line" -> Newlines(b) # {}
                      [] call[t].kind = "recv_n" -> Len(b) >= call[t].n
    BY DEF Enough
  <1>5. n = IF call[t].kind = "recv_line" THEN IF Newlines(b) = {} THEN Len(b) ELSE Min(Newlines(b))
            ELSE Min({call[t].n, Len(b)})
    BY DEF Share
  <1> HIDE DEF b, n
  <1>6. \A i \in Newlines(b) : i \in 1..Len(b) /\ b[i].nth \in NewlineAt
    BY <1>3 DEF Newlines
  <1>7. call[t].kind # "recv_line" =>
          n \in {call[t].n, Len(b)} /\ n <= call[t].n /\ n <= Len(b)
    BY <1>1, <1>3, <1>5, Least
  <1>8. call[t].kind = "recv_line" /\ Newlines(b) # {} => n \in Newlines(b)
    BY <1>3, <1>5, <1>6, Least
  <1>9. n \in 0..Len(b)
    <2>1. CASE call[t].kind # "recv_line"
      BY <1>1, <1>3, <1>7, <2>1
    <2>2. CASE call[t].kind = "recv_line"
      BY <1>3, <1>5, <1>6, <1>8, <2>2
    <2> QED
      BY <2>1, <2>2
  <1>10. x \in Seq(Bytes) /\ Len(x) = n /\ DOMAIN x = 1..n /\ \A i \in 1..n : x[i] = b[i]
    <2>1. \A i \in 1..Len(b) : b[i] \in Bytes
      BY <1>2, ElementOfSeq
    <2>2. x \in Seq(Bytes)
      BY <1>2, <1>3, <1>9, <2>1, SubSeqProperties
    <2>3. Len(x) = n /\ \A i \in 1..n : x[i] = b[i]
      BY <1>2, <1>3, <1>9, SubSeqProperties
    <2> QED
      BY <2>2, <2>3, LenProperties
  <1> HIDE DEF x
  <1>11. ASSUME call[t].kind = "recv", x = << >>  PROVE eof[t]
    <2>1. n = 0
      BY <1>10, <1>11
    <2>2. Len(b) = 0
      BY <1>1, <1>7, <1>11, <2>1
    <2>3. b = << >>
      BY <1>2, <2>2, EmptySeq
    <2> QED
      BY <1>4, <1>11, <2>3
  <1>12. ASSUME call[t].kind = "recv_line", Newlines(x) = {}  PROVE eof[t]
    <2>1. ASSUME Newlines(b) # {}  PROVE FALSE
      <3>1. n \in Newlines(b)
        BY <1>8, <1>12, <2>1
      <3>2. n \in 1..n /\ b[n].nth \in NewlineAt
        BY <1>6, <3>1
      <3>3. n \in Newlines(x)
        BY <1>10, <3>2 DEF Newlines
      <3> QED
        BY <1>12, <3>3
    <2> QED
      BY <1>4, <1>12, <2>1
  <1>13. ASSUME call[t].kind = "recv_n", Len(x) < call[t].n  PROVE eof[t]
    <2>1. ~(Len(b) >= call[t].n)
      BY <1>1, <1>3, <1>7, <1>10, <1>13
    <2> QED
      BY <1>4, <1>13, <2>1
  <1> QED
    BY <1>9, <1>11, <1>12, <1>13 DEF b, n, x

\* What is taken from the front of the buffer goes to the end of what was got.
LEMMA TakeInv ==
  ASSUME ConnInv, NEW t \in Tasks, Take(t)
  PROVE  ConnInv'
  <1> DEFINE c == call[t].conn
             s == at[t]
             n == Share(t)
             b == slot[s].buf
             x == SubSeq(b, 1, n)
             y == SubSeq(b, n + 1, Len(b))
  <1>1. /\ Holds(t, Receiving) /\ (Enough(t) \/ eof[t])
        /\ slot' = [slot EXCEPT ![s].buf = y]
        /\ got' = [got EXCEPT ![c] = got[c] \o x]
        /\ Return(t, x, "ok")
        /\ UNCHANGED <<file, opened, id, owner, wire, sent, hungup, out, left, closed, torn>>
    <2>1. c \in Conns
      BY Where DEF ConnInv, Take, Holds, InSlot
    <2> QED
      BY <2>1 DEF Take, world, Return, Here, ConnInv, TypeOK
  <1>2. TypeOK /\ CallsFit /\ LocksFit /\ OpeningFits /\ SlotsFit /\ OwnersFit /\ EndsSeen
    BY DEF ConnInv
  <1>3. pc[t] = "busy" /\ call[t].kind \in Receiving /\ call[t].kind # "close" /\ call[t].kind # "send"
        /\ owner[s] = c /\ c \in 1..opened /\ c \in Conns /\ s \in Slots /\ id[c] = s
    BY <1>1, <1>2, OwnConn, Where DEF Holds, InSlot, Receiving
  <1>4. /\ n \in 0..Len(b)
        /\ \/ call[t].kind = "recv" /\ x = << >>
           \/ call[t].kind = "recv_line" /\ Newlines(x) = {}
           \/ call[t].kind = "recv_n" /\ Len(x) < call[t].n
           => eof[t]
    BY <1>1, <1>2, Shares DEF Here
  <1>5. b \in Seq(Bytes) /\ got[c] \in Seq(Bytes) /\ wire[c] \in Seq(Bytes)
    BY <1>2, <1>3, SMTT(40) DEF TypeOK
  <1> HIDE DEF b, n
  <1>6. x \in Seq(Bytes) /\ y \in Seq(Bytes) /\ x \o y = b /\ Len(b) \in Nat
    <2>1. \A i \in 1..Len(b) : b[i] \in Bytes
      BY <1>5, ElementOfSeq
    <2>2. Len(b) \in Nat /\ n \in Nat /\ n <= Len(b)
      BY <1>4, <1>5, LenProperties
    <2>3. x \in Seq(Bytes)
      BY <1>5, <2>1, <2>2, SubSeqProperties
    <2>4. y \in Seq(Bytes)
      BY <1>5, <2>1, <2>2, SubSeqProperties
    <2>5. x \o y = SubSeq(b, 1, Len(b))
      <3>1. 1 \in 1..Len(b) + 1 /\ n \in 1 - 1..Len(b) /\ Len(b) \in n..Len(b)
        BY <2>2
      <3> QED
        BY <1>5, <3>1, ConcatAdjacentSubSeq
    <2>6. SubSeq(b, 1, Len(b)) = b
      BY <1>5, SubSeqFull
    <2> QED
      BY <2>2, <2>3, <2>4, <2>5, <2>6, Zenon
  <1> HIDE DEF x, y, c, s
  <1>7. /\ slot' \in [Slots -> [used : BOOLEAN, fd : {0} \cup Fds, buf : Seq(Bytes)]]
        /\ SameSlots /\ slot'[s].buf = y
        /\ \A i \in Slots \ {s} : slot'[i] = slot[i]
    BY <1>1, <1>2, <1>3, <1>6, SetBuf
  <1>8. got' \in [Conns -> Seq(Bytes)] /\ got'[c] = got[c] \o x /\ \A d \in Conns \ {c} : got'[d] = got[d]
    <2>1. got[c] \o x \in Seq(Bytes)
      BY <1>5, <1>6, ConcatProperties
    <2> QED
      BY <1>1, <1>2, <1>3, <2>1 DEF TypeOK
  <1>9. \A d \in Conns : d > opened => got'[d] = got[d]
    BY <1>2, <1>3, <1>8 DEF TypeOK
  <1>10. /\ CallsFit' /\ LocksFit' /\ SlotsFit' /\ OwnersFit' /\ OpeningFits'
         /\ pc' \in [Tasks -> {"idle", "dialed", "locking", "busy"}]
         /\ call' \in [Tasks -> CallType] /\ eof' \in [Tasks -> BOOLEAN]
         /\ at' \in [Tasks -> Slots] /\ ret' \in [Tasks -> RetType]
         /\ mu' \in [Slots -> {{}} \cup {{u} : u \in Tasks}]
         /\ pc'[t] = "idle" /\ call'[t] = NoCall /\ eof'[t] = FALSE
         /\ ret'[t].call = call[t] /\ ret'[t].bytes = x /\ ret'[t].status = "ok"
         /\ \A u \in Tasks \ {t} : /\ pc'[u] = pc[u] /\ call'[u] = call[u]
                                   /\ eof'[u] = eof[u] /\ ret'[u] = ret[u]
    BY <1>1, <1>2, <1>3, <1>6, <1>7, <1>9, ReturnKept
  <1>11. TypeOK'
    BY <1>1, <1>2, <1>7, <1>8, <1>10 DEF TypeOK
  <1>12. HalvesFit' /\ SendsWhole'
    <2>1. \A u \in Tasks : call'[u] # call[u] => call[u].kind # "send" /\ call'[u].kind # "send"
      BY <1>3, <1>10 DEF NoCall
    <2> QED
      BY <1>1, <2>1, HalvesKept DEF ConnInv
  <1>13. EndsSeen' /\ ShortMeansEnd'
    <2>1. eof[t] => hungup[call[t].conn] /\ wire[call[t].conn] = << >>
      BY <1>2 DEF EndsSeen
    <2> QED
      BY <1>1, <1>2, <1>3, <1>4, <1>10, <2>1, ReturnEnds DEF ConnInv
  <1>14. NothingLost'
    <2> SUFFICES ASSUME NEW d \in (1..opened) \ closed
                 PROVE  sent[d] = got'[d] \o (IF id[d] \in Slots THEN slot'[id[d]].buf ELSE << >>) \o wire[d]
      <3>1. UNCHANGED <<opened, id, sent, wire, closed>>
        BY <1>1
      <3> QED
        BY <3>1 DEF NothingLost
    <2>1. sent[d] = got[d] \o (IF id[d] \in Slots THEN slot[id[d]].buf ELSE << >>) \o wire[d]
      BY DEF ConnInv, NothingLost
    <2>2. d \in Conns
      BY <1>2, Numbers DEF TypeOK, Conns
    <2>3. CASE d = c
      <3> DEFINE g == got[c]
      <3>1. sent[d] = (g \o (x \o y)) \o wire[c]
        BY <1>3, <1>6, <2>1, <2>3 DEF b
      <3>2. got'[d] \o (IF id[d] \in Slots THEN slot'[id[d]].buf ELSE << >>) \o wire[d] = ((g \o x) \o y) \o wire[c]
        BY <1>3, <1>7, <1>8, <2>3
      <3>3. g \in Seq(Bytes)
        BY <1>5
      <3> HIDE DEF g
      <3>4. g \o (x \o y) = (g \o x) \o y
        BY <1>6, <3>3, Assoc3
      <3> QED
        BY <3>1, <3>2, <3>4
    <2>4. CASE d # c
      <3>1. id[d] \in Slots => id[d] # s
        BY <1>2, <1>3, <2>4, Numbers DEF SlotsFit
      <3>2. id[d] \in Slots => slot'[id[d]] = slot[id[d]]
        BY <1>7, <3>1
      <3> QED
        BY <1>8, <2>1, <2>2, <2>4, <3>2
    <2> QED
      BY <2>3, <2>4
  <1> QED
    BY <1>10, <1>11, <1>12, <1>13, <1>14 DEF ConnInv
-----------------------------------------------------------------------------
(* Sending *)

\* Of one connection: its messages are whole, but for those in T.
Whole(o, T) ==
  \A k \in DOMAIN o :
    /\ o[k].half = 2 => k > 1 /\ o[k - 1] = [o[k] EXCEPT !.half = 1]
    /\ o[k].half = 1 /\ k < Len(o) /\ o[k].msg \notin T => o[k + 1] = [o[k] EXCEPT !.half = 2]

LEMMA WholeEach == SendsWhole <=> \A c \in Conns : Whole(out[c], torn)
  BY DEF SendsWhole, Whole

LEMMA WholeNext == ASSUME \A c \in Conns : Whole(out'[c], torn')  PROVE SendsWhole'
  BY DEF SendsWhole, Whole

LEMMA HalvesNext ==
  ASSUME left' = left,
         \A t \in Tasks : call'[t].kind = "send" /\ call'[t].n = 1 =>
           LET o == out'[call'[t].conn] IN o # << >> /\ o[Len(o)] = [msg |-> <<t, left[t]>>, half |-> 1],
         \A c \in Conns : out'[c] # << >> =>
           LET m == out'[c][Len(out'[c])] IN
           m.half = 1 /\ m.msg \notin torn' =>
             \E t \in Tasks : /\ call'[t].kind = "send" /\ call'[t].n = 1 /\ call'[t].conn = c
                              /\ <<t, left[t]>> = m.msg
  PROVE  HalvesFit'
  BY DEF HalvesFit, Message

\* Half a message, put after what is on the connection, is the first or completes one.
LEMMA SendHalves ==
  ASSUME TypeOK, CallsFit, LocksFit, HalvesFit, SendsWhole, UNCHANGED <<left, torn>>,
         NEW t \in Tasks, pc[t] = "busy", call[t].kind = "send",
         NEW c \in Conns, c = call[t].conn,
         out' = [out EXCEPT ![c] = Append(out[c], [msg |-> Message(t), half |-> call[t].n + 1])],
         \A u \in Tasks \ {t} : call'[u] = call[u],
         call[t].n = 0 => call'[t].kind = "send" /\ call'[t].n = 1 /\ call'[t].conn = c,
         call[t].n # 0 => call'[t].kind # "send"
  PROVE  /\ HalvesFit' /\ SendsWhole'
         /\ out' \in [Conns -> Seq([msg : Tasks \X (0..MaxCalls), half : 1..2])]
  <1> DEFINE h == [msg |-> Message(t), half |-> call[t].n + 1]
             H == [msg : Tasks \X (0..MaxCalls), half : 1..2]
             o == out[c]
  <1>1. call[t].n \in {0, 1} /\ \A u \in Tasks : call[u].kind = "send" /\ call[u].n = 1 => pc[u] = "busy"
    BY DEF CallsFit
  <1>2. h \in H /\ h.msg = Message(t) /\ h.half = call[t].n + 1
    BY <1>1 DEF Message, TypeOK
  <1>3. out \in [Conns -> Seq(H)] /\ o \in Seq(H)
    BY DEF TypeOK
  <1>4. \A u \in Tasks : Message(u)' = Message(u)
    BY DEF Message
  <1>5. \A u \in Tasks \ {t} : call[u].kind = "send" /\ call[u].n = 1 => call[u].conn # c /\ call[u].conn \in Conns
    <2> SUFFICES ASSUME NEW u \in Tasks \ {t}, call[u].kind = "send", call[u].n = 1
                 PROVE  call[u].conn # c /\ call[u].conn \in Conns
      OBVIOUS
    <2>1. pc[u] = "busy"
      BY <1>1
    <2> QED
      BY <2>1, OneUser, Where DEF InSlot
  <1>6. call[t].n = 1 => o # << >> /\ o[Len(o)] = [msg |-> Message(t), half |-> 1]
    BY DEF HalvesFit
  <1>7. o # << >> /\ o[Len(o)].half = 1 /\ o[Len(o)].msg \notin torn => call[t].n = 1
    <2> SUFFICES ASSUME o # << >>, o[Len(o)].half = 1, o[Len(o)].msg \notin torn
                 PROVE  call[t].n = 1
      OBVIOUS
    <2>1. PICK u \in Tasks : call[u].kind = "send" /\ call[u].n = 1 /\ call[u].conn = c
      BY DEF HalvesFit
    <2> QED
      BY <1>5, <2>1
  <1> HIDE DEF h, H, o
  <1>8. /\ out' \in [Conns -> Seq(H)] /\ out'[c] = Append(o, h)
        /\ \A d \in Conns \ {c} : out'[d] = out[d]
    <2>1. Append(o, h) \in Seq(H)
      BY <1>2, <1>3, AppendProperties
    <2>2. out' = [out EXCEPT ![c] = Append(o, h)]
      BY DEF o, h
    <2> QED
      BY <1>3, <2>1, <2>2
  <1>9. LET p == Append(o, h) IN
        /\ p # << >> /\ Len(p) = Len(o) + 1 /\ p[Len(p)] = h /\ DOMAIN p = 1..Len(o) + 1
        /\ \A k \in 1..Len(o) : p[k] = o[k]
    BY <1>2, <1>3, AppendProperties, SMTT(40)
  <1>10. Len(o) \in Nat /\ DOMAIN o = 1..Len(o)
    BY <1>3, LenProperties
  <1>11. HalvesFit'
    <2>1. ASSUME NEW u \in Tasks, call'[u].kind = "send", call'[u].n = 1
          PROVE  LET q == out'[call'[u].conn] IN q # << >> /\ q[Len(q)] = [msg |-> Message(u), half |-> 1]
      <3>1. CASE u = t
        <4>1. call[t].n = 0 /\ call'[t].conn = c
          BY <2>1, <3>1
        <4>2. h = [msg |-> Message(t), half |-> 1]
          BY <4>1 DEF h
        <4> QED
          BY <1>8, <1>9, <3>1, <4>1, <4>2
      <3>2. CASE u # t
        <4>1. call[u].conn # c /\ call[u].conn \in Conns /\ call'[u] = call[u]
          BY <1>5, <2>1, <3>2
        <4>2. LET q == out[call[u].conn] IN q # << >> /\ q[Len(q)] = [msg |-> Message(u), half |-> 1]
          BY <2>1, <4>1 DEF HalvesFit
        <4> QED
          BY <1>8, <4>1, <4>2
      <3> QED
        BY <3>1, <3>2
    <2>2. ASSUME NEW d \in Conns, out'[d] # << >>,
                 out'[d][Len(out'[d])].half = 1, out'[d][Len(out'[d])].msg \notin torn
          PROVE  \E u \in Tasks : /\ call'[u].kind = "send" /\ call'[u].n = 1 /\ call'[u].conn = d
                                  /\ Message(u) = out'[d][Len(out'[d])].msg
      <3>1. CASE d = c
        <4>1. call[t].n = 0 /\ out'[d][Len(out'[d])] = h
          BY <1>1, <1>2, <1>8, <1>9, <2>2, <3>1
        <4> QED
          BY <1>2, <3>1, <4>1
      <3>2. CASE d # c
        <4>1. out'[d] = out[d]
          BY <1>8, <3>2
        <4>2. PICK u \in Tasks : /\ call[u].kind = "send" /\ call[u].n = 1 /\ call[u].conn = d
                                 /\ Message(u) = out[d][Len(out[d])].msg
          BY <2>2, <4>1 DEF HalvesFit
        <4>3. call'[u] = call[u]
          BY <3>2, <4>2
        <4> QED
          BY <4>1, <4>2, <4>3
      <3> QED
        BY <3>1, <3>2
    <2> QED
      BY <2>1, <2>2, HalvesNext, Zenon DEF Message
  <1>12. SendsWhole'
    <2>1. \A d \in Conns \ {c} : Whole(out'[d], torn')
      BY <1>8, WholeEach
    <2>2. Whole(Append(o, h), torn)
      <3> DEFINE p == Append(o, h)
      <3>1. Len(p) = Len(o) + 1 /\ p[Len(o) + 1] = h /\ DOMAIN p = 1..Len(o) + 1 /\ \A i \in 1..Len(o) : p[i] = o[i]
        BY <1>9
      <3>2. \A i \in 1..Len(o) :
              /\ o[i].half = 2 => i > 1 /\ o[i - 1] = [o[i] EXCEPT !.half = 1]
              /\ o[i].half = 1 /\ i < Len(o) /\ o[i].msg \notin torn => o[i + 1] = [o[i] EXCEPT !.half = 2]
        BY <1>10, WholeEach DEF Whole, o
      <3> HIDE DEF p
      <3> SUFFICES ASSUME NEW k \in 1..Len(o) + 1
                   PROVE  /\ p[k].half = 2 => k > 1 /\ p[k - 1] = [p[k] EXCEPT !.half = 1]
                          /\ p[k].half = 1 /\ k < Len(p) /\ p[k].msg \notin torn
                               => p[k + 1] = [p[k] EXCEPT !.half = 2]
        BY <3>1 DEF Whole, p
      <3>3. CASE k = Len(o) + 1
        <4>1. h.half = 2 => k > 1 /\ p[k - 1] = [h EXCEPT !.half = 1]
          <5> SUFFICES ASSUME h.half = 2  PROVE k > 1 /\ p[k - 1] = [h EXCEPT !.half = 1]
            OBVIOUS
          <5>1. call[t].n = 1
            BY <1>1, <1>2
          <5>2. o # << >> /\ o[Len(o)] = [msg |-> Message(t), half |-> 1] /\ Len(o) # 0
            BY <1>3, <1>6, <5>1, EmptySeq
          <5>3. k - 1 = Len(o) /\ Len(o) \in 1..Len(o) /\ k > 1
            BY <1>10, <3>3, <5>2
          <5>4. [h EXCEPT !.half = 1] = [msg |-> Message(t), half |-> 1]
            BY DEF h
          <5> QED
            BY <3>1, <5>2, <5>3, <5>4
        <4>2. ~(k < Len(p)) /\ p[k] = h
          BY <1>10, <3>1, <3>3
        <4> QED
          BY <4>1, <4>2
      <3>4. CASE k \in 1..Len(o)
        <4>1. p[k] = o[k]
          BY <3>1, <3>4
        <4>2. o[k].half = 2 => k > 1 /\ p[k - 1] = [o[k] EXCEPT !.half = 1]
          <5>1. k > 1 => k - 1 \in 1..Len(o)
            BY <1>10, <3>4
          <5> QED
            BY <3>1, <3>2, <3>4, <5>1
        <4>3. o[k].half = 1 /\ o[k].msg \notin torn => p[k + 1] = [o[k] EXCEPT !.half = 2]
          <5> SUFFICES ASSUME o[k].half = 1, o[k].msg \notin torn
                       PROVE  p[k + 1] = [o[k] EXCEPT !.half = 2]
            OBVIOUS
          <5>1. CASE k = Len(o)
            <6>1. o # << >>
              BY <1>10, <3>4
            <6>2. call[t].n = 1
              BY <1>7, <5>1, <6>1
            <6>3. o[k] = [msg |-> Message(t), half |-> 1] /\ p[k + 1] = h
              BY <1>6, <3>1, <5>1, <6>2
            <6> QED
              BY <6>2, <6>3 DEF h
          <5>2. CASE k # Len(o)
            <6>1. k < Len(o) /\ k + 1 \in 1..Len(o)
              <7>1. k \in Int /\ Len(o) \in Int /\ k <= Len(o) /\ 1 <= k
                BY <1>10, <3>4
              <7> QED
                BY <5>2, <7>1
            <6> QED
              BY <3>1, <3>2, <3>4, <6>1
          <5> QED
            BY <5>1, <5>2
        <4> QED
          BY <4>1, <4>2, <4>3
      <3> QED
        BY <1>10, <3>3, <3>4
    <2>3. \A d \in Conns : Whole(out'[d], torn')
      BY <1>8, <2>1, <2>2
    <2> QED
      BY <2>3, WholeNext
  <1> QED
    BY <1>8, <1>11, <1>12 DEF H

LEMMA WriteHalfInv ==
  ASSUME ConnInv, NEW t \in Tasks, WriteHalf(t)
  PROVE  ConnInv'
  <1> DEFINE c == call[t].conn
  <1>1. /\ Holds(t, {"send"}) /\ Reads(t) # NoConn
        /\ out' = [out EXCEPT ![Reads(t)] = Writes(t, call[t].n + 1)]
        /\ call[t].n = 0 => call' = [call EXCEPT ![t].n = 1] /\ UNCHANGED <<mu, pc, eof, at, ret, left>>
        /\ call[t].n # 0 => Return(t, << >>, "ok")
        /\ UNCHANGED <<slot, file, opened, id, owner, wire, sent, hungup, left, closed, got, torn>>
    BY DEF WriteHalf, world, Return
  <1>2. TypeOK /\ CallsFit /\ LocksFit /\ OpeningFits /\ SlotsFit /\ OwnersFit
    BY DEF ConnInv
  <1>3. pc[t] = "busy" /\ call[t].kind = "send" /\ call[t].kind # "close" /\ call[t].kind \notin Receiving
        /\ c \in Conns /\ Reads(t) = c /\ ~eof[t]
    BY <1>1, <1>2, OwnConn, Where DEF Holds, InSlot, Receiving, ConnInv, EndsSeen
  <1>4. out' = [out EXCEPT ![c] = Append(out[c], [msg |-> Message(t), half |-> call[t].n + 1])]
    BY <1>1, <1>3 DEF Writes
  <1>5. SameSlots /\ << >> \in Seq(Bytes)
    BY <1>1, EmptySeq DEF SameSlots
  <1> HIDE DEF c
  <1>6. CASE call[t].n = 0
    <2>1. UNCHANGED <<mu, pc, eof, at, ret, left>>
      BY <1>1, <1>6
    <2>2. /\ call' \in [Tasks -> CallType] /\ \A u \in Tasks \ {t} : call'[u] = call[u]
          /\ call'[t].kind = "send" /\ call'[t].n = 1 /\ call'[t].conn = c
      <3>1. call' = [call EXCEPT ![t].n = 1] /\ call \in [Tasks -> CallType]
        BY <1>1, <1>2, <1>6 DEF TypeOK
      <3>2. [call[t] EXCEPT !.n = 1] \in CallType
        BY <3>1 DEF CallType
      <3> QED
        BY <1>3, <3>1, <3>2 DEF CallType, c
    <2>3. /\ HalvesFit' /\ SendsWhole'
          /\ out' \in [Conns -> Seq([msg : Tasks \X (0..MaxCalls), half : 1..2])]
      BY <1>1, <1>2, <1>3, <1>4, <1>6, <2>1, <2>2, SendHalves, ZenonT(60) DEF c, ConnInv
    <2>4. TypeOK'
      BY <1>1, <1>2, <2>1, <2>2, <2>3 DEF TypeOK
    <2>5. CallsFit'
      BY <1>1, <1>2, <1>3, <2>1, <2>2 DEF CallsFit, InSlot, c
    <2>6. LocksFit' /\ OpeningFits'
      <3>1. LocksFit'
        BY <1>2, <2>1 DEF LocksFit
      <3>2. \A u \in Tasks : pc'[u] = "dialed" => pc[u] = "dialed" /\ call'[u] = call[u]
        BY <1>3, <2>1, <2>2
      <3> QED
        BY <1>1, <1>2, <3>1, <3>2, OpeningKept
    <2>7. SlotsFit'
      <3>1. \A u \in Tasks : (call'[u].kind = "close" => call'[u] = call[u])
        BY <2>2
      <3>2. \A u : call[u].kind = "close" /\ u \in Tasks => call'[u] = call[u]
        BY <1>3, <2>2
      <3>3. ASSUME NEW d \in 1..opened, id[d] # MaxConns, NEW u \in mu[id[d]]
            PROVE  u \in Tasks
        <4>1. d \in Conns
          BY <1>2, Numbers DEF TypeOK, Conns
        <4>2. mu[id[d]] \in {{}} \cup {{v} : v \in Tasks}
          BY <1>2, <3>3, <4>1 DEF TypeOK
        <4> QED
          BY <4>2
      <3>4. ASSUME NEW d \in 1..opened, id[d] # MaxConns, owner[id[d]] = d, slot[id[d]].used
            PROVE  \/ file[slot[id[d]].fd] = d
                   \/ \E u \in mu[id[d]] : call'[u].kind = "close" /\ call'[u].n = 1
        BY <1>2, <3>2, <3>3, <3>4 DEF SlotsFit
      <3> QED
        BY <1>1, <1>2, <2>1, <3>1, <3>4 DEF SlotsFit
    <2>8. OwnersFit'
      <3>1. \A u \in Tasks : call'[u].conn = call[u].conn /\ call'[u].kind = call[u].kind
                             /\ (call[u].kind = "close" => call'[u] = call[u])
        BY <1>3, <2>2 DEF c
      <3>2. Opening' = Opening
        BY <2>1 DEF Opening
      <3> SUFFICES ASSUME NEW u \in Tasks, InSlot(u), ~(call'[u].kind = "close" /\ call'[u].n = 2)
                   PROVE  OwnerNext(u, call'[u].conn)
        BY <2>1, OwnersIntro DEF InSlot
      <3>3. ~(call[u].kind = "close" /\ call[u].n = 2)
        BY <3>1
      <3>4. \A d : {v \in Tasks : call'[v].conn = d} = {v \in Tasks : call[v].conn = d}
        BY <3>1
      <3> QED
        BY <1>1, <1>2, <3>1, <3>2, <3>3, <3>4, OwnersElim DEF OwnerNext
    <2>9. EndsSeen' /\ ShortMeansEnd'
      <3>1. \A u \in Tasks : eof[u] => call[u].conn \in Conns
        BY <1>2, Where DEF ConnInv, EndsSeen, InSlot
      <3>2. \A u \in Tasks : eof'[u] => eof[u] /\ pc'[u] = pc[u] /\ call'[u] = call[u]
        BY <1>3, <2>1, <2>2
      <3> QED
        BY <1>1, <2>1, <3>1, <3>2, EndsKept DEF ConnInv
    <2>10. NothingLost'
      BY <1>1, LostKept DEF ConnInv
    <2> QED
      BY <2>3, <2>4, <2>5, <2>6, <2>7, <2>8, <2>9, <2>10 DEF ConnInv
  <1>7. CASE call[t].n # 0
    <2>1. /\ CallsFit' /\ LocksFit' /\ SlotsFit' /\ OwnersFit' /\ OpeningFits'
          /\ pc' \in [Tasks -> {"idle", "dialed", "locking", "busy"}]
          /\ call' \in [Tasks -> CallType] /\ eof' \in [Tasks -> BOOLEAN]
          /\ at' \in [Tasks -> Slots] /\ ret' \in [Tasks -> RetType]
          /\ mu' \in [Slots -> {{}} \cup {{u} : u \in Tasks}]
          /\ pc'[t] = "idle" /\ call'[t] = NoCall /\ eof'[t] = FALSE
          /\ ret'[t].call = call[t] /\ ret'[t].bytes = << >> /\ ret'[t].status = "ok"
          /\ \A u \in Tasks \ {t} : /\ pc'[u] = pc[u] /\ call'[u] = call[u]
                                    /\ eof'[u] = eof[u] /\ ret'[u] = ret[u]
      BY <1>1, <1>2, <1>3, <1>5, <1>7, ReturnKept
    <2>2. /\ HalvesFit' /\ SendsWhole'
          /\ out' \in [Conns -> Seq([msg : Tasks \X (0..MaxCalls), half : 1..2])]
      <3>1. call'[t].kind # "send"
        BY <2>1 DEF NoCall
      <3> QED
        <4>1. c = call[t].conn
          BY DEF c
        <4>2. HalvesFit /\ SendsWhole /\ UNCHANGED <<left, torn>>
          BY <1>1 DEF ConnInv
        <4>3. \A u \in Tasks \ {t} : call'[u] = call[u]
          BY <2>1
        <4> QED
          BY <1>2, <1>3, <1>4, <1>7, <3>1, <4>1, <4>2, <4>3, SendHalves
    <2>3. TypeOK'
      BY <1>1, <1>2, <2>1, <2>2 DEF TypeOK
    <2>4. EndsSeen' /\ ShortMeansEnd'
      BY <1>1, <1>2, <1>3, <2>1, ReturnEnds DEF ConnInv
    <2>5. NothingLost'
      BY <1>1, LostKept DEF ConnInv
    <2> QED
      BY <2>1, <2>2, <2>3, <2>4, <2>5 DEF ConnInv
  <1> QED
    BY <1>6, <1>7

\* A message whose send failed is torn: its first half may stay alone.
LEMMA WriteFailsInv ==
  ASSUME ConnInv, NEW t \in Tasks, WriteFails(t)
  PROVE  ConnInv'
  <1>1. /\ Holds(t, {"send"}) /\ Return(t, << >>, "failed")
        /\ torn' = torn \cup {Message(t)}
        /\ UNCHANGED <<slot, file, opened, id, owner, wire, sent, hungup, out, left, closed, got>>
    BY DEF WriteFails, world, Return
  <1>2. TypeOK /\ CallsFit /\ LocksFit /\ OpeningFits /\ SlotsFit /\ OwnersFit
    BY DEF ConnInv
  <1>3. pc[t] = "busy" /\ call[t].kind = "send" /\ call[t].kind # "close" /\ call[t].kind \notin Receiving
    BY <1>1 DEF Holds, Receiving
  <1>4. SameSlots /\ << >> \in Seq(Bytes)
    BY <1>1, EmptySeq DEF SameSlots
  <1>5. /\ CallsFit' /\ LocksFit' /\ SlotsFit' /\ OwnersFit' /\ OpeningFits'
        /\ pc' \in [Tasks -> {"idle", "dialed", "locking", "busy"}]
        /\ call' \in [Tasks -> CallType] /\ eof' \in [Tasks -> BOOLEAN]
        /\ at' \in [Tasks -> Slots] /\ ret' \in [Tasks -> RetType]
        /\ mu' \in [Slots -> {{}} \cup {{u} : u \in Tasks}]
        /\ pc'[t] = "idle" /\ call'[t] = NoCall /\ eof'[t] = FALSE
        /\ ret'[t].call = call[t] /\ ret'[t].bytes = << >> /\ ret'[t].status = "failed"
        /\ \A u \in Tasks \ {t} : /\ pc'[u] = pc[u] /\ call'[u] = call[u]
                                  /\ eof'[u] = eof[u] /\ ret'[u] = ret[u]
    BY <1>1, <1>2, <1>3, <1>4, ReturnKept
  <1>6. TypeOK'
    BY <1>1, <1>2, <1>5 DEF TypeOK
  <1>7. HalvesFit'
    <2>1. \A u \in Tasks : Message(u)' = Message(u)
      BY <1>1 DEF Message
    <2>2. \A u \in Tasks : call'[u].kind = "send" => call'[u] = call[u]
      BY <1>5 DEF NoCall
    <2>3. ASSUME NEW d \in Conns, out[d] # << >>, out[d][Len(out[d])].half = 1, out[d][Len(out[d])].msg \notin torn'
          PROVE  \E u \in Tasks : /\ call'[u].kind = "send" /\ call'[u].n = 1 /\ call'[u].conn = d
                                  /\ Message(u) = out[d][Len(out[d])].msg
      <3>1. PICK u \in Tasks : /\ call[u].kind = "send" /\ call[u].n = 1 /\ call[u].conn = d
                               /\ Message(u) = out[d][Len(out[d])].msg
        BY <1>1, <2>3 DEF ConnInv, HalvesFit
      <3>2. u # t
        BY <1>1, <2>3, <3>1
      <3> QED
        BY <1>5, <3>1, <3>2
    <2> QED
      BY <1>1, <2>1, <2>2, <2>3 DEF ConnInv, HalvesFit
  <1>8. SendsWhole'
    BY <1>1 DEF ConnInv, SendsWhole
  <1>9. EndsSeen' /\ ShortMeansEnd'
    BY <1>1, <1>2, <1>3, <1>5, ReturnEnds DEF ConnInv
  <1>10. NothingLost'
    BY <1>1, LostKept DEF ConnInv
  <1> QED
    BY <1>5, <1>6, <1>7, <1>8, <1>9, <1>10 DEF ConnInv
-----------------------------------------------------------------------------
(* Closing *)

\* A close moves on without leaving its slot.
LEMMA CloseStep ==
  ASSUME TypeOK, CallsFit, LocksFit, NEW t \in Tasks, pc[t] = "busy", call[t].kind = "close",
         NEW i \in 0..2, call' = [call EXCEPT ![t].n = i],
         UNCHANGED <<mu, opened, id, pc, at, closed>>
  PROVE  /\ call' \in [Tasks -> CallType] /\ call'[t].kind = "close" /\ call'[t].n = i
         /\ \A u \in Tasks \ {t} : call'[u] = call[u]
         /\ \A u \in Tasks : call'[u].conn = call[u].conn /\ call'[u].kind = call[u].kind
         /\ \A s \in Slots : \A u \in mu[s] : u \in Tasks /\ pc[u] = "busy" /\ at[u] = s
         /\ \A d \in 1..opened : d \in Conns /\ (id[d] # MaxConns => id[d] \in Slots)
         /\ CallsFit' /\ LocksFit'
  <1>1. /\ call' \in [Tasks -> CallType] /\ call'[t].kind = "close" /\ call'[t].n = i
        /\ call'[t].conn = call[t].conn
        /\ \A u \in Tasks \ {t} : call'[u] = call[u]
    <2>1. call \in [Tasks -> CallType]
      BY DEF TypeOK
    <2>2. [call[t] EXCEPT !.n = i] \in CallType
      BY <2>1 DEF CallType
    <2> QED
      BY <2>1, <2>2 DEF CallType
  <1>2. \A u \in Tasks : call'[u].conn = call[u].conn /\ call'[u].kind = call[u].kind
    BY <1>1
  <1>3. ASSUME NEW s \in Slots, NEW u \in mu[s]  PROVE u \in Tasks /\ pc[u] = "busy" /\ at[u] = s
    <2>1. mu[s] \in {{}} \cup {{v} : v \in Tasks}
      BY DEF TypeOK
    <2> QED
      BY <1>3, <2>1 DEF LocksFit
  <1>4. \A d \in 1..opened : d \in Conns /\ (id[d] # MaxConns => id[d] \in Slots)
    BY Numbers DEF TypeOK, Conns
  <1>5. CallsFit'
    <2>1. ASSUME NEW u \in Tasks
          PROVE  /\ pc[u] = "idle" => call'[u] = NoCall
                 /\ pc[u] = "dialed" => call'[u].kind = "open"
                 /\ pc[u] # "idle" => call'[u].conn \in 1..opened
                 /\ InSlot(u) => /\ call'[u].kind \in {"send", "close"} \cup Receiving
                                 /\ id[call'[u].conn] = at[u] /\ (call'[u].kind = "close" => call'[u].conn \in closed)
                 /\ call'[u].kind \in {"send", "close"} => /\ call'[u].n \in 0..2
                                                           /\ (call'[u].n > 0 => pc[u] = "busy")
                                                           /\ (call'[u].kind = "send" => call'[u].n < 2)
                 /\ call'[u].kind \in {"recv", "recv_n"} => call'[u].n > 0
      <3>1. CASE u = t
        BY <1>1, <3>1 DEF CallsFit, InSlot
      <3>2. CASE u # t
        BY <1>1, <3>2 DEF CallsFit
      <3> QED
        BY <3>1, <3>2
    <2> QED
      BY <2>1 DEF CallsFit, InSlot
  <1>6. LocksFit'
    BY DEF LocksFit
  <1> QED
    BY <1>1, <1>2, <1>3, <1>4, <1>5, <1>6

\* The descriptor is closed: it was the connection's own.
LEMMA CloseFileInv ==
  ASSUME ConnInv, NEW t \in Tasks, CloseFile(t)
  PROVE  ConnInv'
  <1> DEFINE c == call[t].conn
             s == at[t]
             fd == slot[s].fd
  <1>1. /\ Holds(t, {"close"}) /\ slot[s].used /\ call[t].n = 0
        /\ file' = [file EXCEPT ![fd] = NoConn] /\ call' = [call EXCEPT ![t].n = 1]
        /\ UNCHANGED <<slot, mu, opened, id, owner, wire, sent, hungup, out, pc, eof, at, ret, left, closed, got, torn>>
    BY DEF CloseFile, Here, world
  <1>2. TypeOK /\ CallsFit /\ LocksFit /\ OpeningFits /\ SlotsFit /\ OwnersFit
    BY DEF ConnInv
  <1>3. /\ pc[t] = "busy" /\ call[t].kind = "close" /\ c \in Conns /\ c \in 1..opened /\ c \in closed
        /\ s \in Slots /\ id[c] = s /\ mu[s] = {t} /\ InSlot(t)
    BY <1>1, <1>2, Where DEF Holds, InSlot, CallsFit
  <1>4. owner[s] = c /\ file[fd] \in {c, NoConn}
    <2>1. ~(call[t].kind = "close" /\ call[t].n = 2) /\ ~(call[t].kind = "close" /\ call[t].n > 0)
      BY <1>1
    <2> QED
      BY <1>2, <1>3, <2>1, OwnersElim
  <1>5. fd \in Fds /\ c # NoConn
    <2>1. c # NoConn
      BY <1>3, Numbers
    <2> QED
      BY <1>2, <1>3, <1>4, <2>1 DEF SlotsFit
  <1>6. /\ call' \in [Tasks -> CallType] /\ call'[t].kind = "close" /\ call'[t].n = 1
        /\ \A u \in Tasks \ {t} : call'[u] = call[u]
        /\ \A u \in Tasks : call'[u].conn = call[u].conn /\ call'[u].kind = call[u].kind
        /\ \A k \in Slots : \A u \in mu[k] : u \in Tasks /\ pc[u] = "busy" /\ at[u] = k
        /\ \A d \in 1..opened : d \in Conns /\ (id[d] # MaxConns => id[d] \in Slots)
        /\ CallsFit' /\ LocksFit'
    <2>1. UNCHANGED <<mu, opened, id, pc, at, closed>>
      BY <1>1
    <2>2. call' = [call EXCEPT ![t].n = 1] /\ 1 \in 0..2
      BY <1>1
    <2>3. pc[t] = "busy" /\ call[t].kind = "close"
      BY <1>3
    <2> QED
      BY <1>2, <2>1, <2>2, <2>3, CloseStep
  <1>7. file'[fd] = NoConn /\ \A f \in Fds \ {fd} : file'[f] = file[f]
    BY <1>1, <1>2, <1>5 DEF TypeOK
  <1>8. \A d \in 1..opened : d # c /\ d # NoConn => \A f \in Fds : file[f] = d => file'[f] = d
    BY <1>4, <1>7
  <1>9. \A d \in 1..opened : d # NoConn /\ \A f \in Fds : file'[f] = d => file[f] = d
    BY <1>7, Numbers DEF NoConn
  <1> HIDE DEF c, s, fd
  <1>10. TypeOK'
    <2>1. file' \in [Fds -> Conns \cup {NoConn}] /\ \A f, g \in Fds : file'[f] = file'[g] => f = g \/ file'[f] = NoConn
      BY <1>1, <1>2, <1>7 DEF TypeOK
    <2> QED
      BY <1>1, <1>2, <1>6, <2>1 DEF TypeOK
  <1>11. OpeningFits'
    <2>1. ASSUME NEW d \in 1..opened, id[d] = MaxConns  PROVE d \notin closed /\ \E f \in Fds : file'[f] = d
      <3>1. d # c /\ d # NoConn
        BY <1>3, <2>1, Numbers DEF NoConn
      <3> QED
        BY <1>2, <1>8, <2>1, <3>1 DEF OpeningFits
    <2>2. \A f \in Fds : file'[f] <= opened
      BY <1>2, <1>5, <1>7, Numbers DEF OpeningFits, NoConn, TypeOK
    <2>3. ASSUME NEW u \in Tasks, pc[u] = "dialed"
          PROVE  id[call'[u].conn] = MaxConns /\ \A v \in Tasks \ {u} : pc[v] = "dialed" => call'[v].conn # call'[u].conn
      BY <1>2, <1>6, <2>3 DEF OpeningFits
    <2> QED
      BY <1>1, <1>2, <2>1, <2>2, <2>3 DEF OpeningFits
  <1>12. SlotsFit'
    <2>1. ASSUME NEW d \in 1..opened, id[d] # MaxConns, owner[id[d]] = d, slot[id[d]].used
          PROVE  \/ file'[slot[id[d]].fd] = d
                 \/ \E u \in mu[id[d]] : call'[u].kind = "close" /\ call'[u].n = 1
      <3>1. CASE d = c
        BY <1>3, <1>6, <3>1
      <3>2. CASE d # c
        <4>1. slot[id[d]].fd \in Fds /\ id[d] \in Slots
          BY <1>2, <1>6, <1>9, <2>1 DEF SlotsFit
        <4>2. CASE file[slot[id[d]].fd] = d
          BY <1>8, <1>9, <3>2, <4>1, <4>2
        <4>3. CASE \E u \in mu[id[d]] : call[u].kind = "close" /\ call[u].n = 1
          BY <1>1, <1>6, <4>1, <4>3
        <4> QED
          BY <1>2, <2>1, <4>2, <4>3 DEF SlotsFit
      <3> QED
        BY <3>1, <3>2
    <2>2. ASSUME NEW d \in (1..opened) \ closed, id[d] # MaxConns
          PROVE  owner[id[d]] = d /\ slot[id[d]].used /\ file'[slot[id[d]].fd] = d
      <3>1. d # c /\ d # NoConn /\ owner[id[d]] = d /\ slot[id[d]].used /\ file[slot[id[d]].fd] = d /\ id[d] \in Slots
        BY <1>2, <1>3, <1>6, <1>9, <2>2 DEF SlotsFit
      <3>2. slot[id[d]].fd \in Fds
        BY <1>2, <3>1 DEF SlotsFit
      <3> QED
        BY <1>8, <3>1, <3>2
    <2>3. \A f \in Fds : \A d \in 1..opened : file'[f] = d /\ id[d] # MaxConns =>
            owner[id[d]] = d /\ slot[id[d]].used /\ slot[id[d]].fd = f
      BY <1>2, <1>9 DEF SlotsFit
    <2>4. ASSUME NEW u \in Tasks, call'[u].kind = "close", call'[u].n = 1
          PROVE  slot[at[u]].used /\ \A f \in Fds : file'[f] # call'[u].conn
      <3>1. CASE u = t
        <4>1. \A f \in Fds : file[f] = c => f = fd
          <5>1. id[c] # MaxConns /\ fd = slot[id[c]].fd
            BY <1>3, Numbers DEF fd, s
          <5> QED
            BY <1>2, <1>3, <5>1 DEF SlotsFit
        <4>2. \A f \in Fds : file'[f] # c
          BY <1>3, <1>5, <1>7, <4>1
        <4> QED
          BY <1>1, <1>6, <3>1, <4>2 DEF c, s
      <3>2. CASE u # t
        <4>1. call'[u] = call[u] /\ slot[at[u]].used /\ \A f \in Fds : file[f] # call[u].conn
          BY <1>2, <1>6, <2>4, <3>2 DEF SlotsFit
        <4>2. call[u].conn \in 1..opened
          BY <1>2, <2>4, <4>1 DEF CallsFit
        <4> QED
          BY <1>9, <4>1, <4>2
      <3> QED
        BY <3>1, <3>2
    <2> QED
      BY <1>1, <1>2, <2>1, <2>2, <2>3, <2>4 DEF SlotsFit
  <1>13. OwnersFit'
    <2> SUFFICES ASSUME NEW u \in Tasks, InSlot(u), ~(call'[u].kind = "close" /\ call'[u].n = 2)
                 PROVE  OwnerNext(u, call'[u].conn)
      BY <1>1, OwnersIntro DEF InSlot
    <2> DEFINE d == call[u].conn
    <2>1. CASE u = t
      BY <1>1, <1>3, <1>4, <1>6, <2>1 DEF OwnerNext, c
    <2>2. CASE u # t
      <3>1. call'[u] = call[u] /\ Opening' = Opening
        BY <1>1, <1>6, <2>2 DEF Opening
      <3>2. /\ owner[id[d]] = d
            /\ ~TearsDown(u) => file[slot[id[d]].fd] \in {d, NoConn}
            /\ ~TearsDown(u) /\ Opening /\ d \in closed =>
                 {v \in Tasks : call[v].conn = d} = {u} /\ slot[id[d]].used /\ file[slot[id[d]].fd] = d
        BY <1>2, <3>1, OwnersElim DEF TearsDown
      <3>3. d \in 1..opened /\ id[d] \in Slots
        BY <1>2, Where
      <3>4. slot[id[d]].fd \in Fds /\ d # NoConn
        BY <1>2, <1>9, <3>2, <3>3 DEF SlotsFit
      <3>5. {v \in Tasks : call'[v].conn = d} = {v \in Tasks : call[v].conn = d}
        BY <1>6
      <3>6. {v \in Tasks : call[v].conn = d} = {u} => d # c
        BY <2>2 DEF c
      <3> HIDE DEF d
      <3>7. ~TearsDown(u) => file'[slot[id[d]].fd] \in {d, NoConn}
        BY <1>7, <3>2, <3>4
      <3>8. ~TearsDown(u) /\ Opening /\ d \in closed => file'[slot[id[d]].fd] = d
        BY <1>8, <3>2, <3>3, <3>4, <3>6
      <3>9. call'[u].conn = d
        BY <3>1 DEF d
      <3> QED
        BY <1>1, <3>1, <3>2, <3>5, <3>7, <3>8, <3>9 DEF OwnerNext, TearsDown
    <2> QED
      BY <2>1, <2>2
  <1>14. HalvesFit' /\ SendsWhole'
    BY <1>1, <1>3, <1>6, HalvesKept DEF ConnInv
  <1>15. EndsSeen' /\ ShortMeansEnd'
    <2>1. \A u \in Tasks : eof[u] => call[u].conn \in Conns
      BY <1>2, Where DEF ConnInv, EndsSeen, InSlot
    <2>2. \A u \in Tasks : eof'[u] => eof[u] /\ pc'[u] = pc[u] /\ call'[u] = call[u]
      <3>1. ~eof[t]
        BY <1>3 DEF ConnInv, EndsSeen, Receiving
      <3> QED
        BY <1>1, <1>6, <3>1
    <2> QED
      BY <1>1, <2>1, <2>2, EndsKept DEF ConnInv
  <1>16. NothingLost'
    BY <1>1, LostKept DEF ConnInv
  <1> QED
    BY <1>6, <1>10, <1>11, <1>12, <1>13, <1>14, <1>15, <1>16 DEF ConnInv

\* The slot is given back: nobody else finds his connection there any more.
LEMMA CloseSlotInv ==
  ASSUME ConnInv, NEW t \in Tasks, CloseSlot(t)
  PROVE  ConnInv'
  <1> DEFINE c == call[t].conn
             s == at[t]
  <1>1. /\ Holds(t, {"close"}) /\ call[t].n = 1
        /\ slot' = [slot EXCEPT ![s].used = FALSE, ![s].buf = << >>]
        /\ call' = [call EXCEPT ![t].n = 2]
        /\ UNCHANGED <<mu, file, opened, id, owner, wire, sent, hungup, out, pc, eof, at, ret, left, closed, got, torn>>
    BY DEF CloseSlot, world
  <1>2. TypeOK /\ CallsFit /\ LocksFit /\ OpeningFits /\ SlotsFit /\ OwnersFit
    BY DEF ConnInv
  <1>3. /\ pc[t] = "busy" /\ call[t].kind = "close" /\ c \in Conns /\ c \in 1..opened /\ c \in closed
        /\ s \in Slots /\ id[c] = s /\ mu[s] = {t} /\ InSlot(t)
    BY <1>1, <1>2, Where DEF Holds, InSlot, CallsFit
  <1>4. owner[s] = c /\ slot[s].used /\ \A f \in Fds : file[f] # c
    <2>1. ~(call[t].kind = "close" /\ call[t].n = 2)
      BY <1>1
    <2>2. owner[s] = c
      BY <1>2, <1>3, <2>1, OwnersElim
    <2> QED
      BY <1>1, <1>2, <1>3, <2>2 DEF SlotsFit
  <1>5. /\ call' \in [Tasks -> CallType] /\ call'[t].kind = "close" /\ call'[t].n = 2
        /\ \A u \in Tasks \ {t} : call'[u] = call[u]
        /\ \A u \in Tasks : call'[u].conn = call[u].conn /\ call'[u].kind = call[u].kind
        /\ \A k \in Slots : \A u \in mu[k] : u \in Tasks /\ pc[u] = "busy" /\ at[u] = k
        /\ \A d \in 1..opened : d \in Conns /\ (id[d] # MaxConns => id[d] \in Slots)
        /\ CallsFit' /\ LocksFit'
    <2>1. UNCHANGED <<mu, opened, id, pc, at, closed>>
      BY <1>1
    <2>2. call' = [call EXCEPT ![t].n = 2] /\ 2 \in 0..2
      BY <1>1
    <2>3. pc[t] = "busy" /\ call[t].kind = "close"
      BY <1>3
    <2> QED
      BY <1>2, <2>1, <2>2, <2>3, CloseStep
  <1>6. /\ slot' \in [Slots -> [used : BOOLEAN, fd : {0} \cup Fds, buf : Seq(Bytes)]]
        /\ slot'[s].used = FALSE /\ slot'[s].fd = slot[s].fd
        /\ \A k \in Slots \ {s} : slot'[k] = slot[k]
    <2> DEFINE r == [slot[s] EXCEPT !.used = FALSE, !.buf = << >>]
    <2>1. slot \in [Slots -> [used : BOOLEAN, fd : {0} \cup Fds, buf : Seq(Bytes)]]
      BY <1>2 DEF TypeOK
    <2>2. slot' = [slot EXCEPT ![s] = r]
      BY <1>1, <1>3, <2>1
    <2>3. r \in [used : BOOLEAN, fd : {0} \cup Fds, buf : Seq(Bytes)] /\ r.used = FALSE /\ r.fd = slot[s].fd
      BY <1>3, <2>1, EmptySeq
    <2> HIDE DEF r, s
    <2>4. slot'[s] = r /\ \A k \in Slots \ {s} : slot'[k] = slot[k]
      BY <1>3, <2>1, <2>2
    <2> QED
      BY <1>3, <2>1, <2>2, <2>3, <2>4
  <1>7. \A d \in 1..opened : d # c => (owner[id[d]] = d => id[d] # s)
    BY <1>4
  <1> HIDE DEF c, s
  <1>8. TypeOK'
    <2>1. UNCHANGED <<mu, file, opened, id, owner, wire, sent, hungup, out, pc, eof, at, ret, left, closed, got>>
      BY <1>1
    <2> QED
      BY <1>2, <1>5, <1>6, <2>1, ZenonT(60) DEF TypeOK
  <1>9. OpeningFits'
    <2>1. \A u \in Tasks : pc'[u] = "dialed" => pc[u] = "dialed" /\ call'[u] = call[u]
      BY <1>1, <1>3, <1>5
    <2> QED
      BY <1>1, <1>2, <2>1, OpeningKept
  <1>10. SlotsFit'
    <2>1. \A k \in Slots : slot'[k].used => slot[k].used /\ k # s
      BY <1>6
    <2>2. ASSUME NEW d \in 1..opened, id[d] # MaxConns, owner[id[d]] = d, slot'[id[d]].used
          PROVE  \/ file[slot'[id[d]].fd] = d
                 \/ \E u \in mu[id[d]] : call'[u].kind = "close" /\ call'[u].n = 1
      <3>1. id[d] \in Slots /\ id[d] # s /\ slot'[id[d]] = slot[id[d]]
        BY <1>5, <1>6, <2>1, <2>2
      <3>2. \A u \in mu[id[d]] : call'[u] = call[u]
        BY <1>5, <3>1 DEF s
      <3> QED
        BY <1>2, <2>2, <3>1, <3>2 DEF SlotsFit
    <2>3. ASSUME NEW f \in Fds, NEW d \in 1..opened, file[f] = d, id[d] # MaxConns
          PROVE  owner[id[d]] = d /\ slot'[id[d]].used /\ slot'[id[d]].fd = f
      <3>1. d # c /\ owner[id[d]] = d /\ slot[id[d]].used /\ slot[id[d]].fd = f /\ id[d] \in Slots
        BY <1>2, <1>4, <1>5, <2>3 DEF SlotsFit
      <3> QED
        BY <1>6, <1>7, <3>1
    <2>4. ASSUME NEW d \in (1..opened) \ closed, id[d] # MaxConns
          PROVE  owner[id[d]] = d /\ slot'[id[d]].used /\ file[slot'[id[d]].fd] = d
      <3>1. d # c /\ owner[id[d]] = d /\ slot[id[d]].used /\ file[slot[id[d]].fd] = d /\ id[d] \in Slots
        BY <1>2, <1>3, <1>5, <2>4 DEF SlotsFit
      <3> QED
        BY <1>6, <1>7, <3>1
    <2>5. ASSUME NEW u \in Tasks, call'[u].kind = "close", call'[u].n = 1
          PROVE  slot'[at[u]].used /\ \A f \in Fds : file[f] # call'[u].conn
      <3>1. u # t /\ call'[u] = call[u]
        BY <1>5, <2>5
      <3>2. slot[at[u]].used /\ (\A f \in Fds : file[f] # call[u].conn) /\ pc[u] = "busy" /\ at[u] \in Slots
        BY <1>2, <2>5, <3>1 DEF SlotsFit, CallsFit, TypeOK
      <3>3. at[u] # s
        BY <1>2, <1>3, <3>1, <3>2, Alone DEF s
      <3> QED
        BY <1>6, <3>1, <3>2, <3>3
    <2>6. \A k \in Slots : slot'[k].fd = slot[k].fd
      BY <1>6, SMTT(40)
    <2> QED
      <3>1. UNCHANGED <<mu, file, opened, id, owner, at, closed>>
        BY <1>1
      <3>2. /\ \A k \in Slots : slot'[k].used => owner[k] \in 1..opened
            /\ \A k \in Slots : owner[k] # NoConn => id[owner[k]] = k /\ slot'[k].fd \in Fds
        BY <1>2, <2>1, <2>6 DEF SlotsFit
      <3> QED
        BY <2>2, <2>3, <2>4, <2>5, <3>1, <3>2 DEF SlotsFit
  <1>11. OwnersFit'
    <2> SUFFICES ASSUME NEW u \in Tasks, InSlot(u), ~(call'[u].kind = "close" /\ call'[u].n = 2)
                 PROVE  OwnerNext(u, call'[u].conn)
      BY <1>1, OwnersIntro DEF InSlot
    <2> DEFINE d == call[u].conn
    <2>1. u # t
      BY <1>5
    <2>2. call'[u] = call[u] /\ Opening' = Opening
      BY <1>1, <1>5, <2>1 DEF Opening
    <2>3. /\ owner[id[d]] = d
          /\ ~TearsDown(u) => file[slot[id[d]].fd] \in {d, NoConn}
          /\ ~TearsDown(u) /\ Opening /\ d \in closed =>
               {v \in Tasks : call[v].conn = d} = {u} /\ slot[id[d]].used /\ file[slot[id[d]].fd] = d
      BY <1>2, <2>2, OwnersElim DEF TearsDown
    <2>4. d \in 1..opened /\ id[d] \in Slots
      BY <1>2, Where
    <2>5. {v \in Tasks : call'[v].conn = d} = {v \in Tasks : call[v].conn = d}
      BY <1>5
    <2>6. {v \in Tasks : call[v].conn = d} = {u} => d # c
      BY <2>1 DEF c
    <2> HIDE DEF d
    <2>7. slot'[id[d]].fd = slot[id[d]].fd /\ (d # c => slot'[id[d]] = slot[id[d]])
      BY <1>6, <1>7, <2>3, <2>4
    <2>8. call'[u].conn = d
      BY <2>2 DEF d
    <2> QED
      BY <1>1, <2>2, <2>3, <2>5, <2>6, <2>7, <2>8, ZenonT(60) DEF OwnerNext, TearsDown
  <1>12. HalvesFit' /\ SendsWhole'
    BY <1>1, <1>3, <1>5, HalvesKept DEF ConnInv
  <1>13. EndsSeen' /\ ShortMeansEnd'
    <2>1. \A u \in Tasks : eof[u] => call[u].conn \in Conns
      BY <1>2, Where DEF ConnInv, EndsSeen, InSlot
    <2>2. \A u \in Tasks : eof'[u] => eof[u] /\ pc'[u] = pc[u] /\ call'[u] = call[u]
      <3>1. ~eof[t]
        BY <1>3 DEF ConnInv, EndsSeen, Receiving
      <3> QED
        BY <1>1, <1>5, <3>1
    <2> QED
      BY <1>1, <2>1, <2>2, EndsKept DEF ConnInv
  <1>14. NothingLost'
    <2>1. ASSUME NEW d \in (1..opened) \ closed, id[d] \in Slots  PROVE slot'[id[d]] = slot[id[d]]
      <3>1. d # c /\ owner[id[d]] = d
        BY <1>2, <1>3, <2>1, Numbers DEF SlotsFit
      <3> QED
        BY <1>6, <1>7, <2>1, <3>1
    <2> QED
      BY <1>1, <2>1, LostKept DEF ConnInv
  <1> QED
    BY <1>5, <1>8, <1>9, <1>10, <1>11, <1>12, <1>13, <1>14 DEF ConnInv

\* A close lets go of the lock, whether it has closed or another had before it.
LEMMA CloseReturnInv ==
  ASSUME ConnInv, NEW t \in Tasks, CloseEnd(t) \/ CloseLate(t)
  PROVE  ConnInv'
  <1>1. /\ Holds(t, {"close"}) /\ Return(t, << >>, "ok") /\ call[t].n \in {0, 2}
        /\ UNCHANGED <<slot, file, opened, id, owner, wire, sent, hungup, out, left, closed, got, torn>>
    BY DEF CloseEnd, CloseLate, world, Return
  <1>2. TypeOK /\ CallsFit /\ LocksFit /\ OpeningFits /\ SlotsFit /\ OwnersFit
    BY DEF ConnInv
  <1>3. pc[t] = "busy" /\ call[t].kind = "close" /\ ~(call[t].kind = "close" /\ call[t].n = 1)
        /\ call[t].kind # "send" /\ call[t].kind \notin Receiving
    BY <1>1 DEF Holds, Receiving
  <1>4. SameSlots /\ << >> \in Seq(Bytes)
    BY <1>1, EmptySeq DEF SameSlots
  <1>5. /\ CallsFit' /\ LocksFit' /\ SlotsFit' /\ OwnersFit' /\ OpeningFits'
        /\ pc' \in [Tasks -> {"idle", "dialed", "locking", "busy"}]
        /\ call' \in [Tasks -> CallType] /\ eof' \in [Tasks -> BOOLEAN]
        /\ at' \in [Tasks -> Slots] /\ ret' \in [Tasks -> RetType]
        /\ mu' \in [Slots -> {{}} \cup {{u} : u \in Tasks}]
        /\ pc'[t] = "idle" /\ call'[t] = NoCall /\ eof'[t] = FALSE
        /\ ret'[t].call = call[t] /\ ret'[t].bytes = << >> /\ ret'[t].status = "ok"
        /\ \A u \in Tasks \ {t} : /\ pc'[u] = pc[u] /\ call'[u] = call[u]
                                  /\ eof'[u] = eof[u] /\ ret'[u] = ret[u]
    BY <1>1, <1>2, <1>3, <1>4, ReturnKept
  <1>6. TypeOK'
    BY <1>1, <1>2, <1>5 DEF TypeOK
  <1>7. HalvesFit' /\ SendsWhole'
    <2>1. \A u \in Tasks : call'[u] # call[u] => call[u].kind # "send" /\ call'[u].kind # "send"
      BY <1>3, <1>5 DEF NoCall
    <2> QED
      BY <1>1, <2>1, HalvesKept DEF ConnInv
  <1>8. EndsSeen' /\ ShortMeansEnd'
    BY <1>1, <1>2, <1>3, <1>5, ReturnEnds DEF ConnInv
  <1>9. NothingLost'
    BY <1>1, LostKept DEF ConnInv
  <1> QED
    BY <1>5, <1>6, <1>7, <1>8, <1>9 DEF ConnInv
-----------------------------------------------------------------------------
(* The theorems *)

LEMMA InitConnInv == Init => ConnInv
  <1> SUFFICES ASSUME Init  PROVE ConnInv
    OBVIOUS
  <1>1. \A t \in Tasks : pc[t] = "idle" /\ call[t] = NoCall /\ ret[t] = NoRet /\ eof[t] = FALSE
    BY DEF Init
  <1>2. \A c \in Conns : id[c] = MaxConns /\ wire[c] = << >> /\ sent[c] = << >> /\ got[c] = << >> /\ out[c] = << >>
    BY DEF Init
  <1>3. opened = 0 /\ closed = {} /\ 1..opened = {} /\ (1..opened) \ closed = {}
    BY DEF Init
  <1>4. \A s \in Slots : slot[s].used = FALSE /\ owner[s] = NoConn /\ mu[s] = {}
    BY DEF Init
  <1>5. TypeOK
    <2>1. slot \in [Slots -> [used : BOOLEAN, fd : {0} \cup Fds, buf : Seq(Bytes)]]
      BY EmptySeq DEF Init
    <2>2. NoCall \in CallType /\ NoRet \in RetType
      BY EmptySeq DEF NoCall, NoRet, Ret, CallType, RetType, Kinds
    <2>3. /\ mu \in [Slots -> {{}} \cup {{t} : t \in Tasks}] /\ file \in [Fds -> Conns \cup {NoConn}]
          /\ \A f, g \in Fds : file[f] = file[g] => f = g \/ file[f] = NoConn
          /\ owner \in [Slots -> Conns \cup {NoConn}] /\ closed \subseteq 1..opened
          /\ hungup \in [Conns -> BOOLEAN] /\ eof \in [Tasks -> BOOLEAN]
          /\ pc \in [Tasks -> {"idle", "dialed", "locking", "busy"}]
          /\ id \in [Conns -> Slots \cup {MaxConns}]
      BY DEF Init
    <2>4. opened \in 0..MaxConns /\ left \in [Tasks -> 0..MaxCalls] /\ at \in [Tasks -> Slots]
      BY Numbers DEF Init
    <2>5. /\ wire \in [Conns -> Seq(Bytes)] /\ sent \in [Conns -> Seq(Bytes)] /\ got \in [Conns -> Seq(Bytes)]
          /\ out \in [Conns -> Seq([msg : Tasks \X (0..MaxCalls), half : 1..2])]
      <3>1. << >> \in Seq(Bytes) /\ << >> \in Seq([msg : Tasks \X (0..MaxCalls), half : 1..2])
        BY EmptySeq
      <3> QED
        BY <3>1 DEF Init
    <2>6. call \in [Tasks -> CallType] /\ ret \in [Tasks -> RetType]
      BY <2>2 DEF Init
    <2> QED
      BY <2>1, <2>3, <2>4, <2>5, <2>6 DEF TypeOK
  <1>6. CallsFit
    BY <1>1 DEF CallsFit, InSlot, NoCall
  <1>7. LocksFit
    BY <1>1, <1>4 DEF LocksFit
  <1>8. OpeningFits
    <2>1. \A f \in Fds : file[f] <= opened
      BY <1>3 DEF Init, NoConn
    <2> QED
      BY <1>1, <1>2, <1>3, <2>1 DEF OpeningFits
  <1>9. SlotsFit
    BY <1>1, <1>3, <1>4 DEF SlotsFit, NoCall
  <1>10. OwnersFit
    BY <1>1 DEF OwnersFit, InSlot
  <1>11. EndsSeen
    BY <1>1 DEF EndsSeen, NoRet, Ret, NoCall
  <1>12. HalvesFit
    BY <1>1, <1>2 DEF HalvesFit, NoCall
  <1>13. NothingLost
    BY <1>3 DEF NothingLost
  <1>14. ShortMeansEnd
    BY <1>1 DEF ShortMeansEnd, NoRet, Ret, NoCall, Receiving
  <1>15. SendsWhole
    BY <1>2 DEF SendsWhole
  <1> QED
    BY <1>5, <1>6, <1>7, <1>8, <1>9, <1>10, <1>11, <1>12, <1>13, <1>14, <1>15 DEF ConnInv

LEMMA StutterConnInv == ConnInv /\ UNCHANGED vars => ConnInv'
  <1> SUFFICES ASSUME ConnInv, UNCHANGED vars  PROVE ConnInv'
    OBVIOUS
  <1>1. UNCHANGED <<slot, mu, file, opened, id, wire, sent, hungup, out, pc, call, eof, at, ret, left, owner, closed, got, torn>>
    BY DEF vars, world, locals
  <1>2. TypeOK'
    BY <1>1 DEF ConnInv, TypeOK
  <1>3. CallsFit' /\ LocksFit' /\ SlotsFit' /\ OwnersFit'
    BY <1>1, TableKept DEF ConnInv, table
  <1>4. OpeningFits'
    BY <1>1, OpeningKept DEF ConnInv
  <1>5. EndsSeen' /\ HalvesFit'
    BY <1>1 DEF ConnInv, EndsSeen, HalvesFit, Message
  <1>6. NothingLost' /\ SendsWhole'
    BY <1>1 DEF ConnInv, NothingLost, SendsWhole
  <1>7. ShortMeansEnd'
    BY <1>1 DEF ConnInv, ShortMeansEnd, Newlines
  <1> QED
    BY <1>2, <1>3, <1>4, <1>5, <1>6, <1>7 DEF ConnInv

\* What a call is made with.
LEMMA CallCases ==
  ASSUME NEW t \in Tasks, Calls(t)
  PROVE  \/ Dial(t)
         \/ \E c \in Conns : \E kind, n : CallArgs(kind, n) /\ (Lookup(t, kind, c, n) \/ NotFound(t, kind, c, n))
  BY DEF Calls, CallArgs

LEMMA NextConnInv ==
  ASSUME ConnInv, ~Stale, Next
  PROVE  ConnInv'
  <1>1. ASSUME NEW c \in Conns, PeerSends(c)  PROVE ConnInv'
    BY <1>1, PeerSendsInv
  <1>2. ASSUME NEW c \in Conns, PeerCloses(c)  PROVE ConnInv'
    BY <1>2, PeerClosesInv
  <1>3. ASSUME NEW t \in Tasks, Dial(t)  PROVE ConnInv'
    BY <1>3, DialInv
  <1>4. ASSUME NEW t \in Tasks, NEW c \in Conns, NEW kind, NEW n, CallArgs(kind, n), Lookup(t, kind, c, n)
        PROVE  ConnInv'
    BY <1>4, LookupInv
  <1>5. ASSUME NEW t \in Tasks, NEW c \in Conns, NEW kind, NEW n, CallArgs(kind, n), NotFound(t, kind, c, n)
        PROVE  ConnInv'
    BY <1>5, NotFoundInv
  <1>6. ASSUME NEW t \in Tasks, Goes(t)  PROVE ConnInv'
    <2>1. CASE New(t)
      BY <2>1, NewInv
    <2>2. CASE Lock(t)
      BY <2>2, LockInv
    <2>3. CASE FillSome(t)
      BY <2>3, FillSomeInv
    <2>4. CASE FillEnd(t)
      BY <2>4, FillEndInv
    <2>5. CASE FillFails(t)
      BY <2>5, FillFailsInv
    <2>6. CASE Take(t)
      BY <2>6, TakeInv
    <2>7. CASE WriteHalf(t)
      BY <2>7, WriteHalfInv
    <2>8. CASE WriteFails(t)
      BY <2>8, WriteFailsInv
    <2>9. CASE CloseFile(t)
      BY <2>9, CloseFileInv
    <2>10. CASE CloseSlot(t)
      BY <2>10, CloseSlotInv
    <2>11. CASE CloseEnd(t) \/ CloseLate(t)
      BY <2>11, CloseReturnInv
    <2> QED
      BY <1>6, <2>1, <2>2, <2>3, <2>4, <2>5, <2>6, <2>7, <2>8, <2>9, <2>10, <2>11 DEF Goes
  <1>7. ASSUME NEW t \in Tasks, Calls(t)  PROVE ConnInv'
    BY <1>3, <1>4, <1>5, <1>7, CallCases
  <1> QED
    BY <1>1, <1>2, <1>6, <1>7 DEF Next, Peer

\* Of programs that leave a closed connection alone while a slot or descriptor
\* of its is another's: the invariant holds of every state.
THEOREM Inductive == ASSUME ~Stale  PROVE Spec => []ConnInv
  <1>1. ConnInv /\ [Next]_vars => ConnInv'
    BY NextConnInv, StutterConnInv
  <1> QED
    BY <1>1, InitConnInv, PTL DEF Spec

\* However many tasks receive from a connection, nothing that the peer sent is
\* lost, doubled or put out of order between the wire, the buffer and the calls.
THEOREM ReceivesAll == ASSUME ~Stale  PROVE Spec => []NothingLost
  <1>1. ConnInv => NothingLost
    BY DEF ConnInv
  <1> QED
    BY <1>1, Inductive, PTL

\* A receive that returns less than it was asked for has seen the end.
THEOREM ShortIsEnd == ASSUME ~Stale  PROVE Spec => []ShortMeansEnd
  <1>1. ConnInv => ShortMeansEnd
    BY DEF ConnInv
  <1> QED
    BY <1>1, Inductive, PTL

\* The messages of tasks that send on one connection do not mix.
THEOREM MessagesWhole == ASSUME ~Stale  PROVE Spec => []SendsWhole
  <1>1. ConnInv => SendsWhole
    BY DEF ConnInv
  <1> QED
    BY <1>1, Inductive, PTL

\* A slot becomes used only where a connection is put into it.
LEMMA UsedByNew ==
  ASSUME TypeOK, Next, NEW s \in Slots, ~slot[s].used, slot'[s].used,
         \A t \in Tasks : ~New(t)
  PROVE  FALSE
  <1>1. slot \in [Slots -> [used : BOOLEAN, fd : {0} \cup Fds, buf : Seq(Bytes)]] /\ \A t \in Tasks : at[t] \in Slots
    BY DEF TypeOK
  <1>2. ASSUME slot' = slot  PROVE FALSE
    BY <1>2
  <1>3. ASSUME NEW c \in Conns, PeerCloses(c) \/ PeerSends(c)  PROVE FALSE
    BY <1>2, <1>3 DEF PeerCloses, PeerSends
  <1>4. ASSUME NEW t \in Tasks, Calls(t)  PROVE FALSE
    <2>1. slot' = slot
      BY <1>4, CallCases DEF Dial, Lookup, NotFound, Begin
    <2> QED
      BY <1>2, <2>1
  <1>5. ASSUME NEW t \in Tasks, NEW b, slot' = [slot EXCEPT ![at[t]].buf = b]  PROVE FALSE
    <2>1. slot'[s].used = slot[s].used
      <3>1. CASE s = at[t]
        BY <1>1, <1>5, <3>1
      <3>2. CASE s # at[t]
        BY <1>1, <1>5, <3>2
      <3> QED
        BY <3>1, <3>2
    <2> QED
      BY <2>1
  <1>6. ASSUME NEW t \in Tasks, Goes(t)  PROVE FALSE
    <2>1. CASE FillSome(t)
      BY <1>5, <2>1 DEF FillSome
    <2>2. CASE Take(t)
      <3>1. \E b : slot' = [slot EXCEPT ![at[t]].buf = b]
        BY <2>2 DEF Take
      <3> QED
        BY <1>5, <3>1
    <2>3. CASE CloseSlot(t)
      <3>1. slot' = [slot EXCEPT ![at[t]] = [slot[at[t]] EXCEPT !.used = FALSE, !.buf = << >>]]
        BY <1>1, <2>3 DEF CloseSlot
      <3>2. CASE s = at[t]
        BY <1>1, <3>1, <3>2
      <3>3. CASE s # at[t]
        BY <1>1, <3>1, <3>3
      <3> QED
        BY <3>2, <3>3
    <2>4. CASE Lock(t) \/ FillEnd(t) \/ FillFails(t)
      BY <1>2, <2>4 DEF Lock, FillEnd, FillFails
    <2>5. CASE WriteHalf(t) \/ WriteFails(t)
      BY <1>2, <2>5 DEF WriteHalf, WriteFails
    <2>6. CASE CloseFile(t) \/ CloseEnd(t) \/ CloseLate(t)
      BY <1>2, <2>6 DEF CloseFile, CloseEnd, CloseLate
    <2> QED
      BY <1>6, <2>1, <2>2, <2>3, <2>4, <2>5, <2>6 DEF Goes
  <1> QED
    BY <1>3, <1>4, <1>6 DEF Next, Peer

\* Whoever holds the lock of a slot that is given away has closed, and only lets go.
THEOREM GivenWhenFree == ASSUME ~Stale  PROVE Spec => SlotIsFree
  <1> DEFINE A == \A s \in Slots : ~slot[s].used /\ slot'[s].used
                    => \A t \in mu[s] : Holds(t, {"close"}) /\ call[t].n = 2
  <1>1. ConnInv /\ [Next]_vars => A
    <2> SUFFICES ASSUME ConnInv, [Next]_vars, NEW s \in Slots, ~slot[s].used, slot'[s].used, NEW u \in mu[s]
                 PROVE  Holds(u, {"close"}) /\ call[u].n = 2
      OBVIOUS
    <2>1. TypeOK /\ LocksFit
      BY DEF ConnInv
    <2>2. Next
      BY DEF vars
    <2>3. PICK t \in Tasks : New(t)
      BY <2>1, <2>2, UsedByNew
    <2>4. u \in Tasks /\ pc[u] = "busy" /\ at[u] = s
      <3>1. mu[s] \in {{}} \cup {{v} : v \in Tasks}
        BY <2>1 DEF TypeOK
      <3> QED
        BY <2>1, <3>1 DEF LocksFit
    <2> QED
      BY <2>3, <2>4, GivenSlot DEF New, InSlot, Holds
  <1>2. Spec => []ConnInv
    BY Inductive
  <1>3. Spec => [][A]_vars
    <2>1. ConnInv /\ [Next]_vars => [A]_vars
      BY <1>1
    <2> QED
      BY <1>2, <2>1, PTL DEF Spec
  <1> QED
    BY <1>3 DEF SlotIsFree

-----------------------------------------------------------------------------
(* Whose bytes *)

\* A part of a connection's bytes, and more of them, are its own.
LEMMA OwnParts ==
  ASSUME NEW c, NEW b \in Seq(Own(c)), NEW d \in Seq(Own(c)), NEW i \in 1..Len(b) + 1, NEW j \in 0..Len(b)
  PROVE  SubSeq(b, i, j) \in Seq(Own(c)) /\ b \o d \in Seq(Own(c))
  <1> DEFINE S == Own(c)
  <1>1. b \in Seq(S) /\ d \in Seq(S) /\ Len(b) \in Nat
    BY LenProperties
  <1> HIDE DEF S
  <1>2. \A k \in i..j : b[k] \in S
    BY <1>1, ElementOfSeq
  <1>3. SubSeq(b, i, j) \in Seq(S)
    BY <1>1, <1>2, SubSeqProperties
  <1>4. b \o d \in Seq(S)
    BY <1>1, ConcatProperties
  <1> QED
    BY <1>3, <1>4 DEF S

LEMMA OwnedKept ==
  ASSUME BytesOwned, UNCHANGED <<wire, got, owner>>, slot' = slot  PROVE BytesOwned'
  BY DEF BytesOwned

LEMMA SendsOwned ==
  ASSUME TypeOK, BytesOwned, NEW c \in Conns, PeerSends(c)
  PROVE  BytesOwned'
  <1> DEFINE b == [conn |-> c, nth |-> Len(sent[c]) + 1]
  <1>1. /\ wire' = [wire EXCEPT ![c] = Append(@, b)] /\ Len(sent[c]) < MaxBytes
        /\ UNCHANGED <<slot, owner, got>>
    BY DEF PeerSends
  <1>2. b \in Own(c)
    BY <1>1, LenProperties, Numbers DEF TypeOK, Own, Bytes
  <1> HIDE DEF b
  <1>3. Append(wire[c], b) \in Seq(Own(c))
    BY <1>2, AppendProperties DEF BytesOwned
  <1>4. wire'[c] = Append(wire[c], b) /\ \A d \in Conns \ {c} : wire'[d] = wire[d]
    BY <1>1 DEF TypeOK
  <1>5. \A d \in Conns : wire'[d] \in Seq(Own(d))
    BY <1>3, <1>4 DEF BytesOwned
  <1> QED
    BY <1>1, <1>5 DEF BytesOwned

LEMMA FillOwned ==
  ASSUME ConnInv, BytesOwned, NEW t \in Tasks, FillSome(t)
  PROVE  BytesOwned'
  <1> DEFINE c == Reads(t)
             s == at[t]
  <1>1. Holds(t, Receiving) /\ c # NoConn /\ UNCHANGED <<owner, got>>
    BY DEF FillSome, Fills
  <1>2. c = call[t].conn /\ owner[s] = c /\ c \in Conns /\ s \in Slots
    BY <1>1, OwnConn, Where DEF Holds, InSlot, Receiving, ConnInv
  <1>3. TypeOK
    BY DEF ConnInv
  <1>4. PICK k \in 1..Len(wire[c]) :
          /\ slot' = [slot EXCEPT ![s].buf = slot[s].buf \o SubSeq(wire[c], 1, k)]
          /\ wire' = [wire EXCEPT ![c] = SubSeq(wire[c], k + 1, Len(wire[c]))]
    BY <1>2, <1>3 DEF FillSome, TypeOK
  <1> HIDE DEF c, s
  <1> DEFINE x == SubSeq(wire[c], 1, k)
             y == SubSeq(wire[c], k + 1, Len(wire[c]))
             b == slot[s].buf \o x
  <1>5. x \in Seq(Own(c)) /\ y \in Seq(Own(c)) /\ b \in Seq(Own(c))
    <2> DEFINE w == wire[c]
    <2>1. w \in Seq(Own(c)) /\ Len(w) \in Nat /\ slot[s].buf \in Seq(Own(c)) /\ k \in 1..Len(w)
      BY <1>2, <1>4, LenProperties DEF BytesOwned
    <2> HIDE DEF w
    <2>2. SubSeq(w, 1, k) \in Seq(Own(c)) /\ SubSeq(w, k + 1, Len(w)) \in Seq(Own(c))
      <3>1. 1 \in 1..Len(w) + 1 /\ k \in 0..Len(w) /\ k + 1 \in 1..Len(w) + 1 /\ Len(w) \in 0..Len(w)
        BY <2>1
      <3> QED
        BY <2>1, <3>1, OwnParts
    <2>3. slot[s].buf \o SubSeq(w, 1, k) \in Seq(Own(c))
      BY <2>1, <2>2, ConcatProperties
    <2> QED
      BY <2>2, <2>3 DEF w
  <1> HIDE DEF x, y
  <1>6. slot' = [slot EXCEPT ![s].buf = b] /\ wire' = [wire EXCEPT ![c] = y]
    BY <1>4 DEF x, y
  <1> HIDE DEF b
  <1>7. wire'[c] = y /\ \A d \in Conns \ {c} : wire'[d] = wire[d]
    BY <1>2, <1>3, <1>6 DEF TypeOK
  <1>8. slot'[s].buf = b /\ \A i \in Slots \ {s} : slot'[i] = slot[i]
    BY <1>2, <1>3, <1>6 DEF TypeOK
  <1>9. \A d \in Conns : wire'[d] \in Seq(Own(d))
    BY <1>5, <1>7 DEF BytesOwned
  <1>10. \A i \in Slots : slot'[i].buf \in Seq(Own(owner[i]))
    BY <1>2, <1>5, <1>8 DEF BytesOwned
  <1> QED
    BY <1>1, <1>9, <1>10 DEF BytesOwned

LEMMA TakeOwned ==
  ASSUME ConnInv, BytesOwned, NEW t \in Tasks, Take(t)
  PROVE  BytesOwned'
  <1> DEFINE c == call[t].conn
             s == at[t]
             n == Share(t)
             b == slot[s].buf
             x == SubSeq(b, 1, n)
             y == SubSeq(b, n + 1, Len(b))
  <1>1. TypeOK /\ CallsFit /\ LocksFit /\ OwnersFit
    BY DEF ConnInv
  <1>2. Holds(t, Receiving) /\ (Enough(t) \/ eof[t]) /\ UNCHANGED <<owner, wire>>
    BY DEF Take, world
  <1>3. c \in Conns /\ s \in Slots /\ owner[s] = c
    BY <1>1, <1>2, OwnConn, Where DEF Holds, InSlot, Receiving
  <1>4. slot' = [slot EXCEPT ![s].buf = y] /\ got' = [got EXCEPT ![c] = got[c] \o x]
    BY <1>1, <1>3 DEF Take, Here, TypeOK
  <1>5. n \in 0..Len(b)
    BY <1>1, <1>2, Shares DEF Here
  <1> HIDE DEF c, s, n, b
  <1>6. x \in Seq(Own(c)) /\ y \in Seq(Own(c)) /\ got[c] \o x \in Seq(Own(c))
    <2>1. b \in Seq(Own(c)) /\ Len(b) \in Nat /\ got[c] \in Seq(Own(c))
      BY <1>3, LenProperties DEF BytesOwned, b
    <2>2. 1 \in 1..Len(b) + 1 /\ n + 1 \in 1..Len(b) + 1 /\ Len(b) \in 0..Len(b)
      BY <1>5, <2>1
    <2>3. x \in Seq(Own(c)) /\ y \in Seq(Own(c))
      BY <1>5, <2>1, <2>2, OwnParts
    <2> QED
      BY <2>1, <2>3, ConcatProperties
  <1> HIDE DEF x, y
  <1>7. slot'[s].buf = y /\ (\A i \in Slots \ {s} : slot'[i] = slot[i])
        /\ got'[c] = got[c] \o x /\ \A d \in Conns \ {c} : got'[d] = got[d]
    BY <1>1, <1>3, <1>4 DEF TypeOK
  <1>8. \A d \in Conns : got'[d] \in Seq(Own(d))
    BY <1>6, <1>7 DEF BytesOwned
  <1>9. \A i \in Slots : slot'[i].buf \in Seq(Own(owner[i]))
    BY <1>3, <1>6, <1>7 DEF BytesOwned
  <1> QED
    BY <1>2, <1>8, <1>9 DEF BytesOwned

\* A slot is emptied when it is given back, and is empty when it is given away.
LEMMA SlotOwned ==
  ASSUME ConnInv, BytesOwned, NEW t \in Tasks, New(t) \/ CloseSlot(t)
  PROVE  BytesOwned'
  <1>1. TypeOK /\ OpeningFits /\ SlotsFit /\ CallsFit /\ LocksFit
    BY DEF ConnInv
  <1>2. CASE New(t)
    <2> DEFINE c == call[t].conn
               fd == CHOOSE f \in Fds : file[f] = c
    <2>1. UNCHANGED <<wire, got>> /\ pc[t] = "dialed"
      BY <1>2 DEF New, world
    <2>2. c \in 1..opened /\ id[c] = MaxConns
      BY <1>1, <2>1 DEF CallsFit, OpeningFits
    <2>3. PICK s \in Slots : s = Min({k \in Slots : ~slot[k].used}) /\ ~slot[s].used
      BY <1>1, <2>2, FreeSlot
    <2>4. slot' = [slot EXCEPT ![s] = Fresh(fd)] /\ owner' = [owner EXCEPT ![s] = c]
      BY <1>2, <2>3 DEF New
    <2> HIDE DEF fd, c
    <2>5. slot'[s] = Fresh(fd) /\ (\A i \in Slots \ {s} : slot'[i] = slot[i] /\ owner'[i] = owner[i])
      BY <1>1, <2>4 DEF TypeOK
    <2>6. ASSUME NEW i \in Slots  PROVE slot'[i].buf \in Seq(Own(owner'[i]))
      <3>1. CASE i = s
        <4>1. slot'[i].buf = << >>
          BY <2>5, <3>1 DEF Fresh
        <4> QED
          BY <4>1, EmptySeq
      <3>2. CASE i # s
        BY <2>5, <3>2 DEF BytesOwned
      <3> QED
        BY <3>1, <3>2
    <2> QED
      BY <2>1, <2>6 DEF BytesOwned
  <1>3. CASE CloseSlot(t)
    <2> DEFINE s == at[t]
               r == [slot[s] EXCEPT !.used = FALSE, !.buf = << >>]
    <2>1. slot' = [slot EXCEPT ![s] = r] /\ s \in Slots
      BY <1>1, <1>3 DEF CloseSlot, TypeOK
    <2>2. r.buf = << >>
      BY <1>1, <2>1 DEF TypeOK
    <2>3. UNCHANGED <<wire, got, owner>>
      BY <1>3 DEF CloseSlot, world
    <2> HIDE DEF r, s
    <2>4. slot'[s] = r /\ \A i \in Slots \ {s} : slot'[i] = slot[i]
      BY <1>1, <2>1 DEF TypeOK
    <2>5. \A i \in Slots : slot'[i].buf \in Seq(Own(owner[i]))
      BY <2>2, <2>4, EmptySeq DEF BytesOwned
    <2> QED
      BY <2>3, <2>5 DEF BytesOwned
  <1> QED
    BY <1>2, <1>3

\* What a program receives from a connection was sent by that one's own peer,
\* unless it uses connections that are closed (Stale: the run net_stale).
THEOREM ReceivesOwn == ASSUME ~Stale  PROVE Spec => []OwnBytes
  <1>1. Init => BytesOwned
    <2> SUFFICES ASSUME Init  PROVE BytesOwned
      OBVIOUS
    <2>1. \A c \in Conns : wire[c] = << >> /\ got[c] = << >>
      BY DEF Init
    <2>2. \A s \in Slots : slot[s].buf = << >>
      BY DEF Init
    <2> QED
      BY <2>1, <2>2, EmptySeq DEF BytesOwned
  <1>2. ConnInv /\ BytesOwned /\ [Next]_vars => BytesOwned'
    <2> SUFFICES ASSUME ConnInv, BytesOwned, [Next]_vars  PROVE BytesOwned'
      OBVIOUS
    <2>1. TypeOK
      BY DEF ConnInv
    <2>2. CASE UNCHANGED vars
      BY <2>2, OwnedKept DEF vars, world
    <2>3. ASSUME NEW c \in Conns, PeerSends(c)  PROVE BytesOwned'
      BY <2>1, <2>3, SendsOwned
    <2>4. ASSUME NEW c \in Conns, PeerCloses(c)  PROVE BytesOwned'
      BY <2>4, OwnedKept DEF PeerCloses
    <2>5. ASSUME NEW t \in Tasks, Calls(t)  PROVE BytesOwned'
      BY <2>5, CallCases, OwnedKept, ZenonT(60) DEF Dial, Lookup, NotFound, Begin, world
    <2>6. ASSUME NEW t \in Tasks, Goes(t)  PROVE BytesOwned'
      <3>1. CASE New(t) \/ CloseSlot(t)
        BY <3>1, SlotOwned
      <3>2. CASE FillSome(t)
        BY <3>2, FillOwned
      <3>3. CASE Take(t)
        BY <3>3, TakeOwned
      <3>4. CASE Lock(t) \/ FillEnd(t) \/ FillFails(t)
        BY <3>4, OwnedKept DEF Lock, FillEnd, FillFails, world
      <3>5. CASE WriteHalf(t) \/ WriteFails(t)
        BY <3>5, OwnedKept DEF WriteHalf, WriteFails, world
      <3>6. CASE CloseFile(t) \/ CloseEnd(t) \/ CloseLate(t)
        BY <3>6, OwnedKept DEF CloseFile, CloseEnd, CloseLate, world
      <3> QED
        BY <2>6, <3>1, <3>2, <3>3, <3>4, <3>5, <3>6 DEF Goes
    <2> QED
      BY <2>2, <2>3, <2>4, <2>5, <2>6 DEF Next, Peer
  <1>3. BytesOwned => OwnBytes
    <2> SUFFICES ASSUME BytesOwned, NEW c \in Conns, NEW b \in ToSet(got[c])  PROVE b.conn = c
      BY DEF OwnBytes
    <2>1. got[c] \in Seq(Own(c))
      BY DEF BytesOwned
    <2>2. b \in Own(c)
      BY <2>1, ElementOfSeq DEF ToSet
    <2> QED
      BY <2>2 DEF Own
  <1> QED
    BY <1>1, <1>2, <1>3, Inductive, PTL DEF Spec
=============================================================================
