-------------------------------- MODULE Native --------------------------------
(***************************************************************************)
(* What the C that Cgen describes does when it runs: the C machine and the *)
(* part of the runtime (the text at the head of cgen.rs) that handles      *)
(* lists and dicts.                                                        *)
(*                                                                         *)
(* A machine is [p, code, mem, freed, env, globals, out, left]: the        *)
(* program, the functions generated, the objects in memory (sequences of   *)
(* values), those given back, the scopes of the running function (names to *)
(* objects of one value), the constants, what was printed, and whether the *)
(* build evaluates the operands that C leaves unordered from the left.     *)
(* A list is a header [len, cap, buf] and a buffer that several headers    *)
(* may name; structs, tuples, optionals and results are values with parts; *)
(* a pointer is an object with a path into it.                             *)
(***************************************************************************)
EXTENDS Cgen

CONSTANTS FirstCap,   \* room in a list's first buffer; 8 in the source
          Rounds      \* bound: rounds of one loop

Indeterminate == Value("indeterminate", 0)
Zero == None

\* The parts of the machine that call each other meet in one.
RECURSIVE Perform(_, _, _)
load(m, a) == Perform("load", m, a)
Added(m, h, v) == Perform("add", m, << h, v >>)
copied(m, t, v) == Perform("copy", m, << t, v >>)
run(m, x) == Perform("run", m, x)
place(m, x) == Perform("place", m, x)
operands(m, o) == Perform("operands", m, o)
invoke(m, f, env, vs) == Perform("invoke", m, << f, env, vs >>)
call_clo(m, clo, vs) == Perform("call", m, << clo, vs >>)
CodeOf(m, key) == Perform("code", m, key)
exec_c(m, body) == Perform("exec", m, body)
WhileC(m, st, rounds) == Perform("while", m, << st, rounds >>)
RangeC(m, st, to) == Perform("range", m, << st, to >>)
EachC(m, st, h, i) == Perform("each", m, << st, h, i >>)
CasesC(m, cases, v) == Perform("cases", m, << cases, v >>)
execute(p, c, left) == Perform("program", p, << c, left >>)

(***************************************************************************)
(* Memory.                                                                 *)
(***************************************************************************)
Alloc(m, cells) == [m EXCEPT !.mem = Append(@, cells)]
Newest(m) == Len(m.mem)
Pointer(o, path) == Value("ptr", [o |-> o, path |-> path])

RECURSIVE PartAt(_, _), PutPart(_, _, _)
PartAt(v, path) == IF path = << >> THEN v ELSE PartAt(v.x.items[Head(path)], Tail(path))
PutPart(v, path, w) == IF path = << >> THEN w ELSE [v EXCEPT !.x.items[Head(path)] = PutPart(@, Tail(path), w)]
Read(m, a) ==
  LET v == PartAt(m.mem[a.x.o][a.x.path[1]], Tail(a.x.path))
  IN  IF a.x.o \in m.freed THEN Fail(m, "freed") ELSE IF v.t = "indeterminate" THEN Fail(m, "uninitialized") ELSE Ok(m, v)
StoreAt(m, a, v) ==
  IF a.x.o \in m.freed THEN Fail(m, "freed")
  ELSE Ok([m EXCEPT !.mem[a.x.o][a.x.path[1]] = PutPart(@, Tail(a.x.path), v)], None)

EnterC(m) == [m EXCEPT !.env = Append(@, << >>)]
LeaveC(m) == [m EXCEPT !.env = Front(@)]
Declared(m, n, v) ==
  LET m1 == Alloc(m, << v >>) IN [m1 EXCEPT !.env[Len(m1.env)] = (n :> Newest(m1)) @@ @]
DeclaredAll(m, ns, vs) == FoldLeft(LAMBDA d, i : Declared(d, ns[i], vs[i]), m, [i \in DOMAIN ns |-> i])
ObjectOf(m, n) ==
  LET at == {i \in DOMAIN m.env : n \in DOMAIN m.env[i]}
  IN  IF at = {} THEN m.globals[n] ELSE m.env[CHOOSE i \in at : \A j \in at : j <= i][n]

(***************************************************************************)
(* Lists and dicts.                                                        *)
(***************************************************************************)
Header(t, len, cap, buf) == Value(t, [len |-> len, cap |-> cap, buf |-> buf])
Empty(t) == Header(t, 0, 0, 0)
Buffer(m, h) == IF h.x.len = 0 THEN << >> ELSE SubSeq(m.mem[h.x.buf], 1, h.x.len)
AsHeader(t, v) == IF v.t = "none" THEN Empty(t) ELSE v
\* what a header shows, if its buffer is still there
Shown(m, h, Go(_, _)) ==
  IF h.x.len > 0 /\ h.x.buf \in m.freed THEN Fail(m, "freed") ELSE Go(m, Buffer(m, h))

\* mi_list_push, and the same for a pair: the header afterwards.  A full buffer
\* is given back and a larger one taken.
mi_list_push(m, h, v) ==
  LET cap == IF h.x.cap = 0 THEN FirstCap ELSE 2 * h.x.cap
      room == Alloc(m, [i \in 1..cap |-> IF i <= h.x.len THEN m.mem[h.x.buf][i] ELSE IF i = h.x.len + 1 THEN v ELSE Zero])
  IN  IF h.x.cap > 0 /\ h.x.buf \in m.freed THEN Fail(m, "freed")
      ELSE IF h.x.len < h.x.cap THEN Ok([m EXCEPT !.mem[h.x.buf][h.x.len + 1] = v], [h EXCEPT !.x.len = @ + 1])
      ELSE Ok([room EXCEPT !.freed = @ \cup (IF h.x.cap = 0 THEN {} ELSE {h.x.buf})], Header(h.t, h.x.len + 1, cap, Newest(room)))
mi_list(m, vs) == InTurn(Ok(m, Empty("list")), vs, LAMBDA r, v : Added(r.m, r.v, v))
mi_list_at(m, h, i) ==
  IF i < 0 \/ i >= h.x.len THEN Fail(m, "E0204") ELSE Ok(m, Pointer(h.x.buf, << i + 1 >>))

\* a value that is printed or compared is read down to its parts
RECURSIVE Readable(_, _)
Readable(m, v) ==
  CASE v.t = "list" -> v.x.len = 0 \/ (v.x.buf \notin m.freed /\ \A i \in 1..v.x.len : Readable(m, m.mem[v.x.buf][i]))
    [] v.t = "dict" -> v.x.len = 0 \/ (v.x.buf \notin m.freed /\ \A i \in 1..v.x.len : Readable(m, m.mem[v.x.buf][i][2]))
    [] v.t = "opt" -> v.x.items[1].x => Readable(m, v.x.items[2])
    [] v.t \in {"tuple", "struct", "enum"} -> \A i \in DOMAIN v.x.items : Readable(m, v.x.items[i])
    [] OTHER -> TRUE
Reading(m, vs, Go(_)) == IF \A v \in vs : Readable(m, v) THEN Go(m) ELSE Fail(m, "freed")

RECURSIVE eq_c(_, _, _)
eq_c(m, a, b) ==
  CASE a.t # b.t -> FALSE
    [] a.t = b.t /\ a.t = "list" -> a.x.len = b.x.len /\ \A i \in 1..a.x.len : eq_c(m, m.mem[a.x.buf][i], m.mem[b.x.buf][i])
    [] a.t = b.t /\ a.t = "dict" -> a.x.len = b.x.len /\ \A i \in 1..a.x.len : \E j \in 1..b.x.len :
                          m.mem[a.x.buf][i][1].x = m.mem[b.x.buf][j][1].x /\ eq_c(m, m.mem[a.x.buf][i][2], m.mem[b.x.buf][j][2])
    [] a.t = b.t /\ a.t = "opt" -> a.x.items[1] = b.x.items[1] /\ (a.x.items[1].x => eq_c(m, a.x.items[2], b.x.items[2]))
    [] a.t = b.t /\ a.t \in {"struct", "enum", "tuple"} ->
         a.x.name = b.x.name /\ \A i \in DOMAIN a.x.items : eq_c(m, a.x.items[i], b.x.items[i])
    [] OTHER -> a = b
Compared(m, a, b) == Reading(m, {a, b}, LAMBDA m1 : Ok(m1, BoolVal(eq_c(m1, a, b))))

PairOf(pairs, k) == {i \in DOMAIN pairs : pairs[i][1].x = k.x}
mi_dict_set(m, d, k, v) ==
  Shown(m, d, LAMBDA m1, pairs :
    IF PairOf(pairs, k) = {} THEN Added(m1, d, << k, v >>)
    ELSE Ok([m1 EXCEPT !.mem[d.x.buf][CHOOSE i \in PairOf(pairs, k) : TRUE] = << k, v >>], d))

\* copies down to what lists and dicts hold; enum values and closures are not
CopiedAll(m, ts, vs) ==
  InTurn(Ok(m, << >>), [i \in DOMAIN ts |-> i], LAMBDA r, i : LET c == copied(r.m, ts[i], vs[i]) IN [c EXCEPT !.v = Append(r.v, @)])
Parts(m, ts, v) == Then(CopiedAll(m, ts, SubSeq(v.x.items, 1, Len(ts))), LAMBDA m1, vs :
  Ok(m1, [v EXCEPT !.x.items = vs \o SubSeq(@, Len(ts) + 1, Len(@))]))
CopyOf(m, t, v) ==
  IF ~needs_copy(m.p, t) \/ v.t = "none" THEN Ok(m, v)
  ELSE CASE t.k = "list" -> Shown(m, v, LAMBDA m1, vs : Then(CopiedAll(m1, [i \in DOMAIN vs |-> t.t], vs), LAMBDA m2, ws :
              IF ws = << >> THEN Ok(m2, Empty("list"))
              ELSE LET m3 == Alloc(m2, ws) IN Ok(m3, Header("list", Len(ws), Len(ws), Newest(m3)))))
         [] t.k = "dict" -> Shown(m, v, LAMBDA m1, kvs : Then(CopiedAll(m1, [i \in DOMAIN kvs |-> t.v], [i \in DOMAIN kvs |-> kvs[i][2]]), LAMBDA m2, ws :
              LET m3 == Alloc(m2, [i \in 1..v.x.cap |-> IF i \in DOMAIN ws THEN << kvs[i][1], ws[i] >> ELSE Zero])
              IN  IF v.x.cap = 0 THEN Ok(m2, v) ELSE Ok(m3, Header("dict", Len(ws), v.x.cap, Newest(m3)))))
         [] t.k \in {"opt", "fallible"} ->
              IF v.x.items[1].x THEN Then(copied(m, t.t, v.x.items[2]), LAMBDA m1, w : Ok(m1, [v EXCEPT !.x.items[2] = w])) ELSE Ok(m, v)
         [] t.k = "tuple" -> Parts(m, t.ts, v)
         [] t.k = "struct" -> Parts(m, [i \in DOMAIN m.p.structs[t.n].fields |-> m.p.structs[t.n].fields[i].ty], v)

\* what printing writes
RECURSIVE shown(_, _), shown_all(_, _)
shown_all(m, vs) == FlattenSeq([i \in DOMAIN vs |-> (IF i > 1 THEN << "," >> ELSE << >>) \o shown(m, vs[i])])
shown(m, v) ==
  CASE v.t = "str" -> v.x
    [] v.t = "list" -> << "[" >> \o shown_all(m, Buffer(m, v)) \o << "]" >>
    [] v.t = "dict" -> LET kvs == Buffer(m, v)
                       IN  << "{" >> \o shown_all(m, [i \in DOMAIN kvs |-> kvs[i][1]]) \o << ":" >> \o shown_all(m, [i \in DOMAIN kvs |-> kvs[i][2]]) \o << "}" >>
    [] v.t = "opt" -> IF v.x.items[1].x THEN shown(m, v.x.items[2]) ELSE << "none" >>
    [] v.t = "tuple" -> << "(" >> \o shown_all(m, v.x.items) \o << ")" >>
    [] v.t \in {"struct", "enum"} -> << v.x.name, "(" >> \o shown_all(m, v.x.items) \o << ")" >>
    [] OTHER -> << ToString(v.x) >>

(***************************************************************************)
(* Expressions.                                                            *)
(***************************************************************************)
RECURSIVE IsPlace(_)
IsPlace(x) == x.c \in {"var", "star", "elem"} \/ (x.c = "mem" /\ IsPlace(x.x))

\* operands: those computed first, then the others as C or the build orders them
Ascending(places) == SetToSortSeq(places, <)
Ordered(m, o) ==
  LET rest == Ascending(DOMAIN o.xs \ o.pre) IN Ascending(o.pre) \o (IF o.fixed \/ m.left THEN rest ELSE Reverse(rest))
AllOperands(m, o) ==
  InTurn(Ok(m, [i \in DOMAIN o.xs |-> Zero]), Ordered(m, o), LAMBDA r, i :
    Then(run(r.m, o.xs[i]), LAMBDA m1, v : Ok(m1, [r.v EXCEPT ![i] = v])))

\* two things C does not order: the values of both
Both(m, first, second) == operands(m, AnyOrder(<< first, second >>))
\* a place is an expression too, whose value is its address
AddressOf(x) == [c |-> "addr", x |-> x]
PlaceAt(m, x) ==
  CASE x.c = "var" -> Ok(m, Pointer(ObjectOf(m, x.n), << 1 >>))
    [] x.c = "star" -> run(m, x.x)
    [] x.c = "mem" -> Then(place(m, x.x), LAMBDA m1, a : Ok(m1, Pointer(a.x.o, Append(a.x.path, x.f))))
    [] x.c = "elem" -> Then(Both(m, AddressOf(x.x), x.i), LAMBDA m1, vs : Then(load(m1, vs[1]), LAMBDA m2, h : mi_list_at(m2, AsHeader("list", h), vs[2].x)))

Make1(t, name, items) == Value(t, [name |-> name, items |-> items])
AsOpt(vs) == Make1("opt", "", IF vs = << >> THEN << BoolVal(FALSE), Zero >> ELSE << BoolVal(TRUE), vs[1] >>)
Arithmetic(m, op, vs) ==
  CASE op = "neg" -> Ok(m, IntVal(-vs[1].x)) [] op = "not" -> Ok(m, BoolVal(~vs[1].x))
    [] op \notin {"neg", "not"} /\ vs[1].t = "str" -> Ok(m, Value("str", vs[1].x \o vs[2].x))
    [] OTHER -> IF op \in {"/", "%"} /\ vs[2].x = 0 THEN Fail(m, "E0203") ELSE Ok(m, IntOp(op, vs[1].x, vs[2].x))

\* a function called with values, in scopes of its own; a closure finds copies of
\* what it captured in env
Back(m, r) == IF r.how = "fail" THEN r ELSE Ok([r.m EXCEPT !.env = m.env], IF r.how = "return" THEN r.v ELSE None)
Invoked(m, f, env, vs) ==
  LET given == [m EXCEPT !.env = << << >> >>]
      bundle == DeclaredAll(given, f.caps, [i \in DOMAIN f.caps |-> m.mem[env][i]])
      self == IF f.self = "" THEN bundle ELSE Declared(bundle, f.self, Value("clo", [f |-> f, env |-> env]))
  IN  Back(m, exec_c(DeclaredAll(self, f.params, vs), f.body))
\* a template becomes code for the types it is used with
Template(m, key) == IF key \in DOMAIN m.code THEN m.code[key] ELSE gen_fn(m.p, m.p.fns[key[2]], Unknown, key[3]).code
\* a closure made from a named function hands its inout parameters pointers to
\* copies of its own
ClosureCall(m, clo, vs) ==
  LET f == clo.x.f
      inout == {i \in DOMAIN vs : "key" \in DOMAIN f /\ f.inout[i]}
      boxed == FoldLeft(LAMBDA r, i : LET m1 == Alloc(r.m, << vs[i] >>) IN [m |-> m1, vs |-> [r.vs EXCEPT ![i] = Pointer(Newest(m1), << 1 >>)]],
                        [m |-> m, vs |-> vs], Ascending(inout))
  IN  IF "key" \in DOMAIN f THEN invoke(boxed.m, CodeOf(m, f.key), 0, boxed.vs) ELSE invoke(m, f, clo.x.env, vs)

\* lists and dicts: what is changed is at `a`, the others are operands vs
RtChange(m, x, a, vs) ==
  Then(load(m, a), LAMBDA m1, h0 :
    LET h == AsHeader(IF x.name = "set" THEN "dict" ELSE "list", h0)
        Becomes(r) == Then(r, LAMBDA m2, h2 : StoreAt(m2, a, h2))
    IN  CASE x.name = "push" -> Becomes(Added(m1, h, vs[1]))
          [] x.name = "set" -> Becomes(mi_dict_set(m1, h, vs[1], vs[2]))
          [] x.name = "clear" -> Becomes(Ok(m1, [h EXCEPT !.x.len = 0]))
          [] x.name = "reverse" -> Shown(m1, h, LAMBDA m2, items :
               Ok(IF items = << >> THEN m2 ELSE [m2 EXCEPT !.mem[h.x.buf] = Reverse(items) \o SubSeq(@, h.x.len + 1, Len(@))], None))
          [] x.name = "pop" -> Shown(m1, h, LAMBDA m2, items :
               IF items = << >> THEN Ok(m2, AsOpt(<< >>))
               ELSE Then(StoreAt(m2, a, [h EXCEPT !.x.len = @ - 1]), LAMBDA m3, u : Ok(m3, AsOpt(<< Last(items) >>)))))
\* map and filter: the element is read anew in each round
Each1(m, clo, h, Go(_, _, _, _)) ==
  InTurn(Ok(m, Empty("list")), [i \in 1..h.x.len |-> i], LAMBDA r, i :
    Then(load(r.m, Pointer(h.x.buf, << i >>)), LAMBDA m1, v : Then(call_clo(m1, clo, << v >>), LAMBDA m2, w : Go(m2, r.v, v, w))))
RtRead(m, x, vs) ==
  LET h == AsHeader(IF x.name \in {"at", "has", "keys", "get"} THEN "dict" ELSE "list", vs[1])
      With1(Go(_, _)) == Shown(m, h, Go)
      Found(pairs, k) == [i \in 1..(IF PairOf(pairs, k) = {} THEN 0 ELSE 1) |-> pairs[CHOOSE j \in PairOf(pairs, k) : TRUE][2]]
  IN  CASE x.name = "at" -> With1(LAMBDA m1, ps : Ok(m1, AsOpt(Found(ps, vs[2]))))
        [] x.name = "has" -> With1(LAMBDA m1, ps : Ok(m1, BoolVal(PairOf(ps, vs[2]) # {})))
        [] x.name = "get" -> With1(LAMBDA m1, ps : Ok(m1, IF PairOf(ps, vs[2]) = {} THEN vs[3] ELSE Found(ps, vs[2])[1]))
        [] x.name = "keys" -> With1(LAMBDA m1, ps : mi_list(m1, [i \in DOMAIN ps |-> ps[i][1]]))
        [] x.name = "elem" -> Then(mi_list_at(m, h, vs[2].x), load)
        [] x.name = "len" -> Ok(m, IntVal(IF vs[1].t = "str" THEN Len(vs[1].x) ELSE h.x.len))
        [] x.name = "range" -> mi_list(m, [i \in 1..(IF vs[1].x < 0 THEN 0 ELSE vs[1].x) |-> IntVal(i - 1)])
        [] x.name = "contains" -> With1(LAMBDA m1, items : Reading(m1, {items[i] : i \in DOMAIN items} \cup {vs[2]}, LAMBDA m2 :
               Ok(m2, BoolVal(\E i \in DOMAIN items : eq_c(m2, items[i], vs[2])))))
Called(m, x, vs) ==
  CASE x.name = "map" -> Each1(m, vs[1], AsHeader("list", vs[2]), LAMBDA m1, out, v, w : Added(m1, out, w))
    [] x.name = "filter" -> Each1(m, vs[1], AsHeader("list", vs[2]), LAMBDA m1, out, v, w : IF w.x THEN Added(m1, out, v) ELSE Ok(m1, out))
    [] OTHER -> RtRead(m, x, vs)

\* each argument is computed and written in turn, but when two or more call
\* something those calls come first
Printed(m, o) ==
  LET early == Ascending(o.pre)
      Value1(m1, i, first) == IF i \in o.pre THEN Ok(m1, first[CHOOSE j \in DOMAIN early : early[j] = i]) ELSE run(m1, o.xs[i])
      Write(m1, v) == Reading(m1, {v}, LAMBDA m2 : Ok([m2 EXCEPT !.out = @ \o shown(m2, v)], None))
  IN  Then(operands(m, InOrder([j \in DOMAIN early |-> o.xs[early[j]]])), LAMBDA m0, first :
        InTurn(Ok(m0, None), [i \in DOMAIN o.xs |-> i], LAMBDA r, i : Then(Value1(r.m, i, first), Write)))

IsOk(r) == r.x.items[1].x
TextOf(m, v) == Value("str", shown(m, v))
Failed(v) == Make1("res", "", << BoolVal(FALSE), Zero, v >>)
ResultOfC(m, x) ==
  CASE x.c = "lit" -> Ok(m, x.v)
    [] x.c = "addr" -> place(m, x.x)
    [] x.c \in {"var", "star", "elem", "mem"} /\ IsPlace(x) -> Then(place(m, x), load)
    [] x.c = "mem" /\ ~IsPlace(x) -> Then(run(m, x.x), LAMBDA m1, v : Ok(m1, v.x.items[x.f]))
    [] x.c = "make" -> Then(operands(m, x.xs), LAMBDA m1, vs : Ok(m1, Make1(x.t, x.name, vs)))
    [] x.c = "op" -> Then(operands(m, x.xs), LAMBDA m1, vs : Arithmetic(m1, x.op, vs))
    [] x.c \in {"and", "or"} -> Then(run(m, x.xs[1]), LAMBDA m1, v : IF v.x = (x.c = "or") THEN Ok(m1, v) ELSE run(m1, x.xs[2]))
    [] x.c = "tern" -> Then(run(m, x.xs[1]), LAMBDA m1, v : run(m1, x.xs[IF v.x THEN 2 ELSE 3]))
    [] x.c = "eq" -> Then(operands(m, x.xs), LAMBDA m1, vs : Compared(m1, vs[1], vs[2]))
    [] x.c = "copy" -> Then(run(m, x.x), LAMBDA m1, v : copied(m1, x.t, v))
    [] x.c = "list" -> Then(operands(m, x.xs), LAMBDA m1, vs : mi_list(m1, vs))
    [] x.c = "dict" -> Then(operands(m, x.xs), LAMBDA m1, vs :
         InTurn(Ok(m1, Empty("dict")), [i \in 1..(Len(vs) \div 2) |-> i], LAMBDA r, i : mi_dict_set(r.m, r.v, vs[2 * i - 1], vs[2 * i])))
    [] x.c = "call" -> Then(operands(m, x.xs), LAMBDA m1, vs : invoke(m1, CodeOf(m1, x.key), 0, vs))
    [] x.c = "icall" -> Then(run(m, x.f), LAMBDA m1, f : Then(operands(m1, x.xs), LAMBDA m2, vs : call_clo(m2, f, vs)))
    [] x.c = "clo" -> Then(operands(m, InOrder(x.caps)), LAMBDA m1, vs :
                        LET m2 == Alloc(m1, vs) IN Ok(m2, Value("clo", [f |-> x.f, env |-> Newest(m2)])))
    [] x.c = "try" -> Then(run(m, x.x), LAMBDA m1, r :
                        IF IsOk(r) THEN Ok(m1, r.x.items[2])
                        ELSE End(m1, "return", Failed(IF x.repr THEN TextOf(m1, r.x.items[3]) ELSE r.x.items[3])))
    [] x.c = "orelse" -> Then(run(m, x.x), LAMBDA m1, v : IF IsOk(v) THEN Ok(m1, v.x.items[2]) ELSE run(m1, x.d))
    [] x.c = "rt" -> Then(operands(m, x.xs), LAMBDA m1, vs :
                       IF x.at.c = "lit" THEN Called(m1, x, vs) ELSE Then(place(m1, x.at), LAMBDA m2, a : RtChange(m2, x, a, vs)))
    [] x.c = "print" -> Printed(m, x.xs)
    [] x.c = "str" -> Then(run(m, x.x), LAMBDA m1, v : Reading(m1, {v}, LAMBDA m2 : Ok(m2, TextOf(m2, v))))
    [] x.c = "assert" -> Then(run(m, x.x), LAMBDA m1, v : IF v.x THEN Ok(m1, None) ELSE Fail(m1, "E0242"))
    [] x.c = "body" -> Then(operands(m, InOrder(x.xs)), LAMBDA m1, vs : invoke(m1, x.f, 0, vs))

(***************************************************************************)
(* Statements.                                                             *)
(***************************************************************************)
LeftC(r) == [r EXCEPT !.m = LeaveC(@)]
BlockWith(m, Open(_), body) == Done(LeftC(exec_c(Open(EnterC(m)), body)))
exec_c1(m, body) == Done(LeftC(exec_c(EnterC(m), body)))
RoundC(r, Again(_)) == IF r.how \in {"ok", "continue"} THEN Again(r.m) ELSE IF r.how = "break" THEN Ok(r.m, None) ELSE r

Whiles(m, st, rounds) ==
  IF rounds = 0 THEN Fail(m, "endless")
  ELSE Then(run(m, st.x), LAMBDA m1, v : IF v.x THEN RoundC(exec_c1(m1, st.body), LAMBDA m2 : WhileC(m2, st, rounds - 1)) ELSE Ok(m1, None))
\* the counter is the variable the body sees and may change
Counts(m, st, to) ==
  Then(load(m, Pointer(ObjectOf(m, st.ns[1]), << 1 >>)), LAMBDA m1, i :
    IF i.x >= to THEN Ok(m1, None)
    ELSE RoundC(exec_c1(m1, st.body), LAMBDA m2 :
           Then(load(m2, Pointer(ObjectOf(m2, st.ns[1]), << 1 >>)), LAMBDA m3, j :
             Then(StoreAt(m3, Pointer(ObjectOf(m3, st.ns[1]), << 1 >>), IntVal(j.x + 1)), LAMBDA m4, u :
               IF j.x > to + Rounds \/ j.x < -Rounds THEN Fail(m4, "endless") ELSE RangeC(m4, st, to)))))
\* the header was read once; the elements are read as the rounds come
GoesOver(m, st, h, i) ==
  IF i > h.x.len THEN Ok(m, None)
  ELSE Shown(m, h, LAMBDA m1, items :
         RoundC(BlockWith(m1, LAMBDA d : DeclaredAll(d, st.ns, IF Len(st.ns) = 2 THEN items[i] ELSE << items[i] >>), st.body), LAMBDA m2 : EachC(m2, st, h, i + 1)))

Chooses(m, cases, v) ==
  IF cases = << >> THEN Ok(m, None)
  ELSE LET a == cases[1]
           Test == CASE a.p.p = "variant" -> Ok(m, BoolVal(v.x.name = a.p.n))
                     [] a.p.p = "lit" -> Then(run(m, a.lit[1]), LAMBDA m1, l : Compared(m1, l, v))
                     [] OTHER -> Ok(m, BoolVal(TRUE))
           Open(d) == CASE a.p.p = "bind" -> Declared(d, a.p.n, v)
                        [] a.p.p = "variant" -> DeclaredAll(d, a.p.ns, v.x.items)
                        [] OTHER -> d
       IN  Then(Test, LAMBDA m1, yes : IF yes.x THEN BlockWith(m1, Open, a.body) ELSE CasesC(m1, Tail(cases), v))

Assigned(m, n, v) == StoreAt(m, Pointer(ObjectOf(m, n), << 1 >>), v)
\* what failed is handled, with the error by its name, and may leave a value
Handled(m, st, r) ==
  LeftC(Then(exec_c(Declared(EnterC(m), st.err, r.x.items[3]), st.bad), LAMBDA m1, u :
    IF st.value = << >> THEN Ok(m1, None) ELSE Then(run(m1, st.value[1]), LAMBDA m2, v : Assigned(m2, st.n, v))))
Unpacked(m, st, r) ==
  LeftC(Then(run(Declared(EnterC(m), " r", r), st.good), LAMBDA m1, v : Assigned(m1, st.n, v)))
CatchC(m, st) ==
  Then(run(m, st.x), LAMBDA m1, r :
    LET m2 == IF st.n = "" THEN m1 ELSE Declared(m1, st.n, Zero)
    IN  IF ~IsOk(r) THEN Done(Handled(m2, st, r)) ELSE IF st.n = "" THEN Ok(m1, None) ELSE Unpacked(m2, st, r))

step(m, st) ==
  CASE st.s = "decl" -> LET m1 == Declared(m, st.n, Indeterminate) IN Then(run(m1, st.x), LAMBDA m2, v : Assigned(m2, st.n, v))
    [] st.s = "put" -> Then(Both(m, AddressOf(st.at), st.x), LAMBDA m1, vs : StoreAt(m1, vs[1], vs[2]))
    [] st.s = "do" -> Done(run(m, st.x))
    [] st.s = "if" -> Then(run(m, st.x), LAMBDA m1, v : exec_c1(m1, IF v.x THEN st.a ELSE st.b))
    [] st.s = "while" -> WhileC(m, st, Rounds)
    [] st.s = "range" -> Then(run(m, st.x), LAMBDA m1, to :
         LeftC(RangeC(Declared(EnterC(m1), st.ns[1], IntVal(0)), st, to.x)))
    [] st.s = "each" -> Then(run(m, st.x), LAMBDA m1, v :
         IF v.t = "str" THEN LET m2 == Alloc(m1, [i \in DOMAIN v.x |-> Value("str", << v.x[i] >>)]) IN EachC(m2, st, Header("list", Len(v.x), Len(v.x), Newest(m2)), 1)
         ELSE EachC(m1, st, AsHeader("list", v), 1))
    [] st.s = "match" -> Then(run(m, st.x), LAMBDA m1, v : CasesC(m1, st.cases, v))
    [] st.s = "catch" -> CatchC(m, st)
    [] st.s = "need" -> Then(run(m, st.x), LAMBDA m1, v : IF v.x THEN Ok(m1, None) ELSE Fail(m1, st.code))
    [] st.s = "ret" -> IF st.x = << >> THEN End(m, "return", None) ELSE Then(run(m, st.x[1]), LAMBDA m1, v : End(m1, "return", v))
    [] st.s \in {"break", "continue"} -> End(m, st.s, None)
Steps(m, body) == InTurn(Ok(m, None), body, LAMBDA r, st : step(r.m, st))

\* the program built: the constants, which are 0 until they are set, then main
Finished(r) ==
  [out |-> r.m.out, end |-> IF r.how = "fail" THEN r.v.x ELSE IF r.v.t = "res" /\ ~IsOk(r.v) THEN "error" ELSE r.how]
Executed(p, c, left) ==
  LET names == [i \in DOMAIN c.lets |-> c.lets[i].n]
      m0 == [p |-> p, code |-> c.code, mem |-> << >>, freed |-> {}, env |-> << << >> >>, globals |-> << >>, out |-> << >>, left |-> left]
      m1 == DeclaredAll(m0, names, [i \in DOMAIN names |-> Zero])
      tops == exec_c([m1 EXCEPT !.globals = m1.env[1], !.env = << << >> >>],
                     [i \in DOMAIN c.lets |-> [s |-> "put", at |-> Var(names[i]), x |-> c.lets[i].x]])
  IN  Finished(Then(tops, LAMBDA m, u : invoke(m, c.code[<< "", "main", << >> >>], 0, << >>)))

Perform(what, m, x) ==
  CASE what = "load" -> Read(m, x)
    [] what = "add" -> mi_list_push(m, x[1], x[2])
    [] what = "copy" -> CopyOf(m, x[1], x[2])
    [] what = "run" -> ResultOfC(m, x)
    [] what = "place" -> PlaceAt(m, x)
    [] what = "operands" -> AllOperands(m, x)
    [] what = "invoke" -> Invoked(m, x[1], x[2], x[3])
    [] what = "call" -> ClosureCall(m, x[1], x[2])
    [] what = "code" -> Template(m, x)
    [] what = "exec" -> Steps(m, x)
    [] what = "while" -> Whiles(m, x[1], x[2])
    [] what = "range" -> Counts(m, x[1], x[2])
    [] what = "each" -> GoesOver(m, x[1], x[2], x[3])
    [] what = "cases" -> Chooses(m, x[1], x[2])
    [] what = "program" -> Executed(m, x[1], x[2])
=============================================================================
