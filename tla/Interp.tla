-------------------------------- MODULE Interp --------------------------------
(***************************************************************************)
(* The interpreter (interp.rs): what a program does under `siskin run`.    *)
(*                                                                         *)
(* The evaluator is a function from a machine and a piece of syntax to the *)
(* machine afterwards and how the piece ended.  Lists, dicts, structs and  *)
(* enum values live in the heap and are shared by address, as the source   *)
(* shares them by Rc: whether two names see each other's changes depends   *)
(* on where the interpreter copies (deep_clone) and where it does not.     *)
(*                                                                         *)
(* A machine is [p, heap, globals, scopes, inout, depth, out]: the program *)
(* (functions, structs, variants), objects, global names, the scopes of    *)
(* the running function (innermost last), what the last call leaves to be  *)
(* written back, calls under way, and what was printed.                    *)
(***************************************************************************)
EXTENDS Ast, Outcome, FiniteSets, SequencesExt, TLC

CONSTANTS MaxDepth,     \* calls that may be nested; 2000 in the source
          MaxRounds     \* bound: rounds of one while loop

IsError(v) == v.t \in {"error", "errorOf"}

\* The functions that call each other meet in one, Walk: its first argument says
\* which of them is meant, and they are defined further down.
RECURSIVE Walk(_, _, _)
deep_clone(m, v) == Walk("clone", m, v)
eq_value(m, a, b) == Walk("equal", m, << a, b >>)
display(m, v) == Walk("display", m, v)
eval(m, e) == Walk("eval", m, e)
EvalAll(m, es) == Walk("eval all", m, es)
eval_call(m, f, args) == Walk("eval call", m, << f, args >>)
exec(m, st) == Walk("exec", m, st)
exec_all(m, body) == Walk("exec all", m, body)
store(m, t, v) == Walk("store", m, << t, v >>)
Contract(m, conds, code) == Walk("contract", m, << conds, code >>)
call_named(m, n, v, given, args) == Walk("call named", m, << n, v, given, args >>)
call_fn(m, f, env, args) == Walk("call", m, << f, env, args >>)
call_value(m, f, args) == Walk("call value", m, << f, args >>)
builtin_method(m, o, n, args) == Walk("builtin", m, << o, n, args >>)

(***************************************************************************)
(* Objects.                                                                *)
(***************************************************************************)
Object(name, keys, items) == [name |-> name, keys |-> keys, items |-> items]
New(m, t, o) == Ok([m EXCEPT !.heap = Append(@, o)], Value(t, Len(m.heap) + 1))
NewList(m, items) == New(m, "list", Object("", << >>, items))
Items(m, v) == m.heap[v.x].items
OnHeap(v) == v.t \in {"list", "dict", "struct", "enum"}

CloneAll(m, vs) == InTurn(Ok(m, << >>), vs, LAMBDA r, v : LET c == deep_clone(r.m, v) IN Ok(c.m, Append(r.v, c.v)))
Cloned(m, v) ==
  IF OnHeap(v) THEN
    LET o == m.heap[v.x]
        n == Len(o.keys)
    IN  Then(CloneAll(m, o.keys \o o.items), LAMBDA m1, vs : New(m1, v.t, Object(o.name, SubSeq(vs, 1, n), SubSeq(vs, n + 1, Len(vs)))))
  ELSE IF v.t = "tuple" THEN Then(CloneAll(m, v.x), LAMBDA m1, vs : Ok(m1, Value("tuple", vs)))
  ELSE Ok(m, v)

AllEqual(m, a, b) == Len(a) = Len(b) /\ \A i \in DOMAIN a : eq_value(m, a[i], b[i])
Same(m, a, b) ==
  IF a.t # b.t THEN FALSE
  ELSE CASE a.t = "list" -> AllEqual(m, Items(m, a), Items(m, b))
         [] a.t = "tuple" -> AllEqual(m, a.x, b.x)
         [] a.t \in {"struct", "enum"} -> m.heap[a.x].name = m.heap[b.x].name /\ AllEqual(m, Items(m, a), Items(m, b))
         [] a.t = "dict" ->
              LET x == m.heap[a.x] y == m.heap[b.x]
              IN  Len(x.keys) = Len(y.keys) /\ \A i \in DOMAIN x.keys : \E j \in DOMAIN y.keys :
                    eq_value(m, x.keys[i], y.keys[j]) /\ eq_value(m, x.items[i], y.items[j])
         [] a.t = "errorOf" -> eq_value(m, a.x, b.x)
         [] a.t \in {"func", "closure"} -> FALSE
         [] OTHER -> a.x = b.x

\* what print writes of a value, as signs
ShowAll(m, vs) == FlattenSeq([i \in DOMAIN vs |-> (IF i > 1 THEN << "," >> ELSE << >>) \o display(m, vs[i])])
Displayed(m, v) ==
  CASE v.t \in {"int", "bool"} -> << ToString(v.x) >>
    [] v.t = "str" -> v.x
    [] v.t = "none" -> << "none" >>
    [] v.t = "list" -> << "[" >> \o ShowAll(m, Items(m, v)) \o << "]" >>
    [] v.t = "tuple" -> << "(" >> \o ShowAll(m, v.x) \o << ")" >>
    [] v.t = "dict" -> << "{" >> \o ShowAll(m, m.heap[v.x].keys) \o << ":" >> \o ShowAll(m, Items(m, v)) \o << "}" >>
    [] v.t \in {"struct", "enum"} -> << m.heap[v.x].name, "(" >> \o ShowAll(m, Items(m, v)) \o << ")" >>
    [] v.t = "error" -> << "error" >> \o v.x
    [] v.t = "errorOf" -> << "error" >> \o display(m, v.x)
    [] OTHER -> << "fn" >>

(***************************************************************************)
(* Names.                                                                  *)
(***************************************************************************)
Push(m) == [m EXCEPT !.scopes = Append(@, << >>)]
Pop(m) == [m EXCEPT !.scopes = Front(@)]
With(scope, n, v) == [x \in DOMAIN scope \cup {n} |-> IF x = n THEN v ELSE scope[x]]
Declare(m, n, v) == [m EXCEPT !.scopes[Len(m.scopes)] = With(@, n, v)]
Here(m, n) == n \in DOMAIN Last(m.scopes)
Levels(scopes, n) == {i \in DOMAIN scopes : n \in DOMAIN scopes[i]}
Innermost(scopes, n) == CHOOSE i \in Levels(scopes, n) : \A j \in Levels(scopes, n) : j <= i
Local(m, n) == Levels(m.scopes, n) # {}
Seen(m, n) == Local(m, n) \/ n \in DOMAIN m.globals
lookup(m, n) == IF Local(m, n) THEN m.scopes[Innermost(m.scopes, n)][n] ELSE m.globals[n]
\* a block in a scope of its own, whatever way it ends
Scoped(m, Body(_)) == LET r == Body(Push(m)) IN [r EXCEPT !.m = Pop(@)]

FieldNames(m, o) == IF o.name \in DOMAIN m.p.structs THEN m.p.structs[o.name].fields ELSE m.p.variants[o.name].fields
FieldAt(m, o, n) == {i \in DOMAIN FieldNames(m, o) : FieldNames(m, o)[i].n = n}
PairAt(m, o, key) == {i \in DOMAIN o.keys : eq_value(m, o.keys[i], key)}
First(S) == CHOOSE i \in S : \A j \in S : i <= j

Prelude == {"print", "len", "range", "error", "assert"}
Closure(m, f) ==
  LET used == {n \in free_vars(f) : Local(m, n)}
      all == SetToSeq(used)
      c == CloneAll(m, [i \in DOMAIN all |-> lookup(m, all[i])])
  IN  Ok(c.m, Value("closure", [f |-> f, env |-> [n \in used |-> c.v[PlaceOf(all, n)]]]))

(***************************************************************************)
(* Operators.                                                              *)
(***************************************************************************)
binary(m, op, a, b) ==
  CASE op = "==" -> Ok(m, BoolVal(eq_value(m, a, b)))
    [] op = "!=" -> Ok(m, BoolVal(~eq_value(m, a, b)))
    [] a.t = "int" /\ b.t = "int" -> IF op \in {"/", "%"} /\ b.x = 0 THEN Fail(m, "E0203") ELSE Ok(m, IntOp(op, a.x, b.x))
    [] a.t = "str" /\ b.t = "str" -> IF op = "+" THEN Ok(m, Value("str", a.x \o b.x)) ELSE Fail(m, "E0244")
    [] a.t = "list" /\ b.t = "list" /\ op = "+" -> NewList(m, Items(m, a) \o Items(m, b))
    [] OTHER -> Fail(m, "E0245")

(***************************************************************************)
(* Expressions.                                                            *)
(***************************************************************************)
\* left to right; the value is the sequence of values
Evaluated(m, es) ==
  InTurn(Ok(m, << >>), es, LAMBDA r, e : Then(eval(r.m, e), LAMBDA m1, v : Ok(m1, Append(r.v, v))))
eval_args(m, args) == EvalAll(m, [i \in DOMAIN args |-> args[i].v])
\* the arguments with their values in the place of expressions
Given(args, vs) == [i \in DOMAIN args |-> [n |-> args[i].n, v |-> vs[i]]]

Ident(m, n) ==
  IF Seen(m, n) THEN Ok(m, lookup(m, n))
  ELSE IF n \in Prelude THEN Ok(m, Value("builtin", n))
  ELSE IF n \in DOMAIN m.p.fns THEN Ok(m, Value("func", n))
  ELSE IF n \in DOMAIN m.p.variants THEN
         IF m.p.variants[n].fields = << >> THEN New(m, "enum", Object(n, << >>, << >>)) ELSE Fail(m, "E0219")
  ELSE Fail(m, "E0218")

Unary(m, op, v) ==
  CASE op = "-" /\ v.t = "int" -> Ok(m, IntVal(-v.x))
    [] op = "not" /\ v.t = "bool" -> Ok(m, BoolVal(~v.x))
    [] OTHER -> Fail(m, IF op = "not" THEN "E0202" ELSE "E0219")

\* a condition: Go(machine, truth)
Condition(r, Go(_, _)) == Then(r, LAMBDA m, v : IF v.t = "bool" THEN Go(m, v.x) ELSE Fail(m, "E0202"))
ShortCircuit(m, e) ==
  Condition(eval(m, e.l), LAMBDA m1, l :
    IF l = (e.op = "or") THEN Ok(m1, BoolVal(l)) ELSE Condition(eval(m1, e.r), LAMBDA m2, r : Ok(m2, BoolVal(r))))

Index(m, o, i) ==
  CASE o.t = "list" /\ i.t = "int" -> IF i.x < 0 \/ i.x >= Len(Items(m, o)) THEN Fail(m, "E0204") ELSE Ok(m, Items(m, o)[i.x + 1])
    [] o.t = "dict" -> LET at == PairAt(m, m.heap[o.x], i)
                       IN  Ok(m, IF at = {} THEN None ELSE Items(m, o)[First(at)])
    [] OTHER -> Fail(m, "E0220")

FieldOf(m, o, n) ==
  CASE o.t \in {"struct", "enum"} -> LET at == FieldAt(m, m.heap[o.x], n)
                                     IN  IF at = {} THEN Fail(m, "E0213") ELSE Ok(m, Items(m, o)[First(at)])
    [] o.t = "tuple" -> IF TupleIndex(n) \in DOMAIN o.x THEN Ok(m, o.x[TupleIndex(n)]) ELSE Fail(m, "E0213")
    [] OTHER -> Fail(m, "E0221")

Mixed(s, t) == [i \in 1..(2 * Len(s)) |-> IF i % 2 = 1 THEN s[(i + 1) \div 2] ELSE t[i \div 2]]

eval_expr(m, e) ==
  CASE e.k = "int" -> Ok(m, IntVal(e.v))
    [] e.k = "bool" -> Ok(m, BoolVal(e.v))
    [] e.k = "str" -> Ok(m, Value("str", e.v))
    [] e.k = "none" -> Ok(m, None)
    [] e.k = "lambda" -> Closure(m, e.f)
    [] e.k = "id" -> Ident(m, e.n)
    [] e.k = "list" -> Then(EvalAll(m, e.xs), LAMBDA m1, vs : NewList(m1, vs))
    [] e.k = "tuple" -> Then(EvalAll(m, e.xs), LAMBDA m1, vs : Ok(m1, Value("tuple", vs)))
    [] e.k = "dict" -> Then(EvalAll(m, Mixed(e.keys, e.xs)), LAMBDA m1, vs :
                         New(m1, "dict", Object("", [i \in DOMAIN e.keys |-> vs[2 * i - 1]], [i \in DOMAIN e.xs |-> vs[2 * i]])))
    [] e.k = "un" -> Then(eval(m, e.x), LAMBDA m1, v : Unary(m1, e.op, v))
    [] e.k = "bin" -> IF e.op \in {"and", "or"} THEN ShortCircuit(m, e)
                      ELSE Then(EvalAll(m, << e.l, e.r >>), LAMBDA m1, vs : binary(m1, e.op, vs[1], vs[2]))
    [] e.k = "ifexpr" -> Condition(eval(m, e.c), LAMBDA m1, c : eval(m1, IF c THEN e.t ELSE e.e))
    [] e.k = "try" -> Then(eval(m, e.x), LAMBDA m1, v : IF IsError(v) THEN End(m1, "return", v) ELSE Ok(m1, v))
    [] e.k = "orelse" -> Then(eval(m, e.x), LAMBDA m1, v : IF v.t = "none" THEN eval(m1, e.d) ELSE Ok(m1, v))
    [] e.k = "index" -> Then(EvalAll(m, << e.x, e.i >>), LAMBDA m1, vs : Index(m1, vs[1], vs[2]))
    [] e.k = "field" -> Then(eval(m, e.x), LAMBDA m1, v : FieldOf(m1, v, e.n))
    [] e.k = "call" -> eval_call(m, e.f, e.args)

(***************************************************************************)
(* Calls.  `args` are values here.                                         *)
(***************************************************************************)
Lvalue(e) == e.k \in {"id", "field", "index"}
\* what the last call leaves in its inout parameters goes back to the caller's
\* places: by the number of the argument among those without a name, or by name
Left(m, args, i) ==
  {o \in Elems(m.inout) : IF args[i].n # "" THEN o.n = args[i].n ELSE o.i = PositionIn(args, i)}
writeback_inout(r, args) ==
  Then(r, LAMBDA m, v :
    LET back == SelectSeq([i \in DOMAIN args |-> [e |-> args[i].v, o |-> Left(m, args, i)]],
                          LAMBDA b : b.o # {} /\ Lvalue(b.e))
    IN  Then(InTurn(Ok([m EXCEPT !.inout = << >>], None), back, LAMBDA q, b : store(q.m, b.e, (CHOOSE o \in b.o : TRUE).v)),
             LAMBDA m1, u : Ok(m1, v)))

IsSelf(p) == p.n = "self"
Params(f) == SelectSeq(f.params, LAMBDA p : ~IsSelf(p))

\* the parameters bound to the arguments at the places `at`: owned ones to copies
BindParams(m, f, args, at) ==
  InTurn(Ok(m, << >>), [i \in DOMAIN at |-> i], LAMBDA r, i :
    LET p == Params(f)[i]
        c == IF p.conv = "owned" THEN deep_clone(r.m, args[at[i]].v) ELSE Ok(r.m, args[at[i]].v)
    IN  Ok(c.m, With(r.v, p.n, c.v)))

\* requires and ensures
Holds(m, conds, code) ==
  InTurn(Ok(m, None), conds, LAMBDA r, c : Then(eval(r.m, c), LAMBDA m1, v :
    IF v.t # "bool" THEN Fail(m1, "E0230") ELSE IF v.x THEN Ok(m1, None) ELSE Fail(m1, code)))

\* an enum error that leaves a function whose errors are strings
Converted(m, f, v) ==
  IF v.t = "errorOf" /\ f.ret.k = "fallible" /\ f.ret.e.k = "str" THEN Value("error", display(m, v.x)) ELSE v
Inouts(m, f) ==
  LET ps == Params(f)
  IN  SelectSeq([i \in DOMAIN ps |-> [i |-> i, n |-> ps[i].n, conv |-> ps[i].conv, v |-> lookup(m, ps[i].n)]],
                LAMBDA o : o.conv = "inout")

\* the body between requires and ensures
Body(m, f) ==
  LET r == Then(Contract(m, f.requires, "E0229"), LAMBDA m1, u : exec_all(m1, f.body))
  IN  Then(IF r.how = "return" THEN Ok(r.m, Converted(r.m, f, r.v)) ELSE r, LAMBDA m1, v :
        IF f.ensures = << >> THEN Ok(m1, v)
        ELSE Then(Scoped(m1, LAMBDA m2 : Contract(Declare(m2, "result", v), f.ensures, "E0231")), LAMBDA m2, u : Ok(m2, v)))
\* env is what a closure brought along: one scope, or none
call_fn_with_self(m, f, env, args) ==
  LET at == Placed(Params(f), args)
  IN  IF m.depth >= MaxDepth THEN Fail(m, "E0224")
      ELSE IF \E i \in DOMAIN at : at[i] = 0 THEN Fail(m, "E0226")
      ELSE IF Len(Positional(args)) > Len(at) THEN Fail(m, "E0227")
      ELSE IF ~(Named(args) \subseteq {p.n : p \in Elems(Params(f))}) THEN Fail(m, "E0228")
      ELSE Then(BindParams(m, f, args, at), LAMBDA m1, own :
             Then(Body([m1 EXCEPT !.scopes = env \o << own >>, !.depth = @ + 1], f), LAMBDA m2, v :
               Ok([m2 EXCEPT !.inout = Inouts(m2, f), !.scopes = m.scopes, !.depth = m.depth], v)))

\* a method finds its object under the name self
call_method_fn(m, f, self, args) ==
  Then(call_fn(m, f, << With(<< >>, "self", self) >>, args), LAMBDA m1, v : Ok(m1, v))

Env(c) ==
  IF c.f.lambda THEN << c.env >> ELSE << With(c.env, c.f.name, Value("closure", c)) >>
call_closure(m, c, args) == call_fn(m, c.f, Env(c), args)

\* For each field the number of its argument, or 0: one without a name goes to
\* the field of its own number, whatever the others name (Placed: C does not).
FieldArgs(fields, args) ==
  LET plain == Positional(args)
  IN  [k \in DOMAIN fields |-> IF fields[k].n \in Named(args) THEN ArgNamed(args, fields[k].n)
                               ELSE IF k \in DOMAIN plain THEN plain[k] ELSE 0]

construct_struct(m, n, args) ==
  LET fields == m.p.structs[n].fields
      at == FieldArgs(fields, args)
      Item(r, i) ==
        IF at[i] # 0 THEN LET c == deep_clone(r.m, args[at[i]].v) IN Ok(c.m, Append(r.v, c.v))
        ELSE IF fields[i].default # << >> THEN Then(eval(r.m, fields[i].default[1]), LAMBDA m1, v : Ok(m1, Append(r.v, v)))
        ELSE Fail(r.m, "E0232")
  IN  Then(InTurn(Ok(m, << >>), [i \in DOMAIN at |-> i], Item), LAMBDA m1, vs :
        IF Named(args) \subseteq {f.n : f \in Elems(fields)} THEN New(m1, "struct", Object(n, << >>, vs)) ELSE Fail(m1, "E0233"))

construct_variant(m, n, args) ==
  LET at == FieldArgs(m.p.variants[n].fields, args)
      Item(r, i) == IF at[i] = 0 THEN Fail(r.m, "E0234") ELSE LET c == deep_clone(r.m, args[at[i]].v) IN Ok(c.m, Append(r.v, c.v))
  IN  Then(InTurn(Ok(m, << >>), [i \in DOMAIN at |-> i], Item), LAMBDA m1, vs : New(m1, "enum", Object(n, << >>, vs)))

call_builtin(m, n, args) ==
  LET vs == [i \in DOMAIN args |-> args[i].v] IN
  CASE Named(args) # {} -> Fail(m, "E0236")
    [] n = "print" -> Ok([m EXCEPT !.out = @ \o FlattenSeq([i \in DOMAIN vs |-> display(m, vs[i])])], None)
    [] n = "len" -> IF vs[1].t \in {"list", "dict"} THEN Ok(m, IntVal(Len(Items(m, vs[1]))))
                    ELSE IF vs[1].t = "str" THEN Ok(m, IntVal(Len(vs[1].x))) ELSE Fail(m, "E0241")
    [] n = "range" -> NewList(m, [i \in 1..(IF vs[1].x < 0 THEN 0 ELSE vs[1].x) |-> IntVal(i - 1)])
    [] n = "error" -> IF vs[1].t = "enum" THEN LET c == deep_clone(m, vs[1]) IN Ok(c.m, Value("errorOf", c.v))
                      ELSE Ok(m, Value("error", display(m, vs[1])))
    [] n = "assert" -> IF vs[1].t # "bool" THEN Fail(m, "E0202") ELSE IF vs[1].x THEN Ok(m, None) ELSE Fail(m, "E0242")

\* any value that can be called
Called(m, f, args) ==
  CASE f.t = "func" -> call_fn(m, m.p.fns[f.x], << >>, args)
    [] f.t = "closure" -> call_closure(m, f.x, args)
    [] f.t = "builtin" -> call_builtin(m, f.x, args)
    [] OTHER -> Fail(m, "E0223")
SetItems(m, v, items) == [m EXCEPT !.heap[v.x].items = items]
Unnamed1(v) == << [n |-> "", v |-> v] >>

map(m, xs, f) ==
  Then(InTurn(Ok(m, << >>), xs, LAMBDA r, x : Then(call_value(r.m, f, Unnamed1(x)), LAMBDA m1, y :
         LET c == deep_clone(m1, y) IN Ok(c.m, Append(r.v, c.v)))), LAMBDA m1, vs : NewList(m1, vs))
filter(m, xs, f) ==
  Then(InTurn(Ok(m, << >>), xs, LAMBDA r, x : Then(call_value(r.m, f, Unnamed1(x)), LAMBDA m1, y :
         IF y.t = "bool" /\ y.x THEN LET c == deep_clone(m1, x) IN Ok(c.m, Append(r.v, c.v)) ELSE Ok(m1, r.v))),
       LAMBDA m1, vs : NewList(m1, vs))

\* what every list and dict can do
call_builtin_method(m, o, n, args) ==
  LET items == Items(m, o)
      a == args[1].v
      at == PairAt(m, m.heap[o.x], a)
  IN
  CASE n = "len" -> Ok(m, IntVal(Len(items)))
    [] o.t = "list" /\ n = "push" -> LET c == deep_clone(m, a) IN Ok(SetItems(c.m, o, Append(items, c.v)), None)
    [] o.t = "list" /\ n = "pop" -> IF items = << >> THEN Ok(m, None) ELSE Ok(SetItems(m, o, Front(items)), Last(items))
    [] o.t = "list" /\ n = "reverse" -> Ok(SetItems(m, o, Reverse(items)), None)
    [] o.t = "list" /\ n = "clear" -> Ok(SetItems(m, o, << >>), None)
    [] o.t = "list" /\ n = "contains" -> Ok(m, BoolVal(\E i \in DOMAIN items : eq_value(m, items[i], a)))
    [] o.t = "list" /\ n = "map" -> map(m, items, a)
    [] o.t = "list" /\ n = "filter" -> filter(m, items, a)
    [] o.t = "dict" /\ n = "set" ->
         Ok([m EXCEPT !.heap[o.x] = IF at = {} THEN Object("", Append(@.keys, a), Append(@.items, args[2].v))
                                    ELSE [@ EXCEPT !.items[First(at)] = args[2].v]], None)
    [] o.t = "dict" /\ n = "has" -> Ok(m, BoolVal(at # {}))
    [] o.t = "dict" /\ n = "get" -> Ok(m, IF at = {} THEN args[2].v ELSE items[First(at)])
    [] o.t = "dict" /\ n = "keys" -> NewList(m, m.heap[o.x].keys)
    [] OTHER -> Fail(m, "E0235")

\* methods of enums are left out
Methods(m, o) == IF o.t = "struct" THEN m.p.structs[m.heap[o.x].name].methods ELSE << >>
call_method(m, o, n, args) ==
  LET cleared == [m EXCEPT !.inout = << >>]
      field == IF o.t = "struct" THEN FieldAt(m, m.heap[o.x], n) ELSE {}
  IN  CASE n \in DOMAIN Methods(m, o) -> call_method_fn(cleared, Methods(m, o)[n], o, args)
        [] field # {} /\ Items(m, o)[First(field)].t \in {"func", "closure"} ->
             Then(call_value(m, Items(m, o)[First(field)], args), LAMBDA m1, v : Ok([m1 EXCEPT !.inout = << >>], v))
        [] o.t \in {"list", "dict"} -> builtin_method(cleared, o, n, args)
        [] OTHER -> Fail(m, "E0235")

\* the name is looked up before the arguments are evaluated; `args` are the
\* expressions, `given` their values
CallNamed(m, n, v, given, args) ==
  CASE v.t = "func" -> writeback_inout(call_fn(m, m.p.fns[v.x], << >>, given), args)
    [] v.t = "closure" -> call_closure(m, v.x, given)
    [] n \in DOMAIN m.p.fns -> writeback_inout(call_fn(m, m.p.fns[n], << >>, given), args)
    [] n \in DOMAIN m.p.structs -> construct_struct(m, n, given)
    [] n \in DOMAIN m.p.variants -> construct_variant(m, n, given)
    [] v.t = "builtin" -> call_builtin(m, v.x, given)
    [] n \in Prelude -> call_builtin(m, n, given)
    [] OTHER -> Fail(m, "E0222")

Call(m, f, args) ==
  CASE f.k = "field" ->
         Then(eval(m, f.x), LAMBDA m1, o : Then(eval_args(m1, args), LAMBDA m2, vs :
           writeback_inout(call_method(m2, o, f.n, Given(args, vs)), args)))
    [] f.k = "id" ->
         LET v == IF Seen(m, f.n) THEN lookup(m, f.n) ELSE None
         IN  Then(eval_args(m, args), LAMBDA m1, vs : call_named(m1, f.n, v, Given(args, vs), args))
    [] OTHER ->
         Then(eval(m, f), LAMBDA m1, c : Then(eval_args(m1, args), LAMBDA m2, vs :
           LET r == call_value(m2, c, Given(args, vs)) IN IF c.t = "func" THEN writeback_inout(r, args) ELSE r))

(***************************************************************************)
(* Statements.                                                             *)
(***************************************************************************)
\* whether o.f is an array of fixed length is found out by evaluating o again
RECURSIVE arr_elem_te(_, _)
arr_elem_te(m, e) ==
  IF e.k = "field" THEN eval(m, e.x) ELSE IF e.k = "index" THEN arr_elem_te(m, e.x) ELSE Ok(m, None)

exec_store(m, t, v) ==
  CASE t.k = "id" -> IF Local(m, t.n) THEN Ok([m EXCEPT !.scopes[Innermost(m.scopes, t.n)][t.n] = v], None) ELSE Fail(m, "E0212")
    [] t.k = "field" ->
         Then(eval(m, t.x), LAMBDA m1, o :
           IF o.t # "struct" THEN Fail(m1, "E0214")
           ELSE LET at == FieldAt(m1, m1.heap[o.x], t.n)
                IN  IF at = {} THEN Fail(m1, "E0213") ELSE Ok([m1 EXCEPT !.heap[o.x].items[First(at)] = v], None))
    [] t.k = "index" ->
         Then(EvalAll(m, << t.x, t.i >>), LAMBDA m0, vs : Then(arr_elem_te(m0, t.x), LAMBDA m1, u1 :
           LET o == vs[1] i == vs[2] IN
           CASE o.t = "list" /\ i.t = "int" ->
                  IF i.x < 0 \/ i.x >= Len(Items(m1, o)) THEN Fail(m1, "E0204")
                  ELSE Ok([m1 EXCEPT !.heap[o.x].items[i.x + 1] = v], None)
             [] o.t = "dict" -> Then(builtin_method(m1, o, "set", << [n |-> "", v |-> i], [n |-> "", v |-> v] >>), LAMBDA m2, u : Ok(m2, None))
             [] OTHER -> Fail(m1, "E0215")))
    [] OTHER -> Fail(m, "E0106")

exec_in_order(m, body) == InTurn(Ok(m, None), body, LAMBDA r, st : exec(r.m, st))
exec_block(m, body) == Done(Scoped(m, LAMBDA m1 : exec_all(m1, body)))

\* The value of an expression, or what its catch clause gives: a sequence of
\* at most one value.
Caught(v) == IF v.t = "errorOf" THEN v.x ELSE Value("str", v.x)
CatchClause(m, c, v, wanted) ==
  LET fallback == IF wanted THEN catch_fallback(c) ELSE << >>
      body == SubSeq(c.body, 1, Len(c.body) - Len(fallback))
  IN  Scoped(m, LAMBDA m1 : Then(exec_all(Declare(m1, c.n, Caught(v)), body), LAMBDA m2, u : EvalAll(m2, fallback)))
eval_with_catch(m, e, catch, wanted) ==
  Then(eval(m, e), LAMBDA m1, v :
    IF IsError(v) /\ catch # << >> THEN CatchClause(m1, catch[1], v, wanted) ELSE Ok(m1, << v >>))

ExecLet(m, st) ==
  Then(eval_with_catch(m, st.x, st.catch, TRUE), LAMBDA m1, vs :
    IF vs = << >> THEN Ok(m1, None)
    ELSE IF Here(m1, st.n) THEN Fail(m1, "E0211")
    ELSE LET c == deep_clone(m1, vs[1]) IN Ok(Declare(c.m, st.n, c.v), None))

ExecLetTuple(m, st) ==
  Then(eval(m, st.x), LAMBDA m1, v :
    IF v.t # "tuple" THEN Fail(m1, "E0212")
    ELSE IF Len(v.x) # Len(st.ns) THEN Fail(m1, "E0213")
    ELSE InTurn(Ok(m1, None), [i \in DOMAIN st.ns |-> i], LAMBDA r, i :
           IF Here(r.m, st.ns[i]) THEN Fail(r.m, "E0211")
           ELSE LET c == deep_clone(r.m, v.x[i]) IN Ok(Declare(c.m, st.ns[i], c.v), None)))

ExecAssign(m, st) ==
  Then(eval_with_catch(m, st.x, st.catch, TRUE), LAMBDA m1, vs :
    IF vs = << >> THEN Ok(m1, None)
    ELSE Then(IF st.op = "" THEN Ok(m1, vs[1])
              ELSE Then(eval(m1, st.t), LAMBDA m2, cur : binary(m2, st.op, cur, vs[1])),
              LAMBDA m2, v : LET c == deep_clone(m2, v) IN store(c.m, st.t, c.v)))

RECURSIVE Arms(_, _, _)
Arms(m, arms, els) ==
  IF arms = << >> THEN (IF els = << >> THEN Ok(m, None) ELSE exec_block(m, els[1]))
  ELSE Condition(eval(m, arms[1].c), LAMBDA m1, c : IF c THEN exec_block(m1, arms[1].body) ELSE Arms(m1, Tail(arms), els))

\* what a loop makes of the end of its body: Again(machine), or the loop ends
Round(r, Again(_)) ==
  IF r.how \in {"ok", "continue"} THEN Again(r.m) ELSE IF r.how = "break" THEN Ok(r.m, None) ELSE r

RECURSIVE While(_, _, _), ForEach(_, _, _)
While(m, st, rounds) ==
  IF rounds = 0 THEN Fail(m, "endless")
  ELSE Condition(eval(m, st.c), LAMBDA m1, c :
         IF c THEN Round(exec_block(m1, st.body), LAMBDA m2 : While(m2, st, rounds - 1)) ELSE Ok(m1, None))

\* one round for each of the tuples of values
ForEach(m, st, rows) ==
  IF rows = << >> THEN Ok(m, None)
  ELSE LET Bound(m1) == IF Len(st.vs) = 1 THEN Declare(m1, st.vs[1], rows[1][1])
                        ELSE Declare(Declare(m1, st.vs[1], rows[1][1]), st.vs[2], rows[1][2])
       IN  Round(Scoped(m, LAMBDA m1 : exec_all(Bound(m1), st.body)), LAMBDA m2 : ForEach(m2, st, Tail(rows)))

\* what is iterated over is read once, before the first round
ExecFor(m, st) ==
  Then(eval(m, st.x), LAMBDA m1, v :
    CASE Len(st.vs) = 2 -> IF v.t # "dict" THEN Fail(m1, "E0216")
                           ELSE LET o == m1.heap[v.x] IN ForEach(m1, st, [i \in DOMAIN o.keys |-> << o.keys[i], o.items[i] >>])
      [] v.t = "list" -> LET items == Items(m1, v) IN ForEach(m1, st, [i \in DOMAIN items |-> << items[i] >>])
      [] v.t = "str" -> ForEach(m1, st, [i \in DOMAIN v.x |-> << Value("str", << v.x[i] >>) >>])
      [] OTHER -> Fail(m1, "E0216"))

\* the names a pattern binds, with their values, when it matches
NoMatch == << "no" >>
match_pattern(m, p, v) ==
  CASE p.p = "any" -> Ok(m, << >>)
    [] p.p = "bind" -> Ok(m, << << p.n, v >> >>)
    [] p.p = "lit" -> Then(eval(m, p.x), LAMBDA m1, l : Ok(m1, IF eq_value(m1, l, v) THEN << >> ELSE NoMatch))
    [] p.p = "variant" ->
         IF v.t # "enum" \/ m.heap[v.x].name # p.n THEN Ok(m, NoMatch)
         ELSE IF p.ns # << >> /\ Len(p.ns) # Len(Items(m, v)) THEN Fail(m, "E0217")
         ELSE Ok(m, [i \in DOMAIN p.ns |-> << p.ns[i], Items(m, v)[i] >>])

RECURSIVE Cases(_, _, _)
Cases(m, cases, v) ==
  IF cases = << >> THEN Fail(m, "E0206")
  ELSE Then(match_pattern(m, cases[1].p, v), LAMBDA m1, binds :
         IF binds = NoMatch THEN Cases(m1, Tail(cases), v)
         ELSE LET Bound(m2) == FoldLeft(LAMBDA m3, b : Declare(m3, b[1], b[2]), m2, binds)
              IN  Done(Scoped(m1, LAMBDA m2 : exec_all(Bound(m2), cases[1].body))))

exec_stmt(m, st) ==
  CASE st.s = "let" -> ExecLet(m, st)
    [] st.s = "lettuple" -> ExecLetTuple(m, st)
    [] st.s = "assign" -> ExecAssign(m, st)
    [] st.s = "expr" -> Done(eval_with_catch(m, st.x, st.catch, FALSE))
    [] st.s = "if" -> Arms(m, st.arms, st.els)
    [] st.s = "while" -> While(m, st, MaxRounds)
    [] st.s = "for" -> ExecFor(m, st)
    [] st.s = "match" -> Then(eval(m, st.x), LAMBDA m1, v : Cases(m1, st.cases, v))
    [] st.s = "return" -> Then(EvalAll(m, st.x), LAMBDA m1, vs : End(m1, "return", IF vs = << >> THEN None ELSE vs[1]))
    [] st.s \in {"break", "continue"} -> End(m, st.s, None)
    [] st.s = "fn" -> Then(Closure(m, st.f), LAMBDA m1, c : Ok(Declare(m1, st.f.name, c), None))

(***************************************************************************)
(* A program: top-level statements, whose names become global, then main.  *)
(***************************************************************************)
Machine(p) == [p |-> p, heap |-> << >>, globals |-> << >>, scopes |-> << << >> >>, inout |-> << >>, depth |-> 0, out |-> << >>]
ToGlobal(m) == [m EXCEPT !.globals = Last(m.scopes) @@ @, !.scopes = << << >> >>]
run_main(m, p) ==
  Then(InTurn(Ok(m, None), p.tops, LAMBDA r, st : Then(exec(r.m, st), LAMBDA m1, u : Ok(ToGlobal(m1), u))), LAMBDA m1, u :
    call_fn(m1, p.fns["main"], << >>, << >>))

Walk(what, m, x) ==
  CASE what = "clone" -> Cloned(m, x)
    [] what = "equal" -> Same(m, x[1], x[2])
    [] what = "display" -> Displayed(m, x)
    [] what = "eval call" -> Call(m, x[1], x[2])
    [] what = "eval" -> eval_expr(m, x)
    [] what = "eval all" -> Evaluated(m, x)
    [] what = "exec" -> exec_stmt(m, x)
    [] what = "exec all" -> exec_in_order(m, x)
    [] what = "store" -> exec_store(m, x[1], x[2])
    [] what = "contract" -> Holds(m, x[1], x[2])
    [] what = "call named" -> CallNamed(m, x[1], x[2], x[3], x[4])
    [] what = "call" -> call_fn_with_self(m, x[1], x[2], x[3])
    [] what = "call value" -> Called(m, x[1], x[2])
    [] what = "builtin" -> call_builtin_method(m, x[1], x[2], x[3])
    [] what = "program" -> run_main(m, x)

run_program(p) ==
  LET r == Walk("program", Machine(p), p)
  IN  [out |-> r.m.out,
       end |-> IF r.how = "fail" THEN r.v.x ELSE IF r.how = "ok" /\ IsError(r.v) THEN "error" ELSE r.how]
=============================================================================
