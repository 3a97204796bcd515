--------------------------------- MODULE Cgen ---------------------------------
(***************************************************************************)
(* The C generator (cgen.rs): what C `siskin build` writes for a program.  *)
(* It walks the tree a second time, asks the checker's `infer` again for   *)
(* types, and writes C in which every Siskin value has a C type of its own.*)
(*                                                                         *)
(* The context is the checker's, with `ren` beside the scopes: what C      *)
(* stands for a name that is narrowed or a pointer.  Its errs are those of *)
(* the generator (C0001 ..) and "cc": C that does not compile.             *)
(* C expressions, by c:  lit (v)   var (n)   star (x)   mem (x, f)         *)
(*   elem (x, i)   addr (x)   make (t, name, xs)   op (op, xs)   eq (xs)   *)
(*   and, or, tern (xs)   copy (t, x)   list, dict (xs)   str, assert (x)  *)
(*   call (key, xs)   icall (f, xs)   clo (f, caps)   try (x, repr)        *)
(*   orelse (x, d)   rt (name, at, xs, t): of the runtime   print (xs)     *)
(*   body (f, xs)                                                          *)
(* `xs` are mostly operands: [xs, pre, fixed], pre those that are computed *)
(* first and fixed when C fixes the order of the others.                   *)
(* C statements, by s:  decl (n, x)   put (at, x)   do (x)   if (x, a, b)  *)
(*   while (x, body)   range, each (ns, x, body)   match (x, cases)        *)
(*   catch (n, x, err, bad, value, good)   need (x, code)   ret (x)        *)
(*   break   continue                                                      *)
(***************************************************************************)
EXTENDS Types, Outcome

\* an expression generated: its C, the type of that C, the errors
G(x, t, errs) == [x |-> x, t |-> t, errs |-> errs]
Refused(code) == G([c |-> "lit", v |-> None], TInt, {code})
Lit(v) == [c |-> "lit", v |-> v]
Var(n) == [c |-> "var", n |-> n]
Mem(x, f) == [c |-> "mem", x |-> x, f |-> f]
Make(t, name, xs) == [c |-> "make", t |-> t, name |-> name, xs |-> xs]
Operands(xs, pre, fixed) == [xs |-> xs, pre |-> pre, fixed |-> fixed]
InOrder(xs) == Operands(xs, {}, TRUE)
AnyOrder(xs) == Operands(xs, {}, FALSE)
Rt(name, at, xs, t) == [c |-> "rt", name |-> name, at |-> at, xs |-> xs, t |-> t]

\* As in the checker, the functions that call each other meet in one; what it
\* does not know it asks the checker.
RECURSIVE Emit(_, _, _)
gen(c, e, want) == Emit("gen", c, << e, want >>)
lvalue(c, e) == Emit("place", c, e)
call(c, f, args, want, pre) == Emit("call", c, << f, args, want, pre >>)
gen_closure(c, f, want) == Emit("closure", c, << f, want >>)
gen_stmts(c, body) == Emit("statements", c, body)
stmt(c, st) == Emit("statement", c, st)
Bound(c, e, t) == Emit("bound", c, << e, t >>)
gen_fn(p, f, self, subst) == Emit("function", p, << f, self, subst >>)
gen_program(p) == Emit("program", p, << >>)
Type(c, e) == Emit("infer", c, << e, << >> >>).t
Facts(c, cond, positive, writes) == Emit("narrowing", c, << cond, positive, writes >>)

(***************************************************************************)
(* C types.                                                                *)
(***************************************************************************)
RECURSIVE ctype(_), TypeErrs(_), needs_copy(_, _), concrete(_), Comparable(_, _)
ctype(t) ==
  CASE t.k \in {"list", "dict", "fn"} -> Simple(t.k)
    [] t.k = "fallible" -> FallOf(IF t.t \in {TUnit, Unknown} THEN TInt ELSE ctype(t.t), IF t.e.k = "enum" THEN t.e ELSE TStr)
    [] OTHER -> Rebuilt(t, [i \in DOMAIN Inside(t) |-> ctype(Inside(t)[i])])
TypeErrs(t) ==
  CASE t.k \in {"unknown", "var"} -> {"C0001"} [] t = TNone -> {"C0011"}
    [] t.k \in {"list", "dict"} -> {}
    [] t.k = "fallible" -> IF t.t \in {TUnit, Unknown} THEN {} ELSE TypeErrs(t.t)
    [] OTHER -> UNION {TypeErrs(Inside(t)[i]) : i \in DOMAIN Inside(t)}
\* C takes a value of one type for another only among numbers
SameInC(a, b) == (a = b \/ {a, b} \subseteq {TInt, TBool}) /\ b # TUnit
CFits(to, from) == SameInC(ctype(to), ctype(from))
\* initialising something of type t
Init1(g, t) == G(g.x, t, g.errs \cup TypeErrs(t) \cup ErrorIf(~CFits(t, g.t), "cc"))

concrete(t) == t.k \notin {"unknown", "var", "unit", "none"} /\ \A i \in DOMAIN Inside(t) : concrete(Inside(t)[i])
needs_copy(p, t) ==
  CASE t.k \in {"list", "dict"} -> TRUE [] t.k \in {"opt", "fallible"} -> needs_copy(p, t.t)
    [] t.k = "tuple" -> \E i \in DOMAIN t.ts : needs_copy(p, t.ts[i])
    [] t.k = "struct" -> \E f \in Elems(p.structs[t.n].fields) : needs_copy(p, f.ty)
    [] OTHER -> FALSE
\* what == has a C function for
Comparable(p, t) ==
  CASE t.k \in {"list", "opt", "tuple"} -> \A i \in DOMAIN Inside(t) : Comparable(p, Inside(t)[i])
    [] t.k = "dict" -> Comparable(p, t.v)
    [] t.k = "struct" -> \A f \in Elems(p.structs[t.n].fields) : Comparable(p, f.ty)
    [] t.k = "enum" -> \A v \in VariantsOf(p, t.n) : \A f \in Elems(p.variants[v].fields) : f.ty.k = "enum" \/ Comparable(p, f.ty)
    [] OTHER -> t.k \in {"int", "bool", "str", "none", "unit"}

(***************************************************************************)
(* Values made to fit, and copied.                                         *)
(***************************************************************************)
NoValue == Make("opt", "", InOrder(<< Lit(BoolVal(FALSE)), Lit(None) >>))
Wrapped(t, x) == Make(t, "", InOrder(<< Lit(BoolVal(TRUE)), x >>))
\* deviation: a value that becomes optional is not wrapped
coerce_bare(g, from, to) == IF IsOpt(to) /\ from = TNone THEN G(NoValue, to, g.errs) ELSE g
coerce(g, from, to) ==
  CASE from = to \/ to.k \notin {"opt", "fallible"} -> g
    [] IsOpt(to) /\ from = TNone -> G(NoValue, to, g.errs)
    [] IsOpt(to) /\ ~IsOpt(from) -> G(Wrapped("opt", g.x), to, Init1(g, to.t).errs)
    [] IsFall(to) /\ ~IsFall(from) -> G(Wrapped("res", g.x), to, Init1(g, IF to.t = TUnit THEN TInt ELSE to.t).errs)
    [] OTHER -> g

copy_value(c, g, t) == IF needs_copy(c.p, t) THEN [g EXCEPT !.x = [c |-> "copy", t |-> t, x |-> @]] ELSE g
\* deviation: the result of any call is taken for new
is_fresh_call(c, e, t) == e.k \in {"list", "dict", "call"}
is_fresh(c, e, t) ==
  \/ e.k = "list" /\ t.k = "list" /\ ~needs_copy(c.p, t.t)
  \/ e.k = "dict" /\ t.k = "dict" /\ ~needs_copy(c.p, t.v)
  \/ e.k = "call" /\ e.f.k = "field" /\ e.f.n = "keys"
  \/ e.k = "call" /\ e.f.k = "id" /\ e.f.n = "range" /\ ~Known(c, "range") /\ "range" \notin DOMAIN c.p.fns
\* deviation: what is bound shares its lists with where it comes from
bind_copy_shared(c, g, e, t) == g
bind_copy(c, g, e, t) == IF is_fresh(c, e, t) THEN g ELSE copy_value(c, g, t)

(***************************************************************************)
(* Names.  A renaming is looked up on its own, past names declared further *)
(* in.                                                                     *)
(***************************************************************************)
Enter(c) == [push_scope(c) EXCEPT !.ren = Append(@, << >>)]
Leave(c) == [pop_scope(c) EXCEPT !.ren = Front(@)]
Rename(c, n, x) == [c EXCEPT !.ren[Len(c.ren)] = (n :> x) @@ @]
cname(c, n) ==
  LET at == {i \in DOMAIN c.ren : n \in DOMAIN c.ren[i]}
  IN  IF at = {} THEN Var(n) ELSE c.ren[CHOOSE i \in at : \A j \in at : j <= i][n]
\* what a name stands for does not fit one declared again further in
Outdated(c, n) ==
  LET at == {i \in DOMAIN c.ren : n \in DOMAIN c.ren[i]}
  IN  ErrorIf(at # {} /\ \A i \in at : i < Depth(c, << n >>), "cc")
apply_narrow(c, ns) ==
  FoldLeft(LAMBDA d, n : Bind(IF Narrower(n.path) THEN d ELSE Rename(d, n.path[1], Mem(cname(c, n.path[1]), 2)), n.path, n.t, FALSE), c, ns)
FieldAt(c, t, n) == IF t.k = "tuple" THEN TupleIndex(n) ELSE CHOOSE i \in DOMAIN FieldsOf(c.p, t) : FieldsOf(c.p, t)[i].n = n

(***************************************************************************)
(* Expressions.  `want` is the type expected, or nothing.                  *)
(***************************************************************************)
RECURSIVE has_call(_)
Errs(gs) == UNION {gs[i].errs : i \in DOMAIN gs}
Xs(gs) == [i \in DOMAIN gs |-> gs[i].x]
Truth(g) == Init1(g, TBool)

has_call(e) == e.k = "call" \/ \E x \in Children(e) : has_call(x)
\* when two or more operands call something, those are computed first, in order
Subs(e) ==
  CASE e.k = "call" -> [i \in DOMAIN e.args |-> e.args[i].v] [] e.k = "bin" /\ e.op \notin {"and", "or"} -> << e.l, e.r >>
    [] e.k \in {"list", "tuple"} -> e.xs [] e.k = "dict" -> e.keys \o e.xs [] OTHER -> << >>
Hoisted(c, e) ==
  LET h == {i \in DOMAIN Subs(e) : has_call(Subs(e)[i]) /\ Subs(e)[i].k \notin {"id", "field", "index"}}
  IN  IF Cardinality(h) >= 2 /\ \A i \in h : concrete(Type(c, Subs(e)[i])) THEN h ELSE {}
\* an operand: one computed before has no expected type
Operand(c, e, i, want, pre) == gen(c, e, IF i \in pre THEN << >> ELSE want)

GenIdent(c, n) ==
  IF n \in DOMAIN c.p.variants /\ c.p.variants[n].fields = << >> THEN G(Make("enum", n, InOrder(<< >>)), Nominal("enum", c.p.variants[n].enum), {})
  ELSE IF ~Known(c, n) /\ n \in DOMAIN c.p.fns
  THEN IF c.p.fns[n].generics # {} THEN Refused("C0023")
       ELSE G([c |-> "clo", f |-> [key |-> << "", n, << >> >>, inout |-> [i \in DOMAIN c.p.fns[n].params |-> c.p.fns[n].params[i].conv = "inout"]], caps |-> << >>],
              FnOf(ParamTypes(c.p.fns[n]), c.p.fns[n].ret), {})
  ELSE G(cname(c, n), IF Known(c, n) THEN TypeIn(c, n) ELSE Unknown, Outdated(c, n))

GenList(c, e, want, pre) ==
  LET mine == Type(c, e)
      t == IF mine = ListOf(Unknown) /\ want # << >> THEN want[1] ELSE mine
      of == IF t.k = "list" THEN t.t ELSE TInt
      gs == [i \in DOMAIN e.xs |-> Init1(coerce(Operand(c, e.xs[i], i, << of >>, pre), Type(c, e.xs[i]), of), of)]
  IN  G([c |-> "list", xs |-> Operands(Xs(gs), pre, TRUE)], t, Errs(gs) \cup TypeErrs(of))

\* the items of a tuple and the pairs of a dict are not made to fit
GenTuple(c, e, want, pre) ==
  LET ts == IF want # << >> /\ want[1].k = "tuple" THEN want[1].ts ELSE Type(c, e).ts
      gs == [i \in DOMAIN e.xs |-> Init1(Operand(c, e.xs[i], i, << ts[i] >>, pre), ts[i])]
  IN  G(Make("tuple", "", Operands(Xs(gs), pre, TRUE)), TupleType(ts), Errs(gs))
GenDict(c, e, want, pre) ==
  LET mine == Type(c, e)
      t == IF Unknown \in {mine.t, mine.v} /\ want # << >> /\ want[1].k = "dict" THEN want[1] ELSE mine
      n == Len(e.keys)
      gs == [i \in 1..(2 * n) |-> LET j == (i + 1) \div 2 IN
               IF i % 2 = 1 THEN Init1(Operand(c, e.keys[j], j, << >>, pre), t.t) ELSE Init1(Operand(c, e.xs[j], n + j, << >>, pre), t.v)]
      Place(i) == IF i <= n THEN 2 * i - 1 ELSE 2 * (i - n)
  IN  G([c |-> "dict", xs |-> Operands(Xs(gs), {Place(i) : i \in pre}, TRUE)], t, Errs(gs) \cup TypeErrs(t.t) \cup TypeErrs(t.v))

\* x == none looks at the variable itself, not at what its name stands for
NoneTest(c, e, want) ==
  LET x == IF e.r.k = "none" THEN e.l ELSE e.r
      g == IF x.k = "id" THEN G(Var(x.n), TypeIn(c, x.n), ErrorIf(cname(c, x.n).c = "star", "cc")) ELSE gen(c, x, want)
      has == Mem(g.x, 1)
  IN  G(IF e.op = "!=" THEN has ELSE [c |-> "op", op |-> "not", xs |-> InOrder(<< has >>)], TBool, g.errs)
Deep == {"list", "tuple", "dict", "struct", "enum", "opt"}
GenBinary(c, e, want, pre) ==
  LET at == Type(c, e.l)
      bt == Type(c, e.r)
      a == Operand(c, e.l, 1, << >>, pre)
      b == IF e.op = "and"
           THEN gen(apply_narrow(Enter(c), Facts(c, e.l, TRUE, call_writes_expr(e.r, inout_callables(c.p)))), e.r, << >>)
           ELSE Operand(c, e.r, 2, << >>, pre)
      errs == a.errs \cup b.errs
      both == Operands(<< a.x, b.x >>, pre, FALSE)
      t == IF IsOpt(bt) THEN bt ELSE at
      ca == Init1(coerce(a, at, t), t)
      cb == Init1(coerce(b, bt, t), t)
      Eq(xs) == LET x == [c |-> "eq", xs |-> xs] IN IF e.op = "==" THEN x ELSE [c |-> "op", op |-> "not", xs |-> InOrder(<< x >>)]
  IN  CASE e.op \in {"==", "!="} /\ (e.l.k = "none" \/ e.r.k = "none") /\ IsOpt(IF e.r.k = "none" THEN at ELSE bt) -> NoneTest(c, e, want)
        [] e.op \in {"and", "or"} -> G([c |-> e.op, xs |-> << a.x, b.x >>], TBool, Truth(a).errs \cup Truth(b).errs)
        [] at = TStr /\ e.op \in {"==", "!="} -> G(Eq(both), TBool, errs \cup Init1(b, TStr).errs)
        [] at # TStr /\ e.op \in {"==", "!="} /\ (at.k \in Deep \/ bt.k \in Deep) ->
             G(Eq(Operands(<< ca.x, cb.x >>, pre, FALSE)), TBool, ca.errs \cup cb.errs \cup ErrorIf(~Comparable(c.p, t), "C0012"))
        [] at # TStr /\ e.op \in {"==", "!="} /\ at.k \notin Deep /\ bt.k \notin Deep ->
             G(Eq(both), TBool, errs \cup ErrorIf(ctype(at).k \notin {"int", "bool"}, "cc"))
        [] at = TStr /\ e.op \notin {"+", "==", "!=", "and", "or"} -> Refused("C0012")
        [] OTHER -> G([c |-> "op", op |-> e.op, xs |-> both], IF e.op \in {"<", "<=", ">", ">="} THEN TBool ELSE at,
                      errs \cup ErrorIf(ctype(at).k \notin {"int", "bool", "str"}, "cc"))

GenIndex(c, e) ==
  LET ot == Type(c, e.x)
      i == gen(c, e.i, << >>)
      o == gen(c, e.x, << >>)
      errs == i.errs \cup o.errs
  IN  CASE ot.k = "dict" -> G(Rt("at", Lit(None), InOrder(<< o.x, i.x >>), ot.v), OptOf(ot.v), errs \cup Init1(i, ot.t).errs \cup TypeErrs(ot.v))
        [] ot.k = "list" /\ e.x.k = "id" -> G([c |-> "elem", x |-> o.x, i |-> i.x], ot.t, errs \cup TypeErrs(ot.t) \cup Init1(i, TInt).errs)
        [] ot.k = "list" /\ e.x.k # "id" -> G(Rt("elem", Lit(None), InOrder(<< o.x, i.x >>), ot.t), ot.t, errs \cup TypeErrs(ot.t) \cup Init1(i, TInt).errs)
        [] OTHER -> Refused("C0013")

GenField(c, e, want) ==
  LET o == gen(c, e.x, want)
      x == Mem(o.x, FieldAt(c, Type(c, e.x), e.n))
  IN  G(IF field_path(e) # << >> /\ Narrowed(c, field_path(e)) THEN Mem(x, 2) ELSE x, Type(c, e), o.errs)

\* a failure leaves the function; an enum error becomes text where that is expected
GenTry(c, e) ==
  LET t == Type(c, e.x)
      res == IF IsFall(t) THEN t ELSE FallOf(t, TStr)
      g == Init1(gen(c, e.x, << >>), res)
  IN  G([c |-> "try", x |-> g.x, repr |-> res.e.k = "enum" /\ c.ret.k = "fallible" /\ c.ret.e.k # "enum"], res.t,
        g.errs \cup ErrorIf(~IsFall(c.ret), "C0020"))
GenOrElse(c, e) ==
  LET t == Type(c, e.x)
      inner == IF IsOpt(t) THEN t.t ELSE t
      a == Init1(gen(c, e.x, << t >>), OptOf(inner))
      b == Init1(gen(c, e.d, << inner >>), inner)
  IN  G([c |-> "orelse", x |-> a.x, d |-> b.x], inner, a.errs \cup b.errs)
GenIf(c, e, want) ==
  LET cond == Truth(gen(c, e.c, want))
      a == gen(c, e.t, want)
      b == gen(c, e.e, want)
  IN  G([c |-> "tern", xs |-> << cond.x, a.x, b.x >>], a.t, cond.errs \cup a.errs \cup Init1(b, a.t).errs)

expr_inner(c, e, want, pre) ==
  CASE e.k \in {"int", "bool", "str"} -> G(Lit(Value(e.k, e.v)), Simple(e.k), {})
    [] e.k = "none" -> IF want # << >> /\ IsOpt(want[1]) THEN G(NoValue, want[1], {}) ELSE Refused("C0011")
    [] e.k = "lambda" -> gen_closure(c, e.f, want)
    [] e.k = "id" -> GenIdent(c, e.n)
    [] e.k = "list" -> GenList(c, e, want, pre)
    [] e.k = "tuple" -> GenTuple(c, e, want, pre)
    [] e.k = "dict" -> GenDict(c, e, want, pre)
    [] e.k = "un" -> LET g == gen(c, e.x, want) IN G([c |-> "op", op |-> IF e.op = "-" THEN "neg" ELSE "not", xs |-> InOrder(<< g.x >>)], g.t, g.errs)
    [] e.k = "bin" -> GenBinary(c, e, want, pre)
    [] e.k = "ifexpr" -> GenIf(c, e, want)
    [] e.k = "try" -> GenTry(c, e)
    [] e.k = "orelse" -> GenOrElse(c, e)
    [] e.k = "index" -> GenIndex(c, e)
    [] e.k = "field" -> GenField(c, e, want)
    [] e.k = "call" -> call(c, e.f, e.args, want, pre)

\* the place an expression names
PlaceIn(c, e) ==
  CASE e.k = "id" -> G(cname(c, e.n), Type(c, e), Outdated(c, e.n))
    [] e.k = "field" -> LET o == lvalue(c, e.x)
                            x == Mem(o.x, FieldAt(c, Type(c, e.x), e.n))
                        IN  G(IF field_path(e) # << >> /\ Narrowed(c, field_path(e)) THEN Mem(x, 2) ELSE x, Type(c, e), o.errs)
    [] e.k = "index" /\ Type(c, e.x).k = "list" ->
         LET o == lvalue(c, e.x) i == Init1(gen(c, e.i, << >>), TInt) IN G([c |-> "elem", x |-> o.x, i |-> i.x], Type(c, e), o.errs \cup i.errs)
    [] OTHER -> Refused("C0009")
inout_ref(c, e, t) ==
  LET g == IF root_ident(e) # "" THEN lvalue(c, e) ELSE G([c |-> "lit", v |-> None], t, {"cc"})
  IN  G([c |-> "addr", x |-> g.x], t, g.errs \cup ErrorIf(ctype(g.t) # ctype(t), "cc"))

(***************************************************************************)
(* Calls.                                                                  *)
(***************************************************************************)
\* the argument for parameter q: a pointer, or a value made to fit
Passed(c, e, i, q, t, pre) ==
  IF q.conv = "inout" THEN inout_ref(c, e, t) ELSE Init1(coerce(Operand(c, e, i, << t >>, pre), Type(c, e), t), t)
\* the arguments in the order of the parameters; a missing one is a plain 0
CallUser(c, n, args, pre) ==
  LET f == c.p.fns[n]
      want == NotSelf(f)
      subst == IF f.generics = {} THEN << >>
               ELSE FoldLeft(LAMBDA s, i : FoldLeft(LAMBDA r, q : unify(q.ty, Type(c, args[i].v), r), s, For(want, args, i)), << >>, [i \in DOMAIN args |-> i])
      Of(t) == IF f.generics = {} THEN t ELSE substitute(t, subst)
      at == Placed(want, args)
      gs == [j \in DOMAIN at |-> IF at[j] = 0 THEN Init1(G(Lit(IntVal(0)), TInt, {}), Of(want[j].ty))
                                 ELSE Passed(c, args[at[j]].v, at[j], want[j], Of(want[j].ty), pre)]
      first == {j \in DOMAIN at : at[j] \in pre}
  IN  G([c |-> "call", key |-> << "", n, subst >>, xs |-> Operands(Xs(gs), first, FALSE)], Of(f.ret), Errs(gs))

emit_indirect_call(c, clo, t, args, pre) ==
  LET gs == [i \in DOMAIN args |-> LET w == t.ts[i] IN Init1(coerce(Operand(c, args[i].v, i, << w >>, pre), Type(c, args[i].v), w), w)]
  IN  G([c |-> "icall", f |-> clo.x, xs |-> Operands(Xs(gs), pre, FALSE)], t.r, clo.errs \cup Errs(gs) \cup TypeErrs(t))

\* by place, whatever names the arguments have
CallMethod(c, o, f, args, pre) ==
  LET ot == Type(c, o)
      d == MethodOf(c.p, ot, f)[1]
      self == CHOOSE q \in Elems(d.params) : q.n = "self"
      recv == IF self.conv = "inout" THEN inout_ref(c, o, ot) ELSE gen(c, o, << >>)
      want == NotSelf(d)
      gs == << recv >> \o [i \in DOMAIN args |-> IF i \in DOMAIN want THEN Passed(c, args[i].v, i, want[i], want[i].ty, pre) ELSE gen(c, args[i].v, << >>)]
  IN  G([c |-> "call", key |-> << ot.n, f, << >> >>, xs |-> Operands(Xs(gs), {i + 1 : i \in pre}, FALSE)], d.ret, Errs(gs) \cup ErrorIf(Len(args) # Len(want), "cc"))

\* fields in the order of the declaration, defaults where nothing is given
Construct(c, tag, name, fields, args, result, pre) ==
  LET at == Placed(fields, args)
      gs == [j \in DOMAIN at |-> LET f == fields[j]
                                     e == IF at[j] = 0 THEN f.default[1] ELSE args[at[j]].v
                                     g == Operand(c, e, at[j], << f.ty >>, pre)
                                 IN  Init1(bind_copy(c, IF tag = "struct" THEN coerce(g, Type(c, e), f.ty) ELSE g, e, f.ty), f.ty)]
      first == {j \in DOMAIN at : at[j] \in pre}
  IN  G(Make(tag, name, Operands(Xs(gs), first, FALSE)), result, Errs(gs))

to_str(c, e, i, pre) == LET g == Operand(c, e, i, << >>, pre) IN
  G(g.x, g.t, g.errs \cup ErrorIf(~Comparable(c.p, g.t) \/ g.t.k \in {"unit", "none"}, "C0010"))
builtin(c, n, args, want, pre) ==
  LET e == args[1].v
      g == Operand(c, e, 1, << >>, pre)
      res == IF want # << >> /\ IsFall(want[1]) /\ want[1].t # Unknown THEN want[1] ELSE c.ret
      shown == [i \in DOMAIN args |-> to_str(c, args[i].v, i, pre)]
      message == IF Type(c, e).k = "enum" THEN g ELSE G([c |-> "str", x |-> g.x], TStr, to_str(c, e, 1, pre).errs)
  IN  CASE n = "print" -> G([c |-> "print", xs |-> Operands(Xs(shown), pre, TRUE)], TUnit, Errs(shown))
        [] n = "len" -> G(Rt("len", Lit(None), InOrder(<< g.x >>), g.t), TInt, g.errs \cup ErrorIf(g.t.k \notin {"str", "list", "dict"}, "cc"))
        [] n = "range" -> G(Rt("range", Lit(None), InOrder(<< g.x >>), TInt), ListOf(TInt), Init1(g, TInt).errs)
        [] n = "assert" -> G([c |-> "assert", x |-> g.x], TUnit, Truth(g).errs)
        [] n = "error" -> IF ~IsFall(res) THEN Refused("C0021")
                          ELSE G(Make("res", "", InOrder(<< Lit(BoolVal(FALSE)), Lit(None), message.x >>)), res,
                                 message.errs \cup ErrorIf(~CFits(IF res.e.k = "enum" THEN res.e ELSE TStr, message.t), "cc"))
        [] OTHER -> Refused("C0017")

\* lists and dicts
Changing == {"push", "pop", "reverse", "clear"}
method(c, ot, n, o, args) ==
  LET lv == lvalue(c, o)
      b == gen(c, o, << >>)
      gs == [i \in DOMAIN args |-> gen(c, args[i].v, << >>)]
      Call(base, at, xs, t, errs) == G(Rt(n, at, InOrder(xs), IF ot.k = "list" THEN ot.t ELSE ot.v), t, base.errs \cup Errs(gs) \cup errs)
      Read(t, errs) == Call(b, Lit(None), << b.x >> \o Xs(gs), t, errs)
      Write(t, errs) == Call(lv, lv.x, Xs(gs), t, errs)
      hint == << FnOf(<< ot.t >>, Unknown) >>
      ft == Emit("infer", c, << args[1].v, hint >>).t
      fg == gen(c, args[1].v, hint)
  IN  CASE ot.k \in {"list", "dict"} /\ n = "len" -> Read(TInt, {})
        [] ot.k = "list" /\ n = "push" ->
             G(Rt(n, lv.x, InOrder(<< bind_copy(c, gs[1], args[1].v, ot.t).x >>), ot.t), TUnit, lv.errs \cup Init1(gs[1], ot.t).errs)
        [] ot.k = "list" /\ n = "pop" -> Write(OptOf(ot.t), TypeErrs(ot.t))
        [] ot.k = "list" /\ n \in {"reverse", "clear"} -> Write(TUnit, {})
        [] ot.k = "list" /\ n = "contains" -> Read(TBool, Init1(gs[1], ot.t).errs \cup ErrorIf(~Comparable(c.p, ot.t), "C0012"))
        [] ot.k = "list" /\ n \in Mapping ->
             G(Rt(n, Lit(None), InOrder(<< fg.x, b.x >>), IF n = "map" THEN ft.r ELSE ot.t), ListOf(IF n = "map" THEN ft.r ELSE ot.t),
               b.errs \cup fg.errs \cup TypeErrs(ft))
        [] ot.k = "dict" /\ n = "set" -> Write(TUnit, Init1(gs[1], ot.t).errs \cup Init1(gs[2], ot.v).errs)
        [] ot.k = "dict" /\ n = "has" -> Read(TBool, Init1(gs[1], ot.t).errs)
        [] ot.k = "dict" /\ n = "keys" -> Read(ListOf(ot.t), {})
        [] ot.k = "dict" /\ n = "get" -> Read(ot.v, Init1(gs[1], ot.t).errs \cup Init1(gs[2], ot.v).errs)
        [] OTHER -> Refused("C0016")

\* a top-level function is called before anything local of its name
CallOf(c, f, args, want, pre) ==
  LET n == f.n
      ot == Type(c, f.x)
      field == fn_field(c.p, ot, n)
  IN
  CASE f.k = "field" ->
         IF field # << >> THEN LET o == gen(c, f.x, << >>) IN
                               emit_indirect_call(c, [o EXCEPT !.x = Mem(@, FieldAt(c, ot, n))], field[1], args, pre)
         ELSE IF MethodOf(c.p, ot, n) # << >> THEN CallMethod(c, f.x, n, args, pre) ELSE method(c, ot, n, f.x, args)
    [] f.k = "id" ->
         IF n \in DOMAIN c.p.fns THEN CallUser(c, n, args, pre)
         ELSE IF Known(c, n) /\ TypeIn(c, n).k = "fn" THEN emit_indirect_call(c, G(cname(c, n), TypeIn(c, n), {}), TypeIn(c, n), args, pre)
         ELSE IF n \in DOMAIN c.p.structs THEN Construct(c, "struct", n, c.p.structs[n].fields, args, Nominal("struct", n), pre)
         ELSE IF n \in DOMAIN c.p.variants THEN Construct(c, "enum", n, c.p.variants[n].fields, args, Nominal("enum", c.p.variants[n].enum), pre)
         ELSE builtin(c, n, args, want, pre)
    [] OTHER -> IF Type(c, f).k = "fn" THEN emit_indirect_call(c, gen(c, f, << >>), Type(c, f), args, pre) ELSE Refused("C0015")

\* A closure becomes a C function that finds copies of what it uses outside in
\* a bundle, and loads them anew at each call.  Pointers are not taken.
Bundle(c, f, want) ==
  LET hinted == want # << >> /\ want[1].k = "fn" /\ Len(want[1].ts) = Len(f.params)
      ptys == [i \in DOMAIN f.params |-> IF f.params[i].ty # Unknown THEN substitute(f.params[i].ty, c.subst)
                                         ELSE IF hinted THEN want[1].ts[i] ELSE Unknown]
      caps == SetToSeq({n \in free_vars(f) : Known(c, n)})
      Params1(d) == FoldLeft(LAMBDA x, i : declare(x, f.params[i].n, ptys[i]), d, [i \in DOMAIN ptys |-> i])
      e == f.body[1].x[1]
      ret == IF f.ret # Unknown THEN substitute(f.ret, c.subst) ELSE IF f.lambda THEN Type(Params1(push_scope(c)), e) ELSE TUnit
      named == IF f.lambda THEN push_scope(c) ELSE declare(DeclareAll(push_scope(c), caps, [i \in DOMAIN caps |-> TypeIn(c, caps[i])]), f.name, FnOf(ptys, ret))
      in == [Params1(named) EXCEPT !.ren = << << >> >>, !.ret = ret, !.after = << >>, !.errs = {}]
      needs == [i \in DOMAIN f.requires |-> gen(in, f.requires[i], << >>)]
      body == IF f.lambda /\ ret = TUnit
              THEN LET g == gen(in, e, << >>) IN [code |-> << [s |-> "do", x |-> g.x] >>, c |-> Report(in, g.errs)]
              ELSE gen_stmts(in, f.body)
      first == [i \in DOMAIN caps |-> copy_value(c, G(cname(c, caps[i]), TypeIn(c, caps[i]), {}), TypeIn(c, caps[i])).x]
      code == [params |-> [i \in DOMAIN f.params |-> f.params[i].n], caps |-> caps, self |-> IF f.lambda THEN "" ELSE f.name, ret |-> ret,
               body |-> [i \in DOMAIN needs |-> [s |-> "need", x |-> needs[i].x, code |-> "E0229"]] \o body.code]
  IN  G([c |-> "clo", f |-> code, caps |-> first], FnOf(ptys, ret),
        body.c.errs \cup Errs(needs) \cup TypeErrs(FnOf(ptys, ret)) \cup ErrorIf(f.ensures # << >>, "C0024")
        \cup UNION {TypeErrs(TypeIn(c, n)) : n \in Elems(caps)})

(***************************************************************************)
(* Statements: the code of one, and the context after it.                  *)
(***************************************************************************)
S(c, g, code) == [c |-> Report(c, g.errs), code |-> code]
InTheBlock(c, body) ==
  IF body = << >> THEN [c |-> c, code |-> << >>]
  ELSE LET one == stmt([c EXCEPT !.after = body \o @], Head(body))
           rest == gen_stmts([one.c EXCEPT !.after = c.after], Tail(body))
       IN  [c |-> rest.c, code |-> one.code \o rest.code]
\* a block, with what Open declares in it; only the errors come out
Block(c, Open(_), body) == LET r == gen_stmts(Open(Enter(c)), body) IN [c |-> Report(c, r.c.errs), code |-> r.code]

\* the value a let or an assignment binds
BoundTo(c, e, t) == Init1(bind_copy(c, coerce(gen(c, e, << t >>), Type(c, e), t), e, t), t)
ResultOf(t) == IF IsFall(t) THEN t ELSE FallOf(t, TStr)
LetCatch(c, st, target) ==
  LET raw == Type(c, st.x)
      res == ResultOf(raw)
      g == Init1(gen(c, st.x, << raw >>), res)
      k == st.catch[1]
      last == catch_fallback(k)
      in == gen_stmts(declare(Enter(c), k.n, res.e), SubSeq(k.body, 1, Len(k.body) - Len(last)))
      value == IF last = << >> THEN << >> ELSE << Bound(in.c, last[1], target) >>
      good == Init1(coerce(G(Mem(Var(" r"), 2), res.t, {}), res.t, target), target)
  IN  [c |-> declare(Report(c, in.c.errs \cup Errs(value) \cup g.errs \cup good.errs), st.n, target),
       code |-> << [s |-> "catch", n |-> st.n, x |-> g.x, err |-> k.n, bad |-> in.code, value |-> Xs(value), good |-> good.x] >>]
GenLet(c, st) ==
  LET target == IF st.ty # << >> THEN substitute(st.ty[1], c.subst) ELSE Type(c, st.x)
      g == Bound(c, st.x, target)
  IN  IF st.catch # << >> THEN LetCatch(c, st, IF st.ty # << >> THEN target ELSE ResultOf(Type(c, st.x)).t)
      ELSE S(declare(c, st.n, target), g, << [s |-> "decl", n |-> st.n, x |-> g.x] >>)

\* a name that its C block already has
Redeclared(c, x) == ErrorIf(<< x >> \in DOMAIN Last(c.scopes) /\ x \notin DOMAIN Last(c.ren), "cc")
GenLetTuple(c, st) ==
  LET t == Type(c, st.x)
      g == Init1(gen(c, st.x, << t >>), t)
      part == [i \in DOMAIN st.ns |-> copy_value(c, G(Mem(Var(" t"), i), t.ts[i], {}), t.ts[i]).x]
  IN  IF t.k # "tuple" THEN S(c, Refused("C0019"), << >>)
      ELSE S(DeclareAll(Report(c, UNION {Redeclared(c, x) : x \in Elems(st.ns)}), st.ns, t.ts), g,
             << [s |-> "decl", n |-> " t", x |-> g.x] >> \o [i \in DOMAIN st.ns |-> [s |-> "decl", n |-> st.ns[i], x |-> part[i]]])

Temporary == "__cv"
GenAssign(c0, st) ==
  LET c == Emit("before assign", c0, st)
      t == Type(c, st.t)
      dt == Type(c, st.t.x)
      lv == lvalue(c, st.t)
      v == IF st.op = "" THEN Bound(c, st.x, t) ELSE Init1(coerce(gen(c, st.x, << t >>), Type(c, st.x), t), t)
      d == lvalue(c, st.t.x)
      key == Init1(gen(c, st.t.i, << >>), dt.t)
      value == Init1(bind_copy(c, gen(c, st.x, << dt.v >>), st.x, dt.v), dt.v)
      after == after_assign(c, st.t)
  IN  CASE st.catch # << >> ->
             LET held == GenLet(c, [s |-> "let", n |-> Temporary, ty |-> << >>, x |-> st.x, mut |-> FALSE, catch |-> st.catch])
                 put == stmt(held.c, [st EXCEPT !.x = [k |-> "id", n |-> Temporary], !.catch = << >>])
             IN  [c |-> after_assign(put.c, st.t), code |-> held.code \o put.code]
        [] st.catch = << >> /\ st.op = "" /\ st.t.k = "index" /\ dt.k = "dict" ->
             S(after, G(0, TUnit, d.errs \cup key.errs \cup value.errs),
               << [s |-> "do", x |-> Rt("set", d.x, InOrder(<< key.x, value.x >>), dt.v)] >>)
        [] st.catch = << >> /\ ~(st.op = "" /\ st.t.k = "index" /\ dt.k = "dict") ->
             S(after, G(0, TUnit, lv.errs \cup v.errs \cup ErrorIf(~CFits(lv.t, v.t), "cc")),
               << [s |-> "put", at |-> lv.x, x |-> IF st.op = "" THEN v.x ELSE [c |-> "op", op |-> st.op, xs |-> AnyOrder(<< lv.x, v.x >>)]] >>)

GenExpr(c, st) ==
  LET res == ResultOf(Type(c, st.x))
      g == gen(c, st.x, << >>)
      bad == Block(c, LAMBDA d : declare(d, st.catch[1].n, res.e), st.catch[1].body)
  IN  IF st.catch = << >> THEN S(c, g, << [s |-> "do", x |-> g.x] >>)
      ELSE [c |-> Report(bad.c, Init1(g, res).errs),
            code |-> << [s |-> "catch", n |-> "", x |-> g.x, err |-> st.catch[1].n, bad |-> bad.code, value |-> << >>, good |-> Lit(None)] >>]

RECURSIVE GenArms(_, _, _)
GenArms(c, st, i) ==
  LET n == Len(st.arms)
      a == st.arms[i]
      found == Facts(c, a.c, TRUE, WritesIn(c, a.body))
      cond == Truth(gen(c, a.c, << >>))
      yes == Block([c EXCEPT !.after = << [st EXCEPT !.arms = SubSeq(@, i + 1, n)] >> \o Tail(@)], LAMBDA d : apply_narrow(d, found), a.body)
      then == [Report(yes.c, cond.errs) EXCEPT !.after = c.after]
      Not(d) == IF n = 1 THEN apply_narrow(d, Facts(d, a.c, FALSE, WritesIn(d, st.els[1]))) ELSE d
      no == IF i < n THEN GenArms(then, st, i + 1)
            ELSE IF st.els # << >> THEN Block(then, Not, st.els[1]) ELSE [c |-> then, code |-> << >>]
  IN  [c |-> no.c, code |-> << [s |-> "if", x |-> cond.x, a |-> yes.code, b |-> no.code] >>]
\* what is known after an if whose only arm leaves is known from here on
GenIfStmt(c, st) ==
  LET r == GenArms(c, st, 1)
      leaves == st.els = << >> /\ Len(st.arms) = 1 /\ block_diverges(st.arms[1].body)
  IN  IF leaves THEN [r EXCEPT !.c = apply_narrow(@, Facts(@, st.arms[1].c, FALSE, WritesIn(@, c.after)))] ELSE r

GenWhile(c0, st) ==
  LET c == Emit("before loop", c0, st.body)
      cond == Truth(gen(c, st.c, << >>))
      body == Block(c, LAMBDA d : d, st.body)
  IN  [c |-> Report(body.c, cond.errs), code |-> << [s |-> "while", x |-> cond.x, body |-> body.code] >>]

\* a range is counted in the loop's own variable; a list or dict is looked at
\* through the header it had before the first round
IsRange(e) == e.k = "call" /\ e.f.k = "id" /\ e.f.n = "range" /\ Len(e.args) \in 1..2
GenFor(c0, st) ==
  LET c == Emit("before loop", c0, st.body)
      t == Type(c, st.x)
      counted == Len(st.vs) = 1 /\ IsRange(st.x)
      ts == CASE counted -> << TInt >> [] t.k = "dict" -> << t.t, t.v >> [] OTHER -> << IF t.k = "list" THEN t.t ELSE TStr >>
      src == IF counted THEN Init1(gen(c, st.x.args[1].v, << >>), TInt) ELSE gen(c, st.x, << >>)
      body == Block(c, LAMBDA d : DeclareAll(d, st.vs, ts), st.body)
      ok == counted \/ (IF Len(st.vs) = 2 THEN t.k = "dict" ELSE t.k \in {"list", "str"})
  IN  IF ok THEN [c |-> Report(body.c, src.errs \cup UNION {TypeErrs(x) : x \in Elems(ts)}),
                  code |-> << [s |-> IF counted THEN "range" ELSE "each", ns |-> st.vs, x |-> src.x, body |-> body.code] >>]
      ELSE S(c, Refused("C0007"), << >>)

\* a chain of tests; what follows a pattern that takes everything is left out
GenMatch(c, st) ==
  LET t == Type(c, st.x)
      g == Init1(gen(c, st.x, << >>), t)
      all == {i \in DOMAIN st.cases : st.cases[i].p.p \in {"any", "bind"}}
      cases == IF all = {} THEN st.cases ELSE SubSeq(st.cases, 1, CHOOSE i \in all : \A j \in all : i <= j)
      Fields(q) == c.p.variants[q.n].fields
      Open(d, q) == CASE q.p = "bind" -> declare(d, q.n, t)
                      [] q.p = "variant" -> DeclareAll(d, q.ns, [i \in DOMAIN q.ns |-> Fields(q)[i].ty])
                      [] OTHER -> d
      Test(q) == CASE q.p = "variant" -> IF t.k = "enum" THEN {} ELSE {"C0019"}
                   [] q.p = "lit" -> Init1(gen(c, q.x, << >>), t).errs \cup ErrorIf(t.k \notin {"int", "bool", "str"}, "cc")
                   [] OTHER -> {}
      Case(r, a) == LET b == Block(r.c, LAMBDA d : Open(d, a.p), a.body)
                        lit == IF a.p.p = "lit" THEN << gen(c, a.p.x, << >>).x >> ELSE << >>
                    IN  [c |-> Report(b.c, Test(a.p)), cases |-> Append(r.cases, [p |-> a.p, lit |-> lit, body |-> b.code])]
      r == FoldLeft(Case, [c |-> Report(c, g.errs), cases |-> << >>], cases)
  IN  [c |-> r.c, code |-> << [s |-> "match", x |-> g.x, cases |-> r.cases] >>]

\* what is returned is not copied
Succeed == << Make("res", "", InOrder(<< Lit(BoolVal(TRUE)), Lit(None) >>)) >>
Result(t) == IF IsFall(t) THEN Succeed ELSE << >>
GenReturn(c, st) ==
  LET g == Init1(coerce(gen(c, st.x[1], << c.ret >>), Type(c, st.x[1]), c.ret), c.ret)
  IN  IF st.x = << >> THEN S(c, G(0, TUnit, ErrorIf(Result(c.ret) = << >> /\ c.ret # TUnit, "cc")), << [s |-> "ret", x |-> Result(c.ret)] >>)
      ELSE S(c, g, << [s |-> "ret", x |-> << g.x >>] >>)

OneStmt(c, st) ==
  CASE st.s = "let" -> GenLet(c, st)
    [] st.s = "lettuple" -> GenLetTuple(c, st)
    [] st.s = "assign" -> GenAssign(c, st)
    [] st.s = "expr" -> GenExpr(c, st)
    [] st.s = "if" -> GenIfStmt(c, st)
    [] st.s = "while" -> GenWhile(c, st)
    [] st.s = "for" -> GenFor(c, st)
    [] st.s = "match" -> GenMatch(c, st)
    [] st.s = "return" -> GenReturn(c, st)
    [] st.s = "fn" -> LET g == gen_closure(c, st.f, << >>) IN S(declare(Report(c, Redeclared(c, st.f.name)), st.f.name, FnOf(ParamTypes(st.f), st.f.ret)), g, << [s |-> "decl", n |-> st.f.name, x |-> g.x] >>)
    [] OTHER -> [c |-> c, code |-> << [s |-> st.s] >>]

(***************************************************************************)
(* Functions and programs.                                                 *)
(***************************************************************************)
\* requires and ensures, tested where they are written
Contract(c, conds, code) ==
  LET gs == [i \in DOMAIN conds |-> Truth(gen(c, conds[i], << >>))]
  IN  [code |-> [i \in DOMAIN gs |-> [s |-> "need", x |-> gs[i].x, code |-> code]], errs |-> Errs(gs)]
ParamNames(f) == [i \in DOMAIN f.params |-> f.params[i].n]
OwnedCopies(c, f) ==
  LET owned == SelectSeq(f.params, LAMBDA q : q.conv = "owned" /\ q.n # "self" /\ needs_copy(c.p, TypeIn(c, q.n)))
  IN  [i \in DOMAIN owned |-> [s |-> "put", at |-> Var(owned[i].n), x |-> [c |-> "copy", t |-> TypeIn(c, owned[i].n), x |-> Var(owned[i].n)]]]
\* With ensures the body is a function of its own and the promises are tested
\* around it, where the parameters still are what the caller passed.
CodeFor(p, f, self, subst) ==
  LET plain == Emit("entered", p, << f, self, subst >>)
      c == [[n \in DOMAIN plain \cup {"ren"} |-> IF n = "ren" THEN << << >>, << >> >> ELSE plain[n]] EXCEPT
              !.ren[2] = [n \in {f.params[i].n : i \in {j \in DOMAIN f.params : f.params[j].conv = "inout"}} |-> [c |-> "star", x |-> Var(n)]]]
      requires == Contract(c, f.requires, "E0229")
      body == gen_stmts(c, f.body)
      inner == OwnedCopies(c, f) \o (IF f.ensures = << >> THEN requires.code ELSE << >>) \o body.code \o << [s |-> "ret", x |-> Result(c.ret)] >>
      Code(code) == [params |-> ParamNames(f), caps |-> << >>, self |-> "", ret |-> c.ret, body |-> code]
      result == [c |-> "body", f |-> Code(inner), xs |-> [i \in DOMAIN f.params |-> Var(f.params[i].n)]]
      ensures == Contract(IF c.ret = TUnit THEN c ELSE declare(c, "result", c.ret), f.ensures, "E0231")
      outer == requires.code \o << IF c.ret = TUnit THEN [s |-> "do", x |-> result] ELSE [s |-> "decl", n |-> "result", x |-> result] >>
               \o ensures.code \o << [s |-> "ret", x |-> IF c.ret = TUnit THEN << >> ELSE << Var("result") >>] >>
  IN  [code |-> Code(IF f.ensures = << >> THEN inner ELSE outer),
       errs |-> body.c.errs \cup requires.errs \cup ensures.errs \cup UNION {TypeErrs(ParamTypes(f)[i]) : i \in DOMAIN ParamTypes(f)}]

\* every function that is no template, and the constants, which are filled in
\* before main
AllCode(p) ==
  LET fns == {n \in DOMAIN p.fns : p.fns[n].generics = {}}
      methods == UNION {{<< s, m, << >> >> : m \in DOMAIN p.structs[s].methods} : s \in DOMAIN p.structs}
      keys == {<< "", n, << >> >> : n \in fns} \cup methods
      done == [k \in keys |-> IF k[1] = "" THEN gen_fn(p, p.fns[k[2]], Unknown, << >>)
                              ELSE gen_fn(p, p.structs[k[1]].methods[k[2]], Nominal("struct", k[1]), << >>)]
      plain == Emit("globals", p, << >>)
      top == [n \in DOMAIN plain \cup {"ren"} |-> IF n = "ren" THEN << << >> >> ELSE IF n = "errs" THEN {} ELSE plain[n]]
      lets == [i \in DOMAIN p.tops |-> Bound(top, p.tops[i].x, TypeIn(top, p.tops[i].n))]
  IN  [code |-> [k \in keys |-> done[k].code], lets |-> [i \in DOMAIN lets |-> [s |-> "decl", n |-> p.tops[i].n, x |-> lets[i].x]],
       errs |-> UNION {done[k].errs : k \in keys} \cup Errs(lets)]

Emit(what, c, x) ==
  CASE what = "gen" -> expr_inner(c, x[1], x[2], Hoisted(c, x[1]))
    [] what = "place" -> PlaceIn(c, x)
    [] what = "call" -> CallOf(c, x[1], x[2], x[3], x[4])
    [] what = "closure" -> Bundle(c, x[1], x[2])
    [] what = "statements" -> InTheBlock(c, x)
    [] what = "statement" -> OneStmt(c, x)
    [] what = "bound" -> BoundTo(c, x[1], x[2])
    [] what = "function" -> CodeFor(c, x[1], x[2], x[3])
    [] what = "program" -> AllCode(c)
    [] OTHER -> Judge(what, c, x)
=============================================================================
