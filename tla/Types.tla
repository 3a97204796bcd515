-------------------------------- MODULE Types --------------------------------
(***************************************************************************)
(* The type checker (types.rs): which programs `siskin check` accepts, and *)
(* the type it gives an expression, which the C generator asks for again.  *)
(*                                                                         *)
(* What it knows at a place is a context [p, scopes, ret, bases, decl,     *)
(* after, subst, errs]: the program; scopes of paths, innermost last; the  *)
(* return type; the scopes outside each closure being checked; the         *)
(* statements that follow in the text of the function; the types that type *)
(* parameters stand for; and the codes of the errors reported.  A path is  *)
(* a name followed by fields: one with fields is in a scope only while its *)
(* type is narrowed.                                                       *)
(***************************************************************************)
EXTENDS Ast, FiniteSets, SequencesExt, TLC

Simple(k) == [k |-> k]
TInt == Simple("int")
TBool == Simple("bool")
TStr == Simple("str")
TNone == Simple("none")
TUnit == Simple("unit")
Unknown == Simple("unknown")
ListOf(t) == [k |-> "list", t |-> t]
OptOf(t) == [k |-> "opt", t |-> t]
FallOf(t, e) == [k |-> "fallible", t |-> t, e |-> e]
DictOf(t, v) == [k |-> "dict", t |-> t, v |-> v]
TupleType(ts) == [k |-> "tuple", ts |-> ts]
FnOf(ts, r) == [k |-> "fn", ts |-> ts, r |-> r]
Nominal(k, n) == [k |-> k, n |-> n]     \* struct, enum, var
IsFall(t) == t.k = "fallible"
IsOpt(t) == t.k = "opt"
Numeric(t) == t = TInt

\* the types inside a type, and the type with those replaced
Inside(t) ==
  CASE t.k \in {"list", "opt"} -> << t.t >> [] t.k = "fallible" -> << t.t, t.e >> [] t.k = "dict" -> << t.t, t.v >>
    [] t.k = "tuple" -> t.ts [] t.k = "fn" -> Append(t.ts, t.r) [] OTHER -> << >>
Rebuilt(t, ts) ==
  CASE t.k \in {"list", "opt"} -> [t EXCEPT !.t = ts[1]] [] t.k = "fallible" -> [t EXCEPT !.t = ts[1], !.e = ts[2]]
    [] t.k = "dict" -> [t EXCEPT !.t = ts[1], !.v = ts[2]] [] t.k = "tuple" -> [t EXCEPT !.ts = ts]
    [] t.k = "fn" -> [t EXCEPT !.ts = Front(ts), !.r = Last(ts)] [] OTHER -> t

RECURSIVE substitute(_, _), is_open(_, _), has_var(_), unify(_, _, _), compatible(_, _)
substitute(t, subst) ==
  IF t.k = "var" THEN (IF t.n \in DOMAIN subst THEN subst[t.n] ELSE Unknown)
  ELSE Rebuilt(t, [i \in DOMAIN Inside(t) |-> substitute(Inside(t)[i], subst)])
\* not yet determined; the type parameters in `own` count as determined
is_open(t, own) ==
  t.k = "unknown" \/ (t.k = "var" /\ t.n \notin own) \/ \E i \in DOMAIN Inside(t) : is_open(Inside(t)[i], own)
has_var(t) == t.k = "var" \/ (t.k # "fn" /\ \E i \in DOMAIN Inside(t) : has_var(Inside(t)[i]))

\* whether `got` can be placed where `want` is expected
AllCompatible(ws, gs) == Len(ws) = Len(gs) /\ \A i \in DOMAIN ws : compatible(ws[i], gs[i])
compatible(want, got) ==
  IF Unknown \in {want, got} THEN TRUE
  ELSE IF IsOpt(want) THEN got = TNone \/ compatible(want.t, IF IsOpt(got) THEN got.t ELSE got)
  ELSE IF IsFall(want) /\ ~IsFall(got) THEN compatible(want.t, got)
  ELSE IF want.k = got.k /\ Inside(want) # << >> THEN AllCompatible(Inside(want), Inside(got))
  ELSE want = got

\* what the type parameters of `pat` stand for, given the type of an argument
UnifyAll(ps, as, subst) == FoldLeft(LAMBDA s, i : unify(ps[i], as[i], s), subst, [i \in DOMAIN ps |-> i])
unify(pat, act, subst) ==
  IF pat.k = "var"
  THEN IF act = Unknown \/ (pat.n \in DOMAIN subst /\ subst[pat.n] # Unknown) THEN subst ELSE (pat.n :> act) @@ subst
  ELSE IF pat.k = act.k /\ Len(Inside(pat)) = Len(Inside(act)) THEN UnifyAll(Inside(pat), Inside(act), subst)
  ELSE IF pat.k \in {"opt", "fallible"} THEN unify(pat.t, act, subst)
  ELSE subst

\* The functions of the checker that call each other meet in one, Judge: its
\* first argument says which of them is meant, and they are defined further down.
RECURSIVE Judge(_, _, _)
infer(c, e, hint) == Judge("infer", c, << e, hint >>)
infer_call(c, f, args) == Judge("call", c, << f, args >>)
check_closure(c, f, hint) == Judge("closure", c, << f, hint >>)
narrowing(c, cond, positive, writes) == Judge("narrowing", c, << cond, positive, writes >>)
check_stmt(c, st) == Judge("statement", c, st)
check_stmts(c, body) == Judge("statements", c, body)
before_assign(c, st) == Judge("before assign", c, st)
loop_forget(c, body) == Judge("before loop", c, body)
Top(p) == Judge("globals", p, << >>)
Entered(p, f, self, subst) == Judge("entered", p, << f, self, subst >>)
check_program(p) == Judge("program", p, << >>)

(***************************************************************************)
(* Contexts.                                                               *)
(***************************************************************************)
Report(c, codes) == [c EXCEPT !.errs = @ \cup codes]
ErrorIf(cond, code) == IF cond THEN {code} ELSE {}
push_scope(c) == [c EXCEPT !.scopes = Append(@, << >>)]
pop_scope(c) == [c EXCEPT !.scopes = Front(@)]
Narrower(path) == Len(path) > 1
is_outer_path(w, k) == Len(w) < Len(k) /\ SubSeq(k, 1, Len(w)) = w
Without(scope, Dead(_)) == [k \in {x \in DOMAIN scope : ~Dead(x)} |-> scope[k]]

\* declaring a name ends the narrowing of its fields in this scope
Bind(c, path, t, mut) ==
  [c EXCEPT !.scopes[Len(c.scopes)] = (path :> [t |-> t, mut |-> mut])
     @@ Without(@, LAMBDA k : ~Narrower(path) /\ is_outer_path(path, k))]
declare(c, n, t) == Bind(c, << n >>, t, FALSE)
declare_mut(c, n, t) == Bind(c, << n >>, t, TRUE)
DeclareAll(c, ns, ts) == FoldLeft(LAMBDA d, i : declare(d, ns[i], ts[i]), c, [i \in DOMAIN ns |-> i])

Depths(c, path) == {i \in DOMAIN c.scopes : path \in DOMAIN c.scopes[i]}
Depth(c, path) == IF Depths(c, path) = {} THEN 0 ELSE CHOOSE i \in Depths(c, path) : \A j \in Depths(c, path) : j <= i
Known(c, n) == Depth(c, << n >>) > 0
TypeIn(c, n) == c.scopes[Depth(c, << n >>)][<< n >>].t
\* a narrowed field, unless its root was declared again further in
Narrowed(c, path) == Narrower(path) /\ Depth(c, path) > 0 /\ Depth(c, << path[1] >>) <= Depth(c, path)
Base(c) == IF c.bases = << >> THEN 0 ELSE Last(c.bases)
is_mutable(c, n) ==
  LET d == Depth(c, << n >>) IN d = 0 \/ (d > Base(c) /\ c.scopes[d][<< n >>].mut)
is_captured(c, n) == Depth(c, << n >>) \in 2..Base(c)

RECURSIVE field_path(_), write_path(_), root_ident(_)
field_path(e) ==
  CASE e.k = "id" -> << e.n >>
    [] e.k = "field" -> (IF field_path(e.x) = << >> THEN << >> ELSE Append(field_path(e.x), e.n))
    [] OTHER -> << >>
write_path(e) ==
  CASE e.k = "field" -> (IF write_path(e.x) = << >> THEN << >> ELSE Append(write_path(e.x), e.n))
    [] e.k = "index" -> write_path(e.x)
    [] OTHER -> field_path(e)
root_ident(e) == CASE e.k = "id" -> e.n [] e.k \in {"field", "index"} -> root_ident(e.x) [] OTHER -> ""

(***************************************************************************)
(* What may undo the narrowing of a field: calls with inout parameters,    *)
(* judged by name, and assignments.                                        *)
(***************************************************************************)
HasInout(f) == \E q \in Elems(f.params) : q.conv = "inout"
inout_callables(p) ==
  {n \in DOMAIN p.fns : HasInout(p.fns[n])}
    \cup UNION {{m \in DOMAIN p.structs[s].methods : HasInout(p.structs[s].methods[m])} : s \in DOMAIN p.structs}

RECURSIVE call_writes_expr(_, _), call_writes_stmts(_, _), assign_writes(_)
Callee(e) == IF e.f.k \in {"id", "field"} THEN e.f.n ELSE ""
call_writes_expr(e, inout) ==
  UNION {call_writes_expr(x, inout) : x \in Children(e)} \cup
  (IF e.k = "call" /\ Callee(e) \in inout
   THEN {write_path(a.v) : a \in Elems(e.args)} \cup (IF e.f.k = "field" THEN {write_path(e.f.x)} ELSE {}) ELSE {})
call_writes_stmts(body, inout) ==
  UNION {UNION {call_writes_expr(x, inout) : x \in Exprs(st)} \cup UNION {call_writes_stmts(b, inout) : b \in Blocks(st)}
         : st \in Elems(body)}
Touches(paths, key) == \E w \in paths : w = key \/ is_outer_path(w, key)

\* the paths assigned in a block, each with what is assigned to it
assign_writes(body) ==
  UNION {(IF st.s = "assign" /\ write_path(st.t) # << >>
          THEN {<< write_path(st.t), IF st.catch # << >> THEN [k |-> "none"] ELSE st.x >>} ELSE {})
         \cup UNION {assign_writes(b) : b \in Blocks(st)} : st \in Elems(body)}

forget_fields(c, Dead(_)) ==
  [c EXCEPT !.scopes = [i \in DOMAIN @ |-> Without(@[i], LAMBDA k : Narrower(k) /\ Dead(k))]]
\* deviation: the fields of what is assigned stay narrowed
after_assign_kept(c, target) == c
after_assign(c, target) ==
  IF write_path(target) = << >> THEN c ELSE forget_fields(c, LAMBDA k : is_outer_path(write_path(target), k))

(***************************************************************************)
(* Declarations.                                                           *)
(***************************************************************************)
FieldsOf(p, t) == p.structs[t.n].fields
FieldNamed(fields, n) == CHOOSE f \in Elems(fields) : f.n = n
HasField(fields, n) == \E f \in Elems(fields) : f.n = n
VariantsOf(p, n) == {v \in DOMAIN p.variants : p.variants[v].enum = n}
NotSelf(f) == SelectSeq(f.params, LAMBDA q : q.n # "self")
ParamTypes(f) == [i \in DOMAIN NotSelf(f) |-> NotSelf(f)[i].ty]
MethodOf(p, t, n) ==
  IF t.k = "struct" /\ n \in DOMAIN p.structs[t.n].methods THEN << p.structs[t.n].methods[n] >> ELSE << >>
fn_field(p, t, n) ==
  IF t.k = "struct" /\ MethodOf(p, t, n) = << >> /\ HasField(FieldsOf(p, t), n) /\ FieldNamed(FieldsOf(p, t), n).ty.k = "fn"
  THEN << FieldNamed(FieldsOf(p, t), n).ty >> ELSE << >>

(***************************************************************************)
(* Expressions: their type and the errors found.                           *)
(***************************************************************************)
R(t, errs) == [t |-> t, errs |-> errs]
check_cond(c, e) == LET r == infer(c, e, << >>) IN r.errs \cup ErrorIf(~compatible(TBool, r.t), "T0004")
Quiet(c, e) == infer(c, e, << >>).t
ErrsOf(rs) == UNION {rs[i].errs : i \in DOMAIN rs}
TypesOf(rs) == [i \in DOMAIN rs |-> rs[i].t]
InferAll(c, es) == [i \in DOMAIN es |-> infer(c, es[i], << >>)]
WithHints(c, args, HintOf(_)) == [i \in DOMAIN args |-> infer(c, args[i].v, HintOf(i))]

check_eq_types(at, bt) ==
  IF has_var(at) \/ has_var(bt) THEN {}
  ELSE ErrorIf(\/ IsFall(at) \/ IsFall(bt)
               \/ at = TNone /\ ~(IsOpt(bt) \/ bt \in {TNone, Unknown})
               \/ bt = TNone /\ ~(IsOpt(at) \/ at \in {TNone, Unknown})
               \/ TNone \notin {at, bt} /\ ~compatible(at, bt) /\ ~compatible(bt, at), "T0017")

\* what is known when `cond` came out as `positive`: paths and their types;
\* `writes` are the calls that may change a field where it would be known
Narrowings(c, cond, positive, writes) ==
  IF cond.k # "bin" THEN << >>
  ELSE IF (cond.op = "and" /\ positive) \/ (cond.op = "or" /\ ~positive)
  THEN narrowing(c, cond.l, positive, writes) \o narrowing(c, cond.r, positive, writes)
  ELSE IF cond.op # (IF positive THEN "!=" ELSE "==") \/ ~(\E x \in {cond.l, cond.r} : x.k = "none") THEN << >>
  ELSE LET x == IF cond.r.k = "none" THEN cond.l ELSE cond.r
           path == field_path(x)
           t == IF x.k = "id" THEN (IF Known(c, x.n) THEN TypeIn(c, x.n) ELSE Unknown) ELSE Quiet(c, x)
       IN  IF x.k \in {"id", "field"} /\ path # << >> /\ IsOpt(t) /\ (Narrower(path) => ~Touches(writes, path))
           THEN << [path |-> path, t |-> t.t] >> ELSE << >>
Narrow(c, ns) == FoldLeft(LAMBDA d, n : Bind(d, n.path, n.t, FALSE), c, ns)

\* in a list literal a type that is still open is filled from a later item,
\* and `none` among values makes the type optional
Widen(first, t) ==
  LET filled == IF is_open(first, {}) /\ ~is_open(t, {}) /\ compatible(first, t) THEN t ELSE first
  IN  CASE IsOpt(filled) \/ (filled = TNone /\ t = TNone) -> filled
        [] filled = TNone /\ t # TNone -> OptOf(t)
        [] filled # TNone /\ t = TNone -> OptOf(filled)
        [] OTHER -> filled
InferList(c, xs) ==
  IF xs = << >> THEN R(ListOf(Unknown), {})
  ELSE LET first == infer(c, xs[1], << >>)
           Item(r, x) == LET t == infer(c, x, << >>)
                             w == Widen(r.t, t.t)
                         IN  R(w, r.errs \cup t.errs \cup ErrorIf(~compatible(w, t.t), "T0015"))
           r == FoldLeft(Item, first, Tail(xs))
       IN  R(ListOf(r.t), r.errs)

\* the pairs after the first are looked at, and not compared with it
InferDict(c, e) ==
  LET rs == InferAll(c, e.keys \o e.xs)
  IN  IF rs = << >> THEN R(DictOf(Unknown, Unknown), {}) ELSE R(DictOf(rs[1].t, rs[Len(e.keys) + 1].t), ErrsOf(rs))

InferIdent(c, n) ==
  CASE Known(c, n) -> R(TypeIn(c, n), {})
    [] ~Known(c, n) /\ n \in DOMAIN c.p.variants ->
         R(Nominal("enum", c.p.variants[n].enum), ErrorIf(c.p.variants[n].fields # << >>, "T0043"))
    [] ~Known(c, n) /\ n \in DOMAIN c.p.fns -> R(FnOf(ParamTypes(c.p.fns[n]), c.p.fns[n].ret), {})
    [] OTHER -> R(Unknown, {"T0014"})

InferUnary(op, r) ==
  IF op = "not" THEN R(TBool, r.errs \cup ErrorIf(~compatible(TBool, r.t), "T0004"))
  ELSE R(r.t, r.errs \cup ErrorIf(~Numeric(r.t) /\ r.t # Unknown, "T0016"))

InferBinary(c, e) ==
  LET a == infer(c, e.l, << >>)
      b == IF e.op = "and"
           THEN infer(Narrow(push_scope(c), narrowing(c, e.l, TRUE, call_writes_expr(e.r, inout_callables(c.p)))), e.r, << >>)
           ELSE infer(c, e.r, << >>)
      errs == a.errs \cup b.errs
      Bad(code) == R(Unknown, errs \cup {code})
  IN  CASE e.op \in {"and", "or"} -> R(TBool, errs \cup ErrorIf(~compatible(TBool, a.t) \/ ~compatible(TBool, b.t), "T0004"))
        [] e.op \in {"==", "!="} -> R(TBool, errs \cup check_eq_types(a.t, b.t))
        [] e.op \in {"<", "<=", ">", ">="} -> R(TBool, errs \cup ErrorIf(a.t # b.t /\ Unknown \notin {a.t, b.t}, "T0017"))
        [] OTHER -> IF Unknown \in {a.t, b.t} THEN R(IF a.t = Unknown THEN b.t ELSE a.t, errs)
                    ELSE IF e.op = "+" /\ ({a.t, b.t} = {TStr} \/ (a.t.k = "list" /\ b.t.k = "list")) THEN R(a.t, errs)
                    ELSE IF a.t # b.t \/ ~Numeric(a.t) THEN Bad("T0018") ELSE R(a.t, errs)

InferTry(c, r) ==
  CASE IsFall(r.t) ->
         LET out == IF IsFall(c.ret) THEN c.ret.e ELSE r.t.e
         IN  R(r.t.t, r.errs \cup ErrorIf(~IsFall(c.ret), "T0020")
                      \cup ErrorIf(~compatible(out, r.t.e) /\ ~(out = TStr /\ r.t.e.k = "enum"), "T0072"))
    [] OTHER -> R(r.t, r.errs \cup ErrorIf(r.t # Unknown, "T0021"))

InferOrElse(a, b) ==
  LET inner == IF IsOpt(a.t) THEN a.t.t ELSE Unknown
      errs == a.errs \cup b.errs
  IN  IF ~IsOpt(a.t) /\ a.t # Unknown THEN R(a.t, errs \cup {"T0048"})
      ELSE R(inner, errs \cup ErrorIf(~compatible(inner, b.t), "T0048"))

\* the key of a dict is not compared with its key type
InferIndex(o, i) ==
  LET errs == o.errs \cup i.errs IN
  CASE o.t.k = "list" -> R(o.t.t, errs \cup ErrorIf(~compatible(TInt, i.t), "T0022"))
    [] o.t.k = "str" -> R(TStr, errs)
    [] o.t.k = "dict" -> R(OptOf(o.t.v), errs)
    [] o.t = Unknown -> R(Unknown, errs)
    [] OTHER -> R(Unknown, errs \cup {"T0023"})

InferField(c, e) ==
  LET o == infer(c, e.x, << >>)
      Bad(code) == R(Unknown, o.errs \cup {code})
      path == field_path(e)
  IN  IF path # << >> /\ Narrowed(c, path) THEN R(c.scopes[Depth(c, path)][path].t, {})
      ELSE CASE o.t.k = "tuple" -> IF TupleIndex(e.n) \in DOMAIN o.t.ts THEN R(o.t.ts[TupleIndex(e.n)], o.errs) ELSE Bad("T0024")
             [] o.t.k = "struct" -> IF HasField(FieldsOf(c.p, o.t), e.n) THEN R(FieldNamed(FieldsOf(c.p, o.t), e.n).ty, o.errs)
                                    ELSE Bad("T0024")
             [] o.t.k = "opt" -> Bad("T0025")
             [] o.t.k \in {"enum", "unknown"} -> R(Unknown, o.errs)
             [] OTHER -> Bad("T0026")

\* the body of a closure: names outside are there to be read
Closure(c, f, hint) ==
  LET hinted == hint # << >> /\ hint[1].k = "fn" /\ Len(hint[1].ts) = Len(f.params)
      Given1(i) == IF f.params[i].ty # Unknown THEN f.params[i].ty
                   ELSE IF hinted /\ ~is_open(hint[1].ts[i], c.own) THEN hint[1].ts[i] ELSE Unknown
      ptys == [i \in DOMAIN f.params |-> substitute(Given1(i), c.subst)]
      untyped == ErrorIf(Unknown \in Elems(ptys), "T0054")
      in == [push_scope(c) EXCEPT !.bases = Append(@, Len(c.scopes)), !.ret = f.ret, !.errs = {}, !.closure = TRUE]
      bound == FoldLeft(LAMBDA d, i : Bind(d, << f.params[i].n >>, ptys[i], f.params[i].conv # "borrow"), in, [i \in DOMAIN ptys |-> i])
      expr == f.body[1].x[1]
      body == infer(bound, expr, IF f.ret # Unknown THEN << f.ret >> ELSE IF hinted THEN << hint[1].r >> ELSE << >>)
      checked == check_stmts(Report(bound, UNION {check_cond(bound, q) : q \in Elems(f.requires)}), f.body)
  IN  IF f.lambda
      THEN R(FnOf(ptys, IF f.ret = Unknown THEN body.t ELSE f.ret),
             untyped \cup body.errs \cup ErrorIf(~compatible(f.ret, body.t), "T0013"))
      ELSE R(FnOf(ptys, f.ret), untyped \cup checked.errs)

(***************************************************************************)
(* Calls.                                                                  *)
(***************************************************************************)
check_inout_arg(c, arg) ==
  LET root == root_ident(arg) IN
  IF arg.k \notin {"id", "field", "index"} THEN {"T0046"}
  ELSE IF root = "" THEN {}
  ELSE IF is_captured(c, root) THEN {"T0053"} ELSE ErrorIf(~is_mutable(c, root), "T0045")

check_indirect_call(c, t, args) ==
  LET rs == WithHints(c, args, LAMBDA i : IF i \in DOMAIN t.ts THEN << t.ts[i] >> ELSE << >>)
  IN  R(t.r, ErrsOf(rs) \cup ErrorIf(Len(rs) # Len(t.ts), "T0051")
             \cup ErrorIf(\E i \in DOMAIN rs : i \in DOMAIN t.ts /\ ~compatible(t.ts[i], rs[i].t), "T0052"))

\* what the i-th argument is for: by its name, or by its number among those
\* without one, whatever the others name
For(want, args, i) ==
  IF args[i].n # "" THEN SelectSeq(want, LAMBDA q : q.n = args[i].n)
  ELSE IF PositionIn(args, i) \in DOMAIN want THEN << want[PositionIn(args, i)] >> ELSE << >>

check_ctor(c, fields, args, result) ==
  LET rs == InferAll(c, [i \in DOMAIN args |-> args[i].v])
      seen == UNION {{f.n : f \in Elems(For(fields, args, i))} : i \in DOMAIN args}
  IN  R(result, ErrsOf(rs)
        \cup ErrorIf(\E i \in DOMAIN args : args[i].n # "" /\ For(fields, args, i) = << >>, "T0032")
        \cup ErrorIf(\E i \in DOMAIN args : \E f \in Elems(For(fields, args, i)) : ~compatible(f.ty, rs[i].t), "T0033")
        \cup ErrorIf(\E f \in Elems(fields) : f.n \notin seen /\ f.default = << >>, "T0034"))

\* the types of the arguments, those of anonymous functions last: by then the
\* type parameters are known
IsLambda(a) == a.v.k = "lambda"
\* what argument i tells about the type parameters
Learned(r, want, args, i) ==
  [r EXCEPT !.subst = FoldLeft(LAMBDA s, q : unify(q.ty, r.rs[i].t, s), @, For(want, args, i))]
Solved(t, subst) == IF subst = << >> THEN t ELSE substitute(t, subst)
ArgTypes(c, want, args, generic) ==
  LET plain == [i \in DOMAIN args |-> IF IsLambda(args[i]) THEN R(Unknown, {}) ELSE infer(c, args[i].v, << >>)]
      Fill(r, i) == IF generic THEN Learned(r, want, args, i) ELSE r
      Late(r, i) ==
        LET q == For(want, args, i)
        IN  IF ~IsLambda(args[i]) THEN r
            ELSE Learned([r EXCEPT !.rs[i] = infer(c, args[i].v, [j \in DOMAIN q |-> Solved(q[j].ty, r.subst)])], want, args, i)
  IN  FoldLeftDomain(Late, FoldLeftDomain(Fill, [rs |-> plain, subst |-> << >>], args), args)

UserCall(c, f, want, args, at) ==
  LET pairs == UNION {{<< i, q >> : q \in Elems(For(want, args, i))} : i \in DOMAIN args}
  IN  R(Solved(f.ret, at.subst), ErrsOf(at.rs)
        \cup ErrorIf(Len(Positional(args)) > Len(want), "T0027")
        \cup ErrorIf(\E i \in DOMAIN args : args[i].n # "" /\ For(want, args, i) = << >>, "T0028")
        \cup ErrorIf(\E x \in pairs : ~compatible(Solved(x[2].ty, at.subst), at.rs[x[1]].t), "T0029")
        \cup UNION {check_inout_arg(c, args[x[1]].v) : x \in {y \in pairs : y[2].conv = "inout"}}
        \cup ErrorIf(Len(args) < Len(want) /\ Named(args) = {}, "T0030"))
InferUserCall(c, f, args) == UserCall(c, f, NotSelf(f), args, ArgTypes(c, NotSelf(f), args, f.generics # {}))

Arity == [len |-> 1, range |-> 1, error |-> 1]
builtin_ret(c, n, rs) ==
  LET ts == TypesOf(rs)
      errs == ErrsOf(rs) \cup ErrorIf(n \in DOMAIN Arity /\ Len(ts) # Arity[n], "T0064")
      first == IF ts = << >> THEN Unknown ELSE ts[1]
      raised == IF first.k \in {"str", "enum", "unknown"}
                THEN ErrorIf(IsFall(c.ret) /\ first # Unknown /\ ~compatible(c.ret.e, first), "T0073")
                ELSE ErrorIf(ts # << >>, "T0065")
  IN  CASE n \in {"print", "assert"} -> R(TUnit, errs)
        [] n = "len" -> R(TInt, errs)
        [] n = "range" -> R(ListOf(TInt), errs)
        [] n = "error" -> R(FallOf(Unknown, IF first.k = "enum" THEN first ELSE Unknown), errs \cup raised)
        [] OTHER -> R(Unknown, errs \cup {"T0038"})

Mutating == {"push", "pop", "reverse", "clear"}
Mapping == {"map", "filter"}
ListMethod(t, n, as) ==
  LET f == IF as = << >> THEN Unknown ELSE as[1]
      ok == Len(as) = 1 /\ (f = Unknown \/ (f.k = "fn" /\ Len(f.ts) = 1 /\ compatible(f.ts[1], t)))
      r == IF f.k = "fn" THEN f.r ELSE Unknown
  IN  CASE n = "len" -> R(TInt, {})
        [] n = "push" -> R(TUnit, ErrorIf(as # << >> /\ ~compatible(t, as[1]), "T0035"))
        [] n \in {"reverse", "clear"} -> R(TUnit, {})
        [] n = "pop" -> R(OptOf(t), {})
        [] n = "contains" -> R(TBool, {})
        [] n \in Mapping -> IF ~ok THEN R(Unknown, {"T0056"})
                            ELSE IF n = "map" THEN R(ListOf(r), {}) ELSE R(ListOf(t), ErrorIf(~compatible(TBool, r), "T0057"))
        [] OTHER -> R(Unknown, {"T0036"})
\* what is set in a dict is not compared with its types
DictMethod(d, n, as) ==
  CASE n = "len" -> R(TInt, {})
    [] n = "set" -> R(TUnit, {})
    [] n = "has" -> R(TBool, {})
    [] n = "keys" -> R(ListOf(d.t), {})
    [] n = "get" -> R(d.v, ErrorIf(Len(as) # 2 \/ ~(compatible(d.t, as[1]) /\ compatible(d.v, as[2])), "T0047"))
    [] OTHER -> R(Unknown, {"T0036"})
method_ret(p, t, n, as) ==
  CASE MethodOf(p, t, n) # << >> -> R(MethodOf(p, t, n)[1].ret, {})
    [] t.k = "list" -> ListMethod(t.t, n, as)
    [] t.k = "dict" -> DictMethod(t, n, as)
    [] t = TStr /\ n = "len" -> R(TInt, {})
    [] t = Unknown -> R(Unknown, {})
    [] OTHER -> R(Unknown, {"T0036"})

\* a method's own arguments are not compared with its parameters
InferMethodCall(c, f, args) ==
  LET o == infer(c, f.x, << >>)
      hint == IF o.t.k # "list" THEN << >>
              ELSE IF f.n = "push" THEN << o.t.t >> ELSE IF f.n \in Mapping THEN << FnOf(<< o.t.t >>, Unknown) >> ELSE << >>
      rs == WithHints(c, args, LAMBDA i : hint)
      r == method_ret(c.p, o.t, f.n, TypesOf(rs))
      root == root_ident(f.x)
      changed == IF o.t.k # "list" \/ f.n \notin Mutating \/ root = "" THEN {}
                 ELSE IF is_captured(c, root) THEN {"T0053"} ELSE ErrorIf(~is_mutable(c, root), "T0045")
      m == MethodOf(c.p, o.t, f.n)
      inouts == UNION {(IF \E q \in Elems(d.params) : q.n = "self" /\ q.conv = "inout" THEN check_inout_arg(c, f.x) ELSE {})
                       \cup UNION {check_inout_arg(c, args[i].v) : i \in {j \in DOMAIN args : j \in DOMAIN NotSelf(d) /\ NotSelf(d)[j].conv = "inout"}}
                       : d \in Elems(m)}
  IN  IF fn_field(c.p, o.t, f.n) # << >>
      THEN LET r2 == check_indirect_call(c, fn_field(c.p, o.t, f.n)[1], args) IN R(r2.t, o.errs \cup r2.errs)
      ELSE R(r.t, o.errs \cup ErrsOf(rs) \cup changed \cup inouts \cup r.errs)

InferCall(c, f, args) ==
  LET n == f.n IN
  CASE f.k = "field" -> InferMethodCall(c, f, args)
    [] f.k = "id" ->
         IF Known(c, n) /\ TypeIn(c, n).k = "fn" THEN check_indirect_call(c, TypeIn(c, n), args)
         ELSE IF n \in DOMAIN c.p.structs THEN check_ctor(c, c.p.structs[n].fields, args, Nominal("struct", n))
         ELSE IF n \in DOMAIN c.p.variants THEN check_ctor(c, c.p.variants[n].fields, args, Nominal("enum", c.p.variants[n].enum))
         ELSE IF n \in DOMAIN c.p.fns THEN InferUserCall(c, c.p.fns[n], args)
         ELSE builtin_ret(c, n, InferAll(c, [i \in DOMAIN args |-> args[i].v]))
    [] OTHER -> LET r == infer(c, f, << >>) IN
                IF r.t.k = "fn" THEN LET r2 == check_indirect_call(c, r.t, args) IN R(r2.t, r.errs \cup r2.errs)
                ELSE R(Unknown, r.errs \cup ErrsOf(InferAll(c, [i \in DOMAIN args |-> args[i].v])))

infer_inner(c, e, hint) ==
  CASE e.k \in {"int", "bool", "str", "none"} -> R(Simple(e.k), {})
    [] e.k = "lambda" -> check_closure(c, e.f, hint)
    [] e.k = "id" -> InferIdent(c, e.n)
    [] e.k = "list" -> InferList(c, e.xs)
    [] e.k = "tuple" -> LET rs == InferAll(c, e.xs) IN R(TupleType(TypesOf(rs)), ErrsOf(rs))
    [] e.k = "dict" -> InferDict(c, e)
    [] e.k = "un" -> InferUnary(e.op, infer(c, e.x, << >>))
    [] e.k = "bin" -> InferBinary(c, e)
    [] e.k = "ifexpr" -> LET rs == InferAll(c, << e.t, e.e >>)
                         IN  R(rs[1].t, check_cond(c, e.c) \cup ErrsOf(rs) \cup ErrorIf(~compatible(rs[1].t, rs[2].t), "T0019"))
    [] e.k = "try" -> InferTry(c, infer(c, e.x, << >>))
    [] e.k = "orelse" -> InferOrElse(infer(c, e.x, << >>), infer(c, e.d, << >>))
    [] e.k = "index" -> InferIndex(infer(c, e.x, << >>), infer(c, e.i, << >>))
    [] e.k = "field" -> InferField(c, e)
    [] e.k = "call" -> infer_call(c, e.f, e.args)

(***************************************************************************)
(* Statements: the context after one, errors included.                     *)
(***************************************************************************)
\* after a statement come the others of its block, then what follows the block
Statements(c, body) ==
  IF body = << >> THEN c
  ELSE LET d == check_stmt([c EXCEPT !.after = IF c.closure THEN @ ELSE body \o @], Head(body))
       IN  check_stmts([d EXCEPT !.after = c.after], Tail(body))
\* a block in a scope of its own, with what Enter declares there
InBlock(c, Enter(_), body) == pop_scope(check_stmts(Enter(push_scope(c)), body))

Succeeded(t, catch) == IF catch # << >> /\ IsFall(t) THEN t.t ELSE t
Caught1(t) == IF IsFall(t) THEN t.e ELSE TStr
check_catch_value(c, catch, want, err_ty) ==
  LET in == check_stmts(declare(push_scope(c), catch.n, err_ty), catch.body)
      last == catch_fallback(catch)
      t == IF last = << >> THEN TUnit ELSE Quiet(in, last[1])
  IN  Report(pop_scope(in), IF block_leaves(catch.body) THEN {}
                            ELSE IF t = TUnit THEN {"T0059"} ELSE ErrorIf(~compatible(want, t), "T0060"))

CheckLet(c, st) ==
  LET r == infer(c, st.x, st.ty)
      vt == Succeeded(r.t, st.catch)
      final == IF st.ty # << >> THEN substitute(st.ty[1], c.subst) ELSE vt
      d == IF st.catch # << >> THEN check_catch_value(c, st.catch[1], final, Caught1(r.t)) ELSE c
  IN  Bind(Report(d, r.errs \cup ErrorIf(Len(c.scopes) > 1 /\ << st.n >> \in DOMAIN Last(c.scopes), "T0070")
                       \cup ErrorIf(st.catch = << >> /\ IsFall(vt), "T0005")
                       \cup ErrorIf(~compatible(final, vt), "T0006")), << st.n >>, final, st.mut)

CheckLetTuple(c, st) ==
  LET r == infer(c, st.x, << >>)
      fits == r.t.k = "tuple" /\ Len(r.t.ts) = Len(st.ns)
  IN  DeclareAll(Report(c, r.errs \cup ErrorIf(~fits /\ r.t # Unknown, IF r.t.k = "tuple" THEN "T0049" ELSE "T0050")),
                 st.ns, IF fits THEN r.t.ts ELSE [i \in DOMAIN st.ns |-> Unknown])

BeforeAssign(c, st) ==
  LET k == field_path(st.t)
  IN  IF Narrowed(c, k) /\ Quiet(c, st.x).k \in {"opt", "none"} THEN forget_fields(c, LAMBDA x : x = k) ELSE c
CheckAssign(c0, st) ==
  LET c == before_assign(c0, st)
      r == infer(c, st.x, IF st.x.k = "lambda" THEN << Quiet(c, st.t) >> ELSE << >>)
      vt == Succeeded(r.t, st.catch)
      d == IF st.catch # << >> THEN check_catch_value(c, st.catch[1], Quiet(c, st.t), Caught1(r.t)) ELSE c
      root == root_ident(st.t)
      t == infer(d, st.t, << >>)
  IN  after_assign(Report(d, r.errs \cup t.errs
        \cup ErrorIf(st.t.k = "field" /\ Quiet(c, st.t.x).k = "tuple", "T0067")
        \cup (IF root = "" THEN {} ELSE IF is_captured(d, root) THEN {"T0053"} ELSE ErrorIf(~is_mutable(d, root), "T0045"))
        \cup ErrorIf(st.op # "" /\ ~(Numeric(t.t) \/ t.t \in {TStr, Unknown}), "T0007")
        \cup ErrorIf(~compatible(t.t, vt), "T0008")), st.t)

CheckExpr(c, st) ==
  LET r == infer(c, st.x, << >>)
      d == Report(c, r.errs)
  IN  IF st.catch = << >> THEN d ELSE InBlock(d, LAMBDA x : declare(x, st.catch[1].n, Caught1(r.t)), st.catch[1].body)

\* the calls that may change a field in a block, or from here to the end
WritesIn(c, body) == call_writes_stmts(body, inout_callables(c.p))
CheckIf(c, st) ==
  LET n == Len(st.arms)
      \* what stands between an arm and the statements after the if
      Later(i) == << [st EXCEPT !.arms = SubSeq(@, i + 1, n)] >>
      Arm(d, i) ==
        LET a == st.arms[i]
            e == Report(d, check_cond(d, a.c))
            in == [e EXCEPT !.after = IF c.closure THEN @ ELSE Later(i) \o Tail(@)]
        IN  [InBlock(in, LAMBDA x : Narrow(x, narrowing(e, a.c, TRUE, WritesIn(c, a.body))), a.body) EXCEPT !.after = c.after]
      armed == FoldLeft(Arm, c, [i \in 1..n |-> i])
      Not(d, writes) == narrowing(d, st.arms[1].c, FALSE, writes)
  IN  CASE st.els # << >> -> InBlock(armed, LAMBDA x : IF n = 1 THEN Narrow(x, Not(armed, WritesIn(c, st.els[1]))) ELSE x, st.els[1])
        [] st.els = << >> /\ n = 1 /\ block_diverges(st.arms[1].body) -> Narrow(armed, Not(armed, WritesIn(c, c.after)))
        [] OTHER -> armed

\* before a loop: a narrowing that a round may undo is dropped
BeforeLoop(c, body) ==
  LET Undone(k) == \E w \in assign_writes(body) :
        is_outer_path(w[1], k) \/ (w[1] = k /\ Quiet(c, w[2]).k \in {"opt", "none", "unknown"})
  IN  forget_fields(c, Undone)
CheckWhile(c0, st) ==
  LET c == loop_forget(c0, st.body) IN InBlock(Report(c, check_cond(c, st.c)), LAMBDA x : x, st.body)
CheckFor(c0, st) ==
  LET c == loop_forget(c0, st.body)
      r == infer(c, st.x, << >>)
      two == Len(st.vs) = 2
      ok == IF two THEN r.t.k \in {"dict", "unknown"} ELSE r.t.k \in {"list", "str", "unknown"}
      ts == CASE two /\ r.t.k = "dict" -> << r.t.t, r.t.v >> [] ~two /\ r.t.k = "list" -> << r.t.t >>
              [] ~two /\ r.t.k = "str" -> << TStr >> [] OTHER -> << Unknown, Unknown >>
  IN  InBlock(Report(c, r.errs \cup ErrorIf(~ok, "T0009")),
              LAMBDA x : FoldLeft(LAMBDA y, i : declare_mut(y, st.vs[i], ts[i]), x, [i \in DOMAIN st.vs |-> i]), st.body)

CheckMatch(c, st) ==
  LET r == infer(c, st.x, << >>)
      enum == r.t.k = "enum"
      pats == {a.p : a \in Elems(st.cases)}
      variants == {q \in pats : q.p = "variant"}
      wild == \E q \in pats : q.p \in {"any", "bind"}
      vs == IF enum THEN VariantsOf(c.p, r.t.n) ELSE {}
      both == r.t = TBool /\ {q.x : q \in {y \in pats : y.p = "lit"}} = {[k |-> "bool", v |-> TRUE], [k |-> "bool", v |-> FALSE]}
      errs == IF r.t.k \in {"unknown", "var"} THEN {}
              ELSE IF enum
              THEN ErrorIf(\E q \in variants : q.n \notin vs, "T0011")
                   \cup ErrorIf(\E q \in variants : q.n \in vs /\ q.ns # << >> /\ Len(q.ns) # Len(c.p.variants[q.n].fields), "T0010")
                   \cup ErrorIf(~wild /\ ~(vs \subseteq {q.n : q \in variants}), "T0012")
              ELSE ErrorIf(variants # {}, "T0066") \cup ErrorIf(variants = {} /\ ~wild /\ ~both /\ st.cases # << >>, "T0068")
      Names1(d, q) ==
        CASE q.p = "bind" -> declare(d, q.n, r.t)
          [] q.p = "variant" /\ q.n \in vs ->
               LET fs == c.p.variants[q.n].fields
               IN  DeclareAll(d, q.ns, [i \in DOMAIN q.ns |-> IF i \in DOMAIN fs THEN fs[i].ty ELSE Unknown])
          [] q.p = "variant" /\ q.n \notin vs -> DeclareAll(d, q.ns, [i \in DOMAIN q.ns |-> Unknown])
          [] OTHER -> d
  IN  FoldLeft(LAMBDA d, a : InBlock(d, LAMBDA x : Names1(x, a.p), a.body), Report(c, r.errs \cup errs), st.cases)

\* a call of error() is not compared with the return type
CheckReturn(c, st) ==
  LET r == IF st.x = << >> THEN R(TUnit, {}) ELSE infer(c, st.x[1], << c.ret >>)
  IN  Report(c, r.errs \cup ErrorIf(~(IsFall(r.t) /\ r.t.t = Unknown) /\ ~compatible(c.ret, r.t), "T0013"))

check_nested_fn(c, f) ==
  LET d == declare(c, f.name, FnOf(ParamTypes(f), f.ret)) IN Report(d, check_closure(d, f, << >>).errs)

Statement(c, st) ==
  CASE st.s = "let" -> CheckLet(c, st)
    [] st.s = "lettuple" -> CheckLetTuple(c, st)
    [] st.s = "assign" -> CheckAssign(c, st)
    [] st.s = "expr" -> CheckExpr(c, st)
    [] st.s = "if" -> CheckIf(c, st)
    [] st.s = "while" -> CheckWhile(c, st)
    [] st.s = "for" -> CheckFor(c, st)
    [] st.s = "match" -> CheckMatch(c, st)
    [] st.s = "return" -> CheckReturn(c, st)
    [] st.s = "fn" -> check_nested_fn(c, st.f)
    [] OTHER -> c

(***************************************************************************)
(* Functions and programs.                                                 *)
(***************************************************************************)
RECURSIVE always_returns(_), has_break(_)
always_returns(body) ==
  \E st \in Elems(body) :
    \/ st.s = "return"
    \/ st.s = "if" /\ st.els # << >> /\ always_returns(st.els[1]) /\ \A a \in Elems(st.arms) : always_returns(a.body)
    \/ st.s = "match" /\ st.cases # << >> /\ \A a \in Elems(st.cases) : always_returns(a.body)
    \/ st.s = "while" /\ st.c = [k |-> "bool", v |-> TRUE] /\ ~has_break(st.body)
has_break(body) ==
  \E st \in Elems(body) : st.s = "break" \/ (st.s \notin {"while", "for"} /\ \E b \in Blocks(st) : has_break(b))

\* the context at the top, with the constants declared there
Globals(p) ==
  check_stmts([p |-> p, scopes |-> << << >> >>, ret |-> TUnit, bases |-> << >>, after |-> << >>, own |-> {},
               subst |-> << >>, closure |-> FALSE, errs |-> {}], p.tops)
\* the context in which the body of a function is checked; subst says what its
\* type parameters stand for: themselves, in the checker
WithParams(p, f, self, subst) ==
  LET c == [push_scope(Top(p)) EXCEPT !.ret = substitute(f.ret, subst), !.own = f.generics, !.subst = subst, !.errs = {}]
  IN  FoldLeft(LAMBDA d, q : Bind(d, << q.n >>, IF q.n = "self" THEN self ELSE substitute(q.ty, subst), q.conv # "borrow"), c, f.params)
check_fn(p, f, self) ==
  LET c == Entered(p, f, self, [n \in f.generics |-> Nominal("var", n)])
      body == check_stmts(Report(c, UNION {check_cond(c, q) : q \in Elems(f.requires)}), f.body)
      after == declare(push_scope(body), "result", f.ret)
  IN  body.errs \cup UNION {check_cond(after, q) : q \in Elems(f.ensures)}
      \cup ErrorIf(f.ret # TUnit /\ ~(IsFall(f.ret) /\ f.ret.t = TUnit) /\ f.body # << >> /\ ~always_returns(f.body), "T0069")

Checked(p) ==
  Top(p).errs \cup ErrorIf(\E st \in Elems(p.tops) : st.s # "let" \/ st.mut \/ st.catch # << >>, "T0076")
  \cup UNION {check_fn(p, p.fns[n], Unknown) : n \in DOMAIN p.fns}
  \cup UNION {UNION {check_fn(p, p.structs[s].methods[m], Nominal("struct", s)) : m \in DOMAIN p.structs[s].methods} : s \in DOMAIN p.structs}
  \cup (IF "main" \notin DOMAIN p.fns THEN {"T0002"}
        ELSE LET m == p.fns["main"]
             IN  ErrorIf(m.params # << >> \/ ~(m.ret = TUnit \/ (IsFall(m.ret) /\ m.ret.t = TUnit)), "T0061"))

Judge(what, c, x) ==
  CASE what = "infer" -> infer_inner(c, x[1], x[2])
    [] what = "call" -> InferCall(c, x[1], x[2])
    [] what = "closure" -> Closure(c, x[1], x[2])
    [] what = "narrowing" -> Narrowings(c, x[1], x[2], x[3])
    [] what = "statement" -> Statement(c, x)
    [] what = "statements" -> Statements(c, x)
    [] what = "before assign" -> BeforeAssign(c, x)
    [] what = "before loop" -> BeforeLoop(c, x)
    [] what = "globals" -> Globals(c)
    [] what = "entered" -> WithParams(c, x[1], x[2], x[3])
    [] what = "program" -> Checked(c)
=============================================================================
