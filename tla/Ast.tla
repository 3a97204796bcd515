--------------------------------- MODULE Ast ---------------------------------
(***************************************************************************)
(* Syntax trees (ast.rs) and what is computed from them alone.             *)
(*                                                                         *)
(* Expressions, by their field k:                                          *)
(*   int, bool, str (v)   none   id (n)   list, tuple (xs)                 *)
(*   dict (keys, xs)   un (op, x)   bin (op, l, r)   call (f, args)        *)
(*   field (x, n)   index (x, i)   ifexpr (c, t, e)   try (x)              *)
(*   orelse (x, d)   lambda (f)                                            *)
(* an argument is [n, v], n = "" when it has no name.                      *)
(* Statements, by their field s:                                           *)
(*   let (n, ty, x, mut, catch)   lettuple (ns, x)                         *)
(*   assign (t, op, x, catch)   expr (x, catch)   if (arms, els)           *)
(*   while (c, body)   for (vs, x, body)   match (x, cases)   return (x)   *)
(*   break   continue   fn (f)                                             *)
(* an arm is [c, body], a case [p, body]; what may be missing (catch, els, *)
(* the x of return) is a sequence of at most one.  Patterns, by p:         *)
(*   any   bind (n)   lit (x)   variant (n, ns)                            *)
(* A function is [name, generics, params, ret, requires, ensures, body,    *)
(* lambda], a parameter [n, ty, conv] with conv borrow, owned or inout;    *)
(* Types says what a type is.  A program is                                *)
(* [fns, structs, variants, tops]: functions by name; structs by name, each*)
(* [fields, methods] with fields [n, ty, default] and methods by name;     *)
(* variants by name, each [enum, fields]; statements outside functions.    *)
(***************************************************************************)
EXTENDS Sequences, Integers, FiniteSets

Seq1(s) == IF s = << >> THEN {} ELSE {s[1]}
Elems(s) == {s[i] : i \in DOMAIN s}
Names(decl) == {decl.params[i].n : i \in DOMAIN decl.params}

\* the expressions directly inside an expression; the body of a function is not
Children(e) ==
  CASE e.k \in {"list", "tuple"} -> Elems(e.xs)
    [] e.k = "dict" -> Elems(e.keys) \cup Elems(e.xs)
    [] e.k \in {"un", "try", "field"} -> {e.x}
    [] e.k = "bin" -> {e.l, e.r}
    [] e.k = "orelse" -> {e.x, e.d}
    [] e.k = "index" -> {e.x, e.i}
    [] e.k = "call" -> {e.f} \cup {a.v : a \in Elems(e.args)}
    [] e.k = "ifexpr" -> {e.c, e.t, e.e}
    [] OTHER -> {}

\* the expressions directly in a statement, and the blocks directly in it
HasCatch(st) == st.s \in {"let", "assign", "expr"} /\ st.catch # << >>
Exprs(st) ==
  CASE st.s \in {"let", "lettuple", "expr", "for", "match"} -> {st.x}
    [] st.s = "assign" -> {st.t, st.x}
    [] st.s = "if" -> {a.c : a \in Elems(st.arms)}
    [] st.s = "while" -> {st.c}
    [] st.s = "return" -> Seq1(st.x)
    [] OTHER -> {}
Blocks(st) ==
  CASE HasCatch(st) -> {st.catch[1].body}
    [] st.s = "if" -> {a.body : a \in Elems(st.arms)} \cup Seq1(st.els)
    [] st.s \in {"while", "for"} -> {st.body}
    [] st.s = "match" -> {c.body : c \in Elems(st.cases)}
    [] OTHER -> {}

\* the fields of a tuple are called 0, 1 and 2
TupleIndex(n) == CASE n = "0" -> 1 [] n = "1" -> 2 [] OTHER -> 3

(***************************************************************************)
(* The names a function uses and does not bind.  A binder of statements    *)
(* reaches to the end of its block: FreeIn folds a block from the back.    *)
(***************************************************************************)
RECURSIVE FreeExpr(_), FreeIn(_, _), free_vars(_), FreeStmt(_)

FreeOf(es) == UNION {FreeExpr(e) : e \in es}
FreeExpr(e) == IF e.k = "id" THEN {e.n} ELSE IF e.k = "lambda" THEN free_vars(e.f) ELSE FreeOf(Children(e))

\* what a statement binds in the rest of its block
Binds(st) ==
  CASE st.s = "let" -> {st.n} [] st.s = "lettuple" -> Elems(st.ns) [] st.s = "fn" -> {st.f.name} [] OTHER -> {}
FreeIn(body, bound) ==
  IF body = << >> THEN {}
  ELSE (FreeStmt(Head(body)) \ bound) \cup FreeIn(Tail(body), bound \cup Binds(Head(body)))
PatternNames(p) == CASE p.p = "bind" -> {p.n} [] p.p = "variant" -> Elems(p.ns) [] OTHER -> {}
FreeStmt(st) ==
  FreeOf(Exprs(st)) \cup
  CASE HasCatch(st) -> FreeIn(st.catch[1].body, {}) \ {st.catch[1].n}
    [] st.s = "for" -> FreeIn(st.body, {}) \ Elems(st.vs)
    [] st.s = "match" -> UNION {(FreeIn(c.body, {}) \ PatternNames(c.p)) \cup (IF c.p.p = "lit" THEN FreeExpr(c.p.x) ELSE {}) : c \in Elems(st.cases)}
    [] st.s = "fn" -> free_vars(st.f) \ {st.f.name}
    [] OTHER -> UNION {FreeIn(b, {}) : b \in Blocks(st)}

free_vars(f) ==
  LET own == Names(f) \cup (IF f.lambda THEN {} ELSE {f.name})
  IN  ((FreeOf(Elems(f.requires)) \cup FreeIn(f.body, {})) \ own) \cup (FreeOf(Elems(f.ensures)) \ (own \cup {"result"}))

(***************************************************************************)
(* How a block ends.                                                       *)
(***************************************************************************)
Jumps == {"return", "break", "continue"}
Final(body) == body[Len(body)]
RECURSIVE block_diverges(_), block_leaves(_)
block_diverges(body) ==
  body # << >> /\ LET st == Final(body) IN
    \/ st.s \in Jumps
    \/ st.s = "if" /\ st.els # << >> /\ block_diverges(st.els[1]) /\ \A a \in Elems(st.arms) : block_diverges(a.body)
    \/ st.s = "match" /\ st.cases # << >> /\ \A c \in Elems(st.cases) : block_diverges(c.body)

block_leaves(body) ==
  body # << >> /\ LET st == Final(body) IN
    \/ st.s \in Jumps
    \/ st.s = "expr" /\ st.catch = << >> /\ st.x.k = "call" /\ st.x.f.k = "id" /\ st.x.f.n = "exit"
    \/ st.s = "if" /\ st.els # << >> /\ block_leaves(st.els[1]) /\ \A a \in Elems(st.arms) : block_leaves(a.body)

\* the value a catch clause stands for: its last expression
catch_fallback(c) ==
  IF c.body # << >> /\ ~block_leaves(c.body) /\ Final(c.body).s = "expr" /\ Final(c.body).catch = << >>
  THEN << Final(c.body).x >> ELSE << >>

(***************************************************************************)
(* Arguments and parameters: one with a name goes to the parameter of that *)
(* name, the others in order to the parameters that are left.              *)
(***************************************************************************)
Named(args) == {args[i].n : i \in {j \in DOMAIN args : args[j].n # ""}}
Positional(args) == SelectSeq([i \in DOMAIN args |-> i], LAMBDA i : args[i].n = "")
PositionIn(args, i) == Len(Positional(SubSeq(args, 1, i)))
PlaceOf(s, x) == CHOOSE i \in DOMAIN s : s[i] = x
ArgNamed(args, n) == CHOOSE i \in DOMAIN args : args[i].n = n
\* for each parameter the number of its argument, or 0
Placed(params, args) ==
  LET plain == Positional(args)
  IN  [k \in DOMAIN params |->
        IF params[k].n \in Named(args) THEN ArgNamed(args, params[k].n)
        ELSE LET nth == Cardinality({h \in 1..k : params[h].n \notin Named(args)})
             IN  IF nth <= Len(plain) THEN plain[nth] ELSE 0]
=============================================================================
