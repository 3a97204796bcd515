------------------------------ MODULE MCLanguage ------------------------------
(***************************************************************************)
(* Programs to try.  Each has the same functions and data, then one or two *)
(* statements of many kinds, alone or inside one another, then prints all  *)
(* that it has.                                                            *)
(***************************************************************************)
EXTENDS Language

CONSTANT Corner     \* what is tried: "none", or the corner where a promise fails

Num(i) == [k |-> "int", v |-> i]
Truth1(b) == [k |-> "bool", v |-> b]
Text(s) == [k |-> "str", v |-> << s >>]
Nil == [k |-> "none"]
Id(n) == [k |-> "id", n |-> n]
L(xs) == [k |-> "list", xs |-> xs]
Pair(x, y) == [k |-> "tuple", xs |-> << x, y >>]
D1(key, x) == [k |-> "dict", keys |-> << key >>, xs |-> << x >>]
Bin(op, l, r) == [k |-> "bin", op |-> op, l |-> l, r |-> r]
Field(x, n) == [k |-> "field", x |-> x, n |-> n]
At(x, i) == [k |-> "index", x |-> x, i |-> i]
Cond(c, t, e) == [k |-> "ifexpr", c |-> c, t |-> t, e |-> e]
Try(x) == [k |-> "try", x |-> x]
Or(x, d) == [k |-> "orelse", x |-> x, d |-> d]
Args(xs) == [i \in DOMAIN xs |-> [n |-> "", v |-> xs[i]]]
CallX(f, xs) == [k |-> "call", f |-> f, args |-> Args(xs)]
Call(n, xs) == CallX(Id(n), xs)
Method(x, n, xs) == CallX(Field(x, n), xs)
Named1(n, x) == [n |-> n, v |-> x]
Some(x) == [k |-> "bin", op |-> "!=", l |-> x, r |-> Nil]

Int1 == [k |-> "int"]
List1 == [k |-> "list", t |-> Int1]
Opt1 == [k |-> "opt", t |-> Int1]
Unit1 == [k |-> "unit"]
Open1 == [k |-> "unknown"]
Var1 == [k |-> "var", n |-> "T"]
Enum1 == [k |-> "enum", n |-> "E"]
Str1 == [k |-> "str"]
Fails(t, e) == [k |-> "fallible", t |-> t, e |-> e]
Param(n, ty, conv) == [n |-> n, ty |-> ty, conv |-> conv]
Fn(name, params, ret, body) ==
  [name |-> name, generics |-> {}, params |-> params, ret |-> ret, requires |-> << >>, ensures |-> << >>, body |-> body, lambda |-> FALSE]
Return(x) == [s |-> "return", x |-> << x >>]
Lam(n, x) == [k |-> "lambda", f |-> [Fn("", << Param(n, Int1, "borrow") >>, Open1, << Return(x) >>) EXCEPT !.lambda = TRUE]]

Let(n, x) == [s |-> "let", n |-> n, ty |-> << >>, x |-> x, mut |-> TRUE, catch |-> << >>]
Do(x) == [s |-> "expr", x |-> x, catch |-> << >>]
Set(t, x) == [s |-> "assign", t |-> t, op |-> "", x |-> x, catch |-> << >>]
Add(t, x) == [s |-> "assign", t |-> t, op |-> "+", x |-> x, catch |-> << >>]
Catch(st, body) == [st EXCEPT !.catch = << [n |-> "err", body |-> body] >>]
If(c, body) == [s |-> "if", arms |-> << [c |-> c, body |-> body] >>, els |-> << >>]
IfElse(c, a, b) == [s |-> "if", arms |-> << [c |-> c, body |-> a] >>, els |-> << b >>]
While(c, body) == [s |-> "while", c |-> c, body |-> body]
ForEach(v, x, body) == [s |-> "for", vs |-> << v >>, x |-> x, body |-> body]
ForPair(x, body) == [s |-> "for", vs |-> << "k", "v" >>, x |-> x, body |-> body]
Match(x, cases) == [s |-> "match", x |-> x, cases |-> cases]
Case(p, body) == [p |-> p, body |-> body]
Variant(n, ns) == [p |-> "variant", n |-> n, ns |-> ns]
Otherwise == [p |-> "any"]
Stop == [s |-> "break"]
Next1 == [s |-> "continue"]
Exit == [s |-> "return", x |-> << >>]
Inner(f) == [s |-> "fn", f |-> f]

n == Id("n")
xs == Id("xs")
o == Id("o")
d == Id("d")
p == Id("p")
e == Id("e")
ss == Id("ss")
t == Id("t")
ps == Id("ps")

(***************************************************************************)
(* What every program has.                                                 *)
(***************************************************************************)
X == Id("x")
Functions ==
  [bump |-> Fn("bump", << Param("x", Int1, "inout") >>, Int1, << Add(X, Num(1)), Return(X) >>),
   grow |-> Fn("grow", << Param("x", List1, "inout") >>, Int1, << Do(Method(X, "push", << Num(9) >>)), Return(Call("len", << X >>)) >>),
   keep |-> Fn("keep", << Param("x", List1, "owned") >>, List1, << Do(Method(X, "push", << Num(7) >>)), Return(X) >>),
   same |-> Fn("same", << Param("x", List1, "borrow") >>, List1, << Return(X) >>),
   lose |-> Fn("lose", << Param("x", Opt1, "inout") >>, Unit1, << Set(X, Nil) >>),
   half |-> Fn("half", << Param("x", Int1, "borrow") >>, Fails(Int1, Str1),
               << If(Bin("==", Bin("%", X, Num(2)), Num(1)), << Return(Call("error", << Text("odd") >>)) >>), Return(Bin("/", X, Num(2))) >>),
   pick |-> Fn("pick", << Param("x", Int1, "borrow") >>, Fails(Int1, Enum1),
               << If(Bin(">", X, Num(1)), << Return(Call("error", << Call("B", << X >>) >>)) >>), Return(X) >>),
   idem |-> [Fn("idem", << Param("x", Var1, "borrow") >>, Var1, << Return(X) >>) EXCEPT !.generics = {"T"}],
   use |-> Fn("use", << Param("f", [k |-> "fn", ts |-> << Int1 >>, r |-> Int1], "borrow"), Param("x", Int1, "borrow") >>, Int1,
              << Return(Call("f", << X >>)) >>),
   asks |-> Fn("asks", << Param("x", Int1, "borrow") >>, Fails(Int1, Str1), << Return(Bin("+", Try(Call("pick", << X >>)), Num(1))) >>),
   fold |-> Fn("fold", << Param("x", List1, "borrow") >>, Int1,
               << Let("z", Num(0)), ForEach("y", X, << If(Bin("==", Id("y"), Num(2)), << Next1 >>), If(Bin(">", Id("y"), Num(8)), << Stop >>), Add(Id("z"), Id("y")) >>), Return(Id("z")) >>),
   rise |-> [Fn("rise", << Param("x", Int1, "inout"), Param("y", List1, "owned") >>, Int1, << Add(X, Call("len", << Id("y") >>)), Return(X) >>)
              EXCEPT !.ensures = << Bin("==", Id("result"), X), Bin(">", X, Num(1)) >>],
   deep |-> [Fn("deep", << Param("x", Int1, "borrow") >>, Int1, << If(Bin("<", X, Num(1)), << Return(Num(1)) >>), Return(Bin("+", X, Call("deep", << Bin("-", X, Num(1)) >>))) >>)
              EXCEPT !.requires = << Bin("<", X, Num(3)) >>, !.ensures = << Bin(">", Id("result"), X) >>]]
Structs ==
  [P |-> [fields |-> << [n |-> "a", ty |-> Int1, default |-> << >>], [n |-> "xs", ty |-> List1, default |-> << L(<< Num(4) >>) >>],
                        [n |-> "o", ty |-> Opt1, default |-> << Nil >>] >>,
          methods |-> [get |-> Fn("get", << Param("self", [k |-> "struct", n |-> "P"], "borrow") >>, Int1, << Return(Field(Id("self"), "a")) >>),
                       add |-> Fn("add", << Param("self", [k |-> "struct", n |-> "P"], "inout"), Param("x", Int1, "borrow") >>, Unit1,
                                  << Add(Field(Id("self"), "a"), X), Do(Method(Field(Id("self"), "xs"), "push", << X >>)) >>)]]]
Variants == [A |-> [enum |-> "E", fields |-> << >>], B |-> [enum |-> "E", fields |-> << [n |-> "v", ty |-> Int1] >>]]
Setup ==
  << Let("n", Num(1)), Let("xs", L(<< Num(1), Num(2) >>)), [Let("o", Num(3)) EXCEPT !.ty = << Opt1 >>], Let("d", D1(Num(1), Num(5))),
     Let("p", [Call("P", << >>) EXCEPT !.args = << Named1("a", Num(1)) >>]), Let("e", Call("B", << Num(2) >>)), Let("f", Lam("x", Bin("+", X, n))),
     Let("ss", L(<< L(<< Num(1) >>), L(<< Num(2) >>) >>)), Let("t", Pair(Num(1), L(<< Num(2) >>))), Let("ps", L(<< p >>)) >>
Epilogue == << Do(Call("print", << n, xs, o, d, p, e, ss, t, ps >>)) >>
Program(body) ==
  [fns |-> [main |-> Fn("main", << >>, Fails(Unit1, Str1), Setup \o body \o Epilogue)] @@ Functions,
   structs |-> Structs, variants |-> Variants, tops |-> << [Let("top", Num(6)) EXCEPT !.mut = FALSE] >>]

(***************************************************************************)
(* Expressions and statements, by their type.                              *)
(***************************************************************************)
IntExprs ==
  {Num(0), n, Bin("+", n, Num(1)), Call("bump", << n >>), At(xs, Num(1)), At(xs, n), Call("len", << xs >>), Field(p, "a"), Or(o, Num(0)),
   Try(Call("half", << n >>)), Call("f", << n >>), Call("use", << Id("f"), n >>), Call("use", << Id("deep"), n >>), Call("grow", << xs >>), Method(p, "get", << >>),
   Cond(Some(o), Bin("+", o, Num(1)), Num(8)), Bin("/", Num(7), n), Call("idem", << n >>), Call("deep", << n >>), Call("deep", << Num(5) >>), Id("top"),
   Or(At(d, n), Num(4)), Method(d, "get", << n, Num(3) >>)}
ListExprs ==
  {xs, L(<< n, Num(3) >>), L(<< Call("bump", << n >>), Call("bump", << n >>) >>), Call("same", << xs >>), Call("keep", << xs >>), Field(p, "xs"),
   Method(xs, "map", << Id("f") >>), Method(xs, "filter", << Lam("x", Bin(">", X, n)) >>), Call("range", << Num(2) >>), Method(d, "keys", << >>)}
OptExprs == {Nil, o, n, Method(xs, "pop", << >>), At(d, Num(1)), Field(p, "o")}
BoolExprs == {Some(o), Bin("==", o, Nil), Bin("and", Some(o), Bin(">", o, n)), Bin("or", Bin("==", o, Nil), Bin(">", o, n)), Bin("==", xs, Field(p, "xs")),
              Method(xs, "contains", << n >>), Some(Field(p, "o")), Bin("==", e, Call("B", << n >>))}
Mixed1 == {Num(2), Text("t"), Nil, xs, o, p, Truth1(TRUE), Id("f"), Call("half", << n >>)}

Simple1 ==
  {Set(n, x) : x \in IntExprs} \cup {Set(xs, x) : x \in ListExprs} \cup {Set(o, x) : x \in OptExprs}
  \cup {Add(n, x) : x \in {Num(1), n, At(xs, Num(0))}}
  \cup {Set(At(xs, Num(0)), x) : x \in {n, Call("bump", << n >>), At(xs, Num(1))}} \cup {Set(At(xs, n), Num(6)), Add(At(xs, Num(0)), n)}
  \cup {Do(Method(xs, "push", << x >>)) : x \in {n, Call("bump", << n >>), Call("len", << xs >>)}}
  \cup {Do(Method(xs, m, << >>)) : m \in {"pop", "clear", "reverse"}}
  \cup {Set(Field(p, "a"), n), Set(Field(p, "o"), o), Set(Field(p, "xs"), xs), Do(Method(Field(p, "xs"), "push", << n >>)), Do(Method(p, "add", << n >>))}
  \cup {Set(At(d, n), x) : x \in {n, Num(8)}} \cup {Do(Method(d, "set", << Num(2), n >>))}
  \cup {Do(Call("lose", << o >>)), Do(Call("lose", << Field(p, "o") >>)), Do(Call("grow", << Field(p, "xs") >>)), Do(Call("bump", << Field(p, "a") >>)),
        Do(Call("bump", << At(xs, Num(0)) >>))}
  \cup {Set(e, Call("A", << >>)), Set(e, Id("A")), Set(e, Call("B", << n >>)), Do(Call("assert", << Bin(">", n, Num(1)) >>)),
        Catch(Set(n, Call("half", << n >>)), << Do(Num(9)) >>), Catch(Set(n, Call("pick", << n >>)), << Set(e, Id("err")), Do(Num(9)) >>),
        Catch(Do(Call("half", << n >>)), << Set(n, Num(2)) >>), Do(Try(Call("pick", << n >>)))}
  \cup {Return(Call("error", << Text("bad") >>))}
\* two steps at a time
Typical ==
  {Set(n, Call("bump", << n >>)), Set(n, Or(o, Num(0))), Set(xs, Call("same", << xs >>)), Set(Field(p, "xs"), xs), Set(xs, Field(p, "xs")), Do(Method(xs, "push", << n >>)),
   Do(Method(Field(p, "xs"), "push", << n >>)), Do(Method(xs, "pop", << >>)), Do(Call("lose", << o >>)), Set(o, Nil), Set(o, n), Set(n, Try(Call("half", << n >>))),
   Set(At(xs, Num(0)), n), Do(Method(p, "add", << n >>)), Set(Field(p, "o"), o), Set(At(d, n), Num(8)),
   Let("ys", xs), Let("q", p), Let("g", Id("f")), If(Bin("==", o, Nil), << [s |-> "return", x |-> << >>] >>), If(Bin("==", Field(p, "o"), Nil), << [s |-> "return", x |-> << >>] >>)}
Later ==
  {Add(n, o), Add(n, Field(p, "o")), Do(Method(Id("ys"), "push", << n >>)), Set(Field(Id("q"), "a"), Num(5)), Set(n, Call("g", << n >>)), Set(n, Call("len", << Id("ys") >>))}

Inside1(st) ==
  {If(c, << st >>) : c \in {Some(o), Some(Field(p, "o")), Bin("and", Some(o), Bin(">", o, n))}}
  \cup {IfElse(Bin("==", o, Nil), << Set(o, Num(1)) >>, << st >>), While(Bin("<", n, Num(3)), << st, Add(n, Num(1)) >>)}
  \cup {Match(e, << Case(Variant("B", << "v" >>), << st, Add(n, Id("v")) >>), Case(Otherwise, << >>) >>),
        Inner(Fn("g", << >>, Unit1, << st >>)), ForEach("i", Call("range", << Num(2) >>), << st >>), ForEach("x", L(<< n, Num(5) >>), << st, Add(n, X) >>), ForPair(d, << Add(n, Id("v")), st >>)}
Narrowed1 == {Add(n, o), Add(n, Field(p, "o")), Set(o, Bin("+", o, Num(1))), Set(Field(p, "o"), Bin("+", Field(p, "o"), Num(1)))}
Unpack == [s |-> "lettuple", ns |-> << "a", "b" >>, x |-> t]
\* lists in lists, tuples and structs: who sees whose changes
Nested1 ==
  {Do(Method(ss, "push", << xs >>)), Do(Method(At(ss, Num(0)), "push", << n >>)), Set(ss, L(<< xs, xs >>)), Set(xs, At(ss, Num(0))), Let("zs", ss), Do(Call("grow", << At(ss, Num(0)) >>)),
   Set(At(ss, Num(1)), xs), Set(t, Pair(n, xs)), Unpack, Do(Method(ps, "push", << p >>)), Set(Field(At(ps, Num(0)), "a"), Num(7)),
   Do(Method(Field(At(ps, Num(0)), "xs"), "push", << n >>)), Set(p, At(ps, Num(0))), Do(Method(At(ps, Num(0)), "add", << n >>)), Set(xs, Field(t, "1")),
   Set(n, Call("fold", << xs >>)), Set(n, Call("rise", << n, xs >>)), Let("h", Lam("x", Bin("+", X, Call("len", << xs >>)))), Set(ss, Method(ss, "filter", << Lam("x", Truth1(TRUE)) >>)),
   Let("r", Call("idem", << ss >>)), Do(Method(xs, "push", << Num(4) >>)), Set(Field(p, "xs"), At(ss, Num(0))), Do(Method(p, "add", << n >>)), Set(ps, L(<< p, p >>))}
Nested2 ==
  {Do(Method(At(Id("zs"), Num(0)), "push", << n >>)), Do(Method(Id("b"), "push", << n >>)), Set(n, Call("h", << n >>)), Do(Method(At(Id("r"), Num(0)), "push", << n >>)),
   Set(n, Field(t, "0")), Do(Call("print", << Bin("==", ss, L(<< xs, L(<< Num(2) >>) >>)) >>)), Do(Call("print", << Bin("==", ps, L(<< p >>)) >>)),
   Do(Method(Field(t, "1"), "push", << n >>)), ForEach("x", ss, << Add(n, Call("len", << X >>)) >>)}
Loops(st) ==
  {ForEach("i", Call("range", << Num(4) >>), << If(Bin("==", Id("i"), Num(2)), << Add(n, Num(1)), j >>), st >>) : j \in {Stop, Next1, Exit}}
  \cup {While(Truth1(TRUE), << Add(n, Num(1)), If(Bin(">", n, Num(3)), << j >>), st >>) : j \in {Stop, Exit}}
Ways(st) ==
  {[s |-> "if", arms |-> << [c |-> Bin(">", n, Num(1)), body |-> << Set(n, Num(2)) >>], [c |-> Some(o), body |-> << st >>] >>, els |-> << << Add(n, Num(5)) >> >>],
   Match(n, << Case([p |-> "lit", x |-> Num(2)], << >>), Case([p |-> "bind", n |-> "w"], << st, Add(n, Id("w")) >>) >>),
   Match(Some(o), << Case([p |-> "lit", x |-> Truth1(TRUE)], << st >>), Case([p |-> "lit", x |-> Truth1(FALSE)], << Exit >>) >>),
   Catch(Let("z", Call("half", << n >>)), << st, Exit >>), Catch(Let("z", Call("asks", << Num(3) >>)), << st, Do(Num(3)) >>),
   ForEach("x", Text("ab"), << st >>)}
Escapes == {Set(n, Try(Call("asks", << x >>))) : x \in {Num(1), Num(3)}}
Guards == {If(c, << Exit >>) : c \in {Bin("==", o, Nil), Bin("or", Bin("==", o, Nil), Bin("==", n, Num(2))), Bin("==", Field(p, "o"), Nil), Bin("!=", o, Nil)}}
\* p.o is known to be there: what may take it away again
Taking == {Set(p, At(ps, Num(0))), Do(Call("lose", << Field(p, "o") >>)), Set(Field(p, "o"), Nil), Do(Method(p, "add", << n >>)), Set(At(ps, Num(0)), p)}
Knowing(b) ==
  {<< If(Bin("==", Field(p, "o"), Nil), << Exit >>), b, Add(n, Field(p, "o")) >>, << If(Some(Field(p, "o")), << b, Add(n, Field(p, "o")) >>) >>,
   << If(Some(Field(p, "o")), << While(Bin("<", n, Num(9)), << Add(n, Field(p, "o")), b >>) >>) >>,
   << If(Bin("and", Some(Field(p, "o")), Bin(">", Field(p, "o"), Num(1))), << If(Bin("==", n, n), << b >>), Add(n, Field(p, "o")) >>) >>}
Closing == {Inner(Fn("g", << Param("x", Int1, "borrow") >>, Int1, << Let("z", x), Return(Bin("+", Id("z"), X)) >>)) : x \in IntExprs}

Common ==
  {<< st >> : st \in Simple1 \cup Escapes} \cup UNION {{<< st >> : st \in Inside1(x)} : x \in Simple1 \cup Narrowed1}
  \cup UNION {{<< st >> : st \in Loops(x) \cup Ways(x)} : x \in Typical \cup Narrowed1}
  \cup {<< a, b >> : a \in Typical, b \in Typical \cup Later}
  \cup ({<< a, b >> : a \in Nested1, b \in Nested1 \cup Nested2 \cup {Do(Method(Id("zs"), "push", << xs >>))}} \ {<< Unpack, Unpack >>})
  \cup {<< a, b, x >> : a \in Guards, b \in Typical, x \in Narrowed1}
  \cup {<< Set(Field(p, "o"), o) >> \o k : k \in UNION {Knowing(b) : b \in Taking}}
  \cup {<< a, b, Set(n, Call("g", << n >>)) >> : a \in Closing, b \in {Add(n, Num(1)), Do(Method(xs, "push", << n >>))}}
  \cup {<< Let("z", x) >> : x \in IntExprs \cup ListExprs \cup BoolExprs \cup Mixed1}
  \cup {<< Set(x, y) >> : x \in {n, xs, o, d, p, e, At(xs, Num(0)), Field(p, "a")}, y \in Mixed1}
  \cup {<< Set(n, Cond(c, Num(1), Num(2))) >> : c \in BoolExprs}
  \cup {<< Do(Call("print", << x >>)) >> : x \in BoolExprs \cup IntExprs}
  \cup {<< Set(n, Call(f, << x >>)) >> : f \in {"bump", "grow", "deep", "idem", "half"}, x \in Mixed1}

\* what the check lets pass
Unchecked ==
  {Do(Method(p, "add", << >>)), Do(Method(p, "add", << Text("t") >>)), Do(Method(d, "set", << Text("t"), Num(1) >>)), Do(Call("len", << n >>)),
   Set(n, Or(At(d, Text("t")), Num(1))), Set(n, [Call("fold", << >>) EXCEPT !.args = << >>]), Set(o, Method(xs, "contains", << Text("t") >>))}
\* an argument without a name after a field that has one; a target that calls
MixedArgs == Let("q", [Call("P", << >>) EXCEPT !.args = << [n |-> "", v |-> Num(9)], Named1("a", n) >>])
CallInTarget == Set(At(Field(At(ps, Bin("-", Call("bump", << n >>), Num(2))), "xs"), Num(0)), Num(5))
CheckCorner == {<< st >> : st \in Unchecked \cup {MixedArgs, CallInTarget}} \cup {<< Unpack, Unpack >>}
\* what the two make different things of
Yes(body) == If(Bin("==", n, n), body)
OutputCorner ==
  {<< Yes(<< Let("n", Bin("+", n, Num(1))), Do(Call("print", << n >>)) >>) >>,
   << Do(Call("print", << n, Call("bump", << n >>) >>)) >>,
   << Set(n, Bin("+", n, Call("bump", << n >>))) >>,
   << Set(xs, L(<< n, Call("bump", << n >>), Call("bump", << n >>) >>)) >>,
   << ForEach("x", ss, << Do(Method(X, "push", << n >>)) >>) >>,
   << ForEach("x", ss, << Do(Method(ss, "push", << xs >>)) >>) >>,
   << ForEach("x", xs, << If(Bin("<", Call("len", << xs >>), Num(5)), << Do(Method(xs, "push", << X >>)) >>) >>) >>,
   << ForEach("i", Call("range", << Num(3) >>), << Add(Id("i"), Num(1)), Add(n, Id("i")) >>) >>,
   << Set(At(xs, Num(0)), Call("grow", << xs >>)) >>,
   << Let("dd", D1(Num(1), xs)), Do(Method(xs, "push", << Num(3) >>)), Do(Call("print", << Id("dd") >>)) >>,
   << Set(ss, L(<< xs, xs >>)), Do(Method(At(ss, Num(0)), "push", << Num(3) >>)) >>,
   << Do(Method(ss, "push", << xs >>)), Do(Method(xs, "push", << Num(3) >>)) >>,
   << Inner(Fn("g", << >>, Int1, << Do(Method(xs, "push", << n >>)), Return(Call("len", << xs >>)) >>)), Set(n, Call("g", << >>)) >>,
   << Yes(<< Set(n, Cond(Some(o), o, Num(0))) >>) >>,
   << If(Some(o), << Yes(<< Let("o", Num(1)), Set(n, o) >>) >>) >>,
   << Set(xs, Bin("+", xs, xs)) >>,
   << Let("q", L(<< Field(p, "xs"), xs >>)), Do(Method(At(Id("q"), Num(0)), "push", << n >>)) >>}

MCPrograms == {Program(b) : b \in CASE Corner = "none" -> Common [] Corner = "check" -> CheckCorner [] Corner = "output" -> OutputCorner}
===============================================================================
