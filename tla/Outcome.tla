------------------------------ MODULE Outcome ------------------------------
(***************************************************************************)
(* What running a piece of a program gives, for the interpreter and for    *)
(* compiled programs alike: the machine m afterwards, how the piece ended  *)
(* (ok, return, break, continue, fail) and its value.  A value is [t, x],  *)
(* t saying what it is.                                                    *)
(***************************************************************************)
EXTENDS Integers, Sequences

Value(t, x) == [t |-> t, x |-> x]
IntVal(n) == Value("int", n)
BoolVal(b) == Value("bool", b)
None == Value("none", 0)

End(m, how, v) == [m |-> m, how |-> how, v |-> v]
Ok(m, v) == End(m, "ok", v)
Fail(m, code) == End(m, "fail", Value("fail", code))
Then(r, Go(_, _)) == IF r.how = "ok" THEN Go(r.m, r.v) ELSE r
Done(r) == Then(r, LAMBDA m, v : Ok(m, None))
\* one after the other, as long as it goes well
InTurn(start, xs, Go(_, _)) ==
  LET after[i \in 0..Len(xs)] ==
        IF i = 0 THEN start ELSE LET r == after[i - 1] IN IF r.how = "ok" THEN Go(r, xs[i]) ELSE r
  IN  after[Len(xs)]

\* / and % of the two, which cut towards zero
Quotient(x, y) == IF (x < 0) = (y < 0) THEN (IF x < 0 THEN -x ELSE x) \div (IF y < 0 THEN -y ELSE y)
                  ELSE -((IF x < 0 THEN -x ELSE x) \div (IF y < 0 THEN -y ELSE y))
IntOp(op, x, y) ==
  CASE op = "+" -> IntVal(x + y) [] op = "-" -> IntVal(x - y) [] op = "*" -> IntVal(x * y)
    [] op = "/" -> IntVal(Quotient(x, y)) [] op = "%" -> IntVal(x - y * Quotient(x, y))
    [] op = "<" -> BoolVal(x < y) [] op = "<=" -> BoolVal(x <= y) [] op = ">" -> BoolVal(x > y) [] op = ">=" -> BoolVal(x >= y)
=============================================================================
