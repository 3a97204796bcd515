------------------------------- MODULE Numbers -------------------------------
(***************************************************************************)
(* Int operators, and lists cut and reversed: interp.rs and value.rs on    *)
(* the one side, the C runtime on the other.  A word has Bits bits.        *)
(***************************************************************************)
EXTENDS Integers, Sequences, SequencesExt

CONSTANT Bits

RECURSIVE Power(_, _)
Power(b, n) == IF n = 0 THEN 1 ELSE b * Power(b, n - 1)
Modulus == Power(2, Bits)
Words == (0 - Modulus \div 2)..(Modulus \div 2 - 1)
\* two's complement: the word with the same lowest bits
Wrap(n) == LET m == n % Modulus IN IF m >= Modulus \div 2 THEN m - Modulus ELSE m
Unsigned(n) == n % Modulus
\* division of words in Rust and C goes towards zero
Abs(n) == IF n < 0 THEN 0 - n ELSE n
Quotient(x, y) == IF (x < 0) = (y < 0) THEN Abs(x) \div Abs(y) ELSE 0 - Abs(x) \div Abs(y)
Remainder(x, y) == x - y * Quotient(x, y)
Panic == Modulus       \* no word

\* repeated squaring on the unsigned bits
RECURSIVE Squaring(_, _, _)
Squaring(base, e, r) ==
  IF e = 0 THEN r
  ELSE Squaring((base * base) % Modulus, e \div 2, IF e % 2 = 1 THEN (r * base) % Modulus ELSE r)
int_pow(x, y) == Wrap(Squaring(Unsigned(x), Unsigned(y), 1))
mi_pow_i64(x, y) == IF y < 0 THEN {Panic} ELSE {Wrap(Squaring(Unsigned(x), Unsigned(y), 1))}

\* Interp::binary on two Ints
Binary(op, x, y) ==
  CASE op = "+"  -> Wrap(x + y)
    [] op = "-"  -> Wrap(x - y)
    [] op = "*"  -> Wrap(x * y)
    [] op = "/"  -> IF y = 0 \/ Quotient(x, y) \notin Words THEN Panic ELSE Quotient(x, y)
    [] op = "%"  -> IF y = 0 \/ Quotient(x, y) \notin Words THEN Panic ELSE Remainder(x, y)
    [] op = "<<" -> IF y \notin 0..(Bits - 1) THEN Panic ELSE Wrap(Unsigned(x) * Power(2, y))
    [] op = ">>" -> IF y \notin 0..(Bits - 1) THEN Panic ELSE x \div Power(2, y)
    [] op = "**" -> IF y < 0 THEN Panic ELSE int_pow(x, y)

\* What compiled code may give.  Where C leaves an overflow undefined, every
\* word and the death of the program are possible.
Undefined == Words \cup {Panic}
Defined(n) == IF n \in Words THEN {n} ELSE Undefined
mi_div_i64(x, y) == IF y = 0 THEN {Panic} ELSE Defined(Quotient(x, y))
mi_mod_i64(x, y) == IF y = 0 THEN {Panic} ELSE IF Quotient(x, y) \in Words THEN {Remainder(x, y)} ELSE Undefined
mi_shl_i64(x, n) == IF n < 0 \/ n > Bits - 1 THEN {Panic} ELSE {Wrap(Unsigned(x) * Power(2, n))}
Not(x) == 0 - x - 1
mi_shr_i64(x, n) ==
  IF n < 0 \/ n > Bits - 1 THEN {Panic}
  ELSE IF x < 0 THEN {Not(Not(x) \div Power(2, n))} ELSE {x \div Power(2, n)}

Compiled(op, x, y) ==
  CASE op = "+"  -> Defined(x + y)
    [] op = "-"  -> Defined(x - y)
    [] op = "*"  -> Defined(x * y)
    [] op = "/"  -> mi_div_i64(x, y)
    [] op = "%"  -> mi_mod_i64(x, y)
    [] op = "<<" -> mi_shl_i64(x, y)
    [] op = ">>" -> mi_shr_i64(x, y)
    [] op = "**" -> mi_pow_i64(x, y)

Ops == {"+", "-", "*", "/", "%", "<<", ">>", "**"}
\* where C leaves the outcome to the compiler
Overflows(op, x, y) ==
  \/ op = "+" /\ x + y \notin Words
  \/ op = "-" /\ x - y \notin Words
  \/ op = "*" /\ x * y \notin Words
  \/ op \in {"/", "%"} /\ y # 0 /\ Quotient(x, y) \notin Words

\* mi_list_reverse: the two ends change places until they meet
RECURSIVE Swaps(_, _, _)
Swaps(s, i, j) == IF i < j THEN Swaps([s EXCEPT ![i] = s[j], ![j] = s[i]], i + 1, j - 1) ELSE s
mi_list_reverse(s) == Swaps(s, 1, Len(s))

\* the slice of a list, both sides; SubSeq is the loop that pushes
mi_list_slice(s, from, to) ==
  LET a == IF from < 0 THEN 0 ELSE IF from > Len(s) THEN Len(s) ELSE from
      b == IF to < a THEN a ELSE to
  IN  SubSeq(s, a + 1, IF b > Len(s) THEN Len(s) ELSE b)
slice_bounds(s, from, to) ==
  LET In(n) == IF n < 0 THEN 0 ELSE IF n > Len(s) THEN Len(s) ELSE n
  IN  << In(from), IF In(to) < In(from) THEN In(from) ELSE In(to) >>
=============================================================================
