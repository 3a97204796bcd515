-------------------------------- MODULE Json --------------------------------
(***************************************************************************)
(* std.json, twice: json.rs and RUNTIME_JSON of cgen.rs.  A text is a      *)
(* sequence of signs: characters, the words true/false/null and the escape *)
(* sequences of strings, each one sign.  A number keeps its numeral; what  *)
(* the two conversions to a number accept of it is modelled.  The reader   *)
(* in Rust leaves with the first error; the one in C goes on with a flag.  *)
(***************************************************************************)
EXTENDS Integers, Sequences, FiniteSets, FiniteSetsExt, SequencesExt

CONSTANT MaxDigits        \* numerals with more digits do not fit an Int

Digit == {"1", "2"}
NumberSign == Digit \cup {".", "e", "+", "-"}
Null == [k |-> "null"]
Scalar(k, of) == [k |-> k, of |-> of]
List(items) == [k |-> "list", items |-> items]
Dict(keys, items) == [k |-> "dict", keys |-> keys, items |-> items]

\* a reader: text, place, verdict
Sign(q) == IF q.i < Len(q.s) THEN q.s[q.i + 1] ELSE "end"
Forth(q, n) == [q EXCEPT !.i = @ + n]
Bad(q) == [q EXCEPT !.bad = TRUE]
RECURSIVE Ws(_)
Ws(q) == IF Sign(q) = " " THEN Ws(Forth(q, 1)) ELSE q
\* what a function of the reader gives: the reader afterwards and the value
Gives(q, v) == [q |-> q, v |-> v]

\* "If the same key appears again, the later one wins."
Put(d, key, v) ==
  IF Contains(d.keys, key) THEN [d EXCEPT !.items[CHOOSE n \in DOMAIN d.keys : d.keys[n] = key] = v]
  ELSE Dict(Append(d.keys, key), Append(d.items, v))

(***************************************************************************)
(* Numerals.                                                               *)
(***************************************************************************)
AllDigits(s) == s # << >> /\ \A n \in DOMAIN s : s[n] \in Digit
Unsigned(s) == IF s # << >> /\ Head(s) \in {"+", "-"} THEN Tail(s) ELSE s
IsInt(s) == AllDigits(Unsigned(s))
Fits(s) == Len(Unsigned(s)) <= MaxDigits
\* digits, a point with digits on at least one side, an exponent with digits
IsMantissa(s) ==
  \/ AllDigits(s)
  \/ \E p \in DOMAIN s : /\ s[p] = "."
                         /\ Len(s) > 1
                         /\ \A n \in DOMAIN s \ {p} : s[n] \in Digit
IsFloat(s) ==
  LET u == Unsigned(s)
  IN  IsMantissa(u) \/ \E p \in DOMAIN u : u[p] = "e" /\ IsMantissa(SubSeq(u, 1, p - 1)) /\ IsInt(SubSeq(u, p + 1, Len(u)))
\* strtoll, strtod: the longest beginning that is a number; 0 when there is none
Longest(s, Ok(_)) ==
  LET good == {n \in 1..Len(s) : Ok(SubSeq(s, 1, n))} IN IF good = {} THEN << "0" >> ELSE SubSeq(s, 1, Max(good))

\* the signs a numeral is made of, a minus first
NumeralEnd(q) ==
  LET from == IF Sign(q) = "-" THEN q.i + 1 ELSE q.i
  IN  CHOOSE e \in from..Len(q.s) : /\ \A n \in (from + 1)..e : q.s[n] \in NumberSign
                                    /\ e = Len(q.s) \/ q.s[e + 1] \notin NumberSign
Numeral(q) == SubSeq(q.s, q.i + 1, NumeralEnd(q))
LooksFloat(s) == \E n \in DOMAIN s : s[n] \in {".", "e"}

RustNumber(q) ==
  LET s == Numeral(q)
      r == [q EXCEPT !.i = NumeralEnd(q)]
  IN  IF s \in {<< >>, << "-" >>} THEN Gives(Bad(r), Null)
      ELSE IF ~LooksFloat(s) /\ IsInt(s) /\ Fits(s) THEN Gives(r, Scalar("int", s))
      ELSE IF IsFloat(s) THEN Gives(r, Scalar("float", s)) ELSE Gives(Bad(r), Null)

CNumber(q) ==
  LET s == Numeral(q)
      r == [q EXCEPT !.i = NumeralEnd(q)]
      n == Longest(s, IsInt)
  IN  IF s \in {<< >>, << "-" >>} THEN Gives(Bad(r), Null)
      ELSE IF LooksFloat(s) \/ ~Fits(n) THEN Gives(r, Scalar("float", Longest(s, IsFloat)))
      ELSE Gives(r, Scalar("int", n))

(***************************************************************************)
(* Strings.  Surrogates are half a character: Rust puts the replacement    *)
(* character in their place, C their three bytes.                          *)
(***************************************************************************)
Escapes == {"\\n", "\\\"", "\\u0001"}
Meant(sign) == CASE sign = "\\n" -> "newline" [] sign = "\\\"" -> "quote" [] sign = "\\u0001" -> "ctrl1" [] OTHER -> sign
RECURSIVE StringFrom(_, _, _)
StringFrom(q, half, acc) ==
  LET c == Sign(q) IN
  IF c = "end" THEN Gives(Bad(q), << >>)
  ELSE IF c = "\"" THEN Gives(Forth(q, 1), acc)
  ELSE IF c = "\\?" THEN Gives(Bad(Forth(q, 1)), << >>)              \* an escape JSON does not have
  ELSE StringFrom(Forth(q, 1), half, Append(acc, IF c = "\\ud800" THEN half ELSE Meant(c)))
RustString(q) == StringFrom(Forth(q, 1), "replacement", << >>)
CString(q) == StringFrom(Forth(q, 1), "surrogate", << >>)

Word(q) == CASE Sign(q) = "true" -> Scalar("bool", TRUE) [] Sign(q) = "false" -> Scalar("bool", FALSE) [] OTHER -> Null
Words == {"true", "false", "null"}

(***************************************************************************)
(* Rust.                                                                   *)
(***************************************************************************)
RECURSIVE RustValue(_), RustObject(_, _), RustArray(_, _)
RustValue(p) ==
  LET q == Ws(p) c == Sign(q) e == Ws(Forth(q, 1)) IN
  CASE c = "end" -> Gives(Bad(q), Null)
    [] c = "{" -> IF Sign(e) = "}" THEN Gives(Forth(e, 1), Dict(<< >>, << >>)) ELSE RustObject(e, Dict(<< >>, << >>))
    [] c = "[" -> IF Sign(e) = "]" THEN Gives(Forth(e, 1), List(<< >>)) ELSE RustArray(e, << >>)
    [] c = "\"" -> LET s == RustString(q) IN IF s.q.bad THEN s ELSE Gives(s.q, Scalar("str", s.v))
    [] c \in Words -> Gives(Forth(q, 1), Word(q))
    [] OTHER -> RustNumber(q)

RustObject(p, out) ==
  LET q == Ws(p)
      key == RustString(q)
      colon == Ws(key.q)
      v == RustValue(Forth(colon, 1))
      r == Ws(v.q)
      with == Put(out, key.v, v.v)
  IN  IF Sign(q) # "\"" THEN Gives(Bad(q), Null)
      ELSE IF key.q.bad THEN key
      ELSE IF Sign(colon) # ":" THEN Gives(Bad(colon), Null)
      ELSE IF v.q.bad THEN v
      ELSE IF Sign(r) = "," THEN RustObject(Forth(r, 1), with)
      ELSE IF Sign(r) = "}" THEN Gives(Forth(r, 1), with) ELSE Gives(Bad(r), Null)

RustArray(p, out) ==
  LET v == RustValue(p)
      r == Ws(v.q)
  IN  IF v.q.bad THEN v
      ELSE IF Sign(r) = "," THEN RustArray(Forth(r, 1), Append(out, v.v))
      ELSE IF Sign(r) = "]" THEN Gives(Forth(r, 1), List(Append(out, v.v))) ELSE Gives(Bad(r), Null)

Error == [k |-> "error"]
Verdict(r) == IF r.q.bad THEN Error ELSE r.v
Reader(s) == [s |-> s, i |-> 0, bad |-> FALSE]
Parse(s) ==
  LET r == RustValue(Ws(Reader(s)))
      e == Ws(r.q)
  IN  IF ~r.q.bad /\ e.i < Len(s) THEN Error ELSE Verdict(r)

(***************************************************************************)
(* C: the value under way is returned whatever happened.                   *)
(***************************************************************************)
RECURSIVE CValue(_), CObject(_, _), CArray(_, _)
CValue(p) ==
  LET q == Ws(p) c == Sign(q) e == Ws(Forth(q, 1)) IN
  CASE c = "end" -> Gives(Bad(q), Null)
    [] c = "{" -> IF Sign(e) = "}" THEN Gives(Forth(e, 1), Dict(<< >>, << >>)) ELSE CObject(e, Dict(<< >>, << >>))
    [] c = "[" -> IF Sign(e) = "]" THEN Gives(Forth(e, 1), List(<< >>)) ELSE CArray(e, << >>)
    [] c = "\"" -> LET s == CString(q) IN Gives(s.q, Scalar("str", s.v))
    [] c \in Words -> Gives(Forth(q, 1), Word(q))
    [] OTHER -> CNumber(q)

CObject(p, o) ==
  LET q == Ws(p) IN
  IF Sign(q) # "\"" THEN Gives(Bad(q), o)
  ELSE LET key == CString(q) colon == Ws(key.q) IN
       IF key.q.bad THEN Gives(key.q, o)
       ELSE IF Sign(colon) # ":" THEN Gives(Bad(colon), o)
       ELSE LET v == CValue(Forth(colon, 1))
                with == Put(o, key.v, v.v)
                r == Ws(v.q)
            IN  IF v.q.bad THEN Gives(v.q, o)
                ELSE IF Sign(r) = "," THEN CObject(Forth(r, 1), with)
                ELSE IF Sign(r) = "}" THEN Gives(Forth(r, 1), with) ELSE Gives(Bad(r), with)

CArray(p, o) ==
  LET v == CValue(p)
      with == Append(o, v.v)
      r == Ws(v.q)
  IN  IF v.q.bad THEN Gives(v.q, List(o))
      ELSE IF Sign(r) = "," THEN CArray(Forth(r, 1), with)
      ELSE IF Sign(r) = "]" THEN Gives(Forth(r, 1), List(with)) ELSE Gives(Bad(r), List(with))

\* deviation: what follows the value is not looked at
CParse_prefix(s) == Verdict(CValue(Reader(s)))
CParse(s) ==
  LET r == CValue(Reader(s))
      e == IF r.q.bad THEN r.q ELSE Ws(r.q)
  IN  IF ~r.q.bad /\ e.i < Len(s) THEN Error ELSE Verdict(r)

(***************************************************************************)
(* Writing.                                                                *)
(***************************************************************************)
\* deviation: quotes are written as they are
Escape_bare(s) == << "\"" >> \o [n \in DOMAIN s |-> IF s[n] = "newline" THEN "\\n" ELSE IF s[n] = "ctrl1" THEN "\\u0001" ELSE IF s[n] = "quote" THEN "\"" ELSE s[n]] \o << "\"" >>
Escape(s) ==
  << "\"" >> \o
  [n \in DOMAIN s |-> CASE s[n] = "newline" -> "\\n" [] s[n] = "quote" -> "\\\"" [] s[n] = "ctrl1" -> "\\u0001" [] OTHER -> s[n]]
  \o << "\"" >>

RECURSIVE Write(_)
Write(v) ==
  CASE v.k = "null" -> << "null" >>
    [] v.k = "bool" -> << IF v.of THEN "true" ELSE "false" >>
    [] v.k \in {"int", "float"} -> v.of
    [] v.k = "str" -> Escape(v.of)
    [] v.k = "list" -> << "[" >> \o FlattenSeq([n \in DOMAIN v.items |->
                         (IF n > 1 THEN << "," >> ELSE << >>) \o Write(v.items[n])]) \o << "]" >>
    [] v.k = "dict" -> << "{" >> \o FlattenSeq([n \in DOMAIN v.items |->
                         (IF n > 1 THEN << "," >> ELSE << >>) \o Escape(v.keys[n]) \o << ":" >> \o Write(v.items[n])]) \o << "}" >>
=============================================================================
