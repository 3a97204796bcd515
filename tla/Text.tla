-------------------------------- MODULE Text --------------------------------
(***************************************************************************)
(* Methods of Str, twice: the interpreter works on characters, the C       *)
(* runtime on the bytes of UTF-8.  A character is a name; Bytes gives its  *)
(* encoding, a lead byte and continuation bytes.  Two wide characters      *)
(* share their lead byte, two others their last one, so that a search that *)
(* stops at the wrong byte shows.  Each native operator counts, cuts and   *)
(* compares bytes exactly where the C function does.                       *)
(***************************************************************************)
EXTENDS Integers, Sequences, FiniteSets, FiniteSetsExt, SequencesExt

Bytes == [a |-> << "a" >>, space |-> << "sp" >>, ideospace |-> << "L3", "80", "80" >>,
          eacute |-> << "L2", "a9" >>, uuml |-> << "L2", "bc" >>, han |-> << "L4", "95", "9c" >>]
Continuation == {"80", "a9", "bc", "95", "9c"}
\* char_width, mi_char_width: which characters take two columns
Wide == {"ideospace", "han"}
White == {"space", "ideospace"}

Encode(s) == FlattenSeq([n \in DOMAIN s |-> Bytes[s[n]]])
Clip(n, lo, hi) == IF n < lo THEN lo ELSE IF n > hi THEN hi ELSE n
Times(s, n) == FlattenSeq([k \in 1..n |-> s])

(***************************************************************************)
(* The interpreter.  A cut is a pair of bounds, from 0.                    *)
(***************************************************************************)
Cut(s, from, to) == SubSeq(s, from + 1, to)

\* slice_bounds: out of range is clipped
SliceBounds(n, from, to) == LET a == Clip(from, 0, n) IN << a, Clip(to, a, n) >>
Slice(s, from, to) == LET b == SliceBounds(Len(s), from, to) IN Cut(s, b[1], b[2])

At(s, sub, i) == i + Len(sub) <= Len(s) /\ Cut(s, i, i + Len(sub)) = sub
Found(s, sub) == {i \in 0..Len(s) : At(s, sub, i)}
FindIn(s, sub) == IF Found(s, sub) = {} THEN -1 ELSE Min(Found(s, sub))

RECURSIVE SplitBy(_, _)
\* Rust's split: an empty separator matches between all characters and at both ends
SplitBy(s, sep) ==
  IF sep = << >> THEN << << >> >> \o [n \in DOMAIN s |-> << s[n] >>] \o << << >> >>
  ELSE IF Found(s, sep) = {} THEN << s >>
  ELSE LET i == FindIn(s, sep) IN << Cut(s, 0, i) >> \o SplitBy(Cut(s, i + Len(sep), Len(s)), sep)

Joined(parts, sep) == FlattenSeq([n \in DOMAIN parts |-> IF n = 1 THEN parts[n] ELSE sep \o parts[n]])
Replace(s, from, to) ==
  IF from = << >> THEN to \o FlattenSeq([n \in DOMAIN s |-> << s[n] >> \o to]) ELSE Joined(SplitBy(s, from), to)
Strip(s) ==
  LET ink == {n \in DOMAIN s : s[n] \notin White}
  IN  IF ink = {} THEN << >> ELSE SubSeq(s, Min(ink), Max(ink))

Width(s) == FoldSeq(LAMBDA ch, w : w + (IF ch \in Wide THEN 2 ELSE 1), 0, s)
Padding(s, w) == Times(<< "space" >>, Clip(w - Width(s), 0, 100))
Index(s, i) == IF i < 0 \/ i >= Len(s) THEN "panic" ELSE << s[i + 1] >>

Interp(call, s, t, m, n) ==
  CASE call = "slice"   -> Encode(Slice(s, m, n))
    [] call = "find"    -> FindIn(s, t)
    [] call = "index"   -> IF Index(s, m) = "panic" THEN "panic" ELSE Encode(Index(s, m))
    [] call = "split"   -> LET p == SplitBy(s, t) IN [k \in DOMAIN p |-> Encode(p[k])]
    [] call = "replace" -> Encode(Replace(s, t, << "han" >>))
    [] call = "strip"   -> Encode(Strip(s))
    [] call = "starts"  -> At(s, t, 0)
    [] call = "ends"    -> Len(t) <= Len(s) /\ At(s, t, Len(s) - Len(t))
    [] call = "contains" -> Found(s, t) # {}
    [] call = "pad_left"  -> Encode(Padding(s, m) \o s)
    [] call = "pad_right" -> Encode(s \o Padding(s, m))

(***************************************************************************)
(* The C runtime, on bytes b.                                              *)
(***************************************************************************)
Leads(b) == {i \in 0..(Len(b) - 1) : b[i + 1] \notin Continuation}
Utf8Len(b) == Cardinality(Leads(b))

\* the byte where character `at` begins, or the end
CharToByte(b, at) ==
  IF at < Utf8Len(b) /\ at >= 0 THEN CHOOSE i \in Leads(b) : Cardinality({j \in Leads(b) : j < i}) = at ELSE Len(b)

NatSlice(b, from, to) ==
  LET n == Utf8Len(b)
      f == Clip(from, 0, n)
      t == IF to < f THEN f ELSE IF to > n THEN n ELSE to
  IN  Cut(b, CharToByte(b, f), CharToByte(b, t))

\* Deviation: the place in bytes where characters are counted
NatFind_bytes(b, sub) == IF sub = << >> THEN 0 ELSE IF Found(b, sub) = {} THEN -1 ELSE Min(Found(b, sub))
NatFind(b, sub) ==
  IF sub = << >> THEN 0
  ELSE IF Found(b, sub) = {} THEN -1 ELSE Utf8Len(Cut(b, 0, Min(Found(b, sub))))

NatIndex(b, i) ==
  IF i < 0 \/ i >= Utf8Len(b) THEN "panic" ELSE Cut(b, CharToByte(b, i), CharToByte(b, i + 1))

RECURSIVE NatSplitFrom(_, _, _, _)
NatSplitFrom(b, sep, start, i) ==
  IF i + Len(sep) > Len(b) THEN << Cut(b, start, Len(b)) >>
  ELSE IF At(b, sep, i) THEN << Cut(b, start, i) >> \o NatSplitFrom(b, sep, i + Len(sep), i + Len(sep))
  ELSE NatSplitFrom(b, sep, start, i + 1)
NatSplit(b, sep) == IF sep = << >> THEN << b >> ELSE NatSplitFrom(b, sep, 0, 0)

\* mi_replace: once to count, once to copy, each from behind the last hit
RECURSIVE Hits(_, _, _), Copied(_, _, _, _)
NextHit(b, from, src) == {i \in src..Len(b) : At(b, from, i)}
Hits(b, from, i) ==
  IF NextHit(b, from, i) = {} THEN 0 ELSE 1 + Hits(b, from, Min(NextHit(b, from, i)) + Len(from))
Copied(b, from, to, src) ==
  IF NextHit(b, from, src) = {} THEN Cut(b, src, Len(b))
  ELSE LET at == Min(NextHit(b, from, src))
       IN  Cut(b, src, at) \o to \o Copied(b, from, to, at + Len(from))
\* what is written must fill the buffer exactly that was counted for it
NatReplace(b, from, to) ==
  IF from = << >> THEN b
  ELSE LET out == Copied(b, from, to, 0)
       IN  IF Len(out) = Len(b) + Hits(b, from, 0) * (Len(to) - Len(from)) THEN out ELSE "overrun"

\* isspace knows the blanks of ASCII only
RECURSIVE NatStrip(_)
NatStrip(b) ==
  IF b # << >> /\ Head(b) = "sp" THEN NatStrip(Tail(b))
  ELSE IF b # << >> /\ Last(b) = "sp" THEN NatStrip(Front(b)) ELSE b

\* mi_disp_width decodes: lead by lead, with the length the lead byte tells
RECURSIVE NatWidth(_)
LeadLen(lead) == CASE lead \in {"a", "sp"} -> 1 [] lead = "L2" -> 2 [] OTHER -> 3
NatWidth(b) ==
  IF b = << >> THEN 0
  ELSE LET n == Clip(LeadLen(Head(b)), 1, Len(b))
           ch == Cut(b, 0, n)
       IN  (IF \E w \in Wide : Bytes[w] = ch THEN 2 ELSE 1) + NatWidth(Cut(b, n, Len(b)))
NatPadding(b, w) == IF NatWidth(b) >= w THEN << >> ELSE Times(<< "sp" >>, w - NatWidth(b))

Native(call, b, t, m, n) ==
  CASE call = "slice"   -> NatSlice(b, m, n)
    [] call = "find"    -> NatFind(b, t)
    [] call = "index"   -> NatIndex(b, m)
    [] call = "split"   -> NatSplit(b, t)
    [] call = "replace" -> NatReplace(b, t, Bytes["han"])
    [] call = "strip"   -> NatStrip(b)
    [] call = "starts"  -> Len(t) <= Len(b) /\ Cut(b, 0, Len(t)) = t
    [] call = "ends"    -> Len(t) <= Len(b) /\ Cut(b, Len(b) - Len(t), Len(b)) = t
    [] call = "contains" -> IF t = << >> THEN TRUE ELSE NextHit(b, t, 0) # {}
    [] call = "pad_left"  -> NatPadding(b, m) \o b
    [] call = "pad_right" -> b \o NatPadding(b, m)
=============================================================================
