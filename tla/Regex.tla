-------------------------------- MODULE Regex --------------------------------
(***************************************************************************)
(* std.re: the compiler of patterns and the backtracking matcher, which    *)
(* exist twice, in Rust for `siskin run` (regex.rs) and in C for compiled  *)
(* programs (RUNTIME_RE of cgen.rs), and what a pattern means.             *)
(*                                                                         *)
(* A text is a sequence of characters.  Program counters and positions     *)
(* count from 0 as in the sources; code[pc + 1] is the instruction at pc.  *)
(* The two compilers differ in how an error travels: Rust leaves at once   *)
(* with `?`, C raises a flag that every loop must look at.                 *)
(***************************************************************************)
EXTENDS Integers, Sequences, FiniteSets, FiniteSetsExt, SequencesExt

CONSTANTS MaxSteps,     \* MAX_STEPS, MI_RE_STEPS
          MaxGroups,    \* MAX_GROUPS, MI_RE_GROUPS
          MaxRanges     \* MI_RE_RANGES; the Rust side has no such limit

\* Every character of the patterns and texts, in the order of their codes.
Alphabet == << "$", "(", ")", "*", "+", "-", ".", "1", ":", "?", "[", "\\", "]", "^", "a", "b", "c", "d", "|" >>
Ord(ch) == CHOOSE n \in DOMAIN Alphabet : Alphabet[n] = ch

Good == "ok"
Inst(op, a, b) == [op |-> op, a |-> a, b |-> b]
ClassOf(neg, ranges) == [neg |-> neg, ranges |-> ranges]
Digits == << <<Ord("1"), Ord("1")>> >>

\* \d and \D; every other letter after a backslash stands for itself
EscClass(e) == IF e = "d" THEN ClassOf(FALSE, Digits) ELSE ClassOf(TRUE, << >>)
IsEscClass(e) == e = "d"

Has(class, ch) ==
  (\E n \in DOMAIN class.ranges : class.ranges[n][1] <= Ord(ch) /\ Ord(ch) <= class.ranges[n][2]) # class.neg

\* The parser's state: source, position, code so far, groups opened, verdict.
Parser(src) == [src |-> src, pos |-> 0, code |-> << >>, groups |-> 0, verdict |-> Good]
More(p)   == p.pos < Len(p.src)
Peek(p)   == IF More(p) THEN p.src[p.pos + 1] ELSE ""
Second(p) == IF p.pos + 1 < Len(p.src) THEN p.src[p.pos + 2] ELSE ""
Skip(p, n) == [p EXCEPT !.pos = @ + n]
Emit(p, op, a, b) == [p EXCEPT !.code = Append(@, Inst(op, a, b))]
Err(p, m) == IF p.verdict = Good THEN [p EXCEPT !.verdict = m] ELSE p
Failed(p) == p.verdict # Good
\* go on unless something failed: `?` in Rust, a look at the flag in C
Try(p, Go(_)) == IF Failed(p) THEN p ELSE Go(p)

\* deviation: the second target of a split stays where it was
Shift_half(i) == IF i.op \in {"jmp", "split"} THEN [i EXCEPT !.a = @ + 1] ELSE i
Shift(i) == CASE i.op = "jmp"   -> [i EXCEPT !.a = @ + 1]
              [] i.op = "split" -> [i EXCEPT !.a = @ + 1, !.b = @ + 1]
              [] OTHER          -> i

\* Code from `start` on moved one place up, with a split in front of it.
Behind(code, start) ==
  SubSeq(code, 1, start) \o << Inst("split", 0, 0) >> \o
  [n \in 1..(Len(code) - start) |-> Shift(code[start + n])]

Branch(lazy, go, leave) == IF lazy THEN Inst("split", leave, go) ELSE Inst("split", go, leave)

Star(code, start, lazy) ==
  LET c == Append(Behind(code, start), Inst("jmp", start, 0))
  IN  [c EXCEPT ![start + 1] = Branch(lazy, start + 1, Len(c))]
Plus(code, start, lazy) == Append(code, Branch(lazy, start, Len(code) + 1))
Optional(code, start, lazy) ==
  LET c == Behind(code, start) IN [c EXCEPT ![start + 1] = Branch(lazy, start + 1, Len(c))]
Repeated(c, code, start, lazy) ==
  CASE c = "*" -> Star(code, start, lazy)
    [] c = "+" -> Plus(code, start, lazy)
    [] OTHER   -> Optional(code, start, lazy)

\* The left branch of `|` closed by a jump whose target the caller fills in.
LeftBranch(code, start) == Append(Behind(code, start), Inst("jmp", 0, 0))
JoinBranches(code, start, right) ==
  [code EXCEPT ![start + 1] = Inst("split", start + 1, right), ![right] = Inst("jmp", Len(code), 0)]

\* `[...]`: a class keeps at most `room` ranges and drops the others.
RECURSIVE Class(_, _, _, _)
Class(p, class, first, room) ==
  LET c == Peek(p)
      q == Skip(p, 1)
      With(r, ranges) == Class(r, [class EXCEPT !.ranges = SubSeq(@ \o ranges, 1, Min({room, Len(@ \o ranges)}))], FALSE, room)
  IN  IF ~More(p) THEN Err(p, "missing ]")
      ELSE IF c = "]" /\ ~first THEN Emit(q, "class", class, 0)
      ELSE IF c = "\\" /\ ~More(q) THEN Err(q, "dangling backslash")
      ELSE IF c = "\\" THEN With(Skip(q, 1), IF IsEscClass(Peek(q)) THEN EscClass(Peek(q)).ranges
                                             ELSE << <<Ord(Peek(q)), Ord(Peek(q))>> >>)
      ELSE IF Peek(q) = "-" /\ Second(q) \notin {"", "]"} THEN With(Skip(q, 2), << <<Ord(c), Ord(Second(q))>> >>)
      ELSE With(q, << <<Ord(c), Ord(c)>> >>)

\* One atom other than a group.
Single(p, room) ==
  LET c == Peek(p)
      q == Skip(p, 1)
  IN  CASE c = "" -> Err(p, "unexpected end")
        [] c = "[" -> IF Peek(q) = "^" THEN Class(Skip(q, 1), ClassOf(TRUE, << >>), TRUE, room)
                                       ELSE Class(q, ClassOf(FALSE, << >>), TRUE, room)
        [] c = "." -> Emit(q, "any", 0, 0)
        [] c = "^" -> Emit(q, "bol", 0, 0)
        [] c = "$" -> Emit(q, "eol", 0, 0)
        [] c = "\\" -> IF ~More(q) THEN Err(q, "dangling backslash")
                       ELSE IF IsEscClass(Peek(q)) THEN Emit(Skip(q, 1), "class", EscClass(Peek(q)), 0)
                       ELSE Emit(Skip(q, 1), "char", Peek(q), 0)
        [] c = ")" -> Err(q, "unmatched )")
        [] c \in {"*", "+"} -> Err(q, "nothing to repeat")
        [] OTHER -> Emit(q, "char", c, 0)

\* `(` was read: a group that captures takes the next number, `(?:` takes none.
Captures(p) == ~(Peek(p) = "?" /\ Second(p) = ":")
Open(p) == LET g == p.groups + 1 IN
  IF ~Captures(p) THEN Skip(p, 2)
  ELSE IF g >= MaxGroups THEN Err([p EXCEPT !.groups = g], "too many groups")
  ELSE Emit([p EXCEPT !.groups = g], "save", 2 * g, 0)
Close(p, opened, inner) ==
  IF Peek(inner) # ")" THEN Err(inner, "missing )")
  ELSE IF Captures(p) THEN Emit(Skip(inner, 1), "save", 2 * opened.groups + 1, 0) ELSE Skip(inner, 1)

\* The whole pattern is group 0, and all of it must have been read.
Start(src) == Emit(Parser(src), "save", 0, 0)
Compiled(p) ==
  CASE Failed(p) -> [verdict |-> p.verdict]
    [] ~Failed(p) /\ More(p) -> [verdict |-> "not read to the end"]
    [] OTHER -> [verdict |-> Good, code |-> Emit(Emit(p, "save", 1, 0), "match", 0, 0).code, groups |-> p.groups]

(***************************************************************************)
(* The Rust compiler.                                                      *)
(***************************************************************************)
RECURSIVE RustAlt(_), RustAltMore(_, _), RustConcat(_), RustRepeatMore(_, _)
Unlimited == 1000

RustAtom(p) ==
  IF Peek(p) # "(" THEN Single(p, Unlimited)
  ELSE Try(Open(Skip(p, 1)), LAMBDA opened : Try(RustAlt(opened), LAMBDA inner : Close(Skip(p, 1), opened, inner)))

RustRepeatMore(p, start) ==
  IF Peek(p) \notin {"*", "+", "?"} THEN p
  ELSE LET lazy == Second(p) = "?"
       IN  RustRepeatMore([Skip(p, IF lazy THEN 2 ELSE 1) EXCEPT !.code = Repeated(Peek(p), @, start, lazy)], start)
RustRepeat(p) == Try(RustAtom(p), LAMBDA q : RustRepeatMore(q, Len(p.code)))

RustConcat(p) == IF Peek(p) \in {"", "|", ")"} THEN p ELSE Try(RustRepeat(p), LAMBDA q : RustConcat(q))

RustAltMore(p, start) ==
  IF Peek(p) # "|" THEN p
  ELSE LET left == LeftBranch(p.code, start)
       IN  Try(RustConcat([Skip(p, 1) EXCEPT !.code = left]), LAMBDA q :
             RustAltMore([q EXCEPT !.code = JoinBranches(@, start, Len(left))], start))
RustAlt(p) == Try(RustConcat(p), LAMBDA q : RustAltMore(q, Len(p.code)))

Compile(src) == Compiled(RustAlt(Start(src)))

(***************************************************************************)
(* The C compiler: the same grammar, the first error kept in a flag that   *)
(* every function and loop has to look at.                                 *)
(***************************************************************************)
RECURSIVE CAlt(_), CAltMore(_, _), CConcat(_), CRepeatMore(_, _)

CAtom(q) ==
  IF Failed(q) THEN q
  ELSE IF Peek(q) # "(" THEN Single(q, MaxRanges)
  ELSE Try(Open(Skip(q, 1)), LAMBDA opened : Try(CAlt(opened), LAMBDA inner : Close(Skip(q, 1), opened, inner)))

CRepeatMore(q, start) ==
  IF ~More(q) \/ Peek(q) \notin {"*", "+", "?"} THEN q
  ELSE LET lazy == Second(q) = "?"
       IN  CRepeatMore([Skip(q, IF lazy THEN 2 ELSE 1) EXCEPT !.code = Repeated(Peek(q), @, start, lazy)], start)
CRepeat(q) == Try(CAtom(q), LAMBDA r : CRepeatMore(r, Len(q.code)))

CConcat(q) == IF Failed(q) \/ ~More(q) \/ Peek(q) \in {"|", ")"} THEN q ELSE CConcat(CRepeat(q))

\* The branches are joined whether or not the right one failed.
CAltMore(q, start) ==
  IF Failed(q) \/ ~More(q) \/ Peek(q) # "|" THEN q
  ELSE LET left == LeftBranch(q.code, start)
       IN  CAltMore([CConcat([Skip(q, 1) EXCEPT !.code = left]) EXCEPT !.code = JoinBranches(@, start, Len(left))], start)
CAlt(q) == CAltMore(CConcat(q), Len(q.code))

CCompile(src) == Compiled(CAlt(Start(src)))

(***************************************************************************)
(* The matcher.  A thread of the search is a program counter, a position   *)
(* and the marks of the groups; the stack holds the branches not taken.    *)
(***************************************************************************)
Thread(pc, sp, saves) == [pc |-> pc, sp |-> sp, saves |-> saves]
NoMark == -1

\* What one instruction does to the thread: the thread it becomes, or a failure.
Steps(ins, t, text) ==
  LET Eats(yes) == IF t.sp < Len(text) /\ yes THEN {[t EXCEPT !.pc = @ + 1, !.sp = @ + 1]} ELSE {}
      Holds(yes) == IF yes THEN {[t EXCEPT !.pc = @ + 1]} ELSE {}
      ch == text[t.sp + 1]
  IN  CASE ins.op = "char"  -> Eats(ch = ins.a)
        [] ins.op = "any"   -> Eats(TRUE)
        [] ins.op = "class" -> Eats(Has(ins.a, ch))
        [] ins.op = "bol"   -> Holds(t.sp = 0)
        [] ins.op = "eol"   -> Holds(t.sp = Len(text))
        [] ins.op = "save"  -> {[t EXCEPT !.pc = @ + 1, !.saves[ins.a] = t.sp]}
        [] OTHER            -> {[t EXCEPT !.pc = ins.a]}     \* jmp, split

RECURSIVE Search(_, _, _, _, _)
Search(code, text, t, stack, steps) ==
  LET ins  == code[t.pc + 1]
      next == Steps(ins, t, text)
      kept == IF ins.op = "split" THEN Append(stack, [t EXCEPT !.pc = ins.b]) ELSE stack
  IN  IF steps = MaxSteps THEN << >>
      ELSE IF ins.op = "match" THEN << t.saves >>
      ELSE IF next # {} THEN Search(code, text, CHOOSE u \in next : TRUE, kept, steps + 1)
      ELSE IF stack = << >> THEN << >>
      ELSE Search(code, text, Last(stack), Front(stack), steps + 1)

\* The marks of a match that starts at `start`, or nothing.
MatchAt(prog, text, start) ==
  Search(prog.code, text, Thread(0, start, [s \in 0..(2 * MaxGroups - 1) |-> NoMark]), << >>, 0)

RECURSIVE Find(_, _, _)
Find(prog, text, from) ==
  LET m == MatchAt(prog, text, from)
  IN  IF m # << >> \/ from >= Len(text) THEN m ELSE Find(prog, text, from + 1)

Part(text, from, to) == SubSeq(text, from + 1, to)
Group(text, saves, g) ==
  IF saves[2 * g] < 0 \/ saves[2 * g + 1] < 0 THEN << >> ELSE Part(text, saves[2 * g], saves[2 * g + 1])

Groups(prog, text) ==
  LET m == Find(prog, text, 0)
  IN  IF m = << >> THEN << >> ELSE [n \in 1..(prog.groups + 1) |-> Group(text, m[1], n - 1)]

(***************************************************************************)
(* What a pattern means, written without reference to the program: a tree, *)
(* the text it is written as, and the ends it can reach from a position,   *)
(* the preferred one first.  A loop whose body matched nothing goes round  *)
(* for ever (Diverges): what is behind it is never tried.                  *)
(***************************************************************************)
RECURSIVE Written(_), Ends(_, _, _), EndsOf(_, _, _, _), Number(_, _)
Compound(t) == t.k \in {"cat", "alt", "rep"}
InParens(t) == IF Compound(t) THEN << "(", "?", ":" >> \o Written(t) \o << ")" >> ELSE Written(t)
Written(t) ==
  CASE t.k = "char" -> << t.c >>
    [] t.k = "sign" -> t.as
    [] t.k = "cat"  -> (IF t.l.k = "alt" THEN InParens(t.l) ELSE Written(t.l)) \o
                       (IF t.r.k = "alt" THEN InParens(t.r) ELSE Written(t.r))
    [] t.k = "alt"  -> Written(t.l) \o << "|" >> \o Written(t.r)
    [] t.k = "rep"  -> InParens(t.x) \o << t.op >> \o (IF t.lazy THEN << "?" >> ELSE << >>)
    [] t.k = "group" -> << "(" >> \o Written(t.x) \o << ")" >>

\* groups are numbered by their opening parenthesis
Opened(t) == Cardinality({n \in DOMAIN Written(t) : Written(t)[n] = "(" /\
               ~(n < Len(Written(t)) /\ Written(t)[n + 1] = "?")})
Number(t, n) ==
  CASE t.k \in {"cat", "alt"} -> [t EXCEPT !.l = Number(@, n), !.r = Number(@, n + Opened(t.l))]
    [] t.k = "rep"   -> [t EXCEPT !.x = Number(@, n)]
    [] t.k = "group" -> [k |-> "group", g |-> n, x |-> Number(t.x, n + 1)]
    [] OTHER -> t

Diverges == [at |-> -1, saves |-> << >>]
UpToDivergence(outs) ==
  IF Contains(outs, Diverges) THEN SubSeq(outs, 1, CHOOSE n \in DOMAIN outs : outs[n] = Diverges /\
                                                     \A o \in 1..(n - 1) : outs[o] # Diverges)
  ELSE outs
End(at, saves) == [at |-> at, saves |-> saves]

\* the ends of t from each of the given outcomes in turn
EndsOf(t, text, outs, whole) ==
  UpToDivergence(FlattenSeq([n \in DOMAIN outs |->
    IF outs[n] = Diverges THEN << Diverges >>
    ELSE IF whole # << >> /\ outs[n].at = whole[1] THEN << Diverges >>
    ELSE Ends(t, text, outs[n])]))

Ends(t, text, o) ==
  LET here == text[o.at + 1]
      Eats(yes) == IF o.at < Len(text) /\ yes THEN << End(o.at + 1, o.saves) >> ELSE << >>
  IN
  CASE t.k = "char" -> Eats(here = t.c)
    [] t.k = "sign" ->
         CASE t.is = "any" -> Eats(TRUE)
           [] t.is = "bol" -> IF o.at = 0 THEN << o >> ELSE << >>
           [] t.is = "eol" -> IF o.at = Len(text) THEN << o >> ELSE << >>
           [] OTHER        -> Eats(here \in t.set)
    [] t.k = "cat" -> EndsOf(t.r, text, Ends(t.l, text, o), << >>)
    [] t.k = "alt" -> UpToDivergence(Ends(t.l, text, o) \o Ends(t.r, text, o))
    [] t.k = "group" ->
         LET inner == Ends(t.x, text, End(o.at, [o.saves EXCEPT ![2 * t.g] = o.at]))
         IN  [n \in DOMAIN inner |-> IF inner[n] = Diverges THEN Diverges
                                     ELSE [inner[n] EXCEPT !.saves[2 * t.g + 1] = inner[n].at]]
    [] t.k = "rep" ->
         LET once  == Ends(t.x, text, o)
             again == [t EXCEPT !.op = "*"]
             more  == IF t.op = "?" THEN once ELSE EndsOf(again, text, once, << o.at >>)
             stop  == << o >>
             \* one round of + came before its first choice
             after == FlattenSeq([n \in DOMAIN once |->
                        IF once[n] = Diverges THEN << Diverges >> ELSE Ends(again, text, once[n])])
         IN  IF t.op = "+" THEN UpToDivergence(after)
             ELSE UpToDivergence(IF t.lazy THEN stop \o more ELSE more \o stop)

Blank == [s \in 0..(2 * MaxGroups - 1) |-> NoMark]
Meaning(t, text, start) ==
  LET outs == Ends(Number(t, 1), text, End(start, [Blank EXCEPT ![0] = start]))
  IN  IF outs = << >> \/ outs[1] = Diverges THEN << >> ELSE << [outs[1].saves EXCEPT ![1] = outs[1].at] >>
=============================================================================
