------------------------------- MODULE Language -------------------------------
(***************************************************************************)
(* The two ways a program goes (main.rs): `siskin check` judges it, then   *)
(* `siskin run` interprets it, or `siskin build` writes C, the C compiler  *)
(* makes a program of that and the system runs it.  The README promises    *)
(* that what the check accepts goes right, and the same both ways.         *)
(***************************************************************************)
EXTENDS Native

CONSTANTS Programs,     \* the programs that are tried
          MaxDepth, MaxRounds

I == INSTANCE Interp

VARIABLES program, verdict, ran, generated, built

languageVars == << program, verdict, ran, generated, built >>
Nothing == << >>        \* not done yet; else a sequence of one

Init ==
  /\ program \in Programs
  /\ verdict = Nothing /\ ran = Nothing /\ generated = Nothing /\ built = Nothing

Accepted == verdict = << {} >>
Check ==
  /\ verdict = Nothing
  /\ verdict' = << check_program(program) >>
  /\ UNCHANGED << program, ran, generated, built >>

Run ==
  /\ Accepted /\ ran = Nothing
  /\ ran' = << I!run_program(program) >>
  /\ UNCHANGED << program, verdict, generated, built >>

Generate ==
  /\ Accepted /\ generated = Nothing
  /\ generated' = << gen_program(program) >>
  /\ UNCHANGED << program, verdict, ran, built >>

\* the C compiler settles in which order it evaluates what C leaves open
Execute(left) ==
  /\ generated # Nothing /\ generated[1].errs = {} /\ built = Nothing
  /\ built' = << execute(program, generated[1], left) >>
  /\ UNCHANGED << program, verdict, ran, generated >>

Next == Check \/ Run \/ Generate \/ \E left \in BOOLEAN : Execute(left)
Spec == Init /\ [][Next]_languageVars

(***************************************************************************)
(* Properties.                                                             *)
(***************************************************************************)
\* How an accepted program may end: normally, with an error that main returns,
\* or with one that depends on its data and not on its types.
DataErrors == {"E0203", "E0204", "E0224", "E0229", "E0231", "E0242"}
Ends == {"ok", "return", "error", "endless"} \cup DataErrors

\* What the check accepts does not go wrong in the interpreter: no unknown name,
\* no value of a type that an operation does not take (types.rs against the
\* errors of interp.rs).
CheckedRunsRight == \A r \in Seq1(ran) : r.end \in Ends

\* What the check accepts becomes C that the C compiler accepts: the generator
\* may refuse, but what it writes is typed as its declarations say (cgen.rs).
CheckedCompiles == \A g \in Seq1(generated) : g.errs # {"cc"}

\* A compiled program never reads a list buffer that was given back when the
\* list grew, nor a variable before it has a value (cgen.rs, mi_list_push).
NothingStale == \A r \in Seq1(built) : r.end \notin {"freed", "uninitialized"}

\* The compiled program prints what the interpreter prints and ends the same
\* way, whatever order the C compiler chooses (README: "the same output either
\* way").
Alike(a, b) == a.out = b.out /\ (a.end = b.end \/ {a.end, b.end} \subseteq {"ok", "return"})
SameOutput ==
  \A a \in Seq1(ran), b \in Seq1(built) : {a.end, b.end} \cap {"endless", "E0224"} = {} => Alike(a, b)
===============================================================================
