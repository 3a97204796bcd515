------------------------------- MODULE Library -------------------------------
(***************************************************************************)
(* The parts of the run-time library that exist twice, in Rust under the   *)
(* interpreter and in C inside compiled programs.  `part` says which of    *)
(* them a behaviour is about: calls that keep nothing behind (`job` is the *)
(* call with its arguments, `answer` what the two sides give), a Dict,     *)
(* memory the program manages itself, the buffer of a connection, the      *)
(* sorting of a list, or a loop over the matches in a text.                *)
(***************************************************************************)
EXTENDS Integers, Sequences, FiniteSets, SequencesExt, Dict, Memory, NetBuf, ListSort, Scan

CONSTANTS MaxSteps, MaxGroups, MaxRanges, MaxDigits, Bits,
          Jobs          \* the calls that are tried

VARIABLES part, job, answer
calls == << job, answer >>
vars == << part, calls, dictVars, memoryVars, connVars, sortVars, scanVars >>

Re == INSTANCE Regex
Tx == INSTANCE Text
Js == INSTANCE Json
Nu == INSTANCE Numbers
Ring == INSTANCE RingBuf WITH Tasks <- {0}, Main <- 0, Chans <- {}, Cap <- << >>, Values <- Nat, NoVal <- -1
Pending == << >>
Got == answer[1]
Job(name) == [call |-> name]        \* without its arguments: the call is still to come

Init ==
  /\ part \in {"call", "dict", "memory", "conn", "sort", "scan"}
  /\ IF part = "call" THEN job \in {Job(j.call) : j \in Jobs} ELSE job = Job("none")
  /\ answer = Pending
  /\ IF part = "dict" THEN TRUE ELSE hash = [k \in Keys |-> CHOOSE h \in HashRange : TRUE]
  /\ IF part = "conn" THEN TRUE ELSE stream = CHOOSE s \in Streams : TRUE
  /\ IF part = "sort" THEN TRUE ELSE keys = CHOOSE s \in KeyLists : TRUE
  /\ IF part = "scan" THEN TRUE
     ELSE /\ loop = "replace"
          /\ chars = CHOOSE n \in Lengths : TRUE
          /\ ends = CHOOSE f \in Matchers(chars) : TRUE
  /\ DictInit /\ MemoryInit /\ NetBufInit /\ SortInit /\ ScanInit

Answer(name, Sides(_)) ==
  /\ part = "call" /\ job.call = name
  /\ answer = Pending
  /\ \E j \in Jobs : j.call = name /\ job' = j /\ answer' = << Sides(j) >>
  /\ UNCHANGED << part, dictVars, memoryVars, connVars, sortVars, scanVars >>
Both(interp, native) == [interp |-> interp, native |-> native]

CompilePattern == Answer("compile", LAMBDA j : Both(Re!Compile(j.src), Re!CCompile(j.src)))

Matches(prog, text) ==
  [verdict |-> prog.verdict,
   found   |-> Re!Find(prog, text, 0),
   groups  |-> Re!Groups(prog, text)]
MatchPattern == Answer("match", LAMBDA j : Matches(Re!Compile(Re!Written(j.tree)), j.text))

CallText == Answer("text", LAMBDA j : Both(Tx!Interp(j.name, j.s, j.t, j.m, j.n),
                                           Tx!Native(j.name, Tx!Encode(j.s), Tx!Encode(j.t), j.m, j.n)))

ReadJson == Answer("json", LAMBDA j : Both(Js!Parse(j.src), Js!CParse(j.src)))
WriteJson == Answer("write", LAMBDA j : Both(Js!Parse(Js!Write(j.value)), Js!CParse(Js!Write(j.value))))

Calculate == Answer("number", LAMBDA j : Both({Nu!Binary(j.op, j.x, j.y)}, Nu!Compiled(j.op, j.x, j.y)))
ReverseList == Answer("reverse", LAMBDA j : Both(Reverse(j.keys), Nu!mi_list_reverse(j.keys)))
Sliced(xs, from, to) == LET b == Nu!slice_bounds(xs, from, to) IN SubSeq(xs, b[1] + 1, b[2])
SliceList == Answer("slice", LAMBDA j : Both(Sliced(j.keys, j.from, j.to), Nu!mi_list_slice(j.keys, j.from, j.to)))

\* A channel without a bound: VecDeque under the interpreter, the circular array
\* of rt_conc.c in compiled programs.  The values sent are 1, 2, 3, ...
Transfer(ch, op) ==
  CASE op = "send" -> [ch EXCEPT !.sent = @ + 1, !.queue = Append(@, ch.sent + 1), !.ring = Ring!Push(@, ch.sent + 1)]
    [] op = "recv" /\ ch.queue # << >> ->
         [ch EXCEPT !.queue = Tail(@), !.ring = Ring!Pop(@), !.out = Append(@, Head(ch.queue)), !.ringOut = Append(@, Ring!First(ch.ring))]
    [] OTHER -> ch
UseChannel ==
  Answer("channel", LAMBDA j :
    LET end == FoldLeft(Transfer, [sent |-> 0, queue |-> << >>, ring |-> Ring!EmptyRing, out |-> << >>, ringOut |-> << >>], j.ops)
    IN  Both(end.out \o end.queue, end.ringOut \o Ring!Contents(end.ring)))

Next ==
  \/ CompilePattern \/ MatchPattern \/ CallText \/ ReadJson \/ WriteJson
  \/ Calculate \/ ReverseList \/ SliceList \/ UseChannel
  \/ part = "dict" /\ DictNext /\ UNCHANGED << part, calls, memoryVars, connVars, sortVars, scanVars >>
  \/ part = "memory" /\ MemoryNext /\ UNCHANGED << part, calls, dictVars, connVars, sortVars, scanVars >>
  \/ part = "conn" /\ NetBufNext /\ UNCHANGED << part, calls, dictVars, memoryVars, sortVars, scanVars >>
  \/ part = "sort" /\ SortNext /\ UNCHANGED << part, calls, dictVars, memoryVars, connVars, scanVars >>
  \/ part = "scan" /\ ScanNext /\ UNCHANGED << part, calls, dictVars, memoryVars, connVars, sortVars >>
Spec == Init /\ [][Next]_vars

Done(name) == job.call = name /\ answer # Pending

\* Where the two sides are known to part: separators that are empty, blanks
\* other than those of ASCII at an end, overflow that C leaves undefined.
Exempt ==
  \/ job.call = "text" /\ job.name \in {"split", "replace"} /\ job.t = << >>
  \/ job.call = "text" /\ job.name = "strip" /\ Contains(job.s, "ideospace")
  \/ job.call = "number" /\ Nu!Overflows(job.op, job.x, job.y)

\* `siskin run` and the compiled program give the same answer: patterns compile
\* to the same program or complaint, methods of Str that count characters on
\* one side and bytes on the other agree, arithmetic agrees up to the panic,
\* lists are reversed and cut alike, and a channel gives back what was
\* sent, in order, wherever its head was when the array grew.
SameAnswer ==
  (answer # Pending /\ job.call \notin {"match", "json"} /\ ~Exempt) => Got.interp = Got.native

\* The compiled program finds the first place where what the pattern means
\* matches, and that match, with the groups where they belong: jumps moved by
\* later operators, priorities and the marks restored on backtracking.  A loop
\* that would never end finds nothing.
MatchIsMeaning ==
  Done("match") =>
    LET places == {p \in 0..Len(job.text) : Re!Meaning(job.tree, job.text, p) # << >>}
        first  == IF places = {} THEN << >> ELSE Re!Meaning(job.tree, job.text, Min(places))
    IN  /\ Got.verdict = Re!Good /\ Got.found = first
        /\ Got.groups = IF first = << >> THEN << >>
                        ELSE [g \in 1..Re!Opened(job.tree) + 1 |-> Re!Group(job.text, first[1], g - 1)]

\* What one JSON writer wrote, both readers read back: escapes, nesting, keys.
JsonComesBack == Done("write") => Got.interp = job.value /\ Got.native = job.value

\* every run of signs of a numeral is a number
NumeralsAreNumbers(s) ==
  \A from, to \in DOMAIN s :
    LET run == SubSeq(s, from, to) IN
    (/\ from <= to /\ \A n \in from..to : s[n] \in Js!NumberSign
     /\ from = 1 \/ s[from - 1] \notin Js!NumberSign
     /\ to = Len(s) \/ s[to + 1] \notin Js!NumberSign) => Js!IsInt(run) \/ Js!IsFloat(run)

\* Both JSON readers accept the same texts with the same values, and reject
\* the same: brackets, commas, keys, escapes cut off anywhere, blanks.  Texts
\* with something that only looks like a number, or with half a character, are
\* where the two are known to part.
ReadersAgree ==
  (Done("json") /\ NumeralsAreNumbers(job.src) /\ ~Contains(job.src, "\\ud800")) => Got.interp = Got.native

\* JSON means the same to both sides: they read alike, and what was written
\* comes back.
JsonAgrees == ReadersAgree /\ JsonComesBack

\* json.rs: "The C side follows the same rules, so `siskin run` and `siskin
\* build` give the same answer."
JsonSameAnswer == Done("json") => Got.interp = Got.native
=============================================================================
