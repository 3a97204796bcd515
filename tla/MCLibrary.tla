------------------------------ MODULE MCLibrary ------------------------------
EXTENDS Library, TLC
CONSTANTS MaxSrc, MaxText, MaxJson, MaxStream, MaxSort
Letter(c) == [k |-> "char", c |-> c]
Dot == [k |-> "sign", is |-> "any", as |-> << "." >>]
Bol == [k |-> "sign", is |-> "bol", as |-> << "^" >>]
Eol == [k |-> "sign", is |-> "eol", as |-> << "$" >>]
NotA == [k |-> "sign", is |-> "set", as |-> << "[", "^", "a", "]" >>, set |-> {"b", "c", "1"}]
Atoms == {Letter("a"), Letter("b"), Bol, Eol, NotA, Dot}
Reps(S) == [k : {"rep"}, op : {"*", "+", "?"}, lazy : BOOLEAN, x : S]
Cats(S, T) == [k : {"cat"}, l : S, r : T]
Alts(S, T) == [k : {"alt"}, l : S, r : T]
GroupsOf(S) == [k : {"group"}, x : S]
Letters == {Letter("a"), Letter("b")}
Small == Atoms \cup Reps({Letter("a")}) \cup GroupsOf(Letters) \cup Cats(Letters, Letters) \cup Alts(Letters, Atoms)
MCTrees == Small \cup Reps(Small) \cup GroupsOf(Reps(Letters)) \cup Reps(GroupsOf(Reps({Letter("a")}) \cup Alts(Letters, Letters)))
           \cup Cats(Small, Small) \cup Alts(Alts(Letters, Letters), Small)
MCTexts == BoundedSeq({"a", "b"}, MaxText)
Tokens == {"(", ")", "[", "]", "^", "-", "a", "c", "*", "?", "|", "\\", "d", ":"}

Chars == {"a", "space", "ideospace", "eacute", "uuml", "han"}
Ints == (0 - 1)..3
TextJob(names, ss, ts, ms, ns) == [call : {"text"}, name : names, s : ss, t : ts, m : ms, n : ns]
MCTextJobs ==
  TextJob({"slice"}, BoundedSeq(Chars, 2), {<< >>}, Ints, Ints)
  \cup TextJob({"index", "pad_left", "pad_right"}, BoundedSeq(Chars, 3), {<< >>}, Ints, {0})
  \cup TextJob({"find", "split", "replace", "starts", "ends", "contains"}, BoundedSeq({"a", "eacute", "uuml"}, 3),
               BoundedSeq({"a", "eacute", "uuml"}, 2), {0}, {0})
  \cup TextJob({"strip"}, BoundedSeq(Chars, 3), {<< >>}, {0}, {0})

Signs == {"{", "}", "[", "]", ":", ",", "\"", "\\n", "\\?", "\\ud800", "true", "1", "-", " "}
Odd == {"1", "2", ".", "e", "+", "-"}
Scalars == {Js!Null, Js!Scalar("bool", TRUE), Js!Scalar("int", << "-", "1" >>), Js!Scalar("float", << "1", ".", "2" >>),
            Js!Scalar("float", << "1", "e", "-", "1" >>), Js!Scalar("str", << "newline", "quote" >>), Js!Scalar("str", << "ctrl1" >>)}
Seqs(S) == {<< >>} \cup {<< a >> : a \in S} \cup {<< a, b >> : a \in S, b \in S}
Lists(S) == {Js!List(i) : i \in Seqs(S)}
DictsOf(S) == {Js!Dict(<< << "a" >> >>, << v >>) : v \in S} \cup {Js!Dict(<< << "a" >>, << "quote" >> >>, << v, w >>) : v \in S, w \in S}
MCValues == Scalars \cup Lists(Scalars) \cup DictsOf(Scalars) \cup Lists(Lists({Js!Null})) \cup DictsOf(Lists(Scalars))

MCJobs ==
  [call : {"compile"}, src : BoundedSeq(Tokens, MaxSrc)]
  \cup [call : {"match"}, tree : MCTrees, text : MCTexts]
  \cup MCTextJobs
  \cup [call : {"json"}, src : BoundedSeq(Signs, MaxJson) \cup BoundedSeq(Odd, MaxJson)]
  \cup [call : {"write"}, value : MCValues]
  \cup [call : {"number"}, op : Nu!Ops, x : Nu!Words, y : Nu!Words]
  \cup [call : {"reverse"}, keys : BoundedSeq(1..3, 5)]
  \cup [call : {"channel"}, ops : BoundedSeq({"send", "recv"}, 9)]
  \cup [call : {"slice"}, keys : {<< 1, 2, 3 >>}, from : (0 - 2)..5, to : (0 - 2)..5]
MCKeyLists == BoundedSeq(1..3, MaxSort)
MCStreams == {[i \in 1..MaxStream |-> [nr |-> i, newline |-> f[i]]] : f \in [1..MaxStream -> BOOLEAN]}
=============================================================================
