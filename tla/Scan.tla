-------------------------------- MODULE Scan --------------------------------
(***************************************************************************)
(* find_all, replace and split_re of std.re: three loops that go through a *)
(* text from match to match, alike in interp.rs and in the C of cgen.rs.   *)
(* The pattern is what it finds: from each place of the text the end of    *)
(* the match that begins there, or none; Regex has how that is found.  A   *)
(* step is one round of a loop.  Pieces of the text are their first place  *)
(* and the place behind their last.                                        *)
(***************************************************************************)
EXTENDS Integers, Sequences

CONSTANT Lengths        \* of the texts that are searched
ASSUME LengthsAssumption == Lengths \subseteq Nat

VARIABLES loop,         \* which of the three runs
          chars,        \* the length of its text
          ends,         \* what the pattern matches: match_at
          start, last,  \* "at", where to look next, and what has been written out
          hits,         \* the matches found; replace puts its text in their places
          pieces,       \* what split_re and replace take over from the text
          over          \* the call has returned
scanVars == << loop, chars, ends, start, last, hits, pieces, over >>

NoMatch == -1
Matchers(n) == {f \in [0..n -> NoMatch..n] : \A p \in 0..n : f[p] = NoMatch \/ f[p] >= p}
Piece(a, b) == [from |-> a, to |-> b]

ScanInit ==
  /\ loop \in {"find_all", "replace", "split_re"}
  /\ chars \in Lengths /\ ends \in Matchers(chars)
  /\ start = 0 /\ last = 0
  /\ hits = << >> /\ pieces = << >> /\ over = FALSE

\* search: the match is the first one that begins at `start` or behind it
Search(p) ==
  /\ ~over
  /\ p \in start..chars /\ ends[p] # NoMatch
  /\ \A q \in start..p - 1 : ends[q] = NoMatch
\* behind an empty match it goes on one further
Further(p) == IF ends[p] > p THEN ends[p] ELSE ends[p] + 1
Hit(p) == hits' = Append(hits, Piece(p, ends[p]))
Keep(p) == pieces' = Append(pieces, Piece(last, p)) /\ last' = ends[p]

find_all(p) ==
  /\ loop = "find_all" /\ Search(p)
  /\ Hit(p) /\ start' = Further(p)
  /\ UNCHANGED << loop, chars, ends, last, pieces, over >>
replace(p) ==
  /\ loop = "replace" /\ Search(p)
  /\ Keep(p) /\ Hit(p) /\ start' = Further(p)
  /\ UNCHANGED << loop, chars, ends, over >>
\* deviation: an empty match drops what stands before it
split_re_drops(p) ==
  /\ loop = "split_re" /\ Search(p)
  /\ IF ends[p] = p
     THEN start' = p + 1 /\ last' = p /\ UNCHANGED << hits, pieces >>
     ELSE Keep(p) /\ Hit(p) /\ start' = ends[p]
  /\ UNCHANGED << loop, chars, ends, over >>
split_re(p) ==
  /\ loop = "split_re" /\ Search(p)
  /\ IF ends[p] = p
     THEN start' = p + 1 /\ UNCHANGED << hits, pieces, last >>
     ELSE Keep(p) /\ Hit(p) /\ start' = ends[p]
  /\ UNCHANGED << loop, chars, ends, over >>

\* No match is left: what has not been written out is the last piece.  The
\* bound min(last, len) of replace changes nothing, last is at most len.
Rest ==
  /\ ~over /\ \A q \in start..chars : ends[q] = NoMatch
  /\ over' = TRUE
  /\ pieces' = IF loop = "find_all" THEN pieces ELSE Append(pieces, Piece(last, chars))
  /\ UNCHANGED << loop, chars, ends, start, last, hits >>

ScanNext == (\E p \in 0..chars : find_all(p) \/ replace(p) \/ split_re(p)) \/ Rest
ScanSpec == ScanInit /\ [][ScanNext]_scanVars

\* Matches are those of the pattern and go forward.
HitsInOrder ==
  /\ \A i \in DOMAIN hits : /\ hits[i].from \in 0..chars /\ hits[i].to = ends[hits[i].from]
                            /\ hits[i].from <= hits[i].to
                            /\ loop = "split_re" => hits[i].from < hits[i].to
  /\ \A i, j \in DOMAIN hits : i < j => hits[i].to <= hits[j].from /\ hits[i].from < hits[j].from
\* What lies between them is taken over, from the beginning to the end of the text.
PiecesBetween ==
  loop # "find_all" =>
    /\ Len(pieces) = IF over THEN Len(hits) + 1 ELSE Len(hits)
    /\ \A i \in DOMAIN pieces :
         /\ pieces[i].from = IF i = 1 THEN 0 ELSE hits[i - 1].to
         /\ pieces[i].to = IF i <= Len(hits) THEN hits[i].from ELSE chars
         /\ pieces[i].from <= pieces[i].to
\* A place where the pattern matches is the beginning of a match that was found
\* or inside one; split_re leaves empty matches alone.
Covered(p) ==
  \/ \E i \in DOMAIN hits : hits[i].from = p \/ (hits[i].from < p /\ p < hits[i].to)
  \/ loop = "split_re" /\ ends[p] = p
NothingMissed == over => \A p \in 0..chars : ends[p] # NoMatch => Covered(p)

\* find_all, split_re and replace go through the text without losing, repeating
\* or missing anything, whatever the pattern matches and where it matches
\* nothing but the empty text.
NothingRepeated == HitsInOrder /\ PiecesBetween /\ NothingMissed
=============================================================================
