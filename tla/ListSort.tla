------------------------------ MODULE ListSort ------------------------------
(***************************************************************************)
(* sort_by of compiled programs (mi_list_sort_keyed): a bottom-up merge    *)
(* sort of the positions 0..n-1 by the keys computed before, two buffers   *)
(* taking turns.  A step compares two positions and writes one, or goes on *)
(* to the next two runs or the next pass.  At the end the elements are     *)
(* copied in the order found.  Keys are Ints here; Strs are ordered alike, *)
(* and Floats as long as no key is NaN.                                    *)
(***************************************************************************)
EXTENDS Integers, Sequences

CONSTANT KeyLists       \* the keys of the lists that are sorted
ASSUME KeyListsAssumption == KeyLists \subseteq Seq(Int)

VARIABLES keys,
          order, spare, \* idx and tmp: the positions sorted so far, and where they are merged to
          width,        \* w: runs of this many positions are sorted
          lo,           \* where the two runs start that are being merged
          left, right   \* i and j: the next position of either
sortVars == << keys, order, spare, width, lo, left, right >>

Size == Len(keys)
Lesser(a, b) == IF a < b THEN a ELSE b
Mid == Lesser(lo + width, Size)
Hi == Lesser(lo + 2 * width, Size)
Out == left + right - Mid       \* k: as many were written as were read
Unwritten == -1                 \* what malloc left there

SortInit ==
  /\ keys \in KeyLists
  /\ order = [p \in 0..Size - 1 |-> p]
  /\ spare = [p \in 0..Size - 1 |-> Unwritten]
  /\ width = 1 /\ lo = 0 /\ left = 0 /\ right = Lesser(1, Size)

Sorted == width >= Size
Key(p) == keys[p + 1]

\* the right run goes first only when its key is smaller
\* deviation: also when it is equal
RightFirst_ties ==
  /\ right < Hi
  /\ left >= Mid \/ Key(order[right]) <= Key(order[left])
RightFirst ==
  /\ right < Hi
  /\ left >= Mid \/ Key(order[right]) < Key(order[left])
Merge ==
  /\ ~Sorted /\ Out < Hi
  /\ IF RightFirst
     THEN spare' = [spare EXCEPT ![Out] = order[right]] /\ right' = right + 1 /\ UNCHANGED left
     ELSE spare' = [spare EXCEPT ![Out] = order[left]] /\ left' = left + 1 /\ UNCHANGED right
  /\ UNCHANGED << keys, order, width, lo >>

\* two runs that start at place at, of width w, are next
From(at, w) == lo' = at /\ left' = at /\ right' = Lesser(at + w, Size)
NextRuns ==
  /\ ~Sorted /\ Out = Hi /\ lo + 2 * width < Size
  /\ From(lo + 2 * width, width)
  /\ UNCHANGED << keys, order, spare, width >>
NextPass ==
  /\ ~Sorted /\ Out = Hi /\ lo + 2 * width >= Size
  /\ order' = spare /\ spare' = order /\ width' = 2 * width
  /\ From(0, 2 * width)
  /\ UNCHANGED keys

SortNext == Merge \/ NextRuns \/ NextPass
SortSpec == SortInit /\ [][SortNext]_sortVars

\* the order a stable sort has to find: by key, and where keys are equal as before
Before(p, q) == Key(p) < Key(q) \/ (Key(p) = Key(q) /\ p < q)

\* A sorted list has every element it had (no position comes twice, for none
\* comes before itself), smaller keys first and equal keys in the order they
\* came: what the stable sort_by of the interpreter gives, and nothing else.
SortedStably ==
  Sorted => /\ \A p \in 0..Size - 1 : order[p] \in 0..Size - 1
            /\ \A p, q \in 0..Size - 1 : p < q => Before(order[p], order[q])
=============================================================================
