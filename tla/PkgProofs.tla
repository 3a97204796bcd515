------------------------------ MODULE PkgProofs ------------------------------
(***************************************************************************)
(* Proofs about Pkg, for any names, repositories, folders and manifests,    *)
(* any paths and wherever they lead, any number of commits, and any         *)
(* interleaving of commands with pushes, edits, failures of the network and *)
(* kills: what an install that ends well leaves in siskin.lock and in       *)
(* .siskin/deps.                                                            *)
(***************************************************************************)
EXTENDS Pkg, FiniteSetTheorems, SequenceTheorems, WellFoundedInduction, TLAPS

LEMMA Constants ==
  /\ NameOrder \in Seq(Names) /\ IsInjective(NameOrder) /\ Names = ToSet(NameOrder)
  /\ MaxCommit \in Nat /\ MaxCommit >= 1 /\ 1 \in 1..MaxCommit /\ MaxMoves \in Nat
  /\ Nothing \notin Sources /\ Nothing \notin Clones /\ Nothing \notin Pins /\ Nothing \notin Commits
  /\ Nothing \notin Folders /\ Nothing \notin Takings /\ Unreadable \notin Manifests
  /\ NoRev # Trunk /\ NoRev \notin 1..MaxCommit /\ Trunk \notin 1..MaxCommit
  /\ Offers \subseteq Sources
  /\ \A b \in Bases, p \in Paths : Lands[b][p] \in Folders \cup {Nothing}
  /\ \A b \in Commits \cup Folders : b \in Bases /\ Manifest[b] \in Manifests \cup {Unreadable}
  BY PkgAssumption DEF PkgAssumption, Names, Bases

\* A source is a repository or a path.
LEMMA SourceFields ==
  ASSUME NEW s \in Sources
  PROVE  /\ s.kind \in {"git", "path"}
         /\ s.kind = "git" => s.at \in Urls /\ s.rev \in {NoRev, Trunk} \cup 1..MaxCommit
         /\ s.kind = "path" => s.at \in Paths
  BY DEF Sources

-----------------------------------------------------------------------------
(* What a manifest asks for *)

\* Some numbers have a least one.
LEMMA Least == ASSUME NEW S \in SUBSET Nat, S # {}  PROVE \E n \in S : \A m \in S : n <= m
  <1>1. PICK n \in S : \A m \in S : <<m, n>> \notin OpToRel(<, Nat)
    BY NatLessThanWellFounded, WFMin
  <1>2. \A m \in S : ~(m < n)
    BY <1>1 DEF OpToRel
  <1>3. \A m \in S : n <= m
    BY <1>2
  <1> QED
    BY <1>3

LEMMA Places ==
  /\ IsFiniteSet(Names)
  /\ \A n \in Names : Place(n) \in Nat
  /\ \A n, m \in Names : Place(n) = Place(m) => n = m
  <1>1. Len(NameOrder) \in Nat /\ DOMAIN NameOrder = 1..Len(NameOrder)
        /\ NameOrder \in [1..Len(NameOrder) -> Names]
    BY Constants, LenProperties
  <1>2. IsFiniteSet(1..Len(NameOrder))
    BY <1>1, FS_Interval
  <1>3. NameOrder \in Surjection(1..Len(NameOrder), Names)
    BY <1>1, Constants DEF Surjection, ToSet
  <1>4. \A n \in Names : Place(n) \in DOMAIN NameOrder /\ NameOrder[Place(n)] = n
    BY Constants DEF Place, ToSet
  <1> QED
    BY <1>1, <1>2, <1>3, <1>4, FS_Surjection

\* Names can be put in their order.
LEMMA Ordered ==
  ASSUME NEW s \in SUBSET Names
  PROVE  \E q \in [1..Cardinality(s) -> s] : InOrder(q)
  <1> DEFINE Fine(u) == \E q \in [1..Cardinality(u) -> u] : InOrder(q)
             Bad == {n \in Nat : \E u \in SUBSET Names : Cardinality(u) = n /\ ~Fine(u)}
  <1>1. \A u \in SUBSET Names : IsFiniteSet(u) /\ Cardinality(u) \in Nat
    BY Places, FS_Subset, FS_CardinalityType
  <1>2. SUFFICES ASSUME ~Fine(s)  PROVE FALSE
    OBVIOUS
  <1>3. Bad # {} /\ Bad \in SUBSET Nat
    BY <1>1, <1>2
  <1>4. PICK n \in Bad : \A m \in Bad : n <= m
    <2> HIDE DEF Bad
    <2> QED
      BY <1>3, Least
  <1>5. PICK u \in SUBSET Names : Cardinality(u) = n /\ ~Fine(u)
    BY <1>4
  <1>6. n \in Nat /\ IsFiniteSet(u)
    BY <1>1, <1>4
  <1>7. u # {}
    <2>1. SUFFICES ASSUME u = {}  PROVE Fine(u)
      BY <1>5
    <2>2. Cardinality(u) = 0
      BY <2>1, FS_EmptySet
    <2>3. [k \in 1..0 |-> 0] \in [1..0 -> u] /\ InOrder([k \in 1..0 |-> 0])
      BY DEF InOrder
    <2> QED
      BY <2>2, <2>3
  <1>8. PICK a \in u : \A b \in u : Place(a) <= Place(b)
    <2> DEFINE P == {Place(b) : b \in u}
    <2>1. P # {} /\ P \in SUBSET Nat
      BY <1>7, Places
    <2>2. \E x \in P : \A y \in P : x <= y
      <3> HIDE DEF P
      <3> QED
        BY <2>1, Least
    <2> QED
      BY <2>2
  <1> DEFINE v == u \ {a}
  <1>9. v \in SUBSET Names /\ Cardinality(v) = n - 1 /\ n - 1 \in Nat
    <2>1. Cardinality(v) = Cardinality(u) - 1
      BY <1>6, <1>8, FS_RemoveElement
    <2>2. v \in SUBSET Names /\ Cardinality(v) \in Nat
      BY <1>1
    <2> QED
      BY <2>1, <2>2, <1>5
  <1>10. Fine(v)
    <2>1. n - 1 \notin Bad
      <3> HIDE DEF Bad
      <3> QED
        BY <1>4, <1>6, <1>9
    <2> HIDE DEF v
    <2> QED
      BY <1>9, <2>1
  <1>11. PICK p \in [1..n - 1 -> v] : InOrder(p)
    BY <1>9, <1>10
  <1> DEFINE q == [k \in 1..n |-> IF k = 1 THEN a ELSE p[k - 1]]
  <1>12. q \in [1..n -> u]
    BY <1>6, <1>8, <1>11
  <1>13. InOrder(q)
    <2>1. \A i \in 1..n - 1 : /\ Place(p[i]) \in Nat /\ Place(a) \in Nat
                              /\ Place(a) <= Place(p[i]) /\ Place(a) # Place(p[i])
      BY <1>8, <1>11, Places
    <2>2. \A i \in 1..n - 1, j \in 1..n - 1 : i < j => Place(p[i]) < Place(p[j])
      BY <1>11 DEF InOrder
    <2> SUFFICES ASSUME NEW i \in 1..n, NEW j \in 1..n, i < j  PROVE Place(q[i]) < Place(q[j])
      BY DEF InOrder
    <2>3. j - 1 \in 1..n - 1 /\ j # 1
      BY <1>6
    <2>4. CASE i = 1
      BY <2>1, <2>3, <2>4
    <2>5. CASE i # 1
      <3>1. i - 1 \in 1..n - 1 /\ i - 1 < j - 1
        BY <2>5, <1>6
      <3> QED
        BY <2>2, <2>3, <2>5, <3>1
    <2> QED
      BY <2>4, <2>5
  <1> QED
    BY <1>5, <1>12, <1>13

\* The requirements of the manifest m at b, each once.
Wanted(m, b) == {[name |-> n, src |-> m[n], base |-> b] : n \in Keys(m)}

LEMMA WantsOf ==
  ASSUME NEW m \in Manifests, NEW b \in Bases
  PROVE  Wants(m, b) \in Seq(Requirements) /\ ToSet(Wants(m, b)) = Wanted(m, b)
  <1> DEFINE s == Keys(m)
             n == Cardinality(Keys(m))
             q == Listed(m)
  <1>1. s \in SUBSET Names /\ \A x \in s : x \in Names /\ m[x] \in Sources
    BY DEF Keys, Manifests
  <1>2. IsFiniteSet(s) /\ n \in Nat
    BY <1>1, Places, FS_Subset, FS_CardinalityType
  <1>3. q \in [1..n -> s] /\ InOrder(q)
    BY <1>1, Ordered DEF Listed
  <1>4. Wants(m, b) = [i \in 1..n |-> [name |-> q[i], src |-> m[q[i]], base |-> b]]
    BY DEF Wants
  <1> HIDE DEF s, n, q
  <1>5. \A i, j \in 1..n : q[i] = q[j] => i = j
    <2> SUFFICES ASSUME NEW i \in 1..n, NEW j \in 1..n, i < j  PROVE q[i] # q[j]
      BY <1>2
    <2>1. Place(q[i]) < Place(q[j]) /\ Place(q[i]) \in Nat
      BY <1>1, <1>3, Places DEF InOrder
    <2> QED
      BY <2>1
  <1>6. q \in Surjection(1..n, s)
    <2>1. q \in Injection(1..n, s)
      BY <1>3, <1>5 DEF Injection, IsInjective
    <2>2. Cardinality(1..n) = n
      BY <1>2, FS_Interval
    <2> QED
      BY <1>2, <2>1, <2>2, FS_Injection DEF n, s
  <1>7. Wants(m, b) \in [1..n -> Requirements]
    BY <1>1, <1>3, <1>4 DEF Requirements
  <1>8. Wants(m, b) \in Seq(Requirements)
    BY <1>2, <1>7, SeqDef
  <1>9. \A x \in s : \E i \in 1..n : q[i] = x
    BY <1>6 DEF Surjection
  <1>10. ToSet(Wants(m, b)) = Wanted(m, b)
    BY <1>3, <1>4, <1>9 DEF ToSet, Wanted, s
  <1> QED
    BY <1>8, <1>10

\* The stack of requirements, of which the last is taken ...
LEMMA Pop ==
  ASSUME NEW q \in Seq(Requirements), q # << >>
  PROVE  /\ Front(q) \in Seq(Requirements) /\ Last(q) \in Requirements
         /\ ToSet(q) = ToSet(Front(q)) \cup {Last(q)}
         /\ Len(Front(q)) = Len(q) - 1 /\ Len(q) > 0
  <1> DEFINE n == Len(q)
             f == Front(q)
  <1>1. n \in Nat /\ DOMAIN q = 1..n /\ \A i \in 1..n : q[i] \in Requirements
    BY LenProperties, ElementOfSeq
  <1>2. n # 0
    BY EmptySeq
  <1>3. f \in Seq(Requirements) /\ Len(f) = n - 1 /\ \A i \in 1..n - 1 : f[i] = q[i]
    BY <1>1, <1>2, SubSeqProperties DEF Front
  <1>4. DOMAIN f = 1..n - 1
    BY <1>3, LenProperties
  <1>5. Last(q) = q[n] /\ n \in 1..n
    BY <1>1, <1>2 DEF Last
  <1> HIDE DEF n, f
  <1>6. 1..n = 1..n - 1 \cup {n}
    BY <1>1, <1>2
  <1>7. ToSet(q) = ToSet(f) \cup {Last(q)}
    BY <1>1, <1>3, <1>4, <1>5, <1>6 DEF ToSet
  <1> QED
    BY <1>1, <1>2, <1>3, <1>5, <1>7 DEF f, n

\* ... and those of a manifest are pushed.
LEMMA PushWants ==
  ASSUME NEW q \in Seq(Requirements), NEW m \in Manifests, NEW b \in Bases
  PROVE  q \o Wants(m, b) \in Seq(Requirements) /\ ToSet(q \o Wants(m, b)) = ToSet(q) \cup Wanted(m, b)
  <1> DEFINE w == Wants(m, b)
  <1>1. w \in Seq(Requirements) /\ ToSet(w) = Wanted(m, b)
    BY WantsOf
  <1> HIDE DEF w
  <1>2. /\ q \o w \in Seq(Requirements) /\ Len(q \o w) = Len(q) + Len(w)
        /\ \A i \in 1..Len(q) : (q \o w)[i] = q[i]
        /\ \A i \in 1..Len(w) : (q \o w)[Len(q) + i] = w[i]
        /\ Len(q) \in Nat /\ Len(w) \in Nat /\ DOMAIN q = 1..Len(q) /\ DOMAIN w = 1..Len(w)
    BY <1>1, ConcatProperties, LenProperties
  <1>3. DOMAIN (q \o w) = 1..Len(q) + Len(w)
    BY <1>2, LenProperties
  <1>4. ToSet(q \o w) \subseteq ToSet(q) \cup ToSet(w)
    <2> SUFFICES ASSUME NEW i \in 1..Len(q) + Len(w)  PROVE (q \o w)[i] \in ToSet(q) \cup ToSet(w)
      BY <1>3 DEF ToSet
    <2>1. CASE i \in 1..Len(q)
      BY <1>2, <2>1 DEF ToSet
    <2>2. CASE i \notin 1..Len(q)
      <3>1. i - Len(q) \in 1..Len(w) /\ Len(q) + (i - Len(q)) = i
        BY <1>2, <2>2
      <3> QED
        BY <1>2, <3>1 DEF ToSet
    <2> QED
      BY <2>1, <2>2
  <1>5. ToSet(q) \cup ToSet(w) \subseteq ToSet(q \o w)
    <2>1. \A i \in 1..Len(q) : i \in 1..Len(q) + Len(w)
      BY <1>2
    <2>2. \A i \in 1..Len(w) : Len(q) + i \in 1..Len(q) + Len(w)
      BY <1>2
    <2> QED
      BY <1>2, <1>3, <2>1, <2>2 DEF ToSet
  <1> QED
    BY <1>1, <1>2, <1>4, <1>5 DEF w

\* The requirement on top of the stack.
LEMMA Top ==
  ASSUME PkgInv, todo # << >>
  PROVE  /\ Item \in Requirements /\ Item.name \in Names /\ Item.src \in Sources /\ Item.base \in Bases
         /\ Item = [name |-> Item.name, src |-> Item.src, base |-> Item.base]
         /\ Front(todo) \in Seq(Requirements) /\ ToSet(todo) = ToSet(Front(todo)) \cup {Item}
  <1>1. todo \in Seq(Requirements)
    BY DEF PkgInv, TypeOK, Requirements
  <1>2. Item \in Requirements /\ Front(todo) \in Seq(Requirements)
        /\ ToSet(todo) = ToSet(Front(todo)) \cup {Item}
    BY <1>1, Pop DEF Item
  <1> QED
    BY <1>2 DEF Requirements

LEMMA NothingWaits == ToSet(<< >>) = {} /\ << >> \in Seq(Requirements)
  BY DEF ToSet

LEMMA NoneFits == None \in Manifests /\ None \in Locks /\ None \in [Names -> Clones \cup {Nothing}]
                  /\ None \in Mets /\ Keys(None) = {} /\ \A n \in Names : None[n] = Nothing
  BY DEF None, Manifests, Locks, Mets, Keys

LEMMA TakingFields ==
  ASSUME NEW m \in Mets, NEW n \in Names, m[n] # Nothing
  PROVE  m[n] \in Takings /\ m[n].src \in Sources /\ m[n].base \in Bases /\ m[n].src.kind \in {"git", "path"}
  <1>1. m[n] \in Takings
    BY DEF Mets
  <1> QED
    BY <1>1, SourceFields DEF Takings

-----------------------------------------------------------------------------
(* Turns and courses *)

LEMMA HasViews ==
  ASSUME NEW h \in Seq(Views)
  PROVE  Len(h) \in Nat /\ (h # << >> => Len(h) >= 1)
         /\ \A i \in 1..Len(h) : h[i] \in Views /\ h[i].todo \in Seq(Requirements) /\ h[i].met \in Mets
  <1>1. Len(h) \in Nat /\ \A i \in 1..Len(h) : h[i] \in Views
    BY LenProperties, ElementOfSeq
  <1>2. h # << >> => Len(h) >= 1
    BY <1>1, EmptySeq
  <1>3. \A v \in Views : v.todo \in Seq(Requirements) /\ v.met \in Mets
    BY DEF Views
  <1> QED
    BY <1>1, <1>2, <1>3

\* The checkout of n is there and stays where it is.
Kept(n) == deps[n] # Nothing =>
             deps'[n] # Nothing /\ deps'[n].origin = deps[n].origin /\ deps'[n].at = deps[n].at

\* Where a package is depends on its own clone only.
LEMMA PlaceStays ==
  ASSUME NEW M \in Mets, NEW n \in Names, M[n] # Nothing, Kept(n),
         M[n].src.kind = "git" => deps[n] # Nothing
  PROVE  PlaceBy(M, n)' = PlaceBy(M, n)
  BY TakingFields DEF PlaceBy, Folder, HeadOf, Kept

\* A turn stays one, if the package taken in it stays where it is.
LEMMA TurnStays ==
  ASSUME NEW a \in Views, NEW b \in Views, Turn(a, b),
         \A n \in Names : b.met[n] # Nothing => Kept(n)
  PROVE  Turn(a, b)'
  <1>1. a.todo # << >> /\ a.todo \in Seq(Requirements) /\ a.met \in Mets /\ b.met \in Mets
    BY DEF Turn, Views
  <1>2. PICK x \in Names, s \in Sources, c \in Bases :
          Last(a.todo) = [name |-> x, src |-> s, base |-> c]
    BY <1>1, Pop DEF Requirements
  <1>3. CASE /\ a.met[x] # Nothing /\ SameSource(a.met[x].src, s)
             /\ b.todo = Front(a.todo) /\ b.met = a.met
    BY <1>1, <1>2, <1>3 DEF Turn
  <1>4. CASE /\ a.met[x] = Nothing
             /\ s.kind = "git" => deps[x] # Nothing
             /\ b.met = [a.met EXCEPT ![x] = [src |-> s, base |-> c]]
             /\ PlaceBy(b.met, x) \in Commits \cup Folders /\ Manifest[PlaceBy(b.met, x)] \in Manifests
             /\ b.todo = Front(a.todo) \o Wants(Manifest[PlaceBy(b.met, x)], PlaceBy(b.met, x))
    <2>1. b.met[x] = [src |-> s, base |-> c] /\ b.met[x] # Nothing
      BY <1>1, <1>4, Constants DEF Takings, Mets
    <2>2. PlaceBy(b.met, x)' = PlaceBy(b.met, x) /\ (s.kind = "git" => deps'[x] # Nothing)
      BY <1>1, <1>4, <2>1, PlaceStays DEF Kept
    <2>3. Last(a.todo).name = x /\ Last(a.todo).src = s /\ Last(a.todo).base = c
      BY <1>2
    <2>4. PICK p : p = PlaceBy(b.met, x) /\ p = PlaceBy(b.met, x)'
      BY <2>2
    <2>5. p \in Commits \cup Folders /\ Manifest[p] \in Manifests /\ b.todo = Front(a.todo) \o Wants(Manifest[p], p)
      BY <1>4, <2>4
    <2> QED
      BY <1>1, <1>4, <2>2, <2>3, <2>4, <2>5, Zenon DEF Turn
  <1> QED
    BY <1>1, <1>2, <1>3, <1>4 DEF Turn

\* There is one turn from where an install is.
LEMMA TurnOnce ==
  ASSUME NEW a \in Views, NEW b \in Views, NEW c \in Views, Turn(a, b)', Turn(a, c)'
  PROVE  b = c
  <1>1. b.todo = c.todo /\ b.met = c.met
    BY DEF Turn
  <1> QED
    BY <1>1 DEF Views

LEMMA CourseStays ==
  ASSUME NEW h \in Seq(Views), Course(h), toml' = toml,
         \A n \in Names : h[Len(h)].met[n] # Nothing => Kept(n)
  PROVE  Course(h)'
  <1>1. /\ h # << >> /\ h[1] = [todo |-> Wants(toml, Root), met |-> None]
        /\ \A i \in 1..Len(h) - 1 : Turn(h[i], h[i + 1])
        /\ \A i \in 1..Len(h), n \in Names : h[i].met[n] # Nothing => h[Len(h)].met[n] = h[i].met[n]
    BY DEF Course
  <1>2. ASSUME NEW i \in 1..Len(h) - 1  PROVE Turn(h[i], h[i + 1])'
    <2>1. i \in 1..Len(h) /\ i + 1 \in 1..Len(h)
      BY HasViews
    <2>2. h[i] \in Views /\ h[i + 1] \in Views /\ Turn(h[i], h[i + 1])
      BY <1>1, <2>1, HasViews
    <2>3. \A n \in Names : h[i + 1].met[n] # Nothing => Kept(n)
      BY <1>1, <2>1
    <2> QED
      BY <2>2, <2>3, TurnStays
  <1> QED
    BY <1>1, <1>2 DEF Course

\* What is taken in the course of an install from a repository has a clone.
LEMMA CourseTakes ==
  ASSUME NEW h \in Seq(Views), Course(h), NEW n \in Names, h[Len(h)].met[n] # Nothing,
         h[Len(h)].met[n].src.kind = "git"
  PROVE  deps[n] # Nothing
  <1> DEFINE S == {i \in 1..Len(h) : h[i].met[n] # Nothing}
  <1>1. Len(h) \in Nat /\ Len(h) >= 1 /\ Len(h) \in S /\ S \in SUBSET Nat
    BY HasViews DEF Course
  <1>2. PICK i \in S : \A j \in S : i <= j
    <2> HIDE DEF S
    <2> QED
      BY <1>1, Least
  <1>3. i # 1
    BY NoneFits DEF Course
  <1>4. i - 1 \in 1..Len(h) - 1 /\ i - 1 \in 1..Len(h) /\ (i - 1) + 1 = i /\ i - 1 \notin S /\ i \in 1..Len(h)
    BY <1>1, <1>2, <1>3
  <1>5. Turn(h[i - 1], h[i]) /\ h[i - 1].met[n] = Nothing /\ h[i].met[n] # Nothing
        /\ h[i].met[n] = h[Len(h)].met[n]
    BY <1>2, <1>4 DEF Course
  <1>6. h[i - 1].todo \in Seq(Requirements) /\ h[i - 1].met \in Mets
    BY <1>4, HasViews
  <1>7. PICK r : r = Last(h[i - 1].todo)
    OBVIOUS
  <1>8. r \in Requirements
    BY <1>5, <1>6, <1>7, Pop DEF Turn
  <1>9. /\ r.src.kind = "git" => deps[r.name] # Nothing
        /\ h[i].met = [h[i - 1].met EXCEPT ![r.name] = [src |-> r.src, base |-> r.base]]
    BY <1>5, <1>7 DEF Turn
  <1>10. n = r.name /\ h[i].met[n].src = r.src
    BY <1>5, <1>6, <1>8, <1>9 DEF Mets, Requirements
  <1> QED
    BY <1>5, <1>9, <1>10

\* A complete installation stays so while siskin.toml and siskin.lock do, and
\* everything installed stays where it is.
LEMMA CompleteStays ==
  ASSUME NEW h \in Seq(Views), Complete(h), UNCHANGED <<toml, lock>>,
         \A n \in Names : h[Len(h)].met[n] # Nothing => Kept(n)
  PROVE  Complete(h)'
  <1>1. Course(h) /\ h[Len(h)].todo = << >> /\ Records(lock, h[Len(h)].met)
    BY DEF Complete
  <1>2. Course(h)'
    BY <1>1, CourseStays
  <1> DEFINE M == h[Len(h)].met
  <1>3. ASSUME NEW n \in Names, M[n] # Nothing, M[n].src.kind = "git"  PROVE deps[n] # Nothing
    BY <1>1, <1>3, CourseTakes
  <1>4. ASSUME NEW n \in Names, M[n] # Nothing, M[n].src.kind = "git"  PROVE Pin(M, n)' = Pin(M, n)
    BY <1>3, <1>4 DEF Pin, HeadOf, Kept
  <1>5. Records(lock, M)'
    BY <1>1, <1>4 DEF Records
  <1> QED
    BY <1>1, <1>2, <1>5 DEF Complete

\* A course goes on with the next turn.
LEMMA CourseGrows ==
  ASSUME NEW h \in Seq(Views), Course(h)', NEW v \in Views, Turn(h[Len(h)], v)'
  PROVE  /\ Append(h, v) \in Seq(Views) /\ Course(Append(h, v))'
         /\ Append(h, v)[Len(Append(h, v))] = v
  <1> DEFINE g == Append(h, v)
             k == Len(h)
  <1>1. k \in Nat /\ k >= 1 /\ h # << >> /\ \A i \in 1..k : h[i] \in Views
    BY HasViews DEF Course
  <1>2. /\ g \in Seq(Views) /\ Len(g) = k + 1 /\ g[k + 1] = v
        /\ \A i \in 1..k : g[i] = h[i]
    BY <1>1, AppendProperties
  <1>3. g # << >>
    BY <1>1, <1>2, EmptySeq
  <1>4. \A i \in 1..Len(g) - 1 : Turn(g[i], g[i + 1])'
    <2> SUFFICES ASSUME NEW i \in 1..k  PROVE Turn(g[i], g[i + 1])'
      BY <1>1, <1>2
    <2>1. CASE i = k
      BY <1>1, <1>2, <2>1
    <2>2. CASE i # k
      <3>1. i \in 1..k - 1 /\ i + 1 \in 1..k
        BY <1>1, <2>2
      <3>2. Turn(h[i], h[i + 1])'
        BY <3>1 DEF Course
      <3> QED
        BY <1>2, <3>1, <3>2
    <2> QED
      BY <2>1, <2>2
  <1>5. ASSUME NEW n \in Names, h[k].met[n] # Nothing  PROVE v.met[n] = h[k].met[n]
    <2>1. h[k] \in Views /\ h[k].met \in Mets
      BY <1>1 DEF Views
    <2> QED
      BY <1>5, <2>1 DEF Turn, Mets
  <1>6. \A i \in 1..k, n \in Names : h[i].met[n] # Nothing => h[k].met[n] = h[i].met[n]
    BY DEF Course
  <1>7. \A i \in 1..Len(g), n \in Names : g[i].met[n] # Nothing => g[Len(g)].met[n] = g[i].met[n]
    <2> SUFFICES ASSUME NEW i \in 1..k + 1, NEW n \in Names, g[i].met[n] # Nothing
                 PROVE  v.met[n] = g[i].met[n]
      BY <1>1, <1>2
    <2>1. CASE i = k + 1
      BY <1>2, <2>1
    <2>2. CASE i # k + 1
      <3>1. i \in 1..k
        BY <1>1, <2>2
      <3> QED
        BY <1>2, <1>5, <1>6, <3>1
    <2> QED
      BY <2>1, <2>2
  <1>8. h[1] = [todo |-> Wants(toml', Root), met |-> None]
    BY DEF Course
  <1>9. g[1] = h[1]
    BY <1>1, <1>2
  <1> QED
    BY <1>2, <1>3, <1>4, <1>7, <1>8, <1>9 DEF Course

-----------------------------------------------------------------------------
(* Between installs *)

\* A step after which nothing is installed, and which leaves remote alone: only
\* the types and the clones matter.
LEMMA RestingInv ==
  ASSUME PkgInv, pc' \in {"idle", "unreadable", "undoing", "removing", "unlocking"},
         UNCHANGED <<remote, tips>>, netfail' \in BOOLEAN,
         toml' \in Manifests, lock' \in Locks, met' \in Mets, newLock' \in Locks,
         todo' \in Seq(Requirements), deps' \in [Names -> Clones \cup {Nothing}], ClonesFit',
         cmd'.kind \in {"none", "install", "update", "add", "remove"},
         cmd'.kind = "add" => cmd'.name \in Names /\ cmd'.saved \in Manifests,
         status' \in {"busy", "conflict", "folder", "fetch", "noversion", "removed", "killed", "edited"},
         pc' \notin {"idle", "undoing"} => status' = "busy",
         pc' \in {"removing", "unlocking"} => cmd'.kind = "remove" /\ cmd'.name \in Names,
         pc' = "undoing" => cmd'.kind = "add",
         pc' = "unreadable" => cmd'.kind \in {"install", "update", "add"} /\ ~Settling'
  PROVE  PkgInv'
  <1>1. TypeOK'
    BY DEF PkgInv, TypeOK
  <1>2. WorkFits'
    BY DEF PkgInv, WorkFits, Installing
  <1>3. TipsFit'
    BY DEF PkgInv, TipsFit
  <1>4. ~Settling' /\ ~Installing' /\ ~Result'
    BY DEF Settling, Installing, Result
  <1>5. /\ TakenFits' /\ LockFits' /\ MetOrWaiting' /\ Asked' /\ Followed' /\ LockKept'
        /\ Reached' /\ Settled'
    BY <1>4 DEF TakenFits, LockFits, MetOrWaiting, Asked, Followed, LockKept, Reached, Settled, Result, Installing
  <1> QED
    BY <1>1, <1>2, <1>3, <1>5 DEF PkgInv

\* Clones that go are no trouble.
LEMMA FewerClones ==
  ASSUME PkgInv, UNCHANGED remote, \A n \in Names : deps'[n] \in {deps[n], Nothing}
  PROVE  ClonesFit'
  BY DEF PkgInv, ClonesFit

LEMMA FailInv ==
  ASSUME PkgInv, NEW code \in {"conflict", "folder", "fetch", "noversion"}, Fail(code)  PROVE PkgInv'
  <1>1. /\ UNCHANGED <<remote, lock, deps, tips, netfail>> /\ status' = code
        /\ todo' = << >> /\ met' = None /\ newLock' = None
    BY DEF Fail
  <1>2. /\ toml' \in Manifests
        /\ \/ pc' = "undoing" /\ cmd' = cmd /\ cmd.kind = "add"
           \/ pc' = "idle" /\ cmd' = Idle
    BY DEF Fail, PkgInv, TypeOK, WorkFits
  <1>3. Idle.kind = "none"
    BY DEF Idle
  <1>4. netfail' \in BOOLEAN /\ lock' \in Locks /\ deps' \in [Names -> Clones \cup {Nothing}]
        /\ (cmd.kind = "add" => cmd.name \in Names /\ cmd.saved \in Manifests)
    BY <1>1 DEF PkgInv, TypeOK, WorkFits
  <1>5. ClonesFit'
    BY <1>1, FewerClones
  <1> QED
    BY <1>1, <1>2, <1>3, <1>4, <1>5, NoneFits, NothingWaits, RestingInv

\* A step between installs that only writes siskin.toml, siskin.lock or folders.
LEMMA FilesInv ==
  ASSUME PkgInv, UNCHANGED <<remote, tips, netfail>>, toml' \in Manifests, lock' \in Locks,
         deps' \in [Names -> Clones \cup {Nothing}], \A n \in Names : deps'[n] \in {deps[n], Nothing},
         met' \in {met, None}, newLock' \in {newLock, None}, todo' \in {todo, << >>},
         \/ pc' = "idle" /\ cmd' \in {cmd, Idle}
         \/ pc' \in {"removing", "unlocking"} /\ cmd'.kind = "remove" /\ cmd'.name \in Names /\ status' = "busy",
         status' \in {"busy", "conflict", "folder", "fetch", "noversion", "removed", "killed", "edited"}
  PROVE  PkgInv'
  <1>1. Idle.kind = "none"
    BY DEF Idle
  <1>2. /\ netfail' \in BOOLEAN /\ met' \in Mets /\ newLock' \in Locks
        /\ cmd.kind \in {"none", "install", "update", "add", "remove"}
        /\ cmd.kind = "add" => cmd.name \in Names /\ cmd.saved \in Manifests
    BY NoneFits DEF PkgInv, TypeOK, WorkFits
  <1>3. todo' \in Seq(Requirements)
    BY NothingWaits DEF PkgInv, TypeOK
  <1>4. ClonesFit'
    BY FewerClones
  <1> QED
    BY <1>1, <1>2, <1>3, <1>4, RestingInv

LEMMA UndoInv == ASSUME PkgInv, Undo  PROVE PkgInv'
  <1>1. /\ UNCHANGED <<remote, toml, lock, todo, met, newLock>> /\ UNCHANGED <<status, tips, netfail>>
        /\ deps' = deps \/ deps' = [deps EXCEPT ![cmd.name] = Nothing]
        /\ pc' = "idle" /\ cmd' = Idle /\ pc = "undoing"
    BY DEF Undo, work
  <1>2. /\ toml' \in Manifests /\ lock' \in Locks /\ deps' \in [Names -> Clones \cup {Nothing}]
        /\ \A n \in Names : deps'[n] \in {deps[n], Nothing}
    BY <1>1 DEF PkgInv, TypeOK
  <1>3. status # "ok" /\ status' \in {"busy", "conflict", "folder", "fetch", "noversion", "removed", "killed", "edited"}
    BY <1>1 DEF PkgInv, WorkFits, TypeOK
  <1> QED
    BY <1>1, <1>2, <1>3, FilesInv

LEMMA RemoveInv ==
  ASSUME PkgInv, (\E n \in Names : RemoveDep(n)) \/ RemoveFolder \/ RemoveLock  PROVE PkgInv'
  <1>1. ASSUME NEW n \in Names, RemoveDep(n)  PROVE PkgInv'
    <2>1. /\ UNCHANGED <<remote, lock, deps, todo, met, newLock>> /\ UNCHANGED <<tips, netfail>>
          /\ pc' = "removing" /\ status' = "busy" /\ cmd'.kind = "remove" /\ cmd'.name = n
          /\ toml' = [toml EXCEPT ![n] = Nothing]
      BY <1>1 DEF RemoveDep, work
    <2>2. toml' \in Manifests /\ lock' \in Locks /\ deps' \in [Names -> Clones \cup {Nothing}]
      BY <2>1 DEF PkgInv, TypeOK, Manifests
    <2> QED
      BY <2>1, <2>2, FilesInv
  <1>2. CASE RemoveFolder
    <2>1. /\ UNCHANGED <<remote, toml, lock, todo, met, newLock>> /\ UNCHANGED <<cmd, status, tips, netfail>>
          /\ pc' = "unlocking" /\ status = "busy" /\ cmd.kind = "remove" /\ cmd.name \in Names
          /\ deps' = [deps EXCEPT ![cmd.name] = Nothing]
      BY <1>2 DEF RemoveFolder, work, PkgInv, WorkFits
    <2>2. /\ toml' \in Manifests /\ lock' \in Locks /\ deps' \in [Names -> Clones \cup {Nothing}]
          /\ \A n \in Names : deps'[n] \in {deps[n], Nothing}
      BY <2>1 DEF PkgInv, TypeOK
    <2> QED
      BY <2>1, <2>2, FilesInv
  <1>3. CASE RemoveLock
    <2>1. /\ UNCHANGED <<remote, toml, deps, todo, newLock>> /\ UNCHANGED <<cmd, tips, netfail>>
          /\ pc' = "idle" /\ status' = "removed" /\ met' = None
          /\ lock' = [lock EXCEPT ![cmd.name] = Nothing]
      BY <1>3 DEF RemoveLock
    <2>2. toml' \in Manifests /\ lock' \in Locks /\ deps' \in [Names -> Clones \cup {Nothing}]
      BY <2>1 DEF PkgInv, TypeOK, Locks
    <2> QED
      BY <2>1, <2>2, FilesInv
  <1> QED
    BY <1>1, <1>2, <1>3

LEMMA KilledInv == ASSUME PkgInv, Killed  PROVE PkgInv'
  <1>1. /\ UNCHANGED <<remote, toml, lock, deps, tips, netfail>>
        /\ pc' = "idle" /\ status' = "killed" /\ cmd' = Idle
        /\ todo' = << >> /\ met' = None /\ newLock' = None
    BY DEF Killed, files
  <1>2. toml' \in Manifests /\ lock' \in Locks /\ deps' \in [Names -> Clones \cup {Nothing}]
    BY <1>1 DEF PkgInv, TypeOK
  <1> QED
    BY <1>1, <1>2, FilesInv

LEMMA EditsInv ==
  ASSUME PkgInv, \/ \E n \in Names : Pull(n) \/ \E s \in Offers : Edit(n, s)
                 \/ OtherComputer
  PROVE  PkgInv'
  <1>1. Edited /\ toml \in Manifests /\ lock \in Locks /\ deps \in [Names -> Clones \cup {Nothing}]
    BY DEF Pull, Edit, OtherComputer, PkgInv, TypeOK
  <1>2. /\ UNCHANGED <<remote, cmd, todo, newLock, tips, netfail>>
        /\ pc' = "idle" /\ status' = "edited" /\ met' = None
    BY <1>1 DEF Edited
  <1>3. /\ toml' \in Manifests /\ lock' \in Locks /\ deps' \in [Names -> Clones \cup {Nothing}]
        /\ \A n \in Names : deps'[n] \in {deps[n], Nothing}
    <2>1. ASSUME NEW n \in Names, NEW s \in Offers, Edit(n, s)
          PROVE  toml' \in Manifests /\ UNCHANGED <<lock, deps>>
      BY <1>1, <2>1, Constants DEF Edit, Manifests
    <2>2. ASSUME NEW n \in Names, Pull(n)  PROVE lock' \in Locks /\ UNCHANGED <<toml, deps>>
      <3>1. PICK u : u = toml[n].at
        OBVIOUS
      <3>2. u \in Urls
        BY <1>1, <2>2, <3>1, SourceFields DEF Pull, Manifests
      <3>3. [url |-> u, commit |-> [repo |-> u, n |-> remote[u]]] \in Pins
        BY <3>2 DEF Pins, Commits, PkgInv, TypeOK
      <3>4. lock' = [lock EXCEPT ![n] = [url |-> u, commit |-> [repo |-> u, n |-> remote[u]]]]
            /\ UNCHANGED <<toml, deps>>
        BY <2>2, <3>1 DEF Pull
      <3> QED
        BY <1>1, <3>3, <3>4 DEF Locks
    <2>3. CASE OtherComputer
      BY <1>1, <2>3, NoneFits DEF OtherComputer
    <2> QED
      BY <1>1, <2>1, <2>2, <2>3
  <1> QED
    BY <1>2, <1>3, FilesInv

-----------------------------------------------------------------------------
(* Steps that take nothing *)

\* While what was taken and what is to be taken are left alone, and clones stay
\* at their commits, an install goes on, or has ended, as before.
LEMMA SameInv ==
  ASSUME PkgInv, TypeOK', WorkFits', ClonesFit', TipsFit', Installing' <=> Installing, Settling' <=> Settling,
         UNCHANGED <<toml, lock, cmd, status, tips>>, UNCHANGED <<todo, met, newLock>>,
         netfail => netfail', \A n \in Names : Kept(n)
  PROVE  PkgInv'
  <1>1. /\ Result' <=> Result
        /\ Result => \A n \in Names : met[n] # Nothing =>
             /\ met[n].src.kind = "git" => deps[n] # Nothing
             /\ PlaceBy(met, n) \in Commits \cup Folders /\ Manifest[PlaceBy(met, n)] \in Manifests
    BY DEF Result, PkgInv, TakenFits, Met, PlaceOf, ManifestOf
  <1>2. Result => \A n \in Names : met[n] # Nothing => PlaceBy(met, n)' = PlaceBy(met, n)
    BY <1>1, PlaceStays DEF PkgInv, TypeOK
  <1>3. Result => \A n \in Names : met[n] # Nothing /\ met[n].src.kind = "git" =>
                    /\ deps'[n] # Nothing /\ HeadOf(n)' = HeadOf(n)
                    /\ deps'[n].at = deps[n].at /\ deps'[n].origin = deps[n].origin
    BY <1>1 DEF HeadOf, Kept
  <1>4. TakenFits'
    BY <1>1, <1>2, <1>3 DEF TakenFits, Met, PlaceOf, ManifestOf, PlaceBy
  <1>5. LockFits'
    BY <1>1, <1>3 DEF PkgInv, LockFits, Records, Pin, Result
  <1>6. MetOrWaiting'
    BY <1>1, <1>2 DEF PkgInv, MetOrWaiting, Met, MetFrom, Waiting, ManifestOf, PlaceOf, PlaceBy
  <1>7. Asked'
    BY <1>1, <1>2 DEF PkgInv, Asked, AskedBy, Met, ManifestOf, PlaceOf, PlaceBy
  <1>8. Followed'
    BY <1>1, <1>3 DEF PkgInv, Followed, Met
  <1>9. LockKept'
    BY DEF PkgInv, LockKept
  <1>10. Reached'
    <2> SUFFICES ASSUME Result  PROVE \E h \in Seq(Views) : Course(h)' /\ h[Len(h)] = View
      BY <1>1 DEF Reached, View
    <2>1. PICK h \in Seq(Views) : Course(h) /\ h[Len(h)] = View
      BY DEF PkgInv, Reached
    <2> QED
      BY <2>1, CourseStays
  <1>11. Settled'
    <2> SUFFICES ASSUME Settling
                 PROVE  Installing /\ \E h \in Seq(Views) : Complete(h)' /\ \E i \in 1..Len(h) : h[i] = View
      BY DEF Settled, View
    <2>1. PICK h \in Seq(Views) : Complete(h) /\ \E i \in 1..Len(h) : h[i] = View
      BY DEF PkgInv, Settled
    <2> QED
      BY <2>1, CompleteStays DEF PkgInv, Settled
  <1> QED
    BY <1>4, <1>5, <1>6, <1>7, <1>8, <1>9, <1>10, <1>11 DEF PkgInv

LEMMA PushInv == ASSUME PkgInv, (\E u \in Urls : Push(u)) \/ UNCHANGED vars  PROVE PkgInv'
  <1>1. /\ UNCHANGED <<toml, lock, deps, pc, cmd>> /\ UNCHANGED <<todo, met, newLock>>
        /\ UNCHANGED <<status, tips, netfail>>
    BY DEF Push, files, work, vars
  <1>2. /\ remote \in [Urls -> 1..MaxCommit] /\ MaxCommit \in Nat
        /\ \A w \in Urls : remote[w] \in Nat
    BY Constants DEF PkgInv, TypeOK
  <1>3. remote' \in [Urls -> 1..MaxCommit] /\ \A w \in Urls : remote'[w] \in Nat /\ remote[w] <= remote'[w]
    <2>1. ASSUME NEW u \in Urls, Push(u)
          PROVE  remote' \in [Urls -> 1..MaxCommit] /\ \A w \in Urls : remote'[w] \in Nat /\ remote[w] <= remote'[w]
      <3>1. remote[u] + 1 \in 1..MaxCommit /\ remote' = [remote EXCEPT ![u] = remote[u] + 1]
        BY <1>2, <2>1 DEF Push
      <3> QED
        BY <1>2, <3>1
    <2>2. ASSUME UNCHANGED vars  PROVE remote' = remote
      BY <2>2 DEF vars
    <2> QED
      BY <1>2, <2>1, <2>2
  <1>4. TypeOK'
    BY <1>1, <1>3 DEF PkgInv, TypeOK
  <1>5. WorkFits'
    BY <1>1 DEF PkgInv, WorkFits, Installing, Item, Met
  <1>6. ClonesFit'
    <2> SUFFICES ASSUME NEW n \in Names, deps[n] # Nothing
                 PROVE  /\ deps[n].at <= deps[n].seen /\ deps[n].trunk <= deps[n].seen
                        /\ deps[n].seen <= remote'[deps[n].origin]
      BY <1>1 DEF ClonesFit
    <2>1. /\ deps[n].at <= deps[n].seen /\ deps[n].trunk <= deps[n].seen
          /\ deps[n].seen <= remote[deps[n].origin]
          /\ deps[n] \in Clones
      BY DEF PkgInv, ClonesFit, TypeOK
    <2>2. deps[n].seen \in Nat /\ deps[n].origin \in Urls
      BY <2>1, Constants DEF Clones
    <2> QED
      BY <1>2, <1>3, <2>1, <2>2
  <1>7. TipsFit'
    <2> SUFFICES ASSUME NEW u \in Urls  PROVE tips[u] <= remote'[u]
      BY <1>1 DEF TipsFit
    <2>1. tips[u] \in Nat /\ tips[u] <= remote[u]
      BY Constants DEF PkgInv, WorkFits, TipsFit
    <2> QED
      BY <1>2, <1>3, <2>1
  <1> QED
    BY <1>1, <1>4, <1>5, <1>6, <1>7, SameInv DEF Kept, Installing, Settling

-----------------------------------------------------------------------------
(* Commands begin and requirements are taken *)

LEMMA BeginInv ==
  ASSUME PkgInv, NEW kind \in {"install", "update", "add"}, NEW n, NEW m \in Manifests, NEW h,
         kind = "add" => n \in Names, kind = "install" => m = toml, Begin(kind, n, m, h)
  PROVE  PkgInv'
  <1>1. /\ pc' = "taking" /\ toml' = m /\ todo' = Wants(m, Root) /\ met' = None /\ newLock' = None
        /\ tips' = remote /\ netfail' = FALSE /\ status' = "busy"
        /\ UNCHANGED <<remote, lock, deps>> /\ pc = "idle"
        /\ cmd' = [kind |-> kind, name |-> n, saved |-> toml, hadDir |-> h, settled |-> (status = "ok")]
    BY DEF Begin
  <1>2. todo' \in Seq(Requirements) /\ ToSet(todo') = Wanted(m, Root)
    BY <1>1, WantsOf DEF Bases
  <1>3. cmd'.kind = kind /\ cmd'.name = n /\ cmd'.saved = toml /\ cmd'.settled = (status = "ok")
    BY <1>1
  <1>4. TypeOK'
    BY <1>1, <1>2, NoneFits DEF PkgInv, TypeOK
  <1>5. WorkFits'
    BY <1>1, <1>3 DEF PkgInv, WorkFits, Installing, TypeOK
  <1>6. ClonesFit'
    BY <1>1 DEF PkgInv, ClonesFit
  <1>7. TipsFit'
    <2>1. \A u \in Urls : remote[u] \in Nat
      BY Constants DEF PkgInv, TypeOK
    <2> QED
      BY <1>1, <2>1 DEF TipsFit
  <1>8. \A k \in Names : ~Met(k)' /\ newLock'[k] = Nothing /\ met'[k] = Nothing
    BY <1>1, NoneFits DEF Met
  <1>9. TakenFits' /\ Followed' /\ LockKept'
    BY <1>8 DEF TakenFits, Followed, LockKept
  <1>10. LockFits'
    BY <1>1, <1>8 DEF LockFits, Records
  <1>11. \A k \in Names : m[k] # Nothing => Waiting(k, m[k], Root)'
    BY <1>2 DEF Waiting, Wanted, Keys
  <1>12. MetOrWaiting'
    BY <1>1, <1>8, <1>11 DEF MetOrWaiting
  <1>13. Asked'
    BY <1>1, <1>2, <1>8 DEF Asked, AskedBy, Wanted
  <1>14. Reached'
    <2> DEFINE v == [todo |-> Wants(m, Root), met |-> None]
               g == <<v>>
    <2>1. v \in Views
      BY <1>1, <1>2, NoneFits DEF Views
    <2>2. g \in Seq(Views) /\ Len(g) = 1 /\ g[1] = v /\ g # << >>
      BY <2>1
    <2>3. Course(g)'
      BY <1>1, <2>2 DEF Course
    <2>4. g[Len(g)] = View'
      BY <1>1, <2>2 DEF View
    <2> QED
      BY <2>2, <2>3, <2>4 DEF Reached
  <1>15. Settled'
    <2> SUFFICES ASSUME kind = "install", status = "ok"
                 PROVE  \E g \in Seq(Views) : Complete(g)' /\ \E i \in 1..Len(g) : g[i] = View'
      BY <1>1, <1>3 DEF Settled, Settling, Installing
    <2>1. PICK g \in Seq(Views) : Course(g) /\ g[Len(g)] = View
      BY DEF PkgInv, Reached, Result
    <2>2. Complete(g)
      BY <2>1 DEF Complete, View, PkgInv, WorkFits, LockFits
    <2>3. Complete(g)'
      BY <1>1, <2>2, CompleteStays DEF Kept
    <2>4. g[1] = View' /\ 1 \in 1..Len(g)
      BY <1>1, <2>1, HasViews DEF Course, View
    <2> QED
      BY <2>3, <2>4
  <1> QED
    BY <1>4, <1>5, <1>6, <1>7, <1>9, <1>10, <1>12, <1>13, <1>14, <1>15 DEF PkgInv

LEMMA CommandInv == ASSUME PkgInv, Command  PROVE PkgInv'
  <1>1. toml \in Manifests
    BY DEF PkgInv, TypeOK
  <1>2. CASE Install
    BY <1>1, <1>2, BeginInv DEF Install
  <1>3. CASE Update
    BY <1>1, <1>3, BeginInv DEF Update
  <1>4. ASSUME NEW n \in Names, NEW s \in Offers, Add(n, s)  PROVE PkgInv'
    <2> DEFINE m == [toml EXCEPT ![n] = s]
    <2>1. m \in Manifests
      BY <1>1, Constants DEF Manifests
    <2>2. Begin("add", n, m, deps[n] # Nothing)
      BY <1>4 DEF Add
    <2> HIDE DEF m
    <2> QED
      BY <2>1, <2>2, BeginInv
  <1> QED
    BY <1>2, <1>3, <1>4, RemoveInv DEF Command

\* A step that is a turn goes on along the course; an install after a complete
\* one stays on its course.
LEMMA TurnedInv ==
  ASSUME PkgInv, Installing, Installing', UNCHANGED <<toml, lock, cmd>>,
         NEW v \in Views, NEW w \in Views, v = View, w = View', Turn(v, w)',
         \A n \in Names : met[n] # Nothing => Kept(n), Settling => \A n \in Names : Kept(n)
  PROVE  Reached' /\ Settled'
  <1>1. Reached'
    <2>1. PICK h \in Seq(Views) : Course(h) /\ h[Len(h)] = v
      BY DEF PkgInv, Reached, Result
    <2>2. Course(h)'
      BY <2>1, CourseStays DEF View
    <2>3. Append(h, w) \in Seq(Views) /\ Course(Append(h, w))' /\ Append(h, w)[Len(Append(h, w))] = w
      BY <2>1, <2>2, CourseGrows
    <2> QED
      BY <2>3 DEF Reached
  <1>2. Settled'
    <2> SUFFICES ASSUME Settling'
                 PROVE  \E h \in Seq(Views) : Complete(h)' /\ \E i \in 1..Len(h) : h[i] = w
      BY DEF Settled
    <2>1. Settling
      BY DEF Settling, Installing
    <2>2. PICK h \in Seq(Views) : Complete(h) /\ \E i \in 1..Len(h) : h[i] = v
      BY <2>1 DEF PkgInv, Settled
    <2>3. PICK i \in 1..Len(h) : h[i] = v
      BY <2>2
    <2>4. Complete(h)'
      BY <2>1, <2>2, CompleteStays
    <2>5. i # Len(h)
      BY <2>2, <2>3 DEF Complete, Turn
    <2>6. i \in 1..Len(h) - 1 /\ i + 1 \in 1..Len(h)
      BY <2>3, <2>5, HasViews
    <2>7. Turn(v, h[i + 1])' /\ h[i + 1] \in Views
      BY <2>3, <2>4, <2>6, HasViews DEF Complete, Course
    <2>8. h[i + 1] = w
      BY <2>7, TurnOnce
    <2> QED
      BY <2>4, <2>6, <2>8
  <1> QED
    BY <1>1, <1>2

LEMMA TakeKnownInv == ASSUME PkgInv, TakeKnown  PROVE PkgInv'
  <1>1. /\ pc = "taking" /\ todo # << >> /\ met[Item.name] # Nothing
        /\ met[Item.name].src.kind = Item.src.kind /\ met[Item.name].src.at = Item.src.at
        /\ SameSource(met[Item.name].src, Item.src) /\ todo' = Front(todo)
        /\ UNCHANGED <<remote, toml, lock, deps, pc, cmd>> /\ UNCHANGED <<met, newLock>>
        /\ UNCHANGED <<status, tips, netfail>>
    BY DEF TakeKnown, Take, Met, SameSource, files
  <1>2. /\ Item = [name |-> Item.name, src |-> Item.src, base |-> Item.base]
        /\ todo' \in Seq(Requirements) /\ ToSet(todo) = ToSet(todo') \cup {Item}
    BY <1>1, Top
  <1>3. TypeOK'
    BY <1>1, <1>2 DEF PkgInv, TypeOK
  <1>4. WorkFits'
    BY <1>1 DEF PkgInv, WorkFits, Installing
  <1>5. ClonesFit' /\ TipsFit'
    BY <1>1 DEF PkgInv, ClonesFit, TipsFit
  <1>6. Installing /\ Installing' /\ Result /\ Result' /\ status' # "ok" /\ status # "ok"
    BY <1>1 DEF PkgInv, WorkFits, Installing, Result
  <1>7. \A n \in Names : HeadOf(n)' = HeadOf(n) /\ PlaceOf(n)' = PlaceOf(n)
                         /\ ManifestOf(n)' = ManifestOf(n) /\ (Met(n)' <=> Met(n))
    BY <1>1 DEF HeadOf, PlaceOf, PlaceBy, ManifestOf, Met
  <1>8. TakenFits' /\ LockFits' /\ Followed' /\ LockKept'
    BY <1>1, <1>6, <1>7 DEF PkgInv, TakenFits, LockFits, Records, Pin, Followed, LockKept
  <1>9. \A n, s, b : Waiting(n, s, b) =>
          [name |-> n, src |-> s, base |-> b] \in ToSet(todo')
          \/ (met[n] # Nothing /\ met[n].src.kind = s.kind /\ met[n].src.at = s.at)
    <2> SUFFICES ASSUME NEW n, NEW s, NEW b, [name |-> n, src |-> s, base |-> b] = Item
                 PROVE  met[n] # Nothing /\ met[n].src.kind = s.kind /\ met[n].src.at = s.at
      BY <1>2 DEF Waiting
    <2>1. n = Item.name /\ s = Item.src
      BY <1>2
    <2> QED
      BY <1>1, <2>1
  <1>10. MetOrWaiting'
    BY <1>1, <1>6, <1>7, <1>9 DEF PkgInv, MetOrWaiting, Met, MetFrom, Waiting
  <1>11. Asked'
    BY <1>1, <1>2, <1>6, <1>7 DEF PkgInv, Asked, AskedBy
  <1>12. Reached' /\ Settled'
    <2>1. PICK v, w : v = [todo |-> todo, met |-> met] /\ w = [todo |-> todo', met |-> met]
      OBVIOUS
    <2>2. v \in Views /\ w \in Views /\ v = View /\ w = View'
      BY <1>1, <1>2, <2>1 DEF Views, View, PkgInv, TypeOK
    <2>3. Turn(v, w)'
      BY <1>1, <2>1 DEF Turn, Item
    <2> QED
      BY <1>1, <1>6, <2>2, <2>3, TurnedInv DEF Kept
  <1> QED
    BY <1>3, <1>4, <1>5, <1>8, <1>10, <1>11, <1>12 DEF PkgInv

\* The folder of a git requirement has a clone, which may have fetched.
LEMMA ToCheckoutInv ==
  ASSUME PkgInv, pc = "taking", todo # << >>, ~Met(Item.name), Item.src.kind = "git", ToCheckout,
         deps' \in [Names -> Clones \cup {Nothing}], deps'[Item.name] # Nothing,
         \A n \in Names : Kept(n), ClonesFit', netfail' \in BOOLEAN, netfail => netfail'
  PROVE  PkgInv'
  <1>1. /\ pc' = "checkout" /\ UNCHANGED <<remote, toml, lock, cmd, status, tips>>
        /\ UNCHANGED <<todo, met, newLock>>
    BY DEF ToCheckout, work
  <1>2. TypeOK'
    BY <1>1 DEF PkgInv, TypeOK
  <1>3. Item' = Item /\ (Met(Item.name)' <=> Met(Item.name)) /\ status # "ok"
    BY <1>1 DEF Item, Met, PkgInv, WorkFits
  <1>4. WorkFits'
    BY <1>1, <1>3 DEF PkgInv, WorkFits, Installing
  <1>5. TipsFit'
    BY <1>1 DEF PkgInv, TipsFit
  <1> QED
    BY <1>1, <1>2, <1>4, <1>5, SameInv DEF Installing, Settling

LEMMA TakeCloneInv == ASSUME PkgInv, TakeClone  PROVE PkgInv'
  <1>1. /\ pc = "taking" /\ todo # << >> /\ ~Met(Item.name) /\ Item.src.kind = "git" /\ ToCheckout
        /\ deps[Item.name] = Nothing /\ UNCHANGED <<remote, netfail>>
    BY DEF TakeClone, New, Take, ToCheckout
  <1>2. PICK x \in Names, u \in Urls : x = Item.name /\ u = Item.src.at
    BY <1>1, Top, SourceFields
  <1>3. PICK c : c = [origin |-> u, seen |-> remote[u], trunk |-> remote[u], at |-> remote[u]]
    OBVIOUS
  <1>4. c \in Clones /\ c # Nothing /\ c.at <= c.seen /\ c.trunk <= c.seen /\ c.seen <= remote[c.origin]
    <2>1. remote[u] \in 1..MaxCommit /\ remote[u] \in Nat
      BY Constants DEF PkgInv, TypeOK
    <2> QED
      BY <1>3, <2>1, Constants DEF Clones
  <1>5. deps' = [deps EXCEPT ![x] = c]
    BY <1>2, <1>3 DEF TakeClone
  <1>6. deps' \in [Names -> Clones \cup {Nothing}] /\ deps'[x] = c
        /\ \A n \in Names : n # x => deps'[n] = deps[n]
    BY <1>4, <1>5 DEF PkgInv, TypeOK
  <1>7. ClonesFit'
    BY <1>1, <1>4, <1>6 DEF PkgInv, ClonesFit
  <1>8. netfail' \in BOOLEAN /\ (netfail => netfail')
    BY <1>1 DEF PkgInv, WorkFits
  <1>9. \A n \in Names : Kept(n)
    BY <1>1, <1>2, <1>6 DEF Kept
  <1> QED
    BY <1>1, <1>2, <1>4, <1>6, <1>7, <1>8, <1>9, ToCheckoutInv

LEMMA TakeClonedInv == ASSUME PkgInv, TakeCloned  PROVE PkgInv'
  <1>1. /\ pc = "taking" /\ todo # << >> /\ ~Met(Item.name) /\ Item.src.kind = "git" /\ ToCheckout
        /\ deps[Item.name] # Nothing /\ UNCHANGED remote
    BY DEF TakeCloned, New, Take, ToCheckout
  <1>2. PICK x \in Names : x = Item.name
    BY <1>1, Top
  <1>3. PICK c : c = deps[x]
    OBVIOUS
  <1>4. /\ c \in Clones /\ c.origin \in Urls /\ c.at \in Nat /\ c.trunk \in Nat /\ c.seen \in Nat
        /\ c.at <= c.seen /\ c.trunk <= c.seen /\ c.seen <= remote[c.origin]
        /\ remote[c.origin] \in 1..MaxCommit /\ remote[c.origin] \in Nat
    <2>1. c \in Clones /\ c.at <= c.seen /\ c.trunk <= c.seen /\ c.seen <= remote[c.origin]
      BY <1>1, <1>2, <1>3 DEF PkgInv, TypeOK, ClonesFit
    <2>2. c.origin \in Urls /\ c.at \in Nat /\ c.trunk \in Nat /\ c.seen \in Nat
      BY <2>1, Constants DEF Clones
    <2> QED
      BY <2>1, <2>2, Constants DEF PkgInv, TypeOK
  <1>5. \/ deps' = [deps EXCEPT ![x] = [c EXCEPT !.seen = remote[c.origin]]] /\ UNCHANGED netfail
        \/ UNCHANGED deps /\ netfail' \in BOOLEAN /\ (netfail => netfail')
    BY <1>2, <1>3 DEF TakeCloned, Fetch, PkgInv, WorkFits
  <1>6. netfail' \in BOOLEAN /\ (netfail => netfail')
    BY <1>5 DEF PkgInv, WorkFits
  <1>7. PICK d \in Clones : /\ d.origin = c.origin /\ d.at = c.at /\ d.trunk = c.trunk
                            /\ d.seen \in Nat /\ c.seen <= d.seen /\ d.seen <= remote[c.origin]
                            /\ deps' = [deps EXCEPT ![x] = d]
    <2>1. CASE deps' = [deps EXCEPT ![x] = [c EXCEPT !.seen = remote[c.origin]]]
      <3>1. PICK d : d = [c EXCEPT !.seen = remote[c.origin]]
        OBVIOUS
      <3>2. d \in Clones /\ d.origin = c.origin /\ d.at = c.at /\ d.trunk = c.trunk /\ d.seen = remote[c.origin]
        BY <1>4, <3>1 DEF Clones
      <3>3. d.seen \in Nat /\ c.seen <= d.seen /\ d.seen <= remote[c.origin]
        BY <1>4, <3>2
      <3> QED
        BY <2>1, <3>1, <3>2, <3>3, Zenon
    <2>2. CASE UNCHANGED deps
      <3>1. deps' = [deps EXCEPT ![x] = c]
        BY <1>2, <1>3, <2>2 DEF PkgInv, TypeOK
      <3>2. c.seen <= c.seen
        BY <1>4
      <3> QED
        BY <1>4, <3>1, <3>2, Zenon
    <2> QED
      BY <1>5, <2>1, <2>2
  <1>8. /\ deps' \in [Names -> Clones \cup {Nothing}] /\ deps'[x] = d
        /\ \A n \in Names : n # x => deps'[n] = deps[n]
    BY <1>7 DEF PkgInv, TypeOK
  <1>9. d # Nothing /\ d.at <= d.seen /\ d.trunk <= d.seen
    BY <1>4, <1>7, Constants
  <1>10. ClonesFit'
    BY <1>1, <1>7, <1>8, <1>9 DEF PkgInv, ClonesFit
  <1>11. \A n \in Names : Kept(n)
    BY <1>3, <1>7, <1>8, <1>9 DEF Kept
  <1> QED
    BY <1>1, <1>2, <1>6, <1>8, <1>9, <1>10, <1>11, ToCheckoutInv

\* A package that is taken is at b from now on, with the manifest m: what was
\* met or waited is as before, and what m asks for waits.
LEMMA MeetInv ==
  ASSUME PkgInv, Installing, Installing', todo # << >>, UNCHANGED <<toml, lock, cmd>>, status' # "ok",
         NEW x \in Names, NEW s \in Sources, NEW a \in Bases,
         Item = [name |-> x, src |-> s, base |-> a], met[x] = Nothing,
         NEW b \in Commits \cup Folders, NEW m \in Manifests, m = Manifest[b],
         met' = [met EXCEPT ![x] = [src |-> s, base |-> a]], todo' = Front(todo) \o Wants(m, b),
         \A n \in Names : n # x => deps'[n] = deps[n], s.kind = "git" => deps'[x] # Nothing,
         PlaceOf(x)' = b, Settling => Kept(x)
  PROVE  /\ todo' \in Seq(Requirements) /\ met' \in Mets
         /\ TakenFits' /\ MetOrWaiting' /\ Asked' /\ Reached' /\ Settled'
  <1>1. /\ met \in Mets /\ todo \in Seq(Requirements) /\ Front(todo) \in Seq(Requirements)
        /\ ToSet(todo) = ToSet(Front(todo)) \cup {Item} /\ Result /\ Result' /\ b \in Bases
    BY Top, Constants DEF PkgInv, TypeOK, Result
  <1>2. todo' \in Seq(Requirements) /\ ToSet(todo') = ToSet(Front(todo)) \cup Wanted(m, b)
    BY <1>1, PushWants
  <1>3. /\ met' \in Mets /\ met'[x] = [src |-> s, base |-> a] /\ met'[x] # Nothing
        /\ \A n \in Names : n # x => met'[n] = met[n]
    BY <1>1, Constants DEF Mets, Takings
  <1>4. \A n \in Names : Kept(n) \/ n = x
    BY DEF Kept
  <1>5. ASSUME NEW n \in Names, met[n] # Nothing
        PROVE  /\ n # x /\ met'[n] = met[n] /\ PlaceOf(n)' = PlaceOf(n) /\ ManifestOf(n)' = ManifestOf(n)
               /\ met[n].src.kind = "git" => deps[n] # Nothing /\ deps'[n] = deps[n]
               /\ PlaceOf(n) \in Commits \cup Folders /\ ManifestOf(n) \in Manifests
    <2>1. /\ n # x /\ met'[n] = met[n] /\ deps'[n] = deps[n]
          /\ met[n].src.kind = "git" => deps[n] # Nothing
          /\ PlaceOf(n) \in Commits \cup Folders /\ ManifestOf(n) \in Manifests
      BY <1>1, <1>3, <1>5 DEF PkgInv, TakenFits, Met
    <2>2. PlaceOf(n)' = PlaceOf(n)
      BY <2>1 DEF PlaceOf, PlaceBy, Folder, HeadOf
    <2> QED
      BY <2>1, <2>2 DEF ManifestOf
  <1>6. ManifestOf(x)' = m
    BY DEF ManifestOf
  <1>7. TakenFits'
    <2> SUFFICES ASSUME NEW n \in Names, met'[n] # Nothing
                 PROVE  /\ met'[n].src.kind = "git" => deps'[n] # Nothing
                        /\ PlaceOf(n)' \in Commits \cup Folders /\ ManifestOf(n)' \in Manifests
      BY DEF TakenFits, Met
    <2>1. CASE n = x
      BY <1>3, <1>6, <2>1
    <2>2. CASE n # x
      BY <1>3, <1>5, <2>2
    <2> QED
      BY <2>1, <2>2
  <1> DEFINE Done(n, r, c) == \/ met'[n] # Nothing /\ met'[n].src.kind = r.kind /\ met'[n].src.at = r.at
                              \/ [name |-> n, src |-> r, base |-> c] \in ToSet(todo')
  <1>8. /\ \A n \in Names : \A r, c : MetFrom(n, r) => Done(n, r, c)
        /\ \A n \in Names : \A r, c : Waiting(n, r, c) => Done(n, r, c)
        /\ \A n \in Names : m[n] # Nothing => Done(n, m[n], b)
    <2>1. \A n \in Names : \A r, c : MetFrom(n, r) => Done(n, r, c)
      BY <1>5 DEF MetFrom, Met
    <2>2. ASSUME NEW n \in Names, NEW r, NEW c, Waiting(n, r, c)  PROVE Done(n, r, c)
      <3>1. CASE [name |-> n, src |-> r, base |-> c] = Item
        <4>1. n = x /\ r = s
          BY <3>1
        <4> QED
          BY <1>3, <4>1
      <3> QED
        BY <1>1, <1>2, <2>2, <3>1 DEF Waiting
    <2>3. \A n \in Names : m[n] # Nothing => Done(n, m[n], b)
      BY <1>2 DEF Wanted, Keys
    <2> QED
      BY <2>1, <2>2, <2>3
  <1>9. MetOrWaiting'
    <2>0. MetOrWaiting
      BY DEF PkgInv
    <2>1. ASSUME NEW n \in Names, toml[n] # Nothing  PROVE Done(n, toml[n], Root)
      <3>1. MetFrom(n, toml[n]) \/ Waiting(n, toml[n], Root)
        BY <1>1, <2>0, <2>1 DEF MetOrWaiting
      <3> HIDE DEF Done
      <3> QED
        BY <1>8, <3>1
    <2>2. ASSUME NEW n \in Names, met'[n] # Nothing, NEW k \in Names, ManifestOf(n)'[k] # Nothing
          PROVE  Done(k, ManifestOf(n)'[k], PlaceOf(n)')
      <3>1. CASE n = x
        BY <1>6, <1>8, <2>2, <3>1
      <3>2. CASE n # x
        <4>1. met[n] # Nothing
          BY <1>3, <2>2, <3>2
        <4>2. PICK r, c : r = ManifestOf(n)[k] /\ r = ManifestOf(n)'[k] /\ c = PlaceOf(n) /\ c = PlaceOf(n)'
          BY <1>5, <4>1
        <4>3. MetFrom(k, r) \/ Waiting(k, r, c)
          BY <1>1, <2>0, <2>2, <4>1, <4>2 DEF MetOrWaiting, Met
        <4>4. Done(k, r, c)
          <5> HIDE DEF Done
          <5> QED
            BY <1>8, <4>3
        <4> QED
          BY <4>2, <4>4
      <3> QED
        BY <3>1, <3>2
    <2> QED
      BY <2>1, <2>2 DEF MetOrWaiting, MetFrom, Met, Waiting
  <1> DEFINE Asks(n, r, c) == \/ c = Root /\ toml[n] = r
                              \/ \E k \in Names : /\ met'[k] # Nothing /\ c = PlaceOf(k)'
                                                  /\ ManifestOf(k)'[n] = r
  <1>10. ASSUME NEW n, NEW r, NEW c, AskedBy(n, r, c)  PROVE Asks(n, r, c)
    BY <1>5, <1>10 DEF AskedBy, Met
  <1>11. Asked'
    <2>0. Asked
      BY DEF PkgInv
    <2>1. AskedBy(x, s, a)
      <3>1. Item.name = x /\ Item.src = s /\ Item.base = a /\ Item \in ToSet(todo)
        BY <1>1
      <3> QED
        BY <1>1, <2>0, <3>1 DEF Asked
    <2>2. ASSUME NEW n \in Names, met'[n] # Nothing  PROVE Asks(n, met'[n].src, met'[n].base)
      <3> HIDE DEF Asks
      <3>1. CASE n = x
        BY <1>3, <1>10, <2>1, <3>1
      <3>2. CASE n # x
        <4>1. PICK r, c : r = met[n].src /\ c = met[n].base /\ r = met'[n].src /\ c = met'[n].base
          BY <1>3, <3>2
        <4>2. AskedBy(n, r, c)
          BY <1>1, <1>3, <2>0, <2>2, <3>2, <4>1 DEF Asked, Met
        <4> QED
          BY <1>10, <4>1, <4>2
      <3> QED
        BY <3>1, <3>2
    <2>3. ASSUME NEW r \in ToSet(todo')  PROVE Asks(r.name, r.src, r.base)
      <3>1. CASE r \in ToSet(Front(todo))
        <4> HIDE DEF Asks
        <4>1. AskedBy(r.name, r.src, r.base)
          BY <1>1, <2>0, <3>1 DEF Asked
        <4> QED
          BY <1>10, <4>1
      <3>2. CASE r \in Wanted(m, b)
        <4>1. PICK n \in Names : n = r.name /\ m[n] = r.src /\ r.base = b
          BY <3>2 DEF Wanted, Keys
        <4> QED
          BY <1>3, <1>6, <4>1
      <3> QED
        BY <1>2, <2>3, <3>1, <3>2
    <2> QED
      BY <2>2, <2>3 DEF Asked, AskedBy, Met
  <1>12. Reached' /\ Settled'
    <2>1. PICK v, w : v = [todo |-> todo, met |-> met] /\ w = [todo |-> todo', met |-> met']
      OBVIOUS
    <2>2. v \in Views /\ w \in Views /\ v = View /\ w = View'
      BY <1>1, <1>2, <1>3, <2>1 DEF Views, View
    <2>3. Turn(v, w)'
      <3>1. PICK it : it = Last(v.todo)
        OBVIOUS
      <3>2. v.todo # << >> /\ it.name = x /\ it.src = s /\ it.base = a
        BY <2>1, <3>1 DEF Item
      <3>3. w.met = [v.met EXCEPT ![it.name] = [src |-> it.src, base |-> it.base]] /\ v.met[it.name] = Nothing
        BY <2>1, <3>2
      <3>4. PlaceBy(w.met, it.name)' = b
        BY <2>1, <3>2 DEF PlaceOf, PlaceBy, Folder, HeadOf
      <3>5. w.todo = Front(v.todo) \o Wants(Manifest[b], b)
        BY <2>1
      <3> QED
        BY <3>1, <3>2, <3>3, <3>4, <3>5 DEF Turn
    <2>4. (\A n \in Names : met[n] # Nothing => Kept(n)) /\ (Settling => \A n \in Names : Kept(n))
      BY <1>4
    <2> QED
      BY <2>2, <2>3, <2>4, TurnedInv
  <1> QED
    BY <1>2, <1>3, <1>7, <1>9, <1>11, <1>12

LEMMA TakeFolderInv == ASSUME PkgInv, TakeFolder  PROVE PkgInv'
  <1>1. pc = "taking" /\ todo # << >> /\ met[Item.name] = Nothing /\ Item.src.kind = "path"
    BY DEF TakeFolder, New, Take, Met
  <1>2. PICK x \in Names, s \in Sources, a \in Bases : Item = [name |-> x, src |-> s, base |-> a]
    BY <1>1, Top
  <1>3. Item.name = x /\ Item.src = s /\ Item.base = a /\ s.at \in Paths /\ s.kind = "path"
    BY <1>1, <1>2, SourceFields
  <1>4. PICK b \in Commits \cup Folders : b = Lands[a][s.at] /\ b = Folder(Item) /\ Manifest[b] \in Manifests
    BY <1>3, Constants DEF TakeFolder, Folder
  <1>5. PICK m \in Manifests : m = Manifest[b]
    BY <1>4
  <1>6. /\ todo' = Front(todo) \o Wants(m, b) /\ met' = [met EXCEPT ![x] = [src |-> s, base |-> a]]
        /\ UNCHANGED <<remote, toml, lock, deps, pc, cmd>> /\ UNCHANGED <<newLock, status, tips, netfail>>
    BY <1>3, <1>4, <1>5 DEF TakeFolder, Meet, files
  <1>7. Installing /\ Installing' /\ status # "ok" /\ Result
    BY <1>1, <1>6 DEF Installing, PkgInv, WorkFits, Result
  <1>8. met \in Mets
    BY DEF PkgInv, TypeOK
  <1>9. met'[x] = [src |-> s, base |-> a] /\ \A n \in Names : n # x => met'[n] = met[n]
    BY <1>6, <1>8 DEF Mets
  <1>10. PlaceOf(x)' = b
    BY <1>3, <1>4, <1>9 DEF PlaceOf, PlaceBy, Folder
  <1>11. /\ todo' \in Seq(Requirements) /\ met' \in Mets
         /\ TakenFits' /\ MetOrWaiting' /\ Asked' /\ Reached' /\ Settled'
    BY <1>1, <1>2, <1>3, <1>5, <1>6, <1>7, <1>10, MeetInv DEF Kept
  <1>12. TypeOK'
    BY <1>6, <1>11 DEF PkgInv, TypeOK
  <1>13. WorkFits' /\ ClonesFit' /\ TipsFit'
    BY <1>1, <1>6 DEF PkgInv, WorkFits, Installing, ClonesFit, TipsFit
  <1>14. LockFits'
    <2>1. Records(newLock, met) /\ newLock[x] = Nothing
      BY <1>1, <1>3, <1>7 DEF PkgInv, LockFits, Records
    <2>2. ASSUME NEW n \in Names
          PROVE  newLock[n] = IF met'[n] # Nothing /\ met'[n].src.kind = "git" THEN Pin(met, n)' ELSE Nothing
      <3>1. CASE n = x
        BY <1>3, <1>9, <2>1, <3>1
      <3>2. CASE n # x
        BY <1>6, <1>9, <2>1, <3>2 DEF Records, Pin, HeadOf
      <3> QED
        BY <3>1, <3>2
    <2> QED
      BY <1>6, <1>7, <2>2 DEF LockFits, Records, Pin, HeadOf
  <1>15. Followed'
    BY <1>3, <1>6, <1>7, <1>9 DEF PkgInv, Followed, Met, Result, Installing
  <1>16. LockKept'
    BY <1>6, <1>7 DEF PkgInv, LockKept
  <1> QED
    BY <1>11, <1>12, <1>13, <1>14, <1>15, <1>16 DEF PkgInv

-----------------------------------------------------------------------------
(* A checkout *)

\* The clone c at its commit k, after which a fetch of the command has failed
\* if f, is what a checkout in the folder of the package x leaves for the source s.
Left(x, s, c, k, f) ==
  LET b == [repo |-> c.origin, n |-> k] IN
  /\ netfail' = f /\ deps' = [deps EXCEPT ![x] = c]
  /\ newLock' = [newLock EXCEPT ![x] = [url |-> s.at, commit |-> b]]
  /\ \/ Manifest[b] # Unreadable /\ Meet(b) /\ pc' = "taking"
     \/ Manifest[b] = Unreadable /\ pc' = "unreadable" /\ UNCHANGED <<todo, met>>

\* The lock, a revision or the tip decide on the commit.
LEMMA CheckoutDoes ==
  ASSUME PkgInv, Checkout, NEW x \in Names, NEW s \in Sources, Item.name = x, Item.src = s
  PROVE  \E c \in Clones, k \in 1..MaxCommit, f \in BOOLEAN :
           /\ Left(x, s, c, k, f)
           /\ c.origin = deps[x].origin /\ c.at = k /\ c.at <= c.seen /\ c.trunk <= c.seen
           /\ c.seen <= remote[c.origin]
           /\ netfail => f
           /\ cmd.kind = "update" /\ s.rev = NoRev /\ ~f => k = remote[c.origin]
           /\ cmd.kind = "update" /\ s.rev \in 1..MaxCommit => k = s.rev
           /\ cmd.kind # "update" /\ Locked(Item) # Nothing => Locked(Item) = [repo |-> c.origin, n |-> k]
  <1>1. pc = "checkout" /\ deps[x] # Nothing /\ deps[x] \in Clones
    BY DEF Checkout, PkgInv, WorkFits, TypeOK
  <1>2. PICK d : d = deps[x]
    OBVIOUS
  <1>3. /\ d \in Clones /\ d.origin \in Urls /\ d.at \in Nat /\ d.trunk \in Nat /\ d.seen \in Nat
        /\ d.trunk <= d.seen /\ d.seen <= remote[d.origin] /\ d.trunk \in 1..MaxCommit
        /\ remote[d.origin] \in 1..MaxCommit /\ remote[d.origin] \in Nat
    <2>1. d \in Clones /\ d.trunk <= d.seen /\ d.seen <= remote[d.origin]
      BY <1>1, <1>2 DEF PkgInv, ClonesFit
    <2>2. d.origin \in Urls /\ d.at \in Nat /\ d.trunk \in Nat /\ d.seen \in Nat /\ d.trunk \in 1..MaxCommit
      BY <2>1, Constants DEF Clones
    <2> QED
      BY <2>1, <2>2, Constants DEF PkgInv, TypeOK
  <1>4. PICK cf \in Refreshed(Item.name) : \E k \in Resolve(Target(Item), cf[1]) :
          LET b == [repo |-> cf[1].origin, n |-> k] IN
          /\ netfail' = cf[2]
          /\ deps' = [deps EXCEPT ![Item.name] = [cf[1] EXCEPT !.at = k]]
          /\ newLock' = [newLock EXCEPT ![Item.name] =
                           [url |-> Item.src.at, commit |-> Recorded(cf[1], k)]]
          /\ \/ Manifest[b] # Unreadable /\ Meet(b) /\ pc' = "taking"
             \/ Manifest[b] = Unreadable /\ pc' = "unreadable" /\ UNCHANGED <<todo, met>>
    BY Zenon DEF Checkout
  <1>5. PICK e, f : e = cf[1] /\ f = cf[2]
    OBVIOUS
  <1>6. PICK k \in Resolve(Target(Item), e) :
          /\ netfail' = f
          /\ deps' = [deps EXCEPT ![x] = [e EXCEPT !.at = k]]
          /\ newLock' = [newLock EXCEPT ![x] = [url |-> s.at, commit |-> [repo |-> e.origin, n |-> k]]]
          /\ LET b == [repo |-> e.origin, n |-> k] IN
             \/ Manifest[b] # Unreadable /\ Meet(b) /\ pc' = "taking"
             \/ Manifest[b] = Unreadable /\ pc' = "unreadable" /\ UNCHANGED <<todo, met>>
    BY <1>4, <1>5 DEF Recorded
  <1>7. netfail \in BOOLEAN
    BY DEF PkgInv, WorkFits
  <1>8. /\ e \in Clones /\ e.origin = d.origin /\ e.trunk = d.trunk /\ e.seen \in {d.seen, remote[d.origin]}
        /\ f \in BOOLEAN /\ (netfail => f)
        /\ Target(Item).by = "head" /\ ~f => e.seen = remote[d.origin]
    <2>1. PICK g : g = [d EXCEPT !.seen = remote[d.origin]]
      OBVIOUS
    <2>2. g \in Clones /\ g.origin = d.origin /\ g.trunk = d.trunk /\ g.seen = remote[d.origin]
      BY <1>3, <2>1 DEF Clones
    <2>3. CASE Target(Item).by = "head"
      <3>1. cf = <<g, netfail>> \/ cf = <<d, TRUE>>
        BY <1>1, <1>2, <1>4, <2>1, <2>3 DEF Refreshed
      <3>2. (e = g /\ f = netfail) \/ (e = d /\ f = TRUE)
        <4>1. cf = <<g, netfail>> => e = g /\ f = netfail
          BY <1>5
        <4>2. cf = <<d, TRUE>> => e = d /\ f = TRUE
          BY <1>5
        <4> QED
          BY <3>1, <4>1, <4>2
      <3> QED
        BY <1>3, <1>7, <2>2, <2>3, <3>2
    <2>4. CASE Target(Item).by # "head"
      <3>1. cf = <<d, netfail>>
        BY <1>1, <1>2, <1>4, <2>4 DEF Refreshed
      <3>2. e = d /\ f = netfail
        BY <1>5, <3>1
      <3> QED
        BY <1>3, <1>7, <2>4, <3>2
    <2> QED
      BY <2>3, <2>4
  <1>9. e.seen \in Nat /\ e.trunk <= e.seen /\ e.seen <= remote[e.origin] /\ e.trunk \in 1..MaxCommit
        /\ e.seen \in 1..MaxCommit
    BY <1>3, <1>8, Constants DEF Clones
  <1>10. s.kind = "git" /\ s.rev \in {NoRev, Trunk} \cup 1..MaxCommit
    BY <1>1, SourceFields DEF PkgInv, WorkFits
  <1>11. Locked(Item) # Nothing => Locked(Item) \in Commits
    BY <1>1 DEF Locked, PkgInv, TypeOK, Locks, Pins
  <1>12. /\ k \in 1..MaxCommit /\ k <= e.seen
         /\ cmd.kind = "update" /\ s.rev = NoRev => Target(Item).by = "head" /\ k = e.seen
         /\ cmd.kind = "update" /\ s.rev \in 1..MaxCommit => k = s.rev
         /\ cmd.kind # "update" /\ Locked(Item) # Nothing => Locked(Item) = [repo |-> e.origin, n |-> k]
    <2>1. CASE Locked(Item) # Nothing /\ cmd.kind # "update"
      <3>1. Target(Item) = [by |-> "lock", commit |-> Locked(Item)]
        BY <2>1 DEF Target
      <3>2. Locked(Item).repo = e.origin /\ k = Locked(Item).n /\ k \in 1..e.seen
        BY <1>6, <3>1 DEF Resolve
      <3>3. Locked(Item) = [repo |-> e.origin, n |-> k]
        BY <1>11, <2>1, <3>2 DEF Commits
      <3> QED
        BY <1>9, <2>1, <3>2, <3>3, Constants
    <2>2. CASE ~(Locked(Item) # Nothing /\ cmd.kind # "update") /\ s.rev # NoRev
      <3>1. Target(Item) = [by |-> "rev", rev |-> s.rev]
        BY <1>1, <2>2 DEF Target
      <3>2. (k = e.trunk /\ s.rev = Trunk) \/ (k \in 1..e.seen /\ k = s.rev)
        BY <1>6, <3>1 DEF Resolve
      <3> QED
        BY <1>9, <2>2, <3>2, Constants
    <2>3. CASE ~(Locked(Item) # Nothing /\ cmd.kind # "update") /\ s.rev = NoRev
      <3>1. Target(Item).by = "head"
        BY <1>1, <2>3 DEF Target
      <3>2. k = e.seen
        BY <1>6, <3>1 DEF Resolve
      <3> QED
        BY <1>9, <2>3, <3>1, <3>2, Constants
    <2> QED
      BY <2>1, <2>2, <2>3
  <1>13. PICK c : c = [e EXCEPT !.at = k]
    OBVIOUS
  <1>14. c \in Clones /\ c.origin = e.origin /\ c.trunk = e.trunk /\ c.seen = e.seen /\ c.at = k
    BY <1>8, <1>12, <1>13 DEF Clones
  <1>15. Left(x, s, c, k, f)
    BY <1>6, <1>13, <1>14 DEF Left
  <1>16. cmd.kind = "update" /\ s.rev = NoRev /\ ~f => k = remote[c.origin]
    BY <1>8, <1>12, <1>14
  <1>17. /\ c.origin = deps[x].origin /\ c.at = k /\ c.at <= c.seen /\ c.trunk <= c.seen
         /\ c.seen <= remote[c.origin]
         /\ cmd.kind # "update" /\ Locked(Item) # Nothing => Locked(Item) = [repo |-> c.origin, n |-> k]
         /\ cmd.kind = "update" /\ s.rev \in 1..MaxCommit => k = s.rev
    BY <1>2, <1>8, <1>9, <1>12, <1>14
  <1> QED
    BY <1>8, <1>12, <1>14, <1>15, <1>16, <1>17, Zenon

\* An install after a complete one finds on top of the stack a package that it
\* has met from that source, or one that is there and, if from git, locked.
LEMMA SettledNext ==
  ASSUME PkgInv, Settling, todo # << >>, NEW x \in Names, NEW s \in Sources, Item.name = x, Item.src = s
  PROVE  /\ met[x] # Nothing => SameSource(met[x].src, s)
         /\ met[x] = Nothing /\ s.kind = "path" =>
              Folder(Item) # Nothing /\ Manifest[Folder(Item)] # Unreadable
         /\ met[x] = Nothing /\ s.kind = "git" =>
              /\ deps[x] # Nothing /\ Manifest[HeadOf(x)] # Unreadable
              /\ lock[x] = [url |-> s.at, commit |-> HeadOf(x)]
  <1>1. PICK h \in Seq(Views) : Complete(h) /\ \E i \in 1..Len(h) : h[i] = View
    BY DEF PkgInv, Settled
  <1>2. PICK i \in 1..Len(h) : h[i] = View
    BY <1>1
  <1>3. PICK a : a = Item.base
    OBVIOUS
  <1>4. i # Len(h)
    BY <1>1, <1>2 DEF Complete, View
  <1>5. i \in 1..Len(h) - 1 /\ i + 1 \in 1..Len(h)
    BY <1>2, <1>4, HasViews
  <1>6. PICK w \in Views : w = h[i + 1] /\ Turn(View, w)
           /\ \A n \in Names : w.met[n] # Nothing => h[Len(h)].met[n] = w.met[n]
    BY <1>1, <1>2, <1>5, HasViews DEF Complete, Course
  <1>7. CASE met[x] # Nothing
    BY <1>6, <1>7 DEF Turn, View, Item
  <1>8. CASE met[x] = Nothing
    <2>1. PICK it : it = Last(View.todo) /\ it = Item
      BY DEF View, Item
    <2>2. /\ s.kind = "git" => deps[x] # Nothing
          /\ w.met = [met EXCEPT ![x] = [src |-> s, base |-> a]]
          /\ PlaceBy(w.met, x) \in Commits \cup Folders /\ Manifest[PlaceBy(w.met, x)] \in Manifests
      BY <1>3, <1>6, <1>8, <2>1 DEF Turn, View
    <2>3. met \in Mets /\ [src |-> s, base |-> a] # Nothing
      BY <1>3, Top, Constants DEF Takings, PkgInv, TypeOK
    <2>4. w.met[x] = [src |-> s, base |-> a] /\ h[Len(h)].met[x] = [src |-> s, base |-> a]
      BY <1>6, <2>2, <2>3 DEF Mets
    <2>5. Manifest[PlaceBy(w.met, x)] # Unreadable /\ PlaceBy(w.met, x) # Nothing
      BY <2>2, Constants
    <2>6. s.kind = "path" => PlaceBy(w.met, x) = Folder(Item)
      BY <1>3, <2>4 DEF PlaceBy, Folder
    <2>7. s.kind = "git" => PlaceBy(w.met, x) = HeadOf(x) /\ lock[x] = [url |-> s.at, commit |-> HeadOf(x)]
      BY <1>1, <2>3, <2>4 DEF PlaceBy, Complete, Records, Pin
    <2> QED
      BY <1>8, <2>2, <2>5, <2>6, <2>7
  <1> QED
    BY <1>7, <1>8

LEMMA CheckoutInv == ASSUME PkgInv, Checkout  PROVE PkgInv'
  <1>1. /\ pc = "checkout" /\ todo # << >> /\ Item.src.kind = "git" /\ met[Item.name] = Nothing
        /\ deps[Item.name] # Nothing /\ status = "busy" /\ cmd.kind \in {"install", "update", "add"}
    BY DEF Checkout, PkgInv, WorkFits, Met, Installing
  <1>2. PICK x \in Names, s \in Sources, a \in Bases : Item = [name |-> x, src |-> s, base |-> a]
    BY <1>1, Top
  <1>3. /\ Item.name = x /\ Item.src = s /\ Item.base = a /\ s.kind = "git" /\ met[x] = Nothing
        /\ deps[x] # Nothing
    BY <1>1, <1>2
  <1>4. PICK c \in Clones, k \in 1..MaxCommit, f \in BOOLEAN :
           /\ Left(x, s, c, k, f)
           /\ c.origin = deps[x].origin /\ c.at = k /\ c.at <= c.seen /\ c.trunk <= c.seen
           /\ c.seen <= remote[c.origin]
           /\ netfail => f
           /\ cmd.kind = "update" /\ s.rev = NoRev /\ ~f => k = remote[c.origin]
           /\ cmd.kind = "update" /\ s.rev \in 1..MaxCommit => k = s.rev
           /\ cmd.kind # "update" /\ Locked(Item) # Nothing => Locked(Item) = [repo |-> c.origin, n |-> k]
    BY <1>3, CheckoutDoes
  <1>5. PICK b \in Commits : b = [repo |-> c.origin, n |-> k]
    BY DEF Commits, Clones
  <1>6. PICK p \in Pins : p = [url |-> s.at, commit |-> b]
    BY <1>3, SourceFields DEF Pins
  <1>7. /\ netfail' = f /\ deps' = [deps EXCEPT ![x] = c] /\ newLock' = [newLock EXCEPT ![x] = p]
        /\ UNCHANGED <<remote, toml, lock, cmd, status, tips>>
        /\ \/ Manifest[b] # Unreadable /\ Meet(b) /\ pc' = "taking"
           \/ Manifest[b] = Unreadable /\ pc' = "unreadable" /\ UNCHANGED <<todo, met>>
    BY <1>4, <1>5, <1>6 DEF Left, Checkout
  <1>8. /\ deps' \in [Names -> Clones \cup {Nothing}] /\ deps'[x] = c /\ c # Nothing
        /\ \A n \in Names : n # x => deps'[n] = deps[n]
        /\ newLock' \in Locks /\ newLock'[x] = p /\ p # Nothing
        /\ \A n \in Names : n # x => newLock'[n] = newLock[n]
    BY <1>7, Constants DEF PkgInv, TypeOK, Locks
  <1>9. ClonesFit' /\ TipsFit'
    BY <1>4, <1>7, <1>8 DEF PkgInv, ClonesFit, TipsFit
  <1>10. HeadOf(x)' = b
    BY <1>4, <1>5, <1>8 DEF HeadOf
  <1>11. Locked(Item) = IF ~(cmd.kind = "add" /\ cmd.name = x) /\ lock[x] # Nothing /\ lock[x].url = s.at
                        THEN lock[x].commit ELSE Nothing
    BY <1>3 DEF Locked
  <1>12. lock[x] # Nothing => lock[x] \in Pins /\ lock[x].commit \in Commits /\ lock[x].commit # Nothing
    BY Constants DEF PkgInv, TypeOK, Locks, Pins
  <1>13. ASSUME Settling  PROVE b = HeadOf(x) /\ Kept(x) /\ Manifest[b] # Unreadable
    <2>1. lock[x] = [url |-> s.at, commit |-> HeadOf(x)] /\ Manifest[HeadOf(x)] # Unreadable
      BY <1>1, <1>3, <1>13, SettledNext
    <2>2. lock[x] # Nothing
      <3>1. lock[x] = Nothing \/ lock[x] \in Pins
        BY DEF PkgInv, TypeOK, Locks
      <3>2. HeadOf(x) \in Commits
        BY <1>3 DEF HeadOf, Commits, Clones, PkgInv, TypeOK
      <3>3. [url |-> s.at, commit |-> HeadOf(x)] \in Pins
        BY <1>3, <3>2, SourceFields DEF Pins
      <3> QED
        BY <2>1, <3>3, Constants
    <2>3. cmd.kind = "install" /\ lock[x].url = s.at /\ lock[x].commit = HeadOf(x)
      BY <1>13, <2>1 DEF Settling
    <2>4. Locked(Item) = HeadOf(x) /\ Locked(Item) # Nothing
      BY <1>11, <1>12, <2>2, <2>3
    <2>5. b = HeadOf(x)
      BY <1>4, <1>5, <2>3, <2>4
    <2>6. k = deps[x].at
      BY <1>5, <2>5 DEF HeadOf
    <2> QED
      BY <1>4, <1>8, <2>1, <2>5, <2>6 DEF Kept
  <1>14. CASE Manifest[b] = Unreadable
    <2>1. pc' = "unreadable" /\ UNCHANGED <<todo, met>>
      BY <1>7, <1>14
    <2>2. /\ toml' \in Manifests /\ lock' \in Locks /\ met' \in Mets /\ todo' \in Seq(Requirements)
          /\ cmd.kind = "add" => cmd.name \in Names /\ cmd.saved \in Manifests
      BY <1>7, <2>1 DEF PkgInv, TypeOK, WorkFits
    <2>3. ~Settling'
      BY <1>1, <1>7, <1>13, <1>14 DEF Settling
    <2> QED
      BY <1>1, <1>7, <1>8, <1>9, <2>1, <2>2, <2>3, RestingInv
  <1>15. CASE Manifest[b] # Unreadable
    <2>1. PICK m \in Manifests : m = Manifest[b]
      BY <1>15, Constants
    <2>2. /\ met' = [met EXCEPT ![x] = [src |-> s, base |-> a]] /\ todo' = Front(todo) \o Wants(m, b)
          /\ pc' = "taking"
      BY <1>3, <1>7, <1>15, <2>1 DEF Meet
    <2>3. met'[x] = [src |-> s, base |-> a] /\ (\A n \in Names : n # x => met'[n] = met[n]) /\ met'[x] # Nothing
      BY <2>2, Constants DEF PkgInv, TypeOK, Mets, Takings
    <2>4. PlaceOf(x)' = b
      BY <1>3, <1>10, <2>3 DEF PlaceOf, PlaceBy
    <2>5. Installing /\ Installing' /\ Result
      BY <1>1, <2>2 DEF Installing, Result
    <2>6. /\ todo' \in Seq(Requirements) /\ met' \in Mets
          /\ TakenFits' /\ MetOrWaiting' /\ Asked' /\ Reached' /\ Settled'
      <3>1. status' # "ok"
        BY <1>1, <1>7
      <3> QED
        BY <1>1, <1>2, <1>3, <1>7, <1>8, <1>13, <2>1, <2>2, <2>4, <2>5, <3>1, MeetInv
    <2>7. TypeOK'
      BY <1>7, <1>8, <2>2, <2>6 DEF PkgInv, TypeOK
    <2>8. WorkFits'
      BY <1>1, <1>7, <2>2 DEF PkgInv, WorkFits, Installing
    <2>9. LockFits'
      <3>1. Records(newLock, met)
        BY <2>5 DEF PkgInv, LockFits
      <3>2. ASSUME NEW n \in Names
            PROVE  newLock'[n] = IF met'[n] # Nothing /\ met'[n].src.kind = "git"
                                 THEN [url |-> met'[n].src.at, commit |-> HeadOf(n)'] ELSE Nothing
        <4>1. CASE n = x
          BY <1>3, <1>6, <1>8, <1>10, <2>3, <4>1
        <4>2. CASE n # x
          BY <1>8, <2>3, <3>1, <4>2 DEF Records, Pin, HeadOf
        <4> QED
          BY <4>1, <4>2
      <3>3. Records(newLock, met)'
        BY <3>2 DEF Records, Pin
      <3> QED
        BY <1>1, <1>7, <3>3 DEF LockFits
    <2>10. Followed'
      <3> SUFFICES ASSUME cmd.kind = "update", NEW n \in Names, met'[n] # Nothing, met'[n].src.kind = "git"
                   PROVE  /\ met'[n].src.rev \in 1..MaxCommit => deps'[n].at = met'[n].src.rev
                          /\ met'[n].src.rev = NoRev /\ ~f /\ deps'[n].origin = met'[n].src.at
                             => deps'[n].at >= tips[met'[n].src.at]
        BY <1>7 DEF Followed, Met
      <3>1. CASE n = x
        <4>1. met'[n].src = s /\ deps'[n] = c
          BY <1>8, <2>3, <3>1
        <4>2. ASSUME s.rev = NoRev, ~f, c.origin = s.at  PROVE c.at >= tips[s.at]
          <5>1. k = remote[c.origin] /\ s.at \in Urls
            BY <1>3, <1>4, <4>2, SourceFields
          <5>2. tips[s.at] <= remote[s.at] /\ tips[s.at] \in Nat /\ remote[s.at] \in Nat
            BY <5>1, Constants DEF PkgInv, TipsFit, TypeOK, WorkFits
          <5> QED
            BY <1>4, <4>2, <5>1, <5>2
        <4> QED
          BY <1>4, <4>1, <4>2
      <3>2. CASE n # x
        <4>1. met'[n] = met[n] /\ deps'[n] = deps[n] /\ (~f => ~netfail)
          BY <1>4, <1>8, <2>3, <3>2
        <4>2. Followed
          BY DEF PkgInv
        <4> QED
          BY <2>5, <4>1, <4>2 DEF Followed, Met
      <3> QED
        BY <3>1, <3>2
    <2>11. LockKept'
      <3> SUFFICES ASSUME cmd.kind # "update", NEW n \in Names, lock[n] # Nothing, newLock'[n] # Nothing,
                          lock[n].url = newLock'[n].url, ~(cmd.kind = "add" /\ cmd.name = n)
                   PROVE  newLock'[n] = lock[n]
        BY <1>7 DEF LockKept
      <3>1. CASE n = x
        <4>1. newLock'[n] = p /\ p.url = s.at /\ p.commit = b
          BY <1>6, <1>8, <3>1
        <4>2. Locked(Item) = lock[x].commit /\ Locked(Item) # Nothing
          BY <1>11, <1>12, <3>1, <4>1
        <4>3. lock[x].commit = b /\ lock[x].url = s.at /\ lock[x] \in Pins
          BY <1>4, <1>5, <1>12, <3>1, <4>1, <4>2
        <4> QED
          BY <1>6, <3>1, <4>1, <4>3 DEF Pins
      <3>2. CASE n # x
        BY <1>8, <2>5, <3>2 DEF PkgInv, LockKept
      <3> QED
        BY <3>1, <3>2
    <2> QED
      BY <1>9, <2>6, <2>7, <2>8, <2>9, <2>10, <2>11 DEF PkgInv
  <1> QED
    BY <1>14, <1>15

-----------------------------------------------------------------------------
(* The end of an install *)

LEMMA FinishInv == ASSUME PkgInv, Finish  PROVE PkgInv'
  <1>1. /\ pc = "taking" /\ todo = << >> /\ lock' = newLock /\ status' = "ok" /\ pc' = "idle" /\ newLock' = None
        /\ UNCHANGED <<remote, toml, deps, cmd, todo>> /\ UNCHANGED <<met, tips, netfail>>
    BY DEF Finish
  <1>2. TypeOK'
    BY <1>1, NoneFits DEF PkgInv, TypeOK
  <1>3. WorkFits'
    BY <1>1 DEF PkgInv, WorkFits, Installing
  <1>4. ClonesFit' /\ TipsFit'
    BY <1>1 DEF PkgInv, ClonesFit, TipsFit
  <1>5. Installing /\ ~Installing' /\ Result /\ Result' /\ ~Settling'
    BY <1>1 DEF Installing, Result, Settling
  <1>6. \A n \in Names : HeadOf(n)' = HeadOf(n) /\ PlaceOf(n)' = PlaceOf(n)
                         /\ ManifestOf(n)' = ManifestOf(n) /\ (Met(n)' <=> Met(n))
    BY <1>1 DEF HeadOf, PlaceOf, PlaceBy, ManifestOf, Met
  <1>7. TakenFits' /\ LockFits'
    BY <1>1, <1>5, <1>6 DEF PkgInv, TakenFits, LockFits, Records, Pin
  <1>8. MetOrWaiting' /\ Asked'
    BY <1>1, <1>5, <1>6 DEF PkgInv, MetOrWaiting, MetFrom, Waiting, Asked, AskedBy
  <1>9. Followed' /\ LockKept' /\ Settled'
    BY <1>1, <1>5, <1>6 DEF PkgInv, Followed, LockKept, Settled
  <1>10. Reached'
    <2>1. PICK h \in Seq(Views) : Course(h) /\ h[Len(h)] = View
      BY <1>5 DEF PkgInv, Reached
    <2>2. Course(h)' /\ View' = View
      BY <1>1, <2>1, CourseStays DEF Kept, View
    <2> QED
      BY <2>1, <2>2 DEF Reached
  <1> QED
    BY <1>2, <1>3, <1>4, <1>7, <1>8, <1>9, <1>10 DEF PkgInv

LEMMA ProgressInv == ASSUME PkgInv, Progress  PROVE PkgInv'
  <1>1. TakeConflict \/ TakeFolderFails \/ TakeCloneFails \/ NoVersion \/ NoManifest
        => Fail("conflict") \/ Fail("folder") \/ Fail("fetch") \/ Fail("noversion")
    BY DEF TakeConflict, TakeFolderFails, TakeCloneFails, NoVersion, NoManifest
  <1> QED
    BY <1>1, TakeKnownInv, TakeFolderInv, TakeCloneInv, TakeClonedInv, CheckoutInv, FailInv, FinishInv,
       UndoInv, RemoveInv DEF Progress

-----------------------------------------------------------------------------
(* What holds in every state *)

LEMMA InitInv == ASSUME Init  PROVE PkgInv
  <1>1. /\ remote = [u \in Urls |-> 1] /\ toml = None /\ lock = None /\ deps = None
        /\ pc = "idle" /\ cmd = Idle /\ cmd.kind = "none" /\ todo = << >> /\ met = None /\ newLock = None
        /\ status = "ok" /\ tips = remote /\ netfail = FALSE
    BY DEF Init, Idle
  <1>2. TypeOK
    BY <1>1, NoneFits, NothingWaits, Constants DEF TypeOK
  <1>3. WorkFits
    BY <1>1, <1>2 DEF WorkFits, TypeOK, Installing
  <1>4. ClonesFit /\ TipsFit
    BY <1>1, NoneFits DEF ClonesFit, TipsFit
  <1>5. \A n \in Names : ~Met(n) /\ lock[n] = Nothing /\ toml[n] = Nothing /\ met[n] = Nothing
    BY <1>1, NoneFits DEF Met
  <1>6. TakenFits /\ LockFits /\ MetOrWaiting /\ Followed /\ LockKept /\ Settled
    BY <1>1, <1>5 DEF TakenFits, LockFits, Records, MetOrWaiting, Followed, LockKept, Settled, Settling,
                      Installing
  <1>7. Asked
    BY <1>1, <1>5, NothingWaits DEF Asked
  <1>8. Reached
    <2>1. Wants(None, Root) = << >>
      <3>1. Wants(None, Root) \in Seq(Requirements) /\ ToSet(Wants(None, Root)) = {}
        BY NoneFits, WantsOf DEF Bases, Wanted
      <3> QED
        BY <3>1, Pop
    <2>2. PICK v : v = View
      OBVIOUS
    <2>3. v \in Views /\ v = [todo |-> Wants(toml, Root), met |-> None]
      BY <1>1, <2>1, <2>2, NoneFits, NothingWaits DEF Views, View
    <2>4. <<v>> \in Seq(Views) /\ Len(<<v>>) = 1 /\ <<v>>[1] = v /\ <<v>> # << >>
      BY <2>3
    <2>5. Course(<<v>>)
      BY <2>3, <2>4 DEF Course
    <2> QED
      BY <2>2, <2>4, <2>5 DEF Reached
  <1> QED
    BY <1>2, <1>3, <1>4, <1>6, <1>7, <1>8 DEF PkgInv

LEMMA NextInv == ASSUME PkgInv, [Next]_vars  PROVE PkgInv'
  <1>1. CASE Command
    BY <1>1, CommandInv
  <1>2. CASE Progress
    BY <1>2, ProgressInv
  <1>3. CASE Around
    BY <1>3, PushInv, EditsInv, KilledInv DEF Around
  <1>4. CASE UNCHANGED vars
    BY <1>4, PushInv
  <1> QED
    BY <1>1, <1>2, <1>3, <1>4 DEF Next

\* The inductive invariant: the types, what the lock being built records, what
\* has been met or waits to be and who asks for it, and, for an install after
\* one that ended well, that it goes the way that one went.
THEOREM Inductive == Spec => []PkgInv
  <1>1. Init => PkgInv
    BY InitInv
  <1>2. PkgInv /\ [Next]_vars => PkgInv'
    BY NextInv
  <1> QED
    BY <1>1, <1>2, PTL DEF Spec

\* write_lock records what is checked out.
THEOREM LockRecordsCheckouts == Spec => []LockIsCheckout
  <1>1. PkgInv => LockIsCheckout
    <2> SUFFICES ASSUME PkgInv, status = "ok", NEW n \in Names, lock[n] # Nothing
                 PROVE  deps[n] # Nothing /\ lock[n].commit = HeadOf(n)
      BY DEF LockIsCheckout, HeadOf
    <2>1. met[n] # Nothing /\ met[n].src.kind = "git" /\ lock[n] = Pin(met, n)
      BY DEF PkgInv, LockFits, Records
    <2> QED
      BY <2>1 DEF Pin, PkgInv, TakenFits, Result, Met
  <1> QED
    BY <1>1, Inductive, PTL

\* An install that ended well has met every requirement.
LEMMA AllMet ==
  ASSUME PkgInv, status = "ok", NEW n \in Names
  PROVE  /\ toml[n] # Nothing => MetFrom(n, toml[n])
         /\ Met(n) => /\ PlaceOf(n) \in Commits \cup Folders
                      /\ AskedBy(n, met[n].src, met[n].base)
                      /\ \A m \in Names : ManifestOf(n)[m] # Nothing => MetFrom(m, ManifestOf(n)[m])
  <1>1. Result /\ \A m, s, b : ~Waiting(m, s, b)
    BY NothingWaits DEF Result, Waiting, PkgInv, WorkFits
  <1>2. MetOrWaiting /\ Asked /\ TakenFits
    BY DEF PkgInv
  <1> QED
    BY <1>1, <1>2 DEF MetOrWaiting, Asked, TakenFits

\* install_all leaves no requirement of anything installed unmet, and none that is
\* met from another repository or by another path than the one written, wherever
\* the path leads from the manifest that it is written in; and what it
\* installs is asked for, revision included, by siskin.toml or by something
\* that is installed, whichever commits were checked out meanwhile.
THEOREM RequirementsMet == Spec => []Closed
  <1>1. PkgInv => Closed
    BY AllMet DEF Closed
  <1> QED
    BY <1>1, Inductive, PTL

\* "If the same name would be fetched from different places, you're told" (GUIDE.md:1893)
\* is true of every project in which a path leads to the same folder whichever
\* manifest it is written in: comparing paths as they are written (pkg.rs:330)
\* is enough there, and only there.
THEOREM PlacesAgree ==
  ASSUME \A b, c \in Bases, p \in Paths : Lands[b][p] = Lands[c][p]
  PROVE  Spec => []SamePlaces
  <1>1. ASSUME PkgInv, NEW n \in Names, NEW s \in Sources, MetFrom(n, s), s.kind = "path", NEW b \in Bases
        PROVE  PlaceOf(n) = Lands[b][s.at]
    <2>1. met[n] # Nothing /\ met[n].src.kind = "path" /\ met[n].src.at = s.at /\ met[n].base \in Bases
      BY <1>1, TakingFields DEF MetFrom, Met, PkgInv, TypeOK
    <2>2. PlaceOf(n) = Lands[met[n].base][s.at]
      BY <2>1 DEF PlaceOf, PlaceBy, Folder
    <2> QED
      BY <1>1, <2>1, <2>2, SourceFields
  <1>2. PkgInv => SamePlaces
    <2> SUFFICES ASSUME PkgInv, status = "ok", NEW m \in Names
                 PROVE  /\ toml[m] # Nothing /\ toml[m].kind = "path" => PlaceOf(m) = Lands[Root][toml[m].at]
                        /\ \A n \in Names :
                             Met(n) /\ ManifestOf(n)[m] # Nothing /\ ManifestOf(n)[m].kind = "path"
                             => PlaceOf(m) = Lands[PlaceOf(n)][ManifestOf(n)[m].at]
      BY DEF SamePlaces
    <2>1. ASSUME toml[m] # Nothing, toml[m].kind = "path"  PROVE PlaceOf(m) = Lands[Root][toml[m].at]
      <3>1. toml[m] \in Sources /\ MetFrom(m, toml[m]) /\ Root \in Bases
        BY <2>1, AllMet DEF PkgInv, TypeOK, Manifests, Bases
      <3> QED
        BY <1>1, <2>1, <3>1
    <2>2. ASSUME NEW n \in Names, Met(n), ManifestOf(n)[m] # Nothing, ManifestOf(n)[m].kind = "path"
          PROVE  PlaceOf(m) = Lands[PlaceOf(n)][ManifestOf(n)[m].at]
      <3>1. MetFrom(m, ManifestOf(n)[m]) /\ PlaceOf(n) \in Bases
        BY <2>2, AllMet, Constants
      <3>2. ManifestOf(n)[m] \in Sources
        BY <2>2 DEF PkgInv, TakenFits, Result, Manifests
      <3> QED
        BY <1>1, <2>2, <3>1, <3>2
    <2> QED
      BY <2>1, <2>2
  <1> QED
    BY <1>2, Inductive, PTL

\* update leaves a package with a tag at that tag, and, if every fetch of it
\* succeeded, none without a revision before the tip that its repository had when
\* the command began, although repositories move on all the while; a clone
\* of another repository than the one required is not spoken of.
THEOREM UpdatesReachTips == Spec => []UpdateFollowsTip
  <1>1. PkgInv => UpdateFollowsTip
    BY DEF PkgInv, Followed, UpdateFollowsTip, Result
  <1> QED
    BY <1>1, Inductive, PTL

\* install and add write for every package that was locked, if it is still
\* taken from the same place, what was locked.
THEOREM LockIsObeyed == Spec => LockObeyed
  <1>1. PkgInv /\ Finish /\ cmd.kind # "update" =>
          \A n \in Names : /\ lock[n] # Nothing /\ lock'[n] # Nothing
                           /\ lock[n].url = lock'[n].url
                           /\ ~(cmd.kind = "add" /\ cmd.name = n)
                           => lock'[n] = lock[n]
    BY DEF PkgInv, LockKept, Finish, Installing
  <1> QED
    BY <1>1, Inductive, PTL DEF LockObeyed

-----------------------------------------------------------------------------
(* An install after one that ended well *)

Quiet ==
  /\ status' \in {"busy", "ok", "killed"}
  /\ lock' = lock
  /\ \A n \in Names : deps[n] # Nothing => deps'[n].at = deps[n].at

LEMMA SettlingNow ==
  ASSUME PkgInv, Settling
  PROVE  Installing /\ pc \in {"taking", "checkout"} /\ status = "busy" /\ cmd.kind = "install"
  BY DEF PkgInv, WorkFits, Settled, Settling, Installing

LEMMA SettledTakes ==
  ASSUME PkgInv, Settling,
         \/ TakeKnown \/ TakeConflict \/ TakeFolder \/ TakeFolderFails
         \/ TakeClone \/ TakeCloneFails \/ TakeCloned
  PROVE  Quiet
  <1>1. todo # << >> /\ status = "busy"
    BY SettlingNow DEF TakeKnown, TakeConflict, TakeFolder, TakeFolderFails, TakeClone, TakeCloneFails,
                       TakeCloned, New, Take
  <1>2. PICK x \in Names, s \in Sources : x = Item.name /\ s = Item.src
    BY <1>1, Top
  <1>3. ~TakeConflict
    BY <1>1, <1>2, SettledNext DEF TakeConflict, Met
  <1>4. ~TakeFolderFails /\ ~TakeClone /\ ~TakeCloneFails
    BY <1>1, <1>2, SettledNext DEF TakeFolderFails, TakeClone, TakeCloneFails, New, Met
  <1>5. CASE TakeKnown \/ TakeFolder
    <2>1. UNCHANGED <<lock, deps, status>>
      BY <1>5 DEF TakeKnown, TakeFolder, files
    <2> QED
      BY <1>1, <2>1 DEF Quiet
  <1>6. CASE TakeCloned
    <2>1. UNCHANGED <<lock, status>>
      BY <1>6 DEF TakeCloned, ToCheckout
    <2>2. ASSUME NEW n \in Names, deps[n] # Nothing  PROVE deps'[n].at = deps[n].at
      <3>1. CASE UNCHANGED deps
        BY <3>1
      <3>2. CASE deps' = [deps EXCEPT ![x].seen = remote[deps[x].origin]]
        <4>1. deps[x] \in Clones
          BY <1>2, <1>6 DEF TakeCloned, PkgInv, TypeOK
        <4>2. [deps[x] EXCEPT !.seen = remote[deps[x].origin]].at = deps[x].at
          BY <4>1 DEF Clones
        <4>3. deps' = [deps EXCEPT ![x] = [deps[x] EXCEPT !.seen = remote[deps[x].origin]]]
          BY <3>2
        <4> QED
          BY <4>2, <4>3 DEF PkgInv, TypeOK
      <3> QED
        BY <1>2, <1>6, <3>1, <3>2 DEF TakeCloned, Fetch
    <2> QED
      BY <1>1, <2>1, <2>2 DEF Quiet
  <1> QED
    BY <1>3, <1>4, <1>5, <1>6

LEMMA SettledCheckouts == ASSUME PkgInv, Settling, Checkout \/ NoVersion  PROVE Quiet
  <1>1. /\ pc = "checkout" /\ status = "busy" /\ cmd.kind = "install"
        /\ todo # << >> /\ Item.src.kind = "git" /\ met[Item.name] = Nothing
    BY SettlingNow DEF Checkout, NoVersion, PkgInv, WorkFits, Met
  <1>2. PICK x \in Names, s \in Sources : x = Item.name /\ s = Item.src
    BY <1>1, Top
  <1>3. deps[x] # Nothing /\ deps[x] \in Clones /\ lock[x] = [url |-> s.at, commit |-> HeadOf(x)]
    BY <1>1, <1>2, SettledNext DEF PkgInv, TypeOK
  <1>4. /\ HeadOf(x) \in Commits /\ HeadOf(x) # Nothing
        /\ HeadOf(x).repo = deps[x].origin /\ HeadOf(x).n = deps[x].at
    BY <1>3, Constants DEF HeadOf, Commits, Clones
  <1>5. lock[x] # Nothing /\ lock[x].url = s.at /\ lock[x].commit = HeadOf(x)
    <2>1. [url |-> s.at, commit |-> HeadOf(x)] \in Pins
      BY <1>1, <1>2, <1>4, SourceFields DEF Pins
    <2> QED
      BY <1>3, <2>1, Constants
  <1>6. Locked(Item) = HeadOf(x) /\ Locked(Item) # Nothing
    BY <1>1, <1>2, <1>4, <1>5 DEF Locked
  <1>7. ~NoVersion
    <2>1. Target(Item) = [by |-> "lock", commit |-> HeadOf(x)]
      BY <1>1, <1>6 DEF Target
    <2>2. deps[x].at \in 1..deps[x].seen
      BY <1>3, Constants DEF PkgInv, ClonesFit, Clones
    <2>3. deps[x].at \in Resolve(Target(Item), deps[x])
      BY <1>4, <2>1, <2>2 DEF Resolve
    <2> QED
      BY <1>2, <2>3 DEF NoVersion
  <1>8. PICK c \in Clones, k \in 1..MaxCommit, f \in BOOLEAN :
           /\ Left(x, s, c, k, f)
           /\ c.origin = deps[x].origin /\ c.at = k /\ c.at <= c.seen /\ c.trunk <= c.seen
           /\ c.seen <= remote[c.origin]
           /\ netfail => f
           /\ cmd.kind = "update" /\ s.rev = NoRev /\ ~f => k = remote[c.origin]
           /\ cmd.kind = "update" /\ s.rev \in 1..MaxCommit => k = s.rev
           /\ cmd.kind # "update" /\ Locked(Item) # Nothing => Locked(Item) = [repo |-> c.origin, n |-> k]
    BY <1>2, <1>7, CheckoutDoes, Zenon
  <1>9. c.at = deps[x].at
    BY <1>1, <1>4, <1>6, <1>8
  <1>10. deps' = [deps EXCEPT ![x] = c] /\ UNCHANGED <<lock, status>>
    BY <1>7, <1>8 DEF Left, Checkout
  <1>11. \A n \in Names : deps[n] # Nothing => deps'[n].at = deps[n].at
    BY <1>9, <1>10 DEF PkgInv, TypeOK
  <1> QED
    BY <1>1, <1>10, <1>11 DEF Quiet

LEMMA SettledFinish == ASSUME PkgInv, Settling, Finish  PROVE Quiet
  <1>1. /\ pc = "taking" /\ todo = << >> /\ lock' = newLock /\ status' = "ok" /\ UNCHANGED deps
        /\ Installing
    BY DEF Finish, Installing
  <1>2. PICK h \in Seq(Views) : Complete(h) /\ \E i \in 1..Len(h) : h[i] = View
    BY DEF PkgInv, Settled
  <1>3. PICK i \in 1..Len(h) : h[i] = View
    BY <1>2
  <1>4. i = Len(h)
    <2>1. SUFFICES ASSUME i # Len(h)  PROVE FALSE
      OBVIOUS
    <2>2. i \in 1..Len(h) - 1
      BY <1>3, <2>1, HasViews
    <2>3. Turn(View, h[i + 1])
      BY <1>2, <1>3, <2>2 DEF Complete, Course
    <2> QED
      BY <1>1, <2>3 DEF Turn, View
  <1>5. Records(lock, met) /\ Records(newLock, met)
    BY <1>1, <1>2, <1>3, <1>4 DEF Complete, View, PkgInv, LockFits
  <1>6. \A n \in Names : newLock[n] = lock[n]
    BY <1>5 DEF Records
  <1>7. newLock = lock
    BY <1>6 DEF PkgInv, TypeOK, Locks
  <1> QED
    BY <1>1, <1>7 DEF Quiet

\* An install right after a command that installed changes neither the lock nor
\* a checkout, and cannot fail: not on a conflict, a folder, a clone or a version.
THEOREM InstallIsSettled == Spec => InstallSettles
  <1>1. ASSUME PkgInv, Settling, Next  PROVE Quiet
    <2>1. pc \in {"taking", "checkout"} /\ status = "busy"
      BY <1>1, SettlingNow
    <2>2. ~Command /\ ~Undo /\ ~RemoveFolder /\ ~RemoveLock /\ ~NoManifest
      BY <2>1 DEF Command, Install, Update, Add, Begin, RemoveDep, RemoveFolder, RemoveLock, Undo, NoManifest
    <2>3. CASE Around
      <3>1. \A n \in Names : ~Pull(n) /\ \A s \in Offers : ~Edit(n, s)
        BY <2>1 DEF Pull, Edit, Edited
      <3>2. ~OtherComputer
        BY <2>1 DEF OtherComputer, Edited
      <3>3. UNCHANGED <<lock, deps>> /\ status' \in {"busy", "killed"}
        BY <2>1, <2>3, <3>1, <3>2 DEF Around, Push, Killed, files
      <3> QED
        BY <3>3 DEF Quiet
    <2>4. CASE Progress
      BY <1>1, <2>2, <2>4, SettledTakes, SettledCheckouts, SettledFinish DEF Progress
    <2> QED
      BY <1>1, <2>2, <2>3, <2>4 DEF Next
  <1>2. PkgInv /\ [Next]_vars =>
          [Settling =>
             /\ status' \in {"busy", "ok", "killed"}
             /\ lock' = lock
             /\ \A n \in Names : deps[n] # Nothing => deps'[n].at = deps[n].at]_vars
    BY <1>1 DEF Quiet
  <1> QED
    BY <1>2, Inductive, PTL DEF Spec, InstallSettles

-----------------------------------------------------------------------------
(* Commands end *)

\* The load of an install: the requirements that wait, and for every name that
\* has not been met, itself and as many as there are names.  A requirement takes
\* up to two steps, and after the last one there may be two more.
Most == Cardinality(Names)
Unmet == {n \in Names : met[n] = Nothing}
Load == Cardinality(Unmet) * (Most + 2) + Len(todo)
WorkLeft ==
  IF pc \in {"undoing", "unlocking"} THEN 1
  ELSE IF pc \in {"removing", "unreadable"} THEN 2
  ELSE IF pc = "checkout" THEN 2 * Load + 2 ELSE 2 * Load + 3
Nearer == WorkLeft \in Nat /\ WorkLeft' \in Nat /\ WorkLeft' < WorkLeft

\* A manifest asks for no name twice.
LEMMA FewWants ==
  ASSUME NEW m \in Manifests, NEW b \in Bases
  PROVE  Len(Wants(m, b)) \in 0..Most /\ Most \in Nat
  <1>1. Keys(m) \in SUBSET Names
    BY DEF Keys
  <1>2. IsFiniteSet(Keys(m)) /\ Cardinality(Keys(m)) \in Nat /\ Cardinality(Keys(m)) <= Most /\ Most \in Nat
    BY <1>1, Places, FS_Subset, FS_CardinalityType DEF Most
  <1>3. DOMAIN Wants(m, b) = 1..Cardinality(Keys(m))
    BY DEF Wants
  <1>4. Wants(m, b) \in Seq(Requirements)
    BY WantsOf
  <1>5. Len(Wants(m, b)) = Cardinality(Keys(m))
    BY <1>2, <1>3, <1>4, LenProperties
  <1> QED
    BY <1>2, <1>5

\* The load is a number, which its parts decide.
LEMMA Loads ==
  ASSUME PkgInv
  PROVE  /\ Cardinality(Unmet) \in Nat /\ Most \in Nat /\ Len(todo) \in Nat
         /\ Load \in Nat /\ Load >= Len(todo) /\ (todo # << >> => Load >= 1)
  <1>1. Unmet \in SUBSET Names /\ todo \in Seq(Requirements)
    BY DEF Unmet, PkgInv, TypeOK
  <1>2. Cardinality(Unmet) \in Nat /\ Most \in Nat
    BY <1>1, Places, FS_Subset, FS_CardinalityType DEF Most
  <1>3. Len(todo) \in Nat /\ (todo # << >> => Len(todo) > 0)
    BY <1>1, LenProperties, Pop
  <1>4. \A u, N \in Nat : u * (N + 2) \in Nat
    BY Z3
  <1>5. Cardinality(Unmet) * (Most + 2) \in Nat
    BY <1>2, <1>4
  <1> QED
    BY <1>2, <1>3, <1>5 DEF Load

\* Meeting a name lightens the load, whatever it asks for.
LEMMA MeetLoad ==
  ASSUME PkgInv, todo # << >>, ~Met(Item.name),
         NEW b \in Commits \cup Folders, Manifest[b] \in Manifests, Meet(b)
  PROVE  Load' \in Nat /\ Load' < Load
  <1> DEFINE u == Cardinality(Unmet)
             l == Len(todo)
  <1>1. Item.name \in Unmet /\ IsFiniteSet(Unmet)
    <2>1. Unmet \in SUBSET Names
      BY DEF Unmet
    <2> QED
      BY <2>1, Top, Places, FS_Subset DEF Unmet, Met
  <1>2. Unmet' = Unmet \ {Item.name}
    <2>1. PICK x \in Names, t \in Takings : Item.name = x /\ [src |-> Item.src, base |-> Item.base] = t
      BY Top DEF Takings
    <2>2. met' = [met EXCEPT ![x] = t] /\ met \in Mets /\ t # Nothing
      BY <2>1, Constants DEF Meet, PkgInv, TypeOK
    <2> QED
      BY <2>1, <2>2 DEF Unmet, Mets
  <1>3. Cardinality(Unmet') = u - 1 /\ Cardinality(Unmet') \in Nat
    BY <1>1, <1>2, FS_RemoveElement, FS_CardinalityType, FS_Subset
  <1>4. Len(todo') \in l - 1..l - 1 + Most /\ l \in Nat /\ l > 0
    <2>1. PICK m \in Manifests : m = Manifest[b]
      OBVIOUS
    <2>2. b \in Bases /\ todo \in Seq(Requirements)
      BY Constants DEF PkgInv, TypeOK
    <2>3. Wants(m, b) \in Seq(Requirements) /\ Len(Wants(m, b)) \in 0..Most /\ Most \in Nat
      BY <2>2, WantsOf, FewWants
    <2>4. Front(todo) \in Seq(Requirements) /\ Len(Front(todo)) = l - 1 /\ l \in Nat /\ l > 0
      BY <2>2, Pop, LenProperties
    <2>5. Len(todo') = Len(Front(todo)) + Len(Wants(m, b))
      BY <2>1, <2>3, <2>4, ConcatProperties DEF Meet
    <2> QED
      BY <2>3, <2>4, <2>5
  <1>5. Most' = Most /\ Most \in Nat /\ u \in Nat
    BY Loads DEF Most
  <1>6. PICK U \in Nat, V \in Nat, L \in Nat, M \in Nat, N \in Nat :
          U = u /\ V = Cardinality(Unmet') /\ L = l /\ M = Len(todo') /\ N = Most
    <2>1. Len(todo') \in Nat
      BY <1>4, <1>5
    <2> QED
      BY <1>3, <1>4, <1>5, <2>1, Zenon
  <1>7. V = U - 1 /\ M <= L - 1 + N
    BY <1>3, <1>4, <1>5, <1>6
  <1>8. Load = U * (N + 2) + L /\ Load' = V * (N + 2) + M
    BY <1>5, <1>6 DEF Load
  <1>9. U * (N + 2) = V * (N + 2) + (N + 2) /\ V * (N + 2) \in Nat
    <2>1. \A v, n \in Nat : v * (n + 2) \in Nat /\ (v + 1) * (n + 2) = v * (n + 2) + (n + 2)
      BY Z3
    <2>2. U = V + 1
      BY <1>7
    <2> QED
      BY <2>1, <2>2
  <1>10. PICK X \in Nat : X = V * (N + 2)
    BY <1>9
  <1>11. Load = X + (N + 2) + L /\ Load' = X + M
    BY <1>8, <1>9, <1>10
  <1> QED
    BY <1>7, <1>11

\* Less load is less work left.
LEMMA Lighter ==
  ASSUME Load \in Nat, Load' \in Nat, Load' < Load, pc' = "taking",
         WorkLeft \in {2 * Load + 2, 2 * Load + 3}
  PROVE  Nearer
  <1>1. PICK a \in Nat, b \in Nat : a = Load /\ b = Load'
    OBVIOUS
  <1>2. WorkLeft \in {2 * a + 2, 2 * a + 3} /\ b < a
    BY <1>1
  <1>3. WorkLeft' = 2 * b + 3
    BY <1>1 DEF WorkLeft
  <1> QED
    BY <1>2, <1>3 DEF Nearer

\* A turn of the loop.
LEMMA TakesEnd ==
  ASSUME PkgInv, TakeKnown \/ TakeFolder \/ TakeClone \/ TakeCloned
  PROVE  Nearer
  <1>1. pc = "taking" /\ todo # << >> /\ todo \in Seq(Requirements)
    BY DEF TakeKnown, TakeFolder, TakeClone, TakeCloned, New, Take, PkgInv, TypeOK
  <1>2. Load \in Nat /\ WorkLeft = 2 * Load + 3
    BY <1>1, Loads DEF WorkLeft
  <1>3. CASE TakeKnown
    <2>1. todo' = Front(todo) /\ pc' = pc /\ Unmet' = Unmet /\ Most' = Most
      BY <1>3 DEF TakeKnown, Unmet, Most
    <2>2. Len(todo') = Len(todo) - 1 /\ Len(todo) > 0
      BY <1>1, <2>1, Pop
    <2>3. PICK X \in Nat : X = Cardinality(Unmet) * (Most + 2)
      <3>1. Cardinality(Unmet) * (Most + 2) \in Nat
        <4>1. \A u, N \in Nat : u * (N + 2) \in Nat
          BY Z3
        <4> QED
          BY <4>1, Loads
      <3> QED
        BY <3>1
    <2>4. Load = X + Len(todo) /\ Load' = X + Len(todo')
      BY <2>1, <2>3 DEF Load
    <2>5. Load' \in Nat /\ Load' < Load
      BY <2>2, <2>3, <2>4, Loads
    <2> QED
      BY <1>1, <1>2, <2>1, <2>5, Lighter
  <1>4. CASE TakeFolder
    <2>1. /\ ~Met(Item.name) /\ Item.src.kind = "path" /\ pc' = pc /\ Meet(Folder(Item))
          /\ Folder(Item) # Nothing /\ Manifest[Folder(Item)] # Unreadable
      BY <1>4 DEF TakeFolder, New
    <2>2. Item.base \in Bases /\ Item.src.at \in Paths
      BY <1>1, <2>1, Top, SourceFields
    <2>3. PICK b \in Commits \cup Folders : b = Folder(Item) /\ Manifest[b] \in Manifests
      BY <2>1, <2>2, Constants DEF Folder
    <2>4. Load' \in Nat /\ Load' < Load
      BY <1>1, <2>1, <2>3, MeetLoad
    <2> QED
      BY <1>1, <1>2, <2>1, <2>4, Lighter
  <1>5. CASE TakeClone \/ TakeCloned
    <2>1. pc' = "checkout" /\ Load' = Load
      BY <1>5 DEF TakeClone, TakeCloned, ToCheckout, work, Load, Unmet, Most
    <2> QED
      BY <1>2, <2>1 DEF Nearer, WorkLeft
  <1> QED
    BY <1>3, <1>4, <1>5

LEMMA CheckoutsEnd == ASSUME PkgInv, Checkout  PROVE Nearer
  <1>1. pc = "checkout" /\ todo # << >> /\ ~Met(Item.name)
    BY DEF Checkout, PkgInv, WorkFits
  <1>2. Item.name \in Names /\ Item.src \in Sources
    BY <1>1, Top
  <1>3. PICK x \in Names, s \in Sources : Item.name = x /\ Item.src = s
    BY <1>2
  <1>4. PICK c \in Clones, k \in 1..MaxCommit, f \in BOOLEAN : Left(x, s, c, k, f)
    BY <1>3, CheckoutDoes
  <1>5. PICK b \in Commits : b = [repo |-> c.origin, n |-> k]
    BY DEF Commits, Clones
  <1>6. Load \in Nat /\ Load >= 1 /\ WorkLeft = 2 * Load + 2
    BY <1>1, Loads DEF WorkLeft
  <1>7. CASE Manifest[b] # Unreadable /\ Meet(b) /\ pc' = "taking"
    <2>1. Manifest[b] \in Manifests
      BY <1>7, Constants
    <2>2. Load' \in Nat /\ Load' < Load
      BY <1>1, <1>7, <2>1, MeetLoad
    <2> QED
      BY <1>6, <1>7, <2>2, Lighter
  <1>8. CASE pc' = "unreadable"
    BY <1>6, <1>8 DEF Nearer, WorkLeft
  <1> QED
    BY <1>4, <1>5, <1>7, <1>8 DEF Left

\* While a command runs, each step ends it, or leaves less work, which is a
\* number, or is somebody's push, which leaves the same work: a command takes
\* finitely many steps, whatever packages require each other.
THEOREM CommandsEnd ==
  Spec => [][pc # "idle" => \/ pc' = "idle" \/ Nearer
                            \/ \E u \in Urls : Push(u) /\ WorkLeft' = WorkLeft]_vars
  <1>1. ASSUME PkgInv, pc # "idle", Next
        PROVE  \/ pc' = "idle" \/ Nearer
               \/ \E u \in Urls : Push(u) /\ WorkLeft' = WorkLeft
    <2>1. ~Command
      BY <1>1 DEF Command, Install, Update, Add, Begin, RemoveDep
    <2>2. CASE Around
      <3>1. /\ \A n \in Names : ~Pull(n) /\ \A s \in Offers : ~Edit(n, s)
            /\ ~OtherComputer
        BY <1>1 DEF Pull, Edit, OtherComputer, Edited
      <3>2. Killed => pc' = "idle"
        BY DEF Killed
      <3>3. ASSUME NEW u \in Urls, Push(u)  PROVE WorkLeft' = WorkLeft
        BY <3>3 DEF Push, work, WorkLeft, Load, Unmet, Most
      <3> QED
        BY <2>2, <3>1, <3>2, <3>3 DEF Around
    <2>3. CASE Finish \/ Undo \/ RemoveLock
      BY <2>3 DEF Finish, Undo, RemoveLock
    <2>4. CASE TakeConflict \/ TakeFolderFails \/ TakeCloneFails \/ NoVersion \/ NoManifest
      <3>1. pc \in {"taking", "checkout", "unreadable"} /\ pc' \in {"idle", "undoing"}
        BY <2>4 DEF TakeConflict, TakeFolderFails, TakeCloneFails, New, Take, NoVersion, NoManifest, Fail
      <3>2. Load \in Nat
        BY <1>1, Loads
      <3> QED
        BY <3>1, <3>2 DEF Nearer, WorkLeft
    <2>5. CASE RemoveFolder
      BY <2>5 DEF RemoveFolder, Nearer, WorkLeft
    <2>6. CASE TakeKnown \/ TakeFolder \/ TakeClone \/ TakeCloned
      BY <1>1, <2>6, TakesEnd
    <2>7. CASE Checkout
      BY <1>1, <2>7, CheckoutsEnd
    <2> QED
      BY <1>1, <2>1, <2>2, <2>3, <2>4, <2>5, <2>6, <2>7 DEF Next, Progress
  <1>2. PkgInv /\ [Next]_vars =>
          [pc # "idle" => \/ pc' = "idle" \/ Nearer
                          \/ \E u \in Urls : Push(u) /\ WorkLeft' = WorkLeft]_vars
    BY <1>1
  <1> QED
    BY <1>2, Inductive, PTL DEF Spec
=============================================================================
