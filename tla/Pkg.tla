-------------------------------- MODULE Pkg --------------------------------
(***************************************************************************)
(* The package manager, pkg.rs: the commands add, install, update and       *)
(* remove over siskin.toml, siskin.lock and the checkouts in .siskin/deps.  *)
(* One action is one step that leaves something on disk, so that the        *)
(* process can be killed, and repositories can move on, between any two.    *)
(*                                                                         *)
(* A repository is a line of commits 1..n whose last one is its default     *)
(* branch, "trunk"; the tag k is on commit k.  What is in a folder never    *)
(* changes.  A path means the folder it leads to from where its manifest    *)
(* lies; for a manifest in a clone that is told by the commit, so no path   *)
(* leads from one clone into another.  siskin.toml itself can be read,      *)
(* writing files does not fail, and no checkout has edits of its own.       *)
(***************************************************************************)
EXTENDS Naturals, Sequences, FiniteSets, SequencesExt

CONSTANTS NameOrder,   \* the package names, in the order of a BTreeMap
          Urls,        \* git repositories
          Folders,     \* folders that exist
          Paths,       \* paths as they are written
          MaxCommit,   \* bound: commits of a repository
          MaxMoves,    \* bound: commands and edits of a run
          Offers,      \* the sources that users write
          Root,        \* the folder of the project
          Lands,       \* Lands[b][p]: the folder of path p written at b
          Manifest,    \* the dependencies a commit or a folder lists
          Nothing, NoRev, Trunk, Unreadable

Names == ToSet(NameOrder)
Commits == [repo : Urls, n : 1..MaxCommit]
Bases == {Root} \cup Folders \cup Commits
Sources == [kind : {"git"}, at : Urls, rev : {NoRev, Trunk} \cup 1..MaxCommit]
             \cup [kind : {"path"}, at : Paths, rev : {NoRev}]
Manifests == [Names -> Sources \cup {Nothing}]
Pins == [url : Urls, commit : Commits]
Locks == [Names -> Pins \cup {Nothing}]
Clones == [origin : Urls, seen : 1..MaxCommit, trunk : 1..MaxCommit, at : 1..MaxCommit]
Requirements == [name : Names, src : Sources, base : Bases]
Takings == [src : Sources, base : Bases]
Mets == [Names -> Takings \cup {Nothing}]

ASSUME PkgAssumption ==
  /\ NameOrder \in Seq(Names) /\ IsInjective(NameOrder)
  /\ MaxCommit \in Nat \ {0} /\ MaxMoves \in Nat
  /\ Nothing \notin Sources \cup Clones \cup Pins \cup Commits \cup Folders \cup Takings
  /\ Unreadable \notin Manifests
  /\ NoRev # Trunk /\ NoRev \notin 1..MaxCommit /\ Trunk \notin 1..MaxCommit
  /\ Offers \subseteq Sources
  /\ Lands \in [Bases -> [Paths -> Folders \cup {Nothing}]]
  /\ Manifest \in [Commits \cup Folders -> Manifests \cup {Unreadable}]

VARIABLES remote,    \* remote[u]: the last commit of u
          toml,      \* [dependencies] of siskin.toml
          lock,      \* siskin.lock
          deps,      \* deps[n]: the clone in .siskin/deps/n
          pc, cmd,   \* where the command is, and which one
          todo,      \* `queue`: a stack of requirements
          met,       \* `done`: what each name was taken from, and for whom
          newLock,   \* the lock being built
          status,    \* how the last command or edit ended
          tips,      \* `remote` when the command began
          netfail,   \* has a `git fetch` of the command failed?
          moves

files == <<toml, lock, deps>>
work == <<todo, met, newLock>>
vars == <<remote, files, pc, cmd, work, status, tips, netfail, moves>>

None == [n \in Names |-> Nothing]
Idle == [kind |-> "none", name |-> Nothing, saved |-> None, hadDir |-> FALSE, settled |-> FALSE]

Init ==
  /\ remote = [u \in Urls |-> 1]
  /\ toml = None /\ lock = None /\ deps = None
  /\ pc = "idle" /\ cmd = Idle
  /\ todo = << >> /\ met = None /\ newLock = None
  /\ status = "ok" /\ tips = remote /\ netfail = FALSE
  /\ moves = MaxMoves

\* What the manifest m at b asks for, in the order of its BTreeMap: install_all
\* pushes it so.
Place(n) == CHOOSE i \in DOMAIN NameOrder : NameOrder[i] = n
InOrder(q) == \A i, j \in DOMAIN q : i < j => Place(q[i]) < Place(q[j])
Keys(m) == {n \in Names : m[n] # Nothing}
Listed(m) == CHOOSE q \in [1..Cardinality(Keys(m)) -> Keys(m)] : InOrder(q)
Wants(m, b) ==
  [i \in 1..Cardinality(Keys(m)) |-> [name |-> Listed(m)[i], src |-> m[Listed(m)[i]], base |-> b]]

-----------------------------------------------------------------------------
(* Commands *)

Begin(kind, n, m, hadDir) ==
  /\ pc = "idle" /\ moves > 0
  /\ moves' = moves - 1
  /\ pc' = "taking"
  /\ cmd' = [kind |-> kind, name |-> n, saved |-> toml, hadDir |-> hadDir,
             settled |-> status = "ok"]
  /\ toml' = m
  /\ todo' = Wants(m, Root)
  /\ met' = None /\ newLock' = None
  /\ tips' = remote /\ netfail' = FALSE
  /\ status' = "busy"
  /\ UNCHANGED <<remote, lock, deps>>

Install == Begin("install", Nothing, toml, FALSE)
Update == Begin("update", Nothing, toml, FALSE)
\* A folder that add is given exists: what is no folder is taken for a repository.
Add(n, s) ==
  /\ s.kind = "path" => Lands[Root][s.at] # Nothing
  /\ Begin("add", n, [toml EXCEPT ![n] = s], deps[n] # Nothing)

\* The command gives up.  add puts siskin.toml back first ...
Fail(code) ==
  /\ status' = code
  /\ todo' = << >> /\ met' = None /\ newLock' = None
  /\ \/ /\ cmd.kind = "add"
        /\ toml' = cmd.saved
        /\ pc' = "undoing" /\ UNCHANGED cmd
     \/ /\ cmd.kind # "add"
        /\ pc' = "idle" /\ cmd' = Idle /\ UNCHANGED toml
  /\ UNCHANGED <<remote, lock, deps, tips, netfail, moves>>

\* ... and then removes the folder of the new package if there was none before.
Undo ==
  /\ pc = "undoing"
  /\ deps' = IF cmd.hadDir THEN deps ELSE [deps EXCEPT ![cmd.name] = Nothing]
  /\ pc' = "idle" /\ cmd' = Idle
  /\ UNCHANGED <<remote, toml, lock, work, status, tips, netfail, moves>>

-----------------------------------------------------------------------------
(* install_all: one turn of its loop is Take*, for git then Checkout.  A     *)
(* requirement stays on the stack until its turn is over, since nothing       *)
(* reads the stack or `done` within a turn.                                  *)

Item == Last(todo)
\* Mutants: a name is never known; two git sources always agree.
MetNever(n) == FALSE
Met(n) == met[n] # Nothing
SameKind(a, b) == a.kind = b.kind
SameSource(a, b) == a.kind = b.kind /\ a.at = b.at

Take ==
  /\ pc = "taking" /\ todo # << >>

TakeKnown ==
  /\ Take /\ Met(Item.name) /\ SameSource(met[Item.name].src, Item.src)
  /\ todo' = Front(todo)
  /\ UNCHANGED <<remote, files, pc, cmd, met, newLock, status, tips, netfail, moves>>

TakeConflict ==
  /\ Take /\ Met(Item.name) /\ ~SameSource(met[Item.name].src, Item.src)
  /\ Fail("conflict")

New(kind) == Take /\ ~Met(Item.name) /\ Item.src.kind = kind

\* The package is at b, where its own requirements are read.
Meet(b) ==
  /\ met' = [met EXCEPT ![Item.name] = [src |-> Item.src, base |-> Item.base]]
  /\ todo' = Front(todo) \o Wants(Manifest[b], b)

Folder(it) == Lands[it.base][it.src.at]

TakeFolder ==
  /\ New("path")
  /\ Folder(Item) # Nothing /\ Manifest[Folder(Item)] # Unreadable
  /\ Meet(Folder(Item))
  /\ UNCHANGED <<remote, files, pc, cmd, newLock, status, tips, netfail, moves>>

TakeFolderFails ==
  /\ New("path")
  /\ Folder(Item) # Nothing => Manifest[Folder(Item)] = Unreadable
  /\ Fail("folder")

\* The repository is at hand.
ToCheckout ==
  /\ pc' = "checkout"
  /\ UNCHANGED <<remote, toml, lock, cmd, work, status, tips, moves>>

TakeClone ==
  /\ New("git") /\ deps[Item.name] = Nothing
  /\ LET u == Item.src.at
         c == [origin |-> u, seen |-> remote[u], trunk |-> remote[u], at |-> remote[u]]
     IN  deps' = [deps EXCEPT ![Item.name] = c]
  /\ ToCheckout
  /\ UNCHANGED netfail

TakeCloneFails ==
  /\ New("git") /\ deps[Item.name] = Nothing
  /\ Fail("fetch")

\* git fetch origin in the clone of n; its failure is ignored.
Fetch(n) ==
  \/ /\ deps' = [deps EXCEPT ![n].seen = remote[deps[n].origin]]
     /\ UNCHANGED netfail
  \/ /\ netfail' = TRUE
     /\ UNCHANGED deps

\* The folder has a .git: whatever it was cloned from, it is used.
TakeCloned ==
  /\ New("git") /\ deps[Item.name] # Nothing
  /\ \/ /\ cmd.kind = "update" \/ Item.src.rev # NoRev
        /\ Fetch(Item.name)
     \/ /\ cmd.kind # "update" /\ Item.src.rev = NoRev
        /\ UNCHANGED <<deps, netfail>>
  /\ ToCheckout

\* The commit the lock asks for, if the lock is for this source.
\* Mutant: the lock is not looked at.
LockedNever(it) == Nothing
Locked(it) ==
  IF /\ ~(cmd.kind = "add" /\ cmd.name = it.name)
     /\ lock[it.name] # Nothing
     /\ lock[it.name].url = it.src.at
  THEN lock[it.name].commit
  ELSE Nothing

\* What to check out: a locked commit, a revision, or the tip of origin.
\* Mutant: update keeps what is locked.
TargetKeepingLock(it) ==
  IF Locked(it) # Nothing THEN [by |-> "lock", commit |-> Locked(it)]
  ELSE IF it.src.rev # NoRev THEN [by |-> "rev", rev |-> it.src.rev]
  ELSE [by |-> "head"]
Target(it) ==
  IF Locked(it) # Nothing /\ cmd.kind # "update"
  THEN [by |-> "lock", commit |-> Locked(it)]
  ELSE IF it.src.rev # NoRev THEN [by |-> "rev", rev |-> it.src.rev]
  ELSE [by |-> "head"]

\* git rev-parse in the clone c: the commit numbers a target stands for.
\* The name of the default branch is the local branch that cloning made.
Resolve(target, c) ==
  IF target.by = "head" THEN {c.seen}
  ELSE IF target.by = "rev"
  THEN IF target.rev = Trunk THEN {c.trunk} ELSE {target.rev} \cap 1..c.seen
  ELSE IF target.commit.repo = c.origin THEN {target.commit.n} \cap 1..c.seen ELSE {}

\* git rev-parse HEAD after commit k was checked out in the clone c.
\* Mutant: the tip that was fetched is recorded.
RecordedTip(c, k) == [repo |-> c.origin, n |-> c.seen]
Recorded(c, k) == [repo |-> c.origin, n |-> k]

\* A clone without a target fetches once more before looking at origin/HEAD.
\* The clone that gives, and whether a fetch has failed by then.
Refreshed(n) ==
  LET c == deps[n] IN
  IF Target(Item).by = "head"
  THEN {<<[c EXCEPT !.seen = remote[c.origin]], netfail>>, <<c, TRUE>>}
  ELSE {<<c, netfail>>}

Checkout ==
  /\ pc = "checkout"
  /\ \E cf \in Refreshed(Item.name) : \E k \in Resolve(Target(Item), cf[1]) :
       LET b == [repo |-> cf[1].origin, n |-> k] IN
       /\ netfail' = cf[2]
       /\ deps' = [deps EXCEPT ![Item.name] = [cf[1] EXCEPT !.at = k]]
       /\ newLock' = [newLock EXCEPT ![Item.name] =
                        [url |-> Item.src.at, commit |-> Recorded(cf[1], k)]]
       /\ \/ Manifest[b] # Unreadable /\ Meet(b) /\ pc' = "taking"
          \/ Manifest[b] = Unreadable /\ pc' = "unreadable" /\ UNCHANGED <<todo, met>>
  /\ UNCHANGED <<remote, toml, lock, cmd, status, tips, moves>>

NoVersion ==
  /\ pc = "checkout"
  /\ Resolve(Target(Item), deps[Item.name]) = {}
  /\ Fail("noversion")

\* The manifest of what was checked out cannot be read.
NoManifest == pc = "unreadable" /\ Fail("folder")

\* Mutant: only what siskin.toml names is recorded.
FinishDirectOnly ==
  /\ pc = "taking" /\ todo = << >>
  /\ lock' = [n \in Names |-> IF toml[n] = Nothing THEN Nothing ELSE newLock[n]]
  /\ status' = "ok" /\ pc' = "idle" /\ newLock' = None
  /\ UNCHANGED <<remote, toml, deps, cmd, todo, met, tips, netfail, moves>>

Finish ==
  /\ pc = "taking" /\ todo = << >>
  /\ lock' = newLock
  /\ status' = "ok" /\ pc' = "idle" /\ newLock' = None
  /\ UNCHANGED <<remote, toml, deps, cmd, todo, met, tips, netfail, moves>>

-----------------------------------------------------------------------------
(* remove: first siskin.toml, then the folder, then the lock. *)

RemoveDep(n) ==
  /\ pc = "idle" /\ moves > 0 /\ toml[n] # Nothing
  /\ moves' = moves - 1
  /\ toml' = [toml EXCEPT ![n] = Nothing]
  /\ pc' = "removing"
  /\ cmd' = [kind |-> "remove", name |-> n, saved |-> None, hadDir |-> FALSE,
             settled |-> FALSE]
  /\ status' = "busy"
  /\ UNCHANGED <<remote, lock, deps, work, tips, netfail>>

RemoveFolder ==
  /\ pc = "removing"
  /\ deps' = [deps EXCEPT ![cmd.name] = Nothing]
  /\ pc' = "unlocking"
  /\ UNCHANGED <<remote, toml, lock, cmd, work, status, tips, netfail, moves>>

RemoveLock ==
  /\ pc = "unlocking"
  /\ lock' = [lock EXCEPT ![cmd.name] = Nothing]
  /\ pc' = "idle" /\ status' = "removed" /\ met' = None
  /\ UNCHANGED <<remote, toml, deps, cmd, todo, newLock, tips, netfail, moves>>

\* The process is killed: what is on disk stays as it is.
Killed ==
  /\ pc # "idle"
  /\ pc' = "idle" /\ cmd' = Idle /\ status' = "killed"
  /\ todo' = << >> /\ met' = None /\ newLock' = None
  /\ UNCHANGED <<remote, files, tips, netfail, moves>>

-----------------------------------------------------------------------------
(* What happens around the commands. *)

\* A new commit is pushed to u, at any moment.
Push(u) ==
  /\ remote[u] < MaxCommit
  /\ remote' = [remote EXCEPT ![u] = @ + 1]
  /\ UNCHANGED <<files, pc, cmd, work, status, tips, netfail, moves>>

Edited ==
  /\ pc = "idle" /\ moves > 0
  /\ moves' = moves - 1
  /\ status' = "edited" /\ met' = None
  /\ UNCHANGED <<remote, pc, cmd, todo, newLock, tips, netfail>>

\* siskin.toml is edited by hand.
Edit(n, s) ==
  /\ Edited
  /\ toml' = [toml EXCEPT ![n] = s]
  /\ UNCHANGED <<lock, deps>>

\* A teammate's siskin.lock, written by an update on another computer,
\* arrives with git pull.
Pull(n) ==
  /\ Edited
  /\ toml[n] # Nothing /\ toml[n].kind = "git"
  /\ LET u == toml[n].at
     IN  lock' = [lock EXCEPT ![n] =
                    [url |-> u, commit |-> [repo |-> u, n |-> remote[u]]]]
  /\ UNCHANGED <<toml, deps>>

\* The project is checked out on another computer: .siskin is not committed.
OtherComputer ==
  /\ Edited
  /\ deps' = None
  /\ UNCHANGED <<toml, lock>>

Command ==
  \/ Install \/ Update
  \/ \E n \in Names : RemoveDep(n) \/ \E s \in Offers : Add(n, s)

Progress ==
  \/ TakeKnown \/ TakeConflict \/ TakeFolder \/ TakeFolderFails
  \/ TakeClone \/ TakeCloneFails \/ TakeCloned
  \/ Checkout \/ NoVersion \/ NoManifest \/ Finish
  \/ Undo \/ RemoveFolder \/ RemoveLock

Around ==
  \/ \E u \in Urls : Push(u)
  \/ \E n \in Names : Pull(n) \/ \E s \in Offers : Edit(n, s)
  \/ OtherComputer \/ Killed

Next == Command \/ Progress \/ Around

Spec == Init /\ [][Next]_vars

\* A command that was started goes on.
FairSpec == Spec /\ WF_vars(Progress)

-----------------------------------------------------------------------------
(* Properties *)

\* Types of what is written to siskin.toml, siskin.lock and deps/, and of the
\* work list of an install.
TypeOK ==
  /\ remote \in [Urls -> 1..MaxCommit]
  /\ toml \in Manifests /\ lock \in Locks
  /\ deps \in [Names -> Clones \cup {Nothing}]
  /\ pc \in {"idle", "taking", "checkout", "unreadable", "undoing", "removing", "unlocking"}
  /\ todo \in Seq(Requirements)
  /\ met \in Mets /\ newLock \in Locks
  /\ status \in {"ok", "busy", "conflict", "folder", "fetch", "noversion", "removed",
                 "killed", "edited"}

\* "Records the exact version of each fetched package" (write_lock): after a
\* command that installs, every locked package is checked out at the commit
\* in the lock, whichever steps were needed to get it there.
LockIsCheckout ==
  status = "ok" => \A n \in Names : lock[n] # Nothing =>
    deps[n] # Nothing /\ lock[n].commit = [repo |-> deps[n].origin, n |-> deps[n].at]

\* install "fetches exactly the versions recorded in siskin.lock" (GUIDE.md):
\* when it ends well, what was locked for the source still wanted is locked
\* as before; add keeps every package but the one it adds.
LockObeyed ==
  [][Finish /\ cmd.kind # "update" =>
       \A n \in Names : /\ lock[n] # Nothing /\ lock'[n] # Nothing
                        /\ lock[n].url = lock'[n].url
                        /\ ~(cmd.kind = "add" /\ cmd.name = n)
                        => lock'[n] = lock[n]]_vars

\* Where a package is, if names were taken as M says, and what it asks for.
HeadOf(n) == [repo |-> deps[n].origin, n |-> deps[n].at]
PlaceBy(M, n) == IF M[n].src.kind = "path" THEN Folder(M[n]) ELSE HeadOf(n)
PlaceOf(n) == PlaceBy(met, n)
ManifestOf(n) == Manifest[PlaceOf(n)]
MetFrom(n, s) == Met(n) /\ met[n].src.kind = s.kind /\ met[n].src.at = s.at
AskedBy(n, s, b) == \/ b = Root /\ toml[n] = s
                    \/ \E m \in Names : Met(m) /\ b = PlaceOf(m) /\ ManifestOf(m)[n] = s

\* "If a package uses other packages, those are fetched too.  If the same name
\* would be fetched from different places, you're told" (GUIDE.md:1893), as far
\* as the code goes (SamePlaces, below, goes further): after an install every
\* requirement of everything installed is met from the repository or by the path
\* that it names, whatever manifest the path was written in, and each package
\* is there with the source, revision included, that siskin.toml or a package
\* now installed asks for there.  Checkouts change while the requirements are read.
Closed ==
  status = "ok" =>
    \A n \in Names :
      /\ toml[n] # Nothing => MetFrom(n, toml[n])
      /\ Met(n) => /\ \A m \in Names : ManifestOf(n)[m] # Nothing =>
                        MetFrom(m, ManifestOf(n)[m])
                   /\ AskedBy(n, met[n].src, met[n].base)

\* update "upgrades packages to new versions": a package taken with a tag is at
\* that tag, whatever was locked; with the network up, one without a revision
\* ends at a commit no older than the tip at the start, if its clone is of the
\* repository it is required from (LockIsFetchable shows that it may not be).
UpdateFollowsTip ==
  status = "ok" /\ cmd.kind = "update" =>
    \A n \in Names : Met(n) /\ met[n].src.kind = "git" =>
      /\ met[n].src.rev \in 1..MaxCommit => deps[n].at = met[n].src.rev
      /\ met[n].src.rev = NoRev /\ ~netfail /\ deps[n].origin = met[n].src.at
         => deps[n].at >= tips[met[n].src.at]

\* An install right after a command that installed is a no-op: it does not
\* fail, moves no checkout and writes the same lock, even
\* when the repositories have moved on.
Settling == cmd.kind = "install" /\ cmd.settled /\ pc # "idle"
InstallSettles ==
  [][Settling =>
       /\ status' \in {"busy", "ok", "killed"}
       /\ lock' = lock
       /\ \A n \in Names : deps[n] # Nothing => deps'[n].at = deps[n].at]_vars

\* A started command ends: names are taken once, whatever the cycles.
Ends == pc # "idle" ~> pc = "idle"

-----------------------------------------------------------------------------
(* What the documents say and the code does not do. *)

\* "The fetched revision (commit) is recorded in siskin.lock so other machines
\* fetch exactly the same revision" (pkg.rs:5-6): a locked commit is one of
\* the repository recorded with it.
LockIsFetchable ==
  \A n \in Names : lock[n] # Nothing => lock[n].commit.repo = lock[n].url

\* `siskin install` "fetches exactly the versions recorded in siskin.lock"
\* (GUIDE.md:1885): it does not fail over a locked commit that the repository
\* already had when the command began.
LockedIsFetched ==
  [][NoVersion /\ Target(Item).by = "lock" =>
       LET c == Target(Item).commit IN
       c.repo # Item.src.at \/ c.n > tips[c.repo]]_vars

\* `siskin update` "upgrades packages to new versions" (GUIDE.md:1886), and
\* a revision may be a "tag, branch or commit" (pkg.rs:396): a package that
\* follows the default branch by name ends at that branch's tip.
UpdateFollowsBranch ==
  status = "ok" /\ cmd.kind = "update" /\ ~netfail =>
    \A n \in Names : /\ Met(n) /\ met[n].src.kind = "git" /\ met[n].src.rev = Trunk
                     /\ deps[n].origin = met[n].src.at
                     => deps[n].at >= tips[met[n].src.at]

\* "If the same name would be fetched from different places, you're told"
\* (GUIDE.md:1893): a path leads, from every manifest that names it, to the folder
\* that the package was taken from.
SamePlaces ==
  status = "ok" =>
    \A m \in Names :
      /\ toml[m] # Nothing /\ toml[m].kind = "path" => PlaceOf(m) = Lands[Root][toml[m].at]
      /\ \A n \in Names :
           LET s == ManifestOf(n)[m] IN
           Met(n) /\ s # Nothing /\ s.kind = "path" => PlaceOf(m) = Lands[PlaceOf(n)][s.at]

\* "For a new version, just push a git tag to your repository (`siskin add name
\* --rev v1.1`, `siskin update`)" (GUIDE.md:1920): a package added with a tag is
\* at that tag.
AddTakesTag ==
  status = "ok" /\ cmd.kind = "add" /\ toml[cmd.name].rev \in 1..MaxCommit =>
    deps[cmd.name].at = toml[cmd.name].rev

-----------------------------------------------------------------------------
(* The inductive invariant (PkgProofs) *)

Installing == pc \in {"taking", "checkout"}
Result == Installing \/ status = "ok"

\* The rest of the types, and what a clone may be at.
WorkFits ==
  /\ cmd.kind \in {"none", "install", "update", "add", "remove"}
  /\ cmd.kind = "add" => cmd.name \in Names /\ cmd.saved \in Manifests
  /\ tips \in [Urls -> 1..MaxCommit] /\ netfail \in BOOLEAN
  /\ status = "ok" => pc = "idle" /\ todo = << >>
  /\ pc \notin {"idle", "undoing"} => status = "busy"
  /\ pc \in {"removing", "unlocking"} => cmd.kind = "remove" /\ cmd.name \in Names
  /\ pc = "undoing" => cmd.kind = "add"
  /\ Installing \/ pc = "unreadable" => cmd.kind \in {"install", "update", "add"}
  /\ pc = "checkout" => /\ todo # << >> /\ Item.src.kind = "git"
                        /\ ~Met(Item.name) /\ deps[Item.name] # Nothing

ClonesFit ==
  \A n \in Names : deps[n] # Nothing =>
    /\ deps[n].at <= deps[n].seen /\ deps[n].trunk <= deps[n].seen
    /\ deps[n].seen <= remote[deps[n].origin]

TipsFit == \A u \in Urls : tips[u] <= remote[u]

\* What has been taken is there, and its manifest has been read.
TakenFits ==
  Result => \A n \in Names : Met(n) =>
    /\ met[n].src.kind = "git" => deps[n] # Nothing
    /\ PlaceOf(n) \in Commits \cup Folders /\ ManifestOf(n) \in Manifests

\* The lock l records the commits of the git packages taken as M says, and
\* nothing else.
Pin(M, n) == [url |-> M[n].src.at, commit |-> HeadOf(n)]
Records(l, M) ==
  \A n \in Names : l[n] = IF M[n] # Nothing /\ M[n].src.kind = "git" THEN Pin(M, n) ELSE Nothing
LockFits == (Installing => Records(newLock, met)) /\ (status = "ok" => Records(lock, met))

\* Every requirement is met from its source, or waits to be taken.
Waiting(n, s, b) == [name |-> n, src |-> s, base |-> b] \in ToSet(todo)
MetOrWaiting ==
  Result =>
    \A n \in Names :
      /\ toml[n] # Nothing => MetFrom(n, toml[n]) \/ Waiting(n, toml[n], Root)
      /\ Met(n) => \A m \in Names : ManifestOf(n)[m] # Nothing =>
           MetFrom(m, ManifestOf(n)[m]) \/ Waiting(m, ManifestOf(n)[m], PlaceOf(n))

\* What was taken or waits to be is what somebody asks for.
Asked ==
  Result => /\ \A n \in Names : Met(n) => AskedBy(n, met[n].src, met[n].base)
            /\ \A r \in ToSet(todo) : AskedBy(r.name, r.src, r.base)

Followed ==
  Result /\ cmd.kind = "update" =>
    \A n \in Names : Met(n) /\ met[n].src.kind = "git" =>
      /\ met[n].src.rev \in 1..MaxCommit => deps[n].at = met[n].src.rev
      /\ met[n].src.rev = NoRev /\ ~netfail /\ deps[n].origin = met[n].src.at
         => deps[n].at >= tips[met[n].src.at]

LockKept ==
  Installing /\ cmd.kind # "update" =>
    \A n \in Names : /\ lock[n] # Nothing /\ newLock[n] # Nothing
                     /\ lock[n].url = newLock[n].url
                     /\ ~(cmd.kind = "add" /\ cmd.name = n)
                     => newLock[n] = lock[n]

\* A turn of the loop, from one stack and `done` to the next, if the checkouts
\* stay as they are.
Views == [todo : Seq(Requirements), met : Mets]
View == [todo |-> todo, met |-> met]
Turn(a, b) ==
  /\ a.todo # << >>
  /\ LET it == Last(a.todo) IN
     \/ /\ a.met[it.name] # Nothing /\ SameSource(a.met[it.name].src, it.src)
        /\ b.todo = Front(a.todo) /\ b.met = a.met
     \/ /\ a.met[it.name] = Nothing
        /\ it.src.kind = "git" => deps[it.name] # Nothing
        /\ b.met = [a.met EXCEPT ![it.name] = [src |-> it.src, base |-> it.base]]
        /\ LET p == PlaceBy(b.met, it.name) IN
           /\ p \in Commits \cup Folders /\ Manifest[p] \in Manifests
           /\ b.todo = Front(a.todo) \o Wants(Manifest[p], p)

\* The turns from siskin.toml on.  What was taken in one stays taken.
Course(h) ==
  /\ h \in Seq(Views) /\ h # << >>
  /\ h[1] = [todo |-> Wants(toml, Root), met |-> None]
  /\ \A i \in 1..Len(h) - 1 : Turn(h[i], h[i + 1])
  /\ \A i \in 1..Len(h), n \in Names : h[i].met[n] # Nothing => h[Len(h)].met[n] = h[i].met[n]

Reached == Result => \E h \in Seq(Views) : Course(h) /\ h[Len(h)] = View

\* The course of an installation that is complete.  An install after it is
\* somewhere on the same course.
Complete(h) == Course(h) /\ h[Len(h)].todo = << >> /\ Records(lock, h[Len(h)].met)
Settled ==
  Settling => /\ Installing
              /\ \E h \in Seq(Views) : Complete(h) /\ \E i \in 1..Len(h) : h[i] = View

PkgInv ==
  /\ TypeOK /\ WorkFits /\ ClonesFit /\ TipsFit /\ TakenFits /\ LockFits /\ MetOrWaiting
  /\ Asked /\ Followed /\ LockKept /\ Reached /\ Settled
=============================================================================
