------------------------------- MODULE MCPkg -------------------------------
(* A project with two package names, two repositories and folders.  The path  *)
(* lib leads from the project to its folder lib, from the folder x to x/lib,  *)
(* and from lib nowhere.                                                     *)
EXTENDS Pkg, TLC

CONSTANTS pkgA, pkgB, repoU, repoW, x, lib, folderX, folderLib, folderXLib

Order == <<pkgA, pkgB>>
Git(at, rev) == [kind |-> "git", at |-> at, rev |-> rev]
Path(at) == [kind |-> "path", at |-> at, rev |-> NoRev]
SomeOffers == {Git(repoU, NoRev), Git(repoU, Trunk), Git(repoU, 1), Git(repoW, NoRev),
               Path(x), Path(lib)}

SomeLands ==
  [b \in Bases |-> [p \in Paths |->
     IF b = Root /\ p = x THEN folderX
     ELSE IF b = Root /\ p = lib THEN folderLib
     ELSE IF b = folderX /\ p = lib THEN folderXLib
     ELSE Nothing]]

\* u needs nothing at first and b of w later; w needs a of u, so that the two
\* come to need each other, and cannot be read later; x and lib need b, each of
\* the path lib.
Commit(u, k) == [repo |-> u, n |-> k]
Needs ==
  [c \in Commits \cup Folders |->
     IF c = Commit(repoW, 2) THEN Unreadable
     ELSE [n \in Names |->
        IF c = Commit(repoU, 2) /\ n = pkgB THEN Git(repoW, NoRev)
        ELSE IF c = Commit(repoW, 1) /\ n = pkgA THEN Git(repoU, NoRev)
        ELSE IF c \in {folderX, folderLib} /\ n = pkgB THEN Path(lib)
        ELSE Nothing]]
=============================================================================
