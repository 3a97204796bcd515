# Siskin, verified: TLA+ models and proofs of the language's runtime and tools

Siskin is a small language. One Rust program (`micai`, in `src/micai/src`)
checks, interprets, compiles to C, formats, debugs, serves editors and manages
packages; a C runtime (`rt_*.c`, and C text held in `cgen.rs`) is linked into
compiled programs. This directory holds TLA+ specifications of the parts of it
that keep state and share it, the TLC runs that check them on small instances,
and proofs of the central facts for every instance.

Conventions. A name in a specification is the name in the source wherever TLA+
allows it. Each module opens with what it models and leaves out. An operator
whose comment starts with `Mutant:` or `deviation:` is a plausible bug, kept next to the
definition it would replace; with it the property named in `PROJECT.json` must
fail. `PROJECT.json` maps each definition to the lines it translates.

## 1. Inventory

| Part | Source | State it keeps | Operations | What is hard | What makes it correct |
|---|---|---|---|---|---|
| Tasks and channels, interpreter | `conc.rs`, `interp.rs` 2272-2399, `value.rs` 25-80 | `live`, `blocked`, `epoch`; a queue and `closed` per channel; `done` and a result per task | spawn, wait, done, send, recv, close, end of a task, end of main | one lock and one condition variable for everything, waits that must count exactly, results stored and announced in separate steps | no lost wakeup; a deadlock is reported exactly when there is one; results fixed once visible; main leaves nobody behind |
| Tasks and channels, native | `rt_conc.c` | the same in C, a growing ring per channel | the same | wakes in fewer places; exits with the lock held; ring growth | the same promises; ring = queue |
| Packages | `pkg.rs` | `siskin.toml`, `siskin.lock`, `deps/*` checkouts | add, install, update, remove | partial failure, stale checkouts, a work list that meets one name twice | what is checked out is what the lock records; a repeated install changes nothing |
| Debugger, interpreter and driver | `debug.rs` | step mode, breakpoints | should_stop, command loop, wire protocol | depths stand for calls; a second process to agree with | stops where the mode says |
| Debugger, native side | `rt_dbg.c` | mode, depth, owner, breakpoint table, all read without the lock | hit, stop, task start | several threads hit lines at once; the debugger goes away | one conversation at a time; the program never hangs on a debugger that is gone |
| Network | `rt_net.c`, `std/net.skn` | table of connections with buffers | connect, listen, accept, send, recv, recv_line, recv_n, close, HTTP | slots are reused; a handle may be used while another task closes it; partial reads and writes, EOF, redirects | lines come out whole and in order; no bytes are lost between readers |
| Language server | `lsp.rs` | open documents | initialize, didOpen/Change/Save/Close, requests, shutdown, exit | ordering of messages, stale diagnostics | one answer per request; diagnostics are those of the text last seen |
| Regular expressions | `regex.rs`, C copy in `cgen.rs` 6340-6810 | program, thread of a backtracking machine | compile, match, find_all, replace, split | jumps that move when a later operator wraps them, empty loops, step cap, empty matches | both copies compile alike; a match is what the pattern means; every scan ends and drops nothing |
| Memory of compiled programs | `cgen.rs` 292-435 | arenas, generations | alloc, scope drop, pointer check | use after an arena is dropped | a stale pointer is reported, never followed |
| Dict and list runtime | `cgen.rs` 556-935 | insertion-ordered hash table, growable array | put, get, remove, iterate, sort | growth, tombstones, order | the same contents and order as the interpreter's list of pairs |
| Module loader and name spaces | `main.rs` 40-225, `ns.rs` | set of loaded files | load, rename, drop unused | cycles, diamonds | each file once, dependencies first |
| Driver | `main.rs` 766-1268 | temporary build directory, the file being formatted | run via native, debug native, fmt | two processes in one directory | a formatted file means the same |
| Type checker | `types.rs` | scopes with narrowed names | check statements, infer, unify | narrowing undone by writes, loops and calls; the checks that are left out | what it accepts runs without a type error |
| Interpreter core | `interp.rs`, `value.rs` | scopes, flow, shared lists | exec, eval, calls, inout, contracts, catch | when a value is copied and when it is shared | the language, as far as it is defined anywhere |
| C code generator | `cgen.rs` from 2147 | scopes, renamings, hoisted temporaries | a C statement per statement | C shares buffers that grow, leaves orders open, and repeats the checker's work | the C compiles, reads nothing that is gone and does what the interpreter does |
| Process execution | `rt_sys.c`, `sys.rs` | result of the last command, global in C | run, out, err | two tasks share the result | a task reads its own command's output |
| JSON | `json.rs`, C copy in `cgen.rs` 6881-7199 | a reader's place | parse, stringify | errors that the C reader only notes and goes on from | both accept the same texts; what was written is read back |
| Lexer, parser, formatter, C headers | `lexer.rs`, `parser.rs`, `fmt.rs`, `cheader.rs` | none across calls | pure functions of the text | depth, layout | left to tests |

How they interact. The driver loads a program (loader, name spaces), checks it
and either interprets it or writes C and compiles it together with the runtime;
both ways link the same standard library files. `siskin debug` hooks the
interpreter in the same process, or talks to the compiled program over two pipes.
Tasks are OS threads in both; they share channels, task results, connections, the
debugger's conversation and the result of the last command. The package manager
and the language server share only files with the rest.

Hazards beyond those listed in `PROJECT.json`, kept here for later modules: tables
with a fixed size in the native debugger (1024 breakpoints, reply lines of 16383
bytes), `set_timeout(0)`, which switches the socket time-out off, shutdown and
exit in the language server, `remove` of a package that another one needs, and
imports in a cycle.

## 2. Plan

Written, in this order, the behaviour with most at stake first:

1. `ConcTypes`, `ConcSpec`, `ConcInterp` — tasks and channels: what they promise,
   and the interpreter's scheduler as an implementation of it.
2. `RingBuf`, `ConcNative` — the C runtime as an implementation of the same.
3. `ConcInterpProofs`, `ConcNativeProofs` — the safety of both schedulers and
   that both implement `ConcSpec`, for every instance.
4. `Pkg` — package commands, step by step on disk.
5. `Debugger`, `NativeDebug` — the debugger as the user sees it, and the two
   processes that implement it.
6. `NetConn`, `NetBuf` — the connections of std.net, and the layout of the buffer.
7. `Regex`, `Scan`, `Text`, `Json`, `Numbers`, `ListSort`, `Dict`, `Memory`,
   composed with `NetBuf` by `Library` — what exists twice, in Rust and in C.
8. `Outcome`, `Ast`, `Interp`, `Types`, `Cgen`, `Native`, composed by `Language` —
   the two ways a program goes, from the check to what it prints.
9. `PkgProofs`, `DebuggerProofs`, `NativeDebugProofs`, `NetConnProofs`,
   `MemoryProofs` (with the receive buffer), `DictProofs` (with the sort and the
   scans) — the safety properties of these components, for every instance.

Left:

- accept, TLS and HTTP on top of `NetConn`; messages of the language server; the
  result of commands that tasks share; traits and `defer` in the language.

RECURSIVE operators are kept to `Regex`, `Json`, `Text`, `Numbers` and the
modules of item 8, which nothing that is proved uses. `Dict` indexes its entries
again with a recursive function; the loops of the merge sort, of the receive calls
and of `find_all`, `replace` and `split_re` are steps of `ListSort`, `NetBuf` and `Scan`.

## 3. Tasks and channels

`ConcTypes` has the calls a task can make. `ConcSpec` is the promise: a call is a
request that completes when its condition holds, a deadlock error needs every
unfinished task to be stuck, a task's result can be read once it is done.

`ConcInterp` is `conc.rs` and its callers in `interp.rs`. One action is one critical
section of `SYNC`, or one step outside it. A blocking call goes from "locking"
through `Enter` either straight to `Proceed`, to `Park` (counted in `blocked`, with
the epoch it saw in `since`), or to the deadlock `Verdict`; `Wake` clears `blocked`,
raises `epoch` and takes everybody out of the wait set, and a woken thread
uncounts itself only if no wake came since. `SpuriousWakeup` may happen at any
moment. The end of a task is three steps, as in the code: `StoreResult`, `MarkDone`,
`Finish`. Starting one is two, and may be refused.

`ConcNative` is `rt_conc.c`: the end is announced and counted in one section,
fewer calls wake anyone, a panic exits the process, and the deadlock report exits
with the lock held. Channels are the rings of `RingBuf`.

| Run | Shows | Instance |
|---|---|---|
| `interp` | no lost wakeup, deadlock reported only when there is one and never missed, clean exit, `ConcSpec` implemented, and every program whose tasks make finitely many calls ends | three tasks, one channel of size 1, two calls each |
| `native` | `ConcSpec` implemented by the C, and termination | as `interp` |

A task's result is fixed once it can be seen and a closed channel is drained before
it ends: both hold in `ConcSpec` by its actions, so the refinement carries them to
the two implementations. `ConcNative` states `CountersExact`, `NoLostWakeup` and
`DeadlockSound` too; they are proved (section 4), and in the run a wakeup lost in C
would break `Terminates`, a wrong count the deadlock verdict of `ConcSpec`. No ring
wraps or grows twice in this instance; the run `library` has rings that do, and
the proof covers them all.

Bounds. Three tasks are the smallest number in which one can be woken, one asleep
and one counting; two calls each let a task be a waiter and then the one who ends
or closes. `MaxOps` bounds the calls of a task; epochs and counters
are then bounded as well, and never wrap (64 bits in the code).

Fairness. Weak fairness of each thread's own steps: the operating system runs
threads. Nothing is assumed of spurious wakeups, of who gets the lock, or of the
calls a program makes.

## 4. Proofs

Every safety property that a run checks is also a theorem, for every value of the
constants, but for those of `Language` and of the pure functions in `Library`.
`PROJECT.json` lists the theorems.

| Module | Proves | Assumes |
|---|---|---|
| `ConcInterpProofs` | `TypeOK`, `CountersExact`, `NoLostWakeup`, `DeadlockSound`, `SomeoneAwake`, `CleanExit`; `ConcInterp` implements `ConcSpec` | `ConcAssumption` (finitely many tasks, `Main` one of them, capacities that are numbers, `NoVal` no value), `MaxOpsAssumption` |
| `ConcNativeProofs` | `TypeOK`, `CountersExact`, `NoLostWakeup`, `DeadlockSound`; `ConcNative` implements `ConcSpec` | the same, and `FirstCapAssumption` |
| `PkgProofs` | `LockIsCheckout`, `Closed`, `UpdateFollowsTip`, `LockObeyed`, `InstallSettles`; that every command ends, whatever packages require each other | `PkgAssumption` |
| | `SamePlaces` | `PkgAssumption`, and that a path leads to the same folder from every manifest |
| `DebuggerProofs` | `NextStaysOut`, `OutHasReturned`, `NothingMissed` | `DebuggerAssumption` |
| `NativeDebugProofs` | `Agreement`, `ShownIsTrue`, `NobodyWaitsForNobody`; `NativeDebug` implements `Debugger` if there is one task and nobody kills the debugger | `NativeDebugAssumption` (finitely many lines) |
| `NetConnProofs` | of programs that are not `Stale`: `NothingLost`, `ShortMeansEnd`, `SendsWhole`, `SlotIsFree`, `OwnBytes` | `NetConnAssumption` |
| `MemoryProofs` | `NoUseAfterFree`, `BlocksApart` | `MemoryAssumption` |
| | of the receive buffer: `LinesWhole` | `NetBufAssumption` |
| `DictProofs` | `DictsAgree`, `ProbingEnds` | `DictAssumption` |
| | of the merge sort: `SortedStably`, and that it ends | `KeyListsAssumption` |
| | of the scans of a text: `NothingRepeated`, and that they end | `LengthsAssumption` |

The assumptions are of the kinds of the constants only. The hypothesis that a
program is not `Stale` is a discipline of the program: without it the run
`net_stale` refutes `OwnBytes`. The hypotheses of the debugger's
refinement are those of its run; with more tasks a stop of one is no step of
`Debugger`, which knows only one.

None of the properties is inductive alone. What each invariant adds:

**The schedulers.** `IndInv` of both has `Bookkeeping`, which call each thread is in
and what is set on the way to its end; `CountedFacts`, a thread counted in `blocked`
is in the wait set with no wake since, and its condition is false; `VerdictFacts`,
once somebody has the deadlock verdict every other unfinished task is counted; and
that some unfinished thread is not counted. The argument: a condition can turn true
only by a step that wakes, and a wake uncounts everybody (`Fresh` compares
epochs). In `ConcInterp` there is one exception, a refused start that lowers `live`
quietly; it can only help main's wait for all, which it does not complete, since
the task that tried to start one is itself still live, or is main. In `ConcNative`
there are more: receiving from a channel that has ended, a wait that is over and a
send to a closed channel leave the lock without waking anyone, and for each the
proof shows that it makes nothing true that was false. Its steps are of four kinds,
those that wake, keep, park and give the verdict, and each kind has one lemma. The
verdict is taken when `blocked` would reach `live`; with exact counts that says that
everybody else is counted, and counted threads wait for what is false; nobody is
left who could change it. Cardinalities are handled in lemmas about adding to and
removing from a finite set.

The refinements take a queue of `ConcSpec` to a queue or to the contents of a
ring. That growing keeps the contents, that pushing appends and that popping takes
the head, wherever `head` is and however often it has wrapped, are the lemmas
`GrowRing`, `PushRing` and `PopRing`; they rest on `Wrap` and `Places`, which say
where `(head + i) % bcap` lies.

**Packages.** `LockFits` ties the lock that is being written to the checkouts name by
name; `MetOrWaiting` says that a requirement of what has been read is met from the
repository or by the path that it names, or waits on the stack, so that all are met
once the stack is empty. `Asked` says that what was taken or waits is asked for, in
so many words and in the same folder, by siskin.toml or by a package that was taken.
Both speak of checkouts, which move while the requirements are read, so each proof
has to show that a clone that moves is one from which nothing was read yet.
`Closed` cannot go further than the path as written; `SamePlaces` does, and
`PlacesAgree` says for which projects it holds. For `InstallSettles` it is not
enough to look at one command. A turn of the loop, the checkouts staying as they
are, takes one stack and `done` to the next (`Turn`); a `Course` is a sequence of
turns from siskin.toml on. `Reached` says that an install which moves checkouts
leaves a course behind on which they do not move any more, and `Settled` that the
install which runs after it is somewhere on the complete course of a lock that fits,
so that it ends with that lock. That a command ends is a count (`CommandsEnd`): a
requirement that is taken for the first time leaves one name fewer to meet and
pushes at most one requirement per name, so `Load` weighs a name by two more than
that; `WorkLeft` is twice the load, and small numbers for the steps after a failure
and for those of `remove`. `Ends`, with the scheduling, is TLC's.

**Debuggers.** The debugger compares depths, the properties speak of frames.
`AskedAtDepth` is what makes that right: while the frame in which `n` or `o` was
given is on the stack, it stands at the remembered depth. In `NativeDebug` the
invariant says where a conversation is (`TurnsFit`: one of a STOP on its way, a
prompt, a reply on its way), that a reply is what the user decided (`ReplyFits`),
and how much of it the program has written to its table, mode, depth and owner
(`WritesFit`); the end of the last write is `Agreement`. `SoloInv` adds, for
one task, that what the task has read without the lock is still so.

**Connections.** `OwnersFit` is the heart: a task that has looked a connection up
finds it, its slot and its descriptor unchanged for as long as it is in the call,
though other tasks close connections and open new ones in between. It needs
`SlotsFit` (slots, descriptors and connections belong together, but for the moment
within a close), `OpeningFits` and `LocksFit`. The proof showed that the discipline
first written down was too weak: a connection that is in the middle of being
closed must not be used either, or `ShortMeansEnd` fails with three calls per task;
`MayCall` has the condition now.

**Memory.** Generations are the numbers of blocks; `GuardsTell` says that the guard in
memory and the interpreter's mark both tell whether a block is the program's,
`PlacesUsed` that blocks of an arena lie in the used part of their chunk.

**Dict.** `Indexed` says that each entry has one slot, and that a search for its key
gets there over slots that are taken; `Filled` that the entries are the
interpreter's pairs and the index at most half full; `Apart` that no array is
shared. That from any hash every slot is probed (`Round`), that the first free slot
exists (`SomeSlotFree`, by pigeonholes) and that putting an entry there keeps all
others reachable (`PlacedIndexes`) make both a search and a new index right.
`mi_dict_reindex` is a recursive function; that it exists and what it gives
is shown for each length with the least number for which it would be wrong (`Least`,
`Induct`), which needs no theorem with an operator for a parameter.

**The receive buffer.** `LinesWhole` already ties the bytes given, held and under way
to the stream; `NetBufInv` adds that the buffer holds what it says and that no
newline lies between `pos` and the place a call has searched, which is what makes
a line end at its first newline though a refill moves both. `Roomy` leaves the bytes
held where a reader finds them (`Taken`, `Joined`), and once what is held is at the
front of the memory one doubling makes room for a whole read (`FillHasRoom`): the
`while` in `mi_conn_fill` never turns twice.

**The merge sort.** `SortInv` says that before a pass each run of `width` positions is
sorted by `Before` and holds the positions that it held at the start, so that
the left of two runs came before the right, which is why a tie takes the left; that
what a pass has left behind is sorted in runs of twice the width; and that what
has been merged of the two runs at hand comes before all that is left of them. Runs
start at multiples of their width (`StartsApart`, `StartsDouble`), so a step on
one pair leaves the others alone. `Before` is strict, so sorted positions are
distinct: that nothing is lost or doubled needs no permutations. Every step is
further on in the pair, the pass or the widths (`SortEnds`).

**The scans.** `ScanInv` says of the text before `start` what `NothingRepeated` says
of all of it: what matches there has been found (`Passed`), the matches found end
there (`HitsBehind`), and what has been written out ends with the last of them. A
pattern is any function from places to the ends of matches, so the theorem does not
depend on how a pattern is compiled or matched, nor on the limit of steps. Each
round moves `start` on (`ScansEnd`), which is the termination of the loops.

Three definitions were written anew so that they can be reasoned about, with the
same meaning: the breakpoints of a reply (`Breaks`) and the requirements of a
manifest (`Wants`) are the one sequence in order instead of a filtered one, and
`Dict` searches for the first slot of a set.

What only TLC checks: liveness (`Terminates`, `Ends`, `Returns`), which is out of the
prover's reach, and `SameAnswer`, `MatchIsMeaning`, `JsonAgrees` and the four
properties of `Language` (`CheckedRunsRight`, `CheckedCompiles`, `NothingStale`,
`SameOutput`). These compare two recursive functions of a tree or a text: they need
induction over data, with the functions as RECURSIVE operators, and neither is in
the prover's reach.

## 5. Packages

`Pkg` is the commands of `pkg.rs` as steps that leave something on disk: the
manifest is read or written, one package is taken from the stack of requirements,
its clone is fetched, cloned anew or moved to the target revision, and at the end
the lock is written. A failed `add` puts siskin.toml back and then removes the folder
of the package; `remove` changes siskin.toml, the folder and the lock one after the
other. The process may be killed between any two steps, a fetch may fail, a manifest
may be unreadable, repositories get new commits at any time, and users edit
`siskin.toml`. A repository is a line of commits, its tags are on them and its branch
at the end.

Paths are what is written in a manifest. `SameSource` compares them so, as pkg.rs
330 does, and `Lands[b][p]` is the folder to which `p` leads from the folder of the
manifest, as `base.join(p)` does (pkg.rs 351); `base` travels with each requirement.
The same path in two manifests may mean two folders, one folder or none.

| Run | Shows |
|---|---|
| `pkg` | lock and checkouts agree after every command that ends well (`LockIsCheckout`), a lock is obeyed (`LockObeyed`), every requirement of what is installed is met from the repository or by the path it names, and everything installed is asked for with the revision it was taken with (`Closed`), `update` reaches tips and tags (`UpdateFollowsTip`), a repeated install changes nothing (`InstallSettles`), every command ends |
| `pkg_lock_url` | violated: an entry of the lock can hold a commit that the repository it names does not have |

Instance: two package names whose packages come to need each other, two
repositories of up to two commits, one of which cannot be read; the paths `x` and
`lib` and three folders, `lib` leading from the project to one of them, from the
folder `x` to another and from the folder `lib` nowhere; six sources to choose from,
three commands or edits; `PkgProofs` has any number of each. Three are what it takes
for a state left by a command that failed, an edit and the command that meets both.
That is 839,555 states. Fairness: a command that runs goes on (weak fairness of its
steps); it never waits for anything else.

`UpdateFollowsTip` speaks of tips only where the clone is of the repository that is
required; the other case is `pkg_lock_url`'s.

Four sentences of the guide are stated in `Pkg` but have no run of their own; put
in the place of `LockIsFetchable` in `MCPkgLockUrl.cfg` (the first as a PROPERTY)
TLC refutes each.

- `LockedIsFetched`: "fetches exactly the versions recorded in siskin.lock"
  (GUIDE.md:1885) fails when a clone has not seen the locked commit and the fetch
  fails quietly.
- `UpdateFollowsBranch`: "upgrades packages to new versions" (GUIDE.md:1886) fails
  for a package that names its branch, since the name is resolved in the clone,
  where the local branch has not moved.
- `SamePlaces`: "If the same name would be fetched from different places, you're
  told" (GUIDE.md:1893) fails when two manifests write one path and it leads to two
  folders: the folder met first is used, and nobody is told.
- `AddTakesTag`: `add` with a tag (GUIDE.md:1920) may end with another revision,
  without a word, when another package requires the same repository without that tag
  and is taken first: revisions are not compared.

Limits: no path leads from one clone into another, siskin.toml itself can be read,
and nobody edits a clone.

## 6. Debuggers

`Debugger` is `should_stop` and the commands of `debug.rs` over any program of one
task: at each moment it may call, return or reach a statement. The debugger knows
depths only; the properties speak of frames, which tell calls apart, so that they
say whether comparing depths is enough. `NativeDebug` is the compiled program
(one thread per task, its reads of table, mode, depth and owner one at a time and
without the lock, one conversation under the lock) and `run_native`, connected by
two pipes. The refinement counts what the user has decided as done while it is
still on its way.

| Run | Shows | Instance |
|---|---|---|
| `debugger` | `n` stays out of calls, `o` finds its call gone, nothing is passed over | three lines, one of them in the standard library, three nested calls, runs of any length |
| `native_debug_one` | the two processes implement `Debugger` | two lines, three nested calls, runs of any length |
| `native_debug` | both sides agree between conversations, the prompt shows where the program is, both end, so they never wait for each other, even if the debugger is killed at any step | two tasks, one line, two statements per task |

The safety of both is proved for any program and any number of tasks (section 4).
One line is enough for `native_debug`, since what a scan of a table of several
lines can get wrong is `KnownBreakStops`, below; two statements let a task stop,
be answered and stop again. Fairness: threads run, `run_native` reads on, the
user answers in the end. `mi_dbg_mu` is not fair, so a task could be
overtaken for ever in a program that never ends; the bound on statements excludes
that, and `Ends` claims nothing about it.

Stated but without a run, each refuted by TLC when it takes the place of the
properties in `MCDebugger.cfg` or `MCNativeDebug.cfg` (the last two with two
lines): `FirstStopIsBreak` (GUIDE.md:1818: with `-b`
the program "runs until line 12 and stops"; it stops at the first statement),
`OthersStopAtBreaks` (GUIDE.md:1846: "other tasks stop only at breakpoints";
rt_dbg.c:95 decides before it has the lock and does not ask again, so a task that
was being followed stops although the user has gone on with another) and
`KnownBreakStops` (a breakpoint moves in the table while a task scans it, and the
task runs past). When the debugger is killed while the program runs, the next stop
writes to a pipe without a reader: a program that uses std.net ignores SIGPIPE and
goes on, any other dies of it. `exit = "sigpipe"` stands for that end.

## 7. Connections

`NetConn` is the table of connections of `rt_net.c`. Looking a number up
(`mi_conn_at`, under the lock of the table) and taking the lock of the slot are two
steps; a system call is one. `Dial` and `New` are connecting and `mi_conn_new`;
`FillSome`, `FillEnd` and `FillFails` the outcomes of `mi_conn_fill`; `Take` is
`mi_conn_take` with what each kind of receive waits for; a message is written in
two halves; closing is three steps, the descriptor, the slot and the lock. The
operating system gives the lowest free descriptor, so descriptors are reused too.

| Run | Shows |
|---|---|
| `net` | no byte is lost, doubled or out of order between readers, time-outs and kinds of receive (`NothingLost`); a short answer means the end (`ShortMeansEnd`); messages do not mix (`SendsWhole`); a slot is given away only when its last user is done with it (`SlotIsFree`); every call returns |
| `net_stale` | violated: a call on a closed connection acts on the connection that took its slot or descriptor |

Both are small because the proof is not: `NetConnProofs` has any number of tasks,
connections, bytes and calls, and adds that what is received on a connection was
sent by its own peer (`OwnBytes`).

Instance: two tasks, two connections, two calls each, two bytes from each peer, the
second a newline. `net` is about programs with `Stale = FALSE`: they use closed
connections, and close those in use, only while slot and descriptor cannot have
become another's. `net_stale` drops this and shows why it is there; one task is
enough for it (close, connect, use the first). Fairness: threads run and a silent
socket times out, which is the default; with `set_timeout(0)` `Returns` is not
claimed. A reset by the peer with bytes under way is not modelled: TCP drops them.

`NetBuf` is the buffer itself, with the memory cell by cell: a refill rewinds, moves
or enlarges it, memory that was never written holds a newline, and a read finds any
number of the bytes under way, the end, or nothing before the time is up. A call of
recv, recv_line or recv_n is a start, rounds of its loop and one way out; they
run one after the other, since the lock of the slot is `NetConn`'s subject. It is
checked in the run `library` (section 8) on the 64 streams of six bytes that are
newlines or not, with `Chunk = 2` for the 65536 bytes of one read, which is enough
for the memory to be rewound, moved and doubled with a line half searched; and
proved for any stream and any `Chunk`.

## 8. The library, twice

What a program calls at run time is written in Rust for the interpreter and in C
for compiled programs. The modules translate both; `Library` is the user of all of
them. A behaviour is either one call with its answers, or a sequence of calls on
two Dicts, of calls that use memory or of receive calls, the sorting of a list, or
one of the loops over matches.

| Module | One side | The other side |
|---|---|---|
| `Regex` | compiler and backtracking machine of `regex.rs` | compiler in `cgen.rs`; `Meaning`, what a pattern matches, without a machine |
| `Scan` | any pattern, and the text | the loops of find_all, replace and split_re, the same in both |
| `Text` | methods of Str over characters | the same over bytes of UTF-8 |
| `Json` | reader and writer of `json.rs` | reader of `cgen.rs` |
| `Numbers` | Int operators of `interp.rs`, slices | C helpers, with what C leaves undefined as a choice |
| `ListSort` | the order of a stable sort (`Before`) | the merge sort of `cgen.rs`, a comparison at a time |
| `RingBuf` | the queue of a channel | the ring of `rt_conc.c` |
| `NetBuf` | the stream that was sent | what the calls returned |
| `Dict` | list of pairs | hash table with an index that is rebuilt |
| `Memory` | `RawBuf` with a flag | blocks, arenas and generations of debug builds |

| Property of `library` | Says |
|---|---|
| `SameAnswer` | compiled patterns, Str methods, Int operators, reverse, slice and channels give the same on both sides |
| `MatchIsMeaning` | the machine finds the first place where what the pattern means matches, with priorities and groups; a loop that would never end finds nothing |
| `NothingRepeated` | find_all, split_re and replace go through the text without losing, repeating or missing anything |
| `LinesWhole` | recv, recv_line and recv_n give each byte once and in order, a line ends at its first newline, and less than was asked for comes only at the end or is nothing, after a failure |
| `JsonAgrees` | what is written is read back by both; both accept the same texts |
| `SortedStably` | a sorted list has each element once, smaller keys first and equal keys in the order they came |
| `DictsAgree`, `ProbingEnds` | after any calls the table has the pairs in their order, copies are apart, and there is always an empty slot to stop at |
| `NoUseAfterFree`, `BlocksApart` | an access that a debug build lets pass is to memory that is still there, and the interpreter says the same; blocks never overlap |

Bounds. Patterns to compile: every sequence of up to three of 14 signs, which
is enough for each complaint and each class of mistake of the two parsers; patterns
to match: trees of two operators over letters, anchors, sets and groups, against
every text of up to three letters. `MaxSteps = 150` stands for the two million
steps of a match: no finite match of these sizes needs as many, so that only
endless ones reach it. JSON: every sequence of up to four of 14 signs, one of them half a surrogate pair, and every
numeral of up to four; `Bits = 4` for 64. Dicts: three keys with two hashes, so
that keys collide, and a table that starts with two slots. Memory: three blocks,
two arenas, chunks of three cells. Lists to sort: up to six keys of three values,
which is three passes with runs of every length at the end of each. Scans: texts of
up to four places and every way to match in them. NaN as a key of a sort is
not modelled, since Rust promises no order for it. `Dict`, `Memory`, `ListSort`, `Scan`
and `NetBuf` are proved for any of these (section 4).

`Exempt` and the conditions of `JsonAgrees` name where the two sides are known to
part, each one confirmed by TLC when the exception is dropped: an empty separator
of `split` and `replace`; blanks of Unicode in `strip`; signed overflow, which C
leaves undefined and Rust wraps; texts with half a surrogate pair; and numerals
such as `1-2` or `1e`. `JsonSameAnswer` is the sentence of json.rs without
exceptions ("the same answer"), and TLC refutes it on the last two.

## 9. The language, twice

`Interp` is the interpreter, `Types` the check, `Cgen` the generator and `Native`
what its C does when it runs: headers that share buffers, buffers that are given
back when a list grows, variables without a value, and operands in the order that
the C compiler likes. `Ast` has what a program is, `Outcome` how a step ends. One
action of `Language` is one stage: `Check`, `Run`, `Generate`, `Execute`. The
modules are long because they define a language three times; each rule is one
definition, and most are shorter than the code they stand for.

Functions of the source that call each other (a block runs statements, which
evaluate expressions, which call functions, which run blocks) meet in one recursive
operator per module: `Walk`, `Judge`, `Emit` and `Perform`. The source's names are
one-line definitions that ask it (`eval(m, e) == Walk("eval", m, e)`), and what each of them
does is a definition of its own below.

| Run | Shows |
|---|---|
| `language` | for 3126 programs: what the check accepts runs without a type error (`CheckedRunsRight`); the C is accepted by the C compiler (`CheckedCompiles`); it never reads a buffer that was given back or a variable without a value (`NothingStale`); it prints and ends as the interpreter does, in either order of operands (`SameOutput`) |
| `language_output` | violated: programs from the corners where the two are known to part |

Programs. Each has the same functions (inout, owned and generic parameters,
fallible ones, contracts, recursion), a struct with methods, an enum, and variables
of every kind that share lists with each other; then one to four statements: every
simple one, each alone and inside `if`, `while`, `for`, `match`, `catch` and inner
functions, pairs of those that change what another looks at, and triples around
narrowed names. At the end everything is printed. `FirstCap = 2` (8 in the code)
makes lists grow at the first push, which is when sharing shows. `MaxDepth` and
`MaxRounds` end recursion and loops; programs that reach them ("endless") or the
interpreter's limit of depth are left out of `SameOutput`, since C has no such limit.

What the passing run leaves out, and what happens there (`OutputCorner` and
`CheckCorner` of `MCLanguage`):

- an inner `let n = n + 1` reads the new variable in C (cgen.rs 2806);
- the element of a `for` is the list's own in the interpreter and a copy in C, a
  literal that holds a list shares it in the interpreter, and the counter of a
  range that the body changes is changed for the loop in C;
- pushing onto a list that is being iterated, and `xs[0] = grow(xs)`, use the old
  buffer in C;
- `print(n, bump(n))`, `n + bump(n)` and a literal of which only one element calls
  something depend on the C compiler;
- `ps[f()].xs[0] = v` calls `f` twice in the interpreter, which evaluates the object
  once more to find the type of its elements (interp.rs 346 and 2071), and once in C;
- a literal that mixes positional and named arguments, `P(9, a=n)`: the interpreter
  gives a positional argument to the field of its place and C to the next field
  that has no name, so that `9` is dropped by the one and refused by the C compiler
  in the other;
- `xs + xs`, a narrowed name declared again in an inner block, and two
  `let (a, b) = t` in one block are refused by the C compiler;
- the check does not look at the arguments of methods, the later keys of a literal,
  or the argument of `contains`: `p.add()` passes and then fails in both. With
  `Corner = "check"` TLC refutes `CheckedRunsRight`, `CheckedCompiles` and
  `SameOutput`.

## 10. Findings

- `pkg_lock_url`: pkg.rs 366 trusts an existing clone whatever its origin.
- `net_stale`: rt_net.c 287 cannot tell a closed connection from its successor.
- `language_output`: compiled programs print something else than interpreted ones
  in the corners of section 9, against README.md:7 and README.md:119.

Each is a run that is expected to end in a violation; its trace is short. Others
are stated without a run, in sections 5, 6, 8 and 9.

## 11. Not modelled

- Lexer, parser, formatter, header import, calendar: functions of a text that keep
  nothing; the models begin at the syntax tree, and the repository tests the rest on
  examples.
- Module loader and name spaces: each file once, depth first, names prefixed.
- Language server: one thread, one message at a time; its hazard is in `PROJECT.json`.
- Process execution and the driver's temporary files: what tasks and runs share
  there is listed as hazards, but nothing says what they should see.
- In the language: traits, generic structs, methods of enums, `defer`, unsafe blocks, calls of C,
  Float; in the library: formatting of Float, case folding, release builds, which
  check no pointer.
- The C compiler, git, the network and the operating system are taken as what the
  code relies on: git moves a clone or fails, a pipe keeps order, a mutex excludes,
  a condition variable may wake for no reason.

## 12. Running it

    tlc -workers 2 -config MCConcInterp.cfg MCConcInterp
    tlapm ConcInterpProofs.tla

and so on for the module and cfg of each run in `PROJECT.json`, and for
`ConcNativeProofs`, `PkgProofs`, `DebuggerProofs`, `NativeDebugProofs`, `NetConnProofs`,
`MemoryProofs` and `DictProofs`. The longest runs, `language`, `interp` and `pkg`, take
about two minutes each, the longest proofs a few.
