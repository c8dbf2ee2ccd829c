# TriforceAFL: specification and verification

TriforceAFL is AFL (afl-fuzz and its tools) together with a patched QEMU that
forks a *running virtual machine* for every test case. This directory holds
TLA+ modules of its core logic, the TLC runs that check them on small instances,
and TLAPS proofs for every instance. Paths below are relative to `src/`.

## 1. The system

### 1.1 A fuzzing session

```
 afl-fuzz ──control pipe──▶ QEMU (fork server, IO thread) ──fork()──▶ copy of the VM
    ▲  ◀──status pipe (hello, pid, status)──┘   ▲                        │ runs one test case
    │                                           └──── TSL pipe ──────────┤ (blocks it translated)
    └────────────── trace_bits (shared memory map) ◀─────────────────────┘
 queue/ ◀──read by──▶ other instances of afl-fuzz;  queue/ ⇄ _resume/ across restarts
```

afl-fuzz picks a case from its queue, mutates it, has it run, and keeps the
mutated case if the map shows something new. Signals (SIGALRM, SIGINT) interrupt
it at any point. The fork server is the guest's own VM: when the guest executes
`aflCall(startForkserver)`, the CPU thread of QEMU hands over to the IO thread
and ends, and the IO thread forks; in every copy a new CPU thread goes on where
the old one stopped.

### 1.2 Components

| component | state | operations | interacts with | what is hard | module |
|---|---|---|---|---|---|
| fork server protocol (`afl-fuzz.c` init_forkserver, run_target, handlers; `qemu_mode/qemu/afl-qemu-cpu-inl.h`) | child_pid, timeout and stop flags, timer; the server's child; two pipes of untagged words; the map; the process table | handshake, command, read pid, read status, report; fork, drain TSL, reap, relay; SIGALRM, SIGINT | pipes, signals, shared memory | signals between any two system calls, deaths of every party, pid reuse, a pipe at its limit | `ForkServer`, `TestRunner` |
| VM hand-over (`qemu_mode/qemu/cpus.c`, `cpu-exec.c`, `target-i386/translate.c`) | two threads, the global mutex, first_cpu, restart_cpu, AFL's flags | aflCall ×4, notify, forget, lock/kick/yield, fork, restart CPU | mutex, condition variables, signal, pipe, fork | a multi-threaded process that forks; unlocked reads | `VMFork` |
| corpus (`afl-fuzz.c`) | queue entries, top_rated, tc_ref, trace_mini, favored, virgin_bits, counters | dry run, calibrate, score, cull, pick or skip, trim, fuzz, save, import | run_target, sync, UI | long sequences of calls on redundant state, targets that vary, failures half way | `Corpus` |
| sync of instances (`afl-fuzz.c`) | queue directories, `.synced/*` markers | create, write, unlink, scan, import, die, restart | file system | no locks, partial files, unordered readdir() | `Sync` |
| output directory, resume (`afl-fuzz.c`) | `queue/`, `_resume/`, `.state/`, `fuzzer_stats` | rename, clean, mkdir, read, pivot, nuke | file system | kills between any two system calls, several times | `Resume` |
| LLVM-mode run time (`llvm_mode/afl-llvm-rt.o.c`) | child_stopped, was_killed, children asleep, cycle_cnt | hello, command, write off, fork or SIGCONT, relay; raise(SIGSTOP) | the same afl-fuzz side as the fork server | a timeout kills a child that has just stopped; the server learns of it one command later | `Persistent` |
| deterministic stages (`afl-fuzz.c` fuzz_one, could_be_*) | out_buf, eff_map, stage, passed_det | 15 stages, the filters between them, skip, abandon, mark | dictionaries, run_target | widths, byte orders, wrap-around; test cases left out for ever by a wrong filter | `DetStages`, `FuzzOne` |
| dictionaries (`afl-fuzz.c`) | extras, a_extras, auto_changed, `auto_extras/` | load_extras, maybe_add_auto, save_auto, load_auto | token collection in fuzz_one, resume | a bounded table with two sort orders, kills between two files | `AutoExtras`, `FuzzOne` |
| crash and hang triage (`afl-fuzz.c` save_if_interesting, simplify_trace) | virgin_crash, virgin_hang, the counters | look at a fault, keep it or not | run_target | the verdict depends on the whole history of faults | `Triage`, `FuzzOne` |
| afl-tmin | in_data, tmp_buf, block sizes, alpha_map | dry run, four stages, passes, output | its own fork server, ^C | four stages that undo each other's fixpoints, runs that fail half way | `Tmin` |
| word-wise map loops and counters, score, run_target by execve(), UI | | | | pure functions, mostly | not modelled (section 7) |
| afl-showmap, afl-analyze, afl-cmin, afl-gcc/afl-as, LLVM pass, alloc-inl.h, ARM aflCall, scripts, experimental/ | | | | | not modelled (section 7) |
| QEMU itself | | | | | vendored; only what the patch relies on |

`PROJECT.json` lists every component with its sources and the reason where it is
left out, and the hazards: each place in the code that is hard to test, with the
properties that watch over it.

## 2. Modules and their correspondence to the code

Definitions carry the names of the functions they model
(`run_target_ReadStatus` is the read of the status in `run_target()`);
`PROJECT.json` "map" has the lines. An operator whose comment starts with
*Mutant* is a plausible bug of the definition after it. No specification uses
them; they exist to show that each property can fail.

**ForkServer.** One action is one system call. `fpc`, `spc` and `proc` say where
afl-fuzz, the server and the children are. A word in a pipe has a tag that says
what the *writer* meant; readers never look at it, so a reader that takes a
status for a pid is expressible (and is what `PipeInSync` excludes). `trace` is
the set of processes that wrote the map since it was cleared. `ran` is a history
variable, the child of the current command. SIGALRM and SIGINT handlers run
between any two actions; `handle_stop_sig` makes two kill() calls, and both
interleave with everyone else. The server, afl-fuzz and children die at any
point; the kernel gives a reaped pid to another process or to the next child.
A child just out of fork() still holds the server's pipe ends, so end of file
appears only after it has closed them. afl_wait_tsl() leaves its loop at the first
read() that is short or fails (`afl_wait_tsl_Fails`), also with the child still
running. Several runs after one another are covered.

**TestRunner** is the abstract specification, what run_target() promises its
callers: a run launches at most one child, delivers only after that child has
ended, and delivers the result the child's end deserves. `ForkServer` implements
it under the mapping at its end (`Runner == INSTANCE TestRunner WITH ...`).

**VMFork.** `vm[q]` is the memory and the two threads of QEMU process `q`; fork()
copies the record and drops the CPU thread. An action is a stretch of one thread
between two points at which the other can see or change something; in particular the
three reads of first_cpu in qemu_mutex_lock_iothread() (two at line 1142, one in
the kick) are three actions, because they are not under the mutex. A round of the
main loop unlocks the mutex around poll() or, with a timeout of 0, keeps it
(`main_loop_Spin`); `ready` is what poll() has found. The guest makes its calls in
any order.

**Corpus.** Sequential code, but one that keeps the same facts in several
places. Each run of the target yields *any* trace and any fault. The loops of
update_bitmap_score() and cull_queue() over the map go one byte per step.
exec_cksum is the trace itself (hash collisions are left out). With `MaxEntries`
reached no further case is found (a bound, in the guard of save_if_interesting).

**Sync.** A test case is the set of map bits it hits. A file is missing, empty
(between open() and write()) or complete; `job` is the case an instance writes,
`scan` holds the locals of sync_fuzzers(). A directory scan returns names in any
order, and names created during the scan may or may not appear; `scan.must` are
those it has to return. An instance dies between any two system calls; its
restart, many system calls long, is one step here and the subject of `Resume`.

**Resume.** Every system call of an in-place resume (`-i -`) that changes
`queue/`, `_resume/` or `fuzzer_stats` is a step, and a kill can follow each.
`found` and `done` are what the sessions so far have ever saved; `torn` records
that a kill hit nuke_resume_dir().

**Persistent.** Extends `ForkServer`: afl-fuzz, the signals, the pipes and init are
the same actions; the server and the children are those of `afl-llvm-rt.o.c`. A
process is asleep when it is in `halted`. It implements the same `TestRunner`
under another mapping: for the caller a child that stopped has ended well.
cycle_cnt counts down modulo `CntMod`, as an unsigned does when the loop is called
again after its end. Nothing wakes a sleeping child once the server is gone: the
server is a session leader without terminal (setsid(), `afl-fuzz.c` 1906), so its
group was orphaned all along and the kernel sends no signal when it dies.

**DetStages** has no state: the words, the bit flips, the effector map, the three
filters and the sets of test cases of each stage, in 8, 16 and 32 bits. A word is
the sequence of its bytes, and sums carry from byte to byte. `Wanted` is the reference: what the stages would
run without filters and without effector map.

**AutoExtras** holds the two dictionaries. qsort() may leave equal elements in
any order (`Sorts`); every file of save_auto() is an open() and a write(), with a
kill possible in between. The rule that the 16-bit test compares an unsigned with
a signed value, so that negative values match only when swapped, is kept.

**Triage** is the switch at the end of save_if_interesting(). `met` is history:
every fault looked at, and the verdict.

**FuzzOne** composes the three with fuzz_one() and main(). A queue entry is an
input together with what the target shows for it: the checksum after each flip of
a lowest bit (`lsb`) and whether inverting a byte matters (`inv`). As checksums
are taken from trace_bits after the run was triaged, `lsb` and `inv` are those of
the map as it was left, simplified or not. The walking bit
goes byte by byte, because it offers tokens to the dictionary; the stages that write
tokens over the input go token by token (`OverToken`, with `next_tok` and `last_len`
for the inner loop's j and last_len) and restore once per position (`OverRestore`),
because they leave the buffer dirty in between; the other stages are a step each. With
`-d` or `-S` (`skip_det`) the stages are passed over. Any test case may fault (`Fault`), be the
one at which the entry is abandoned (`Abandon`: too many hangs, SIGUSR1, ^C), or be
followed by the minutely save (`StatsSave`). Entries are passed over at random
(`Skip`; why is in `Corpus`). `Restart` is a kill, or an exit, and a resume in place.

**Tmin** is minimize() of afl-tmin with its dry run and output. The target is any
deterministic program: its answer for an input is chosen at the first run and
remembered, so one run of TLC covers every such target for the given file. A run may
time out nevertheless (`MaxHangs`), and ^C may take the fork server along, after
which every run fails with 0; a dry run cut off by ^C passes, since nobody looks at
its result.

**MC modules.** `MCForkServer`, `MCPersistent`, `MCCorpus`, `MCSync`, `MCFuzzOne`
and `MCTmin` give values to constants that a configuration file cannot express.
The modules named `...Proofs` hold the theorems (section 6).

## 3. Runs

| run | shows |
|---|---|
| `forkserver` | `PipeInSync`: no timeout, stop or death ever shifts run_target()'s two reads against the server's two writes. `TraceIsolation`: no child of an earlier run writes the map of a later one. `StatusIsOwn`: the judged status is that of this command's child. `NoFalseCrash`: what afl-fuzz killed is not reported as a crash. `RefinesTestRunner`. `RunTerminates`: every run ends although read() has no timeout of its own. `ServerLeaves`: the server follows afl-fuzz, unless a copy of the VM is still alive or it never became a server. `TypeOK`: a pid written, read or killed is a child's, never the -1 of a failed fork(), and the pipes hold at most one command and two answers. |
| `persistent` | `RunTerminates` for this server, too. `RunsOnCommand`: nobody writes the map while afl-fuzz reads or clears it, although the last child still exists. `StopFlagExact`: a child the server wakes is alive and asleep, and one it waits for is dead. So the end of a child killed in its sleep is never reported for a later test case. `PersistentServerLeaves`: the server follows afl-fuzz unless a child still runs, and leaves at most one child behind, asleep. `PersistentRefinesTestRunner`. |
| `vmfork` | `MutexHasOwner`: the mutex is never lost in fork() or with an ended thread. `ForkQuiescent`: when the IO thread can fork, everything is handed over, and a copy goes on where the server's guest stopped. `ServerLeavesNoTrace`. `HandoverCompletes`, `ChildResumes`, `IoGetsMutex`. |
| `corpus` | `RefCounts`: tc_ref and trace_mini agree with top_rated, and the favorites are calibrated. `PendingExact`: the counters that decide what fuzz_one() skips are exact, even where cull_queue() counts a favorite twice. `FavoredCover`: unless a cull is due, the favorites cover each byte that has a best entry. `PendingDrains`: no dice keep a pending favorite waiting for ever. |
| `sync` | `NoNameClash`: O_EXCL never meets an old file. `NoEcho`: imports do not travel back and forth. `CrashLosesOneCase`: a death costs at most the case being written. |
| `sync_live` | `CasesArrive`: a case complete before the peer starts to look reaches the peer, while nobody trims or restarts. |
| `fuzz_one` | `DetDoneComplete`: an entry marked as done has seen every test case of the unfiltered stages, up to two named exceptions. `TokensExact`: the tokens offered are exactly the maximal runs of bytes with one effect. `OverlaysExact`: leaving out the restore between two tokens neither drops nor mixes test cases, and the buffer is the input again afterwards. `EvictsLeastUsed`: the bounded table keeps what is used. `TokensSurvive`: the files follow the table, and survive kills as far as they were written. `FaultsKeptExactly`: a fault is kept if and only if `docs/technical_details.txt` section 8 calls it unique. |
| `tmin` | `ResultReproduces`: what is held, and written, is always an input that was run and kept. `DeletionMinimal`: no single character of the result can go. `Terminates`. |
| `resume` | `KillsAreSafe`: kills before nuke_resume_dir(), however many, cost neither a case nor a mark. When `_resume/` is removed everything is in `queue/`. `ResumeCompletes`: whatever an earlier kill left behind, the next session gets through. |

Three runs show where the code does not keep what a comment or document says
(the quotations are in `PROJECT.json` "findings"):

| run | what TLC finds |
|---|---|
| `io_thread_fault` | The IO thread tests first_cpu, the CPU thread clears it, the IO thread reads it again on the same line, or in the kick, and follows NULL. |
| `sync_skips` | A case that is created and not yet written when the peer looks is passed by the peer's marker for good. |
| `resume_loss` | A kill inside nuke_resume_dir() leaves a part of `_resume/`; the next resume prefers it, and deletes the complete `queue/`. |

More disagreements were met and have no run of their own:

- child_pid (`afl-fuzz.c` 121, "PID of the fuzzed program") names a pid that the
  server has already reaped until run_target() has read the status; a timeout or
  ^C in that window can kill another process that was given the pid. The action
  `handle_timeout` of `ForkServer` has this behaviour.
- Bits seen only by a failed calibration, or by a calibration run that was not
  the last, have no favorite and are not new any more (`FavoredCover` of `Corpus`
  is stated for the bytes that have a best entry for this reason).
- could_be_bitflip() (`afl-fuzz.c` 4518, "1-, 2-, and 4-bit patterns are OK
  anywhere") numbers bits from the low end of a word, FLIP_BIT from the top of
  each byte: two or four bits on both sides of a byte border, such as an xor of
  0x01e0, count as tried and are not (`Straddles` in `DetStages`, the second
  exception of `DetDoneComplete`). The 16- and 32-bit stages drop these test cases.
- `memset(alpha_map, 0, 256)` (`afl-tmin.c` 692) clears 64 of 256 counters: later
  passes try symbols that are gone. `Tmin` has this, and `Terminates` shows it
  harmless: the next pass ends after its deletions.
- The handshake timer is disarmed after the hello was read, so "fork server is
  up" may be printed for a server that was just killed (`afl-fuzz.c` 1988).
- The mark afl_setup() leaves for low AFL_INST_RATIO is wiped by the first run
  (`afl-qemu-cpu-inl.h` 146).
- queued_favored may count an entry twice when it was scored with two traces
  (`afl-fuzz.c` 1138).
- The instructions after `startForkserver` in the same translation block run
  before the fork, not in every copy (`docs/triforce_internals.txt` 22).

## 4. Bounds

- *Fork server*: two pids are the smallest number at which the pid of an old child
  differs from that of the new one while a bystander takes the other. `TslCap = 1`: a full and an empty pipe both
  occur. The number of runs is not bounded. 1.03 million states, depth 61. The theorems need none of these bounds.
- *VMFork*: `MaxOps = 3`: calls before, at and after the hand-over; the server
  and one copy (copies do not meet: `ForkServer`, OneChild). 12,159 states, depth 44.
- *Corpus*: two bytes, one of them with two hit counts (so that has_new_bits()
  returns 0, 1 and 2), up to three entries (one loses its last byte to another
  while a third is current), a long calibration of two runs (a variable trace
  is detected and the trace kept is another one), two calibration chances, one
  chunk that can be trimmed, one execution time (so `<=` ties occur: a later
  entry takes every byte it hits, and trimming changes the product).
- *Sync*: two instances, two bits, one trim and one death; a third instance
  would only repeat the pairwise protocol. `sync_live` has no trims or restarts:
  its property is stated for that case.
- *Resume*: three cases, three kills (a kill of the resume of a killed resume).
- *Persistent*: two pids, two test cases per process: a child that is woken, one
  that leaves its loop, and one forked in the place of a killed one. `CntMod = 3` with
  `MaxCnt = 2`: a child that calls the loop once more after its end meets the
  wrap-around. 0.50 million states, depth 88.
- *FuzzOne*: 362 audited scenarios: every input of one or two bytes from {0, 1, 127, 128, 255}
  and of three or four from {0, 127, 128, 255}, and some longer ones with blocks without effect,
  all with the real ARITH_MAX and the real interesting values: carries, signs and
  swapped values all have their borders there. The dictionary is scaled down (tokens of 3 or 4 bytes, 2 used of 4
  kept) and fed by texts whose tokens are too short, too long, at the end of the
  file, equal but for case, or more than the table holds; one restart. Triage: two bytes of
  the map, three faults, limits of two crashes and one hang: both clauses of
  uniqueness, both limits. Dumb mode and `-d` have scenarios of their own. 3.6 million states, depth 165.
- *Tmin*: files of up to four characters from both halves of alpha_map, with
  equal neighbours; one spurious timeout; all deterministic targets. 1.74 million states,
  depth 67.

Deadlock is checked in the `forkserver` and `resume` runs. In `Persistent`,
`FuzzOne` and `Tmin` the programs end, in `VMFork` the guest
uses up its operations, in `Corpus` and `Sync` the program may stop (^C, a fatal
error, nothing left to find).

## 5. Fairness

- *ForkServer*: strong fairness for the main thread of afl-fuzz (it resumes
  after every handler, however many signals come), weak fairness for an armed timer, for
  the second half of a handler, for the server, for a newborn child's first
  steps, and for init. None for the end of a test case, for ^C, for failures (a
  read() of the TSL pipe that fails among them).
- *VMFork*: each thread is scheduled; a thread blocked on the mutex gets it when
  it is free again and again (futex queues). A round of the main loop that keeps the
  mutex and finds nothing is a stutter; that a round with unlock comes is
  MAX_MAIN_LOOP_SPIN (`main-loop.c` 204). None for the guest's calls or for
  interrupts.
- *Persistent*: as ForkServer. None for a child to
  reach the end of its test case.
- *Tmin*: afl-tmin goes on (weak fairness of its steps). Every run ends because
  it is timed. None for ^C.
- *Corpus*: the program goes on. It is not assumed that fuzzing finds anything, and
  the dice may fall against an entry each time they are rolled.
- *Sync*: the main loop calls sync_fuzzers() for each peer again and again.
- *Resume*: a process that was started and is not killed gets on with it. Nothing
  makes the user restart it.

## 6. Proofs

Eight modules prove for every value of the constants what the runs check for
small ones. Each extends the module it is about, and states its inductive
invariant as a conjunction of named parts; each part has a lemma with one step
per action, and the theorems at the end follow from the invariant. Every
invariant was checked by TLC on the bounds of section 4 before it was proved.

| module | obligations | theorems (property) |
|---|---|---|
| `ForkServerProofs` | 1598 | `TypeCorrectness` (TypeOK), `PipesStayInSync` (PipeInSync), `MapIsolation` (TraceIsolation), `StatusOwnership` (StatusIsOwn), `KillsAreNoCrashes` (NoFalseCrash), `Refinement` (RefinesTestRunner) |
| `PersistentProofs` | 1573 | `ChildrenRunOnCommand` (RunsOnCommand), `StopFlagIsExact` (StopFlagExact), `PersistentRefinement` (PersistentRefinesTestRunner) |
| `VMForkProofs` | 1432 | `MutexIsOwned` (MutexHasOwner), `ForksAreQuiescent` (ForkQuiescent), `OnlyCopiesTrace` (ServerLeavesNoTrace) |
| `CorpusProofs` | 1579 | `RefCountsAreExact` (RefCounts), `PendingIsExact` (PendingExact), `FavoritesCover` (FavoredCover) |
| `SyncProofs` | 953 | `NamesAreFree` (NoNameClash), `ImportsDoNotEcho` (NoEcho), `DeathCostsOneCase` (CrashLosesOneCase) |
| `ResumeProofs` | 259 | `ResumeTypes` (TypeOK), `KillsCostNothing` (KillsAreSafe) |
| `FuzzOneProofs` | 6622 | `TablesStayInBounds` (TypeOK), `TokensAreExact` (TokensExact), `TokensAreKept` (TokensSurvive), `EvictionSparesTheUsed` (EvictsLeastUsed), `FaultsAreTriaged` (FaultsKeptExactly), `OverlaysAreExact` (OverlaysExact), `FiltersLoseNothing`, `MarkedIsComplete` (DetDoneComplete) |
| `TminProofs` | 516 | `ResultIsKept` (ResultReproduces), `ResultIsMinimal` (DeletionMinimal) |

**ForkServer**, for every set of pids, every capacity of the TSL pipe and all
flags (`PidsAssumption`, `TslCapAssumption`, `FlagsAssumption`). None of the
properties is inductive: `PipeInSync` says what is at the head of a pipe while
afl-fuzz reads, and depends on what the server may have written before.
`IInv == TypeOK /\ OneChild /\ Protocol /\ CleanMap /\ KillsExplained`:

- `OneChild`: while the server lives, only the child it waits for is alive, and a
  command not yet carried out has no child;
- `Protocol`: for each place of afl-fuzz, the places the server can be at and
  the exact words in both pipes (the reason that the untagged words cannot be
  confused);
- `CleanMap`: who may be alive and who may have written the map;
- `KillsExplained`: a child with the status of a SIGKILL by afl-fuzz has a flag
  to show for it.

The refinement proof (`RunnerStep`) maps each action to a step of `TestRunner` or a
stutter, with `IInv` for the facts the action's guard does not say, such as that a
child is alive when the handler kills it.

**Persistent**, also for every argument of `__AFL_LOOP` and every width of its counter
(`PersistentAssumption`).
`OneChild` is false here: a child of an earlier command may be alive and asleep,
and afl-fuzz may have killed it since. `PInv` replaces it by an account of who
knows: `ServerSide` (nobody but srv_child is alive, and it sleeps exactly when
child_stopped is set), `KillKnown` (the kill is recorded first in
child_timed_out, then in prev_timed_out, then in the word in the control pipe,
then in was_killed, and each of them tells the truth while it is the one that will
be read), `PidHeld` (which process a handler would kill), `PProtocol` and
`PKillsExplained` as above with stopped children.

**VMFork**, for any number of guest operations (`MaxOpsAssumption`). `VInv` has a
part about the two threads of one process (`Local`: `Owned`, who holds the mutex;
`HandedOver`, a CPU thread that has notified the IO thread finds no CPU in the
list and never leaves its wait with the mutex; `Flags`), which a fork() copies,
and a part that relates processes (`ServerPart`: the byte in the pipe and where the
CPU thread is; `CopyPart`: copies exist only of a server that serves). Where the
IO thread has followed NULL (the finding of `io_thread_fault`) nothing is claimed
of the mutex.

**Corpus**, for every map, queue and target, deterministic or not
(`CorpusAssumption`). `CInv` adds to the three properties the place (`Place`,
`Passed`: what is scored has passed its calibration; `Dry`), what a cull has done
so far (`Culled`), and `Minis`: the trace_mini of the best entry of a byte shows
that byte. `Minis` fails for an entry that was trimmed and scored with another
trace while trace_mini was kept. The counters are exact nevertheless, because
fuzz_one() marks this entry as fuzzed before the next cull; the invariant
therefore speaks of entries not fuzzed, up to the moment (`Busy`) where that
one is.

**Sync**, for any number of instances, any finite map, any number of trims and
deaths (`SyncAssumption`). `SInv` speaks of one instance at a time: `JobNamed` (the
name being written was given out and is free), `NamesBounded` (each name
has cost a bit of the map, so that names are bounded by the bits seen),
`HeldFresh` (`NoEcho` extended to the case not yet on disk) and `SeenIsHeld`
(virgin_bits has lost nothing but what is on disk or on its way).

**Resume**, for any set of cases and any number of kills (`ResumeAssumption`).
`RInv`: `DirsSane`, `NothingInvented`, and `NothingLost`, which says for each place
of the startup which of the two directories holds everything ever found, unless
a kill has hit nuke_resume_dir() (the finding of `resume_loss`).

**FuzzOne**, for every queue, dictionary, effect of the bytes, size of the tables
and number of restarts (`FuzzOneAssumption`, `ExtrasAssumption`,
`TriageAssumption`). The inductive invariants build on one another:

- `FInv`: the tables and files hold proper tokens, none twice in whatever case
  (`Tables`); what save_auto() has written and has still to write (`Saved`:
  auto_changed is cleared at the *begin* of the save, so that the files follow
  the table only because nothing changes it in between); the table has room for all
  files while they are loaded (`Loaded`); the bits left in the virgin maps as a
  function of the faults so far (`Triaged`).
- `Ranked`: beyond the USE_AUTO_EXTRAS first, which are sorted by length, no
  token has been seen more often than one before it. The victim comes from the
  second half of the table, which `2 * USE_AUTO_EXTRAS <= MAX_AUTO_EXTRAS` keeps
  outside the part sorted by length; config.h has 50 and 500.
- `WInv`: after each byte of the walking bit, prev_cksum and a_collect describe
  the run the byte is in (`Walking`), and the tokens offered are the runs that
  ended before. It needs `1 < MIN_AUTO_EXTRA` (config.h: 3). With
  1 the code would miss a run that consists of the last byte alone, and offer
  the last byte of a file where the flip has no effect.
- `OInv`: both tables are sorted by length as far as they are used (`ByLength`),
  and in an overwriting stage the buffer is the input with one token at the
  current position and nothing else (`Written`), while every overlay of an earlier
  position, or of an earlier token at this one, has been run unless it is the input
  itself (`Covered`). A shorter token after a longer one would leave a rest of it, which the
  restore of last_len bytes does not reach: this is where the order of the
  table is needed. A token skipped because the buffer holds it already may be one
  that has just been written, and then the overlay has been run.
- `AInv`: the test cases of the stages before the current one have been run.

`FiltersLoseNothing` is about the operators of `DetStages` alone, for every input, every
effector map and all three widths (`StageAssumption`). One lemma per filter:

- `BitflipTried`: what could_be_bitflip() rejects differs in 1, 2 or 4 neighbouring
  bits, or in whole bytes. It is one of the walking bit's or of the inverted words,
  or it crosses a byte border, and then it is one of `Straddles`, the only exception.
- `SumTried`: a sum left out because it does not carry out of its low half is
  the sum of that half, at that half's place in memory, in either byte order
  (`HalfSum`, `SubWord`); so the stage of half the width accounts for it.
- `ArithTried`: what could_be_arith() rejects differs in one aligned part of 1, 2 or
  4 bytes (`ArithPart`), by a sum of that part.
- `InterestTried`: what could_be_interest() rejects is an interesting value of
  a narrower part or of the other byte order, which was tried before; the
  widths are taken in the order of the stages (`ValuesStep`).

A test case that a stage skips at a position for the effector map changes
ineffective bytes only (`Ineffective`). `MarkedIsComplete` puts this together with `AInv`.

**Tmin**, for every file shorter than TMIN_MAX_FILE and every deterministic target
(`TminAssumption`). `TMInv`: `Kept` (what is held was run and kept; in stage #3
tmp_buf equals in_data) and `Progress`, how far the round of single-byte deletions has
come while nothing changed. The code skips a byte equal to the one before
it, which is sound because deleting either gives the same file.

### Only model-checked

- *Liveness* (fairness and ENABLED are out of the prover's reach): `RunTerminates`,
  `ServerLeaves`, `PersistentServerLeaves`, `HandoverCompletes`, `ChildResumes`,
  `IoGetsMutex`, `PendingDrains`, `CasesArrive`, `Terminates`, `ResumeCompletes`.

Every safety property of the passing runs is proved, both refinements of `TestRunner` included.

## 7. Not modelled

- *afl-fuzz*: dumb mode, crash exploration mode (`-C`), `-B`, AFL_IMPORT_FIRST,
  AFL_NO_VAR_CHECK, post-processing libraries; run_target()
  without fork server; the random edits of havoc and splicing, which keep no state;
  the syntax of dictionary files; the names of crash and hang files; performance
  scores; the word-wise loops over the map (its functions are modelled byte by
  byte); the user interface. Dumb mode is in `FuzzOne` only.
  `redundant_edges/` and `variable_behavior/` mirror sets that are modelled.
- *Sync*: files longer than MAX_FILE (ignored by the code); contents are written by one write().
- *Resume*: back-ups of `crashes/` and `hangs/` (two resumes within the same
  second would collide), `.synced/`, the flock(), sessions with a new `-i`.
- *QEMU*: getWork's buffer, the kernel-log intercept, more than one CPU, KVM,
  QEMU without afl-fuzz, ARM.
- *LLVM mode*: the compiler wrapper and the pass; `AFL_DEFER_FORKSRV`.
- *Tools*: afl-tmin's `-x` and `-e` (other notions of the same behaviour: the target's answers are
  arbitrary anyway), afl-showmap, afl-analyze, afl-cmin, afl-gcc/afl-as, the
  allocator, scripts.

Known behaviours of `afl-fuzz.c` that no property is about, since no line of the
repository rules them out: the timer may strike between the read of a status and
its disarming (2281), and the run counts as a hang; a genuine crash at the moment of ^C is
discarded (2309); ^C while run_target() waits for the pid leaves that copy
without a killer (6482); a persistent child that is asleep when afl-fuzz ends, by ^C
or otherwise, sleeps for ever, because child_pid was cleared at the end of its run
(2281), handle_stop_sig() kills only child_pid and the server, and no hang-up comes
(1906); trim_case() interrupted by ^C has shortened `q->len` and
not the file (4269); a resumed session deletes the auto tokens with `_resume/`
before it writes them again (2859). Without afl-fuzz a second startForkserver
in the same process writes to a pipe end that was set to -1, and the CPU thread
ends with nobody told to restart it (`cpus.c` 1053).

## 8. Plan

Done: all modules of section 2, and the proofs of every safety property of the
runs. Left:

1. For the models: run_target() without fork server, and afl-showmap as a second
   client of the protocol.
2. For the proofs: the liveness properties, should the prover learn to treat fairness.
