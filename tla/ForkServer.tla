----------------------------- MODULE ForkServer -----------------------------
(***************************************************************************)
(* The fork-server protocol between afl-fuzz, the fork server inside QEMU  *)
(* (afl-qemu-cpu-inl.h) and the forked copy of the virtual machine that    *)
(* runs one test case.                                                     *)
(*                                                                         *)
(* Three programs run concurrently and share two pipes, one shared-memory  *)
(* map and the kernel's process table:                                     *)
(*                                                                         *)
(*   afl-fuzz     init_forkserver(), then run_target() over and over; its  *)
(*                main thread is interrupted by SIGALRM and by SIGINT;     *)
(*   fork server  afl_forkserver(): one fork per 4-byte command;           *)
(*   child        runs the test case, writes the map, and ends, crashes,   *)
(*                or hangs for ever.                                       *)
(*                                                                         *)
(* One action is one system call (or a stretch of code that no other       *)
(* program and no signal can tell from a single step).  Signal handlers    *)
(* run between any two actions of afl-fuzz.  run_target() is modelled in   *)
(* fork-server mode; the execve() mode of "dumb" targets is not here.      *)
(***************************************************************************)
EXTENDS Integers, Sequences, FiniteSets

CONSTANTS
  Pids,        \* process ids the kernel hands out
  TslCap,      \* translation requests the TSL pipe holds before a write blocks
  QemuSystem,  \* afl-fuzz runs with -QQ: qemu_mode > 1
  UsesAsan,    \* uses_asan
  InstRatio    \* AFL_INST_RATIO is set in the environment of the target

ASSUME PidsAssumption == Pids \subseteq (Nat \ {0})
ASSUME TslCapAssumption == TslCap \in Nat \ {0}
ASSUME FlagsAssumption == {QemuSystem, UsesAsan, InstRatio} \subseteq BOOLEAN

\* What a process leaves for waitpid(): exit(0), exit(n), exit(MSAN_ERROR), a
\* signal of its own making, the SIGKILL of afl-fuzz.
Statuses == {"ok", "fail", "msan", "sig", "kill"}
Signaled(s) == s \in {"sig", "kill"}            \* WIFSIGNALED
NonZeroExit(s) == s \in {"fail", "msan"}        \* WEXITSTATUS # 0

Faults == {"FAULT_NONE", "FAULT_HANG", "FAULT_CRASH"}

\* Who wrote into the map since the last memset: children, or afl_setup().
SetupMark == 0

\* The pipes carry bare 4-byte words.  The tag says what the writer meant by
\* the word; a reader never sees it.
Msg(tag, v) == [tag |-> tag, val |-> v]

VARIABLES
  fpc,              \* where afl-fuzz's main thread is
  child_pid,        \* afl-fuzz: -1, 0, or the pid read from the server
  child_timed_out,  \* afl-fuzz: set by handle_timeout
  prev_timed_out,   \* run_target's static, sent with the next command
  stop_soon,        \* afl-fuzz: set by handle_stop_sig
  timer,            \* ITIMER_REAL is armed
  in_stop,          \* handle_stop_sig is between its two kill() calls
  status,           \* run_target's local: the wait status it has read
  verdict,          \* what the last complete run_target returned
  ctl, st,          \* contents of the control and status pipes
  spc,              \* where the fork server is
  srv_child,        \* afl_forkserver's local child_pid
  srv_status,       \* afl_forkserver's local status
  tsl,              \* translation requests waiting in the TSL pipe
  proc,             \* process table
  exitst,           \* wait status of each zombie
  trace,            \* writers of trace_bits since the last memset
  ran               \* history: the child forked since the last memset, or 0

fuzzerVars == <<fpc, child_pid, child_timed_out, prev_timed_out, stop_soon,
                timer, in_stop, status, verdict>>
serverVars == <<spc, srv_child, srv_status>>
pipeVars == <<ctl, st>>
kernelVars == <<tsl, proc, exitst, trace, ran>>
vars == <<fuzzerVars, serverVars, pipeVars, kernelVars>>

-----------------------------------------------------------------------------
(* Who holds which end of a pipe.                                           *)

FuzzerAlive == fpc # "gone"
ServerAlive == spc \notin {"none", "dead"}
Alive(p) == proc[p] \in {"born", "run"}

\* A child just out of fork() still holds the server's two descriptors.
ServerEnds == ServerAlive \/ \E p \in Pids : proc[p] = "born"

\* The main thread of afl-fuzz is not inside a signal handler.
MainThread == ~in_stop

(* SIGKILL to process p, as the kernel does it: a child becomes a zombie    *)
(* (init reaps it when the server is gone); an unrelated process that now   *)
(* has the pid dies; a free pid or a zombie is left alone.                  *)
KilledProc(pr, p) ==
  CASE pr[p] \in {"born", "run"} -> [pr EXCEPT ![p] = "zombie"]
    [] pr[p] = "other" -> [pr EXCEPT ![p] = "free"]
    [] OTHER -> pr

KilledExit(p) ==
  IF Alive(p) THEN [exitst EXCEPT ![p] = "kill"] ELSE exitst

-----------------------------------------------------------------------------
(* afl-fuzz: init_forkserver().                                             *)

\* fork() of the server; close() of the far ends.
init_forkserver_Fork ==
  /\ MainThread /\ fpc = "spawn"
  /\ fpc' = "armhello"
  /\ spc' = "boot"
  /\ UNCHANGED <<child_pid, child_timed_out, prev_timed_out, stop_soon, timer,
                 in_stop, status, verdict, srv_child, srv_status, pipeVars,
                 kernelVars>>

init_forkserver_Arm ==
  /\ MainThread /\ fpc = "armhello"
  /\ timer' = TRUE
  /\ fpc' = "hello"
  /\ UNCHANGED <<child_pid, child_timed_out, prev_timed_out, stop_soon, in_stop,
                 status, verdict, serverVars, pipeVars, kernelVars>>

\* read(fsrv_st_fd, &status, 4): four bytes, or end of file.
init_forkserver_Hello ==
  /\ MainThread /\ fpc = "hello"
  /\ \/ /\ st # <<>>
        /\ st' = Tail(st)
        /\ fpc' = "up"
     \/ /\ st = <<>> /\ ~ServerEnds
        /\ fpc' = "nohello"
        /\ UNCHANGED st
  /\ UNCHANGED <<child_pid, child_timed_out, prev_timed_out, stop_soon, timer,
                 in_stop, status, verdict, serverVars, ctl, kernelVars>>

\* setitimer(0), then "All right - fork server is up." or one of the FATALs.
init_forkserver_Disarm ==
  /\ MainThread /\ fpc \in {"up", "nohello"}
  /\ timer' = FALSE
  /\ fpc' = IF fpc = "up" THEN "idle" ELSE "gone"
  /\ UNCHANGED <<child_pid, child_timed_out, prev_timed_out, stop_soon, in_stop,
                 status, verdict, serverVars, pipeVars, kernelVars>>

-----------------------------------------------------------------------------
(* afl-fuzz: run_target(), fork-server mode.                                *)

\* Mutant: the memset is forgotten.
run_target_Reset_KeepsMap ==
  /\ MainThread /\ fpc = "idle"
  /\ child_timed_out' = FALSE
  /\ ran' = 0
  /\ fpc' = "command"
  /\ UNCHANGED <<child_pid, prev_timed_out, stop_soon, timer, in_stop, status,
                 verdict, serverVars, pipeVars, tsl, proc, exitst, trace>>

\* child_timed_out = 0; memset(trace_bits, 0, MAP_SIZE).  ran restarts with it.
run_target_Reset ==
  /\ MainThread /\ fpc = "idle"
  /\ child_timed_out' = FALSE
  /\ trace' = {}
  /\ ran' = 0
  /\ fpc' = "command"
  /\ UNCHANGED <<child_pid, prev_timed_out, stop_soon, timer, in_stop, status,
                 verdict, serverVars, pipeVars, tsl, proc, exitst>>

\* A failed write or read: "if (stop_soon) return 0; RPFATAL(...)".  Returning
\* leaves the timer as it is; exit() takes it away.
BailOut ==
  /\ fpc' = IF stop_soon THEN "idle" ELSE "gone"
  /\ timer' = (timer /\ stop_soon)

\* write(fsrv_ctl_fd, &prev_timed_out, 4); SIGPIPE is ignored.
run_target_Command ==
  /\ MainThread /\ fpc = "command"
  /\ \/ /\ ServerEnds
        /\ ctl' = Append(ctl, Msg("cmd", prev_timed_out))
        /\ fpc' = "readpid"
        /\ UNCHANGED timer
     \/ /\ ~ServerEnds
        /\ BailOut
        /\ UNCHANGED ctl
  /\ UNCHANGED <<child_pid, child_timed_out, prev_timed_out, stop_soon, in_stop,
                 status, verdict, serverVars, st, kernelVars>>

\* read(fsrv_st_fd, &child_pid, 4), and FATAL unless the word is positive.
run_target_ReadPid ==
  /\ MainThread /\ fpc = "readpid"
  /\ \/ /\ st # <<>>
        /\ st' = Tail(st)
        /\ child_pid' = Head(st).val
        /\ fpc' = IF child_pid' \in Pids THEN "arm" ELSE "gone"
        /\ timer' = (timer /\ fpc' = "arm")
     \/ /\ st = <<>> /\ ~ServerEnds
        /\ BailOut
        /\ UNCHANGED <<st, child_pid>>
  /\ UNCHANGED <<child_timed_out, prev_timed_out, stop_soon, in_stop, status,
                 verdict, serverVars, ctl, kernelVars>>

run_target_Arm ==
  /\ MainThread /\ fpc = "arm"
  /\ timer' = TRUE
  /\ fpc' = "readstatus"
  /\ UNCHANGED <<child_pid, child_timed_out, prev_timed_out, stop_soon, in_stop,
                 status, verdict, serverVars, pipeVars, kernelVars>>

\* Mutant: the status of a child that timed out is not read.
run_target_ReadStatus_SkipOnTimeout ==
  /\ MainThread /\ fpc = "readstatus"
  /\ \/ /\ ~child_timed_out /\ st # <<>>
        /\ st' = Tail(st)
        /\ status' = Head(st).val
     \/ /\ child_timed_out
        /\ UNCHANGED <<st, status>>
  /\ fpc' = "clear"
  /\ UNCHANGED <<child_pid, child_timed_out, prev_timed_out, stop_soon, in_stop,
                 timer, verdict, serverVars, ctl, kernelVars>>

\* read(fsrv_st_fd, &status, 4).
run_target_ReadStatus ==
  /\ MainThread /\ fpc = "readstatus"
  /\ \/ /\ st # <<>>
        /\ st' = Tail(st)
        /\ status' = Head(st).val
        /\ fpc' = "clear"
        /\ UNCHANGED timer
     \/ /\ st = <<>> /\ ~ServerEnds
        /\ BailOut
        /\ UNCHANGED <<st, status>>
  /\ UNCHANGED <<child_pid, child_timed_out, prev_timed_out, stop_soon, in_stop,
                 verdict, serverVars, ctl, kernelVars>>

run_target_ClearPid ==
  /\ MainThread /\ fpc = "clear"
  /\ child_pid' = 0
  /\ fpc' = "disarm"
  /\ UNCHANGED <<child_timed_out, prev_timed_out, stop_soon, timer, in_stop,
                 status, verdict, serverVars, pipeVars, kernelVars>>

run_target_Disarm ==
  /\ MainThread /\ fpc = "disarm"
  /\ timer' = FALSE
  /\ fpc' = "report"
  /\ UNCHANGED <<child_pid, child_timed_out, prev_timed_out, stop_soon, in_stop,
                 status, verdict, serverVars, pipeVars, kernelVars>>

\* Mutant: a child killed on ^C counts as crashed.
Fault_IgnoresStop ==
  CASE child_timed_out -> "FAULT_HANG"
    [] ~child_timed_out /\ Signaled(status) -> "FAULT_CRASH"
    [] OTHER -> "FAULT_NONE"

\* Mutant: the wait status is looked at before the timeout flag.
Fault_SignalFirst ==
  CASE Signaled(status) /\ ~stop_soon -> "FAULT_CRASH"
    [] ~(Signaled(status) /\ ~stop_soon) /\ child_timed_out -> "FAULT_HANG"
    [] OTHER -> "FAULT_NONE"

\* The outcome run_target computes from the flags and the wait status.
Fault ==
  CASE child_timed_out -> "FAULT_HANG"
    [] ~child_timed_out /\ Signaled(status) /\ ~stop_soon -> "FAULT_CRASH"
    [] ~child_timed_out /\ UsesAsan /\ status = "msan" -> "FAULT_CRASH"
    [] ~child_timed_out /\ QemuSystem /\ NonZeroExit(status) -> "FAULT_CRASH"
    [] OTHER -> "FAULT_NONE"

\* classify_counts() rewrites counts in place and adds no writer.
run_target_Report ==
  /\ MainThread /\ fpc = "report"
  /\ prev_timed_out' = child_timed_out
  /\ verdict' = Fault
  /\ fpc' = "idle"
  /\ UNCHANGED <<child_pid, child_timed_out, stop_soon, timer, in_stop, status,
                 serverVars, pipeVars, kernelVars>>

\* Callers stop when stop_soon is set; exit() takes the timer with it.
FuzzerExit ==
  /\ MainThread /\ fpc = "idle" /\ stop_soon
  /\ fpc' = "gone" /\ timer' = FALSE
  /\ UNCHANGED <<child_pid, child_timed_out, prev_timed_out, stop_soon, in_stop,
                 status, verdict, serverVars, pipeVars, kernelVars>>

\* afl-fuzz itself dies (SIGKILL, a crash) wherever it is.
FuzzerCrash ==
  /\ FuzzerAlive
  /\ fpc' = "gone" /\ timer' = FALSE /\ in_stop' = FALSE
  /\ UNCHANGED <<child_pid, child_timed_out, prev_timed_out, stop_soon, status,
                 verdict, serverVars, pipeVars, kernelVars>>

-----------------------------------------------------------------------------
(* afl-fuzz: signal handlers.                                               *)

\* Mutant: the handler sets the flag and leaves the child to the server.
handle_timeout_FlagOnly ==
  /\ FuzzerAlive /\ timer
  /\ timer' = FALSE
  /\ child_timed_out' = TRUE
  /\ UNCHANGED <<fpc, child_pid, prev_timed_out, stop_soon, in_stop, status,
                 verdict, serverVars, pipeVars, kernelVars>>

\* SIGALRM.  The timer is one-shot: it_interval is zero.
handle_timeout ==
  /\ FuzzerAlive /\ timer
  /\ timer' = FALSE
  /\ \/ /\ child_pid > 0
        /\ child_timed_out' = TRUE
        /\ proc' = KilledProc(proc, child_pid)
        /\ exitst' = KilledExit(child_pid)
        /\ UNCHANGED spc
     \/ /\ child_pid = -1 /\ spc # "none"
        /\ child_timed_out' = TRUE
        /\ spc' = "dead"
        /\ UNCHANGED <<proc, exitst>>
     \/ /\ child_pid <= 0 /\ ~(child_pid = -1 /\ spc # "none")
        /\ UNCHANGED <<child_timed_out, proc, exitst, spc>>
  /\ UNCHANGED <<fpc, child_pid, prev_timed_out, stop_soon, in_stop, status,
                 verdict, srv_child, srv_status, pipeVars, tsl, trace, ran>>

\* SIGINT, SIGTERM, SIGHUP: first half, up to kill(child_pid).
handle_stop_sig_Child ==
  /\ FuzzerAlive /\ MainThread
  /\ stop_soon' = TRUE
  /\ in_stop' = TRUE
  /\ IF child_pid > 0
     THEN /\ proc' = KilledProc(proc, child_pid)
          /\ exitst' = KilledExit(child_pid)
     ELSE UNCHANGED <<proc, exitst>>
  /\ UNCHANGED <<fpc, child_pid, child_timed_out, prev_timed_out, timer, status,
                 verdict, serverVars, pipeVars, tsl, trace, ran>>

\* Second half: kill(forksrv_pid, SIGKILL).
handle_stop_sig_Server ==
  /\ FuzzerAlive /\ in_stop
  /\ in_stop' = FALSE
  /\ spc' = IF spc = "none" THEN "none" ELSE "dead"
  /\ UNCHANGED <<fpc, child_pid, child_timed_out, prev_timed_out, stop_soon,
                 timer, status, verdict, srv_child, srv_status, pipeVars,
                 kernelVars>>

-----------------------------------------------------------------------------
(* The fork server: afl_setup() and afl_forkserver().                       *)

\* shmat(), and a mark in the map when AFL_INST_RATIO is set.
afl_setup ==
  /\ spc = "boot"
  /\ trace' = IF InstRatio THEN trace \cup {SetupMark} ELSE trace
  /\ spc' = "sayhello"
  /\ UNCHANGED <<fuzzerVars, srv_child, srv_status, pipeVars, tsl, proc, exitst,
                 ran>>

\* write(FORKSRV_FD + 1, tmp, 4).  Nobody listening: not in fork-server mode,
\* so the program simply runs ("solo").
afl_forkserver_Hello ==
  /\ spc = "sayhello"
  /\ \/ /\ FuzzerAlive
        /\ st' = Append(st, Msg("hello", 0))
        /\ spc' = "wait"
     \/ /\ ~FuzzerAlive
        /\ spc' = "solo"
        /\ UNCHANGED st
  /\ UNCHANGED <<fuzzerVars, srv_child, srv_status, ctl, kernelVars>>

\* Mutant: end of file is retried like EINTR.
afl_forkserver_Await_Retries ==
  /\ spc = "wait" /\ ctl # <<>>
  /\ ctl' = Tail(ctl)
  /\ spc' = "order"
  /\ UNCHANGED <<fuzzerVars, srv_child, srv_status, st, kernelVars>>

\* uninterrupted_read(FORKSRV_FD, tmp, 4), exit(2) on end of file.
afl_forkserver_Await ==
  /\ spc = "wait"
  /\ \/ /\ ctl # <<>>
        /\ ctl' = Tail(ctl)
        /\ spc' = "order"
     \/ /\ ctl = <<>> /\ ~FuzzerAlive
        /\ spc' = "dead"
        /\ UNCHANGED ctl
  /\ UNCHANGED <<fuzzerVars, srv_child, srv_status, st, kernelVars>>

\* Mutant: "if (child_pid < 0) exit(4)" is forgotten.
afl_forkserver_Fork_Unchecked ==
  /\ spc = "order"
  /\ \/ \E p \in Pids :
          /\ proc[p] = "free"
          /\ proc' = [proc EXCEPT ![p] = "born"]
          /\ srv_child' = p
          /\ ran' = p
     \/ /\ srv_child' = -1
        /\ UNCHANGED <<proc, ran>>
  /\ tsl' = 0
  /\ spc' = "sendpid"
  /\ UNCHANGED <<fuzzerVars, srv_status, pipeVars, exitst, trace>>

\* pipe(), dup2(), fork(); exit(3) or exit(4) when one of them fails.
afl_forkserver_Fork ==
  /\ spc = "order"
  /\ \/ \E p \in Pids :
          /\ proc[p] = "free"
          /\ proc' = [proc EXCEPT ![p] = "born"]
          /\ srv_child' = p
          /\ ran' = p
          /\ tsl' = 0
          /\ spc' = "sendpid"
     \/ /\ spc' = "dead"
        /\ UNCHANGED <<proc, srv_child, ran, tsl>>
  /\ UNCHANGED <<fuzzerVars, srv_status, pipeVars, exitst, trace>>

\* write(FORKSRV_FD + 1, &child_pid, 4), exit(5) when it fails.
afl_forkserver_SendPid ==
  /\ spc = "sendpid"
  /\ \/ /\ FuzzerAlive
        /\ st' = Append(st, Msg("pid", srv_child))
        /\ spc' = "drain"
     \/ /\ ~FuzzerAlive
        /\ spc' = "dead"
        /\ UNCHANGED st
  /\ UNCHANGED <<fuzzerVars, srv_child, srv_status, ctl, kernelVars>>

\* Read and drop translation requests until the last writer is gone.
afl_wait_tsl ==
  /\ spc = "drain"
  /\ \/ /\ tsl > 0
        /\ tsl' = tsl - 1
        /\ UNCHANGED spc
     \/ /\ tsl = 0 /\ ~Alive(srv_child)
        /\ spc' = "reap"
        /\ UNCHANGED tsl
  /\ UNCHANGED <<fuzzerVars, srv_child, srv_status, pipeVars, proc, exitst,
                 trace, ran>>

\* Any read() that fails or is short also leaves the loop, with the child still
\* at work: close(fd), and whatever is in the pipe is lost.
afl_wait_tsl_Fails ==
  /\ spc = "drain"
  /\ spc' = "reap"
  /\ tsl' = 0
  /\ UNCHANGED <<fuzzerVars, srv_child, srv_status, pipeVars, proc, exitst,
                 trace, ran>>

\* Mutant: the status of the wait is dropped.
afl_forkserver_Reap_DropsStatus ==
  /\ spc = "reap"
  /\ proc[srv_child] = "zombie"
  /\ proc' = [proc EXCEPT ![srv_child] = "free"]
  /\ spc' = "relay"
  /\ UNCHANGED <<fuzzerVars, srv_child, srv_status, pipeVars, tsl, exitst, trace,
                 ran>>

\* waitpid(child_pid, &status, 0).
afl_forkserver_Reap ==
  /\ spc = "reap"
  /\ proc[srv_child] = "zombie"
  /\ srv_status' = exitst[srv_child]
  /\ proc' = [proc EXCEPT ![srv_child] = "free"]
  /\ spc' = "relay"
  /\ UNCHANGED <<fuzzerVars, srv_child, pipeVars, tsl, exitst, trace, ran>>

\* write(FORKSRV_FD + 1, &status, 4), exit(7) when it fails.
afl_forkserver_Relay ==
  /\ spc = "relay"
  /\ \/ /\ FuzzerAlive
        /\ st' = Append(st, Msg("status", srv_status))
        /\ spc' = "wait"
     \/ /\ ~FuzzerAlive
        /\ spc' = "dead"
        /\ UNCHANGED st
  /\ UNCHANGED <<fuzzerVars, srv_child, srv_status, ctl, kernelVars>>

\* The server ends on its own: out of memory, a failed execv() or shmat(), a
\* target that ends before the handshake or, on its own, without a fuzzer.
ServerDies ==
  /\ ServerAlive
  /\ spc' = "dead"
  /\ UNCHANGED <<fuzzerVars, srv_child, srv_status, pipeVars, kernelVars>>

-----------------------------------------------------------------------------
(* The child and the rest of the machine.                                   *)

\* First thing after fork(): close the server's descriptors.
ChildStart(p) ==
  /\ proc[p] = "born"
  /\ proc' = [proc EXCEPT ![p] = "run"]
  /\ UNCHANGED <<fuzzerVars, serverVars, pipeVars, tsl, exitst, trace, ran>>

\* afl_maybe_log() on a traced block.
ChildTrace(p) ==
  /\ proc[p] = "run"
  /\ trace' = trace \cup {p}
  /\ UNCHANGED <<fuzzerVars, serverVars, pipeVars, tsl, proc, exitst, ran>>

\* afl_request_tsl(): the pipe is there from the fork on.  The write blocks while
\* it is full; once the server has closed it or is dead, the write fails and
\* changes nothing.
afl_request_tsl(p) ==
  /\ proc[p] = "run" /\ p = srv_child
  /\ spc \in {"sendpid", "drain"} /\ tsl < TslCap
  /\ tsl' = tsl + 1
  /\ UNCHANGED <<fuzzerVars, serverVars, pipeVars, proc, exitst, trace, ran>>

\* doneWork(val), a panic (exit(32)), an assertion or a host signal.
ChildEnd(p) ==
  /\ proc[p] = "run"
  /\ proc' = [proc EXCEPT ![p] = "zombie"]
  /\ \E s \in Statuses \ {"kill"} : exitst' = [exitst EXCEPT ![p] = s]
  /\ UNCHANGED <<fuzzerVars, serverVars, pipeVars, tsl, trace, ran>>

\* init reaps the children of a dead server.
InitReaps(p) ==
  /\ proc[p] = "zombie" /\ ~ServerAlive
  /\ proc' = [proc EXCEPT ![p] = "free"]
  /\ UNCHANGED <<fuzzerVars, serverVars, pipeVars, tsl, exitst, trace, ran>>

\* An unrelated program gets a free pid, or ends.
OtherProcess(p) ==
  /\ \/ proc[p] = "free" /\ proc' = [proc EXCEPT ![p] = "other"]
     \/ proc[p] = "other" /\ proc' = [proc EXCEPT ![p] = "free"]
  /\ UNCHANGED <<fuzzerVars, serverVars, pipeVars, tsl, exitst, trace, ran>>

-----------------------------------------------------------------------------
Init ==
  /\ fpc = "spawn" /\ child_pid = -1
  /\ child_timed_out = FALSE /\ prev_timed_out = FALSE /\ stop_soon = FALSE
  /\ timer = FALSE /\ in_stop = FALSE
  /\ status = "ok" /\ verdict = "FAULT_NONE"
  /\ ctl = <<>> /\ st = <<>>
  /\ spc = "none" /\ srv_child = 0 /\ srv_status = "ok"
  /\ tsl = 0
  /\ proc = [p \in Pids |-> "free"]
  /\ exitst = [p \in Pids |-> "ok"]
  /\ trace = {}
  /\ ran = 0

FuzzerNext ==
  \/ init_forkserver_Fork \/ init_forkserver_Arm \/ init_forkserver_Hello
  \/ init_forkserver_Disarm
  \/ run_target_Reset \/ run_target_Command \/ run_target_ReadPid
  \/ run_target_Arm \/ run_target_ReadStatus \/ run_target_ClearPid
  \/ run_target_Disarm \/ run_target_Report
  \/ FuzzerExit

SignalNext == handle_timeout \/ handle_stop_sig_Child \/ handle_stop_sig_Server

ServerNext ==
  \/ afl_setup \/ afl_forkserver_Hello \/ afl_forkserver_Await
  \/ afl_forkserver_Fork \/ afl_forkserver_SendPid \/ afl_wait_tsl
  \/ afl_forkserver_Reap \/ afl_forkserver_Relay

ChildNext(p) ==
  \/ ChildStart(p) \/ ChildTrace(p) \/ afl_request_tsl(p) \/ ChildEnd(p)

KernelNext(p) == InitReaps(p) \/ OtherProcess(p)

Next ==
  \/ FuzzerNext \/ FuzzerCrash \/ SignalNext
  \/ ServerNext \/ afl_wait_tsl_Fails \/ ServerDies
  \/ \E p \in Pids : ChildNext(p) \/ KernelNext(p)

Spec == Init /\ [][Next]_vars

-----------------------------------------------------------------------------
(* Fairness.  The main thread of afl-fuzz is always resumed after a signal  *)
(* handler, however many signals arrive, so its steps get strong fairness.  *)
(* An armed timer fires, a handler finishes, the server and a newborn child *)
(* are scheduled, init reaps.  Nothing makes a test case end, a user press  *)
(* ^C, a process or a read() fail.                                          *)

Fairness ==
  /\ SF_vars(FuzzerNext)
  /\ WF_vars(handle_timeout)
  /\ WF_vars(handle_stop_sig_Server)
  /\ WF_vars(ServerNext)
  /\ \A p \in Pids : WF_vars(ChildStart(p)) /\ WF_vars(InitReaps(p))

FairSpec == Spec /\ Fairness

-----------------------------------------------------------------------------
(* Safety.                                                                  *)

FuzzerPcs == {"spawn", "armhello", "hello", "up", "nohello", "idle", "command",
              "readpid", "arm", "readstatus", "clear", "disarm", "report",
              "gone"}
ServerPcs == {"none", "boot", "sayhello", "wait", "order", "sendpid", "drain",
              "reap", "relay", "solo", "dead"}

FlagsOK ==
  /\ child_timed_out \in BOOLEAN /\ prev_timed_out \in BOOLEAN
  /\ stop_soon \in BOOLEAN /\ timer \in BOOLEAN /\ in_stop \in BOOLEAN

ProcStates == {"free", "born", "run", "zombie", "other"}
CtlWords == [tag : {"cmd"}, val : BOOLEAN]
StWords == [tag : {"hello"}, val : {0}] \cup [tag : {"pid"}, val : Pids]
             \cup [tag : {"status"}, val : Statuses]

\* The type of every variable.  The pids the server writes and afl-fuzz reads
\* and kills are pids of children, never the -1 of a failed fork(); and with at
\* most one command and two answers in the pipes no write of the protocol blocks.
TypeOK ==
  /\ FlagsOK
  /\ fpc \in FuzzerPcs
  /\ child_pid \in Pids \cup {-1, 0}
  /\ status \in Statuses /\ srv_status \in Statuses
  /\ verdict \in Faults
  /\ ctl \in Seq(CtlWords) /\ Len(ctl) <= 1
  /\ st \in Seq(StWords) /\ Len(st) <= 2
  /\ spc \in ServerPcs
  /\ srv_child \in Pids \cup {0}
  /\ tsl \in 0..TslCap
  /\ proc \in [Pids -> ProcStates]
  /\ exitst \in [Pids -> Statuses]
  /\ trace \subseteq Pids \cup {SetupMark}
  /\ ran \in Pids \cup {0}

\* The word at the head of the status pipe is the one its reader expects, and
\* an afl-fuzz that starts a run has left nothing unread: although the words
\* carry no tag, a timeout, a stop or a death of the server never shifts
\* run_target()'s two reads against the server's two writes.
PipeInSync ==
  /\ fpc = "hello" /\ st # <<>> => Head(st).tag = "hello"
  /\ fpc = "readpid" /\ st # <<>> => Head(st).tag = "pid"
  /\ fpc = "readstatus" /\ st # <<>> => Head(st).tag = "status"
  /\ fpc \in {"idle", "command"} => st = <<>>

\* While run_target() looks at trace_bits, and until the next run unless the
\* user asked to stop, no copy of the VM is alive and the map holds only what
\* this run's child wrote: the late child of an earlier timeout never adds
\* coverage to the next test case.
TraceIsolation ==
  fpc \in {"clear", "disarm", "report"} \/ (fpc = "idle" /\ ~stop_soon /\ ran # 0) =>
    /\ \A p \in Pids : ~Alive(p)
    /\ trace \subseteq {ran}

\* The wait status run_target() judges is how the child of this very command
\* ended, not the status of an earlier child or of a pid used twice.
StatusIsOwn ==
  fpc \in {"clear", "disarm", "report"} => ran \in Pids /\ status = exitst[ran]

\* A child that afl-fuzz itself killed, on a timeout or on ^C, is never
\* reported as a crash of the target.
NoFalseCrash ==
  [][fpc = "report" /\ fpc' = "idle" /\ verdict' = "FAULT_CRASH"
       => exitst[ran] # "kill"]_vars

-----------------------------------------------------------------------------
(* The inductive invariant behind the safety properties, in named parts.    *)

NoneAlive == \A p \in Pids : ~Alive(p)

\* The server has at most one child alive, the one it is waiting for, and a
\* command not yet carried out has no child.
OneChild ==
  /\ ServerAlive =>
       \A p \in Pids : Alive(p) => p = srv_child /\ spc \in {"sendpid", "drain", "reap"}
  /\ spc \in {"sendpid", "drain", "reap", "relay"} =>
       srv_child \in Pids /\ ran = srv_child
  /\ spc = "relay" => srv_status = exitst[srv_child]
  /\ spc = "order" \/ (spc = "wait" /\ ctl # <<>>) =>
       ran = 0 /\ fpc \in {"readpid", "gone"}

HelloWord == Msg("hello", 0)
PidWord == Msg("pid", ran)
StatusWord == Msg("status", exitst[ran])

\* Nothing is under way: the server waits for a command, or is dead.
AtRest == st = <<>> /\ (spc = "dead" \/ (spc = "wait" /\ ctl = <<>>))

\* Where the server can be, and what is in the pipes, while afl-fuzz is there.
Protocol ==
  /\ fpc = "spawn" => spc = "none" /\ st = <<>> /\ ctl = <<>>
  /\ fpc \in {"armhello", "hello"} =>
       /\ ctl = <<>>
       /\ \/ spc \in {"boot", "sayhello", "dead"} /\ st = <<>>
          \/ spc \in {"wait", "dead"} /\ st = <<HelloWord>>
  /\ fpc \in {"up", "nohello", "idle", "command", "clear", "disarm", "report"} =>
       AtRest
  /\ fpc \in {"idle", "command"} => \A p \in Pids : proc[p] # "born"
  /\ fpc = "readpid" =>
       \/ spc = "dead" /\ st = <<>>
       \/ ran = 0 /\ spc = "wait" /\ Len(ctl) = 1 /\ st = <<>>
       \/ ran = 0 /\ spc = "order" /\ ctl = <<>> /\ st = <<>>
       \/ spc = "sendpid" /\ ctl = <<>> /\ st = <<>>
       \/ ran \in Pids /\ ctl = <<>> /\ st = <<PidWord>>
            /\ spc \in {"drain", "reap", "relay", "dead"}
       \/ ran \in Pids /\ ctl = <<>> /\ st = <<PidWord, StatusWord>>
            /\ spc \in {"wait", "dead"} /\ NoneAlive
  /\ fpc \in {"arm", "readstatus"} =>
       /\ ran \in Pids /\ ctl = <<>>
       /\ \/ spc \in {"drain", "reap", "relay", "dead"} /\ st = <<>>
          \/ spc \in {"wait", "dead"} /\ st = <<StatusWord>> /\ NoneAlive
  /\ fpc \in {"clear", "disarm", "report"} =>
       ran \in Pids /\ status = exitst[ran] /\ NoneAlive

\* Who may be alive, and who may have written to the map.
CleanMap ==
  /\ fpc \in {"spawn", "armhello", "hello", "up", "nohello"} => ran = 0 /\ NoneAlive
  /\ fpc = "command" => ran = 0
  /\ fpc = "idle" /\ ~stop_soon => NoneAlive /\ (ran # 0 => trace \subseteq {ran})
  /\ /\ fpc \in {"command", "readpid", "arm", "readstatus", "clear", "disarm", "report"}
     /\ ServerAlive \/ ran # 0
     => /\ \A p \in Pids : Alive(p) => p = ran
        /\ trace \subseteq {ran} \ {0}

\* A child killed by afl-fuzz has one of the two flags to show for it.
KillsExplained ==
  ran # 0 /\ ~Alive(ran) /\ exitst[ran] = "kill" => child_timed_out \/ stop_soon

\* The inductive invariant: type correctness, the phases of the protocol, the
\* children that may be alive in each, and why a killed child was killed.
IInv == TypeOK /\ OneChild /\ Protocol /\ CleanMap /\ KillsExplained

-----------------------------------------------------------------------------
(* Liveness.                                                                *)

\* Every run of run_target() ends, whatever the test case, the fork server and
\* the user do: a hanging child is killed and its status comes back.
RunTerminates == (fpc = "command") ~> (fpc \in {"idle", "gone"})

\* Once afl-fuzz is gone the fork server goes too, unless a copy of the VM is
\* still running a test case nobody will time out any more, or the handshake
\* failed and the VM runs on without fork server.
ServerLeaves ==
  (fpc = "gone") ~> (\/ spc \in {"none", "dead", "solo"}
                      \/ \E p \in Pids : Alive(p))

-----------------------------------------------------------------------------
(* Refinement: what run_target() promises its callers (TestRunner).         *)

Phase ==
  CASE fpc \in {"spawn", "armhello", "hello", "up", "nohello"} -> "starting"
    [] fpc = "idle" -> "idle"
    [] fpc = "gone" -> "gone"
    [] OTHER -> "running"

\* The child of this run, and how it ended.
RanState ==
  IF ran = 0 THEN "none" ELSE IF Alive(ran) THEN "alive" ELSE "ended"
RanHow == IF RanState = "ended" THEN exitst[ran] ELSE "ok"

Runner == INSTANCE TestRunner WITH
  phase <- Phase, child <- RanState, how <- RanHow, late <- child_timed_out,
  stopping <- stop_soon, result <- verdict

\* Every step of the three programs is a step of the abstract test runner, or
\* none: run_target() delivers a verdict only for a child that has ended, and
\* the verdict is the one that end deserves.
RefinesTestRunner == Runner!Spec
=============================================================================
