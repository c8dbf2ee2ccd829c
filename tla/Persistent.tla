----------------------------- MODULE Persistent -----------------------------
(***************************************************************************)
(* The fork server of LLVM mode with persistent mode: afl-llvm-rt.o.c.     *)
(*                                                                         *)
(* A persistent child does not end after a test case.  It stops itself     *)
(* with SIGSTOP inside __afl_persistent_loop(); the server relays the stop  *)
(* as the outcome of the run, and wakes the child with SIGCONT for the next *)
(* command instead of forking.  afl-fuzz does not know any of this: its    *)
(* side is run_target() and the signal handlers of ForkServer, unchanged.  *)
(* A timeout may therefore kill a child that has just stopped, and the     *)
(* server learns of it only from the word (prev_timed_out) of the next     *)
(* command.                                                                *)
(***************************************************************************)
EXTENDS ForkServer

CONSTANTS
  IsPersistent,  \* PERSIST_ENV_VAR is in the environment
  MaxCnt,        \* the argument of __AFL_LOOP: test cases per process
  CntMod         \* cycle_cnt counts modulo this, 2^32 in the code

ASSUME PersistentAssumption ==
  IsPersistent \in BOOLEAN /\ CntMod \in Nat \ {0} /\ MaxCnt \in 0..(CntMod - 1)

VARIABLES
  child_stopped,  \* the server's flag: the last child is waiting for SIGCONT
  was_killed,     \* the server's copy of the command word
  halted,         \* children that stopped themselves since last started
  cycle_cnt       \* what __afl_persistent_loop has left in each child, 0 once
                  \* the server has reaped it

loopVars == <<child_stopped, was_killed, halted, cycle_cnt>>
pvars == <<vars, loopVars>>

\* A child that can take steps, and one that sits in its SIGSTOP.
Running(p) == Alive(p) /\ p \notin halted
Asleep(p) == Alive(p) /\ p \in halted

-----------------------------------------------------------------------------
(* The server: __afl_map_shm(), __afl_start_forkserver().                   *)

\* shmat(), and a mark in the map whatever AFL_INST_RATIO says.
afl_map_shm ==
  /\ spc = "boot"
  /\ trace' = trace \cup {SetupMark}
  /\ spc' = "sayhello"
  /\ UNCHANGED <<fuzzerVars, srv_child, srv_status, pipeVars, tsl, proc, exitst,
                 ran, loopVars>>

\* write(FORKSRV_FD + 1, tmp, 4); without a reader the program just runs.
start_forkserver_Hello == afl_forkserver_Hello /\ UNCHANGED loopVars

\* Mutant: end of file is retried.
start_forkserver_Await_Retries ==
  /\ spc = "wait" /\ ctl # <<>>
  /\ ctl' = Tail(ctl)
  /\ was_killed' = Head(ctl).val
  /\ spc' = "order"
  /\ UNCHANGED <<fuzzerVars, srv_child, srv_status, st, kernelVars,
                 child_stopped, halted, cycle_cnt>>

\* read(FORKSRV_FD, &was_killed, 4), _exit(1) on end of file.
start_forkserver_Await ==
  /\ spc = "wait"
  /\ \/ /\ ctl # <<>>
        /\ ctl' = Tail(ctl)
        /\ was_killed' = Head(ctl).val
        /\ spc' = "order"
     \/ /\ ctl = <<>> /\ ~FuzzerAlive
        /\ spc' = "dead"
        /\ UNCHANGED <<ctl, was_killed>>
  /\ UNCHANGED <<fuzzerVars, srv_child, srv_status, st, kernelVars,
                 child_stopped, halted, cycle_cnt>>

\* Mutants of the test below: the word of the command is not looked at.
MustWriteOff_Always == child_stopped
MustWriteOff_Never == FALSE

\* "if (child_stopped && was_killed)".
MustWriteOff == child_stopped /\ was_killed

\* Write off the stopped child that afl-fuzz has killed: waitpid(child_pid).
start_forkserver_WriteOff ==
  /\ spc = "order" /\ MustWriteOff
  /\ proc[srv_child] = "zombie"
  /\ child_stopped' = FALSE
  /\ srv_status' = exitst[srv_child]
  /\ proc' = [proc EXCEPT ![srv_child] = "free"]
  /\ cycle_cnt' = [cycle_cnt EXCEPT ![srv_child] = 0]
  /\ UNCHANGED <<fuzzerVars, spc, srv_child, pipeVars, tsl, exitst, trace, ran,
                 was_killed, halted>>

\* No child to wake: fork(), _exit(1) when it fails.
start_forkserver_Fork ==
  /\ spc = "order" /\ ~child_stopped
  /\ \/ \E p \in Pids :
          /\ proc[p] = "free"
          /\ proc' = [proc EXCEPT ![p] = "born"]
          /\ srv_child' = p
          /\ ran' = p
          /\ halted' = halted \ {p}
          /\ cycle_cnt' = [cycle_cnt EXCEPT ![p] = MaxCnt]
          /\ spc' = "sendpid"
     \/ /\ spc' = "dead"
        /\ UNCHANGED <<proc, srv_child, ran, halted, cycle_cnt>>
  /\ UNCHANGED <<fuzzerVars, srv_status, pipeVars, tsl, exitst, trace,
                 child_stopped, was_killed>>

\* A stopped child: kill(child_pid, SIGCONT).
start_forkserver_Resume ==
  /\ spc = "order" /\ child_stopped /\ ~MustWriteOff
  /\ child_stopped' = FALSE
  /\ halted' = halted \ {srv_child}
  /\ ran' = srv_child
  /\ spc' = "sendpid"
  /\ UNCHANGED <<fuzzerVars, srv_child, srv_status, pipeVars, tsl, proc, exitst,
                 trace, was_killed, cycle_cnt>>

\* write(FORKSRV_FD + 1, &child_pid, 4), _exit(1) when it fails.
start_forkserver_SendPid ==
  /\ spc = "sendpid"
  /\ \/ /\ FuzzerAlive
        /\ st' = Append(st, Msg("pid", srv_child))
        /\ spc' = "reap"
     \/ /\ ~FuzzerAlive
        /\ spc' = "dead"
        /\ UNCHANGED st
  /\ UNCHANGED <<fuzzerVars, srv_child, srv_status, ctl, kernelVars, loopVars>>

\* Mutant: WIFSTOPPED(status) is not looked at.
start_forkserver_Reap_ForgetsStop ==
  /\ spc = "reap"
  /\ \/ /\ proc[srv_child] = "zombie"
        /\ srv_status' = exitst[srv_child]
        /\ proc' = [proc EXCEPT ![srv_child] = "free"]
     \/ /\ IsPersistent /\ Asleep(srv_child)
        /\ srv_status' = "stop"
        /\ UNCHANGED proc
  /\ spc' = "relay"
  /\ UNCHANGED <<fuzzerVars, srv_child, pipeVars, tsl, exitst, trace, ran,
                 loopVars>>

\* Mutant: the child is woken as soon as its stop has been noticed.
start_forkserver_Reap_WakesAtOnce ==
  /\ spc = "reap"
  /\ \/ /\ proc[srv_child] = "zombie"
        /\ srv_status' = exitst[srv_child]
        /\ proc' = [proc EXCEPT ![srv_child] = "free"]
        /\ UNCHANGED <<child_stopped, halted>>
     \/ /\ IsPersistent /\ Asleep(srv_child)
        /\ srv_status' = "stop"
        /\ child_stopped' = TRUE
        /\ halted' = halted \ {srv_child}
        /\ UNCHANGED proc
  /\ spc' = "relay"
  /\ UNCHANGED <<fuzzerVars, srv_child, pipeVars, tsl, exitst, trace, ran,
                 was_killed, cycle_cnt>>

\* waitpid(child_pid, &status, is_persistent ? WUNTRACED : 0).
start_forkserver_Reap ==
  /\ spc = "reap"
  /\ \/ /\ proc[srv_child] = "zombie"
        /\ srv_status' = exitst[srv_child]
        /\ proc' = [proc EXCEPT ![srv_child] = "free"]
        /\ cycle_cnt' = [cycle_cnt EXCEPT ![srv_child] = 0]
        /\ UNCHANGED child_stopped
     \/ /\ IsPersistent /\ Asleep(srv_child)
        /\ srv_status' = "stop"
        /\ child_stopped' = TRUE
        /\ UNCHANGED <<proc, cycle_cnt>>
  /\ spc' = "relay"
  /\ UNCHANGED <<fuzzerVars, srv_child, pipeVars, tsl, exitst, trace, ran,
                 was_killed, halted>>

\* write(FORKSRV_FD + 1, &status, 4), _exit(1) when it fails.
start_forkserver_Relay == afl_forkserver_Relay /\ UNCHANGED loopVars

-----------------------------------------------------------------------------
(* The child.                                                               *)

\* __afl_persistent_loop(), from its second call on: raise(SIGSTOP), or 0 to
\* leave the loop; a call after that wraps the counter.  The first call only sets
\* cycle_cnt, which fork() does here.
persistent_loop(p) ==
  /\ proc[p] = "run" /\ Running(p)
  /\ cycle_cnt' = IF IsPersistent
                  THEN [cycle_cnt EXCEPT ![p] = (@ - 1) % CntMod]
                  ELSE cycle_cnt
  /\ halted' = IF IsPersistent /\ cycle_cnt'[p] # 0 THEN halted \cup {p} ELSE halted
  /\ UNCHANGED <<vars, child_stopped, was_killed>>

\* The body of the loop, and the ways a process can end, are those of any
\* child; a stopped process does neither.
LoopChild(p) ==
  /\ Running(p)
  /\ ChildStart(p) \/ ChildTrace(p) \/ ChildEnd(p)
  /\ UNCHANGED loopVars

-----------------------------------------------------------------------------
PInit ==
  /\ Init
  /\ child_stopped = FALSE /\ was_killed = FALSE
  /\ halted = {}
  /\ cycle_cnt = [p \in Pids |-> 0]

FuzzerSide == FuzzerNext /\ UNCHANGED loopVars

PServerNext ==
  \/ afl_map_shm \/ start_forkserver_Hello \/ start_forkserver_Await
  \/ start_forkserver_WriteOff \/ start_forkserver_Fork
  \/ start_forkserver_Resume \/ start_forkserver_SendPid
  \/ start_forkserver_Reap \/ start_forkserver_Relay

PNext ==
  \/ FuzzerSide
  \/ (FuzzerCrash \/ SignalNext \/ ServerDies) /\ UNCHANGED loopVars
  \/ PServerNext
  \/ \E p \in Pids : LoopChild(p) \/ persistent_loop(p)
  \/ \E p \in Pids : InitReaps(p) /\ UNCHANGED loopVars

PSpec == PInit /\ [][PNext]_pvars

\* The assumptions of ForkServer.  Nothing wakes or ends a sleeping child once
\* the server is gone: init_forkserver() made the server a session leader without
\* a terminal, so its process group has been orphaned all along and the kernel
\* sends no SIGHUP when it dies.
PFairSpec ==
  /\ PSpec
  /\ SF_pvars(FuzzerSide)
  /\ WF_pvars(handle_timeout /\ UNCHANGED loopVars)
  /\ WF_pvars(handle_stop_sig_Server /\ UNCHANGED loopVars)
  /\ WF_pvars(PServerNext)
  /\ \A p \in Pids :
       /\ WF_pvars(ChildStart(p) /\ UNCHANGED loopVars)
       /\ WF_pvars(InitReaps(p) /\ UNCHANGED loopVars)

-----------------------------------------------------------------------------
(* Properties.                                                              *)

\* A process runs only on behalf of the command under way.  In particular no
\* child runs while run_target() looks at the map or clears it, although the
\* child of the last test case is still there, asleep.
RunsOnCommand ==
  ServerAlive => \A p \in Pids : Running(p) =>
    /\ p = ran /\ p = srv_child /\ spc \in {"sendpid", "reap"}
    /\ fpc \in {"readpid", "arm", "readstatus", "gone"}

\* The server's flag is right whenever it is used: a child it means to wake is
\* asleep and alive unless the command says that afl-fuzz has killed it, and
\* with no such child there is nobody left to write to the map.
StopFlagExact ==
  spc = "order" =>
    IF child_stopped
    THEN IF was_killed THEN ~Alive(srv_child) ELSE Asleep(srv_child)
    ELSE NoneAlive

\* Once afl-fuzz is gone the server goes too, also from the wait for a child that
\* only stops, unless a child still runs a test case.  A child asleep by then
\* stays behind for ever, because afl-fuzz never kills it between two runs and no
\* one else knows its pid; but it is one child at most.
PersistentServerLeaves ==
  (fpc = "gone") ~> (\/ /\ spc \in {"none", "dead", "solo"}
                         /\ Cardinality({p \in Pids : Asleep(p)}) <= 1
                      \/ \E p \in Pids : Running(p))

\* To run_target()'s callers a child that stopped is one that ended well.
PRanState ==
  IF ran = 0 THEN "none" ELSE IF Running(ran) THEN "alive" ELSE "ended"
PRanHow ==
  IF PRanState # "ended" \/ ran \in halted THEN "ok" ELSE exitst[ran]

LoopRunner == INSTANCE TestRunner WITH
  phase <- Phase, child <- PRanState, how <- PRanHow, late <- child_timed_out,
  stopping <- stop_soon, result <- verdict

\* The persistent server keeps the same promise to run_target()'s callers as
\* the one that forks for every test case.
PersistentRefinesTestRunner == LoopRunner!Spec
=============================================================================
