------------------------------- MODULE VMFork -------------------------------
(***************************************************************************)
(* How a running full-system QEMU turns itself into a fork server: the      *)
(* hand-over from the CPU thread to the IO thread (cpus.c), the fork, and   *)
(* the restart of the CPU thread in the copy; with the guest's aflCall      *)
(* instruction (target-i386/translate.c) that asks for it and ends a run.   *)
(*                                                                         *)
(* Each QEMU process has an IO thread and a CPU thread that share           *)
(* qemu_global_mutex; fork() copies the memory and only the forking thread. *)
(* vm[q] is the memory and the threads of process q.  One action is a       *)
(* stretch of one thread between two points where the other can interfere.  *)
(* QEMU runs under afl-fuzz: SHM_ENV_VAR is set and the hello is written    *)
(* (what the server then does is module ForkServer).  One guest CPU, TCG.   *)
(***************************************************************************)
EXTENDS Naturals

CONSTANT MaxOps   \* bound: guest operations executed by one process
ASSUME MaxOpsAssumption == MaxOps \in Nat

VARIABLES
  vm,     \* the QEMU processes
  qpipe,  \* bytes "FORK" waiting in afl_qemuloop_pipe, a kernel object
  marks   \* who wrote to AFL's map: a set of processes

vars == <<vm, qpipe, marks>>

Procs == {"server", "child"}

(* The fields of vm[q]:                                                     *)
(*   cpu, io        where the two threads are                               *)
(*   after          what the CPU thread does after qemu_tcg_wait_io_event   *)
(*   mutex          the owner of qemu_global_mutex                          *)
(*   requesting     iothread_requesting_mutex                               *)
(*   ready          the last poll() found afl_qemuloop_pipe readable        *)
(*   kicked         the CPU thread was sent SIG_IPI: leave tcg_exec_all     *)
(*   wants_stop     afl_wants_cpu_to_stop                                   *)
(*   first_cpu, restart_cpu   the pointer is not NULL                       *)
(*   halted         the guest executed hlt and no interrupt came            *)
(*   ticks, enable_ticks      cpu ticks run; aflEnableTicks                 *)
(*   fork_child     afl_fork_child                                          *)
(*   area           afl_area_ptr is set                                     *)
(*   started        aflStart                                                *)
(*   ops            guest operations executed so far                        *)
NoProcess ==
  [cpu |-> "none", io |-> "none", after |-> "loop", mutex |-> "none",
   requesting |-> FALSE, ready |-> FALSE, kicked |-> FALSE,
   wants_stop |-> FALSE, first_cpu |-> FALSE, restart_cpu |-> FALSE,
   halted |-> FALSE, ticks |-> FALSE, enable_ticks |-> FALSE,
   fork_child |-> FALSE, area |-> FALSE, started |-> FALSE, ops |-> 0]

\* exit(), abort() or a fatal signal in process q.
Exit(q) == vm' = [vm EXCEPT ![q] = NoProcess]

\* A NULL pointer is followed by the IO thread of process q.
Faults(q) == vm' = [vm EXCEPT ![q].io = "fault", ![q].cpu = "none"]

Io(q, pc) == vm[q].io = pc
Cpu(q, pc) == vm[q].cpu = pc

-----------------------------------------------------------------------------
(* The guest, executed by the CPU thread inside tcg_exec_all() with the     *)
(* mutex held.                                                              *)

Running(q) == Cpu(q, "exec") /\ vm[q].ops < MaxOps /\ ~vm[q].halted

\* One guest operation: compute, or wait for an interrupt.
GuestOp(q) ==
  /\ Running(q)
  /\ \E h \in BOOLEAN :
       vm' = [vm EXCEPT ![q].ops = @ + 1, ![q].halted = h]
  /\ UNCHANGED <<qpipe, marks>>

\* Mutant: afl_setup() at once, as in a user-mode build.
startForkserver_SetupEarly(q) ==
  /\ Running(q) /\ ~vm[q].fork_child
  /\ vm' = [vm EXCEPT ![q].ops = @ + 1,
                      ![q].wants_stop = TRUE, ![q].area = TRUE]
  /\ UNCHANGED <<qpipe, marks>>

\* aflCall 1.  The translation block goes on after it.
startForkserver(q) ==
  /\ Running(q)
  /\ \/ vm[q].fork_child /\ Exit(q)
     \/ /\ ~vm[q].fork_child
        /\ \E t \in BOOLEAN :
             vm' = [vm EXCEPT ![q].ops = @ + 1,
                              ![q].enable_ticks = t, ![q].wants_stop = TRUE]
  /\ UNCHANGED <<qpipe, marks>>

\* aflCall 2.  The contents of the input are data.
getWork(q) ==
  /\ Running(q)
  /\ IF vm[q].started THEN Exit(q) ELSE vm' = [vm EXCEPT ![q].ops = @ + 1]
  /\ UNCHANGED <<qpipe, marks>>

\* aflCall 3.
startWork(q) ==
  /\ Running(q)
  /\ vm' = [vm EXCEPT ![q].ops = @ + 1, ![q].started = TRUE]
  /\ UNCHANGED <<qpipe, marks>>

\* aflCall 4, its assertion, and aflInterceptPanic: the process ends.
doneWork(q) ==
  /\ Running(q)
  /\ Exit(q)
  /\ UNCHANGED <<qpipe, marks>>

\* The end of a translation block: cpu_tb_exec() traces it and looks for
\* reasons to leave the execution loop.
cpu_tb_exec(q) ==
  /\ Cpu(q, "exec")
  /\ marks' = IF vm[q].started /\ vm[q].area THEN marks \cup {q} ELSE marks
  /\ IF vm[q].wants_stop \/ vm[q].kicked \/ vm[q].halted
     THEN vm' = [vm EXCEPT ![q].cpu = "waitio", ![q].after = "loop",
                           ![q].kicked = FALSE]
     ELSE UNCHANGED vm
  /\ UNCHANGED qpipe

-----------------------------------------------------------------------------
(* The CPU thread outside of the guest: qemu_tcg_cpu_thread_fn().           *)

\* A new CPU thread takes the mutex; exit_request makes the first
\* tcg_exec_all() return at once.
qemu_tcg_cpu_thread_fn(q) ==
  /\ Cpu(q, "start") /\ vm[q].mutex = "none"
  /\ vm' = [vm EXCEPT ![q].mutex = "cpu", ![q].cpu = "waitio",
                      ![q].after = "loop"]
  /\ UNCHANGED <<qpipe, marks>>

\* Mutant: an empty list of CPUs does not count as idle.
all_cpu_threads_idle_Strict(q) == vm[q].halted

\* all_cpu_threads_idle(): vacuously true with no CPU in the list.
all_cpu_threads_idle(q) == ~vm[q].first_cpu \/ vm[q].halted

\* The first loop of qemu_tcg_wait_io_event(): cond_wait gives up the mutex.
wait_io_event_Idle(q) ==
  /\ Cpu(q, "waitio") /\ all_cpu_threads_idle(q)
  /\ vm' = [vm EXCEPT ![q].cpu = "idle", ![q].mutex = "none"]
  /\ UNCHANGED <<qpipe, marks>>

\* Its second loop: let the IO thread have the mutex.
wait_io_event_Yield(q) ==
  /\ \/ Cpu(q, "waitio") /\ ~all_cpu_threads_idle(q)
     \/ Cpu(q, "yielded")
  /\ vm[q].requesting
  /\ vm' = [vm EXCEPT ![q].cpu = "yield", ![q].mutex = "none"]
  /\ UNCHANGED <<qpipe, marks>>

\* pthread_cond_wait may return for no reason.
SpuriousWakeup(q) ==
  /\ vm[q].cpu \in {"idle", "yield"}
  /\ vm' = [vm EXCEPT ![q].cpu = IF @ = "idle" THEN "reidle" ELSE "reyield"]
  /\ UNCHANGED <<qpipe, marks>>

\* cond_wait takes the mutex again and the loop is entered anew.
wait_io_event_Wake(q) ==
  /\ vm[q].cpu \in {"reidle", "reyield"} /\ vm[q].mutex = "none"
  /\ vm' = [vm EXCEPT ![q].cpu = IF @ = "reidle" THEN "waitio" ELSE "yielded",
                      ![q].mutex = "cpu"]
  /\ UNCHANGED <<qpipe, marks>>

\* Both loops are done: on with the guest, or with the hand-over, or out of
\* the thread function, still holding the mutex.
wait_io_event_Done(q) ==
  /\ \/ Cpu(q, "waitio") /\ ~all_cpu_threads_idle(q)
     \/ Cpu(q, "yielded")
  /\ ~vm[q].requesting
  /\ vm' = [vm EXCEPT ![q].cpu = CASE vm[q].after = "exit" -> "exited"
                                   [] vm[q].wants_stop -> "notify"
                                   [] OTHER -> "exec"]
  /\ UNCHANGED <<qpipe, marks>>

\* Mutants: the stop request is not withdrawn; the write is forgotten.
handover_Notify_Sticky(q) ==
  /\ Cpu(q, "notify")
  /\ qpipe' = qpipe + 1
  /\ vm' = [vm EXCEPT ![q].cpu = "forget"]
  /\ UNCHANGED marks
handover_Notify_Silent(q) ==
  /\ Cpu(q, "notify")
  /\ vm' = [vm EXCEPT ![q].wants_stop = FALSE, ![q].cpu = "forget"]
  /\ UNCHANGED <<qpipe, marks>>

\* afl_wants_cpu_to_stop = 0, then the bytes that wake the IO thread.
handover_Notify(q) ==
  /\ Cpu(q, "notify")
  /\ qpipe' = qpipe + 1
  /\ vm' = [vm EXCEPT ![q].wants_stop = FALSE, ![q].cpu = "forget"]
  /\ UNCHANGED marks

\* restart_cpu = first_cpu; first_cpu = NULL; cpu_disable_ticks().
handover_Forget(q) ==
  /\ Cpu(q, "forget")
  /\ vm' = [vm EXCEPT ![q].restart_cpu = vm[q].first_cpu, ![q].first_cpu = FALSE,
                      ![q].ticks = FALSE, ![q].cpu = "waitio",
                      ![q].after = "exit"]
  /\ UNCHANGED <<qpipe, marks>>

-----------------------------------------------------------------------------
(* The IO thread: the main loop and qemu_mutex_lock_iothread().             *)

\* poll() returns, with the pipe readable or for another reason; the IO thread
\* announces that it wants the mutex.
lock_iothread_Request(q) ==
  /\ Io(q, "poll")
  /\ vm' = [vm EXCEPT ![q].io = "test", ![q].requesting = TRUE,
                      ![q].ready = (qpipe > 0)]
  /\ UNCHANGED <<qpipe, marks>>

\* "!first_cpu": nobody to kick, a plain lock will do.
lock_iothread_Test(q) ==
  /\ Io(q, "test")
  /\ vm' = [vm EXCEPT ![q].io = IF vm[q].first_cpu THEN "deref" ELSE "plain"]
  /\ UNCHANGED <<qpipe, marks>>

\* "!first_cpu->thread", which is set, reads first_cpu again; the compiler may
\* use the value it has just tested instead.
lock_iothread_Deref(q) ==
  /\ Io(q, "deref")
  /\ \/ vm' = [vm EXCEPT ![q].io = "try"]
     \/ ~vm[q].first_cpu /\ Faults(q)
  /\ UNCHANGED <<qpipe, marks>>

lock_iothread_Plain(q) ==
  /\ Io(q, "plain") /\ vm[q].mutex = "none"
  /\ vm' = [vm EXCEPT ![q].mutex = "io", ![q].io = "dispatch",
                      ![q].requesting = FALSE]
  /\ UNCHANGED <<qpipe, marks>>

\* Otherwise the condition is broadcast: a CPU thread that yielded may go on.
Acquired(q) ==
  [vm[q] EXCEPT !.mutex = "io", !.io = "dispatch", !.requesting = FALSE,
                !.cpu = IF @ = "yield" THEN "reyield" ELSE @]

lock_iothread_Try(q) ==
  /\ Io(q, "try")
  /\ vm' = IF vm[q].mutex = "none" THEN [vm EXCEPT ![q] = Acquired(q)]
                                   ELSE [vm EXCEPT ![q].io = "kick"]
  /\ UNCHANGED <<qpipe, marks>>

\* Mutant: the kick is dropped.
lock_iothread_Kick_None(q) ==
  /\ Io(q, "kick")
  /\ vm' = [vm EXCEPT ![q].io = "lock"]
  /\ UNCHANGED <<qpipe, marks>>

\* qemu_cpu_kick_thread(first_cpu) reads first_cpu again: NULL is a fault.
lock_iothread_Kick(q) ==
  /\ Io(q, "kick")
  /\ IF vm[q].first_cpu
     THEN vm' = [vm EXCEPT ![q].kicked = TRUE, ![q].io = "lock"]
     ELSE Faults(q)
  /\ UNCHANGED <<qpipe, marks>>

lock_iothread_Lock(q) ==
  /\ Io(q, "lock") /\ vm[q].mutex = "none"
  /\ vm' = [vm EXCEPT ![q] = Acquired(q)]
  /\ UNCHANGED <<qpipe, marks>>

\* A device raises an interrupt: the halted CPU has work and is woken.
Interrupt(q) ==
  /\ Io(q, "dispatch") /\ vm[q].halted /\ vm[q].first_cpu
  /\ vm' = [vm EXCEPT ![q].halted = FALSE,
                      ![q].cpu = IF @ = "idle" THEN "reidle" ELSE @]
  /\ UNCHANGED <<qpipe, marks>>

\* Nothing (more) to do: unlock and poll again.
main_loop_Poll(q) ==
  /\ Io(q, "dispatch") /\ ~vm[q].ready
  /\ vm' = [vm EXCEPT ![q].io = "poll", ![q].mutex = "none"]
  /\ UNCHANGED <<qpipe, marks>>

\* A timer or a bottom half is due, the timeout is 0: poll without unlocking.
main_loop_Spin(q) ==
  /\ Io(q, "dispatch") /\ ~vm[q].ready
  /\ vm' = [vm EXCEPT ![q].ready = (qpipe > 0)]
  /\ UNCHANGED <<qpipe, marks>>

\* The pipe was readable: afl_setup() and afl_forkserver().
gotPipeNotification(q) ==
  /\ Io(q, "dispatch") /\ vm[q].ready /\ qpipe > 0
  /\ qpipe' = qpipe - 1
  /\ vm' = [vm EXCEPT ![q].io = "serve", ![q].area = TRUE, ![q].ready = FALSE]
  /\ UNCHANGED marks

\* fork() in afl_forkserver(): the copy has the memory and this thread only.
Copy(q) ==
  [vm[q] EXCEPT !.cpu = "none", !.io = "restart", !.fork_child = TRUE]

afl_forkserver_Fork ==
  /\ Io("server", "serve") /\ Io("child", "none")
  /\ vm' = [vm EXCEPT !["child"] = Copy("server")]
  /\ marks' = {}
  /\ UNCHANGED qpipe

\* Mutant: tcg_cpu_thread is not cleared, so that qemu_tcg_init_vcpu() starts
\* no thread.
restart_cpu_thread_NoThread(q) ==
  /\ Io(q, "restart")
  /\ vm' = [vm EXCEPT ![q].first_cpu = vm[q].restart_cpu,
                      ![q].ticks = vm[q].enable_ticks, ![q].io = "dispatch"]
  /\ UNCHANGED <<qpipe, marks>>

\* The rest of gotPipeNotification(), in the child: cpu->created is still
\* set, so qemu_tcg_init_vcpu() does not wait for the new thread.
restart_cpu_thread(q) ==
  /\ Io(q, "restart")
  /\ vm' = [vm EXCEPT ![q].first_cpu = vm[q].restart_cpu,
                      ![q].ticks = vm[q].enable_ticks,
                      ![q].cpu = "start", ![q].io = "dispatch"]
  /\ UNCHANGED <<qpipe, marks>>

\* A child may be killed at any time: afl-fuzz's timeout.
ChildKilled ==
  /\ ~Io("child", "none")
  /\ Exit("child")
  /\ UNCHANGED <<qpipe, marks>>

-----------------------------------------------------------------------------
\* The VM has booted and runs the guest; the IO thread polls.
Init ==
  /\ vm = [q \in Procs |->
             IF q = "server"
             THEN [NoProcess EXCEPT !.cpu = "exec", !.io = "poll", !.mutex = "cpu",
                                    !.first_cpu = TRUE, !.ticks = TRUE]
             ELSE NoProcess]
  /\ qpipe = 0
  /\ marks = {}

Guest(q) ==
  \/ GuestOp(q) \/ startForkserver(q) \/ getWork(q) \/ startWork(q) \/ doneWork(q)

CpuThread(q) ==
  \/ cpu_tb_exec(q)
  \/ qemu_tcg_cpu_thread_fn(q) \/ wait_io_event_Idle(q) \/ wait_io_event_Yield(q)
  \/ wait_io_event_Wake(q) \/ wait_io_event_Done(q)
  \/ handover_Notify(q) \/ handover_Forget(q)

IoThread(q) ==
  \/ lock_iothread_Request(q) \/ lock_iothread_Test(q) \/ lock_iothread_Deref(q)
  \/ lock_iothread_Try(q) \/ lock_iothread_Plain(q) \/ lock_iothread_Kick(q)
  \/ lock_iothread_Lock(q) \/ main_loop_Poll(q) \/ main_loop_Spin(q)
  \/ gotPipeNotification(q) \/ restart_cpu_thread(q)

Next ==
  \/ \E q \in Procs :
       Guest(q) \/ CpuThread(q) \/ SpuriousWakeup(q) \/ IoThread(q) \/ Interrupt(q)
  \/ afl_forkserver_Fork \/ ChildKilled

Spec == Init /\ [][Next]_vars

-----------------------------------------------------------------------------
(* Fairness.  Both threads are scheduled.  A thread waiting for the mutex   *)
(* gets it if it is free again and again: spurious wake-ups of the CPU      *)
(* thread and the rounds of the main loop take and release it in between.   *)
(* The main loop unlocks again and again: a round that keeps the mutex and  *)
(* finds nothing is no step, and MAX_MAIN_LOOP_SPIN ends a series of them.  *)
(* The guest need not call anything, and devices need not interrupt.        *)

Fairness ==
  /\ \A q \in Procs :
       /\ WF_vars(CpuThread(q)) /\ WF_vars(IoThread(q))
       /\ SF_vars(qemu_tcg_cpu_thread_fn(q)) /\ SF_vars(lock_iothread_Lock(q))
       /\ SF_vars(lock_iothread_Plain(q))
  /\ WF_vars(afl_forkserver_Fork)

FairSpec == Spec /\ Fairness

-----------------------------------------------------------------------------
(* Safety.                                                                  *)

CpuHolds == {"exec", "waitio", "yielded", "notify", "forget"}
IoHolds == {"dispatch", "serve", "restart"}

\* The global mutex is held exactly by the thread that is in a section that
\* holds it, in the server and in the forked copy, and never by a thread that
\* has ended or was lost in fork(): nobody can wait for it in vain.
MutexHasOwner ==
  \A q \in Procs : vm[q].io # "fault" =>
    /\ vm[q].mutex = "cpu" <=> vm[q].cpu \in CpuHolds
    /\ vm[q].mutex = "io" <=> vm[q].io \in IoHolds

\* Whenever the IO thread can fork, the CPU thread has handed everything over
\* and is parked: no guest instruction is half done, the CPU to restart is
\* known, the stop request is withdrawn (a copy would obey it again), the
\* ticks are off and the notification is consumed.  The copy continues the guest
\* exactly where the server stopped it, and the server's guest stands still
\* from then on.
ForkQuiescent ==
  /\ Io("server", "serve") =>
       LET s == vm["server"] IN
       /\ s.cpu \in {"idle", "reidle"} /\ s.after = "exit"
       /\ s.restart_cpu /\ ~s.first_cpu /\ ~s.wants_stop /\ ~s.ticks /\ ~s.requesting
       /\ qpipe = 0
  /\ Cpu("child", "start") => vm["child"].ops = vm["server"].ops
  /\ vm["child"].fork_child => vm["child"].ops >= vm["server"].ops

\* The fork server never traces: AFL's map is attached only after its CPU has
\* stopped for good, so what a run leaves in the map is the child's.
ServerLeavesNoTrace == "server" \notin marks

-----------------------------------------------------------------------------
(* Liveness.                                                                *)

\* Once the CPU thread starts to hand over, the fork server comes up (or the
\* IO thread faults, see IoThreadSurvives).
HandoverCompletes ==
  Cpu("server", "notify") ~> vm["server"].io \in {"serve", "fault"}

\* The restarted CPU thread of a copy gets the mutex and runs, unless the copy
\* is gone.
ChildResumes ==
  Io("child", "restart") ~> (Cpu("child", "waitio") \/ Io("child", "none"))

\* An IO thread that asks for the mutex gets it, even from a guest that never
\* halts: the kick and the yielding loop work together.
IoGetsMutex ==
  \A q \in Procs :
    vm[q].io \in {"lock", "plain"} ~> vm[q].io \in {"dispatch", "serve", "none"}

-----------------------------------------------------------------------------
(* What a comment says and the code does not keep.                          *)

\* target-i386/translate.c:8164: "we'll exit the cpu thread and notify the
\* iothread.  The iothread will run the forkserver": it must not fault.
IoThreadSurvives == \A q \in Procs : ~Io(q, "fault")
=============================================================================
