---------------------------- MODULE VMForkProofs ----------------------------
(***************************************************************************)
(* Proofs about the hand-over from the CPU thread to the IO thread, for a   *)
(* guest that executes any number of operations.  The invariant has a part  *)
(* that speaks of the two threads of one process, and a part that relates   *)
(* the server, its copy and the pipe.                                       *)
(***************************************************************************)
EXTENDS VMFork, TLAPS

CpuPcs == {"none", "start", "exec", "waitio", "idle", "reidle", "yield", "reyield",
           "yielded", "notify", "forget", "exited"}
IoPcs == {"none", "poll", "test", "deref", "plain", "try", "kick", "lock", "dispatch",
          "serve", "restart", "fault"}
Process ==
  [cpu : CpuPcs, io : IoPcs, after : {"loop", "exit"}, mutex : {"none", "cpu", "io"},
   requesting : BOOLEAN, ready : BOOLEAN, kicked : BOOLEAN, wants_stop : BOOLEAN,
   first_cpu : BOOLEAN, restart_cpu : BOOLEAN, halted : BOOLEAN,
   ticks : BOOLEAN, enable_ticks : BOOLEAN, fork_child : BOOLEAN,
   area : BOOLEAN, started : BOOLEAN, ops : Nat]

VTypeOK ==
  /\ vm \in [Procs -> Process]
  /\ qpipe \in {0, 1}
  /\ marks \subseteq Procs

\* Who holds the mutex.
Owned(p) ==
  p.io # "fault" =>
    /\ p.mutex = "cpu" <=> p.cpu \in CpuHolds
    /\ p.mutex = "io" <=> p.io \in IoHolds

\* A CPU thread that has handed over finds no CPU in the list, and so never
\* gets out of the first loop of qemu_tcg_wait_io_event(), and out of its
\* thread function with the mutex.
Parked(p) == p.cpu \in {"waitio", "idle", "reidle"} /\ p.after = "exit"

HandedOver(p) ==
  /\ p.cpu # "exited"
  /\ p.after = "exit" =>
       /\ p.cpu \in {"waitio", "idle", "reidle", "none", "start"}
       /\ p.restart_cpu /\ ~p.wants_stop
  /\ Parked(p) => ~p.first_cpu /\ ~p.ticks
  /\ p.cpu = "start" \/ (p.after = "loop" /\ p.cpu # "none") => p.first_cpu

\* The flags the two threads use to talk to each other.
Flags(p) ==
  /\ p.cpu = "notify" => p.wants_stop
  /\ p.cpu = "forget" => ~p.wants_stop
  /\ p.fork_child => ~p.wants_stop
  /\ p.io \in IoHolds \cup {"none", "poll"} => ~p.requesting
  /\ p.io \in {"none", "fault", "restart"} => p.cpu = "none"

Local(p) == Owned(p) /\ HandedOver(p) /\ Flags(p)

\* The server, as long as it is one, and the notification on its way.
ServerPart(s, pipe, m) ==
  /\ s.io # "restart" /\ s.cpu # "start" /\ ~s.fork_child
  /\ s.io = "serve" => pipe = 0 /\ Parked(s) /\ s.cpu # "waitio"
  /\ s.area => s.io = "serve"
  /\ pipe = 1 => s.cpu = "forget" \/ Parked(s) \/ s.io = "fault"
  /\ "server" \notin m

\* A copy exists only while the server serves, and goes on from its state.
CopyPart(s, c) ==
  /\ c.io # "none" => s.io = "serve" /\ c.fork_child
  /\ c.io = "none" => ~c.fork_child
  /\ c.io # "serve"
  /\ c.io = "restart" => c.after = "exit"
  /\ c.io = "restart" \/ c.cpu = "start" => c.ops = s.ops
  /\ c.fork_child => c.ops >= s.ops

\* The inductive invariant.
VInv ==
  /\ VTypeOK
  /\ \A q \in Procs : Local(vm[q])
  /\ ServerPart(vm["server"], qpipe, marks)
  /\ CopyPart(vm["server"], vm["child"])

-----------------------------------------------------------------------------
(* Every action but the fork replaces one process by its next state.        *)

\* What is to be shown of a step that makes r of process q.
Becomes(q, r) ==
  /\ vm' = [vm EXCEPT ![q] = r] /\ r \in Process /\ Local(r)
  /\ qpipe' \in {0, 1} /\ marks' \subseteq Procs
  /\ IF q = "server"
     THEN ServerPart(r, qpipe', marks') /\ CopyPart(r, vm["child"])
     ELSE ServerPart(vm["server"], qpipe', marks') /\ CopyPart(vm["server"], r)

\* A step that makes r of process q, and keeps the parts, preserves the invariant.
LEMMA StepBecomes ==
  ASSUME VInv, NEW q \in Procs, NEW r, Becomes(q, r)
  PROVE  VInv'
<1>1. vm' \in [Procs -> Process] /\ vm'[q] = r /\ \A o \in Procs \ {q} : vm'[o] = vm[o]
  BY DEF VInv, VTypeOK, Becomes
<1>2. VTypeOK'
  BY <1>1 DEF VTypeOK, Becomes
<1>3. \A o \in Procs : Local(vm'[o])
  BY <1>1 DEF VInv, Becomes
<1>4. CASE q = "server"
  BY <1>1, <1>2, <1>3, <1>4 DEF VInv, Becomes, Procs
<1>5. CASE q = "child"
  BY <1>1, <1>2, <1>3, <1>5 DEF VInv, Becomes, Procs
<1> QED
  BY <1>4, <1>5 DEF Procs

\* What the invariant says of one process.
LEMMA OneProcess ==
  ASSUME VInv, NEW q \in Procs
  PROVE  /\ vm[q] \in Process /\ Local(vm[q])
         /\ vm["server"] \in Process /\ vm["child"] \in Process
         /\ Local(vm["server"]) /\ Local(vm["child"])
         /\ ServerPart(vm["server"], qpipe, marks) /\ CopyPart(vm["server"], vm["child"])
         /\ qpipe \in {0, 1} /\ marks \subseteq Procs /\ q \in {"server", "child"}
BY DEF VInv, VTypeOK, Procs

\* A process that has ended.
LEMMA NoProcessFacts ==
  /\ NoProcess \in Process /\ Local(NoProcess)
  /\ NoProcess.io = "none" /\ NoProcess.cpu = "none" /\ ~NoProcess.fork_child
  /\ ~NoProcess.area /\ NoProcess.ops = 0
BY DEF NoProcess, Process, CpuPcs, IoPcs, Local, Owned, HandedOver, Parked, Flags,
       CpuHolds, IoHolds

\* A guest operation changes nothing the threads talk with.
LEMMA Step_GuestOp ==
  ASSUME VInv, NEW q \in Procs, GuestOp(q)
  PROVE  VInv'
<1>0. PICK h \in BOOLEAN : vm' = [vm EXCEPT ![q].ops = @ + 1, ![q].halted = h]
  BY DEF GuestOp
<1> DEFINE p == vm[q]
           r == [p EXCEPT !.ops = @ + 1, !.halted = h]
<1>1. vm' = [vm EXCEPT ![q] = r] /\ qpipe' = qpipe /\ marks' = marks /\ p \in Process
  BY <1>0 DEF GuestOp, Running, Cpu, VInv, VTypeOK
<1>2. r \in Process
  <2>1. p.ops + 1 \in Nat
    BY <1>1 DEF Process
  <2> QED
    BY <2>1, <1>1 DEF Process
<1>3. /\ r.ops = p.ops + 1
      /\ r.cpu = p.cpu /\ r.io = p.io /\ r.after = p.after /\ r.mutex = p.mutex
      /\ r.requesting = p.requesting /\ r.wants_stop = p.wants_stop
      /\ r.first_cpu = p.first_cpu /\ r.restart_cpu = p.restart_cpu /\ r.ticks = p.ticks
      /\ r.fork_child = p.fork_child /\ r.area = p.area
  BY <1>1 DEF Process
<1>4. /\ p.cpu = "exec" /\ Local(p)
  BY <1>1 DEF GuestOp, Running, Cpu, VInv
<1> HIDE DEF r
<1>5. Local(r)
  BY <1>1, <1>3, <1>4 DEF Local, Owned, HandedOver, Flags, Parked, Process,
                          CpuHolds, IoHolds, CpuPcs, IoPcs
<1>6. CASE q = "server"
  <2>1. /\ ServerPart(p, qpipe, marks) /\ CopyPart(p, vm["child"])
        /\ Local(vm["child"]) /\ vm["child"] \in Process
        /\ qpipe \in {0, 1} /\ marks \subseteq Procs
    BY <1>6 DEF VInv, VTypeOK, Procs
  <2>2. ServerPart(r, qpipe, marks) /\ CopyPart(r, vm["child"])
    BY <2>1, <1>1, <1>3, <1>4 DEF ServerPart, CopyPart, Parked, Local, Owned,
                                 HandedOver, Flags, Process, CpuHolds, IoHolds
  <2> QED
    BY <2>1, <2>2, <1>1, <1>2, <1>5, <1>6, StepBecomes DEF Becomes
<1>7. CASE q = "child"
  <2>1. /\ ServerPart(vm["server"], qpipe, marks) /\ CopyPart(vm["server"], p)
        /\ vm["server"] \in Process /\ qpipe \in {0, 1} /\ marks \subseteq Procs
    BY <1>7 DEF VInv, VTypeOK, Procs
  <2>2. CopyPart(vm["server"], r)
    BY <2>1, <1>1, <1>3, <1>4 DEF CopyPart, Local, Owned, HandedOver, Flags, Process,
                                 CpuHolds, IoHolds
  <2> QED
    BY <2>1, <2>2, <1>1, <1>2, <1>5, <1>7, StepBecomes DEF Becomes
<1> QED
  BY <1>6, <1>7 DEF Procs

\* aflCall 1 in a process that is no copy asks the CPU thread to stop.
LEMMA Step_StopRequest ==
  ASSUME VInv, NEW q \in Procs, startForkserver(q), ~vm[q].fork_child
  PROVE  VInv'
<1>0. PICK t \in BOOLEAN : vm' = [vm EXCEPT ![q].ops = @ + 1, ![q].enable_ticks = t,
                                     ![q].wants_stop = TRUE]
  BY DEF startForkserver
<1> DEFINE p == vm[q]
           r == [p EXCEPT !.ops = @ + 1, !.enable_ticks = t, !.wants_stop = TRUE]
<1>1. vm' = [vm EXCEPT ![q] = r] /\ qpipe' = qpipe /\ marks' = marks /\ p \in Process
  BY <1>0 DEF startForkserver, Running, Cpu, VInv, VTypeOK
<1>2. r \in Process
  <2>1. p.ops + 1 \in Nat
    BY <1>1 DEF Process
  <2> QED
    BY <2>1, <1>1 DEF Process
<1>3. /\ r.wants_stop = TRUE /\ r.ops = p.ops + 1
      /\ r.cpu = p.cpu /\ r.io = p.io /\ r.after = p.after /\ r.mutex = p.mutex
      /\ r.requesting = p.requesting /\ r.first_cpu = p.first_cpu
      /\ r.restart_cpu = p.restart_cpu /\ r.ticks = p.ticks
      /\ r.fork_child = p.fork_child /\ r.area = p.area
  BY <1>1 DEF Process
<1>4. /\ p.cpu = "exec" /\ ~p.fork_child /\ Local(p)
  BY <1>1 DEF startForkserver, Running, Cpu, VInv
<1> HIDE DEF r
<1>5. Local(r)
  BY <1>1, <1>3, <1>4 DEF Local, Owned, HandedOver, Flags, Parked, Process,
                          CpuHolds, IoHolds, CpuPcs, IoPcs
<1>6. CASE q = "server"
  <2>1. /\ ServerPart(p, qpipe, marks) /\ CopyPart(p, vm["child"])
        /\ Local(vm["child"]) /\ vm["child"] \in Process
        /\ qpipe \in {0, 1} /\ marks \subseteq Procs
    BY <1>6 DEF VInv, VTypeOK, Procs
  <2>2. ServerPart(r, qpipe, marks) /\ CopyPart(r, vm["child"])
    BY <2>1, <1>1, <1>3, <1>4 DEF ServerPart, CopyPart, Parked, Local, Owned,
                                 HandedOver, Flags, Process, CpuHolds, IoHolds
  <2> QED
    BY <2>1, <2>2, <1>1, <1>2, <1>5, <1>6, StepBecomes DEF Becomes
<1>7. CASE q = "child"
  <2>1. /\ ServerPart(vm["server"], qpipe, marks) /\ CopyPart(vm["server"], p)
        /\ vm["server"] \in Process /\ qpipe \in {0, 1} /\ marks \subseteq Procs
    BY <1>7 DEF VInv, VTypeOK, Procs
  <2>2. CopyPart(vm["server"], r)
    BY <2>1, <1>1, <1>3, <1>4 DEF CopyPart, Local, Owned, HandedOver, Flags, Process,
                                 CpuHolds, IoHolds
  <2> QED
    BY <2>1, <2>2, <1>1, <1>2, <1>5, <1>7, StepBecomes DEF Becomes
<1> QED
  BY <1>6, <1>7 DEF Procs

\* aflCall 2 before the work has started reads the input.
LEMMA Step_Work ==
  ASSUME VInv, NEW q \in Procs, getWork(q), ~vm[q].started
  PROVE  VInv'
<1> DEFINE p == vm[q]
           r == [p EXCEPT !.ops = @ + 1]
<1>1. vm' = [vm EXCEPT ![q] = r] /\ qpipe' = qpipe /\ marks' = marks /\ p \in Process
  BY DEF getWork, Running, Cpu, VInv, VTypeOK
<1>2. r \in Process
  <2>1. p.ops + 1 \in Nat
    BY <1>1 DEF Process
  <2> QED
    BY <2>1, <1>1 DEF Process
<1>3. /\ r.ops = p.ops + 1
      /\ r.cpu = p.cpu /\ r.io = p.io /\ r.after = p.after /\ r.mutex = p.mutex
      /\ r.requesting = p.requesting /\ r.wants_stop = p.wants_stop
      /\ r.first_cpu = p.first_cpu /\ r.restart_cpu = p.restart_cpu /\ r.ticks = p.ticks
      /\ r.fork_child = p.fork_child /\ r.area = p.area
  BY <1>1 DEF Process
<1>4. /\ p.cpu = "exec" /\ Local(p)
  BY <1>1 DEF getWork, Running, Cpu, VInv
<1> HIDE DEF r
<1>5. Local(r)
  BY <1>1, <1>3, <1>4 DEF Local, Owned, HandedOver, Flags, Parked, Process,
                          CpuHolds, IoHolds, CpuPcs, IoPcs
<1>6. CASE q = "server"
  <2>1. /\ ServerPart(p, qpipe, marks) /\ CopyPart(p, vm["child"])
        /\ Local(vm["child"]) /\ vm["child"] \in Process
        /\ qpipe \in {0, 1} /\ marks \subseteq Procs
    BY <1>6 DEF VInv, VTypeOK, Procs
  <2>2. ServerPart(r, qpipe, marks) /\ CopyPart(r, vm["child"])
    BY <2>1, <1>1, <1>3, <1>4 DEF ServerPart, CopyPart, Parked, Local, Owned,
                                 HandedOver, Flags, Process, CpuHolds, IoHolds
  <2> QED
    BY <2>1, <2>2, <1>1, <1>2, <1>5, <1>6, StepBecomes DEF Becomes
<1>7. CASE q = "child"
  <2>1. /\ ServerPart(vm["server"], qpipe, marks) /\ CopyPart(vm["server"], p)
        /\ vm["server"] \in Process /\ qpipe \in {0, 1} /\ marks \subseteq Procs
    BY <1>7 DEF VInv, VTypeOK, Procs
  <2>2. CopyPart(vm["server"], r)
    BY <2>1, <1>1, <1>3, <1>4 DEF CopyPart, Local, Owned, HandedOver, Flags, Process,
                                 CpuHolds, IoHolds
  <2> QED
    BY <2>1, <2>2, <1>1, <1>2, <1>5, <1>7, StepBecomes DEF Becomes
<1> QED
  BY <1>6, <1>7 DEF Procs

\* aflCall 3 only sets a flag.
LEMMA Step_startWork ==
  ASSUME VInv, NEW q \in Procs, startWork(q)
  PROVE  VInv'
<1> DEFINE p == vm[q]
           r == [p EXCEPT !.ops = @ + 1, !.started = TRUE]
<1>1. vm' = [vm EXCEPT ![q] = r] /\ qpipe' = qpipe /\ marks' = marks /\ p \in Process
  BY DEF startWork, Running, Cpu, VInv, VTypeOK
<1>2. r \in Process
  <2>1. p.ops + 1 \in Nat
    BY <1>1 DEF Process
  <2> QED
    BY <2>1, <1>1 DEF Process
<1>3. /\ r.ops = p.ops + 1
      /\ r.cpu = p.cpu /\ r.io = p.io /\ r.after = p.after /\ r.mutex = p.mutex
      /\ r.requesting = p.requesting /\ r.wants_stop = p.wants_stop
      /\ r.first_cpu = p.first_cpu /\ r.restart_cpu = p.restart_cpu /\ r.ticks = p.ticks
      /\ r.fork_child = p.fork_child /\ r.area = p.area
  BY <1>1 DEF Process
<1>4. /\ p.cpu = "exec" /\ Local(p)
  BY <1>1 DEF startWork, Running, Cpu, VInv
<1> HIDE DEF r
<1>5. Local(r)
  BY <1>1, <1>3, <1>4 DEF Local, Owned, HandedOver, Flags, Parked, Process,
                          CpuHolds, IoHolds, CpuPcs, IoPcs
<1>6. CASE q = "server"
  <2>1. /\ ServerPart(p, qpipe, marks) /\ CopyPart(p, vm["child"])
        /\ Local(vm["child"]) /\ vm["child"] \in Process
        /\ qpipe \in {0, 1} /\ marks \subseteq Procs
    BY <1>6 DEF VInv, VTypeOK, Procs
  <2>2. ServerPart(r, qpipe, marks) /\ CopyPart(r, vm["child"])
    BY <2>1, <1>1, <1>3, <1>4 DEF ServerPart, CopyPart, Parked, Local, Owned,
                                 HandedOver, Flags, Process, CpuHolds, IoHolds
  <2> QED
    BY <2>1, <2>2, <1>1, <1>2, <1>5, <1>6, StepBecomes DEF Becomes
<1>7. CASE q = "child"
  <2>1. /\ ServerPart(vm["server"], qpipe, marks) /\ CopyPart(vm["server"], p)
        /\ vm["server"] \in Process /\ qpipe \in {0, 1} /\ marks \subseteq Procs
    BY <1>7 DEF VInv, VTypeOK, Procs
  <2>2. CopyPart(vm["server"], r)
    BY <2>1, <1>1, <1>3, <1>4 DEF CopyPart, Local, Owned, HandedOver, Flags, Process,
                                 CpuHolds, IoHolds
  <2> QED
    BY <2>1, <2>2, <1>1, <1>2, <1>5, <1>7, StepBecomes DEF Becomes
<1> QED
  BY <1>6, <1>7 DEF Procs

\* A new CPU thread takes the free mutex.
LEMMA Step_qemu_tcg_cpu_thread_fn ==
  ASSUME VInv, NEW q \in Procs, qemu_tcg_cpu_thread_fn(q)
  PROVE  VInv'
<1> DEFINE p == vm[q]
           r == [p EXCEPT !.mutex = "cpu", !.cpu = "waitio", !.after = "loop"]
<1>1. vm' = [vm EXCEPT ![q] = r] /\ qpipe' = qpipe /\ marks' = marks /\ p \in Process
  BY DEF qemu_tcg_cpu_thread_fn, Cpu, VInv, VTypeOK
<1>2. r \in Process
  BY <1>1, ZenonT(40) DEF Process, CpuPcs, IoPcs
<1>3. /\ r.cpu = "waitio" /\ r.after = "loop" /\ r.mutex = "cpu"
      /\ r.io = p.io /\ r.requesting = p.requesting /\ r.wants_stop = p.wants_stop
      /\ r.first_cpu = p.first_cpu /\ r.restart_cpu = p.restart_cpu /\ r.ticks = p.ticks
      /\ r.fork_child = p.fork_child /\ r.area = p.area /\ r.ops = p.ops
  BY <1>1 DEF Process
<1>4. /\ p.cpu = "start" /\ p.mutex = "none" /\ Local(p)
  BY <1>1 DEF qemu_tcg_cpu_thread_fn, Cpu, VInv
<1> HIDE DEF r
<1>5. Local(r)
  BY <1>1, <1>3, <1>4 DEF Local, Owned, HandedOver, Flags, Parked, Process,
                          CpuHolds, IoHolds, CpuPcs, IoPcs
<1>6. CASE q = "server"
  <2>1. /\ ServerPart(p, qpipe, marks) /\ CopyPart(p, vm["child"])
        /\ Local(vm["child"]) /\ vm["child"] \in Process
        /\ qpipe \in {0, 1} /\ marks \subseteq Procs
    BY <1>6 DEF VInv, VTypeOK, Procs
  <2>2. ServerPart(r, qpipe, marks) /\ CopyPart(r, vm["child"])
    BY <2>1, <1>1, <1>3, <1>4 DEF ServerPart, CopyPart, Parked, Local, Owned,
                                 HandedOver, Flags, Process, CpuHolds, IoHolds
  <2> QED
    BY <2>1, <2>2, <1>1, <1>2, <1>5, <1>6, StepBecomes DEF Becomes
<1>7. CASE q = "child"
  <2>1. /\ ServerPart(vm["server"], qpipe, marks) /\ CopyPart(vm["server"], p)
        /\ vm["server"] \in Process /\ qpipe \in {0, 1} /\ marks \subseteq Procs
    BY <1>7 DEF VInv, VTypeOK, Procs
  <2>2. CopyPart(vm["server"], r)
    BY <2>1, <1>1, <1>3, <1>4 DEF CopyPart, Local, Owned, HandedOver, Flags, Process,
                                 CpuHolds, IoHolds
  <2> QED
    BY <2>1, <2>2, <1>1, <1>2, <1>5, <1>7, StepBecomes DEF Becomes
<1> QED
  BY <1>6, <1>7 DEF Procs

\* An idle CPU thread gives the mutex up.
LEMMA Step_wait_io_event_Idle ==
  ASSUME VInv, NEW q \in Procs, wait_io_event_Idle(q)
  PROVE  VInv'
<1> DEFINE p == vm[q]
           r == [p EXCEPT !.cpu = "idle", !.mutex = "none"]
<1>1. vm' = [vm EXCEPT ![q] = r] /\ qpipe' = qpipe /\ marks' = marks /\ p \in Process
  BY DEF wait_io_event_Idle, Cpu, VInv, VTypeOK
<1>2. r \in Process
  BY <1>1, ZenonT(40) DEF Process, CpuPcs, IoPcs
<1>3. /\ r.cpu = "idle" /\ r.mutex = "none"
      /\ r.io = p.io /\ r.after = p.after /\ r.requesting = p.requesting
      /\ r.wants_stop = p.wants_stop /\ r.first_cpu = p.first_cpu
      /\ r.restart_cpu = p.restart_cpu /\ r.ticks = p.ticks
      /\ r.fork_child = p.fork_child /\ r.area = p.area /\ r.ops = p.ops
  BY <1>1 DEF Process
<1>4. /\ p.cpu = "waitio" /\ Local(p)
  BY <1>1 DEF wait_io_event_Idle, Cpu, VInv
<1> HIDE DEF r
<1>5. Local(r)
  BY <1>1, <1>3, <1>4 DEF Local, Owned, HandedOver, Flags, Parked, Process,
                          CpuHolds, IoHolds, CpuPcs, IoPcs
<1>6. CASE q = "server"
  <2>1. /\ ServerPart(p, qpipe, marks) /\ CopyPart(p, vm["child"])
        /\ Local(vm["child"]) /\ vm["child"] \in Process
        /\ qpipe \in {0, 1} /\ marks \subseteq Procs
    BY <1>6 DEF VInv, VTypeOK, Procs
  <2>2. ServerPart(r, qpipe, marks) /\ CopyPart(r, vm["child"])
    BY <2>1, <1>1, <1>3, <1>4 DEF ServerPart, CopyPart, Parked, Local, Owned,
                                 HandedOver, Flags, Process, CpuHolds, IoHolds
  <2> QED
    BY <2>1, <2>2, <1>1, <1>2, <1>5, <1>6, StepBecomes DEF Becomes
<1>7. CASE q = "child"
  <2>1. /\ ServerPart(vm["server"], qpipe, marks) /\ CopyPart(vm["server"], p)
        /\ vm["server"] \in Process /\ qpipe \in {0, 1} /\ marks \subseteq Procs
    BY <1>7 DEF VInv, VTypeOK, Procs
  <2>2. CopyPart(vm["server"], r)
    BY <2>1, <1>1, <1>3, <1>4 DEF CopyPart, Local, Owned, HandedOver, Flags, Process,
                                 CpuHolds, IoHolds
  <2> QED
    BY <2>1, <2>2, <1>1, <1>2, <1>5, <1>7, StepBecomes DEF Becomes
<1> QED
  BY <1>6, <1>7 DEF Procs

\* A busy CPU thread yields the mutex; one that has handed over is not busy.
LEMMA Step_wait_io_event_Yield ==
  ASSUME VInv, NEW q \in Procs, wait_io_event_Yield(q)
  PROVE  VInv'
<1> DEFINE p == vm[q]
           r == [p EXCEPT !.cpu = "yield", !.mutex = "none"]
<1>1. vm' = [vm EXCEPT ![q] = r] /\ qpipe' = qpipe /\ marks' = marks /\ p \in Process
  BY DEF wait_io_event_Yield, Cpu, all_cpu_threads_idle, VInv, VTypeOK
<1>2. r \in Process
  BY <1>1, ZenonT(40) DEF Process, CpuPcs, IoPcs
<1>3. /\ r.cpu = "yield" /\ r.mutex = "none"
      /\ r.io = p.io /\ r.after = p.after /\ r.requesting = p.requesting
      /\ r.wants_stop = p.wants_stop /\ r.first_cpu = p.first_cpu
      /\ r.restart_cpu = p.restart_cpu /\ r.ticks = p.ticks
      /\ r.fork_child = p.fork_child /\ r.area = p.area /\ r.ops = p.ops
  BY <1>1 DEF Process
<1>4. /\ p.cpu \in {"waitio", "yielded"} /\ (p.cpu = "waitio" => p.first_cpu) /\ Local(p)
  BY <1>1 DEF wait_io_event_Yield, Cpu, all_cpu_threads_idle, VInv
<1> HIDE DEF r
<1>5. Local(r)
  BY <1>1, <1>3, <1>4 DEF Local, Owned, HandedOver, Flags, Parked, Process,
                          CpuHolds, IoHolds, CpuPcs, IoPcs
<1>6. CASE q = "server"
  <2>1. /\ ServerPart(p, qpipe, marks) /\ CopyPart(p, vm["child"])
        /\ Local(vm["child"]) /\ vm["child"] \in Process
        /\ qpipe \in {0, 1} /\ marks \subseteq Procs
    BY <1>6 DEF VInv, VTypeOK, Procs
  <2>2. ServerPart(r, qpipe, marks) /\ CopyPart(r, vm["child"])
    BY <2>1, <1>1, <1>3, <1>4 DEF ServerPart, CopyPart, Parked, Local, Owned,
                                 HandedOver, Flags, Process, CpuHolds, IoHolds
  <2> QED
    BY <2>1, <2>2, <1>1, <1>2, <1>5, <1>6, StepBecomes DEF Becomes
<1>7. CASE q = "child"
  <2>1. /\ ServerPart(vm["server"], qpipe, marks) /\ CopyPart(vm["server"], p)
        /\ vm["server"] \in Process /\ qpipe \in {0, 1} /\ marks \subseteq Procs
    BY <1>7 DEF VInv, VTypeOK, Procs
  <2>2. CopyPart(vm["server"], r)
    BY <2>1, <1>1, <1>3, <1>4 DEF CopyPart, Local, Owned, HandedOver, Flags, Process,
                                 CpuHolds, IoHolds
  <2> QED
    BY <2>1, <2>2, <1>1, <1>2, <1>5, <1>7, StepBecomes DEF Becomes
<1> QED
  BY <1>6, <1>7 DEF Procs

\* A wake-up does not take the mutex yet.
LEMMA Step_SpuriousWakeup ==
  ASSUME VInv, NEW q \in Procs, SpuriousWakeup(q)
  PROVE  VInv'
<1> DEFINE p == vm[q]
           r == [p EXCEPT !.cpu = IF @ = "idle" THEN "reidle" ELSE "reyield"]
<1>1. vm' = [vm EXCEPT ![q] = r] /\ qpipe' = qpipe /\ marks' = marks /\ p \in Process
  BY DEF SpuriousWakeup, VInv, VTypeOK
<1>2. r \in Process
  BY <1>1, ZenonT(40) DEF Process, CpuPcs, IoPcs
<1>3. /\ r.cpu = (IF p.cpu = "idle" THEN "reidle" ELSE "reyield")
      /\ r.io = p.io /\ r.after = p.after /\ r.mutex = p.mutex
      /\ r.requesting = p.requesting /\ r.wants_stop = p.wants_stop
      /\ r.first_cpu = p.first_cpu /\ r.restart_cpu = p.restart_cpu /\ r.ticks = p.ticks
      /\ r.fork_child = p.fork_child /\ r.area = p.area /\ r.ops = p.ops
  BY <1>1 DEF Process
<1>4. /\ p.cpu \in {"idle", "yield"} /\ Local(p)
  BY <1>1 DEF SpuriousWakeup, VInv
<1> HIDE DEF r
<1>5. Local(r)
  BY <1>1, <1>3, <1>4 DEF Local, Owned, HandedOver, Flags, Parked, Process,
                          CpuHolds, IoHolds, CpuPcs, IoPcs
<1>6. CASE q = "server"
  <2>1. /\ ServerPart(p, qpipe, marks) /\ CopyPart(p, vm["child"])
        /\ Local(vm["child"]) /\ vm["child"] \in Process
        /\ qpipe \in {0, 1} /\ marks \subseteq Procs
    BY <1>6 DEF VInv, VTypeOK, Procs
  <2>2. ServerPart(r, qpipe, marks) /\ CopyPart(r, vm["child"])
    BY <2>1, <1>1, <1>3, <1>4 DEF ServerPart, CopyPart, Parked, Local, Owned,
                                 HandedOver, Flags, Process, CpuHolds, IoHolds
  <2> QED
    BY <2>1, <2>2, <1>1, <1>2, <1>5, <1>6, StepBecomes DEF Becomes
<1>7. CASE q = "child"
  <2>1. /\ ServerPart(vm["server"], qpipe, marks) /\ CopyPart(vm["server"], p)
        /\ vm["server"] \in Process /\ qpipe \in {0, 1} /\ marks \subseteq Procs
    BY <1>7 DEF VInv, VTypeOK, Procs
  <2>2. CopyPart(vm["server"], r)
    BY <2>1, <1>1, <1>3, <1>4 DEF CopyPart, Local, Owned, HandedOver, Flags, Process,
                                 CpuHolds, IoHolds
  <2> QED
    BY <2>1, <2>2, <1>1, <1>2, <1>5, <1>7, StepBecomes DEF Becomes
<1> QED
  BY <1>6, <1>7 DEF Procs

\* A woken CPU thread takes the mutex only if it is free: not from a server that
\* forks.
LEMMA Step_wait_io_event_Wake ==
  ASSUME VInv, NEW q \in Procs, wait_io_event_Wake(q)
  PROVE  VInv'
<1> DEFINE p == vm[q]
           r == [p EXCEPT !.cpu = IF @ = "reidle" THEN "waitio" ELSE "yielded",
                         !.mutex = "cpu"]
<1>1. vm' = [vm EXCEPT ![q] = r] /\ qpipe' = qpipe /\ marks' = marks /\ p \in Process
  BY DEF wait_io_event_Wake, VInv, VTypeOK
<1>2. r \in Process
  BY <1>1, ZenonT(40) DEF Process, CpuPcs, IoPcs
<1>3. /\ r.cpu = (IF p.cpu = "reidle" THEN "waitio" ELSE "yielded") /\ r.mutex = "cpu"
      /\ r.io = p.io /\ r.after = p.after /\ r.requesting = p.requesting
      /\ r.wants_stop = p.wants_stop /\ r.first_cpu = p.first_cpu
      /\ r.restart_cpu = p.restart_cpu /\ r.ticks = p.ticks
      /\ r.fork_child = p.fork_child /\ r.area = p.area /\ r.ops = p.ops
  BY <1>1 DEF Process
<1>4. /\ p.cpu \in {"reidle", "reyield"} /\ p.mutex = "none" /\ Local(p)
  BY <1>1 DEF wait_io_event_Wake, VInv
<1> HIDE DEF r
<1>5. Local(r)
  BY <1>1, <1>3, <1>4 DEF Local, Owned, HandedOver, Flags, Parked, Process,
                          CpuHolds, IoHolds, CpuPcs, IoPcs
<1>6. CASE q = "server"
  <2>1. /\ ServerPart(p, qpipe, marks) /\ CopyPart(p, vm["child"])
        /\ Local(vm["child"]) /\ vm["child"] \in Process
        /\ qpipe \in {0, 1} /\ marks \subseteq Procs
    BY <1>6 DEF VInv, VTypeOK, Procs
  <2>2. ServerPart(r, qpipe, marks) /\ CopyPart(r, vm["child"])
    BY <2>1, <1>1, <1>3, <1>4 DEF ServerPart, CopyPart, Parked, Local, Owned,
                                 HandedOver, Flags, Process, CpuHolds, IoHolds
  <2> QED
    BY <2>1, <2>2, <1>1, <1>2, <1>5, <1>6, StepBecomes DEF Becomes
<1>7. CASE q = "child"
  <2>1. /\ ServerPart(vm["server"], qpipe, marks) /\ CopyPart(vm["server"], p)
        /\ vm["server"] \in Process /\ qpipe \in {0, 1} /\ marks \subseteq Procs
    BY <1>7 DEF VInv, VTypeOK, Procs
  <2>2. CopyPart(vm["server"], r)
    BY <2>1, <1>1, <1>3, <1>4 DEF CopyPart, Local, Owned, HandedOver, Flags, Process,
                                 CpuHolds, IoHolds
  <2> QED
    BY <2>1, <2>2, <1>1, <1>2, <1>5, <1>7, StepBecomes DEF Becomes
<1> QED
  BY <1>6, <1>7 DEF Procs

\* A CPU thread that leaves the loops has a CPU in its list: it has not handed over,
\* and goes on with the guest or hands over now.
LEMMA Step_wait_io_event_Done ==
  ASSUME VInv, NEW q \in Procs, wait_io_event_Done(q)
  PROVE  VInv'
<1> DEFINE p == vm[q]
           r == [p EXCEPT !.cpu = CASE p.after = "exit" -> "exited"
                               [] p.wants_stop -> "notify"
                               [] OTHER -> "exec"]
<1>1. vm' = [vm EXCEPT ![q] = r] /\ qpipe' = qpipe /\ marks' = marks /\ p \in Process
  BY DEF wait_io_event_Done, Cpu, all_cpu_threads_idle, VInv, VTypeOK
<1>2. r \in Process
  BY <1>1, ZenonT(40) DEF Process, CpuPcs, IoPcs
<1>3. /\ r.cpu = (CASE p.after = "exit" -> "exited" [] p.wants_stop -> "notify" [] OTHER -> "exec")
      /\ r.io = p.io /\ r.after = p.after /\ r.mutex = p.mutex
      /\ r.requesting = p.requesting /\ r.wants_stop = p.wants_stop
      /\ r.first_cpu = p.first_cpu /\ r.restart_cpu = p.restart_cpu /\ r.ticks = p.ticks
      /\ r.fork_child = p.fork_child /\ r.area = p.area /\ r.ops = p.ops
  BY <1>1 DEF Process
<1>4. /\ p.cpu \in {"waitio", "yielded"} /\ (p.cpu = "waitio" => p.first_cpu) /\ Local(p)
  BY <1>1 DEF wait_io_event_Done, Cpu, all_cpu_threads_idle, VInv
<1> HIDE DEF r
<1>5. Local(r)
  BY <1>1, <1>3, <1>4 DEF Local, Owned, HandedOver, Flags, Parked, Process,
                          CpuHolds, IoHolds, CpuPcs, IoPcs
<1>6. CASE q = "server"
  <2>1. /\ ServerPart(p, qpipe, marks) /\ CopyPart(p, vm["child"])
        /\ Local(vm["child"]) /\ vm["child"] \in Process
        /\ qpipe \in {0, 1} /\ marks \subseteq Procs
    BY <1>6 DEF VInv, VTypeOK, Procs
  <2>2. ServerPart(r, qpipe, marks) /\ CopyPart(r, vm["child"])
    BY <2>1, <1>1, <1>3, <1>4 DEF ServerPart, CopyPart, Parked, Local, Owned,
                                 HandedOver, Flags, Process, CpuHolds, IoHolds
  <2> QED
    BY <2>1, <2>2, <1>1, <1>2, <1>5, <1>6, StepBecomes DEF Becomes
<1>7. CASE q = "child"
  <2>1. /\ ServerPart(vm["server"], qpipe, marks) /\ CopyPart(vm["server"], p)
        /\ vm["server"] \in Process /\ qpipe \in {0, 1} /\ marks \subseteq Procs
    BY <1>7 DEF VInv, VTypeOK, Procs
  <2>2. CopyPart(vm["server"], r)
    BY <2>1, <1>1, <1>3, <1>4 DEF CopyPart, Local, Owned, HandedOver, Flags, Process,
                                 CpuHolds, IoHolds
  <2> QED
    BY <2>1, <2>2, <1>1, <1>2, <1>5, <1>7, StepBecomes DEF Becomes
<1> QED
  BY <1>6, <1>7 DEF Procs

\* The CPU to restart is kept before it is forgotten.
LEMMA Step_handover_Forget ==
  ASSUME VInv, NEW q \in Procs, handover_Forget(q)
  PROVE  VInv'
<1> DEFINE p == vm[q]
           r == [p EXCEPT !.restart_cpu = p.first_cpu, !.first_cpu = FALSE,
                         !.ticks = FALSE, !.cpu = "waitio", !.after = "exit"]
<1>1. vm' = [vm EXCEPT ![q] = r] /\ qpipe' = qpipe /\ marks' = marks /\ p \in Process
  BY DEF handover_Forget, Cpu, VInv, VTypeOK
<1>2. r \in Process
  BY <1>1, ZenonT(40) DEF Process, CpuPcs, IoPcs
<1>3. /\ r.cpu = "waitio" /\ r.after = "exit" /\ r.first_cpu = FALSE
      /\ r.restart_cpu = p.first_cpu /\ r.ticks = FALSE
      /\ r.io = p.io /\ r.mutex = p.mutex /\ r.requesting = p.requesting
      /\ r.wants_stop = p.wants_stop /\ r.fork_child = p.fork_child /\ r.area = p.area
      /\ r.ops = p.ops
  BY <1>1 DEF Process
<1>4. /\ p.cpu = "forget" /\ Local(p)
  BY <1>1 DEF handover_Forget, Cpu, VInv
<1> HIDE DEF r
<1>5. Local(r)
  BY <1>1, <1>3, <1>4 DEF Local, Owned, HandedOver, Flags, Parked, Process,
                          CpuHolds, IoHolds, CpuPcs, IoPcs
<1>6. CASE q = "server"
  <2>1. /\ ServerPart(p, qpipe, marks) /\ CopyPart(p, vm["child"])
        /\ Local(vm["child"]) /\ vm["child"] \in Process
        /\ qpipe \in {0, 1} /\ marks \subseteq Procs
    BY <1>6 DEF VInv, VTypeOK, Procs
  <2>2. ServerPart(r, qpipe, marks) /\ CopyPart(r, vm["child"])
    BY <2>1, <1>1, <1>3, <1>4 DEF ServerPart, CopyPart, Parked, Local, Owned,
                                 HandedOver, Flags, Process, CpuHolds, IoHolds
  <2> QED
    BY <2>1, <2>2, <1>1, <1>2, <1>5, <1>6, StepBecomes DEF Becomes
<1>7. CASE q = "child"
  <2>1. /\ ServerPart(vm["server"], qpipe, marks) /\ CopyPart(vm["server"], p)
        /\ vm["server"] \in Process /\ qpipe \in {0, 1} /\ marks \subseteq Procs
    BY <1>7 DEF VInv, VTypeOK, Procs
  <2>2. CopyPart(vm["server"], r)
    BY <2>1, <1>1, <1>3, <1>4 DEF CopyPart, Local, Owned, HandedOver, Flags, Process,
                                 CpuHolds, IoHolds
  <2> QED
    BY <2>1, <2>2, <1>1, <1>2, <1>5, <1>7, StepBecomes DEF Becomes
<1> QED
  BY <1>6, <1>7 DEF Procs

\* The IO thread asks for the mutex.
LEMMA Step_lock_iothread_Request ==
  ASSUME VInv, NEW q \in Procs, lock_iothread_Request(q)
  PROVE  VInv'
<1> DEFINE p == vm[q]
           r == [p EXCEPT !.io = "test", !.requesting = TRUE, !.ready = (qpipe > 0)]
<1>1. vm' = [vm EXCEPT ![q] = r] /\ qpipe' = qpipe /\ marks' = marks /\ p \in Process
  BY DEF lock_iothread_Request, Io, VInv, VTypeOK
<1>2. r \in Process
  <2>1. (qpipe > 0) \in BOOLEAN
    OBVIOUS
  <2> QED
    BY <1>1, <2>1, ZenonT(40) DEF Process, CpuPcs, IoPcs
<1>3. /\ r.io = "test" /\ r.requesting = TRUE
      /\ r.cpu = p.cpu /\ r.after = p.after /\ r.mutex = p.mutex
      /\ r.wants_stop = p.wants_stop /\ r.first_cpu = p.first_cpu
      /\ r.restart_cpu = p.restart_cpu /\ r.ticks = p.ticks
      /\ r.fork_child = p.fork_child /\ r.area = p.area /\ r.ops = p.ops
  BY <1>1 DEF Process
<1>4. /\ p.io = "poll" /\ Local(p)
  BY <1>1 DEF lock_iothread_Request, Io, VInv
<1> HIDE DEF r
<1>5. Local(r)
  BY <1>1, <1>3, <1>4 DEF Local, Owned, HandedOver, Flags, Parked, Process,
                          CpuHolds, IoHolds, CpuPcs, IoPcs
<1>6. CASE q = "server"
  <2>1. /\ ServerPart(p, qpipe, marks) /\ CopyPart(p, vm["child"])
        /\ Local(vm["child"]) /\ vm["child"] \in Process
        /\ qpipe \in {0, 1} /\ marks \subseteq Procs
    BY <1>6 DEF VInv, VTypeOK, Procs
  <2>2. ServerPart(r, qpipe, marks) /\ CopyPart(r, vm["child"])
    BY <2>1, <1>1, <1>3, <1>4 DEF ServerPart, CopyPart, Parked, Local, Owned,
                                 HandedOver, Flags, Process, CpuHolds, IoHolds
  <2> QED
    BY <2>1, <2>2, <1>1, <1>2, <1>5, <1>6, StepBecomes DEF Becomes
<1>7. CASE q = "child"
  <2>1. /\ ServerPart(vm["server"], qpipe, marks) /\ CopyPart(vm["server"], p)
        /\ vm["server"] \in Process /\ qpipe \in {0, 1} /\ marks \subseteq Procs
    BY <1>7 DEF VInv, VTypeOK, Procs
  <2>2. CopyPart(vm["server"], r)
    BY <2>1, <1>1, <1>3, <1>4 DEF CopyPart, Local, Owned, HandedOver, Flags, Process,
                                 CpuHolds, IoHolds
  <2> QED
    BY <2>1, <2>2, <1>1, <1>2, <1>5, <1>7, StepBecomes DEF Becomes
<1> QED
  BY <1>6, <1>7 DEF Procs

\* The test for a CPU changes no flag.
LEMMA Step_lock_iothread_Test ==
  ASSUME VInv, NEW q \in Procs, lock_iothread_Test(q)
  PROVE  VInv'
<1> DEFINE p == vm[q]
           r == [p EXCEPT !.io = IF p.first_cpu THEN "deref" ELSE "plain"]
<1>1. vm' = [vm EXCEPT ![q] = r] /\ qpipe' = qpipe /\ marks' = marks /\ p \in Process
  BY DEF lock_iothread_Test, Io, VInv, VTypeOK
<1>2. r \in Process
  BY <1>1, ZenonT(40) DEF Process, CpuPcs, IoPcs
<1>3. /\ r.io = (IF p.first_cpu THEN "deref" ELSE "plain")
      /\ r.cpu = p.cpu /\ r.after = p.after /\ r.mutex = p.mutex
      /\ r.requesting = p.requesting /\ r.wants_stop = p.wants_stop
      /\ r.first_cpu = p.first_cpu /\ r.restart_cpu = p.restart_cpu /\ r.ticks = p.ticks
      /\ r.fork_child = p.fork_child /\ r.area = p.area /\ r.ops = p.ops
  BY <1>1 DEF Process
<1>4. /\ p.io = "test" /\ Local(p)
  BY <1>1 DEF lock_iothread_Test, Io, VInv
<1> HIDE DEF r
<1>5. Local(r)
  BY <1>1, <1>3, <1>4 DEF Local, Owned, HandedOver, Flags, Parked, Process,
                          CpuHolds, IoHolds, CpuPcs, IoPcs
<1>6. CASE q = "server"
  <2>1. /\ ServerPart(p, qpipe, marks) /\ CopyPart(p, vm["child"])
        /\ Local(vm["child"]) /\ vm["child"] \in Process
        /\ qpipe \in {0, 1} /\ marks \subseteq Procs
    BY <1>6 DEF VInv, VTypeOK, Procs
  <2>2. ServerPart(r, qpipe, marks) /\ CopyPart(r, vm["child"])
    BY <2>1, <1>1, <1>3, <1>4 DEF ServerPart, CopyPart, Parked, Local, Owned,
                                 HandedOver, Flags, Process, CpuHolds, IoHolds
  <2> QED
    BY <2>1, <2>2, <1>1, <1>2, <1>5, <1>6, StepBecomes DEF Becomes
<1>7. CASE q = "child"
  <2>1. /\ ServerPart(vm["server"], qpipe, marks) /\ CopyPart(vm["server"], p)
        /\ vm["server"] \in Process /\ qpipe \in {0, 1} /\ marks \subseteq Procs
    BY <1>7 DEF VInv, VTypeOK, Procs
  <2>2. CopyPart(vm["server"], r)
    BY <2>1, <1>1, <1>3, <1>4 DEF CopyPart, Local, Owned, HandedOver, Flags, Process,
                                 CpuHolds, IoHolds
  <2> QED
    BY <2>1, <2>2, <1>1, <1>2, <1>5, <1>7, StepBecomes DEF Becomes
<1> QED
  BY <1>6, <1>7 DEF Procs

\* The second read, if it finds a CPU or is not made, changes no flag either.
LEMMA Step_DerefGoesOn ==
  ASSUME VInv, NEW q \in Procs, Io(q, "deref"),
         vm' = [vm EXCEPT ![q].io = "try"], UNCHANGED <<qpipe, marks>>
  PROVE  VInv'
<1> DEFINE p == vm[q]
           r == [p EXCEPT !.io = "try"]
<1>1. vm' = [vm EXCEPT ![q] = r] /\ qpipe' = qpipe /\ marks' = marks /\ p \in Process
  BY DEF Io, VInv, VTypeOK
<1>2. r \in Process
  BY <1>1, ZenonT(40) DEF Process, CpuPcs, IoPcs
<1>3. /\ r.io = "try"
      /\ r.cpu = p.cpu /\ r.after = p.after /\ r.mutex = p.mutex
      /\ r.requesting = p.requesting /\ r.wants_stop = p.wants_stop
      /\ r.first_cpu = p.first_cpu /\ r.restart_cpu = p.restart_cpu /\ r.ticks = p.ticks
      /\ r.fork_child = p.fork_child /\ r.area = p.area /\ r.ops = p.ops
  BY <1>1 DEF Process
<1>4. /\ p.io = "deref" /\ Local(p)
  BY <1>1 DEF Io, VInv
<1> HIDE DEF r
<1>5. Local(r)
  BY <1>1, <1>3, <1>4 DEF Local, Owned, HandedOver, Flags, Parked, Process,
                          CpuHolds, IoHolds, CpuPcs, IoPcs
<1>6. CASE q = "server"
  <2>1. /\ ServerPart(p, qpipe, marks) /\ CopyPart(p, vm["child"])
        /\ Local(vm["child"]) /\ vm["child"] \in Process
        /\ qpipe \in {0, 1} /\ marks \subseteq Procs
    BY <1>6 DEF VInv, VTypeOK, Procs
  <2>2. ServerPart(r, qpipe, marks) /\ CopyPart(r, vm["child"])
    BY <2>1, <1>1, <1>3, <1>4 DEF ServerPart, CopyPart, Parked, Local, Owned,
                                 HandedOver, Flags, Process, CpuHolds, IoHolds
  <2> QED
    BY <2>1, <2>2, <1>1, <1>2, <1>5, <1>6, StepBecomes DEF Becomes
<1>7. CASE q = "child"
  <2>1. /\ ServerPart(vm["server"], qpipe, marks) /\ CopyPart(vm["server"], p)
        /\ vm["server"] \in Process /\ qpipe \in {0, 1} /\ marks \subseteq Procs
    BY <1>7 DEF VInv, VTypeOK, Procs
  <2>2. CopyPart(vm["server"], r)
    BY <2>1, <1>1, <1>3, <1>4 DEF CopyPart, Local, Owned, HandedOver, Flags, Process,
                                 CpuHolds, IoHolds
  <2> QED
    BY <2>1, <2>2, <1>1, <1>2, <1>5, <1>7, StepBecomes DEF Becomes
<1> QED
  BY <1>6, <1>7 DEF Procs

\* The IO thread takes the free mutex.
LEMMA Step_lock_iothread_Plain ==
  ASSUME VInv, NEW q \in Procs, lock_iothread_Plain(q)
  PROVE  VInv'
<1> DEFINE p == vm[q]
           r == [p EXCEPT !.mutex = "io", !.io = "dispatch", !.requesting = FALSE]
<1>1. vm' = [vm EXCEPT ![q] = r] /\ qpipe' = qpipe /\ marks' = marks /\ p \in Process
  BY DEF lock_iothread_Plain, Io, VInv, VTypeOK
<1>2. r \in Process
  BY <1>1, ZenonT(40) DEF Process, CpuPcs, IoPcs
<1>3. /\ r.io = "dispatch" /\ r.mutex = "io" /\ r.requesting = FALSE
      /\ r.cpu = p.cpu /\ r.after = p.after /\ r.wants_stop = p.wants_stop
      /\ r.first_cpu = p.first_cpu /\ r.restart_cpu = p.restart_cpu /\ r.ticks = p.ticks
      /\ r.fork_child = p.fork_child /\ r.area = p.area /\ r.ops = p.ops
  BY <1>1 DEF Process
<1>4. /\ p.io = "plain" /\ p.mutex = "none" /\ Local(p)
  BY <1>1 DEF lock_iothread_Plain, Io, VInv
<1> HIDE DEF r
<1>5. Local(r)
  BY <1>1, <1>3, <1>4 DEF Local, Owned, HandedOver, Flags, Parked, Process,
                          CpuHolds, IoHolds, CpuPcs, IoPcs
<1>6. CASE q = "server"
  <2>1. /\ ServerPart(p, qpipe, marks) /\ CopyPart(p, vm["child"])
        /\ Local(vm["child"]) /\ vm["child"] \in Process
        /\ qpipe \in {0, 1} /\ marks \subseteq Procs
    BY <1>6 DEF VInv, VTypeOK, Procs
  <2>2. ServerPart(r, qpipe, marks) /\ CopyPart(r, vm["child"])
    BY <2>1, <1>1, <1>3, <1>4 DEF ServerPart, CopyPart, Parked, Local, Owned,
                                 HandedOver, Flags, Process, CpuHolds, IoHolds
  <2> QED
    BY <2>1, <2>2, <1>1, <1>2, <1>5, <1>6, StepBecomes DEF Becomes
<1>7. CASE q = "child"
  <2>1. /\ ServerPart(vm["server"], qpipe, marks) /\ CopyPart(vm["server"], p)
        /\ vm["server"] \in Process /\ qpipe \in {0, 1} /\ marks \subseteq Procs
    BY <1>7 DEF VInv, VTypeOK, Procs
  <2>2. CopyPart(vm["server"], r)
    BY <2>1, <1>1, <1>3, <1>4 DEF CopyPart, Local, Owned, HandedOver, Flags, Process,
                                 CpuHolds, IoHolds
  <2> QED
    BY <2>1, <2>2, <1>1, <1>2, <1>5, <1>7, StepBecomes DEF Becomes
<1> QED
  BY <1>6, <1>7 DEF Procs

\* The IO thread takes the free mutex and wakes a CPU thread that yielded.
LEMMA Step_lock_iothread_Lock ==
  ASSUME VInv, NEW q \in Procs, lock_iothread_Lock(q)
  PROVE  VInv'
<1> DEFINE p == vm[q]
           r == [p EXCEPT !.mutex = "io", !.io = "dispatch", !.requesting = FALSE,
                         !.cpu = IF @ = "yield" THEN "reyield" ELSE @]
<1>1. vm' = [vm EXCEPT ![q] = r] /\ qpipe' = qpipe /\ marks' = marks /\ p \in Process
  BY DEF lock_iothread_Lock, Io, Acquired, VInv, VTypeOK
<1>2. r \in Process
  BY <1>1, ZenonT(40) DEF Process, CpuPcs, IoPcs
<1>3. /\ r.cpu = (IF p.cpu = "yield" THEN "reyield" ELSE p.cpu) /\ r.io = "dispatch"
      /\ r.mutex = "io" /\ r.requesting = FALSE
      /\ r.after = p.after /\ r.wants_stop = p.wants_stop /\ r.first_cpu = p.first_cpu
      /\ r.restart_cpu = p.restart_cpu /\ r.ticks = p.ticks
      /\ r.fork_child = p.fork_child /\ r.area = p.area /\ r.ops = p.ops
  BY <1>1 DEF Process
<1>4. /\ p.io = "lock" /\ p.mutex = "none" /\ Local(p)
  BY <1>1 DEF lock_iothread_Lock, Io, Acquired, VInv
<1> HIDE DEF r
<1>5. Local(r)
  BY <1>1, <1>3, <1>4 DEF Local, Owned, HandedOver, Flags, Parked, Process,
                          CpuHolds, IoHolds, CpuPcs, IoPcs
<1>6. CASE q = "server"
  <2>1. /\ ServerPart(p, qpipe, marks) /\ CopyPart(p, vm["child"])
        /\ Local(vm["child"]) /\ vm["child"] \in Process
        /\ qpipe \in {0, 1} /\ marks \subseteq Procs
    BY <1>6 DEF VInv, VTypeOK, Procs
  <2>2. ServerPart(r, qpipe, marks) /\ CopyPart(r, vm["child"])
    BY <2>1, <1>1, <1>3, <1>4 DEF ServerPart, CopyPart, Parked, Local, Owned,
                                 HandedOver, Flags, Process, CpuHolds, IoHolds
  <2> QED
    BY <2>1, <2>2, <1>1, <1>2, <1>5, <1>6, StepBecomes DEF Becomes
<1>7. CASE q = "child"
  <2>1. /\ ServerPart(vm["server"], qpipe, marks) /\ CopyPart(vm["server"], p)
        /\ vm["server"] \in Process /\ qpipe \in {0, 1} /\ marks \subseteq Procs
    BY <1>7 DEF VInv, VTypeOK, Procs
  <2>2. CopyPart(vm["server"], r)
    BY <2>1, <1>1, <1>3, <1>4 DEF CopyPart, Local, Owned, HandedOver, Flags, Process,
                                 CpuHolds, IoHolds
  <2> QED
    BY <2>1, <2>2, <1>1, <1>2, <1>5, <1>7, StepBecomes DEF Becomes
<1> QED
  BY <1>6, <1>7 DEF Procs

\* So does a try that succeeds.
LEMMA Step_TryAcquires ==
  ASSUME VInv, NEW q \in Procs, lock_iothread_Try(q), vm[q].mutex = "none"
  PROVE  VInv'
<1> DEFINE p == vm[q]
           r == [p EXCEPT !.mutex = "io", !.io = "dispatch", !.requesting = FALSE,
                         !.cpu = IF @ = "yield" THEN "reyield" ELSE @]
<1>1. vm' = [vm EXCEPT ![q] = r] /\ qpipe' = qpipe /\ marks' = marks /\ p \in Process
  BY DEF lock_iothread_Try, Io, Acquired, VInv, VTypeOK
<1>2. r \in Process
  BY <1>1, ZenonT(40) DEF Process, CpuPcs, IoPcs
<1>3. /\ r.cpu = (IF p.cpu = "yield" THEN "reyield" ELSE p.cpu) /\ r.io = "dispatch"
      /\ r.mutex = "io" /\ r.requesting = FALSE
      /\ r.after = p.after /\ r.wants_stop = p.wants_stop /\ r.first_cpu = p.first_cpu
      /\ r.restart_cpu = p.restart_cpu /\ r.ticks = p.ticks
      /\ r.fork_child = p.fork_child /\ r.area = p.area /\ r.ops = p.ops
  BY <1>1 DEF Process
<1>4. /\ p.io = "try" /\ p.mutex = "none" /\ Local(p)
  BY <1>1 DEF lock_iothread_Try, Io, Acquired, VInv
<1> HIDE DEF r
<1>5. Local(r)
  BY <1>1, <1>3, <1>4 DEF Local, Owned, HandedOver, Flags, Parked, Process,
                          CpuHolds, IoHolds, CpuPcs, IoPcs
<1>6. CASE q = "server"
  <2>1. /\ ServerPart(p, qpipe, marks) /\ CopyPart(p, vm["child"])
        /\ Local(vm["child"]) /\ vm["child"] \in Process
        /\ qpipe \in {0, 1} /\ marks \subseteq Procs
    BY <1>6 DEF VInv, VTypeOK, Procs
  <2>2. ServerPart(r, qpipe, marks) /\ CopyPart(r, vm["child"])
    BY <2>1, <1>1, <1>3, <1>4 DEF ServerPart, CopyPart, Parked, Local, Owned,
                                 HandedOver, Flags, Process, CpuHolds, IoHolds
  <2> QED
    BY <2>1, <2>2, <1>1, <1>2, <1>5, <1>6, StepBecomes DEF Becomes
<1>7. CASE q = "child"
  <2>1. /\ ServerPart(vm["server"], qpipe, marks) /\ CopyPart(vm["server"], p)
        /\ vm["server"] \in Process /\ qpipe \in {0, 1} /\ marks \subseteq Procs
    BY <1>7 DEF VInv, VTypeOK, Procs
  <2>2. CopyPart(vm["server"], r)
    BY <2>1, <1>1, <1>3, <1>4 DEF CopyPart, Local, Owned, HandedOver, Flags, Process,
                                 CpuHolds, IoHolds
  <2> QED
    BY <2>1, <2>2, <1>1, <1>2, <1>5, <1>7, StepBecomes DEF Becomes
<1> QED
  BY <1>6, <1>7 DEF Procs

\* A try that fails changes no flag.
LEMMA Step_TryFails ==
  ASSUME VInv, NEW q \in Procs, lock_iothread_Try(q), vm[q].mutex # "none"
  PROVE  VInv'
<1> DEFINE p == vm[q]
           r == [p EXCEPT !.io = "kick"]
<1>1. vm' = [vm EXCEPT ![q] = r] /\ qpipe' = qpipe /\ marks' = marks /\ p \in Process
  BY DEF lock_iothread_Try, Io, VInv, VTypeOK
<1>2. r \in Process
  BY <1>1, ZenonT(40) DEF Process, CpuPcs, IoPcs
<1>3. /\ r.io = "kick"
      /\ r.cpu = p.cpu /\ r.after = p.after /\ r.mutex = p.mutex
      /\ r.requesting = p.requesting /\ r.wants_stop = p.wants_stop
      /\ r.first_cpu = p.first_cpu /\ r.restart_cpu = p.restart_cpu /\ r.ticks = p.ticks
      /\ r.fork_child = p.fork_child /\ r.area = p.area /\ r.ops = p.ops
  BY <1>1 DEF Process
<1>4. /\ p.io = "try" /\ Local(p)
  BY <1>1 DEF lock_iothread_Try, Io, VInv
<1> HIDE DEF r
<1>5. Local(r)
  BY <1>1, <1>3, <1>4 DEF Local, Owned, HandedOver, Flags, Parked, Process,
                          CpuHolds, IoHolds, CpuPcs, IoPcs
<1>6. CASE q = "server"
  <2>1. /\ ServerPart(p, qpipe, marks) /\ CopyPart(p, vm["child"])
        /\ Local(vm["child"]) /\ vm["child"] \in Process
        /\ qpipe \in {0, 1} /\ marks \subseteq Procs
    BY <1>6 DEF VInv, VTypeOK, Procs
  <2>2. ServerPart(r, qpipe, marks) /\ CopyPart(r, vm["child"])
    BY <2>1, <1>1, <1>3, <1>4 DEF ServerPart, CopyPart, Parked, Local, Owned,
                                 HandedOver, Flags, Process, CpuHolds, IoHolds
  <2> QED
    BY <2>1, <2>2, <1>1, <1>2, <1>5, <1>6, StepBecomes DEF Becomes
<1>7. CASE q = "child"
  <2>1. /\ ServerPart(vm["server"], qpipe, marks) /\ CopyPart(vm["server"], p)
        /\ vm["server"] \in Process /\ qpipe \in {0, 1} /\ marks \subseteq Procs
    BY <1>7 DEF VInv, VTypeOK, Procs
  <2>2. CopyPart(vm["server"], r)
    BY <2>1, <1>1, <1>3, <1>4 DEF CopyPart, Local, Owned, HandedOver, Flags, Process,
                                 CpuHolds, IoHolds
  <2> QED
    BY <2>1, <2>2, <1>1, <1>2, <1>5, <1>7, StepBecomes DEF Becomes
<1> QED
  BY <1>6, <1>7 DEF Procs

\* A kick that finds a CPU.
LEMMA Step_KickCpu ==
  ASSUME VInv, NEW q \in Procs, lock_iothread_Kick(q), vm[q].first_cpu
  PROVE  VInv'
<1> DEFINE p == vm[q]
           r == [p EXCEPT !.kicked = TRUE, !.io = "lock"]
<1>1. vm' = [vm EXCEPT ![q] = r] /\ qpipe' = qpipe /\ marks' = marks /\ p \in Process
  BY DEF lock_iothread_Kick, Io, VInv, VTypeOK
<1>2. r \in Process
  BY <1>1, ZenonT(40) DEF Process, CpuPcs, IoPcs
<1>3. /\ r.io = "lock"
      /\ r.cpu = p.cpu /\ r.after = p.after /\ r.mutex = p.mutex
      /\ r.requesting = p.requesting /\ r.wants_stop = p.wants_stop
      /\ r.first_cpu = p.first_cpu /\ r.restart_cpu = p.restart_cpu /\ r.ticks = p.ticks
      /\ r.fork_child = p.fork_child /\ r.area = p.area /\ r.ops = p.ops
  BY <1>1 DEF Process
<1>4. /\ p.io = "kick" /\ Local(p)
  BY <1>1 DEF lock_iothread_Kick, Io, VInv
<1> HIDE DEF r
<1>5. Local(r)
  BY <1>1, <1>3, <1>4 DEF Local, Owned, HandedOver, Flags, Parked, Process,
                          CpuHolds, IoHolds, CpuPcs, IoPcs
<1>6. CASE q = "server"
  <2>1. /\ ServerPart(p, qpipe, marks) /\ CopyPart(p, vm["child"])
        /\ Local(vm["child"]) /\ vm["child"] \in Process
        /\ qpipe \in {0, 1} /\ marks \subseteq Procs
    BY <1>6 DEF VInv, VTypeOK, Procs
  <2>2. ServerPart(r, qpipe, marks) /\ CopyPart(r, vm["child"])
    BY <2>1, <1>1, <1>3, <1>4 DEF ServerPart, CopyPart, Parked, Local, Owned,
                                 HandedOver, Flags, Process, CpuHolds, IoHolds
  <2> QED
    BY <2>1, <2>2, <1>1, <1>2, <1>5, <1>6, StepBecomes DEF Becomes
<1>7. CASE q = "child"
  <2>1. /\ ServerPart(vm["server"], qpipe, marks) /\ CopyPart(vm["server"], p)
        /\ vm["server"] \in Process /\ qpipe \in {0, 1} /\ marks \subseteq Procs
    BY <1>7 DEF VInv, VTypeOK, Procs
  <2>2. CopyPart(vm["server"], r)
    BY <2>1, <1>1, <1>3, <1>4 DEF CopyPart, Local, Owned, HandedOver, Flags, Process,
                                 CpuHolds, IoHolds
  <2> QED
    BY <2>1, <2>2, <1>1, <1>2, <1>5, <1>7, StepBecomes DEF Becomes
<1> QED
  BY <1>6, <1>7 DEF Procs

\* A read of first_cpu that finds none any more ends the process: in a server that forks, or in
\* a copy, this does not happen to the other one.
LEMMA Step_Faults ==
  ASSUME VInv, NEW q \in Procs, Io(q, "kick") \/ Io(q, "deref"), ~vm[q].first_cpu,
         Faults(q), UNCHANGED <<qpipe, marks>>
  PROVE  VInv'
<1> DEFINE p == vm[q]
           r == [p EXCEPT !.io = "fault", !.cpu = "none"]
<1>1. vm' = [vm EXCEPT ![q] = r] /\ qpipe' = qpipe /\ marks' = marks /\ p \in Process
  BY DEF Faults, VInv, VTypeOK
<1>2. r \in Process
  BY <1>1, ZenonT(40) DEF Process, CpuPcs, IoPcs
<1>3. /\ r.cpu = "none" /\ r.io = "fault"
      /\ r.after = p.after /\ r.mutex = p.mutex /\ r.requesting = p.requesting
      /\ r.wants_stop = p.wants_stop /\ r.first_cpu = p.first_cpu
      /\ r.restart_cpu = p.restart_cpu /\ r.ticks = p.ticks
      /\ r.fork_child = p.fork_child /\ r.area = p.area /\ r.ops = p.ops
  BY <1>1 DEF Process
<1>4. /\ p.io \in {"kick", "deref"} /\ ~p.first_cpu /\ Local(p)
  BY <1>1 DEF Io, VInv
<1> HIDE DEF r
<1>5. Local(r)
  BY <1>1, <1>3, <1>4 DEF Local, Owned, HandedOver, Flags, Parked, Process,
                          CpuHolds, IoHolds, CpuPcs, IoPcs
<1>6. CASE q = "server"
  <2>1. /\ ServerPart(p, qpipe, marks) /\ CopyPart(p, vm["child"])
        /\ Local(vm["child"]) /\ vm["child"] \in Process
        /\ qpipe \in {0, 1} /\ marks \subseteq Procs
    BY <1>6 DEF VInv, VTypeOK, Procs
  <2>2. ServerPart(r, qpipe, marks) /\ CopyPart(r, vm["child"])
    BY <2>1, <1>1, <1>3, <1>4 DEF ServerPart, CopyPart, Parked, Local, Owned,
                                 HandedOver, Flags, Process, CpuHolds, IoHolds
  <2> QED
    BY <2>1, <2>2, <1>1, <1>2, <1>5, <1>6, StepBecomes DEF Becomes
<1>7. CASE q = "child"
  <2>1. /\ ServerPart(vm["server"], qpipe, marks) /\ CopyPart(vm["server"], p)
        /\ vm["server"] \in Process /\ qpipe \in {0, 1} /\ marks \subseteq Procs
    BY <1>7 DEF VInv, VTypeOK, Procs
  <2>2. CopyPart(vm["server"], r)
    BY <2>1, <1>1, <1>3, <1>4 DEF CopyPart, Local, Owned, HandedOver, Flags, Process,
                                 CpuHolds, IoHolds
  <2> QED
    BY <2>1, <2>2, <1>1, <1>2, <1>5, <1>7, StepBecomes DEF Becomes
<1> QED
  BY <1>6, <1>7 DEF Procs

\* An interrupt may wake the CPU thread; without a CPU it does not come.
LEMMA Step_Interrupt ==
  ASSUME VInv, NEW q \in Procs, Interrupt(q)
  PROVE  VInv'
<1> DEFINE p == vm[q]
           r == [p EXCEPT !.halted = FALSE, !.cpu = IF @ = "idle" THEN "reidle" ELSE @]
<1>1. vm' = [vm EXCEPT ![q] = r] /\ qpipe' = qpipe /\ marks' = marks /\ p \in Process
  BY DEF Interrupt, Io, VInv, VTypeOK
<1>2. r \in Process
  BY <1>1, ZenonT(40) DEF Process, CpuPcs, IoPcs
<1>3. /\ r.cpu = (IF p.cpu = "idle" THEN "reidle" ELSE p.cpu)
      /\ r.io = p.io /\ r.after = p.after /\ r.mutex = p.mutex
      /\ r.requesting = p.requesting /\ r.wants_stop = p.wants_stop
      /\ r.first_cpu = p.first_cpu /\ r.restart_cpu = p.restart_cpu /\ r.ticks = p.ticks
      /\ r.fork_child = p.fork_child /\ r.area = p.area /\ r.ops = p.ops
  BY <1>1 DEF Process
<1>4. /\ p.io = "dispatch" /\ p.first_cpu /\ Local(p)
  BY <1>1 DEF Interrupt, Io, VInv
<1> HIDE DEF r
<1>5. Local(r)
  BY <1>1, <1>3, <1>4 DEF Local, Owned, HandedOver, Flags, Parked, Process,
                          CpuHolds, IoHolds, CpuPcs, IoPcs
<1>6. CASE q = "server"
  <2>1. /\ ServerPart(p, qpipe, marks) /\ CopyPart(p, vm["child"])
        /\ Local(vm["child"]) /\ vm["child"] \in Process
        /\ qpipe \in {0, 1} /\ marks \subseteq Procs
    BY <1>6 DEF VInv, VTypeOK, Procs
  <2>2. ServerPart(r, qpipe, marks) /\ CopyPart(r, vm["child"])
    BY <2>1, <1>1, <1>3, <1>4 DEF ServerPart, CopyPart, Parked, Local, Owned,
                                 HandedOver, Flags, Process, CpuHolds, IoHolds
  <2> QED
    BY <2>1, <2>2, <1>1, <1>2, <1>5, <1>6, StepBecomes DEF Becomes
<1>7. CASE q = "child"
  <2>1. /\ ServerPart(vm["server"], qpipe, marks) /\ CopyPart(vm["server"], p)
        /\ vm["server"] \in Process /\ qpipe \in {0, 1} /\ marks \subseteq Procs
    BY <1>7 DEF VInv, VTypeOK, Procs
  <2>2. CopyPart(vm["server"], r)
    BY <2>1, <1>1, <1>3, <1>4 DEF CopyPart, Local, Owned, HandedOver, Flags, Process,
                                 CpuHolds, IoHolds
  <2> QED
    BY <2>1, <2>2, <1>1, <1>2, <1>5, <1>7, StepBecomes DEF Becomes
<1> QED
  BY <1>6, <1>7 DEF Procs

\* The IO thread gives the mutex up.
LEMMA Step_main_loop_Poll ==
  ASSUME VInv, NEW q \in Procs, main_loop_Poll(q)
  PROVE  VInv'
<1> DEFINE p == vm[q]
           r == [p EXCEPT !.io = "poll", !.mutex = "none"]
<1>1. vm' = [vm EXCEPT ![q] = r] /\ qpipe' = qpipe /\ marks' = marks /\ p \in Process
  BY DEF main_loop_Poll, Io, VInv, VTypeOK
<1>2. r \in Process
  BY <1>1, ZenonT(40) DEF Process, CpuPcs, IoPcs
<1>3. /\ r.io = "poll" /\ r.mutex = "none"
      /\ r.cpu = p.cpu /\ r.after = p.after /\ r.requesting = p.requesting
      /\ r.wants_stop = p.wants_stop /\ r.first_cpu = p.first_cpu
      /\ r.restart_cpu = p.restart_cpu /\ r.ticks = p.ticks
      /\ r.fork_child = p.fork_child /\ r.area = p.area /\ r.ops = p.ops
  BY <1>1 DEF Process
<1>4. /\ p.io = "dispatch" /\ Local(p)
  BY <1>1 DEF main_loop_Poll, Io, VInv
<1> HIDE DEF r
<1>5. Local(r)
  BY <1>1, <1>3, <1>4 DEF Local, Owned, HandedOver, Flags, Parked, Process,
                          CpuHolds, IoHolds, CpuPcs, IoPcs
<1>6. CASE q = "server"
  <2>1. /\ ServerPart(p, qpipe, marks) /\ CopyPart(p, vm["child"])
        /\ Local(vm["child"]) /\ vm["child"] \in Process
        /\ qpipe \in {0, 1} /\ marks \subseteq Procs
    BY <1>6 DEF VInv, VTypeOK, Procs
  <2>2. ServerPart(r, qpipe, marks) /\ CopyPart(r, vm["child"])
    BY <2>1, <1>1, <1>3, <1>4 DEF ServerPart, CopyPart, Parked, Local, Owned,
                                 HandedOver, Flags, Process, CpuHolds, IoHolds
  <2> QED
    BY <2>1, <2>2, <1>1, <1>2, <1>5, <1>6, StepBecomes DEF Becomes
<1>7. CASE q = "child"
  <2>1. /\ ServerPart(vm["server"], qpipe, marks) /\ CopyPart(vm["server"], p)
        /\ vm["server"] \in Process /\ qpipe \in {0, 1} /\ marks \subseteq Procs
    BY <1>7 DEF VInv, VTypeOK, Procs
  <2>2. CopyPart(vm["server"], r)
    BY <2>1, <1>1, <1>3, <1>4 DEF CopyPart, Local, Owned, HandedOver, Flags, Process,
                                 CpuHolds, IoHolds
  <2> QED
    BY <2>1, <2>2, <1>1, <1>2, <1>5, <1>7, StepBecomes DEF Becomes
<1> QED
  BY <1>6, <1>7 DEF Procs

\* A round of the main loop that keeps the mutex.
LEMMA Step_main_loop_Spin ==
  ASSUME VInv, NEW q \in Procs, main_loop_Spin(q)
  PROVE  VInv'
<1> DEFINE p == vm[q]
           r == [p EXCEPT !.ready = (qpipe > 0)]
<1>1. vm' = [vm EXCEPT ![q] = r] /\ qpipe' = qpipe /\ marks' = marks /\ p \in Process
  BY DEF main_loop_Spin, Io, VInv, VTypeOK
<1>2. r \in Process
  <2>1. (qpipe > 0) \in BOOLEAN
    OBVIOUS
  <2> QED
    BY <1>1, <2>1, ZenonT(40) DEF Process, CpuPcs, IoPcs
<1>3. /\ r.io = p.io /\ r.mutex = p.mutex
      /\ r.cpu = p.cpu /\ r.after = p.after /\ r.requesting = p.requesting
      /\ r.wants_stop = p.wants_stop /\ r.first_cpu = p.first_cpu
      /\ r.restart_cpu = p.restart_cpu /\ r.ticks = p.ticks
      /\ r.fork_child = p.fork_child /\ r.area = p.area /\ r.ops = p.ops
  BY <1>1 DEF Process
<1>4. /\ p.io = "dispatch" /\ Local(p)
  BY <1>1 DEF main_loop_Spin, Io, VInv
<1> HIDE DEF r
<1>5. Local(r)
  BY <1>1, <1>3, <1>4 DEF Local, Owned, HandedOver, Flags, Parked, Process,
                          CpuHolds, IoHolds, CpuPcs, IoPcs
<1>6. CASE q = "server"
  <2>1. /\ ServerPart(p, qpipe, marks) /\ CopyPart(p, vm["child"])
        /\ Local(vm["child"]) /\ vm["child"] \in Process
        /\ qpipe \in {0, 1} /\ marks \subseteq Procs
    BY <1>6 DEF VInv, VTypeOK, Procs
  <2>2. ServerPart(r, qpipe, marks) /\ CopyPart(r, vm["child"])
    BY <2>1, <1>1, <1>3, <1>4 DEF ServerPart, CopyPart, Parked, Local, Owned,
                                 HandedOver, Flags, Process, CpuHolds, IoHolds
  <2> QED
    BY <2>1, <2>2, <1>1, <1>2, <1>5, <1>6, StepBecomes DEF Becomes
<1>7. CASE q = "child"
  <2>1. /\ ServerPart(vm["server"], qpipe, marks) /\ CopyPart(vm["server"], p)
        /\ vm["server"] \in Process /\ qpipe \in {0, 1} /\ marks \subseteq Procs
    BY <1>7 DEF VInv, VTypeOK, Procs
  <2>2. CopyPart(vm["server"], r)
    BY <2>1, <1>1, <1>3, <1>4 DEF CopyPart, Local, Owned, HandedOver, Flags, Process,
                                 CpuHolds, IoHolds
  <2> QED
    BY <2>1, <2>2, <1>1, <1>2, <1>5, <1>7, StepBecomes DEF Becomes
<1> QED
  BY <1>6, <1>7 DEF Procs

\* Only a copy restarts its CPU thread.
LEMMA Step_restart_cpu_thread ==
  ASSUME VInv, NEW q \in Procs, restart_cpu_thread(q)
  PROVE  VInv'
<1> DEFINE p == vm[q]
           r == [p EXCEPT !.first_cpu = p.restart_cpu, !.ticks = p.enable_ticks,
                         !.cpu = "start", !.io = "dispatch"]
<1>1. vm' = [vm EXCEPT ![q] = r] /\ qpipe' = qpipe /\ marks' = marks /\ p \in Process
  BY DEF restart_cpu_thread, Io, VInv, VTypeOK
<1>2. r \in Process
  BY <1>1, ZenonT(40) DEF Process, CpuPcs, IoPcs
<1>3. /\ r.cpu = "start" /\ r.io = "dispatch" /\ r.first_cpu = p.restart_cpu
      /\ r.ticks = p.enable_ticks
      /\ r.after = p.after /\ r.mutex = p.mutex /\ r.requesting = p.requesting
      /\ r.wants_stop = p.wants_stop /\ r.restart_cpu = p.restart_cpu
      /\ r.fork_child = p.fork_child /\ r.area = p.area /\ r.ops = p.ops
  BY <1>1 DEF Process
<1>4. /\ p.io = "restart" /\ p.after = "exit" /\ Local(p)
  BY <1>1 DEF restart_cpu_thread, Io, VInv, ServerPart, CopyPart, Procs
<1> HIDE DEF r
<1>5. Local(r)
  BY <1>1, <1>3, <1>4 DEF Local, Owned, HandedOver, Flags, Parked, Process,
                          CpuHolds, IoHolds, CpuPcs, IoPcs
<1>6. CASE q = "server"
  <2>1. /\ ServerPart(p, qpipe, marks) /\ CopyPart(p, vm["child"])
        /\ Local(vm["child"]) /\ vm["child"] \in Process
        /\ qpipe \in {0, 1} /\ marks \subseteq Procs
    BY <1>6 DEF VInv, VTypeOK, Procs
  <2>2. ServerPart(r, qpipe, marks) /\ CopyPart(r, vm["child"])
    BY <2>1, <1>1, <1>3, <1>4 DEF ServerPart, CopyPart, Parked, Local, Owned,
                                 HandedOver, Flags, Process, CpuHolds, IoHolds
  <2> QED
    BY <2>1, <2>2, <1>1, <1>2, <1>5, <1>6, StepBecomes DEF Becomes
<1>7. CASE q = "child"
  <2>1. /\ ServerPart(vm["server"], qpipe, marks) /\ CopyPart(vm["server"], p)
        /\ vm["server"] \in Process /\ qpipe \in {0, 1} /\ marks \subseteq Procs
    BY <1>7 DEF VInv, VTypeOK, Procs
  <2>2. CopyPart(vm["server"], r)
    BY <2>1, <1>1, <1>3, <1>4 DEF CopyPart, Local, Owned, HandedOver, Flags, Process,
                                 CpuHolds, IoHolds
  <2> QED
    BY <2>1, <2>2, <1>1, <1>2, <1>5, <1>7, StepBecomes DEF Becomes
<1> QED
  BY <1>6, <1>7 DEF Procs

\* A process whose guest is running, or the copy, may end: the server has not handed
\* over yet, so that no notification is lost with it.
LEMMA Step_Exit ==
  ASSUME VInv, NEW q \in Procs, Exit(q), qpipe' = qpipe, marks' = marks,
         q = "child" \/ Cpu(q, "exec")
  PROVE  VInv'
<1>1. /\ ServerPart(vm["server"], qpipe, marks) /\ CopyPart(vm["server"], vm["child"])
      /\ Local(vm["server"]) /\ Local(vm["child"]) /\ qpipe \in {0, 1} /\ marks \subseteq Procs
      /\ vm["server"] \in Process /\ vm["child"] \in Process
  BY OneProcess
<1>2. CASE q = "server"
  <2>1. ServerPart(NoProcess, qpipe, marks)
    BY <1>1, <1>2, NoProcessFacts DEF ServerPart, Parked, Local, Flags, Cpu
  <2>2. CopyPart(NoProcess, vm["child"])
    BY <1>1, <1>2, NoProcessFacts DEF ServerPart, CopyPart, Parked, Local, Flags, Cpu
  <2> QED
    BY <1>1, <1>2, <2>1, <2>2, NoProcessFacts, StepBecomes DEF Becomes, Exit
<1>3. CASE q = "child"
  <2>1. CopyPart(vm["server"], NoProcess)
    BY NoProcessFacts DEF CopyPart
  <2> QED
    BY <1>1, <1>3, <2>1, NoProcessFacts, StepBecomes DEF Becomes, Exit
<1> QED
  BY <1>2, <1>3 DEF Procs

\* The end of a translation block marks AFL's map only in a copy: the server has the
\* map attached only while its CPU thread is parked.
LEMMA Step_cpu_tb_exec ==
  ASSUME VInv, NEW q \in Procs, cpu_tb_exec(q)
  PROVE  VInv'
<1> DEFINE p == vm[q]
           r == [p EXCEPT !.cpu = "waitio", !.after = "loop", !.kicked = FALSE]
<1>1. /\ ServerPart(vm["server"], qpipe, marks) /\ CopyPart(vm["server"], vm["child"])
      /\ p \in Process /\ Local(p) /\ qpipe \in {0, 1} /\ marks \subseteq Procs
      /\ vm["server"] \in Process /\ vm["child"] \in Process
      /\ Local(vm["server"]) /\ Local(vm["child"])
  BY OneProcess
<1>2. p.cpu = "exec" /\ qpipe' = qpipe /\ (vm' = vm \/ vm' = [vm EXCEPT ![q] = r])
  BY <1>1 DEF cpu_tb_exec, Cpu, VInv, VTypeOK
<1>3. marks' \subseteq Procs /\ "server" \notin marks'
  BY <1>1, <1>2 DEF cpu_tb_exec, ServerPart, Parked, Process
<1>4. CASE vm' = vm
  BY <1>1, <1>2, <1>3, <1>4 DEF VInv, VTypeOK, ServerPart
<1>5. CASE vm' = [vm EXCEPT ![q] = r]
  <2>1. r \in Process
    BY <1>1, ZenonT(40) DEF Process, CpuPcs
  <2>2. /\ r.cpu = "waitio" /\ r.after = "loop"
        /\ r.io = p.io /\ r.mutex = p.mutex /\ r.requesting = p.requesting
        /\ r.wants_stop = p.wants_stop /\ r.first_cpu = p.first_cpu
        /\ r.restart_cpu = p.restart_cpu /\ r.ticks = p.ticks
        /\ r.fork_child = p.fork_child /\ r.area = p.area /\ r.ops = p.ops
    BY <1>1 DEF Process
  <2> HIDE DEF r
  <2>3. Local(r)
    BY <1>1, <1>2, <2>2 DEF Local, Owned, HandedOver, Flags, Parked, Process,
                            CpuHolds, IoHolds, CpuPcs, IoPcs
  <2>4. CASE q = "server"
    <3>1. ServerPart(r, qpipe, marks') /\ CopyPart(r, vm["child"])
      BY <1>1, <1>2, <1>3, <2>2, <2>4 DEF ServerPart, CopyPart, Parked, Local, Flags
    <3> QED
      BY <3>1, <1>1, <1>2, <1>3, <1>5, <2>1, <2>3, <2>4, StepBecomes DEF Becomes
  <2>5. CASE q = "child"
    <3>1. ServerPart(vm["server"], qpipe, marks') /\ CopyPart(vm["server"], r)
      BY <1>1, <1>2, <1>3, <2>2, <2>5 DEF ServerPart, CopyPart, Parked, Local, Flags
    <3> QED
      BY <3>1, <1>1, <1>2, <1>3, <1>5, <2>1, <2>3, <2>5, StepBecomes DEF Becomes
  <2> QED
    BY <2>4, <2>5 DEF Procs
<1> QED
  BY <1>2, <1>4, <1>5

\* Only the server notifies its IO thread (a copy is never asked to stop), and only
\* once: an earlier notification would have found it parked.
LEMMA Step_handover_Notify ==
  ASSUME VInv, NEW q \in Procs, handover_Notify(q)
  PROVE  VInv'
<1> DEFINE p == vm[q]
           r == [p EXCEPT !.wants_stop = FALSE, !.cpu = "forget"]
<1>1. /\ ServerPart(vm["server"], qpipe, marks) /\ CopyPart(vm["server"], vm["child"])
      /\ p \in Process /\ Local(p) /\ qpipe \in {0, 1} /\ marks \subseteq Procs
      /\ vm["child"] \in Process /\ Local(vm["child"])
  BY OneProcess
<1>2. /\ p.cpu = "notify" /\ qpipe' = qpipe + 1 /\ marks' = marks
      /\ vm' = [vm EXCEPT ![q] = r]
  BY <1>1 DEF handover_Notify, Cpu, VInv, VTypeOK
<1>3. q = "server" /\ qpipe = 0
  BY <1>1, <1>2 DEF Procs, ServerPart, CopyPart, Parked, Local, Flags
<1>4. r \in Process
  BY <1>1 DEF Process, CpuPcs
<1>5. /\ r.cpu = "forget" /\ r.wants_stop = FALSE
      /\ r.io = p.io /\ r.mutex = p.mutex /\ r.requesting = p.requesting
      /\ r.after = p.after /\ r.first_cpu = p.first_cpu
      /\ r.restart_cpu = p.restart_cpu /\ r.ticks = p.ticks
      /\ r.fork_child = p.fork_child /\ r.area = p.area /\ r.ops = p.ops
  BY <1>1 DEF Process
<1> HIDE DEF r
<1>6. Local(r)
  BY <1>1, <1>2, <1>5 DEF Local, Owned, HandedOver, Flags, Parked, Process,
                          CpuHolds, IoHolds, CpuPcs, IoPcs
<1>7. ServerPart(r, 1, marks) /\ CopyPart(r, vm["child"])
  BY <1>1, <1>2, <1>3, <1>5 DEF ServerPart, CopyPart, Parked, Local, Flags
<1>8. qpipe' = 1
  BY <1>2, <1>3
<1> QED
  BY <1>1, <1>2, <1>3, <1>4, <1>6, <1>7, <1>8, StepBecomes DEF Becomes

\* The notification is read with the mutex held, so the CPU thread is parked, and it
\* is the only one: from here on the server can fork.
LEMMA Step_gotPipeNotification ==
  ASSUME VInv, NEW q \in Procs, gotPipeNotification(q)
  PROVE  VInv'
<1> DEFINE p == vm[q]
           r == [p EXCEPT !.io = "serve", !.area = TRUE, !.ready = FALSE]
<1>1. /\ ServerPart(vm["server"], qpipe, marks) /\ CopyPart(vm["server"], vm["child"])
      /\ p \in Process /\ Local(p) /\ qpipe \in {0, 1} /\ marks \subseteq Procs
      /\ vm["child"] \in Process /\ Local(vm["child"])
  BY OneProcess
<1>2. /\ p.io = "dispatch" /\ qpipe > 0 /\ qpipe' = qpipe - 1 /\ marks' = marks
      /\ vm' = [vm EXCEPT ![q] = r]
  BY <1>1 DEF gotPipeNotification, Io, VInv, VTypeOK
<1>3. qpipe = 1 /\ qpipe' = 0
  BY <1>1, <1>2
<1>4. q = "server"
  BY <1>1, <1>2, <1>3 DEF Procs, ServerPart, CopyPart
<1>5. Parked(p) /\ p.cpu # "waitio" /\ p.mutex = "io"
  BY <1>1, <1>2, <1>3, <1>4 DEF ServerPart, Parked, Local, Owned, CpuHolds, IoHolds
<1>6. r \in Process
  BY <1>1 DEF Process, IoPcs
<1>7. /\ r.io = "serve" /\ r.area = TRUE
      /\ r.cpu = p.cpu /\ r.mutex = p.mutex /\ r.requesting = p.requesting
      /\ r.wants_stop = p.wants_stop /\ r.after = p.after /\ r.first_cpu = p.first_cpu
      /\ r.restart_cpu = p.restart_cpu /\ r.ticks = p.ticks
      /\ r.fork_child = p.fork_child /\ r.ops = p.ops
  BY <1>1 DEF Process
<1> HIDE DEF r
<1>8. Local(r)
  BY <1>1, <1>2, <1>7 DEF Local, Owned, HandedOver, Flags, Parked, Process,
                          CpuHolds, IoHolds, CpuPcs, IoPcs
<1>9. ServerPart(r, 0, marks) /\ CopyPart(r, vm["child"])
  BY <1>1, <1>2, <1>4, <1>5, <1>7 DEF ServerPart, CopyPart, Parked, Local, Flags
<1> QED
  BY <1>1, <1>2, <1>3, <1>4, <1>6, <1>8, <1>9, StepBecomes DEF Becomes

\* The copy of a quiescent server: its IO thread holds the mutex, there is a CPU to
\* restart, and it is not asked to stop.
LEMMA Step_Fork ==
  ASSUME VInv, afl_forkserver_Fork
  PROVE  VInv'
<1> DEFINE p == vm["server"]
           r == [p EXCEPT !.cpu = "none", !.io = "restart", !.fork_child = TRUE]
<1>1. "child" \in Procs /\ "server" \in Procs
  BY DEF Procs
<1>2. /\ ServerPart(p, qpipe, marks) /\ p \in Process /\ Local(p) /\ qpipe \in {0, 1}
  BY <1>1, OneProcess
<1>3. p.io = "serve" /\ qpipe' = qpipe /\ marks' = {} /\ vm' = [vm EXCEPT !["child"] = r]
  BY <1>1 DEF afl_forkserver_Fork, Io, Copy
<1>4. Parked(p) /\ p.mutex = "io"
  BY <1>2, <1>3 DEF ServerPart, Local, Owned, IoHolds
<1>5. r \in Process
  BY <1>2 DEF Process, IoPcs, CpuPcs
<1>6. /\ r.io = "restart" /\ r.cpu = "none" /\ r.fork_child = TRUE
      /\ r.area = p.area /\ r.mutex = p.mutex /\ r.requesting = p.requesting
      /\ r.wants_stop = p.wants_stop /\ r.after = p.after /\ r.first_cpu = p.first_cpu
      /\ r.restart_cpu = p.restart_cpu /\ r.ticks = p.ticks /\ r.ops = p.ops
  BY <1>2 DEF Process
<1> HIDE DEF r
<1>7. Local(r)
  BY <1>2, <1>3, <1>4, <1>6 DEF Local, Owned, HandedOver, Flags, Parked, Process,
                                CpuHolds, IoHolds, CpuPcs, IoPcs
<1>8. ServerPart(p, qpipe, {}) /\ CopyPart(p, r)
  BY <1>2, <1>3, <1>4, <1>6 DEF ServerPart, CopyPart, Parked, Process
<1> QED
  BY <1>1, <1>2, <1>3, <1>5, <1>7, <1>8, StepBecomes DEF Becomes

-----------------------------------------------------------------------------

\* The VM boots into the invariant.
LEMMA BootsIntoVInv == Init => VInv
<1> SUFFICES ASSUME Init PROVE VInv
  OBVIOUS
<1> DEFINE s == [NoProcess EXCEPT !.cpu = "exec", !.io = "poll", !.mutex = "cpu",
                                  !.first_cpu = TRUE, !.ticks = TRUE]
<1>1. /\ vm = [q \in Procs |-> IF q = "server" THEN s ELSE NoProcess]
      /\ qpipe = 0 /\ marks = {}
  BY DEF Init
<1>2. s \in Process /\ s.cpu = "exec" /\ s.io = "poll" /\ ~s.fork_child /\ ~s.area /\ Local(s)
  BY DEF NoProcess, Process, CpuPcs, IoPcs, Local, Owned, HandedOver, Parked, Flags,
         CpuHolds, IoHolds
<1> HIDE DEF s
<1>3. ServerPart(s, 0, {}) /\ CopyPart(s, NoProcess)
  BY <1>2, NoProcessFacts DEF ServerPart, CopyPart, Parked
<1>4. vm["server"] = s /\ vm["child"] = NoProcess /\ \A q \in Procs : vm[q] \in {s, NoProcess}
  BY <1>1 DEF Procs
<1>5. VTypeOK
  BY <1>1, <1>2, NoProcessFacts DEF VTypeOK
<1> QED
  BY <1>1, <1>2, <1>3, <1>4, <1>5, NoProcessFacts DEF VInv

\* Every step preserves the invariant.
LEMMA StepKeepsVInv == VInv /\ [Next]_vars => VInv'
<1> SUFFICES ASSUME VInv, [Next]_vars PROVE VInv'
  OBVIOUS
<1>1. ASSUME NEW q \in Procs, Guest(q) PROVE VInv'
  <2>1. CASE startForkserver(q)
    <3>1. CASE vm[q].fork_child
      BY <2>1, <3>1, Step_Exit DEF startForkserver, Running
    <3> QED
      BY <2>1, <3>1, Step_StopRequest
  <2>2. CASE getWork(q)
    <3>1. CASE vm[q].started
      BY <2>2, <3>1, Step_Exit DEF getWork, Running
    <3> QED
      BY <2>2, <3>1, Step_Work
  <2>3. CASE doneWork(q)
    BY <2>3, Step_Exit DEF doneWork, Running
  <2> QED
    BY <1>1, <2>1, <2>2, <2>3, Step_GuestOp, Step_startWork DEF Guest
<1>2. ASSUME NEW q \in Procs, CpuThread(q) PROVE VInv'
  BY <1>2, Step_cpu_tb_exec, Step_qemu_tcg_cpu_thread_fn, Step_wait_io_event_Idle,
     Step_wait_io_event_Yield, Step_wait_io_event_Wake, Step_wait_io_event_Done,
     Step_handover_Notify, Step_handover_Forget DEF CpuThread
<1>3. ASSUME NEW q \in Procs, IoThread(q) PROVE VInv'
  <2>1. CASE lock_iothread_Try(q)
    BY <2>1, Step_TryAcquires, Step_TryFails
  <2>2. CASE lock_iothread_Kick(q)
    <3>1. CASE vm[q].first_cpu
      BY <2>2, <3>1, Step_KickCpu
    <3>2. CASE ~vm[q].first_cpu
      BY <2>2, <3>2, Step_Faults DEF lock_iothread_Kick
    <3> QED
      BY <3>1, <3>2
  <2>3. CASE lock_iothread_Deref(q)
    BY <2>3, Step_DerefGoesOn, Step_Faults DEF lock_iothread_Deref
  <2> QED
    BY <1>3, <2>1, <2>2, <2>3, Step_lock_iothread_Request, Step_lock_iothread_Test,
       Step_lock_iothread_Plain, Step_lock_iothread_Lock, Step_main_loop_Poll,
       Step_main_loop_Spin, Step_gotPipeNotification, Step_restart_cpu_thread DEF IoThread
<1>4. CASE ChildKilled
  <2>1. "child" \in Procs /\ Exit("child") /\ qpipe' = qpipe /\ marks' = marks
    BY <1>4 DEF ChildKilled, Procs
  <2> QED
    BY <2>1, Step_Exit
<1>5. CASE UNCHANGED vars
  BY <1>5 DEF vars, VInv, VTypeOK
<1> QED
  BY <1>1, <1>2, <1>3, <1>4, <1>5, Step_SpuriousWakeup, Step_Interrupt, Step_Fork DEF Next

\* The invariant holds of every behaviour of the two threads, of the fork and of the
\* guest, for any number of guest operations.
THEOREM HandoverInvariant == Spec => []VInv
BY BootsIntoVInv, StepKeepsVInv, PTL DEF Spec

\* qemu_global_mutex is owned exactly by the thread that is in a section that holds
\* it, also in the memory that fork() copied: the copy's IO thread inherits it.
THEOREM MutexIsOwned == Spec => []MutexHasOwner
<1>1. VInv => MutexHasOwner
  BY DEF VInv, MutexHasOwner, Local, Owned
<1> QED
  BY <1>1, HandoverInvariant, PTL

\* Whenever the server can fork, its CPU thread is parked and has handed everything
\* over, and a copy continues the guest exactly where the server stopped it.
THEOREM ForksAreQuiescent == Spec => []ForkQuiescent
<1>1. ASSUME VInv PROVE ForkQuiescent
  <2>1. /\ ServerPart(vm["server"], qpipe, marks) /\ CopyPart(vm["server"], vm["child"])
        /\ vm["server"] \in Process /\ Local(vm["server"])
    BY <1>1 DEF VInv, VTypeOK, Procs
  <2> QED
    BY <2>1 DEF ForkQuiescent, Io, Cpu, ServerPart, CopyPart, Parked, Local, HandedOver,
                Flags, IoHolds
<1> QED
  BY <1>1, HandoverInvariant, PTL

\* The server's guest never runs with AFL's map attached: what is in the map after a
\* run is what the copy did.
THEOREM OnlyCopiesTrace == Spec => []ServerLeavesNoTrace
<1>1. VInv => ServerLeavesNoTrace
  BY DEF VInv, ServerPart, ServerLeavesNoTrace
<1> QED
  BY <1>1, HandoverInvariant, PTL
=============================================================================
