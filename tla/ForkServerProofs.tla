-------------------------- MODULE ForkServerProofs --------------------------
(***************************************************************************)
(* Proofs about the fork-server protocol, for any set of process ids and    *)
(* any capacity of the TSL pipe.  IInv, the inductive invariant of module   *)
(* ForkServer, is shown part by part: one lemma per part, one step per      *)
(* action.  The safety properties and the refinement of TestRunner follow.  *)
(***************************************************************************)
EXTENDS ForkServer, SequenceTheorems, TLAPS

(* Appending to a one-word pipe.                                            *)
LEMMA AppendToOne ==
  ASSUME NEW x, NEW y
  PROVE  Append(<<x>>, y) = <<x, y>>
<1> DEFINE S == {x, y}  a == Append(<<x>>, y)  b == <<x, y>>
<1>1. <<x>> \in Seq(S) /\ y \in S
  OBVIOUS
<1>2. a \in Seq(S) /\ Len(a) = 2 /\ a[1] = x /\ a[2] = y
  BY <1>1
<1>3. b \in Seq(S) /\ Len(b) = 2
  OBVIOUS
<1>4. \A i \in 1..2 : a[i] = b[i]
  <2> TAKE i \in 1..2
  <2>1. CASE i = 1
    BY <1>2, <2>1
  <2>2. CASE i = 2
    BY <1>2, <2>2
  <2> QED
    BY <2>1, <2>2
<1> HIDE DEF S, a, b
<1>5. a = b
  BY <1>2, <1>3, <1>4, SeqEqual
<1> QED
  BY <1>5 DEF a, b

(* What the pipe operations do to pipes of at most two words.               *)
LEMMA SeqFacts ==
  /\ \A x : Append(<<>>, x) = <<x>>
  /\ \A x, y : Append(<<x>>, y) = <<x, y>>
  /\ \A x : Head(<<x>>) = x /\ Tail(<<x>>) = <<>> /\ <<x>> # <<>>
  /\ \A x, y : Head(<<x, y>>) = x /\ Tail(<<x, y>>) = <<y>> /\ <<x, y>> # <<>>
BY AppendToOne

(* What is left after a read is still a sequence of words.                  *)
LEMMA TailType ==
  ASSUME NEW S, NEW s \in Seq(S), s # <<>>
  PROVE  Tail(s) \in Seq(S)
OBVIOUS

(* The words the two sides write have the types of the pipes.               *)
LEMMA WordTypes ==
  /\ Msg("hello", 0) \in StWords
  /\ \A p \in Pids : Msg("pid", p) \in StWords
  /\ \A s \in Statuses : Msg("status", s) \in StWords
  /\ \A b \in BOOLEAN : Msg("cmd", b) \in CtlWords
BY DEF Msg, StWords, CtlWords

(* The flags are Booleans whatever happens.                                 *)
LEMMA FlagsStep ==
  ASSUME FlagsOK, Next
  PROVE  FlagsOK'
<1> USE DEF FlagsOK, fuzzerVars
<1>1. CASE init_forkserver_Fork
  BY <1>1, Zenon DEF init_forkserver_Fork
<1>2. CASE init_forkserver_Arm
  BY <1>2, Zenon DEF init_forkserver_Arm
<1>3. CASE init_forkserver_Hello
  BY <1>3, Zenon DEF init_forkserver_Hello
<1>4. CASE init_forkserver_Disarm
  BY <1>4, Zenon DEF init_forkserver_Disarm
<1>5. CASE run_target_Reset
  BY <1>5, Zenon DEF run_target_Reset
<1>6. CASE run_target_Command
  BY <1>6, Zenon DEF run_target_Command, BailOut
<1>7. CASE run_target_ReadPid
  BY <1>7, Zenon DEF run_target_ReadPid, BailOut
<1>8. CASE run_target_Arm
  BY <1>8, Zenon DEF run_target_Arm
<1>9. CASE run_target_ReadStatus
  BY <1>9, Zenon DEF run_target_ReadStatus, BailOut
<1>10. CASE run_target_ClearPid
  BY <1>10, Zenon DEF run_target_ClearPid
<1>11. CASE run_target_Disarm
  BY <1>11, Zenon DEF run_target_Disarm
<1>12. CASE run_target_Report
  BY <1>12, Zenon DEF run_target_Report
<1>13. CASE FuzzerExit
  BY <1>13, Zenon DEF FuzzerExit
<1>14. CASE FuzzerCrash
  BY <1>14, Zenon DEF FuzzerCrash
<1>15. CASE handle_timeout
  BY <1>15, Zenon DEF handle_timeout
<1>16. CASE handle_stop_sig_Child
  BY <1>16, Zenon DEF handle_stop_sig_Child
<1>17. CASE handle_stop_sig_Server
  BY <1>17, Zenon DEF handle_stop_sig_Server
<1>18. CASE afl_setup
  BY <1>18, Zenon DEF afl_setup
<1>19. CASE afl_forkserver_Hello
  BY <1>19, Zenon DEF afl_forkserver_Hello
<1>20. CASE afl_forkserver_Await
  BY <1>20, Zenon DEF afl_forkserver_Await
<1>21. CASE afl_forkserver_Fork
  BY <1>21, Zenon DEF afl_forkserver_Fork
<1>22. CASE afl_forkserver_SendPid
  BY <1>22, Zenon DEF afl_forkserver_SendPid
<1>23. CASE afl_wait_tsl
  BY <1>23, Zenon DEF afl_wait_tsl
<1>24. CASE afl_forkserver_Reap
  BY <1>24, Zenon DEF afl_forkserver_Reap
<1>25. CASE afl_forkserver_Relay
  BY <1>25, Zenon DEF afl_forkserver_Relay
<1>26. CASE ServerDies
  BY <1>26, Zenon DEF ServerDies
<1>27. ASSUME NEW p \in Pids, ChildStart(p) PROVE FlagsOK'
  BY <1>27 DEF ChildStart
<1>28. ASSUME NEW p \in Pids, ChildTrace(p) PROVE FlagsOK'
  BY <1>28 DEF ChildTrace
<1>29. ASSUME NEW p \in Pids, afl_request_tsl(p) PROVE FlagsOK'
  BY <1>29 DEF afl_request_tsl
<1>30. ASSUME NEW p \in Pids, ChildEnd(p) PROVE FlagsOK'
  BY <1>30 DEF ChildEnd
<1>31. ASSUME NEW p \in Pids, InitReaps(p) PROVE FlagsOK'
  BY <1>31 DEF InitReaps
<1>32. ASSUME NEW p \in Pids, OtherProcess(p) PROVE FlagsOK'
  BY <1>32 DEF OtherProcess
<1>33. CASE afl_wait_tsl_Fails
  BY <1>33, Zenon DEF afl_wait_tsl_Fails
<1> QED
  BY <1>1, <1>2, <1>3, <1>4, <1>5, <1>6, <1>7, <1>8, <1>9, <1>10, <1>11,
     <1>12, <1>13, <1>14, <1>15, <1>16, <1>17, <1>18, <1>19, <1>20, <1>21,
     <1>22, <1>23, <1>24, <1>25, <1>26, <1>27, <1>28, <1>29, <1>30, <1>31,
     <1>32, <1>33
  DEF Next, FuzzerNext, SignalNext, ServerNext, ChildNext, KernelNext

(* Each step keeps the types.  Only the two reads of run_target need more   *)
(* than the types: that the word they take is of the kind they expect.      *)
LEMMA TypeStep ==
  ASSUME IInv, Next, FlagsOK'
  PROVE  TypeOK'
<1> USE DEF IInv, fuzzerVars, serverVars, pipeVars, kernelVars
<1>1. CASE init_forkserver_Fork
  <2>1. fpc' \in FuzzerPcs
    BY <1>1 DEF init_forkserver_Fork, FuzzerPcs, TypeOK
  <2>2. spc' \in ServerPcs
    BY <1>1 DEF init_forkserver_Fork, ServerPcs, TypeOK
  <2> QED
    BY <1>1, <2>1, <2>2 DEF init_forkserver_Fork, TypeOK
<1>2. CASE init_forkserver_Arm
  <2>1. fpc' \in FuzzerPcs
    BY <1>2 DEF init_forkserver_Arm, FuzzerPcs, TypeOK
  <2> QED
    BY <1>2, <2>1 DEF init_forkserver_Arm, TypeOK
<1>3. CASE init_forkserver_Hello
  <2>1. fpc' \in FuzzerPcs
    BY <1>3 DEF init_forkserver_Hello, FuzzerPcs, TypeOK
  <2>2. st' \in Seq(StWords)
    BY <1>3, TailType DEF init_forkserver_Hello, TypeOK
  <2> QED
    BY <1>3, <2>1, <2>2 DEF init_forkserver_Hello, TypeOK
<1>4. CASE init_forkserver_Disarm
  <2>1. fpc' \in FuzzerPcs
    BY <1>4 DEF init_forkserver_Disarm, FuzzerPcs, TypeOK
  <2> QED
    BY <1>4, <2>1 DEF init_forkserver_Disarm, TypeOK
<1>5. CASE run_target_Reset
  <2>1. fpc' \in FuzzerPcs
    BY <1>5 DEF run_target_Reset, FuzzerPcs, TypeOK
  <2> QED
    BY <1>5, <2>1 DEF run_target_Reset, TypeOK
<1>6. CASE run_target_Command
  <2>1. fpc' \in FuzzerPcs
    BY <1>6 DEF run_target_Command, FuzzerPcs, BailOut
  <2>2. ctl' \in Seq(CtlWords)
    BY <1>6, WordTypes DEF run_target_Command, TypeOK, FlagsOK
  <2>3. Len(ctl') <= 1
    <3>1. CASE ServerEnds /\ ctl' = Append(ctl, Msg("cmd", prev_timed_out))
      <4>1. ctl = <<>>
        BY <1>6, <3>1 DEF run_target_Command, Protocol, AtRest, ServerEnds,
           ServerAlive
      <4> QED
        BY <3>1, <4>1, SeqFacts
    <3>2. CASE ctl' = ctl
      BY <3>2 DEF TypeOK
    <3> QED
      BY <1>6, <3>1, <3>2 DEF run_target_Command
  <2> QED
    BY <1>6, <2>1, <2>2, <2>3 DEF run_target_Command, TypeOK
<1>7. CASE run_target_ReadPid
  <2> USE <1>7 DEF run_target_ReadPid, BailOut
  <2>1. fpc' \in FuzzerPcs
    BY DEF FuzzerPcs
  <2>2. st' \in Seq(StWords)
    BY TailType DEF TypeOK
  <2>3. child_pid' \in Pids \cup {-1, 0}
    <3>1. CASE st # <<>>
      <4>1. ran \in Pids /\ Head(st) = PidWord
        BY <3>1, SeqFacts DEF Protocol
      <4> QED
        BY <3>1, <4>1 DEF PidWord, Msg
    <3>2. CASE st = <<>>
      BY <3>2 DEF TypeOK
    <3> QED
      BY <3>1, <3>2
  <2> QED
    BY <2>1, <2>2, <2>3 DEF TypeOK
<1>8. CASE run_target_Arm
  <2>1. fpc' \in FuzzerPcs
    BY <1>8 DEF run_target_Arm, FuzzerPcs, TypeOK
  <2> QED
    BY <1>8, <2>1 DEF run_target_Arm, TypeOK
<1>9. CASE run_target_ReadStatus
  <2> USE <1>9 DEF run_target_ReadStatus, BailOut
  <2>1. fpc' \in FuzzerPcs
    BY DEF FuzzerPcs
  <2>2. st' \in Seq(StWords)
    BY TailType DEF TypeOK
  <2>3. status' \in Statuses
    <3>1. CASE st # <<>>
      <4>1. ran \in Pids /\ Head(st) = StatusWord
        BY <3>1, SeqFacts DEF Protocol
      <4> QED
        BY <3>1, <4>1 DEF StatusWord, Msg, TypeOK
    <3>2. CASE st = <<>>
      BY <3>2 DEF TypeOK
    <3> QED
      BY <3>1, <3>2
  <2> QED
    BY <2>1, <2>2, <2>3 DEF TypeOK
<1>10. CASE run_target_ClearPid
  <2>1. fpc' \in FuzzerPcs
    BY <1>10 DEF run_target_ClearPid, FuzzerPcs, TypeOK
  <2> QED
    BY <1>10, <2>1 DEF run_target_ClearPid, TypeOK
<1>11. CASE run_target_Disarm
  <2>1. fpc' \in FuzzerPcs
    BY <1>11 DEF run_target_Disarm, FuzzerPcs, TypeOK
  <2> QED
    BY <1>11, <2>1 DEF run_target_Disarm, TypeOK
<1>12. CASE run_target_Report
  <2>1. fpc' \in FuzzerPcs
    BY <1>12 DEF run_target_Report, FuzzerPcs, TypeOK
  <2>2. verdict' \in Faults
    BY <1>12 DEF run_target_Report, Fault, Faults
  <2> QED
    BY <1>12, <2>1, <2>2 DEF run_target_Report, TypeOK
<1>13. CASE FuzzerExit
  <2>1. fpc' \in FuzzerPcs
    BY <1>13 DEF FuzzerExit, FuzzerPcs, TypeOK
  <2> QED
    BY <1>13, <2>1 DEF FuzzerExit, TypeOK
<1>14. CASE FuzzerCrash
  <2>1. fpc' \in FuzzerPcs
    BY <1>14 DEF FuzzerCrash, FuzzerPcs, TypeOK
  <2> QED
    BY <1>14, <2>1 DEF FuzzerCrash, TypeOK
<1>15. CASE handle_timeout
  <2>1. spc' \in ServerPcs
    BY <1>15 DEF handle_timeout, ServerPcs, TypeOK
  <2>2. proc' \in [Pids -> ProcStates]
    BY <1>15 DEF handle_timeout, TypeOK, ProcStates, KilledProc
  <2>3. exitst' \in [Pids -> Statuses]
    BY <1>15 DEF handle_timeout, TypeOK, Statuses, KilledExit
  <2> QED
    BY <1>15, <2>1, <2>2, <2>3 DEF handle_timeout, TypeOK
<1>16. CASE handle_stop_sig_Child
  <2>1. proc' \in [Pids -> ProcStates]
    BY <1>16 DEF handle_stop_sig_Child, TypeOK, ProcStates, KilledProc
  <2>2. exitst' \in [Pids -> Statuses]
    BY <1>16 DEF handle_stop_sig_Child, TypeOK, Statuses, KilledExit
  <2> QED
    BY <1>16, <2>1, <2>2 DEF handle_stop_sig_Child, TypeOK
<1>17. CASE handle_stop_sig_Server
  <2>1. spc' \in ServerPcs
    BY <1>17 DEF handle_stop_sig_Server, ServerPcs, TypeOK
  <2> QED
    BY <1>17, <2>1 DEF handle_stop_sig_Server, TypeOK
<1>18. CASE afl_setup
  <2>1. spc' \in ServerPcs
    BY <1>18 DEF afl_setup, ServerPcs, TypeOK
  <2>2. trace' \subseteq Pids \cup {SetupMark}
    BY <1>18 DEF afl_setup, TypeOK
  <2> QED
    BY <1>18, <2>1, <2>2 DEF afl_setup, TypeOK
<1>19. CASE afl_forkserver_Hello
  <2>1. spc' \in ServerPcs
    BY <1>19 DEF afl_forkserver_Hello, ServerPcs, TypeOK
  <2>2. st' \in Seq(StWords)
    BY <1>19, WordTypes DEF afl_forkserver_Hello, TypeOK
  <2>3. Len(st') <= 2
    <3>1. CASE FuzzerAlive /\ st' = Append(st, Msg("hello", 0))
      <4>1. st = <<>>
        BY <1>19, <3>1 DEF afl_forkserver_Hello, Protocol, AtRest, FuzzerAlive,
           FuzzerPcs, TypeOK, PidWord, StatusWord, HelloWord
      <4> QED
        BY <3>1, <4>1, SeqFacts
    <3>2. CASE st' = st
      BY <3>2 DEF TypeOK
    <3> QED
      BY <1>19, <3>1, <3>2 DEF afl_forkserver_Hello
  <2> QED
    BY <1>19, <2>1, <2>2, <2>3 DEF afl_forkserver_Hello, TypeOK
<1>20. CASE afl_forkserver_Await
  <2>1. spc' \in ServerPcs
    BY <1>20 DEF afl_forkserver_Await, ServerPcs, TypeOK
  <2>2. ctl' \in Seq(CtlWords)
    <3>1. ctl \in Seq(CtlWords) /\ (ctl' = ctl \/ (ctl # <<>> /\ ctl' = Tail(ctl)))
      BY <1>20 DEF afl_forkserver_Await, TypeOK
    <3> QED
      BY <3>1
  <2> QED
    BY <1>20, <2>1, <2>2 DEF afl_forkserver_Await, TypeOK
<1>21. CASE afl_forkserver_Fork
  <2>1. spc' \in ServerPcs
    BY <1>21 DEF afl_forkserver_Fork, ServerPcs, TypeOK
  <2>2. proc' \in [Pids -> ProcStates]
    BY <1>21 DEF afl_forkserver_Fork, TypeOK, ProcStates
  <2>3. srv_child' \in Pids \cup {0} /\ ran' \in Pids \cup {0} /\ tsl' \in 0..TslCap
    BY <1>21, TslCapAssumption DEF afl_forkserver_Fork, TypeOK
  <2> QED
    BY <1>21, <2>1, <2>2, <2>3 DEF afl_forkserver_Fork, TypeOK
<1>22. CASE afl_forkserver_SendPid
  <2>1. spc' \in ServerPcs
    BY <1>22 DEF afl_forkserver_SendPid, ServerPcs, TypeOK
  <2>2. st' \in Seq(StWords)
    BY <1>22, WordTypes DEF afl_forkserver_SendPid, TypeOK, OneChild
  <2>3. Len(st') <= 2
    <3>1. CASE FuzzerAlive /\ st' = Append(st, Msg("pid", srv_child))
      <4>1. st = <<>>
        BY <1>22, <3>1 DEF afl_forkserver_SendPid, Protocol, AtRest, FuzzerAlive,
           FuzzerPcs, TypeOK, PidWord, StatusWord, HelloWord
      <4> QED
        BY <3>1, <4>1, SeqFacts
    <3>2. CASE st' = st
      BY <3>2 DEF TypeOK
    <3> QED
      BY <1>22, <3>1, <3>2 DEF afl_forkserver_SendPid
  <2> QED
    BY <1>22, <2>1, <2>2, <2>3 DEF afl_forkserver_SendPid, TypeOK
<1>23. CASE afl_wait_tsl
  <2>1. spc' \in ServerPcs
    BY <1>23 DEF afl_wait_tsl, ServerPcs, TypeOK
  <2>2. tsl' \in 0..TslCap
    BY <1>23, TslCapAssumption DEF afl_wait_tsl, TypeOK
  <2> QED
    BY <1>23, <2>1, <2>2 DEF afl_wait_tsl, TypeOK
<1>24. CASE afl_forkserver_Reap
  <2>1. spc' \in ServerPcs
    BY <1>24 DEF afl_forkserver_Reap, ServerPcs, TypeOK
  <2>2. proc' \in [Pids -> ProcStates]
    BY <1>24 DEF afl_forkserver_Reap, TypeOK, ProcStates
  <2>3. srv_status' \in Statuses
    BY <1>24 DEF afl_forkserver_Reap, TypeOK, OneChild
  <2> QED
    BY <1>24, <2>1, <2>2, <2>3 DEF afl_forkserver_Reap, TypeOK
<1>25. CASE afl_forkserver_Relay
  <2>1. spc' \in ServerPcs
    BY <1>25 DEF afl_forkserver_Relay, ServerPcs, TypeOK
  <2>2. st' \in Seq(StWords)
    BY <1>25, WordTypes DEF afl_forkserver_Relay, TypeOK
  <2>3. Len(st') <= 2
    <3>1. CASE FuzzerAlive /\ st' = Append(st, Msg("status", srv_status))
      <4>1. st = <<>> \/ st = <<PidWord>>
        BY <1>25, <3>1 DEF afl_forkserver_Relay, Protocol, AtRest, FuzzerAlive,
           FuzzerPcs, TypeOK
      <4> QED
        BY <3>1, <4>1, SeqFacts
    <3>2. CASE st' = st
      BY <3>2 DEF TypeOK
    <3> QED
      BY <1>25, <3>1, <3>2 DEF afl_forkserver_Relay
  <2> QED
    BY <1>25, <2>1, <2>2, <2>3 DEF afl_forkserver_Relay, TypeOK
<1>26. CASE ServerDies
  <2>1. spc' \in ServerPcs
    BY <1>26 DEF ServerDies, ServerPcs, TypeOK
  <2> QED
    BY <1>26, <2>1 DEF ServerDies, TypeOK
<1>27. ASSUME NEW p \in Pids, ChildStart(p) PROVE TypeOK'
  <2>1. proc' \in [Pids -> ProcStates]
    BY <1>27 DEF ChildStart, TypeOK, ProcStates
  <2> QED
    BY <1>27, <2>1 DEF ChildStart, TypeOK
<1>28. ASSUME NEW p \in Pids, ChildTrace(p) PROVE TypeOK'
  <2>1. trace' \subseteq Pids \cup {SetupMark}
    BY <1>28 DEF ChildTrace, TypeOK
  <2> QED
    BY <1>28, <2>1 DEF ChildTrace, TypeOK
<1>29. ASSUME NEW p \in Pids, afl_request_tsl(p) PROVE TypeOK'
  <2>1. tsl' \in 0..TslCap
    BY <1>29, TslCapAssumption DEF afl_request_tsl, TypeOK
  <2> QED
    BY <1>29, <2>1 DEF afl_request_tsl, TypeOK
<1>30. ASSUME NEW p \in Pids, ChildEnd(p) PROVE TypeOK'
  <2>1. proc' \in [Pids -> ProcStates]
    BY <1>30 DEF ChildEnd, TypeOK, ProcStates
  <2>2. exitst' \in [Pids -> Statuses]
    BY <1>30 DEF ChildEnd, TypeOK, Statuses
  <2> QED
    BY <1>30, <2>1, <2>2 DEF ChildEnd, TypeOK
<1>31. ASSUME NEW p \in Pids, InitReaps(p) PROVE TypeOK'
  <2>1. proc' \in [Pids -> ProcStates]
    BY <1>31 DEF InitReaps, TypeOK, ProcStates
  <2> QED
    BY <1>31, <2>1 DEF InitReaps, TypeOK
<1>32. ASSUME NEW p \in Pids, OtherProcess(p) PROVE TypeOK'
  <2>1. proc' \in [Pids -> ProcStates]
    BY <1>32 DEF OtherProcess, TypeOK, ProcStates
  <2> QED
    BY <1>32, <2>1 DEF OtherProcess, TypeOK
<1>33. CASE afl_wait_tsl_Fails
  <2>1. spc' \in ServerPcs
    BY <1>33 DEF afl_wait_tsl_Fails, ServerPcs, TypeOK
  <2>2. tsl' \in 0..TslCap
    BY <1>33, TslCapAssumption DEF afl_wait_tsl_Fails, TypeOK
  <2> QED
    BY <1>33, <2>1, <2>2 DEF afl_wait_tsl_Fails, TypeOK
<1> QED
  BY <1>1, <1>2, <1>3, <1>4, <1>5, <1>6, <1>7, <1>8, <1>9, <1>10, <1>11,
     <1>12, <1>13, <1>14, <1>15, <1>16, <1>17, <1>18, <1>19, <1>20, <1>21,
     <1>22, <1>23, <1>24, <1>25, <1>26, <1>27, <1>28, <1>29, <1>30, <1>31,
     <1>32, <1>33
  DEF Next, FuzzerNext, SignalNext, ServerNext, ChildNext, KernelNext

(* The server never has two children alive, and knows the one it has.       *)
LEMMA OneChildStep ==
  ASSUME IInv, Next
  PROVE  OneChild'
<1> USE PidsAssumption DEF IInv, fuzzerVars, serverVars, pipeVars, kernelVars
<1>1. CASE init_forkserver_Fork
  BY <1>1 DEF CleanMap, NoneAlive, init_forkserver_Fork, TypeOK, OneChild,
     Protocol, AtRest, ServerAlive, Alive
<1>2. CASE init_forkserver_Arm
  BY <1>2 DEF init_forkserver_Arm, TypeOK, OneChild, Protocol, AtRest,
     ServerAlive, Alive
<1>3. CASE init_forkserver_Hello
  BY <1>3 DEF init_forkserver_Hello, ServerEnds, TypeOK, OneChild, Protocol,
     AtRest, ServerAlive, Alive
<1>4. CASE init_forkserver_Disarm
  BY <1>4 DEF init_forkserver_Disarm, TypeOK, OneChild, Protocol, AtRest,
     ServerAlive, Alive
<1>5. CASE run_target_Reset
  BY <1>5 DEF run_target_Reset, TypeOK, OneChild, Protocol, AtRest,
     ServerAlive, Alive
<1>6. CASE run_target_Command
  BY <1>6 DEF CleanMap, run_target_Command, BailOut, ServerEnds, Msg, TypeOK,
     OneChild, Protocol, AtRest, ServerAlive, Alive
<1>7. CASE run_target_ReadPid
  BY <1>7 DEF run_target_ReadPid, BailOut, ServerEnds, TypeOK, OneChild,
     Protocol, AtRest, ServerAlive, Alive
<1>8. CASE run_target_Arm
  BY <1>8 DEF run_target_Arm, TypeOK, OneChild, Protocol, AtRest, ServerAlive,
     Alive
<1>9. CASE run_target_ReadStatus
  BY <1>9 DEF run_target_ReadStatus, BailOut, ServerEnds, TypeOK, OneChild,
     Protocol, AtRest, ServerAlive, Alive
<1>10. CASE run_target_ClearPid
  BY <1>10 DEF run_target_ClearPid, TypeOK, OneChild, Protocol, AtRest,
     ServerAlive, Alive
<1>11. CASE run_target_Disarm
  BY <1>11 DEF run_target_Disarm, TypeOK, OneChild, Protocol, AtRest,
     ServerAlive, Alive
<1>12. CASE run_target_Report
  BY <1>12 DEF run_target_Report, TypeOK, OneChild, Protocol, AtRest,
     ServerAlive, Alive
<1>13. CASE FuzzerExit
  BY <1>13 DEF FuzzerExit, TypeOK, OneChild, Protocol, AtRest, ServerAlive,
     Alive
<1>14. CASE FuzzerCrash
  BY <1>14 DEF FuzzerCrash, TypeOK, OneChild, Protocol, AtRest, ServerAlive,
     Alive
<1>15. CASE handle_timeout
  BY <1>15 DEF handle_timeout, KilledProc, KilledExit, TypeOK, OneChild,
     Protocol, AtRest, ServerAlive, Alive
<1>16. CASE handle_stop_sig_Child
  BY <1>16 DEF handle_stop_sig_Child, KilledProc, KilledExit, TypeOK,
     OneChild, Protocol, AtRest, ServerAlive, Alive
<1>17. CASE handle_stop_sig_Server
  BY <1>17 DEF handle_stop_sig_Server, TypeOK, OneChild, Protocol, AtRest,
     ServerAlive, Alive
<1>18. CASE afl_setup
  BY <1>18 DEF afl_setup, TypeOK, OneChild, Protocol, AtRest, ServerAlive,
     Alive
<1>19. CASE afl_forkserver_Hello
  BY <1>19 DEF FuzzerAlive, FuzzerPcs, afl_forkserver_Hello, TypeOK, OneChild,
     Protocol, AtRest, ServerAlive, Alive
<1>20. CASE afl_forkserver_Await
  BY <1>20 DEF afl_forkserver_Await, TypeOK, OneChild, Protocol, AtRest,
     ServerAlive, Alive
<1>21. CASE afl_forkserver_Fork
  BY <1>21 DEF afl_forkserver_Fork, TypeOK, OneChild, Protocol, AtRest,
     ServerAlive, Alive
<1>22. CASE afl_forkserver_SendPid
  BY <1>22 DEF afl_forkserver_SendPid, TypeOK, OneChild, Protocol, AtRest,
     ServerAlive, Alive
<1>23. CASE afl_wait_tsl
  BY <1>23 DEF afl_wait_tsl, TypeOK, OneChild, Protocol, AtRest, ServerAlive,
     Alive
<1>24. CASE afl_forkserver_Reap
  BY <1>24 DEF afl_forkserver_Reap, TypeOK, OneChild, Protocol, AtRest,
     ServerAlive, Alive
<1>25. CASE afl_forkserver_Relay
  BY <1>25 DEF FuzzerAlive, FuzzerPcs, afl_forkserver_Relay, TypeOK, OneChild,
     Protocol, AtRest, ServerAlive, Alive
<1>26. CASE ServerDies
  BY <1>26 DEF ServerDies, TypeOK, OneChild, Protocol, AtRest, ServerAlive,
     Alive
<1>27. ASSUME NEW p \in Pids, ChildStart(p) PROVE OneChild'
  BY <1>27 DEF ChildStart, TypeOK, OneChild, Protocol, AtRest, ServerAlive,
     Alive
<1>28. ASSUME NEW p \in Pids, ChildTrace(p) PROVE OneChild'
  BY <1>28 DEF ChildTrace, TypeOK, OneChild, Protocol, AtRest, ServerAlive,
     Alive
<1>29. ASSUME NEW p \in Pids, afl_request_tsl(p) PROVE OneChild'
  BY <1>29 DEF afl_request_tsl, TypeOK, OneChild, Protocol, AtRest,
     ServerAlive, Alive
<1>30. ASSUME NEW p \in Pids, ChildEnd(p) PROVE OneChild'
  BY <1>30 DEF ChildEnd, TypeOK, OneChild, Protocol, AtRest, ServerAlive,
     Alive
<1>31. ASSUME NEW p \in Pids, InitReaps(p) PROVE OneChild'
  BY <1>31 DEF InitReaps, TypeOK, OneChild, Protocol, AtRest, ServerAlive,
     Alive
<1>32. ASSUME NEW p \in Pids, OtherProcess(p) PROVE OneChild'
  BY <1>32 DEF OtherProcess, TypeOK, OneChild, Protocol, AtRest, ServerAlive,
     Alive
<1>33. CASE afl_wait_tsl_Fails
  BY <1>33 DEF afl_wait_tsl_Fails, TypeOK, OneChild, Protocol, AtRest, ServerAlive,
     Alive
<1> QED
  BY <1>1, <1>2, <1>3, <1>4, <1>5, <1>6, <1>7, <1>8, <1>9, <1>10, <1>11,
     <1>12, <1>13, <1>14, <1>15, <1>16, <1>17, <1>18, <1>19, <1>20, <1>21,
     <1>22, <1>23, <1>24, <1>25, <1>26, <1>27, <1>28, <1>29, <1>30, <1>31,
     <1>32, <1>33
  DEF Next, FuzzerNext, SignalNext, ServerNext, ChildNext, KernelNext

(* The two sides stay in step, in every phase and across every death.       *)
LEMMA ProtocolStep ==
  ASSUME IInv, Next
  PROVE  Protocol'
<1> USE PidsAssumption DEF IInv, fuzzerVars, serverVars, pipeVars, kernelVars
<1>1. CASE init_forkserver_Fork
  BY <1>1 DEF init_forkserver_Fork, Protocol
<1>2. CASE init_forkserver_Arm
  BY <1>2, SeqFacts DEF init_forkserver_Arm, TypeOK, OneChild, Protocol,
     CleanMap, AtRest, NoneAlive, ServerAlive, Alive, FuzzerAlive, HelloWord,
     PidWord, StatusWord, Msg
<1>3. CASE init_forkserver_Hello
  BY <1>3, SeqFacts DEF init_forkserver_Hello, ServerEnds, TypeOK, OneChild,
     Protocol, CleanMap, AtRest, NoneAlive, ServerAlive, Alive, FuzzerAlive,
     HelloWord, PidWord, StatusWord, Msg
<1>4. CASE init_forkserver_Disarm
  BY <1>4, SeqFacts DEF init_forkserver_Disarm, TypeOK, OneChild, Protocol,
     CleanMap, AtRest, NoneAlive, ServerAlive, Alive, FuzzerAlive, HelloWord,
     PidWord, StatusWord, Msg
<1>5. CASE run_target_Reset
  BY <1>5, SeqFacts DEF run_target_Reset, TypeOK, OneChild, Protocol,
     CleanMap, AtRest, NoneAlive, ServerAlive, Alive, FuzzerAlive, HelloWord,
     PidWord, StatusWord, Msg
<1>6. CASE run_target_Command
  <2> USE <1>6 DEF run_target_Command
  <2>1. AtRest /\ ran = 0
    BY DEF Protocol, CleanMap
  <2>2. CASE fpc' = "readpid"
    <3>1. CASE spc = "dead"
      BY <2>1, <2>2, <3>1 DEF Protocol, AtRest
    <3>2. CASE spc = "wait" /\ ctl = <<>>
      <4>1. Len(ctl') = 1
        BY <2>2, <3>2, SeqFacts DEF Msg, BailOut
      <4> QED
        BY <2>1, <2>2, <3>2, <4>1 DEF Protocol, AtRest
    <3> QED
      BY <2>1, <3>1, <3>2 DEF AtRest
  <2>3. CASE fpc' \in {"idle", "gone"}
    <3>1. AtRest'
      BY <2>1, <2>3 DEF AtRest, BailOut
    <3> QED
      BY <2>3, <3>1 DEF Protocol
  <2> QED
    BY <2>2, <2>3 DEF BailOut
<1>7. CASE run_target_ReadPid
  <2> USE <1>7 DEF run_target_ReadPid
  <2>1. CASE st # <<>>
    <3>1. CASE /\ st = <<PidWord>> /\ ran \in Pids /\ ctl = <<>>
               /\ spc \in {"drain", "reap", "relay", "dead"}
      <4>1. st' = <<>>
        BY <2>1, <3>1, SeqFacts
      <4> QED
        BY <2>1, <3>1, <4>1 DEF Protocol
    <3>2. CASE /\ st = <<PidWord, StatusWord>> /\ ran \in Pids /\ ctl = <<>>
               /\ spc \in {"wait", "dead"} /\ NoneAlive
      <4>1. st' = <<StatusWord>>
        BY <2>1, <3>2, SeqFacts
      <4>2. StatusWord' = StatusWord /\ NoneAlive'
        BY <3>2 DEF StatusWord, NoneAlive, Alive
      <4> QED
        BY <2>1, <3>2, <4>1, <4>2 DEF Protocol
    <3> QED
      BY <2>1, <3>1, <3>2 DEF Protocol
  <2>2. CASE st = <<>> /\ ~ServerEnds
    <3>1. AtRest' /\ \A p \in Pids : proc'[p] # "born"
      BY <2>2 DEF Protocol, ServerEnds, ServerAlive, AtRest
    <3> QED
      BY <2>2, <3>1 DEF Protocol, BailOut
  <2> QED
    BY <2>1, <2>2
<1>8. CASE run_target_Arm
  BY <1>8, SeqFacts DEF run_target_Arm, TypeOK, OneChild, Protocol, CleanMap,
     AtRest, NoneAlive, ServerAlive, Alive, FuzzerAlive, HelloWord, PidWord,
     StatusWord, Msg
<1>9. CASE run_target_ReadStatus
  BY <1>9, SeqFacts DEF run_target_ReadStatus, BailOut, ServerEnds, TypeOK,
     OneChild, Protocol, CleanMap, AtRest, NoneAlive, ServerAlive, Alive,
     FuzzerAlive, HelloWord, PidWord, StatusWord, Msg
<1>10. CASE run_target_ClearPid
  BY <1>10, SeqFacts DEF run_target_ClearPid, TypeOK, OneChild, Protocol,
     CleanMap, AtRest, NoneAlive, ServerAlive, Alive, FuzzerAlive, HelloWord,
     PidWord, StatusWord, Msg
<1>11. CASE run_target_Disarm
  BY <1>11, SeqFacts DEF run_target_Disarm, TypeOK, OneChild, Protocol,
     CleanMap, AtRest, NoneAlive, ServerAlive, Alive, FuzzerAlive, HelloWord,
     PidWord, StatusWord, Msg
<1>12. CASE run_target_Report
  BY <1>12, SeqFacts DEF run_target_Report, TypeOK, OneChild, Protocol,
     CleanMap, AtRest, NoneAlive, ServerAlive, Alive, FuzzerAlive, HelloWord,
     PidWord, StatusWord, Msg
<1>13. CASE FuzzerExit
  BY <1>13, SeqFacts DEF FuzzerExit, TypeOK, OneChild, Protocol, CleanMap,
     AtRest, NoneAlive, ServerAlive, Alive, FuzzerAlive, HelloWord, PidWord,
     StatusWord, Msg
<1>14. CASE FuzzerCrash
  BY <1>14, SeqFacts DEF FuzzerCrash, TypeOK, OneChild, Protocol, CleanMap,
     AtRest, NoneAlive, ServerAlive, Alive, FuzzerAlive, HelloWord, PidWord,
     StatusWord, Msg
<1>15. CASE handle_timeout
  BY <1>15, SeqFacts DEF handle_timeout, KilledProc, KilledExit, TypeOK,
     OneChild, Protocol, CleanMap, AtRest, NoneAlive, ServerAlive, Alive,
     FuzzerAlive, HelloWord, PidWord, StatusWord, Msg
<1>16. CASE handle_stop_sig_Child
  BY <1>16, SeqFacts DEF handle_stop_sig_Child, KilledProc, KilledExit,
     TypeOK, OneChild, Protocol, CleanMap, AtRest, NoneAlive, ServerAlive,
     Alive, FuzzerAlive, HelloWord, PidWord, StatusWord, Msg
<1>17. CASE handle_stop_sig_Server
  BY <1>17, SeqFacts DEF handle_stop_sig_Server, TypeOK, OneChild, Protocol,
     CleanMap, AtRest, NoneAlive, ServerAlive, Alive, FuzzerAlive, HelloWord,
     PidWord, StatusWord, Msg
<1>18. CASE afl_setup
  BY <1>18, SeqFacts DEF afl_setup, TypeOK, OneChild, Protocol, CleanMap,
     AtRest, NoneAlive, ServerAlive, Alive, FuzzerAlive, HelloWord, PidWord,
     StatusWord, Msg
<1>19. CASE afl_forkserver_Hello
  BY <1>19, SeqFacts DEF afl_forkserver_Hello, TypeOK, OneChild, Protocol,
     CleanMap, AtRest, NoneAlive, ServerAlive, Alive, FuzzerAlive, HelloWord,
     PidWord, StatusWord, Msg
<1>20. CASE afl_forkserver_Await
  BY <1>20, SeqFacts DEF afl_forkserver_Await, TypeOK, OneChild, Protocol,
     CleanMap, AtRest, NoneAlive, ServerAlive, Alive, FuzzerAlive, HelloWord,
     PidWord, StatusWord, Msg
<1>21. CASE afl_forkserver_Fork
  BY <1>21, SeqFacts DEF afl_forkserver_Fork, TypeOK, OneChild, Protocol,
     CleanMap, AtRest, NoneAlive, ServerAlive, Alive, FuzzerAlive, HelloWord,
     PidWord, StatusWord, Msg
<1>22. CASE afl_forkserver_SendPid
  BY <1>22, SeqFacts DEF afl_forkserver_SendPid, TypeOK, OneChild, Protocol,
     CleanMap, AtRest, NoneAlive, ServerAlive, Alive, FuzzerAlive, HelloWord,
     PidWord, StatusWord, Msg
<1>23. CASE afl_wait_tsl
  BY <1>23, SeqFacts DEF afl_wait_tsl, TypeOK, OneChild, Protocol, CleanMap,
     AtRest, NoneAlive, ServerAlive, Alive, FuzzerAlive, HelloWord, PidWord,
     StatusWord, Msg
<1>24. CASE afl_forkserver_Reap
  BY <1>24, SeqFacts DEF afl_forkserver_Reap, TypeOK, OneChild, Protocol,
     CleanMap, AtRest, NoneAlive, ServerAlive, Alive, FuzzerAlive, HelloWord,
     PidWord, StatusWord, Msg
<1>25. CASE afl_forkserver_Relay
  BY <1>25, SeqFacts DEF afl_forkserver_Relay, TypeOK, OneChild, Protocol,
     CleanMap, AtRest, NoneAlive, ServerAlive, Alive, FuzzerAlive, HelloWord,
     PidWord, StatusWord, Msg
<1>26. CASE ServerDies
  BY <1>26, SeqFacts DEF ServerDies, TypeOK, OneChild, Protocol, CleanMap,
     AtRest, NoneAlive, ServerAlive, Alive, FuzzerAlive, HelloWord, PidWord,
     StatusWord, Msg
<1>27. ASSUME NEW p \in Pids, ChildStart(p) PROVE Protocol'
  BY <1>27, SeqFacts DEF ChildStart, TypeOK, OneChild, Protocol, CleanMap,
     AtRest, NoneAlive, ServerAlive, Alive, FuzzerAlive, HelloWord, PidWord,
     StatusWord, Msg
<1>28. ASSUME NEW p \in Pids, ChildTrace(p) PROVE Protocol'
  BY <1>28, SeqFacts DEF ChildTrace, TypeOK, OneChild, Protocol, CleanMap,
     AtRest, NoneAlive, ServerAlive, Alive, FuzzerAlive, HelloWord, PidWord,
     StatusWord, Msg
<1>29. ASSUME NEW p \in Pids, afl_request_tsl(p) PROVE Protocol'
  BY <1>29, SeqFacts DEF afl_request_tsl, TypeOK, OneChild, Protocol,
     CleanMap, AtRest, NoneAlive, ServerAlive, Alive, FuzzerAlive, HelloWord,
     PidWord, StatusWord, Msg
<1>30. ASSUME NEW p \in Pids, ChildEnd(p) PROVE Protocol'
  BY <1>30, SeqFacts DEF ChildEnd, TypeOK, OneChild, Protocol, CleanMap,
     AtRest, NoneAlive, ServerAlive, Alive, FuzzerAlive, HelloWord, PidWord,
     StatusWord, Msg
<1>31. ASSUME NEW p \in Pids, InitReaps(p) PROVE Protocol'
  BY <1>31, SeqFacts DEF InitReaps, TypeOK, OneChild, Protocol, CleanMap,
     AtRest, NoneAlive, ServerAlive, Alive, FuzzerAlive, HelloWord, PidWord,
     StatusWord, Msg
<1>32. ASSUME NEW p \in Pids, OtherProcess(p) PROVE Protocol'
  BY <1>32, SeqFacts DEF OtherProcess, TypeOK, OneChild, Protocol, CleanMap,
     AtRest, NoneAlive, ServerAlive, Alive, FuzzerAlive, HelloWord, PidWord,
     StatusWord, Msg
<1>33. CASE afl_wait_tsl_Fails
  BY <1>33, SeqFacts DEF afl_wait_tsl_Fails, TypeOK, OneChild, Protocol, CleanMap,
     AtRest, NoneAlive, ServerAlive, Alive, FuzzerAlive, HelloWord, PidWord,
     StatusWord, Msg
<1> QED
  BY <1>1, <1>2, <1>3, <1>4, <1>5, <1>6, <1>7, <1>8, <1>9, <1>10, <1>11,
     <1>12, <1>13, <1>14, <1>15, <1>16, <1>17, <1>18, <1>19, <1>20, <1>21,
     <1>22, <1>23, <1>24, <1>25, <1>26, <1>27, <1>28, <1>29, <1>30, <1>31,
     <1>32, <1>33
  DEF Next, FuzzerNext, SignalNext, ServerNext, ChildNext, KernelNext

(* Nobody but the child of this run is alive or has written to the map.     *)
LEMMA CleanMapStep ==
  ASSUME IInv, Next
  PROVE  CleanMap'
<1> USE PidsAssumption DEF IInv, fuzzerVars, serverVars, pipeVars, kernelVars
<1>1. CASE init_forkserver_Fork
  BY <1>1 DEF init_forkserver_Fork, TypeOK, OneChild, Protocol, CleanMap,
     AtRest, NoneAlive, ServerAlive, Alive, FuzzerAlive
<1>2. CASE init_forkserver_Arm
  BY <1>2 DEF init_forkserver_Arm, TypeOK, OneChild, Protocol, CleanMap,
     AtRest, NoneAlive, ServerAlive, Alive, FuzzerAlive
<1>3. CASE init_forkserver_Hello
  BY <1>3 DEF init_forkserver_Hello, ServerEnds, TypeOK, OneChild, Protocol,
     CleanMap, AtRest, NoneAlive, ServerAlive, Alive, FuzzerAlive
<1>4. CASE init_forkserver_Disarm
  BY <1>4 DEF init_forkserver_Disarm, TypeOK, OneChild, Protocol, CleanMap,
     AtRest, NoneAlive, ServerAlive, Alive, FuzzerAlive
<1>5. CASE run_target_Reset
  BY <1>5 DEF run_target_Reset, TypeOK, OneChild, Protocol, CleanMap, AtRest,
     NoneAlive, ServerAlive, Alive, FuzzerAlive
<1>6. CASE run_target_Command
  BY <1>6 DEF run_target_Command, BailOut, ServerEnds, Msg, TypeOK, OneChild,
     Protocol, CleanMap, AtRest, NoneAlive, ServerAlive, Alive, FuzzerAlive
<1>7. CASE run_target_ReadPid
  BY <1>7 DEF run_target_ReadPid, BailOut, ServerEnds, TypeOK, OneChild,
     Protocol, CleanMap, AtRest, NoneAlive, ServerAlive, Alive, FuzzerAlive
<1>8. CASE run_target_Arm
  BY <1>8 DEF run_target_Arm, TypeOK, OneChild, Protocol, CleanMap, AtRest,
     NoneAlive, ServerAlive, Alive, FuzzerAlive
<1>9. CASE run_target_ReadStatus
  BY <1>9 DEF run_target_ReadStatus, BailOut, ServerEnds, TypeOK, OneChild,
     Protocol, CleanMap, AtRest, NoneAlive, ServerAlive, Alive, FuzzerAlive
<1>10. CASE run_target_ClearPid
  BY <1>10 DEF run_target_ClearPid, TypeOK, OneChild, Protocol, CleanMap,
     AtRest, NoneAlive, ServerAlive, Alive, FuzzerAlive
<1>11. CASE run_target_Disarm
  BY <1>11 DEF run_target_Disarm, TypeOK, OneChild, Protocol, CleanMap,
     AtRest, NoneAlive, ServerAlive, Alive, FuzzerAlive
<1>12. CASE run_target_Report
  BY <1>12 DEF run_target_Report, TypeOK, OneChild, Protocol, CleanMap,
     AtRest, NoneAlive, ServerAlive, Alive, FuzzerAlive
<1>13. CASE FuzzerExit
  BY <1>13 DEF FuzzerExit, TypeOK, OneChild, Protocol, CleanMap, AtRest,
     NoneAlive, ServerAlive, Alive, FuzzerAlive
<1>14. CASE FuzzerCrash
  BY <1>14 DEF FuzzerCrash, TypeOK, OneChild, Protocol, CleanMap, AtRest,
     NoneAlive, ServerAlive, Alive, FuzzerAlive
<1>15. CASE handle_timeout
  BY <1>15 DEF handle_timeout, KilledProc, KilledExit, TypeOK, OneChild,
     Protocol, CleanMap, AtRest, NoneAlive, ServerAlive, Alive, FuzzerAlive
<1>16. CASE handle_stop_sig_Child
  BY <1>16 DEF handle_stop_sig_Child, KilledProc, KilledExit, TypeOK,
     OneChild, Protocol, CleanMap, AtRest, NoneAlive, ServerAlive, Alive,
     FuzzerAlive
<1>17. CASE handle_stop_sig_Server
  BY <1>17 DEF handle_stop_sig_Server, TypeOK, OneChild, Protocol, CleanMap,
     AtRest, NoneAlive, ServerAlive, Alive, FuzzerAlive
<1>18. CASE afl_setup
  BY <1>18 DEF afl_setup, TypeOK, OneChild, Protocol, CleanMap, AtRest,
     NoneAlive, ServerAlive, Alive, FuzzerAlive
<1>19. CASE afl_forkserver_Hello
  BY <1>19 DEF afl_forkserver_Hello, TypeOK, OneChild, Protocol, CleanMap,
     AtRest, NoneAlive, ServerAlive, Alive, FuzzerAlive
<1>20. CASE afl_forkserver_Await
  BY <1>20 DEF afl_forkserver_Await, TypeOK, OneChild, Protocol, CleanMap,
     AtRest, NoneAlive, ServerAlive, Alive, FuzzerAlive
<1>21. CASE afl_forkserver_Fork
  BY <1>21 DEF afl_forkserver_Fork, TypeOK, OneChild, Protocol, CleanMap,
     AtRest, NoneAlive, ServerAlive, Alive, FuzzerAlive
<1>22. CASE afl_forkserver_SendPid
  BY <1>22 DEF afl_forkserver_SendPid, TypeOK, OneChild, Protocol, CleanMap,
     AtRest, NoneAlive, ServerAlive, Alive, FuzzerAlive
<1>23. CASE afl_wait_tsl
  BY <1>23 DEF afl_wait_tsl, TypeOK, OneChild, Protocol, CleanMap, AtRest,
     NoneAlive, ServerAlive, Alive, FuzzerAlive
<1>24. CASE afl_forkserver_Reap
  BY <1>24 DEF afl_forkserver_Reap, TypeOK, OneChild, Protocol, CleanMap,
     AtRest, NoneAlive, ServerAlive, Alive, FuzzerAlive
<1>25. CASE afl_forkserver_Relay
  BY <1>25 DEF afl_forkserver_Relay, TypeOK, OneChild, Protocol, CleanMap,
     AtRest, NoneAlive, ServerAlive, Alive, FuzzerAlive
<1>26. CASE ServerDies
  BY <1>26 DEF ServerDies, TypeOK, OneChild, Protocol, CleanMap, AtRest,
     NoneAlive, ServerAlive, Alive, FuzzerAlive
<1>27. ASSUME NEW p \in Pids, ChildStart(p) PROVE CleanMap'
  BY <1>27 DEF ChildStart, TypeOK, OneChild, Protocol, CleanMap, AtRest,
     NoneAlive, ServerAlive, Alive, FuzzerAlive
<1>28. ASSUME NEW p \in Pids, ChildTrace(p) PROVE CleanMap'
  BY <1>28 DEF ChildTrace, TypeOK, OneChild, Protocol, CleanMap, AtRest,
     NoneAlive, ServerAlive, Alive, FuzzerAlive
<1>29. ASSUME NEW p \in Pids, afl_request_tsl(p) PROVE CleanMap'
  BY <1>29 DEF afl_request_tsl, TypeOK, OneChild, Protocol, CleanMap, AtRest,
     NoneAlive, ServerAlive, Alive, FuzzerAlive
<1>30. ASSUME NEW p \in Pids, ChildEnd(p) PROVE CleanMap'
  BY <1>30 DEF ChildEnd, TypeOK, OneChild, Protocol, CleanMap, AtRest,
     NoneAlive, ServerAlive, Alive, FuzzerAlive
<1>31. ASSUME NEW p \in Pids, InitReaps(p) PROVE CleanMap'
  BY <1>31 DEF InitReaps, TypeOK, OneChild, Protocol, CleanMap, AtRest,
     NoneAlive, ServerAlive, Alive, FuzzerAlive
<1>32. ASSUME NEW p \in Pids, OtherProcess(p) PROVE CleanMap'
  BY <1>32 DEF OtherProcess, TypeOK, OneChild, Protocol, CleanMap, AtRest,
     NoneAlive, ServerAlive, Alive, FuzzerAlive
<1>33. CASE afl_wait_tsl_Fails
  BY <1>33 DEF afl_wait_tsl_Fails, TypeOK, OneChild, Protocol, CleanMap, AtRest,
     NoneAlive, ServerAlive, Alive, FuzzerAlive
<1> QED
  BY <1>1, <1>2, <1>3, <1>4, <1>5, <1>6, <1>7, <1>8, <1>9, <1>10, <1>11,
     <1>12, <1>13, <1>14, <1>15, <1>16, <1>17, <1>18, <1>19, <1>20, <1>21,
     <1>22, <1>23, <1>24, <1>25, <1>26, <1>27, <1>28, <1>29, <1>30, <1>31,
     <1>32, <1>33
  DEF Next, FuzzerNext, SignalNext, ServerNext, ChildNext, KernelNext

(* A child killed by a handler leaves one of the flags set.                 *)
LEMMA KillsStep ==
  ASSUME IInv, Next
  PROVE  KillsExplained'
<1> USE PidsAssumption DEF IInv, fuzzerVars, serverVars, pipeVars, kernelVars
<1>1. CASE init_forkserver_Fork
  BY <1>1 DEF init_forkserver_Fork, TypeOK, OneChild, KillsExplained, Alive
<1>2. CASE init_forkserver_Arm
  BY <1>2 DEF init_forkserver_Arm, TypeOK, OneChild, KillsExplained, Alive
<1>3. CASE init_forkserver_Hello
  BY <1>3 DEF init_forkserver_Hello, ServerEnds, TypeOK, OneChild,
     KillsExplained, Alive
<1>4. CASE init_forkserver_Disarm
  BY <1>4 DEF init_forkserver_Disarm, TypeOK, OneChild, KillsExplained, Alive
<1>5. CASE run_target_Reset
  BY <1>5 DEF run_target_Reset, TypeOK, OneChild, KillsExplained, Alive
<1>6. CASE run_target_Command
  BY <1>6 DEF run_target_Command, BailOut, ServerEnds, Msg, TypeOK, OneChild,
     KillsExplained, Alive
<1>7. CASE run_target_ReadPid
  BY <1>7 DEF run_target_ReadPid, BailOut, ServerEnds, TypeOK, OneChild,
     KillsExplained, Alive
<1>8. CASE run_target_Arm
  BY <1>8 DEF run_target_Arm, TypeOK, OneChild, KillsExplained, Alive
<1>9. CASE run_target_ReadStatus
  BY <1>9 DEF run_target_ReadStatus, BailOut, ServerEnds, TypeOK, OneChild,
     KillsExplained, Alive
<1>10. CASE run_target_ClearPid
  BY <1>10 DEF run_target_ClearPid, TypeOK, OneChild, KillsExplained, Alive
<1>11. CASE run_target_Disarm
  BY <1>11 DEF run_target_Disarm, TypeOK, OneChild, KillsExplained, Alive
<1>12. CASE run_target_Report
  BY <1>12 DEF run_target_Report, TypeOK, OneChild, KillsExplained, Alive
<1>13. CASE FuzzerExit
  BY <1>13 DEF FuzzerExit, TypeOK, OneChild, KillsExplained, Alive
<1>14. CASE FuzzerCrash
  BY <1>14 DEF FuzzerCrash, TypeOK, OneChild, KillsExplained, Alive
<1>15. CASE handle_timeout
  BY <1>15 DEF handle_timeout, KilledProc, KilledExit, TypeOK, OneChild,
     KillsExplained, Alive
<1>16. CASE handle_stop_sig_Child
  BY <1>16 DEF handle_stop_sig_Child, KilledProc, KilledExit, TypeOK,
     OneChild, KillsExplained, Alive
<1>17. CASE handle_stop_sig_Server
  BY <1>17 DEF handle_stop_sig_Server, TypeOK, OneChild, KillsExplained, Alive
<1>18. CASE afl_setup
  BY <1>18 DEF afl_setup, TypeOK, OneChild, KillsExplained, Alive
<1>19. CASE afl_forkserver_Hello
  BY <1>19 DEF afl_forkserver_Hello, TypeOK, OneChild, KillsExplained, Alive
<1>20. CASE afl_forkserver_Await
  BY <1>20 DEF afl_forkserver_Await, TypeOK, OneChild, KillsExplained, Alive
<1>21. CASE afl_forkserver_Fork
  BY <1>21 DEF afl_forkserver_Fork, TypeOK, OneChild, KillsExplained, Alive
<1>22. CASE afl_forkserver_SendPid
  BY <1>22 DEF afl_forkserver_SendPid, TypeOK, OneChild, KillsExplained, Alive
<1>23. CASE afl_wait_tsl
  BY <1>23 DEF afl_wait_tsl, TypeOK, OneChild, KillsExplained, Alive
<1>24. CASE afl_forkserver_Reap
  BY <1>24 DEF afl_forkserver_Reap, TypeOK, OneChild, KillsExplained, Alive
<1>25. CASE afl_forkserver_Relay
  BY <1>25 DEF afl_forkserver_Relay, TypeOK, OneChild, KillsExplained, Alive
<1>26. CASE ServerDies
  BY <1>26 DEF ServerDies, TypeOK, OneChild, KillsExplained, Alive
<1>27. ASSUME NEW p \in Pids, ChildStart(p) PROVE KillsExplained'
  BY <1>27 DEF ChildStart, TypeOK, OneChild, KillsExplained, Alive
<1>28. ASSUME NEW p \in Pids, ChildTrace(p) PROVE KillsExplained'
  BY <1>28 DEF ChildTrace, TypeOK, OneChild, KillsExplained, Alive
<1>29. ASSUME NEW p \in Pids, afl_request_tsl(p) PROVE KillsExplained'
  BY <1>29 DEF afl_request_tsl, TypeOK, OneChild, KillsExplained, Alive
<1>30. ASSUME NEW p \in Pids, ChildEnd(p) PROVE KillsExplained'
  BY <1>30 DEF ChildEnd, TypeOK, OneChild, KillsExplained, Alive
<1>31. ASSUME NEW p \in Pids, InitReaps(p) PROVE KillsExplained'
  BY <1>31 DEF InitReaps, TypeOK, OneChild, KillsExplained, Alive
<1>32. ASSUME NEW p \in Pids, OtherProcess(p) PROVE KillsExplained'
  BY <1>32 DEF OtherProcess, TypeOK, OneChild, KillsExplained, Alive
<1>33. CASE afl_wait_tsl_Fails
  BY <1>33 DEF afl_wait_tsl_Fails, TypeOK, OneChild, KillsExplained, Alive
<1> QED
  BY <1>1, <1>2, <1>3, <1>4, <1>5, <1>6, <1>7, <1>8, <1>9, <1>10, <1>11,
     <1>12, <1>13, <1>14, <1>15, <1>16, <1>17, <1>18, <1>19, <1>20, <1>21,
     <1>22, <1>23, <1>24, <1>25, <1>26, <1>27, <1>28, <1>29, <1>30, <1>31,
     <1>32, <1>33
  DEF Next, FuzzerNext, SignalNext, ServerNext, ChildNext, KernelNext

-----------------------------------------------------------------------------
(* The initial state satisfies the inductive invariant.                     *)
LEMMA InitIInv == Init => IInv
<1> SUFFICES ASSUME Init PROVE IInv
  OBVIOUS
<1> USE PidsAssumption, TslCapAssumption DEF Init
<1>1. TypeOK
  <2>1. FlagsOK
    BY Zenon DEF FlagsOK
  <2> QED
    BY <2>1 DEF TypeOK, FuzzerPcs, ServerPcs, Statuses, Faults, ProcStates
<1>2. OneChild
  BY DEF OneChild, ServerAlive
<1>3. Protocol
  BY DEF Protocol
<1>4. CleanMap
  BY DEF CleanMap, NoneAlive, Alive
<1>5. KillsExplained
  BY DEF KillsExplained
<1> QED
  BY <1>1, <1>2, <1>3, <1>4, <1>5 DEF IInv

(* A step that changes no variable changes no part of the invariant.        *)
LEMMA StutterIInv ==
  ASSUME IInv, UNCHANGED vars
  PROVE  IInv'
BY DEF vars, fuzzerVars, serverVars, pipeVars, kernelVars, IInv, TypeOK, FlagsOK,
       OneChild, Protocol, CleanMap, KillsExplained, AtRest, NoneAlive, Alive,
       ServerAlive, HelloWord, PidWord, StatusWord

(* The invariant is inductive: it holds in every reachable state.           *)
THEOREM InductiveInvariant == Spec => []IInv
<1>1. ASSUME IInv, [Next]_vars PROVE IInv'
  <2>1. CASE Next
    <3>1. FlagsOK'
      BY <1>1, <2>1, FlagsStep DEF IInv, TypeOK
    <3> QED
      BY <1>1, <2>1, <3>1, TypeStep, OneChildStep, ProtocolStep, CleanMapStep,
         KillsStep DEF IInv
  <2>2. CASE UNCHANGED vars
    BY <1>1, <2>2, StutterIInv
  <2> QED
    BY <1>1, <2>1, <2>2
<1> QED
  BY <1>1, InitIInv, PTL DEF Spec

(* Type correctness of the three programs, the pipes and the process table. *)
THEOREM TypeCorrectness == Spec => []TypeOK
<1>1. IInv => TypeOK
  BY DEF IInv
<1> QED
  BY <1>1, InductiveInvariant, PTL

(* run_target()'s two reads never get out of step with the fork server.     *)
THEOREM PipesStayInSync == Spec => []PipeInSync
<1>1. IInv => PipeInSync
  BY SeqFacts DEF IInv, Protocol, AtRest, PipeInSync, HelloWord, PidWord,
     StatusWord, Msg
<1> QED
  BY <1>1, InductiveInvariant, PTL

(* No other run's child is alive, or has left a mark, when the map is read. *)
THEOREM MapIsolation == Spec => []TraceIsolation
<1>1. IInv => TraceIsolation
  BY PidsAssumption DEF IInv, Protocol, CleanMap, TraceIsolation, NoneAlive
<1> QED
  BY <1>1, InductiveInvariant, PTL

(* The status that is judged is that of the child of this very command.     *)
THEOREM StatusOwnership == Spec => []StatusIsOwn
<1>1. IInv => StatusIsOwn
  BY DEF IInv, Protocol, StatusIsOwn
<1> QED
  BY <1>1, InductiveInvariant, PTL

(* A child afl-fuzz killed itself is never reported as a crash.             *)
THEOREM KillsAreNoCrashes == Spec => NoFalseCrash
<1> DEFINE A == fpc = "report" /\ fpc' = "idle" /\ verdict' = "FAULT_CRASH"
                  => exitst[ran] # "kill"
<1>1. ASSUME IInv, [Next]_vars PROVE [A]_vars
  <2> SUFFICES ASSUME Next, fpc = "report", fpc' = "idle", exitst[ran] = "kill"
               PROVE  verdict' # "FAULT_CRASH"
    BY <1>1
  <2>1. ran \in Pids /\ ~Alive(ran) /\ status = "kill"
    BY <1>1 DEF IInv, Protocol, NoneAlive
  <2>2. child_timed_out \/ stop_soon
    BY <1>1, <2>1, PidsAssumption DEF IInv, KillsExplained
  <2>3. Fault # "FAULT_CRASH"
    BY <2>1, <2>2 DEF Fault, Signaled, NonZeroExit
  <2>4. run_target_Report
    BY DEF Next, FuzzerNext, SignalNext, ServerNext, ChildNext, KernelNext,
           fuzzerVars, init_forkserver_Fork, init_forkserver_Arm,
           init_forkserver_Hello, init_forkserver_Disarm, run_target_Reset,
           run_target_Command, run_target_ReadPid, run_target_Arm,
           run_target_ReadStatus, run_target_ClearPid, run_target_Disarm,
           FuzzerExit, FuzzerCrash, handle_timeout, handle_stop_sig_Child,
           handle_stop_sig_Server, afl_setup, afl_forkserver_Hello,
           afl_forkserver_Await, afl_forkserver_Fork, afl_forkserver_SendPid,
           afl_wait_tsl, afl_wait_tsl_Fails, afl_forkserver_Reap,
           afl_forkserver_Relay, ServerDies, ChildStart, ChildTrace, afl_request_tsl, ChildEnd, InitReaps,
           OtherProcess
  <2> QED
    BY <2>3, <2>4 DEF run_target_Report
<1>2. Spec => [][A]_vars
  BY <1>1, InductiveInvariant, PTL DEF Spec
<1> QED
  BY <1>2 DEF NoFalseCrash

-----------------------------------------------------------------------------
(* A step that keeps the phase of afl-fuzz and the state of this run's      *)
(* child is no step of the abstract runner.                                 *)
LEMMA RunnerStutters ==
  ASSUME Phase' = Phase, RanState' = RanState, RanHow' = RanHow,
         UNCHANGED <<child_timed_out, stop_soon, verdict>>
  PROVE  UNCHANGED Runner!vars
BY DEF Runner!vars

(* If the child of this run is left alone, its abstract image is too.       *)
LEMMA RanFrame ==
  ASSUME UNCHANGED ran,
         ran # 0 => (Alive(ran)' <=> Alive(ran)) /\ exitst'[ran] = exitst[ran]
  PROVE  RanState' = RanState /\ RanHow' = RanHow
BY DEF RanState, RanHow, Alive

(* kill(): the victim, if alive, ends as "kill"; nothing else changes.      *)
LEMMA KillEffect ==
  ASSUME TypeOK, ran \in Pids, NEW v \in Pids,
         proc' = KilledProc(proc, v), exitst' = KilledExit(v), UNCHANGED ran
  PROVE  \/ RanState = "alive" /\ RanState' = "ended" /\ RanHow' = "kill"
         \/ RanState' = RanState /\ RanHow' = RanHow
<1>1. CASE v = ran /\ Alive(ran)
  <2>1. proc'[ran] = "zombie" /\ exitst'[ran] = "kill"
    BY <1>1 DEF TypeOK, KilledProc, KilledExit, Alive
  <2> QED
    BY <1>1, <2>1, PidsAssumption DEF RanState, RanHow, Alive
<1>2. CASE ~(v = ran /\ Alive(ran))
  <2>1. proc'[ran] \in {"born", "run"} <=> proc[ran] \in {"born", "run"}
    BY <1>2 DEF TypeOK, KilledProc, Alive
  <2>2. exitst'[ran] = exitst[ran]
    BY <1>2 DEF TypeOK, KilledExit, Alive
  <2> QED
    BY <2>1, <2>2, RanFrame DEF Alive
<1> QED
  BY <1>1, <1>2

(* Every step of the system is a step of the abstract runner or none.       *)
LEMMA RunnerStep ==
  ASSUME IInv, Next
  PROVE  Runner!Next \/ UNCHANGED Runner!vars
<1> USE PidsAssumption DEF IInv, fuzzerVars, serverVars, pipeVars, kernelVars
<1>1. CASE init_forkserver_Fork
  <2>1. Phase' = Phase
    BY <1>1 DEF init_forkserver_Fork, Phase
  <2>2. RanState' = RanState /\ RanHow' = RanHow
    BY <1>1, RanFrame DEF init_forkserver_Fork, Alive, TypeOK
  <2> QED
    BY <1>1, <2>1, <2>2, RunnerStutters DEF init_forkserver_Fork
<1>2. CASE init_forkserver_Arm
  <2>1. Phase' = Phase
    BY <1>2 DEF init_forkserver_Arm, Phase
  <2>2. RanState' = RanState /\ RanHow' = RanHow
    BY <1>2, RanFrame DEF init_forkserver_Arm, Alive, TypeOK
  <2> QED
    BY <1>2, <2>1, <2>2, RunnerStutters DEF init_forkserver_Arm
<1>3. CASE init_forkserver_Hello
  <2>1. Phase' = Phase
    BY <1>3 DEF init_forkserver_Hello, Phase
  <2>2. RanState' = RanState /\ RanHow' = RanHow
    BY <1>3, RanFrame DEF init_forkserver_Hello, Alive, TypeOK
  <2> QED
    BY <1>3, <2>1, <2>2, RunnerStutters DEF init_forkserver_Hello
<1>4. CASE init_forkserver_Disarm
  <2>1. Phase = "starting" /\ Phase' \in {"idle", "gone"}
    BY <1>4 DEF init_forkserver_Disarm, Phase
  <2>2. RanState' = RanState /\ RanHow' = RanHow
    BY <1>4, RanFrame DEF init_forkserver_Disarm, Alive
  <2> QED
    BY <1>4, <2>1, <2>2 DEF init_forkserver_Disarm, Runner!Next, Runner!Ready
<1>5. CASE run_target_Reset
  <2>1. Phase = "idle" /\ Phase' = "running"
    BY <1>5 DEF run_target_Reset, Phase
  <2>2. RanState' = "none" /\ RanHow' = "ok"
    BY <1>5 DEF run_target_Reset, RanState, RanHow
  <2> QED
    BY <1>5, <2>1, <2>2 DEF run_target_Reset, Runner!Next, Runner!Begin
<1>6. CASE run_target_Command
  <2>1. RanState' = RanState /\ RanHow' = RanHow
    BY <1>6, RanFrame DEF run_target_Command, Alive
  <2>2. CASE Phase' = Phase
    BY <1>6, <2>1, <2>2, RunnerStutters DEF run_target_Command
  <2>3. CASE fpc' \in {"idle", "gone"}
    <3>1. /\ Phase = "running" /\ Phase' \in {"idle", "gone"}
          /\ Phase' = "idle" => stop_soon
      BY <1>6, <2>3 DEF run_target_Command, BailOut, Phase
    <3> QED
      BY <1>6, <2>1, <3>1 DEF run_target_Command, Runner!Next, Runner!GiveUp
  <2> QED
    BY <1>6, <2>2, <2>3 DEF run_target_Command, BailOut, Phase
<1>7. CASE run_target_ReadPid
  <2>1. RanState' = RanState /\ RanHow' = RanHow
    BY <1>7, RanFrame DEF run_target_ReadPid, Alive
  <2>2. CASE Phase' = Phase
    BY <1>7, <2>1, <2>2, RunnerStutters DEF run_target_ReadPid
  <2>3. CASE fpc' \in {"idle", "gone"}
    <3>1. /\ Phase = "running" /\ Phase' \in {"idle", "gone"}
          /\ Phase' = "idle" => stop_soon
      BY <1>7, <2>3, SeqFacts DEF run_target_ReadPid, BailOut, Phase
    <3> QED
      BY <1>7, <2>1, <3>1 DEF run_target_ReadPid, Runner!Next, Runner!GiveUp
  <2> QED
    BY <1>7, <2>2, <2>3 DEF run_target_ReadPid, BailOut, Phase
<1>8. CASE run_target_Arm
  <2>1. Phase' = Phase
    BY <1>8 DEF run_target_Arm, Phase
  <2>2. RanState' = RanState /\ RanHow' = RanHow
    BY <1>8, RanFrame DEF run_target_Arm, Alive, TypeOK
  <2> QED
    BY <1>8, <2>1, <2>2, RunnerStutters DEF run_target_Arm
<1>9. CASE run_target_ReadStatus
  <2>1. RanState' = RanState /\ RanHow' = RanHow
    BY <1>9, RanFrame DEF run_target_ReadStatus, Alive
  <2>2. CASE Phase' = Phase
    BY <1>9, <2>1, <2>2, RunnerStutters DEF run_target_ReadStatus
  <2>3. CASE fpc' \in {"idle", "gone"}
    <3>1. /\ Phase = "running" /\ Phase' \in {"idle", "gone"}
          /\ Phase' = "idle" => stop_soon
      BY <1>9, <2>3 DEF run_target_ReadStatus, BailOut, Phase
    <3> QED
      BY <1>9, <2>1, <3>1 DEF run_target_ReadStatus, Runner!Next,
         Runner!GiveUp
  <2> QED
    BY <1>9, <2>2, <2>3 DEF run_target_ReadStatus, BailOut, Phase
<1>10. CASE run_target_ClearPid
  <2>1. Phase' = Phase
    BY <1>10 DEF run_target_ClearPid, Phase
  <2>2. RanState' = RanState /\ RanHow' = RanHow
    BY <1>10, RanFrame DEF run_target_ClearPid, Alive, TypeOK
  <2> QED
    BY <1>10, <2>1, <2>2, RunnerStutters DEF run_target_ClearPid
<1>11. CASE run_target_Disarm
  <2>1. Phase' = Phase
    BY <1>11 DEF run_target_Disarm, Phase
  <2>2. RanState' = RanState /\ RanHow' = RanHow
    BY <1>11, RanFrame DEF run_target_Disarm, Alive, TypeOK
  <2> QED
    BY <1>11, <2>1, <2>2, RunnerStutters DEF run_target_Disarm
<1>12. CASE run_target_Report
  <2>1. Phase = "running" /\ Phase' = "idle"
    BY <1>12 DEF run_target_Report, Phase
  <2>2. RanState' = RanState /\ RanHow' = RanHow
    BY <1>12, RanFrame DEF run_target_Report, Alive
  <2>3. RanState = "ended" /\ RanHow = status /\ ran # 0 /\ ~Alive(ran)
    BY <1>12 DEF run_target_Report, Protocol, NoneAlive, RanState, RanHow
  <2>4. status = "kill" => child_timed_out \/ stop_soon
    BY <1>12, <2>3 DEF run_target_Report, Protocol, KillsExplained
  <2>5. Runner!Deserves(RanHow, verdict')
    BY <1>12, <2>3, <2>4 DEF run_target_Report, Fault, Signaled, NonZeroExit,
       Runner!Deserves, Runner!Failure, TypeOK, Statuses
  <2> QED
    BY <1>12, <2>1, <2>2, <2>3, <2>5 DEF run_target_Report, Runner!Next, Runner!Deliver
<1>13. CASE FuzzerExit
  <2>1. Phase' = "gone"
    BY <1>13 DEF FuzzerExit, Phase
  <2>2. RanState' = RanState /\ RanHow' = RanHow
    BY <1>13, RanFrame DEF FuzzerExit, Alive
  <2> QED
    BY <1>13, <2>1, <2>2 DEF FuzzerExit, Runner!Next, Runner!GiveUp
<1>14. CASE FuzzerCrash
  <2>1. Phase' = "gone"
    BY <1>14 DEF FuzzerCrash, Phase
  <2>2. RanState' = RanState /\ RanHow' = RanHow
    BY <1>14, RanFrame DEF FuzzerCrash, Alive
  <2> QED
    BY <1>14, <2>1, <2>2 DEF FuzzerCrash, Runner!Next, Runner!GiveUp
<1>15. CASE handle_timeout
  <2>1. Phase' = Phase
    BY <1>15 DEF handle_timeout, Phase
  <2>2. CASE child_pid > 0
    <3>1. child_pid \in Pids /\ proc' = KilledProc(proc, child_pid)
          /\ exitst' = KilledExit(child_pid) /\ child_timed_out' = TRUE
      BY <1>15, <2>2 DEF handle_timeout, TypeOK
    <3>2. CASE ran = 0
      <4>1. RanState' = RanState /\ RanHow' = RanHow
        BY <1>15, <3>2, RanFrame DEF handle_timeout
      <4> QED
        BY <1>15, <2>1, <3>1, <4>1 DEF handle_timeout, Runner!Next, Runner!Timeout
    <3>3. CASE ran \in Pids
      <4>1. \/ RanState = "alive" /\ RanState' = "ended" /\ RanHow' = "kill"
            \/ RanState' = RanState /\ RanHow' = RanHow
        BY <1>15, <3>1, <3>3, KillEffect DEF handle_timeout
      <4> QED
        BY <1>15, <2>1, <3>1, <4>1 DEF handle_timeout, Runner!Next, Runner!Timeout
    <3> QED
      BY <3>2, <3>3 DEF TypeOK
  <2>3. CASE ~(child_pid > 0)
    <3>1. RanState' = RanState /\ RanHow' = RanHow
      BY <1>15, <2>3, RanFrame DEF handle_timeout, Alive
    <3>2. CASE child_timed_out' = TRUE
      BY <1>15, <2>1, <3>1, <3>2 DEF handle_timeout, Runner!Next, Runner!Timeout
    <3>3. CASE UNCHANGED child_timed_out
      BY <1>15, <2>1, <3>1, <3>3, RunnerStutters DEF handle_timeout
    <3> QED
      BY <1>15, <2>3, <3>2, <3>3 DEF handle_timeout
  <2> QED
    BY <2>2, <2>3
<1>16. CASE handle_stop_sig_Child
  <2>1. Phase' = Phase
    BY <1>16 DEF handle_stop_sig_Child, Phase
  <2>2. \/ RanState = "alive" /\ RanState' = "ended" /\ RanHow' = "kill"
        \/ RanState' = RanState /\ RanHow' = RanHow
    <3>1. CASE child_pid > 0 /\ ran \in Pids
      <4>1. child_pid \in Pids
        BY <3>1 DEF TypeOK
      <4> QED
        BY <1>16, <3>1, <4>1, KillEffect DEF handle_stop_sig_Child
    <3>2. CASE ~(child_pid > 0) \/ ran = 0
      BY <1>16, <3>2, RanFrame DEF handle_stop_sig_Child, Alive
    <3> QED
      BY <3>1, <3>2 DEF TypeOK
  <2> QED
    BY <1>16, <2>1, <2>2 DEF handle_stop_sig_Child, Runner!Next, Runner!Stop
<1>17. CASE handle_stop_sig_Server
  <2>1. Phase' = Phase
    BY <1>17 DEF handle_stop_sig_Server, Phase
  <2>2. RanState' = RanState /\ RanHow' = RanHow
    BY <1>17, RanFrame DEF handle_stop_sig_Server, Alive, TypeOK
  <2> QED
    BY <1>17, <2>1, <2>2, RunnerStutters DEF handle_stop_sig_Server
<1>18. CASE afl_setup
  <2>1. Phase' = Phase
    BY <1>18 DEF afl_setup, Phase
  <2>2. RanState' = RanState /\ RanHow' = RanHow
    BY <1>18, RanFrame DEF afl_setup, Alive, TypeOK
  <2> QED
    BY <1>18, <2>1, <2>2, RunnerStutters DEF afl_setup
<1>19. CASE afl_forkserver_Hello
  <2>1. Phase' = Phase
    BY <1>19 DEF afl_forkserver_Hello, Phase
  <2>2. RanState' = RanState /\ RanHow' = RanHow
    BY <1>19, RanFrame DEF afl_forkserver_Hello, Alive, TypeOK
  <2> QED
    BY <1>19, <2>1, <2>2, RunnerStutters DEF afl_forkserver_Hello
<1>20. CASE afl_forkserver_Await
  <2>1. Phase' = Phase
    BY <1>20 DEF afl_forkserver_Await, Phase
  <2>2. RanState' = RanState /\ RanHow' = RanHow
    BY <1>20, RanFrame DEF afl_forkserver_Await, Alive, TypeOK
  <2> QED
    BY <1>20, <2>1, <2>2, RunnerStutters DEF afl_forkserver_Await
<1>21. CASE afl_forkserver_Fork
  <2>1. CASE ran' = ran
    <3>1. Phase' = Phase
      BY <1>21 DEF afl_forkserver_Fork, Phase
    <3>2. RanState' = RanState /\ RanHow' = RanHow
      BY <1>21, <2>1, RanFrame DEF afl_forkserver_Fork, OneChild, Alive
    <3> QED
      BY <1>21, <3>1, <3>2, RunnerStutters DEF afl_forkserver_Fork
  <2>2. CASE \E p \in Pids : ran' = p /\ proc' = [proc EXCEPT ![p] = "born"]
    <3>1. Phase' = Phase /\ Phase \in {"running", "gone"}
      BY <1>21 DEF afl_forkserver_Fork, OneChild, Phase
    <3>2. RanState = "none" /\ RanHow = "ok"
      BY <1>21 DEF afl_forkserver_Fork, OneChild, RanState, RanHow
    <3>3. RanState' = "alive" /\ RanHow' = "ok"
      BY <1>21, <2>2 DEF afl_forkserver_Fork, RanState, RanHow, Alive, TypeOK
    <3> QED
      BY <1>21, <3>1, <3>2, <3>3 DEF afl_forkserver_Fork, Runner!Next, Runner!Launch
  <2> QED
    BY <1>21, <2>1, <2>2 DEF afl_forkserver_Fork
<1>22. CASE afl_forkserver_SendPid
  <2>1. Phase' = Phase
    BY <1>22 DEF afl_forkserver_SendPid, Phase
  <2>2. RanState' = RanState /\ RanHow' = RanHow
    BY <1>22, RanFrame DEF afl_forkserver_SendPid, Alive, TypeOK
  <2> QED
    BY <1>22, <2>1, <2>2, RunnerStutters DEF afl_forkserver_SendPid
<1>23. CASE afl_wait_tsl
  <2>1. Phase' = Phase
    BY <1>23 DEF afl_wait_tsl, Phase
  <2>2. RanState' = RanState /\ RanHow' = RanHow
    BY <1>23, RanFrame DEF afl_wait_tsl, Alive, TypeOK
  <2> QED
    BY <1>23, <2>1, <2>2, RunnerStutters DEF afl_wait_tsl
<1>24. CASE afl_forkserver_Reap
  <2>1. Phase' = Phase
    BY <1>24 DEF afl_forkserver_Reap, Phase
  <2>2. RanState' = RanState /\ RanHow' = RanHow
    BY <1>24, RanFrame DEF afl_forkserver_Reap, Alive, TypeOK, OneChild
  <2> QED
    BY <1>24, <2>1, <2>2, RunnerStutters DEF afl_forkserver_Reap
<1>25. CASE afl_forkserver_Relay
  <2>1. Phase' = Phase
    BY <1>25 DEF afl_forkserver_Relay, Phase
  <2>2. RanState' = RanState /\ RanHow' = RanHow
    BY <1>25, RanFrame DEF afl_forkserver_Relay, Alive, TypeOK
  <2> QED
    BY <1>25, <2>1, <2>2, RunnerStutters DEF afl_forkserver_Relay
<1>26. CASE ServerDies
  <2>1. Phase' = Phase
    BY <1>26 DEF ServerDies, Phase
  <2>2. RanState' = RanState /\ RanHow' = RanHow
    BY <1>26, RanFrame DEF ServerDies, Alive, TypeOK
  <2> QED
    BY <1>26, <2>1, <2>2, RunnerStutters DEF ServerDies
<1>27. ASSUME NEW p \in Pids, ChildStart(p)
      PROVE  Runner!Next \/ UNCHANGED Runner!vars
  <2>1. Phase' = Phase
    BY <1>27 DEF ChildStart, Phase
  <2>2. RanState' = RanState /\ RanHow' = RanHow
    BY <1>27, RanFrame DEF ChildStart, Alive, TypeOK
  <2> QED
    BY <1>27, <2>1, <2>2, RunnerStutters DEF ChildStart
<1>28. ASSUME NEW p \in Pids, ChildTrace(p)
      PROVE  Runner!Next \/ UNCHANGED Runner!vars
  <2>1. Phase' = Phase
    BY <1>28 DEF ChildTrace, Phase
  <2>2. RanState' = RanState /\ RanHow' = RanHow
    BY <1>28, RanFrame DEF ChildTrace, Alive, TypeOK
  <2> QED
    BY <1>28, <2>1, <2>2, RunnerStutters DEF ChildTrace
<1>29. ASSUME NEW p \in Pids, afl_request_tsl(p)
      PROVE  Runner!Next \/ UNCHANGED Runner!vars
  <2>1. Phase' = Phase
    BY <1>29 DEF afl_request_tsl, Phase
  <2>2. RanState' = RanState /\ RanHow' = RanHow
    BY <1>29, RanFrame DEF afl_request_tsl, Alive, TypeOK
  <2> QED
    BY <1>29, <2>1, <2>2, RunnerStutters DEF afl_request_tsl
<1>30. ASSUME NEW p \in Pids, ChildEnd(p)
      PROVE  Runner!Next \/ UNCHANGED Runner!vars
  <2>1. Phase' = Phase
    BY <1>30 DEF ChildEnd, Phase
  <2>2. CASE p = ran
    <3>1. RanState = "alive" /\ RanState' = "ended" /\ RanHow' \in Statuses
      BY <1>30, <2>2 DEF ChildEnd, RanState, RanHow, Alive, TypeOK
    <3> QED
      BY <1>30, <2>1, <3>1 DEF ChildEnd, Runner!Next, Runner!End, Runner!Ends,
         Statuses
  <2>3. CASE p # ran
    <3>1. RanState' = RanState /\ RanHow' = RanHow
      BY <1>30, <2>3, RanFrame DEF ChildEnd, Alive, TypeOK
    <3> QED
      BY <1>30, <2>1, <3>1, RunnerStutters DEF ChildEnd
  <2> QED
    BY <2>2, <2>3
<1>31. ASSUME NEW p \in Pids, InitReaps(p)
      PROVE  Runner!Next \/ UNCHANGED Runner!vars
  <2>1. Phase' = Phase
    BY <1>31 DEF InitReaps, Phase
  <2>2. RanState' = RanState /\ RanHow' = RanHow
    BY <1>31, RanFrame DEF InitReaps, Alive, TypeOK, OneChild
  <2> QED
    BY <1>31, <2>1, <2>2, RunnerStutters DEF InitReaps
<1>32. ASSUME NEW p \in Pids, OtherProcess(p)
      PROVE  Runner!Next \/ UNCHANGED Runner!vars
  <2>1. Phase' = Phase
    BY <1>32 DEF OtherProcess, Phase
  <2>2. RanState' = RanState /\ RanHow' = RanHow
    BY <1>32, RanFrame DEF OtherProcess, Alive, TypeOK
  <2> QED
    BY <1>32, <2>1, <2>2, RunnerStutters DEF OtherProcess
<1>33. CASE afl_wait_tsl_Fails
  <2>1. Phase' = Phase
    BY <1>33 DEF afl_wait_tsl_Fails, Phase
  <2>2. RanState' = RanState /\ RanHow' = RanHow
    BY <1>33, RanFrame DEF afl_wait_tsl_Fails, Alive, TypeOK
  <2> QED
    BY <1>33, <2>1, <2>2, RunnerStutters DEF afl_wait_tsl_Fails
<1> QED
  BY <1>1, <1>2, <1>3, <1>4, <1>5, <1>6, <1>7, <1>8, <1>9, <1>10, <1>11,
     <1>12, <1>13, <1>14, <1>15, <1>16, <1>17, <1>18, <1>19, <1>20, <1>21,
     <1>22, <1>23, <1>24, <1>25, <1>26, <1>27, <1>28, <1>29, <1>30, <1>31,
     <1>32, <1>33
  DEF Next, FuzzerNext, SignalNext, ServerNext, ChildNext, KernelNext

(* run_target() and the fork server implement the abstract test runner: a   *)
(* result is delivered only for a child that has ended, and deserves it.    *)
THEOREM Refinement == Spec => RefinesTestRunner
<1>1. Init => Runner!Init
  BY DEF Init, Runner!Init, Phase, RanState, RanHow
<1>2. ASSUME IInv, [Next]_vars PROVE [Runner!Next]_(Runner!vars)
  <2>1. CASE Next
    BY <1>2, <2>1, RunnerStep
  <2>2. CASE UNCHANGED vars
    <3>1. RanState' = RanState /\ RanHow' = RanHow
      BY <2>2 DEF vars, kernelVars, RanState, RanHow, Alive
    <3>2. Phase' = Phase
      BY <2>2 DEF vars, fuzzerVars, Phase
    <3> QED
      BY <2>2, <3>1, <3>2, RunnerStutters DEF vars, fuzzerVars
  <2> QED
    BY <1>2, <2>1, <2>2
<1> QED
  BY <1>1, <1>2, InductiveInvariant, PTL
     DEF Spec, RefinesTestRunner, Runner!Spec
=============================================================================
