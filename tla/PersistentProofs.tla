-------------------------- MODULE PersistentProofs --------------------------
(***************************************************************************)
(* Proofs about the fork server of persistent mode, for any set of process  *)
(* ids and any argument of __AFL_LOOP.  The invariant of ForkServer does    *)
(* not hold here: a child of an earlier command may be alive, asleep, and   *)
(* afl-fuzz may have killed it since.  What replaces it is an account of    *)
(* who knows of that kill: first child_timed_out, then prev_timed_out, then *)
(* the word in the control pipe, then was_killed.                           *)
(***************************************************************************)
EXTENDS Persistent, ForkServerProofs

PStatuses == Statuses \cup {"stop"}
PServerPcs == {"none", "boot", "sayhello", "wait", "order", "sendpid", "reap", "relay",
               "solo", "dead"}

\* The types the proof needs.
PTypeOK ==
  /\ FlagsOK
  /\ fpc \in FuzzerPcs /\ spc \in PServerPcs
  /\ child_pid \in Pids \cup {-1, 0}
  /\ status \in PStatuses /\ srv_status \in PStatuses /\ verdict \in Faults
  /\ ctl \in Seq(CtlWords)
  /\ srv_child \in Pids \cup {0} /\ ran \in Pids \cup {0}
  /\ proc \in [Pids -> ProcStates] /\ exitst \in [Pids -> Statuses]
  /\ halted \subseteq Pids
  /\ child_stopped \in BOOLEAN /\ was_killed \in BOOLEAN

\* A status that does justice to the child of this run: one that ended, or one
\* that stopped, or stopped and was killed by afl-fuzz before the server looked.
Fits(s) ==
  IF ran \in halted
  THEN s = "stop" \/ (s = "kill" /\ (child_timed_out \/ stop_soon))
  ELSE s = exitst[ran]

\* What the server knows of its children.
ServerSide ==
  /\ ServerAlive =>
       /\ \A p \in Pids : Alive(p) =>
            p = srv_child /\ (child_stopped \/ spc \in {"sendpid", "reap"})
       /\ child_stopped => srv_child \in Pids /\ srv_child \in halted
       /\ ran # 0 => ran = srv_child
  /\ spc \in {"none", "boot", "sayhello", "sendpid", "reap"} => ~child_stopped
  /\ spc \in {"sendpid", "reap", "relay"} => srv_child \in Pids /\ ran = srv_child
  /\ spc = "relay" /\ FuzzerAlive => Fits(srv_status)
  /\ spc = "order" \/ (spc = "wait" /\ ctl # <<>>) =>
       ran = 0 /\ fpc \in {"readpid", "gone"}

\* k says truly whether afl-fuzz has killed the child that is asleep.
Knows(k) == child_stopped => (k <=> ~Alive(srv_child))

\* Where the knowledge of the kill is, on its way from the signal handler to the
\* server.
KillKnown ==
  /\ spc = "order" => Knows(was_killed)
  /\ spc = "wait" /\ ctl # <<>> => Knows(Head(ctl).val)
  /\ fpc \in {"idle", "command"} /\ ServerAlive /\ ~in_stop => Knows(prev_timed_out)
  /\ /\ fpc \in {"readpid", "arm", "readstatus", "clear", "disarm", "report"}
     /\ spc = "relay" \/ (spc = "wait" /\ ctl = <<>>)
     /\ ~in_stop
     => Knows(child_timed_out)
  /\ spc \in {"sendpid", "reap"} /\ FuzzerAlive /\ child_timed_out => ~Alive(srv_child)

\* Which process the handlers of afl-fuzz would kill.
PidHeld ==
  /\ fpc \in {"arm", "readstatus", "clear"} => child_pid = ran
  /\ spc # "dead" /\ fpc \notin {"arm", "readstatus", "clear", "gone"} =>
       child_pid \notin Pids
  /\ fpc \in {"command", "readpid"} /\ ServerAlive => ~child_timed_out

\* Where the server can be, and what is in the pipes, while afl-fuzz is there.
PProtocol ==
  /\ fpc = "spawn" => spc = "none" /\ st = <<>> /\ ctl = <<>>
  /\ fpc \in {"armhello", "hello"} =>
       /\ ctl = <<>>
       /\ \/ spc \in {"boot", "sayhello", "dead"} /\ st = <<>>
          \/ spc \in {"wait", "dead"} /\ st = <<HelloWord>>
  /\ fpc \in {"up", "nohello", "idle", "command", "clear", "disarm", "report"} =>
       AtRest
  /\ fpc = "command" => ran = 0
  /\ fpc \in {"spawn", "armhello", "hello", "up", "nohello"} =>
       ran = 0 /\ ~child_stopped /\ NoneAlive
  /\ fpc = "readpid" =>
       \/ spc = "dead" /\ st = <<>>
       \/ spc = "wait" /\ ctl # <<>> /\ Tail(ctl) = <<>> /\ st = <<>>
       \/ spc \in {"order", "sendpid"} /\ ctl = <<>> /\ st = <<>>
       \/ ran \in Pids /\ ctl = <<>> /\ st = <<PidWord>>
            /\ spc \in {"reap", "relay", "dead"}
       \/ /\ ran \in Pids /\ ctl = <<>> /\ spc \in {"wait", "dead"} /\ ~Running(ran)
          /\ \E s \in PStatuses : Fits(s) /\ st = <<PidWord, Msg("status", s)>>
  /\ fpc \in {"arm", "readstatus"} =>
       /\ ran \in Pids /\ ctl = <<>>
       /\ \/ spc \in {"reap", "relay", "dead"} /\ st = <<>>
          \/ /\ spc \in {"wait", "dead"} /\ ~Running(ran)
             /\ \E s \in PStatuses : Fits(s) /\ st = <<Msg("status", s)>>
  /\ fpc \in {"clear", "disarm", "report"} =>
       ran \in Pids /\ Fits(status) /\ ~Running(ran)

\* A child killed by afl-fuzz has one of the two flags to show for it, and one
\* that was killed in its sleep, nobody else killed.
PKillsExplained ==
  /\ ran # 0 /\ ~Alive(ran) /\ exitst[ran] = "kill" => child_timed_out \/ stop_soon
  /\ spc \in {"sendpid", "reap"} /\ ran \in halted /\ ~Alive(ran) => exitst[ran] = "kill"

\* The inductive invariant.
PInv ==
  PTypeOK /\ ServerSide /\ KillKnown /\ PidHeld /\ PProtocol /\ PKillsExplained

-----------------------------------------------------------------------------
(* The server knows its child: nobody else is alive, it sleeps exactly when   *)
(* the flag is set, and the status to relay does it justice.                  *)
LEMMA ServerSideStep ==
  ASSUME PInv, PNext
  PROVE  ServerSide'
<1> USE PidsAssumption DEF PInv, fuzzerVars, serverVars, pipeVars, kernelVars, vars,
        loopVars
<1>1. CASE init_forkserver_Fork /\ UNCHANGED loopVars
  BY <1>1 DEF init_forkserver_Fork, PTypeOK, ServerSide, PProtocol, AtRest,
     ServerAlive, FuzzerAlive, Running, Asleep, Alive, Fits, NoneAlive
<1>2. CASE init_forkserver_Arm /\ UNCHANGED loopVars
  BY <1>2 DEF init_forkserver_Arm, PTypeOK, ServerSide, PProtocol, AtRest,
     ServerAlive, FuzzerAlive, Running, Asleep, Alive, Fits
<1>3. CASE init_forkserver_Hello /\ UNCHANGED loopVars
  BY <1>3 DEF init_forkserver_Hello, ServerEnds, PTypeOK, ServerSide, PProtocol,
     AtRest, ServerAlive, FuzzerAlive, Running, Asleep, Alive, Fits
<1>4. CASE init_forkserver_Disarm /\ UNCHANGED loopVars
  BY <1>4 DEF init_forkserver_Disarm, PTypeOK, ServerSide, PProtocol, AtRest,
     ServerAlive, FuzzerAlive, Running, Asleep, Alive, Fits
<1>5. CASE run_target_Reset /\ UNCHANGED loopVars
  BY <1>5 DEF run_target_Reset, PTypeOK, ServerSide, PProtocol, AtRest, ServerAlive,
     FuzzerAlive, Running, Asleep, Alive, Fits
<1>6. CASE run_target_Command /\ UNCHANGED loopVars
  BY <1>6 DEF run_target_Command, BailOut, ServerEnds, PTypeOK, ServerSide, PProtocol,
     AtRest, ServerAlive, FuzzerAlive, Running, Asleep, Alive, Fits
<1>7. CASE run_target_ReadPid /\ UNCHANGED loopVars
  BY <1>7 DEF run_target_ReadPid, BailOut, ServerEnds, PTypeOK, ServerSide, PProtocol,
     AtRest, ServerAlive, FuzzerAlive, Running, Asleep, Alive, Fits
<1>8. CASE run_target_Arm /\ UNCHANGED loopVars
  BY <1>8 DEF run_target_Arm, PTypeOK, ServerSide, PProtocol, AtRest, ServerAlive,
     FuzzerAlive, Running, Asleep, Alive, Fits
<1>9. CASE run_target_ReadStatus /\ UNCHANGED loopVars
  BY <1>9 DEF run_target_ReadStatus, BailOut, ServerEnds, PTypeOK, ServerSide,
     PProtocol, AtRest, ServerAlive, FuzzerAlive, Running, Asleep, Alive, Fits
<1>10. CASE run_target_ClearPid /\ UNCHANGED loopVars
  BY <1>10 DEF run_target_ClearPid, PTypeOK, ServerSide, PProtocol, AtRest,
     ServerAlive, FuzzerAlive, Running, Asleep, Alive, Fits
<1>11. CASE run_target_Disarm /\ UNCHANGED loopVars
  BY <1>11 DEF run_target_Disarm, PTypeOK, ServerSide, PProtocol, AtRest, ServerAlive,
     FuzzerAlive, Running, Asleep, Alive, Fits
<1>12. CASE run_target_Report /\ UNCHANGED loopVars
  BY <1>12 DEF run_target_Report, Fault, PTypeOK, ServerSide, PProtocol, AtRest,
     ServerAlive, FuzzerAlive, Running, Asleep, Alive, Fits
<1>13. CASE FuzzerExit /\ UNCHANGED loopVars
  BY <1>13 DEF FuzzerExit, PTypeOK, ServerSide, PProtocol, AtRest, ServerAlive,
     FuzzerAlive, Running, Asleep, Alive, Fits
<1>14. CASE FuzzerCrash /\ UNCHANGED loopVars
  BY <1>14 DEF FuzzerCrash, PTypeOK, ServerSide, PProtocol, AtRest, ServerAlive,
     FuzzerAlive, Running, Asleep, Alive, Fits
<1>15. CASE handle_timeout /\ UNCHANGED loopVars
  BY <1>15 DEF handle_timeout, KilledProc, KilledExit, PTypeOK, ServerSide, PProtocol,
     AtRest, ServerAlive, FuzzerAlive, Running, Asleep, Alive, Fits
<1>16. CASE handle_stop_sig_Child /\ UNCHANGED loopVars
  BY <1>16 DEF handle_stop_sig_Child, KilledProc, KilledExit, PTypeOK, ServerSide,
     PProtocol, AtRest, ServerAlive, FuzzerAlive, Running, Asleep, Alive, Fits
<1>17. CASE handle_stop_sig_Server /\ UNCHANGED loopVars
  BY <1>17 DEF handle_stop_sig_Server, PTypeOK, ServerSide, PProtocol, AtRest,
     ServerAlive, FuzzerAlive, Running, Asleep, Alive, Fits
<1>18. CASE ServerDies /\ UNCHANGED loopVars
  BY <1>18 DEF ServerDies, PTypeOK, ServerSide, PProtocol, AtRest, ServerAlive,
     FuzzerAlive, Running, Asleep, Alive, Fits
<1>19. CASE afl_map_shm
  BY <1>19 DEF afl_map_shm, PTypeOK, ServerSide, PProtocol, AtRest, ServerAlive,
     FuzzerAlive, Running, Asleep, Alive, Fits
<1>20. CASE start_forkserver_Hello
  BY <1>20 DEF start_forkserver_Hello, afl_forkserver_Hello, PTypeOK, ServerSide,
     PProtocol, AtRest, ServerAlive, FuzzerAlive, Running, Asleep, Alive, Fits, FuzzerPcs
<1>21. CASE start_forkserver_Await
  BY <1>21 DEF start_forkserver_Await, PTypeOK, ServerSide, PProtocol, AtRest,
     ServerAlive, FuzzerAlive, Running, Asleep, Alive, Fits
<1>22. CASE start_forkserver_WriteOff
  BY <1>22 DEF start_forkserver_WriteOff, MustWriteOff, PTypeOK, ServerSide,
     PProtocol, AtRest, ServerAlive, FuzzerAlive, Running, Asleep, Alive, Fits
<1>23. CASE start_forkserver_Fork
  BY <1>23 DEF start_forkserver_Fork, PTypeOK, ServerSide, PProtocol, AtRest,
     ServerAlive, FuzzerAlive, Running, Asleep, Alive, Fits
<1>24. CASE start_forkserver_Resume
  BY <1>24 DEF start_forkserver_Resume, MustWriteOff, PTypeOK, ServerSide, PProtocol,
     AtRest, ServerAlive, FuzzerAlive, Running, Asleep, Alive, Fits
<1>25. CASE start_forkserver_SendPid
  BY <1>25 DEF start_forkserver_SendPid, PTypeOK, ServerSide, PProtocol, AtRest,
     ServerAlive, FuzzerAlive, Running, Asleep, Alive, Fits
<1>26. CASE start_forkserver_Reap
  BY <1>26 DEF start_forkserver_Reap, PTypeOK, ServerSide, PProtocol, AtRest,
     ServerAlive, FuzzerAlive, Running, Asleep, Alive, Fits, PKillsExplained, FuzzerPcs
<1>27. CASE start_forkserver_Relay
  BY <1>27 DEF start_forkserver_Relay, afl_forkserver_Relay, PTypeOK, ServerSide,
     PProtocol, AtRest, ServerAlive, FuzzerAlive, Running, Asleep, Alive, Fits, FuzzerPcs
<1>28. ASSUME NEW p \in Pids, Running(p), ChildStart(p), UNCHANGED loopVars
      PROVE  ServerSide'
  BY <1>28 DEF ChildStart, PTypeOK, ServerSide, PProtocol, AtRest, ServerAlive,
     FuzzerAlive, Running, Asleep, Alive, Fits
<1>29. ASSUME NEW p \in Pids, Running(p), ChildTrace(p), UNCHANGED loopVars
      PROVE  ServerSide'
  BY <1>29 DEF ChildTrace, PTypeOK, ServerSide, PProtocol, AtRest, ServerAlive,
     FuzzerAlive, Running, Asleep, Alive, Fits
<1>30. ASSUME NEW p \in Pids, Running(p), ChildEnd(p), UNCHANGED loopVars
      PROVE  ServerSide'
  BY <1>30 DEF ChildEnd, PTypeOK, ServerSide, PProtocol, AtRest, ServerAlive,
     FuzzerAlive, Running, Asleep, Alive, Fits
<1>31. ASSUME NEW p \in Pids, persistent_loop(p)
      PROVE  ServerSide'
  BY <1>31 DEF persistent_loop, PTypeOK, ServerSide, PProtocol, AtRest, ServerAlive,
     FuzzerAlive, Running, Asleep, Alive, Fits
<1>32. ASSUME NEW p \in Pids, InitReaps(p), UNCHANGED loopVars
      PROVE  ServerSide'
  BY <1>32 DEF InitReaps, PTypeOK, ServerSide, PProtocol, AtRest, ServerAlive,
     FuzzerAlive, Running, Asleep, Alive, Fits
<1> QED
  BY <1>1, <1>2, <1>3, <1>4, <1>5, <1>6, <1>7, <1>8, <1>9, <1>10, <1>11, <1>12, <1>13,
     <1>14, <1>15, <1>16, <1>17, <1>18, <1>19, <1>20, <1>21, <1>22, <1>23, <1>24, <1>25,
     <1>26, <1>27, <1>28, <1>29, <1>30, <1>31, <1>32 DEF PNext, FuzzerSide,
     FuzzerNext, SignalNext, PServerNext, LoopChild

(* The kill of a sleeping child is recorded where the next reader looks.     *)
LEMMA KillKnownStep ==
  ASSUME PInv, PNext
  PROVE  KillKnown'
<1> USE PidsAssumption DEF PInv, fuzzerVars, serverVars, pipeVars, kernelVars, vars,
        loopVars
<1>1. CASE init_forkserver_Fork /\ UNCHANGED loopVars
  BY <1>1 DEF init_forkserver_Fork, PTypeOK, ServerSide, PProtocol, AtRest,
     ServerAlive, FuzzerAlive, Running, Asleep, Alive, KillKnown, Knows, PidHeld
<1>2. CASE init_forkserver_Arm /\ UNCHANGED loopVars
  BY <1>2 DEF init_forkserver_Arm, PTypeOK, ServerSide, PProtocol, AtRest,
     ServerAlive, FuzzerAlive, Running, Asleep, Alive, KillKnown, Knows, PidHeld
<1>3. CASE init_forkserver_Hello /\ UNCHANGED loopVars
  BY <1>3 DEF init_forkserver_Hello, ServerEnds, PTypeOK, ServerSide, PProtocol,
     AtRest, ServerAlive, FuzzerAlive, Running, Asleep, Alive, KillKnown, Knows, PidHeld
<1>4. CASE init_forkserver_Disarm /\ UNCHANGED loopVars
  BY <1>4 DEF init_forkserver_Disarm, PTypeOK, ServerSide, PProtocol, AtRest,
     ServerAlive, FuzzerAlive, Running, Asleep, Alive, KillKnown, Knows, PidHeld
<1>5. CASE run_target_Reset /\ UNCHANGED loopVars
  BY <1>5 DEF run_target_Reset, PTypeOK, ServerSide, PProtocol, AtRest, ServerAlive,
     FuzzerAlive, Running, Asleep, Alive, KillKnown, Knows, PidHeld
<1>6. CASE run_target_Command /\ UNCHANGED loopVars
  BY <1>6, SeqFacts DEF run_target_Command, BailOut, ServerEnds, PTypeOK, ServerSide,
     PProtocol, AtRest, ServerAlive, FuzzerAlive, Running, Asleep, Alive, KillKnown,
     Knows, PidHeld, Msg, MainThread
<1>7. CASE run_target_ReadPid /\ UNCHANGED loopVars
  BY <1>7 DEF run_target_ReadPid, BailOut, ServerEnds, PTypeOK, ServerSide, PProtocol,
     AtRest, ServerAlive, FuzzerAlive, Running, Asleep, Alive, KillKnown, Knows, PidHeld
<1>8. CASE run_target_Arm /\ UNCHANGED loopVars
  BY <1>8 DEF run_target_Arm, PTypeOK, ServerSide, PProtocol, AtRest, ServerAlive,
     FuzzerAlive, Running, Asleep, Alive, KillKnown, Knows, PidHeld
<1>9. CASE run_target_ReadStatus /\ UNCHANGED loopVars
  BY <1>9 DEF run_target_ReadStatus, BailOut, ServerEnds, PTypeOK, ServerSide,
     PProtocol, AtRest, ServerAlive, FuzzerAlive, Running, Asleep, Alive, KillKnown,
     Knows, PidHeld
<1>10. CASE run_target_ClearPid /\ UNCHANGED loopVars
  BY <1>10 DEF run_target_ClearPid, PTypeOK, ServerSide, PProtocol, AtRest,
     ServerAlive, FuzzerAlive, Running, Asleep, Alive, KillKnown, Knows, PidHeld
<1>11. CASE run_target_Disarm /\ UNCHANGED loopVars
  BY <1>11 DEF run_target_Disarm, PTypeOK, ServerSide, PProtocol, AtRest, ServerAlive,
     FuzzerAlive, Running, Asleep, Alive, KillKnown, Knows, PidHeld
<1>12. CASE run_target_Report /\ UNCHANGED loopVars
  BY <1>12 DEF run_target_Report, Fault, PTypeOK, ServerSide, PProtocol, AtRest,
     ServerAlive, FuzzerAlive, Running, Asleep, Alive, KillKnown, Knows, PidHeld
<1>13. CASE FuzzerExit /\ UNCHANGED loopVars
  BY <1>13 DEF FuzzerExit, PTypeOK, ServerSide, PProtocol, AtRest, ServerAlive,
     FuzzerAlive, Running, Asleep, Alive, KillKnown, Knows, PidHeld
<1>14. CASE FuzzerCrash /\ UNCHANGED loopVars
  BY <1>14 DEF FuzzerCrash, PTypeOK, ServerSide, PProtocol, AtRest, ServerAlive,
     FuzzerAlive, Running, Asleep, Alive, KillKnown, Knows, PidHeld
<1>15. CASE handle_timeout /\ UNCHANGED loopVars
  <2>1. CASE child_pid > 0
    <3>1. child_pid \in Pids /\ child_timed_out' = TRUE /\ ~Alive(child_pid)'
      BY <1>15, <2>1 DEF handle_timeout, PTypeOK, KilledProc, Alive
    <3>2. \A p \in Pids : Alive(p)' => Alive(p)
      BY <1>15, <2>1, <3>1 DEF handle_timeout, PTypeOK, KilledProc, Alive
    <3>3. CASE fpc \in {"arm", "readstatus", "clear"} /\ ServerAlive
      BY <1>15, <2>1, <3>1, <3>2, <3>3 DEF handle_timeout, PTypeOK, KillKnown, Knows,
         PidHeld, ServerSide, PProtocol, AtRest, ServerAlive, FuzzerAlive
    <3>4. CASE ~ServerAlive
      BY <1>15, <2>1, <3>4 DEF handle_timeout, KillKnown, ServerAlive
    <3> QED
      BY <1>15, <3>1, <3>3, <3>4 DEF handle_timeout, PidHeld, ServerAlive, FuzzerAlive
  <2>2. CASE ~(child_pid > 0)
    BY <1>15, <2>2 DEF handle_timeout, PTypeOK, KillKnown, Knows, ServerAlive, FuzzerAlive,
       Alive
  <2> QED
    BY <2>1, <2>2
<1>16. CASE handle_stop_sig_Child /\ UNCHANGED loopVars
  BY <1>16 DEF handle_stop_sig_Child, KilledProc, KilledExit, PTypeOK, ServerSide,
     PProtocol, AtRest, ServerAlive, FuzzerAlive, Running, Asleep, Alive, KillKnown,
     Knows, PidHeld
<1>17. CASE handle_stop_sig_Server /\ UNCHANGED loopVars
  BY <1>17 DEF handle_stop_sig_Server, PTypeOK, ServerSide, PProtocol, AtRest,
     ServerAlive, FuzzerAlive, Running, Asleep, Alive, KillKnown, Knows, PidHeld
<1>18. CASE ServerDies /\ UNCHANGED loopVars
  BY <1>18 DEF ServerDies, PTypeOK, ServerSide, PProtocol, AtRest, ServerAlive,
     FuzzerAlive, Running, Asleep, Alive, KillKnown, Knows, PidHeld
<1>19. CASE afl_map_shm
  BY <1>19 DEF afl_map_shm, PTypeOK, ServerSide, PProtocol, AtRest, ServerAlive,
     FuzzerAlive, Running, Asleep, Alive, KillKnown, Knows, PidHeld
<1>20. CASE start_forkserver_Hello
  BY <1>20 DEF start_forkserver_Hello, afl_forkserver_Hello, PTypeOK, ServerSide,
     PProtocol, AtRest, ServerAlive, FuzzerAlive, Running, Asleep, Alive, KillKnown,
     Knows, PidHeld
<1>21. CASE start_forkserver_Await
  BY <1>21 DEF start_forkserver_Await, PTypeOK, ServerSide, PProtocol, AtRest,
     ServerAlive, FuzzerAlive, Running, Asleep, Alive, KillKnown, Knows, PidHeld
<1>22. CASE start_forkserver_WriteOff
  BY <1>22 DEF start_forkserver_WriteOff, MustWriteOff, PTypeOK, ServerSide,
     PProtocol, AtRest, ServerAlive, FuzzerAlive, Running, Asleep, Alive, KillKnown,
     Knows, PidHeld
<1>23. CASE start_forkserver_Fork
  BY <1>23 DEF start_forkserver_Fork, PTypeOK, ServerSide, PProtocol, AtRest,
     ServerAlive, FuzzerAlive, Running, Asleep, Alive, KillKnown, Knows, PidHeld
<1>24. CASE start_forkserver_Resume
  BY <1>24 DEF start_forkserver_Resume, MustWriteOff, PTypeOK, ServerSide, PProtocol,
     AtRest, ServerAlive, FuzzerAlive, Running, Asleep, Alive, KillKnown, Knows, PidHeld
<1>25. CASE start_forkserver_SendPid
  BY <1>25 DEF start_forkserver_SendPid, PTypeOK, ServerSide, PProtocol, AtRest,
     ServerAlive, FuzzerAlive, Running, Asleep, Alive, KillKnown, Knows, PidHeld
<1>26. CASE start_forkserver_Reap
  BY <1>26 DEF start_forkserver_Reap, PTypeOK, ServerSide, PProtocol, AtRest,
     ServerAlive, FuzzerAlive, Running, Asleep, Alive, KillKnown, Knows, PidHeld
<1>27. CASE start_forkserver_Relay
  BY <1>27 DEF start_forkserver_Relay, afl_forkserver_Relay, PTypeOK, ServerSide,
     PProtocol, AtRest, ServerAlive, FuzzerAlive, Running, Asleep, Alive, KillKnown,
     Knows, PidHeld, FuzzerPcs
<1>28. ASSUME NEW p \in Pids, Running(p), ChildStart(p), UNCHANGED loopVars
      PROVE  KillKnown'
  BY <1>28 DEF ChildStart, PTypeOK, ServerSide, PProtocol, AtRest, ServerAlive,
     FuzzerAlive, Running, Asleep, Alive, KillKnown, Knows, PidHeld
<1>29. ASSUME NEW p \in Pids, Running(p), ChildTrace(p), UNCHANGED loopVars
      PROVE  KillKnown'
  BY <1>29 DEF ChildTrace, PTypeOK, ServerSide, PProtocol, AtRest, ServerAlive,
     FuzzerAlive, Running, Asleep, Alive, KillKnown, Knows, PidHeld
<1>30. ASSUME NEW p \in Pids, Running(p), ChildEnd(p), UNCHANGED loopVars
      PROVE  KillKnown'
  BY <1>30 DEF ChildEnd, PTypeOK, ServerSide, PProtocol, AtRest, ServerAlive,
     FuzzerAlive, Running, Asleep, Alive, KillKnown, Knows, PidHeld
<1>31. ASSUME NEW p \in Pids, persistent_loop(p)
      PROVE  KillKnown'
  BY <1>31 DEF persistent_loop, PTypeOK, ServerSide, PProtocol, AtRest, ServerAlive,
     FuzzerAlive, Running, Asleep, Alive, KillKnown, Knows, PidHeld
<1>32. ASSUME NEW p \in Pids, InitReaps(p), UNCHANGED loopVars
      PROVE  KillKnown'
  BY <1>32 DEF InitReaps, PTypeOK, ServerSide, PProtocol, AtRest, ServerAlive,
     FuzzerAlive, Running, Asleep, Alive, KillKnown, Knows, PidHeld
<1> QED
  BY <1>1, <1>2, <1>3, <1>4, <1>5, <1>6, <1>7, <1>8, <1>9, <1>10, <1>11, <1>12, <1>13,
     <1>14, <1>15, <1>16, <1>17, <1>18, <1>19, <1>20, <1>21, <1>22, <1>23, <1>24, <1>25,
     <1>26, <1>27, <1>28, <1>29, <1>30, <1>31, <1>32 DEF PNext, FuzzerSide,
     FuzzerNext, SignalNext, PServerNext, LoopChild

(* The handlers of afl-fuzz can only kill the child of the run under way.    *)
LEMMA PidHeldStep ==
  ASSUME PInv, PNext
  PROVE  PidHeld'
<1> USE PidsAssumption DEF PInv, fuzzerVars, serverVars, pipeVars, kernelVars, vars,
        loopVars
<1>1. CASE init_forkserver_Fork /\ UNCHANGED loopVars
  BY <1>1 DEF init_forkserver_Fork, PTypeOK, ServerSide, PProtocol, AtRest,
     ServerAlive, FuzzerAlive, Running, Asleep, Alive, PidHeld
<1>2. CASE init_forkserver_Arm /\ UNCHANGED loopVars
  BY <1>2 DEF init_forkserver_Arm, PTypeOK, ServerSide, PProtocol, AtRest,
     ServerAlive, FuzzerAlive, Running, Asleep, Alive, PidHeld
<1>3. CASE init_forkserver_Hello /\ UNCHANGED loopVars
  BY <1>3 DEF init_forkserver_Hello, ServerEnds, PTypeOK, ServerSide, PProtocol,
     AtRest, ServerAlive, FuzzerAlive, Running, Asleep, Alive, PidHeld
<1>4. CASE init_forkserver_Disarm /\ UNCHANGED loopVars
  BY <1>4 DEF init_forkserver_Disarm, PTypeOK, ServerSide, PProtocol, AtRest,
     ServerAlive, FuzzerAlive, Running, Asleep, Alive, PidHeld
<1>5. CASE run_target_Reset /\ UNCHANGED loopVars
  BY <1>5 DEF run_target_Reset, PTypeOK, ServerSide, PProtocol, AtRest, ServerAlive,
     FuzzerAlive, Running, Asleep, Alive, PidHeld
<1>6. CASE run_target_Command /\ UNCHANGED loopVars
  BY <1>6 DEF run_target_Command, BailOut, ServerEnds, PTypeOK, ServerSide, PProtocol,
     AtRest, ServerAlive, FuzzerAlive, Running, Asleep, Alive, PidHeld
<1>7. CASE run_target_ReadPid /\ UNCHANGED loopVars
  BY <1>7, SeqFacts DEF run_target_ReadPid, BailOut, ServerEnds, PTypeOK, ServerSide,
     PProtocol, AtRest, ServerAlive, FuzzerAlive, Running, Asleep, Alive, PidHeld,
     PidWord, Msg
<1>8. CASE run_target_Arm /\ UNCHANGED loopVars
  BY <1>8 DEF run_target_Arm, PTypeOK, ServerSide, PProtocol, AtRest, ServerAlive,
     FuzzerAlive, Running, Asleep, Alive, PidHeld
<1>9. CASE run_target_ReadStatus /\ UNCHANGED loopVars
  BY <1>9 DEF run_target_ReadStatus, BailOut, ServerEnds, PTypeOK, ServerSide,
     PProtocol, AtRest, ServerAlive, FuzzerAlive, Running, Asleep, Alive, PidHeld
<1>10. CASE run_target_ClearPid /\ UNCHANGED loopVars
  BY <1>10 DEF run_target_ClearPid, PTypeOK, ServerSide, PProtocol, AtRest,
     ServerAlive, FuzzerAlive, Running, Asleep, Alive, PidHeld
<1>11. CASE run_target_Disarm /\ UNCHANGED loopVars
  BY <1>11 DEF run_target_Disarm, PTypeOK, ServerSide, PProtocol, AtRest, ServerAlive,
     FuzzerAlive, Running, Asleep, Alive, PidHeld
<1>12. CASE run_target_Report /\ UNCHANGED loopVars
  BY <1>12 DEF run_target_Report, Fault, PTypeOK, ServerSide, PProtocol, AtRest,
     ServerAlive, FuzzerAlive, Running, Asleep, Alive, PidHeld
<1>13. CASE FuzzerExit /\ UNCHANGED loopVars
  BY <1>13 DEF FuzzerExit, PTypeOK, ServerSide, PProtocol, AtRest, ServerAlive,
     FuzzerAlive, Running, Asleep, Alive, PidHeld
<1>14. CASE FuzzerCrash /\ UNCHANGED loopVars
  BY <1>14 DEF FuzzerCrash, PTypeOK, ServerSide, PProtocol, AtRest, ServerAlive,
     FuzzerAlive, Running, Asleep, Alive, PidHeld
<1>15. CASE handle_timeout /\ UNCHANGED loopVars
  BY <1>15 DEF handle_timeout, KilledProc, KilledExit, PTypeOK, ServerSide, PProtocol,
     AtRest, ServerAlive, FuzzerAlive, Running, Asleep, Alive, PidHeld
<1>16. CASE handle_stop_sig_Child /\ UNCHANGED loopVars
  BY <1>16 DEF handle_stop_sig_Child, KilledProc, KilledExit, PTypeOK, ServerSide,
     PProtocol, AtRest, ServerAlive, FuzzerAlive, Running, Asleep, Alive, PidHeld
<1>17. CASE handle_stop_sig_Server /\ UNCHANGED loopVars
  BY <1>17 DEF handle_stop_sig_Server, PTypeOK, ServerSide, PProtocol, AtRest,
     ServerAlive, FuzzerAlive, Running, Asleep, Alive, PidHeld
<1>18. CASE ServerDies /\ UNCHANGED loopVars
  BY <1>18 DEF ServerDies, PTypeOK, ServerSide, PProtocol, AtRest, ServerAlive,
     FuzzerAlive, Running, Asleep, Alive, PidHeld
<1>19. CASE afl_map_shm
  BY <1>19 DEF afl_map_shm, PTypeOK, ServerSide, PProtocol, AtRest, ServerAlive,
     FuzzerAlive, Running, Asleep, Alive, PidHeld
<1>20. CASE start_forkserver_Hello
  BY <1>20 DEF start_forkserver_Hello, afl_forkserver_Hello, PTypeOK, ServerSide,
     PProtocol, AtRest, ServerAlive, FuzzerAlive, Running, Asleep, Alive, PidHeld
<1>21. CASE start_forkserver_Await
  BY <1>21 DEF start_forkserver_Await, PTypeOK, ServerSide, PProtocol, AtRest,
     ServerAlive, FuzzerAlive, Running, Asleep, Alive, PidHeld
<1>22. CASE start_forkserver_WriteOff
  BY <1>22 DEF start_forkserver_WriteOff, MustWriteOff, PTypeOK, ServerSide,
     PProtocol, AtRest, ServerAlive, FuzzerAlive, Running, Asleep, Alive, PidHeld
<1>23. CASE start_forkserver_Fork
  BY <1>23 DEF start_forkserver_Fork, PTypeOK, ServerSide, PProtocol, AtRest,
     ServerAlive, FuzzerAlive, Running, Asleep, Alive, PidHeld
<1>24. CASE start_forkserver_Resume
  BY <1>24 DEF start_forkserver_Resume, MustWriteOff, PTypeOK, ServerSide, PProtocol,
     AtRest, ServerAlive, FuzzerAlive, Running, Asleep, Alive, PidHeld
<1>25. CASE start_forkserver_SendPid
  BY <1>25 DEF start_forkserver_SendPid, PTypeOK, ServerSide, PProtocol, AtRest,
     ServerAlive, FuzzerAlive, Running, Asleep, Alive, PidHeld
<1>26. CASE start_forkserver_Reap
  BY <1>26 DEF start_forkserver_Reap, PTypeOK, ServerSide, PProtocol, AtRest,
     ServerAlive, FuzzerAlive, Running, Asleep, Alive, PidHeld
<1>27. CASE start_forkserver_Relay
  BY <1>27 DEF start_forkserver_Relay, afl_forkserver_Relay, PTypeOK, ServerSide,
     PProtocol, AtRest, ServerAlive, FuzzerAlive, Running, Asleep, Alive, PidHeld
<1>28. ASSUME NEW p \in Pids, Running(p), ChildStart(p), UNCHANGED loopVars
      PROVE  PidHeld'
  BY <1>28 DEF ChildStart, PTypeOK, ServerSide, PProtocol, AtRest, ServerAlive,
     FuzzerAlive, Running, Asleep, Alive, PidHeld
<1>29. ASSUME NEW p \in Pids, Running(p), ChildTrace(p), UNCHANGED loopVars
      PROVE  PidHeld'
  BY <1>29 DEF ChildTrace, PTypeOK, ServerSide, PProtocol, AtRest, ServerAlive,
     FuzzerAlive, Running, Asleep, Alive, PidHeld
<1>30. ASSUME NEW p \in Pids, Running(p), ChildEnd(p), UNCHANGED loopVars
      PROVE  PidHeld'
  BY <1>30 DEF ChildEnd, PTypeOK, ServerSide, PProtocol, AtRest, ServerAlive,
     FuzzerAlive, Running, Asleep, Alive, PidHeld
<1>31. ASSUME NEW p \in Pids, persistent_loop(p)
      PROVE  PidHeld'
  BY <1>31 DEF persistent_loop, PTypeOK, ServerSide, PProtocol, AtRest, ServerAlive,
     FuzzerAlive, Running, Asleep, Alive, PidHeld
<1>32. ASSUME NEW p \in Pids, InitReaps(p), UNCHANGED loopVars
      PROVE  PidHeld'
  BY <1>32 DEF InitReaps, PTypeOK, ServerSide, PProtocol, AtRest, ServerAlive,
     FuzzerAlive, Running, Asleep, Alive, PidHeld
<1> QED
  BY <1>1, <1>2, <1>3, <1>4, <1>5, <1>6, <1>7, <1>8, <1>9, <1>10, <1>11, <1>12, <1>13,
     <1>14, <1>15, <1>16, <1>17, <1>18, <1>19, <1>20, <1>21, <1>22, <1>23, <1>24, <1>25,
     <1>26, <1>27, <1>28, <1>29, <1>30, <1>31, <1>32 DEF PNext, FuzzerSide,
     FuzzerNext, SignalNext, PServerNext, LoopChild

(* A child is killed only with a flag set.                                   *)
LEMMA PKillsStep ==
  ASSUME PInv, PNext
  PROVE  PKillsExplained'
<1> USE PidsAssumption DEF PInv, fuzzerVars, serverVars, pipeVars, kernelVars, vars,
        loopVars
<1>1. CASE init_forkserver_Fork /\ UNCHANGED loopVars
  BY <1>1 DEF init_forkserver_Fork, PTypeOK, ServerSide, PProtocol, AtRest,
     ServerAlive, FuzzerAlive, Running, Asleep, Alive, KillKnown, Knows, PKillsExplained,
     PidHeld
<1>2. CASE init_forkserver_Arm /\ UNCHANGED loopVars
  BY <1>2 DEF init_forkserver_Arm, PTypeOK, ServerSide, PProtocol, AtRest,
     ServerAlive, FuzzerAlive, Running, Asleep, Alive, KillKnown, Knows, PKillsExplained,
     PidHeld
<1>3. CASE init_forkserver_Hello /\ UNCHANGED loopVars
  BY <1>3 DEF init_forkserver_Hello, ServerEnds, PTypeOK, ServerSide, PProtocol,
     AtRest, ServerAlive, FuzzerAlive, Running, Asleep, Alive, KillKnown, Knows,
     PKillsExplained, PidHeld
<1>4. CASE init_forkserver_Disarm /\ UNCHANGED loopVars
  BY <1>4 DEF init_forkserver_Disarm, PTypeOK, ServerSide, PProtocol, AtRest,
     ServerAlive, FuzzerAlive, Running, Asleep, Alive, KillKnown, Knows, PKillsExplained,
     PidHeld
<1>5. CASE run_target_Reset /\ UNCHANGED loopVars
  BY <1>5 DEF run_target_Reset, PTypeOK, ServerSide, PProtocol, AtRest, ServerAlive,
     FuzzerAlive, Running, Asleep, Alive, KillKnown, Knows, PKillsExplained, PidHeld
<1>6. CASE run_target_Command /\ UNCHANGED loopVars
  BY <1>6 DEF run_target_Command, BailOut, ServerEnds, PTypeOK, ServerSide, PProtocol,
     AtRest, ServerAlive, FuzzerAlive, Running, Asleep, Alive, KillKnown, Knows,
     PKillsExplained, PidHeld
<1>7. CASE run_target_ReadPid /\ UNCHANGED loopVars
  BY <1>7 DEF run_target_ReadPid, BailOut, ServerEnds, PTypeOK, ServerSide, PProtocol,
     AtRest, ServerAlive, FuzzerAlive, Running, Asleep, Alive, KillKnown, Knows,
     PKillsExplained, PidHeld
<1>8. CASE run_target_Arm /\ UNCHANGED loopVars
  BY <1>8 DEF run_target_Arm, PTypeOK, ServerSide, PProtocol, AtRest, ServerAlive,
     FuzzerAlive, Running, Asleep, Alive, KillKnown, Knows, PKillsExplained, PidHeld
<1>9. CASE run_target_ReadStatus /\ UNCHANGED loopVars
  BY <1>9 DEF run_target_ReadStatus, BailOut, ServerEnds, PTypeOK, ServerSide,
     PProtocol, AtRest, ServerAlive, FuzzerAlive, Running, Asleep, Alive, KillKnown,
     Knows, PKillsExplained, PidHeld
<1>10. CASE run_target_ClearPid /\ UNCHANGED loopVars
  BY <1>10 DEF run_target_ClearPid, PTypeOK, ServerSide, PProtocol, AtRest,
     ServerAlive, FuzzerAlive, Running, Asleep, Alive, KillKnown, Knows, PKillsExplained,
     PidHeld
<1>11. CASE run_target_Disarm /\ UNCHANGED loopVars
  BY <1>11 DEF run_target_Disarm, PTypeOK, ServerSide, PProtocol, AtRest, ServerAlive,
     FuzzerAlive, Running, Asleep, Alive, KillKnown, Knows, PKillsExplained, PidHeld
<1>12. CASE run_target_Report /\ UNCHANGED loopVars
  BY <1>12 DEF run_target_Report, Fault, PTypeOK, ServerSide, PProtocol, AtRest,
     ServerAlive, FuzzerAlive, Running, Asleep, Alive, KillKnown, Knows, PKillsExplained,
     PidHeld
<1>13. CASE FuzzerExit /\ UNCHANGED loopVars
  BY <1>13 DEF FuzzerExit, PTypeOK, ServerSide, PProtocol, AtRest, ServerAlive,
     FuzzerAlive, Running, Asleep, Alive, KillKnown, Knows, PKillsExplained, PidHeld
<1>14. CASE FuzzerCrash /\ UNCHANGED loopVars
  BY <1>14 DEF FuzzerCrash, PTypeOK, ServerSide, PProtocol, AtRest, ServerAlive,
     FuzzerAlive, Running, Asleep, Alive, KillKnown, Knows, PKillsExplained, PidHeld
<1>15. CASE handle_timeout /\ UNCHANGED loopVars
  BY <1>15 DEF handle_timeout, KilledProc, KilledExit, PTypeOK, ServerSide, PProtocol,
     AtRest, ServerAlive, FuzzerAlive, Running, Asleep, Alive, KillKnown, Knows,
     PKillsExplained, PidHeld
<1>16. CASE handle_stop_sig_Child /\ UNCHANGED loopVars
  BY <1>16 DEF handle_stop_sig_Child, KilledProc, KilledExit, PTypeOK, ServerSide,
     PProtocol, AtRest, ServerAlive, FuzzerAlive, Running, Asleep, Alive, KillKnown,
     Knows, PKillsExplained, PidHeld
<1>17. CASE handle_stop_sig_Server /\ UNCHANGED loopVars
  BY <1>17 DEF handle_stop_sig_Server, PTypeOK, ServerSide, PProtocol, AtRest,
     ServerAlive, FuzzerAlive, Running, Asleep, Alive, KillKnown, Knows, PKillsExplained,
     PidHeld
<1>18. CASE ServerDies /\ UNCHANGED loopVars
  BY <1>18 DEF ServerDies, PTypeOK, ServerSide, PProtocol, AtRest, ServerAlive,
     FuzzerAlive, Running, Asleep, Alive, KillKnown, Knows, PKillsExplained, PidHeld
<1>19. CASE afl_map_shm
  BY <1>19 DEF afl_map_shm, PTypeOK, ServerSide, PProtocol, AtRest, ServerAlive,
     FuzzerAlive, Running, Asleep, Alive, KillKnown, Knows, PKillsExplained, PidHeld
<1>20. CASE start_forkserver_Hello
  BY <1>20 DEF start_forkserver_Hello, afl_forkserver_Hello, PTypeOK, ServerSide,
     PProtocol, AtRest, ServerAlive, FuzzerAlive, Running, Asleep, Alive, KillKnown,
     Knows, PKillsExplained, PidHeld
<1>21. CASE start_forkserver_Await
  BY <1>21 DEF start_forkserver_Await, PTypeOK, ServerSide, PProtocol, AtRest,
     ServerAlive, FuzzerAlive, Running, Asleep, Alive, KillKnown, Knows, PKillsExplained,
     PidHeld
<1>22. CASE start_forkserver_WriteOff
  BY <1>22 DEF start_forkserver_WriteOff, MustWriteOff, PTypeOK, ServerSide,
     PProtocol, AtRest, ServerAlive, FuzzerAlive, Running, Asleep, Alive, KillKnown,
     Knows, PKillsExplained, PidHeld
<1>23. CASE start_forkserver_Fork
  BY <1>23 DEF start_forkserver_Fork, PTypeOK, ServerSide, PProtocol, AtRest,
     ServerAlive, FuzzerAlive, Running, Asleep, Alive, KillKnown, Knows, PKillsExplained,
     PidHeld
<1>24. CASE start_forkserver_Resume
  BY <1>24 DEF start_forkserver_Resume, MustWriteOff, PTypeOK, ServerSide, PProtocol,
     AtRest, ServerAlive, FuzzerAlive, Running, Asleep, Alive, KillKnown, Knows,
     PKillsExplained, PidHeld
<1>25. CASE start_forkserver_SendPid
  BY <1>25 DEF start_forkserver_SendPid, PTypeOK, ServerSide, PProtocol, AtRest,
     ServerAlive, FuzzerAlive, Running, Asleep, Alive, KillKnown, Knows, PKillsExplained,
     PidHeld
<1>26. CASE start_forkserver_Reap
  BY <1>26 DEF start_forkserver_Reap, PTypeOK, ServerSide, PProtocol, AtRest,
     ServerAlive, FuzzerAlive, Running, Asleep, Alive, KillKnown, Knows, PKillsExplained,
     PidHeld
<1>27. CASE start_forkserver_Relay
  BY <1>27 DEF start_forkserver_Relay, afl_forkserver_Relay, PTypeOK, ServerSide,
     PProtocol, AtRest, ServerAlive, FuzzerAlive, Running, Asleep, Alive, KillKnown,
     Knows, PKillsExplained, PidHeld
<1>28. ASSUME NEW p \in Pids, Running(p), ChildStart(p), UNCHANGED loopVars
      PROVE  PKillsExplained'
  BY <1>28 DEF ChildStart, PTypeOK, ServerSide, PProtocol, AtRest, ServerAlive,
     FuzzerAlive, Running, Asleep, Alive, KillKnown, Knows, PKillsExplained, PidHeld
<1>29. ASSUME NEW p \in Pids, Running(p), ChildTrace(p), UNCHANGED loopVars
      PROVE  PKillsExplained'
  BY <1>29 DEF ChildTrace, PTypeOK, ServerSide, PProtocol, AtRest, ServerAlive,
     FuzzerAlive, Running, Asleep, Alive, KillKnown, Knows, PKillsExplained, PidHeld
<1>30. ASSUME NEW p \in Pids, Running(p), ChildEnd(p), UNCHANGED loopVars
      PROVE  PKillsExplained'
  BY <1>30 DEF ChildEnd, PTypeOK, ServerSide, PProtocol, AtRest, ServerAlive,
     FuzzerAlive, Running, Asleep, Alive, KillKnown, Knows, PKillsExplained, PidHeld
<1>31. ASSUME NEW p \in Pids, persistent_loop(p)
      PROVE  PKillsExplained'
  BY <1>31 DEF persistent_loop, PTypeOK, ServerSide, PProtocol, AtRest, ServerAlive,
     FuzzerAlive, Running, Asleep, Alive, KillKnown, Knows, PKillsExplained, PidHeld
<1>32. ASSUME NEW p \in Pids, InitReaps(p), UNCHANGED loopVars
      PROVE  PKillsExplained'
  BY <1>32 DEF InitReaps, PTypeOK, ServerSide, PProtocol, AtRest, ServerAlive,
     FuzzerAlive, Running, Asleep, Alive, KillKnown, Knows, PKillsExplained, PidHeld
<1> QED
  BY <1>1, <1>2, <1>3, <1>4, <1>5, <1>6, <1>7, <1>8, <1>9, <1>10, <1>11, <1>12, <1>13,
     <1>14, <1>15, <1>16, <1>17, <1>18, <1>19, <1>20, <1>21, <1>22, <1>23, <1>24, <1>25,
     <1>26, <1>27, <1>28, <1>29, <1>30, <1>31, <1>32 DEF PNext, FuzzerSide,
     FuzzerNext, SignalNext, PServerNext, LoopChild

(* The two sides stay in step, and the status in the pipe is the child's.    *)
LEMMA PProtocolStep ==
  ASSUME PInv, PNext
  PROVE  PProtocol'
<1> USE PidsAssumption DEF PInv, fuzzerVars, serverVars, pipeVars, kernelVars, vars,
        loopVars
<1>1. CASE init_forkserver_Fork /\ UNCHANGED loopVars
  BY <1>1, SeqFacts DEF init_forkserver_Fork, PTypeOK, ServerSide, PProtocol, AtRest,
     ServerAlive, FuzzerAlive, Running, Asleep, Alive, Fits, HelloWord, PidWord, Msg,
     NoneAlive
<1>2. CASE init_forkserver_Arm /\ UNCHANGED loopVars
  BY <1>2, SeqFacts DEF init_forkserver_Arm, PTypeOK, ServerSide, PProtocol, AtRest,
     ServerAlive, FuzzerAlive, Running, Asleep, Alive, Fits, HelloWord, PidWord, Msg,
     NoneAlive
<1>3. CASE init_forkserver_Hello /\ UNCHANGED loopVars
  BY <1>3, SeqFacts DEF init_forkserver_Hello, ServerEnds, PTypeOK, ServerSide,
     PProtocol, AtRest, ServerAlive, FuzzerAlive, Running, Asleep, Alive, Fits,
     HelloWord, PidWord, Msg, NoneAlive
<1>4. CASE init_forkserver_Disarm /\ UNCHANGED loopVars
  BY <1>4, SeqFacts DEF init_forkserver_Disarm, PTypeOK, ServerSide, PProtocol,
     AtRest, ServerAlive, FuzzerAlive, Running, Asleep, Alive, Fits, HelloWord, PidWord,
     Msg, NoneAlive
<1>5. CASE run_target_Reset /\ UNCHANGED loopVars
  BY <1>5, SeqFacts DEF run_target_Reset, PTypeOK, ServerSide, PProtocol, AtRest,
     ServerAlive, FuzzerAlive, Running, Asleep, Alive, Fits, HelloWord, PidWord, Msg,
     NoneAlive
<1>6. CASE run_target_Command /\ UNCHANGED loopVars
  BY <1>6, SeqFacts DEF run_target_Command, BailOut, ServerEnds, PTypeOK, ServerSide,
     PProtocol, AtRest, ServerAlive, FuzzerAlive, Running, Asleep, Alive, Fits,
     HelloWord, PidWord, Msg, NoneAlive
<1>7. CASE run_target_ReadPid /\ UNCHANGED loopVars
  <2> USE <1>7 DEF run_target_ReadPid
  <2>0. halted' = halted /\ proc' = proc /\ exitst' = exitst /\ ran' = ran
    OBVIOUS
  <2>1. CASE st # <<>>
    <3>1. CASE /\ st = <<PidWord>> /\ ran \in Pids /\ ctl = <<>>
               /\ spc \in {"reap", "relay", "dead"}
      <4>1. st' = <<>>
        BY <2>1, <3>1, SeqFacts
      <4> QED
        BY <2>1, <3>1, <4>1 DEF PProtocol
    <3>2. CASE /\ ran \in Pids /\ ctl = <<>> /\ spc \in {"wait", "dead"} /\ ~Running(ran)
               /\ \E s \in PStatuses : Fits(s) /\ st = <<PidWord, Msg("status", s)>>
      <4>1. PICK s \in PStatuses : Fits(s) /\ st = <<PidWord, Msg("status", s)>>
        BY <3>2
      <4>2. st' = <<Msg("status", s)>>
        BY <2>1, <4>1, SeqFacts
      <4>3. Fits(s)' /\ ~Running(ran)'
        BY <2>0, <3>2, <4>1 DEF Fits, Running, Alive
      <4> QED
        BY <2>1, <3>2, <4>2, <4>3 DEF PProtocol
    <3> QED
      BY <2>1, <3>1, <3>2 DEF PProtocol
  <2>2. CASE st = <<>> /\ ~ServerEnds
    <3>1. AtRest'
      BY <2>2 DEF PProtocol, ServerEnds, ServerAlive, AtRest
    <3> QED
      BY <2>2, <3>1 DEF PProtocol, BailOut
  <2> QED
    BY <2>1, <2>2
<1>8. CASE run_target_Arm /\ UNCHANGED loopVars
  BY <1>8, SeqFacts DEF run_target_Arm, PTypeOK, ServerSide, PProtocol, AtRest,
     ServerAlive, FuzzerAlive, Running, Asleep, Alive, Fits, HelloWord, PidWord, Msg,
     NoneAlive
<1>9. CASE run_target_ReadStatus /\ UNCHANGED loopVars
  <2> USE <1>9 DEF run_target_ReadStatus
  <2>0. halted' = halted /\ proc' = proc /\ exitst' = exitst /\ ran' = ran
    OBVIOUS
  <2>1. CASE st # <<>>
    <3>1. PICK s \in PStatuses : Fits(s) /\ st = <<Msg("status", s)>>
      BY <2>1 DEF PProtocol
    <3>2. st' = <<>> /\ status' = s
      BY <2>1, <3>1, SeqFacts DEF Msg
    <3>3. ran \in Pids /\ ctl = <<>> /\ spc \in {"wait", "dead"} /\ ~Running(ran)
      BY <2>1 DEF PProtocol
    <3>4. Fits(status)' /\ ~Running(ran)'
      BY <2>0, <3>1, <3>2, <3>3 DEF Fits, Running, Alive
    <3> QED
      BY <2>1, <3>2, <3>3, <3>4 DEF PProtocol, AtRest
  <2>2. CASE st = <<>> /\ ~ServerEnds
    <3>1. AtRest'
      BY <2>2 DEF PProtocol, ServerEnds, ServerAlive, AtRest
    <3> QED
      BY <2>2, <3>1 DEF PProtocol, BailOut
  <2> QED
    BY <2>1, <2>2
<1>10. CASE run_target_ClearPid /\ UNCHANGED loopVars
  BY <1>10, SeqFacts DEF run_target_ClearPid, PTypeOK, ServerSide, PProtocol, AtRest,
     ServerAlive, FuzzerAlive, Running, Asleep, Alive, Fits, HelloWord, PidWord, Msg,
     NoneAlive
<1>11. CASE run_target_Disarm /\ UNCHANGED loopVars
  BY <1>11, SeqFacts DEF run_target_Disarm, PTypeOK, ServerSide, PProtocol, AtRest,
     ServerAlive, FuzzerAlive, Running, Asleep, Alive, Fits, HelloWord, PidWord, Msg,
     NoneAlive
<1>12. CASE run_target_Report /\ UNCHANGED loopVars
  BY <1>12, SeqFacts DEF run_target_Report, Fault, PTypeOK, ServerSide, PProtocol,
     AtRest, ServerAlive, FuzzerAlive, Running, Asleep, Alive, Fits, HelloWord, PidWord,
     Msg, NoneAlive
<1>13. CASE FuzzerExit /\ UNCHANGED loopVars
  BY <1>13, SeqFacts DEF FuzzerExit, PTypeOK, ServerSide, PProtocol, AtRest,
     ServerAlive, FuzzerAlive, Running, Asleep, Alive, Fits, HelloWord, PidWord, Msg,
     NoneAlive
<1>14. CASE FuzzerCrash /\ UNCHANGED loopVars
  BY <1>14, SeqFacts DEF FuzzerCrash, PTypeOK, ServerSide, PProtocol, AtRest,
     ServerAlive, FuzzerAlive, Running, Asleep, Alive, Fits, HelloWord, PidWord, Msg,
     NoneAlive
<1>15. CASE handle_timeout /\ UNCHANGED loopVars
  BY <1>15, SeqFacts DEF handle_timeout, KilledProc, KilledExit, PTypeOK, ServerSide,
     PProtocol, AtRest, ServerAlive, FuzzerAlive, Running, Asleep, Alive, Fits,
     HelloWord, PidWord, Msg, NoneAlive
<1>16. CASE handle_stop_sig_Child /\ UNCHANGED loopVars
  BY <1>16, SeqFacts DEF handle_stop_sig_Child, KilledProc, KilledExit, PTypeOK,
     ServerSide, PProtocol, AtRest, ServerAlive, FuzzerAlive, Running, Asleep, Alive,
     Fits, HelloWord, PidWord, Msg, NoneAlive
<1>17. CASE handle_stop_sig_Server /\ UNCHANGED loopVars
  BY <1>17, SeqFacts DEF handle_stop_sig_Server, PTypeOK, ServerSide, PProtocol,
     AtRest, ServerAlive, FuzzerAlive, Running, Asleep, Alive, Fits, HelloWord, PidWord,
     Msg, NoneAlive
<1>18. CASE ServerDies /\ UNCHANGED loopVars
  BY <1>18, SeqFacts DEF ServerDies, PTypeOK, ServerSide, PProtocol, AtRest,
     ServerAlive, FuzzerAlive, Running, Asleep, Alive, Fits, HelloWord, PidWord, Msg,
     NoneAlive
<1>19. CASE afl_map_shm
  BY <1>19, SeqFacts DEF afl_map_shm, PTypeOK, ServerSide, PProtocol, AtRest,
     ServerAlive, FuzzerAlive, Running, Asleep, Alive, Fits, HelloWord, PidWord, Msg,
     NoneAlive
<1>20. CASE start_forkserver_Hello
  BY <1>20, SeqFacts DEF start_forkserver_Hello, afl_forkserver_Hello, PTypeOK,
     ServerSide, PProtocol, AtRest, ServerAlive, FuzzerAlive, Running, Asleep, Alive,
     Fits, HelloWord, PidWord, Msg, NoneAlive
<1>21. CASE start_forkserver_Await
  BY <1>21, SeqFacts DEF start_forkserver_Await, PTypeOK, ServerSide, PProtocol,
     AtRest, ServerAlive, FuzzerAlive, Running, Asleep, Alive, Fits, HelloWord, PidWord,
     Msg, NoneAlive
<1>22. CASE start_forkserver_WriteOff
  BY <1>22, SeqFacts DEF start_forkserver_WriteOff, MustWriteOff, PTypeOK, ServerSide,
     PProtocol, AtRest, ServerAlive, FuzzerAlive, Running, Asleep, Alive, Fits,
     HelloWord, PidWord, Msg, NoneAlive
<1>23. CASE start_forkserver_Fork
  BY <1>23, SeqFacts DEF start_forkserver_Fork, PTypeOK, ServerSide, PProtocol,
     AtRest, ServerAlive, FuzzerAlive, Running, Asleep, Alive, Fits, HelloWord, PidWord,
     Msg, NoneAlive
<1>24. CASE start_forkserver_Resume
  BY <1>24, SeqFacts DEF start_forkserver_Resume, MustWriteOff, PTypeOK, ServerSide,
     PProtocol, AtRest, ServerAlive, FuzzerAlive, Running, Asleep, Alive, Fits,
     HelloWord, PidWord, Msg, NoneAlive
<1>25. CASE start_forkserver_SendPid
  BY <1>25, SeqFacts DEF start_forkserver_SendPid, PTypeOK, ServerSide, PProtocol,
     AtRest, ServerAlive, FuzzerAlive, Running, Asleep, Alive, Fits, HelloWord, PidWord,
     Msg, NoneAlive
<1>26. CASE start_forkserver_Reap
  BY <1>26, SeqFacts DEF start_forkserver_Reap, PTypeOK, ServerSide, PProtocol,
     AtRest, ServerAlive, FuzzerAlive, Running, Asleep, Alive, Fits, HelloWord, PidWord,
     Msg, NoneAlive
<1>27. CASE start_forkserver_Relay
  <2> USE <1>27 DEF start_forkserver_Relay, afl_forkserver_Relay
  <2>0. /\ halted' = halted /\ proc' = proc /\ exitst' = exitst /\ ran' = ran
        /\ child_timed_out' = child_timed_out /\ stop_soon' = stop_soon /\ fpc' = fpc
    OBVIOUS
  <2>1. CASE ~FuzzerAlive
    BY <2>0, <2>1 DEF PProtocol, FuzzerAlive
  <2>2. CASE FuzzerAlive
    <3>1. ran \in Pids /\ ~Running(ran) /\ Fits(srv_status) /\ srv_status \in PStatuses
      BY <2>2 DEF ServerSide, ServerAlive, Running, PTypeOK
    <3>2. fpc \in {"readpid", "arm", "readstatus"} /\ ctl = <<>> /\ ctl' = <<>>
      BY <2>2 DEF PProtocol, AtRest, PTypeOK, FuzzerPcs, FuzzerAlive
    <3>3. Fits(srv_status)' /\ ~Running(ran)' /\ srv_status' = srv_status
      BY <2>0, <3>1 DEF Fits, Running, Alive
    <3>4. CASE fpc = "readpid"
      <4>1. st' = <<PidWord, Msg("status", srv_status)>> /\ PidWord' = PidWord
        BY <2>0, <2>2, <3>4, SeqFacts DEF PProtocol, PidWord
      <4> QED
        BY <2>0, <2>2, <3>1, <3>2, <3>3, <3>4, <4>1 DEF PProtocol
    <3>5. CASE fpc \in {"arm", "readstatus"}
      <4>1. st' = <<Msg("status", srv_status)>>
        BY <2>2, <3>5, SeqFacts DEF PProtocol
      <4> QED
        BY <2>0, <2>2, <3>1, <3>2, <3>3, <3>5, <4>1 DEF PProtocol
    <3> QED
      BY <3>2, <3>4, <3>5
  <2> QED
    BY <2>1, <2>2
<1>28. ASSUME NEW p \in Pids, Running(p), ChildStart(p), UNCHANGED loopVars
      PROVE  PProtocol'
  BY <1>28, SeqFacts DEF ChildStart, PTypeOK, ServerSide, PProtocol, AtRest,
     ServerAlive, FuzzerAlive, Running, Asleep, Alive, Fits, HelloWord, PidWord, Msg,
     NoneAlive
<1>29. ASSUME NEW p \in Pids, Running(p), ChildTrace(p), UNCHANGED loopVars
      PROVE  PProtocol'
  BY <1>29, SeqFacts DEF ChildTrace, PTypeOK, ServerSide, PProtocol, AtRest,
     ServerAlive, FuzzerAlive, Running, Asleep, Alive, Fits, HelloWord, PidWord, Msg,
     NoneAlive
<1>30. ASSUME NEW p \in Pids, Running(p), ChildEnd(p), UNCHANGED loopVars
      PROVE  PProtocol'
  BY <1>30, SeqFacts DEF ChildEnd, PTypeOK, ServerSide, PProtocol, AtRest,
     ServerAlive, FuzzerAlive, Running, Asleep, Alive, Fits, HelloWord, PidWord, Msg,
     NoneAlive
<1>31. ASSUME NEW p \in Pids, persistent_loop(p)
      PROVE  PProtocol'
  BY <1>31, SeqFacts DEF persistent_loop, PTypeOK, ServerSide, PProtocol, AtRest,
     ServerAlive, FuzzerAlive, Running, Asleep, Alive, Fits, HelloWord, PidWord, Msg,
     NoneAlive
<1>32. ASSUME NEW p \in Pids, InitReaps(p), UNCHANGED loopVars
      PROVE  PProtocol'
  BY <1>32, SeqFacts DEF InitReaps, PTypeOK, ServerSide, PProtocol, AtRest,
     ServerAlive, FuzzerAlive, Running, Asleep, Alive, Fits, HelloWord, PidWord, Msg,
     NoneAlive
<1> QED
  BY <1>1, <1>2, <1>3, <1>4, <1>5, <1>6, <1>7, <1>8, <1>9, <1>10, <1>11, <1>12, <1>13,
     <1>14, <1>15, <1>16, <1>17, <1>18, <1>19, <1>20, <1>21, <1>22, <1>23, <1>24, <1>25,
     <1>26, <1>27, <1>28, <1>29, <1>30, <1>31, <1>32 DEF PNext, FuzzerSide,
     FuzzerNext, SignalNext, PServerNext, LoopChild

(* The flags of afl-fuzz are Booleans: its own steps are those of ForkServer. *)
LEMMA PFlagsStep ==
  ASSUME FlagsOK, PNext
  PROVE  FlagsOK'
<1>1. CASE init_forkserver_Fork /\ UNCHANGED loopVars
  BY <1>1, FlagsStep DEF Next, FuzzerNext, SignalNext, ChildNext, KernelNext
<1>2. CASE init_forkserver_Arm /\ UNCHANGED loopVars
  BY <1>2, FlagsStep DEF Next, FuzzerNext, SignalNext, ChildNext, KernelNext
<1>3. CASE init_forkserver_Hello /\ UNCHANGED loopVars
  BY <1>3, FlagsStep DEF Next, FuzzerNext, SignalNext, ChildNext, KernelNext
<1>4. CASE init_forkserver_Disarm /\ UNCHANGED loopVars
  BY <1>4, FlagsStep DEF Next, FuzzerNext, SignalNext, ChildNext, KernelNext
<1>5. CASE run_target_Reset /\ UNCHANGED loopVars
  BY <1>5, FlagsStep DEF Next, FuzzerNext, SignalNext, ChildNext, KernelNext
<1>6. CASE run_target_Command /\ UNCHANGED loopVars
  BY <1>6, FlagsStep DEF Next, FuzzerNext, SignalNext, ChildNext, KernelNext
<1>7. CASE run_target_ReadPid /\ UNCHANGED loopVars
  BY <1>7, FlagsStep DEF Next, FuzzerNext, SignalNext, ChildNext, KernelNext
<1>8. CASE run_target_Arm /\ UNCHANGED loopVars
  BY <1>8, FlagsStep DEF Next, FuzzerNext, SignalNext, ChildNext, KernelNext
<1>9. CASE run_target_ReadStatus /\ UNCHANGED loopVars
  BY <1>9, FlagsStep DEF Next, FuzzerNext, SignalNext, ChildNext, KernelNext
<1>10. CASE run_target_ClearPid /\ UNCHANGED loopVars
  BY <1>10, FlagsStep DEF Next, FuzzerNext, SignalNext, ChildNext, KernelNext
<1>11. CASE run_target_Disarm /\ UNCHANGED loopVars
  BY <1>11, FlagsStep DEF Next, FuzzerNext, SignalNext, ChildNext, KernelNext
<1>12. CASE run_target_Report /\ UNCHANGED loopVars
  BY <1>12, FlagsStep DEF Next, FuzzerNext, SignalNext, ChildNext, KernelNext
<1>13. CASE FuzzerExit /\ UNCHANGED loopVars
  BY <1>13, FlagsStep DEF Next, FuzzerNext, SignalNext, ChildNext, KernelNext
<1>14. CASE FuzzerCrash /\ UNCHANGED loopVars
  BY <1>14, FlagsStep DEF Next, FuzzerNext, SignalNext, ChildNext, KernelNext
<1>15. CASE handle_timeout /\ UNCHANGED loopVars
  BY <1>15, FlagsStep DEF Next, FuzzerNext, SignalNext, ChildNext, KernelNext
<1>16. CASE handle_stop_sig_Child /\ UNCHANGED loopVars
  BY <1>16, FlagsStep DEF Next, FuzzerNext, SignalNext, ChildNext, KernelNext
<1>17. CASE handle_stop_sig_Server /\ UNCHANGED loopVars
  BY <1>17, FlagsStep DEF Next, FuzzerNext, SignalNext, ChildNext, KernelNext
<1>18. CASE ServerDies /\ UNCHANGED loopVars
  BY <1>18, FlagsStep DEF Next, FuzzerNext, SignalNext, ChildNext, KernelNext
<1>19. CASE afl_map_shm
  BY <1>19 DEF afl_map_shm, FlagsOK, fuzzerVars, vars
<1>20. CASE start_forkserver_Hello
  BY <1>20 DEF start_forkserver_Hello, afl_forkserver_Hello, FlagsOK, fuzzerVars, vars
<1>21. CASE start_forkserver_Await
  BY <1>21 DEF start_forkserver_Await, FlagsOK, fuzzerVars, vars
<1>22. CASE start_forkserver_WriteOff
  BY <1>22 DEF start_forkserver_WriteOff, MustWriteOff, FlagsOK, fuzzerVars, vars
<1>23. CASE start_forkserver_Fork
  BY <1>23 DEF start_forkserver_Fork, FlagsOK, fuzzerVars, vars
<1>24. CASE start_forkserver_Resume
  BY <1>24 DEF start_forkserver_Resume, MustWriteOff, FlagsOK, fuzzerVars, vars
<1>25. CASE start_forkserver_SendPid
  BY <1>25 DEF start_forkserver_SendPid, FlagsOK, fuzzerVars, vars
<1>26. CASE start_forkserver_Reap
  BY <1>26 DEF start_forkserver_Reap, FlagsOK, fuzzerVars, vars
<1>27. CASE start_forkserver_Relay
  BY <1>27 DEF start_forkserver_Relay, afl_forkserver_Relay, FlagsOK, fuzzerVars, vars
<1>28. ASSUME NEW p \in Pids, Running(p), ChildStart(p), UNCHANGED loopVars
      PROVE  FlagsOK'
  BY <1>28, FlagsStep DEF Next, FuzzerNext, SignalNext, ChildNext, KernelNext
<1>29. ASSUME NEW p \in Pids, Running(p), ChildTrace(p), UNCHANGED loopVars
      PROVE  FlagsOK'
  BY <1>29, FlagsStep DEF Next, FuzzerNext, SignalNext, ChildNext, KernelNext
<1>30. ASSUME NEW p \in Pids, Running(p), ChildEnd(p), UNCHANGED loopVars
      PROVE  FlagsOK'
  BY <1>30, FlagsStep DEF Next, FuzzerNext, SignalNext, ChildNext, KernelNext
<1>31. ASSUME NEW p \in Pids, persistent_loop(p)
      PROVE  FlagsOK'
  BY <1>31 DEF persistent_loop, FlagsOK, fuzzerVars, vars
<1>32. ASSUME NEW p \in Pids, InitReaps(p), UNCHANGED loopVars
      PROVE  FlagsOK'
  BY <1>32, FlagsStep DEF Next, FuzzerNext, SignalNext, ChildNext, KernelNext
<1> QED
  BY <1>1, <1>2, <1>3, <1>4, <1>5, <1>6, <1>7, <1>8, <1>9, <1>10, <1>11, <1>12, <1>13,
     <1>14, <1>15, <1>16, <1>17, <1>18, <1>19, <1>20, <1>21, <1>22, <1>23, <1>24, <1>25,
     <1>26, <1>27, <1>28, <1>29, <1>30, <1>31, <1>32 DEF PNext, FuzzerSide,
     FuzzerNext, SignalNext, PServerNext, LoopChild

(* Each step keeps the types.                                                *)
LEMMA PTypeStep ==
  ASSUME PInv, PNext, FlagsOK'
  PROVE  PTypeOK'
<1> USE PidsAssumption DEF PInv, fuzzerVars, serverVars, pipeVars, kernelVars, vars,
        loopVars
<1>1. CASE init_forkserver_Fork /\ UNCHANGED loopVars
  BY <1>1 DEF init_forkserver_Fork, PTypeOK, FuzzerPcs, PServerPcs
<1>2. CASE init_forkserver_Arm /\ UNCHANGED loopVars
  BY <1>2 DEF init_forkserver_Arm, PTypeOK, FuzzerPcs, PServerPcs
<1>3. CASE init_forkserver_Hello /\ UNCHANGED loopVars
  BY <1>3 DEF init_forkserver_Hello, ServerEnds, PTypeOK, FuzzerPcs, PServerPcs
<1>4. CASE init_forkserver_Disarm /\ UNCHANGED loopVars
  BY <1>4 DEF init_forkserver_Disarm, PTypeOK, FuzzerPcs, PServerPcs
<1>5. CASE run_target_Reset /\ UNCHANGED loopVars
  BY <1>5 DEF run_target_Reset, PTypeOK, FuzzerPcs, PServerPcs
<1>6. CASE run_target_Command /\ UNCHANGED loopVars
  <2>1. fpc' \in FuzzerPcs
    BY <1>6 DEF run_target_Command, BailOut, ServerEnds, PTypeOK, FuzzerPcs
  <2>2. ctl' \in Seq(CtlWords)
    BY <1>6, WordTypes DEF run_target_Command, BailOut, ServerEnds, PTypeOK, FlagsOK
  <2> QED
    BY <1>6, <2>1, <2>2 DEF run_target_Command, PTypeOK
<1>7. CASE run_target_ReadPid /\ UNCHANGED loopVars
  <2> USE <1>7 DEF run_target_ReadPid, BailOut
  <2>1. fpc' \in FuzzerPcs
    BY DEF FuzzerPcs
  <2>2. child_pid' \in Pids \cup {-1, 0}
    <3>1. CASE st # <<>>
      <4>1. ran \in Pids /\ Head(st) = PidWord
        BY <3>1, SeqFacts DEF PProtocol
      <4> QED
        BY <3>1, <4>1 DEF PidWord, Msg
    <3>2. CASE st = <<>>
      BY <3>2 DEF PTypeOK
    <3> QED
      BY <3>1, <3>2
  <2> QED
    BY <2>1, <2>2 DEF PTypeOK
<1>8. CASE run_target_Arm /\ UNCHANGED loopVars
  BY <1>8 DEF run_target_Arm, PTypeOK, FuzzerPcs, PServerPcs
<1>9. CASE run_target_ReadStatus /\ UNCHANGED loopVars
  <2> USE <1>9 DEF run_target_ReadStatus, BailOut
  <2>1. fpc' \in FuzzerPcs
    BY DEF FuzzerPcs
  <2>2. status' \in PStatuses
    <3>1. CASE st # <<>>
      <4>1. PICK s \in PStatuses : st = <<Msg("status", s)>>
        BY <3>1 DEF PProtocol
      <4> QED
        BY <3>1, <4>1, SeqFacts DEF Msg
    <3>2. CASE st = <<>>
      BY <3>2 DEF PTypeOK
    <3> QED
      BY <3>1, <3>2
  <2> QED
    BY <2>1, <2>2 DEF PTypeOK
<1>10. CASE run_target_ClearPid /\ UNCHANGED loopVars
  BY <1>10 DEF run_target_ClearPid, PTypeOK, FuzzerPcs, PServerPcs
<1>11. CASE run_target_Disarm /\ UNCHANGED loopVars
  BY <1>11 DEF run_target_Disarm, PTypeOK, FuzzerPcs, PServerPcs
<1>12. CASE run_target_Report /\ UNCHANGED loopVars
  <2>1. fpc' \in FuzzerPcs
    BY <1>12 DEF run_target_Report, Fault, PTypeOK, FuzzerPcs
  <2>2. verdict' \in Faults
    BY <1>12 DEF run_target_Report, Fault, PTypeOK, Faults
  <2> QED
    BY <1>12, <2>1, <2>2 DEF run_target_Report, PTypeOK
<1>13. CASE FuzzerExit /\ UNCHANGED loopVars
  BY <1>13 DEF FuzzerExit, PTypeOK, FuzzerPcs, PServerPcs
<1>14. CASE FuzzerCrash /\ UNCHANGED loopVars
  BY <1>14 DEF FuzzerCrash, PTypeOK, FuzzerPcs, PServerPcs
<1>15. CASE handle_timeout /\ UNCHANGED loopVars
  <2>1. spc' \in PServerPcs
    BY <1>15 DEF handle_timeout, KilledProc, KilledExit, PTypeOK, PServerPcs
  <2>2. proc' \in [Pids -> ProcStates]
    BY <1>15 DEF handle_timeout, KilledProc, KilledExit, PTypeOK, ProcStates
  <2>3. exitst' \in [Pids -> Statuses]
    BY <1>15 DEF handle_timeout, KilledProc, KilledExit, PTypeOK, Statuses
  <2> QED
    BY <1>15, <2>1, <2>2, <2>3 DEF handle_timeout, PTypeOK
<1>16. CASE handle_stop_sig_Child /\ UNCHANGED loopVars
  <2>1. proc' \in [Pids -> ProcStates]
    BY <1>16 DEF handle_stop_sig_Child, KilledProc, KilledExit, PTypeOK, ProcStates
  <2>2. exitst' \in [Pids -> Statuses]
    BY <1>16 DEF handle_stop_sig_Child, KilledProc, KilledExit, PTypeOK, Statuses
  <2> QED
    BY <1>16, <2>1, <2>2 DEF handle_stop_sig_Child, PTypeOK
<1>17. CASE handle_stop_sig_Server /\ UNCHANGED loopVars
  BY <1>17 DEF handle_stop_sig_Server, PTypeOK, FuzzerPcs, PServerPcs
<1>18. CASE ServerDies /\ UNCHANGED loopVars
  BY <1>18 DEF ServerDies, PTypeOK, FuzzerPcs, PServerPcs
<1>19. CASE afl_map_shm
  BY <1>19 DEF afl_map_shm, PTypeOK, FuzzerPcs, PServerPcs
<1>20. CASE start_forkserver_Hello
  BY <1>20 DEF start_forkserver_Hello, afl_forkserver_Hello, PTypeOK, FuzzerPcs,
     PServerPcs
<1>21. CASE start_forkserver_Await
  <2>1. spc' \in PServerPcs
    BY <1>21 DEF start_forkserver_Await, PTypeOK, PServerPcs
  <2>2. CASE ctl # <<>>
    <3>1. Tail(ctl) \in Seq(CtlWords) /\ Head(ctl) \in CtlWords /\ ctl \in Seq(CtlWords)
      BY <2>2, TailType DEF PTypeOK
    <3>2. Head(ctl).val \in BOOLEAN
      BY <3>1 DEF CtlWords
    <3>3. ctl' = Tail(ctl) /\ was_killed' = Head(ctl).val
      BY <1>21, <2>2 DEF start_forkserver_Await
    <3> QED
      BY <1>21, <2>1, <3>1, <3>2, <3>3 DEF start_forkserver_Await, PTypeOK
  <2>3. CASE ctl = <<>>
    BY <1>21, <2>1, <2>3 DEF start_forkserver_Await, PTypeOK
  <2> QED
    BY <2>2, <2>3
<1>22. CASE start_forkserver_WriteOff
  <2>1. proc' \in [Pids -> ProcStates]
    BY <1>22 DEF start_forkserver_WriteOff, MustWriteOff, PTypeOK, ProcStates
  <2>2. srv_status' \in PStatuses
    BY <1>22 DEF start_forkserver_WriteOff, MustWriteOff, PTypeOK, ServerSide, ServerAlive, PStatuses
  <2> QED
    BY <1>22, <2>1, <2>2 DEF start_forkserver_WriteOff, PTypeOK
<1>23. CASE start_forkserver_Fork
  <2>1. spc' \in PServerPcs
    BY <1>23 DEF start_forkserver_Fork, PTypeOK, PServerPcs
  <2>2. proc' \in [Pids -> ProcStates]
    BY <1>23 DEF start_forkserver_Fork, PTypeOK, ProcStates
  <2>3. srv_child' \in Pids \cup {0} /\ ran' \in Pids \cup {0} /\ halted' \subseteq Pids
    BY <1>23 DEF start_forkserver_Fork, PTypeOK
  <2> QED
    BY <1>23, <2>1, <2>2, <2>3 DEF start_forkserver_Fork, PTypeOK
<1>24. CASE start_forkserver_Resume
  BY <1>24 DEF start_forkserver_Resume, MustWriteOff, PTypeOK, FuzzerPcs, PServerPcs
<1>25. CASE start_forkserver_SendPid
  BY <1>25 DEF start_forkserver_SendPid, PTypeOK, FuzzerPcs, PServerPcs
<1>26. CASE start_forkserver_Reap
  <2>1. spc' \in PServerPcs
    BY <1>26 DEF start_forkserver_Reap, PTypeOK, PServerPcs
  <2>2. proc' \in [Pids -> ProcStates]
    BY <1>26 DEF start_forkserver_Reap, PTypeOK, ProcStates
  <2>3. srv_status' \in PStatuses
    BY <1>26 DEF start_forkserver_Reap, PTypeOK, ServerSide, PStatuses
  <2>4. child_stopped' \in BOOLEAN
    BY <1>26, Zenon DEF start_forkserver_Reap, PTypeOK, PInv
  <2> QED
    BY <1>26, <2>1, <2>2, <2>3, <2>4 DEF start_forkserver_Reap, PTypeOK
<1>27. CASE start_forkserver_Relay
  BY <1>27 DEF start_forkserver_Relay, afl_forkserver_Relay, PTypeOK, FuzzerPcs,
     PServerPcs
<1>28. ASSUME NEW p \in Pids, Running(p), ChildStart(p), UNCHANGED loopVars
      PROVE  PTypeOK'
  <2>1. proc' \in [Pids -> ProcStates]
    BY <1>28 DEF ChildStart, PTypeOK, ProcStates
  <2> QED
    BY <1>28, <2>1 DEF ChildStart, PTypeOK
<1>29. ASSUME NEW p \in Pids, Running(p), ChildTrace(p), UNCHANGED loopVars
      PROVE  PTypeOK'
  BY <1>29 DEF ChildTrace, PTypeOK, FuzzerPcs, PServerPcs
<1>30. ASSUME NEW p \in Pids, Running(p), ChildEnd(p), UNCHANGED loopVars
      PROVE  PTypeOK'
  <2>1. proc' \in [Pids -> ProcStates]
    BY <1>30 DEF ChildEnd, PTypeOK, ProcStates
  <2>2. exitst' \in [Pids -> Statuses]
    BY <1>30 DEF ChildEnd, PTypeOK, Statuses
  <2> QED
    BY <1>30, <2>1, <2>2 DEF ChildEnd, PTypeOK
<1>31. ASSUME NEW p \in Pids, persistent_loop(p)
      PROVE  PTypeOK'
  BY <1>31 DEF persistent_loop, PTypeOK, FuzzerPcs, PServerPcs
<1>32. ASSUME NEW p \in Pids, InitReaps(p), UNCHANGED loopVars
      PROVE  PTypeOK'
  <2>1. proc' \in [Pids -> ProcStates]
    BY <1>32 DEF InitReaps, PTypeOK, ProcStates
  <2> QED
    BY <1>32, <2>1 DEF InitReaps, PTypeOK
<1> QED
  BY <1>1, <1>2, <1>3, <1>4, <1>5, <1>6, <1>7, <1>8, <1>9, <1>10, <1>11, <1>12, <1>13,
     <1>14, <1>15, <1>16, <1>17, <1>18, <1>19, <1>20, <1>21, <1>22, <1>23, <1>24, <1>25,
     <1>26, <1>27, <1>28, <1>29, <1>30, <1>31, <1>32 DEF PNext, FuzzerSide,
     FuzzerNext, SignalNext, PServerNext, LoopChild


(* afl-fuzz starts with nothing under way and nobody asleep.                *)
LEMMA PInitInv == PInit => PInv
<1> SUFFICES ASSUME PInit PROVE PInv
  OBVIOUS
<1> USE DEF PInit, Init
<1>1. PTypeOK
  <2>1. FlagsOK
    BY Zenon DEF FlagsOK
  <2>2. proc \in [Pids -> ProcStates] /\ exitst \in [Pids -> Statuses]
    BY DEF ProcStates, Statuses
  <2>3. /\ fpc \in FuzzerPcs /\ spc \in PServerPcs /\ ctl \in Seq(CtlWords)
        /\ status \in PStatuses /\ srv_status \in PStatuses /\ verdict \in Faults
    BY DEF FuzzerPcs, PServerPcs, PStatuses, Statuses, Faults
  <2> QED
    BY <2>1, <2>2, <2>3 DEF PTypeOK
<1>2. ServerSide /\ KillKnown
  BY DEF ServerSide, KillKnown, ServerAlive, Knows
<1>3. PidHeld
  BY PidsAssumption DEF PidHeld, ServerAlive
<1>4. PProtocol
  BY DEF PProtocol, NoneAlive, Alive
<1>5. PKillsExplained
  BY DEF PKillsExplained
<1> QED
  BY <1>1, <1>2, <1>3, <1>4, <1>5 DEF PInv

(* A step that changes nothing keeps the invariant.                         *)
LEMMA PStutter ==
  ASSUME PInv, UNCHANGED pvars
  PROVE  PInv'
<1> USE DEF pvars, loopVars, vars, fuzzerVars, serverVars, pipeVars, kernelVars
<1>1. PTypeOK' /\ PidHeld'
  BY DEF PInv, PTypeOK, FlagsOK, PidHeld, ServerAlive
<1>2. ServerSide' /\ KillKnown' /\ PKillsExplained'
  BY DEF PInv, ServerSide, KillKnown, Knows, PKillsExplained, ServerAlive, FuzzerAlive,
         Alive, Fits
<1>3. PProtocol'
  BY DEF PInv, PProtocol, AtRest, NoneAlive, Alive, Running, Fits, PidWord, HelloWord
<1> QED
  BY <1>1, <1>2, <1>3 DEF PInv

(* The invariant holds, for every set of process ids and every MaxCnt.      *)
THEOREM PersistentInvariant == PSpec => []PInv
<1>1. PInv /\ [PNext]_pvars => PInv'
  <2> SUFFICES ASSUME PInv, [PNext]_pvars PROVE PInv'
    OBVIOUS
  <2>1. CASE PNext
    <3>1. FlagsOK'
      BY <2>1, PFlagsStep DEF PInv, PTypeOK
    <3>2. PTypeOK' /\ ServerSide' /\ KillKnown'
      BY <2>1, <3>1, PTypeStep, ServerSideStep, KillKnownStep
    <3>3. PidHeld' /\ PProtocol' /\ PKillsExplained'
      BY <2>1, PidHeldStep, PProtocolStep, PKillsStep
    <3> QED
      BY <3>2, <3>3 DEF PInv
  <2>2. CASE UNCHANGED pvars
    BY <2>2, PStutter
  <2> QED
    BY <2>1, <2>2
<1> QED
  BY <1>1, PInitInv, PTL DEF PSpec

\* A child runs only for the command under way, whatever timeouts, stops, crashes
\* and deaths of the server intervene.
THEOREM ChildrenRunOnCommand == PSpec => []RunsOnCommand
<1>1. ASSUME PInv PROVE RunsOnCommand
  BY <1>1 DEF PInv, RunsOnCommand, ServerSide, PProtocol, AtRest, ServerAlive, Running,
              PTypeOK, FuzzerPcs
<1> QED
  BY <1>1, PersistentInvariant, PTL

\* When the server decides between waking and forking, its flag and the word of the
\* command tell it truly whether the child is asleep, dead, or not there.
THEOREM StopFlagIsExact == PSpec => []StopFlagExact
<1>1. ASSUME PInv PROVE StopFlagExact
  BY <1>1 DEF PInv, StopFlagExact, ServerSide, KillKnown, Knows, ServerAlive, Asleep,
              NoneAlive, PTypeOK
<1> QED
  BY <1>1, PersistentInvariant, PTL

-----------------------------------------------------------------------------
(* The refinement.                                                          *)

(* A step that changes none of the abstract variables.                      *)
LEMMA LoopRunnerStutters ==
  ASSUME Phase' = Phase, PRanState' = PRanState, PRanHow' = PRanHow,
         UNCHANGED <<child_timed_out, stop_soon, verdict>>
  PROVE  UNCHANGED LoopRunner!vars
BY DEF LoopRunner!vars

(* The abstract child is the same when the one of this run neither starts    *)
(* nor stops running.  What happens to it in its sleep does not matter.      *)
LEMMA PRanFrame ==
  ASSUME ran' = ran,
         ran # 0 => /\ Running(ran)' <=> Running(ran)
                    /\ ran \in halted' <=> ran \in halted
                    /\ Running(ran) \/ ran \in halted \/ exitst'[ran] = exitst[ran]
  PROVE  PRanState' = PRanState /\ PRanHow' = PRanHow
BY DEF PRanState, PRanHow

(* SIGKILL ends the child of this run if it is running; asleep, it has       *)
(* already ended for run_target()'s callers.                                 *)
LEMMA PKillEffect ==
  ASSUME PTypeOK, NEW v \in Pids, ran \in Pids, ran' = ran, halted' = halted,
         proc' = KilledProc(proc, v), exitst' = KilledExit(v)
  PROVE  \/ PRanState = "alive" /\ PRanState' = "ended" /\ PRanHow' = "kill"
         \/ PRanState' = PRanState /\ PRanHow' = PRanHow
<1>1. CASE v = ran /\ Running(ran)
  <2>1. proc'[ran] = "zombie" /\ exitst'[ran] = "kill" /\ ran \notin halted'
    BY <1>1 DEF PTypeOK, KilledProc, KilledExit, Alive, Running
  <2> QED
    BY <1>1, <2>1, PidsAssumption DEF PRanState, PRanHow, Alive, Running
<1>2. CASE ran \in halted
  BY <1>2, PRanFrame DEF Running
<1>3. CASE ran \notin halted /\ ~(v = ran /\ Alive(ran))
  <2>1. proc'[ran] \in {"born", "run"} <=> proc[ran] \in {"born", "run"}
    BY <1>3 DEF PTypeOK, KilledProc, Alive
  <2>2. exitst'[ran] = exitst[ran]
    BY <1>3 DEF PTypeOK, KilledExit, Alive
  <2> QED
    BY <2>1, <2>2, PRanFrame DEF Alive, Running
<1> QED
  BY <1>1, <1>2, <1>3 DEF Running

(* Every step is a step of the abstract runner or none.                     *)
LEMMA LoopRunnerStep ==
  ASSUME PInv, PNext
  PROVE  LoopRunner!Next \/ UNCHANGED LoopRunner!vars
<1> USE PidsAssumption DEF PInv, fuzzerVars, serverVars, pipeVars, kernelVars, vars,
        loopVars
<1>1. CASE init_forkserver_Fork /\ UNCHANGED loopVars
  <2>1. Phase' = Phase
    BY <1>1 DEF init_forkserver_Fork, Phase
  <2>2. PRanState' = PRanState /\ PRanHow' = PRanHow
    BY <1>1, PRanFrame DEF init_forkserver_Fork, Running, Alive, PTypeOK
  <2> QED
    BY <1>1, <2>1, <2>2, LoopRunnerStutters DEF init_forkserver_Fork
<1>2. CASE init_forkserver_Arm /\ UNCHANGED loopVars
  <2>1. Phase' = Phase
    BY <1>2 DEF init_forkserver_Arm, Phase
  <2>2. PRanState' = PRanState /\ PRanHow' = PRanHow
    BY <1>2, PRanFrame DEF init_forkserver_Arm, Running, Alive, PTypeOK
  <2> QED
    BY <1>2, <2>1, <2>2, LoopRunnerStutters DEF init_forkserver_Arm
<1>3. CASE init_forkserver_Hello /\ UNCHANGED loopVars
  <2>1. Phase' = Phase
    BY <1>3 DEF init_forkserver_Hello, Phase
  <2>2. PRanState' = PRanState /\ PRanHow' = PRanHow
    BY <1>3, PRanFrame DEF init_forkserver_Hello, Running, Alive, PTypeOK
  <2> QED
    BY <1>3, <2>1, <2>2, LoopRunnerStutters DEF init_forkserver_Hello
<1>4. CASE init_forkserver_Disarm /\ UNCHANGED loopVars
  <2>1. Phase = "starting" /\ Phase' \in {"idle", "gone"}
    BY <1>4 DEF init_forkserver_Disarm, Phase
  <2>2. PRanState' = PRanState /\ PRanHow' = PRanHow
    BY <1>4, PRanFrame DEF init_forkserver_Disarm, Running, Alive
  <2> QED
    BY <1>4, <2>1, <2>2 DEF init_forkserver_Disarm, LoopRunner!Next, LoopRunner!Ready
<1>5. CASE run_target_Reset /\ UNCHANGED loopVars
  <2>1. Phase = "idle" /\ Phase' = "running"
    BY <1>5 DEF run_target_Reset, Phase
  <2>2. PRanState' = "none" /\ PRanHow' = "ok"
    BY <1>5 DEF run_target_Reset, PRanState, PRanHow
  <2> QED
    BY <1>5, <2>1, <2>2 DEF run_target_Reset, LoopRunner!Next, LoopRunner!Begin
<1>6. CASE run_target_Command /\ UNCHANGED loopVars
  <2>1. PRanState' = PRanState /\ PRanHow' = PRanHow
    BY <1>6, PRanFrame DEF run_target_Command, Running, Alive
  <2>2. CASE Phase' = Phase
    BY <1>6, <2>1, <2>2, LoopRunnerStutters DEF run_target_Command
  <2>3. CASE fpc' \in {"idle", "gone"}
    <3>1. /\ Phase = "running" /\ Phase' \in {"idle", "gone"}
          /\ Phase' = "idle" => stop_soon
      BY <1>6, <2>3 DEF run_target_Command, BailOut, Phase
    <3> QED
      BY <1>6, <2>1, <3>1 DEF run_target_Command, LoopRunner!Next, LoopRunner!GiveUp
  <2> QED
    BY <1>6, <2>2, <2>3 DEF run_target_Command, BailOut, Phase
<1>7. CASE run_target_ReadPid /\ UNCHANGED loopVars
  <2>1. PRanState' = PRanState /\ PRanHow' = PRanHow
    BY <1>7, PRanFrame DEF run_target_ReadPid, Running, Alive
  <2>2. CASE Phase' = Phase
    BY <1>7, <2>1, <2>2, LoopRunnerStutters DEF run_target_ReadPid
  <2>3. CASE fpc' \in {"idle", "gone"}
    <3>1. /\ Phase = "running" /\ Phase' \in {"idle", "gone"}
          /\ Phase' = "idle" => stop_soon
      BY <1>7, <2>3, SeqFacts DEF run_target_ReadPid, BailOut, Phase
    <3> QED
      BY <1>7, <2>1, <3>1 DEF run_target_ReadPid, LoopRunner!Next, LoopRunner!GiveUp
  <2> QED
    BY <1>7, <2>2, <2>3 DEF run_target_ReadPid, BailOut, Phase
<1>8. CASE run_target_Arm /\ UNCHANGED loopVars
  <2>1. Phase' = Phase
    BY <1>8 DEF run_target_Arm, Phase
  <2>2. PRanState' = PRanState /\ PRanHow' = PRanHow
    BY <1>8, PRanFrame DEF run_target_Arm, Running, Alive, PTypeOK
  <2> QED
    BY <1>8, <2>1, <2>2, LoopRunnerStutters DEF run_target_Arm
<1>9. CASE run_target_ReadStatus /\ UNCHANGED loopVars
  <2>1. PRanState' = PRanState /\ PRanHow' = PRanHow
    BY <1>9, PRanFrame DEF run_target_ReadStatus, Running, Alive
  <2>2. CASE Phase' = Phase
    BY <1>9, <2>1, <2>2, LoopRunnerStutters DEF run_target_ReadStatus
  <2>3. CASE fpc' \in {"idle", "gone"}
    <3>1. /\ Phase = "running" /\ Phase' \in {"idle", "gone"}
          /\ Phase' = "idle" => stop_soon
      BY <1>9, <2>3 DEF run_target_ReadStatus, BailOut, Phase
    <3> QED
      BY <1>9, <2>1, <3>1 DEF run_target_ReadStatus, LoopRunner!Next, LoopRunner!GiveUp
  <2> QED
    BY <1>9, <2>2, <2>3 DEF run_target_ReadStatus, BailOut, Phase
<1>10. CASE run_target_ClearPid /\ UNCHANGED loopVars
  <2>1. Phase' = Phase
    BY <1>10 DEF run_target_ClearPid, Phase
  <2>2. PRanState' = PRanState /\ PRanHow' = PRanHow
    BY <1>10, PRanFrame DEF run_target_ClearPid, Running, Alive, PTypeOK
  <2> QED
    BY <1>10, <2>1, <2>2, LoopRunnerStutters DEF run_target_ClearPid
<1>11. CASE run_target_Disarm /\ UNCHANGED loopVars
  <2>1. Phase' = Phase
    BY <1>11 DEF run_target_Disarm, Phase
  <2>2. PRanState' = PRanState /\ PRanHow' = PRanHow
    BY <1>11, PRanFrame DEF run_target_Disarm, Running, Alive, PTypeOK
  <2> QED
    BY <1>11, <2>1, <2>2, LoopRunnerStutters DEF run_target_Disarm
<1>12. CASE run_target_Report /\ UNCHANGED loopVars
  <2>1. Phase = "running" /\ Phase' = "idle"
    BY <1>12 DEF run_target_Report, Phase
  <2>2. PRanState' = PRanState /\ PRanHow' = PRanHow
    BY <1>12, PRanFrame DEF run_target_Report, Running, Alive
  <2>3. ran \in Pids /\ ran # 0 /\ Fits(status) /\ ~Running(ran)
    BY <1>12 DEF run_target_Report, PProtocol
  <2>4. PRanState = "ended" /\ (ran \notin halted => ~Alive(ran) /\ PRanHow = status)
        /\ (ran \in halted => PRanHow = "ok")
    BY <2>3 DEF PRanState, PRanHow, Fits, Running
  <2>5. /\ ran \notin halted /\ status = "kill" => child_timed_out \/ stop_soon
        /\ ran \in halted =>
             status = "stop" \/ (status = "kill" /\ (child_timed_out \/ stop_soon))
    BY <2>3, <2>4 DEF PKillsExplained, Fits
  <2>6. LoopRunner!Deserves(PRanHow, verdict')
    BY <1>12, <2>4, <2>5 DEF run_target_Report, Fault, Signaled, NonZeroExit,
       LoopRunner!Deserves, LoopRunner!Failure, PTypeOK, PStatuses, Statuses
  <2> QED
    BY <1>12, <2>1, <2>2, <2>4, <2>6 DEF run_target_Report, LoopRunner!Next,
       LoopRunner!Deliver
<1>13. CASE FuzzerExit /\ UNCHANGED loopVars
  <2>1. Phase' = "gone"
    BY <1>13 DEF FuzzerExit, Phase
  <2>2. PRanState' = PRanState /\ PRanHow' = PRanHow
    BY <1>13, PRanFrame DEF FuzzerExit, Running, Alive
  <2> QED
    BY <1>13, <2>1, <2>2 DEF FuzzerExit, LoopRunner!Next, LoopRunner!GiveUp
<1>14. CASE FuzzerCrash /\ UNCHANGED loopVars
  <2>1. Phase' = "gone"
    BY <1>14 DEF FuzzerCrash, Phase
  <2>2. PRanState' = PRanState /\ PRanHow' = PRanHow
    BY <1>14, PRanFrame DEF FuzzerCrash, Running, Alive
  <2> QED
    BY <1>14, <2>1, <2>2 DEF FuzzerCrash, LoopRunner!Next, LoopRunner!GiveUp
<1>15. CASE handle_timeout /\ UNCHANGED loopVars
  <2>1. Phase' = Phase
    BY <1>15 DEF handle_timeout, Phase
  <2>2. CASE child_pid > 0
    <3>1. child_pid \in Pids /\ proc' = KilledProc(proc, child_pid)
          /\ exitst' = KilledExit(child_pid) /\ child_timed_out' = TRUE
      BY <1>15, <2>2 DEF handle_timeout, PTypeOK
    <3>2. \/ PRanState = "alive" /\ PRanState' = "ended" /\ PRanHow' = "kill"
          \/ PRanState' = PRanState /\ PRanHow' = PRanHow
      <4>1. CASE ran = 0
        BY <1>15, <4>1, PRanFrame DEF handle_timeout
      <4>2. CASE ran \in Pids
        BY <1>15, <3>1, <4>2, PKillEffect DEF handle_timeout
      <4> QED
        BY <4>1, <4>2 DEF PTypeOK
    <3> QED
      BY <1>15, <2>1, <3>1, <3>2 DEF handle_timeout, LoopRunner!Next, LoopRunner!Timeout
  <2>3. CASE ~(child_pid > 0)
    <3>1. PRanState' = PRanState /\ PRanHow' = PRanHow
      BY <1>15, <2>3, PRanFrame DEF handle_timeout, Running, Alive
    <3>2. CASE child_timed_out' = TRUE
      BY <1>15, <2>1, <3>1, <3>2 DEF handle_timeout, LoopRunner!Next, LoopRunner!Timeout
    <3>3. CASE UNCHANGED child_timed_out
      BY <1>15, <2>1, <3>1, <3>3, LoopRunnerStutters DEF handle_timeout
    <3> QED
      BY <1>15, <2>3, <3>2, <3>3 DEF handle_timeout
  <2> QED
    BY <2>2, <2>3
<1>16. CASE handle_stop_sig_Child /\ UNCHANGED loopVars
  <2>1. Phase' = Phase
    BY <1>16 DEF handle_stop_sig_Child, Phase
  <2>2. \/ PRanState = "alive" /\ PRanState' = "ended" /\ PRanHow' = "kill"
        \/ PRanState' = PRanState /\ PRanHow' = PRanHow
    <3>1. CASE child_pid > 0 /\ ran \in Pids
      <4>1. child_pid \in Pids
        BY <3>1 DEF PTypeOK
      <4> QED
        BY <1>16, <3>1, <4>1, PKillEffect DEF handle_stop_sig_Child
    <3>2. CASE ~(child_pid > 0) \/ ran = 0
      BY <1>16, <3>2, PRanFrame DEF handle_stop_sig_Child, Running, Alive
    <3> QED
      BY <3>1, <3>2 DEF PTypeOK
  <2> QED
    BY <1>16, <2>1, <2>2 DEF handle_stop_sig_Child, LoopRunner!Next, LoopRunner!Stop
<1>17. CASE handle_stop_sig_Server /\ UNCHANGED loopVars
  <2>1. Phase' = Phase
    BY <1>17 DEF handle_stop_sig_Server, Phase
  <2>2. PRanState' = PRanState /\ PRanHow' = PRanHow
    BY <1>17, PRanFrame DEF handle_stop_sig_Server, Running, Alive, PTypeOK
  <2> QED
    BY <1>17, <2>1, <2>2, LoopRunnerStutters DEF handle_stop_sig_Server
<1>18. CASE ServerDies /\ UNCHANGED loopVars
  <2>1. Phase' = Phase
    BY <1>18 DEF ServerDies, Phase
  <2>2. PRanState' = PRanState /\ PRanHow' = PRanHow
    BY <1>18, PRanFrame DEF ServerDies, Running, Alive, PTypeOK
  <2> QED
    BY <1>18, <2>1, <2>2, LoopRunnerStutters DEF ServerDies
<1>19. CASE afl_map_shm
  <2>1. Phase' = Phase
    BY <1>19 DEF afl_map_shm, Phase
  <2>2. PRanState' = PRanState /\ PRanHow' = PRanHow
    BY <1>19, PRanFrame DEF afl_map_shm, Running, Alive, PTypeOK
  <2> QED
    BY <1>19, <2>1, <2>2, LoopRunnerStutters DEF afl_map_shm
<1>20. CASE start_forkserver_Hello
  <2>1. Phase' = Phase
    BY <1>20 DEF start_forkserver_Hello, afl_forkserver_Hello, Phase
  <2>2. PRanState' = PRanState /\ PRanHow' = PRanHow
    BY <1>20, PRanFrame DEF start_forkserver_Hello, afl_forkserver_Hello, Running, Alive, PTypeOK
  <2> QED
    BY <1>20, <2>1, <2>2, LoopRunnerStutters DEF start_forkserver_Hello, afl_forkserver_Hello
<1>21. CASE start_forkserver_Await
  <2>1. Phase' = Phase
    BY <1>21 DEF start_forkserver_Await, Phase
  <2>2. PRanState' = PRanState /\ PRanHow' = PRanHow
    BY <1>21, PRanFrame DEF start_forkserver_Await, Running, Alive, PTypeOK
  <2> QED
    BY <1>21, <2>1, <2>2, LoopRunnerStutters DEF start_forkserver_Await
<1>22. CASE start_forkserver_WriteOff
  <2>1. Phase' = Phase
    BY <1>22 DEF start_forkserver_WriteOff, MustWriteOff, Phase
  <2>2. PRanState' = PRanState /\ PRanHow' = PRanHow
    BY <1>22, PRanFrame DEF start_forkserver_WriteOff, MustWriteOff, Running, Alive, PTypeOK, ServerSide, ServerAlive
  <2> QED
    BY <1>22, <2>1, <2>2, LoopRunnerStutters DEF start_forkserver_WriteOff, MustWriteOff
<1>23. CASE start_forkserver_Fork
  <2>1. CASE ran' = ran
    <3>1. Phase' = Phase
      BY <1>23 DEF start_forkserver_Fork, Phase
    <3>2. PRanState' = PRanState /\ PRanHow' = PRanHow
      BY <1>23, <2>1, PRanFrame DEF start_forkserver_Fork, ServerSide
    <3> QED
      BY <1>23, <3>1, <3>2, LoopRunnerStutters DEF start_forkserver_Fork
  <2>2. CASE \E p \in Pids : /\ ran' = p /\ proc' = [proc EXCEPT ![p] = "born"]
                            /\ halted' = halted \ {p}
    <3>1. Phase' = Phase /\ Phase \in {"running", "gone"}
      BY <1>23 DEF start_forkserver_Fork, ServerSide, Phase
    <3>2. PRanState = "none" /\ PRanHow = "ok"
      BY <1>23 DEF start_forkserver_Fork, ServerSide, PRanState, PRanHow
    <3>3. PRanState' = "alive" /\ PRanHow' = "ok"
      BY <2>2 DEF PRanState, PRanHow, Running, Alive, PTypeOK
    <3> QED
      BY <1>23, <3>1, <3>2, <3>3 DEF start_forkserver_Fork, LoopRunner!Next,
         LoopRunner!Launch
  <2> QED
    BY <1>23, <2>1, <2>2 DEF start_forkserver_Fork
<1>24. CASE start_forkserver_Resume
  <2>1. Phase' = Phase /\ Phase \in {"running", "gone"}
    BY <1>24 DEF start_forkserver_Resume, ServerSide, Phase
  <2>2. PRanState = "none" /\ PRanHow = "ok"
    BY <1>24 DEF start_forkserver_Resume, ServerSide, PRanState, PRanHow
  <2>3. srv_child \in Pids /\ Alive(srv_child) /\ proc' = proc
        /\ ran' = srv_child /\ halted' = halted \ {srv_child}
    BY <1>24 DEF start_forkserver_Resume, MustWriteOff, ServerSide, ServerAlive, KillKnown,
       Knows
  <2>4. PRanState' = "alive" /\ PRanHow' = "ok"
    BY <2>3 DEF PRanState, PRanHow, Running, Alive
  <2> QED
    BY <1>24, <2>1, <2>2, <2>4 DEF start_forkserver_Resume, LoopRunner!Next,
       LoopRunner!Launch
<1>25. CASE start_forkserver_SendPid
  <2>1. Phase' = Phase
    BY <1>25 DEF start_forkserver_SendPid, Phase
  <2>2. PRanState' = PRanState /\ PRanHow' = PRanHow
    BY <1>25, PRanFrame DEF start_forkserver_SendPid, Running, Alive, PTypeOK
  <2> QED
    BY <1>25, <2>1, <2>2, LoopRunnerStutters DEF start_forkserver_SendPid
<1>26. CASE start_forkserver_Reap
  <2>1. Phase' = Phase
    BY <1>26 DEF start_forkserver_Reap, Phase
  <2>2. PRanState' = PRanState /\ PRanHow' = PRanHow
    BY <1>26, PRanFrame DEF start_forkserver_Reap, Running, Alive, PTypeOK, ServerSide, ServerAlive
  <2> QED
    BY <1>26, <2>1, <2>2, LoopRunnerStutters DEF start_forkserver_Reap
<1>27. CASE start_forkserver_Relay
  <2>1. Phase' = Phase
    BY <1>27 DEF start_forkserver_Relay, afl_forkserver_Relay, Phase
  <2>2. PRanState' = PRanState /\ PRanHow' = PRanHow
    BY <1>27, PRanFrame DEF start_forkserver_Relay, afl_forkserver_Relay, Running, Alive, PTypeOK
  <2> QED
    BY <1>27, <2>1, <2>2, LoopRunnerStutters DEF start_forkserver_Relay, afl_forkserver_Relay
<1>28. ASSUME NEW p \in Pids, Running(p), ChildStart(p), UNCHANGED loopVars
      PROVE  LoopRunner!Next \/ UNCHANGED LoopRunner!vars
  <2>1. Phase' = Phase
    BY <1>28 DEF ChildStart, Phase
  <2>2. PRanState' = PRanState /\ PRanHow' = PRanHow
    BY <1>28, PRanFrame DEF ChildStart, Running, Alive, PTypeOK
  <2> QED
    BY <1>28, <2>1, <2>2, LoopRunnerStutters DEF ChildStart
<1>29. ASSUME NEW p \in Pids, Running(p), ChildTrace(p), UNCHANGED loopVars
      PROVE  LoopRunner!Next \/ UNCHANGED LoopRunner!vars
  <2>1. Phase' = Phase
    BY <1>29 DEF ChildTrace, Phase
  <2>2. PRanState' = PRanState /\ PRanHow' = PRanHow
    BY <1>29, PRanFrame DEF ChildTrace, Running, Alive, PTypeOK
  <2> QED
    BY <1>29, <2>1, <2>2, LoopRunnerStutters DEF ChildTrace
<1>30. ASSUME NEW p \in Pids, Running(p), ChildEnd(p), UNCHANGED loopVars
      PROVE  LoopRunner!Next \/ UNCHANGED LoopRunner!vars
  <2>1. Phase' = Phase
    BY <1>30 DEF ChildEnd, Phase
  <2>2. CASE p = ran
    <3>1. PRanState = "alive" /\ PRanState' = "ended" /\ PRanHow' \in Statuses
      BY <1>30, <2>2 DEF ChildEnd, PRanState, PRanHow, Running, Alive, PTypeOK
    <3> QED
      BY <1>30, <2>1, <3>1 DEF ChildEnd, LoopRunner!Next, LoopRunner!End,
         LoopRunner!Ends, Statuses
  <2>3. CASE p # ran
    <3>1. PRanState' = PRanState /\ PRanHow' = PRanHow
      BY <1>30, <2>3, PRanFrame DEF ChildEnd, Running, Alive, PTypeOK
    <3> QED
      BY <1>30, <2>1, <3>1, LoopRunnerStutters DEF ChildEnd
  <2> QED
    BY <2>2, <2>3
<1>31. ASSUME NEW p \in Pids, persistent_loop(p)
      PROVE  LoopRunner!Next \/ UNCHANGED LoopRunner!vars
  <2>1. Phase' = Phase
    BY <1>31 DEF persistent_loop, Phase
  <2>2. CASE p = ran /\ halted' = halted \cup {p}
    <3>1. PRanState = "alive" /\ PRanState' = "ended" /\ PRanHow' = "ok"
      BY <1>31, <2>2 DEF persistent_loop, PRanState, PRanHow, Running
    <3> QED
      BY <1>31, <2>1, <3>1 DEF persistent_loop, LoopRunner!Next, LoopRunner!End,
         LoopRunner!Ends
  <2>3. CASE p # ran \/ halted' = halted
    <3>1. PRanState' = PRanState /\ PRanHow' = PRanHow
      BY <1>31, <2>3, PRanFrame DEF persistent_loop, Running, Alive
    <3> QED
      BY <1>31, <2>1, <3>1, LoopRunnerStutters DEF persistent_loop
  <2> QED
    BY <1>31, <2>2, <2>3 DEF persistent_loop
<1>32. ASSUME NEW p \in Pids, InitReaps(p), UNCHANGED loopVars
      PROVE  LoopRunner!Next \/ UNCHANGED LoopRunner!vars
  <2>1. Phase' = Phase
    BY <1>32 DEF InitReaps, Phase
  <2>2. PRanState' = PRanState /\ PRanHow' = PRanHow
    BY <1>32, PRanFrame DEF InitReaps, Running, Alive, PTypeOK
  <2> QED
    BY <1>32, <2>1, <2>2, LoopRunnerStutters DEF InitReaps
<1> QED
  BY <1>1, <1>2, <1>3, <1>4, <1>5, <1>6, <1>7, <1>8, <1>9, <1>10, <1>11, <1>12, <1>13,
     <1>14, <1>15, <1>16, <1>17, <1>18, <1>19, <1>20, <1>21, <1>22, <1>23, <1>24, <1>25,
     <1>26, <1>27, <1>28, <1>29, <1>30, <1>31, <1>32 DEF PNext, FuzzerSide,
     FuzzerNext, SignalNext, PServerNext, LoopChild

(* The server of persistent mode implements the abstract test runner: the   *)
(* caller of run_target() cannot tell a child that stopped from one that    *)
(* ended well, nor a child that was woken from one that was forked.         *)
THEOREM PersistentRefinement == PSpec => PersistentRefinesTestRunner
<1>1. PInit => LoopRunner!Init
  BY DEF PInit, Init, LoopRunner!Init, Phase, PRanState, PRanHow
<1>2. ASSUME PInv, [PNext]_pvars PROVE [LoopRunner!Next]_(LoopRunner!vars)
  <2>1. CASE PNext
    BY <1>2, <2>1, LoopRunnerStep
  <2>2. CASE UNCHANGED pvars
    <3>1. PRanState' = PRanState /\ PRanHow' = PRanHow
      BY <2>2 DEF pvars, loopVars, vars, kernelVars, PRanState, PRanHow, Running, Alive
    <3>2. Phase' = Phase
      BY <2>2 DEF pvars, vars, fuzzerVars, Phase
    <3> QED
      BY <2>2, <3>1, <3>2, LoopRunnerStutters DEF pvars, vars, fuzzerVars
  <2> QED
    BY <1>2, <2>1, <2>2
<1> QED
  BY <1>1, <1>2, PersistentInvariant, PTL
     DEF PSpec, PersistentRefinesTestRunner, LoopRunner!Spec
=============================================================================
