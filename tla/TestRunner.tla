----------------------------- MODULE TestRunner -----------------------------
(***************************************************************************)
(* What run_target() promises to the rest of afl-fuzz, with no pipes, no    *)
(* fork server and no signals: a run launches at most one child, the run    *)
(* delivers its result only after that child has ended, and the result is   *)
(* the one the end of the child deserves.  A run may be given up, but only  *)
(* because the user is stopping afl-fuzz or because afl-fuzz gives up too.  *)
(***************************************************************************)
CONSTANTS
  QemuSystem,  \* -QQ: every non-zero exit code of the VM is a crash
  UsesAsan     \* MSAN_ERROR is a crash

VARIABLES
  phase,     \* "starting", "idle", "running" or "gone"
  child,     \* the child of this run: "none", "alive" or "ended"
  how,       \* how it ended, meaningful once it has
  late,      \* the timeout has struck in this run
  stopping,  \* the user asked afl-fuzz to stop
  result     \* what the last complete run returned

vars == <<phase, child, how, late, stopping, result>>

Ends == {"ok", "fail", "msan", "sig", "kill"}

\* The ends that are the target's own failure.
Failure(h) ==
  \/ h = "sig"
  \/ h = "msan" /\ UsesAsan
  \/ h \in {"fail", "msan"} /\ QemuSystem

\* The results a run may return for a child that ended as h.
Deserves(h, r) ==
  \/ r = "FAULT_HANG" /\ late
  \/ r = "FAULT_CRASH" /\ ~late /\ Failure(h)
  \/ r = "FAULT_NONE" /\ ~late /\ (stopping \/ (h # "kill" /\ ~Failure(h)))

Init ==
  /\ phase = "starting" /\ child = "none" /\ how = "ok"
  /\ late = FALSE /\ stopping = FALSE /\ result = "FAULT_NONE"

Ready ==
  /\ phase = "starting" /\ phase' \in {"idle", "gone"}
  /\ UNCHANGED <<child, how, late, stopping, result>>

Begin ==
  /\ phase = "idle" /\ phase' = "running"
  /\ child' = "none" /\ how' = "ok" /\ late' = FALSE
  /\ UNCHANGED <<stopping, result>>

Launch ==
  /\ phase \in {"running", "gone"} /\ child = "none"
  /\ child' = "alive"
  /\ UNCHANGED <<phase, how, late, stopping, result>>

End ==
  /\ child = "alive" /\ child' = "ended" /\ how' \in Ends
  /\ UNCHANGED <<phase, late, stopping, result>>

\* The timeout ends a child that is still there; it may also strike just
\* after the end of the child, or while the fork server is starting.
Timeout ==
  /\ late' = TRUE
  /\ \/ child = "alive" /\ child' = "ended" /\ how' = "kill"
     \/ UNCHANGED <<child, how>>
  /\ UNCHANGED <<phase, stopping, result>>

Stop ==
  /\ stopping' = TRUE
  /\ \/ child = "alive" /\ child' = "ended" /\ how' = "kill"
     \/ UNCHANGED <<child, how>>
  /\ UNCHANGED <<phase, late, result>>

Deliver ==
  /\ phase = "running" /\ child = "ended"
  /\ phase' = "idle" /\ Deserves(how, result')
  /\ UNCHANGED <<child, how, late, stopping>>

GiveUp ==
  /\ phase' \in {"idle", "gone"}
  /\ phase' = "idle" => phase = "running" /\ stopping
  /\ UNCHANGED <<child, how, late, stopping, result>>

Next ==
  \/ Ready \/ Begin \/ Launch \/ End \/ Timeout \/ Stop \/ Deliver \/ GiveUp

Spec == Init /\ [][Next]_vars
=============================================================================
