---------------------------- MODULE ResumeProofs ----------------------------
(***************************************************************************)
(* Proofs about in-place resume, for any set of test cases and any number   *)
(* of kills.  The invariant says for every place of the startup which of    *)
(* the two directories holds everything that was ever found.                *)
(***************************************************************************)
EXTENDS Resume, TLAPS

\* Places where the new queue/ is complete with its .state/.
QueueReady == {"read", "pivot", "nuke_det", "nuke_files", "fuzz", "stats"}

\* Places where _resume/ is what the session is built from.
FromResume == {"clean_det", "clean_files", "mkdir", "mkdir_state", "read", "pivot"}

\* A directory that is not there has no contents; the new queue/ has a .state/.
DirsSane ==
  /\ ~queue.there => queue.files = {} /\ queue.det = {}
  /\ ~resume.there => resume.files = {} /\ resume.det = {}
  /\ pc = "mkdir_state" \/ pc \in QueueReady => queue.there
  /\ pc \in QueueReady => queue.state
  /\ pc \in {"fuzz", "stats"} => ~resume.there

\* The directories hold nothing that no session has found.
NothingInvented ==
  /\ Seed \in found /\ done \subseteq found
  /\ queue.files \subseteq found /\ resume.files \subseteq found
  /\ todo \subseteq found

\* As long as nuke_resume_dir() was never hit, nothing is lost: where it all is.
NothingLost ==
  ~torn =>
    /\ pc \in {"off", "rename"} => found \subseteq Source.files /\ done \subseteq Source.det
    /\ pc \in FromResume => found \subseteq resume.files /\ done \subseteq resume.det
    /\ pc = "pivot" => todo = resume.files /\ passed_det = resume.det
    /\ pc \in {"nuke_det", "nuke_files", "fuzz", "stats"} =>
         found \subseteq queue.files /\ done \subseteq queue.det

\* The inductive invariant.
RInv == TypeOK /\ DirsSane /\ NothingInvented /\ NothingLost

\* The directory that is not there.
LEMMA NoDirFacts ==
  /\ NoDir \in Dirs
  /\ ~NoDir.there /\ NoDir.files = {} /\ NoDir.det = {} /\ ~NoDir.state
BY DEF NoDir, Dirs

\* Every step keeps the types, and marks only where .state/ is.
LEMMA TypeStep ==
  ASSUME TypeOK, DirsSane, [Next]_vars
  PROVE  TypeOK'
<1> USE ResumeAssumption DEF TypeOK, Dirs, disk, memory, history
<1>1. CASE Start
  BY <1>1 DEF Start, Pcs
<1>2. CASE maybe_delete_out_dir_Rename
  BY <1>2, NoDirFacts DEF maybe_delete_out_dir_Rename, Pcs
<1>3. CASE maybe_delete_out_dir_Det
  BY <1>3 DEF maybe_delete_out_dir_Det, Pcs
<1>4. CASE maybe_delete_out_dir_Files
  BY <1>4, NoDirFacts DEF maybe_delete_out_dir_Files, Pcs
<1>5. CASE setup_dirs_fds_Queue
  BY <1>5, NoDirFacts DEF setup_dirs_fds_Queue, Pcs
<1>6. CASE setup_dirs_fds_State
  BY <1>6 DEF setup_dirs_fds_State, Pcs
<1>7. CASE read_testcases
  BY <1>7 DEF read_testcases, Pcs
<1>8. CASE pivot_inputs
  BY <1>8 DEF pivot_inputs, Pcs, DirsSane, QueueReady
<1>9. CASE nuke_resume_dir_Det
  BY <1>9 DEF nuke_resume_dir_Det, Pcs
<1>10. CASE nuke_resume_dir_Files
  BY <1>10, NoDirFacts DEF nuke_resume_dir_Files, Pcs
<1>11. ASSUME NEW c \in Cases, save_if_interesting(c) PROVE TypeOK'
  BY <1>11 DEF save_if_interesting
<1>12. ASSUME NEW c \in Cases, mark_as_det_done(c) PROVE TypeOK'
  BY <1>12 DEF mark_as_det_done, DirsSane, QueueReady
<1>13. CASE write_stats_file
  BY <1>13 DEF write_stats_file, Pcs
<1>14. CASE Killed
  BY <1>14 DEF Killed, Pcs
<1>15. CASE UNCHANGED vars
  BY <1>15 DEF vars
<1> QED
  BY <1>1, <1>2, <1>3, <1>4, <1>5, <1>6, <1>7, <1>8, <1>9, <1>10, <1>11, <1>12,
     <1>13, <1>14, <1>15 DEF Next, Startup

\* The new queue/ is set up before it is used.
LEMMA DirsStep ==
  ASSUME TypeOK, DirsSane, [Next]_vars
  PROVE  DirsSane'
<1> USE ResumeAssumption, NoDirFacts DEF TypeOK, Dirs, DirsSane, QueueReady, disk, memory, history
<1>1. CASE Start
  BY <1>1 DEF Start
<1>2. CASE maybe_delete_out_dir_Rename
  BY <1>2 DEF maybe_delete_out_dir_Rename
<1>3. CASE maybe_delete_out_dir_Det
  BY <1>3 DEF maybe_delete_out_dir_Det
<1>4. CASE maybe_delete_out_dir_Files
  BY <1>4 DEF maybe_delete_out_dir_Files
<1>5. CASE setup_dirs_fds_Queue
  BY <1>5 DEF setup_dirs_fds_Queue
<1>6. CASE setup_dirs_fds_State
  BY <1>6 DEF setup_dirs_fds_State
<1>7. CASE read_testcases
  BY <1>7 DEF read_testcases
<1>8. CASE pivot_inputs
  BY <1>8 DEF pivot_inputs
<1>9. CASE nuke_resume_dir_Det
  BY <1>9 DEF nuke_resume_dir_Det
<1>10. CASE nuke_resume_dir_Files
  BY <1>10 DEF nuke_resume_dir_Files
<1>11. ASSUME NEW c \in Cases, save_if_interesting(c) PROVE DirsSane'
  BY <1>11 DEF save_if_interesting
<1>12. ASSUME NEW c \in Cases, mark_as_det_done(c) PROVE DirsSane'
  BY <1>12 DEF mark_as_det_done
<1>13. CASE write_stats_file
  BY <1>13 DEF write_stats_file
<1>14. CASE Killed
  BY <1>14 DEF Killed
<1>15. CASE UNCHANGED vars
  BY <1>15 DEF vars
<1> QED
  BY <1>1, <1>2, <1>3, <1>4, <1>5, <1>6, <1>7, <1>8, <1>9, <1>10,
     <1>11, <1>12, <1>13, <1>14, <1>15 DEF Next, Startup

\* Only save_if_interesting() adds a case.
LEMMA NothingInventedStep ==
  ASSUME TypeOK, NothingInvented, [Next]_vars
  PROVE  NothingInvented'
<1> USE ResumeAssumption, NoDirFacts DEF TypeOK, Dirs, NothingInvented, disk, memory, history
<1>1. CASE Start
  BY <1>1 DEF Start
<1>2. CASE maybe_delete_out_dir_Rename
  BY <1>2 DEF maybe_delete_out_dir_Rename
<1>3. CASE maybe_delete_out_dir_Det
  BY <1>3 DEF maybe_delete_out_dir_Det
<1>4. CASE maybe_delete_out_dir_Files
  BY <1>4 DEF maybe_delete_out_dir_Files
<1>5. CASE setup_dirs_fds_Queue
  BY <1>5 DEF setup_dirs_fds_Queue
<1>6. CASE setup_dirs_fds_State
  BY <1>6 DEF setup_dirs_fds_State
<1>7. CASE read_testcases
  BY <1>7 DEF read_testcases
<1>8. CASE pivot_inputs
  BY <1>8 DEF pivot_inputs
<1>9. CASE nuke_resume_dir_Det
  BY <1>9 DEF nuke_resume_dir_Det
<1>10. CASE nuke_resume_dir_Files
  BY <1>10 DEF nuke_resume_dir_Files
<1>11. ASSUME NEW c \in Cases, save_if_interesting(c) PROVE NothingInvented'
  BY <1>11 DEF save_if_interesting
<1>12. ASSUME NEW c \in Cases, mark_as_det_done(c) PROVE NothingInvented'
  BY <1>12 DEF mark_as_det_done
<1>13. CASE write_stats_file
  BY <1>13 DEF write_stats_file
<1>14. CASE Killed
  BY <1>14 DEF Killed
<1>15. CASE UNCHANGED vars
  BY <1>15 DEF vars
<1> QED
  BY <1>1, <1>2, <1>3, <1>4, <1>5, <1>6, <1>7, <1>8, <1>9, <1>10,
     <1>11, <1>12, <1>13, <1>14, <1>15 DEF Next, Startup

\* A step moves everything to the other directory, or leaves it where it is.
LEMMA NothingLostStep ==
  ASSUME RInv, [Next]_vars
  PROVE  NothingLost'
<1> USE ResumeAssumption, NoDirFacts DEF RInv, TypeOK, Dirs, DirsSane, NothingInvented, NothingLost, QueueReady, FromResume,
  Source, IsEmptyDir, disk, memory, history
<1>1. CASE Start
  BY <1>1 DEF Start
<1>2. CASE maybe_delete_out_dir_Rename
  BY <1>2 DEF maybe_delete_out_dir_Rename
<1>3. CASE maybe_delete_out_dir_Det
  BY <1>3 DEF maybe_delete_out_dir_Det
<1>4. CASE maybe_delete_out_dir_Files
  BY <1>4 DEF maybe_delete_out_dir_Files
<1>5. CASE setup_dirs_fds_Queue
  BY <1>5 DEF setup_dirs_fds_Queue
<1>6. CASE setup_dirs_fds_State
  BY <1>6 DEF setup_dirs_fds_State
<1>7. CASE read_testcases
  BY <1>7 DEF read_testcases
<1>8. CASE pivot_inputs
  BY <1>8 DEF pivot_inputs
<1>9. CASE nuke_resume_dir_Det
  BY <1>9 DEF nuke_resume_dir_Det
<1>10. CASE nuke_resume_dir_Files
  BY <1>10 DEF nuke_resume_dir_Files
<1>11. ASSUME NEW c \in Cases, save_if_interesting(c) PROVE NothingLost'
  BY <1>11 DEF save_if_interesting
<1>12. ASSUME NEW c \in Cases, mark_as_det_done(c) PROVE NothingLost'
  BY <1>12 DEF mark_as_det_done
<1>13. CASE write_stats_file
  BY <1>13 DEF write_stats_file
<1>14. CASE Killed
  <2>1. ~torn' => ~torn /\ pc \notin {"nuke_det", "nuke_files"}
    BY <1>14, Zenon DEF Killed
  <2>2. pc' = "off" /\ pc # "off" /\ UNCHANGED <<queue, resume, found, done>>
    BY <1>14 DEF Killed
  <2>3. CASE pc \in {"fuzz", "stats"}
    BY <2>1, <2>2, <2>3
  <2>4. CASE pc = "rename"
    BY <2>1, <2>2, <2>4
  <2>5. CASE pc \in FromResume
    BY <2>1, <2>2, <2>5
  <2> QED
    BY <2>1, <2>2, <2>3, <2>4, <2>5 DEF Pcs
<1>15. CASE UNCHANGED vars
  BY <1>15 DEF vars
<1> QED
  BY <1>1, <1>2, <1>3, <1>4, <1>5, <1>6, <1>7, <1>8, <1>9, <1>10,
     <1>11, <1>12, <1>13, <1>14, <1>15 DEF Next, Startup

\* The first session has its seed in queue/.
LEMMA InitRInv == Init => RInv
<1> SUFFICES ASSUME Init PROVE RInv
  OBVIOUS
<1>1. queue \in Dirs /\ queue.files = {Seed} /\ queue.det = {} /\ queue.there /\ queue.state
  BY ResumeAssumption DEF Init, Dir, Dirs
<1>2. TypeOK
  <2>1. resume \in Dirs /\ \A d \in {queue, resume} : d.det # {} => d.state
    BY <1>1, NoDirFacts DEF Init
  <2>2. /\ pc \in Pcs /\ stats \in {"whole", "empty"}
        /\ todo \subseteq Cases /\ passed_det \subseteq Cases
        /\ found \subseteq Cases /\ done \subseteq Cases
        /\ kills \in 0..MaxKills
    BY ResumeAssumption DEF Init, Pcs
  <2>3. torn \in BOOLEAN
    BY Zenon DEF Init
  <2> QED
    BY <1>1, <2>1, <2>2, <2>3, Zenon DEF TypeOK
<1>3. DirsSane /\ NothingInvented /\ NothingLost
  BY <1>1, NoDirFacts
     DEF Init, DirsSane, NothingInvented, NothingLost, QueueReady, FromResume
<1> QED
  BY <1>2, <1>3 DEF RInv

\* RInv holds in every reachable state, whatever is killed and resumed when.
THEOREM ResumeInvariant == Spec => []RInv
<1>1. RInv /\ [Next]_vars => RInv'
  BY TypeStep, DirsStep, NothingInventedStep, NothingLostStep DEF RInv
<1> QED
  BY InitRInv, <1>1, PTL DEF Spec

\* Types, and marks only in a .state/ directory.
THEOREM ResumeTypes == Spec => []TypeOK
<1>1. RInv => TypeOK
  BY DEF RInv
<1> QED
  BY ResumeInvariant, <1>1, PTL

\* Any number of kills outside of nuke_resume_dir() costs neither a test case
\* nor a mark of afl-fuzz's in-place resume.
THEOREM KillsCostNothing == Spec => []KillsAreSafe
<1>1. RInv => KillsAreSafe
  BY ResumeAssumption
     DEF RInv, KillsAreSafe, TypeOK, Dirs, Pcs, DirsSane, NothingInvented, NothingLost,
         QueueReady, FromResume, Source, IsEmptyDir
<1> QED
  BY ResumeInvariant, <1>1, PTL
=============================================================================
