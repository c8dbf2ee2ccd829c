------------------------------- MODULE Resume -------------------------------
(***************************************************************************)
(* The output directory of afl-fuzz across sessions: in-place resume (-i -) *)
(* with maybe_delete_out_dir(), setup_dirs_fds(), read_testcases(),         *)
(* pivot_inputs() and nuke_resume_dir(), killed at any point and resumed    *)
(* again.                                                                   *)
(*                                                                         *)
(* Every system call that changes queue/, _resume/ or fuzzer_stats while a  *)
(* session starts is a step.  A directory is the set of test cases in it,   *)
(* the subset marked in .state/deterministic_done/, and whether .state/ is  *)
(* there.  Saving a case is one step here; module Sync has its parts.       *)
(***************************************************************************)
EXTENDS Naturals, FiniteSets

CONSTANTS
  Cases,     \* test cases the sessions may ever find
  Seed,      \* the case the first session has started from
  MaxKills   \* bound: number of kills

ASSUME ResumeAssumption == IsFiniteSet(Cases) /\ Seed \in Cases /\ MaxKills \in Nat

VARIABLES
  queue, resume,  \* the directories queue/ and _resume/
  stats,          \* fuzzer_stats: "whole", or "empty" while it is rewritten
  pc,             \* where afl-fuzz is, "off" if it is not running
  todo,           \* entries read and not pivoted yet
  passed_det,     \* those of them marked in _resume/
  found, done,    \* all cases and marks ever saved by a session
  kills,
  torn            \* a kill hit nuke_resume_dir()

vars == <<queue, resume, stats, pc, todo, passed_det, found, done, kills, torn>>
disk == <<queue, resume, stats>>
memory == <<todo, passed_det>>
history == <<found, done, kills, torn>>

Dir(files, det) == [there |-> TRUE, files |-> files, det |-> det, state |-> TRUE]
NoDir == [there |-> FALSE, files |-> {}, det |-> {}, state |-> FALSE]
IsEmptyDir(d) == d.there /\ d.files = {} /\ ~d.state

-----------------------------------------------------------------------------
(* maybe_delete_out_dir().                                                  *)

\* The user restarts the session; malformed statistics are fatal.
Start ==
  /\ pc = "off"
  /\ pc' = IF stats = "whole" THEN "rename" ELSE "off"
  /\ todo' = {} /\ passed_det' = {}
  /\ UNCHANGED <<disk, history>>

\* Mutant: an old _resume/ is replaced.
maybe_delete_out_dir_Rename_Replaces ==
  /\ pc = "rename"
  /\ pc' = "clean_det"
  /\ IF queue.there
     THEN resume' = queue /\ queue' = NoDir
     ELSE UNCHANGED <<queue, resume>>
  /\ UNCHANGED <<stats, memory, history>>

\* rename(queue, _resume), which fails silently if _resume is in use.
maybe_delete_out_dir_Rename ==
  /\ pc = "rename"
  /\ pc' = "clean_det"
  /\ IF queue.there /\ (~resume.there \/ IsEmptyDir(resume))
     THEN resume' = queue /\ queue' = NoDir
     ELSE UNCHANGED <<queue, resume>>
  /\ UNCHANGED <<stats, memory, history>>

\* Mutant: queue/ itself is left behind.
maybe_delete_out_dir_Files_KeepsDir ==
  /\ pc = "clean_files"
  /\ \/ \E c \in queue.files : queue' = [queue EXCEPT !.files = @ \ {c}] /\ UNCHANGED pc
     \/ queue.files = {} /\ pc' = "mkdir" /\ UNCHANGED queue
  /\ UNCHANGED <<resume, stats, memory, history>>

\* What is (still) in queue/ is deleted, one unlink() or rmdir() at a time.
maybe_delete_out_dir_Det ==
  /\ pc = "clean_det"
  /\ \/ \E c \in queue.det : queue' = [queue EXCEPT !.det = @ \ {c}] /\ UNCHANGED pc
     \/ /\ queue.det = {}
        /\ queue' = [queue EXCEPT !.state = FALSE]
        /\ pc' = "clean_files"
  /\ UNCHANGED <<resume, stats, memory, history>>

maybe_delete_out_dir_Files ==
  /\ pc = "clean_files"
  /\ \/ \E c \in queue.files : queue' = [queue EXCEPT !.files = @ \ {c}] /\ UNCHANGED pc
     \/ queue.files = {} /\ queue' = NoDir /\ pc' = "mkdir"
  /\ UNCHANGED <<resume, stats, memory, history>>

-----------------------------------------------------------------------------
(* setup_dirs_fds() and read_testcases().                                   *)

\* Mutant: .state/ is not made anew.
setup_dirs_fds_State_Skips ==
  /\ pc = "mkdir_state"
  /\ pc' = "read"
  /\ UNCHANGED <<disk, memory, history>>

\* mkdir(queue): an existing directory is fatal.
setup_dirs_fds_Queue ==
  /\ pc = "mkdir"
  /\ queue' = IF queue.there THEN queue ELSE [NoDir EXCEPT !.there = TRUE]
  /\ pc' = IF queue.there THEN "off" ELSE "mkdir_state"
  /\ UNCHANGED <<resume, stats, memory, history>>

setup_dirs_fds_State ==
  /\ pc = "mkdir_state"
  /\ queue' = [queue EXCEPT !.state = TRUE]
  /\ pc' = "read"
  /\ UNCHANGED <<resume, stats, memory, history>>

\* No usable test case is fatal.
read_testcases ==
  /\ pc = "read"
  /\ todo' = resume.files
  /\ passed_det' = resume.det
  /\ pc' = IF resume.files = {} THEN "off" ELSE "pivot"
  /\ UNCHANGED <<disk, history>>

-----------------------------------------------------------------------------
(* pivot_inputs() and nuke_resume_dir().                                    *)

\* link_or_copy() to the new queue, then mark_as_det_done() if it was marked.
\* (The order of the entries does not matter here.)
pivot_inputs ==
  /\ pc = "pivot"
  /\ \/ \E c \in todo \ queue.files :
          /\ passed_det \cap queue.files \subseteq queue.det
          /\ queue' = [queue EXCEPT !.files = @ \cup {c}]
          /\ UNCHANGED pc
     \/ \E c \in (passed_det \cap queue.files) \ queue.det :
          /\ queue' = [queue EXCEPT !.det = @ \cup {c}]
          /\ UNCHANGED pc
     \/ /\ todo \subseteq queue.files /\ passed_det \cap todo \subseteq queue.det
        /\ pc' = "nuke_det"
        /\ UNCHANGED queue
  /\ UNCHANGED <<resume, stats, memory, history>>

nuke_resume_dir_Det ==
  /\ pc = "nuke_det"
  /\ \/ \E c \in resume.det : resume' = [resume EXCEPT !.det = @ \ {c}] /\ UNCHANGED pc
     \/ /\ resume.det = {}
        /\ resume' = [resume EXCEPT !.state = FALSE]
        /\ pc' = "nuke_files"
  /\ UNCHANGED <<queue, stats, memory, history>>

nuke_resume_dir_Files ==
  /\ pc = "nuke_files"
  /\ \/ \E c \in resume.files : resume' = [resume EXCEPT !.files = @ \ {c}] /\ UNCHANGED pc
     \/ resume.files = {} /\ resume' = NoDir /\ pc' = "fuzz"
  /\ UNCHANGED <<queue, stats, memory, history>>

-----------------------------------------------------------------------------
(* Fuzzing, and the end of a session.                                       *)

save_if_interesting(c) ==
  /\ pc = "fuzz" /\ c \notin queue.files
  /\ queue' = [queue EXCEPT !.files = @ \cup {c}]
  /\ found' = found \cup {c}
  /\ UNCHANGED <<resume, stats, pc, memory, done, kills, torn>>

mark_as_det_done(c) ==
  /\ pc = "fuzz" /\ c \in queue.files \ queue.det
  /\ queue' = [queue EXCEPT !.det = @ \cup {c}]
  /\ done' = done \cup {c}
  /\ UNCHANGED <<resume, stats, pc, memory, found, kills, torn>>

\* open(O_TRUNC), then the buffered text at once when it is closed.
write_stats_file ==
  /\ \/ pc = "fuzz" /\ stats' = "empty" /\ pc' = "stats"
     \/ pc = "stats" /\ stats' = "whole" /\ pc' = "fuzz"
  /\ UNCHANGED <<queue, resume, memory, history>>

\* SIGKILL, a power failure, or the regular end of a session.
Killed ==
  /\ pc # "off" /\ kills < MaxKills
  /\ kills' = kills + 1
  /\ torn' = (torn \/ pc \in {"nuke_det", "nuke_files"})
  /\ pc' = "off"
  /\ UNCHANGED <<disk, memory, found, done>>

-----------------------------------------------------------------------------
\* The first session is running.
Init ==
  /\ queue = Dir({Seed}, {}) /\ resume = NoDir /\ stats = "whole"
  /\ pc = "fuzz"
  /\ todo = {} /\ passed_det = {}
  /\ found = {Seed} /\ done = {}
  /\ kills = 0 /\ torn = FALSE

Startup ==
  \/ maybe_delete_out_dir_Rename \/ maybe_delete_out_dir_Det
  \/ maybe_delete_out_dir_Files
  \/ setup_dirs_fds_Queue \/ setup_dirs_fds_State \/ read_testcases
  \/ pivot_inputs \/ nuke_resume_dir_Det \/ nuke_resume_dir_Files

Next ==
  \/ Start \/ Startup \/ write_stats_file \/ Killed
  \/ \E c \in Cases : save_if_interesting(c) \/ mark_as_det_done(c)

Spec == Init /\ [][Next]_vars

\* A process that is not killed gets on with its startup.
FairSpec == Spec /\ WF_vars(Startup)

-----------------------------------------------------------------------------
(* Safety.                                                                  *)

Pcs == {"off", "rename", "clean_det", "clean_files", "mkdir", "mkdir_state", "read",
        "pivot", "nuke_det", "nuke_files", "fuzz", "stats"}

Dirs == [there : BOOLEAN, files : SUBSET Cases, det : SUBSET Cases, state : BOOLEAN]

\* Types; marks are only kept for cases, and in a .state/ directory.
TypeOK ==
  /\ queue \in Dirs /\ resume \in Dirs
  /\ pc \in Pcs /\ stats \in {"whole", "empty"}
  /\ todo \subseteq Cases /\ passed_det \subseteq Cases
  /\ found \subseteq Cases /\ done \subseteq Cases
  /\ kills \in 0..MaxKills /\ torn \in BOOLEAN
  /\ \A d \in {queue, resume} : d.det # {} => d.state

\* The directory the session is in, or the one the next session will start
\* from if this one is killed now.
Source ==
  IF pc \in {"fuzz", "stats"} \/ ~resume.there \/ IsEmptyDir(resume) THEN queue ELSE resume

\* A kill at any point other than nuke_resume_dir(), however often, costs
\* neither a test case nor the record of a finished deterministic stage; and
\* when nuke_resume_dir() starts, everything is in queue/.
KillsAreSafe ==
  ~torn =>
    IF pc \in {"nuke_det", "nuke_files", "fuzz", "stats"}
    THEN found = queue.files /\ done \subseteq queue.det
    ELSE found \subseteq Source.files /\ done \subseteq Source.det

\* The idea behind in-place resume, as the comment above the rename() gives it:
\* _resume/ is what an aborted resume continues from, so a session that has
\* got to fuzzing has every case of the sessions before it.
ResumeKeepsQueue == pc = "fuzz" => found \subseteq queue.files

-----------------------------------------------------------------------------
(* Liveness.                                                                *)

\* Whatever an earlier kill left behind, a resumed session that is not killed
\* gets to fuzz: no leftover directory makes it fail.  (A kill while
\* fuzzer_stats was rewritten is the exception: Start refuses to go on.)
ResumeCompletes ==
  \A k \in 0..MaxKills : (pc = "rename" /\ kills = k) ~> (pc = "fuzz" \/ kills > k)
=============================================================================
