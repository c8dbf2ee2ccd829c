------------------------------- MODULE Triage -------------------------------
(***************************************************************************)
(* Crash and hang triage in save_if_interesting(): which faulting inputs    *)
(* are kept.  Each kind of fault has a virgin map of its own, against which *)
(* the simplified trace is held.                                           *)
(*                                                                         *)
(* A trace is the map after classify_counts(): every byte is 0 or has one   *)
(* bit set, named here by its value.                                       *)
(***************************************************************************)
EXTENDS Naturals, Sequences

CONSTANTS
  Tuples,             \* bytes of the map
  KEEP_UNIQUE_CRASH, KEEP_UNIQUE_HANG

ASSUME TriageAssumption ==
  {KEEP_UNIQUE_CRASH, KEEP_UNIQUE_HANG} \subseteq Nat

VARIABLES
  virgin,      \* virgin_crash and virgin_hang: the bits not seen yet
  unique,      \* unique_crashes and unique_hangs
  met          \* history: the faults looked at in this session, and the verdict

triageVars == <<virgin, unique, met>>

Kinds == {"crash", "hang"}
Keep(kind) == IF kind = "crash" THEN KEEP_UNIQUE_CRASH ELSE KEEP_UNIQUE_HANG

Classes == {1, 2, 4, 8, 16, 32, 64, 128}
Traces(classes) == [Tuples -> {0} \cup classes]

\* Mutant: the counts are left in.
simplify_trace_Not(t) == t

simplify_trace(t) == [b \in Tuples |-> IF t[b] = 0 THEN 1 ELSE 128]

has_new_bits(t, map) == \E b \in Tuples : t[b] \in map[b]
Seen(t, map) == [b \in Tuples |-> map[b] \ {t[b]}]

\* The switch of save_if_interesting(): over the limit nothing is looked at; in
\* dumb mode everything is kept.
save_if_interesting(kind, t, dumb) ==
  LET s == simplify_trace(t)
      kept == dumb \/ has_new_bits(s, virgin[kind])
  IN  IF unique[kind] >= Keep(kind) THEN UNCHANGED triageVars
      ELSE /\ virgin' = IF dumb THEN virgin ELSE [virgin EXCEPT ![kind] = Seen(s, @)]
           /\ unique' = [unique EXCEPT ![kind] = IF kept THEN @ + 1 ELSE @]
           /\ met' = [met EXCEPT ![kind] =
                Append(@, [hit |-> {b \in Tuples : t[b] # 0}, kept |-> kept])]

InitTriage ==
  /\ virgin = [kind \in Kinds |-> [b \in Tuples |-> Classes]]
  /\ unique = [kind \in Kinds |-> 0]
  /\ met = [kind \in Kinds |-> <<>>]

\* A new session: crashes/ and hangs/ are set aside, and all is forgotten.
RestartTriage ==
  /\ virgin' = [kind \in Kinds |-> [b \in Tuples |-> Classes]]
  /\ unique' = [kind \in Kinds |-> 0]
  /\ met' = [kind \in Kinds |-> <<>>]

-----------------------------------------------------------------------------
\* docs/technical_details.txt, section 8: a fault is unique if its trace
\* "includes a tuple not seen in any of the previous crashes", or "is missing a
\* tuple that was always present in earlier faults".
Unique(faults, i) ==
  \/ \E b \in faults[i].hit : \A j \in 1 .. i - 1 : b \notin faults[j].hit
  \/ \E b \in Tuples \ faults[i].hit : \A j \in 1 .. i - 1 : b \in faults[j].hit
=============================================================================
