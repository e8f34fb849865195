---------------------------- MODULE RunLifecycle ----------------------------
(***************************************************************************)
(* What the GUI backend promises about assessment runs, independently of   *)
(* threads, locks and queues: one run at a time, a finished run stays      *)
(* finished, and a finished run is forgotten only once enough newer runs   *)
(* have finished (docs/GUI_SAFETY.md, "Bounded run history, one run at a   *)
(* time").  RunRegistry implements it.                                     *)
(***************************************************************************)
EXTENDS Integers, FiniteSets

CONSTANTS
    Ids,                  \* run identities, numbers in the order they are given
    Keep                  \* how many finished runs are worth remembering

VARIABLES
    active,               \* the run in flight: {} or a singleton
    finished,             \* every run that has ended
    known                 \* the runs a client can still ask about

lifecycleVars == <<active, finished, known>>

(* f may be forgotten: at least Keep newer runs have ended since. *)
Forgettable(f) == Cardinality({g \in finished : g > f}) >= Keep

Init ==
    /\ active = {}
    /\ finished = {}
    /\ known = {}

(* A run begins only when none is in flight, under an identity newer than
   every earlier one; forgetting may ride on the same step. *)
Begin ==
    /\ active = {}
    /\ \E r \in Ids :
        /\ \A f \in finished : f < r
        /\ active' = {r}
        /\ known' \subseteq known \cup {r}
        /\ \A f \in (known \cup {r}) \ known' : f \in finished /\ Forgettable(f)
    /\ UNCHANGED finished

Finish ==
    /\ active # {}
    /\ active' = {}
    /\ finished' = finished \cup active
    /\ UNCHANGED known

Forget ==
    /\ known' \subseteq known
    /\ \A f \in known \ known' : f \in finished /\ Forgettable(f)
    /\ UNCHANGED <<active, finished>>

Next == Begin \/ Finish \/ Forget

Spec == Init /\ [][Next]_lifecycleVars
=============================================================================
