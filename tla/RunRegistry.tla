---------------------------- MODULE RunRegistry -----------------------------
(***************************************************************************)
(* gui/runs.py: the registry of assessment runs behind POST /api/assess,   *)
(* and the worker thread each run gets.  HTTP handler threads call start() *)
(* and get(); every worker publishes progress events, records an outcome   *)
(* or an error, and ends by marking the run done, closing the event queue  *)
(* and pruning the registry.  One action is one critical section (or one   *)
(* thread-safe queue operation) of the code, so that every interleaving of *)
(* the lock, the run's own lock and the queue is explored.                 *)
(*                                                                         *)
(* A run is named by the position of its start() in the order of starts:   *)
(* the code's dict keeps insertion order and uuids are never reused.  A    *)
(* progress event is named by its position in the order of emission.       *)
(*                                                                         *)
(* A definition without a comment right before another with the same       *)
(* parameters is a faulty variant of it, used to test the properties.      *)
(***************************************************************************)
EXTENDS Integers, Sequences, FiniteSets

CONSTANTS
    MaxCompleted,   \* RunRegistry(max_completed_runs)
    MaxStarts,      \* bound: runs accepted in one behaviour
    MaxEvents       \* bound: progress events of one run

ASSUME BoundsAssumption ==
    /\ MaxCompleted \in Nat
    /\ MaxStarts \in Nat
    /\ MaxEvents \in Nat

VARIABLES
    started,        \* runs accepted so far; they are 1..started
    registered,     \* RunRegistry._runs
    pc,             \* where each run's worker thread is
    events,         \* Run.events
    queue,          \* Run.queue
    outcome,        \* Run.outcome is not None
    error,          \* Run.error and Run.error_id are not None
    done            \* Run.done

registryVars == <<started, registered, pc, events, queue, outcome, error, done>>

RunId == 1..MaxStarts
Started == 1..started

ProgressEvent == 1..MaxEvents
EndOfStream == 0              \* the None the worker puts last
ErrorEvent == -1              \* _error_event(error_id)
QueueItem == ProgressEvent \cup {EndOfStream, ErrorEvent}

(* The worker's control points, in program order. *)
WorkerStep == {"idle", "running", "appended", "failing", "finally", "closing", "pruning", "exited"}
InFinally == {"finally", "closing", "pruning", "exited"}

TypeOK ==
    /\ started \in 0..MaxStarts
    /\ registered \subseteq Started
    /\ pc \in [RunId -> WorkerStep]
    /\ events \in [RunId -> Seq(ProgressEvent)]
    /\ queue \in [RunId -> Seq(QueueItem)]
    /\ outcome \in [RunId -> BOOLEAN]
    /\ error \in [RunId -> BOOLEAN]
    /\ done \in [RunId -> BOOLEAN]

Init ==
    /\ started = 0
    /\ registered = {}
    /\ pc = [r \in RunId |-> "idle"]
    /\ events = [r \in RunId |-> <<>>]
    /\ queue = [r \in RunId |-> <<>>]
    /\ outcome = [r \in RunId |-> FALSE]
    /\ error = [r \in RunId |-> FALSE]
    /\ done = [r \in RunId |-> FALSE]

-----------------------------------------------------------------------------
(* The registry's own critical sections. *)

NeverActive(runs) == FALSE
HasActiveRun(runs) == \E r \in runs : ~done[r]

Completed(runs) == {r \in runs : done[r]}

PruneNewest(runs) ==
    LET overflow == Cardinality(runs) - MaxCompleted
    IN  runs \ {r \in runs : Cardinality({c \in runs : c > r}) < overflow}
(* completed_ids[:overflow] in insertion order: a completed run goes when
   fewer than overflow completed runs are older than it. *)
PruneCompleted(runs) ==
    LET completed == Completed(runs)
        overflow == Cardinality(completed) - MaxCompleted
    IN  runs \ {r \in completed : Cardinality({c \in completed : c < r}) < overflow}

(* start() that raises RunAlreadyActiveError changes no state. *)
StartWithoutPrune ==
    /\ started < MaxStarts
    /\ ~HasActiveRun(registered)
    /\ started' = started + 1
    /\ registered' = registered \cup {started + 1}
    /\ pc' = [pc EXCEPT ![started + 1] = "running"]
    /\ UNCHANGED <<events, queue, outcome, error, done>>
Start ==
    /\ started < MaxStarts
    /\ ~HasActiveRun(registered)
    /\ started' = started + 1
    /\ registered' = PruneCompleted(registered \cup {started + 1})
    /\ pc' = [pc EXCEPT ![started + 1] = "running"]
    /\ UNCHANGED <<events, queue, outcome, error, done>>

-----------------------------------------------------------------------------
(* The worker thread of run r. *)

(* on_event: append under run.lock, then put outside it. *)
AppendEvent(r) ==
    /\ pc[r] = "running"
    /\ Len(events[r]) < MaxEvents
    /\ events' = [events EXCEPT ![r] = Append(@, Len(@) + 1)]
    /\ pc' = [pc EXCEPT ![r] = "appended"]
    /\ UNCHANGED <<started, registered, queue, outcome, error, done>>

PutNextEvent(r) ==
    /\ pc[r] = "appended"
    /\ queue' = [queue EXCEPT ![r] = Append(@, Len(events[r]) + 1)]
    /\ pc' = [pc EXCEPT ![r] = "running"]
    /\ UNCHANGED <<started, registered, events, outcome, error, done>>
PutEvent(r) ==
    /\ pc[r] = "appended"
    /\ queue' = [queue EXCEPT ![r] = Append(@, Len(events[r]))]
    /\ pc' = [pc EXCEPT ![r] = "running"]
    /\ UNCHANGED <<started, registered, events, outcome, error, done>>

(* run_assessment returns; run.outcome is set under run.lock. *)
RecordOutcome(r) ==
    /\ pc[r] = "running"
    /\ outcome' = [outcome EXCEPT ![r] = TRUE]
    /\ pc' = [pc EXCEPT ![r] = "finally"]
    /\ UNCHANGED <<started, registered, events, queue, error, done>>

(* run_assessment raises; run.error and run.error_id are set under run.lock. *)
ForgetError(r) ==
    /\ pc[r] = "running"
    /\ pc' = [pc EXCEPT ![r] = "failing"]
    /\ UNCHANGED <<started, registered, events, queue, outcome, error, done>>
RecordError(r) ==
    /\ pc[r] = "running"
    /\ error' = [error EXCEPT ![r] = TRUE]
    /\ pc' = [pc EXCEPT ![r] = "failing"]
    /\ UNCHANGED <<started, registered, events, queue, outcome, done>>

PutErrorEvent(r) ==
    /\ pc[r] = "failing"
    /\ queue' = [queue EXCEPT ![r] = Append(@, ErrorEvent)]
    /\ pc' = [pc EXCEPT ![r] = "finally"]
    /\ UNCHANGED <<started, registered, events, outcome, error, done>>

(* The finally block: done under run.lock, the sentinel, the prune. *)
CloseBeforeDone(r) ==
    /\ pc[r] = "finally"
    /\ queue' = [queue EXCEPT ![r] = Append(@, EndOfStream)]
    /\ pc' = [pc EXCEPT ![r] = "closing"]
    /\ UNCHANGED <<started, registered, events, outcome, error, done>>
SetDone(r) ==
    /\ pc[r] = "finally"
    /\ done' = [done EXCEPT ![r] = TRUE]
    /\ pc' = [pc EXCEPT ![r] = "closing"]
    /\ UNCHANGED <<started, registered, events, queue, outcome, error>>

SkipEndOfStream(r) ==
    /\ pc[r] = "closing"
    /\ pc' = [pc EXCEPT ![r] = "pruning"]
    /\ UNCHANGED <<started, registered, events, queue, outcome, error, done>>
PutEndOfStream(r) ==
    /\ pc[r] = "closing"
    /\ queue' = [queue EXCEPT ![r] = Append(@, EndOfStream)]
    /\ pc' = [pc EXCEPT ![r] = "pruning"]
    /\ UNCHANGED <<started, registered, events, outcome, error, done>>

FinalPrune(r) ==
    /\ pc[r] = "pruning"
    /\ registered' = PruneCompleted(registered)
    /\ pc' = [pc EXCEPT ![r] = "exited"]
    /\ UNCHANGED <<started, events, queue, outcome, error, done>>

Worker(r) ==
    \/ AppendEvent(r)
    \/ PutEvent(r)
    \/ RecordOutcome(r)
    \/ RecordError(r)
    \/ PutErrorEvent(r)
    \/ SetDone(r)
    \/ PutEndOfStream(r)
    \/ FinalPrune(r)

Next == Start \/ \E r \in RunId : Worker(r)

Spec == Init /\ [][Next]_registryVars

-----------------------------------------------------------------------------
(* At most one run is in flight, registered or not: the check in start()
   reads done without run.lock and sees only registered runs. *)
SingleActiveRun == \A q, r \in Started : ~done[q] /\ ~done[r] => q = r

(* An active run is never evicted (docs/GUI_SAFETY.md: "An active run is
   never a candidate for eviction"), however many runs finish around it. *)
ActiveRunRetained == \A r \in Started : ~done[r] => r \in registered

(* A run that is gone was displaced by newer results: the newest
   MaxCompleted finished runs can always be fetched. *)
EvictedOnlyWhenDisplaced ==
    \A r \in Started \ registered :
        done[r] /\ Cardinality({c \in Started : c > r /\ done[c]}) >= MaxCompleted

(* The registry never holds more than one run beyond its bound, even while
   workers that have finished are still on their way to their final prune. *)
RegistryBounded == Cardinality(registered) <= MaxCompleted + 1

(* A done run has exactly one of outcome and error, so /result never
   serialises an outcome that is not there (server.py, _assess_result). *)
VerdictIsExclusive == \A r \in Started : done[r] => (outcome[r] <=> ~error[r])

(* The strengthening under which the invariants above are inductive: what
   the worker's position says about its run, and how far the registry may
   have grown since the last prune. *)
WorkerInv ==
    \A r \in RunId :
        /\ r \in Started <=> pc[r] # "idle"
        /\ done[r] <=> pc[r] \in {"closing", "pruning", "exited"}
        /\ Len(events[r]) <= MaxEvents
        /\ pc[r] = "appended" => Len(events[r]) > 0
        /\ outcome[r] => pc[r] \in InFinally
        /\ error[r] => pc[r] \in InFinally \cup {"failing"}
        /\ pc[r] = "failing" => error[r]
        /\ pc[r] \in InFinally => (outcome[r] <=> ~error[r])
CompletedBounded ==
    /\ Cardinality(Completed(registered)) <= MaxCompleted + 1
    /\ HasActiveRun(Started) => Cardinality(Completed(registered)) <= MaxCompleted
RegistryInv ==
    /\ SingleActiveRun
    /\ ActiveRunRetained
    /\ EvictedOnlyWhenDisplaced
    /\ CompletedBounded
IInv == TypeOK /\ WorkerInv /\ RegistryInv

(* RunRegistry implements the abstract life cycle. *)
Lifecycle == INSTANCE RunLifecycle WITH
    Ids <- RunId,
    Keep <- MaxCompleted,
    active <- {r \in Started : ~done[r]},
    finished <- {r \in Started : done[r]},
    known <- registered
ImplementsLifecycle == Lifecycle!Spec
=============================================================================
