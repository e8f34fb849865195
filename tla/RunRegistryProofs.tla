-------------------------- MODULE RunRegistryProofs --------------------------
(***************************************************************************)
(* Proofs about RunRegistry, for any bound on completed runs, any number   *)
(* of starts and any number of progress events: type correctness, the      *)
(* invariants the runs check, and the refinement of RunLifecycle.          *)
(***************************************************************************)
EXTENDS RunRegistry, FiniteSetTheorems, TLAPS

-----------------------------------------------------------------------------
(* Ranks in a finite set of integers. *)

Below(S, x) == {y \in S : y < x}
Above(S, x) == {y \in S : y > x}
Rank(S, x) == Cardinality(Below(S, x))

(* The elements of a finite set below a given one are finitely many. *)
LEMMA RankType ==
    ASSUME NEW S \in SUBSET Int, IsFiniteSet(S), NEW x
    PROVE  IsFiniteSet(Below(S, x)) /\ Rank(S, x) \in Nat
<1>1. Below(S, x) \in SUBSET S
  BY DEF Below
<1>2. IsFiniteSet(Below(S, x))
  BY <1>1, FS_Subset
<1>3. QED
  BY <1>2, FS_CardinalityType DEF Rank

(* Of two elements the greater has the greater rank. *)
LEMMA RankMonotone ==
    ASSUME NEW S \in SUBSET Int, IsFiniteSet(S), NEW x \in S, NEW y \in S, x < y
    PROVE  Rank(S, x) < Rank(S, y)
<1>1. Below(S, x) \cup {x} \in SUBSET Below(S, y)
  <2>1. \A z \in S : z \in Int
    OBVIOUS
  <2>2. \A z \in S : z < x => z < y
    BY <2>1
  <2>3. QED
    BY <2>2 DEF Below
<1>2. x \notin Below(S, x)
  BY DEF Below
<1>3. Cardinality(Below(S, x) \cup {x}) = Rank(S, x) + 1
  BY <1>2, RankType, FS_AddElement DEF Rank
<1>4. Cardinality(Below(S, x) \cup {x}) <= Rank(S, y)
  BY <1>1, RankType, FS_Subset DEF Rank
<1>5. QED
  BY <1>3, <1>4, RankType

(* An element's rank is less than the size of the set. *)
LEMMA RankBound ==
    ASSUME NEW S \in SUBSET Int, IsFiniteSet(S), NEW x \in S
    PROVE  Rank(S, x) \in 0..(Cardinality(S) - 1)
<1>1. Below(S, x) \in SUBSET S /\ Below(S, x) # S
  BY DEF Below
<1>2. Rank(S, x) <= Cardinality(S) /\ Rank(S, x) # Cardinality(S)
  BY <1>1, FS_Subset DEF Rank
<1>3. Cardinality(S) \in Nat
  BY FS_CardinalityType
<1>4. QED
  BY <1>2, <1>3, RankType

(* Every rank below the size of the set is taken by some element: the rank
   is an injection between sets of the same size. *)
LEMMA RankOnto ==
    ASSUME NEW S \in SUBSET Int, IsFiniteSet(S), NEW k \in 0..(Cardinality(S) - 1)
    PROVE  \E x \in S : Rank(S, x) = k
<1> DEFINE n == Cardinality(S)
           f == [x \in S |-> Rank(S, x)]
<1>1. n \in Nat
  BY FS_CardinalityType
<1>2. IsFiniteSet(0..(n - 1)) /\ Cardinality(0..(n - 1)) = n
  <2>1. 0 \in Int /\ n - 1 \in Int
    BY <1>1
  <2>2. QED
    BY <1>1, <2>1, FS_Interval
<1>3. f \in [S -> 0..(n - 1)]
  BY RankBound
<1>4. \A x, y \in S : f[x] = f[y] => x = y
  <2> SUFFICES ASSUME NEW x \in S, NEW y \in S, x < y
               PROVE  f[x] # f[y]
    OBVIOUS
  <2> QED
    BY RankMonotone, RankType
<1>5. f \in Injection(S, 0..(n - 1))
  BY <1>3, <1>4 DEF Injection, IsInjective
<1>6. f \in Surjection(S, 0..(n - 1))
  BY <1>2, <1>5, FS_Injection
<1>7. QED
  BY <1>6 DEF Surjection

-----------------------------------------------------------------------------
(* PruneCompleted. *)

(* What pruning a finite set of runs guarantees: it only removes, it removes
   only completed runs that at least MaxCompleted completed runs are newer
   than, and at most MaxCompleted completed runs survive it. *)
LEMMA PruneFacts ==
    ASSUME NEW runs \in SUBSET Int, IsFiniteSet(runs)
    PROVE  /\ PruneCompleted(runs) \in SUBSET runs
           /\ \A r \in runs \ PruneCompleted(runs) :
                done[r] /\ Cardinality(Above(Completed(runs), r)) >= MaxCompleted
           /\ Cardinality(Completed(PruneCompleted(runs))) <= MaxCompleted
<1> USE BoundsAssumption
<1> DEFINE C == Completed(runs)
           n == Cardinality(C)
           overflow == n - MaxCompleted
           kept == Completed(PruneCompleted(runs))
<1>1. C \in SUBSET Int /\ IsFiniteSet(C) /\ n \in Nat
  <2>1. C \in SUBSET runs
    BY DEF Completed
  <2>2. QED
    BY <2>1, FS_Subset, FS_CardinalityType
<1>2. PruneCompleted(runs) = runs \ {r \in C : Rank(C, r) < overflow}
  BY DEF PruneCompleted, Rank, Below
<1>3. kept = {r \in C : ~(Rank(C, r) < overflow)}
  BY <1>2 DEF Completed
<1>4. ASSUME NEW r \in C, Rank(C, r) < overflow
      PROVE  Cardinality(Above(C, r)) >= MaxCompleted
  <2> DEFINE upTo == Below(C, r) \cup {r}
  <2>1. IsFiniteSet(upTo) /\ Cardinality(upTo) = Rank(C, r) + 1
    <3>1. r \notin Below(C, r)
      BY <1>1 DEF Below
    <3>2. QED
      BY <1>1, <3>1, RankType, FS_AddElement DEF Rank
  <2>2. Above(C, r) = C \ upTo /\ C \cap upTo = upTo
    <3>1. \A c \in C : c > r <=> ~(c < r) /\ c # r
      BY <1>1
    <3>2. QED
      BY <3>1 DEF Above, Below
  <2>3. Cardinality(Above(C, r)) = n - Cardinality(upTo)
    BY <1>1, <2>2, FS_Difference
  <2>4. QED
    BY <1>1, <1>4, <2>1, <2>3, RankType
<1>5. Cardinality(kept) <= MaxCompleted
  <2>1. CASE overflow <= 0
    <3>1. kept \in SUBSET C
      BY <1>3
    <3>2. Cardinality(kept) <= n
      BY <1>1, <3>1, FS_Subset
    <3>3. IsFiniteSet(kept) /\ Cardinality(kept) \in Nat
      BY <1>1, <3>1, FS_Subset, FS_CardinalityType
    <3>4. QED
      BY <1>1, <2>1, <3>2, <3>3
  <2>2. CASE overflow > 0 /\ MaxCompleted = 0
    <3>1. \A r \in C : Rank(C, r) < overflow
      BY <1>1, <2>2, RankBound
    <3>2. kept = {}
      BY <1>3, <3>1
    <3>3. QED
      BY <2>2, <3>2, FS_EmptySet
  <2>3. CASE overflow > 0 /\ MaxCompleted > 0
    <3>1. PICK m \in C : Rank(C, m) = overflow
      <4>1. overflow \in 0..(n - 1)
        BY <1>1, <2>3
      <4>2. QED
        BY <1>1, <4>1, RankOnto
    <3>2. kept \in SUBSET (C \ Below(C, m))
      <4>1. \A r \in C : r < m => Rank(C, r) < overflow
        BY <1>1, <3>1, RankMonotone
      <4>2. QED
        BY <1>3, <4>1 DEF Below
    <3>3. IsFiniteSet(C \ Below(C, m)) /\ Cardinality(C \ Below(C, m)) = n - overflow
      <4>1. C \cap Below(C, m) = Below(C, m)
        BY DEF Below
      <4>2. /\ IsFiniteSet(C \ Below(C, m))
            /\ Cardinality(C \ Below(C, m)) = n - Cardinality(C \cap Below(C, m))
        BY <1>1, FS_Difference
      <4>3. Cardinality(Below(C, m)) = overflow
        BY <3>1 DEF Rank
      <4>4. QED
        BY <4>1, <4>2, <4>3
    <3>4. Cardinality(kept) <= n - overflow
      BY <3>2, <3>3, FS_Subset
    <3>5. QED
      BY <1>1, <3>4
  <2>4. QED
    BY <1>1, <2>1, <2>2, <2>3
<1>6. QED
  <2>1. \A r \in runs \ PruneCompleted(runs) : r \in C /\ Rank(C, r) < overflow
    BY <1>2
  <2>2. \A r \in C : done[r]
    BY DEF Completed
  <2>3. PruneCompleted(runs) \in SUBSET runs
    BY <1>2
  <2>4. QED
    BY <1>4, <1>5, <2>1, <2>2, <2>3

-----------------------------------------------------------------------------
(* Type correctness and the worker invariant. *)

USE BoundsAssumption

(* An empty registry satisfies the inductive invariant. *)
THEOREM InitInv == Init => IInv
<1> SUFFICES ASSUME Init PROVE IInv
  OBVIOUS
<1> USE DEF Init
<1>1. Started = {} /\ registered = {}
  BY DEF Started
<1>2. TypeOK
  BY <1>1 DEF TypeOK, WorkerStep
<1>3. WorkerInv
  BY <1>1 DEF WorkerInv, InFinally
<1>4. SingleActiveRun /\ ActiveRunRetained /\ EvictedOnlyWhenDisplaced
  BY <1>1 DEF SingleActiveRun, ActiveRunRetained, EvictedOnlyWhenDisplaced
<1>5. Completed(registered) = {}
  BY <1>1 DEF Completed
<1>6. CompletedBounded
  BY <1>5, FS_EmptySet DEF CompletedBounded
<1>7. QED
  BY <1>2, <1>3, <1>4, <1>6 DEF IInv, RegistryInv

(* Registered and started runs form finite sets of integers. *)
LEMMA RunsFinite ==
    ASSUME TypeOK
    PROVE  /\ Started \in SUBSET Int /\ IsFiniteSet(Started)
           /\ registered \in SUBSET Int /\ IsFiniteSet(registered)
<1>1. started \in Int /\ 1 \in Int
  BY DEF TypeOK
<1>2. IsFiniteSet(Started)
  BY <1>1, FS_Interval DEF Started
<1>3. registered \in SUBSET Started
  BY DEF TypeOK
<1>4. IsFiniteSet(registered)
  BY <1>2, <1>3, FS_Subset
<1>5. \A r \in Started : r \in Int
  BY DEF Started
<1>6. QED
  BY <1>2, <1>3, <1>4, <1>5

(* Every step keeps the types and the worker invariant. *)
LEMMA WorkerInvStep ==
    ASSUME TypeOK, WorkerInv, Next
    PROVE  TypeOK' /\ WorkerInv'
<1> USE DEF TypeOK, WorkerInv, RunId, Started, WorkerStep, InFinally,
            ProgressEvent, QueueItem, EndOfStream, ErrorEvent
<1>1. CASE Start
  <2>1. PruneCompleted(registered \cup {started + 1}) \subseteq registered \cup {started + 1}
    BY DEF PruneCompleted
  <2>2. TypeOK'
    <3>1. started' = started + 1 /\ started' \in 0..MaxStarts
      BY <1>1 DEF Start
    <3>2. registered' \subseteq registered \cup {started + 1}
      BY <1>1, <2>1 DEF Start
    <3>3. registered' \subseteq Started'
      BY <3>1, <3>2
    <3>4. pc' \in [RunId -> WorkerStep]
      BY <1>1 DEF Start
    <3>5. UNCHANGED <<events, queue, outcome, error, done>>
      BY <1>1 DEF Start
    <3>6. QED
      BY <3>1, <3>3, <3>4, <3>5
  <2>3. started + 1 \in RunId /\ pc[started + 1] = "idle"
    BY <1>1 DEF Start
  <2>4. \A r \in RunId : r # started + 1 => (r \in Started' <=> r \in Started) /\ pc'[r] = pc[r]
    BY <1>1, <2>3 DEF Start
  <2>5. pc'[started + 1] = "running" /\ started + 1 \in Started'
    BY <1>1, <2>3 DEF Start
  <2>6. UNCHANGED <<events, outcome, error, done>>
    BY <1>1 DEF Start
  <2>7. WorkerInv'
    BY <2>3, <2>4, <2>5, <2>6
  <2>8. QED
    BY <2>2, <2>7
<1>2. ASSUME NEW r \in RunId, AppendEvent(r) PROVE TypeOK' /\ WorkerInv'
  BY <1>2 DEF AppendEvent
<1>3. ASSUME NEW r \in RunId, PutEvent(r) PROVE TypeOK' /\ WorkerInv'
  <2>1. Len(events[r]) \in QueueItem
    BY <1>3 DEF PutEvent
  <2>2. Append(queue[r], Len(events[r])) \in Seq(QueueItem)
    BY <2>1
  <2>3. TypeOK'
    BY <1>3, <2>2 DEF PutEvent
  <2>4. WorkerInv'
    BY <1>3 DEF PutEvent
  <2>5. QED
    BY <2>3, <2>4
<1>4. ASSUME NEW r \in RunId, RecordOutcome(r) PROVE TypeOK' /\ WorkerInv'
  BY <1>4 DEF RecordOutcome
<1>5. ASSUME NEW r \in RunId, RecordError(r) PROVE TypeOK' /\ WorkerInv'
  BY <1>5 DEF RecordError
<1>6. ASSUME NEW r \in RunId, PutErrorEvent(r) PROVE TypeOK' /\ WorkerInv'
  <2>1. TypeOK'
    BY <1>6 DEF PutErrorEvent
  <2>2. WorkerInv'
    BY <1>6 DEF PutErrorEvent
  <2>3. QED
    BY <2>1, <2>2
<1>7. ASSUME NEW r \in RunId, SetDone(r) PROVE TypeOK' /\ WorkerInv'
  BY <1>7 DEF SetDone
<1>8. ASSUME NEW r \in RunId, PutEndOfStream(r) PROVE TypeOK' /\ WorkerInv'
  BY <1>8 DEF PutEndOfStream
<1>9. ASSUME NEW r \in RunId, FinalPrune(r) PROVE TypeOK' /\ WorkerInv'
  <2>1. PruneCompleted(registered) \subseteq registered
    BY DEF PruneCompleted
  <2>2. QED
    BY <1>9, <2>1 DEF FinalPrune
<1>10. QED
  BY <1>1, <1>2, <1>3, <1>4, <1>5, <1>6, <1>7, <1>8, <1>9 DEF Next, Worker
-----------------------------------------------------------------------------
(* The registry invariant. *)

(* The completed runs newer than r. *)
NewerDone(r) == {c \in Started : c > r /\ done[c]}

(* Runs only ever become done, so the newer completed runs only grow. *)
LEMMA NewerDoneGrows ==
    ASSUME TypeOK, TypeOK', started <= started', NEW r,
           \A c \in Started : done[c] => done'[c]
    PROVE  Cardinality(NewerDone(r)) <= Cardinality(NewerDone(r)')
<1>1. NewerDone(r) \in SUBSET NewerDone(r)'
  BY DEF NewerDone, Started, TypeOK
<1>2. IsFiniteSet(Started')
  <2>1. started' \in Int /\ 1 \in Int
    BY DEF TypeOK
  <2>2. QED
    BY <2>1, FS_Interval DEF Started
<1>3. NewerDone(r)' \in SUBSET Started'
  BY DEF NewerDone
<1>4. IsFiniteSet(NewerDone(r)')
  BY <1>2, <1>3, FS_Subset
<1>5. QED
  BY <1>1, <1>4, FS_Subset

(* A step that leaves the runs, the registry and done alone keeps it. *)
LEMMA RegistryInvFrame ==
    ASSUME RegistryInv, UNCHANGED <<started, registered, done>>
    PROVE  RegistryInv'
BY DEF RegistryInv, SingleActiveRun, ActiveRunRetained, EvictedOnlyWhenDisplaced,
       CompletedBounded, Completed, HasActiveRun, Started

(* start(): nothing is active beforehand, so the new run is the only one,
   and the prune it performs leaves at most MaxCompleted completed runs. *)
LEMMA RegistryInvStart ==
    ASSUME IInv, TypeOK', Start
    PROVE  RegistryInv'
<1> DEFINE new == started + 1
           runs == registered \cup {new}
<1> USE DEF IInv, RegistryInv
<1>1. started' = new /\ done' = done /\ registered' = PruneCompleted(runs)
  BY DEF Start
<1>2. new \in RunId /\ new \in Int /\ new \notin Started /\ started \in Nat
  BY DEF Start, RunId, Started, TypeOK
<1>3. Started' = Started \cup {new}
  BY <1>1, <1>2 DEF Started
<1>4. \A r \in Started : done[r]
  BY DEF Start, HasActiveRun, ActiveRunRetained
<1>5. ~done[new]
  BY <1>2 DEF WorkerInv
<1>6. runs \in SUBSET Int /\ IsFiniteSet(runs)
  BY <1>2, RunsFinite, FS_AddElement
<1>7. /\ registered' \in SUBSET runs
      /\ \A r \in runs \ registered' :
            done[r] /\ Cardinality(Above(Completed(runs), r)) >= MaxCompleted
      /\ Cardinality(Completed(registered')) <= MaxCompleted
  BY <1>1, <1>6, PruneFacts
<1>8. SingleActiveRun' /\ ActiveRunRetained'
  <2>1. \A r \in Started' : ~done[r] => r = new
    BY <1>3, <1>4
  <2>2. new \in registered'
    BY <1>5, <1>7
  <2>3. QED
    BY <1>1, <2>1, <2>2 DEF SingleActiveRun, ActiveRunRetained
<1>9. ASSUME NEW r \in Started' \ registered'
      PROVE  done[r] /\ Cardinality(NewerDone(r)') >= MaxCompleted
  <2>1. IsFiniteSet(NewerDone(r)') /\ Cardinality(NewerDone(r)') \in Nat
    <3>1. IsFiniteSet(Started')
      BY <1>3, RunsFinite, FS_AddElement
    <3>2. NewerDone(r)' \in SUBSET Started'
      BY DEF NewerDone
    <3>3. QED
      BY <3>1, <3>2, FS_Subset, FS_CardinalityType
  <2>2. CASE r \in runs
    <3>1. done[r] /\ Cardinality(Above(Completed(runs), r)) >= MaxCompleted
      BY <1>7, <1>9, <2>2
    <3>2. runs \subseteq Started'
      BY <1>3 DEF TypeOK
    <3>3. Above(Completed(runs), r) \in SUBSET NewerDone(r)'
      BY <1>1, <3>2 DEF Above, Completed, NewerDone
    <3>4. Cardinality(Above(Completed(runs), r)) <= Cardinality(NewerDone(r)')
      BY <2>1, <3>3, FS_Subset
    <3>5. Cardinality(Above(Completed(runs), r)) \in Nat
      BY <2>1, <3>3, FS_Subset, FS_CardinalityType
    <3>6. QED
      BY <2>1, <3>1, <3>4, <3>5
  <2>3. CASE r \notin runs
    <3>1. r \in Started \ registered
      BY <1>3, <1>9, <2>3
    <3>2. done[r] /\ Cardinality(NewerDone(r)) >= MaxCompleted
      BY <3>1 DEF EvictedOnlyWhenDisplaced, NewerDone
    <3>3. Cardinality(NewerDone(r)) <= Cardinality(NewerDone(r)')
      BY <1>1, <1>2, NewerDoneGrows
    <3>4. Cardinality(NewerDone(r)) \in Nat
      <4>1. NewerDone(r) \in SUBSET Started
        BY DEF NewerDone
      <4>2. QED
        BY <4>1, RunsFinite, FS_Subset, FS_CardinalityType
    <3>5. QED
      BY <2>1, <3>2, <3>3, <3>4
  <2>4. QED
    BY <2>2, <2>3
<1>10. EvictedOnlyWhenDisplaced'
  BY <1>1, <1>9 DEF EvictedOnlyWhenDisplaced, NewerDone
<1>11. CompletedBounded'
  <2>1. Completed(registered)' = Completed(registered')
    BY <1>1 DEF Completed
  <2>2. Cardinality(Completed(registered')) \in Nat
    <3>1. Completed(registered') \in SUBSET runs
      BY <1>7 DEF Completed
    <3>2. QED
      BY <1>6, <3>1, FS_Subset, FS_CardinalityType
  <2>3. QED
    BY <1>7, <2>1, <2>2 DEF CompletedBounded
<1>12. QED
  BY <1>8, <1>10, <1>11

(* SetDone: the one active run joins the completed ones, one beyond what the
   last start left. *)
LEMMA RegistryInvSetDone ==
    ASSUME IInv, TypeOK', NEW r \in RunId, SetDone(r)
    PROVE  RegistryInv'
<1> USE DEF IInv, RegistryInv
<1>1. /\ started' = started /\ registered' = registered /\ Started' = Started
      /\ done' = [done EXCEPT ![r] = TRUE]
  BY DEF SetDone, Started
<1>2. r \in Started /\ ~done[r] /\ done'[r]
  BY <1>1 DEF SetDone, WorkerInv, TypeOK
<1>3. \A q \in Started : q # r => done[q] /\ done'[q]
  BY <1>1, <1>2 DEF SingleActiveRun, TypeOK, Started, RunId
<1>4. SingleActiveRun' /\ ActiveRunRetained'
  BY <1>1, <1>2, <1>3 DEF SingleActiveRun, ActiveRunRetained
<1>5. EvictedOnlyWhenDisplaced'
  <2> SUFFICES ASSUME NEW q \in Started \ registered
               PROVE  done'[q] /\ Cardinality(NewerDone(q)') >= MaxCompleted
    BY <1>1 DEF EvictedOnlyWhenDisplaced, NewerDone
  <2>1. done[q] /\ Cardinality(NewerDone(q)) >= MaxCompleted
    BY DEF EvictedOnlyWhenDisplaced, NewerDone
  <2>2. Cardinality(NewerDone(q)) <= Cardinality(NewerDone(q)')
    <3>1. TypeOK /\ started <= started'
      BY <1>1 DEF TypeOK
    <3>2. \A c \in Started : done[c] => done'[c]
      BY <1>2, <1>3
    <3>3. QED
      BY <3>1, <3>2, NewerDoneGrows
  <2>3. Cardinality(NewerDone(q)) \in Nat /\ Cardinality(NewerDone(q)') \in Nat
    <3>1. NewerDone(q) \in SUBSET Started /\ NewerDone(q)' \in SUBSET Started
      BY <1>1 DEF NewerDone
    <3>2. QED
      BY <3>1, RunsFinite, FS_Subset, FS_CardinalityType
  <2>4. QED
    BY <1>2, <1>3, <2>1, <2>2, <2>3
<1>6. CompletedBounded'
  <2>1. Completed(registered)' = Completed(registered) \cup {r}
    BY <1>1, <1>2, <1>3 DEF Completed, ActiveRunRetained, TypeOK
  <2>2. Completed(registered) \in SUBSET registered
    BY DEF Completed
  <2>3. IsFiniteSet(Completed(registered)) /\ Cardinality(Completed(registered)) \in Nat
    BY <2>2, RunsFinite, FS_Subset, FS_CardinalityType
  <2>4. Cardinality(Completed(registered) \cup {r}) <= Cardinality(Completed(registered)) + 1
    BY <2>3, FS_AddElement
  <2>5. Cardinality(Completed(registered)) <= MaxCompleted
    BY <1>2 DEF CompletedBounded, HasActiveRun
  <2>6. ~HasActiveRun(Started)'
    BY <1>1, <1>2, <1>3 DEF HasActiveRun
  <2>7. Cardinality(Completed(registered) \cup {r}) \in Nat
    BY <2>3, FS_AddElement, FS_CardinalityType
  <2>8. QED
    BY <2>1, <2>3, <2>4, <2>5, <2>6, <2>7 DEF CompletedBounded
<1>7. QED
  BY <1>4, <1>5, <1>6

(* FinalPrune: only displaced completed runs leave the registry. *)
LEMMA RegistryInvFinalPrune ==
    ASSUME IInv, TypeOK', NEW q \in RunId, FinalPrune(q)
    PROVE  RegistryInv'
<1> USE DEF IInv, RegistryInv
<1>1. /\ started' = started /\ done' = done /\ Started' = Started
      /\ registered' = PruneCompleted(registered)
  BY DEF FinalPrune, Started
<1>2. /\ registered' \in SUBSET registered
      /\ \A r \in registered \ registered' :
            done[r] /\ Cardinality(Above(Completed(registered), r)) >= MaxCompleted
      /\ Cardinality(Completed(registered')) <= MaxCompleted
  BY <1>1, RunsFinite, PruneFacts
<1>3. SingleActiveRun' /\ ActiveRunRetained'
  BY <1>1, <1>2 DEF SingleActiveRun, ActiveRunRetained
<1>4. EvictedOnlyWhenDisplaced'
  <2> SUFFICES ASSUME NEW r \in Started \ registered'
               PROVE  done[r] /\ Cardinality(NewerDone(r)) >= MaxCompleted
    BY <1>1 DEF EvictedOnlyWhenDisplaced, NewerDone
  <2>1. CASE r \notin registered
    BY <2>1 DEF EvictedOnlyWhenDisplaced, NewerDone
  <2>2. CASE r \in registered
    <3>1. done[r] /\ Cardinality(Above(Completed(registered), r)) >= MaxCompleted
      BY <1>2, <2>2
    <3>2. Above(Completed(registered), r) \in SUBSET NewerDone(r)
      BY DEF Above, Completed, NewerDone, TypeOK
    <3>3. NewerDone(r) \in SUBSET Started
      BY DEF NewerDone
    <3>4. IsFiniteSet(NewerDone(r)) /\ Cardinality(NewerDone(r)) \in Nat
      BY <3>3, RunsFinite, FS_Subset, FS_CardinalityType
    <3>5. /\ Cardinality(Above(Completed(registered), r)) <= Cardinality(NewerDone(r))
          /\ Cardinality(Above(Completed(registered), r)) \in Nat
      BY <3>2, <3>4, FS_Subset, FS_CardinalityType
    <3>6. QED
      BY <3>1, <3>4, <3>5
  <2>3. QED
    BY <2>1, <2>2
<1>5. CompletedBounded'
  <2>1. Completed(registered)' = Completed(registered')
    BY <1>1 DEF Completed
  <2>2. Cardinality(Completed(registered')) \in Nat
    <3>1. Completed(registered') \in SUBSET registered
      BY <1>2 DEF Completed
    <3>2. QED
      BY <3>1, RunsFinite, FS_Subset, FS_CardinalityType
  <2>3. QED
    BY <1>2, <2>1, <2>2 DEF CompletedBounded
<1>6. QED
  BY <1>3, <1>4, <1>5
-----------------------------------------------------------------------------
(* The theorems. *)

(* Every critical section of start() and of a worker keeps the invariant. *)
LEMMA InvStep == IInv /\ [Next]_registryVars => IInv'
<1> SUFFICES ASSUME IInv, [Next]_registryVars PROVE IInv'
  OBVIOUS
<1>1. CASE UNCHANGED registryVars
  <2>1. TypeOK' /\ WorkerInv'
    BY <1>1 DEF IInv, TypeOK, WorkerInv, Started, registryVars
  <2>2. RegistryInv'
    BY <1>1, RegistryInvFrame DEF IInv, registryVars
  <2>3. QED
    BY <2>1, <2>2 DEF IInv
<1>2. CASE Next
  <2>1. TypeOK' /\ WorkerInv'
    BY <1>2, WorkerInvStep DEF IInv
  <2>2. RegistryInv'
    <3>1. CASE Start
      BY <2>1, <3>1, RegistryInvStart
    <3>2. ASSUME NEW r \in RunId, Worker(r) PROVE RegistryInv'
      <4>1. CASE SetDone(r)
        BY <2>1, <4>1, RegistryInvSetDone
      <4>2. CASE FinalPrune(r)
        BY <2>1, <4>2, RegistryInvFinalPrune
      <4>3. CASE AppendEvent(r) \/ PutEvent(r) \/ RecordOutcome(r) \/ RecordError(r)
                 \/ PutErrorEvent(r) \/ PutEndOfStream(r)
        <5>1. UNCHANGED <<started, registered, done>>
          BY <4>3 DEF AppendEvent, PutEvent, RecordOutcome, RecordError,
                      PutErrorEvent, PutEndOfStream
        <5>2. QED
          BY <5>1, RegistryInvFrame DEF IInv
      <4>4. QED
        BY <3>2, <4>1, <4>2, <4>3 DEF Worker
    <3>3. QED
      BY <1>2, <3>1, <3>2 DEF Next
  <2>3. QED
    BY <2>1, <2>2 DEF IInv
<1>3. QED
  BY <1>1, <1>2

(* The inductive invariant holds in every behaviour of the registry. *)
THEOREM InvariantCorrect == Spec => []IInv
<1>1. QED
  BY InitInv, InvStep, PTL DEF Spec

(* Every variable of the registry keeps its type. *)
THEOREM TypeCorrect == Spec => []TypeOK
<1>1. IInv => TypeOK
  BY DEF IInv
<1>2. QED
  BY <1>1, InvariantCorrect, PTL

(* However requests and finishing workers interleave, no two runs are ever
   in flight: two concurrent POST /api/assess cannot both be accepted. *)
THEOREM AtMostOneActive == Spec => []SingleActiveRun
<1>1. IInv => SingleActiveRun
  BY DEF IInv, RegistryInv
<1>2. QED
  BY <1>1, InvariantCorrect, PTL

(* The run in flight can always be looked up by its id. *)
THEOREM ActiveIsRetained == Spec => []ActiveRunRetained
<1>1. IInv => ActiveRunRetained
  BY DEF IInv, RegistryInv
<1>2. QED
  BY <1>1, InvariantCorrect, PTL

(* Only runs that MaxCompleted newer results have displaced are evicted. *)
THEOREM EvictionIsFair == Spec => []EvictedOnlyWhenDisplaced
<1>1. IInv => EvictedOnlyWhenDisplaced
  BY DEF IInv, RegistryInv
<1>2. QED
  BY <1>1, InvariantCorrect, PTL

(* The registry's memory is bounded by MaxCompleted + 1 runs at every
   instant, not only after a prune. *)
THEOREM RegistryIsBounded == Spec => []RegistryBounded
<1>1. IInv => RegistryBounded
  <2> SUFFICES ASSUME IInv PROVE RegistryBounded
    OBVIOUS
  <2> USE DEF IInv, RegistryInv
  <2>1. Completed(registered) \in SUBSET registered
    BY DEF Completed
  <2>2. /\ IsFiniteSet(Completed(registered))
        /\ Cardinality(Completed(registered)) \in Nat
    BY <2>1, RunsFinite, FS_Subset, FS_CardinalityType
  <2>3. CASE HasActiveRun(registered)
    <3>1. PICK r \in registered : ~done[r]
      BY <2>3 DEF HasActiveRun
    <3>2. registered = Completed(registered) \cup {r}
      BY <3>1 DEF Completed, SingleActiveRun, TypeOK
    <3>3. Cardinality(registered) <= Cardinality(Completed(registered)) + 1
      BY <2>2, <3>2, FS_AddElement
    <3>4. Cardinality(Completed(registered)) <= MaxCompleted
      BY <3>1 DEF CompletedBounded, HasActiveRun, TypeOK
    <3>5. Cardinality(registered) \in Nat
      BY RunsFinite, FS_CardinalityType
    <3>6. QED
      BY <2>2, <3>3, <3>4, <3>5 DEF RegistryBounded
  <2>4. CASE ~HasActiveRun(registered)
    <3>1. registered = Completed(registered)
      BY <2>4 DEF HasActiveRun, Completed
    <3>2. QED
      BY <3>1 DEF RegistryBounded, CompletedBounded
  <2>5. QED
    BY <2>3, <2>4
<1>2. QED
  BY <1>1, InvariantCorrect, PTL

(* A completed run has an outcome or an error, never both or neither. *)
THEOREM VerdictCorrect == Spec => []VerdictIsExclusive
<1>1. IInv => VerdictIsExclusive
  BY DEF IInv, WorkerInv, VerdictIsExclusive, InFinally, TypeOK, Started, RunId
<1>2. QED
  BY <1>1, InvariantCorrect, PTL

-----------------------------------------------------------------------------
(* Refinement of RunLifecycle: start() begins a run and forgets displaced
   ones, SetDone finishes it, the final prune forgets; every other step of a
   worker is invisible. *)

(* The instance's cardinality is the cardinality. *)
LEMMA SameCardinality == \A S : Lifecycle!Cardinality(S) = Cardinality(S)
BY DEF Lifecycle!Cardinality, Lifecycle!IsFiniteSet, Cardinality, IsFiniteSet

(* An accepted start() is the abstract Begin: no run was in flight, the new id
   is the newest, and what its prune evicts was forgettable. *)
LEMMA StartBegins ==
    ASSUME IInv, Start
    PROVE  Lifecycle!Begin
<1> DEFINE new == started + 1
           runs == registered \cup {new}
           fin == {r \in Started : done[r]}
<1> USE DEF IInv, RegistryInv
<1>1. started' = new /\ done' = done /\ registered' = PruneCompleted(runs)
  BY DEF Start
<1>2. new \in RunId /\ new \in Int /\ started \in Nat
  BY DEF Start, RunId, TypeOK
<1>3. Started' = Started \cup {new} /\ \A r \in Started : r < new
  BY <1>1, <1>2 DEF Started
<1>4. (\A r \in Started : done[r]) /\ ~done[new]
  BY <1>2, <1>3 DEF Start, HasActiveRun, ActiveRunRetained, WorkerInv
<1>5. runs \in SUBSET Int /\ IsFiniteSet(runs)
  BY <1>2, RunsFinite, FS_AddElement
<1>6. /\ registered' \in SUBSET runs
      /\ \A r \in runs \ registered' :
            done[r] /\ Cardinality(Above(Completed(runs), r)) >= MaxCompleted
  BY <1>1, <1>5, PruneFacts
<1>7. /\ {r \in Started : ~done[r]} = {}
      /\ {r \in Started : ~done[r]}' = {new}
      /\ fin' = fin
      /\ \A f \in fin : f < new
  BY <1>1, <1>3, <1>4
<1>8. ASSUME NEW f \in (registered \cup {new}) \ registered'
      PROVE  f \in fin /\ Cardinality({g \in fin : g > f}) >= MaxCompleted
  <2>1. done[f] /\ Cardinality(Above(Completed(runs), f)) >= MaxCompleted
    BY <1>6
  <2>2. f \in fin
    BY <1>4, <2>1 DEF TypeOK
  <2>3. Above(Completed(runs), f) \in SUBSET {g \in fin : g > f}
    BY <1>4 DEF Above, Completed, TypeOK
  <2>4. {g \in fin : g > f} \in SUBSET Started
    OBVIOUS
  <2>5. IsFiniteSet({g \in fin : g > f}) /\ Cardinality({g \in fin : g > f}) \in Nat
    BY <2>4, RunsFinite, FS_Subset, FS_CardinalityType
  <2>6. /\ Cardinality(Above(Completed(runs), f)) <= Cardinality({g \in fin : g > f})
        /\ Cardinality(Above(Completed(runs), f)) \in Nat
    BY <2>3, <2>5, FS_Subset, FS_CardinalityType
  <2>7. QED
    BY <2>1, <2>2, <2>5, <2>6
<1>9. QED
  BY <1>2, <1>6, <1>7, <1>8, SameCardinality DEF Lifecycle!Begin, Lifecycle!Forgettable

(* Setting Run.done is the abstract Finish of the one run in flight. *)
LEMMA SetDoneFinishes ==
    ASSUME IInv, NEW r \in RunId, SetDone(r)
    PROVE  Lifecycle!Finish
<1> USE DEF IInv, RegistryInv
<1>1. /\ registered' = registered /\ Started' = Started
      /\ done' = [done EXCEPT ![r] = TRUE]
  BY DEF SetDone, Started
<1>2. r \in Started /\ ~done[r] /\ done'[r]
  BY <1>1 DEF SetDone, WorkerInv, TypeOK
<1>3. \A q \in Started : q # r => done[q] /\ done'[q]
  BY <1>1, <1>2 DEF SingleActiveRun, TypeOK, Started, RunId
<1>4. /\ {q \in Started : ~done[q]} = {r}
      /\ {q \in Started : ~done[q]}' = {}
      /\ {q \in Started : done[q]}' = {q \in Started : done[q]} \cup {r}
  BY <1>1, <1>2, <1>3
<1>5. QED
  BY <1>1, <1>4 DEF Lifecycle!Finish

(* A worker's last prune is the abstract Forget. *)
LEMMA FinalPruneForgets ==
    ASSUME IInv, NEW q \in RunId, FinalPrune(q)
    PROVE  Lifecycle!Forget
<1> DEFINE fin == {r \in Started : done[r]}
<1> USE DEF IInv, RegistryInv
<1>1. /\ done' = done /\ Started' = Started /\ registered' = PruneCompleted(registered)
  BY DEF FinalPrune, Started
<1>2. /\ registered' \in SUBSET registered
      /\ \A r \in registered \ registered' :
            done[r] /\ Cardinality(Above(Completed(registered), r)) >= MaxCompleted
  BY <1>1, RunsFinite, PruneFacts
<1>3. ASSUME NEW f \in registered \ registered'
      PROVE  f \in fin /\ Cardinality({g \in fin : g > f}) >= MaxCompleted
  <2>1. f \in fin
    BY <1>2 DEF TypeOK
  <2>2. Above(Completed(registered), f) \in SUBSET {g \in fin : g > f}
    BY DEF Above, Completed, TypeOK
  <2>3. {g \in fin : g > f} \in SUBSET Started
    OBVIOUS
  <2>4. IsFiniteSet({g \in fin : g > f}) /\ Cardinality({g \in fin : g > f}) \in Nat
    BY <2>3, RunsFinite, FS_Subset, FS_CardinalityType
  <2>5. /\ Cardinality(Above(Completed(registered), f)) <= Cardinality({g \in fin : g > f})
        /\ Cardinality(Above(Completed(registered), f)) \in Nat
    BY <2>2, <2>4, FS_Subset, FS_CardinalityType
  <2>6. QED
    BY <1>2, <2>1, <2>4, <2>5
<1>4. UNCHANGED <<{r \in Started : ~done[r]}, fin>>
  BY <1>1
<1>5. QED
  BY <1>2, <1>3, <1>4, SameCardinality DEF Lifecycle!Forget, Lifecycle!Forgettable

(* A fresh registry maps to the abstract initial state. *)
LEMMA InitRefines == Init => Lifecycle!Init
BY DEF Init, Lifecycle!Init, Started

(* Every step of the registry maps to an abstract step or to a stutter. *)
LEMMA StepRefines ==
    IInv /\ [Next]_registryVars => [Lifecycle!Next]_(Lifecycle!lifecycleVars)
<1> SUFFICES ASSUME IInv, [Next]_registryVars
             PROVE  Lifecycle!Next \/ UNCHANGED Lifecycle!lifecycleVars
  OBVIOUS
<1>1. CASE Start
  BY <1>1, StartBegins DEF Lifecycle!Next
<1>2. ASSUME NEW r \in RunId, SetDone(r) PROVE Lifecycle!Next
  BY <1>2, SetDoneFinishes DEF Lifecycle!Next
<1>3. ASSUME NEW r \in RunId, FinalPrune(r) PROVE Lifecycle!Next
  BY <1>3, FinalPruneForgets DEF Lifecycle!Next
<1>4. ASSUME UNCHANGED <<started, registered, done>>
      PROVE  UNCHANGED Lifecycle!lifecycleVars
  BY <1>4 DEF Lifecycle!lifecycleVars, Started
<1>5. ASSUME NEW r \in RunId,
             AppendEvent(r) \/ PutEvent(r) \/ RecordOutcome(r) \/ RecordError(r)
             \/ PutErrorEvent(r) \/ PutEndOfStream(r)
      PROVE  UNCHANGED <<started, registered, done>>
  BY <1>5 DEF AppendEvent, PutEvent, RecordOutcome, RecordError, PutErrorEvent,
              PutEndOfStream
<1>6. CASE UNCHANGED registryVars
  BY <1>4, <1>6 DEF registryVars
<1>7. QED
  BY <1>1, <1>2, <1>3, <1>4, <1>5, <1>6 DEF Next, Worker

(* Every behaviour of the registry is a behaviour of the abstract life cycle. *)
THEOREM RegistryRefinesLifecycle == Spec => ImplementsLifecycle
<1>1. QED
  BY InvariantCorrect, InitRefines, StepRefines, PTL
     DEF Spec, ImplementsLifecycle, Lifecycle!Spec
=============================================================================
