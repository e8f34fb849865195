--------------------------- MODULE RunStreamProofs ---------------------------
(***************************************************************************)
(* Theorems about RunStream, for any number of runs, events, connections   *)
(* and broken connections: the streams do not disturb the registry, nor    *)
(* the life cycle it implements, no page asks for a result too early, and  *)
(* a stream that never broke has shown its whole run.                      *)
(***************************************************************************)
EXTENDS RunStream, RunRegistryProofs, SequenceTheorems

(* The sentinel is among the items. *)
Ends(items) == \E i \in DOMAIN items : items[i] = EndOfStream

HandlersOK ==
    /\ opened \in 0..MaxConnections
    /\ hpc \in [Handler -> {"free", "snapshot", "serving", "closed"}]
    /\ hrun \in [Handler -> Int]
    /\ pending \in [Handler -> Seq(QueueItem)]
    /\ wire \in [Handler -> BOOLEAN]
    /\ page \in [RunId -> {"idle", "watching", "lost", "finished"} \cup ResultShown]
    /\ \A h \in Handler : hpc[h] \in {"snapshot", "serving"} \/ wire[h] => hrun[h] \in RunId
    /\ \A h \in Handler : h > opened => hpc[h] = "free" /\ ~Ends(pending[h])

(* Wherever the sentinel has got to, its run is done. *)
SentinelMeansDone ==
    /\ \A r \in RunId : Ends(queue[r]) => done[r]
    /\ \A h \in Handler : Ends(pending[h]) => hrun[h] \in RunId /\ done[hrun[h]]
    /\ \A r \in RunId : page[r] = "finished" => done[r]

SInv == IInv /\ HandlersOK /\ SentinelMeansDone /\ NeverFetchedEarly

-----------------------------------------------------------------------------
LEMMA Items ==
    /\ EndOfStream \in QueueItem /\ ErrorEvent \in QueueItem /\ ProgressEvent \subseteq QueueItem
    /\ EndOfStream \notin ProgressEvent /\ ErrorEvent # EndOfStream
  BY BoundsAssumption DEF EndOfStream, ErrorEvent, ProgressEvent, QueueItem

LEMMA EndsAppended ==
    ASSUME NEW s \in Seq(QueueItem), NEW x \in QueueItem, Ends(Append(s, x))
    PROVE Ends(s) \/ x = EndOfStream
<1>1. PICK i \in DOMAIN Append(s, x) : Append(s, x)[i] = EndOfStream
  BY DEF Ends
<1>2. i \in 1..(Len(s) + 1)
  OBVIOUS
<1>3. CASE i = Len(s) + 1
  BY <1>1, <1>3
<1>4. CASE i \in 1..Len(s)
  BY <1>1, <1>4 DEF Ends
<1> QED
  BY <1>2, <1>3, <1>4

LEMMA EndsOfTail ==
    ASSUME NEW s \in Seq(QueueItem), s # <<>>
    PROVE /\ Ends(Tail(s)) => Ends(s)
          /\ Head(s) = EndOfStream => Ends(s)
          /\ Tail(s) \in Seq(QueueItem) /\ Head(s) \in QueueItem
<1>1. Len(s) > 0 /\ Len(s) \in Nat
  OBVIOUS
<1>2. ASSUME NEW i \in DOMAIN Tail(s), Tail(s)[i] = EndOfStream PROVE Ends(s)
  <2>1. i \in 1..(Len(s) - 1) /\ Tail(s)[i] = s[i + 1]
    BY <1>1
  <2> QED
    BY <1>1, <1>2, <2>1 DEF Ends
<1>3. Head(s) = s[1] /\ 1 \in DOMAIN s
  BY <1>1
<1> QED
  BY <1>2, <1>3 DEF Ends

LEMMA NothingEnds == ~Ends(<<>>)
  BY DEF Ends

LEMMA EndsOfSnapshot ==
    ASSUME NEW s \in Seq(ProgressEvent), NEW b \in BOOLEAN
    PROVE /\ s \o (IF b THEN <<EndOfStream>> ELSE <<>>) \in Seq(QueueItem)
          /\ Ends(s \o (IF b THEN <<EndOfStream>> ELSE <<>>)) => b
<1>1. s \in Seq(QueueItem) /\ \A i \in DOMAIN s : s[i] # EndOfStream
  BY Items
<1>2. CASE b
  BY <1>1, <1>2, Items
<1>3. CASE ~b
  <2>1. s \o <<>> = s
    BY <1>1
  <2> QED
    BY <1>1, <1>3, <2>1 DEF Ends
<1> QED
  BY <1>2, <1>3

-----------------------------------------------------------------------------
LEMMA StreamInitInv == StreamInit => SInv
<1> SUFFICES ASSUME StreamInit PROVE SInv
  OBVIOUS
<1>1. IInv
  BY InitInv DEF StreamInit
<1>2. HandlersOK
  BY NothingEnds, StreamBoundsAssumption DEF StreamInit, HandlersOK, Handler, ResultShown
<1>3. SentinelMeansDone /\ NeverFetchedEarly
  BY NothingEnds DEF StreamInit, Init, SentinelMeansDone, NeverFetchedEarly
<1> QED
  BY <1>1, <1>2, <1>3 DEF SInv

(* A run that is done stays done. *)
LEMMA DoneStays ==
    ASSUME IInv, Next, NEW r \in RunId, done[r] PROVE done'[r]
<1>1. CASE Start
  BY <1>1 DEF Start
<1>2. CASE \E q \in RunId : Worker(q)
  BY <1>2 DEF Worker, AppendEvent, PutEvent, RecordOutcome, RecordError, PutErrorEvent, SetDone,
     PutEndOfStream, FinalPrune, IInv, TypeOK
<1> QED
  BY <1>1, <1>2 DEF Next

(* Only a worker whose run is done puts the sentinel. *)
LEMMA QueuesEnd ==
    ASSUME IInv, SentinelMeansDone, Next, NEW r \in RunId, Ends(queue'[r]) PROVE done'[r]
<1> USE DEF IInv, TypeOK
<1>1. CASE Ends(queue[r])
  BY <1>1, DoneStays DEF SentinelMeansDone
<1>2. CASE ~Ends(queue[r])
  <2>1. queue'[r] # queue[r]
    BY <1>2
  <2>2. PICK q \in RunId : PutEvent(q) \/ PutErrorEvent(q) \/ PutEndOfStream(q)
    BY <2>1 DEF Next, Start, Worker, AppendEvent, RecordOutcome, RecordError, SetDone, FinalPrune
  <2>3. q = r
    BY <2>1, <2>2 DEF PutEvent, PutErrorEvent, PutEndOfStream
  <2>4. CASE PutEvent(r)
    <3>1. queue'[r] = Append(queue[r], Len(events[r])) /\ Len(events[r]) \in ProgressEvent
      BY <2>4, BoundsAssumption DEF PutEvent, WorkerInv, ProgressEvent
    <3> QED
      BY <1>2, <3>1, EndsAppended, Items
  <2>5. CASE PutErrorEvent(r)
    <3>1. queue'[r] = Append(queue[r], ErrorEvent)
      BY <2>5 DEF PutErrorEvent
    <3> QED
      BY <1>2, <3>1, EndsAppended, Items
  <2>6. CASE PutEndOfStream(r)
    BY <2>6 DEF PutEndOfStream, WorkerInv
  <2> QED
    BY <2>2, <2>3, <2>4, <2>5, <2>6
<1> QED
  BY <1>1, <1>2

-----------------------------------------------------------------------------
(* What the registry does leaves every handler as it is. *)
LEMMA RegistryStepKeeps == SInv /\ RegistryStep => SInv'
<1> SUFFICES ASSUME SInv, RegistryStep PROVE SInv'
  OBVIOUS
<1>1. Next /\ UNCHANGED streamVars /\ IInv
  BY DEF RegistryStep, SInv
<1>2. IInv'
  BY <1>1, InvStep
<1>3. HandlersOK'
  BY <1>1 DEF SInv, HandlersOK, streamVars
<1>4. SentinelMeansDone'
  <2>1. \A r \in RunId : Ends(queue'[r]) => done'[r]
    BY <1>1, QueuesEnd DEF SInv
  <2>2. \A r \in RunId : done[r] => done'[r]
    BY <1>1, DoneStays
  <2> QED
    BY <1>1, <2>1, <2>2 DEF SInv, SentinelMeansDone, streamVars
<1>5. NeverFetchedEarly'
  BY <1>1 DEF SInv, NeverFetchedEarly, streamVars
<1> QED
  BY <1>2, <1>3, <1>4, <1>5 DEF SInv

(* A step of a stream that leaves the registry alone. *)
LEMMA StreamStepFrame ==
    ASSUME IInv, UNCHANGED registryVars PROVE IInv'
  BY InvStep DEF registryVars

(* Taking from a queue is nothing the registry notices. *)
LEMMA TakeFrame ==
    ASSUME IInv, HandlersOK, NEW h \in Handler, TakeFromQueue(h)
    PROVE IInv'
<1>1. UNCHANGED <<started, registered, pc, events, outcome, error, done>>
  BY DEF TakeFromQueue
<1>2. hrun[h] \in RunId /\ queue[hrun[h]] # <<>> /\ queue' = [queue EXCEPT ![hrun[h]] = Tail(@)]
  BY DEF TakeFromQueue, HandlersOK
<1>3. queue' \in [RunId -> Seq(QueueItem)]
  BY <1>2, EndsOfTail DEF IInv, TypeOK
<1>4. TypeOK'
  BY <1>1, <1>3 DEF IInv, TypeOK, Started
<1>5. WorkerInv'
  BY <1>1 DEF IInv, WorkerInv, Started
<1>6. RegistryInv'
  BY <1>1 DEF IInv, RegistryInv, SingleActiveRun, ActiveRunRetained, EvictedOnlyWhenDisplaced,
     CompletedBounded, Completed, HasActiveRun, Started
<1> QED
  BY <1>4, <1>5, <1>6 DEF IInv

LEMMA TakeKeeps ==
    ASSUME SInv, NEW h \in Handler, TakeFromQueue(h) PROVE SInv'
<1> USE DEF SInv
<1>1. IInv'
  BY TakeFrame
<1>2. /\ hpc[h] = "serving" /\ hrun[h] \in RunId /\ queue[hrun[h]] # <<>> /\ pending[h] = <<>>
      /\ pending' = [pending EXCEPT ![h] = <<Head(queue[hrun[h]])>>]
      /\ queue' = [queue EXCEPT ![hrun[h]] = Tail(@)]
      /\ UNCHANGED <<done, opened, hpc, hrun, wire, page>>
  BY DEF TakeFromQueue, HandlersOK
<1>3. queue \in [RunId -> Seq(QueueItem)] /\ pending \in [Handler -> Seq(QueueItem)]
  BY DEF HandlersOK, IInv, TypeOK
<1>4. Head(queue[hrun[h]]) \in QueueItem
  BY <1>2, <1>3, EndsOfTail
<1>5. Ends(pending'[h]) => done[hrun[h]]
  <2>1. pending'[h] = <<Head(queue[hrun[h]])>>
    BY <1>2, <1>3
  <2>2. Ends(pending'[h]) => Head(queue[hrun[h]]) = EndOfStream
    BY <2>1 DEF Ends
  <2> QED
    BY <1>2, <1>3, <2>2, EndsOfTail DEF SentinelMeansDone
<1>6. \A r \in RunId : Ends(queue'[r]) => Ends(queue[r])
  BY <1>2, <1>3, EndsOfTail
<1>7. HandlersOK'
  <2>1. pending' \in [Handler -> Seq(QueueItem)]
    BY <1>2, <1>3, <1>4
  <2>2. \A g \in Handler : g > opened => pending'[g] = pending[g]
    BY <1>2, <1>3 DEF HandlersOK
  <2> QED
    BY <1>2, <2>1, <2>2 DEF HandlersOK
<1>8. SentinelMeansDone'
  <2>1. \A g \in Handler \ {h} : pending'[g] = pending[g]
    BY <1>2, <1>3
  <2> QED
    BY <1>2, <1>5, <1>6, <2>1 DEF SentinelMeansDone
<1> QED
  BY <1>1, <1>2, <1>7, <1>8 DEF NeverFetchedEarly

(* All other steps of a handler only change what is pending, where the handler
   is, and the page. *)
LEMMA HandlerKeeps ==
    ASSUME SInv, NEW h \in Handler, HandlerStep(h) PROVE SInv'
<1> USE DEF SInv
<1>1. CASE TakeFromQueue(h)
  BY <1>1, TakeKeeps
<1>2. ASSUME UNCHANGED registryVars,
             UNCHANGED <<opened, hrun>>,
             NEW items \in Seq(QueueItem), pending' = [pending EXCEPT ![h] = items],
             Ends(items) => hrun[h] \in RunId /\ done[hrun[h]],
             NEW position \in {"serving", "closed"}, hpc' = [hpc EXCEPT ![h] = position],
             hrun[h] \in RunId, hpc[h] # "free",
             wire' = wire \/ wire' = [wire EXCEPT ![h] = FALSE],
             page' = page \/ (done[hrun[h]] /\ page' = [page EXCEPT ![hrun[h]] = "finished"])
      PROVE SInv'
  <2>1. IInv'
    BY <1>2, StreamStepFrame
  <2>2. HandlersOK'
    <3>1. ~(h > opened)
      BY <1>2 DEF HandlersOK
    <3>2. \A g \in Handler \ {h} : pending'[g] = pending[g] /\ hpc'[g] = hpc[g]
      BY <1>2 DEF HandlersOK
    <3>3. \A g \in Handler : g > opened' => hpc'[g] = "free" /\ ~Ends(pending'[g])
      BY <1>2, <3>1, <3>2 DEF HandlersOK
    <3>4. /\ hpc' \in [Handler -> {"free", "snapshot", "serving", "closed"}]
          /\ hrun' \in [Handler -> Int]
          /\ pending' \in [Handler -> Seq(QueueItem)]
          /\ wire' \in [Handler -> BOOLEAN]
          /\ page' \in [RunId -> {"idle", "watching", "lost", "finished"} \cup ResultShown]
          /\ opened' \in 0..MaxConnections
      BY <1>2 DEF HandlersOK
    <3>5. \A g \in Handler : hpc'[g] \in {"snapshot", "serving"} \/ wire'[g] => hrun'[g] \in RunId
      BY <1>2, <3>2 DEF HandlersOK
    <3> QED
      BY <3>3, <3>4, <3>5 DEF HandlersOK
  <2>3. SentinelMeansDone'
    <3>1. done' = done /\ queue' = queue
      BY <1>2 DEF registryVars
    <3>2. pending'[h] = items /\ \A g \in Handler \ {h} : pending'[g] = pending[g]
      BY <1>2 DEF HandlersOK
    <3>3. \A r \in RunId : page'[r] = "finished" => page[r] = "finished" \/ (r = hrun[h] /\ done[r])
      BY <1>2 DEF HandlersOK
    <3> QED
      BY <1>2, <3>1, <3>2, <3>3 DEF SentinelMeansDone
  <2>4. NeverFetchedEarly'
    BY <1>2 DEF NeverFetchedEarly, HandlersOK
  <2> QED
    BY <2>1, <2>2, <2>3, <2>4
<1>3. CASE Snapshot(h)
  <2> DEFINE items == events[hrun[h]] \o (IF done[hrun[h]] THEN <<EndOfStream>> ELSE <<>>)
  <2>1. hrun[h] \in RunId /\ hpc[h] # "free"
    BY <1>3 DEF Snapshot, HandlersOK
  <2>2. events[hrun[h]] \in Seq(ProgressEvent) /\ done[hrun[h]] \in BOOLEAN
    BY <2>1 DEF IInv, TypeOK
  <2>3. items \in Seq(QueueItem) /\ (Ends(items) => done[hrun[h]])
    BY <2>2, EndsOfSnapshot
  <2>4. /\ pending' = [pending EXCEPT ![h] = items] /\ hpc' = [hpc EXCEPT ![h] = "serving"]
        /\ UNCHANGED registryVars /\ UNCHANGED <<opened, hrun>> /\ wire' = wire /\ page' = page
    BY <1>3 DEF Snapshot
  <2> HIDE DEF items
  <2> QED
    BY <1>2, <2>1, <2>3, <2>4
<1>4. CASE Deliver(h) \/ WriteVanishes(h)
  <2>1. /\ hpc[h] = "serving" /\ hrun[h] \in RunId /\ pending[h] # <<>> /\ pending[h] \in Seq(QueueItem)
        /\ Written(h) /\ UNCHANGED registryVars /\ UNCHANGED <<opened, hrun>>
    BY <1>4 DEF Deliver, WriteVanishes, HandlersOK
  <2>2. /\ Tail(pending[h]) \in Seq(QueueItem)
        /\ Ends(Tail(pending[h])) => Ends(pending[h])
        /\ Head(pending[h]) = EndOfStream => Ends(pending[h])
    BY <2>1, EndsOfTail
  <2>3. Ends(pending[h]) => done[hrun[h]]
    BY DEF SentinelMeansDone
  <2>4. pending' = [pending EXCEPT ![h] = Tail(pending[h])]
    BY <2>1 DEF Written
  <2>5. \E position \in {"serving", "closed"} : hpc' = [hpc EXCEPT ![h] = position]
    BY <2>1 DEF Written, HandlersOK
  <2>6. /\ wire' = wire \/ wire' = [wire EXCEPT ![h] = FALSE]
        /\ page' = page \/ (done[hrun[h]] /\ page' = [page EXCEPT ![hrun[h]] = "finished"])
    BY <1>4, <2>2, <2>3 DEF Deliver, WriteVanishes
  <2> QED
    BY <1>2, <2>1, <2>2, <2>3, <2>4, <2>5, <2>6
<1>5. CASE WriteFails(h)
  <2>1. /\ hrun[h] \in RunId /\ hpc[h] # "free" /\ UNCHANGED registryVars /\ UNCHANGED <<opened, hrun>>
        /\ hpc' = [hpc EXCEPT ![h] = "closed"] /\ pending' = [pending EXCEPT ![h] = <<>>]
        /\ wire' = wire /\ page' = page
    BY <1>5 DEF WriteFails, HandlersOK
  <2>2. <<>> \in Seq(QueueItem)
    OBVIOUS
  <2> QED
    BY <1>2, <2>1, <2>2, NothingEnds
<1> QED
  BY <1>1, <1>3, <1>4, <1>5 DEF HandlerStep

(* The page, and a connection that breaks. *)
LEMMA PageKeeps ==
    ASSUME SInv,
           \/ \E r \in RunId : Connect(r) \/ FetchResult(r)
           \/ \E h \in Handler : Drop(h)
    PROVE SInv'
<1> USE DEF SInv
<1>1. UNCHANGED registryVars /\ pending' = pending
  BY DEF Connect, FetchResult, Drop
<1>2. IInv' /\ done' = done /\ queue' = queue
  BY <1>1, StreamStepFrame DEF registryVars
<1>3. ASSUME NEW r \in RunId, Connect(r) PROVE SInv'
  <2>1. opened + 1 \in Handler /\ opened' = opened + 1 /\ r \in Started
    BY <1>3, StreamBoundsAssumption DEF Connect, HandlersOK, Handler
  <2>2. HandlersOK'
    <3>1. CASE r \in registered
      <4>1. /\ hpc' = [hpc EXCEPT ![opened + 1] = "snapshot"]
            /\ hrun' = [hrun EXCEPT ![opened + 1] = r]
            /\ wire' = [wire EXCEPT ![opened + 1] = TRUE]
            /\ page' = [page EXCEPT ![r] = "watching"]
        BY <1>3, <3>1 DEF Connect
      <4>2. opened' \in 0..MaxConnections /\ \A h \in Handler : h > opened' => h > opened /\ h # opened + 1
        BY <2>1, StreamBoundsAssumption DEF Handler, HandlersOK
      <4>3. /\ hpc' \in [Handler -> {"free", "snapshot", "serving", "closed"}]
            /\ hrun' \in [Handler -> Int]
            /\ wire' \in [Handler -> BOOLEAN]
            /\ page' \in [RunId -> {"idle", "watching", "lost", "finished"} \cup ResultShown]
        BY <2>1, <4>1 DEF HandlersOK, RunId
      <4>4. \A h \in Handler : hpc'[h] \in {"snapshot", "serving"} \/ wire'[h] => hrun'[h] \in RunId
        BY <2>1, <4>1 DEF HandlersOK
      <4>5. \A h \in Handler : h > opened' => hpc'[h] = "free"
        BY <4>1, <4>2 DEF HandlersOK
      <4> QED
        BY <1>1, <4>2, <4>3, <4>4, <4>5 DEF HandlersOK
    <3>2. CASE r \notin registered
      <4>1. UNCHANGED <<hpc, hrun, wire>> /\ page' = [page EXCEPT ![r] = "lost"]
        BY <1>3, <3>2 DEF Connect
      <4>2. opened' \in 0..MaxConnections /\ \A h \in Handler : h > opened' => h > opened /\ h # opened + 1
        BY <2>1, StreamBoundsAssumption DEF Handler, HandlersOK
      <4> QED
        BY <1>1, <4>1, <4>2 DEF HandlersOK
    <3> QED
      BY <3>1, <3>2
  <2>3. \A g \in Handler : hrun'[g] = hrun[g] \/ ~Ends(pending[g])
    <3>1. opened + 1 > opened
      BY DEF HandlersOK
    <3>2. \A g \in Handler \ {opened + 1} : hrun'[g] = hrun[g]
      BY <1>3 DEF Connect, HandlersOK
    <3> QED
      BY <2>1, <3>1, <3>2 DEF HandlersOK
  <2>4. \A q \in RunId : page'[q] \in {"finished", "running"} => page'[q] = page[q]
    BY <1>3 DEF Connect, HandlersOK
  <2> QED
    BY <1>1, <1>2, <2>2, <2>3, <2>4 DEF SentinelMeansDone, NeverFetchedEarly
<1>4. ASSUME NEW r \in RunId, FetchResult(r) PROVE SInv'
  <2>1. done[r] /\ UNCHANGED <<opened, hpc, hrun, wire>>
    BY <1>4 DEF FetchResult, SentinelMeansDone
  <2>2. \E shown \in ResultShown \ {"running"} : page' = [page EXCEPT ![r] = shown]
    <3> DEFINE shown == IF r \notin registered THEN "not_found"
                        ELSE IF error[r] THEN "error" ELSE "complete"
    <3>1. page' = [page EXCEPT ![r] = shown]
      BY <1>4, <2>1 DEF FetchResult
    <3>2. shown \in ResultShown \ {"running"}
      BY DEF ResultShown
    <3> QED
      BY <3>1, <3>2
  <2>3. HandlersOK'
    BY <1>1, <2>1, <2>2 DEF HandlersOK
  <2>4. \A q \in RunId : page'[q] \in {"finished", "running"} => page'[q] = page[q]
    BY <2>2 DEF HandlersOK, ResultShown
  <2> QED
    BY <1>1, <1>2, <2>1, <2>3, <2>4 DEF SentinelMeansDone, NeverFetchedEarly
<1>5. ASSUME NEW h \in Handler, Drop(h) PROVE SInv'
  <2>1. /\ UNCHANGED <<opened, hpc, hrun, page>> /\ wire' = [wire EXCEPT ![h] = FALSE]
    BY <1>5 DEF Drop
  <2>2. HandlersOK'
    BY <1>1, <2>1 DEF HandlersOK
  <2> QED
    BY <1>1, <1>2, <2>1, <2>2 DEF SentinelMeansDone, NeverFetchedEarly
<1> QED
  BY <1>3, <1>4, <1>5

-----------------------------------------------------------------------------
(* The strengthened invariant holds in every reachable state. *)
THEOREM StreamInvariant == StreamSpec => []SInv
<1>1. SInv /\ [StreamNext]_vars => SInv'
  <2>1. CASE StreamNext
    BY <2>1, RegistryStepKeeps, HandlerKeeps, PageKeeps DEF StreamNext
  <2>2. ASSUME SInv, UNCHANGED vars PROVE SInv'
    <3>1. IInv'
      BY <2>2, StreamStepFrame DEF vars, SInv
    <3> QED
      BY <2>2, <3>1 DEF SInv, vars, registryVars, streamVars, HandlersOK, SentinelMeansDone, NeverFetchedEarly
  <2> QED
    BY <2>1, <2>2
<1> QED
  BY <1>1, StreamInitInv, PTL DEF StreamSpec

(* However events, handlers and connections interleave, a page that was told
   of the end never finds its run still running. *)
THEOREM ResultIsReady == StreamSpec => []NeverFetchedEarly
<1>1. SInv => NeverFetchedEarly
  BY DEF SInv
<1> QED
  BY <1>1, StreamInvariant, PTL

(* Every invariant of the registry survives the streams that take from its
   queues. *)
THEOREM StreamsKeepRegistry == StreamSpec => []IInv
<1>1. SInv => IInv
  BY DEF SInv
<1> QED
  BY <1>1, StreamInvariant, PTL

(* The streams and the pages are invisible to the life cycle. *)
LEMMA StreamStepRefines ==
    SInv /\ [StreamNext]_vars => [Lifecycle!Next]_(Lifecycle!lifecycleVars)
<1> SUFFICES ASSUME SInv, [StreamNext]_vars
             PROVE  [Lifecycle!Next]_(Lifecycle!lifecycleVars)
  OBVIOUS
<1>1. CASE RegistryStep
  <2>1. IInv /\ [Next]_registryVars
    BY <1>1 DEF SInv, RegistryStep
  <2> QED
    BY <2>1, StepRefines
<1>2. ASSUME NEW h \in Handler, Drop(h) \/ HandlerStep(h) PROVE UNCHANGED <<started, registered, done>>
  BY <1>2 DEF Drop, HandlerStep, Snapshot, TakeFromQueue, Deliver, WriteVanishes, WriteFails, registryVars
<1>3. ASSUME NEW r \in RunId, Connect(r) \/ FetchResult(r) PROVE UNCHANGED <<started, registered, done>>
  BY <1>3 DEF Connect, FetchResult, registryVars
<1>4. ASSUME UNCHANGED vars PROVE UNCHANGED <<started, registered, done>>
  BY <1>4 DEF vars, registryVars
<1>5. ASSUME UNCHANGED <<started, registered, done>> PROVE UNCHANGED Lifecycle!lifecycleVars
  BY <1>5 DEF Lifecycle!lifecycleVars, Started
<1>6. ASSUME UNCHANGED Lifecycle!lifecycleVars PROVE [Lifecycle!Next]_(Lifecycle!lifecycleVars)
  BY <1>6
<1> QED
  BY <1>1, <1>2, <1>3, <1>4, <1>5, <1>6 DEF StreamNext

(* The whole backend, streams and reconnecting pages included, keeps the
   promises of the abstract life cycle: one run at a time, and a finished run
   is forgotten only once enough newer ones have finished. *)
THEOREM StreamsRefineLifecycle == StreamSpec => ImplementsLifecycle
<1>1. StreamInit => Lifecycle!Init
  BY InitRefines DEF StreamInit
<1> QED
  BY <1>1, StreamInvariant, StreamStepRefines, PTL
     DEF StreamSpec, ImplementsLifecycle, Lifecycle!Spec

-----------------------------------------------------------------------------
(* What an unbroken stream shows.  The inductive invariant follows every item
   from the worker to the page: what has been shown, what the handler holds,
   what is queued and what the worker has recorded but not put yet always end
   with the whole run so far. *)

EndsLast(items) == \A i \in DOMAIN items : items[i] = EndOfStream => i = Len(items)

(* What the worker of run r has recorded and will put next. *)
Unput(r) ==
    IF pc[r] = "appended" THEN <<Len(events[r])>>
    ELSE IF pc[r] = "failing" THEN <<ErrorEvent>>
    ELSE IF pc[r] = "closing" THEN <<EndOfStream>> ELSE <<>>

(* What a handler of run r may still take. *)
Coming(r) == queue[r] \o Unput(r)

(* Run r so far, the error event and the sentinel included. *)
Whole(r) ==
    events[r] \o ((IF error[r] THEN <<ErrorEvent>> ELSE <<>>)
                  \o (IF done[r] THEN <<EndOfStream>> ELSE <<>>))

(* The sentinel is the last thing put. *)
QueuesOK ==
    \A r \in RunId : /\ EndsLast(queue[r])
                     /\ Ends(queue[r]) => pc[r] \in {"pruning", "exited"}

(* A page that is watching has at most one live connection, and exactly one
   while none has broken. *)
ConnectionsOK ==
    /\ drops \in [RunId -> Nat]
    /\ seen \in [RunId -> Seq(QueueItem)]
    /\ \A h \in Handler : wire[h] => hpc[h] \in {"snapshot", "serving"} /\ page[hrun[h]] = "watching"
    /\ \A h \in Handler : hpc[h] \in {"snapshot", "serving"} /\ drops[hrun[h]] = 0 => wire[h]
    /\ \A g, h \in Handler : wire[g] /\ wire[h] /\ hrun[g] = hrun[h] => g = h
    /\ \A r \in RunId : page[r] = "watching" /\ drops[r] = 0 => Connected(r)

(* Nothing has been taken from the queue of run r. *)
Untouched(r) == seen[r] = <<>> /\ Coming(r) = Whole(r)

HandlerShows(h, r) ==
    /\ hpc[h] = "snapshot" => Untouched(r)
    /\ hpc[h] = "serving" /\ ~Ends(pending[h]) => IsSuffix(Whole(r), (seen[r] \o pending[h]) \o Coming(r))
    /\ hpc[h] = "serving" /\ Ends(pending[h]) =>
          done[r] /\ EndsLast(pending[h]) /\ ShowsWholeRun(r, seen[r] \o pending[h])

StreamShows(r) ==
    drops[r] = 0 =>
        /\ page[r] = "idle" => Untouched(r)
        /\ \A h \in Handler : hrun[h] = r /\ wire[h] => HandlerShows(h, r)
        /\ page[r] \in {"finished"} \cup ResultShown => done[r] /\ ShowsWholeRun(r, seen[r])

CInv == SInv /\ QueuesOK /\ ConnectionsOK /\ \A r \in RunId : StreamShows(r)

-----------------------------------------------------------------------------
(* A suffix is what follows some prefix. *)
LEMMA SuffixMeans ==
    ASSUME NEW S, NEW s \in Seq(S), NEW t \in Seq(S)
    PROVE IsSuffix(s, t) <=> \E x \in Seq(S) : t = x \o s
<1> DEFINE m == Len(s)
           n == Len(t)
<1>1. m \in Nat /\ n \in Nat
  OBVIOUS
<1>2. /\ Reverse(s) \in Seq(S) /\ Len(Reverse(s)) = m
      /\ Reverse(t) \in Seq(S) /\ Len(Reverse(t)) = n
      /\ \A i, k \in 1..m : i + k = m + 1 => Reverse(s)[i] = s[k]
      /\ \A i, k \in 1..n : i + k = n + 1 => Reverse(t)[i] = t[k]
  BY DEF Reverse
<1>3. IsSuffix(s, t) <=> m <= n /\ \A i \in 1..m, k \in 1..n : n - k = m - i => s[i] = t[k]
  <2>1. IsSuffix(s, t) <=> m <= n /\ \A j \in 1..m : Reverse(s)[j] = Reverse(t)[j]
    <3>1. IsSuffix(s, t) <=> m <= n /\ SubSeq(Reverse(s), 1, m) = SubSeq(Reverse(t), 1, m)
      BY <1>2 DEF IsSuffix, IsPrefix
    <3>2. SubSeq(Reverse(s), 1, m) = [j \in 1..m |-> Reverse(s)[j]]
      BY <1>1, <1>2
    <3>3. m <= n => SubSeq(Reverse(t), 1, m) = [j \in 1..m |-> Reverse(t)[j]]
      BY <1>1, <1>2
    <3> QED
      BY <3>1, <3>2, <3>3
  <2> HIDE DEF m, n
  <2>2. ASSUME m <= n, \A j \in 1..m : Reverse(s)[j] = Reverse(t)[j],
               NEW i \in 1..m, NEW k \in 1..n, n - k = m - i
        PROVE s[i] = t[k]
    <3>1. PICK j \in 1..m : i + j = m + 1 /\ j \in 1..n /\ k + j = n + 1
      <4>1. m + 1 - i \in 1..m /\ i + (m + 1 - i) = m + 1
            /\ m + 1 - i \in 1..n /\ k + (m + 1 - i) = n + 1
        BY <1>1, <2>2
      <4> QED
        BY <4>1
    <3>2. j + i = m + 1 /\ j + k = n + 1
      BY <1>1, <3>1
    <3> QED
      BY <1>2, <2>2, <3>1, <3>2
  <2>3. ASSUME m <= n, \A i \in 1..m, k \in 1..n : n - k = m - i => s[i] = t[k], NEW j \in 1..m
        PROVE Reverse(s)[j] = Reverse(t)[j]
    <3>1. PICK i \in 1..m, k \in 1..n : j + i = m + 1 /\ j + k = n + 1
      <4>1. m + 1 - j \in 1..m /\ j + (m + 1 - j) = m + 1 /\ n + 1 - j \in 1..n /\ j + (n + 1 - j) = n + 1
        BY <1>1, <2>3
      <4> QED
        BY <4>1
    <3>2. n - k = m - i /\ j \in 1..n
      BY <1>1, <2>3, <3>1
    <3>3. s[i] = t[k]
      BY <2>3, <3>2
    <3>4. Reverse(s)[j] = s[i] /\ Reverse(t)[j] = t[k]
      BY <1>2, <3>1, <3>2
    <3> QED
      BY <3>3, <3>4
  <2> QED
    BY <2>1, <2>2, <2>3
<1>4. ASSUME IsSuffix(s, t) PROVE \E x \in Seq(S) : t = x \o s
  <2> DEFINE x == SubSeq(t, 1, n - m)
  <2>1. m <= n /\ \A i \in 1..m, k \in 1..n : n - k = m - i => s[i] = t[k]
    BY <1>3, <1>4
  <2>2. x \in Seq(S) /\ Len(x) = n - m /\ \A i \in 1..(n - m) : x[i] = t[i]
    BY <1>1, <2>1
  <2> HIDE DEF x
  <2>3. /\ x \o s \in Seq(S) /\ Len(x \o s) = n
        /\ \A i \in 1..n : (x \o s)[i] = IF i <= n - m THEN x[i] ELSE s[i - (n - m)]
    BY <1>1, <2>2, ConcatProperties
  <2>4. ASSUME NEW k \in 1..n PROVE (x \o s)[k] = t[k]
    <3>1. CASE k <= n - m
      BY <1>1, <2>2, <2>3, <3>1
    <3>2. CASE k > n - m
      <4>1. PICK i \in 1..m : i = k - (n - m) /\ n - k = m - i
        <5>1. k - (n - m) \in 1..m /\ n - k = m - (k - (n - m))
          BY <1>1, <2>1, <3>2
        <5> QED
          BY <5>1
      <4>2. s[i] = t[k]
        BY <2>1, <4>1
      <4> QED
        BY <1>1, <2>3, <3>2, <4>1, <4>2
    <3>3. k <= n - m \/ k > n - m
      BY <1>1
    <3> QED
      BY <3>1, <3>2, <3>3
  <2>5. x \o s = t
    BY <2>3, <2>4, SeqEqual
  <2> QED
    BY <2>2, <2>5
<1>5. ASSUME NEW x \in Seq(S), t = x \o s PROVE IsSuffix(s, t)
  <2>1. Len(x) \in Nat /\ n = Len(x) + m
        /\ \A i \in 1..n : t[i] = IF i <= Len(x) THEN x[i] ELSE s[i - Len(x)]
    BY <1>5, ConcatProperties
  <2>2. ASSUME NEW i \in 1..m, NEW k \in 1..n, n - k = m - i PROVE s[i] = t[k]
    <3>1. ~(k <= Len(x)) /\ k - Len(x) = i
      <4>1. Len(x) \in Nat /\ n = Len(x) + m /\ n - k = m - i
        BY <2>1, <2>2
      <4> HIDE DEF m, n
      <4> QED
        BY <1>1, <4>1
    <3>2. t[k] = s[k - Len(x)]
      BY <2>1, <3>1
    <3> QED
      BY <3>1, <3>2
  <2>3. m <= n
    BY <1>1, <2>1
  <2> QED
    BY <1>3, <2>2, <2>3
<1> QED
  BY <1>4, <1>5

(* Joining sequences of queue items may be grouped as one likes. *)
LEMMA Regrouped ==
    \A s, t, u \in Seq(QueueItem) : s \o (t \o u) = (s \o t) \o u
BY ConcatAssociative

LEMMA SuffixAppended ==
    ASSUME NEW S, NEW s \in Seq(S), NEW t \in Seq(S), NEW d \in Seq(S), IsSuffix(s, t)
    PROVE IsSuffix(s \o d, t \o d)
<1>1. PICK x \in Seq(S) : t = x \o s
  BY SuffixMeans
<1>2. t \o d = x \o (s \o d) /\ t \o d \in Seq(S) /\ s \o d \in Seq(S)
  BY <1>1, ConcatAssociative, ConcatProperties
<1> QED
  BY <1>2, SuffixMeans

LEMMA SuffixOfConcat ==
    ASSUME NEW S, NEW s \in Seq(S), NEW x \in Seq(S)
    PROVE IsSuffix(s, x \o s)
<1>1. x \o s \in Seq(S)
  BY ConcatProperties
<1> QED
  BY <1>1, SuffixMeans

LEMMA StreamTypes ==
    ASSUME IInv, NEW r \in RunId
    PROVE /\ queue[r] \in Seq(QueueItem) /\ Unput(r) \in Seq(QueueItem)
          /\ Coming(r) \in Seq(QueueItem) /\ Whole(r) \in Seq(QueueItem)
          /\ events[r] \in Seq(QueueItem)
          /\ (IF error[r] THEN <<ErrorEvent>> ELSE <<>>) \in Seq(QueueItem)
          /\ (IF done[r] THEN <<EndOfStream>> ELSE <<>>) \in Seq(QueueItem)
<1>1. queue[r] \in Seq(QueueItem) /\ events[r] \in Seq(ProgressEvent)
  BY DEF IInv, TypeOK
<1>2. events[r] \in Seq(QueueItem)
  BY <1>1, Items, SeqMonotonic
<1>3. pc[r] = "appended" => Len(events[r]) \in QueueItem
  <2>1. pc[r] = "appended" => Len(events[r]) \in 1..MaxEvents
    BY <1>1 DEF IInv, WorkerInv
  <2> QED
    BY <2>1, Items DEF ProgressEvent
<1>4. Unput(r) \in Seq(QueueItem)
  BY <1>3, Items DEF Unput
<1>5. /\ (IF error[r] THEN <<ErrorEvent>> ELSE <<>>) \in Seq(QueueItem)
      /\ (IF done[r] THEN <<EndOfStream>> ELSE <<>>) \in Seq(QueueItem)
  BY Items
<1>6. Coming(r) \in Seq(QueueItem)
  BY <1>1, <1>4, ConcatProperties DEF Coming
<1>7. Whole(r) \in Seq(QueueItem)
  BY <1>2, <1>5, ConcatProperties DEF Whole
<1> QED
  BY <1>1, <1>2, <1>4, <1>5, <1>6, <1>7

(* Only the worker of a run touches it, and a start makes it run. *)
LEMMA OtherRuns ==
    ASSUME IInv, Next, NEW r \in RunId, ~Worker(r)
    PROVE /\ UNCHANGED <<events[r], queue[r], error[r], done[r], Unput(r)>>
          /\ pc[r] \in {"pruning", "exited"} => pc'[r] = pc[r]
<1> USE DEF IInv, TypeOK
<1>1. CASE Start
  <2>1. UNCHANGED <<events, queue, error, done>> /\ pc' = [pc EXCEPT ![started + 1] = "running"]
    BY <1>1 DEF Start
  <2>2. started + 1 \in RunId /\ pc[started + 1] = "idle"
    <3>1. started + 1 \in RunId /\ started + 1 \notin Started
      <4>1. started \in 0..MaxStarts /\ started < MaxStarts
        BY <1>1 DEF Start
      <4> QED
        BY <4>1, BoundsAssumption DEF RunId, Started
    <3> QED
      BY <3>1 DEF WorkerInv
  <2>3. pc'[r] = pc[r] \/ (pc[r] = "idle" /\ pc'[r] = "running")
    BY <2>1, <2>2
  <2> QED
    BY <2>1, <2>3 DEF Unput
<1>2. CASE \E q \in RunId : Worker(q)
  <2>1. PICK q \in RunId \ {r} : Worker(q)
    BY <1>2
  <2>2. UNCHANGED <<events[r], queue[r], error[r], done[r], pc[r]>>
    BY <2>1 DEF Worker, AppendEvent, PutEvent, RecordOutcome, RecordError, PutErrorEvent, SetDone,
                PutEndOfStream, FinalPrune
  <2> QED
    BY <2>2 DEF Unput
<1> QED
  BY <1>1, <1>2 DEF Next

(* What the worker records is added to the run and to what is coming alike;
   what it puts moves from its hands into the queue. *)
LEMMA WorkerExtends ==
    ASSUME IInv, Next, NEW r \in RunId
    PROVE \E d \in Seq(QueueItem) : Coming(r)' = Coming(r) \o d /\ Whole(r)' = Whole(r) \o d
<1> DEFINE failure == IF error[r] THEN <<ErrorEvent>> ELSE <<>>
           end == IF done[r] THEN <<EndOfStream>> ELSE <<>>
<1>0. /\ queue[r] \in Seq(QueueItem) /\ Unput(r) \in Seq(QueueItem) /\ events[r] \in Seq(QueueItem)
      /\ Coming(r) \in Seq(QueueItem) /\ Whole(r) \in Seq(QueueItem)
      /\ failure \in Seq(QueueItem) /\ end \in Seq(QueueItem)
  BY StreamTypes
<1>1. Coming(r) = queue[r] \o Unput(r) /\ Whole(r) = events[r] \o (failure \o end)
  BY DEF Coming, Whole
<1>2. <<>> \in Seq(QueueItem) /\ \A s \in Seq(QueueItem) : s \o <<>> = s /\ <<>> \o s = s
  BY ConcatEmptySeq
<1>3. \A s \in Seq(QueueItem), x \in QueueItem : Append(s, x) = s \o <<x>> /\ <<x>> \in Seq(QueueItem)
  BY AppendIsConcat
<1>4. \A s, t, u \in Seq(QueueItem) : (s \o t) \o u = s \o (t \o u)
  BY ConcatAssociative
<1>5. ASSUME Coming(r)' = Coming(r), Whole(r)' = Whole(r)
      PROVE \E d \in Seq(QueueItem) : Coming(r)' = Coming(r) \o d /\ Whole(r)' = Whole(r) \o d
  BY <1>0, <1>2, <1>5
(* A put of what was in the worker's hands. *)
<1>6. ASSUME NEW x \in QueueItem, Unput(r) = <<x>>, queue'[r] = Append(queue[r], x), Unput(r)' = <<>>
      PROVE Coming(r)' = Coming(r)
  <2>1. Coming(r)' = (queue[r] \o <<x>>) \o <<>> /\ queue[r] \o <<x>> \in Seq(QueueItem)
    BY <1>0, <1>3, <1>6, ConcatProperties DEF Coming
  <2> QED
    BY <1>1, <1>2, <1>6, <2>1
(* A record of something new. *)
<1>7. ASSUME NEW x \in QueueItem, Unput(r) = <<>>, queue'[r] = queue[r], Unput(r)' = <<x>>
      PROVE Coming(r)' = Coming(r) \o <<x>>
  BY <1>0, <1>1, <1>2, <1>7 DEF Coming
<1> USE DEF IInv, TypeOK, WorkerInv, InFinally
<1>8. CASE ~Worker(r)
  <2>1. UNCHANGED <<events[r], queue[r], error[r], done[r], Unput(r)>>
    BY <1>8, OtherRuns
  <2> QED
    BY <1>5, <2>1 DEF Coming, Whole
<1>9. CASE AppendEvent(r)
  <2> DEFINE x == Len(events[r]) + 1
  <2>1. /\ x \in ProgressEvent /\ queue'[r] = queue[r] /\ events'[r] = Append(events[r], x)
        /\ pc[r] = "running" /\ pc'[r] = "appended" /\ ~error[r] /\ ~done[r] /\ ~error'[r] /\ ~done'[r]
    <3>1. /\ pc[r] = "running" /\ Len(events[r]) < MaxEvents /\ UNCHANGED <<queue, error, done>>
          /\ events' = [events EXCEPT ![r] = Append(@, x)] /\ pc' = [pc EXCEPT ![r] = "appended"]
      BY <1>9 DEF AppendEvent
    <3>2. ~error[r] /\ ~done[r]
      BY <3>1
    <3>3. x \in ProgressEvent
      BY <1>0, <3>1, BoundsAssumption DEF ProgressEvent
    <3> QED
      BY <3>1, <3>2, <3>3
  <2>2. x \in QueueItem /\ Unput(r) = <<>>
    BY <2>1, Items DEF Unput
  <2>3. Len(events'[r]) = x
    BY <1>0, <2>1, <2>2, AppendProperties
  <2>4. Unput(r)' = <<x>>
    BY <2>1, <2>3 DEF Unput
  <2> HIDE DEF x
  <2>5. Coming(r)' = Coming(r) \o <<x>>
    BY <1>7, <2>1, <2>2, <2>4
  <2>6. Whole(r) = events[r] /\ Whole(r)' = events[r] \o <<x>>
    <3>1. events'[r] = events[r] \o <<x>> /\ events'[r] \in Seq(QueueItem)
      BY <1>0, <1>3, <2>1, <2>2, ConcatProperties
    <3>2. failure = <<>> /\ end = <<>>
      BY <2>1
    <3>3. Whole(r)' = events'[r] \o (<<>> \o <<>>)
      BY <2>1 DEF Whole
    <3> QED
      BY <1>0, <1>1, <1>2, <3>1, <3>2, <3>3
  <2> QED
    BY <1>3, <2>2, <2>5, <2>6
<1>10. CASE PutEvent(r)
  <2>1. /\ queue'[r] = Append(queue[r], Len(events[r])) /\ UNCHANGED <<events[r], error[r], done[r]>>
        /\ pc[r] = "appended" /\ pc'[r] = "running"
    BY <1>10 DEF PutEvent
  <2>2. Unput(r) = <<Len(events[r])>> /\ Unput(r)' = <<>>
    BY <2>1 DEF Unput
  <2>3. Len(events[r]) \in QueueItem
    BY <1>0, <2>2, Items, <2>1 DEF ProgressEvent
  <2>4. Whole(r)' = Whole(r)
    BY <2>1 DEF Whole
  <2> QED
    BY <1>5, <1>6, <2>1, <2>2, <2>3, <2>4
<1>11. CASE RecordOutcome(r) \/ FinalPrune(r)
  <2>1. /\ UNCHANGED <<events[r], queue[r], error[r], done[r]>>
        /\ pc[r] \in {"running", "pruning"} /\ pc'[r] \in {"finally", "exited"}
    BY <1>11 DEF RecordOutcome, FinalPrune
  <2>2. Unput(r)' = Unput(r)
    BY <2>1 DEF Unput
  <2> QED
    BY <1>5, <2>1, <2>2 DEF Coming, Whole
<1>12. CASE RecordError(r)
  <2>1. /\ queue'[r] = queue[r] /\ events'[r] = events[r] /\ pc[r] = "running" /\ pc'[r] = "failing"
        /\ ~error[r] /\ ~done[r] /\ error'[r] /\ ~done'[r]
    BY <1>12 DEF RecordError
  <2>2. Coming(r)' = Coming(r) \o <<ErrorEvent>>
    <3>1. Unput(r) = <<>> /\ Unput(r)' = <<ErrorEvent>>
      BY <2>1 DEF Unput
    <3> QED
      BY <1>7, <2>1, <3>1, Items
  <2>3. Whole(r)' = Whole(r) \o <<ErrorEvent>>
    <3>1. Whole(r)' = events[r] \o (<<ErrorEvent>> \o <<>>) /\ failure = <<>> /\ end = <<>>
      BY <2>1 DEF Whole
    <3> QED
      BY <1>0, <1>1, <1>2, <1>3, <3>1, Items
  <2> QED
    BY <1>3, <2>2, <2>3, Items
<1>13. CASE PutErrorEvent(r)
  <2>1. /\ queue'[r] = Append(queue[r], ErrorEvent) /\ UNCHANGED <<events[r], error[r], done[r]>>
        /\ pc[r] = "failing" /\ pc'[r] = "finally"
    BY <1>13 DEF PutErrorEvent
  <2>2. Unput(r) = <<ErrorEvent>> /\ Unput(r)' = <<>>
    BY <2>1 DEF Unput
  <2>3. Whole(r)' = Whole(r)
    BY <2>1 DEF Whole
  <2> QED
    BY <1>5, <1>6, <2>1, <2>2, <2>3, Items
<1>14. CASE SetDone(r)
  <2>1. /\ queue'[r] = queue[r] /\ UNCHANGED <<events[r], error[r]>> /\ pc[r] = "finally"
        /\ pc'[r] = "closing" /\ ~done[r] /\ done'[r]
    BY <1>14 DEF SetDone
  <2>2. Coming(r)' = Coming(r) \o <<EndOfStream>>
    <3>1. Unput(r) = <<>> /\ Unput(r)' = <<EndOfStream>>
      BY <2>1 DEF Unput
    <3> QED
      BY <1>7, <2>1, <3>1, Items
  <2>3. Whole(r)' = Whole(r) \o <<EndOfStream>>
    <3>1. Whole(r)' = events[r] \o (failure \o <<EndOfStream>>) /\ end = <<>>
      BY <2>1 DEF Whole
    <3> QED
      BY <1>0, <1>1, <1>2, <1>3, <1>4, <3>1, Items
  <2> QED
    BY <1>3, <2>2, <2>3, Items
<1>15. CASE PutEndOfStream(r)
  <2>1. /\ queue'[r] = Append(queue[r], EndOfStream) /\ UNCHANGED <<events[r], error[r], done[r]>>
        /\ pc[r] = "closing" /\ pc'[r] = "pruning"
    BY <1>15 DEF PutEndOfStream
  <2>2. Unput(r) = <<EndOfStream>> /\ Unput(r)' = <<>>
    BY <2>1 DEF Unput
  <2>3. Whole(r)' = Whole(r)
    BY <2>1 DEF Whole
  <2> QED
    BY <1>5, <1>6, <2>1, <2>2, <2>3, Items
<1> QED
  BY <1>8, <1>9, <1>10, <1>11, <1>12, <1>13, <1>14, <1>15 DEF Worker

-----------------------------------------------------------------------------
(* The sentinel stays last, and leaves the queue by its head only. *)

LEMMA EndsLastAppended ==
    ASSUME NEW s \in Seq(QueueItem), NEW x \in QueueItem, ~Ends(s)
    PROVE EndsLast(Append(s, x))
<1> SUFFICES ASSUME NEW i \in DOMAIN Append(s, x), Append(s, x)[i] = EndOfStream
             PROVE i = Len(Append(s, x))
  BY DEF EndsLast
<1>1. i \in 1..(Len(s) + 1) /\ Len(Append(s, x)) = Len(s) + 1
  OBVIOUS
<1>2. CASE i \in 1..Len(s)
  BY <1>2 DEF Ends
<1> QED
  BY <1>1, <1>2

LEMMA SentinelAppended ==
    ASSUME NEW s \in Seq(QueueItem) PROVE Ends(Append(s, EndOfStream))
<1>1. /\ Append(s, EndOfStream) \in Seq(QueueItem) /\ Len(Append(s, EndOfStream)) = Len(s) + 1
      /\ Append(s, EndOfStream)[Len(s) + 1] = EndOfStream /\ Len(s) \in Nat
  BY AppendProperties, Items, LenProperties
<1>2. DOMAIN Append(s, EndOfStream) = 1..(Len(s) + 1)
  BY <1>1, LenProperties
<1>3. Len(s) + 1 \in DOMAIN Append(s, EndOfStream)
  BY <1>1, <1>2
<1> QED
  BY <1>1, <1>3, Zenon DEF Ends

LEMMA EndsLastOfTail ==
    ASSUME NEW s \in Seq(QueueItem), s # <<>>, EndsLast(s)
    PROVE /\ EndsLast(Tail(s))
          /\ Head(s) = EndOfStream => s = <<EndOfStream>> /\ Tail(s) = <<>>
          /\ Head(s) # EndOfStream /\ Ends(s) => Ends(Tail(s))
          /\ s = <<Head(s)>> \o Tail(s)
<1>1. /\ Tail(s) \in Seq(QueueItem) /\ Head(s) \in QueueItem /\ Len(Tail(s)) = Len(s) - 1
      /\ \A i \in 1..Len(Tail(s)) : Tail(s)[i] = s[i + 1]
      /\ Len(s) \in Nat \ {0} /\ Head(s) = s[1]
  BY HeadTailProperties, EmptySeq
<1>2. ASSUME NEW i \in DOMAIN Tail(s), Tail(s)[i] = EndOfStream PROVE i = Len(Tail(s))
  <2>1. i \in 1..Len(Tail(s)) /\ i + 1 \in 1..Len(s) /\ s[i + 1] = EndOfStream
    BY <1>1, <1>2
  <2>2. i + 1 = Len(s)
    BY <2>1 DEF EndsLast
  <2> QED
    BY <1>1, <2>1, <2>2
<1>3. ASSUME Head(s) = EndOfStream PROVE s = <<EndOfStream>> /\ Tail(s) = <<>>
  <2>1. 1 \in DOMAIN s /\ s[1] = EndOfStream
    BY <1>1, <1>3
  <2>2. Len(s) = 1
    BY <2>1 DEF EndsLast
  <2>3. s = <<EndOfStream>>
    BY <2>1, <2>2, SeqEqual, Items
  <2> QED
    BY <1>1, <2>2, <2>3
<1>4. ASSUME Head(s) # EndOfStream, Ends(s) PROVE Ends(Tail(s))
  <2>1. PICK i \in 1..Len(s) : s[i] = EndOfStream
    BY <1>4 DEF Ends
  <2>2. PICK k \in 1..Len(Tail(s)) : k + 1 = i
    <3>1. i # 1
      BY <1>1, <1>4, <2>1
    <3>2. i - 1 \in 1..Len(Tail(s)) /\ (i - 1) + 1 = i
      BY <1>1, <3>1
    <3> QED
      BY <3>2
  <2>3. Tail(s)[k] = EndOfStream /\ k \in DOMAIN Tail(s)
    BY <1>1, <2>1, <2>2
  <2> QED
    BY <2>3, Zenon DEF Ends
<1>5. s = <<Head(s)>> \o Tail(s)
  BY <1>1
<1> QED
  BY <1>2, <1>3, <1>4, <1>5 DEF EndsLast

LEMMA QueuesStep == SInv /\ QueuesOK /\ StreamNext => QueuesOK'
<1> SUFFICES ASSUME SInv, QueuesOK, StreamNext, NEW r \in RunId
             PROVE /\ EndsLast(queue'[r])
                   /\ Ends(queue'[r]) => pc'[r] \in {"pruning", "exited"}
  BY DEF QueuesOK
<1>1. /\ IInv /\ queue[r] \in Seq(QueueItem) /\ events[r] \in Seq(QueueItem)
      /\ EndsLast(queue[r]) /\ (Ends(queue[r]) => pc[r] \in {"pruning", "exited"})
  BY StreamTypes DEF SInv, QueuesOK
<1> USE DEF IInv, TypeOK
<1>2. CASE queue'[r] = queue[r] /\ (pc[r] \in {"pruning", "exited"} => pc'[r] \in {"pruning", "exited"})
  BY <1>1, <1>2
<1>3. ASSUME NEW x \in QueueItem, queue'[r] = Append(queue[r], x), pc[r] \notin {"pruning", "exited"},
             x = EndOfStream => pc'[r] = "pruning"
      PROVE /\ EndsLast(queue'[r])
            /\ Ends(queue'[r]) => pc'[r] \in {"pruning", "exited"}
  BY <1>1, <1>3, EndsAppended, EndsLastAppended
<1>4. CASE Next
  <2>1. CASE ~Worker(r)
    <3>1. queue'[r] = queue[r] /\ (pc[r] \in {"pruning", "exited"} => pc'[r] = pc[r])
      BY <1>1, <1>4, <2>1, OtherRuns
    <3> QED
      BY <1>2, <3>1
  <2>2. CASE AppendEvent(r) \/ RecordOutcome(r) \/ RecordError(r) \/ SetDone(r) \/ FinalPrune(r)
    BY <1>1, <1>2, <2>2 DEF AppendEvent, RecordOutcome, RecordError, SetDone, FinalPrune
  <2>3. CASE PutEvent(r)
    <3>1. pc[r] = "appended" /\ queue'[r] = Append(queue[r], Len(events[r]))
      BY <1>1, <2>3 DEF PutEvent
    <3>2. Len(events[r]) \in ProgressEvent
      BY <1>1, <3>1, BoundsAssumption DEF WorkerInv, ProgressEvent
    <3> QED
      BY <1>3, <3>1, <3>2, Items
  <2>4. CASE PutErrorEvent(r)
    <3>1. pc[r] = "failing" /\ queue'[r] = Append(queue[r], ErrorEvent)
      BY <1>1, <2>4 DEF PutErrorEvent
    <3> QED
      BY <1>3, <3>1, Items
  <2>5. CASE PutEndOfStream(r)
    <3>1. pc[r] = "closing" /\ pc'[r] = "pruning" /\ queue'[r] = Append(queue[r], EndOfStream)
      BY <1>1, <2>5 DEF PutEndOfStream
    <3> QED
      BY <1>3, <3>1, Items
  <2> QED
    BY <2>1, <2>2, <2>3, <2>4, <2>5 DEF Worker
<1>5. ASSUME NEW h \in Handler, TakeFromQueue(h)
      PROVE /\ EndsLast(queue'[r])
            /\ Ends(queue'[r]) => pc'[r] \in {"pruning", "exited"}
  <2>1. /\ queue' = [queue EXCEPT ![hrun[h]] = Tail(@)] /\ pc' = pc /\ queue[hrun[h]] # <<>>
    BY <1>5 DEF TakeFromQueue
  <2>2. CASE hrun[h] = r
    <3>1. queue'[r] = Tail(queue[r]) /\ queue[r] # <<>>
      BY <1>1, <2>1, <2>2
    <3> QED
      BY <1>1, <2>1, <3>1, EndsOfTail, EndsLastOfTail
  <2>3. CASE hrun[h] # r
    BY <1>1, <1>2, <2>1, <2>3
  <2> QED
    BY <2>2, <2>3
<1>6. CASE UNCHANGED registryVars
  BY <1>2, <1>6 DEF registryVars
<1> QED
  BY <1>4, <1>5, <1>6 DEF StreamNext, RegistryStep, HandlerStep, Connect, FetchResult, Drop, Snapshot,
                          Deliver, WriteVanishes, WriteFails

(* A connection belongs to one handler, and breaks or ends with done. *)
LEMMA ConnectionsStep == SInv /\ ConnectionsOK /\ StreamNext => ConnectionsOK'
<1> SUFFICES ASSUME SInv, ConnectionsOK, StreamNext PROVE ConnectionsOK'
  OBVIOUS
<1>0. /\ hpc \in [Handler -> {"free", "snapshot", "serving", "closed"}] /\ hrun \in [Handler -> Int]
      /\ pending \in [Handler -> Seq(QueueItem)] /\ wire \in [Handler -> BOOLEAN]
      /\ page \in [RunId -> {"idle", "watching", "lost", "finished"} \cup ResultShown]
      /\ \A h \in Handler : hpc[h] \in {"snapshot", "serving"} \/ wire[h] => hrun[h] \in RunId
      /\ \A h \in Handler : h > opened => hpc[h] = "free"
      /\ opened \in Nat
  BY StreamBoundsAssumption DEF SInv, HandlersOK
<1>1. /\ drops \in [RunId -> Nat] /\ seen \in [RunId -> Seq(QueueItem)]
      /\ \A h \in Handler : wire[h] => hpc[h] \in {"snapshot", "serving"} /\ page[hrun[h]] = "watching"
      /\ \A h \in Handler : hpc[h] \in {"snapshot", "serving"} /\ drops[hrun[h]] = 0 => wire[h]
      /\ \A g, h \in Handler : wire[g] /\ wire[h] /\ hrun[g] = hrun[h] => g = h
      /\ \A r \in RunId : page[r] = "watching" /\ drops[r] = 0 => \E h \in Handler : hrun[h] = r /\ wire[h]
      /\ \A h \in Handler : hpc[h] \in {"snapshot", "serving"} => hrun[h] \in RunId
  BY <1>0 DEF ConnectionsOK, Connected
<1>2. CASE UNCHANGED <<drops, seen, wire, hpc, page, hrun>>
  BY <1>0, <1>1, <1>2 DEF ConnectionsOK, Connected
<1>3. ASSUME NEW h \in Handler, Snapshot(h) PROVE ConnectionsOK'
  <2>1. /\ UNCHANGED <<drops, seen, wire, page, hrun>> /\ hpc[h] = "snapshot"
        /\ hpc' = [hpc EXCEPT ![h] = "serving"]
    BY <1>3 DEF Snapshot
  <2>2. \A g \in Handler : hpc'[g] \in {"snapshot", "serving"} <=> hpc[g] \in {"snapshot", "serving"}
    BY <1>0, <2>1
  <2> QED
    BY <1>0, <1>1, <2>1, <2>2 DEF ConnectionsOK, Connected
<1>4. ASSUME NEW h \in Handler, WriteVanishes(h) \/ WriteFails(h) PROVE ConnectionsOK'
  <2>1. /\ UNCHANGED <<drops, seen, wire, page, hrun>> /\ ~wire[h]
        /\ \A g \in Handler : g # h => hpc'[g] = hpc[g]
    BY <1>0, <1>4 DEF WriteVanishes, WriteFails, Written
  <2>2. hpc'[h] \in {"snapshot", "serving"} => hpc[h] \in {"snapshot", "serving"}
    BY <1>0, <1>4 DEF WriteVanishes, WriteFails, Written
  <2> QED
    BY <1>0, <1>1, <2>1, <2>2 DEF ConnectionsOK, Connected
<1>5. ASSUME NEW h \in Handler, Deliver(h) PROVE ConnectionsOK'
  <2> DEFINE r == hrun[h]
  <2>1. /\ hpc[h] = "serving" /\ pending[h] # <<>> /\ wire[h] /\ Written(h)
        /\ UNCHANGED <<drops, hrun>> /\ r \in RunId /\ pending[h] \in Seq(QueueItem)
        /\ seen' = [seen EXCEPT ![r] = Append(@, Head(pending[h]))]
    BY <1>0, <1>1, <1>5 DEF Deliver
  <2>2. seen' \in [RunId -> Seq(QueueItem)]
    BY <1>0, <1>1, <2>1, HeadTailProperties, AppendProperties
  <2>3. CASE Head(pending[h]) # EndOfStream
    <3>1. UNCHANGED <<page, wire>> /\ hpc' = hpc
      BY <1>0, <1>5, <2>1, <2>3 DEF Deliver, Written
    <3> QED
      BY <1>0, <1>1, <2>1, <2>2, <3>1 DEF ConnectionsOK, Connected
  <2>4. CASE Head(pending[h]) = EndOfStream
    <3>1. /\ page' = [page EXCEPT ![r] = "finished"] /\ wire' = [wire EXCEPT ![h] = FALSE]
          /\ hpc' = [hpc EXCEPT ![h] = "closed"]
      BY <1>0, <1>5, <2>1, <2>4 DEF Deliver, Written
    <3>2. \A g \in Handler : wire'[g] => wire[g] /\ g # h /\ hrun[g] # r /\ hpc'[g] = hpc[g]
      BY <1>0, <1>1, <2>1, <3>1
    <3>3. \A q \in RunId : page'[q] = "watching" => q # r /\ page[q] = "watching"
      BY <1>0, <3>1
    <3>4. \A g \in Handler : g # h => wire'[g] = wire[g] /\ hpc'[g] = hpc[g]
      BY <1>0, <3>1
    <3>5. \A g \in Handler : wire'[g] => hpc'[g] \in {"snapshot", "serving"} /\ page'[hrun[g]] = "watching"
      BY <1>0, <1>1, <3>1, <3>2
    <3>6. \A g \in Handler : hpc'[g] \in {"snapshot", "serving"} /\ drops[hrun[g]] = 0 => wire'[g]
      <4>1. hpc'[h] = "closed"
        BY <1>0, <3>1
      <4> QED
        BY <1>0, <1>1, <3>4, <4>1
    <3>7. ASSUME NEW q \in RunId, page'[q] = "watching", drops[q] = 0
          PROVE \E g \in Handler : hrun[g] = q /\ wire'[g]
      <4>1. PICK g \in Handler : hrun[g] = q /\ wire[g]
        BY <1>0, <1>1, <3>3, <3>7
      <4>2. wire'[g]
        BY <3>3, <3>4, <3>7, <4>1
      <4> QED
        BY <4>1, <4>2
    <3> QED
      BY <1>0, <1>1, <2>1, <2>2, <3>2, <3>5, <3>6, <3>7 DEF ConnectionsOK, Connected
  <2> QED
    BY <2>3, <2>4
<1>6. ASSUME NEW h \in Handler, Drop(h) PROVE ConnectionsOK'
  <2> DEFINE r == hrun[h]
  <2>1. /\ UNCHANGED <<seen, hpc, page, hrun>> /\ wire[h] /\ r \in RunId
        /\ wire' = [wire EXCEPT ![h] = FALSE] /\ drops' = [drops EXCEPT ![r] = @ + 1]
    BY <1>0, <1>1, <1>6 DEF Drop
  <2>2. drops' \in [RunId -> Nat] /\ drops'[r] # 0 /\ \A q \in RunId : q # r => drops'[q] = drops[q]
    BY <1>0, <1>1, <2>1
  <2>3. \A g \in Handler : (wire'[g] => wire[g]) /\ (g # h => wire'[g] = wire[g])
    BY <1>0, <2>1
  <2>4. ASSUME NEW q \in RunId, page[q] = "watching", drops'[q] = 0
        PROVE \E g \in Handler : hrun[g] = q /\ wire'[g]
    <3>1. q # r /\ drops[q] = 0
      BY <2>2, <2>4
    <3>2. PICK g \in Handler : hrun[g] = q /\ wire[g]
      BY <1>0, <1>1, <2>4, <3>1
    <3> QED
      BY <2>3, <3>1, <3>2
  <2>5. \A g \in Handler : hpc[g] \in {"snapshot", "serving"} /\ drops'[hrun[g]] = 0 => wire'[g]
    BY <1>0, <1>1, <2>2, <2>3
  <2> QED
    BY <1>0, <1>1, <2>1, <2>2, <2>3, <2>4, <2>5 DEF ConnectionsOK, Connected
<1>7. ASSUME NEW r \in RunId, FetchResult(r) PROVE ConnectionsOK'
  <2>1. UNCHANGED <<drops, seen, wire, hpc, hrun>> /\ page[r] = "finished"
    BY <1>7 DEF FetchResult
  <2>2. /\ \A q \in RunId : q # r => page'[q] = page[q]
        /\ page'[r] # "watching"
    BY <1>0, <1>7 DEF FetchResult
  <2>3. \A g \in Handler : wire[g] => hrun[g] # r
    BY <1>0, <1>1, <2>1
  <2>4. \A g \in Handler : wire[g] => page'[hrun[g]] = "watching"
    BY <1>0, <1>1, <2>2, <2>3
  <2>5. \A q \in RunId : page'[q] = "watching" => page[q] = "watching"
    BY <2>2
  <2> QED
    BY <1>0, <1>1, <2>1, <2>4, <2>5, Zenon DEF ConnectionsOK, Connected
<1>8. ASSUME NEW r \in RunId, Connect(r) PROVE ConnectionsOK'
  <2>1. UNCHANGED <<drops, seen>> /\ \A g \in Handler : wire[g] => hrun[g] # r
    BY <1>8 DEF Connect, Connected
  <2>2. CASE r \notin registered
    <3>1. UNCHANGED <<hpc, hrun, wire>> /\ page' = [page EXCEPT ![r] = "lost"]
      BY <1>8, <2>2 DEF Connect
    <3>2. page'[r] # "watching" /\ \A q \in RunId : q # r => page'[q] = page[q]
      BY <1>0, <3>1
    <3> QED
      BY <1>0, <1>1, <2>1, <3>1, <3>2 DEF ConnectionsOK, Connected
  <2>3. CASE r \in registered
    <3> DEFINE n == opened + 1
    <3>1. /\ hpc' = [hpc EXCEPT ![n] = "snapshot"] /\ hrun' = [hrun EXCEPT ![n] = r]
          /\ wire' = [wire EXCEPT ![n] = TRUE] /\ page' = [page EXCEPT ![r] = "watching"]
      BY <1>8, <2>3 DEF Connect
    <3>2. n \in Handler /\ n > opened
      BY <1>0, <1>8, StreamBoundsAssumption DEF Connect, Handler
    <3>3. hpc[n] = "free" /\ ~wire[n]
      BY <1>0, <1>1, <3>2
    <3>4. /\ hpc'[n] = "snapshot" /\ hrun'[n] = r /\ wire'[n] /\ page'[r] = "watching"
          /\ \A g \in Handler : g # n => hpc'[g] = hpc[g] /\ hrun'[g] = hrun[g] /\ wire'[g] = wire[g]
          /\ \A q \in RunId : q # r => page'[q] = page[q]
      BY <1>0, <3>1, <3>2
    <3> HIDE DEF n
    <3>5. ASSUME NEW q \in RunId, page'[q] = "watching", drops[q] = 0
          PROVE \E g \in Handler : hrun'[g] = q /\ wire'[g]
      <4>1. CASE q = r
        BY <3>2, <3>4, <4>1
      <4>2. CASE q # r
        <5>1. PICK g \in Handler : hrun[g] = q /\ wire[g]
          BY <1>0, <1>1, <3>4, <3>5, <4>2
        <5>2. g # n
          BY <3>3, <5>1
        <5> QED
          BY <3>4, <5>1, <5>2
      <4> QED
        BY <4>1, <4>2
    <3>6. ASSUME NEW g \in Handler, wire'[g]
          PROVE hpc'[g] \in {"snapshot", "serving"} /\ page'[hrun'[g]] = "watching"
      <4>1. CASE g = n
        BY <3>4, <4>1
      <4>2. CASE g # n
        <5>1. wire[g] /\ hrun[g] \in RunId /\ hrun[g] # r /\ hrun'[g] = hrun[g] /\ hpc'[g] = hpc[g]
          BY <1>0, <2>1, <3>4, <3>6, <4>2
        <5> QED
          BY <1>0, <1>1, <3>4, <5>1
      <4> QED
        BY <4>1, <4>2
    <3>7. ASSUME NEW g \in Handler, NEW h \in Handler, wire'[g], wire'[h], hrun'[g] = hrun'[h]
          PROVE g = h
      <4>1. \A k \in Handler : k # n /\ wire'[k] => wire[k] /\ hrun'[k] = hrun[k] /\ hrun'[k] # r
        BY <2>1, <3>4
      <4>2. CASE g = n \/ h = n
        BY <3>4, <3>7, <4>1, <4>2
      <4>3. CASE g # n /\ h # n
        <5>1. wire[g] /\ wire[h] /\ hrun[g] = hrun[h]
          BY <3>7, <4>1, <4>3
        <5> QED
          BY <1>0, <1>1, <5>1
      <4> QED
        BY <4>2, <4>3
    <3>8. ASSUME NEW g \in Handler, hpc'[g] \in {"snapshot", "serving"}, drops[hrun'[g]] = 0
          PROVE wire'[g]
      <4>1. g # n => hpc[g] \in {"snapshot", "serving"} /\ drops[hrun[g]] = 0 /\ wire'[g] = wire[g]
        BY <3>4, <3>8
      <4> QED
        BY <1>0, <1>1, <3>4, <4>1
    <3> QED
      BY <1>0, <1>1, <2>1, <3>5, <3>6, <3>7, <3>8 DEF ConnectionsOK, Connected
  <2> QED
    BY <2>2, <2>3
<1>9. ASSUME RegistryStep \/ \E h \in Handler : TakeFromQueue(h)
      PROVE UNCHANGED <<drops, seen, wire, hpc, page, hrun>>
  BY <1>9 DEF RegistryStep, TakeFromQueue, streamVars
<1> QED
  BY <1>2, <1>3, <1>4, <1>5, <1>6, <1>7, <1>8, <1>9 DEF StreamNext, HandlerStep

-----------------------------------------------------------------------------
(* Once a run is done it shows the same for ever. *)
LEMMA ShownStays ==
    ASSUME IInv, Next, NEW r \in RunId, done[r]
    PROVE done'[r] /\ events'[r] = events[r] /\ error'[r] = error[r]
<1>1. done'[r]
  BY DoneStays
<1>2. pc[r] \in {"closing", "pruning", "exited"}
  BY DEF IInv, WorkerInv
<1>3. CASE Worker(r)
  BY <1>2, <1>3 DEF Worker, AppendEvent, PutEvent, RecordOutcome, RecordError, PutErrorEvent, SetDone,
                    PutEndOfStream, FinalPrune
<1>4. CASE ~Worker(r)
  BY <1>4, OtherRuns
<1> QED
  BY <1>1, <1>3, <1>4

(* A run that is done ends with the sentinel. *)
LEMMA WholeShows ==
    ASSUME IInv, NEW r \in RunId, done[r], NEW s \in Seq(QueueItem), IsSuffix(Whole(r), s)
    PROVE ShowsWholeRun(r, s)
<1>1. <<ErrorEvent>> \o <<EndOfStream>> = <<ErrorEvent, EndOfStream>>
  <2> DEFINE both == <<ErrorEvent>> \o <<EndOfStream>>
  <2>1. <<ErrorEvent>> \in Seq(QueueItem) /\ <<EndOfStream>> \in Seq(QueueItem)
    BY Items
  <2>2. both \in Seq(QueueItem) /\ Len(both) = 2 /\ both[1] = ErrorEvent /\ both[2] = EndOfStream
    BY <2>1, ConcatProperties
  <2>3. <<ErrorEvent, EndOfStream>> \in Seq(QueueItem)
    BY Items
  <2> HIDE DEF both
  <2>4. both = <<ErrorEvent, EndOfStream>>
    BY <2>2, <2>3, SeqEqual
  <2> QED
    BY <2>4 DEF both
<1>2. <<>> \o <<EndOfStream>> = <<EndOfStream>>
  OBVIOUS
<1>3. CASE error[r]
  <2>1. Whole(r) = events[r] \o <<ErrorEvent, EndOfStream>>
    BY <1>1, <1>3 DEF Whole
  <2> QED
    BY <1>3, <2>1 DEF ShowsWholeRun
<1>4. CASE ~error[r]
  <2>1. Whole(r) = events[r] \o <<EndOfStream>>
    BY <1>2, <1>4 DEF Whole
  <2> QED
    BY <2>1 DEF ShowsWholeRun
<1> QED
  BY <1>3, <1>4

(* A step that leaves a run, its page and its live handlers alone. *)
LEMMA ShowsFrame ==
    ASSUME NEW r \in RunId, StreamShows(r),
           UNCHANGED <<drops[r], page[r], seen[r], queue[r], events[r], error[r], done[r], pc[r]>>,
           \A h \in Handler : hrun'[h] = r /\ wire'[h] =>
               hrun[h] = r /\ wire[h] /\ hpc'[h] = hpc[h] /\ pending'[h] = pending[h]
    PROVE StreamShows(r)'
<1>1. /\ Unput(r)' = Unput(r) /\ Coming(r)' = Coming(r) /\ Whole(r)' = Whole(r)
      /\ \A s : ShowsWholeRun(r, s)' <=> ShowsWholeRun(r, s)
  BY DEF Unput, Coming, Whole, ShowsWholeRun
<1> QED
  BY <1>1 DEF StreamShows, HandlerShows, Untouched, ShowsWholeRun

-----------------------------------------------------------------------------
(* What the worker does reaches what its stream shows only through what is
   coming, which grows as the run grows. *)
LEMMA RegistryShows ==
    ASSUME CInv, RegistryStep, NEW r \in RunId PROVE StreamShows(r)'
<1>1. IInv /\ Next /\ UNCHANGED streamVars /\ StreamShows(r)
  BY DEF CInv, SInv, RegistryStep
<1>2. PICK d \in Seq(QueueItem) : Coming(r)' = Coming(r) \o d /\ Whole(r)' = Whole(r) \o d
  BY <1>1, WorkerExtends
<1>3. /\ Coming(r) \in Seq(QueueItem) /\ Whole(r) \in Seq(QueueItem) /\ seen[r] \in Seq(QueueItem)
      /\ pending \in [Handler -> Seq(QueueItem)]
  BY <1>1, StreamTypes DEF CInv, SInv, HandlersOK, ConnectionsOK
<1>4. UNCHANGED <<hpc, hrun, pending, wire, drops, page, seen>>
  BY <1>1 DEF streamVars
<1>5. Untouched(r) => Untouched(r)'
  BY <1>2, <1>4 DEF Untouched
<1>6. done[r] => /\ done'[r]
                 /\ \A s : ShowsWholeRun(r, s) => ShowsWholeRun(r, s)'
  BY <1>1, ShownStays DEF ShowsWholeRun
<1>7. ASSUME NEW h \in Handler, HandlerShows(h, r) PROVE HandlerShows(h, r)'
  <2> DEFINE shown == seen[r] \o pending[h]
  <2>1. shown \in Seq(QueueItem) /\ shown \o Coming(r) \in Seq(QueueItem)
    BY <1>3, ConcatProperties
  <2>2. IsSuffix(Whole(r), shown \o Coming(r)) => IsSuffix(Whole(r)', shown \o Coming(r)')
    <3> HIDE DEF shown
    <3>1. shown \o Coming(r)' = (shown \o Coming(r)) \o d
      <4>1. Coming(r)' = Coming(r) \o d /\ shown \in Seq(QueueItem) /\ Coming(r) \in Seq(QueueItem)
        BY <1>2, <1>3, <2>1
      <4>2. (shown \o Coming(r)) \o d = shown \o (Coming(r) \o d)
        BY <4>1, ConcatAssociative
      <4> QED
        BY <4>1, <4>2
    <3>2. IsSuffix(Whole(r), shown \o Coming(r)) => IsSuffix(Whole(r) \o d, (shown \o Coming(r)) \o d)
      BY <1>3, <2>1, SuffixAppended
    <3> QED
      BY <1>2, <3>1, <3>2
  <2>3. done[r] /\ ShowsWholeRun(r, shown) => done'[r] /\ ShowsWholeRun(r, shown)'
    BY <1>6, <1>4 DEF ShowsWholeRun
  <2> QED
    BY <1>4, <1>5, <1>7, <2>2, <2>3 DEF HandlerShows
<1>8. done[r] /\ ShowsWholeRun(r, seen[r]) => done'[r] /\ ShowsWholeRun(r, seen[r])'
  BY <1>6, <1>4 DEF ShowsWholeRun
<1> QED
  BY <1>1, <1>4, <1>5, <1>7, <1>8 DEF StreamShows

(* The snapshot is all there is; with it the run's events are repeated, never
   left out. *)
LEMMA SnapshotShows ==
    ASSUME CInv, NEW h \in Handler, Snapshot(h), NEW r \in RunId PROVE StreamShows(r)'
<1>1. /\ IInv /\ hpc[h] = "snapshot" /\ StreamShows(r)
      /\ UNCHANGED <<queue, events, error, done, pc, hrun, wire, drops, page, seen>>
      /\ hpc' = [hpc EXCEPT ![h] = "serving"]
      /\ hpc \in [Handler -> {"free", "snapshot", "serving", "closed"}]
      /\ pending \in [Handler -> Seq(QueueItem)]
      /\ pending' = [pending EXCEPT ![h] =
              events[hrun[h]] \o (IF done[hrun[h]] THEN <<EndOfStream>> ELSE <<>>)]
  BY DEF CInv, SInv, HandlersOK, Snapshot, registryVars
<1>2. \A g \in Handler : g # h => hpc'[g] = hpc[g] /\ pending'[g] = pending[g]
  BY <1>1
<1>3. CASE hrun[h] # r
  <2>1. UNCHANGED <<drops[r], page[r], seen[r], queue[r], events[r], error[r], done[r], pc[r]>>
    BY <1>1
  <2>2. \A g \in Handler : hrun'[g] = r /\ wire'[g] =>
             hrun[g] = r /\ wire[g] /\ hpc'[g] = hpc[g] /\ pending'[g] = pending[g]
    BY <1>1, <1>2, <1>3
  <2> QED
    BY <1>1, <2>1, <2>2, ShowsFrame
<1>4. CASE hrun[h] = r
  <2> SUFFICES ASSUME drops[r] = 0 PROVE StreamShows(r)'
    BY <1>1 DEF StreamShows
  <2> DEFINE end == IF done[r] THEN <<EndOfStream>> ELSE <<>>
             items == events[r] \o end
  <2>1. wire[h] /\ page[r] = "watching" /\ Untouched(r)
    BY <1>1, <1>4 DEF CInv, ConnectionsOK, StreamShows, HandlerShows
  <2>2. /\ events[r] \in Seq(QueueItem) /\ end \in Seq(QueueItem) /\ items \in Seq(QueueItem)
        /\ Coming(r) \in Seq(QueueItem) /\ Whole(r) \in Seq(QueueItem)
        /\ events[r] \in Seq(ProgressEvent) /\ done[r] \in BOOLEAN
    BY <1>1, StreamTypes, ConcatProperties DEF IInv, TypeOK
  <2>3. hpc'[h] = "serving" /\ pending'[h] = items
    BY <1>1, <1>4
  <2>4. seen[r] = <<>> /\ seen[r] \o items = items /\ Coming(r) = Whole(r)
    BY <2>1, <2>2, ConcatEmptySeq DEF Untouched
  <2>5. CASE done[r]
    <3>1. items = Append(events[r], EndOfStream) /\ ~Ends(events[r])
      <4>1. items = events[r] \o <<EndOfStream>>
        BY <2>5
      <4>2. \A i \in DOMAIN events[r] : events[r][i] # EndOfStream
        BY <2>2, Items
      <4>3. ~Ends(events[r])
        BY <4>2, Zenon DEF Ends
      <4>4. Append(events[r], EndOfStream) = events[r] \o <<EndOfStream>>
        BY <2>2, AppendIsConcat, Items
      <4> QED
        BY <4>1, <4>3, <4>4
    <3>2. EndsLast(items) /\ Ends(items)
      <4>1. EndsLast(items)
        BY <2>2, <3>1, EndsLastAppended, Items
      <4>2. Ends(Append(events[r], EndOfStream))
        BY <2>2, SentinelAppended
      <4> QED
        BY <3>1, <4>1, <4>2
    <3>3. IsSuffix(events[r] \o <<EndOfStream>>, items)
      <4>1. <<>> \o items = items /\ <<>> \in Seq(QueueItem)
        BY <2>2, ConcatEmptySeq
      <4>2. IsSuffix(items, <<>> \o items)
        BY <2>2, <4>1, SuffixOfConcat
      <4> QED
        BY <2>5, <4>1, <4>2
    <3> HIDE DEF items
    <3>4. ShowsWholeRun(r, seen[r] \o pending[h])'
      <4>1. seen'[r] \o pending'[h] = items /\ events'[r] = events[r]
        BY <1>1, <2>3, <2>4
      <4> QED
        BY <3>3, <4>1 DEF ShowsWholeRun
    <3>5. HandlerShows(h, r)'
      BY <1>1, <2>3, <2>5, <3>2, <3>4 DEF HandlerShows
    <3> QED
      BY <1>1, <2>1, <3>5, <1>4 DEF StreamShows, ResultShown, CInv, ConnectionsOK
  <2>6. CASE ~done[r]
    <3>1. ~Ends(items)
      BY <2>2, <2>6, EndsOfSnapshot
    <3>2. IsSuffix(Whole(r), (seen[r] \o items) \o Coming(r))
      BY <2>2, <2>4, SuffixOfConcat
    <3>3. Whole(r)' = Whole(r) /\ Coming(r)' = Coming(r)
      BY <1>1 DEF Whole, Coming, Unput
    <3> HIDE DEF items
    <3>4. HandlerShows(h, r)'
      BY <1>1, <2>3, <3>1, <3>2, <3>3 DEF HandlerShows
    <3> QED
      BY <1>1, <2>1, <3>4, <1>4 DEF StreamShows, ResultShown, CInv, ConnectionsOK
  <2> QED
    BY <2>5, <2>6
<1> QED
  BY <1>3, <1>4

(* An item that is taken moves from what is coming to what is pending; when it
   is the sentinel, nothing was left behind. *)
LEMMA TakeShows ==
    ASSUME CInv, NEW h \in Handler, TakeFromQueue(h), NEW r \in RunId PROVE StreamShows(r)'
<1> DEFINE item == Head(queue[hrun[h]])
<1>1. /\ IInv /\ hpc[h] = "serving" /\ pending[h] = <<>> /\ queue[hrun[h]] # <<>> /\ StreamShows(r)
      /\ UNCHANGED <<events, error, done, pc, hpc, hrun, wire, drops, page, seen>>
      /\ pending \in [Handler -> Seq(QueueItem)] /\ queue \in [RunId -> Seq(QueueItem)]
      /\ pending' = [pending EXCEPT ![h] = <<item>>]
      /\ queue' = [queue EXCEPT ![hrun[h]] = Tail(@)]
  BY DEF CInv, SInv, HandlersOK, TakeFromQueue, IInv, TypeOK
<1>2. \A g \in Handler : g # h => pending'[g] = pending[g]
  BY <1>1
<1>3. CASE hrun[h] # r
  <2>1. UNCHANGED <<drops[r], page[r], seen[r], queue[r], events[r], error[r], done[r], pc[r]>>
    BY <1>1, <1>3
  <2>2. \A g \in Handler : hrun'[g] = r /\ wire'[g] =>
             hrun[g] = r /\ wire[g] /\ hpc'[g] = hpc[g] /\ pending'[g] = pending[g]
    BY <1>1, <1>2, <1>3
  <2> QED
    BY <1>1, <2>1, <2>2, ShowsFrame
<1>4. CASE hrun[h] = r
  <2> SUFFICES ASSUME drops[r] = 0 PROVE StreamShows(r)'
    BY <1>1 DEF StreamShows
  <2> DEFINE q == queue[r]
             left == Tail(q)
  <2>1. wire[h] /\ page[r] = "watching" /\ HandlerShows(h, r)
    BY <1>1, <1>4 DEF CInv, ConnectionsOK, StreamShows
  <2>2. /\ q \in Seq(QueueItem) /\ Unput(r) \in Seq(QueueItem) /\ Whole(r) \in Seq(QueueItem)
        /\ Coming(r) \in Seq(QueueItem) /\ seen[r] \in Seq(QueueItem) /\ Coming(r) = q \o Unput(r)
    BY <1>1, StreamTypes DEF CInv, ConnectionsOK, Coming
  <2>3. /\ pending'[h] = <<item>> /\ queue'[r] = left /\ item = Head(q) /\ q # <<>>
        /\ item \in QueueItem /\ left \in Seq(QueueItem) /\ <<item>> \in Seq(QueueItem)
    BY <1>1, <1>4, <2>2, HeadTailProperties
  <2>4. /\ EndsLast(q) /\ (Ends(q) => pc[r] \in {"pruning", "exited"} /\ done[r])
        /\ q = <<item>> \o left
        /\ item = EndOfStream => Ends(q) /\ left = <<>>
    BY <2>2, <2>3, EndsLastOfTail, EndsOfTail DEF CInv, SInv, QueuesOK, SentinelMeansDone
  <2>5. IsSuffix(Whole(r), (seen[r] \o <<item>>) \o (left \o Unput(r)))
    <3>1. IsSuffix(Whole(r), (seen[r] \o <<>>) \o Coming(r))
      BY <1>1, <2>1, NothingEnds DEF HandlerShows
    <3>2. seen[r] \o <<>> = seen[r]
      BY <2>2, ConcatEmptySeq
    <3>3. \A s, t, u \in Seq(QueueItem) : (s \o t) \o u = s \o (t \o u) /\ t \o u \in Seq(QueueItem)
      BY ConcatAssociative, ConcatProperties
    <3> HIDE DEF item, q, left
    <3>4. Coming(r) = <<item>> \o (left \o Unput(r))
      BY <2>2, <2>3, <2>4, <3>3
    <3>5. seen[r] \o (<<item>> \o (left \o Unput(r))) = (seen[r] \o <<item>>) \o (left \o Unput(r))
      <4> DEFINE one == <<item>>
                 rest == left \o Unput(r)
      <4>1. seen[r] \in Seq(QueueItem) /\ one \in Seq(QueueItem) /\ rest \in Seq(QueueItem)
        BY <2>2, <2>3, <3>3
      <4> HIDE DEF one, rest
      <4>2. seen[r] \o (one \o rest) = (seen[r] \o one) \o rest
        BY <4>1, Regrouped, Zenon
      <4> QED
        BY <4>2 DEF one, rest
    <3> QED
      BY <3>1, <3>2, <3>4, <3>5
  <2>6. Whole(r)' = Whole(r) /\ Coming(r)' = left \o Unput(r) /\ hpc'[h] = "serving"
    BY <1>1, <2>3 DEF Whole, Coming, Unput
  <2>7. Ends(<<item>>) <=> item = EndOfStream
    BY DEF Ends
  <2>8. EndsLast(<<item>>)
    BY DEF EndsLast
  <2> HIDE DEF item, q, left
  <2>9. HandlerShows(h, r)'
    <3>1. CASE item # EndOfStream
      BY <1>1, <2>3, <2>5, <2>6, <2>7, <3>1 DEF HandlerShows
    <3>2. CASE item = EndOfStream
      <4>1. done[r] /\ pc[r] \in {"pruning", "exited"} /\ left = <<>>
        BY <2>4, <3>2
      <4>2. Unput(r) = <<>>
        BY <4>1 DEF Unput
      <4>3. seen[r] \o <<item>> \in Seq(QueueItem)
        BY <2>2, <2>3, ConcatProperties
      <4>4. (seen[r] \o <<item>>) \o (<<>> \o <<>>) = seen[r] \o <<item>>
        BY <4>3, ConcatEmptySeq
      <4>5. ShowsWholeRun(r, seen[r] \o <<item>>)
        BY <1>1, <2>5, <4>1, <4>2, <4>3, <4>4, WholeShows
      <4>6. ShowsWholeRun(r, seen[r] \o pending[h])'
        BY <1>1, <2>3, <4>5 DEF ShowsWholeRun
      <4> QED
        BY <1>1, <2>3, <2>6, <2>7, <2>8, <3>2, <4>1, <4>6 DEF HandlerShows
    <3> QED
      BY <3>1, <3>2
  <2> QED
    BY <1>1, <1>4, <2>1, <2>9 DEF StreamShows, ResultShown, CInv, ConnectionsOK
<1> QED
  BY <1>3, <1>4

(* What is delivered moves from pending to seen; the last delivery is done. *)
LEMMA DeliverShows ==
    ASSUME CInv, NEW h \in Handler, Deliver(h), NEW r \in RunId PROVE StreamShows(r)'
<1> DEFINE item == Head(pending[h])
           left == Tail(pending[h])
<1>1. /\ IInv /\ hpc[h] = "serving" /\ pending[h] # <<>> /\ wire[h] /\ StreamShows(r)
      /\ UNCHANGED <<queue, events, error, done, pc, hrun, drops>>
      /\ pending \in [Handler -> Seq(QueueItem)] /\ seen \in [RunId -> Seq(QueueItem)]
      /\ hpc \in [Handler -> {"free", "snapshot", "serving", "closed"}]
      /\ wire \in [Handler -> BOOLEAN]
      /\ page \in [RunId -> {"idle", "watching", "lost", "finished"} \cup ResultShown]
      /\ pending' = [pending EXCEPT ![h] = left]
      /\ hpc' = [hpc EXCEPT ![h] = IF item = EndOfStream THEN "closed" ELSE @]
      /\ seen' = [seen EXCEPT ![hrun[h]] = Append(@, item)]
      /\ IF item = EndOfStream
         THEN /\ page' = [page EXCEPT ![hrun[h]] = "finished"]
              /\ wire' = [wire EXCEPT ![h] = FALSE]
         ELSE UNCHANGED <<page, wire>>
  BY DEF CInv, SInv, HandlersOK, ConnectionsOK, Deliver, Written, registryVars
<1>2. \A g \in Handler : g # h => pending'[g] = pending[g] /\ hpc'[g] = hpc[g] /\ wire'[g] = wire[g]
  BY <1>1
<1> HIDE DEF item, left
<1>3. CASE hrun[h] # r
  <2>1. UNCHANGED <<drops[r], page[r], seen[r], queue[r], events[r], error[r], done[r], pc[r]>>
    BY <1>1, <1>3
  <2>2. \A g \in Handler : hrun'[g] = r /\ wire'[g] =>
             hrun[g] = r /\ wire[g] /\ hpc'[g] = hpc[g] /\ pending'[g] = pending[g]
    BY <1>1, <1>2, <1>3
  <2> QED
    BY <1>1, <2>1, <2>2, ShowsFrame
<1>4. CASE hrun[h] = r
  <2> SUFFICES ASSUME drops[r] = 0 PROVE StreamShows(r)'
    BY <1>1 DEF StreamShows
  <2>1. page[r] = "watching" /\ HandlerShows(h, r)
    BY <1>1, <1>4 DEF CInv, ConnectionsOK, StreamShows
  <2>2. /\ pending[h] \in Seq(QueueItem) /\ left \in Seq(QueueItem) /\ item \in QueueItem
        /\ seen[r] \in Seq(QueueItem) /\ <<item>> \in Seq(QueueItem)
    BY <1>1, HeadTailProperties DEF item, left
  <2>3. /\ pending[h] = <<item>> \o left
        /\ Ends(left) => Ends(pending[h])
        /\ item = EndOfStream => Ends(pending[h])
        /\ EndsLast(pending[h]) => EndsLast(left)
        /\ EndsLast(pending[h]) /\ item = EndOfStream => pending[h] = <<EndOfStream>> /\ left = <<>>
        /\ EndsLast(pending[h]) /\ item # EndOfStream /\ Ends(pending[h]) => Ends(left)
    <3>1. pending[h] = <<item>> \o left
      BY <1>1, <2>2 DEF item, left
    <3> QED
      BY <1>1, <2>2, <3>1, EndsOfTail, EndsLastOfTail DEF item, left
  <2>4. pending'[h] = left /\ seen'[r] = seen[r] \o <<item>>
    <3>1. Append(seen[r], item) = seen[r] \o <<item>>
      BY <2>2, AppendIsConcat
    <3> QED
      BY <1>1, <1>4, <3>1
  <2>5. (seen[r] \o <<item>>) \o left = seen[r] \o pending[h]
    <3> DEFINE one == <<item>>
    <3>1. /\ seen[r] \in Seq(QueueItem) /\ one \in Seq(QueueItem) /\ left \in Seq(QueueItem)
          /\ pending[h] = one \o left
      BY <2>2, <2>3
    <3> HIDE DEF one, left
    <3>2. seen[r] \o (one \o left) = (seen[r] \o one) \o left
      BY <3>1, Regrouped, Zenon
    <3> QED
      BY <3>1, <3>2 DEF one
  <2>6. Whole(r)' = Whole(r) /\ Coming(r)' = Coming(r) /\ events'[r] = events[r] /\ error'[r] = error[r]
    BY <1>1 DEF Whole, Coming, Unput
  <2>7. ShowsWholeRun(r, seen[r] \o pending[h]) => ShowsWholeRun(r, seen[r] \o pending[h])'
    BY <2>4, <2>5, <2>6 DEF ShowsWholeRun
  <2>8. CASE item # EndOfStream
    <3>1. hpc'[h] = "serving" /\ page' = page /\ wire' = wire
      BY <1>1, <2>8
    <3>2. CASE Ends(pending[h])
      <4>1. done[r] /\ EndsLast(pending[h]) /\ ShowsWholeRun(r, seen[r] \o pending[h])
        BY <1>1, <2>1, <3>2 DEF HandlerShows
      <4>2. HandlerShows(h, r)'
        BY <1>1, <2>3, <2>4, <2>7, <2>8, <3>1, <3>2, <4>1 DEF HandlerShows
      <4> QED
        BY <1>1, <1>4, <2>1, <3>1, <4>2 DEF StreamShows, ResultShown, CInv, ConnectionsOK
    <3>3. CASE ~Ends(pending[h])
      <4>1. ~Ends(left) /\ IsSuffix(Whole(r), (seen[r] \o pending[h]) \o Coming(r))
        BY <1>1, <2>1, <2>3, <3>3 DEF HandlerShows
      <4>2. HandlerShows(h, r)'
        BY <2>4, <2>5, <2>6, <3>1, <4>1 DEF HandlerShows
      <4> QED
        BY <1>1, <1>4, <2>1, <3>1, <4>2 DEF StreamShows, ResultShown, CInv, ConnectionsOK
    <3> QED
      BY <3>2, <3>3
  <2>9. CASE item = EndOfStream
    <3>1. done[r] /\ EndsLast(pending[h]) /\ ShowsWholeRun(r, seen[r] \o pending[h])
      BY <1>1, <2>1, <2>3, <2>9 DEF HandlerShows
    <3>2. seen'[r] = seen[r] \o pending[h]
      BY <2>3, <2>4, <2>9, <3>1
    <3>3. ShowsWholeRun(r, seen[r])'
      BY <2>6, <3>1, <3>2 DEF ShowsWholeRun
    <3>4. page'[r] = "finished" /\ ~wire'[h]
      BY <1>1, <1>4, <2>9
    <3>5. \A g \in Handler : ~(hrun'[g] = r /\ wire'[g])
      BY <1>1, <1>2, <1>4, <3>4 DEF CInv, ConnectionsOK
    <3> QED
      BY <1>1, <3>1, <3>3, <3>4, <3>5 DEF StreamShows
  <2> QED
    BY <2>8, <2>9
<1> QED
  BY <1>3, <1>4

(* Writes into a broken connection concern no unbroken stream. *)
LEMMA BrokenShows ==
    ASSUME CInv, NEW h \in Handler, WriteVanishes(h) \/ WriteFails(h), NEW r \in RunId
    PROVE StreamShows(r)'
<1>1. /\ StreamShows(r) /\ ~wire[h] /\ UNCHANGED registryVars /\ UNCHANGED <<hrun, wire, drops, page, seen>>
      /\ \A g \in Handler : g # h => pending'[g] = pending[g] /\ hpc'[g] = hpc[g]
  BY DEF CInv, SInv, HandlersOK, WriteVanishes, WriteFails, Written
<1>2. UNCHANGED <<drops[r], page[r], seen[r], queue[r], events[r], error[r], done[r], pc[r]>>
  BY <1>1 DEF registryVars
<1>3. \A g \in Handler : hrun'[g] = r /\ wire'[g] =>
           hrun[g] = r /\ wire[g] /\ hpc'[g] = hpc[g] /\ pending'[g] = pending[g]
  BY <1>1
<1> QED
  BY <1>1, <1>2, <1>3, ShowsFrame

(* A new connection finds the queue untouched, unless an earlier one broke. *)
LEMMA PageShows ==
    ASSUME CInv, NEW r \in RunId,
           \/ \E q \in RunId : Connect(q) \/ FetchResult(q)
           \/ \E h \in Handler : Drop(h)
    PROVE StreamShows(r)'
<1>1. /\ UNCHANGED <<queue, events, error, done, pc, pending, seen>> /\ StreamShows(r)
      /\ hpc \in [Handler -> {"free", "snapshot", "serving", "closed"}]
      /\ wire \in [Handler -> BOOLEAN]
      /\ page \in [RunId -> {"idle", "watching", "lost", "finished"} \cup ResultShown]
      /\ drops \in [RunId -> Nat] /\ hrun \in [Handler -> Int]
      /\ \A h \in Handler : wire[h] => hrun[h] \in RunId /\ page[hrun[h]] = "watching"
      /\ \A h \in Handler : h > opened => hpc[h] = "free"
      /\ opened \in Nat
  BY StreamBoundsAssumption
  DEF CInv, SInv, HandlersOK, ConnectionsOK, Connect, FetchResult, Drop, registryVars
<1>2. UNCHANGED <<seen[r], queue[r], events[r], error[r], done[r], pc[r]>>
  BY <1>1
<1>3. ASSUME NEW q \in RunId, FetchResult(q) PROVE StreamShows(r)'
  <2>1. /\ page[q] = "finished" /\ UNCHANGED <<hpc, hrun, wire, drops>>
        /\ \A p \in RunId : p # q => page'[p] = page[p]
        /\ page'[q] \in ResultShown
    BY <1>1, <1>3 DEF FetchResult, ResultShown
  <2>2. CASE q = r
    <3>1. drops[r] = 0 => done[r] /\ ShowsWholeRun(r, seen[r])
      BY <1>1, <2>1, <2>2 DEF StreamShows
    <3>2. \A h \in Handler : ~(hrun[h] = r /\ wire[h])
      BY <1>1, <2>1, <2>2
    <3>3. page'[r] # "idle"
      BY <2>1, <2>2 DEF ResultShown
    <3> QED
      BY <1>1, <2>1, <3>1, <3>2, <3>3 DEF StreamShows, ShowsWholeRun
  <2>3. CASE q # r
    BY <1>1, <1>2, <2>1, <2>3, ShowsFrame
  <2> QED
    BY <2>2, <2>3
<1>4. ASSUME NEW h \in Handler, Drop(h) PROVE StreamShows(r)'
  <2>1. /\ UNCHANGED <<hpc, hrun, page>> /\ wire[h] /\ hrun[h] \in RunId
        /\ wire' = [wire EXCEPT ![h] = FALSE] /\ drops' = [drops EXCEPT ![hrun[h]] = @ + 1]
    BY <1>1, <1>4 DEF Drop
  <2>2. CASE hrun[h] = r
    <3>1. drops'[r] # 0
      BY <1>1, <2>1, <2>2
    <3> QED
      BY <3>1 DEF StreamShows
  <2>3. CASE hrun[h] # r
    <3>1. drops'[r] = drops[r] /\ \A g \in Handler : wire'[g] => wire[g]
      BY <1>1, <2>1, <2>3
    <3> QED
      BY <1>1, <1>2, <2>1, <3>1, ShowsFrame
  <2> QED
    BY <2>2, <2>3
<1>5. ASSUME NEW q \in RunId, Connect(q) PROVE StreamShows(r)'
  <2>1. /\ page[q] \in {"idle", "watching"} /\ drops' = drops
        /\ \A h \in Handler : wire[h] => hrun[h] # q
    BY <1>5 DEF Connect, Connected
  <2>2. CASE q \notin registered
    <3>1. UNCHANGED <<hpc, hrun, wire>> /\ page' = [page EXCEPT ![q] = "lost"]
      BY <1>5, <2>2 DEF Connect
    <3>2. CASE q = r
      <4>1. page'[r] = "lost"
        BY <1>1, <3>1, <3>2
      <4>2. \A h \in Handler : ~(hrun'[h] = r /\ wire'[h])
        BY <2>1, <3>1, <3>2
      <4> QED
        BY <4>1, <4>2 DEF StreamShows, ResultShown
    <3>3. CASE q # r
      <4>1. page'[r] = page[r]
        BY <1>1, <3>1, <3>3
      <4> QED
        BY <1>1, <1>2, <2>1, <3>1, <4>1, ShowsFrame
    <3> QED
      BY <3>2, <3>3
  <2>3. CASE q \in registered
    <3>1. opened + 1 \in Handler
      BY <1>1, <1>5, StreamBoundsAssumption DEF Connect, Handler
    <3>2. PICK n \in Handler :
              /\ hpc' = [hpc EXCEPT ![n] = "snapshot"] /\ hrun' = [hrun EXCEPT ![n] = q]
              /\ wire' = [wire EXCEPT ![n] = TRUE] /\ page' = [page EXCEPT ![q] = "watching"]
      BY <1>5, <2>3, <3>1 DEF Connect
    <3>3. /\ hpc'[n] = "snapshot" /\ hrun'[n] = q /\ page'[q] = "watching"
          /\ \A g \in Handler : g # n => hpc'[g] = hpc[g] /\ hrun'[g] = hrun[g] /\ wire'[g] = wire[g]
          /\ \A p \in RunId : p # q => page'[p] = page[p]
      BY <1>1, <3>2
    <3>4. CASE q = r
      <4> SUFFICES ASSUME drops[r] = 0 PROVE StreamShows(r)'
        BY <2>1 DEF StreamShows
      <4>1. page[r] = "idle"
        <5>1. ~Connected(r)
          BY <2>1, <3>4 DEF Connected
        <5> QED
          BY <2>1, <3>4, <5>1 DEF CInv, ConnectionsOK
      <4>2. Untouched(r)
        BY <1>1, <4>1 DEF StreamShows
      <4>3. Untouched(r)'
        BY <1>1, <4>2 DEF Untouched, Coming, Unput, Whole
      <4>4. \A g \in Handler : hrun'[g] = r /\ wire'[g] => g = n
        BY <2>1, <3>3, <3>4
      <4>5. HandlerShows(n, r)'
        BY <3>3, <4>3 DEF HandlerShows
      <4>6. page'[r] = "watching"
        BY <3>3, <3>4
      <4> QED
        BY <4>4, <4>5, <4>6 DEF StreamShows, ResultShown
    <3>5. CASE q # r
      <4>1. page'[r] = page[r] /\ drops'[r] = drops[r]
        BY <2>1, <3>3, <3>5
      <4>2. \A g \in Handler : hrun'[g] = r /\ wire'[g] =>
                 hrun[g] = r /\ wire[g] /\ hpc'[g] = hpc[g] /\ pending'[g] = pending[g]
        BY <1>1, <3>3, <3>5
      <4> QED
        BY <1>1, <1>2, <4>1, <4>2, ShowsFrame
    <3> QED
      BY <3>4, <3>5
  <2> QED
    BY <2>2, <2>3
<1> QED
  BY <1>3, <1>4, <1>5

(* Nothing is shown, and nothing is coming, of a run that never started. *)
LEMMA CompleteInit == StreamInit => CInv
<1> SUFFICES ASSUME StreamInit PROVE CInv
  OBVIOUS
<1>1. SInv
  BY StreamInitInv
<1>2. QueuesOK
  BY NothingEnds DEF StreamInit, Init, QueuesOK, EndsLast
<1>3. ConnectionsOK
  BY DEF StreamInit, ConnectionsOK
<1>4. ASSUME NEW r \in RunId PROVE StreamShows(r)
  <2>1. /\ seen[r] = <<>> /\ queue[r] = <<>> /\ events[r] = <<>> /\ ~error[r] /\ ~done[r]
        /\ pc[r] = "idle" /\ page[r] = "idle" /\ \A h \in Handler : ~wire[h]
    BY DEF StreamInit, Init
  <2>2. Unput(r) = <<>>
    BY <2>1 DEF Unput
  <2>3. <<>> \in Seq(QueueItem) /\ <<>> \o <<>> = <<>>
    BY ConcatEmptySeq
  <2>4. Coming(r) = <<>> \o <<>> /\ Whole(r) = <<>> \o (<<>> \o <<>>)
    BY <2>1, <2>2 DEF Coming, Whole
  <2>5. Untouched(r)
    BY <2>1, <2>3, <2>4 DEF Untouched
  <2> QED
    BY <2>1, <2>5 DEF StreamShows, ResultShown
<1> QED
  BY <1>1, <1>2, <1>3, <1>4 DEF CInv

LEMMA CompleteStep == CInv /\ [StreamNext]_vars => CInv'
<1>1. ASSUME CInv, StreamNext PROVE CInv'
  <2>1. SInv'
    <3>1. SInv
      BY <1>1 DEF CInv
    <3> QED
      BY <1>1, <3>1, RegistryStepKeeps, HandlerKeeps, PageKeeps DEF StreamNext
  <2>2. QueuesOK' /\ ConnectionsOK'
    BY <1>1, QueuesStep, ConnectionsStep DEF CInv
  <2>3. ASSUME NEW r \in RunId PROVE StreamShows(r)'
    BY <1>1, RegistryShows, SnapshotShows, TakeShows, DeliverShows, BrokenShows, PageShows
    DEF StreamNext, HandlerStep
  <2> QED
    BY <2>1, <2>2, <2>3 DEF CInv
<1>2. ASSUME CInv, UNCHANGED vars PROVE CInv'
  <2>1. IInv'
    BY <1>2, StreamStepFrame DEF vars, CInv, SInv
  <2>2. SInv'
    BY <1>2, <2>1
    DEF CInv, SInv, vars, registryVars, streamVars, HandlersOK, SentinelMeansDone, NeverFetchedEarly
  <2>3. QueuesOK' /\ ConnectionsOK'
    BY <1>2 DEF CInv, vars, registryVars, streamVars, QueuesOK, ConnectionsOK, Connected
  <2>4. ASSUME NEW r \in RunId PROVE StreamShows(r)'
    BY <1>2, ShowsFrame DEF CInv, vars, registryVars, streamVars
  <2> QED
    BY <2>2, <2>3, <2>4 DEF CInv
<1> QED
  BY <1>1, <1>2

(* A stream whose connection never broke shows the whole run: every event in
   emission order, then done, and the error event only of a run that failed,
   however the worker, the handler and the page interleave. *)
THEOREM UnbrokenStreamIsComplete == StreamSpec => []UnbrokenStreamComplete
<1>1. CInv => UnbrokenStreamComplete
  <2> SUFFICES ASSUME CInv, NEW r \in Started,
                      page[r] \in {"finished"} \cup ResultShown, drops[r] = 0
               PROVE ShowsWholeRun(r, seen[r])
    BY DEF UnbrokenStreamComplete
  <2>1. r \in RunId
    BY BoundsAssumption DEF CInv, SInv, IInv, TypeOK, Started, RunId
  <2> QED
    BY <2>1 DEF CInv, StreamShows
<1> QED
  BY <1>1, CompleteInit, CompleteStep, PTL DEF StreamSpec
=============================================================================
