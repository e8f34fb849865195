------------------------------ MODULE RunStream ------------------------------
(***************************************************************************)
(* The event stream of a run: gui/server.py's GET /api/assess/<id>/stream  *)
(* handlers, GET /api/assess/<id>/result, and the page of gui/static/      *)
(* app.js that follows them, composed with RunRegistry.                    *)
(*                                                                         *)
(* Every connection gets a handler thread that first replays a snapshot of *)
(* run.events and then drains run.queue.  The queue is shared by all the   *)
(* handlers of a run: an item one of them takes is gone for the others.    *)
(* A connection may drop; the browser's EventSource then opens another     *)
(* one, while the old handler is still blocked in queue.get().             *)
(*                                                                         *)
(* A definition without a comment right before another with the same       *)
(* parameters is a faulty variant of it, used to test the properties.      *)
(***************************************************************************)
EXTENDS RunRegistry, SequencesExt

CONSTANTS
    MaxConnections,     \* bound: stream requests in one behaviour
    MaxDrops            \* bound: connections that break

ASSUME StreamBoundsAssumption ==
    /\ MaxConnections \in Nat
    /\ MaxDrops \in Nat

Handler == 1..MaxConnections

VARIABLES
    opened,             \* stream requests accepted so far
    hpc,                \* where each handler thread is
    hrun,               \* the run it serves
    pending,            \* what it has taken and not yet written
    wire,               \* is its connection up
    drops,              \* broken connections per run
    page,               \* what the page following each run is doing
    seen                \* the payloads that page has received, in order

streamVars == <<opened, hpc, hrun, pending, wire, drops, page, seen>>
vars == <<registryVars, streamVars>>

ResultShown == {"complete", "error", "not_found", "running"}

StreamInit ==
    /\ Init
    /\ opened = 0
    /\ hpc = [h \in Handler |-> "free"]
    /\ hrun = [h \in Handler |-> 0]
    /\ pending = [h \in Handler |-> <<>>]
    /\ wire = [h \in Handler |-> FALSE]
    /\ drops = [r \in RunId |-> 0]
    /\ page = [r \in RunId |-> "idle"]
    /\ seen = [r \in RunId |-> <<>>]

-----------------------------------------------------------------------------
(* The page: startProgress opens an EventSource once POST /api/assess has
   answered; the EventSource reconnects by itself when its connection breaks,
   and gives up on a response that is not 200. *)
Connected(r) == \E h \in Handler : hrun[h] = r /\ wire[h]

Connect(r) ==
    /\ r \in Started
    /\ page[r] \in {"idle", "watching"}
    /\ ~Connected(r)
    /\ opened < MaxConnections
    /\ opened' = opened + 1
    /\ IF r \in registered
       THEN /\ hpc' = [hpc EXCEPT ![opened + 1] = "snapshot"]
            /\ hrun' = [hrun EXCEPT ![opened + 1] = r]
            /\ wire' = [wire EXCEPT ![opened + 1] = TRUE]
            /\ page' = [page EXCEPT ![r] = "watching"]
       ELSE /\ page' = [page EXCEPT ![r] = "lost"]
            /\ UNCHANGED <<hpc, hrun, wire>>
    /\ UNCHANGED <<registryVars, pending, drops, seen>>

Drop(h) ==
    /\ wire[h]
    /\ drops[hrun[h]] < MaxDrops
    /\ wire' = [wire EXCEPT ![h] = FALSE]
    /\ drops' = [drops EXCEPT ![hrun[h]] = @ + 1]
    /\ UNCHANGED <<registryVars, opened, hpc, hrun, pending, page, seen>>

(* fetchResult after the done payload: GET /result reads done, outcome and
   error together under run.lock. *)
FetchResult(r) ==
    /\ page[r] = "finished"
    /\ page' = [page EXCEPT ![r] =
           IF r \notin registered THEN "not_found"
           ELSE IF ~done[r] THEN "running"
           ELSE IF error[r] THEN "error" ELSE "complete"]
    /\ UNCHANGED <<registryVars, opened, hpc, hrun, pending, wire, drops, seen>>

-----------------------------------------------------------------------------
(* The handler thread. *)

(* Under run.lock: what to replay, and whether done ends it there. *)
NoReplay(h) ==
    /\ hpc[h] = "snapshot"
    /\ pending' = [pending EXCEPT ![h] =
           IF done[hrun[h]] THEN <<EndOfStream>> ELSE <<>>]
    /\ hpc' = [hpc EXCEPT ![h] = "serving"]
    /\ UNCHANGED <<registryVars, opened, hrun, wire, drops, page, seen>>
Snapshot(h) ==
    /\ hpc[h] = "snapshot"
    /\ pending' = [pending EXCEPT ![h] =
           events[hrun[h]] \o (IF done[hrun[h]] THEN <<EndOfStream>> ELSE <<>>)]
    /\ hpc' = [hpc EXCEPT ![h] = "serving"]
    /\ UNCHANGED <<registryVars, opened, hrun, wire, drops, page, seen>>

(* run.queue.get(), once the snapshot has been written out. *)
TakeFromQueue(h) ==
    /\ hpc[h] = "serving"
    /\ pending[h] = <<>>
    /\ queue[hrun[h]] # <<>>
    /\ pending' = [pending EXCEPT ![h] = <<Head(queue[hrun[h]])>>]
    /\ queue' = [queue EXCEPT ![hrun[h]] = Tail(@)]
    /\ UNCHANGED <<started, registered, pc, events, outcome, error, done,
                   opened, hpc, hrun, wire, drops, page, seen>>

(* After done has been written the handler returns. *)
Written(h) ==
    /\ pending' = [pending EXCEPT ![h] = Tail(@)]
    /\ hpc' = [hpc EXCEPT ![h] = IF Head(pending[h]) = EndOfStream THEN "closed" ELSE @]

(* A payload reaches the page; on done it closes the EventSource. *)
Deliver(h) ==
    LET r == hrun[h] IN
    /\ hpc[h] = "serving" /\ pending[h] # <<>> /\ wire[h]
    /\ Written(h)
    /\ seen' = [seen EXCEPT ![r] = Append(@, Head(pending[h]))]
    /\ IF Head(pending[h]) = EndOfStream
       THEN /\ page' = [page EXCEPT ![r] = "finished"]
            /\ wire' = [wire EXCEPT ![h] = FALSE]
       ELSE UNCHANGED <<page, wire>>
    /\ UNCHANGED <<registryVars, opened, hrun, drops>>

(* On a broken connection a write disappears into the socket's buffer ... *)
WriteVanishes(h) ==
    /\ hpc[h] = "serving" /\ pending[h] # <<>> /\ ~wire[h]
    /\ Written(h)
    /\ UNCHANGED <<registryVars, opened, hrun, wire, drops, page, seen>>

(* ... or raises, the header as well as a payload: caught in the loop or by
   do_GET; either way the thread ends. *)
WriteFails(h) ==
    /\ ~wire[h]
    /\ hpc[h] = "snapshot" \/ (hpc[h] = "serving" /\ pending[h] # <<>>)
    /\ hpc' = [hpc EXCEPT ![h] = "closed"]
    /\ pending' = [pending EXCEPT ![h] = <<>>]
    /\ UNCHANGED <<registryVars, opened, hrun, wire, drops, page, seen>>

HandlerStep(h) ==
    Snapshot(h) \/ TakeFromQueue(h) \/ Deliver(h) \/ WriteVanishes(h) \/ WriteFails(h)

RegistryStep == Next /\ UNCHANGED streamVars

StreamNext ==
    \/ RegistryStep
    \/ \E r \in RunId : Connect(r) \/ FetchResult(r)
    \/ \E h \in Handler : Drop(h) \/ HandlerStep(h)

(* Threads are scheduled, the assessment terminates (MaxEvents bounds it), and
   the page does what its code says; users need not start runs, and nothing
   forces a connection to break. *)
Fairness ==
    /\ \A r \in RunId : WF_vars(Worker(r) /\ UNCHANGED streamVars)
    /\ \A h \in Handler : WF_vars(HandlerStep(h))
    /\ \A r \in RunId : WF_vars(Connect(r)) /\ WF_vars(FetchResult(r))

StreamSpec == StreamInit /\ [][StreamNext]_vars /\ Fairness

-----------------------------------------------------------------------------
(* The page never asks for a result too early: done is set before the
   sentinel is put, so after the done payload /result is never "running". *)
NeverFetchedEarly == \A r \in RunId : page[r] # "running"

(* s ends with every event of run r in emission order, and then done; the
   error event is in between, unless the run was over when the stream opened. *)
ShowsWholeRun(r, s) ==
    \/ IsSuffix(events[r] \o <<EndOfStream>>, s)
    \/ error[r] /\ IsSuffix(events[r] \o <<ErrorEvent, EndOfStream>>, s)

(* A stream whose connection never broke shows the whole run: the snapshot
   may repeat events the queue also holds, but when done arrives every event
   has been shown and the last showing of each is in emission order, so the
   checklist ends on the true phase of every stage, nothing follows done, and
   the error event is only shown for a run that failed. *)
UnbrokenStreamComplete ==
    \A r \in Started :
        page[r] \in {"finished"} \cup ResultShown /\ drops[r] = 0 => ShowsWholeRun(r, seen[r])

(* A page that is following a run sees its end, provided its connection
   does not break. *)
UnbrokenWatcherFinishes ==
    \A r \in RunId : page[r] = "watching" ~> (page[r] \in ResultShown \/ drops[r] > 0)

(* The same without the proviso: static/app.js lines 585-586, "The browser's
   EventSource auto-retries; final state always arrives via /result once the
   run thread finishes". *)
WatcherFinishes ==
    \A r \in RunId : page[r] = "watching" ~> page[r] \in ResultShown \cup {"lost"}
=============================================================================
