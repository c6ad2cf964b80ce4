------------------------------ MODULE ChatRuns ------------------------------
(***************************************************************************)
(* One run of the chat bridge, in the transport "runs": the request that   *)
(* creates it, its consumer (executeRun, which submits it to Hermes and    *)
(* applies the events of Hermes), requests to stop it, and the SSE streams *)
(* of browsers.  All of them work on one object in memory and interleave   *)
(* at every await.                                                         *)
(*                                                                         *)
(* RunStore.save takes a snapshot of the object when it sends it to the    *)
(* database: saves of different actors are different HTTP requests, which  *)
(* land in any order.  A step is what runs between two awaits: it begins   *)
(* with the answer of the await, and a save that returns first serves the  *)
(* streams (notify).                                                       *)
(*                                                                         *)
(* Runs share nothing but the registry of approvals, so one is modelled.   *)
(* Of an event only its kind is kept: "text" (delta), "error", "done", and *)
(* "note" for what an append adds of meta and status events.               *)
(***************************************************************************)
EXTENDS Integers, Sequences

CONSTANTS
  Stops,        \* requests POST .../stop
  Streams,      \* SSE connections of browsers
  Consumer,     \* the consumer of the run
  UpstreamFails,  \* whether calls of Hermes by the consumer can fail
  StopFails,      \* whether calls of Hermes' stop can fail
  SaveFails,      \* whether saves can fail
  MaxNews,      \* bound: events and polls before Hermes ends its run
  MaxDrops,     \* bound: connections of browsers that break
  MaxCrashes,   \* bound: restarts of the bridge
  None

ASSUME ActorsAssumption == Consumer \notin Stops /\ None \notin Stops
ASSUME FaultsAssumption == {UpstreamFails, StopFails, SaveFails} \subseteq BOOLEAN
ASSUME BoundsAssumption == MaxNews \in Nat /\ MaxDrops \in Nat /\ MaxCrashes \in Nat

Actors   == Stops \cup {Consumer}
Results  == {"completed", "failed", "cancelled"}
Terminal == Results \cup {"interrupted"}
Statuses == Terminal \cup {"none", "queued", "running", "stopping"}
Kinds    == {"note", "text", "error", "done"}

\* What a row keeps of a run: its status, and how many of its events.
Snapshots == [status : Statuses, count : Nat]

ASSUME NoneAssumption == None \notin Snapshots

VARIABLES
  status, log,    \* the run in memory: its status and its events
  disk,           \* its row: the snapshot that landed last, or None
  hermesId,       \* whether the run knows the id of its Hermes run
  hermes,         \* the state of the Hermes run
  pc,             \* what each actor awaits
  save,           \* the save each actor awaits: whether it ended, and its snapshot
  result,         \* the result an actor is applying, or None
  previous,       \* the status a stop request found
  stream, index,  \* each connection, and the cursor its browser has reached
  news, drops, crashes

runVars    == <<status, log, hermesId>>
actorVars  == <<pc, save, result, previous>>
streamVars == <<stream, index>>
bounds     == <<news, drops, crashes>>
vars == <<runVars, disk, hermes, actorVars, streamVars, bounds>>

Idle      == [is |-> "idle", row |-> None]
Sent(row) == [is |-> "sent", row |-> row]
Over(end) == [is |-> end, row |-> None]

\* POST /api/chat/runs has put the run into memory and saves it.
Init ==
  /\ status   = "queued"
  /\ log      = <<"note">>
  /\ disk     = None
  /\ hermesId = FALSE
  /\ hermes   = "none"
  /\ pc       = [a \in Actors |-> IF a = Consumer THEN "accept" ELSE "idle"]
  /\ save     = [a \in Actors |-> IF a = Consumer THEN Sent([status |-> "queued", count |-> 1]) ELSE Idle]
  /\ result   = [a \in Actors |-> None]
  /\ previous = [s \in Stops |-> None]
  /\ stream   = [c \in Streams |-> "off"]
  /\ index    = [c \in Streams |-> 0]
  /\ news = 0 /\ drops = 0 /\ crashes = 0

Has(kind) == \E i \in DOMAIN log : log[i] = kind

-----------------------------------------------------------------------------
(* RunStore *)

InFlight(a) == save[a].is = "sent"

\* Actor a sends the run as it is after this step, and waits at label l.
SaveAndWait(a, l) ==
  /\ save' = [save EXCEPT ![a] = Sent([status |-> status', count |-> Len(log')])]
  /\ pc'   = [pc EXCEPT ![a] = l]

Land(a) ==
  /\ InFlight(a)
  /\ disk' = save[a].row
  /\ save' = [save EXCEPT ![a] = Over("ok")]
  /\ UNCHANGED <<runVars, hermes, pc, result, previous, streamVars, bounds>>

\* The save fails, or it lands and its answer is lost.
LoseSave(a) ==
  /\ SaveFails
  /\ InFlight(a)
  /\ disk' \in {disk, save[a].row}
  /\ save' = [save EXCEPT ![a] = Over("failed")]
  /\ UNCHANGED <<runVars, hermes, pc, result, previous, streamVars, bounds>>

Furthest(i) == IF i < Len(log) THEN Len(log) ELSE i

\* Mutant: the streams of a run that has ended stay open.
NotifyEventsOnly ==
  /\ index' = [c \in Streams |-> IF stream[c] = "open" THEN Furthest(index[c]) ELSE index[c]]
  /\ UNCHANGED stream

\* flushSubscriber: the events a stream has not seen, and its end.
Notify ==
  /\ index'  = [c \in Streams |-> IF stream[c] = "open" THEN Furthest(index[c]) ELSE index[c]]
  /\ stream' = [c \in Streams |-> IF stream[c] = "open" /\ status \in Terminal
                                    THEN "closed" ELSE stream[c]]

\* Actor a's save at label l has returned: the streams are served first.
Saved(a, l) == pc[a] = l /\ save[a].is = "ok" /\ Notify

-----------------------------------------------------------------------------
(* executeRun and executeRunsApi *)

\* The save of createRun returned: the run is accepted and its consumer begins.
Accept ==
  /\ Saved(Consumer, "accept")
  /\ pc'   = [pc EXCEPT ![Consumer] = "bind"]
  /\ save' = [save EXCEPT ![Consumer] = Idle]
  /\ UNCHANGED <<runVars, disk, hermes, result, previous, bounds>>

\* It failed: the request is answered with an error and nobody executes the run.
AcceptFails ==
  /\ pc[Consumer] = "accept" /\ save[Consumer].is = "failed"
  /\ pc'   = [pc EXCEPT ![Consumer] = "refused"]
  /\ save' = [save EXCEPT ![Consumer] = Idle]
  /\ UNCHANGED <<runVars, disk, hermes, result, previous, streamVars, bounds>>

\* ensureHermesSessionBinding returned.
Run ==
  /\ pc[Consumer] = "bind"
  /\ status' = "running"
  /\ log'    = Append(log, "note")
  /\ SaveAndWait(Consumer, "running")
  /\ UNCHANGED <<disk, hermesId, hermes, result, previous, streamVars, bounds>>

Submit ==
  /\ Saved(Consumer, "running")
  /\ pc'   = [pc EXCEPT ![Consumer] = "submit"]
  /\ save' = [save EXCEPT ![Consumer] = Idle]
  /\ UNCHANGED <<runVars, disk, hermes, result, previous, bounds>>

\* client.createRun returned the id of the Hermes run.
Submitted ==
  /\ pc[Consumer] = "submit"
  /\ hermes'   = "active"
  /\ hermesId' = TRUE
  /\ log'      = Append(log, "note")
  /\ UNCHANGED status
  /\ SaveAndWait(Consumer, "created")
  /\ UNCHANGED <<disk, result, previous, streamVars, bounds>>

\* The loop goes on with getEvents, unless somebody else ended the run.
LoopOrEnd == pc' = [pc EXCEPT ![Consumer] = IF status \in Terminal THEN "ended" ELSE "open"]

Loop ==
  /\ Saved(Consumer, "created")
  /\ LoopOrEnd
  /\ save' = [save EXCEPT ![Consumer] = Idle]
  /\ UNCHANGED <<runVars, disk, hermes, result, previous, bounds>>

\* client.getEvents returned a stream.
Open ==
  /\ pc[Consumer] = "open"
  /\ pc' = [pc EXCEPT ![Consumer] = "read"]
  /\ UNCHANGED <<runVars, disk, hermes, save, result, previous, streamVars, bounds>>

\* A block that ends nothing, perhaps buffered since before Hermes ended the run;
\* the status of the run is not looked at between blocks.
ReadNews ==
  /\ pc[Consumer] = "read"
  /\ news < MaxNews
  /\ news' = news + 1
  /\ \E kind \in {"note", "text"} : log' = Append(log, kind)
  /\ UNCHANGED status
  /\ SaveAndWait(Consumer, "block")
  /\ UNCHANGED <<disk, hermesId, hermes, result, previous, streamVars, drops, crashes>>

NextBlock ==
  /\ Saved(Consumer, "block")
  /\ pc'   = [pc EXCEPT ![Consumer] = "read"]
  /\ save' = [save EXCEPT ![Consumer] = Idle]
  /\ UNCHANGED <<runVars, disk, hermes, result, previous, bounds>>

\* The stream ends without a terminal event.
StreamEnds ==
  /\ pc[Consumer] = "read"
  /\ pc' = [pc EXCEPT ![Consumer] = IF status \in Terminal THEN "ended" ELSE "poll"]
  /\ UNCHANGED <<runVars, disk, hermes, save, result, previous, streamVars, bounds>>

\* client.getRun returned, perhaps after the end, that the run was going on.
PollPending ==
  /\ pc[Consumer] = "poll"
  /\ news < MaxNews
  /\ news' = news + 1
  /\ IF status \in Terminal
       THEN /\ pc' = [pc EXCEPT ![Consumer] = "ended"]
            /\ UNCHANGED <<log, save, status>>
       ELSE /\ log' = Append(log, "note")
            /\ UNCHANGED status
            /\ SaveAndWait(Consumer, "polled")
  /\ UNCHANGED <<disk, hermesId, hermes, result, previous, streamVars, drops, crashes>>

Polled ==
  /\ Saved(Consumer, "polled")
  /\ pc'   = [pc EXCEPT ![Consumer] = "wait"]
  /\ save' = [save EXCEPT ![Consumer] = Idle]
  /\ UNCHANGED <<runVars, disk, hermes, result, previous, bounds>>

\* The pause between two polls is over.
Waited ==
  /\ pc[Consumer] = "wait"
  /\ LoopOrEnd
  /\ UNCHANGED <<runVars, disk, hermes, save, result, previous, streamVars, bounds>>

-----------------------------------------------------------------------------
(* applyParsedResult: of a terminal event, or of a status payload *)

\* A failure after text was streamed is a completion (recoveredFromFailure).
ParsedResult == IF hermes = "failed" /\ Has("text") THEN "completed" ELSE hermes

TerminalEvents == IF ParsedResult = "failed" THEN <<"note", "error", "done">> ELSE <<"note", "done">>

\* Mutant: the status is set before the events.
AppendResultLate(a) ==
  /\ hermes \in Results
  /\ result' = [result EXCEPT ![a] = ParsedResult]
  /\ status' = ParsedResult
  /\ log'    = log
  /\ SaveAndWait(a, "events")

\* First the events are appended and saved ...
AppendResult(a) ==
  /\ hermes \in Results
  /\ result' = [result EXCEPT ![a] = ParsedResult]
  /\ log'    = log \o TerminalEvents
  /\ UNCHANGED status
  /\ SaveAndWait(a, "events")

ReadEnd ==
  /\ pc[Consumer] \in {"read", "poll"}
  /\ AppendResult(Consumer)
  /\ UNCHANGED <<disk, hermesId, hermes, previous, streamVars, bounds>>

\* ... then the status is set and saved.
SetResult(a) ==
  /\ Saved(a, "events")
  /\ status' = result[a]
  /\ UNCHANGED log
  /\ SaveAndWait(a, "status")
  /\ UNCHANGED <<disk, hermesId, hermes, result, previous, bounds>>

Finish(a) ==
  /\ Saved(a, "status") \/ Saved(a, "failed")
  /\ pc'   = [pc EXCEPT ![a] = "ended"]
  /\ save' = [save EXCEPT ![a] = Idle]
  /\ UNCHANGED <<runVars, disk, hermes, result, previous, bounds>>

\* Mutant: failures of the consumer are only logged.
ConsumerLogs ==
  /\ \/ UpstreamFails /\ pc[Consumer] \in {"bind", "submit", "open", "read", "poll"}
     \/ save[Consumer].is = "failed" /\ pc[Consumer] \notin {"accept", "failed"}
  /\ pc'   = [pc EXCEPT ![Consumer] = "ended"]
  /\ save' = [save EXCEPT ![Consumer] = Idle]
  /\ UNCHANGED <<runVars, disk, hermes, result, previous, streamVars, bounds>>

\* An await of the consumer threw: failRun, unless the run has ended.
ConsumerThrows ==
  /\ \/ UpstreamFails /\ pc[Consumer] \in {"bind", "submit", "open", "read", "poll"}
     \/ save[Consumer].is = "failed" /\ pc[Consumer] \notin {"accept", "failed"}
  /\ IF status \in Terminal
       THEN /\ pc'   = [pc EXCEPT ![Consumer] = "ended"]
            /\ save' = [save EXCEPT ![Consumer] = Idle]
            /\ UNCHANGED <<status, log>>
       ELSE /\ status' = "failed"
            /\ log'    = log \o <<"error", "done">>
            /\ SaveAndWait(Consumer, "failed")
  /\ UNCHANGED <<disk, hermesId, hermes, result, previous, streamVars, bounds>>

-----------------------------------------------------------------------------
(* POST /api/chat/runs/:id/stop *)

\* Mutant: a run that has ended can be stopped.
StoppableEnded == status \notin {"stopping", "none"} /\ hermesId

\* assertStoppableHermesRun
Stoppable == status \notin Terminal \cup {"stopping", "none"} /\ hermesId

Claim(s) ==
  /\ pc[s] = "idle"
  /\ Stoppable
  /\ previous' = [previous EXCEPT ![s] = status]
  /\ status'   = "stopping"
  /\ log'      = Append(log, "note")
  /\ SaveAndWait(s, "claimed")
  /\ UNCHANGED <<disk, hermesId, hermes, result, streamVars, bounds>>

CallStop(s) ==
  /\ Saved(s, "claimed")
  /\ pc'   = [pc EXCEPT ![s] = "call"]
  /\ save' = [save EXCEPT ![s] = Idle]
  /\ UNCHANGED <<runVars, disk, hermes, result, previous, bounds>>

\* Hermes answers that it is stopping the run: not an end.
StopAccepted(s) ==
  /\ pc[s] = "call"
  /\ hermes \in {"active", "stopping"}
  /\ hermes' = "stopping"
  /\ pc' = [pc EXCEPT ![s] = "ended"]
  /\ UNCHANGED <<runVars, disk, save, result, previous, streamVars, bounds>>

\* Hermes answers that the run has ended.
StopEnded(s) ==
  /\ pc[s] = "call"
  /\ AppendResult(s)
  /\ UNCHANGED <<disk, hermesId, hermes, previous, streamVars, bounds>>

\* The call fails, with or without effect: the status the request found is restored.
StopRejected(s) ==
  /\ StopFails
  /\ pc[s] = "call"
  /\ status' = previous[s]
  /\ log'    = Append(log, "note")
  /\ hermes' \in {hermes} \cup {"stopping" : x \in {hermes} \cap {"active"}}
  /\ SaveAndWait(s, "restored")
  /\ UNCHANGED <<disk, hermesId, result, previous, streamVars, bounds>>

StopReturns(s) ==
  /\ Saved(s, "restored")
  /\ pc'   = [pc EXCEPT ![s] = "ended"]
  /\ save' = [save EXCEPT ![s] = Idle]
  /\ UNCHANGED <<runVars, disk, hermes, result, previous, bounds>>

\* A save of the request failed: it is answered with an error.
StopThrows(s) ==
  /\ save[s].is = "failed"
  /\ pc'   = [pc EXCEPT ![s] = "ended"]
  /\ save' = [save EXCEPT ![s] = Idle]
  /\ UNCHANGED <<runVars, disk, hermes, result, previous, streamVars, bounds>>

-----------------------------------------------------------------------------
(* GET .../events?cursor= and POST /api/chat/stream *)

\* subscribe serves what is there, and ends the stream of a run that has ended.
Connect(c) ==
  /\ stream[c] = "off"
  /\ pc[Consumer] \notin {"accept", "refused"} /\ status # "none"
  /\ index'  = [index EXCEPT ![c] = Furthest(@)]
  /\ stream' = [stream EXCEPT ![c] = IF status \in Terminal THEN "closed" ELSE "open"]
  /\ UNCHANGED <<runVars, disk, hermes, actorVars, bounds>>

\* The connection breaks; the browser keeps its cursor and may come back.
Drop(c) ==
  /\ stream[c] = "open"
  /\ drops < MaxDrops
  /\ drops'  = drops + 1
  /\ stream' = [stream EXCEPT ![c] = "off"]
  /\ UNCHANGED <<runVars, disk, hermes, actorVars, index, news, crashes>>

-----------------------------------------------------------------------------
(* Hermes, and restarts *)

HermesEnds ==
  /\ \/ hermes \in {"active", "stopping"} /\ hermes' \in {"completed", "failed"}
     \/ hermes = "stopping" /\ hermes' = "cancelled"
  /\ UNCHANGED <<runVars, disk, actorVars, streamVars, bounds>>

\* RunStore.init loads the rows whose status is not terminal.
Interrupted(row) == row.status \notin Terminal

\* Saves that were in flight landed or did not. The bridge starts again, and
\* what it loads it marks as interrupted and saves.
Restart(row) ==
  LET now == IF row = None THEN "none"
             ELSE IF Interrupted(row) THEN "interrupted" ELSE row.status
      kept == IF row = None THEN 0 ELSE row.count
  IN /\ status' = now
     /\ log'    = SubSeq(log, 1, kept)
     /\ disk'   = IF row = None THEN None ELSE [status |-> now, count |-> kept]
     /\ pc'     = [a \in Actors |-> IF pc[a] = "idle" THEN "idle" ELSE "ended"]
     /\ save'   = [a \in Actors |-> Idle]
     /\ result' = [a \in Actors |-> None]
     /\ stream' = [c \in Streams |-> IF stream[c] = "open" THEN "off" ELSE stream[c]]
     /\ UNCHANGED <<hermesId, hermes, previous, index>>

Rows == {disk} \cup {save[a].row : a \in {b \in Actors : InFlight(b)}}

Crash ==
  /\ crashes < MaxCrashes
  /\ crashes' = crashes + 1
  /\ \E row \in Rows : Restart(row)
  /\ UNCHANGED <<news, drops>>

\* The save of failRun fails: nobody catches it, and the process exits.
Unhandled ==
  /\ pc[Consumer] = "failed" /\ save[Consumer].is = "failed"
  /\ \E row \in Rows : Restart(row)
  /\ UNCHANGED bounds

ConsumerStep ==
  \/ Accept \/ AcceptFails \/ Run \/ Submit \/ Submitted \/ Loop \/ Open
  \/ ReadNews \/ NextBlock \/ StreamEnds \/ PollPending \/ Polled \/ Waited
  \/ ReadEnd \/ SetResult(Consumer) \/ Finish(Consumer) \/ ConsumerThrows \/ Unhandled

StopStep(s) ==
  \/ CallStop(s) \/ StopAccepted(s) \/ StopEnded(s) \/ SetResult(s) \/ Finish(s)
  \/ StopRejected(s) \/ StopReturns(s) \/ StopThrows(s)

Next ==
  \/ ConsumerStep
  \/ \E s \in Stops : Claim(s) \/ StopStep(s)
  \/ \E a \in Actors : Land(a) \/ LoseSave(a)
  \/ \E c \in Streams : Connect(c) \/ Drop(c)
  \/ HermesEnds
  \/ Crash

Spec == Init /\ [][Next]_vars

\* The event loop runs what was answered, the database and Hermes answer, and
\* Hermes ends what it was given.
Fairness ==
  /\ WF_vars(ConsumerStep)
  /\ \A s \in Stops : WF_vars(StopStep(s))
  /\ \A a \in Actors : WF_vars(Land(a))
  /\ WF_vars(HermesEnds)

FairSpec == Spec /\ Fairness

-----------------------------------------------------------------------------
(* Properties *)

Labels == {"idle", "accept", "refused", "bind", "running", "submit", "created", "open", "read",
           "block", "poll", "polled", "wait", "events", "status", "failed", "claimed", "call",
           "restored", "ended"}

\* Every variable has its type.
TypeOK ==
  /\ status \in Statuses /\ log \in Seq(Kinds) /\ hermesId \in BOOLEAN
  /\ disk \in Snapshots \cup {None}
  /\ hermes \in Results \cup {"none", "active", "stopping"}
  /\ pc \in [Actors -> Labels]
  /\ save \in [Actors -> [is : {"idle", "ok", "failed"}, row : {None}]
                            \cup [is : {"sent"}, row : Snapshots]]
  /\ result \in [Actors -> Results \cup {None}]
  /\ previous \in [Stops -> Statuses \cup {None}]
  /\ stream \in [Streams -> {"off", "open", "closed"}]
  /\ index \in [Streams -> Nat]
  /\ news \in 0..MaxNews /\ drops \in 0..MaxDrops /\ crashes \in 0..MaxCrashes

\* A run that has ended is taken up again by nothing but a stop request whose call
\* of Hermes failed: not by late blocks, polls, claims, failures or restarts.
ReopenedByStopOnly ==
  [][(status \in Terminal /\ status' \notin Terminal) =>
        \E s \in Stops : pc[s] = "call" /\ pc'[s] = "restored"]_vars

\* The bridge ends a stream only when its browser has been sent the done event,
\* unless the run was interrupted (flushSubscriber, applyParsedResult).
DoneBeforeClose ==
  \A c \in Streams : stream[c] = "closed" /\ status # "interrupted" =>
    \E i \in DOMAIN log : i <= index[c] /\ log[i] = "done"

Quiet == \A a \in Actors : pc[a] \in {"idle", "refused", "ended"}

\* An accepted run ends for good, whatever stop requests and restarts do.
RunEnds == pc[Consumer] = "bind" ~> [](status \in Terminal)

\* A browser that is connected when the run ends is not left waiting.
StreamsEnd == \A c \in Streams :
  stream[c] = "open" /\ status \in Terminal ~> stream[c] # "open"

\* The design says that a run ends "somente ao observar estado cancelled, completed
\* ou failed": having observed one, it does not run again.
EndIsEnd ==
  [][(status \in Results) => status' \notin {"queued", "running", "stopping"}]_vars

\* init marks a run with "Bridge reiniciou antes do run terminar": a run that had
\* ended, every save of which had returned, is not marked so by a restart.
InterruptedUnended ==
  [][(Quiet /\ status \in Results) => status' # "interrupted"]_vars
=============================================================================
