------------------------------ MODULE RunStream ------------------------------
(***************************************************************************)
(* A browser follows one run of the chat bridge to its end:                *)
(* sendMessageToChatbotStream of                                           *)
(* apps/chat-web/src/components/chat/chatStreamClient.ts, from the id of   *)
(* the run on, against the event stream and the snapshot that RunStore of  *)
(* services/chat-bridge/src/server.js serves.                              *)
(*                                                                         *)
(* Two counters must agree: the bridge keeps for each connection the index *)
(* of the next event to write, set once from the request, and the browser  *)
(* counts the parts it has processed, whatever they are.  The connection   *)
(* carries the parts that were written and not read yet, and may break,    *)
(* end early, or outlive the bridge.  Who writes the run, and how its      *)
(* saves race, is the subject of ChatRuns: here the run only grows, ends   *)
(* and is saved.                                                           *)
(***************************************************************************)
EXTENDS Naturals, Sequences, FiniteSetsExt

CONSTANTS
  MaxEvents,    \* bound: events of the run
  MaxDrops,     \* bound: requests of the browser that fail, and connections that break
  MaxRestarts   \* bound: restarts of the bridge

ASSUME StreamBounds == MaxEvents \in Nat /\ MaxDrops \in Nat /\ MaxRestarts \in Nat

Kinds    == {"news", "error", "done"}
Terminal == {"completed", "failed", "cancelled", "interrupted"}

VARIABLES
  status,    \* the run in memory
  known,     \* how many events the run in memory has: a prefix of history
  history,   \* every event the run has ever had
  row,       \* the saved run: its status and how many events
  wire,      \* the connection: its state, the index of its subscriber at the
             \* bridge, and the parts not read yet, as the numbers of the events
  at,        \* where the browser is: "connect", "read", "reconcile", "over"
  cursor,    \* how many events the browser has counted
  shown,     \* the numbers of the events it has processed, in its order
  outcome,   \* how sendMessageToChatbotStream ended
  drops, restarts

runVars     == <<status, known, history, row>>
browserVars == <<at, cursor, shown, outcome>>
streamVars  == <<runVars, wire, browserVars, drops, restarts>>

Off == [is |-> "off", index |-> 0, parts |-> <<>>]

StreamInit ==
  /\ status = "running"
  /\ known = 1
  /\ history = <<"news">>
  /\ row = [status |-> "running", count |-> 1]
  /\ wire = Off
  /\ at = "connect" /\ cursor = 0 /\ shown = <<>> /\ outcome = "none"
  /\ drops = 0 /\ restarts = 0

Active == status \notin Terminal

Has(kind) == \E i \in 1..known : history[i] = kind

-----------------------------------------------------------------------------
(* The bridge                                                              *)

\* A bridge that has started again has no consumer for the run.
Consumed == restarts = 0

Add(events) ==
  /\ Len(history) + Len(events) <= MaxEvents
  /\ history' = history \o events
  /\ known' = known + Len(events)

\* appendEvents: events of Hermes, those that tell of its end included.  What
\* follows a done event no browser looks at: it is left out.
Grow(events) ==
  /\ Consumed
  /\ ~Has("done")
  /\ Add(events)
  /\ UNCHANGED <<status, row, wire, browserVars, drops, restarts>>

\* The end: its status is set after its events.
End(end) ==
  /\ Consumed
  /\ Active
  /\ Has("done")
  /\ end = "failed" => Has("error")
  /\ status' = end
  /\ UNCHANGED <<known, history, row, wire, browserVars, drops, restarts>>

\* failRun sets both at once.
Fail ==
  /\ Consumed
  /\ Active
  /\ IF Has("done") THEN UNCHANGED <<history, known>> ELSE Add(<<"error", "done">>)
  /\ status' = "failed"
  /\ UNCHANGED <<row, wire, browserVars, drops, restarts>>

\* The numbers of the n events after the ith.
After(i, n) == [k \in 1..n |-> i + k]

Furthest(i) == IF i < known THEN known ELSE i

\* The events of the run in memory from an index on.
From(i) == After(i, Furthest(i) - i)

\* flushSubscriber: the events from the index of the subscriber on are written,
\* and the stream ends when the run has ended.
Flushed(index, parts) ==
  [is    |-> IF Active THEN "open" ELSE "closed",
   index |-> Furthest(index),
   parts |-> parts \o From(index)]

\* Mutant: the subscribers are not served.
SaveSilent ==
  /\ row' = [status |-> status, count |-> known]
  /\ row' # row
  /\ UNCHANGED <<wire, status, known, history, browserVars, drops, restarts>>

\* A save lands, and the subscribers are served.
Save ==
  /\ row' = [status |-> status, count |-> known]
  /\ wire' = IF wire.is = "open" THEN Flushed(wire.index, wire.parts) ELSE wire
  /\ <<row', wire'>> # <<row, wire>>
  /\ UNCHANGED <<status, known, history, browserVars, drops, restarts>>

\* The bridge starts again: init interrupts the run unless its row says that it
\* has ended, and saves it.  What was not saved is gone.
Restart ==
  /\ restarts < MaxRestarts
  /\ restarts' = restarts + 1
  /\ status' = IF row.status \in Terminal THEN row.status ELSE "interrupted"
  /\ known' = row.count
  /\ row' = [row EXCEPT !.status = status']
  /\ wire' = IF wire.is = "open" THEN [wire EXCEPT !.is = "broken"] ELSE wire
  /\ UNCHANGED <<history, browserVars, drops>>

-----------------------------------------------------------------------------
(* The network                                                             *)

\* The connection breaks, or a proxy ends it before its time.
Cut(is) ==
  /\ wire.is = "open"
  /\ drops < MaxDrops
  /\ drops' = drops + 1
  /\ wire' = [wire EXCEPT !.is = is]
  /\ UNCHANGED <<runVars, browserVars, restarts>>

-----------------------------------------------------------------------------
(* The browser                                                             *)

Over(result) == at' = "over" /\ outcome' = result

\* Where the first event is that ends the browser, among those it is given.
Ends(events) == {k \in DOMAIN events : history[events[k]] \in {"done", "error"}}

\* How many of them it processes.
Taken(events) == IF Ends(events) = {} THEN Len(events) ELSE Min(Ends(events))

\* processChunk on the events, one after the other: the first done or error
\* among them ends it.
Process(events, next) ==
  /\ cursor' = cursor + Taken(events)
  /\ shown' = shown \o SubSeq(events, 1, Taken(events))
  /\ IF Ends(events) = {} THEN at' = next /\ UNCHANGED outcome
     ELSE Over(IF history[events[Taken(events)]] = "done" THEN "completed" ELSE "error")

\* Mutant: the route does not read the cursor of the request.
StartIndexZero == 0

\* GET .../events?cursor=: the route reads the number the browser has put there.
StartIndex == cursor

\* subscribe: the index is set once, and the events beyond it are written.
Connect ==
  /\ at = "connect"
  /\ wire' = Flushed(StartIndex, <<>>)
  /\ at' = "read"
  /\ UNCHANGED <<runVars, cursor, shown, outcome, drops, restarts>>

\* It fails: the browser looks at the snapshot.  Answers 408, 429, 502, 503 and
\* 504, and 401 with a session that can be renewed, leave it where it is.
ConnectFails ==
  /\ at = "connect"
  /\ drops < MaxDrops
  /\ drops' = drops + 1
  /\ at' = "reconcile"
  /\ UNCHANGED <<runVars, wire, cursor, shown, outcome, restarts>>

\* The session has ended: the user is signed out.
SignedOut ==
  /\ at \in {"connect", "reconcile"}
  /\ drops < MaxDrops
  /\ drops' = drops + 1
  /\ Over("signed_out")
  /\ UNCHANGED <<runVars, wire, cursor, shown, restarts>>

\* A chunk arrives: one part or several, in the order they were written.  After
\* the end nobody reads on.
Read ==
  /\ at = "read"
  /\ \E n \in 1..Len(wire.parts) :
       /\ Process(SubSeq(wire.parts, 1, n), "read")
       /\ wire' = IF at' = "over" THEN Off
                  ELSE [wire EXCEPT !.parts = SubSeq(@, n + 1, Len(@))]
  /\ UNCHANGED <<runVars, drops, restarts>>

\* The read fails: what has not been parsed is dropped, and the browser
\* connects again from its cursor.
ReadFails ==
  /\ at = "read"
  /\ wire.is = "broken"
  /\ wire' = Off
  /\ at' = "connect"
  /\ UNCHANGED <<runVars, cursor, shown, outcome, drops, restarts>>

\* The stream ends, all of it read or cut short, without done.
ReadEnds ==
  /\ at = "read"
  /\ \/ wire.is = "closed" /\ wire.parts = <<>>
     \/ wire.is = "cut"
  /\ wire' = Off
  /\ at' = "reconcile"
  /\ UNCHANGED <<runVars, cursor, shown, outcome, drops, restarts>>

\* Mutant: the status of the snapshot is looked at before its events.
ReconcileStatusFirst ==
  /\ at = "reconcile"
  /\ IF status = "completed"
     THEN Over("completed") /\ UNCHANGED <<cursor, shown>>
     ELSE Process(From(cursor), "connect")
  /\ UNCHANGED <<runVars, wire, drops, restarts>>

\* reconcileSnapshot: first the events of the snapshot beyond the cursor, then
\* its status.
Reconcile ==
  /\ at = "reconcile"
  /\ IF Ends(From(cursor)) # {} \/ Active
     THEN Process(From(cursor), "connect")
     ELSE /\ cursor' = cursor + Len(From(cursor))
          /\ shown' = shown \o From(cursor)
          /\ Over(IF status = "completed" THEN "completed" ELSE "ended")
  /\ UNCHANGED <<runVars, wire, drops, restarts>>

ReconcileFails ==
  /\ at = "reconcile"
  /\ drops < MaxDrops
  /\ drops' = drops + 1
  /\ at' = "connect"
  /\ UNCHANGED <<runVars, wire, cursor, shown, outcome, restarts>>

Browser ==
  \/ Connect
  \/ ConnectFails
  \/ SignedOut
  \/ Read
  \/ ReadFails
  \/ ReadEnds
  \/ Reconcile
  \/ ReconcileFails

Appended == {<<"news">>, <<"done">>, <<"error", "done">>}

RunGoesOn ==
  \/ \E events \in Appended : Grow(events)
  \/ \E end \in Terminal \ {"interrupted"} : End(end)
  \/ Fail
  \/ Save

Network == \E is \in {"broken", "cut"} : Cut(is)

StreamNext == RunGoesOn \/ Restart \/ Network \/ Browser

\* The browser goes on, and a run that has changed is saved.
StreamFairness == WF_streamVars(Browser) /\ WF_streamVars(Save)

StreamSpec == StreamInit /\ [][StreamNext]_streamVars /\ StreamFairness

-----------------------------------------------------------------------------
(* Properties                                                              *)

\* What the variables hold; no counter passes the last event.
StreamTypeOK ==
  /\ status \in Terminal \cup {"running"}
  /\ history \in Seq(Kinds) /\ known \in 1..Len(history)
  /\ row.status \in Terminal \cup {"running"} /\ row.count \in 1..known
  /\ wire.is \in {"off", "open", "closed", "broken", "cut"}
  /\ wire.index \in 0..Len(history) /\ wire.parts \in Seq(1..Len(history))
  /\ at \in {"connect", "read", "reconcile", "over"}
  /\ outcome \in {"none", "completed", "error", "ended", "signed_out"}
  /\ (outcome = "none") = (at # "over")
  /\ cursor \in 0..Len(history) /\ shown \in Seq(1..Len(history))

\* Whatever breaks, and wherever the browser takes the events from, it has
\* processed the first events of the run, each once and in order: the index of
\* its subscriber, the parts under way and its own count never disagree
\* (server.js:806-854, chatStreamClient.ts:421-428, 492-494).
ShownInOrder == shown = After(0, cursor)

\* A run is reported as completed only to a browser that has processed
\* everything up to its done event, and as ended without an answer only when the
\* bridge knows neither a done nor an error event (chatStreamClient.ts:421-445).
OutcomeTrue ==
  /\ outcome = "completed" => shown # <<>> /\ history[shown[Len(shown)]] = "done"
  /\ outcome = "ended" => \A i \in 1..known : history[i] \notin {"done", "error"}

\* The browser of a run that has ended is told (chatStreamClient.ts:450-542,
\* server.js:840-854).
EndSeen == ~Active ~> at = "over"
=============================================================================
