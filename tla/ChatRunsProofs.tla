--------------------------- MODULE ChatRunsProofs ---------------------------
(* What is proved of ChatRuns, for every value of its constants.             *)
EXTENDS ChatRuns, SequenceTheorems, TLAPS

-----------------------------------------------------------------------------
(* The log only grows while a process lives.                                 *)

DoneIn(events, n) == \E i \in DOMAIN events : i <= n /\ events[i] = "done"

Grown(old, new) ==
  /\ new \in Seq(Kinds)
  /\ Len(old) <= Len(new)
  /\ \A i \in 1..Len(old) : new[i] = old[i]

\* A done event stays where it is.
LEMMA DoneStays ==
  ASSUME NEW old \in Seq(Kinds), NEW new, Grown(old, new),
         NEW m \in Nat, NEW n \in Nat, m <= n, DoneIn(old, m)
  PROVE  DoneIn(new, n)
<1>1. PICK i \in DOMAIN old : i <= m /\ old[i] = "done"
  BY DEF DoneIn
<1>2. i \in 1..Len(old) /\ i \in DOMAIN new
  BY <1>1 DEF Grown
<1> QED BY <1>1, <1>2 DEF Grown, DoneIn

\* What is in a log is within its length.
LEMMA DoneWithin ==
  ASSUME NEW events \in Seq(Kinds), NEW n \in Nat, DoneIn(events, n)
  PROVE  DoneIn(events, Len(events))
BY DEF DoneIn

LEMMA GrownSame == ASSUME NEW old \in Seq(Kinds) PROVE Grown(old, old)
BY DEF Grown

LEMMA GrownByOne ==
  ASSUME NEW old \in Seq(Kinds), NEW kind \in Kinds
  PROVE  Grown(old, Append(old, kind))
BY DEF Grown

LEMMA GrownByMore ==
  ASSUME NEW old \in Seq(Kinds), NEW more \in Seq(Kinds)
  PROVE  Grown(old, old \o more)
BY DEF Grown

\* The events of an end have the done event last.
LEMMA EndGrows ==
  ASSUME NEW old \in Seq(Kinds),
         NEW more \in {<<"note", "done">>, <<"error", "done">>, <<"note", "error", "done">>}
  PROVE  Grown(old, old \o more) /\ DoneIn(old \o more, Len(old \o more))
<1>1. more \in Seq(Kinds) /\ Len(more) > 0 /\ more[Len(more)] = "done"
  <2>1. CASE more = <<"note", "done">>
    BY <2>1 DEF Kinds
  <2>2. CASE more = <<"error", "done">>
    BY <2>2 DEF Kinds
  <2>3. CASE more = <<"note", "error", "done">>
    BY <2>3 DEF Kinds
  <2> QED BY <2>1, <2>2, <2>3
<1>2. Grown(old, old \o more)
  BY <1>1, GrownByMore
<1>3. /\ old \o more \in Seq(Kinds)
      /\ Len(old \o more) = Len(old) + Len(more)
      /\ (old \o more)[Len(old) + Len(more)] = "done"
  BY <1>1
<1> QED BY <1>1, <1>2, <1>3 DEF DoneIn

-----------------------------------------------------------------------------
(* The invariant.  DoneBeforeClose is not inductive: a stream closes by the  *)
(* status of the run, and a restart takes the status from a row and cuts the *)
(* log to it, so that both have to imply a done event that is early enough.  *)

\* A run that ended has its done event, and whoever is about to set its end
\* has appended it.
EndIsTold ==
  /\ status \in Results => DoneIn(log, Len(log))
  /\ \A a \in Actors : pc[a] = "events" => result[a] \in Results /\ DoneIn(log, Len(log))

\* So do the rows that a restart may find, within the events they hold.
RowsToldEnd ==
  \A row \in Rows : row # None =>
    /\ row.count <= Len(log)
    /\ row.status \in Results => DoneIn(log, row.count)

\* Before it is accepted, and before Hermes has it, nobody stops a run.
NotYetStopped ==
  /\ pc[Consumer] \in {"accept", "refused", "bind"} => status = "queued" /\ ~hermesId
  /\ pc[Consumer] = "refused" => save[Consumer].is = "idle"
  /\ ~hermesId => \A s \in Stops : pc[s] \in {"idle", "ended"} /\ save[s].is = "idle"

\* What a stop request restores is the status of a run that goes on.
FoundGoingOn ==
  \A s \in Stops : pc[s] \in {"claimed", "call"} => previous[s] \in {"queued", "running"}

\* Browsers see nothing of a run without a row, and it has none only until
\* it is accepted, or when a restart has forgotten it.
SeenIsStored ==
  disk = None =>
    /\ \A c \in Streams : stream[c] = "off"
    /\ \/ status = "none"
       \/ pc[Consumer] \in {"accept", "refused"} /\ save[Consumer].is # "ok"

\* What a restart interrupted or forgot is at rest, and a further one finds it
\* as it is.
AtRest ==
  status \in {"interrupted", "none"} =>
    /\ \A a \in Actors : pc[a] \in {"idle", "ended"} /\ save[a].is = "idle"
    /\ status = "none" => disk = None
    /\ status = "interrupted" => disk # None /\ disk.status = "interrupted"

RunInv ==
  /\ TypeOK
  /\ EndIsTold /\ RowsToldEnd /\ NotYetStopped /\ FoundGoingOn /\ SeenIsStored /\ AtRest
  /\ DoneBeforeClose

LEMMA RunInit == Init => RunInv
<1> SUFFICES ASSUME Init PROVE RunInv
  OBVIOUS
<1> DEFINE first == [status |-> "queued", count |-> 1]
<1>1. /\ first \in Snapshots
      /\ log = <<"note">> /\ log \in Seq(Kinds) /\ Len(log) = 1
  BY DEF Init, Snapshots, Statuses, Kinds
<1>2. /\ pc \in [Actors -> Labels]
      /\ \A s \in Stops : pc[s] = "idle" /\ save[s] = Idle
      /\ pc[Consumer] = "accept" /\ save[Consumer] = Sent(first)
      /\ save \in [Actors -> [is : {"idle", "ok", "failed"}, row : {None}]
                               \cup [is : {"sent"}, row : Snapshots]]
  BY <1>1, ActorsAssumption DEF Init, Actors, Labels, Idle, Sent
<1>3. TypeOK
  <2>1. /\ result \in [Actors -> Results \cup {None}]
        /\ previous \in [Stops -> Statuses \cup {None}]
        /\ stream \in [Streams -> {"off", "open", "closed"}]
        /\ index \in [Streams -> Nat]
    BY DEF Init
  <2>2. /\ status \in Statuses /\ hermesId \in BOOLEAN /\ disk \in Snapshots \cup {None}
        /\ hermes \in Results \cup {"none", "active", "stopping"}
    BY DEF Init, Statuses
  <2>3. news \in 0..MaxNews /\ drops \in 0..MaxDrops /\ crashes \in 0..MaxCrashes
    BY BoundsAssumption DEF Init
  <2> QED BY <1>1, <1>2, <2>1, <2>2, <2>3 DEF TypeOK
<1>4. \A row \in Rows : row = None \/ row = first
  <2>1. \A a \in Actors : InFlight(a) => save[a].row = first
    BY <1>2 DEF Actors, InFlight, Idle, Sent
  <2> QED BY <2>1 DEF Rows, Init
<1>5. RowsToldEnd
  BY <1>1, <1>4 DEF RowsToldEnd, Results
<1>6. EndIsTold /\ NotYetStopped /\ FoundGoingOn /\ SeenIsStored /\ AtRest /\ DoneBeforeClose
  BY <1>2 DEF Init, EndIsTold, NotYetStopped, Idle, FoundGoingOn, SeenIsStored, AtRest,
              DoneBeforeClose,
              Results, Actors, Sent
<1> QED BY <1>3, <1>5, <1>6 DEF RunInv

-----------------------------------------------------------------------------
(* What all steps of the actors have in common.                              *)

Going        == Results \cup {"queued", "running", "stopping"}
HermesStates == Results \cup {"none", "active", "stopping"}

\* Actor a goes on to label l: the log grows, with a done event if the run ends,
\* and the actor has nothing in flight, what it had, or the run as it is now.
Work(a, l) ==
  /\ status \in Going /\ status' \in Going
  /\ Grown(log, log')
  /\ status' \in Results => DoneIn(log', Len(log'))
  /\ pc' = [pc EXCEPT ![a] = l]
  /\ \/ save' = save
     \/ save' = [save EXCEPT ![a] = Idle]
     \/ save' = [save EXCEPT ![a] = Sent([status |-> status', count |-> Len(log')])]
  /\ \E r \in Results \cup {None} : result' = [result EXCEPT ![a] = r]
  /\ l = "events" => result'[a] \in Results /\ DoneIn(log', Len(log'))
  /\ UNCHANGED streamVars \/ Notify
  /\ hermes' \in HermesStates /\ news' \in 0..MaxNews
  /\ UNCHANGED <<disk, drops, crashes>>

\* A stream that is served of a run that has ended gets its done event.
LEMMA NotifyTells ==
  ASSUME RunInv, status \in Going, UNCHANGED streamVars \/ Notify, Grown(log, log')
  PROVE  /\ stream' \in [Streams -> {"off", "open", "closed"}]
         /\ index' \in [Streams -> Nat]
         /\ \A c \in Streams : stream[c] = "off" => stream'[c] = "off"
         /\ \A c \in Streams : stream'[c] = "closed" => DoneIn(log', index'[c])
<1>1. /\ log \in Seq(Kinds) /\ log' \in Seq(Kinds) /\ Len(log) \in Nat
      /\ stream \in [Streams -> {"off", "open", "closed"}] /\ index \in [Streams -> Nat]
  BY DEF RunInv, TypeOK, Grown
<1>2. \A c \in Streams : stream[c] = "closed" => DoneIn(log, index[c])
  BY DEF RunInv, DoneBeforeClose, Going, Results, DoneIn
<1>3. /\ stream' \in [Streams -> {"off", "open", "closed"}]
      /\ index' \in [Streams -> Nat]
      /\ \A c \in Streams : index'[c] >= index[c]
      /\ \A c \in Streams : stream[c] = "off" => stream'[c] = "off"
  BY <1>1 DEF Notify, Furthest, streamVars
<1>4. ASSUME NEW c \in Streams, stream'[c] = "closed"
      PROVE  DoneIn(log', index'[c])
  <2>1. PICK n \in Nat : n = index'[c]
    BY <1>3
  <2>2. CASE stream[c] = "closed"
    <3>1. PICK m \in Nat : m = index[c]
      BY <1>1
    <3>2. m <= n /\ DoneIn(log, m)
      BY <1>2, <1>3, <2>1, <2>2, <3>1
    <3> QED BY <1>1, <2>1, <3>2, DoneStays
  <2>3. CASE stream[c] # "closed"
    <3>1. /\ status \in Results
          /\ n >= Len(log)
      BY <1>1, <1>4, <2>1, <2>3 DEF Notify, Furthest, streamVars, Going, Terminal, Results
    <3>2. DoneIn(log, Len(log))
      BY <3>1 DEF RunInv, EndIsTold
    <3> QED BY <1>1, <2>1, <3>1, <3>2, DoneStays
  <2> QED BY <2>2, <2>3
<1> QED BY <1>3, <1>4

LEMMA WorkTyped ==
  ASSUME RunInv, NEW a \in Actors, NEW l \in Labels, Work(a, l)
  PROVE  /\ status' \in Statuses /\ log' \in Seq(Kinds)
         /\ disk' \in Snapshots \cup {None}
         /\ hermes' \in Results \cup {"none", "active", "stopping"}
         /\ pc' \in [Actors -> Labels]
         /\ save' \in [Actors -> [is : {"idle", "ok", "failed"}, row : {None}]
                                   \cup [is : {"sent"}, row : Snapshots]]
         /\ result' \in [Actors -> Results \cup {None}]
         /\ stream' \in [Streams -> {"off", "open", "closed"}]
         /\ index' \in [Streams -> Nat]
         /\ news' \in 0..MaxNews /\ drops' \in 0..MaxDrops /\ crashes' \in 0..MaxCrashes
<1> DEFINE Saves == [is : {"idle", "ok", "failed"}, row : {None}]
                       \cup [is : {"sent"}, row : Snapshots]
           now   == Sent([status |-> status', count |-> Len(log')])
<1>1. status' \in Statuses /\ log' \in Seq(Kinds) /\ Len(log') \in Nat
  BY DEF Work, Going, Statuses, Terminal, Grown
<1>2. save \in [Actors -> Saves] /\ pc \in [Actors -> Labels]
      /\ result \in [Actors -> Results \cup {None}]
  BY DEF RunInv, TypeOK
<1>3. now \in Saves /\ Idle \in Saves
  BY <1>1 DEF Sent, Idle, Snapshots
<1>4. save' \in [Actors -> Saves]
  <2> HIDE DEF Saves, now
  <2>1. save' = save \/ save' = [save EXCEPT ![a] = Idle] \/ save' = [save EXCEPT ![a] = now]
    BY DEF Work, now
  <2> QED BY <1>2, <1>3, <2>1
<1>5. pc' \in [Actors -> Labels] /\ result' \in [Actors -> Results \cup {None}]
  BY <1>2 DEF Work
<1>6. /\ stream' \in [Streams -> {"off", "open", "closed"}]
      /\ index' \in [Streams -> Nat]
  BY NotifyTells DEF Work
<1>7. /\ disk' \in Snapshots \cup {None}
      /\ hermes' \in Results \cup {"none", "active", "stopping"}
      /\ news' \in 0..MaxNews /\ drops' \in 0..MaxDrops /\ crashes' \in 0..MaxCrashes
  BY DEF Work, RunInv, TypeOK, HermesStates
<1> QED BY <1>1, <1>4, <1>5, <1>6, <1>7

\* The rows a restart may find are those of before and the run as it is now.
LEMMA WorkRows ==
  ASSUME RunInv, NEW a \in Actors, NEW l \in Labels, Work(a, l)
  PROVE  RowsToldEnd'
<1> DEFINE now == [status |-> status', count |-> Len(log')]
<1>1. /\ log \in Seq(Kinds) /\ log' \in Seq(Kinds) /\ Len(log') \in Nat
      /\ Len(log) \in Nat /\ Len(log) <= Len(log')
  BY DEF RunInv, TypeOK, Work, Grown
<1>2. ASSUME NEW row \in Rows' PROVE row \in Rows \/ row = now
  <2>1. CASE row = disk'
    BY <2>1 DEF Work, Rows
  <2>2. ASSUME NEW b \in Actors, InFlight(b)', row = save'[b].row
        PROVE  row \in Rows \/ row = now
    <3>1. \/ save'[b] = save[b]
          \/ save'[b] = Idle
          \/ save'[b] = Sent(now)
      BY DEF Work, RunInv, TypeOK
    <3> QED BY <2>2, <3>1 DEF Rows, InFlight, Idle, Sent
  <2> QED BY <2>1, <2>2 DEF Rows
<1>3. ASSUME NEW row \in Rows, row # None
      PROVE  row.count <= Len(log') /\ (row.status \in Results => DoneIn(log', row.count))
  <2>1. row \in Snapshots
    BY <1>3 DEF RunInv, TypeOK, Rows, InFlight
  <2>2. PICK n \in Nat : n = row.count
    BY <2>1 DEF Snapshots
  <2>3. n <= Len(log) /\ (row.status \in Results => DoneIn(log, n))
    BY <1>3, <2>2 DEF RunInv, RowsToldEnd
  <2> QED BY <1>1, <2>2, <2>3, DoneStays DEF Work
<1>4. now.count <= Len(log') /\ (now.status \in Results => DoneIn(log', now.count))
  BY <1>1 DEF Work
<1> QED BY <1>2, <1>3, <1>4 DEF RowsToldEnd

LEMMA WorkTold ==
  ASSUME RunInv, NEW a \in Actors, NEW l \in Labels, Work(a, l)
  PROVE  EndIsTold' /\ DoneBeforeClose' /\ AtRest'
<1>1. log \in Seq(Kinds) /\ Len(log) \in Nat /\ Len(log') \in Nat /\ Len(log) <= Len(log')
  BY DEF RunInv, TypeOK, Work, Grown
<1>2. ASSUME NEW b \in Actors, pc'[b] = "events"
      PROVE  result'[b] \in Results /\ DoneIn(log', Len(log'))
  <2>1. CASE b = a
    BY <1>2, <2>1 DEF Work, RunInv, TypeOK
  <2>2. CASE b # a
    <3>1. pc[b] = "events" /\ result'[b] = result[b]
      BY <1>2, <2>2 DEF Work, RunInv, TypeOK
    <3>2. result[b] \in Results /\ DoneIn(log, Len(log))
      BY <3>1 DEF RunInv, EndIsTold
    <3> QED BY <1>1, <3>1, <3>2, DoneStays DEF Work
  <2> QED BY <2>1, <2>2
<1>3. EndIsTold'
  BY <1>2 DEF EndIsTold, Work
<1>4. DoneBeforeClose'
  BY NotifyTells DEF DoneBeforeClose, Work, DoneIn
<1>5. AtRest'
  BY DEF Work, AtRest, Going, Results
<1> QED BY <1>3, <1>4, <1>5

-----------------------------------------------------------------------------
(* The consumer.                                                             *)

\* What the consumer does: until it is accepted the run stays as it was put
\* into memory, and it stays without a row only if it is refused.
ConsumerWork(l) ==
  /\ Work(Consumer, l)
  /\ hermesId' \in {hermesId, TRUE}
  /\ l \in {"accept", "refused", "bind"} => status' = "queued" /\ ~hermesId'
  /\ l = "refused" => save'[Consumer].is = "idle"
  /\ disk = None => l = "refused"
  /\ UNCHANGED previous

LEMMA ConsumerKeeps ==
  ASSUME RunInv, NEW l \in Labels, ConsumerWork(l)
  PROVE  RunInv'
<1>1. Consumer \in Actors /\ Work(Consumer, l)
  BY DEF Actors, ConsumerWork
<1>2. /\ pc'[Consumer] = l
      /\ \A s \in Stops : pc'[s] = pc[s] /\ save'[s] = save[s]
  BY <1>1, ActorsAssumption DEF Work, Actors, RunInv, TypeOK
<1>3. TypeOK'
  BY <1>1, WorkTyped DEF TypeOK, RunInv, ConsumerWork
<1>4. NotYetStopped'
  <2>1. ASSUME ~hermesId', NEW s \in Stops
        PROVE  pc'[s] \in {"idle", "ended"} /\ save'[s].is = "idle"
    <3>1. ~hermesId
      BY <2>1 DEF ConsumerWork
    <3> QED BY <1>2, <3>1 DEF RunInv, NotYetStopped
  <2> QED BY <1>2, <2>1 DEF NotYetStopped, ConsumerWork
<1>5. FoundGoingOn'
  BY <1>2 DEF FoundGoingOn, RunInv, ConsumerWork
<1>6. SeenIsStored'
  <2>1. SUFFICES ASSUME disk = None
                 PROVE  /\ \A c \in Streams : stream'[c] = "off"
                        /\ pc'[Consumer] = "refused" /\ save'[Consumer].is = "idle"
    BY <1>1 DEF SeenIsStored, Work
  <2>2. \A c \in Streams : stream[c] = "off"
    BY <2>1 DEF RunInv, SeenIsStored
  <2> QED BY <1>1, <1>2, <2>1, <2>2, NotifyTells DEF Work, ConsumerWork
<1> QED BY <1>1, <1>3, <1>4, <1>5, <1>6, WorkRows, WorkTold DEF RunInv

\* The consumer is at work on a run that has neither been interrupted nor lost.
LEMMA AtWork ==
  ASSUME RunInv, NEW a \in Actors, pc[a] \notin {"idle", "ended"} \/ save[a].is # "idle"
  PROVE  status \in Going
BY DEF RunInv, TypeOK, AtRest, Going, Statuses, Terminal

\* Once it is accepted, the run has a row.
LEMMA AcceptedHasRow ==
  ASSUME RunInv, status \in Going,
         pc[Consumer] \notin {"accept", "refused"} \/ save[Consumer].is = "ok"
  PROVE  disk # None
BY DEF RunInv, SeenIsStored, Going, Results

\* Nothing changes but the place of the consumer, after a save or another await.
ConsumerGoesOn(l) ==
  /\ pc' = [pc EXCEPT ![Consumer] = l]
  /\ save' = save \/ save' = [save EXCEPT ![Consumer] = Idle]
  /\ UNCHANGED streamVars \/ Notify
  /\ UNCHANGED <<runVars, disk, hermes, result, previous, drops, crashes>>
  /\ news' \in 0..MaxNews

LEMMA GoesOnKeeps ==
  ASSUME RunInv, NEW l \in Labels, ConsumerGoesOn(l), status \in Going,
         l \notin {"accept", "refused", "events"}, disk # None,
         l = "bind" => status = "queued" /\ ~hermesId
  PROVE  RunInv'
<1>1. result' = [result EXCEPT ![Consumer] = result[Consumer]]
      /\ result[Consumer] \in Results \cup {None}
  BY DEF ConsumerGoesOn, RunInv, TypeOK, Actors
<1>2. log' = log /\ log \in Seq(Kinds) /\ Grown(log, log')
  BY GrownSame DEF ConsumerGoesOn, RunInv, TypeOK, runVars
<1>3. status' = status /\ hermesId' = hermesId /\ hermes' \in HermesStates /\ hermesId \in BOOLEAN
  BY DEF ConsumerGoesOn, RunInv, TypeOK, runVars, HermesStates
<1>4. status \in Results => DoneIn(log, Len(log))
  BY DEF RunInv, EndIsTold
<1>5. Work(Consumer, l)
  BY <1>1, <1>2, <1>3, <1>4 DEF Work, ConsumerGoesOn
<1> QED BY <1>3, <1>5, ConsumerKeeps DEF ConsumerWork, ConsumerGoesOn

\* The consumer changes the run and sends it as it then is.
ConsumerSends(l) ==
  /\ SaveAndWait(Consumer, l)
  /\ status' \in Going
  /\ Grown(log, log')
  /\ status' \in Results => DoneIn(log', Len(log'))
  /\ UNCHANGED streamVars \/ Notify
  /\ \E r \in Results \cup {None} : result' = [result EXCEPT ![Consumer] = r]
  /\ l = "events" => result'[Consumer] \in Results /\ DoneIn(log', Len(log'))
  /\ hermesId' \in {hermesId, TRUE}
  /\ hermes' \in HermesStates /\ news' \in 0..MaxNews
  /\ UNCHANGED <<disk, previous, drops, crashes>>

LEMMA SendsKeeps ==
  ASSUME RunInv, NEW l \in Labels, ConsumerSends(l), status \in Going,
         l \notin {"accept", "refused", "bind"}, disk # None
  PROVE  RunInv'
<1>1. Work(Consumer, l)
  BY DEF Work, ConsumerSends, SaveAndWait
<1> QED BY <1>1, ConsumerKeeps DEF ConsumerWork, ConsumerSends

LEMMA AcceptKeeps == ASSUME RunInv, Accept PROVE RunInv'
<1>1. pc[Consumer] = "accept" /\ save[Consumer].is = "ok" /\ Consumer \in Actors
  BY DEF Accept, Saved, Actors
<1>2. status = "queued" /\ ~hermesId
  BY <1>1 DEF RunInv, NotYetStopped
<1>3. status \in Going /\ disk # None
  BY <1>1, AtWork, AcceptedHasRow
<1>4. ConsumerGoesOn("bind")
  BY DEF Accept, Saved, ConsumerGoesOn, bounds, RunInv, TypeOK
<1>5. "bind" \in Labels
  BY DEF Labels
<1> QED BY <1>2, <1>3, <1>4, <1>5, GoesOnKeeps

LEMMA AcceptFailsKeeps == ASSUME RunInv, AcceptFails PROVE RunInv'
<1>1. pc[Consumer] = "accept" /\ Consumer \in Actors
  BY DEF AcceptFails, Actors
<1>2. status = "queued" /\ ~hermesId
  BY <1>1 DEF RunInv, NotYetStopped
<1>3. /\ result' = [result EXCEPT ![Consumer] = result[Consumer]]
      /\ result[Consumer] \in Results \cup {None}
      /\ log' = log /\ log \in Seq(Kinds) /\ Grown(log, log')
      /\ UNCHANGED <<status, hermesId, streamVars, disk, hermes, news, drops, crashes, previous>>
      /\ save'[Consumer] = Idle
  BY <1>1, GrownSame DEF AcceptFails, RunInv, TypeOK, runVars, bounds, streamVars
<1>4. ConsumerWork("refused")
  BY <1>2, <1>3 DEF AcceptFails, ConsumerWork, Work, Going, Results, HermesStates, RunInv, TypeOK,
                    Idle
<1>5. "refused" \in Labels
  BY DEF Labels
<1> QED BY <1>4, <1>5, ConsumerKeeps

\* The steps of an accepted run that change only where its consumer is.
LEMMA ConsumerWaits ==
  ASSUME RunInv,
         \/ Submit \/ Loop \/ Open \/ NextBlock \/ StreamEnds \/ Polled \/ Waited \/ Finish(Consumer)
         \/ PollPending /\ status \in Terminal
         \/ ConsumerThrows /\ status \in Terminal
  PROVE  RunInv'
<1> DEFINE Places == {"submit", "open", "read", "ended", "poll", "wait"}
<1>1. \/ pc[Consumer] \notin {"accept", "refused", "idle", "ended"}
      \/ save[Consumer].is = "failed" /\ pc[Consumer] # "accept"
  BY DEF Submit, Loop, Open, NextBlock, StreamEnds, Polled, Waited, Finish, PollPending,
         ConsumerThrows, Saved
<1>2. pc[Consumer] \notin {"accept", "refused"} /\ Consumer \in Actors
  BY <1>1 DEF RunInv, NotYetStopped, Actors
<1>3. status \in Going /\ disk # None
  BY <1>1, <1>2, AtWork, AcceptedHasRow
<1>4. \E l \in Places : ConsumerGoesOn(l)
  <2>1. news \in 0..MaxNews
    BY DEF RunInv, TypeOK
  <2>2. news' \in 0..MaxNews
    BY <2>1, BoundsAssumption DEF Submit, Loop, Open, NextBlock, StreamEnds, Polled, Waited, Finish,
         PollPending, ConsumerThrows, bounds
  <2>3. CASE Submit \/ Open \/ NextBlock \/ Polled \/ Finish(Consumer)
    BY <2>2, <2>3 DEF Submit, Open, NextBlock, Polled, Finish, Saved, ConsumerGoesOn, bounds
  <2>4. CASE Loop \/ StreamEnds \/ Waited
    BY <2>2, <2>4 DEF Loop, StreamEnds, Waited, LoopOrEnd, Saved, ConsumerGoesOn, bounds
  <2>5. CASE PollPending /\ status \in Terminal
    BY <2>2, <2>5 DEF PollPending, ConsumerGoesOn, runVars
  <2>6. CASE ConsumerThrows /\ status \in Terminal
    BY <2>2, <2>6 DEF ConsumerThrows, ConsumerGoesOn, runVars, bounds
  <2> QED BY <2>3, <2>4, <2>5, <2>6
<1>5. PICK l \in Places : ConsumerGoesOn(l)
  BY <1>4
<1>6. l \in Labels
  BY DEF Labels
<1> QED BY <1>3, <1>5, <1>6, GoesOnKeeps

\* The steps of an accepted run that append an event of no end.
LEMMA ConsumerAppends ==
  ASSUME RunInv,
         Run \/ Submitted \/ ReadNews \/ (PollPending /\ status \notin Terminal)
  PROVE  RunInv'
<1> DEFINE Places == {"running", "created", "block", "polled"}
<1>1. /\ pc[Consumer] \in {"bind", "submit", "read", "poll"} /\ Consumer \in Actors
      /\ log \in Seq(Kinds) /\ Consumer \notin Stops
      /\ result' = [result EXCEPT ![Consumer] = result[Consumer]]
      /\ result[Consumer] \in Results \cup {None}
  BY ActorsAssumption DEF Run, Submitted, ReadNews, PollPending, Actors, RunInv, TypeOK
<1>2. status \in Going /\ disk # None
  BY <1>1, AtWork, AcceptedHasRow
<1>3. \E kind \in {"note", "text"} : log' = Append(log, kind)
  BY DEF Run, Submitted, ReadNews, PollPending
<1>4. Grown(log, log')
  BY <1>1, <1>3, GrownByOne DEF Kinds
<1>5. status' \in Results => DoneIn(log', Len(log'))
  <2>1. SUFFICES ASSUME status' \in Results PROVE DoneIn(log', Len(log'))
    OBVIOUS
  <2>2. status \in Results
    BY <2>1 DEF Run, Submitted, ReadNews, PollPending, Results
  <2>3. DoneIn(log, Len(log)) /\ Len(log) \in Nat /\ Len(log') \in Nat /\ Len(log) <= Len(log')
    BY <1>1, <1>4, <2>2 DEF RunInv, EndIsTold, Grown
  <2> QED BY <1>1, <1>4, <2>3, DoneStays
<1>6. /\ status' \in Going /\ hermesId' \in {hermesId, TRUE}
      /\ hermes' \in HermesStates /\ news' \in 0..MaxNews
      /\ UNCHANGED <<disk, previous, drops, crashes, streamVars>>
  <2>1. news' \in 0..MaxNews
    BY BoundsAssumption DEF Run, Submitted, ReadNews, PollPending, bounds, RunInv, TypeOK
  <2>2. UNCHANGED <<disk, previous, drops, crashes, streamVars>>
    BY DEF Run, Submitted, ReadNews, PollPending, bounds
  <2>3. status' \in Going
    BY <1>2 DEF Run, Submitted, ReadNews, PollPending, Going
  <2>4. hermesId' \in {hermesId, TRUE} /\ hermes' \in HermesStates
    BY DEF Run, Submitted, ReadNews, PollPending, RunInv, TypeOK, HermesStates
  <2> QED BY <2>1, <2>2, <2>3, <2>4
<1>7. \E l \in Places : SaveAndWait(Consumer, l)
  BY DEF Run, Submitted, ReadNews, PollPending
<1>8. PICK l \in Places : SaveAndWait(Consumer, l)
  BY <1>7
<1>9. l \in Labels
  BY DEF Labels
<1>10. ConsumerSends(l)
  BY <1>1, <1>4, <1>5, <1>6, <1>8 DEF ConsumerSends
<1> QED BY <1>2, <1>9, <1>10, SendsKeeps

\* The steps that append the events of an end, or set the status of one whose
\* events are there, by whomever.
LEMMA EndAppended ==
  ASSUME RunInv, NEW a \in Actors, AppendResult(a)
  PROVE  /\ Grown(log, log') /\ DoneIn(log', Len(log'))
         /\ status' = status
         /\ \E r \in Results : result' = [result EXCEPT ![a] = r]
         /\ result'[a] \in Results
<1>1. ParsedResult \in Results
  BY DEF AppendResult, ParsedResult, Results
<1>2. /\ log' = log \o TerminalEvents /\ log \in Seq(Kinds)
      /\ TerminalEvents \in {<<"note", "done">>, <<"error", "done">>, <<"note", "error", "done">>}
  BY DEF AppendResult, TerminalEvents, RunInv, TypeOK
<1>3. Grown(log, log') /\ DoneIn(log', Len(log'))
  BY <1>2, EndGrows
<1> QED BY <1>1, <1>3 DEF AppendResult, RunInv, TypeOK

LEMMA EndSet ==
  ASSUME RunInv, NEW a \in Actors, SetResult(a)
  PROVE  /\ log' = log /\ Grown(log, log') /\ DoneIn(log', Len(log'))
         /\ status' \in Results
         /\ result' = [result EXCEPT ![a] = result[a]]
         /\ result[a] \in Results
<1>1. pc[a] = "events" /\ log' = log /\ log \in Seq(Kinds) /\ result' = result
  BY DEF SetResult, Saved, RunInv, TypeOK
<1>2. result[a] \in Results /\ DoneIn(log, Len(log))
  BY <1>1 DEF RunInv, EndIsTold
<1>3. result' = [result EXCEPT ![a] = result[a]]
  BY <1>1 DEF RunInv, TypeOK
<1> QED BY <1>1, <1>2, <1>3, GrownSame DEF SetResult

\* The consumer applies the end, or fails the run.
LEMMA ConsumerEnds ==
  ASSUME RunInv,
         ReadEnd \/ SetResult(Consumer) \/ (ConsumerThrows /\ status \notin Terminal)
  PROVE  RunInv'
<1> DEFINE Places == {"events", "status", "failed"}
<1>1. /\ \/ pc[Consumer] \notin {"accept", "refused", "idle", "ended"}
         \/ save[Consumer].is = "failed" /\ pc[Consumer] # "accept"
      /\ Consumer \in Actors
  BY DEF ReadEnd, SetResult, ConsumerThrows, Saved, Actors
<1>2. pc[Consumer] \notin {"accept", "refused"}
  BY <1>1 DEF RunInv, NotYetStopped
<1>3. status \in Going /\ disk # None
  BY <1>1, <1>2, AtWork, AcceptedHasRow
<1>4. news' \in 0..MaxNews /\ hermesId' \in {hermesId, TRUE} /\ hermes' \in HermesStates
      /\ UNCHANGED <<disk, previous, drops, crashes>>
  BY DEF ReadEnd, SetResult, ConsumerThrows, bounds, RunInv, TypeOK, HermesStates
<1>5. CASE ReadEnd
  <2>1. ConsumerSends("events")
    BY <1>1, <1>3, <1>4, <1>5, EndAppended DEF ReadEnd, AppendResult, ConsumerSends, SaveAndWait
  <2> QED BY <1>3, <2>1, SendsKeeps DEF Labels
<1>6. CASE SetResult(Consumer)
  <2>1. ConsumerSends("status")
    BY <1>1, <1>4, <1>6, EndSet DEF SetResult, Saved, ConsumerSends, SaveAndWait, Going
  <2> QED BY <1>3, <2>1, SendsKeeps DEF Labels
<1>7. CASE ConsumerThrows /\ status \notin Terminal
  <2>1. /\ status' = "failed" /\ log' = log \o <<"error", "done">>
        /\ SaveAndWait(Consumer, "failed") /\ UNCHANGED <<result, streamVars>>
    BY <1>7 DEF ConsumerThrows
  <2>2. Grown(log, log') /\ DoneIn(log', Len(log'))
    BY <2>1, EndGrows DEF RunInv, TypeOK
  <2>3. result' = [result EXCEPT ![Consumer] = result[Consumer]]
        /\ result[Consumer] \in Results \cup {None}
    BY <1>1, <2>1 DEF RunInv, TypeOK
  <2>4. ConsumerSends("failed")
    BY <1>4, <2>1, <2>2, <2>3 DEF ConsumerSends, Going, Results
  <2> QED BY <1>3, <2>4, SendsKeeps DEF Labels
<1> QED BY <1>5, <1>6, <1>7

-----------------------------------------------------------------------------
(* Stop requests.                                                            *)

\* What a stop request does: only to a run that Hermes has and that has a row.
StopWork(s, l) ==
  /\ Work(s, l)
  /\ hermesId /\ UNCHANGED hermesId
  /\ disk # None
  /\ previous' \in [Stops -> Statuses \cup {None}]
  /\ \A t \in Stops : t # s => previous'[t] = previous[t]
  /\ l \in {"claimed", "call"} => previous'[s] \in {"queued", "running"}

LEMMA StopKeeps ==
  ASSUME RunInv, NEW s \in Stops, NEW l \in Labels, StopWork(s, l)
  PROVE  RunInv'
<1>1. s \in Actors /\ Work(s, l) /\ Consumer \in Actors /\ Consumer # s
  BY ActorsAssumption DEF Actors, StopWork
<1>2. /\ pc'[s] = l /\ pc'[Consumer] = pc[Consumer]
      /\ \A t \in Stops : t # s => pc'[t] = pc[t]
      /\ disk' = disk /\ hermesId' = hermesId
  BY <1>1 DEF Work, Actors, RunInv, TypeOK, StopWork
<1>3. TypeOK'
  <2>1. previous' \in [Stops -> Statuses \cup {None}] /\ hermesId' \in BOOLEAN
    BY DEF StopWork, RunInv, TypeOK
  <2> QED BY <1>1, <2>1, WorkTyped DEF TypeOK
<1>4. NotYetStopped'
  BY <1>2 DEF NotYetStopped, RunInv, StopWork
<1>5. FoundGoingOn'
  BY <1>2 DEF FoundGoingOn, RunInv, StopWork
<1>6. SeenIsStored'
  BY <1>2 DEF SeenIsStored, StopWork
<1> QED BY <1>1, <1>3, <1>4, <1>5, <1>6, WorkRows, WorkTold DEF RunInv

\* A request at work has a run that Hermes has, and that has a row.
LEMMA StopAtWork ==
  ASSUME RunInv, NEW s \in Stops,
         \/ pc[s] \notin {"idle", "ended"} \/ save[s].is # "idle"
         \/ Stoppable
  PROVE  status \in Going /\ hermesId /\ disk # None
<1>1. s \in Actors
  BY DEF Actors
<1>2. hermesId
  BY DEF RunInv, NotYetStopped, Stoppable
<1>3. status \in Going
  <2>1. CASE Stoppable
    BY <2>1 DEF Stoppable, RunInv, TypeOK, Going, Statuses, Terminal
  <2>2. CASE ~Stoppable
    BY <1>1, <2>2, AtWork
  <2> QED BY <2>1, <2>2
<1>4. pc[Consumer] \notin {"accept", "refused"}
  BY <1>2 DEF RunInv, NotYetStopped
<1> QED BY <1>2, <1>3, <1>4, AcceptedHasRow

\* Nothing but the place of the request and of Hermes changes.
LEMMA StopWaits ==
  ASSUME RunInv, NEW s \in Stops,
         CallStop(s) \/ StopAccepted(s) \/ Finish(s) \/ StopReturns(s) \/ StopThrows(s)
  PROVE  RunInv'
<1> DEFINE Places == {"call", "ended"}
<1>1. pc[s] \notin {"idle", "ended"} \/ save[s].is # "idle"
  BY DEF CallStop, StopAccepted, Finish, StopReturns, StopThrows, Saved
<1>2. status \in Going /\ hermesId /\ disk # None
  BY <1>1, StopAtWork
<1>3. s \in Actors /\ log \in Seq(Kinds) /\ result[s] \in Results \cup {None}
      /\ hermes \in HermesStates /\ news \in 0..MaxNews
      /\ previous \in [Stops -> Statuses \cup {None}]
      /\ result = [result EXCEPT ![s] = result[s]]
  BY DEF Actors, RunInv, TypeOK, HermesStates
<1>4. /\ UNCHANGED <<runVars, disk, result, previous, bounds>>
      /\ hermes' \in HermesStates
      /\ UNCHANGED streamVars \/ Notify
      /\ save' = save \/ save' = [save EXCEPT ![s] = Idle]
  BY <1>3 DEF CallStop, StopAccepted, Finish, StopReturns, StopThrows, Saved, HermesStates
<1>5. \E l \in Places : pc' = [pc EXCEPT ![s] = l] /\ (l = "call" => pc[s] = "claimed")
  BY DEF CallStop, StopAccepted, Finish, StopReturns, StopThrows, Saved
<1>6. PICK l \in Places : pc' = [pc EXCEPT ![s] = l] /\ (l = "call" => pc[s] = "claimed")
  BY <1>5
<1>7. l = "call" => previous[s] \in {"queued", "running"}
  BY <1>6 DEF RunInv, FoundGoingOn
<1>8. log' = log /\ status' = status /\ hermesId' = hermesId /\ Grown(log, log')
      /\ (status \in Results => DoneIn(log, Len(log)))
  BY <1>3, <1>4, GrownSame DEF runVars, RunInv, EndIsTold
<1>9. Work(s, l)
  BY <1>2, <1>3, <1>4, <1>6, <1>8 DEF Work, bounds
<1>10. StopWork(s, l)
  BY <1>2, <1>3, <1>4, <1>7, <1>8, <1>9 DEF StopWork
<1>11. l \in Labels
  BY DEF Labels
<1> QED BY <1>10, <1>11, StopKeeps

\* A request claims the run, applies its end, or gives it back as it found it.
LEMMA StopClaims == ASSUME RunInv, NEW s \in Stops, Claim(s) PROVE RunInv'
<1>1. status \in Going /\ hermesId /\ disk # None /\ status \in {"queued", "running"}
  BY StopAtWork DEF Claim, Stoppable, Going, Terminal
<1>2. /\ s \in Actors /\ log \in Seq(Kinds)
      /\ result' = [result EXCEPT ![s] = result[s]] /\ result[s] \in Results \cup {None}
      /\ hermes' \in HermesStates /\ news' \in 0..MaxNews
      /\ UNCHANGED <<disk, drops, crashes, streamVars>>
  BY DEF Claim, Actors, RunInv, TypeOK, HermesStates, bounds
<1>3. Grown(log, log')
  BY <1>2, GrownByOne DEF Claim, Kinds
<1>4. Work(s, "claimed")
  BY <1>1, <1>2, <1>3 DEF Claim, SaveAndWait, Work, Going, Results
<1>5. /\ previous' \in [Stops -> Statuses \cup {None}]
      /\ \A t \in Stops : t # s => previous'[t] = previous[t]
      /\ previous'[s] \in {"queued", "running"}
  BY <1>1 DEF Claim, RunInv, TypeOK
<1>6. StopWork(s, "claimed")
  BY <1>1, <1>4, <1>5 DEF StopWork, Claim
<1> QED BY <1>6, StopKeeps DEF Labels

LEMMA StopEnds ==
  ASSUME RunInv, NEW s \in Stops, StopEnded(s) \/ SetResult(s) \/ StopRejected(s)
  PROVE  RunInv'
<1>1. pc[s] \notin {"idle", "ended"}
  BY DEF StopEnded, SetResult, StopRejected, Saved
<1>2. status \in Going /\ hermesId /\ disk # None
  BY <1>1, StopAtWork
<1>3. s \in Actors /\ log \in Seq(Kinds) /\ result[s] \in Results \cup {None}
      /\ result = [result EXCEPT ![s] = result[s]]
      /\ previous \in [Stops -> Statuses \cup {None}]
  BY DEF Actors, RunInv, TypeOK
<1>4. hermes' \in HermesStates /\ news' \in 0..MaxNews
      /\ UNCHANGED <<disk, previous, drops, crashes, hermesId>>
  BY DEF StopEnded, SetResult, StopRejected, bounds, RunInv, TypeOK, HermesStates
<1>5. CASE StopEnded(s)
  <2>1. Work(s, "events")
    BY <1>2, <1>3, <1>4, <1>5, EndAppended DEF StopEnded, AppendResult, SaveAndWait, Work
  <2>2. StopWork(s, "events")
    BY <1>2, <1>3, <1>4, <2>1 DEF StopWork
  <2> QED BY <2>2, StopKeeps DEF Labels
<1>6. CASE SetResult(s)
  <2>1. Work(s, "status")
    BY <1>2, <1>3, <1>4, <1>6, EndSet DEF SetResult, Saved, SaveAndWait, Work, Going
  <2>2. StopWork(s, "status")
    BY <1>2, <1>3, <1>4, <2>1 DEF StopWork
  <2> QED BY <2>2, StopKeeps DEF Labels
<1>7. CASE StopRejected(s)
  <2>1. previous[s] \in {"queued", "running"}
    BY <1>7 DEF StopRejected, RunInv, FoundGoingOn
  <2>2. Grown(log, log')
    BY <1>3, <1>7, GrownByOne DEF StopRejected, Kinds
  <2>3. status' \in {"queued", "running"} /\ SaveAndWait(s, "restored") /\ UNCHANGED <<result, streamVars>>
    BY <1>7, <2>1 DEF StopRejected
  <2>4. Work(s, "restored")
    BY <1>2, <1>3, <1>4, <2>2, <2>3 DEF SaveAndWait, Work, Going, Results
  <2>5. StopWork(s, "restored")
    BY <1>2, <1>3, <1>4, <2>4 DEF StopWork
  <2> QED BY <2>5, StopKeeps DEF Labels
<1> QED BY <1>5, <1>6, <1>7

-----------------------------------------------------------------------------
(* Saves, browsers and Hermes.                                               *)

LEMMA SaveKeeps == ASSUME RunInv, NEW a \in Actors, Land(a) \/ LoseSave(a) PROVE RunInv'
<1>1. /\ InFlight(a)
      /\ disk' \in {disk, save[a].row}
      /\ \E e \in {"ok", "failed"} : save' = [save EXCEPT ![a] = Over(e)] /\ (e = "ok" => disk' = save[a].row)
      /\ UNCHANGED <<runVars, hermes, pc, result, previous, streamVars, bounds>>
  BY DEF Land, LoseSave
<1>2. PICK e \in {"ok", "failed"} :
        save' = [save EXCEPT ![a] = Over(e)] /\ (e = "ok" => disk' = save[a].row)
  BY <1>1
<1>3. /\ save[a].row \in Snapshots /\ save[a].row # None
      /\ save[a].row \in Rows /\ save[a].is = "sent"
  <2>1. save[a].is = "sent" /\ save[a].row \in Rows
    BY <1>1 DEF InFlight, Rows
  <2>2. save[a] \in [is : {"idle", "ok", "failed"}, row : {None}] \cup [is : {"sent"}, row : Snapshots]
    BY DEF RunInv, TypeOK
  <2>3. save[a] \in [is : {"sent"}, row : Snapshots]
    BY <2>1, <2>2
  <2> QED BY <2>1, <2>3, NoneAssumption
<1>4. disk' \in Snapshots \cup {None} /\ disk' \in Rows
  BY <1>1, <1>3 DEF RunInv, TypeOK, Rows
<1>5. \A b \in Actors : IF b = a THEN save'[b] = Over(e) ELSE save'[b] = save[b]
  BY <1>2 DEF RunInv, TypeOK
<1>6. TypeOK'
  <2> DEFINE Saves == [is : {"idle", "ok", "failed"}, row : {None}]
                         \cup [is : {"sent"}, row : Snapshots]
  <2>1. save \in [Actors -> Saves] /\ Over(e) \in Saves
    BY DEF RunInv, TypeOK, Over
  <2>2. save' \in [Actors -> Saves]
    <3> HIDE DEF Saves
    <3> QED BY <1>2, <2>1
  <2> QED BY <1>1, <1>4, <2>2 DEF RunInv, TypeOK, runVars, streamVars, bounds
<1>7. \A row \in Rows' : row \in Rows
  BY <1>4, <1>5 DEF Rows, InFlight, Over
<1>8. RowsToldEnd'
  BY <1>1, <1>7 DEF RowsToldEnd, RunInv, runVars
<1>9. EndIsTold' /\ FoundGoingOn' /\ DoneBeforeClose'
  BY <1>1 DEF RunInv, EndIsTold, FoundGoingOn, DoneBeforeClose, runVars, streamVars
<1>10. status \in Going
  BY <1>3, AtWork
<1>11. AtRest'
  BY <1>1, <1>10 DEF AtRest, Going, Results, runVars
<1>12. NotYetStopped'
  BY <1>1, <1>3, <1>5 DEF RunInv, NotYetStopped, Actors, runVars
<1>13. SeenIsStored'
  <2>1. SUFFICES ASSUME disk' = None
                 PROVE  /\ \A c \in Streams : stream'[c] = "off"
                        /\ pc'[Consumer] \in {"accept", "refused"} /\ save'[Consumer].is # "ok"
    BY DEF SeenIsStored
  <2>2. disk = None /\ e = "failed"
    BY <1>1, <1>2, <1>3, <2>1
  <2>3. /\ \A c \in Streams : stream[c] = "off"
        /\ pc[Consumer] \in {"accept", "refused"} /\ save[Consumer].is # "ok"
    BY <1>10, <2>2 DEF RunInv, SeenIsStored, Going, Results
  <2> QED BY <1>1, <1>5, <2>2, <2>3 DEF Actors, Over, streamVars
<1> QED BY <1>6, <1>8, <1>9, <1>11, <1>12, <1>13 DEF RunInv

LEMMA StreamKeeps ==
  ASSUME RunInv, NEW c \in Streams, Connect(c) \/ Drop(c)
  PROVE  RunInv'
<1>1. /\ log \in Seq(Kinds) /\ Len(log) \in Nat
      /\ stream \in [Streams -> {"off", "open", "closed"}] /\ index \in [Streams -> Nat]
      /\ drops \in 0..MaxDrops
  BY DEF RunInv, TypeOK
<1>2. UNCHANGED <<runVars, disk, hermes, actorVars, news, crashes>>
  BY DEF Connect, Drop, bounds
<1>3. /\ stream' \in [Streams -> {"off", "open", "closed"}] /\ index' \in [Streams -> Nat]
      /\ drops' \in 0..MaxDrops
  BY <1>1, BoundsAssumption DEF Connect, Drop, Furthest, bounds
<1>4. TypeOK'
  BY <1>2, <1>3 DEF RunInv, TypeOK, runVars, actorVars
<1>5. EndIsTold' /\ FoundGoingOn' /\ NotYetStopped' /\ AtRest'
  BY <1>2 DEF RunInv, EndIsTold, FoundGoingOn, NotYetStopped, AtRest, runVars, actorVars
<1>6. RowsToldEnd'
  BY <1>2 DEF RunInv, RowsToldEnd, Rows, InFlight, runVars, actorVars
<1>7. SeenIsStored'
  BY <1>2 DEF RunInv, SeenIsStored, Connect, Drop, runVars, actorVars
<1>8. DoneBeforeClose'
  <2>1. SUFFICES ASSUME NEW b \in Streams, stream'[b] = "closed", status # "interrupted"
                 PROVE  DoneIn(log, index'[b])
    BY <1>2 DEF DoneBeforeClose, DoneIn, runVars
  <2>2. CASE stream[b] = "closed" /\ index'[b] = index[b]
    BY <2>1, <2>2 DEF RunInv, DoneBeforeClose, DoneIn
  <2>3. CASE Connect(c) /\ b = c
    <3>1. status \in Results
      BY <1>1, <2>1, <2>3 DEF Connect, Terminal, Results
    <3>2. DoneIn(log, Len(log))
      BY <3>1 DEF RunInv, EndIsTold
    <3>3. PICK n \in Nat : n = index'[b]
      BY <1>3
    <3>4. Len(log) <= n
      BY <1>1, <2>3, <3>3 DEF Connect, Furthest
    <3> QED BY <1>1, <3>2, <3>3, <3>4, DoneStays, GrownSame
  <2>4. (stream[b] = "closed" /\ index'[b] = index[b]) \/ (Connect(c) /\ b = c)
    <3>1. CASE Connect(c) /\ b # c
      BY <1>1, <2>1, <3>1 DEF Connect
    <3>2. CASE Drop(c)
      <4>1. index' = index /\ stream' = [stream EXCEPT ![c] = "off"]
        BY <3>2 DEF Drop
      <4> QED BY <1>1, <2>1, <4>1
    <3> QED BY <3>1, <3>2
  <2> QED BY <2>2, <2>3, <2>4
<1> QED BY <1>4, <1>5, <1>6, <1>7, <1>8 DEF RunInv

LEMMA HermesKeeps == ASSUME RunInv, HermesEnds PROVE RunInv'
<1>1. UNCHANGED <<runVars, disk, actorVars, streamVars, bounds>> /\ hermes' \in Results
  BY DEF HermesEnds, Results
<1>2. TypeOK'
  BY <1>1 DEF RunInv, TypeOK, runVars, actorVars, streamVars, bounds
<1> QED BY <1>1, <1>2 DEF RunInv, EndIsTold, RowsToldEnd, NotYetStopped, FoundGoingOn, SeenIsStored,
           AtRest, DoneBeforeClose, Rows, InFlight, runVars, actorVars, streamVars

-----------------------------------------------------------------------------
(* A restart.                                                                *)

LEMMA CutIs ==
  ASSUME NEW events \in Seq(Kinds), NEW k \in Nat, k <= Len(events)
  PROVE  /\ SubSeq(events, 1, k) \in Seq(Kinds)
         /\ Len(SubSeq(events, 1, k)) = k
         /\ \A i \in 1..k : SubSeq(events, 1, k)[i] = events[i]
OBVIOUS

\* If the row has a done event, it has the one that a browser has been sent.
LEMMA CutKeepsDone ==
  ASSUME NEW events \in Seq(Kinds), NEW k \in Nat, k <= Len(events), DoneIn(events, k),
         NEW n \in Nat, DoneIn(events, n)
  PROVE  DoneIn(SubSeq(events, 1, k), n)
<1>1. PICK i \in DOMAIN events : i <= k /\ events[i] = "done"
  BY DEF DoneIn
<1>2. PICK j \in DOMAIN events : j <= n /\ events[j] = "done"
  BY DEF DoneIn
<1>3. i \in 1..k /\ j \in Nat /\ j > 0
  BY <1>1, <1>2
<1>4. CASE i <= j
  <2>1. i <= n /\ i \in DOMAIN SubSeq(events, 1, k) /\ SubSeq(events, 1, k)[i] = "done"
    BY <1>1, <1>2, <1>3, <1>4, CutIs
  <2> QED BY <2>1 DEF DoneIn
<1>5. CASE j < i
  <2>1. j \in DOMAIN SubSeq(events, 1, k) /\ SubSeq(events, 1, k)[j] = "done"
    BY <1>1, <1>2, <1>3, <1>5, CutIs
  <2> QED BY <1>2, <2>1 DEF DoneIn
<1> QED BY <1>3, <1>4, <1>5

\* There is no row only if none was ever written.
LEMMA RowIs ==
  ASSUME RunInv, NEW row \in Rows
  PROVE  /\ row = None => disk = None
         /\ row # None => /\ row \in Snapshots
                          /\ row.count <= Len(log)
                          /\ row.status \in Results => DoneIn(log, row.count)
<1>1. \A a \in Actors : InFlight(a) => save[a].row \in Snapshots
  <2>1. SUFFICES ASSUME NEW a \in Actors, InFlight(a) PROVE save[a].row \in Snapshots
    OBVIOUS
  <2>2. save[a].is = "sent"
    BY <2>1 DEF InFlight
  <2>3. save[a] \in [is : {"idle", "ok", "failed"}, row : {None}]
                       \cup [is : {"sent"}, row : Snapshots]
    BY DEF RunInv, TypeOK
  <2>4. save[a] \in [is : {"sent"}, row : Snapshots]
    BY <2>2, <2>3
  <2> QED BY <2>4
<1>2. row = disk \/ row \in Snapshots
  BY <1>1 DEF Rows
<1>3. row = None => disk = None
  BY <1>2, NoneAssumption
<1>4. row # None => row \in Snapshots
  BY <1>2 DEF RunInv, TypeOK
<1> QED BY <1>3, <1>4 DEF RunInv, RowsToldEnd

LEMMA RestartKeeps ==
  ASSUME RunInv, NEW row \in Rows, Restart(row),
         news' = news, drops' = drops, crashes' \in 0..MaxCrashes
  PROVE  RunInv'
<1> DEFINE kept == IF row = None THEN 0 ELSE row.count
<1>1. /\ row = None => disk = None
      /\ row # None => /\ row \in Snapshots
                       /\ row.count <= Len(log)
                       /\ row.status \in Results => DoneIn(log, row.count)
  BY RowIs
<1>2. /\ log \in Seq(Kinds) /\ Len(log) \in Nat /\ kept \in Nat /\ kept <= Len(log)
      /\ log' = SubSeq(log, 1, kept)
  BY <1>1 DEF RunInv, TypeOK, Restart, Snapshots
<1>3. log' \in Seq(Kinds) /\ Len(log') = kept
  <2> HIDE DEF kept
  <2> QED BY <1>2, CutIs
<1>4. /\ row = None => status' = "none" /\ disk' = None
      /\ row # None =>
           /\ status' = IF row.status \in Terminal THEN row.status ELSE "interrupted"
           /\ disk' = [status |-> status', count |-> kept]
  BY DEF Restart, Interrupted
<1>5. status' \in Terminal \cup {"none"} /\ status' \in Statuses
      /\ (status' = "none" <=> row = None)
  BY <1>4 DEF Terminal, Results, Statuses
<1>6. /\ pc' = [a \in Actors |-> IF pc[a] = "idle" THEN "idle" ELSE "ended"]
      /\ save' = [a \in Actors |-> Idle]
      /\ result' = [a \in Actors |-> None]
      /\ stream' = [c \in Streams |-> IF stream[c] = "open" THEN "off" ELSE stream[c]]
      /\ UNCHANGED <<hermesId, hermes, previous, index>>
  BY DEF Restart
<1>7. TypeOK'
  <2>1. disk' \in Snapshots \cup {None}
    BY <1>2, <1>4, <1>5 DEF Snapshots
  <2>2. pc' \in [Actors -> Labels] /\ result' \in [Actors -> Results \cup {None}]
    BY <1>6 DEF Labels
  <2>3. save' \in [Actors -> [is : {"idle", "ok", "failed"}, row : {None}]
                                \cup [is : {"sent"}, row : Snapshots]]
    BY <1>6 DEF Idle
  <2>4. stream' \in [Streams -> {"off", "open", "closed"}]
    BY <1>6 DEF RunInv, TypeOK
  <2> QED BY <1>3, <1>5, <1>6, <2>1, <2>2, <2>3, <2>4 DEF RunInv, TypeOK
<1>8. status' \in Results => row # None /\ row.status = status' /\ DoneIn(log, kept)
  BY <1>1, <1>4, <1>5 DEF Results, Terminal
<1>9. status' \in Results => DoneIn(log', kept)
  <2> HIDE DEF kept
  <2> QED BY <1>2, <1>8, CutKeepsDone
<1>10. EndIsTold' /\ NotYetStopped' /\ FoundGoingOn'
  <2>1. \A a \in Actors : pc'[a] \in {"idle", "ended"} /\ save'[a] = Idle
    BY <1>6
  <2>2. EndIsTold'
    BY <1>3, <1>9, <2>1 DEF EndIsTold
  <2> QED BY <2>1, <2>2 DEF NotYetStopped, FoundGoingOn, Actors, Idle
<1>11. RowsToldEnd'
  <2>1. \A r \in Rows' : r = disk'
    BY <1>6 DEF Rows, InFlight, Idle
  <2> QED BY <1>2, <1>3, <1>4, <1>9, <2>1 DEF RowsToldEnd
<1>12. AtRest'
  <2>1. row # None => disk' \in Snapshots /\ disk'.status = status'
    BY <1>2, <1>4, <1>5 DEF Snapshots
  <2>2. \A a \in Actors : pc'[a] \in {"idle", "ended"} /\ save'[a].is = "idle"
    BY <1>6 DEF Idle
  <2> QED BY <1>4, <1>5, <2>1, <2>2, NoneAssumption DEF AtRest
<1>13. SeenIsStored'
  <2>1. SUFFICES ASSUME disk' = None
                 PROVE  status' = "none" /\ \A c \in Streams : stream'[c] = "off"
    BY DEF SeenIsStored
  <2>2. row = None
    <3>1. row # None => disk' \in Snapshots
      BY <1>2, <1>4, <1>5 DEF Snapshots
    <3> QED BY <2>1, <3>1, NoneAssumption
  <2>3. \A c \in Streams : stream[c] = "off"
    BY <1>1, <2>2 DEF RunInv, SeenIsStored
  <2> QED BY <1>4, <1>6, <2>2, <2>3
<1>14. DoneBeforeClose'
  <2>1. SUFFICES ASSUME NEW c \in Streams, stream'[c] = "closed", status' # "interrupted"
                 PROVE  DoneIn(log', index'[c])
    BY DEF DoneBeforeClose, DoneIn
  <2>2. stream[c] = "closed"
    BY <1>6, <2>1
  <2>3. PICK n \in Nat : n = index[c] /\ n = index'[c]
    BY <1>6 DEF RunInv, TypeOK
  <2>4. status # "interrupted"
    <3>1. SUFFICES ASSUME status = "interrupted" PROVE status' = "interrupted"
      BY <2>1
    <3>2. disk # None /\ disk.status = "interrupted" /\ \A a \in Actors : save[a].is = "idle"
      BY <3>1 DEF RunInv, AtRest
    <3>3. row = disk
      BY <3>2 DEF Rows, InFlight
    <3> QED BY <1>4, <3>2, <3>3 DEF Terminal
  <2>5. DoneIn(log, n)
    BY <2>2, <2>3, <2>4 DEF RunInv, DoneBeforeClose, DoneIn
  <2>6. status' \in Results
    <3>1. row # None
      BY <1>1, <2>2 DEF RunInv, SeenIsStored
    <3> QED BY <1>5, <2>1, <3>1 DEF Terminal
  <2>7. DoneIn(log, kept)
    BY <1>8, <2>6
  <2> HIDE DEF kept
  <2> QED BY <1>2, <2>3, <2>5, <2>7, CutKeepsDone
<1> QED BY <1>7, <1>10, <1>11, <1>12, <1>13, <1>14 DEF RunInv

-----------------------------------------------------------------------------
(* What is proved of every run.                                              *)

LEMMA RunStep == ASSUME RunInv, [Next]_vars PROVE RunInv'
<1>1. CASE ConsumerStep
  <2>1. CASE Unhandled
    <3>1. PICK row \in Rows : Restart(row)
      BY <2>1 DEF Unhandled
    <3>2. news' = news /\ drops' = drops /\ crashes' \in 0..MaxCrashes
      BY <2>1 DEF Unhandled, bounds, RunInv, TypeOK
    <3> QED BY <3>1, <3>2, RestartKeeps
  <2>2. CASE Accept
    BY <2>2, AcceptKeeps
  <2>3. CASE AcceptFails
    BY <2>3, AcceptFailsKeeps
  <2>4. CASE Submit \/ Loop \/ Open \/ NextBlock \/ StreamEnds \/ Polled \/ Waited \/ Finish(Consumer)
    BY <2>4, ConsumerWaits
  <2>5. CASE Run \/ Submitted \/ ReadNews
    BY <2>5, ConsumerAppends
  <2>6. CASE PollPending
    BY <2>6, ConsumerWaits, ConsumerAppends
  <2>7. CASE ReadEnd \/ SetResult(Consumer)
    BY <2>7, ConsumerEnds
  <2>8. CASE ConsumerThrows
    BY <2>8, ConsumerWaits, ConsumerEnds
  <2> QED BY <1>1, <2>1, <2>2, <2>3, <2>4, <2>5, <2>6, <2>7, <2>8 DEF ConsumerStep
<1>2. ASSUME NEW s \in Stops, Claim(s) \/ StopStep(s) PROVE RunInv'
  BY <1>2, StopClaims, StopWaits, StopEnds DEF StopStep
<1>3. ASSUME NEW a \in Actors, Land(a) \/ LoseSave(a) PROVE RunInv'
  BY <1>3, SaveKeeps
<1>4. ASSUME NEW c \in Streams, Connect(c) \/ Drop(c) PROVE RunInv'
  BY <1>4, StreamKeeps
<1>5. CASE HermesEnds
  BY <1>5, HermesKeeps
<1>6. CASE Crash
  <2>1. PICK row \in Rows : Restart(row)
    BY <1>6 DEF Crash
  <2>2. news' = news /\ drops' = drops /\ crashes' \in 0..MaxCrashes
    BY <1>6, BoundsAssumption DEF Crash, RunInv, TypeOK
  <2> QED BY <2>1, <2>2, RestartKeeps
<1>7. CASE UNCHANGED vars
  <2>1. UNCHANGED <<runVars, disk, hermes, actorVars, streamVars, bounds>>
    BY <1>7 DEF vars
  <2>2. TypeOK'
    BY <2>1 DEF RunInv, TypeOK, runVars, actorVars, streamVars, bounds
  <2> QED BY <2>1, <2>2 DEF RunInv, EndIsTold, RowsToldEnd, NotYetStopped, FoundGoingOn,
                            SeenIsStored,
           AtRest, DoneBeforeClose, Rows, InFlight, runVars, actorVars, streamVars
<1> QED BY <1>1, <1>2, <1>3, <1>4, <1>5, <1>6, <1>7 DEF Next

LEMMA RunInvariant == Spec => []RunInv
BY RunInit, RunStep, PTL DEF Spec

\* Every variable of a run keeps its type.
THEOREM TypesHold == Spec => []TypeOK
<1>1. RunInv => TypeOK
  BY DEF RunInv
<1> QED BY <1>1, RunInvariant, PTL

\* No stream of a run that was not interrupted is closed before its browser has
\* been sent the done event, whatever saves are lost or land late, whoever stops
\* the run, and whichever row a restart finds.
THEOREM DoneComesFirst == Spec => []DoneBeforeClose
<1>1. RunInv => DoneBeforeClose
  BY DEF RunInv
<1> QED BY <1>1, RunInvariant, PTL

\* The only step that takes a run up again that has ended is that of a stop
\* request whose call of Hermes failed.
THEOREM OnlyStopsReopen == Spec => ReopenedByStopOnly
<1> DEFINE Reopens == \E s \in Stops : pc[s] = "call" /\ pc'[s] = "restored"
           Stays   == (status \in Terminal /\ status' \notin Terminal) => Reopens
<1>1. ASSUME RunInv, [Next]_vars PROVE Stays
  <2> SUFFICES ASSUME status \in Terminal, status' \notin Terminal PROVE Reopens
    OBVIOUS
  <2>1. ASSUME NEW s \in Stops, StopRejected(s) PROVE Reopens
    BY <1>1, <2>1 DEF StopRejected, SaveAndWait, RunInv, TypeOK, Actors
  <2>2. ASSUME NEW a \in Actors, SetResult(a) PROVE FALSE
    BY <1>1, <2>2, EndSet DEF Terminal
  <2>3. ~Run
    BY <1>1 DEF Run, RunInv, NotYetStopped, Terminal, Results
  <2>4. ASSUME NEW row \in Rows, Restart(row) PROVE FALSE
    <3>1. status \in Results \/ status = "interrupted"
      BY DEF Terminal
    <3>2. disk # None
      BY <1>1, <3>1 DEF RunInv, SeenIsStored, NotYetStopped, Results
    <3>3. row # None
      BY <1>1, <3>2, RowIs
    <3> QED BY <2>4, <3>3 DEF Restart, Interrupted, Terminal
  <2>5. ConsumerThrows => FALSE
    BY DEF ConsumerThrows, Terminal, Results
  <2>6. ASSUME NEW s \in Stops, Claim(s) PROVE FALSE
    BY <2>6 DEF Claim, Stoppable
  <2>7. Consumer \in Actors /\ \A s \in Stops : s \in Actors
    BY DEF Actors
  <2>8. status' # status
    OBVIOUS
  <2>9. ~ConsumerStep
    BY <1>1, <2>2, <2>3, <2>4, <2>5, <2>7, <2>8
       DEF ConsumerStep, Accept, AcceptFails, Submit, Submitted, Loop, Open, ReadNews, NextBlock,
           StreamEnds, PollPending, Polled, Waited, ReadEnd, AppendResult, Finish, Unhandled, runVars
  <2>10. ~Crash
    BY <2>4 DEF Crash
  <2>11. ASSUME NEW s \in Stops, StopStep(s) PROVE Reopens
    BY <2>1, <2>2, <2>7, <2>8, <2>11
       DEF StopStep, CallStop, StopAccepted, StopEnded, AppendResult, Finish, StopReturns,
           StopThrows, runVars
  <2>12. ~HermesEnds /\ \A a \in Actors : ~Land(a) /\ ~LoseSave(a)
    BY <2>8 DEF HermesEnds, Land, LoseSave, runVars
  <2>13. \A c \in Streams : ~Connect(c) /\ ~Drop(c)
    BY <2>8 DEF Connect, Drop, runVars
  <2>14. ~UNCHANGED vars
    BY <2>8 DEF vars, runVars
  <2> QED BY <1>1, <2>6, <2>9, <2>10, <2>11, <2>12, <2>13, <2>14 DEF Next
<1>2. RunInv /\ [Next]_vars => [Stays]_vars
  BY <1>1
<1> QED BY <1>2, RunInvariant, PTL DEF Spec, ReopenedByStopOnly
=============================================================================
