---------------------- MODULE AnalyticsConnectionProofs ----------------------
(* What is proved of AnalyticsConnection, for every value of its constants. *)
EXTENDS AnalyticsConnection, FiniteSetTheorems, TLAPS

-----------------------------------------------------------------------------
(* Types, as far as the proofs need them.                                    *)

RowTyped(row) ==
  /\ {"generation", "grant", "sealed"} \subseteq DOMAIN row
  /\ row.generation \in Nat /\ row.grant \in Nat /\ row.sealed \in Nat

CallTyped(call) ==
  /\ {"op", "at", "arg", "generation", "grant", "attempt"} \subseteq DOMAIN call
  /\ call.generation \in Nat

Typed ==
  /\ provider \in {"ga4", "clarity"}
  /\ RowTyped(conn)
  /\ DOMAIN oauth = 1..MaxGeneration
  /\ \A g \in 1..MaxGeneration : "status" \in DOMAIN oauth[g]
  /\ DOMAIN calls = Calls
  /\ \A c \in Calls : CallTyped(calls[c])
  /\ consent \in Nat

-----------------------------------------------------------------------------
(* The invariants.                                                           *)

\* A row that was never written holds nothing.
Unborn == conn.generation = 0 => conn.grant = 0 /\ consent = 0

\* An open OAuth state is the one of the authorization in force.
OpenState ==
  \A g \in 1..MaxGeneration : oauth[g].status = "open" =>
    provider = "ga4" /\ g = conn.generation /\ consent = g

Reporting(c) == At(c, "sync", "report")

\* A call that works with tokens it has read.
Reads(c) == calls[c].at \in {"list", "reserve"} \/ Reporting(c)

\* What a call remembers is of the row or of one before it; as long as the row
\* has its generation, so has the authorization.
Remembers(c) ==
  /\ calls[c].op # "none" => OfProvider(calls[c].op)
  /\ calls[c].op = "callback" => calls[c].arg \in 1..MaxGeneration
  /\ calls[c].op = "sync" => calls[c].arg \in Keys
  /\ calls[c].generation <= conn.generation
  /\ calls[c].generation = conn.generation =>
       /\ At(c, "callback", "exchange") => consent = conn.generation
       /\ Reads(c) => calls[c].grant = consent

TokensInv ==
  /\ Typed /\ Unborn /\ OpenState /\ TokensInForce
  /\ \A c \in Calls : Remembers(c)

-----------------------------------------------------------------------------
(* The helpers.                                                              *)

LEMMA ConsumedIs ==
  ASSUME Typed
  PROVE  /\ DOMAIN Consumed = 1..MaxGeneration
         /\ \A g \in 1..MaxGeneration : /\ "status" \in DOMAIN Consumed[g]
                                        /\ Consumed[g].status # "open"
BY DEF Typed, Consumed

LEMMA EmptiedIs ==
  ASSUME NEW row, RowTyped(row), NEW s
  PROVE  /\ RowTyped(Emptied(row, s))
         /\ Emptied(row, s).generation = row.generation + 1
         /\ Emptied(row, s).grant = 0
BY DEF RowTyped, Emptied, NextVersion

LEMMA FailedIs ==
  ASSUME NEW row, RowTyped(row), NEW code
  PROVE  /\ RowTyped(Failed(row, code))
         /\ Failed(row, code).generation = row.generation
         /\ Failed(row, code).grant = row.grant
         /\ Failed(row, code).sealed = row.sealed
BY DEF RowTyped, Failed

LEMMA NextVersionIs ==
  ASSUME NEW row, RowTyped(row)
  PROVE  RowTyped(NextVersion(row)) /\ NextVersion(row).generation = row.generation + 1
BY DEF RowTyped, NextVersion

LEMMA AnswerIs ==
  ASSUME Typed, NEW c \in Calls, Answer(c)
  PROVE  /\ DOMAIN calls' = Calls /\ \A d \in Calls : CallTyped(calls'[d])
         /\ calls'[c] = Idle
         /\ \A d \in Calls : calls'[d] \in {calls[d], Idle}
BY DEF Typed, Answer, CallTyped, Idle

\* A call that has nothing to do remembers nothing.
LEMMA IdleRemembers ==
  ASSUME NEW c \in Calls, calls[c] = Idle, conn.generation \in Nat
  PROVE  Remembers(c)
BY DEF Idle, Remembers, At, Reads, Reporting

-----------------------------------------------------------------------------
(* What a step may do to the row.                                            *)

\* A row that starts over leaves whatever the calls remember behind.
LEMMA RowReplaced ==
  ASSUME TokensInv, provider' = provider,
         RowTyped(conn'), conn'.generation = conn.generation + 1, consent' \in Nat,
         conn'.grant \in {0, consent'}, conn'.grant # 0 => conn'.sealed = conn'.generation,
         DOMAIN oauth' = 1..MaxGeneration,
         \A g \in 1..MaxGeneration : /\ "status" \in DOMAIN oauth'[g]
                                     /\ oauth'[g].status = "open" =>
                                          /\ provider = "ga4"
                                          /\ g = conn'.generation /\ consent' = g,
         DOMAIN calls' = Calls, \A d \in Calls : CallTyped(calls'[d]),
         \A d \in Calls : calls'[d] \in {calls[d], Idle}
  PROVE  TokensInv'
<1>1. Typed'
  BY DEF TokensInv, Typed
<1>2. Unborn' /\ OpenState' /\ TokensInForce'
  BY DEF TokensInv, Typed, RowTyped, Unborn, OpenState, TokensInForce
<1>3. ASSUME NEW d \in Calls PROVE Remembers(d)'
  <2>1. CASE calls'[d] = Idle
    BY <2>1 DEF RowTyped, Idle, Remembers, At, Reads, Reporting
  <2>2. CASE calls'[d] = calls[d]
    <3>1. Remembers(d) /\ calls[d].generation \in Nat /\ conn.generation \in Nat
      BY DEF TokensInv, Typed, CallTyped, RowTyped
    <3>2. ~(calls[d].generation = conn'.generation) /\ calls[d].generation <= conn'.generation
      BY <3>1 DEF Remembers
    <3> QED BY <2>2, <3>1, <3>2 DEF Remembers, OfProvider
  <2> QED BY <2>1, <2>2
<1> QED BY <1>1, <1>2, <1>3 DEF TokensInv

\* A row that goes on holds no tokens but those in force.
LEMMA RowKept ==
  ASSUME TokensInv, provider' = provider, consent' = consent,
         RowTyped(conn'), conn'.generation = conn.generation,
         conn'.grant \in {0, consent}, conn'.grant # 0 => conn'.sealed = conn'.generation,
         DOMAIN oauth' = 1..MaxGeneration,
         \A g \in 1..MaxGeneration : /\ "status" \in DOMAIN oauth'[g]
                                     /\ oauth'[g].status = "open" => oauth[g].status = "open",
         DOMAIN calls' = Calls, \A d \in Calls : CallTyped(calls'[d]),
         \A d \in Calls : calls'[d] = calls[d] \/ Remembers(d)'
  PROVE  TokensInv'
<1>1. Typed'
  BY DEF TokensInv, Typed
<1>2. Unborn' /\ OpenState' /\ TokensInForce'
  BY DEF TokensInv, Typed, RowTyped, Unborn, OpenState, TokensInForce
<1>3. ASSUME NEW d \in Calls, calls'[d] = calls[d] PROVE Remembers(d)'
  BY <1>3 DEF TokensInv, Remembers, OfProvider, Reads, Reporting, At
<1> QED BY <1>1, <1>2, <1>3 DEF TokensInv

\* A step that leaves the row and the states alone.
LEMMA CallsOnly ==
  ASSUME TokensInv, UNCHANGED <<provider, conn, oauth, consent>>,
         DOMAIN calls' = Calls, \A d \in Calls : CallTyped(calls'[d]),
         \A d \in Calls : calls'[d] = calls[d] \/ Remembers(d)'
  PROVE  TokensInv'
BY RowKept DEF TokensInv, Typed, TokensInForce

\* A call that is answered remembers nothing any more.
LEMMA Answered ==
  ASSUME TokensInv, NEW c \in Calls, Answer(c), conn'.generation \in Nat
  PROVE  /\ DOMAIN calls' = Calls /\ \A d \in Calls : CallTyped(calls'[d])
         /\ \A d \in Calls : calls'[d] \in {calls[d], Idle}
         /\ \A d \in Calls : calls'[d] = calls[d] \/ Remembers(d)'
<1>1. /\ DOMAIN calls' = Calls /\ \A d \in Calls : CallTyped(calls'[d])
      /\ \A d \in Calls : calls'[d] \in {calls[d], Idle}
  BY AnswerIs DEF TokensInv
<1>2. ASSUME NEW d \in Calls, calls'[d] = Idle PROVE Remembers(d)'
  BY <1>2 DEF Idle, Remembers, At, Reads, Reporting
<1> QED BY <1>1, <1>2

-----------------------------------------------------------------------------
(* The steps.                                                                *)

LEMMA TokensInit == Init => TokensInv
<1> SUFFICES ASSUME Init PROVE TokensInv
  OBVIOUS
<1>1. Typed /\ Unborn /\ OpenState /\ TokensInForce
  BY DEF Init, Typed, RowTyped, CallTyped, Idle, Absent, Unborn, OpenState, TokensInForce
<1>2. ASSUME NEW c \in Calls PROVE Remembers(c)
  BY IdleRemembers DEF Init, Absent
<1> QED BY <1>1, <1>2 DEF TokensInv

LEMMA BeginKeeps ==
  ASSUME TokensInv, NEW c \in Calls, NEW op \in Operations, Begin(c, op)
  PROVE  TokensInv'
<1>1. PICK arg \in Arguments(op) :
        calls' = [calls EXCEPT ![c] =
                    [Idle EXCEPT !.op = op, !.at = FirstStep(op), !.arg = arg,
                                 !.runtime = publication,
                                 !.expected = IF op \in Guarded THEN conn.version ELSE 0]]
  BY DEF Begin
<1>2. /\ calls'[c].op = op /\ calls'[c].at = FirstStep(op) /\ calls'[c].arg = arg
      /\ calls'[c].generation = 0
      /\ CallTyped(calls'[c])
      /\ DOMAIN calls' = Calls
      /\ \A d \in Calls : d # c => calls'[d] = calls[d]
  BY <1>1 DEF TokensInv, Typed, Idle, CallTyped
<1>3. FirstStep(op) \notin {"list", "reserve", "report", "exchange"}
  BY DEF FirstStep
<1>4. UNCHANGED <<provider, conn, oauth, consent>> /\ OfProvider(op)
  BY DEF Begin
<1>5. op = "callback" => arg \in 1..MaxGeneration
  BY <1>1 DEF Arguments, TokensInv, Typed
<1>6. op = "sync" => arg \in Keys
  BY <1>1 DEF Arguments
<1>7. conn.generation \in Nat
  BY DEF TokensInv, Typed, RowTyped
<1>8. Remembers(c)'
  BY <1>2, <1>3, <1>4, <1>5, <1>6, <1>7 DEF Remembers, OfProvider, Reads, Reporting, At
<1>9. \A d \in Calls : CallTyped(calls'[d])
  BY <1>2 DEF TokensInv, Typed
<1> QED BY <1>2, <1>4, <1>8, <1>9, CallsOnly

\* The steps that only bring a call to its next transaction.
LEMMA MovesKeep ==
  ASSUME TokensInv, NEW c \in Calls, View(c) \/ CheckConnect(c) \/ Reserve(c)
  PROVE  TokensInv'
<1>1. /\ UNCHANGED <<provider, conn, oauth, consent>>
      /\ DOMAIN calls' = Calls
      /\ \A d \in Calls : d # c => calls'[d] = calls[d]
      /\ calls'[c].op = calls[c].op /\ calls'[c].arg = calls[c].arg
  BY DEF View, CheckConnect, Reserve, TokensInv, Typed, CallTyped
<1>2. CallTyped(calls[c]) /\ RowTyped(conn) /\ Remembers(c) /\ consent \in Nat
  BY DEF TokensInv, Typed
<1>3. CASE View(c)
  <2>1. /\ calls'[c].at \in {"list", "reserve"} /\ calls'[c].generation = conn.generation
        /\ calls'[c].grant = conn.grant /\ CallTyped(calls'[c])
    BY <1>2, <1>3 DEF View, TokensInv, Typed, CallTyped, RowTyped
  <2>2. conn.grant = consent
    BY <1>3 DEF View, Viewable, TokensInv, TokensInForce
  <2>3. Remembers(c)'
    BY <1>1, <1>2, <2>1, <2>2 DEF Remembers, OfProvider, At, RowTyped
  <2> QED BY <1>1, <2>1, <2>3, CallsOnly DEF TokensInv, Typed
<1>4. CASE CheckConnect(c)
  <2>1. /\ calls[c].op = "connect" /\ calls'[c].at = "report"
        /\ calls'[c].generation = calls[c].generation /\ CallTyped(calls'[c])
    BY <1>2, <1>4 DEF CheckConnect, At, TokensInv, Typed, CallTyped
  <2>2. Remembers(c)'
    BY <1>1, <1>2, <2>1 DEF Remembers, OfProvider, Reads, Reporting, At
  <2> QED BY <1>1, <2>1, <2>2, CallsOnly DEF TokensInv, Typed
<1>5. CASE Reserve(c)
  <2>1. /\ calls[c].at = "reserve" /\ calls'[c].at = "report"
        /\ calls'[c].generation = calls[c].generation /\ calls'[c].grant = calls[c].grant
        /\ CallTyped(calls'[c])
    BY <1>2, <1>5 DEF Reserve, At, TokensInv, Typed, CallTyped
  <2>2. Remembers(c)'
    BY <1>1, <1>2, <2>1 DEF Remembers, OfProvider, Reads, Reporting, At
  <2> QED BY <1>1, <2>1, <2>2, CallsOnly DEF TokensInv, Typed
<1> QED BY <1>3, <1>4, <1>5

\* Events of the provider that change a row of their generation.
LEMMA TakeStateKeeps == ASSUME TokensInv, NEW c \in Calls, TakeState(c) PROVE TokensInv'
<1>1. /\ UNCHANGED <<provider, conn, consent>> /\ DOMAIN calls' = Calls
      /\ \A d \in Calls : d # c => calls'[d] = calls[d]
      /\ calls'[c].op = "callback" /\ calls'[c].at = "exchange" /\ calls'[c].arg = calls[c].arg
      /\ calls'[c].generation = conn.generation /\ CallTyped(calls'[c])
  BY DEF TakeState, At, TokensInv, Typed, CallTyped, RowTyped
<1>2. Remembers(c) /\ calls[c].op = "callback"
  BY DEF TokensInv, TakeState, At
<1>3. consent = conn.generation
  BY <1>2 DEF TakeState, StateValid, Remembers, TokensInv, OpenState
<1>4. Remembers(c)'
  BY <1>1, <1>2, <1>3 DEF Remembers, OfProvider, Reads, Reporting, At, TokensInv, Typed, RowTyped
<1>5. /\ DOMAIN oauth' = 1..MaxGeneration
      /\ \A g \in 1..MaxGeneration : /\ "status" \in DOMAIN oauth'[g]
                                     /\ oauth'[g].status = "open" => oauth[g].status = "open"
  BY DEF TakeState, TokensInv, Typed
<1>6. \A d \in Calls : CallTyped(calls'[d])
  BY <1>1 DEF TokensInv, Typed
<1> QED BY <1>1, <1>4, <1>5, <1>6, RowKept DEF TokensInv, Typed, TokensInForce

\* The tokens of a call whose row has not been replaced are those in force.
LEMMA StoredInForce ==
  ASSUME TokensInv, NEW c \in Calls, Answer(c), UNCHANGED <<provider, oauth, consent>>,
         SameGeneration(c), NEW grant \in Nat, grant = consent,
         RowTyped(conn'), conn'.generation = conn.generation,
         conn'.grant = grant, conn'.sealed = calls[c].generation
  PROVE  TokensInv'
<1>1. /\ DOMAIN calls' = Calls /\ \A d \in Calls : CallTyped(calls'[d])
      /\ \A d \in Calls : calls'[d] = calls[d] \/ Remembers(d)'
  BY Answered DEF RowTyped
<1>2. /\ DOMAIN oauth' = 1..MaxGeneration
      /\ \A g \in 1..MaxGeneration : /\ "status" \in DOMAIN oauth'[g]
                                     /\ oauth'[g].status = "open" => oauth[g].status = "open"
  BY DEF TokensInv, Typed
<1>3. conn'.grant \in {0, consent} /\ conn'.sealed = conn'.generation
  BY DEF SameGeneration
<1> QED BY <1>1, <1>2, <1>3, RowKept

LEMMA StoresKeep ==
  ASSUME TokensInv, NEW c \in Calls, NEW listing,
         StoreGrant(c, listing) \/ StoreResources(c, listing) \/ Complete(c)
  PROVE  TokensInv'
<1> DEFINE grant == IF StoreGrant(c, listing) THEN calls[c].generation ELSE calls[c].grant
           row   == Sealed(conn, grant, calls[c].generation)
<1>1. /\ Answer(c) /\ UNCHANGED <<provider, oauth, consent>> /\ SameGeneration(c)
  BY DEF StoreGrant, StoreResources, Complete, Authority
<1>2. Remembers(c) /\ RowTyped(conn) /\ consent \in Nat /\ calls[c].generation \in Nat
  BY DEF TokensInv, Typed, CallTyped
<1>3. grant = consent /\ grant \in Nat
  BY <1>1, <1>2 DEF StoreGrant, StoreResources, Complete, Remembers, SameGeneration, Reads,
                    Reporting, At
<1>4. /\ RowTyped(row) /\ row.generation = conn.generation /\ row.grant = grant
      /\ row.sealed = calls[c].generation
  BY <1>2, <1>3 DEF Sealed, RowTyped
<1> HIDE DEF row
<1>5. \/ conn' = [row EXCEPT !.status = "pending_resource", !.resources = listing,
                             !.error = "none", !.version = @ + 1]
      \/ conn' = [row EXCEPT !.resources = listing]
      \/ conn' = [row EXCEPT !.status = "connected", !.error = "none"]
  BY DEF StoreGrant, StoreResources, Complete, row
<1> HIDE DEF grant
<1>6. /\ RowTyped(conn') /\ conn'.generation = row.generation /\ conn'.grant = row.grant
      /\ conn'.sealed = row.sealed
  BY <1>4, <1>5 DEF RowTyped
<1> QED BY <1>1, <1>3, <1>4, <1>6, StoredInForce

LEMMA FailuresKeep ==
  ASSUME TokensInv, NEW c \in Calls, NEW code \in Codes,
         FailSync(c, code) \/ PersistFailure(c, code)
  PROVE  TokensInv'
<1>1. Answer(c) /\ UNCHANGED <<provider, oauth, consent>> /\ conn' = Failed(conn, code)
  BY DEF FailSync, PersistFailure
<1>2. /\ RowTyped(conn') /\ conn'.generation = conn.generation /\ conn'.grant = conn.grant
      /\ conn'.sealed = conn.sealed
  BY <1>1, FailedIs DEF TokensInv, Typed
<1>3. /\ DOMAIN calls' = Calls /\ \A d \in Calls : CallTyped(calls'[d])
      /\ \A d \in Calls : calls'[d] = calls[d] \/ Remembers(d)'
  BY <1>1, <1>2, Answered DEF RowTyped
<1> QED BY <1>1, <1>2, <1>3, RowKept DEF TokensInv, Typed, TokensInForce

LEMMA AnswersKeep ==
  ASSUME TokensInv, NEW c \in Calls, Refuse(c) \/ Lose(c)
  PROVE  TokensInv'
<1>1. Answer(c) /\ UNCHANGED <<provider, conn, oauth, consent>>
  BY DEF Refuse, Lose
<1>2. conn'.generation \in Nat
  BY <1>1 DEF TokensInv, Typed, RowTyped
<1> QED BY <1>1, <1>2, Answered, CallsOnly

-----------------------------------------------------------------------------
(* The steps that replace the row.                                           *)

LEMMA AuthorizeKeeps == ASSUME TokensInv, NEW c \in Calls, Authorize(c) PROVE TokensInv'
<1> DEFINE row == Emptied(conn, "prepared")
<1>1. RowTyped(conn) /\ Typed
  BY DEF TokensInv, Typed
<1>2. RowTyped(row) /\ row.generation = conn.generation + 1 /\ row.grant = 0
  BY <1>1, EmptiedIs
<1> HIDE DEF row
<1>3. conn' = [row EXCEPT !.config = publication]
  BY DEF Authorize, row
<1>4. RowTyped(conn') /\ conn'.generation = conn.generation + 1 /\ conn'.grant = 0
  BY <1>2, <1>3 DEF RowTyped
<1>5. provider = "ga4"
  BY DEF Authorize, At, TokensInv, Remembers, OfProvider, Typed
<1>6. /\ DOMAIN oauth' = 1..MaxGeneration
      /\ \A g \in 1..MaxGeneration : /\ "status" \in DOMAIN oauth'[g]
                                     /\ oauth'[g].status = "open" => g = conn.generation + 1
  BY <1>1, ConsumedIs DEF Authorize
<1>7. provider' = provider /\ consent' = conn.generation + 1 /\ consent' \in Nat /\ Answer(c)
  BY <1>1 DEF Authorize, RowTyped
<1>8. /\ DOMAIN calls' = Calls /\ \A d \in Calls : CallTyped(calls'[d])
      /\ \A d \in Calls : calls'[d] \in {calls[d], Idle}
  BY <1>1, <1>7, AnswerIs
<1> QED BY <1>4, <1>5, <1>6, <1>7, <1>8, RowReplaced

LEMMA SelectKeeps ==
  ASSUME TokensInv, NEW c \in Calls, NEW listing, SelectResource(c, listing)
  PROVE  TokensInv'
<1> DEFINE row == Sealed(NextVersion(conn), calls[c].grant, calls[c].generation + 1)
<1>1. RowTyped(conn) /\ Typed /\ consent \in Nat /\ calls[c].generation \in Nat /\ Remembers(c)
  BY DEF TokensInv, Typed, CallTyped
<1>2. calls[c].generation = conn.generation /\ calls[c].grant = consent
  BY <1>1 DEF SelectResource, SameGeneration, Remembers, Reads, At
<1>3. RowTyped(NextVersion(conn)) /\ NextVersion(conn).generation = conn.generation + 1
  BY <1>1, NextVersionIs
<1>4. /\ RowTyped(row) /\ row.generation = conn.generation + 1 /\ row.grant = consent
      /\ row.sealed = conn.generation + 1
  BY <1>1, <1>2, <1>3 DEF Sealed, RowTyped
<1> HIDE DEF row
<1>5. conn' = [row EXCEPT !.status = "connected", !.resources = listing,
                          !.selected = calls[c].arg, !.error = "none"]
  BY DEF SelectResource, row
<1>6. /\ RowTyped(conn') /\ conn'.generation = conn.generation + 1 /\ conn'.grant = consent
      /\ conn'.sealed = conn'.generation
  BY <1>4, <1>5 DEF RowTyped
<1>7. oauth' = Consumed /\ UNCHANGED <<provider, consent>> /\ Answer(c)
  BY DEF SelectResource
<1>8. /\ DOMAIN calls' = Calls /\ \A d \in Calls : CallTyped(calls'[d])
      /\ \A d \in Calls : calls'[d] \in {calls[d], Idle}
  BY <1>1, <1>7, AnswerIs
<1> QED BY <1>1, <1>6, <1>7, <1>8, ConsumedIs, RowReplaced

LEMMA DisconnectKeeps == ASSUME TokensInv, NEW c \in Calls, Disconnect(c) PROVE TokensInv'
<1>1. RowTyped(conn) /\ Typed
  BY DEF TokensInv, Typed
<1>2. RowTyped(conn') /\ conn'.generation = conn.generation + 1 /\ conn'.grant = 0
  BY <1>1, EmptiedIs DEF Disconnect
<1>3. /\ DOMAIN oauth' = 1..MaxGeneration
      /\ \A g \in 1..MaxGeneration : "status" \in DOMAIN oauth'[g] /\ oauth'[g].status # "open"
  BY <1>1, ConsumedIs DEF Disconnect, TokensInv, OpenState, Typed
<1>4. provider' = provider /\ consent' = 0 /\ Answer(c)
  BY DEF Disconnect
<1>5. /\ DOMAIN calls' = Calls /\ \A d \in Calls : CallTyped(calls'[d])
      /\ \A d \in Calls : calls'[d] \in {calls[d], Idle}
  BY <1>1, <1>4, AnswerIs
<1> QED BY <1>2, <1>3, <1>4, <1>5, RowReplaced

LEMMA ConnectKeeps ==
  ASSUME TokensInv, NEW c \in Calls, NEW resource, ConnectClarity(c, resource)
  PROVE  TokensInv'
<1> DEFINE next == conn.generation + 1
           row  == Sealed(NextVersion(conn), next, next)
<1>1. RowTyped(conn) /\ Typed /\ next \in Nat
  BY DEF TokensInv, Typed, RowTyped
<1>2. RowTyped(NextVersion(conn)) /\ NextVersion(conn).generation = next
  BY <1>1, NextVersionIs
<1>3. RowTyped(row) /\ row.generation = next /\ row.grant = next /\ row.sealed = next
  BY <1>1, <1>2 DEF Sealed, RowTyped
<1> HIDE DEF row
<1>4. conn' = [row EXCEPT !.status = "connected", !.resources = {resource},
                          !.selected = resource, !.error = "none"]
  BY DEF ConnectClarity, row
<1>5. RowTyped(conn') /\ conn'.generation = next /\ conn'.grant = next /\ conn'.sealed = next
  BY <1>3, <1>4 DEF RowTyped
<1>6. UNCHANGED <<provider, oauth>> /\ consent' = next /\ Answer(c)
  BY DEF ConnectClarity
<1>7. provider # "ga4"
  BY DEF ConnectClarity, At, TokensInv, Remembers, OfProvider, Typed
<1>8. /\ DOMAIN calls' = Calls /\ \A d \in Calls : CallTyped(calls'[d])
      /\ \A d \in Calls : calls'[d] \in {calls[d], Idle}
  BY <1>1, <1>6, AnswerIs
<1>9. \A g \in 1..MaxGeneration : "status" \in DOMAIN oauth'[g] /\ oauth'[g].status # "open"
  BY <1>6, <1>7 DEF TokensInv, OpenState, Typed
<1> QED BY <1>1, <1>5, <1>6, <1>8, <1>9, RowReplaced DEF Typed

LEMMA SetupKeeps == ASSUME TokensInv, SaveSetup PROVE TokensInv'
<1>1. Typed /\ RowTyped(conn) /\ UNCHANGED <<provider, calls>>
  BY DEF TokensInv, Typed, SaveSetup
<1>2. CASE provider # "ga4"
  BY <1>1, <1>2, CallsOnly DEF SaveSetup, Typed
<1>3. CASE provider = "ga4"
  <2>1. oauth' = Consumed /\ consent' = 0
    BY <1>3 DEF SaveSetup
  <2>2. CASE conn.generation = 0
    <3>1. conn' = conn /\ consent' = consent
      BY <1>3, <2>1, <2>2 DEF SaveSetup, TokensInv, Unborn
    <3> QED BY <1>1, <2>1, <3>1, ConsumedIs, RowKept DEF Typed, TokensInv, TokensInForce
  <2>3. CASE conn.generation # 0
    <3>1. RowTyped(conn') /\ conn'.generation = conn.generation + 1 /\ conn'.grant = 0
      BY <1>1, <1>3, <2>3, EmptiedIs DEF SaveSetup
    <3> QED BY <1>1, <2>1, <3>1, ConsumedIs, RowReplaced DEF Typed
  <2> QED BY <2>2, <2>3
<1> QED BY <1>2, <1>3

LEMMA StepKeeps == ASSUME TokensInv, NEW c \in Calls, Step(c) PROVE TokensInv'
BY BeginKeeps, MovesKeep, TakeStateKeeps, StoresKeep, FailuresKeep, AnswersKeep, AuthorizeKeeps,
   SelectKeeps, DisconnectKeeps, ConnectKeeps DEF Step

LEMMA TokensNext == ASSUME TokensInv, [Next]_vars PROVE TokensInv'
<1>1. CASE \E c \in Calls : Step(c)
  BY <1>1, StepKeeps
<1>2. CASE \E k \in Keys : LeaseLapses(k)
  BY <1>2, CallsOnly DEF LeaseLapses, TokensInv, Typed
<1>3. CASE SaveSetup
  BY <1>3, SetupKeeps
<1>4. CASE UNCHANGED vars
  BY <1>4, CallsOnly DEF vars, TokensInv, Typed
<1> QED BY <1>1, <1>2, <1>3, <1>4 DEF Next

\* However the calls of managers, schedulers and Google itself overlap, the row
\* holds tokens of the authorization in force, sealed for its generation.
THEOREM TokensAlwaysInForce == Spec => []TokensInForce
<1>1. Init => TokensInv
  BY TokensInit
<1>2. TokensInv /\ [Next]_vars => TokensInv'
  BY TokensNext
<1>3. TokensInv => TokensInForce
  BY DEF TokensInv
<1> QED BY <1>1, <1>2, <1>3, PTL DEF Spec

-----------------------------------------------------------------------------
(* One writer.                                                               *)

Leased(k) == jobs[k].status = "running" /\ jobs[k].lease

JobsTyped ==
  /\ attempts \in Nat
  /\ DOMAIN jobs = Keys
  /\ \A k \in Keys : {"status", "generation", "attempt", "lease"} \subseteq DOMAIN jobs[k]

\* A job that runs is of the row.
JobsOfRow ==
  \A k \in Keys : jobs[k].status = "running" => jobs[k].generation = conn.generation

OneLease == \A k, l \in Keys : Leased(k) /\ Leased(l) => k = l

\* Every synchronization that reports has an attempt of its own.
OwnAttempt ==
  \A c \in Calls : Reporting(c) =>
    /\ calls[c].attempt \in Nat /\ calls[c].attempt <= attempts
    /\ \A d \in Calls : Reporting(d) /\ calls[d].attempt = calls[c].attempt => d = c

WriterInv == TokensInv /\ JobsTyped /\ JobsOfRow /\ OneLease /\ OwnAttempt

LEMMA CancelledIs ==
  ASSUME JobsTyped
  PROVE  /\ DOMAIN Cancelled = Keys
         /\ \A k \in Keys :
              /\ {"status", "generation", "attempt", "lease"} \subseteq DOMAIN Cancelled[k]
              /\ Cancelled[k].status # "running"
BY DEF JobsTyped, Cancelled

\* The calls that report after a step that has begun no report.
LEMMA NoNewReport ==
  ASSUME OwnAttempt, attempts' = attempts,
         \A c \in Calls : calls'[c] = calls[c] \/ ~Reporting(c)'
  PROVE  OwnAttempt'
BY DEF OwnAttempt, Reporting, At

\* Jobs that were ended leave the row to whoever comes next.
LEMMA JobsEnded ==
  ASSUME JobsTyped, attempts' = attempts, jobs' = Cancelled
  PROVE  JobsTyped' /\ JobsOfRow' /\ OneLease'
BY CancelledIs DEF JobsTyped, JobsOfRow, OneLease, Leased

\* Jobs that end, or lose their lease, one at a time.
LEMMA JobsFewer ==
  ASSUME JobsTyped, JobsOfRow, OneLease, attempts' = attempts,
         conn'.generation = conn.generation, DOMAIN jobs' = Keys,
         \A k \in Keys :
           /\ {"status", "generation", "attempt", "lease"} \subseteq DOMAIN jobs'[k]
           /\ jobs'[k].status = "running" =>
                /\ jobs[k].status = "running" /\ jobs'[k].generation = jobs[k].generation
                /\ jobs'[k].lease => jobs[k].lease
  PROVE  JobsTyped' /\ JobsOfRow' /\ OneLease'
BY DEF JobsTyped, JobsOfRow, OneLease, Leased

LEMMA ReserveKeepsWriters ==
  ASSUME WriterInv, NEW c \in Calls, Reserve(c)
  PROVE  JobsTyped' /\ JobsOfRow' /\ OneLease' /\ OwnAttempt'
<1> DEFINE k == calls[c].arg
           job == [status |-> "running", generation |-> calls[c].generation,
                   attempt |-> attempts + 1, lease |-> TRUE, receipt |-> FALSE]
<1>1. /\ conn' = conn /\ attempts' = attempts + 1
      /\ jobs' = [jobs EXCEPT ![k] = job]
      /\ calls' = [calls EXCEPT ![c].at = "report", ![c].attempt = attempts + 1]
      /\ calls[c].op = "sync" /\ calls[c].generation = conn.generation
      /\ \A l \in Keys : ~Leased(l)
  BY DEF Reserve, Reservable, SameGeneration, At, Leased
<1>2. k \in Keys /\ attempts \in Nat
  BY <1>1 DEF WriterInv, TokensInv, Remembers, JobsTyped
<1>3. /\ DOMAIN jobs' = Keys /\ jobs'[k] = job
      /\ \A l \in Keys : l # k => jobs'[l] = jobs[l]
  BY <1>1, <1>2 DEF WriterInv, JobsTyped
<1>4. JobsTyped'
  BY <1>1, <1>2, <1>3 DEF WriterInv, JobsTyped
<1>5. JobsOfRow'
  BY <1>1, <1>3 DEF WriterInv, JobsOfRow
<1>6. OneLease'
  <2>1. \A l \in Keys : Leased(l)' => l = k
    BY <1>1, <1>3 DEF Leased
  <2> QED BY <2>1 DEF OneLease
<1>7. OwnAttempt'
  <2>1. calls'[c].attempt = attempts + 1 /\ \A d \in Calls : d # c => calls'[d] = calls[d]
    BY <1>1 DEF WriterInv, TokensInv, Typed, CallTyped
  <2>2. \A d \in Calls : d # c /\ Reporting(d)' =>
          /\ Reporting(d) /\ calls'[d].attempt = calls[d].attempt
          /\ calls[d].attempt \in Nat /\ calls[d].attempt <= attempts
    BY <2>1 DEF WriterInv, OwnAttempt, Reporting, At
  <2>3. ASSUME NEW d \in Calls, Reporting(d)'
        PROVE  calls'[d].attempt \in Nat /\ calls'[d].attempt <= attempts'
    <3> attempts' = attempts + 1 /\ attempts \in Nat
      BY <1>1, <1>2
    <3>1. CASE d = c
      BY <2>1, <3>1
    <3>2. CASE d # c
      BY <2>2, <2>3, <3>2
    <3> QED BY <3>1, <3>2
  <2>4. ASSUME NEW d \in Calls, NEW e \in Calls, Reporting(d)', Reporting(e)',
               calls'[e].attempt = calls'[d].attempt
        PROVE  e = d
    <3>1. CASE d = c /\ e # c
      BY <1>2, <2>1, <2>2, <2>4, <3>1
    <3>2. CASE d # c /\ e = c
      BY <1>2, <2>1, <2>2, <2>4, <3>2
    <3>3. CASE d # c /\ e # c
      BY <2>2, <2>4, <3>3 DEF WriterInv, OwnAttempt
    <3> QED BY <3>1, <3>2, <3>3
  <2> QED BY <2>3, <2>4 DEF OwnAttempt
<1> QED BY <1>4, <1>5, <1>6, <1>7

\* A report, its own or of a failure, ends the job of its attempt.
LEMMA ReportKeepsWriters ==
  ASSUME WriterInv, NEW c \in Calls,
         Complete(c) \/ \E code \in Codes : FailSync(c, code)
  PROVE  JobsTyped' /\ JobsOfRow' /\ OneLease' /\ OwnAttempt'
<1>1. RowTyped(conn) /\ Typed /\ calls[c].op = "sync" /\ calls[c].arg \in Keys
  BY DEF WriterInv, TokensInv, Typed, Remembers, Complete, FailSync, At
<1>2. attempts' = attempts /\ Answer(c)
  BY DEF Complete, FailSync
<1>3. conn'.generation = conn.generation
  <2>1. CASE Complete(c)
    BY <1>1, <2>1 DEF Complete, Sealed, RowTyped
  <2>2. CASE \E code \in Codes : FailSync(c, code)
    BY <1>1, <2>2, FailedIs DEF FailSync
  <2> QED BY <2>1, <2>2
<1>4. /\ DOMAIN jobs' = Keys
      /\ \A k \in Keys : k # calls[c].arg => jobs'[k] = jobs[k]
      /\ {"status", "generation", "attempt", "lease"} \subseteq DOMAIN jobs'[calls[c].arg]
      /\ jobs'[calls[c].arg].status # "running"
  BY <1>1 DEF Complete, FailSync, WriterInv, JobsTyped
<1>5. JobsTyped' /\ JobsOfRow' /\ OneLease'
  BY <1>2, <1>3, <1>4, JobsFewer DEF WriterInv, JobsTyped
<1>6. \A d \in Calls : calls'[d] = calls[d] \/ ~Reporting(d)'
  BY <1>1, <1>2, AnswerIs DEF Reporting, At, Idle
<1> QED BY <1>2, <1>5, <1>6, NoNewReport DEF WriterInv

\* The steps that replace the row.
LEMMA ReplaceKeepsWriters ==
  ASSUME WriterInv, NEW c \in Calls,
         \/ Authorize(c) \/ Disconnect(c)
         \/ \E listing \in Listings : SelectResource(c, listing)
         \/ \E resource \in Resources : ConnectClarity(c, resource)
  PROVE  JobsTyped' /\ JobsOfRow' /\ OneLease' /\ OwnAttempt'
<1>1. attempts' = attempts /\ jobs' = Cancelled /\ Answer(c)
  BY DEF Authorize, Disconnect, SelectResource, ConnectClarity
<1>2. \A d \in Calls : calls'[d] = calls[d] \/ ~Reporting(d)'
  BY <1>1, AnswerIs DEF WriterInv, TokensInv, Reporting, At, Idle
<1> QED BY <1>1, <1>2, JobsEnded, NoNewReport DEF WriterInv

\* The steps that touch no job.
LEMMA OthersKeepWriters ==
  ASSUME WriterInv, NEW c \in Calls,
         \/ \E op \in Operations : Begin(c, op)
         \/ TakeState(c) \/ View(c) \/ CheckConnect(c)
         \/ \E listing \in Listings : StoreGrant(c, listing) \/ StoreResources(c, listing)
         \/ \E code \in Codes : PersistFailure(c, code)
         \/ Refuse(c) \/ Lose(c)
  PROVE  JobsTyped' /\ JobsOfRow' /\ OneLease' /\ OwnAttempt'
<1>1. RowTyped(conn) /\ Typed
  BY DEF WriterInv, TokensInv, Typed
<1>2. attempts' = attempts /\ jobs' = jobs
  BY DEF Begin, TakeState, View, CheckConnect, StoreGrant, StoreResources, PersistFailure,
         Refuse, Lose
<1>3. conn'.generation = conn.generation
  <2>1. CASE \E listing \in Listings : StoreGrant(c, listing) \/ StoreResources(c, listing)
    BY <1>1, <2>1 DEF StoreGrant, StoreResources, Sealed, RowTyped
  <2>2. CASE \E code \in Codes : PersistFailure(c, code)
    BY <1>1, <2>2, FailedIs DEF PersistFailure
  <2> QED BY <2>1, <2>2 DEF Begin, TakeState, View, CheckConnect, Refuse, Lose
<1>4. \A d \in Calls : d # c => calls'[d] = calls[d]
  BY <1>1 DEF Begin, TakeState, View, CheckConnect, StoreGrant, StoreResources, PersistFailure,
              Refuse, Lose, Answer, Typed
<1>5. ~Reporting(c)'
  <2>1. CASE \E op \in Operations : Begin(c, op)
    <3>1. PICK op \in Operations : Begin(c, op)
      BY <2>1
    <3>2. calls'[c].at = FirstStep(op)
      BY <1>1, <3>1 DEF Begin, Typed, Idle
    <3> QED BY <3>2 DEF FirstStep, Reporting, At
  <2>2. CASE TakeState(c) \/ View(c) \/ CheckConnect(c)
    BY <1>1, <2>2 DEF TakeState, View, CheckConnect, Typed, CallTyped, Reporting, At
  <2>3. CASE Answer(c)
    BY <1>1, <2>3, AnswerIs DEF Reporting, At, Idle
  <2> QED BY <2>1, <2>2, <2>3 DEF StoreGrant, StoreResources, PersistFailure, Refuse, Lose
<1>6. JobsTyped' /\ JobsOfRow' /\ OneLease'
  BY <1>2, <1>3, JobsFewer DEF WriterInv, JobsTyped
<1> QED BY <1>2, <1>4, <1>5, <1>6, NoNewReport DEF WriterInv

LEMMA WriterStep == ASSUME WriterInv, [Next]_vars PROVE WriterInv'
<1>1. TokensInv'
  BY TokensNext DEF WriterInv
<1>2. CASE \E c \in Calls : Step(c)
  BY <1>1, <1>2, ReserveKeepsWriters, ReportKeepsWriters, ReplaceKeepsWriters, OthersKeepWriters
     DEF Step, WriterInv
<1>3. CASE \E k \in Keys : LeaseLapses(k)
  <2>1. UNCHANGED <<conn, calls, attempts>>
    BY <1>3 DEF LeaseLapses
  <2>2. JobsTyped' /\ JobsOfRow' /\ OneLease'
    BY <1>3, <2>1, JobsFewer DEF LeaseLapses, WriterInv, JobsTyped
  <2> QED BY <1>1, <2>1, <2>2, NoNewReport DEF WriterInv
<1>4. CASE SaveSetup
  <2>1. UNCHANGED <<calls, attempts>>
    BY <1>4 DEF SaveSetup
  <2>2. CASE jobs' = Cancelled
    BY <1>1, <2>1, <2>2, JobsEnded, NoNewReport DEF WriterInv
  <2>3. CASE UNCHANGED <<conn, jobs>>
    BY <1>1, <2>1, <2>3, JobsFewer, NoNewReport DEF WriterInv, JobsTyped
  <2> QED BY <1>4, <2>2, <2>3 DEF SaveSetup
<1>5. CASE UNCHANGED vars
  BY <1>1, <1>5, JobsFewer, NoNewReport DEF vars, WriterInv, JobsTyped
<1> QED BY <1>2, <1>3, <1>4, <1>5 DEF Next

\* However many managers and schedulers synchronize, retry and outlive their
\* lease, one of them at most may write, for a job of the row as it is.
THEOREM OneWriterAlways == Spec => []OneWriter
<1>1. Init => WriterInv
  BY TokensInit DEF Init, WriterInv, JobsTyped, JobsOfRow, OneLease, Leased, OwnAttempt, Reporting,
                    At, NoJob, Idle
<1>2. WriterInv /\ [Next]_vars => WriterInv'
  BY WriterStep
<1>3. WriterInv => OneWriter
  <2> SUFFICES ASSUME WriterInv PROVE OneWriter
    OBVIOUS
  <2> DEFINE writers == {c \in Calls : At(c, "sync", "report") /\ Authority(c)}
  <2>1. ASSUME NEW c \in writers, NEW d \in writers PROVE c = d
    <3>1. /\ Reporting(c) /\ Leased(calls[c].arg) /\ calls[c].arg \in Keys
          /\ jobs[calls[c].arg].attempt = calls[c].attempt
      BY DEF Authority, Leased, Reporting, At, WriterInv, TokensInv, Remembers
    <3>2. /\ Reporting(d) /\ Leased(calls[d].arg) /\ calls[d].arg \in Keys
          /\ jobs[calls[d].arg].attempt = calls[d].attempt
      BY DEF Authority, Leased, Reporting, At, WriterInv, TokensInv, Remembers
    <3>3. calls[c].arg = calls[d].arg
      BY <3>1, <3>2 DEF WriterInv, OneLease
    <3> QED BY <3>1, <3>2, <3>3 DEF WriterInv, OwnAttempt
  <2>2. Cardinality(writers) <= 1
    <3>1. CASE writers = {}
      BY <3>1, FS_EmptySet
    <3>2. CASE writers # {}
      <4>1. PICK c \in writers : writers = {c}
        BY <2>1, <3>2
      <4> QED BY <4>1, FS_Singleton
    <3> QED BY <3>1, <3>2
  <2> QED BY <2>2 DEF WriterInv, JobsOfRow, OneWriter
<1> QED BY <1>1, <1>2, <1>3, PTL DEF Spec

-----------------------------------------------------------------------------
(* Receipts. A running job has no receipt yet, so that the one publication   *)
(* its attempt may make is the first of its key, and a key that has its      *)
(* receipt is never reserved again.                                          *)

Published(shots, k) == {s \in shots : s.key = k}

JobsRecorded ==
  \A k \in Keys : /\ "receipt" \in DOMAIN jobs[k]
                  /\ jobs[k].receipt \in BOOLEAN
                  /\ jobs[k].status = "running" => ~jobs[k].receipt

ReceiptInv == WriterInv /\ JobsRecorded /\ ReceiptOfAttempt

\* Nothing is published, and no job gets a receipt or another attempt.
LEMMA NothingPublished ==
  ASSUME ReceiptInv,
         \A k \in Keys : Published(snapshots', k) = Published(snapshots, k),
         \A k \in Keys :
           /\ "receipt" \in DOMAIN jobs'[k]
           /\ jobs'[k].receipt = jobs[k].receipt
           /\ jobs'[k].attempt = jobs[k].attempt \/ ~jobs[k].receipt
           /\ jobs'[k].status = "running" => ~jobs[k].receipt
  PROVE  JobsRecorded' /\ ReceiptOfAttempt'
<1>1. JobsRecorded'
  BY DEF ReceiptInv, JobsRecorded
<1>2. ASSUME NEW k \in Keys
      PROVE  /\ jobs'[k].receipt <=> Published(snapshots', k) # {}
             /\ \A s \in Published(snapshots', k) : s.attempt = jobs'[k].attempt
  <2>1. jobs[k].receipt <=> Published(snapshots, k) # {}
    BY DEF ReceiptInv, ReceiptOfAttempt, Published
  <2>2. \A s \in Published(snapshots, k) : s.attempt = jobs[k].attempt
    BY DEF ReceiptInv, ReceiptOfAttempt, Published
  <2> QED BY <2>1, <2>2
<1>3. ReceiptOfAttempt'
  BY <1>2 DEF ReceiptOfAttempt, Published
<1> QED BY <1>1, <1>3

LEMMA CancelledRecords ==
  ASSUME JobsTyped, JobsRecorded, NEW k \in Keys
  PROVE  /\ "receipt" \in DOMAIN Cancelled[k]
         /\ Cancelled[k].receipt = jobs[k].receipt
         /\ Cancelled[k].attempt = jobs[k].attempt
         /\ Cancelled[k].status # "running"
BY DEF JobsTyped, JobsRecorded, Cancelled

\* The publication of the attempt that holds the job is the first of its key.
LEMMA CompleteKeepsReceipts ==
  ASSUME ReceiptInv, NEW c \in Calls, Complete(c)
  PROVE  JobsRecorded' /\ ReceiptOfAttempt'
<1>1. PICK k \in Keys : k = calls[c].arg
  BY DEF ReceiptInv, WriterInv, TokensInv, Remembers, Complete, At
<1> DEFINE shot == [key |-> k, attempt |-> calls[c].attempt,
                    generation |-> calls[c].generation, resource |-> calls[c].resource]
<1>2. jobs[k].attempt = calls[c].attempt /\ jobs[k].status = "running" /\ DOMAIN jobs = Keys
  BY <1>1 DEF Complete, Authority, ReceiptInv, WriterInv, JobsTyped
<1>3. Published(snapshots, k) = {}
  BY <1>1, <1>2 DEF ReceiptInv, JobsRecorded, ReceiptOfAttempt, Published
<1>4. snapshots' = snapshots \cup {shot}
  BY <1>1 DEF Complete
<1>5. /\ \A l \in Keys : l # k => jobs'[l] = jobs[l]
      /\ "receipt" \in DOMAIN jobs'[k] /\ jobs'[k].receipt = TRUE
      /\ jobs'[k].status = "completed" /\ jobs'[k].attempt = jobs[k].attempt
  BY <1>1, <1>2 DEF Complete, ReceiptInv, WriterInv, JobsTyped, JobsRecorded
<1>6. JobsRecorded'
  BY <1>1, <1>5 DEF ReceiptInv, JobsRecorded
<1>7. /\ Published(snapshots', k) = {shot}
      /\ \A l \in Keys : l # k => Published(snapshots', l) = Published(snapshots, l)
  BY <1>3, <1>4 DEF Published
<1>8. ASSUME NEW l \in Keys
      PROVE  /\ jobs'[l].receipt <=> Published(snapshots', l) # {}
             /\ \A s \in Published(snapshots', l) : s.attempt = jobs'[l].attempt
  <2>1. CASE l = k
    <3>1. Published(snapshots', l) = {shot} /\ shot.attempt = jobs'[l].attempt
      BY <1>2, <1>5, <1>7, <2>1
    <3>2. jobs'[l].receipt
      BY <1>5, <2>1, Zenon
    <3> HIDE DEF shot
    <3> QED BY <3>1, <3>2
  <2>2. CASE l # k
    <3>1. jobs[l].receipt <=> Published(snapshots, l) # {}
      BY DEF ReceiptInv, ReceiptOfAttempt, Published
    <3>2. \A s \in Published(snapshots, l) : s.attempt = jobs[l].attempt
      BY DEF ReceiptInv, ReceiptOfAttempt, Published
    <3> QED BY <1>5, <1>7, <2>2, <3>1, <3>2
  <2> QED BY <2>1, <2>2
<1> QED BY <1>6, <1>8 DEF ReceiptOfAttempt, Published

LEMMA ReceiptStep == ASSUME ReceiptInv, [Next]_vars PROVE ReceiptInv'
<1> USE DEF ReceiptInv
<1>1. WriterInv'
  BY WriterStep
<1>2. JobsTyped /\ DOMAIN jobs = Keys
  BY DEF WriterInv, JobsTyped
<1>3. CASE jobs' = jobs /\ snapshots' = snapshots
  <2>1. JobsRecorded' /\ ReceiptOfAttempt'
    BY <1>3 DEF JobsRecorded, ReceiptOfAttempt
  <2> QED BY <1>1, <2>1
<1>4. ASSUME jobs' = Cancelled, \A k \in Keys : Published(snapshots', k) = Published(snapshots, k)
      PROVE  JobsRecorded' /\ ReceiptOfAttempt'
  BY <1>2, <1>4, CancelledRecords, NothingPublished
<1>5. ASSUME NEW c \in Calls, Step(c) PROVE JobsRecorded' /\ ReceiptOfAttempt'
  <2>1. CASE Complete(c)
    BY <2>1, CompleteKeepsReceipts
  <2>2. CASE Reserve(c)
    <3>1. calls[c].arg \in Keys /\ ~jobs[calls[c].arg].receipt /\ snapshots' = snapshots
      BY <2>2 DEF Reserve, Reservable, WriterInv, TokensInv, Remembers, At
    <3>2. \A k \in Keys :
            /\ "receipt" \in DOMAIN jobs'[k]
            /\ jobs'[k].receipt = jobs[k].receipt
            /\ jobs'[k].attempt = jobs[k].attempt \/ ~jobs[k].receipt
            /\ jobs'[k].status = "running" => ~jobs[k].receipt
      BY <1>2, <2>2, <3>1 DEF Reserve, JobsRecorded
    <3> QED BY <3>1, <3>2, NothingPublished DEF Published
  <2>3. CASE \E code \in Codes : FailSync(c, code)
    <3>1. /\ calls[c].arg \in Keys /\ snapshots' = snapshots
          /\ jobs' = [jobs EXCEPT ![calls[c].arg].status = "error"]
      BY <2>3 DEF FailSync, WriterInv, TokensInv, Remembers, At
    <3>2. \A k \in Keys :
            /\ "receipt" \in DOMAIN jobs'[k]
            /\ jobs'[k].receipt = jobs[k].receipt
            /\ jobs'[k].attempt = jobs[k].attempt
            /\ jobs'[k].status = "running" => ~jobs[k].receipt
      BY <1>2, <3>1 DEF JobsRecorded, JobsTyped
    <3> QED BY <3>1, <3>2, NothingPublished DEF Published
  <2>4. CASE \/ Authorize(c) \/ Disconnect(c)
             \/ \E listing \in Listings : SelectResource(c, listing)
    <3>1. jobs' = Cancelled /\ snapshots' = snapshots
      BY <2>4 DEF Authorize, Disconnect, SelectResource
    <3> QED BY <1>4, <3>1 DEF Published
  <2>5. ASSUME NEW resource \in Resources, ConnectClarity(c, resource)
        PROVE  JobsRecorded' /\ ReceiptOfAttempt'
    <3>1. jobs' = Cancelled /\ \E s : s.key = None /\ snapshots' = snapshots \cup {s}
      BY <2>5 DEF ConnectClarity
    <3>2. \A k \in Keys : Published(snapshots', k) = Published(snapshots, k)
      BY <3>1, NoneAssumption DEF Published
    <3> QED BY <1>4, <3>1, <3>2
  <2>6. CASE \/ \E op \in Operations : Begin(c, op)
             \/ TakeState(c) \/ View(c) \/ CheckConnect(c)
             \/ \E listing \in Listings : StoreGrant(c, listing) \/ StoreResources(c, listing)
             \/ \E code \in Codes : PersistFailure(c, code)
             \/ Refuse(c) \/ Lose(c)
    <3>1. jobs' = jobs /\ snapshots' = snapshots
      BY <2>6 DEF Begin, TakeState, View, CheckConnect, StoreGrant, StoreResources, PersistFailure,
                  Refuse, Lose
    <3> QED BY <1>3, <3>1
  <2> QED BY <1>5, <2>1, <2>2, <2>3, <2>4, <2>5, <2>6 DEF Step
<1>6. ASSUME NEW l \in Keys, LeaseLapses(l) PROVE JobsRecorded' /\ ReceiptOfAttempt'
  <2>1. /\ snapshots' = snapshots
        /\ jobs' = [jobs EXCEPT ![l].lease = FALSE]
    BY <1>6 DEF LeaseLapses
  <2>2. \A k \in Keys :
          /\ "receipt" \in DOMAIN jobs'[k]
          /\ jobs'[k].receipt = jobs[k].receipt
          /\ jobs'[k].attempt = jobs[k].attempt
          /\ jobs'[k].status = "running" => ~jobs[k].receipt
    BY <1>2, <2>1 DEF JobsRecorded, JobsTyped
  <2> QED BY <2>1, <2>2, NothingPublished DEF Published
<1>7. CASE SaveSetup
  <2>1. snapshots' = snapshots /\ (jobs' = Cancelled \/ jobs' = jobs)
    BY <1>7 DEF SaveSetup
  <2>2. \A k \in Keys : Published(snapshots', k) = Published(snapshots, k)
    BY <2>1 DEF Published
  <2> QED BY <1>1, <1>3, <1>4, <2>1, <2>2
<1>8. CASE UNCHANGED vars
  BY <1>3, <1>8 DEF vars
<1> QED BY <1>1, <1>5, <1>6, <1>7, <1>8 DEF Next

\* However often a key is retried, taken over or outlives its lease, it has its
\* receipt exactly when it has published, and only its own attempt has.
THEOREM ReceiptsOfAttempts == Spec => []ReceiptOfAttempt
<1>1. Init => ReceiptInv
  <2>1. Init => WriterInv
    BY TokensInit DEF Init, WriterInv, JobsTyped, JobsOfRow, OneLease, Leased, OwnAttempt,
                      Reporting,
                      At, NoJob, Idle
  <2>2. "receipt" \in DOMAIN NoJob /\ NoJob.receipt = FALSE
    BY DEF NoJob
  <2>3. Init => JobsRecorded
    BY <2>2 DEF Init, JobsRecorded
  <2>4. Init => ReceiptOfAttempt
    BY <2>2 DEF Init, ReceiptOfAttempt
  <2> QED BY <2>1, <2>3, <2>4 DEF ReceiptInv
<1>2. ReceiptInv /\ [Next]_vars => ReceiptInv'
  BY ReceiptStep
<1>3. ReceiptInv => ReceiptOfAttempt
  BY DEF ReceiptInv
<1> QED BY <1>1, <1>2, <1>3, PTL DEF Spec

-----------------------------------------------------------------------------
(* What is published is fresh. A synchronization that still works on the     *)
(* generation of the row measures the resource the row has selected, because *)
(* nothing changes the selection within a generation.                        *)

Chosen(c) ==
  /\ "resource" \in DOMAIN calls[c]
  /\ calls[c].op = "sync" /\ calls[c].at \in {"reserve", "report"}
       /\ calls[c].generation = conn.generation => calls[c].resource = conn.selected

FreshInv == TokensInv /\ "selected" \in DOMAIN conn /\ \A c \in Calls : Chosen(c)

LEMMA IdleChosen == ASSUME NEW c \in Calls, calls[c] = Idle PROVE Chosen(c)
BY DEF Idle, Chosen

\* A row keeps its selection or leaves the generation its calls remember.
LEMMA ChosenKept ==
  ASSUME FreshInv, TokensInv', "selected" \in DOMAIN conn',
         \/ conn'.generation = conn.generation /\ conn'.selected = conn.selected
         \/ conn'.generation = conn.generation + 1,
         \A d \in Calls : calls'[d] = calls[d] \/ Chosen(d)'
  PROVE  FreshInv'
<1>1. ASSUME NEW d \in Calls, calls'[d] = calls[d] PROVE Chosen(d)'
  <2>1. calls[d].generation <= conn.generation /\ calls[d].generation \in Nat /\ conn.generation \in Nat
    BY DEF FreshInv, TokensInv, Remembers, Typed, CallTyped, RowTyped
  <2>2. Chosen(d)
    BY DEF FreshInv
  <2> QED BY <1>1, <2>1, <2>2 DEF Chosen
<1> QED BY <1>1 DEF FreshInv

LEMMA AnsweredChosen ==
  ASSUME Typed, NEW c \in Calls, Answer(c)
  PROVE  \A d \in Calls : calls'[d] = calls[d] \/ Chosen(d)'
<1>1. ASSUME NEW d \in Calls, calls'[d] = Idle PROVE Chosen(d)'
  BY <1>1 DEF Idle, Chosen
<1> QED BY <1>1, AnswerIs

\* What the operators on rows do to the selection.
LEMMA SelectionOf ==
  ASSUME NEW row, RowTyped(row), "selected" \in DOMAIN row
  PROVE  /\ \A s : "selected" \in DOMAIN Emptied(row, s)
         /\ "selected" \in DOMAIN NextVersion(row)
         /\ \A g, n : /\ "selected" \in DOMAIN Sealed(row, g, n)
                      /\ Sealed(row, g, n).selected = row.selected
                      /\ Sealed(row, g, n).generation = row.generation
         /\ \A code : /\ "selected" \in DOMAIN Failed(row, code)
                      /\ Failed(row, code).selected = row.selected
BY DEF RowTyped, Emptied, NextVersion, Sealed, Failed

LEMMA RefreshKeepsSelection ==
  ASSUME Typed, "selected" \in DOMAIN conn, NEW c \in Calls, NEW listing,
         StoreGrant(c, listing) \/ StoreResources(c, listing) \/ Complete(c)
  PROVE  /\ "selected" \in DOMAIN conn'
         /\ conn'.generation = conn.generation /\ conn'.selected = conn.selected
<1> DEFINE grant == IF StoreGrant(c, listing) THEN calls[c].generation ELSE calls[c].grant
           row   == Sealed(conn, grant, calls[c].generation)
<1>1. /\ "selected" \in DOMAIN row /\ row.selected = conn.selected
      /\ row.generation = conn.generation /\ "generation" \in DOMAIN row
  BY SelectionOf DEF Typed, RowTyped, Sealed
<1> HIDE DEF row
<1>2. \/ conn' = [row EXCEPT !.status = "pending_resource", !.resources = listing,
                             !.error = "none", !.version = @ + 1]
      \/ conn' = [row EXCEPT !.resources = listing]
      \/ conn' = [row EXCEPT !.status = "connected", !.error = "none"]
  BY DEF StoreGrant, StoreResources, Complete, row
<1> QED BY <1>1, <1>2

LEMMA ReplacementAdvances ==
  ASSUME Typed, "selected" \in DOMAIN conn, NEW c \in Calls,
         \/ Authorize(c) \/ Disconnect(c)
         \/ \E listing \in Listings : SelectResource(c, listing)
         \/ \E resource \in Resources : ConnectClarity(c, resource)
  PROVE  "selected" \in DOMAIN conn' /\ conn'.generation = conn.generation + 1
<1>1. RowTyped(conn) /\ conn.generation \in Nat
  BY DEF Typed, RowTyped
<1>2. CASE Authorize(c)
  <2>1. /\ "selected" \in DOMAIN Emptied(conn, "prepared")
        /\ "generation" \in DOMAIN Emptied(conn, "prepared")
        /\ Emptied(conn, "prepared").generation = conn.generation + 1
    BY <1>1, SelectionOf, EmptiedIs DEF RowTyped
  <2> QED BY <1>2, <2>1 DEF Authorize
<1>3. CASE Disconnect(c)
  BY <1>1, <1>3, SelectionOf, EmptiedIs DEF Disconnect
<1>4. ASSUME NEW listing \in Listings, SelectResource(c, listing)
      PROVE  "selected" \in DOMAIN conn' /\ conn'.generation = conn.generation + 1
  <2> DEFINE row == Sealed(NextVersion(conn), calls[c].grant, calls[c].generation + 1)
  <2>1. /\ RowTyped(NextVersion(conn)) /\ "selected" \in DOMAIN NextVersion(conn)
        /\ NextVersion(conn).generation = conn.generation + 1
    BY <1>1, NextVersionIs, SelectionOf
  <2>2. /\ "selected" \in DOMAIN row /\ "generation" \in DOMAIN row
        /\ row.generation = conn.generation + 1
    BY <2>1 DEF Sealed, RowTyped
  <2>3. conn' = [row EXCEPT !.status = "connected", !.resources = listing,
                            !.selected = calls[c].arg, !.error = "none"]
    BY <1>4 DEF SelectResource
  <2> HIDE DEF row
  <2> QED BY <2>2, <2>3
<1>5. ASSUME NEW resource \in Resources, ConnectClarity(c, resource)
      PROVE  "selected" \in DOMAIN conn' /\ conn'.generation = conn.generation + 1
  <2> DEFINE row == Sealed(NextVersion(conn), conn.generation + 1, conn.generation + 1)
  <2>1. /\ RowTyped(NextVersion(conn)) /\ "selected" \in DOMAIN NextVersion(conn)
        /\ NextVersion(conn).generation = conn.generation + 1
    BY <1>1, NextVersionIs, SelectionOf
  <2>2. /\ "selected" \in DOMAIN row /\ "generation" \in DOMAIN row
        /\ row.generation = conn.generation + 1
    BY <2>1 DEF Sealed, RowTyped
  <2>3. conn' = [row EXCEPT !.status = "connected", !.resources = {resource},
                            !.selected = resource, !.error = "none"]
    BY <1>5 DEF ConnectClarity
  <2> HIDE DEF row
  <2> QED BY <2>2, <2>3
<1> QED BY <1>2, <1>3, <1>4, <1>5

\* The steps that bring a call to its next transaction: a synchronization takes
\* the selection along when it reads the row.
LEMMA MovesChoose ==
  ASSUME FreshInv, NEW c \in Calls,
         (\E op \in Operations : Begin(c, op)) \/ TakeState(c) \/ View(c) \/ CheckConnect(c) \/ Reserve(c)
  PROVE  conn' = conn /\ \A d \in Calls : calls'[d] = calls[d] \/ Chosen(d)'
<1>1. /\ Typed /\ CallTyped(calls[c]) /\ "resource" \in DOMAIN calls[c] /\ Chosen(c)
  BY DEF FreshInv, TokensInv, Typed, Chosen
<1>2. conn' = conn /\ \A d \in Calls : d # c => calls'[d] = calls[d]
  BY <1>1 DEF Begin, TakeState, View, CheckConnect, Reserve, Typed
<1>3. ASSUME NEW op \in Operations, Begin(c, op) PROVE Chosen(c)'
  <2>1. PICK arg \in Arguments(op) :
          calls' = [calls EXCEPT ![c] =
                      [Idle EXCEPT !.op = op, !.at = FirstStep(op), !.arg = arg,
                                   !.runtime = publication,
                                   !.expected = IF op \in Guarded THEN conn.version ELSE 0]]
    BY <1>3 DEF Begin
  <2>2. calls'[c].op = op /\ calls'[c].at = FirstStep(op) /\ "resource" \in DOMAIN calls'[c]
    BY <1>1, <2>1 DEF Typed, Idle
  <2>3. op = "sync" => FirstStep(op) = "view"
    BY DEF FirstStep
  <2> QED BY <2>2, <2>3 DEF Chosen
<1>4. ASSUME TakeState(c) \/ CheckConnect(c) PROVE Chosen(c)'
  <2>1. "resource" \in DOMAIN calls'[c]
    BY <1>1, <1>4 DEF TakeState, CheckConnect, Typed, CallTyped
  <2>2. calls'[c].op = "sync" => FALSE
    BY <1>1, <1>4 DEF TakeState, CheckConnect, At, Typed, CallTyped
  <2> QED BY <2>1, <2>2 DEF Chosen
<1>5. ASSUME View(c) PROVE Chosen(c)'
  <2>1. /\ "resource" \in DOMAIN calls'[c]
        /\ calls'[c].op = calls[c].op
        /\ calls[c].op = "sync" => calls'[c].resource = conn.selected
    BY <1>1, <1>5 DEF View, Typed, CallTyped
  <2> QED BY <1>2, <2>1 DEF Chosen
<1>6. ASSUME Reserve(c) PROVE Chosen(c)'
  <2>1. /\ "resource" \in DOMAIN calls'[c] /\ calls[c].op = "sync" /\ calls[c].at = "reserve"
        /\ calls'[c].generation = calls[c].generation /\ calls'[c].resource = calls[c].resource
    BY <1>1, <1>6 DEF Reserve, At, Typed, CallTyped
  <2> QED BY <1>1, <1>2, <2>1 DEF Chosen
<1>7. Chosen(c)'
  BY <1>3, <1>4, <1>5, <1>6
<1> QED BY <1>2, <1>7

LEMMA FreshStep == ASSUME FreshInv, [Next]_vars PROVE FreshInv'
<1>1. TokensInv' /\ Typed /\ RowTyped(conn) /\ "selected" \in DOMAIN conn
  BY TokensNext DEF FreshInv, TokensInv, Typed
<1>2. ASSUME NEW c \in Calls, Step(c) PROVE FreshInv'
  <2>1. CASE \/ \E op \in Operations : Begin(c, op)
             \/ TakeState(c) \/ View(c) \/ CheckConnect(c) \/ Reserve(c)
    BY <1>1, <2>1, MovesChoose, ChosenKept
  <2>2. CASE \/ Authorize(c) \/ Disconnect(c)
             \/ \E listing \in Listings : SelectResource(c, listing)
             \/ \E resource \in Resources : ConnectClarity(c, resource)
    <3>1. Answer(c)
      BY <2>2 DEF Authorize, Disconnect, SelectResource, ConnectClarity
    <3> QED BY <1>1, <2>2, <3>1, ReplacementAdvances, AnsweredChosen, ChosenKept
  <2>3. CASE \/ \E listing \in Listings : StoreGrant(c, listing) \/ StoreResources(c, listing)
             \/ Complete(c)
    <3>1. Answer(c)
      BY <2>3 DEF StoreGrant, StoreResources, Complete
    <3> QED BY <1>1, <2>3, <3>1, RefreshKeepsSelection, AnsweredChosen, ChosenKept
  <2>4. CASE \E code \in Codes : FailSync(c, code) \/ PersistFailure(c, code)
    <3>1. PICK code \in Codes : Answer(c) /\ conn' = Failed(conn, code)
      BY <2>4 DEF FailSync, PersistFailure
    <3>2. /\ "selected" \in DOMAIN conn'
          /\ conn'.generation = conn.generation /\ conn'.selected = conn.selected
      BY <1>1, <3>1, FailedIs, SelectionOf
    <3> QED BY <1>1, <3>1, <3>2, AnsweredChosen, ChosenKept
  <2>5. CASE Refuse(c) \/ Lose(c)
    <3>1. Answer(c) /\ conn' = conn
      BY <2>5 DEF Refuse, Lose
    <3> QED BY <1>1, <3>1, AnsweredChosen, ChosenKept
  <2> QED BY <1>2, <2>1, <2>2, <2>3, <2>4, <2>5 DEF Step
<1>3. CASE (\E k \in Keys : LeaseLapses(k)) \/ UNCHANGED vars
  <2>1. UNCHANGED <<conn, calls>>
    BY <1>3 DEF LeaseLapses, vars
  <2> QED BY <1>1, <2>1, ChosenKept
<1>4. CASE SaveSetup
  <2>1. calls' = calls /\ (conn' = conn \/ conn' = Emptied(conn, "prepared"))
    BY <1>4 DEF SaveSetup
  <2>2. CASE conn' = conn
    BY <1>1, <2>1, <2>2, ChosenKept
  <2>3. CASE conn' = Emptied(conn, "prepared")
    <3>1. "selected" \in DOMAIN conn' /\ conn'.generation = conn.generation + 1
      BY <1>1, <2>3, EmptiedIs, SelectionOf
    <3> QED BY <1>1, <2>1, <3>1, ChosenKept
  <2> QED BY <2>1, <2>2, <2>3
<1> QED BY <1>2, <1>3, <1>4 DEF Next

\* What a step publishes was measured for the row the step leaves behind.
LEMMA PublishesFresh ==
  ASSUME FreshInv, [Next]_vars, NEW s \in snapshots' \ snapshots
  PROVE  s.generation = conn'.generation /\ s.resource = conn'.selected
<1>1. Typed /\ RowTyped(conn) /\ conn.generation \in Nat /\ "selected" \in DOMAIN conn
  BY DEF FreshInv, TokensInv, Typed, RowTyped
<1>2. PICK c \in Calls : Complete(c) \/ \E resource \in Resources : ConnectClarity(c, resource)
  <2>1. snapshots' # snapshots
    OBVIOUS
  <2>2. CASE \E c \in Calls : Step(c)
    <3>1. PICK c \in Calls : Step(c)
      BY <2>2
    <3>2. CASE \/ \E op \in Operations : Begin(c, op)
               \/ Authorize(c) \/ TakeState(c) \/ View(c) \/ Disconnect(c) \/ Reserve(c)
               \/ CheckConnect(c) \/ Refuse(c) \/ Lose(c)
      BY <2>1, <3>2 DEF Begin, Authorize, TakeState, View, Disconnect, Reserve, CheckConnect,
                        Refuse, Lose
    <3>3. CASE \E listing \in Listings : \/ StoreGrant(c, listing)
                                         \/ StoreResources(c, listing)
                                         \/ SelectResource(c, listing)
      BY <2>1, <3>3 DEF StoreGrant, StoreResources, SelectResource
    <3>4. CASE \E code \in Codes : FailSync(c, code) \/ PersistFailure(c, code)
      BY <2>1, <3>4 DEF FailSync, PersistFailure
    <3> QED BY <3>1, <3>2, <3>3, <3>4 DEF Step
  <2>3. CASE (\E k \in Keys : LeaseLapses(k)) \/ SaveSetup \/ UNCHANGED vars
    BY <2>1, <2>3 DEF LeaseLapses, SaveSetup, vars
  <2> QED BY <2>2, <2>3 DEF Next
<1>3. CASE Complete(c)
  <2>1. s.generation = calls[c].generation /\ s.resource = calls[c].resource
    BY <1>3 DEF Complete
  <2>2. calls[c].generation = conn.generation /\ calls[c].resource = conn.selected
    BY <1>3 DEF Complete, Authority, SameGeneration, At, FreshInv, Chosen
  <2> QED BY <1>1, <1>3, <2>1, <2>2, RefreshKeepsSelection
<1>4. ASSUME NEW resource \in Resources, ConnectClarity(c, resource)
      PROVE  s.generation = conn'.generation /\ s.resource = conn'.selected
  <2> DEFINE row == Sealed(NextVersion(conn), conn.generation + 1, conn.generation + 1)
  <2>1. s.generation = conn.generation + 1 /\ s.resource = resource
    BY <1>4 DEF ConnectClarity
  <2>2. RowTyped(NextVersion(conn)) /\ "selected" \in DOMAIN NextVersion(conn)
    BY <1>1, NextVersionIs, SelectionOf
  <2>3. "selected" \in DOMAIN row
    BY <2>2 DEF Sealed
  <2>4. conn' = [row EXCEPT !.status = "connected", !.resources = {resource},
                            !.selected = resource, !.error = "none"]
    BY <1>4 DEF ConnectClarity
  <2> HIDE DEF row
  <2>5. conn'.selected = resource
    BY <2>3, <2>4
  <2>6. conn'.generation = conn.generation + 1
    BY <1>1, <1>4, ReplacementAdvances
  <2> QED BY <2>1, <2>5, <2>6
<1> QED BY <1>2, <1>3, <1>4

\* Whatever was selected, connected or disconnected while the provider was being
\* asked: what is published is of the resource and generation of that moment.
THEOREM PublicationsFresh == Spec => FreshPublication
<1>1. Init => FreshInv
  <2>1. Init => "selected" \in DOMAIN conn /\ \A c \in Calls : Chosen(c)
    BY IdleChosen DEF Init, Absent
  <2> QED BY <2>1, TokensInit DEF FreshInv
<1>2. FreshInv /\ [Next]_vars => FreshInv'
  BY FreshStep
<1>3. FreshInv /\ [Next]_vars =>
        [\A s \in snapshots' \ snapshots :
           /\ s.generation = conn'.generation
           /\ s.resource = conn'.selected]_vars
  BY PublishesFresh
<1> QED BY <1>1, <1>2, <1>3, PTL DEF Spec, FreshPublication
=============================================================================
