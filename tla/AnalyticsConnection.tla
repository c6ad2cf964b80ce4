------------------------- MODULE AnalyticsConnection -------------------------
(***************************************************************************)
(* One web analytics connection of a tenant: WebAnalyticsService in        *)
(* services/marketing-ops/src/domain/webAnalytics.ts over the tables of    *)
(* migration 0022, and the part of AdsIntegrationService.saveSetup that    *)
(* replaces the Google application under it.                               *)
(*                                                                         *)
(* Every operation is a chain of short transactions with calls to Google   *)
(* or to Clarity between them.  All transactions of a tenant take the same *)
(* two advisory locks, so one transaction is one step; whatever a call     *)
(* remembers from one to the next may be stale, and the generation of the  *)
(* row, the attempt of the job and its lease are what the code compares.   *)
(* The two providers of a tenant share nothing but the locks and the       *)
(* Google application, so a behaviour is about one of them.                *)
(***************************************************************************)
EXTENDS Naturals, FiniteSets

CONSTANTS
  Calls,            \* concurrent calls: managers' requests and the scheduler
  Keys,             \* idempotency keys of synchronizations and of connects
  Resources,        \* the properties or projects that can be measured
  Listings,         \* the sets of resources the provider may answer with
  Budget,           \* how often each operation is called
  MaxPublications,  \* how often the Google application is replaced
  None

ASSUME ResourceAssumption == Listings \subseteq SUBSET Resources

Operations == {"authorize", "callback", "resources", "select", "disconnect",
               "sync", "connect"}

ASSUME BudgetAssumption == Budget \in [Operations -> Nat]
ASSUME NoneAssumption == None \notin Keys \cup Resources

VARIABLES
  provider,     \* "ga4" or "clarity": which row this is
  conn,         \* web_analytics_connections; generation 0: there is no row
  oauth,        \* web_analytics_oauth_states by the generation they carry
  jobs,         \* web_analytics_jobs by idempotency key
  receipts,     \* web_analytics_receipts: keys of Clarity connects
  snapshots,    \* web_analytics_snapshots, with the job attempt behind them
  publication,  \* version of the Google application; 0: from the environment
  attempts,     \* attempts drawn so far: randomUUID never repeats
  consent,      \* generation of the authorization in force; 0: none
  budget,
  calls         \* what each call in progress remembers

vars == <<provider, conn, oauth, jobs, receipts, snapshots, publication,
          attempts, consent, budget, calls>>

(* What a failed provider call is reported as: two codes change the        *)
(* status of the row, "unavailable" stands for the others, quota included. *)
Codes == {"reconnect", "permission", "unavailable"}

Statuses == {"none", "prepared", "pending_resource", "connected", "disconnected",
             "reconnect_required", "error"}

Idle == [op |-> "none", at |-> "none", runtime |-> 0, expected |-> 0,
         arg |-> None, generation |-> 0, grant |-> 0, resource |-> None,
         attempt |-> 0]

Absent == [status |-> "none", version |-> 0, generation |-> 0, config |-> 0,
           grant |-> 0, sealed |-> 0, resources |-> {}, selected |-> None,
           error |-> "none"]

NoJob == [status |-> "none", generation |-> 0, attempt |-> 0, lease |-> FALSE,
          receipt |-> FALSE]

MaxGeneration ==
  Budget["authorize"] + Budget["select"] + Budget["disconnect"]
    + Budget["connect"] + MaxPublications

OfProvider(op) ==
  \/ op \in {"disconnect", "sync"}
  \/ provider = "ga4" /\ op \in {"authorize", "callback", "resources", "select"}
  \/ provider = "clarity" /\ op = "connect"

Arguments(op) ==
  CASE op = "callback" -> {g \in DOMAIN oauth : oauth[g].status # "none"}
    [] op = "select" -> Resources
    [] op \in {"sync", "connect"} -> Keys
    [] OTHER -> {None}

(* The operations whose caller states the version it has seen.             *)
Guarded == {"select", "disconnect", "connect"}

FirstStep(op) ==
  CASE op \in {"resources", "select", "sync"} -> "view"
    [] op = "callback" -> "take"
    [] op = "connect" -> "check"
    [] OTHER -> "commit"

Init ==
  /\ provider \in {"ga4", "clarity"}
  /\ conn = Absent
  /\ oauth = [g \in 1..MaxGeneration |-> [status |-> "none", config |-> 0]]
  /\ jobs = [k \in Keys |-> NoJob]
  /\ receipts = {}
  /\ snapshots = {}
  /\ publication = 0
  /\ attempts = 0
  /\ consent = 0
  /\ budget = Budget
  /\ calls = [c \in Calls |-> Idle]

-----------------------------------------------------------------------------
(* Helpers                                                                 *)

At(c, op, at) == calls[c].op = op /\ calls[c].at = at

Answer(c) == calls' = [calls EXCEPT ![c] = Idle]

(* The Google application a call read when it began must still be the one  *)
(* in force in each of its transactions.                                   *)
Fence(c) == calls[c].runtime = publication

Observed(c) == calls[c].expected = conn.version

SameGeneration(c) == calls[c].generation = conn.generation

(* Every replacement of the row ends the jobs and the open OAuth states    *)
(* of the row it replaces.                                                 *)
Cancelled ==
  [k \in Keys |-> IF jobs[k].status = "running"
                  THEN [jobs[k] EXCEPT !.status = "cancelled"]
                  ELSE jobs[k]]

Consumed ==
  [g \in DOMAIN oauth |-> IF oauth[g].status = "open"
                          THEN [oauth[g] EXCEPT !.status = "consumed"]
                          ELSE oauth[g]]

NextVersion(row) == [row EXCEPT !.generation = @ + 1, !.version = @ + 1]

(* The row without credentials: authorize, disconnect and a new            *)
(* application leave it in this form under their own status.               *)
Emptied(row, status) ==
  [NextVersion(row) EXCEPT !.status = status, !.grant = 0, !.sealed = 0,
                     !.resources = {}, !.selected = None, !.error = "none"]

(* A token is sealed for one generation and opens under no other.          *)
Sealed(row, grant, generation) ==
  [row EXCEPT !.grant = grant, !.sealed = generation]

StatusAfter(code, status) ==
  CASE code = "reconnect" -> "reconnect_required"
    [] code = "permission" -> "error"
    [] OTHER -> status

Failed(row, code) ==
  [row EXCEPT !.error = code, !.status = StatusAfter(code, @)]

\* Mutant: the job may have passed to another attempt meanwhile.
AuthorityOfJob(c) ==
  LET job == jobs[calls[c].arg]
  IN  SameGeneration(c) /\ job.status = "running" /\ job.lease

(* A synchronization may write for its job while its attempt is the one    *)
(* the running job names, under a lease, on the row it has read.           *)
Authority(c) ==
  LET job == jobs[calls[c].arg]
  IN  /\ SameGeneration(c)
      /\ job.attempt = calls[c].attempt
      /\ job.status = "running"
      /\ job.lease

-----------------------------------------------------------------------------
(* A call begins: it reads the application in force; its caller may have   *)
(* seen a version of the row.                                              *)
Begin(c, op) ==
  /\ calls[c] = Idle
  /\ OfProvider(op)
  /\ budget[op] > 0
  /\ \E arg \in Arguments(op) :
       calls' = [calls EXCEPT ![c] =
                   [Idle EXCEPT !.op = op, !.at = FirstStep(op), !.arg = arg,
                                !.runtime = publication,
                                !.expected = IF op \in Guarded THEN conn.version
                                             ELSE 0]]
  /\ budget' = [budget EXCEPT ![op] = @ - 1]
  /\ UNCHANGED <<provider, conn, oauth, jobs, receipts, snapshots, publication,
                 attempts, consent>>

(* authorize: the row starts over, and one OAuth state is opened for its   *)
(* new generation.                                                         *)
Authorize(c) ==
  /\ At(c, "authorize", "commit")
  /\ Fence(c)
  /\ conn' = [Emptied(conn, "prepared") EXCEPT !.config = publication]
  /\ oauth' = [Consumed EXCEPT ![conn.generation + 1] =
                 [status |-> "open", config |-> publication]]
  /\ jobs' = Cancelled
  /\ consent' = conn.generation + 1
  /\ Answer(c)
  /\ UNCHANGED <<provider, receipts, snapshots, publication, attempts, budget>>

(* callback, first transaction: the state is consumed before Google sees   *)
(* the code.                                                               *)
StateValid(c) ==
  LET state == oauth[calls[c].arg]
  IN  /\ state.status = "open"
      /\ calls[c].arg = conn.generation
      /\ state.config = calls[c].runtime

TakeState(c) ==
  /\ At(c, "callback", "take")
  /\ Fence(c)
  /\ StateValid(c)
  /\ oauth' = [oauth EXCEPT ![calls[c].arg].status = "consumed"]
  /\ calls' = [calls EXCEPT ![c].at = "exchange", ![c].generation = conn.generation]
  /\ UNCHANGED <<provider, conn, jobs, receipts, snapshots, publication, attempts,
                 consent, budget>>

(* callback, second transaction: the tokens Google has given are stored,   *)
(* unless the row has moved on meanwhile.                                  *)
StoreGrant(c, listing) ==
  /\ At(c, "callback", "exchange")
  /\ Fence(c)
  /\ SameGeneration(c)
  /\ conn' = [Sealed(conn, calls[c].generation, calls[c].generation)
                EXCEPT !.status = "pending_resource", !.resources = listing,
                       !.error = "none", !.version = @ + 1]
  /\ Answer(c)
  /\ UNCHANGED <<provider, oauth, jobs, receipts, snapshots, publication, attempts,
                 consent, budget>>

(* snapshot: the credentials and the generation a call works with from     *)
(* here on.  selectResource goes on to check the version its caller saw,   *)
(* and sync that a resource is selected.                                   *)
Viewable(c) ==
  /\ conn.grant # 0
  /\ conn.sealed = conn.generation
  /\ provider = "ga4" => conn.config = calls[c].runtime
  /\ calls[c].op = "select" => Observed(c)
  /\ calls[c].op = "sync" => conn.selected \in conn.resources

View(c) ==
  /\ calls[c].at = "view"
  /\ Fence(c)
  /\ Viewable(c)
  /\ calls' = [calls EXCEPT
                 ![c].at = IF calls[c].op = "sync" THEN "reserve" ELSE "list",
                 ![c].generation = conn.generation,
                 ![c].grant = conn.grant,
                 ![c].resource = IF calls[c].op = "sync" THEN conn.selected ELSE None]
  /\ UNCHANGED <<provider, conn, oauth, jobs, receipts, snapshots, publication,
                 attempts, consent, budget>>

\* Mutant: the refreshed token is stored whatever has become of the row.
StoreResourcesLate(c, listing) ==
  /\ At(c, "resources", "list")
  /\ Fence(c)
  /\ conn' = [Sealed(conn, calls[c].grant, calls[c].generation)
                EXCEPT !.resources = listing]
  /\ Answer(c)
  /\ UNCHANGED <<provider, oauth, jobs, receipts, snapshots, publication, attempts,
                 consent, budget>>

(* resources: the fresh list and the refreshed token replace the stored.   *)
StoreResources(c, listing) ==
  /\ At(c, "resources", "list")
  /\ Fence(c)
  /\ SameGeneration(c)
  /\ conn' = [Sealed(conn, calls[c].grant, calls[c].generation)
                EXCEPT !.resources = listing]
  /\ Answer(c)
  /\ UNCHANGED <<provider, oauth, jobs, receipts, snapshots, publication, attempts,
                 consent, budget>>

\* Mutant: the choice changes the row in place, within its generation.
SelectInPlace(c, listing) ==
  /\ At(c, "select", "list")
  /\ Fence(c)
  /\ calls[c].arg \in listing
  /\ Observed(c)
  /\ SameGeneration(c)
  /\ conn' = [Sealed(conn, calls[c].grant, calls[c].generation)
                EXCEPT !.status = "connected", !.resources = listing,
                       !.selected = calls[c].arg, !.error = "none",
                       !.version = @ + 1]
  /\ oauth' = Consumed
  /\ jobs' = Cancelled
  /\ Answer(c)
  /\ UNCHANGED <<provider, receipts, snapshots, publication, attempts, consent,
                 budget>>

(* selectResource: the choice starts a generation, under which the token   *)
(* is sealed anew, and ends the jobs that measure the former choice.       *)
SelectResource(c, listing) ==
  /\ At(c, "select", "list")
  /\ Fence(c)
  /\ calls[c].arg \in listing
  /\ Observed(c)
  /\ SameGeneration(c)
  /\ conn' = [Sealed(NextVersion(conn), calls[c].grant, calls[c].generation + 1)
                EXCEPT !.status = "connected", !.resources = listing,
                       !.selected = calls[c].arg, !.error = "none"]
  /\ oauth' = Consumed
  /\ jobs' = Cancelled
  /\ Answer(c)
  /\ UNCHANGED <<provider, receipts, snapshots, publication, attempts, consent,
                 budget>>

Disconnect(c) ==
  /\ At(c, "disconnect", "commit")
  /\ Fence(c)
  /\ Observed(c)
  /\ conn.generation # 0
  /\ conn' = Emptied(conn, "disconnected")
  /\ oauth' = IF provider = "ga4" THEN Consumed ELSE oauth
  /\ jobs' = Cancelled
  /\ consent' = 0
  /\ Answer(c)
  /\ UNCHANGED <<provider, receipts, snapshots, publication, attempts, budget>>

-----------------------------------------------------------------------------
(* sync                                                                    *)

\* Mutant: only a job of the same key is in the way.
ReservableBesideOthers(c) ==
  LET job == jobs[calls[c].arg]
  IN  /\ SameGeneration(c)
      /\ ~job.receipt
      /\ job.generation \in {0, calls[c].generation}
      /\ ~(job.status = "running" /\ job.lease)

(* The job of the key, taken over under a new attempt or made now: not     *)
(* when it has its receipt, which is the answer then, nor when it was made *)
(* under another generation, nor while a job holds a lease.                *)
Reservable(c) ==
  LET job == jobs[calls[c].arg]
  IN  /\ SameGeneration(c)
      /\ ~job.receipt
      /\ job.generation \in {0, calls[c].generation}
      /\ ~\E k \in Keys : jobs[k].status = "running" /\ jobs[k].lease

Reserve(c) ==
  /\ At(c, "sync", "reserve")
  /\ Fence(c)
  /\ Reservable(c)
  /\ attempts' = attempts + 1
  /\ jobs' = [jobs EXCEPT ![calls[c].arg] =
                [status |-> "running", generation |-> calls[c].generation,
                 attempt |-> attempts + 1, lease |-> TRUE, receipt |-> FALSE]]
  /\ calls' = [calls EXCEPT ![c].at = "report", ![c].attempt = attempts + 1]
  /\ UNCHANGED <<provider, conn, oauth, receipts, snapshots, publication, consent,
                 budget>>

(* The measurement is published, the job gets its receipt and the row the  *)
(* refreshed token, in one transaction.                                    *)
Complete(c) ==
  /\ At(c, "sync", "report")
  /\ Fence(c)
  /\ Authority(c)
  /\ snapshots' = snapshots \cup
       {[key |-> calls[c].arg, attempt |-> calls[c].attempt,
         generation |-> calls[c].generation, resource |-> calls[c].resource]}
  /\ jobs' = [jobs EXCEPT ![calls[c].arg].status = "completed",
                          ![calls[c].arg].receipt = TRUE]
  /\ conn' = [Sealed(conn, calls[c].grant, calls[c].generation)
                EXCEPT !.status = "connected", !.error = "none"]
  /\ Answer(c)
  /\ UNCHANGED <<provider, oauth, receipts, publication, attempts, consent,
                 budget>>

(* The failure handler: a late failure has no authority.  Its branch for a *)
(* connection that has changed never runs: such a change, and a            *)
(* publication refused for it, take the authority away for good.           *)
FailSync(c, code) ==
  /\ At(c, "sync", "report")
  /\ Fence(c)
  /\ Authority(c)
  /\ conn' = Failed(conn, code)
  /\ jobs' = [jobs EXCEPT ![calls[c].arg].status = "error"]
  /\ Answer(c)
  /\ UNCHANGED <<provider, oauth, receipts, snapshots, publication, attempts,
                 consent, budget>>

(* persistFailure after a failed exchange or listing.                      *)
PersistFailure(c, code) ==
  /\ At(c, "callback", "exchange") \/ At(c, "resources", "list")
  /\ Fence(c)
  /\ SameGeneration(c)
  /\ conn' = Failed(conn, code)
  /\ Answer(c)
  /\ UNCHANGED <<provider, oauth, jobs, receipts, snapshots, publication, attempts,
                 consent, budget>>

-----------------------------------------------------------------------------
(* connectClarity                                                          *)

CheckConnect(c) ==
  /\ At(c, "connect", "check")
  /\ Fence(c)
  /\ calls[c].arg \notin receipts
  /\ Observed(c)
  /\ calls' = [calls EXCEPT ![c].at = "report"]
  /\ UNCHANGED <<provider, conn, oauth, jobs, receipts, snapshots, publication,
                 attempts, consent, budget>>

(* The token has measured once: it is stored with that measurement.        *)
ConnectClarity(c, resource) ==
  /\ At(c, "connect", "report")
  /\ Fence(c)
  /\ calls[c].arg \notin receipts
  /\ Observed(c)
  /\ conn' = [Sealed(NextVersion(conn), conn.generation + 1, conn.generation + 1)
                EXCEPT !.status = "connected", !.resources = {resource},
                       !.selected = resource, !.error = "none"]
  /\ snapshots' = snapshots \cup
       {[key |-> None, attempt |-> 0, generation |-> conn.generation + 1,
         resource |-> resource]}
  /\ jobs' = Cancelled
  /\ receipts' = receipts \cup {calls[c].arg}
  /\ consent' = conn.generation + 1
  /\ Answer(c)
  /\ UNCHANGED <<provider, oauth, publication, attempts, budget>>

-----------------------------------------------------------------------------
(* A transaction that does not find what it needs throws and changes       *)
(* nothing: the call is answered with the error, or, for a key that has    *)
(* its receipt, with the receipt.                                          *)
Accepts(c) ==
  /\ Fence(c)
  /\ CASE calls[c].at = "take" -> StateValid(c)
       [] calls[c].at = "view" -> Viewable(c)
       [] calls[c].at \in {"exchange", "list"} ->
            SameGeneration(c) /\ (calls[c].op = "select" => Observed(c))
       [] calls[c].at = "reserve" -> Reservable(c)
       [] calls[c].op = "sync" -> Authority(c)
       [] calls[c].op = "connect" -> calls[c].arg \notin receipts /\ Observed(c)
       [] calls[c].op = "disconnect" -> Observed(c) /\ conn.generation # 0
       [] OTHER -> TRUE

(* A failed provider call of select or connect leaves no trace either, and *)
(* neither does a state that has expired.                                  *)
Traceless(c) ==
  \/ calls[c].op \in {"select", "connect"} /\ calls[c].at \in {"list", "report"}
  \/ calls[c].at = "take"

Refuse(c) ==
  /\ calls[c] # Idle
  /\ ~Accepts(c) \/ Traceless(c)
  /\ Answer(c)
  /\ UNCHANGED <<provider, conn, oauth, jobs, receipts, snapshots, publication,
                 attempts, consent, budget>>

(* The process stops: what the call has committed stays, a job it runs     *)
(* keeps its lease.                                                        *)
Lose(c) ==
  /\ calls[c] # Idle
  /\ Answer(c)
  /\ UNCHANGED <<provider, conn, oauth, jobs, receipts, snapshots, publication,
                 attempts, consent, budget>>

(* Five minutes pass since the reservation.                                *)
LeaseLapses(k) ==
  /\ jobs[k].lease
  /\ jobs[k].status = "running"
  /\ jobs' = [jobs EXCEPT ![k].lease = FALSE]
  /\ UNCHANGED <<provider, conn, oauth, receipts, snapshots, publication, attempts,
                 consent, budget, calls>>

(* saveSetup of the ads service for Google: one transaction replaces the   *)
(* application and empties the analytics row that was authorized with it.  *)
SaveSetup ==
  /\ publication < MaxPublications
  /\ publication' = publication + 1
  /\ IF provider = "ga4"
     THEN /\ conn' = IF conn.generation = 0 THEN conn ELSE Emptied(conn, "prepared")
          /\ oauth' = Consumed
          /\ jobs' = Cancelled
          /\ consent' = 0
     ELSE UNCHANGED <<conn, oauth, jobs, consent>>
  /\ UNCHANGED <<provider, receipts, snapshots, attempts, budget, calls>>

Step(c) ==
  \/ \E op \in Operations : Begin(c, op)
  \/ Authorize(c)
  \/ TakeState(c)
  \/ View(c)
  \/ \E listing \in Listings : \/ StoreGrant(c, listing)
                               \/ StoreResources(c, listing)
                               \/ SelectResource(c, listing)
  \/ Disconnect(c)
  \/ Reserve(c)
  \/ Complete(c)
  \/ \E code \in Codes : FailSync(c, code) \/ PersistFailure(c, code)
  \/ CheckConnect(c)
  \/ \E resource \in Resources : ConnectClarity(c, resource)
  \/ Refuse(c)
  \/ Lose(c)

Next ==
  \/ \E c \in Calls : Step(c)
  \/ \E k \in Keys : LeaseLapses(k)
  \/ SaveSetup

Spec == Init /\ [][Next]_vars
-----------------------------------------------------------------------------
(* Properties                                                              *)

TypeOK ==
  /\ provider \in {"ga4", "clarity"}
  /\ conn \in [status : Statuses, version : Nat, generation : 0..MaxGeneration,
                config : 0..MaxPublications, grant : 0..MaxGeneration,
                sealed : 0..MaxGeneration, resources : SUBSET Resources,
                selected : Resources \cup {None}, error : Codes \cup {"none"}]
  /\ oauth \in [1..MaxGeneration -> [status : {"none", "open", "consumed"},
                                      config : 0..MaxPublications]]
  /\ jobs \in [Keys -> [status : {"none", "running", "completed", "error", "cancelled"},
                         generation : 0..MaxGeneration, attempt : 0..attempts,
                         lease : BOOLEAN, receipt : BOOLEAN]]
  /\ receipts \subseteq Keys
  /\ snapshots \subseteq [key : Keys \cup {None}, attempt : 0..attempts,
                           generation : 1..MaxGeneration, resource : Resources]
  /\ publication \in 0..MaxPublications
  /\ attempts \in 0..Budget["sync"]
  /\ consent \in 0..MaxGeneration
  /\ budget \in [Operations -> Nat]
  /\ calls \in [Calls -> [op : Operations \cup {"none"},
                           at : {"none", "commit", "take", "exchange", "view", "list",
                                 "reserve", "check", "report"},
                           runtime : 0..MaxPublications, expected : Nat,
                           arg : {None} \cup Keys \cup Resources \cup 1..MaxGeneration,
                           generation : 0..MaxGeneration, grant : 0..MaxGeneration,
                           resource : Resources \cup {None}, attempt : 0..attempts]]

(* The row holds tokens of the authorization in force or none, and those   *)
(* it holds can be opened.  A refresh, an exchange or a report that was    *)
(* under way when the connection was authorized anew, disconnected or      *)
(* given another application does not bring the old tokens back (the       *)
(* generation checks of webAnalytics.ts 166, 188, 217 and 332), and the    *)
(* tokens are sealed for the generation of the row, under which the next   *)
(* call will try to open them (24, 84-86; selectResource moves both,       *)
(* 220-221).                                                               *)
TokensInForce ==
  /\ conn.grant \in {0, consent}
  /\ conn.grant # 0 => conn.sealed = conn.generation

(* A job that runs belongs to the row as it is, for whatever replaces the  *)
(* row ends the jobs of the row before (invalidate, webAnalytics.ts 79-83, *)
(* and saveSetup, ads.ts 191-195); and however many managers and           *)
(* schedulers synchronize, retry and outlive their lease, at most one of   *)
(* them may write (316-318 and the conditions of 332 and 348).             *)
OneWriter ==
  /\ \A k \in Keys : jobs[k].status = "running" => jobs[k].generation = conn.generation
  /\ Cardinality({c \in Calls : At(c, "sync", "report") /\ Authority(c)}) <= 1

(* A job has its receipt exactly when it has published one measurement,    *)
(* and that measurement is of the attempt the job names: an attempt that   *)
(* was taken over publishes nothing under the lease of its successor       *)
(* (webAnalytics.ts 329-338).                                              *)
ReceiptOfAttempt ==
  \A k \in Keys :
    LET published == {s \in snapshots : s.key = k}
    IN  /\ jobs[k].receipt <=> published # {}
        /\ \A s \in published : s.attempt = jobs[k].attempt

(* What is published was measured for the resource and the generation that *)
(* the connection has at that moment, whatever was selected or connected   *)
(* while the provider was being asked (webAnalytics.ts 332-336).           *)
FreshPublication ==
  [][\A s \in snapshots' \ snapshots :
       /\ s.generation = conn'.generation
       /\ s.resource = conn'.selected]_vars

=============================================================================
