----------------------------- MODULE RunApprovals -----------------------------
(***************************************************************************)
(* The approvals that Hermes asks for during a run of the chat bridge:     *)
(* HermesApprovalRegistry of services/chat-bridge/src/hermes-approvals.js  *)
(* and the route POST /api/approvals/respond of server.js, beside the run  *)
(* and the browser of RunStream.                                           *)
(*                                                                         *)
(* Hermes asks for one approval after another.  Its position 2q - 1 says   *)
(* that the qth waits for its answer and 2q that the qth is over; the      *)
(* bridge hears of each position by an event.  An answer names the run and *)
(* not the request.                                                        *)
(***************************************************************************)
EXTENDS RunStream

CONSTANTS
  Answers,      \* requests to the respond route
  NumRequests   \* bound: approvals Hermes asks for

ASSUME ApprovalBounds == NumRequests \in Nat

Requests == 1..NumRequests

VARIABLES
  hermes,    \* the position of Hermes
  heard,     \* the position the bridge has heard of
  records,   \* the registry
  answer     \* the requests to the respond route: where each is, and its approval

registryVars == <<hermes, heard, records, answer>>
vars         == <<streamVars, registryVars>>

Idle == [pc |-> "idle", request |-> 0]

Init ==
  /\ StreamInit
  /\ hermes = 0 /\ heard = 0
  /\ records = [q \in Requests |-> "absent"]
  /\ answer = [a \in Answers |-> Idle]

Odd(n) == n % 2 = 1

Request(position) == (position + 1) \div 2

Holds(a, q) == answer[a].pc # "idle" /\ answer[a].request = q

-----------------------------------------------------------------------------
(* Hermes                                                                  *)

HermesAsks ==
  /\ ~Odd(hermes)
  /\ hermes < 2 * NumRequests
  /\ hermes' = hermes + 1
  /\ UNCHANGED <<streamVars, heard, records, answer>>

\* It goes on without an answer of the bridge.
HermesGoesOn ==
  /\ Odd(hermes)
  /\ hermes' = hermes + 1
  /\ UNCHANGED <<streamVars, heard, records, answer>>

-----------------------------------------------------------------------------
(* What the bridge hears: appendEvent                                      *)

\* register, which leaves a request it has as it is, or complete.
Recorded(position) ==
  LET q == Request(position) IN
  CASE Odd(position) /\ records[q] = "absent" -> "pending"
    [] ~Odd(position) /\ records[q] # "absent" -> "resolved"
    [] OTHER -> records[q]

Hear ==
  /\ heard < hermes
  /\ heard' = heard + 1
  /\ records' = [records EXCEPT ![Request(heard')] = Recorded(heard')]
  /\ Grow(<<"news">>)
  /\ UNCHANGED <<hermes, answer>>

-----------------------------------------------------------------------------
(* POST /api/approvals/respond                                             *)

\* Mutant: a request that is being answered can be claimed.
ClaimResolving(a, q) ==
  /\ answer[a] = Idle
  /\ records[q] \in {"pending", "resolving"}
  /\ records' = [records EXCEPT ![q] = "resolving"]
  /\ answer' = [answer EXCEPT ![a] = [pc |-> "check", request |-> q]]
  /\ UNCHANGED <<streamVars, hermes, heard>>

\* A request that is not pending is refused, and nothing changes.
Claim(a, q) ==
  /\ answer[a] = Idle
  /\ records[q] = "pending"
  /\ records' = [records EXCEPT ![q] = "resolving"]
  /\ answer' = [answer EXCEPT ![a] = [pc |-> "check", request |-> q]]
  /\ UNCHANGED <<streamVars, hermes, heard>>

\* Mutant: what has been resolved meanwhile is offered again.
ReleasedAlways(q) == [records EXCEPT ![q] = "pending"]

Released(q) == [records EXCEPT ![q] = IF @ = "resolving" THEN "pending" ELSE @]

Return(a) == answer' = [answer EXCEPT ![a] = Idle]

\* The run of the approval must still be active.  It is in memory whenever its
\* approval is, so that store.get does not fail.
Check(a) ==
  /\ answer[a].pc = "check"
  /\ IF Active
     THEN answer' = [answer EXCEPT ![a].pc = "upstream"] /\ UNCHANGED records
     ELSE Return(a) /\ records' = Released(answer[a].request)
  /\ UNCHANGED <<streamVars, hermes, heard>>

\* Hermes takes the answer for whatever it waits for; its reply may get lost.
Answered(a, reply) ==
  /\ answer[a].pc = "upstream"
  /\ Odd(hermes)
  /\ hermes' = hermes + 1
  /\ answer' = [answer EXCEPT ![a].pc = reply]
  /\ UNCHANGED <<streamVars, heard, records>>

Complete(a) ==
  /\ answer[a].pc = "replied"
  /\ records' = [records EXCEPT ![answer[a].request] = "resolved"]
  /\ Return(a)
  /\ UNCHANGED <<streamVars, hermes, heard>>

\* respondApproval throws: Hermes refuses, cannot be reached, or has not replied.
Release(a) ==
  /\ answer[a].pc \in {"upstream", "lost"}
  /\ records' = Released(answer[a].request)
  /\ Return(a)
  /\ UNCHANGED <<streamVars, hermes, heard>>

\* A new process has an empty registry, and answers nothing of before.
RestartRegistry ==
  /\ Restart
  /\ records' = [q \in Requests |-> "absent"]
  /\ answer' = [a \in Answers |-> Idle]
  /\ UNCHANGED <<hermes, heard>>

Respond(a) ==
  \/ \E q \in Requests : Claim(a, q)
  \/ Check(a)
  \/ \E reply \in {"replied", "lost"} : Answered(a, reply)
  \/ Complete(a)
  \/ Release(a)

Next ==
  \/ (RunGoesOn \/ Browser \/ Network) /\ UNCHANGED registryVars
  \/ HermesAsks \/ HermesGoesOn
  \/ Hear
  \/ \E a \in Answers : Respond(a)
  \/ RestartRegistry

Spec == Init /\ [][Next]_vars /\ StreamFairness

-----------------------------------------------------------------------------
(* Properties                                                              *)

\* What the variables hold.
TypeOK ==
  /\ StreamTypeOK
  /\ hermes \in 0..2 * NumRequests /\ heard \in 0..hermes
  /\ records \in [Requests -> {"absent", "pending", "resolving", "resolved"}]
  /\ answer \in [Answers -> [pc : {"idle", "check", "upstream", "replied", "lost"},
                             request : 0..NumRequests]]

\* A resolved approval is offered to nobody again, though an answer to it that
\* was under way fails afterwards (hermes-approvals.js:99-105).
ResolvedStays ==
  [][ restarts' = restarts
        => (\A q \in Requests : records[q] = "resolved" => records'[q] = "resolved") ]_vars

\* Two windows never answer the same request at once, and a request is being
\* resolved only while somebody is at it: on every way out of the route it is
\* resolved or pending again (hermes-approvals.js:71-89, server.js:2164-2198).
OneHolder ==
  \A q \in Requests : records[q] = "resolving" =>
    \E a \in Answers : {b \in Answers : Holds(b, q)} = {a}
=============================================================================
