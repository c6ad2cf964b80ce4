------------------------- MODULE RunApprovalsProofs -------------------------
(* What is proved of RunStream and of RunApprovals, which composes it with   *)
(* the registry, for every value of their constants.                         *)
EXTENDS RunApprovals, SequenceTheorems, WellFoundedInduction, TLAPS

Statuses == Terminal \cup {"running"}

-----------------------------------------------------------------------------
(* The invariant.                                                            *)

Wires == [is : {"off", "open", "closed", "broken", "cut"}, index : Nat, parts : Seq(Nat)]

\* What is known, saved, sent and counted are all prefixes of the history.
Prefixes ==
  /\ history \in Seq(Kinds)
  /\ known \in 0..Len(history)
  /\ row \in [status : Statuses, count : Nat] /\ row.count <= known
  /\ wire \in Wires /\ wire.index <= Len(history)
  /\ cursor \in 0..Len(history)
  /\ status \in Statuses
  /\ at \in {"connect", "read", "reconcile", "over"}
  /\ outcome \in {"none", "completed", "error", "ended", "signed_out"}
  /\ at # "over" => outcome = "none"
  /\ restarts \in Nat

\* What is under way is what lies between the two counters: the browser's, and
\* the index of its subscriber at the bridge.
WireFits ==
  /\ at = "read" => /\ wire.parts = After(cursor, Len(wire.parts))
                    /\ wire.index = cursor + Len(wire.parts)
  /\ at # "read" => wire = Off

\* A browser that goes on has seen nothing that would have ended it.
NothingEnds == at # "over" => \A i \in 1..cursor : history[i] = "news"

\* A process forgets nothing of its own, and ends a run with its done event.
DoneKnown ==
  restarts = 0 => /\ known = Len(history)
                  /\ ~Active => Has("done")

\* A run that is completed, in memory or in its row, has its done event there.
CompletedIsDone ==
  /\ status = "completed" => Has("done")
  /\ row.status = "completed" => \E i \in 1..row.count : history[i] = "done"

OutcomeBacked ==
  /\ outcome = "completed" => cursor > 0 /\ history[cursor] = "done"
  /\ outcome = "ended" => ~Active /\ \A i \in 1..known : history[i] = "news"

StreamInv ==
  /\ Prefixes /\ WireFits /\ ShownInOrder /\ NothingEnds
  /\ DoneKnown /\ CompletedIsDone /\ OutcomeBacked

-----------------------------------------------------------------------------
(* Lemmas about the operators.                                               *)

LEMMA MinIsLeast ==
  ASSUME NEW S \in SUBSET Nat, S # {}
  PROVE  Min(S) \in S /\ \A y \in S : Min(S) <= y
<1> DEFINE Less == OpToRel(<, Nat)
<1>1. IsWellFoundedOn(Less, Nat)
  BY NatLessThanWellFounded
<1>2. \A x, y \in Nat : x < y => <<x, y>> \in Less
  BY DEF OpToRel
<1> HIDE DEF Less
<1>3. PICK x \in S : \A y \in S : ~(<<y, x>> \in Less)
  BY <1>1, WFMin
<1>4. ASSUME NEW y \in S PROVE x <= y
  <2>1. ~(y < x)
    BY <1>2, <1>3
  <2> QED BY <2>1
<1> QED BY <1>4 DEF Min

\* Adding events leaves those before them, and every prefix, as they were.
LEMMA AddExtends ==
  ASSUME Prefixes, NEW events \in Seq(Kinds), Add(events)
  PROVE  /\ history' \in Seq(Kinds)
         /\ Len(history') = Len(history) + Len(events)
         /\ known' = known + Len(events)
         /\ \A i \in 1..Len(history) : history'[i] = history[i]
         /\ \A i \in 1..Len(events) : history'[Len(history) + i] = events[i]
<1>1. history \in Seq(Kinds) /\ history' = history \o events /\ known' = known + Len(events)
  BY DEF Prefixes, Add
<1>2. /\ history' \in Seq(Kinds)
      /\ Len(history') = Len(history) + Len(events)
      /\ \A i \in 1..Len(history) : history'[i] = history[i]
      /\ \A i \in 1..Len(events) : history'[Len(history) + i] = events[i]
  BY <1>1
<1> QED BY <1>1, <1>2

\* The numbers of n events, and what is left when some are taken off them.
LEMMA AfterIs ==
  ASSUME NEW i \in Nat, NEW n \in Nat
  PROVE  /\ After(i, n) \in Seq(Nat) /\ Len(After(i, n)) = n
         /\ \A k \in 1..n : After(i, n)[k] = i + k
BY DEF After

LEMMA AfterSplits ==
  ASSUME NEW i \in Nat, NEW m \in Nat, NEW n \in 0..m, NEW parts, parts = After(i, m)
  PROVE  /\ SubSeq(parts, 1, n) = After(i, n)
         /\ SubSeq(parts, n + 1, Len(parts)) = After(i + n, m - n)
         /\ After(i + n, m - n) \in Seq(Nat) /\ Len(After(i + n, m - n)) = m - n
BY DEF After

\* Where processing starts at the cursor, what has been shown stays a prefix.
LEMMA ShownExtends ==
  ASSUME Prefixes, ShownInOrder, NEW n \in Nat
  PROVE  shown \o After(cursor, n) = After(0, cursor + n)
<1>1. cursor \in Nat
  BY DEF Prefixes
<1>2. After(0, cursor) \o After(cursor, n) = After(0, cursor + n)
  BY <1>1 DEF After
<1> QED BY <1>2 DEF ShownInOrder

\* processChunk: the browser goes on behind news only, or ends at the event
\* that its outcome names.
LEMMA ProcessKeeps ==
  ASSUME Prefixes, ShownInOrder, NothingEnds, at # "over",
         NEW n \in 0..Len(history) - cursor, NEW next \in {"read", "connect"},
         Process(After(cursor, n), next), history' = history
  PROVE  /\ cursor' \in cursor..cursor + n
         /\ ShownInOrder'
         /\ NothingEnds'
         /\ \/ at' = next /\ outcome' = outcome /\ cursor' = cursor + n
            \/ at' = "over" /\ outcome' = "error"
            \/ at' = "over" /\ outcome' = "completed" /\ cursor' > 0 /\ history[cursor'] = "done"
<1> DEFINE events == After(cursor, n)
           taken  == Taken(events)
<1>1. cursor \in Nat /\ n \in Nat /\ history \in Seq(Kinds)
  BY DEF Prefixes
<1>2. Len(events) = n /\ DOMAIN events = 1..n /\ \A k \in 1..n : events[k] = cursor + k
  BY <1>1 DEF After
<1>3. /\ cursor' = cursor + taken
      /\ shown' = shown \o SubSeq(events, 1, taken)
      /\ IF Ends(events) = {} THEN at' = next /\ UNCHANGED outcome
         ELSE Over(IF history[events[taken]] = "done" THEN "completed" ELSE "error")
  BY DEF Process
<1>4. Ends(events) # {} => taken \in Ends(events)
  <2>1. Ends(events) \in SUBSET Nat
    BY <1>1, <1>2 DEF Ends
  <2> QED BY <2>1, MinIsLeast DEF Taken
<1>5. Ends(events) = {} => taken = n
  BY <1>2 DEF Taken
<1>6. taken \in 0..n
  BY <1>1, <1>2, <1>4, <1>5 DEF Ends
<1> HIDE DEF taken
<1>7. ShownInOrder'
  <2>1. SubSeq(events, 1, taken) = After(cursor, taken)
    BY <1>1, <1>6 DEF After
  <2>2. shown \o After(cursor, taken) = After(0, cursor + taken)
    <3>1. taken \in Nat
      BY <1>1, <1>6
    <3> QED BY <3>1, ShownExtends
  <2>3. shown' = After(0, cursor')
    BY <1>3, <2>1, <2>2
  <2> QED BY <2>3 DEF ShownInOrder, After
<1>8. CASE Ends(events) = {}
  <2>1. ASSUME NEW k \in 1..n PROVE history[cursor + k] = "news"
    <3>1. events[k] = cursor + k /\ k \in DOMAIN events
      BY <1>2
    <3>2. k \notin Ends(events)
      BY <1>8
    <3>3. history[cursor + k] \in Kinds
      BY <1>1
    <3> HIDE DEF events
    <3> QED BY <3>1, <3>2, <3>3 DEF Ends, Kinds
  <2>2. ASSUME NEW i \in 1..cursor + n, ~(i <= cursor) PROVE history[i] = "news"
    <3>1. i - cursor \in 1..n /\ cursor + (i - cursor) = i
      BY <1>1, <2>2
    <3> QED BY <2>1, <3>1
  <2>3. NothingEnds'
    BY <1>1, <1>3, <1>5, <1>8, <2>2 DEF NothingEnds
  <2> QED BY <1>1, <1>3, <1>5, <1>7, <1>8, <2>3
<1>9. CASE Ends(events) # {}
  <2>1. taken \in 1..n /\ events[taken] = cursor'
    BY <1>2, <1>3, <1>4, <1>9 DEF Ends
  <2>2. at' = "over" /\ outcome' = IF history[cursor'] = "done" THEN "completed" ELSE "error"
    BY <1>3, <1>9, <2>1 DEF Over
  <2>3. NothingEnds'
    BY <2>2 DEF NothingEnds
  <2> QED BY <1>1, <1>3, <1>7, <2>1, <2>2, <2>3
<1> QED BY <1>8, <1>9

\* What lies between an index and the end of what is known.
LEMMA FromIs ==
  ASSUME Prefixes, NEW i \in 0..Len(history)
  PROVE  /\ Furthest(i) \in i..Len(history) /\ known <= Furthest(i)
         /\ Furthest(i) - i \in Nat
         /\ From(i) = After(i, Furthest(i) - i)
         /\ From(i) \in Seq(Nat) /\ Len(From(i)) = Furthest(i) - i
<1>1. Furthest(i) \in i..Len(history) /\ known <= Furthest(i) /\ Furthest(i) - i \in Nat
  BY DEF Prefixes, Furthest
<1>2. i \in Nat
  BY DEF Prefixes
<1>3. From(i) = After(i, Furthest(i) - i)
  BY DEF From
<1>4. From(i) \in Seq(Nat) /\ Len(From(i)) = Furthest(i) - i
  BY <1>1, <1>2, <1>3, AfterIs, Zenon
<1> QED BY <1>1, <1>3, <1>4

\* A flush brings a connection there, and writes what lies between.
LEMMA FlushedType ==
  ASSUME Prefixes, NEW i \in 0..Len(history), NEW parts \in Seq(Nat)
  PROVE  /\ Flushed(i, parts) \in Wires
         /\ Flushed(i, parts).index = Furthest(i) /\ Flushed(i, parts).index <= Len(history)
         /\ Flushed(i, parts).parts = parts \o After(i, Furthest(i) - i)
<1>1. /\ Furthest(i) \in i..Len(history) /\ From(i) = After(i, Furthest(i) - i)
      /\ From(i) \in Seq(Nat)
  BY FromIs
<1>2. parts \o From(i) \in Seq(Nat)
  BY <1>1, ConcatProperties
<1>3. Furthest(i) \in Nat /\ Furthest(i) <= Len(history)
  BY <1>1 DEF Prefixes
<1> QED BY <1>1, <1>2, <1>3 DEF Flushed, Wires

LEMMA FlushFits ==
  ASSUME Prefixes, NEW c \in 0..Len(history), NEW n \in Nat,
         NEW i \in 0..Len(history), i = c + n, NEW parts, parts = After(c, n)
  PROVE  /\ Flushed(i, parts).parts = After(c, Len(Flushed(i, parts).parts))
         /\ Flushed(i, parts).index = c + Len(Flushed(i, parts).parts)
<1> DEFINE more == Furthest(i) - i
<1>1. c \in Nat /\ i \in Nat
  BY DEF Prefixes
<1>2. parts \in Seq(Nat)
  BY <1>1, AfterIs, Zenon
<1>3. /\ Furthest(i) \in i..Len(history) /\ more \in Nat
      /\ Flushed(i, parts).index = Furthest(i)
      /\ Flushed(i, parts).parts = parts \o After(i, more)
  BY <1>2, FromIs, FlushedType
<1>4. Furthest(i) = c + (n + more) /\ n + more \in Nat
  <2>1. Furthest(i) \in Nat /\ more = Furthest(i) - i
    BY <1>1, <1>3 DEF Prefixes
  <2> HIDE DEF more
  <2> QED BY <1>1, <1>3, <2>1
<1> HIDE DEF more
<1>5. parts \o After(i, more) = After(c, n + more)
  BY <1>1, <1>3 DEF After
<1>6. Len(After(c, n + more)) = n + more
  BY <1>1, <1>4, AfterIs, Zenon
<1> QED BY <1>3, <1>4, <1>5, <1>6

-----------------------------------------------------------------------------
(* The steps of the bridge and of the network.                               *)

LEMMA StreamInvInit == StreamInit => StreamInv
<1> SUFFICES ASSUME StreamInit PROVE StreamInv
  OBVIOUS
<1>1. history = <<"news">> /\ history \in Seq(Kinds) /\ Len(history) = 1
  BY DEF StreamInit, Kinds
<1>2. Prefixes
  BY <1>1 DEF StreamInit, Prefixes, Wires, Statuses, Off
<1>3. ShownInOrder
  <2>1. After(0, 0) = << >>
    BY DEF After
  <2> QED BY <2>1 DEF StreamInit, ShownInOrder
<1>4. WireFits /\ NothingEnds /\ DoneKnown /\ CompletedIsDone /\ OutcomeBacked
  BY <1>1 DEF StreamInit, WireFits, NothingEnds, DoneKnown, CompletedIsDone, OutcomeBacked, Active,
              Terminal
<1> QED BY <1>2, <1>3, <1>4 DEF StreamInv

\* Events that are added, whatever becomes of the status, of a run the process
\* has followed from its beginning.
LEMMA AddKeeps ==
  ASSUME StreamInv, NEW events \in Seq(Kinds), Add(events), restarts = 0, ~Has("done"),
         status' \in Statuses,
         Active' \/ (status' # "completed" /\ Has("done")'),
         UNCHANGED <<row, wire, browserVars, drops, restarts>>
  PROVE  StreamInv'
<1>1. /\ Prefixes /\ WireFits /\ ShownInOrder /\ NothingEnds
      /\ DoneKnown /\ CompletedIsDone /\ OutcomeBacked
  BY DEF StreamInv
<1>2. /\ history' \in Seq(Kinds)
      /\ Len(history') = Len(history) + Len(events)
      /\ known' = known + Len(events)
      /\ \A i \in 1..Len(history) : history'[i] = history[i]
  BY <1>1, AddExtends
<1>3. Len(events) \in Nat /\ Len(history) \in Nat /\ known = Len(history) /\ Active
  BY <1>1 DEF DoneKnown, Prefixes
<1>4. UNCHANGED <<row, wire, at, cursor, shown, outcome, restarts>>
  BY DEF browserVars
<1>5. Prefixes'
  BY <1>1, <1>2, <1>3, <1>4 DEF Prefixes, Wires
<1>6. WireFits' /\ ShownInOrder'
  BY <1>1, <1>4 DEF WireFits, ShownInOrder, After, Off
<1>7. NothingEnds'
  BY <1>1, <1>2, <1>4 DEF NothingEnds, Prefixes
<1>8. DoneKnown'
  BY <1>2, <1>3 DEF DoneKnown
<1>9. CompletedIsDone'
  <2>1. row.count \in 0..Len(history)
    BY <1>1, <1>3 DEF Prefixes
  <2>2. status' # "completed"
    BY DEF Active, Terminal
  <2> QED BY <1>1, <1>2, <1>4, <2>1, <2>2 DEF CompletedIsDone
<1>10. OutcomeBacked'
  \* The run was active: nobody was told that it ended without an answer.
  <2>1. outcome # "ended" /\ cursor \in 0..Len(history)
    BY <1>1, <1>3 DEF OutcomeBacked, Prefixes
  <2> QED BY <1>1, <1>2, <1>4, <2>1 DEF OutcomeBacked
<1> QED BY <1>5, <1>6, <1>7, <1>8, <1>9, <1>10 DEF StreamInv

LEMMA GrowKeeps ==
  ASSUME StreamInv, NEW events \in Appended, Grow(events)
  PROVE  StreamInv'
<1>1. events \in Seq(Kinds)
  BY DEF Appended, Kinds
<1>2. /\ Add(events) /\ restarts = 0 /\ ~Has("done") /\ status' = status
      /\ UNCHANGED <<row, wire, browserVars, drops, restarts>>
  BY DEF Grow, Consumed
<1>3. Active /\ status \in Statuses
  BY <1>2 DEF StreamInv, DoneKnown, Prefixes
<1>4. Active' /\ status' \in Statuses
  BY <1>2, <1>3 DEF Active
<1> QED BY <1>1, <1>2, <1>4, AddKeeps

LEMMA EndKeeps ==
  ASSUME StreamInv, NEW end \in Terminal \ {"interrupted"}, End(end)
  PROVE  StreamInv'
<1>1. /\ Has("done") /\ Active /\ status' = end
      /\ UNCHANGED <<known, history, row, wire, at, cursor, shown, outcome, restarts>>
  BY DEF End, browserVars
<1>2. outcome # "ended"
  BY <1>1 DEF StreamInv, OutcomeBacked
<1>3. Prefixes' /\ WireFits' /\ ShownInOrder' /\ NothingEnds'
  BY <1>1 DEF StreamInv, Prefixes, Wires, WireFits, ShownInOrder, After, Off, NothingEnds, Statuses
<1>4. Has("done")'
  BY <1>1 DEF Has
<1>5. DoneKnown' /\ CompletedIsDone' /\ OutcomeBacked'
  BY <1>1, <1>2, <1>4 DEF StreamInv, DoneKnown, CompletedIsDone, OutcomeBacked
<1> QED BY <1>3, <1>5 DEF StreamInv

LEMMA FailKeeps == ASSUME StreamInv, Fail PROVE StreamInv'
<1>1. /\ restarts = 0 /\ Active /\ status' = "failed"
      /\ UNCHANGED <<row, wire, browserVars, drops, restarts>>
  BY DEF Fail, Consumed
<1>2. CASE Has("done")
  <2>1. UNCHANGED <<known, history, row, wire, at, cursor, shown, outcome, restarts>>
    BY <1>1, <1>2 DEF Fail, browserVars
  <2>2. outcome # "ended"
    BY <1>1 DEF StreamInv, OutcomeBacked
  <2>3. Prefixes' /\ WireFits' /\ ShownInOrder' /\ NothingEnds'
    BY <1>1, <2>1 DEF StreamInv, Prefixes, Wires, WireFits, ShownInOrder, After, Off, NothingEnds,
                      Statuses, Terminal
  <2>4. Has("done")'
    BY <1>2, <2>1 DEF Has
  <2>5. DoneKnown' /\ CompletedIsDone' /\ OutcomeBacked'
    BY <1>1, <2>1, <2>2, <2>4 DEF StreamInv, DoneKnown, CompletedIsDone, OutcomeBacked
  <2> QED BY <2>3, <2>5 DEF StreamInv
<1>3. CASE ~Has("done")
  <2> DEFINE told == <<"error", "done">>
  <2>1. told \in Seq(Kinds) /\ Len(told) = 2 /\ told[2] = "done" /\ Add(told)
    BY <1>3 DEF Fail, Kinds
  <2>2. Prefixes /\ known = Len(history) /\ Len(history) \in Nat
    BY <1>1 DEF StreamInv, DoneKnown, Prefixes
  <2> HIDE DEF told
  <2>3. known' = known + 2 /\ history'[Len(history) + 2] = "done"
    <3>1. /\ known' = known + Len(told)
          /\ \A i \in 1..Len(told) : history'[Len(history) + i] = told[i]
      BY <2>1, <2>2, AddExtends
    <3>2. 2 \in 1..Len(told)
      BY <2>1
    <3> QED BY <2>1, <3>1, <3>2
  <2>4. Has("done")'
    BY <2>2, <2>3 DEF Has
  <2>5. status' # "completed" /\ status' \in Statuses
    BY <1>1 DEF Statuses, Terminal
  <2> QED BY <1>1, <1>3, <2>1, <2>4, <2>5, AddKeeps
<1> QED BY <1>2, <1>3

LEMMA SaveKeeps == ASSUME StreamInv, Save PROVE StreamInv'
<1>1. /\ row' = [status |-> status, count |-> known]
      /\ wire' = IF wire.is = "open" THEN Flushed(wire.index, wire.parts) ELSE wire
      /\ UNCHANGED <<restarts, status, known, history, at, cursor, shown, outcome>>
  BY DEF Save, browserVars
<1>2. Prefixes /\ WireFits /\ wire.index \in 0..Len(history) /\ wire.parts \in Seq(Nat)
  BY DEF StreamInv, Prefixes, Wires
<1>3. wire' \in Wires /\ wire'.index <= Len(history)
  <2>1. /\ Flushed(wire.index, wire.parts) \in Wires
        /\ Flushed(wire.index, wire.parts).index <= Len(history)
    BY <1>2, FlushedType, Zenon
  <2> QED BY <1>1, <1>2, <2>1 DEF Prefixes
<1>4. Prefixes'
  BY <1>1, <1>2, <1>3 DEF Prefixes, Wires
<1>5. WireFits'
  <2>1. CASE wire.is = "open"
    <3>1. at = "read"
      BY <1>2, <2>1 DEF WireFits, Off
    <3>2. /\ wire.parts = After(cursor, Len(wire.parts)) /\ Len(wire.parts) \in Nat
          /\ wire.index = cursor + Len(wire.parts) /\ cursor \in 0..Len(history)
      BY <1>2, <3>1 DEF WireFits, Prefixes
    <3>3. wire' = Flushed(wire.index, wire.parts)
      BY <1>1, <2>1
    <3> DEFINE flushed == Flushed(wire.index, wire.parts)
    <3>4. Prefixes /\ wire.index \in 0..Len(history)
      BY <1>2
    <3>5. /\ flushed.parts = After(cursor, Len(flushed.parts))
          /\ flushed.index = cursor + Len(flushed.parts)
      BY <3>2, <3>4, FlushFits, ZenonT(60)
    <3> HIDE DEF flushed
    <3>6. /\ wire'.parts = After(cursor, Len(wire'.parts))
          /\ wire'.index = cursor + Len(wire'.parts)
      BY <3>3, <3>5 DEF flushed
    <3> QED BY <1>1, <3>1, <3>6 DEF WireFits, After
  <2>2. CASE wire.is # "open"
    BY <1>1, <1>2, <2>2 DEF WireFits, After, Off
  <2> QED BY <2>1, <2>2
<1>6. CompletedIsDone'
  BY <1>1 DEF StreamInv, CompletedIsDone, Has
<1>7. ShownInOrder' /\ NothingEnds' /\ DoneKnown' /\ OutcomeBacked'
  BY <1>1 DEF StreamInv, ShownInOrder, After, NothingEnds, DoneKnown, OutcomeBacked, Active, Has
<1> QED BY <1>4, <1>5, <1>6, <1>7 DEF StreamInv

\* The new process may know less than the browser has counted.
LEMMA RestartKeepsStream == ASSUME StreamInv, Restart PROVE StreamInv'
<1>1. /\ restarts' = restarts + 1
      /\ status' = IF row.status \in Terminal THEN row.status ELSE "interrupted"
      /\ known' = row.count
      /\ row' = [row EXCEPT !.status = status']
      /\ wire' = IF wire.is = "open" THEN [wire EXCEPT !.is = "broken"] ELSE wire
      /\ UNCHANGED <<history, at, cursor, shown, outcome>>
  BY DEF Restart, browserVars
<1>2. Prefixes /\ row.count \in 0..known
  BY DEF StreamInv, Prefixes
<1>3. status' \in Statuses /\ ~Active'
  BY <1>1 DEF Statuses, Terminal, Active
<1>4. row' \in [status : Statuses, count : Nat] /\ row'.count = known' /\ row'.status = status'
  BY <1>1, <1>2, <1>3 DEF Prefixes
<1>5. wire' \in Wires /\ wire'.index = wire.index /\ wire'.parts = wire.parts
  BY <1>1, <1>2 DEF Prefixes, Wires
<1>6. Prefixes'
  BY <1>1, <1>2, <1>3, <1>4, <1>5 DEF Prefixes, Wires
<1>7. status' = "completed" => row.status = "completed"
  BY <1>1
<1>8. CompletedIsDone'
  BY <1>1, <1>4, <1>7 DEF StreamInv, CompletedIsDone, Has
<1>9. DoneKnown'
  BY <1>1, <1>2 DEF DoneKnown, Prefixes
<1>10. OutcomeBacked'
  BY <1>1, <1>2, <1>3 DEF StreamInv, OutcomeBacked, Prefixes
<1>11. ShownInOrder' /\ NothingEnds'
  BY <1>1 DEF StreamInv, ShownInOrder, After, NothingEnds
<1>12. WireFits'
  BY <1>1, <1>5 DEF StreamInv, WireFits, After, Off
<1> QED BY <1>6, <1>8, <1>9, <1>10, <1>11, <1>12 DEF StreamInv

\* What the browser does to the connection, or the network, alone.
LEMMA WireKeeps ==
  ASSUME StreamInv, UNCHANGED <<runVars, cursor, shown, restarts>>,
         at # "over" \/ UNCHANGED at,
         at' \in {"connect", "read", "reconcile", "over"},
         \/ at' # "over" /\ outcome' = "none"
         \/ at' = "over" /\ outcome' = "signed_out"
         \/ UNCHANGED <<at, outcome>>,
         wire' \in Wires, wire'.index <= Len(history), WireFits'
  PROVE  StreamInv'
<1>1. Prefixes'
  BY DEF StreamInv, Prefixes, Wires, runVars
<1>2. ShownInOrder' /\ NothingEnds'
  BY DEF StreamInv, ShownInOrder, After, NothingEnds, runVars
<1>3. DoneKnown' /\ CompletedIsDone' /\ OutcomeBacked'
  BY DEF StreamInv, DoneKnown, CompletedIsDone, OutcomeBacked, Active, Has, runVars
<1> QED BY <1>1, <1>2, <1>3 DEF StreamInv

-----------------------------------------------------------------------------
(* The steps of the browser.                                                 *)

\* Events it processes, of the stream or of a snapshot.
LEMMA TakeKeeps ==
  ASSUME StreamInv, at # "over", NEW n \in 0..Len(history) - cursor,
         NEW next \in {"read", "connect"}, Process(After(cursor, n), next),
         UNCHANGED <<runVars, drops, restarts>>,
         wire' \in Wires, wire'.index <= Len(history), WireFits'
  PROVE  StreamInv'
<1>1. Prefixes /\ ShownInOrder /\ NothingEnds
  BY DEF StreamInv
<1>2. UNCHANGED <<status, known, history, row, restarts>>
  BY DEF runVars
<1>3. /\ cursor' \in cursor..cursor + n
      /\ ShownInOrder'
      /\ NothingEnds'
      /\ \/ at' = next /\ outcome' = outcome
         \/ at' = "over" /\ outcome' = "error"
         \/ at' = "over" /\ outcome' = "completed" /\ cursor' > 0 /\ history[cursor'] = "done"
  BY <1>1, <1>2, ProcessKeeps
<1>4. outcome = "none" /\ cursor' \in 0..Len(history)
  BY <1>1, <1>3 DEF Prefixes
<1>5. Prefixes'
  BY <1>1, <1>2, <1>3, <1>4 DEF Prefixes, Wires
<1>6. DoneKnown' /\ CompletedIsDone'
  BY <1>2 DEF StreamInv, DoneKnown, CompletedIsDone, Active, Has
<1>7. OutcomeBacked'
  BY <1>2, <1>3, <1>4 DEF OutcomeBacked
<1> QED BY <1>3, <1>5, <1>6, <1>7 DEF StreamInv

LEMMA ReadKeeps == ASSUME StreamInv, Read PROVE StreamInv'
<1>1. PICK n \in 1..Len(wire.parts) :
        /\ Process(SubSeq(wire.parts, 1, n), "read")
        /\ wire' = IF at' = "over" THEN Off
                   ELSE [wire EXCEPT !.parts = SubSeq(@, n + 1, Len(@))]
  BY DEF Read
<1> DEFINE m == Len(wire.parts)
<1>2. /\ Prefixes /\ ShownInOrder /\ NothingEnds /\ at = "read"
      /\ wire \in Wires /\ wire.index <= Len(history) /\ cursor \in Nat /\ m \in Nat
      /\ wire.parts = After(cursor, m) /\ wire.index = cursor + m
  BY DEF StreamInv, Prefixes, Wires, WireFits, Read
<1>3. n \in 0..m /\ n \in 0..Len(history) - cursor /\ n \in Nat
  BY <1>2 DEF Prefixes
<1> HIDE DEF m
<1>4. /\ SubSeq(wire.parts, 1, n) = After(cursor, n)
      /\ SubSeq(wire.parts, n + 1, Len(wire.parts)) = After(cursor + n, m - n)
      /\ After(cursor + n, m - n) \in Seq(Nat) /\ Len(After(cursor + n, m - n)) = m - n
  <2>1. cursor \in Nat /\ m \in Nat /\ n \in 0..m /\ wire.parts = After(cursor, m)
    BY <1>2, <1>3
  <2> QED BY <2>1, AfterSplits, ZenonT(60)
<1>5. Process(After(cursor, n), "read")
  BY <1>1, <1>4
<1>6. /\ cursor' \in cursor..cursor + n
      /\ \/ at' = "read" /\ cursor' = cursor + n
         \/ at' = "over"
  <2>1. history' = history /\ at # "over"
    BY <1>2 DEF Read, runVars
  <2> QED BY <1>2, <1>3, <1>5, <2>1, ProcessKeeps
<1>7. wire' \in Wires /\ wire'.index <= Len(history) /\ WireFits'
  <2>1. CASE at' = "over"
    BY <1>1, <1>2, <2>1 DEF Off, Wires, WireFits, Prefixes
  <2>2. CASE at' # "over"
    <3>1. wire' = [wire EXCEPT !.parts = After(cursor + n, m - n)]
      BY <1>1, <1>4, <2>2
    <3>3. /\ wire' \in Wires /\ wire'.index = wire.index
          /\ wire'.parts = After(cursor + n, m - n)
      BY <1>2, <1>4, <3>1 DEF Wires
    <3>4. at' = "read" /\ cursor' = cursor + n
      BY <1>6, <2>2
    <3>5. wire'.index = cursor' + Len(wire'.parts)
      <4>1. Len(wire'.parts) = m - n
        BY <1>4, <3>3
      <4>2. cursor + m = (cursor + n) + (m - n)
        BY <1>2, <1>3
      <4> QED BY <1>2, <3>3, <3>4, <4>1, <4>2
    <3>6. wire'.parts = After(cursor', Len(wire'.parts))
      BY <1>4, <3>3, <3>4
    <3> QED BY <1>2, <3>3, <3>4, <3>5, <3>6 DEF WireFits, After
  <2> QED BY <2>1, <2>2
<1> QED BY <1>2, <1>3, <1>5, <1>7, TakeKeeps DEF Read

\* A run that has ended and shows no end beyond the cursor has none: its done
\* event would have ended the browser before.
LEMMA ReconcileKeeps == ASSUME StreamInv, Reconcile PROVE StreamInv'
<1> DEFINE n == Furthest(cursor) - cursor
<1>1. Prefixes /\ WireFits /\ ShownInOrder /\ NothingEnds /\ CompletedIsDone
  BY DEF StreamInv
<1>2. /\ at = "reconcile" /\ UNCHANGED <<runVars, wire, drops, restarts>>
      /\ IF Ends(From(cursor)) # {} \/ Active
         THEN Process(From(cursor), "connect")
         ELSE /\ cursor' = cursor + Len(From(cursor))
              /\ shown' = shown \o From(cursor)
              /\ Over(IF status = "completed" THEN "completed" ELSE "ended")
  BY DEF Reconcile
<1>3. /\ n \in 0..Len(history) - cursor /\ known <= cursor + n /\ cursor \in Nat
      /\ From(cursor) = After(cursor, n) /\ Len(From(cursor)) = n
  <2>1. cursor \in 0..Len(history)
    BY <1>1 DEF Prefixes
  <2>2. /\ Furthest(cursor) \in cursor..Len(history) /\ known <= Furthest(cursor) /\ n \in Nat
        /\ From(cursor) = After(cursor, n) /\ Len(From(cursor)) = n
    BY <1>1, <2>1, FromIs, Zenon
  <2> QED BY <1>1, <2>1, <2>2 DEF Prefixes
<1> HIDE DEF n
<1>4. at' # "read" /\ wire' = Off
  BY <1>1, <1>2 DEF WireFits, Process, Over
<1>5. wire' \in Wires /\ wire'.index <= Len(history) /\ WireFits'
  BY <1>1, <1>4 DEF Wires, WireFits, Off, Prefixes
<1>6. CASE Ends(From(cursor)) # {} \/ Active
  BY <1>2, <1>3, <1>6, <1>5, TakeKeeps
<1>7. CASE ~(Ends(From(cursor)) # {} \/ Active)
  <2>1. UNCHANGED <<status, known, history, row, restarts>>
    BY <1>2 DEF runVars
  <2>2. /\ cursor' = cursor + n /\ at' = "over"
        /\ shown' = shown \o After(cursor, n)
        /\ outcome' = IF status = "completed" THEN "completed" ELSE "ended"
    BY <1>2, <1>3, <1>7 DEF Over
  <2>3. \A i \in 1..known : history[i] = "news"
    <3> SUFFICES ASSUME NEW i \in 1..known PROVE history[i] = "news"
      OBVIOUS
    <3>1. CASE i <= cursor
      BY <1>1, <1>2, <3>1 DEF NothingEnds, Prefixes
    <3>2. CASE ~(i <= cursor)
      <4>1. i - cursor \in 1..n /\ cursor + (i - cursor) = i /\ history[i] \in Kinds
        BY <1>1, <1>3, <3>2 DEF Prefixes
      <4>2. i - cursor \in DOMAIN From(cursor) /\ From(cursor)[i - cursor] = i
        BY <1>3, <4>1 DEF After
      <4>3. i - cursor \notin Ends(From(cursor))
        BY <1>7
      <4> QED BY <4>1, <4>2, <4>3 DEF Ends, Kinds
    <3> QED BY <3>1, <3>2
  <2>4. status # "completed"
    BY <1>1, <2>3 DEF CompletedIsDone, Has
  <2>5. ShownInOrder'
    <3>1. n \in Nat
      BY <1>1, <1>3 DEF Prefixes
    <3>2. shown \o After(cursor, n) = After(0, cursor + n)
      BY <1>1, <3>1, ShownExtends, Zenon
    <3> QED BY <2>2, <3>2 DEF ShownInOrder, After
  <2>6. Prefixes'
    BY <1>1, <1>3, <1>5, <2>1, <2>2, <2>4 DEF Prefixes, Wires
  <2>7. DoneKnown' /\ CompletedIsDone' /\ NothingEnds'
    BY <2>1, <2>2 DEF StreamInv, DoneKnown, CompletedIsDone, NothingEnds, Active, Has
  <2>8. OutcomeBacked'
    BY <1>7, <2>1, <2>2, <2>3, <2>4 DEF OutcomeBacked, Active
  <2> QED BY <1>5, <2>5, <2>6, <2>7, <2>8 DEF StreamInv
<1> QED BY <1>6, <1>7

\* The steps that read nothing.
LEMMA BrowserWaits ==
  ASSUME StreamInv, Connect \/ ConnectFails \/ SignedOut \/ ReadFails \/ ReadEnds \/ ReconcileFails
  PROVE  StreamInv'
<1>1. Prefixes /\ WireFits /\ cursor \in 0..Len(history) /\ wire \in Wires
  BY DEF StreamInv, Prefixes
<1>2. /\ UNCHANGED <<runVars, cursor, shown, restarts>> /\ at # "over"
      /\ at' \in {"connect", "read", "reconcile", "over"}
      /\ \/ at' # "over" /\ outcome' = outcome
         \/ at' = "over" /\ outcome' = "signed_out"
      /\ \/ at' = "read" /\ wire' = Flushed(cursor, <<>>)
         \/ at' # "read" /\ wire' = Off
  BY <1>1 DEF Connect, StartIndex, ConnectFails, SignedOut, ReadFails, ReadEnds, ReconcileFails,
             Over, WireFits
<1>3. outcome = "none"
  BY <1>1, <1>2 DEF Prefixes
<1>4. wire' \in Wires /\ wire'.index <= Len(history) /\ WireFits'
  <2>1. CASE at' # "read"
    <3>1. wire' = Off
      BY <1>2, <2>1
    <3> QED BY <1>1, <2>1, <3>1 DEF Wires, WireFits, Off, Prefixes
  <2>2. CASE at' = "read"
    <3>1. wire' = Flushed(cursor, <<>>) /\ <<>> \in Seq(Nat) /\ cursor \in Nat
      BY <1>1, <1>2, <2>2 DEF Prefixes
    <3>2. wire' \in Wires /\ wire'.index <= Len(history)
      BY <1>1, <3>1, FlushedType, Zenon
    <3>3. 0 \in Nat /\ <<>> = After(cursor, 0) /\ cursor = cursor + 0
      BY <3>1 DEF After
    <3>4. /\ wire'.parts = After(cursor, Len(wire'.parts))
          /\ wire'.index = cursor + Len(wire'.parts)
      BY <1>1, <3>1, <3>3, FlushFits, Zenon
    <3> QED BY <1>2, <2>2, <3>2, <3>4 DEF WireFits, After
  <2> QED BY <2>1, <2>2
<1> QED BY <1>2, <1>3, <1>4, WireKeeps

LEMMA CutKeeps == ASSUME StreamInv, NEW is \in {"broken", "cut"}, Cut(is) PROVE StreamInv'
<1>1. UNCHANGED <<runVars, at, cursor, shown, outcome, restarts>>
  BY DEF Cut, browserVars
<1>2. wire' \in Wires /\ wire'.index = wire.index /\ wire'.parts = wire.parts
  BY DEF Cut, StreamInv, Prefixes, Wires
<1>3. at' \in {"connect", "read", "reconcile", "over"} /\ wire'.index <= Len(history)
  BY <1>1, <1>2 DEF StreamInv, Prefixes
<1>4. WireFits'
  BY <1>1, <1>2 DEF Cut, StreamInv, WireFits, After, Off
<1> QED BY <1>1, <1>2, <1>3, <1>4, WireKeeps

-----------------------------------------------------------------------------
(* The stream.                                                               *)

LEMMA StreamInvStep == ASSUME StreamInv, [StreamNext]_streamVars PROVE StreamInv'
<1>1. CASE RunGoesOn
  BY <1>1, GrowKeeps, EndKeeps, FailKeeps, SaveKeeps DEF RunGoesOn
<1>2. CASE Restart
  BY <1>2, RestartKeepsStream
<1>3. CASE Network
  BY <1>3, CutKeeps DEF Network
<1>4. CASE Browser
  BY <1>4, ReadKeeps, ReconcileKeeps, BrowserWaits DEF Browser
<1>5. CASE UNCHANGED streamVars
  <2>1. UNCHANGED <<runVars, wire, at, cursor, shown, outcome, restarts>>
    BY <1>5 DEF streamVars, browserVars
  <2>2. WireFits'
    BY <2>1 DEF StreamInv, WireFits, After, Off
  <2> QED BY <2>1, <2>2, WireKeeps DEF StreamInv, Prefixes
<1> QED BY <1>1, <1>2, <1>3, <1>4, <1>5 DEF StreamNext

\* Where a browser stands, what it has shown, and what it was told, agree.
LEMMA StreamInvImplies == StreamInv => ShownInOrder /\ OutcomeTrue
<1> SUFFICES ASSUME StreamInv PROVE ShownInOrder /\ OutcomeTrue
  OBVIOUS
<1>1. ShownInOrder /\ history \in Seq(Kinds) /\ cursor \in 0..Len(history)
  BY DEF StreamInv, Prefixes
<1>2. shown = After(0, cursor) /\ Len(shown) = cursor
  BY <1>1 DEF ShownInOrder, After
<1>3. ASSUME cursor > 0 PROVE shown # <<>> /\ shown[Len(shown)] = cursor
  BY <1>1, <1>2, <1>3 DEF After
<1>4. OutcomeTrue
  BY <1>3, <1>1 DEF StreamInv, OutcomeBacked, OutcomeTrue, Prefixes, Kinds
<1> QED BY <1>1, <1>4

\* However the connection breaks and the bridge restarts, a browser shows the
\* events of the run once and in order.
THEOREM StreamSafe == StreamSpec => [](ShownInOrder /\ OutcomeTrue)
<1>1. StreamInit => StreamInv
  BY StreamInvInit
<1>2. StreamInv /\ [StreamNext]_streamVars => StreamInv'
  BY StreamInvStep
<1> QED BY <1>1, <1>2, StreamInvImplies, PTL DEF StreamSpec

-----------------------------------------------------------------------------
(* Whoever is at a request holds it alone, until it is resolved.  OneHolder  *)
(* is not inductive: it says nothing of an answer whose request is already   *)
(* resolved, nor that a pending request is held by nobody.                   *)

States == {"absent", "pending", "resolving", "resolved"}
Places == {"idle", "check", "upstream", "replied", "lost"}

RegistryType ==
  /\ restarts \in Nat
  /\ hermes \in Nat /\ heard \in Nat
  /\ records \in [Requests -> States]
  /\ answer \in [Answers -> [pc : Places, request : Nat]]

\* Only what is being resolved, or was, is held.
HeldIsClaimed ==
  \A a \in Answers : answer[a].pc # "idle" =>
    /\ answer[a].request \in Requests
    /\ records[answer[a].request] \in {"resolving", "resolved"}

\* While it is being resolved, it has a holder and no second one.
HolderExists ==
  \A q \in Requests : records[q] = "resolving" => \E a \in Answers : Holds(a, q)

HolderUnique ==
  \A q \in Requests : records[q] = "resolving" =>
    \A a, b \in Answers : Holds(a, q) /\ Holds(b, q) => a = b

RegistryInv == RegistryType /\ HeldIsClaimed /\ HolderExists /\ HolderUnique

\* The browser and the run leave the registry alone, and only Restart counts
\* a restart.
LEMMA StreamKeeps ==
  ASSUME RunGoesOn \/ Browser \/ Network
  PROVE  restarts' = restarts
BY DEF RunGoesOn, Browser, Network, Grow, End, Fail, Save, Cut, Connect, ConnectFails,
       SignedOut, Read, ReadFails, ReadEnds, Reconcile, ReconcileFails

\* How an event changes a record: it stays, or becomes pending when the request
\* is new, or resolved.
LEMMA RecordedIs ==
  ASSUME RegistryType, NEW n \in Nat
  PROVE  \/ Recorded(n) = records[Request(n)]
         \/ records[Request(n)] = "absent" /\ Recorded(n) = "pending"
         \/ Recorded(n) = "resolved"
BY DEF Recorded

\* The registry after a request was released.
LEMMA ReleasedIs ==
  ASSUME RegistryType, NEW q \in Requests
  PROVE  /\ Released(q) \in [Requests -> States]
         /\ \A r \in Requests : r # q => Released(q)[r] = records[r]
         /\ Released(q)[q] = IF records[q] = "resolving" THEN "pending" ELSE records[q]
BY DEF Released, RegistryType, States

\* An answer that leaves its request in no need of a holder may go.
LEMMA ReturnKeeps ==
  ASSUME RegistryInv, NEW a \in Answers, NEW q \in Requests,
         answer[a].pc # "idle", answer[a].request = q, Return(a),
         records' \in [Requests -> States],
         records'[q] \in {"pending", "resolved"},
         records[q] = "resolved" => records'[q] = "resolved",
         \A r \in Requests : r # q => records'[r] = records[r],
         restarts' \in Nat, hermes' \in Nat, heard' \in Nat
  PROVE  RegistryInv'
<1>1. answer' \in [Answers -> [pc : Places, request : Nat]]
  BY DEF RegistryInv, RegistryType, Return, Idle, Places
<1>2. \A b \in Answers : b # a => answer'[b] = answer[b]
  BY DEF Return, RegistryInv, RegistryType
<1>3. answer'[a].pc = "idle"
  BY DEF Return, Idle, RegistryInv, RegistryType
<1>4. HeldIsClaimed'
  <2> SUFFICES ASSUME NEW b \in Answers, answer'[b].pc # "idle"
               PROVE  /\ answer'[b].request \in Requests
                      /\ records'[answer'[b].request] \in {"resolving", "resolved"}
    BY DEF HeldIsClaimed
  <2>1. b # a /\ answer'[b] = answer[b]
    BY <1>2, <1>3
  <2>2. /\ answer[b].request \in Requests
        /\ records[answer[b].request] \in {"resolving", "resolved"}
    BY <2>1 DEF RegistryInv, HeldIsClaimed
  <2>3. CASE answer[b].request # q
    BY <2>1, <2>2, <2>3
  <2>4. CASE answer[b].request = q
    \* Two at one request: it is resolved already.
    <3>1. records[q] # "resolving"
      BY <2>1, <2>4 DEF RegistryInv, HolderUnique, Holds
    <3> QED BY <3>1, <2>1, <2>2, <2>4
  <2> QED BY <2>3, <2>4
<1>5. HolderExists'
  BY <1>2 DEF RegistryInv, HolderExists, Holds
<1>6. HolderUnique'
  BY <1>2, <1>3 DEF RegistryInv, HolderUnique, Holds
<1> QED BY <1>1, <1>4, <1>5, <1>6 DEF RegistryInv, RegistryType

\* An answer that goes on with its request keeps it.
LEMMA AdvanceKeeps ==
  ASSUME RegistryInv, NEW a \in Answers, NEW place \in Places \ {"idle"},
         answer[a].pc # "idle",
         answer' = [answer EXCEPT ![a].pc = place],
         records' = records,
         restarts' \in Nat, hermes' \in Nat, heard' \in Nat
  PROVE  RegistryInv'
<1>1. answer' \in [Answers -> [pc : Places, request : Nat]]
  BY DEF RegistryInv, RegistryType, Places
<1>2. \A b \in Answers : /\ answer'[b].request = answer[b].request
                         /\ (answer'[b].pc = "idle") <=> (answer[b].pc = "idle")
  BY DEF RegistryInv, RegistryType
<1>3. HeldIsClaimed'
  BY <1>2 DEF RegistryInv, HeldIsClaimed
<1>4. HolderExists' /\ HolderUnique'
  BY <1>2 DEF RegistryInv, HolderExists, HolderUnique, Holds
<1> QED BY <1>1, <1>3, <1>4 DEF RegistryInv, RegistryType

-----------------------------------------------------------------------------
(* The steps.                                                                *)

LEMMA RegistryInit == Init => RegistryInv
BY DEF Init, StreamInit, RegistryInv, RegistryType, States, Places, HeldIsClaimed, HolderExists,
       HolderUnique, Holds, Idle

LEMMA RegistryUnchanged ==
  ASSUME RegistryInv, UNCHANGED <<records, answer>>, restarts' \in Nat, hermes' \in Nat,
         heard' \in Nat
  PROVE  RegistryInv'
BY DEF RegistryInv, RegistryType, HeldIsClaimed, HolderExists, HolderUnique, Holds

LEMMA HearKeeps == ASSUME RegistryInv, Hear PROVE RegistryInv'
<1> DEFINE q == Request(heard')
<1>1. /\ heard' \in Nat /\ hermes' = hermes /\ restarts' = restarts /\ answer' = answer
      /\ records' = [records EXCEPT ![q] = Recorded(heard')]
  BY DEF Hear, Grow, RegistryInv, RegistryType
<1>2. CASE q \notin Requests
  BY <1>1, <1>2, RegistryUnchanged DEF RegistryInv, RegistryType
<1>3. CASE q \in Requests
  <2>1. \/ records'[q] = records[q]
        \/ records[q] = "absent" /\ records'[q] = "pending"
        \/ records'[q] = "resolved"
    BY <1>1, <1>3, RecordedIs DEF RegistryInv, RegistryType
  <2>2. \A r \in Requests : r # q => records'[r] = records[r]
    BY <1>1 DEF RegistryInv, RegistryType
  <2>3. records' \in [Requests -> States]
    <3>1. Recorded(heard') \in States
      BY <1>1, <1>3, RecordedIs DEF RegistryInv, RegistryType, States
    <3> QED BY <1>1, <3>1 DEF RegistryInv, RegistryType
  <2>4. HeldIsClaimed'
    BY <1>1, <2>1, <2>2 DEF RegistryInv, HeldIsClaimed
  <2>5. HolderExists' /\ HolderUnique'
    BY <1>1, <2>1, <2>2 DEF RegistryInv, HolderExists, HolderUnique, Holds
  <2> QED BY <1>1, <2>3, <2>4, <2>5 DEF RegistryInv, RegistryType
<1> QED BY <1>2, <1>3

LEMMA ClaimKeeps ==
  ASSUME RegistryInv, NEW a \in Answers, NEW q \in Requests, Claim(a, q)
  PROVE  RegistryInv'
<1> DEFINE taken == [pc |-> "check", request |-> q]
<1>1. /\ answer[a] = Idle /\ records[q] = "pending"
      /\ records' = [records EXCEPT ![q] = "resolving"]
      /\ answer' = [answer EXCEPT ![a] = taken]
      /\ hermes' = hermes /\ heard' = heard /\ restarts' = restarts
  BY DEF Claim, streamVars
<1>2. q \in Nat
  BY DEF Requests
<1>3. answer' \in [Answers -> [pc : Places, request : Nat]] /\ records' \in [Requests -> States]
  BY <1>1, <1>2 DEF RegistryInv, RegistryType, Places, States
<1>4. \A b \in Answers : b # a => answer'[b] = answer[b]
  BY <1>1 DEF RegistryInv, RegistryType
<1>5. answer'[a].pc = "check" /\ answer'[a].request = q
  BY <1>1 DEF RegistryInv, RegistryType
<1>6. records'[q] = "resolving" /\ \A r \in Requests : r # q => records'[r] = records[r]
  BY <1>1 DEF RegistryInv, RegistryType
\* It was pending: nobody was at it.
<1>7. \A b \in Answers : ~Holds(b, q)
  BY <1>1 DEF RegistryInv, HeldIsClaimed, Holds
<1>8. HeldIsClaimed'
  <2> SUFFICES ASSUME NEW b \in Answers, answer'[b].pc # "idle"
               PROVE  /\ answer'[b].request \in Requests
                      /\ records'[answer'[b].request] \in {"resolving", "resolved"}
    BY DEF HeldIsClaimed
  <2>1. CASE b = a
    BY <2>1, <1>5, <1>6
  <2>2. CASE b # a
    BY <2>2, <1>4, <1>6 DEF RegistryInv, HeldIsClaimed
  <2> QED BY <2>1, <2>2
<1>9. HolderExists'
  <2> SUFFICES ASSUME NEW r \in Requests, records'[r] = "resolving"
               PROVE  \E b \in Answers : Holds(b, r)'
    BY DEF HolderExists
  <2>1. CASE r = q
    BY <2>1, <1>5 DEF Holds
  <2>2. CASE r # q
    <3>1. PICK b \in Answers : Holds(b, r)
      BY <2>2, <1>6 DEF RegistryInv, HolderExists
    <3>2. b # a
      BY <3>1, <1>1 DEF Holds, Idle
    <3> QED BY <3>1, <3>2, <1>4 DEF Holds
  <2> QED BY <2>1, <2>2
<1>10. HolderUnique'
  <2> SUFFICES ASSUME NEW r \in Requests, records'[r] = "resolving",
                      NEW b \in Answers, NEW c \in Answers, Holds(b, r)', Holds(c, r)'
               PROVE  b = c
    BY DEF HolderUnique
  <2>1. CASE r = q
    BY <2>1, <1>4, <1>7 DEF Holds
  <2>2. CASE r # q
    BY <2>2, <1>4, <1>5, <1>6 DEF Holds, RegistryInv, HolderUnique
  <2> QED BY <2>1, <2>2
<1> QED BY <1>1, <1>3, <1>8, <1>9, <1>10 DEF RegistryInv, RegistryType

\* A request that is given back, whatever became of it meanwhile.
LEMMA GiveBackKeeps ==
  ASSUME RegistryInv, NEW a \in Answers, answer[a].pc # "idle", Return(a),
         records' = Released(answer[a].request),
         restarts' = restarts, hermes' = hermes, heard' = heard
  PROVE  RegistryInv'
<1> DEFINE q == answer[a].request
<1>1. q \in Requests /\ records[q] \in {"resolving", "resolved"}
  BY DEF RegistryInv, HeldIsClaimed
<1>2. /\ records' \in [Requests -> States]
      /\ records'[q] \in {"pending", "resolved"}
      /\ records[q] = "resolved" => records'[q] = "resolved"
      /\ \A r \in Requests : r # q => records'[r] = records[r]
  BY <1>1, ReleasedIs DEF RegistryInv
<1> QED BY <1>1, <1>2, ReturnKeeps DEF RegistryInv, RegistryType

LEMMA RespondKeeps ==
  ASSUME RegistryInv, NEW a \in Answers, Respond(a)
  PROVE  RegistryInv'
<1>1. CASE \E q \in Requests : Claim(a, q)
  BY <1>1, ClaimKeeps
<1>2. CASE Check(a)
  <2>1. /\ answer[a].pc # "idle"
        /\ restarts' = restarts /\ hermes' = hermes /\ heard' = heard
    BY <1>2 DEF Check, streamVars
  <2>2. CASE Active
    BY <1>2, <2>1, <2>2, AdvanceKeeps DEF Check, RegistryInv, RegistryType, Places
  <2>3. CASE ~Active
    BY <1>2, <2>1, <2>3, GiveBackKeeps DEF Check
  <2> QED BY <2>2, <2>3
<1>3. CASE \E m \in {"replied", "lost"} : Answered(a, m)
  <2>1. PICK m \in {"replied", "lost"} : Answered(a, m)
    BY <1>3
  <2>2. /\ answer[a].pc # "idle" /\ records' = records
        /\ answer' = [answer EXCEPT ![a].pc = m]
        /\ restarts' \in Nat /\ hermes' \in Nat /\ heard' \in Nat
    BY <2>1 DEF Answered, streamVars, RegistryInv, RegistryType
  <2>3. m \in Places \ {"idle"}
    BY DEF Places
  <2> QED BY <2>2, <2>3, AdvanceKeeps
<1>4. CASE Complete(a)
  <2> DEFINE q == answer[a].request
  <2>1. q \in Requests /\ answer[a].pc # "idle"
    BY <1>4 DEF Complete, RegistryInv, HeldIsClaimed
  <2>2. /\ records' \in [Requests -> States] /\ records'[q] = "resolved"
        /\ \A r \in Requests : r # q => records'[r] = records[r]
    BY <1>4, <2>1 DEF Complete, RegistryInv, RegistryType, States
  <2>3. Return(a) /\ restarts' \in Nat /\ hermes' \in Nat /\ heard' \in Nat
    BY <1>4 DEF Complete, streamVars, RegistryInv, RegistryType
  <2> QED BY <2>1, <2>2, <2>3, ReturnKeeps
<1>5. CASE Release(a)
  BY <1>5, GiveBackKeeps DEF Release, streamVars
<1> QED BY <1>1, <1>2, <1>3, <1>4, <1>5 DEF Respond

LEMMA RestartKeeps == ASSUME RegistryInv, RestartRegistry PROVE RegistryInv'
<1>1. /\ records' = [q \in Requests |-> "absent"]
      /\ answer' = [a \in Answers |-> Idle]
      /\ restarts' \in Nat /\ hermes' \in Nat /\ heard' \in Nat
  BY DEF RestartRegistry, Restart, RegistryInv, RegistryType
<1>2. answer' \in [Answers -> [pc : Places, request : Nat]] /\ records' \in [Requests -> States]
  BY <1>1 DEF Idle, Places, States
<1>3. HeldIsClaimed' /\ HolderExists' /\ HolderUnique'
  BY <1>1 DEF HeldIsClaimed, HolderExists, HolderUnique, Holds, Idle
<1> QED BY <1>1, <1>2, <1>3 DEF RegistryInv, RegistryType

LEMMA RegistryStep == ASSUME RegistryInv, [Next]_vars PROVE RegistryInv'
<1>1. CASE (RunGoesOn \/ Browser \/ Network) /\ UNCHANGED registryVars
  BY <1>1, StreamKeeps, RegistryUnchanged DEF registryVars, RegistryInv, RegistryType
<1>2. CASE HermesAsks \/ HermesGoesOn
  BY <1>2, RegistryUnchanged DEF HermesAsks, HermesGoesOn, streamVars, RegistryInv, RegistryType
<1>3. CASE Hear
  BY <1>3, HearKeeps
<1>4. CASE \E a \in Answers : Respond(a)
  BY <1>4, RespondKeeps
<1>5. CASE RestartRegistry
  BY <1>5, RestartKeeps
<1>6. CASE UNCHANGED vars
  BY <1>6, RegistryUnchanged DEF vars, streamVars, registryVars, RegistryInv, RegistryType
<1> QED BY <1>1, <1>2, <1>3, <1>4, <1>5, <1>6 DEF Next

\* The registry of every run, with any number of requests and windows.
THEOREM RegistryInvariant == Spec => []RegistryInv
<1>1. Init => RegistryInv
  BY RegistryInit
<1>2. RegistryInv /\ [Next]_vars => RegistryInv'
  BY RegistryStep
<1> QED BY <1>1, <1>2, PTL DEF Spec

-----------------------------------------------------------------------------
(* What the run checks.                                                      *)

\* At no time are two windows answering one request, and none that is being
\* answered is without a window that will settle it.
THEOREM OneHolderAlways == Spec => []OneHolder
<1>1. RegistryInv => OneHolder
  <2> SUFFICES ASSUME RegistryInv, NEW q \in Requests, records[q] = "resolving"
               PROVE  \E a \in Answers : {b \in Answers : Holds(b, q)} = {a}
    BY DEF OneHolder
  <2>1. PICK a \in Answers : Holds(a, q)
    BY DEF RegistryInv, HolderExists
  <2>2. \A b \in Answers : Holds(b, q) <=> b = a
    BY <2>1 DEF RegistryInv, HolderUnique
  <2> QED BY <2>1, <2>2
<1> QED BY <1>1, RegistryInvariant, PTL

\* No step of a process takes a resolved approval back.
THEOREM ResolvedAlwaysStays == Spec => ResolvedStays
<1> DEFINE Stays == restarts' = restarts =>
      (\A q \in Requests : records[q] = "resolved" => records'[q] = "resolved")
<1>1. ASSUME RegistryInv, [Next]_vars PROVE Stays
  <2> SUFFICES ASSUME restarts' = restarts, NEW q \in Requests, records[q] = "resolved"
               PROVE  records'[q] = "resolved"
    OBVIOUS
  <2>1. CASE records' = records
    BY <2>1
  <2>2. CASE Hear
    <3>1. records' = [records EXCEPT ![Request(heard')] = Recorded(heard')] /\ heard' \in Nat
      BY <1>1, <2>2 DEF Hear, RegistryInv, RegistryType
    <3> QED BY <1>1, <3>1, RecordedIs DEF RegistryInv, RegistryType
  <2>3. ASSUME NEW a \in Answers, Respond(a) PROVE records'[q] = "resolved"
    <3>1. CASE \E r \in Requests : Claim(a, r)
      BY <1>1, <3>1 DEF Claim, RegistryInv, RegistryType
    <3>2. CASE answer[a].pc # "idle" /\ records' = Released(answer[a].request)
      <4>1. answer[a].request \in Requests
        BY <1>1, <3>2 DEF RegistryInv, HeldIsClaimed
      <4> QED BY <1>1, <3>2, <4>1, ReleasedIs DEF RegistryInv
    <3>3. CASE Complete(a)
      BY <1>1, <3>3 DEF Complete, RegistryInv, RegistryType
    <3> QED BY <2>1, <2>3, <3>1, <3>2, <3>3 DEF Respond, Check, Answered, Release
  <2>4. CASE RestartRegistry
    BY <1>1, <2>4 DEF RestartRegistry, Restart, RegistryInv, RegistryType
  <2> QED BY <1>1, <2>1, <2>2, <2>3, <2>4
            DEF Next, HermesAsks, HermesGoesOn, registryVars, vars
<1>2. RegistryInv /\ [Next]_vars => [Stays]_vars
  BY <1>1
<1> QED BY <1>2, RegistryInvariant, PTL DEF Spec, ResolvedStays

-----------------------------------------------------------------------------
(* The run and the browser go their way beside the registry.                 *)

\* To the run and the browser, every step is one of RunStream or none: Hermes's
\* requests reach them as events, and answers to them not at all.
LEMMA StreamStep == [Next]_vars => [StreamNext]_streamVars
<1> SUFFICES ASSUME [Next]_vars PROVE [StreamNext]_streamVars
  OBVIOUS
<1>1. CASE RunGoesOn \/ Browser \/ Network
  BY <1>1 DEF StreamNext
<1>2. CASE Hear
  <2>1. <<"news">> \in Appended
    BY DEF Appended
  <2> QED BY <1>2, <2>1 DEF Hear, StreamNext, RunGoesOn
<1>3. CASE RestartRegistry
  BY <1>3 DEF RestartRegistry, StreamNext
<1>4. CASE HermesAsks \/ HermesGoesOn \/ \E a \in Answers : Respond(a)
  BY <1>4 DEF HermesAsks, HermesGoesOn, Respond, Claim, Check, Answered, Complete, Release
<1>5. CASE UNCHANGED vars
  BY <1>5 DEF vars
<1> QED BY <1>1, <1>2, <1>3, <1>4, <1>5 DEF Next

\* The bridge with its registry implements the bridge without.
THEOREM ImplementsStream == Spec => StreamSpec
<1>1. Init => StreamInit
  BY DEF Init
<1> QED BY <1>1, StreamStep, PTL DEF Spec, StreamSpec

\* A browser shows the events of a run once and in order, whatever breaks.
THEOREM ShownAlwaysInOrder == Spec => []ShownInOrder
BY ImplementsStream, StreamSafe, PTL

\* No browser is told of an end that the events it has shown do not bear out.
THEOREM OutcomeAlwaysTrue == Spec => []OutcomeTrue
BY ImplementsStream, StreamSafe, PTL
=============================================================================
