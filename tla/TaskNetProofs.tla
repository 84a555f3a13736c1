---------------------------- MODULE TaskNetProofs ----------------------------
(***************************************************************************)
(* Theorems about a task shared by servers, for every set of servers,      *)
(* authors and moves and every schedule of losses and restarts.            *)
(***************************************************************************)
EXTENDS TaskNet, FiniteSetTheorems, QueueLemmas

(***************************************************************************)
(* The inductive invariant.                                                *)
(*                                                                         *)
(* A server other than the home applies a participant's move only on the   *)
(* home's word: a receipt, or a move the home itself signed.  That the     *)
(* word is true when it is heard is a fact about everything it passes      *)
(* through: messages in flight, steps a handler has left, the defer queue, *)
(* and the log a catch-up is read from.  So the invariant says of every    *)
(* trace of such an event, wherever it is, that the home has given it.     *)
(***************************************************************************)

\* By the home's log c: the home has given the event; the event, if it is
\* the home's to give (its word, or the post that opens the task), has been.
Given(c, id) == IF IsReceipt(id) THEN c[id] = "record" ELSE c[id] = "confirmed"
Heard(c, id) == SpeaksForHome(id) \/ id = Move(Opener) => Given(c, id)

\* A step names what its kind of step needs, and is owed what it counts on.
Handled == {"judge", "ask", "park", "replay", "look"}
StepOK(c, s, it) ==
    /\ it.op \in Handled => it.id \in Ids /\ it.peer \in Servers
    /\ it.op = "park" => it.on \in Ids \cup Authors \cup Servers
    /\ it.op = "release" => it.id \in Ids
    /\ it.op = "takekey" => it.on \in Authors \cup Servers
    /\ it.op = "mint" => /\ it.id \in Ids /\ ~IsReceipt(it.id)
                         /\ s = Home /\ c[it.id] = "confirmed"
    /\ it.id \in Ids => Heard(c, it.id)

\* The types, with the queues as functions of the server and the task.
Stores == [conf : [Ids -> ConfirmStates], row : Rows]
Typed ==
    /\ conf \in [Servers -> [Ids -> ConfirmStates]]
    /\ row \in [Servers -> Rows]
    /\ keys \in [Servers -> SUBSET (Authors \cup Servers)]
    /\ parked \in [Servers -> Seq(StepsLeft)]
    /\ work \in [Servers -> [Tasks -> Seq(StepsLeft)]]
    /\ routes \in [Servers -> SUBSET Moves]
    /\ net \subseteq Messages
    /\ minted \in Seq(Ids)
    /\ owed \subseteq Servers \X Servers
    /\ faults \in 0..MaxFaults
    /\ past \subseteq Rows

\* A task that is over has a move that ended it.
EndedBy(c, r) ==
    r = NoRow /\ c[Move(Opener)] # "absent" =>
        \E m \in Moves : EndsIn[m] # "none" /\ c[Move(m)] = "confirmed"
Ended == \A s \in Servers : EndedBy(conf[s], row[s])

\* Every step waiting in the queues P and W is in order.
ParkedOK(c, P) ==
    \A s \in Servers : \A it \in Items(P[s]) : it.op = "park" /\ StepOK(c, s, it)
WorkOK(c, W) ==
    \A s \in Servers, t \in Tasks : \A it \in Items(W[s][t]) : StepOK(c, s, it)
StepsOK == ParkedOK(conf[Home], parked) /\ WorkOK(conf[Home], work)

NetOK == \A msg \in net : Heard(conf[Home], msg.id)
LogsOK ==
    /\ \A s \in Servers, id \in Ids : conf[s][id] # "absent" => Heard(conf[Home], id)
    /\ \A m \in Moves : conf[Home][Receipt(m)] # "absent" => conf[Home][Move(m)] = "confirmed"

\* NoLostKey, of the items of the queues P and W and the keys K.
TakenSoon(W, s, a) == \E t \in Tasks : TakeKey(a) \in Items(W[s][t])
Awaited(P, K, W) ==
    \A s \in Servers : \A it \in Items(P[s]) : it.on \in K[s] => TakenSoon(W, s, it.on)
KeysAwaited == Awaited(parked, keys, work)

TaskInv == Typed /\ Ended /\ StepsOK /\ NetOK /\ LogsOK /\ FollowersOnlyFollow /\ KeysAwaited

-------------------------------------------------------------------------------
(***************************************************************************)
(* Facts about the operators.                                              *)
(***************************************************************************)

\* Events are moves and receipts, and no move is a receipt.
LEMMA IdFacts ==
  /\ \A m \in Moves : /\ Move(m) \in Ids /\ Receipt(m) \in Ids
                      /\ ~IsReceipt(Move(m)) /\ IsReceipt(Receipt(m))
                      /\ Move(m)[1] = m /\ Receipt(m)[1] = m
                      /\ SpeaksForHome(Receipt(m))
  /\ \A m, n \in Moves : Move(m) # Receipt(n) /\ (Move(m) = Move(n) => m = n)
                         /\ (Receipt(m) = Receipt(n) => m = n)
  /\ \A id \in Ids : /\ id[1] \in Moves
                     /\ IsReceipt(id) => id = Receipt(id[1])
                     /\ ~IsReceipt(id) => id = Move(id[1])
  BY DEF Ids, Move, Receipt, IsReceipt, SpeaksForHome

\* Every row of the table lands in a state of its kind, and "none" is not one.
LEMMA TableFacts ==
  /\ \A r \in Transitions[Kind] : r.to \in Terminal[Kind] \cup NonTerminal[Kind]
  /\ "none" \notin Terminal[Kind] /\ "none" \notin NonTerminal[Kind]
  /\ CheckOpen(Kind, Offeree # NoOne) # {}
  /\ \A x \in CheckOpen(Kind, Offeree # NoOne) : x \in NonTerminal[Kind]
<1>1. CASE Kind = "handoff"
  BY <1>1 DEF Transitions, HandoffRows, Row, Terminal, NonTerminal, CheckOpen
<1>2. CASE Kind = "bounty"
  BY <1>2, TaskAssumption DEF Transitions, BountyRows, Row, Terminal, NonTerminal, CheckOpen
<1> QED BY <1>1, <1>2, TaskAssumption

\* Picking positions out of a queue picks exactly the items there.
LEMMA PickedItems ==
  ASSUME NEW S, NEW s \in Seq(S), NEW I \in SUBSET DOMAIN s
  PROVE  Picked(s, I) \in Seq(S) /\ Items(Picked(s, I)) = {s[i] : i \in I}
<1> DEFINE c == Cardinality(I)
           upTo(i) == {j \in I : j <= i}
           rank == [i \in I |-> Cardinality(upTo(i))]
           P == Picked(s, I)
<1>1. Len(s) \in Nat /\ DOMAIN s = 1 .. Len(s) /\ s \in [1 .. Len(s) -> S]
  BY LenProperties
<1>2. IsFiniteSet(I) /\ I \in SUBSET Nat
  <2>1. IsFiniteSet(1 .. Len(s))
    BY <1>1, FS_Interval
  <2>2. I \in SUBSET (1 .. Len(s))
    BY <1>1
  <2>3. IsFiniteSet(I)
    BY <2>1, <2>2, FS_Subset
  <2> QED BY <1>1, <2>2, <2>3
<1>3. c \in Nat
  BY <1>2, FS_CardinalityType
<1>4. ASSUME NEW i \in I
      PROVE  /\ IsFiniteSet(upTo(i)) /\ Cardinality(upTo(i)) \in 1 .. c
  <2>1. upTo(i) \in SUBSET I /\ i \in upTo(i)
    BY <1>2
  <2> HIDE DEF upTo
  <2>2. IsFiniteSet(upTo(i)) /\ Cardinality(upTo(i)) <= c
    BY <1>2, <2>1, FS_Subset
  <2>3. Cardinality(upTo(i)) \in Nat /\ Cardinality(upTo(i)) # 0
    BY <2>1, <2>2, FS_CardinalityType, FS_EmptySet
  <2> QED BY <1>3, <2>2, <2>3
<1>5. ASSUME NEW i \in I, NEW j \in I, Cardinality(upTo(i)) = Cardinality(upTo(j))
      PROVE  i = j
  <2>1. ASSUME NEW x \in I, NEW y \in I, x < y, Cardinality(upTo(x)) = Cardinality(upTo(y))
        PROVE  FALSE
    <3>1. upTo(x) \in SUBSET upTo(y) /\ y \in upTo(y) /\ y \notin upTo(x)
      BY <1>2, <2>1
    <3>2. IsFiniteSet(upTo(y))
      BY <1>4
    <3> HIDE DEF upTo
    <3>3. upTo(x) = upTo(y)
      BY <2>1, <3>1, <3>2, FS_Subset
    <3> QED BY <3>1, <3>3
  <2>2. i < j \/ j < i \/ i = j
    BY <1>2
  <2> QED BY <1>5, <2>1, <2>2
<1>6. rank \in Injection(I, 1 .. c)
  BY <1>4, <1>5 DEF Injection, IsInjective
<1>7. rank \in Surjection(I, 1 .. c)
  <2>1. IsFiniteSet(1 .. c)
    BY <1>3, FS_Interval
  <2>2. Cardinality(1 .. c) = c
    <3>1. c \in Int /\ 1 \in Int
      BY <1>3
    <3> HIDE DEF c
    <3>2. Cardinality(1 .. c) = IF 1 > c THEN 0 ELSE c - 1 + 1
      BY <3>1, FS_Interval
    <3> QED BY <1>3, <3>2
  <2> HIDE DEF rank
  <2>3. Cardinality(I) = Cardinality(1 .. c) <=> rank \in Surjection(I, 1 .. c)
    BY <1>6, <2>1, FS_Injection
  <2> QED BY <2>2, <2>3
<1>8. ASSUME NEW n \in 1 .. c
      PROVE  Nth(I, n) \in I /\ Cardinality(upTo(Nth(I, n))) = n
  <2>1. \E i \in I : Cardinality({j \in I : j <= i}) = n
    BY <1>7 DEF Surjection
  <2> QED BY <2>1 DEF Nth
<1>9. P = [n \in 1 .. c |-> s[Nth(I, n)]]
  BY DEF Picked
<1> HIDE DEF P, c
<1>10. \A n \in 1 .. c : s[Nth(I, n)] \in S
  BY <1>1, <1>8
<1>11. P \in [1 .. c -> S]
  BY <1>9, <1>10
<1>12. P \in Seq(S) /\ Len(P) = c
  BY <1>3, <1>11, SeqDef, LenProperties
<1>13. Items(P) = {s[Nth(I, n)] : n \in 1 .. c}
  BY <1>9, <1>12 DEF Items
<1>14. ASSUME NEW i \in I PROVE \E n \in 1 .. c : Nth(I, n) = i
  <2>1. Cardinality(upTo(i)) \in 1 .. c
    BY <1>4
  <2>2. /\ Nth(I, Cardinality(upTo(i))) \in I
        /\ Cardinality(upTo(Nth(I, Cardinality(upTo(i))))) = Cardinality(upTo(i))
    BY <1>8, <2>1
  <2>3. Nth(I, Cardinality(upTo(i))) = i
    <3> HIDE DEF upTo
    <3> QED BY <1>5, <2>2
  <2> QED BY <2>1, <2>3
<1>15. Items(P) = {s[i] : i \in I}
  BY <1>8, <1>13, <1>14
<1> QED BY <1>12, <1>15 DEF P

\* What leaves the queue is judged, each item once more.
LEMMA JudgesItems ==
  ASSUME NEW s \in Seq(StepsLeft)
  PROVE  /\ Judges(s) \in Seq(StepsLeft)
         /\ Items(Judges(s)) = {Judge(it) : it \in Items(s)}
<1>1. Len(s) \in Nat /\ DOMAIN s = 1 .. Len(s) /\ \A i \in 1 .. Len(s) : s[i] \in StepsLeft
  BY LenProperties
<1>2. \A it \in StepsLeft : Judge(it) \in StepsLeft
  BY DEF Judge, StepsLeft
<1>3. Judges(s) = [i \in 1 .. Len(s) |-> Judge(s[i])]
  BY <1>1 DEF Judges
<1>4. Judges(s) \in [1 .. Len(s) -> StepsLeft]
  BY <1>1, <1>2, <1>3
<1>5. Judges(s) \in Seq(StepsLeft) /\ Len(Judges(s)) = Len(s)
  BY <1>1, <1>4, SeqDef, LenProperties
<1>6. Items(Judges(s)) = {Judge(s[i]) : i \in 1 .. Len(s)}
  BY <1>3, <1>5 DEF Items
<1>7. Items(Judges(s)) = {Judge(it) : it \in Items(s)}
  BY <1>6 DEF Items
<1> QED BY <1>5, <1>7

\* Whom a move names, if anyone, is the author of a move.
LEMMA NamedType ==
  ASSUME NEW st \in Stores, NEW m \in Moves
  PROVE  /\ BidAuthor(st, m) \in Authors \cup {NoOne}
         /\ AssigneeSource(Kind, AsEvent(st, m, FALSE)) \in Authors \cup {NoOne}
<1>1. BidAuthor(st, m) \in Authors \cup {NoOne}
  BY TaskAssumption DEF BidAuthor, Authors
<1>2. Actor[m] \in Authors
  BY DEF Authors
<1>3. /\ AsEvent(st, m, FALSE).bidder = BidAuthor(st, m)
      /\ AsEvent(st, m, FALSE).actor = Actor[m]
  BY DEF AsEvent
<1> QED BY <1>1, <1>2, <1>3 DEF AssigneeSource

\* Where the rules take a task is where a row of its table does.
LEMMA LandsInTable ==
  ASSUME NEW st, NEW m \in Moves, NEW system, NEW to \in Lands(st, m, system)
  PROVE  /\ to \in Terminal[Kind] \cup NonTerminal[Kind]
         /\ to \in Terminal[Kind] => EndsIn[m] \in Terminal[Kind]
         /\ to # "none" /\ st.row # NoRow
<1>1. PICK r \in Transitions[Kind] : r.verb = Verb[m] /\ to = r.to
  BY DEF Lands, Check, AsEvent
<1>2. to \in Terminal[Kind] => EndsIn[m] \in Terminal[Kind]
  BY <1>1 DEF EndsIn, IsTerminal
<1>3. st.row # NoRow
  BY DEF Lands
<1> QED BY <1>1, <1>2, <1>3, TableFacts

\* Filing an event touches its own entry.
LEMMA FileAsOK ==
  ASSUME NEW st \in Stores, NEW id \in Ids, NEW c \in ConfirmStates
  PROVE  /\ FileAs(st, id, c) \in Stores
         /\ FileAs(st, id, c).row = st.row
         /\ FileAs(st, id, c).conf = [st.conf EXCEPT ![id] = c]
  BY DEF FileAs, Stores

\* From log c to log d nothing changes but move m, and unconfirmed moves
\* that are dropped.
OnlyDrops(c, d, m) ==
    \A x \in Ids \ {Move(m)} :
        \/ d[x] = c[x]
        \/ c[x] = "unconfirmed" /\ d[x] = "superseded"

\* A move that is applied is confirmed, its landing state is shown, and
\* nothing but unconfirmed moves leaves the pending set.
LEMMA AppliedOK ==
  ASSUME NEW st \in Stores, NEW m \in Moves, NEW to \in Terminal[Kind] \cup NonTerminal[Kind]
  PROVE  /\ Applied(st, m, to) \in Stores
         /\ Applied(st, m, to).conf[Move(m)] = "confirmed"
         /\ OnlyDrops(st.conf, Applied(st, m, to).conf, m)
         /\ to \in Terminal[Kind] => Applied(st, m, to).row = NoRow
         /\ to \notin Terminal[Kind] => Applied(st, m, to).row # NoRow
<1> DEFINE f == FileAs(st, Move(m), "confirmed")
           g == Materialize(f, m, to)
           h == SupersedeRefused(g, m)
<1>1. /\ f \in Stores /\ f.conf[Move(m)] = "confirmed"
      /\ \A x \in Ids \ {Move(m)} : f.conf[x] = st.conf[x]
  <2>1. Move(m) \in Ids /\ "confirmed" \in ConfirmStates
    BY IdFacts DEF ConfirmStates
  <2>2. f \in Stores /\ f.conf = [st.conf EXCEPT ![Move(m)] = "confirmed"]
    BY <2>1, FileAsOK
  <2> QED BY <2>1, <2>2 DEF Stores
<1> HIDE DEF f
<1>2. /\ g \in Stores /\ g.conf = f.conf
      /\ to \in Terminal[Kind] => g.row = NoRow
      /\ to \notin Terminal[Kind] => g.row # NoRow
  <2> DEFINE who == AssigneeSource(Kind, AsEvent(f, m, FALSE))
             r == IF IsTerminal(Kind, to) THEN NoRow
                  ELSE [state |-> to,
                        assignee |-> IF f.row.assignee = NoOne /\ to = "assigned"
                                     THEN who ELSE f.row.assignee]
  <2>1. who \in Authors \cup {NoOne}
    BY <1>1, NamedType
  <2>2. f.row.assignee \in Authors \cup {NoOne}
    BY <1>1 DEF Stores, Rows
  <2>3. to \in Terminal[Kind] \cup NonTerminal[Kind] /\ to # "none"
    BY TableFacts
  <2>4. g = [f EXCEPT !.row = r]
    BY DEF Materialize
  <2> HIDE DEF who
  <2>5. /\ r \in Rows
        /\ to \in Terminal[Kind] => r = NoRow
        /\ to \notin Terminal[Kind] => r # NoRow
    <3>1. CASE to \in Terminal[Kind]
      BY <3>1 DEF IsTerminal, Rows, NoRow
    <3>2. CASE to \notin Terminal[Kind]
      <4> DEFINE a == IF f.row.assignee = NoOne /\ to = "assigned" THEN who ELSE f.row.assignee
      <4>1. a \in Authors \cup {NoOne}
        BY <2>1, <2>2
      <4>2. r = [state |-> to, assignee |-> a]
        BY <3>2 DEF IsTerminal
      <4> HIDE DEF a, r
      <4> QED BY <2>3, <3>2, <4>1, <4>2 DEF Rows, NoRow
    <3> QED BY <3>1, <3>2
  <2> HIDE DEF r, g
  <2> QED BY <1>1, <2>4, <2>5 DEF Stores
<1> HIDE DEF g
<1>3. /\ h.row = g.row
      /\ h \in Stores
      /\ h.conf[Move(m)] = "confirmed"
      /\ \A x \in Ids : \/ h.conf[x] = g.conf[x]
                        \/ g.conf[x] = "unconfirmed" /\ h.conf[x] = "superseded"
  <2> DEFINE out(x) == /\ g.conf[x] = "unconfirmed"
                       /\ x # Move(m)
                       /\ Lands(g, x[1], IsSystem(x[1])) = {}
             c == [x \in Ids |-> IF out(x) THEN "superseded" ELSE g.conf[x]]
  <2>1. h = [g EXCEPT !.conf = c]
    BY DEF SupersedeRefused
  <2>2. c \in [Ids -> ConfirmStates]
    BY <1>2 DEF Stores, ConfirmStates
  <2>3. c[Move(m)] = "confirmed"
    BY <1>1, <1>2, IdFacts
  <2>4. \A x \in Ids : c[x] = g.conf[x] \/ (g.conf[x] = "unconfirmed" /\ c[x] = "superseded")
    OBVIOUS
  <2> HIDE DEF c, h
  <2> QED BY <1>2, <2>1, <2>2, <2>3, <2>4 DEF Stores
<1>4. h = Applied(st, m, to)
  BY DEF Applied, h, g, f
<1> HIDE DEF h
<1> QED BY <1>1, <1>2, <1>3, <1>4 DEF OnlyDrops

\* A verb has one row: seen with the rows as names, told apart by their verbs.
LEMMA OneRow ==
  \A q, r \in Transitions[Kind] : q.verb = r.verb => q = r
<1>1. CASE Kind = "handoff"
  <2> DEFINE a == Row("accept", {"offered"}, "assigned", "offeree", TRUE, FALSE)
             b == Row("decline", {"offered"}, "declined", "offeree", FALSE, FALSE)
             c == Row("claim", {"open"}, "assigned", "anyone", TRUE, FALSE)
             d == Row("progress", {"assigned"}, "assigned", "assignee", FALSE, FALSE)
             e == Row("complete", {"assigned"}, "completed", "assignee", FALSE, FALSE)
             f == Row("fail", {"assigned"}, "failed", "assignee", FALSE, FALSE)
             g == Row("cancel", {"offered", "assigned", "open"}, "cancelled", "offerer",
                      FALSE, FALSE)
             h == Row("expire", NonTerminal["handoff"], "expired", "system", FALSE, FALSE)
  <2>1. /\ a.verb = "accept" /\ b.verb = "decline" /\ c.verb = "claim" /\ d.verb = "progress"
        /\ e.verb = "complete" /\ f.verb = "fail" /\ g.verb = "cancel" /\ h.verb = "expire"
    BY DEF Row
  <2>2. Transitions[Kind] = {a, b, c, d, e, f, g, h}
    BY <1>1 DEF HandoffRows, Transitions
  <2> HIDE DEF a, b, c, d, e, f, g, h
  <2> QED BY <2>1, <2>2
<1>2. CASE Kind = "bounty"
  <2> DEFINE a == Row("bid", {"open"}, "open", "anyone", TRUE, FALSE)
             b == Row("award", {"open"}, "assigned", "offerer", TRUE, TRUE)
             c == Row("progress", {"assigned"}, "assigned", "assignee", FALSE, FALSE)
             d == Row("submit", {"assigned"}, "under_review", "assignee", FALSE, FALSE)
             e == Row("revise", {"under_review"}, "assigned", "offerer", FALSE, FALSE)
             f == Row("accept-work", {"under_review"}, "accepted", "offerer", FALSE, FALSE)
             g == Row("forfeit", {"assigned", "under_review"}, "forfeited", "assignee",
                      FALSE, FALSE)
             h == Row("auto-accept", {"under_review"}, "accepted", "system", FALSE, FALSE)
             i == Row("cancel", {"open", "assigned"}, "cancelled", "offerer", FALSE, FALSE)
             j == Row("expire", NonTerminal["bounty"], "expired", "system", FALSE, FALSE)
  <2>1. /\ a.verb = "bid" /\ b.verb = "award" /\ c.verb = "progress" /\ d.verb = "submit"
        /\ e.verb = "revise" /\ f.verb = "accept-work" /\ g.verb = "forfeit"
        /\ h.verb = "auto-accept" /\ i.verb = "cancel" /\ j.verb = "expire"
    BY DEF Row
  <2>2. Transitions[Kind] = {a, b, c, d, e, f, g, h, i, j}
    BY <1>2 DEF BountyRows, Transitions
  <2> HIDE DEF a, b, c, d, e, f, g, h, i, j
  <2> QED BY <2>1, <2>2
<1> QED BY <1>1, <1>2, TaskAssumption

(***************************************************************************)
(* What the moves a log confirms make of the view.                         *)
(***************************************************************************)
Confirmed(c) == {m \in Moves : c[Move(m)] = "confirmed"}

\* The row the opener leaves.
Opened ==
    [state |-> CHOOSE x \in CheckOpen(Kind, Offeree # NoOne) : TRUE, assignee |-> NoOne]

\* Whom a move hands the work to: the author of the bid it picks, or its own.
AssigneeOf(m) ==
    IF \E q \in Transitions[Kind] : q.verb = Verb[m] /\ q.picks
    THEN Actor[Accepts[m]] ELSE Actor[m]

\* Move m takes the row from r to r2 along a row of the table.
Along(m, r, r2) ==
    \E q \in Transitions[Kind] :
        /\ q.verb = Verb[m] /\ r.state \in q.from
        /\ q.picks => Accepts[m] \in Moves
        /\ r2 = IF q.to \in Terminal[Kind] THEN NoRow
                ELSE [state |-> q.to,
                      assignee |-> IF r.assignee = NoOne /\ q.to = "assigned"
                                   THEN AssigneeOf(m) ELSE r.assignee]

\* A write takes the confirmed moves from C to D and the row from r to r2: it
\* leaves both, opens the task, or confirms one move and follows the table.
Writes(C, r, D, r2) ==
    \/ D = C /\ r2 = r
    \/ Opener \notin C /\ D = C \cup {Opener} /\ r2 = Opened
    \/ \E m \in Moves \ (C \cup {Opener}) :
        r # NoRow /\ D = C \cup {m} /\ Along(m, r, r2)

\* The opener is never pending.
OpenerOK(c) == c[Move(Opener)] \in {"absent", "confirmed"}

\* The row after a move is applied.
LEMMA AppliedRow ==
  ASSUME NEW st \in Stores, NEW m \in Moves, NEW to
  PROVE  Applied(st, m, to).row =
           IF to \in Terminal[Kind] THEN NoRow
           ELSE [state |-> to,
                 assignee |-> IF st.row.assignee = NoOne /\ to = "assigned"
                              THEN AssigneeSource(Kind, AsEvent(FileAs(st, Move(m), "confirmed"), m, FALSE))
                              ELSE st.row.assignee]
<1> DEFINE f == FileAs(st, Move(m), "confirmed")
           g == Materialize(f, m, to)
<1>1. f \in Stores /\ f.row = st.row
  <2>1. Move(m) \in Ids /\ "confirmed" \in ConfirmStates
    BY IdFacts DEF ConfirmStates
  <2> QED BY <2>1, FileAsOK
<1> HIDE DEF f
<1>2. g.row = IF to \in Terminal[Kind] THEN NoRow
              ELSE [state |-> to,
                    assignee |-> IF st.row.assignee = NoOne /\ to = "assigned"
                                 THEN AssigneeSource(Kind, AsEvent(f, m, FALSE))
                                 ELSE st.row.assignee]
  BY <1>1 DEF Materialize, IsTerminal, Stores
<1>3. g = [f EXCEPT !.row = g.row]
  BY <1>1 DEF Materialize, Stores
<1> HIDE DEF g
<1>4. SupersedeRefused(g, m).row = g.row
  BY <1>1, <1>3 DEF SupersedeRefused, Stores
<1>5. Applied(st, m, to) = SupersedeRefused(g, m)
  BY DEF Applied, g, f
<1> QED BY <1>2, <1>4, <1>5 DEF f

\* A move the rules admit, applied to a log that has lost nothing since.
LEMMA AppliedAlong ==
  ASSUME NEW old \in Stores, NEW st \in Stores, NEW m \in Moves, NEW system,
         NEW to \in Lands(old, m, system), st.row = old.row,
         \A x \in Ids : old.conf[x] # "absent" => st.conf[x] # "absent"
  PROVE  Along(m, old.row, Applied(st, m, to).row)
<1> DEFINE f == FileAs(st, Move(m), "confirmed")
           who == AssigneeSource(Kind, AsEvent(f, m, FALSE))
<1>1. PICK q \in Transitions[Kind] :
        /\ q.verb = Verb[m] /\ to = q.to /\ old.row.state \in q.from
        /\ q.picks => BidAuthor(old, m) # NoOne
  BY DEF Lands, Check, AsEvent
<1>2. /\ AsEvent(f, m, FALSE).verb = Verb[m] /\ AsEvent(f, m, FALSE).actor = Actor[m]
      /\ AsEvent(f, m, FALSE).bidder = BidAuthor(f, m)
  BY DEF AsEvent
<1>3. \A r \in Transitions[Kind] : r.verb = Verb[m] => r = q
  BY <1>1, OneRow
<1>4. Applied(st, m, to).row =
        IF to \in Terminal[Kind] THEN NoRow
        ELSE [state |-> to,
              assignee |-> IF st.row.assignee = NoOne /\ to = "assigned"
                           THEN who ELSE st.row.assignee]
  BY AppliedRow
<1>5. CASE q.picks
  <2>1. /\ Accepts[m] # NoOne /\ OnFile(old, Move(Accepts[m])) /\ Verb[Accepts[m]] = "bid"
    BY <1>1, <1>5 DEF BidAuthor
  <2>2. Accepts[m] \in Moves
    BY <2>1, TaskAssumption
  <2>3. OnFile(f, Move(Accepts[m]))
    <3>1. Move(Accepts[m]) \in Ids /\ Move(m) \in Ids /\ "confirmed" \in ConfirmStates
      BY <2>2, IdFacts DEF ConfirmStates
    <3>2. f.conf = [st.conf EXCEPT ![Move(m)] = "confirmed"] /\ st.conf \in [Ids -> ConfirmStates]
      BY <3>1, FileAsOK DEF Stores
    <3> HIDE DEF f
    <3> QED BY <2>1, <3>1, <3>2 DEF OnFile
  <2> HIDE DEF f
  <2>4. BidAuthor(f, m) = Actor[Accepts[m]]
    BY <2>1, <2>3 DEF BidAuthor
  <2>5. who = AssigneeOf(m)
    BY <1>1, <1>2, <1>5, <2>4 DEF AssigneeSource, AssigneeOf
  <2>6. Applied(st, m, to).row =
           IF q.to \in Terminal[Kind] THEN NoRow
           ELSE [state |-> q.to,
                 assignee |-> IF old.row.assignee = NoOne /\ q.to = "assigned"
                              THEN AssigneeOf(m) ELSE old.row.assignee]
    BY <1>1, <2>5, <1>4 DEF who
  <2> QED BY <1>1, <2>2, <2>6 DEF Along
<1>6. CASE ~q.picks
  <2>1. ~\E r \in Transitions[Kind] : r.verb = Verb[m] /\ r.picks
    BY <1>3, <1>6
  <2> HIDE DEF f
  <2>2. who = AssigneeOf(m)
    BY <1>2, <2>1 DEF AssigneeSource, AssigneeOf
  <2>3. Applied(st, m, to).row =
           IF q.to \in Terminal[Kind] THEN NoRow
           ELSE [state |-> q.to,
                 assignee |-> IF old.row.assignee = NoOne /\ q.to = "assigned"
                              THEN AssigneeOf(m) ELSE old.row.assignee]
    BY <1>1, <2>2, <1>4 DEF who
  <2> QED BY <1>1, <1>6, <2>3 DEF Along
<1> QED BY <1>5, <1>6

(***************************************************************************)
(* What one write of an event does to a server's log and view: nothing on  *)
(* file is lost, what is confirmed or recorded stays so, only the event    *)
(* itself is new, a move is confirmed on one of four grounds, a task that  *)
(* is over has been ended by a move, and the view follows the table.       *)
(***************************************************************************)
GoodWrite(s, id, peer, w) ==
    /\ w.st \in Stores
    /\ \A x \in Ids :
        /\ conf[s][x] # "absent" => w.st.conf[x] # "absent"
        /\ conf[s][x] \in {"confirmed", "record"} => w.st.conf[x] = conf[s][x]
        /\ x # id /\ conf[s][x] = "absent" => w.st.conf[x] = "absent"
    /\ \A m \in Moves :
        w.st.conf[Move(m)] = "confirmed" /\ conf[s][Move(m)] # "confirmed" =>
            \/ id = Receipt(m) /\ peer = Home
            \/ /\ id = Move(m)
               /\ \/ s = Home
                  \/ IsAdditive(Kind, Verb[m])
                  \/ peer = Home /\ IsSystem(m)
    /\ EndedBy(conf[s], row[s]) => EndedBy(w.st.conf, w.st.row)
    /\ w.out = "filed" => ~IsReceipt(id) /\ w.st.conf[id] = "confirmed"
    /\ w.out = "stored" => ~IsReceipt(id)
    /\ OpenerOK(conf[s]) =>
        /\ OpenerOK(w.st.conf)
        /\ Writes(Confirmed(conf[s]), row[s], Confirmed(w.st.conf), w.st.row)

\* A server's log and view are a store.
LEMMA StoreType ==
  ASSUME Typed, NEW s \in Servers
  PROVE  Store(s) \in Stores /\ Store(s).conf = conf[s] /\ Store(s).row = row[s]
  BY DEF Typed, Store, Stores

\* A write that leaves the log and view alone.
LEMMA NoWrite ==
  ASSUME Typed, NEW s \in Servers, NEW id \in Ids, NEW peer, NEW out,
         out \notin {"filed", "stored"}
  PROVE  GoodWrite(s, id, peer, Write(out, Store(s)))
<1> DEFINE w == Write(out, Store(s))
<1>1. w.st \in Stores /\ w.st.conf = conf[s] /\ w.st.row = row[s] /\ w.out = out
  BY StoreType DEF Write
<1> HIDE DEF w
<1>2. GoodWrite(s, id, peer, w)
  BY <1>1 DEF GoodWrite, Writes
<1> QED BY <1>2 DEF w

\* A receipt, by any server, from any link.
LEMMA ReceiptWrite ==
  ASSUME Typed, NEW s \in Servers, NEW m \in Moves, NEW peer
  PROVE  GoodWrite(s, Receipt(m), peer, ApplyReceipt(s, m, peer))
<1> DEFINE st == Store(s)
           w == ApplyReceipt(s, m, peer)
           id == Receipt(m)
           to == ConfirmedMove(st, m)
           noted == FileAs(st, id, "record")
           ign == FileAs(st, id, "ignored")
           done == Applied(noted, m, CHOOSE x \in to : TRUE)
<1>1. id \in Ids /\ IsReceipt(id) /\ st \in Stores /\ st.conf = conf[s] /\ st.row = row[s]
  BY IdFacts, StoreType
<1>2. \/ \E out \in {"before-subject", "duplicate"} : w = Write(out, st)
      \/ ~OnFile(st, id) /\ w = Write("ignored", ign)
      \/ /\ ~OnFile(st, id) /\ peer = Home
         /\ \/ \E out \in {"recorded", "receipt-refused"} : w = Write(out, noted)
            \/ st.conf[Move(m)] = "unconfirmed" /\ to # {} /\ w = Write("confirmed", done)
  <2> HIDE DEF done, to, noted, ign
  <2>1. w = IF ~OnFile(st, Move(Opener)) THEN Write("before-subject", st)
       ELSE IF peer # Home THEN
            IF OnFile(st, id) THEN Write("duplicate", st)
            ELSE Write("ignored", ign)
       ELSE IF ~OnFile(st, Move(m)) THEN Write("before-subject", st)
       ELSE IF OnFile(st, id) THEN Write("duplicate", st)
       ELSE IF conf[s][Move(m)] # "unconfirmed" THEN Write("recorded", noted)
               ELSE IF to = {} THEN Write("receipt-refused", noted)
               ELSE Write("confirmed", done)
    BY DEF ApplyReceipt, done, to, noted, ign
  <2> HIDE DEF w, st, id
  <2> QED BY <1>1, <2>1
<1>3. ASSUME NEW c \in {"ignored", "record"}
      PROVE  /\ FileAs(st, id, c) \in Stores
             /\ FileAs(st, id, c).row = row[s]
             /\ FileAs(st, id, c).conf = [conf[s] EXCEPT ![id] = c]
  <2>1. c \in ConfirmStates
    BY DEF ConfirmStates
  <2> HIDE DEF st, id
  <2> QED BY <1>1, <2>1, FileAsOK
<1>4. ASSUME \E out \in {"before-subject", "duplicate"} : w = Write(out, st)
      PROVE  GoodWrite(s, id, peer, w)
  <2> HIDE DEF w, id
  <2> QED BY <1>1, <1>4, NoWrite
<1>5. ASSUME NEW c \in {"ignored", "record"}, NEW out \in {"ignored", "recorded", "receipt-refused"},
             ~OnFile(st, id), w = Write(out, FileAs(st, id, c))
      PROVE  GoodWrite(s, id, peer, w)
  <2>1. /\ w.st \in Stores /\ w.out = out /\ w.st.row = row[s]
        /\ w.st.conf = [conf[s] EXCEPT ![id] = c]
    BY <1>3, <1>5 DEF Write
  <2>2. conf[s] \in [Ids -> ConfirmStates] /\ conf[s][id] = "absent"
    BY <1>1, <1>5 DEF Typed, OnFile
  <2>3. \A n \in Moves : Move(n) \in Ids /\ Move(n) # id
    BY IdFacts
  <2> HIDE DEF w, id
  <2>4. \A n \in Moves : w.st.conf[Move(n)] = conf[s][Move(n)]
    BY <2>1, <2>2, <2>3
  <2>5. EndedBy(conf[s], row[s]) => EndedBy(w.st.conf, w.st.row)
    BY <2>1, <2>4, TaskAssumption DEF EndedBy
  <2>6. \A x \in Ids : w.st.conf[x] = IF x = id THEN c ELSE conf[s][x]
    BY <1>1, <2>1, <2>2
  <2>7. /\ Confirmed(w.st.conf) = Confirmed(conf[s])
        /\ w.st.conf[Move(Opener)] = conf[s][Move(Opener)]
    BY <2>4, TaskAssumption DEF Confirmed
  <2> QED BY <1>1, <2>1, <2>2, <2>4, <2>5, <2>6, <2>7 DEF GoodWrite, OpenerOK, Writes
<1>6. ASSUME ~OnFile(st, id), peer = Home, st.conf[Move(m)] = "unconfirmed",
             to # {}, w = Write("confirmed", done)
      PROVE  GoodWrite(s, id, peer, w)
  <2> DEFINE x0 == CHOOSE x \in to : TRUE
  <2>1. x0 \in Lands(st, m, IsSystem(m))
    BY <1>6 DEF ConfirmedMove
  <2>2. /\ noted \in Stores /\ noted.row = row[s]
        /\ noted.conf = [conf[s] EXCEPT ![id] = "record"]
    BY <1>3
  <2>3. Move(m) \in Ids /\ conf[s][Move(m)] = "unconfirmed" /\ conf[s][id] = "absent"
    BY <1>1, <1>6, IdFacts DEF OnFile
  <2>4. /\ x0 \in Terminal[Kind] \cup NonTerminal[Kind]
        /\ x0 \in Terminal[Kind] => EndsIn[m] # "none"
    BY <2>1, LandsInTable, TableFacts
  <2>5. done = Applied(noted, m, x0)
    OBVIOUS
  <2> HIDE DEF noted, x0, to, st, done
  <2>6. /\ done \in Stores /\ done.conf[Move(m)] = "confirmed"
        /\ OnlyDrops(noted.conf, done.conf, m)
        /\ x0 \in Terminal[Kind] => done.row = NoRow
        /\ x0 \notin Terminal[Kind] => done.row # NoRow
    BY <2>2, <2>4, <2>5, AppliedOK
  <2>7. w.st = done /\ w.out = "confirmed"
    BY <1>6 DEF Write
  <2>8. EndedBy(w.st.conf, w.st.row)
    BY <2>4, <2>6, <2>7 DEF EndedBy
  <2>9. conf[s] \in [Ids -> ConfirmStates]
    BY DEF Typed
  <2>10. \A x \in Ids : noted.conf[x] = IF x = id THEN "record" ELSE conf[s][x]
    BY <1>1, <2>2, <2>9
  <2> HIDE DEF w
  <2>11. \A n \in Moves : w.st.conf[Move(n)] = "confirmed" /\ conf[s][Move(n)] # "confirmed" => n = m
    <3> SUFFICES ASSUME NEW n \in Moves, n # m, w.st.conf[Move(n)] = "confirmed",
                        conf[s][Move(n)] # "confirmed"
                 PROVE  FALSE
      OBVIOUS
    <3>1. Move(n) \in Ids \ {Move(m)} /\ Move(n) # id
      BY IdFacts
    <3> HIDE DEF id
    <3> QED BY <2>6, <2>7, <2>10, <3>1 DEF OnlyDrops
  <2>12. \A x \in Ids :
        /\ conf[s][x] # "absent" => w.st.conf[x] # "absent"
        /\ conf[s][x] \in {"confirmed", "record"} => w.st.conf[x] = conf[s][x]
        /\ x # id /\ conf[s][x] = "absent" => w.st.conf[x] = "absent"
    <3> HIDE DEF id
    <3> QED BY <2>3, <2>6, <2>7, <2>10 DEF OnlyDrops
  <2>13. ASSUME OpenerOK(conf[s])
         PROVE  /\ OpenerOK(w.st.conf)
                /\ Writes(Confirmed(conf[s]), row[s], Confirmed(w.st.conf), w.st.row)
    <3>1. Along(m, row[s], w.st.row)
      <4>1. \A x \in Ids : st.conf[x] # "absent" => noted.conf[x] # "absent"
        BY <1>1, <2>10
      <4>2. st \in Stores /\ noted \in Stores /\ noted.row = st.row
        BY <1>1, <2>2
      <4> HIDE DEF id
      <4>3. Along(m, st.row, Applied(noted, m, x0).row)
        BY <2>1, <4>1, <4>2, AppliedAlong
      <4> QED BY <1>1, <2>5, <2>7, <4>3
    <3>2. row[s] # NoRow
      BY <1>1, <2>1, LandsInTable
    <3>3. m # Opener
      BY <2>3, <2>13 DEF OpenerOK
    <3>4. /\ Move(Opener) \in Ids /\ Move(Opener) # id
      BY IdFacts, TaskAssumption
    <3> HIDE DEF id
    <3>5. OpenerOK(w.st.conf)
      BY <2>12, <2>13, <3>4 DEF OpenerOK
    <3>6. Confirmed(w.st.conf) = Confirmed(conf[s]) \cup {m}
      <4>1. \A n \in Moves : conf[s][Move(n)] = "confirmed" => w.st.conf[Move(n)] = "confirmed"
        BY <2>12, IdFacts
      <4>2. w.st.conf[Move(m)] = "confirmed"
        BY <2>6, <2>7
      <4> QED BY <2>11, <4>1, <4>2 DEF Confirmed
    <3>7. m \notin Confirmed(conf[s])
      BY <2>3 DEF Confirmed
    <3> QED BY <3>1, <3>2, <3>3, <3>5, <3>6, <3>7 DEF Writes
  <2> QED BY <1>6, <2>6, <2>7, <2>8, <2>11, <2>12, <2>13 DEF GoodWrite
<1>7. GoodWrite(s, id, peer, w)
  BY <1>2, <1>4, <1>5, <1>6
<1> QED BY <1>7

\* A move, or the opener, by any server, from any link.
LEMMA MoveWrite ==
  ASSUME Typed, NEW s \in Servers, NEW m \in Moves, NEW peer
  PROVE  GoodWrite(s, Move(m), peer, ApplyMove(s, m, peer))
<1> DEFINE st == Store(s)
           w == ApplyMove(s, m, peer)
           id == Move(m)
           sys == IsSystem(m) /\ peer \in {s, Home}
           to == Lands(st, m, sys)
           x0 == CHOOSE x \in to : TRUE
           start == CHOOSE x \in CheckOpen(Kind, Offeree # NoOne) : TRUE
           open == [FileAs(st, id, "confirmed") EXCEPT !.row =
                        [state |-> start, assignee |-> NoOne]]
           kept == FileAs(st, id, "unconfirmed")
           done == Applied(st, m, x0)
<1>1. id \in Ids /\ ~IsReceipt(id) /\ st \in Stores /\ st.conf = conf[s] /\ st.row = row[s]
  BY IdFacts, StoreType
<1>2. conf[s] \in [Ids -> ConfirmStates]
  BY DEF Typed
<1>3. \/ \E out \in {"duplicate", "refused", "unknown-task"} : w = Write(out, st)
      \/ ~OnFile(st, id) /\ m = Opener /\ w = Write("filed", open)
      \/ ~OnFile(st, id) /\ m # Opener /\ st.row # NoRow /\ w = Write("stored", kept)
      \/ /\ ~OnFile(st, id) /\ m # Opener /\ ~OthersToRule(s, m, peer)
         /\ to # {} /\ w = Write("filed", done)
  <2> DEFINE held == IF OnFile(st, Move(Opener)) THEN "refused" ELSE "unknown-task"
  <2> HIDE DEF done, to, kept, open
  <2>1. w = IF m = Opener THEN
            IF OnFile(st, id) THEN Write("duplicate", st)
            ELSE Write("filed", open)
       ELSE IF st.row = NoRow THEN Write(held, st)
       ELSE IF OthersToRule(s, m, peer) THEN
            IF OnFile(st, id) THEN Write("duplicate", st)
            ELSE Write("stored", kept)
       ELSE IF to = {} THEN Write("refused", st)
       ELSE IF OnFile(st, id) THEN Write("duplicate", st)
       ELSE Write("filed", done)
    BY DEF ApplyMove, done, to, kept, open
  <2>2. held \in {"refused", "unknown-task"}
    OBVIOUS
  <2> HIDE DEF w, st, id, held
  <2> QED BY <2>1, <2>2
<1>4. ASSUME \E out \in {"duplicate", "refused", "unknown-task"} : w = Write(out, st)
      PROVE  GoodWrite(s, id, peer, w)
  <2> HIDE DEF w, id
  <2> QED BY <1>1, <1>4, NoWrite
<1>5. ASSUME NEW c \in {"confirmed", "unconfirmed"}
      PROVE  /\ FileAs(st, id, c) \in Stores
             /\ FileAs(st, id, c).row = row[s]
             /\ FileAs(st, id, c).conf = [conf[s] EXCEPT ![id] = c]
  <2>1. c \in ConfirmStates
    BY DEF ConfirmStates
  <2> HIDE DEF st, id
  <2> QED BY <1>1, <2>1, FileAsOK
<1>6. ASSUME ~OnFile(st, id), m = Opener, w = Write("filed", open)
      PROVE  GoodWrite(s, id, peer, w)
  <2> DEFINE r == [state |-> start, assignee |-> NoOne]
             f == FileAs(st, id, "confirmed")
  <2>1. r \in Rows /\ r # NoRow
    <3>1. start \in NonTerminal[Kind] /\ start # "none"
      BY TableFacts
    <3> HIDE DEF start
    <3> QED BY <3>1 DEF Rows, NoRow
  <2>2. f \in Stores /\ f.conf = [conf[s] EXCEPT ![id] = "confirmed"]
    BY <1>5
  <2>3. open = [f EXCEPT !.row = r]
    OBVIOUS
  <2> HIDE DEF open, r, f
  <2>4. open \in Stores /\ open.row = r /\ open.conf = [conf[s] EXCEPT ![id] = "confirmed"]
    BY <2>1, <2>2, <2>3 DEF Stores
  <2>5. w.st = open /\ w.out = "filed"
    BY <1>6 DEF Write
  <2>6. conf[s][id] = "absent"
    BY <1>1, <1>6 DEF OnFile
  <2> HIDE DEF w, st
  <2>7. \A n \in Moves : Move(n) = id => n = m
    BY IdFacts
  <2>8. IsAdditive(Kind, Verb[m])
    BY <1>6, TaskAssumption DEF IsAdditive
  <2> HIDE DEF id
  <2>9. \A x \in Ids : w.st.conf[x] = IF x = id THEN "confirmed" ELSE conf[s][x]
    BY <1>1, <1>2, <2>4, <2>5
  <2>10. EndedBy(w.st.conf, w.st.row)
    BY <2>1, <2>4, <2>5 DEF EndedBy
  <2>11. \A n \in Moves :
           w.st.conf[Move(n)] = "confirmed" /\ conf[s][Move(n)] # "confirmed" => id = Move(n) /\ n = m
    BY <2>7, <2>9, IdFacts
  <2>12. /\ Confirmed(w.st.conf) = Confirmed(conf[s]) \cup {Opener}
         /\ Opener \notin Confirmed(conf[s]) /\ w.st.row = Opened
         /\ OpenerOK(w.st.conf)
    <3>1. Opener \in Moves /\ w.st.conf[Move(Opener)] = "confirmed"
          /\ conf[s][Move(Opener)] # "confirmed"
      BY <1>1, <1>6, <2>6, <2>9, TaskAssumption DEF id
    <3>2. w.st.row = Opened
      BY <2>4, <2>5 DEF r, Opened
    <3>3. \A n \in Moves : conf[s][Move(n)] = "confirmed" => w.st.conf[Move(n)] = "confirmed"
      BY <2>9, IdFacts
    <3> QED BY <1>6, <2>11, <3>1, <3>2, <3>3 DEF Confirmed, OpenerOK
  <2> QED BY <1>1, <2>4, <2>5, <2>6, <2>8, <2>9, <2>10, <2>11, <2>12 DEF GoodWrite, Writes
<1>7. ASSUME ~OnFile(st, id), m # Opener, st.row # NoRow, w = Write("stored", kept)
      PROVE  GoodWrite(s, id, peer, w)
  <2>1. /\ w.st \in Stores /\ w.out = "stored" /\ w.st.row = row[s]
        /\ w.st.conf = [conf[s] EXCEPT ![id] = "unconfirmed"]
    BY <1>5, <1>7 DEF Write
  <2>2. conf[s][id] = "absent" /\ row[s] # NoRow
    BY <1>1, <1>7 DEF OnFile
  <2> HIDE DEF w, id
  <2>3. \A x \in Ids : w.st.conf[x] = IF x = id THEN "unconfirmed" ELSE conf[s][x]
    BY <1>1, <1>2, <2>1
  <2>4. EndedBy(w.st.conf, w.st.row)
    BY <2>1, <2>2 DEF EndedBy
  <2>5. \A n \in Moves : Move(n) \in Ids
    BY IdFacts
  <2>6. Move(Opener) # id /\ Opener \in Moves
    BY <1>7, IdFacts, TaskAssumption DEF id
  <2>7. /\ Confirmed(w.st.conf) = Confirmed(conf[s])
        /\ w.st.conf[Move(Opener)] = conf[s][Move(Opener)]
    BY <2>2, <2>3, <2>5, <2>6 DEF Confirmed
  <2> QED BY <1>1, <2>1, <2>2, <2>3, <2>4, <2>5, <2>7 DEF GoodWrite, OpenerOK, Writes
<1>8. ASSUME ~OnFile(st, id), m # Opener, ~OthersToRule(s, m, peer), to # {},
             w = Write("filed", done)
      PROVE  GoodWrite(s, id, peer, w)
  <2>1. x0 \in Lands(st, m, sys)
    BY <1>8
  <2> HIDE DEF sys, x0, st, to
  <2>2. /\ x0 \in Terminal[Kind] \cup NonTerminal[Kind]
        /\ x0 \in Terminal[Kind] => EndsIn[m] # "none"
    BY <2>1, LandsInTable, TableFacts
  <2>3. /\ done \in Stores /\ done.conf[Move(m)] = "confirmed"
        /\ OnlyDrops(st.conf, done.conf, m)
        /\ x0 \in Terminal[Kind] => done.row = NoRow
        /\ x0 \notin Terminal[Kind] => done.row # NoRow
    BY <1>1, <2>2, AppliedOK
  <2> HIDE DEF done
  <2>4. w.st = done /\ w.out = "filed"
    BY <1>8 DEF Write
  <2>5. EndedBy(w.st.conf, w.st.row)
    BY <2>2, <2>3, <2>4 DEF EndedBy
  <2>6. conf[s][id] = "absent"
    BY <1>1, <1>8 DEF OnFile
  <2>7. s = Home \/ IsAdditive(Kind, Verb[m]) \/ (peer = Home /\ IsSystem(m))
    BY <1>8 DEF OthersToRule
  <2>8. \A n \in Moves : Move(n) \in Ids /\ (Move(n) = Move(m) => n = m)
    BY IdFacts
  <2>9. \A n \in Moves : w.st.conf[Move(n)] = "confirmed" /\ conf[s][Move(n)] # "confirmed" => n = m
    BY <1>1, <2>3, <2>4, <2>8 DEF OnlyDrops
  <2>10. \A x \in Ids :
        /\ conf[s][x] # "absent" => w.st.conf[x] # "absent"
        /\ conf[s][x] \in {"confirmed", "record"} => w.st.conf[x] = conf[s][x]
        /\ x # id /\ conf[s][x] = "absent" => w.st.conf[x] = "absent"
    <3> HIDE DEF w
    <3> QED BY <1>1, <2>3, <2>4, <2>6 DEF OnlyDrops
  <2> HIDE DEF w
  <2>11. ASSUME OpenerOK(conf[s])
         PROVE  /\ OpenerOK(w.st.conf)
                /\ Writes(Confirmed(conf[s]), row[s], Confirmed(w.st.conf), w.st.row)
    <3>1. Along(m, row[s], w.st.row)
      BY <1>1, <2>1, <2>4, AppliedAlong DEF done
    <3>2. row[s] # NoRow
      BY <1>1, <2>1, LandsInTable
    <3>3. Move(Opener) \in Ids /\ Move(Opener) # id
      BY <1>8, IdFacts, TaskAssumption
    <3>4. OpenerOK(w.st.conf)
      <4> HIDE DEF id
      <4> QED BY <2>10, <2>11, <3>3 DEF OpenerOK
    <3>5. Confirmed(w.st.conf) = Confirmed(conf[s]) \cup {m}
      <4>1. \A n \in Moves : conf[s][Move(n)] = "confirmed" => w.st.conf[Move(n)] = "confirmed"
        BY <2>8, <2>10
      <4>2. w.st.conf[Move(m)] = "confirmed"
        BY <2>3, <2>4
      <4> QED BY <2>9, <4>1, <4>2 DEF Confirmed
    <3>6. m \notin Confirmed(conf[s])
      BY <2>6 DEF Confirmed
    <3> QED BY <1>8, <3>1, <3>2, <3>4, <3>5, <3>6 DEF Writes
  <2> QED BY <1>1, <2>3, <2>4, <2>5, <2>7, <2>9, <2>10, <2>11 DEF GoodWrite
<1>9. GoodWrite(s, id, peer, w)
  BY <1>3, <1>4, <1>6, <1>7, <1>8
<1> QED BY <1>9

\* Any event.
LEMMA EventWrite ==
  ASSUME Typed, NEW s \in Servers, NEW id \in Ids, NEW peer
  PROVE  GoodWrite(s, id, peer, ApplyActEvent(s, id, peer))
<1>1. /\ id[1] \in Moves
      /\ IsReceipt(id) => id = Receipt(id[1])
      /\ ~IsReceipt(id) => id = Move(id[1])
  BY IdFacts
<1>2. CASE IsReceipt(id)
  <2>1. ApplyActEvent(s, id, peer) = ApplyReceipt(s, id[1], peer)
    BY <1>2 DEF ApplyActEvent
  <2>2. GoodWrite(s, Receipt(id[1]), peer, ApplyReceipt(s, id[1], peer))
    BY <1>1, ReceiptWrite
  <2> QED BY <1>1, <1>2, <2>1, <2>2
<1>3. CASE ~IsReceipt(id)
  <2>1. ApplyActEvent(s, id, peer) = ApplyMove(s, id[1], peer)
    BY <1>3 DEF ApplyActEvent
  <2>2. GoodWrite(s, Move(id[1]), peer, ApplyMove(s, id[1], peer))
    BY <1>1, MoveWrite
  <2> QED BY <1>1, <1>3, <2>1, <2>2
<1> QED BY <1>2, <1>3

-------------------------------------------------------------------------------
(***************************************************************************)
(* Facts that every step uses.                                             *)
(***************************************************************************)

\* What the home's log says, it goes on saying.
Keeps(c, d) == \A x \in Ids : c[x] \in {"confirmed", "record"} => d[x] = c[x]

\* So an event once heard stays heard, and a step in order stays in order.
LEMMA KeepsSteps ==
  ASSUME NEW c, NEW d, Keeps(c, d)
  PROVE  /\ \A id \in Ids : Heard(c, id) => Heard(d, id)
         /\ \A s, it : StepOK(c, s, it) => StepOK(d, s, it)
<1>1. ASSUME NEW id \in Ids, Heard(c, id) PROVE Heard(d, id)
  BY <1>1 DEF Heard, Given, Keeps
<1>2. ASSUME NEW s, NEW it, StepOK(c, s, it) PROVE StepOK(d, s, it)
  <2>1. it.id \in Ids => Heard(d, it.id)
    BY <1>1, <1>2 DEF StepOK
  <2>2. it.op = "mint" => d[it.id] = "confirmed"
    BY <1>2 DEF StepOK, Keeps
  <2> QED BY <1>2, <2>1, <2>2 DEF StepOK
<1> QED BY <1>1, <1>2

\* No task has lost a look for a key that it owed.
KeysKept(W, V) ==
    \A s \in Servers, t \in Tasks : \A it \in Items(W[s][t]) :
        it.op = "takekey" => it \in Items(V[s][t])

\* Then every held event whose key is here is still about to be taken.
LEMMA KeepsAwaited ==
  ASSUME NEW P, NEW K, NEW W, NEW V, Awaited(P, K, W), KeysKept(W, V)
  PROVE  Awaited(P, K, V)
<1> SUFFICES ASSUME NEW s \in Servers, NEW it \in Items(P[s]), it.on \in K[s]
             PROVE  TakenSoon(V, s, it.on)
  BY DEF Awaited
<1>1. PICK t \in Tasks : TakeKey(it.on) \in Items(W[s][t])
  BY DEF Awaited, TakenSoon
<1>2. TakeKey(it.on).op = "takekey"
  BY DEF TakeKey, Step
<1> QED BY <1>1, <1>2 DEF TakenSoon, KeysKept

\* One task's queue is replaced.
LEMMA OneQueue ==
  ASSUME NEW S, NEW W \in [Servers -> [Tasks -> S]], NEW s \in Servers, NEW t \in Tasks, NEW q \in S
  PROVE  /\ [W EXCEPT ![s][t] = q] \in [Servers -> [Tasks -> S]]
         /\ \A p \in Servers, u \in Tasks :
                [W EXCEPT ![s][t] = q][p][u] = IF p = s /\ u = t THEN q ELSE W[p][u]
<1> DEFINE f == [W[s] EXCEPT ![t] = q]
<1>1. f \in [Tasks -> S] /\ \A u \in Tasks : f[u] = IF u = t THEN q ELSE W[s][u]
  OBVIOUS
<1>2. [W EXCEPT ![s][t] = q] = [W EXCEPT ![s] = f]
  OBVIOUS
<1> HIDE DEF f
<1> QED BY <1>1, <1>2

\* What a log and view show is a row.
LEMMA ViewType ==
  ASSUME NEW c, NEW r \in Rows, EndedBy(c, r)
  PROVE  ViewOf(c, r) \in Rows
<1>1. CASE r # NoRow \/ c[Move(Opener)] = "absent"
  BY <1>1 DEF ViewOf
<1>2. CASE ~(r # NoRow \/ c[Move(Opener)] = "absent")
  <2> DEFINE m == CHOOSE n \in Moves : EndsIn[n] # "none" /\ c[Move(n)] = "confirmed"
  <2>1. m \in Moves /\ EndsIn[m] # "none"
    BY <1>2 DEF EndedBy
  <2>2. ViewOf(c, r) = [state |-> EndsIn[m], assignee |-> NoOne]
    BY <1>2 DEF ViewOf
  <2> HIDE DEF m
  <2>3. EndsIn[m] \in Terminal[Kind]
    BY <2>1 DEF EndsIn, IsTerminal
  <2> QED BY <2>2, <2>3 DEF Rows
<1> QED BY <1>1, <1>2

\* What a write keeps of the invariant, at the home and elsewhere.
TypedStore ==
    /\ conf \in [Servers -> [Ids -> ConfirmStates]]
    /\ row \in [Servers -> Rows]
    /\ past \subseteq Rows
StoreInv == TypedStore /\ Ended /\ LogsOK /\ FollowersOnlyFollow

\* A write of an event the home has given, if it is the home's to give; or
\* one the home gives now.
LEMMA StoreStep ==
  ASSUME Typed, StoreInv, NEW CONSTANT s \in Servers, NEW STATE id, id \in Ids,
         NEW STATE peer, peer \in Servers,
         \/ Heard(conf[Home], id)
         \/ s = Home /\ ApplyActEvent(s, id, peer).out = "filed",
         Stored(s, ApplyActEvent(s, id, peer).st)
  PROVE  /\ StoreInv' /\ Keeps(conf[Home], conf'[Home])
         /\ ApplyActEvent(s, id, peer).out = "filed" => conf'[s][id] = "confirmed" /\ ~IsReceipt(id)
         /\ ApplyActEvent(s, id, peer).out = "stored" => ~IsReceipt(id)
         /\ Heard(conf'[Home], id)
<1> DEFINE w == ApplyActEvent(s, id, peer)
           c == w.st.conf
           r == w.st.row
<1>1. GoodWrite(s, id, peer, w)
  BY EventWrite
<1>2. /\ conf' = [conf EXCEPT ![s] = c] /\ row' = [row EXCEPT ![s] = r]
      /\ past' = IF s = Home THEN past \cup {ViewOf(c, r)} ELSE past
  BY DEF Stored
<1>3. /\ \A x \in Ids :
            /\ conf[s][x] # "absent" => c[x] # "absent"
            /\ conf[s][x] \in {"confirmed", "record"} => c[x] = conf[s][x]
            /\ x # id /\ conf[s][x] = "absent" => c[x] = "absent"
      /\ \A m \in Moves :
            c[Move(m)] = "confirmed" /\ conf[s][Move(m)] # "confirmed" =>
                \/ id = Receipt(m) /\ peer = Home
                \/ /\ id = Move(m)
                   /\ \/ s = Home
                      \/ IsAdditive(Kind, Verb[m])
                      \/ peer = Home /\ IsSystem(m)
      /\ w.out = "filed" => ~IsReceipt(id) /\ c[id] = "confirmed"
      /\ w.out = "stored" => ~IsReceipt(id)
      /\ c \in [Ids -> ConfirmStates] /\ r \in Rows
      /\ EndedBy(conf[s], row[s]) => EndedBy(c, r)
  BY <1>1 DEF GoodWrite, Stores
<1>4. \/ Heard(conf[Home], id)
      \/ s = Home /\ w.out = "filed"
  OBVIOUS
<1> HIDE DEF c, r, w
<1>5. TypedStore /\ Home \in Servers
  BY TaskAssumption DEF StoreInv
<1>6. /\ conf'[s] = c /\ row'[s] = r
      /\ \A p \in Servers : p # s => conf'[p] = conf[p] /\ row'[p] = row[p]
  BY <1>2, <1>5 DEF TypedStore
<1>7. Keeps(conf[Home], conf'[Home])
  BY <1>3, <1>5, <1>6 DEF Keeps
<1>8. Ended'
  <2>1. \A p \in Servers : EndedBy(conf[p], row[p])
    BY DEF StoreInv, Ended
  <2>2. \A p \in Servers : EndedBy(conf'[p], row'[p])
    BY <1>3, <1>6, <2>1
  <2> QED BY <2>2 DEF Ended, EndedBy
<1>9. TypedStore'
  <2>1. ViewOf(c, r) \in Rows
    BY <1>3, ViewType DEF StoreInv, Ended
  <2>2. past' \subseteq Rows
    BY <1>2, <1>5, <2>1 DEF TypedStore
  <2>3. conf' \in [Servers -> [Ids -> ConfirmStates]] /\ row' \in [Servers -> Rows]
    BY <1>2, <1>3, <1>5 DEF TypedStore
  <2> QED BY <2>2, <2>3 DEF TypedStore
<1>10. Heard(conf'[Home], id)
  <2>1. CASE Heard(conf[Home], id)
    BY <1>7, <2>1, KeepsSteps
  <2>2. CASE s = Home /\ w.out = "filed"
    BY <1>3, <1>6, <2>2 DEF Heard, Given
  <2> QED BY <1>4, <2>1, <2>2
<1>11. LogsOK'
  <2>1. ASSUME NEW p \in Servers, NEW x \in Ids, conf'[p][x] # "absent"
        PROVE  Heard(conf'[Home], x)
    <3>1. CASE x = id
      BY <1>10, <3>1
    <3>2. CASE x # id
      <4>1. conf[p][x] # "absent"
        BY <1>3, <1>6, <2>1, <3>2
      <4>2. Heard(conf[Home], x)
        BY <4>1 DEF StoreInv, LogsOK
      <4> QED BY <1>7, <4>2, KeepsSteps
    <3> QED BY <3>1, <3>2
  <2>2. ASSUME NEW m \in Moves, conf'[Home][Receipt(m)] # "absent"
        PROVE  conf'[Home][Move(m)] = "confirmed"
    <3>1. Receipt(m) \in Ids /\ Move(m) \in Ids /\ IsReceipt(Receipt(m)) /\ SpeaksForHome(Receipt(m))
      BY IdFacts
    <3>2. conf[Home][Receipt(m)] # "absent"
      <4>1. CASE s # Home
        BY <1>5, <1>6, <2>2, <4>1
      <4>2. CASE s = Home /\ id # Receipt(m)
        BY <1>3, <1>6, <2>2, <3>1, <4>2
      <4>3. CASE s = Home /\ id = Receipt(m)
        <5>1. Heard(conf[Home], id)
          BY <1>3, <1>4, <3>1, <4>3
        <5> QED BY <3>1, <4>3, <5>1 DEF Heard, Given
      <4> QED BY <4>1, <4>2, <4>3
    <3>3. conf[Home][Move(m)] = "confirmed"
      BY <3>2 DEF StoreInv, LogsOK
    <3> QED BY <1>7, <3>1, <3>3 DEF Keeps
  <2> QED BY <2>1, <2>2 DEF LogsOK
<1>12. FollowersOnlyFollow'
  <2> SUFFICES ASSUME NEW p \in Servers, NEW m \in Moves, conf'[p][Move(m)] = "confirmed",
                      ~IsAdditive(Kind, Verb[m])
               PROVE  conf'[Home][Move(m)] = "confirmed"
    BY DEF FollowersOnlyFollow
  <2>1. /\ Move(m) \in Ids /\ Receipt(m) \in Ids /\ IsReceipt(Receipt(m)) /\ ~IsReceipt(Move(m))
        /\ SpeaksForHome(Receipt(m)) /\ Move(m)[1] = m
    BY IdFacts
  <2>2. conf[Home][Move(m)] = "confirmed" => conf'[Home][Move(m)] = "confirmed"
    BY <1>7, <2>1 DEF Keeps
  <2>3. CASE conf[p][Move(m)] = "confirmed"
    BY <2>2, <2>3 DEF StoreInv, FollowersOnlyFollow
  <2>4. CASE conf[p][Move(m)] # "confirmed" /\ p # Home
    <3>1. p = s
      BY <1>6, <2>4
    <3>2. \/ id = Receipt(m)
          \/ id = Move(m) /\ IsSystem(m)
      BY <1>3, <1>6, <2>4, <3>1
    <3>3. Heard(conf[Home], id)
      BY <1>4, <2>4, <3>1
    <3>4. CASE id = Receipt(m)
      <4>1. conf[Home][Receipt(m)] # "absent"
        BY <2>1, <3>3, <3>4 DEF Heard, Given
      <4>2. conf[Home][Move(m)] = "confirmed"
        BY <4>1 DEF StoreInv, LogsOK
      <4> QED BY <2>2, <4>2
    <3>5. CASE id = Move(m) /\ IsSystem(m)
      <4>1. conf[Home][Move(m)] = "confirmed"
        BY <2>1, <3>3, <3>5 DEF Heard, Given, SpeaksForHome
      <4> QED BY <2>2, <4>1
    <3> QED BY <3>2, <3>4, <3>5
  <2> QED BY <2>3, <2>4
<1>13. StoreInv'
  BY <1>8, <1>9, <1>11, <1>12 DEF StoreInv
<1> QED BY <1>3, <1>6, <1>7, <1>10, <1>13 DEF w

\* A step that leaves every log and view alone.
LEMMA StoreSame ==
  ASSUME StoreInv, UNCHANGED <<conf, row, past>>
  PROVE  StoreInv' /\ Keeps(conf[Home], conf'[Home])
<1>1. conf' = conf /\ row' = row /\ past' = past
  OBVIOUS
<1>2. TypedStore' /\ Ended'
  BY <1>1 DEF StoreInv, TypedStore, Ended
<1>3. LogsOK' /\ FollowersOnlyFollow'
  BY <1>1 DEF StoreInv, LogsOK, FollowersOnlyFollow
<1> QED BY <1>1, <1>2, <1>3 DEF StoreInv, Keeps

\* A step that writes a server's log and view back as they are.
LEMMA StoreAgain ==
  ASSUME StoreInv, NEW s \in Servers, Stored(s, Store(s))
  PROVE  StoreInv' /\ Keeps(conf[Home], conf'[Home])
<1>1. /\ conf' = [conf EXCEPT ![s] = conf[s]] /\ row' = [row EXCEPT ![s] = row[s]]
      /\ past' = IF s = Home THEN past \cup {ViewOf(conf[s], row[s])} ELSE past
  BY DEF Stored, Store
<1>2. TypedStore
  BY DEF StoreInv
<1>3. conf' = conf /\ row' = row
  BY <1>1, <1>2 DEF TypedStore
<1>4. ViewOf(conf[s], row[s]) \in Rows
  <2>1. EndedBy(conf[s], row[s]) /\ row[s] \in Rows
    BY DEF StoreInv, Ended, TypedStore
  <2> QED BY <2>1, ViewType
<1>5. past' \subseteq Rows
  BY <1>1, <1>2, <1>4 DEF TypedStore
<1>6. TypedStore' /\ Ended'
  BY <1>2, <1>3, <1>5 DEF StoreInv, TypedStore, Ended
<1>7. LogsOK' /\ FollowersOnlyFollow'
  BY <1>3 DEF StoreInv, LogsOK, FollowersOnlyFollow
<1> QED BY <1>3, <1>6, <1>7 DEF StoreInv, Keeps

\* The rest of the state: routes, messages, ids and faults.
Sides ==
    /\ routes \in [Servers -> SUBSET Moves]
    /\ net \subseteq Messages /\ NetOK
    /\ minted \in Seq(Ids)
    /\ owed \subseteq Servers \X Servers
    /\ faults \in 0..MaxFaults

\* The invariant, taken apart.
LEMMA InvParts ==
  ASSUME TaskInv
  PROVE  /\ Typed /\ StoreInv /\ Home \in Servers
         /\ ParkedOK(conf[Home], parked) /\ WorkOK(conf[Home], work)
         /\ Sides /\ Awaited(parked, keys, work)
         /\ keys \in [Servers -> SUBSET (Authors \cup Servers)]
         /\ parked \in [Servers -> Seq(StepsLeft)]
         /\ work \in [Servers -> [Tasks -> Seq(StepsLeft)]]
  BY TaskAssumption DEF TaskInv, StepsOK, KeysAwaited, StoreInv, Typed, TypedStore, Sides

\* The parts of the next state, put together again.
LEMMA InvNext ==
  ASSUME StoreInv', Sides', ParkedOK(conf'[Home], parked'), WorkOK(conf'[Home], work'),
         Awaited(parked', keys', work'),
         keys' \in [Servers -> SUBSET (Authors \cup Servers)],
         parked' \in [Servers -> Seq(StepsLeft)],
         work' \in [Servers -> [Tasks -> Seq(StepsLeft)]]
  PROVE  TaskInv'
<1>1. /\ conf' \in [Servers -> [Ids -> ConfirmStates]]
      /\ row' \in [Servers -> Rows] /\ past' \subseteq Rows
  BY DEF StoreInv, TypedStore
<1>2. /\ routes' \in [Servers -> SUBSET Moves] /\ net' \subseteq Messages
      /\ minted' \in Seq(Ids) /\ owed' \subseteq Servers \X Servers /\ faults' \in 0..MaxFaults
  BY DEF Sides
<1>3. Typed'
  BY <1>1, <1>2 DEF Typed
<1>4. Ended' /\ LogsOK' /\ FollowersOnlyFollow' /\ NetOK'
  BY DEF StoreInv, Sides
<1> QED BY <1>3, <1>4 DEF TaskInv, StepsOK, KeysAwaited

\* A queue of steps that are in order.
InOrder(c, s, q) ==
    q \in Seq(StepsLeft) /\ \A it \in Items(q) : StepOK(c, s, it)

\* What is left of a task's steps: no look for a key is dropped.
Rest(s, t, rest) ==
    /\ rest \in Seq(StepsLeft)
    /\ Items(rest) \subseteq Items(work[s][t])
    /\ \A it \in Items(work[s][t]) : it.op = "takekey" => it \in Items(rest)

\* A step of one task that leaves the keys and the defer queue alone.
LEMMA TaskSteps ==
  ASSUME TaskInv, StoreInv', Sides', Keeps(conf[Home], conf'[Home]),
         NEW s \in Servers, NEW t \in Tasks, NEW new, NEW rest,
         InOrder(conf'[Home], s, new), Rest(s, t, rest),
         work' = [work EXCEPT ![s][t] = new \o rest],
         UNCHANGED <<keys, parked>>
  PROVE  TaskInv'
<1>1. /\ WorkOK(conf[Home], work) /\ ParkedOK(conf[Home], parked)
      /\ Awaited(parked, keys, work)
      /\ keys \in [Servers -> SUBSET (Authors \cup Servers)]
      /\ parked \in [Servers -> Seq(StepsLeft)]
      /\ work \in [Servers -> [Tasks -> Seq(StepsLeft)]]
  BY InvParts
<1>same. parked' = parked /\ keys' = keys
  OBVIOUS
<1>r. /\ new \in Seq(StepsLeft) /\ rest \in Seq(StepsLeft)
      /\ Items(rest) \subseteq Items(work[s][t])
      /\ \A it \in Items(work[s][t]) : it.op = "takekey" => it \in Items(rest)
      /\ \A it \in Items(new) : StepOK(conf'[Home], s, it)
  BY DEF InOrder, Rest
<1>2. new \o rest \in Seq(StepsLeft) /\ Items(new \o rest) = Items(new) \cup Items(rest)
  BY <1>r, ItemsOfConcat
<1>3. /\ work' \in [Servers -> [Tasks -> Seq(StepsLeft)]]
      /\ \A p \in Servers, u \in Tasks :
            work'[p][u] = IF p = s /\ u = t THEN new \o rest ELSE work[p][u]
  BY <1>1, <1>2, OneQueue
<1>4. ASSUME NEW p \in Servers, NEW u \in Tasks, NEW it \in Items(work'[p][u])
      PROVE  StepOK(conf'[Home], p, it)
  <2>1. \/ it \in Items(work[p][u])
        \/ p = s /\ it \in Items(new)
    BY <1>2, <1>3, <1>4, <1>r
  <2>2. CASE it \in Items(work[p][u])
    BY <1>1, <2>2, KeepsSteps DEF WorkOK
  <2>3. CASE p = s /\ it \in Items(new)
    BY <2>3, <1>r
  <2> QED BY <2>1, <2>2, <2>3
<1>5. WorkOK(conf'[Home], work')
  BY <1>4 DEF WorkOK
<1>7. ParkedOK(conf'[Home], parked')
  BY <1>1, <1>same, KeepsSteps DEF ParkedOK
<1>8. \A p \in Servers, u \in Tasks : \A it \in Items(work[p][u]) :
            it.op = "takekey" => it \in Items(work'[p][u])
  BY <1>2, <1>3, <1>r
<1>9. KeysKept(work, work')
  BY <1>8 DEF KeysKept
<1>10. Awaited(parked', keys', work')
  BY <1>1, <1>same, <1>9, KeepsAwaited
<1> QED BY <1>1, <1>3, <1>5, <1>7, <1>10, <1>same, InvNext

\* An idle task has nothing left to keep.
LEMMA IdleRest ==
  ASSUME NEW s, NEW t, work[s][t] = << >>
  PROVE  Rest(s, t, << >>)
<1>1. << >> \in Seq(StepsLeft)
  OBVIOUS
<1> QED BY <1>1, ItemsOfEmpty DEF Rest

\* A step that leaves the keys and every queue alone.
LEMMA QueuesSame ==
  ASSUME TaskInv, StoreInv', Sides', Keeps(conf[Home], conf'[Home]),
         keys' = keys, parked' = parked, work' = work
  PROVE  TaskInv'
<1>1. /\ WorkOK(conf[Home], work) /\ ParkedOK(conf[Home], parked)
      /\ Awaited(parked, keys, work)
      /\ keys \in [Servers -> SUBSET (Authors \cup Servers)]
      /\ parked \in [Servers -> Seq(StepsLeft)]
      /\ work \in [Servers -> [Tasks -> Seq(StepsLeft)]]
  BY InvParts
<1>2. ParkedOK(conf'[Home], parked)
  BY <1>1, KeepsSteps DEF ParkedOK
<1>3. WorkOK(conf'[Home], work)
  BY <1>1, KeepsSteps DEF WorkOK
<1> QED BY <1>1, <1>2, <1>3, InvNext

\* The steps a handler can leave, and what each needs to be in order.
LEMMA Leftovers ==
  ASSUME NEW c, NEW s \in Servers, NEW it \in StepsLeft, it.id \in Ids, it.peer \in Servers,
         Heard(c, it.id)
  PROVE  /\ \A on \in Ids \cup Authors \cup Servers :
                Park(it, on) \in StepsLeft /\ StepOK(c, s, Park(it, on))
         /\ Look(it) \in StepsLeft /\ StepOK(c, s, Look(it))
         /\ Release(it.id) \in StepsLeft /\ StepOK(c, s, Release(it.id))
         /\ Mint(it.id) \in StepsLeft
         /\ s = Home /\ ~IsReceipt(it.id) /\ c[it.id] = "confirmed" => StepOK(c, s, Mint(it.id))
<1>1. ASSUME NEW on \in Ids \cup Authors \cup Servers
      PROVE  Park(it, on) \in StepsLeft /\ StepOK(c, s, Park(it, on))
  <2>1. /\ Park(it, on).op = "park" /\ Park(it, on).id = it.id
        /\ Park(it, on).peer = it.peer /\ Park(it, on).on = on
    BY DEF Park, StepsLeft
  <2>2. Park(it, on) \in StepsLeft
    BY DEF Park, StepsLeft
  <2> QED BY <2>1, <2>2 DEF StepOK, Handled
<1>2. Release(it.id) \in StepsLeft /\ StepOK(c, s, Release(it.id))
  BY DEF Release, Step, StepsLeft, StepOK, Handled
<1>3. Mint(it.id) \in StepsLeft
  BY DEF Mint, Step, StepsLeft
<1>4. ASSUME s = Home, ~IsReceipt(it.id), c[it.id] = "confirmed" PROVE StepOK(c, s, Mint(it.id))
  BY <1>4 DEF Mint, Step, StepOK, Handled
<1>5. Look(it) \in StepsLeft /\ StepOK(c, s, Look(it))
  <2>1. Look(it).op = "look" /\ Look(it).id = it.id /\ Look(it).peer = it.peer
    BY DEF Look, StepsLeft
  <2>2. Look(it) \in StepsLeft
    BY DEF Look, StepsLeft
  <2> QED BY <2>1, <2>2 DEF StepOK, Handled
<1> QED BY <1>1, <1>2, <1>3, <1>4, <1>5

\* Queues of at most two steps.
LEMMA ShortQueues ==
  ASSUME NEW c, NEW s, NEW a \in StepsLeft, StepOK(c, s, a)
  PROVE  /\ InOrder(c, s, << >>) /\ InOrder(c, s, <<a>>)
         /\ \A b \in StepsLeft : StepOK(c, s, b) => InOrder(c, s, <<a, b>>)
<1>1. InOrder(c, s, << >>)
  <2>1. << >> \in Seq(StepsLeft)
    OBVIOUS
  <2> QED BY <2>1, ItemsOfEmpty DEF InOrder
<1>2. InOrder(c, s, <<a>>)
  <2>1. <<a>> \in Seq(StepsLeft) /\ Items(<<a>>) = {a}
    BY ItemsOfFew
  <2> QED BY <2>1 DEF InOrder
<1>3. ASSUME NEW b \in StepsLeft, StepOK(c, s, b) PROVE InOrder(c, s, <<a, b>>)
  <2>1. <<a, b>> \in Seq(StepsLeft) /\ Items(<<a, b>>) = {a, b}
    BY ItemsOfFew
  <2> QED BY <1>3, <2>1 DEF InOrder
<1> QED BY <1>1, <1>2, <1>3

\* What follows a write is in order, once the write is on file.
LEMMA AfterWrite ==
  ASSUME NEW c, NEW s \in Servers, NEW it \in StepsLeft, it.id \in Ids, it.peer \in Servers,
         Heard(c, it.id), NEW w,
         w.out = "filed" => ~IsReceipt(it.id) /\ (s = Home => c[it.id] = "confirmed")
  PROVE  InOrder(c, s, AfterLive(s, it, w)) /\ InOrder(c, s, AfterReplay(s, it, w))
<1>1. /\ Move(it.id[1]) \in Ids /\ Move(Opener) \in Ids
  BY IdFacts, TaskAssumption
<1>2. /\ InOrder(c, s, <<Park(it, Move(it.id[1]))>>)
      /\ InOrder(c, s, <<Park(it, Move(Opener))>>)
      /\ InOrder(c, s, <<Look(it)>>)
  BY <1>1, Leftovers, ShortQueues
<1>3. InOrder(c, s, <<Release(it.id)>>) /\ InOrder(c, s, << >>)
  BY Leftovers, ShortQueues
<1>4. ASSUME OwesReceipt(s, it.id, w) PROVE InOrder(c, s, <<Mint(it.id), Release(it.id)>>)
  <2>1. s = Home /\ w.out = "filed"
    BY <1>4 DEF OwesReceipt
  <2>2. StepOK(c, s, Mint(it.id)) /\ Mint(it.id) \in StepsLeft
    BY <2>1, Leftovers
  <2>3. StepOK(c, s, Release(it.id)) /\ Release(it.id) \in StepsLeft
    BY Leftovers
  <2> QED BY <2>2, <2>3, ShortQueues
<1>5. \/ AfterLive(s, it, w) = <<Park(it, Move(it.id[1]))>>
      \/ AfterLive(s, it, w) = <<Park(it, Move(Opener))>>
      \/ AfterLive(s, it, w) = << >>
      \/ OwesReceipt(s, it.id, w) /\ AfterLive(s, it, w) = <<Mint(it.id), Release(it.id)>>
      \/ AfterLive(s, it, w) = <<Release(it.id)>>
  <2>1. OwesReceipt(s, it.id, w) => w.out = "filed"
    BY DEF OwesReceipt
  <2> QED BY <2>1 DEF AfterLive
<1>6. \/ AfterReplay(s, it, w) = <<Look(it)>>
      \/ AfterReplay(s, it, w) = << >>
      \/ OwesReceipt(s, it.id, w) /\ AfterReplay(s, it, w) = <<Mint(it.id), Release(it.id)>>
      \/ AfterReplay(s, it, w) = <<Release(it.id)>>
  <2>1. OwesReceipt(s, it.id, w) => w.out = "filed"
    BY DEF OwesReceipt
  <2> QED BY <2>1 DEF AfterReplay
<1>7. InOrder(c, s, AfterLive(s, it, w))
  BY <1>2, <1>3, <1>4, <1>5
<1>8. InOrder(c, s, AfterReplay(s, it, w))
  BY <1>2, <1>3, <1>4, <1>6
<1> QED BY <1>7, <1>8

-------------------------------------------------------------------------------
(***************************************************************************)
(* Each action preserves the invariant.                                    *)
(***************************************************************************)

\* Judging one relayed event that is in order.
LEMMA Judging ==
  ASSUME TaskInv, NEW CONSTANT s \in Servers, NEW CONSTANT t \in Tasks,
         NEW STATE it, NEW STATE rest, NEW STATE flying,
         it \in StepsLeft, it.op \in {"judge", "ask"}, StepOK(conf[Home], s, it),
         Rest(s, t, rest), flying \subseteq net,
         JudgeLive(s, t, it, rest, flying),
         UNCHANGED <<keys, parked, minted, owed, faults>>
  PROVE  TaskInv'
<1> DEFINE w == ApplyActEvent(s, it.id, it.peer)
           m == it.id[1]
<1>1. it.id \in Ids /\ it.peer \in Servers /\ Heard(conf[Home], it.id)
  BY DEF StepOK, Handled
<1>2. /\ m \in Moves /\ Move(m) \in Ids /\ Receipt(m) \in Ids
      /\ ~IsReceipt(it.id) => it.id = Move(m)
  BY <1>1, IdFacts
<1>3. /\ StoreInv /\ Typed /\ Sides /\ Home \in Servers
  BY InvParts
<1>4. keys' = keys /\ parked' = parked /\ minted' = minted /\ owed' = owed /\ faults' = faults
  OBVIOUS
<1>a. ASSUME NEW msg \in flying \cup Answer(s, it)
      PROVE  msg \in Messages /\ msg.id \in Ids /\ Heard(conf[Home], msg.id)
  <2>1. CASE msg \in flying
    <3>1. msg \in Messages /\ Heard(conf[Home], msg.id)
      BY <1>3, <2>1 DEF Sides, NetOK
    <3> QED BY <3>1 DEF Messages
  <2>2. CASE msg \in Answer(s, it)
    <3>1. msg = Relay(Receipt(m), s, it.peer) /\ conf[s][Receipt(m)] # "absent"
      BY <2>2 DEF Answer
    <3>2. Heard(conf[Home], Receipt(m))
      BY <1>2, <1>3, <3>1 DEF StoreInv, LogsOK
    <3>3. msg \in Messages /\ msg.id = Receipt(m)
      BY <1>1, <1>2, <3>1 DEF Relay, Messages
    <3> QED BY <1>2, <3>2, <3>3
  <2> QED BY <1>a, <2>1, <2>2
<1>5. ASSUME NEW on \in Ids \cup Authors \cup Servers, UNCHANGED <<conf, row, past, routes>>,
             net' \subseteq flying \cup Answer(s, it),
             \/ work' = [work EXCEPT ![s][t] = <<Release(it.id)>> \o rest]
             \/ work' = [work EXCEPT ![s][t] = <<Park(it, on)>> \o rest]
      PROVE  TaskInv'
  <2>0. conf' = conf /\ row' = row /\ past' = past /\ routes' = routes
    BY <1>5
  <2>1. StoreInv' /\ Keeps(conf[Home], conf'[Home])
    BY <1>3, <1>5, StoreSame
  <2>a. net' \subseteq Messages /\ NetOK'
    BY <1>5, <1>a, <2>0 DEF NetOK
  <2>2. Sides'
    BY <1>3, <1>4, <2>0, <2>a DEF Sides
  <2>3. InOrder(conf'[Home], s, <<Release(it.id)>>) /\ InOrder(conf'[Home], s, <<Park(it, on)>>)
    BY <1>1, <2>0, Leftovers, ShortQueues
  <2>4. CASE work' = [work EXCEPT ![s][t] = <<Release(it.id)>> \o rest]
    BY <1>4, <2>1, <2>2, <2>3, <2>4, TaskSteps
  <2>5. CASE work' = [work EXCEPT ![s][t] = <<Park(it, on)>> \o rest]
    BY <1>4, <2>1, <2>2, <2>3, <2>5, TaskSteps
  <2> QED BY <1>5, <2>4, <2>5
<1>6. Signer(it.id) \in Authors \cup Servers
  BY <1>2, <1>3 DEF Signer, Authors
<1>7. ASSUME Stored(s, w.st),
             work' = [work EXCEPT ![s][t] = AfterLive(s, it, w) \o rest],
             routes' = IF w.out = "stored"
                       THEN [routes EXCEPT ![s] = @ \cup {m}] ELSE routes,
             net' = flying \cup (IF OwesReceipt(s, it.id, w) THEN {} ELSE Answer(s, it))
                           \cup (IF w.out = "stored" THEN {Ask(m, s)} ELSE {})
      PROVE  TaskInv'
  <2>1. /\ StoreInv' /\ Keeps(conf[Home], conf'[Home])
        /\ w.out = "filed" => conf'[s][it.id] = "confirmed" /\ ~IsReceipt(it.id)
        /\ w.out = "stored" => ~IsReceipt(it.id)
        /\ Heard(conf'[Home], it.id)
    BY <1>1, <1>3, <1>7, StoreStep
  <2> HIDE DEF w
  <2>2. InOrder(conf'[Home], s, AfterLive(s, it, w))
    BY <1>1, <2>1, AfterWrite
  <2>3. routes' \in [Servers -> SUBSET Moves]
    <3>1. routes \in [Servers -> SUBSET Moves]
      BY <1>3 DEF Sides
    <3> HIDE DEF m
    <3> QED BY <1>2, <1>7, <3>1
  <2>4. ASSUME NEW msg \in net' PROVE msg \in Messages /\ Heard(conf'[Home], msg.id)
    <3>1. CASE msg \in flying \cup Answer(s, it)
      <4>1. msg \in Messages /\ msg.id \in Ids /\ Heard(conf[Home], msg.id)
        BY <1>a, <3>1
      <4> QED BY <2>1, <4>1, KeepsSteps
    <3>3. CASE w.out = "stored" /\ msg = Ask(m, s)
      <4>1. msg \in Messages /\ msg.id = Move(m)
        BY <1>2, <1>3, <3>3 DEF Ask, Messages
      <4>2. it.id = Move(m)
        BY <1>2, <2>1, <3>3
      <4> QED BY <2>1, <4>1, <4>2
    <3> QED BY <1>7, <2>4, <3>1, <3>3
  <2>5. net' \subseteq Messages /\ NetOK'
    BY <2>4 DEF NetOK
  <2>6. Sides'
    BY <1>3, <1>4, <2>3, <2>5 DEF Sides
  <2> QED BY <1>4, <1>7, <2>1, <2>2, <2>6, TaskSteps
<1>8. CASE it.quiet /\ NotItsToCarry(s, it.id, it.peer)
  BY <1>1, <1>5, <1>8 DEF JudgeLive
<1>9. CASE ~(it.quiet /\ NotItsToCarry(s, it.id, it.peer)) /\ Signer(it.id) \notin keys[s]
  BY <1>5, <1>6, <1>9 DEF JudgeLive
<1>10. CASE ~(it.quiet /\ NotItsToCarry(s, it.id, it.peer)) /\ Signer(it.id) \in keys[s]
  BY <1>7, <1>10 DEF JudgeLive
<1> QED BY <1>8, <1>9, <1>10

\* A message is judged by an idle processor.
LEMMA ReceiveStep ==
  ASSUME TaskInv, NEW msg \in net, Receive(msg)
  PROVE  TaskInv'
<1> DEFINE s == msg.to
           it == Step(IF msg.kind = "ask" THEN "ask" ELSE "judge",
                      msg.id, msg.from, NoOne, FALSE)
<1>1. /\ msg \in Messages /\ Heard(conf[Home], msg.id) /\ Typed
  BY InvParts DEF Sides, NetOK
<1>2. s \in Servers /\ msg.id \in Ids /\ msg.from \in Servers
  BY <1>1 DEF Messages
<1>3. /\ it \in StepsLeft /\ it.op \in {"judge", "ask"} /\ StepOK(conf[Home], s, it)
  BY <1>1, <1>2 DEF Step, StepsLeft, StepOK, Handled
<1>4. /\ work[s]["proc"] = << >>
      /\ JudgeLive(s, "proc", it, << >>, net \ {msg})
      /\ UNCHANGED <<keys, parked, minted, owed, faults>>
  BY DEF Receive
<1>5. Rest(s, "proc", << >>)
  <2>1. << >> \in Seq(StepsLeft)
    OBVIOUS
  <2> QED BY <1>4, <2>1, ItemsOfEmpty DEF Rest
<1>6. net \ {msg} \subseteq net /\ "proc" \in Tasks
  BY DEF Tasks
<1> HIDE DEF it, s
<1> QED BY <1>2, <1>3, <1>4, <1>5, <1>6, Judging

\* The head of a task's steps is in order, and is the only one that goes.
LEMMA HeadStep ==
  ASSUME TaskInv, NEW s \in Servers, NEW t \in Tasks, work[s][t] # << >>
  PROVE  /\ Head(work[s][t]) \in StepsLeft
         /\ StepOK(conf[Home], s, Head(work[s][t]))
         /\ Head(work[s][t]) \in Items(work[s][t])
         /\ Tail(work[s][t]) \in Seq(StepsLeft)
         /\ Items(work[s][t]) = Items(Tail(work[s][t])) \cup {Head(work[s][t])}
         /\ Head(work[s][t]).op # "takekey" => Rest(s, t, Tail(work[s][t]))
<1>1. work[s][t] \in Seq(StepsLeft) /\ WorkOK(conf[Home], work)
  BY InvParts
<1> DEFINE q == work[s][t]
<1>2. /\ Head(q) \in StepsLeft /\ Head(q) \in Items(q) /\ Tail(q) \in Seq(StepsLeft)
      /\ Items(q) = Items(Tail(q)) \cup {Head(q)}
  <2> HIDE DEF q
  <2> QED BY <1>1, ItemsOfTail DEF q
<1>3. StepOK(conf[Home], s, Head(q))
  BY <1>1, <1>2 DEF WorkOK
<1>4. Head(q).op # "takekey" => Rest(s, t, Tail(q))
  BY <1>2 DEF Rest
<1> QED BY <1>2, <1>3, <1>4

\* An event out of the defer queue is judged.
LEMMA JudgeParkedStep ==
  ASSUME TaskInv, NEW s \in Servers, NEW t \in Tasks, JudgeParked(s, t)
  PROVE  TaskInv'
<1>1. /\ work[s][t] # << >> /\ Head(work[s][t]).op = "judge"
      /\ JudgeLive(s, t, Head(work[s][t]), Tail(work[s][t]), net)
      /\ UNCHANGED <<keys, parked, minted, owed, faults>>
  BY DEF JudgeParked, Busy
<1>2. /\ Head(work[s][t]) \in StepsLeft /\ StepOK(conf[Home], s, Head(work[s][t]))
      /\ Rest(s, t, Tail(work[s][t])) /\ Head(work[s][t]).op \in {"judge", "ask"}
  BY <1>1, HeadStep
<1>3. net \subseteq net
  OBVIOUS
<1> QED BY <1>1, <1>2, <1>3, Judging

\* Nothing but the queues of a server changes.
QueuesOnly == UNCHANGED <<conf, row, keys, routes, net, minted, owed, faults, past>>

\* Then all that is not a queue is as it was.
LEMMA QueuesOnlyKeeps ==
  ASSUME TaskInv, QueuesOnly
  PROVE  /\ StoreInv' /\ Sides' /\ Keeps(conf[Home], conf'[Home])
         /\ conf' = conf /\ keys' = keys
<1>1. /\ conf' = conf /\ row' = row /\ past' = past /\ keys' = keys /\ routes' = routes
      /\ net' = net /\ minted' = minted /\ owed' = owed /\ faults' = faults
  BY DEF QueuesOnly
<1>2. StoreInv /\ Sides
  BY InvParts
<1>3. StoreInv' /\ Keeps(conf[Home], conf'[Home])
  BY <1>1, <1>2, StoreSame
<1>4. Sides'
  BY <1>1, <1>2 DEF Sides, NetOK
<1> QED BY <1>1, <1>3, <1>4

\* The defer queue drops to make room, and adds nothing but what it is given.
LEMMA WithinItems ==
  ASSUME NEW queue \in Seq(StepsLeft), NEW pool, NEW ceiling
  PROVE  /\ Within(queue, pool, ceiling) \in Seq(StepsLeft)
         /\ Items(Within(queue, pool, ceiling)) \subseteq Items(queue)
<1> DEFINE I == DOMAIN queue \ {Victim(queue, pool)}
<1>1. I \in SUBSET DOMAIN queue
  OBVIOUS
<1> HIDE DEF I
<1>2. Picked(queue, I) \in Seq(StepsLeft) /\ Items(Picked(queue, I)) = {queue[i] : i \in I}
  BY <1>1, PickedItems
<1>3. Len(queue) \in Nat /\ DOMAIN queue = 1 .. Len(queue)
  BY LenProperties
<1>4. Items(Picked(queue, I)) \subseteq Items(queue)
  BY <1>1, <1>2, <1>3 DEF Items
<1>5. Within(queue, pool, ceiling) \in {queue, Picked(queue, I)}
  BY DEF Within, I
<1> QED BY <1>2, <1>4, <1>5

LEMMA ParkedItems ==
  ASSUME NEW queue \in Seq(StepsLeft), NEW it \in StepsLeft
  PROVE  /\ Parked(queue, it) \in Seq(StepsLeft)
         /\ Items(Parked(queue, it)) \subseteq Items(queue) \cup {it}
<1> DEFINE all == Append(queue, it)
           shared == Within(all, {i \in DOMAIN all : all[i].peer = it.peer},
                            ActDeferMaxPerOrigin)
<1>1. all \in Seq(StepsLeft) /\ Items(all) = Items(queue) \cup {it}
  BY ItemsOfAppend
<1> HIDE DEF all
<1>2. shared \in Seq(StepsLeft) /\ Items(shared) \subseteq Items(all)
  BY <1>1, WithinItems
<1> HIDE DEF shared
<1>3. /\ Within(shared, DOMAIN shared, ActDeferMaxTotal) \in Seq(StepsLeft)
      /\ Items(Within(shared, DOMAIN shared, ActDeferMaxTotal)) \subseteq Items(shared)
  BY <1>2, WithinItems
<1>4. Parked(queue, it) = Within(shared, DOMAIN shared, ActDeferMaxTotal)
  BY DEF Parked, shared, all
<1> QED BY <1>1, <1>2, <1>3, <1>4

\* An event that lacked something is held; if that is a key, its task looks
\* for the key once more.
LEMMA ParkItStep ==
  ASSUME TaskInv, NEW s \in Servers, NEW t \in Tasks, ParkIt(s, t)
  PROVE  TaskInv'
<1> DEFINE it == Head(work[s][t])
           rest == Tail(work[s][t])
           q == Parked(parked[s], it)
           c == conf[Home]
<1>1. /\ work[s][t] # << >> /\ it.op = "park"
      /\ parked' = [parked EXCEPT ![s] = q]
      /\ work' = [work EXCEPT ![s][t] = AfterPark(it) \o rest]
      /\ QueuesOnly
  BY DEF ParkIt, Busy, QueuesOnly
<1>2. /\ it \in StepsLeft /\ StepOK(c, s, it) /\ Rest(s, t, rest)
      /\ it.on \in Ids \cup Authors \cup Servers
  BY <1>1, HeadStep DEF StepOK
<1>3. /\ StoreInv' /\ Sides' /\ Keeps(c, conf'[Home]) /\ conf' = conf /\ keys' = keys
  BY <1>1, QueuesOnlyKeeps
<1>4. /\ parked \in [Servers -> Seq(StepsLeft)] /\ ParkedOK(c, parked)
      /\ work \in [Servers -> [Tasks -> Seq(StepsLeft)]] /\ WorkOK(c, work)
      /\ Awaited(parked, keys, work)
      /\ keys \in [Servers -> SUBSET (Authors \cup Servers)]
  BY InvParts
<1> HIDE DEF it, rest
<1>5. q \in Seq(StepsLeft) /\ Items(q) \subseteq Items(parked[s]) \cup {it}
  BY <1>2, <1>4, ParkedItems
<1> HIDE DEF q, c
<1>6. /\ parked' \in [Servers -> Seq(StepsLeft)]
      /\ \A p \in Servers : parked'[p] = IF p = s THEN q ELSE parked[p]
  BY <1>1, <1>4, <1>5
<1>7. ParkedOK(c, parked')
  BY <1>1, <1>2, <1>4, <1>5, <1>6 DEF ParkedOK
<1>8. /\ AfterPark(it) \in Seq(StepsLeft)
      /\ \A x \in Items(AfterPark(it)) : StepOK(c, s, x)
      /\ it.on \notin Ids => TakeKey(it.on) \in Items(AfterPark(it))
  <2>1. CASE it.on \in Ids
    <3>1. AfterPark(it) = << >> /\ << >> \in Seq(StepsLeft)
      BY <2>1 DEF AfterPark
    <3> QED BY <2>1, <3>1, ItemsOfEmpty
  <2>2. CASE it.on \notin Ids
    <3>1. AfterPark(it) = <<TakeKey(it.on)>> /\ it.on \in Authors \cup Servers
      BY <1>2, <2>2 DEF AfterPark
    <3>2. TakeKey(it.on) \in StepsLeft /\ StepOK(c, s, TakeKey(it.on))
      BY <3>1, TaskAssumption DEF TakeKey, Step, StepsLeft, StepOK, Handled
    <3>3. <<TakeKey(it.on)>> \in Seq(StepsLeft) /\ Items(<<TakeKey(it.on)>>) = {TakeKey(it.on)}
      BY <3>2, ItemsOfFew
    <3> QED BY <2>2, <3>1, <3>2, <3>3
  <2> QED BY <2>1, <2>2
<1>9. /\ rest \in Seq(StepsLeft) /\ Items(rest) \subseteq Items(work[s][t])
      /\ \A x \in Items(work[s][t]) : x.op = "takekey" => x \in Items(rest)
  BY <1>2 DEF Rest
<1>10. /\ AfterPark(it) \o rest \in Seq(StepsLeft)
       /\ Items(AfterPark(it) \o rest) = Items(AfterPark(it)) \cup Items(rest)
  BY <1>8, <1>9, ItemsOfConcat
<1>11. /\ work' \in [Servers -> [Tasks -> Seq(StepsLeft)]]
       /\ \A p \in Servers, u \in Tasks :
            work'[p][u] = IF p = s /\ u = t THEN AfterPark(it) \o rest ELSE work[p][u]
  BY <1>1, <1>4, <1>10, OneQueue
<1>12. WorkOK(c, work')
  BY <1>4, <1>8, <1>9, <1>10, <1>11 DEF WorkOK
<1>13. KeysKept(work, work')
  BY <1>9, <1>10, <1>11 DEF KeysKept
<1>14. Awaited(parked, keys, work')
  BY <1>4, <1>13, KeepsAwaited
<1>15. ASSUME NEW p \in Servers, NEW x \in Items(parked'[p]), x.on \in keys[p]
       PROVE  TakenSoon(work', p, x.on)
  <2>1. CASE x \in Items(parked[p])
    BY <1>14, <1>15, <2>1 DEF Awaited
  <2>2. CASE x \notin Items(parked[p])
    <3>1. p = s /\ x = it
      BY <1>5, <1>6, <1>15, <2>2
    <3>2. it.on \in Authors \cup Servers
      BY <1>4, <1>15, <3>1
    <3>3. it.on \notin Ids
      BY <3>2, TaskAssumption
    <3>4. TakeKey(it.on) \in Items(work'[s][t])
      BY <1>8, <1>10, <1>11, <3>3
    <3> QED BY <3>1, <3>4 DEF TakenSoon
  <2> QED BY <2>1, <2>2
<1>16. Awaited(parked', keys', work')
  BY <1>3, <1>15 DEF Awaited
<1>17. ParkedOK(conf'[Home], parked') /\ WorkOK(conf'[Home], work')
  BY <1>3, <1>7, <1>12 DEF c
<1> QED BY <1>3, <1>4, <1>6, <1>11, <1>16, <1>17, InvNext

\* Part of a server's defer queue is left.
LEMMA QueueLess ==
  ASSUME TaskInv, NEW CONSTANT s \in Servers, NEW STATE I, I \in SUBSET DOMAIN parked[s],
         parked' = [parked EXCEPT ![s] = Picked(@, I)]
  PROVE  /\ parked' \in [Servers -> Seq(StepsLeft)]
         /\ \A p \in Servers : Items(parked'[p]) \subseteq Items(parked[p])
         /\ Items(parked'[s]) = {parked[s][i] : i \in I}
<1>1. parked \in [Servers -> Seq(StepsLeft)]
  BY InvParts
<1>2. parked[s] \in Seq(StepsLeft)
  BY <1>1
<1> DEFINE q == Picked(parked[s], I)
<1>3. q \in Seq(StepsLeft) /\ Items(q) = {parked[s][i] : i \in I}
  BY <1>2, PickedItems
<1>4. Len(parked[s]) \in Nat /\ DOMAIN parked[s] = 1 .. Len(parked[s])
  BY <1>2, LenProperties
<1>5. Items(q) \subseteq Items(parked[s])
  BY <1>3, <1>4 DEF Items
<1>6. parked' = [parked EXCEPT ![s] = q]
  OBVIOUS
<1> HIDE DEF q
<1>7. /\ parked' \in [Servers -> Seq(StepsLeft)]
      /\ \A p \in Servers : parked'[p] = IF p = s THEN q ELSE parked[p]
  BY <1>1, <1>3, <1>6
<1> QED BY <1>3, <1>5, <1>7

\* The queues after a task has taken out what waits for `on`.
Taken(s, t, on) ==
    /\ parked' \in [Servers -> Seq(StepsLeft)]
    /\ work' \in [Servers -> [Tasks -> Seq(StepsLeft)]]
    /\ ParkedOK(conf[Home], parked') /\ WorkOK(conf[Home], work')
    /\ \A p \in Servers : Items(parked'[p]) \subseteq Items(parked[p])
    /\ \A it \in Items(parked'[s]) : it.on # on
    /\ \A p \in Servers, u \in Tasks : \A it \in Items(work[p][u]) :
            it \in Items(work'[p][u]) \/ (p = s /\ u = t /\ it = Head(work[s][t]))

\* What waits for something is taken out of the queue to be judged.
LEMMA Taking ==
  ASSUME TaskInv, NEW CONSTANT s \in Servers, NEW CONSTANT t \in Tasks, NEW STATE on,
         work[s][t] # << >>, TakeWaiting(s, t, on), QueuesOnly
  PROVE  Taken(s, t, on)
<1> DEFINE wanted == {i \in DOMAIN parked[s] : parked[s][i].on = on}
           taken == Picked(parked[s], wanted)
           rest == Tail(work[s][t])
           c == conf[Home]
<1>1. /\ parked' = [parked EXCEPT ![s] = Picked(@, DOMAIN @ \ wanted)]
      /\ work' = [work EXCEPT ![s][t] = Judges(taken) \o rest]
  BY DEF TakeWaiting
<1>2. /\ parked \in [Servers -> Seq(StepsLeft)] /\ ParkedOK(c, parked)
      /\ work \in [Servers -> [Tasks -> Seq(StepsLeft)]] /\ WorkOK(c, work)
  BY InvParts
<1>3. /\ rest \in Seq(StepsLeft)
      /\ Items(work[s][t]) = Items(rest) \cup {Head(work[s][t])}
  BY HeadStep
<1>4. /\ taken \in Seq(StepsLeft) /\ Items(taken) = {parked[s][i] : i \in wanted}
  <2>1. parked[s] \in Seq(StepsLeft) /\ wanted \in SUBSET DOMAIN parked[s]
    BY <1>2
  <2> HIDE DEF wanted
  <2> QED BY <2>1, PickedItems
<1>5. Len(parked[s]) \in Nat /\ DOMAIN parked[s] = 1 .. Len(parked[s])
  BY <1>2, LenProperties
<1>6. Items(taken) \subseteq Items(parked[s])
  BY <1>4, <1>5 DEF Items
<1>7. /\ parked' \in [Servers -> Seq(StepsLeft)]
      /\ \A p \in Servers : Items(parked'[p]) \subseteq Items(parked[p])
      /\ Items(parked'[s]) = {parked[s][i] : i \in DOMAIN parked[s] \ wanted}
  <2> DEFINE I == DOMAIN parked[s] \ wanted
  <2>1. I \in SUBSET DOMAIN parked[s] /\ parked' = [parked EXCEPT ![s] = Picked(@, I)]
    BY <1>1
  <2> HIDE DEF I, wanted
  <2>2. /\ parked' \in [Servers -> Seq(StepsLeft)]
        /\ \A p \in Servers : Items(parked'[p]) \subseteq Items(parked[p])
        /\ Items(parked'[s]) = {parked[s][i] : i \in I}
    BY <2>1, QueueLess
  <2> QED BY <2>2 DEF I
<1>8. \A it \in Items(parked'[s]) : it.on # on
  BY <1>7
<1>9. ParkedOK(c, parked')
  BY <1>2, <1>7 DEF ParkedOK
<1> HIDE DEF wanted, taken, rest
<1>10. /\ Judges(taken) \in Seq(StepsLeft)
       /\ Items(Judges(taken)) = {Judge(it) : it \in Items(taken)}
  BY <1>4, JudgesItems
<1>11. ASSUME NEW x \in Items(Judges(taken)) PROVE StepOK(c, s, x)
  <2>1. PICK it \in Items(taken) : x = Judge(it)
    BY <1>10
  <2>2. it.op = "park" /\ StepOK(c, s, it)
    BY <1>2, <1>6 DEF ParkedOK
  <2>3. it \in StepsLeft
    BY <1>4, LenProperties DEF Items
  <2>4. it.id \in Ids /\ it.peer \in Servers /\ Heard(c, it.id)
    BY <2>2 DEF StepOK, Handled
  <2>5. x.op = "judge" /\ x.id = it.id /\ x.peer = it.peer
    BY <2>1, <2>3 DEF Judge, StepsLeft
  <2> QED BY <2>4, <2>5 DEF StepOK
<1>12. /\ Judges(taken) \o rest \in Seq(StepsLeft)
       /\ Items(Judges(taken) \o rest) = Items(Judges(taken)) \cup Items(rest)
  BY <1>3, <1>10, ItemsOfConcat
<1>13. /\ work' \in [Servers -> [Tasks -> Seq(StepsLeft)]]
       /\ \A p \in Servers, u \in Tasks :
            work'[p][u] = IF p = s /\ u = t THEN Judges(taken) \o rest ELSE work[p][u]
  BY <1>1, <1>2, <1>12, OneQueue
<1>14. WorkOK(c, work')
  BY <1>2, <1>3, <1>11, <1>12, <1>13 DEF WorkOK
<1>15. \A p \in Servers, u \in Tasks : \A it \in Items(work[p][u]) :
         it \in Items(work'[p][u]) \/ (p = s /\ u = t /\ it = Head(work[s][t]))
  BY <1>3, <1>12, <1>13
<1> QED BY <1>7, <1>8, <1>9, <1>13, <1>14, <1>15 DEF Taken

\* What waited for an event that is on file is judged again.
LEMMA ReleaseItStep ==
  ASSUME TaskInv, NEW s \in Servers, NEW t \in Tasks, ReleaseIt(s, t)
  PROVE  TaskInv'
<1>1. /\ work[s][t] # << >> /\ Head(work[s][t]).op = "release"
      /\ TakeWaiting(s, t, Head(work[s][t]).id) /\ QueuesOnly
  BY DEF ReleaseIt, Busy, QueuesOnly
<1>t. Taken(s, t, Head(work[s][t]).id)
  BY <1>1, Taking
<1>2. /\ parked' \in [Servers -> Seq(StepsLeft)]
      /\ work' \in [Servers -> [Tasks -> Seq(StepsLeft)]]
      /\ ParkedOK(conf[Home], parked') /\ WorkOK(conf[Home], work')
      /\ \A p \in Servers : Items(parked'[p]) \subseteq Items(parked[p])
      /\ \A p \in Servers, u \in Tasks : \A it \in Items(work[p][u]) :
            it \in Items(work'[p][u]) \/ (p = s /\ u = t /\ it = Head(work[s][t]))
  BY <1>t DEF Taken
<1>3. /\ StoreInv' /\ Sides' /\ conf' = conf /\ keys' = keys
  BY <1>1, QueuesOnlyKeeps
<1>4. KeysKept(work, work')
  BY <1>1, <1>2 DEF KeysKept
<1>5. Awaited(parked, keys, work') /\ keys \in [Servers -> SUBSET (Authors \cup Servers)]
  BY <1>4, InvParts, KeepsAwaited
<1>6. Awaited(parked', keys', work')
  BY <1>2, <1>3, <1>5 DEF Awaited
<1>7. ParkedOK(conf'[Home], parked') /\ WorkOK(conf'[Home], work')
  BY <1>2, <1>3
<1> QED BY <1>2, <1>3, <1>5, <1>6, <1>7, InvNext

\* A task looks for what waits on a key, and takes it out if the key is here.
LEMMA TakeForKeyStep ==
  ASSUME TaskInv, NEW s \in Servers, NEW t \in Tasks, TakeForKey(s, t)
  PROVE  TaskInv'
<1> DEFINE a == Head(work[s][t]).on
           rest == Tail(work[s][t])
           c == conf[Home]
<1>1. /\ work[s][t] # << >> /\ Head(work[s][t]).op = "takekey" /\ QueuesOnly
      /\ IF a \in keys[s] THEN TakeWaiting(s, t, a)
         ELSE work' = [work EXCEPT ![s][t] = rest] /\ UNCHANGED parked
  BY DEF TakeForKey, Busy, QueuesOnly
<1>2. /\ StoreInv' /\ Sides' /\ conf' = conf /\ keys' = keys
  BY <1>1, QueuesOnlyKeeps
<1>3. /\ parked \in [Servers -> Seq(StepsLeft)] /\ ParkedOK(c, parked)
      /\ work \in [Servers -> [Tasks -> Seq(StepsLeft)]] /\ WorkOK(c, work)
      /\ Awaited(parked, keys, work)
      /\ keys \in [Servers -> SUBSET (Authors \cup Servers)]
  BY InvParts
<1>4. /\ parked' \in [Servers -> Seq(StepsLeft)]
      /\ work' \in [Servers -> [Tasks -> Seq(StepsLeft)]]
      /\ ParkedOK(c, parked') /\ WorkOK(c, work')
      /\ \A p \in Servers : Items(parked'[p]) \subseteq Items(parked[p])
      /\ a \in keys[s] => \A it \in Items(parked'[s]) : it.on # a
      /\ \A p \in Servers, u \in Tasks : \A it \in Items(work[p][u]) :
            it \in Items(work'[p][u]) \/ (p = s /\ u = t /\ it = Head(work[s][t]))
  <2>1. CASE a \in keys[s]
    <3>1. Taken(s, t, a)
      BY <1>1, <2>1, Taking
    <3> QED BY <3>1 DEF Taken
  <2>2. CASE a \notin keys[s]
    <3>1. work' = [work EXCEPT ![s][t] = rest] /\ parked' = parked
      BY <1>1, <2>2
    <3>2. /\ rest \in Seq(StepsLeft)
          /\ Items(work[s][t]) = Items(rest) \cup {Head(work[s][t])}
      BY <1>1, HeadStep
    <3> HIDE DEF rest
    <3>3. /\ work' \in [Servers -> [Tasks -> Seq(StepsLeft)]]
          /\ \A p \in Servers, u \in Tasks :
                work'[p][u] = IF p = s /\ u = t THEN rest ELSE work[p][u]
      BY <1>3, <3>1, <3>2, OneQueue
    <3>4. WorkOK(c, work')
      BY <1>3, <3>2, <3>3 DEF WorkOK
    <3> QED BY <1>3, <2>2, <3>1, <3>2, <3>3, <3>4
  <2> QED BY <2>1, <2>2
<1>5. ASSUME NEW p \in Servers, NEW it \in Items(parked'[p]), it.on \in keys[p]
      PROVE  TakenSoon(work', p, it.on)
  <2>1. PICK u \in Tasks : TakeKey(it.on) \in Items(work[p][u])
    BY <1>3, <1>4, <1>5 DEF Awaited, TakenSoon
  <2>2. CASE TakeKey(it.on) \in Items(work'[p][u])
    BY <2>2 DEF TakenSoon
  <2>3. CASE p = s /\ u = t /\ TakeKey(it.on) = Head(work[s][t])
    <3>1. it.on = a
      BY <2>3 DEF TakeKey, Step
    <3> HIDE DEF a
    <3> QED BY <1>4, <1>5, <2>3, <3>1
  <2> QED BY <1>4, <2>1, <2>2, <2>3
<1>6. Awaited(parked', keys', work')
  BY <1>2, <1>5 DEF Awaited
<1>7. ParkedOK(conf'[Home], parked') /\ WorkOK(conf'[Home], work')
  BY <1>2, <1>4
<1> QED BY <1>2, <1>3, <1>4, <1>6, <1>7, InvNext

\* The home files its receipt for a move it has confirmed.
LEMMA MintReceiptStep ==
  ASSUME TaskInv, NEW s \in Servers, NEW t \in Tasks, MintReceipt(s, t)
  PROVE  TaskInv'
<1> DEFINE it == Head(work[s][t])
           m == it.id[1]
           c == conf[Home]
<1>1. /\ work[s][t] # << >> /\ it.op = "mint"
      /\ conf' = [conf EXCEPT ![s][Receipt(m)] = "record"]
      /\ minted' = Append(minted, Receipt(m))
      /\ net' = net \cup Broadcast(Receipt(m), s)
                    \cup (IF At[m] = s THEN Broadcast(Move(m), s) ELSE {})
      /\ work' = [work EXCEPT ![s][t] = Tail(work[s][t])]
      /\ row' = row /\ keys' = keys /\ parked' = parked /\ routes' = routes
      /\ owed' = owed /\ faults' = faults /\ past' = past
  BY DEF MintReceipt, Busy
<1>2. /\ it \in StepsLeft /\ StepOK(c, s, it) /\ Rest(s, t, Tail(work[s][t]))
  BY <1>1, HeadStep
<1>3. /\ s = Home /\ it.id \in Ids /\ ~IsReceipt(it.id) /\ c[it.id] = "confirmed"
      /\ Heard(c, it.id)
  BY <1>1, <1>2 DEF StepOK
<1>4. /\ m \in Moves /\ it.id = Move(m) /\ Move(m) \in Ids /\ Receipt(m) \in Ids
      /\ IsReceipt(Receipt(m)) /\ \A n \in Moves : Move(n) # Receipt(m)
  BY <1>3, IdFacts
<1>5. StoreInv /\ Sides /\ TypedStore
  BY InvParts DEF StoreInv
<1> HIDE DEF it, m
<1>6. /\ TypedStore'
      /\ \A p \in Servers, x \in Ids :
            conf'[p][x] = IF p = s /\ x = Receipt(m) THEN "record" ELSE conf[p][x]
  <2>1. conf \in [Servers -> [Ids -> ConfirmStates]] /\ "record" \in ConfirmStates
    BY <1>5 DEF TypedStore, ConfirmStates
  <2>2. /\ conf' \in [Servers -> [Ids -> ConfirmStates]]
        /\ \A p \in Servers, x \in Ids :
            conf'[p][x] = IF p = s /\ x = Receipt(m) THEN "record" ELSE conf[p][x]
    BY <1>1, <1>4, <2>1
  <2> QED BY <1>1, <1>5, <2>2 DEF TypedStore
<1>7. conf[Home][Receipt(m)] \in {"absent", "record"}
  <2>1. CASE conf[Home][Receipt(m)] # "absent"
    <3>1. Heard(conf[Home], Receipt(m))
      BY <1>3, <1>4, <1>5, <2>1 DEF StoreInv, LogsOK
    <3> QED BY <1>4, <3>1 DEF Heard, Given, SpeaksForHome
  <2> QED BY <2>1
<1>8. Keeps(c, conf'[Home])
  BY <1>3, <1>6, <1>7 DEF Keeps
<1>9. \A p \in Servers, n \in Moves : conf'[p][Move(n)] = conf[p][Move(n)]
  BY <1>4, <1>6, IdFacts
<1>10. Ended' /\ FollowersOnlyFollow'
  <2>1. \A p \in Servers : EndedBy(conf'[p], row'[p])
    <3>1. \A p \in Servers : EndedBy(conf[p], row[p])
      BY <1>5 DEF StoreInv, Ended
    <3> QED BY <1>1, <1>9, <3>1, TaskAssumption DEF EndedBy
  <2>2. Ended'
    BY <2>1 DEF Ended
  <2>3. FollowersOnlyFollow'
    BY <1>3, <1>5, <1>9 DEF StoreInv, FollowersOnlyFollow
  <2> QED BY <2>2, <2>3
<1>11. Heard(conf'[Home], Receipt(m)) /\ Heard(conf'[Home], Move(m))
  <2>1. Heard(conf'[Home], Receipt(m))
    BY <1>3, <1>4, <1>6 DEF Heard, Given
  <2>2. Heard(conf'[Home], Move(m))
    BY <1>3, <1>4, <1>8, KeepsSteps
  <2> QED BY <2>1, <2>2
<1>12. LogsOK'
  <2>1. ASSUME NEW p \in Servers, NEW x \in Ids, conf'[p][x] # "absent"
        PROVE  Heard(conf'[Home], x)
    <3>1. CASE x = Receipt(m)
      BY <1>11, <3>1
    <3>2. CASE x # Receipt(m)
      <4>1. Heard(conf[Home], x)
        BY <1>5, <1>6, <2>1, <3>2 DEF StoreInv, LogsOK
      <4> QED BY <1>8, <4>1, KeepsSteps
    <3> QED BY <3>1, <3>2
  <2>2. ASSUME NEW n \in Moves, conf'[Home][Receipt(n)] # "absent"
        PROVE  conf'[Home][Move(n)] = "confirmed"
    <3>1. CASE n = m
      BY <1>3, <1>4, <1>9, <3>1
    <3>2. CASE n # m
      <4>1. Receipt(n) # Receipt(m) /\ Receipt(n) \in Ids
        BY <1>4, <3>2, IdFacts
      <4>2. conf[Home][Receipt(n)] # "absent"
        BY <1>3, <1>6, <2>2, <4>1
      <4>3. conf[Home][Move(n)] = "confirmed"
        BY <1>5, <4>2 DEF StoreInv, LogsOK
      <4> QED BY <1>3, <1>9, <4>3
    <3> QED BY <3>1, <3>2
  <2> QED BY <2>1, <2>2 DEF LogsOK
<1>13. StoreInv'
  BY <1>6, <1>10, <1>12 DEF StoreInv
<1>14. ASSUME NEW msg \in net' PROVE msg \in Messages /\ Heard(conf'[Home], msg.id)
  <2>1. CASE msg \in net
    <3>1. msg \in Messages /\ Heard(conf[Home], msg.id)
      BY <1>5, <2>1 DEF Sides, NetOK
    <3>2. msg.id \in Ids
      BY <3>1 DEF Messages
    <3> QED BY <1>8, <3>1, <3>2, KeepsSteps
  <2>2. CASE msg \notin net
    <3>1. \E x \in {Receipt(m), Move(m)}, p \in Servers : msg = Relay(x, s, p)
      BY <1>1, <1>14, <2>2 DEF Broadcast
    <3>2. PICK x \in {Receipt(m), Move(m)}, p \in Servers : msg = Relay(x, s, p)
      BY <3>1
    <3>3. msg \in Messages /\ msg.id = x
      BY <1>4, <3>2 DEF Relay, Messages
    <3> QED BY <1>11, <3>2, <3>3
  <2> QED BY <2>1, <2>2
<1>15. net' \subseteq Messages /\ NetOK'
  BY <1>14 DEF NetOK
<1>16. minted' \in Seq(Ids)
  BY <1>1, <1>4, <1>5, AppendProperties DEF Sides
<1>17. Sides'
  BY <1>1, <1>5, <1>15, <1>16 DEF Sides
<1>18. InOrder(conf'[Home], s, << >>)
  <2>1. << >> \in Seq(StepsLeft)
    OBVIOUS
  <2> QED BY <2>1, ItemsOfEmpty DEF InOrder
<1>19. work' = [work EXCEPT ![s][t] = << >> \o Tail(work[s][t])]
  <2>1. << >> \o Tail(work[s][t]) = Tail(work[s][t])
    BY <1>2, ConcatEmptySeq DEF Rest
  <2> QED BY <1>1, <2>1
<1> QED BY <1>1, <1>2, <1>8, <1>13, <1>17, <1>18, <1>19, TaskSteps

\* One event of a catch-up.
LEMMA ReplayStep ==
  ASSUME TaskInv, NEW s \in Servers, NEW t \in Tasks, Replay(s, t)
  PROVE  TaskInv'
<1> DEFINE it == Head(work[s][t])
           rest == Tail(work[s][t])
           w == ApplyActEvent(s, it.id, it.peer)
<1>1. /\ work[s][t] # << >> /\ it.op = "replay"
      /\ \/ /\ Stored(s, Store(s))
            /\ \/ work' = [work EXCEPT ![s][t] = << >> \o rest]
               \/ work' = [work EXCEPT ![s][t] = <<Look(it)>> \o rest]
         \/ /\ Stored(s, w.st)
            /\ work' = [work EXCEPT ![s][t] = AfterReplay(s, it, w) \o rest]
      /\ keys' = keys /\ parked' = parked /\ routes' = routes /\ net' = net
      /\ minted' = minted /\ owed' = owed /\ faults' = faults
  <2> DEFINE unusable == conf[s][it.id] # "absent" \/ NotItsToCarry(s, it.id, it.peer)
             keyless == Signer(it.id) \notin keys[s]
             next == CASE unusable -> << >>
                       [] ~unusable /\ keyless /\ IsReceipt(it.id) -> <<Look(it)>>
                       [] ~unusable /\ keyless /\ ~IsReceipt(it.id) -> << >>
                       [] OTHER -> AfterReplay(s, it, w)
  <2>1. /\ work[s][t] # << >> /\ it.op = "replay"
        /\ Stored(s, IF unusable \/ keyless THEN Store(s) ELSE w.st)
        /\ work' = [work EXCEPT ![s][t] = next \o rest]
        /\ keys' = keys /\ parked' = parked /\ routes' = routes /\ net' = net
        /\ minted' = minted /\ owed' = owed /\ faults' = faults
    BY DEF Replay, Busy
  <2>2. /\ unusable \/ keyless => next = << >> \/ next = <<Look(it)>>
        /\ ~(unusable \/ keyless) => next = AfterReplay(s, it, w)
    <3> HIDE DEF unusable, keyless, it, w
    <3> QED BY DEF next
  <2> HIDE DEF unusable, keyless, next, it, rest, w
  <2> QED BY <2>1, <2>2
<1>2. /\ it \in StepsLeft /\ StepOK(conf[Home], s, it) /\ Rest(s, t, rest)
  BY <1>1, HeadStep
<1>3. it.id \in Ids /\ it.peer \in Servers /\ Heard(conf[Home], it.id)
  BY <1>1, <1>2 DEF StepOK, Handled
<1>4. StoreInv /\ Typed /\ Sides
  BY InvParts
<1>5. ASSUME StoreInv', Keeps(conf[Home], conf'[Home]), NEW new, InOrder(conf'[Home], s, new),
             work' = [work EXCEPT ![s][t] = new \o rest]
      PROVE  TaskInv'
  <2>1. ASSUME NEW msg \in net' PROVE Heard(conf'[Home], msg.id)
    <3>1. msg.id \in Ids /\ Heard(conf[Home], msg.id)
      BY <1>1, <1>4 DEF Sides, NetOK, Messages
    <3> QED BY <1>5, <3>1, KeepsSteps
  <2>2. Sides'
    BY <1>1, <1>4, <2>1 DEF Sides, NetOK
  <2> HIDE DEF rest
  <2> QED BY <1>1, <1>2, <1>5, <2>2, TaskSteps
<1>6. CASE Stored(s, Store(s)) /\ \/ work' = [work EXCEPT ![s][t] = << >> \o rest]
                                   \/ work' = [work EXCEPT ![s][t] = <<Look(it)>> \o rest]
  <2>1. StoreInv' /\ Keeps(conf[Home], conf'[Home])
    BY <1>4, <1>6, StoreAgain
  <2>2. Heard(conf'[Home], it.id)
    BY <1>3, <2>1, KeepsSteps
  <2>3. InOrder(conf'[Home], s, << >>) /\ InOrder(conf'[Home], s, <<Look(it)>>)
    BY <1>2, <1>3, <2>2, Leftovers, ShortQueues
  <2> HIDE DEF it, rest
  <2> QED BY <1>5, <1>6, <2>1, <2>3
<1>7. CASE Stored(s, w.st) /\ work' = [work EXCEPT ![s][t] = AfterReplay(s, it, w) \o rest]
  <2>1. Stored(s, w.st) /\ work' = [work EXCEPT ![s][t] = AfterReplay(s, it, w) \o rest]
    BY <1>7
  <2> HIDE DEF it
  <2>2. /\ StoreInv' /\ Keeps(conf[Home], conf'[Home])
        /\ w.out = "filed" => conf'[s][it.id] = "confirmed" /\ ~IsReceipt(it.id)
        /\ Heard(conf'[Home], it.id)
    BY <1>3, <1>4, <2>1, StoreStep
  <2> HIDE DEF w
  <2>3. InOrder(conf'[Home], s, AfterReplay(s, it, w))
    BY <1>2, <1>3, <2>2, AfterWrite
  <2> QED BY <1>5, <2>1, <2>2, <2>3
<1> QED BY <1>1, <1>6, <1>7

\* A replayed receipt that is to wait is looked at once more.
LEMMA ParkReplayedReceiptStep ==
  ASSUME TaskInv, NEW s \in Servers, NEW t \in Tasks, ParkReplayedReceipt(s, t)
  PROVE  TaskInv'
<1>1. PICK it \in StepsLeft : it = Head(work[s][t]) /\ work[s][t] # << >> /\ it.op = "look"
  BY HeadStep DEF ParkReplayedReceipt, Busy
<1>2. /\ StepOK(conf[Home], s, it) /\ Rest(s, t, Tail(work[s][t]))
  BY <1>1, HeadStep
<1>3. it.id \in Ids /\ it.peer \in Servers /\ Heard(conf[Home], it.id)
  BY <1>1, <1>2 DEF StepOK, Handled
<1>4. PICK on \in {Move(Opener), Signer(it.id)} :
        work' = [work EXCEPT ![s][t] = <<Park(it, on)>> \o Tail(work[s][t])]
  BY <1>1 DEF ParkReplayedReceipt
<1>5. parked' = parked /\ QueuesOnly
  BY DEF ParkReplayedReceipt, QueuesOnly
<1>6. on \in Ids \cup Authors \cup Servers
  BY <1>3, <1>4, IdFacts, TaskAssumption DEF Signer, Authors
<1>7. StoreInv' /\ Sides' /\ Keeps(conf[Home], conf'[Home]) /\ conf' = conf /\ keys' = keys
  BY <1>5, QueuesOnlyKeeps
<1>8. InOrder(conf'[Home], s, <<Park(it, on)>>)
  BY <1>3, <1>6, <1>7, Leftovers, ShortQueues
<1> QED BY <1>2, <1>4, <1>5, <1>7, <1>8, TaskSteps

\* A catch-up hands over what is on file, so what the home has given.
LEMMA CatchUpStep ==
  ASSUME TaskInv, NEW s \in Servers, NEW p \in Servers, CatchUp(s, p)
  PROVE  TaskInv'
<1> DEFINE held == {i \in DOMAIN minted :
                       conf[p][minted[i]] # "absent" /\ minted[i] # Move(Opener)}
           first == IF conf[p][Move(Opener)] # "absent" THEN <<Move(Opener)>> ELSE << >>
           ids == first \o Picked(minted, held)
           new == [i \in DOMAIN ids |-> Step("replay", ids[i], p, NoOne, TRUE)]
<1>1. /\ work[s]["proc"] = << >> /\ owed' = owed \ {<<s, p>>}
      /\ work' = [work EXCEPT ![s]["proc"] = new]
      /\ conf' = conf /\ row' = row /\ keys' = keys /\ parked' = parked /\ routes' = routes
      /\ net' = net /\ minted' = minted /\ faults' = faults /\ past' = past
  BY DEF CatchUp
<1>2. StoreInv /\ Sides /\ minted \in Seq(Ids)
  BY InvParts DEF Sides
<1>3. StoreInv' /\ Keeps(conf[Home], conf'[Home])
  BY <1>1, <1>2, StoreSame
<1>4. Sides'
  BY <1>1, <1>2 DEF Sides, NetOK
<1>5. /\ Picked(minted, held) \in Seq(Ids)
      /\ \A x \in Items(Picked(minted, held)) : conf[p][x] # "absent"
  <2>1. held \in SUBSET DOMAIN minted /\ \A i \in held : conf[p][minted[i]] # "absent"
    OBVIOUS
  <2> HIDE DEF held
  <2>2. Picked(minted, held) \in Seq(Ids) /\ Items(Picked(minted, held)) = {minted[i] : i \in held}
    BY <1>2, <2>1, PickedItems
  <2> QED BY <2>1, <2>2
<1>6. first \in Seq(Ids) /\ \A x \in Items(first) : conf[p][x] # "absent"
  <2>1. Move(Opener) \in Ids
    BY IdFacts, TaskAssumption
  <2>2. CASE conf[p][Move(Opener)] # "absent"
    <3>1. <<Move(Opener)>> \in Seq(Ids) /\ Items(<<Move(Opener)>>) = {Move(Opener)}
      BY <2>1, ItemsOfFew
    <3> QED BY <2>2, <3>1
  <2>3. CASE conf[p][Move(Opener)] = "absent"
    <3>1. first = << >> /\ << >> \in Seq(Ids)
      BY <2>3
    <3> QED BY <3>1, ItemsOfEmpty
  <2> QED BY <2>2, <2>3
<1> HIDE DEF first, held
<1>7. ids \in Seq(Ids) /\ \A x \in Items(ids) : conf[p][x] # "absent"
  <2>1. ids \in Seq(Ids) /\ Items(ids) = Items(first) \cup Items(Picked(minted, held))
    BY <1>5, <1>6, ItemsOfConcat
  <2> QED BY <1>5, <1>6, <2>1
<1> HIDE DEF ids
<1>8. /\ Len(ids) \in Nat /\ DOMAIN ids = 1 .. Len(ids) /\ \A i \in 1 .. Len(ids) : ids[i] \in Ids
  BY <1>7, LenProperties
<1>9. \A i \in 1 .. Len(ids) : Heard(conf[Home], ids[i])
  BY <1>2, <1>7, <1>8 DEF Items, StoreInv, LogsOK
<1>10. ASSUME NEW i \in 1 .. Len(ids)
       PROVE  /\ Step("replay", ids[i], p, NoOne, TRUE) \in StepsLeft
              /\ StepOK(conf[Home], s, Step("replay", ids[i], p, NoOne, TRUE))
  BY <1>8, <1>9 DEF Step, StepsLeft, StepOK, Handled
<1>11. new = [i \in 1 .. Len(ids) |-> Step("replay", ids[i], p, NoOne, TRUE)]
  BY <1>8
<1>12. new \in [1 .. Len(ids) -> StepsLeft]
  BY <1>10, <1>11
<1> HIDE DEF new
<1>13. new \in Seq(StepsLeft) /\ Len(new) = Len(ids)
  BY <1>8, <1>12, SeqDef, LenProperties
<1>14. InOrder(conf[Home], s, new)
  <2>1. \A i \in 1 .. Len(new) : StepOK(conf[Home], s, new[i])
    BY <1>10, <1>11, <1>13
  <2> QED BY <1>13, <2>1 DEF InOrder, Items
<1>15. new \o << >> = new
  BY <1>13, ConcatEmptySeq
<1>16. work' = [work EXCEPT ![s]["proc"] = new \o << >>]
  BY <1>1, <1>15
<1>17. Rest(s, "proc", << >>) /\ "proc" \in Tasks
  BY <1>1, IdleRest DEF Tasks
<1>18. InOrder(conf'[Home], s, new)
  BY <1>1, <1>14
<1> QED BY <1>1, <1>3, <1>4, <1>16, <1>17, <1>18, TaskSteps

\* A key lands, and a task is set to take out what waited for it.
LEMMA KeyLandsStep ==
  ASSUME TaskInv, NEW s \in Servers, NEW a \in Authors \cup {Home}, KeyLands(s, a)
  PROVE  TaskInv'
<1>1. /\ work[s]["lookup"] = << >>
      /\ keys' = [keys EXCEPT ![s] = @ \cup {a}]
      /\ work' = [work EXCEPT ![s]["lookup"] = <<TakeKey(a)>>]
      /\ conf' = conf /\ row' = row /\ parked' = parked /\ routes' = routes /\ net' = net
      /\ minted' = minted /\ owed' = owed /\ faults' = faults /\ past' = past
  BY DEF KeyLands
<1>2. /\ StoreInv /\ Sides /\ Home \in Servers
      /\ parked \in [Servers -> Seq(StepsLeft)] /\ ParkedOK(conf[Home], parked)
      /\ work \in [Servers -> [Tasks -> Seq(StepsLeft)]] /\ WorkOK(conf[Home], work)
      /\ Awaited(parked, keys, work)
      /\ keys \in [Servers -> SUBSET (Authors \cup Servers)]
  BY InvParts
<1>3. StoreInv' /\ Sides'
  <2>1. StoreInv'
    BY <1>1, <1>2, StoreSame
  <2>2. Sides'
    BY <1>1, <1>2 DEF Sides, NetOK
  <2> QED BY <2>1, <2>2
<1>4. TakeKey(a) \in StepsLeft /\ StepOK(conf[Home], s, TakeKey(a))
  BY <1>2, TaskAssumption DEF TakeKey, Step, StepsLeft, StepOK, Handled
<1>5. <<TakeKey(a)>> \in Seq(StepsLeft) /\ Items(<<TakeKey(a)>>) = {TakeKey(a)}
  BY <1>4, ItemsOfFew
<1>6. "lookup" \in Tasks
  BY DEF Tasks
<1>7. /\ work' \in [Servers -> [Tasks -> Seq(StepsLeft)]]
      /\ \A p \in Servers, u \in Tasks :
            work'[p][u] = IF p = s /\ u = "lookup" THEN <<TakeKey(a)>> ELSE work[p][u]
  BY <1>1, <1>2, <1>5, <1>6, OneQueue
<1>8. WorkOK(conf[Home], work')
  BY <1>2, <1>4, <1>5, <1>7 DEF WorkOK
<1>9. KeysKept(work, work')
  BY <1>1, <1>7, ItemsOfEmpty DEF KeysKept
<1>10. Awaited(parked, keys, work')
  BY <1>2, <1>9, KeepsAwaited
<1>11. keys' \in [Servers -> SUBSET (Authors \cup Servers)]
  BY <1>1, <1>2
<1>12. ASSUME NEW p \in Servers, NEW it \in Items(parked[p]), it.on \in keys'[p]
       PROVE  TakenSoon(work', p, it.on)
  <2>1. CASE it.on \in keys[p]
    BY <1>10, <2>1 DEF Awaited
  <2>2. CASE it.on \notin keys[p]
    <3>1. p = s /\ it.on = a
      BY <1>1, <1>2, <1>12, <2>2
    <3>2. TakeKey(a) \in Items(work'[s]["lookup"])
      BY <1>5, <1>6, <1>7
    <3> QED BY <1>6, <3>1, <3>2 DEF TakenSoon
  <2> QED BY <2>1, <2>2
<1>13. Awaited(parked', keys', work')
  BY <1>1, <1>12 DEF Awaited
<1>14. ParkedOK(conf'[Home], parked') /\ WorkOK(conf'[Home], work')
  BY <1>1, <1>2, <1>8
<1> QED BY <1>1, <1>2, <1>3, <1>7, <1>11, <1>13, <1>14, InvNext

\* A sender's own move.
LEMMA PostStep ==
  ASSUME TaskInv, NEW m \in Moves, Post(m)
  PROVE  TaskInv'
<1> DEFINE s == At[m]
           w == ApplyMove(s, m, s)
<1>1. /\ ~IsSystem(m) /\ work[s]["conn"] = << >> /\ w.out \in {"filed", "stored"}
      /\ Stored(s, w.st) /\ minted' = Append(minted, Move(m))
      /\ IF OwesReceipt(s, Move(m), w)
         THEN /\ work' = [work EXCEPT ![s]["conn"] = <<Mint(Move(m))>>]
              /\ net' = net /\ routes' = routes
         ELSE /\ net' = net \cup Broadcast(Move(m), s)
                            \cup (IF w.out = "stored" THEN {Ask(m, s)} ELSE {})
              /\ routes' = IF w.out = "stored"
                           THEN [routes EXCEPT ![s] = @ \cup {m}] ELSE routes
              /\ work' = work
      /\ keys' = keys /\ parked' = parked /\ owed' = owed /\ faults' = faults
  BY DEF Post
<1>2. /\ s \in Servers /\ Move(m) \in Ids /\ ~IsReceipt(Move(m)) /\ Move(m)[1] = m
  BY IdFacts, TaskAssumption
<1>3. StoreInv /\ Typed /\ Sides /\ Home \in Servers
  BY InvParts
<1>4. w = ApplyActEvent(s, Move(m), s)
  BY <1>2 DEF ApplyActEvent
<1>5. Heard(conf[Home], Move(m)) \/ (s = Home /\ w.out = "filed")
  <2>1. CASE m # Opener
    <3>1. Move(m) # Move(Opener)
      BY <2>1, IdFacts, TaskAssumption
    <3> QED BY <1>1, <1>2, <3>1 DEF Heard, SpeaksForHome
  <2>2. CASE m = Opener
    <3>1. s = Home
      BY <2>2, TaskAssumption
    <3>2. w.out \in {"duplicate", "filed"}
      BY <2>2 DEF ApplyMove, Write
    <3> QED BY <1>1, <3>1, <3>2
  <2> QED BY <2>1, <2>2
<1> HIDE DEF s, w
<1>6. /\ StoreInv' /\ Keeps(conf[Home], conf'[Home])
      /\ w.out = "filed" => conf'[s][Move(m)] = "confirmed"
      /\ Heard(conf'[Home], Move(m))
  <2>1. Stored(s, ApplyActEvent(s, Move(m), s).st)
    BY <1>1, <1>4
  <2>2. /\ StoreInv' /\ Keeps(conf[Home], conf'[Home])
        /\ ApplyActEvent(s, Move(m), s).out = "filed" => conf'[s][Move(m)] = "confirmed"
        /\ Heard(conf'[Home], Move(m))
    BY <1>2, <1>3, <1>4, <1>5, <2>1, StoreStep
  <2> QED BY <1>4, <2>2
<1>7. ASSUME NEW msg \in net' PROVE msg \in Messages /\ Heard(conf'[Home], msg.id)
  <2>1. CASE msg \in net
    <3>1. msg \in Messages /\ Heard(conf[Home], msg.id)
      BY <1>3, <2>1 DEF Sides, NetOK
    <3>2. msg.id \in Ids
      BY <3>1 DEF Messages
    <3> QED BY <1>6, <3>1, <3>2, KeepsSteps
  <2>2. CASE msg \notin net
    <3>1. (\E p \in Servers : msg = Relay(Move(m), s, p)) \/ msg = Ask(m, s)
      BY <1>1, <1>7, <2>2 DEF Broadcast
    <3>2. msg \in Messages /\ msg.id = Move(m)
      BY <1>2, <1>3, <3>1 DEF Relay, Ask, Messages
    <3> QED BY <1>6, <3>2
  <2> QED BY <2>1, <2>2
<1>8. net' \subseteq Messages /\ NetOK'
  BY <1>7 DEF NetOK
<1>9. minted' \in Seq(Ids)
  BY <1>1, <1>2, <1>3, AppendProperties DEF Sides
<1>10. routes' \in [Servers -> SUBSET Moves]
  BY <1>1, <1>2, <1>3 DEF Sides
<1>11. Sides'
  BY <1>1, <1>3, <1>8, <1>9, <1>10 DEF Sides
<1>12. CASE OwesReceipt(s, Move(m), w)
  <2>1. s = Home /\ w.out = "filed"
    BY <1>12 DEF OwesReceipt
  <2>2. Mint(Move(m)) \in StepsLeft /\ StepOK(conf'[Home], s, Mint(Move(m)))
    <3>1. Mint(Move(m)) \in StepsLeft /\ Mint(Move(m)).op = "mint" /\ Mint(Move(m)).id = Move(m)
      BY <1>2 DEF Mint, Step, StepsLeft
    <3> QED BY <1>2, <1>6, <2>1, <3>1 DEF StepOK, Handled
  <2>3. InOrder(conf'[Home], s, <<Mint(Move(m))>>)
    BY <2>2, ShortQueues
  <2>4. Rest(s, "conn", << >>) /\ "conn" \in Tasks
    BY <1>1, IdleRest DEF Tasks
  <2>5. <<Mint(Move(m))>> \o << >> = <<Mint(Move(m))>>
    BY <2>3, ConcatEmptySeq DEF InOrder
  <2>6. work' = [work EXCEPT ![s]["conn"] = <<Mint(Move(m))>> \o << >>]
    BY <1>1, <1>12, <2>5
  <2> QED BY <1>1, <1>2, <1>6, <1>11, <2>3, <2>4, <2>6, TaskSteps
<1>13. CASE ~OwesReceipt(s, Move(m), w)
  <2>1. work' = work
    BY <1>1, <1>13
  <2> QED BY <1>1, <1>6, <1>11, <2>1, QueuesSame
<1> QED BY <1>12, <1>13

\* A move of the home's own.
LEMMA SweepStep ==
  ASSUME TaskInv, NEW m \in Moves, Sweep(m)
  PROVE  TaskInv'
<1> DEFINE w == ApplyMove(Home, m, Home)
<1>1. /\ w.out = "filed" /\ Stored(Home, w.st) /\ minted' = Append(minted, Move(m))
      /\ net' = net \cup Broadcast(Move(m), Home)
      /\ keys' = keys /\ parked' = parked /\ work' = work /\ routes' = routes
      /\ owed' = owed /\ faults' = faults
  BY DEF Sweep
<1>2. Move(m) \in Ids /\ ~IsReceipt(Move(m)) /\ Move(m)[1] = m
  BY IdFacts
<1>3. StoreInv /\ Typed /\ Sides /\ Home \in Servers
  BY InvParts
<1>4. w = ApplyActEvent(Home, Move(m), Home)
  BY <1>2 DEF ApplyActEvent
<1> HIDE DEF w
<1>5. StoreInv' /\ Keeps(conf[Home], conf'[Home]) /\ Heard(conf'[Home], Move(m))
  BY <1>1, <1>2, <1>3, <1>4, StoreStep
<1>6. ASSUME NEW msg \in net' PROVE msg \in Messages /\ Heard(conf'[Home], msg.id)
  <2>1. CASE msg \in net
    <3>1. msg \in Messages /\ Heard(conf[Home], msg.id)
      BY <1>3, <2>1 DEF Sides, NetOK
    <3>2. msg.id \in Ids
      BY <3>1 DEF Messages
    <3> QED BY <1>5, <3>1, <3>2, KeepsSteps
  <2>2. CASE msg \notin net
    <3>1. \E p \in Servers : msg = Relay(Move(m), Home, p)
      BY <1>1, <1>6, <2>2 DEF Broadcast
    <3>2. msg \in Messages /\ msg.id = Move(m)
      BY <1>2, <1>3, <3>1 DEF Relay, Messages
    <3> QED BY <1>5, <3>2
  <2> QED BY <2>1, <2>2
<1>7. net' \subseteq Messages /\ NetOK'
  BY <1>6 DEF NetOK
<1>8. minted' \in Seq(Ids)
  BY <1>1, <1>2, <1>3, AppendProperties DEF Sides
<1>9. Sides'
  BY <1>1, <1>3, <1>7, <1>8 DEF Sides
<1> QED BY <1>1, <1>5, <1>9, QueuesSame

\* What waited too long leaves the queue.
LEMMA TaskWaitOverdueStep ==
  ASSUME TaskInv, NEW s \in Servers, TaskWaitOverdue(s)
  PROVE  TaskInv'
<1> DEFINE I == DOMAIN parked[s] \
                    {i \in DOMAIN parked[s] :
                        parked[s][i].on = Move(Opener) /\ ~IsReceipt(parked[s][i].id)}
<1>1. /\ parked' = [parked EXCEPT ![s] = Picked(@, I)] /\ I \in SUBSET DOMAIN parked[s]
      /\ work' = work /\ QueuesOnly
  BY DEF TaskWaitOverdue, QueuesOnly
<1> HIDE DEF I
<1>2. /\ parked' \in [Servers -> Seq(StepsLeft)]
      /\ \A p \in Servers : Items(parked'[p]) \subseteq Items(parked[p])
  BY <1>1, QueueLess
<1>3. /\ StoreInv' /\ Sides' /\ conf' = conf /\ keys' = keys
  BY <1>1, QueuesOnlyKeeps
<1>4. /\ ParkedOK(conf[Home], parked) /\ WorkOK(conf[Home], work)
      /\ work \in [Servers -> [Tasks -> Seq(StepsLeft)]]
      /\ keys \in [Servers -> SUBSET (Authors \cup Servers)]
      /\ Awaited(parked, keys, work)
  BY InvParts
<1>5. ParkedOK(conf'[Home], parked') /\ WorkOK(conf'[Home], work')
  BY <1>1, <1>2, <1>3, <1>4 DEF ParkedOK
<1>6. Awaited(parked', keys', work')
  BY <1>1, <1>2, <1>3, <1>4 DEF Awaited
<1> QED BY <1>1, <1>2, <1>3, <1>4, <1>5, <1>6, InvNext

\* The home is asked again about what a server holds unconfirmed: such a move
\* is on file there, so one of the home's own has been given.
LEMMA FlushRouteStep ==
  ASSUME TaskInv, NEW s \in Servers, NEW m \in Moves, FlushRoute(s, m)
  PROVE  TaskInv'
<1>1. /\ \/ routes' = routes
         \/ routes' = [routes EXCEPT ![s] = @ \ {m}]
      /\ \/ net' = net
         \/ net' = net \cup {Ask(m, s)} /\ conf[s][Move(m)] = "unconfirmed"
      /\ conf' = conf /\ row' = row /\ past' = past
      /\ keys' = keys /\ parked' = parked /\ work' = work
      /\ minted' = minted /\ owed' = owed /\ faults' = faults
  BY DEF FlushRoute
<1>2. StoreInv /\ Sides /\ Home \in Servers
  BY InvParts
<1>3. StoreInv' /\ Keeps(conf[Home], conf'[Home])
  BY <1>1, <1>2, StoreSame
<1>4. routes \in [Servers -> SUBSET Moves]
  BY <1>2 DEF Sides
<1>5. ASSUME NEW msg \in net' PROVE msg \in Messages /\ Heard(conf[Home], msg.id)
  <2>1. CASE msg \in net
    BY <1>2, <2>1 DEF Sides, NetOK
  <2>2. CASE msg \notin net
    <3>1. msg = Ask(m, s)
      BY <1>1, <1>5, <2>2
    <3>2. conf[s][Move(m)] # "absent" /\ Move(m) \in Ids
      BY <1>1, <1>5, <2>2, IdFacts
    <3>3. Heard(conf[Home], Move(m))
      BY <1>2, <3>2 DEF StoreInv, LogsOK
    <3>4. msg \in Messages /\ msg.id = Move(m)
      BY <1>2, <3>1, <3>2 DEF Ask, Messages
    <3> QED BY <3>3, <3>4
  <2> QED BY <2>1, <2>2
<1>6. net' \subseteq Messages /\ NetOK'
  BY <1>1, <1>5 DEF NetOK
<1>7. routes' \in [Servers -> SUBSET Moves]
  BY <1>1, <1>4
<1>8. Sides'
  BY <1>1, <1>2, <1>6, <1>7 DEF Sides
<1> QED BY <1>1, <1>3, <1>8, QueuesSame

\* A message is lost.
LEMMA LoseStep ==
  ASSUME TaskInv, NEW msg \in net, Lose(msg)
  PROVE  TaskInv'
<1>1. /\ faults < MaxFaults /\ faults' = faults + 1 /\ net' = net \ {msg}
      /\ conf' = conf /\ row' = row /\ past' = past
      /\ keys' = keys /\ parked' = parked /\ work' = work /\ routes' = routes
      /\ minted' = minted /\ owed' = owed
  BY DEF Lose
<1>2. StoreInv /\ Sides
  BY InvParts
<1>3. StoreInv' /\ Keeps(conf[Home], conf'[Home])
  BY <1>1, <1>2, StoreSame
<1>4. faults' \in 0..MaxFaults
  BY <1>1, <1>2, TaskAssumption DEF Sides
<1>5. Sides'
  BY <1>1, <1>2, <1>4 DEF Sides, NetOK
<1> QED BY <1>1, <1>3, <1>5, QueuesSame

\* A server restarts with empty queues.
LEMMA RestartStep ==
  ASSUME TaskInv, NEW s \in Servers, Restart(s)
  PROVE  TaskInv'
<1>1. /\ faults < MaxFaults /\ faults' = faults + 1
      /\ parked' = [parked EXCEPT ![s] = << >>]
      /\ work' = [work EXCEPT ![s] = [t \in Tasks |-> << >>]]
      /\ routes' = [routes EXCEPT ![s] = {}]
      /\ net' = {msg \in net : msg.from # s /\ msg.to # s}
      /\ owed' = owed \cup {<<s, p>> : p \in Servers \ {s}}
                      \cup {<<p, s>> : p \in Servers \ {s}}
      /\ conf' = conf /\ row' = row /\ past' = past /\ keys' = keys /\ minted' = minted
  BY DEF Restart
<1>2. /\ StoreInv /\ Sides
      /\ ParkedOK(conf[Home], parked) /\ WorkOK(conf[Home], work)
      /\ Awaited(parked, keys, work)
      /\ keys \in [Servers -> SUBSET (Authors \cup Servers)]
      /\ parked \in [Servers -> Seq(StepsLeft)]
      /\ work \in [Servers -> [Tasks -> Seq(StepsLeft)]]
  BY InvParts
<1>3. StoreInv'
  BY <1>1, <1>2, StoreSame
<1>4. faults' \in 0..MaxFaults
  BY <1>1, <1>2, TaskAssumption DEF Sides
<1>5. owed' \subseteq Servers \X Servers
  BY <1>1, <1>2 DEF Sides
<1>6. net' \subseteq Messages /\ NetOK'
  BY <1>1, <1>2 DEF Sides, NetOK
<1>7. routes' \in [Servers -> SUBSET Moves]
  BY <1>1, <1>2 DEF Sides
<1>8. Sides'
  BY <1>1, <1>2, <1>4, <1>5, <1>6, <1>7 DEF Sides
<1>9. << >> \in Seq(StepsLeft)
  OBVIOUS
<1>10. /\ parked' \in [Servers -> Seq(StepsLeft)]
       /\ \A p \in Servers : parked'[p] = IF p = s THEN << >> ELSE parked[p]
  BY <1>1, <1>2, <1>9
<1>11. /\ work' \in [Servers -> [Tasks -> Seq(StepsLeft)]]
       /\ \A p \in Servers, t \in Tasks : work'[p][t] = IF p = s THEN << >> ELSE work[p][t]
  <2> DEFINE f == [t \in Tasks |-> << >>]
             S == Seq(StepsLeft)
  <2>1. f \in [Tasks -> S] /\ \A t \in Tasks : f[t] = << >>
    BY <1>9
  <2>2. work' = [work EXCEPT ![s] = f] /\ work \in [Servers -> [Tasks -> S]]
    BY <1>1, <1>2
  <2> HIDE DEF f, S
  <2>3. /\ work' \in [Servers -> [Tasks -> S]]
        /\ \A p \in Servers : work'[p] = IF p = s THEN f ELSE work[p]
    BY <2>1, <2>2
  <2> QED BY <2>1, <2>3 DEF S
<1>12. ParkedOK(conf'[Home], parked')
  BY <1>1, <1>2, <1>10, ItemsOfEmpty DEF ParkedOK
<1>13. WorkOK(conf'[Home], work')
  BY <1>1, <1>2, <1>11, ItemsOfEmpty DEF WorkOK
<1>14. ASSUME NEW p \in Servers, NEW it \in Items(parked'[p]), it.on \in keys[p]
       PROVE  TakenSoon(work', p, it.on)
  <2>1. p # s /\ it \in Items(parked[p])
    BY <1>10, <1>14, ItemsOfEmpty
  <2>2. TakenSoon(work, p, it.on)
    BY <1>2, <1>14, <2>1 DEF Awaited
  <2> QED BY <1>11, <2>1, <2>2 DEF TakenSoon
<1>15. Awaited(parked', keys', work')
  BY <1>1, <1>14 DEF Awaited
<1> QED BY <1>1, <1>2, <1>3, <1>8, <1>10, <1>11, <1>12, <1>13, <1>15, InvNext

\* The initial state satisfies the invariant.
LEMMA TaskInit ==
  ASSUME Init PROVE TaskInv
<1>1. Home \in Servers /\ Opener \in Moves /\ Move(Opener) \in Ids
  BY IdFacts, TaskAssumption
<1>2. /\ \A s \in Servers, id \in Ids : conf[s][id] = "absent"
      /\ \A s \in Servers : parked[s] = << >>
      /\ \A s \in Servers, t \in Tasks : work[s][t] = << >>
      /\ net = {}
  BY DEF Init
<1>3. << >> \in Seq(StepsLeft) /\ << >> \in Seq(Ids)
  OBVIOUS
<1>4. NoRow \in Rows
  BY DEF NoRow, Rows
<1>5. Typed
  BY <1>3, <1>4, TaskAssumption DEF Init, Typed, ConfirmStates
<1>6. Ended
  BY <1>1, <1>2 DEF Ended, EndedBy
<1>7. StepsOK /\ KeysAwaited
  BY <1>2, ItemsOfEmpty DEF StepsOK, ParkedOK, WorkOK, KeysAwaited, Awaited
<1>8. NetOK /\ LogsOK
  BY <1>1, <1>2, IdFacts DEF NetOK, LogsOK
<1>9. FollowersOnlyFollow
  BY <1>2, IdFacts DEF FollowersOnlyFollow
<1> QED BY <1>5, <1>6, <1>7, <1>8, <1>9 DEF TaskInv

\* Every step, and every stutter, preserves the invariant.
LEMMA TaskStepKeeps ==
  ASSUME TaskInv, [Next]_vars
  PROVE  TaskInv'
<1>1. CASE Next
  <2>1. \/ \E m \in Moves : Post(m) \/ Sweep(m)
        \/ \E msg \in net : Receive(msg) \/ Lose(msg)
        \/ \E s \in Servers, t \in Tasks : TaskStep(s, t)
        \/ \E s, p \in Servers : CatchUp(s, p)
        \/ \E s \in Servers : \E a \in Authors \cup {Home} : KeyLands(s, a)
        \/ \E s \in Servers, m \in Moves : FlushRoute(s, m)
        \/ \E s \in Servers : TaskWaitOverdue(s) \/ Restart(s)
    BY <1>1 DEF Next, Progress
  <2>2. ASSUME NEW m \in Moves, Post(m) \/ Sweep(m) PROVE TaskInv'
    BY <2>2, PostStep, SweepStep
  <2>3. ASSUME NEW msg \in net, Receive(msg) \/ Lose(msg) PROVE TaskInv'
    BY <2>3, ReceiveStep, LoseStep
  <2>4. ASSUME NEW s \in Servers, NEW t \in Tasks, TaskStep(s, t) PROVE TaskInv'
    BY <2>4, JudgeParkedStep, ParkItStep, ReleaseItStep, TakeForKeyStep, MintReceiptStep, ReplayStep,
       ParkReplayedReceiptStep
    DEF TaskStep
  <2>5. ASSUME NEW s \in Servers, NEW p \in Servers, CatchUp(s, p) PROVE TaskInv'
    BY <2>5, CatchUpStep
  <2>6. ASSUME NEW s \in Servers, NEW a \in Authors \cup {Home}, KeyLands(s, a) PROVE TaskInv'
    BY <2>6, KeyLandsStep
  <2>7. ASSUME NEW s \in Servers, TaskWaitOverdue(s) \/ Restart(s) PROVE TaskInv'
    BY <2>7, TaskWaitOverdueStep, RestartStep
  <2>8. ASSUME NEW s \in Servers, NEW m \in Moves, FlushRoute(s, m) PROVE TaskInv'
    BY <2>8, FlushRouteStep
  <2> QED BY <2>1, <2>2, <2>3, <2>4, <2>5, <2>6, <2>7, <2>8
<1>2. CASE UNCHANGED vars
  <2>1. /\ conf' = conf /\ row' = row /\ past' = past /\ keys' = keys /\ parked' = parked
        /\ work' = work /\ routes' = routes /\ net' = net /\ minted' = minted
        /\ owed' = owed /\ faults' = faults
    BY <1>2 DEF vars
  <2>2. StoreInv /\ Sides
    BY InvParts
  <2>3. StoreInv' /\ Keeps(conf[Home], conf'[Home])
    BY <2>1, <2>2, StoreSame
  <2>4. Sides'
    BY <2>1, <2>2 DEF Sides, NetOK
  <2> QED BY <2>1, <2>3, <2>4, QueuesSame
<1> QED BY <1>1, <1>2

\* The invariant holds in every state of every behaviour.
LEMMA TaskInvariant == Spec => []TaskInv
  BY TaskInit, TaskStepKeeps, PTL DEF Spec

-------------------------------------------------------------------------------
(***************************************************************************)
(* Theorems.                                                               *)
(***************************************************************************)

\* Logs, views, queues, messages and routes hold what db.rs and server.rs put
\* there, whatever is lost and whoever restarts.
THEOREM TaskTypeCorrect == Spec => []TypeOK
<1>1. TaskInv => TypeOK
  BY DEF TaskInv, Typed, TypeOK
<1> QED BY <1>1, TaskInvariant, PTL

\* No server but the home decides a race: a participant's move that changes
\* the task is applied elsewhere only if the home has applied it, for every
\* number of servers and every schedule of losses, restarts and catch-ups
\* (db.rs `apply_act_event`).
THEOREM OnlyTheHomeDecides == Spec => []FollowersOnlyFollow
<1>1. TaskInv => FollowersOnlyFollow
  BY DEF TaskInv
<1> QED BY <1>1, TaskInvariant, PTL

\* An event held for a key that is here is about to be taken out: the key may
\* land at any point between the look and the hold (server.rs `park_for_key`).
THEOREM KeyNeverLost == Spec => []NoLostKey
<1>1. TaskInv => NoLostKey
  <2> SUFFICES ASSUME TaskInv, NEW s \in Servers, NEW i \in DOMAIN parked[s],
                      parked[s][i].on \in keys[s]
               PROVE  \E t \in Tasks : \E j \in DOMAIN work[s][t] :
                          work[s][t][j] = TakeKey(parked[s][i].on)
    BY DEF NoLostKey
  <2>1. /\ parked \in [Servers -> Seq(StepsLeft)]
        /\ work \in [Servers -> [Tasks -> Seq(StepsLeft)]]
        /\ Awaited(parked, keys, work)
    BY InvParts
  <2>2. DOMAIN parked[s] = 1 .. Len(parked[s])
    BY <2>1, LenProperties
  <2>3. parked[s][i] \in Items(parked[s])
    BY <2>2 DEF Items
  <2>4. PICK t \in Tasks : TakeKey(parked[s][i].on) \in Items(work[s][t])
    BY <2>1, <2>3 DEF Awaited, TakenSoon
  <2>5. DOMAIN work[s][t] = 1 .. Len(work[s][t])
    BY <2>1, LenProperties
  <2> QED BY <2>4, <2>5 DEF Items
<1> QED BY <1>1, TaskInvariant, PTL

-------------------------------------------------------------------------------
(***************************************************************************)
(* The refinement of TaskReferee.                                          *)
(*                                                                         *)
(* Receipts reach a server in any order, so its log is no prefix of the    *)
(* home's; that it shows nothing the home never had rests on what the      *)
(* confirmed moves determine.  One of them assigns the work, one ends it,  *)
(* and each of the others lands in one state: so whatever subset of the    *)
(* home's moves a server has applied, its row is a landing state with the  *)
(* one assignee, the row the opener left, or the one end.  The home has    *)
(* had all of these.                                                       *)
(***************************************************************************)

\* A move that ends the task, one that hands out the work, and one that takes
\* the task to state x from elsewhere.
Ends(m) == \E q \in Transitions[Kind] : q.verb = Verb[m] /\ q.to \in Terminal[Kind]
Assigns(m) ==
    \E q \in Transitions[Kind] :
        q.verb = Verb[m] /\ q.to = "assigned" /\ q.from \subseteq {"offered", "open"}
LandsIn(m, x) ==
    \E q \in Transitions[Kind] :
        q.verb = Verb[m] /\ q.to = x /\ x \notin Terminal[Kind] /\ q.from # {x}
EndOf(m) == [state |-> EndsIn[m], assignee |-> NoOne]

\* Row r is what the confirmed moves C make of the task, in whatever order.
Unassigned(C, r) ==
    r = Opened /\ \A m \in C, x \in NonTerminal[Kind] : ~LandsIn(m, x)
AssignedBy(C, r) ==
    /\ \E n \in C : Assigns(n) /\ r.assignee = AssigneeOf(n)
    /\ r.state \in NonTerminal[Kind] /\ \E m \in C : LandsIn(m, r.state)
Consistent(C, r) ==
    /\ Opener \notin C => C = {} /\ r = NoRow
    /\ r = NoRow /\ Opener \in C => \E m \in C : Ends(m)
    /\ r # NoRow => /\ \A m \in C : ~Ends(m)
                    /\ IF r.assignee = NoOne THEN Unassigned(C, r) ELSE AssignedBy(C, r)
    /\ \A m, n \in C : Ends(m) /\ Ends(n) => m = n
    /\ \A m, n \in C : Assigns(m) /\ Assigns(n) => m = n

\* The home's past P holds every row its confirmed moves C can be read as.
OnRecord(C, r, P) ==
    /\ NoRow \in P
    /\ Opener \in C => Opened \in P
    /\ r # NoRow => r \in P
    /\ \A m \in C : Ends(m) => EndOf(m) \in P
    /\ \A m, n \in C, x \in NonTerminal[Kind] :
        LandsIn(m, x) /\ Assigns(n) => [state |-> x, assignee |-> AssigneeOf(n)] \in P

ViewInv ==
    /\ \A s \in Servers : OpenerOK(conf[s]) /\ Consistent(Confirmed(conf[s]), row[s])
    /\ OnRecord(Confirmed(conf[Home]), row[Home], past)

\* The rows of a table: those that end the task, those that leave it where it
\* is, those that hand out the work and those that move it on afterwards.
EndRow(q) == q.to \in Terminal[Kind]
AdditiveRow(q) == q.from = {q.to} /\ q.to \in NonTerminal[Kind]
AssignRow(q) == q.to = "assigned" /\ q.from \subseteq {"offered", "open"}
OnwardRow(q) == q.to \in NonTerminal[Kind] /\ q.from \cap {"offered", "open"} = {}
LEMMA RowKinds ==
  /\ \A q \in Transitions[Kind] :
        /\ EndRow(q) \/ AdditiveRow(q) \/ AssignRow(q) \/ OnwardRow(q)
        /\ q.from # {} /\ q.from \subseteq NonTerminal[Kind]
        /\ q.to \in {"offered", "open"} => AdditiveRow(q)
  /\ Terminal[Kind] \cap NonTerminal[Kind] = {} /\ "assigned" \in NonTerminal[Kind]
  /\ Opened.state \in {"offered", "open"} /\ Opened.state \in NonTerminal[Kind]
  /\ Opened.assignee = NoOne /\ Opened # NoRow
<1>1. CASE Kind = "handoff"
  <2>1. \A q \in Transitions[Kind] :
        /\ EndRow(q) \/ AdditiveRow(q) \/ AssignRow(q) \/ OnwardRow(q)
        /\ q.from # {} /\ q.from \subseteq NonTerminal[Kind]
        /\ q.to \in {"offered", "open"} => AdditiveRow(q)
    BY <1>1 DEF Transitions, HandoffRows, Row, Terminal, NonTerminal, EndRow, AdditiveRow,
       AssignRow, OnwardRow
  <2>2. Terminal[Kind] \cap NonTerminal[Kind] = {} /\ "assigned" \in NonTerminal[Kind]
    BY <1>1 DEF Terminal, NonTerminal
  <2>3. Opened.state \in {"offered", "open"}
    BY <1>1 DEF Opened, CheckOpen
  <2>4. {"offered", "open"} \subseteq NonTerminal[Kind]
    BY <1>1 DEF NonTerminal
  <2> QED BY <2>1, <2>2, <2>3, <2>4 DEF Opened, NoRow
<1>2. CASE Kind = "bounty"
  <2>1. \A q \in Transitions[Kind] :
        /\ EndRow(q) \/ AdditiveRow(q) \/ AssignRow(q) \/ OnwardRow(q)
        /\ q.from # {} /\ q.from \subseteq NonTerminal[Kind]
        /\ q.to \in {"offered", "open"} => AdditiveRow(q)
    BY <1>2 DEF Transitions, BountyRows, Row, Terminal, NonTerminal, EndRow, AdditiveRow,
       AssignRow, OnwardRow
  <2>2. Terminal[Kind] \cap NonTerminal[Kind] = {} /\ "assigned" \in NonTerminal[Kind]
    BY <1>2 DEF Terminal, NonTerminal
  <2>3. Opened.state = "open"
    BY <1>2, TaskAssumption DEF Opened, CheckOpen
  <2>4. "open" \in NonTerminal[Kind]
    BY <1>2 DEF NonTerminal
  <2> QED BY <2>1, <2>2, <2>3, <2>4 DEF Opened, NoRow
<1> QED BY <1>1, <1>2, TaskAssumption

\* What a move is, by its one row.
LEMMA MoveKinds ==
  ASSUME NEW m \in Moves, NEW q \in Transitions[Kind], q.verb = Verb[m]
  PROVE  /\ Ends(m) <=> EndRow(q)
         /\ Assigns(m) <=> AssignRow(q)
         /\ \A x : LandsIn(m, x) <=> x = q.to /\ ~EndRow(q) /\ q.from # {q.to}
         /\ EndRow(q) => EndsIn[m] = q.to
<1>1. \A r \in Transitions[Kind] : r.verb = Verb[m] => r = q
  BY OneRow
<1>2. EndRow(q) => EndsIn[m] = q.to
  BY <1>1 DEF EndsIn, EndRow, IsTerminal
<1> QED BY <1>1, <1>2 DEF Ends, EndRow, Assigns, AssignRow, LandsIn

\* The opener does none of this.
LEMMA OpenerKind == ~Ends(Opener) /\ ~Assigns(Opener) /\ \A x : ~LandsIn(Opener, x)
  BY TaskAssumption DEF Ends, Assigns, LandsIn

\* Whom a move along the table hands the work to is somebody.
LEMMA AssigneeIsSomeone ==
  ASSUME NEW m \in Moves, NEW q \in Transitions[Kind], q.verb = Verb[m],
         q.picks => Accepts[m] \in Moves
  PROVE  AssigneeOf(m) # NoOne
<1>1. \A r \in Transitions[Kind] : r.verb = Verb[m] => r = q
  BY OneRow
<1>2. AssigneeOf(m) \in Authors
  BY <1>1 DEF AssigneeOf, Authors
<1> QED BY <1>2, TaskAssumption

\* A step along the table, by the kind of the row.
Finishes(m, r2) == Ends(m) /\ r2 = NoRow
Adds(m, r, r2) == r2 = r /\ r # NoRow /\ ~Ends(m) /\ ~Assigns(m) /\ \A x : ~LandsIn(m, x)
HandsOut(m, r, r2) ==
    /\ Assigns(m) /\ ~Ends(m) /\ r.assignee = NoOne
    /\ \A x : LandsIn(m, x) <=> x = "assigned"
    /\ r2 = [state |-> "assigned", assignee |-> AssigneeOf(m)] /\ AssigneeOf(m) # NoOne
MovesOn(m, r, r2) ==
    /\ ~Assigns(m) /\ ~Ends(m) /\ r.assignee # NoOne
    /\ \E x \in NonTerminal[Kind] :
        /\ LandsIn(m, x) /\ (\A y : LandsIn(m, y) => y = x)
        /\ r2 = [state |-> x, assignee |-> r.assignee]
LEMMA AlongKinds ==
  ASSUME NEW C \in SUBSET Moves, NEW r \in Rows, Consistent(C, r), r # NoRow,
         NEW m \in Moves, NEW r2, Along(m, r, r2)
  PROVE  Finishes(m, r2) \/ Adds(m, r, r2) \/ HandsOut(m, r, r2) \/ MovesOn(m, r, r2)
<1>1. PICK q \in Transitions[Kind] :
        /\ q.verb = Verb[m] /\ r.state \in q.from
        /\ q.picks => Accepts[m] \in Moves
        /\ r2 = IF q.to \in Terminal[Kind] THEN NoRow
                ELSE [state |-> q.to,
                      assignee |-> IF r.assignee = NoOne /\ q.to = "assigned"
                                   THEN AssigneeOf(m) ELSE r.assignee]
  BY DEF Along
<1>2. /\ Ends(m) <=> EndRow(q)
      /\ Assigns(m) <=> AssignRow(q)
      /\ \A x : LandsIn(m, x) <=> x = q.to /\ ~EndRow(q) /\ q.from # {q.to}
  BY <1>1, MoveKinds
<1>3. AssigneeOf(m) # NoOne
  BY <1>1, AssigneeIsSomeone
<1>4. r = [state |-> r.state, assignee |-> r.assignee]
  BY DEF Rows
<1>5. r.assignee = NoOne <=> r.state \in {"offered", "open"}
  <2>1. CASE r.assignee = NoOne
    BY <2>1, RowKinds DEF Consistent, Unassigned
  <2>2. CASE r.assignee # NoOne
    <3>1. PICK n \in C : LandsIn(n, r.state)
      BY <2>2 DEF Consistent, AssignedBy
    <3>2. PICK p \in Transitions[Kind] : p.to = r.state /\ p.from # {r.state}
      BY <3>1 DEF LandsIn
    <3> QED BY <2>2, <3>2, RowKinds DEF AdditiveRow
  <2> QED BY <2>1, <2>2
<1>6. CASE EndRow(q)
  BY <1>1, <1>2, <1>6 DEF Finishes, EndRow
<1>7. CASE ~EndRow(q) /\ AdditiveRow(q)
  <2>1. r.state = q.to /\ r.state \in NonTerminal[Kind]
    BY <1>1, <1>7 DEF AdditiveRow
  <2>2. ~AssignRow(q)
    BY <1>7, RowKinds DEF AdditiveRow, AssignRow
  <2>3. r.assignee = NoOne => q.to # "assigned"
    BY <1>5, <2>1
  <2>4. r2 = r
    BY <1>1, <1>4, <1>7, <2>1, <2>3 DEF EndRow
  <2> QED BY <1>2, <1>7, <2>2, <2>4 DEF Adds, AdditiveRow
<1>8. CASE ~EndRow(q) /\ AssignRow(q)
  <2>1. r.assignee = NoOne /\ q.to = "assigned" /\ q.from # {"assigned"}
    BY <1>1, <1>5, <1>8 DEF AssignRow
  <2> QED BY <1>1, <1>2, <1>3, <1>8, <2>1 DEF HandsOut, EndRow
<1>9. CASE ~EndRow(q) /\ ~AdditiveRow(q) /\ ~AssignRow(q)
  <2>1. OnwardRow(q)
    BY <1>9, RowKinds
  <2>2. r.assignee # NoOne /\ q.to \in NonTerminal[Kind] /\ q.from # {q.to}
    BY <1>1, <1>5, <1>9, <2>1 DEF OnwardRow, AdditiveRow
  <2>3. r2 = [state |-> q.to, assignee |-> r.assignee]
    BY <1>1, <1>9, <2>2 DEF EndRow
  <2> QED BY <1>2, <1>9, <2>2, <2>3 DEF MovesOn
<1> QED BY <1>6, <1>7, <1>8, <1>9

\* A write leaves the row what the confirmed moves make of it.
LEMMA StaysConsistent ==
  ASSUME NEW C \in SUBSET Moves, NEW r \in Rows, Consistent(C, r),
         NEW D, NEW r2, Writes(C, r, D, r2)
  PROVE  Consistent(D, r2)
<1>1. CASE D = C /\ r2 = r
  BY <1>1
<1>2. CASE Opener \notin C /\ D = C \cup {Opener} /\ r2 = Opened
  <2>1. D = {Opener} /\ r2 = Opened /\ r2 # NoRow /\ r2.assignee = NoOne
    BY <1>2, RowKinds DEF Consistent
  <2> QED BY <2>1, OpenerKind DEF Consistent, Unassigned
<1>3. ASSUME NEW m \in Moves \ (C \cup {Opener}),
             r # NoRow, D = C \cup {m}, Along(m, r, r2)
      PROVE  Consistent(D, r2)
  <2>1. Opener \in C /\ Opener \in D /\ \A n \in C : ~Ends(n)
    BY <1>3 DEF Consistent
  <2>2. CASE Finishes(m, r2)
    <3>1. \A n, p \in D : Assigns(n) /\ Assigns(p) => n = p
      <4>1. ~Assigns(m)
        <5>1. PICK q \in Transitions[Kind] : q.verb = Verb[m] /\ q.to \in Terminal[Kind]
          BY <2>2 DEF Finishes, Ends
        <5>2. Assigns(m) <=> AssignRow(q)
          BY <5>1, MoveKinds
        <5> QED BY <5>1, <5>2, RowKinds DEF AssignRow
      <4> QED BY <1>3, <4>1 DEF Consistent
    <3> QED BY <1>3, <2>1, <2>2, <3>1 DEF Finishes, Consistent
  <2>3. CASE Adds(m, r, r2)
    <3>1. \A n, p \in D : Ends(n) /\ Ends(p) => n = p
      BY <1>3, <2>1, <2>3 DEF Adds
    <3>2. \A n, p \in D : Assigns(n) /\ Assigns(p) => n = p
      BY <1>3, <2>3 DEF Adds, Consistent
    <3>3. CASE r.assignee = NoOne
      <4>1. Unassigned(C, r)
        BY <1>3, <3>3 DEF Consistent
      <4>2. Unassigned(D, r2)
        BY <1>3, <2>3, <4>1 DEF Adds, Unassigned
      <4> QED BY <1>3, <2>1, <2>3, <3>1, <3>2, <3>3, <4>2 DEF Adds, Consistent
    <3>4. CASE r.assignee # NoOne
      <4>1. AssignedBy(C, r)
        BY <1>3, <3>4 DEF Consistent
      <4>2. AssignedBy(D, r2)
        BY <1>3, <2>3, <4>1 DEF Adds, AssignedBy
      <4> QED BY <1>3, <2>1, <2>3, <3>1, <3>2, <3>4, <4>2 DEF Adds, Consistent
    <3> QED BY <3>3, <3>4
  <2>4. CASE HandsOut(m, r, r2)
    <3>1. r2.assignee = AssigneeOf(m) /\ r2.state = "assigned" /\ r2 # NoRow /\ r2.assignee # NoOne
      BY <2>4 DEF HandsOut, NoRow
    <3>2. \A n \in C : ~Assigns(n)
      <4> SUFFICES ASSUME NEW n \in C, Assigns(n) PROVE FALSE
        OBVIOUS
      <4>1. Unassigned(C, r)
        BY <1>3, <2>4 DEF Consistent, HandsOut
      <4>2. PICK q \in Transitions[Kind] : q.verb = Verb[n] /\ q.to = "assigned"
                                           /\ q.from \subseteq {"offered", "open"}
        BY DEF Assigns
      <4>3. q.from # {"assigned"} /\ "assigned" \notin Terminal[Kind]
        BY <4>2, RowKinds
      <4>4. LandsIn(n, "assigned")
        BY <4>2, <4>3 DEF LandsIn
      <4> QED BY <4>1, <4>4, RowKinds DEF Unassigned
    <3>3. AssignedBy(D, r2)
      BY <1>3, <2>4, <3>1, RowKinds DEF AssignedBy, HandsOut
    <3>4. \A n, p \in D : Assigns(n) /\ Assigns(p) => n = p
      BY <1>3, <3>2
    <3>5. \A n \in D : ~Ends(n)
      BY <1>3, <2>1, <2>4 DEF HandsOut
    <3> QED BY <2>1, <3>1, <3>3, <3>4, <3>5 DEF Consistent
  <2>5. CASE MovesOn(m, r, r2)
    <3>1. PICK x \in NonTerminal[Kind] :
            LandsIn(m, x) /\ r2 = [state |-> x, assignee |-> r.assignee]
      BY <2>5 DEF MovesOn
    <3>2. r2.assignee = r.assignee /\ r2.state = x /\ r2.assignee # NoOne /\ r2 # NoRow
      BY <2>5, <3>1 DEF MovesOn, NoRow
    <3>3. AssignedBy(C, r)
      BY <1>3, <2>5 DEF Consistent, MovesOn
    <3>4. AssignedBy(D, r2)
      BY <1>3, <3>1, <3>2, <3>3 DEF AssignedBy
    <3>5. \A n \in D : ~Ends(n)
      BY <1>3, <2>1, <2>5 DEF MovesOn
    <3>6. \A n, p \in D : Assigns(n) /\ Assigns(p) => n = p
      BY <1>3, <2>5 DEF Consistent, MovesOn
    <3> QED BY <2>1, <3>2, <3>4, <3>5, <3>6 DEF Consistent
  <2> QED BY <1>3, <2>2, <2>3, <2>4, <2>5, AlongKinds
<1> QED BY <1>1, <1>2, <1>3 DEF Writes

\* What readers of confirmed moves C and row r see: the row, or the end.
Shows(C, r, v) ==
    /\ r # NoRow \/ Opener \notin C => v = r
    /\ r = NoRow /\ Opener \in C => \A m \in C : Ends(m) => v = EndOf(m)
LEMMA ViewShows ==
  ASSUME NEW c, NEW r, OpenerOK(c), Consistent(Confirmed(c), r)
  PROVE  Shows(Confirmed(c), r, ViewOf(c, r))
<1>1. /\ Opener \in Confirmed(c) <=> c[Move(Opener)] # "absent"
      /\ Confirmed(c) \subseteq Moves
  BY TaskAssumption DEF OpenerOK, Confirmed
<1>2. ASSUME r # NoRow \/ Opener \notin Confirmed(c) PROVE ViewOf(c, r) = r
  BY <1>1, <1>2 DEF ViewOf
<1>3. ASSUME r = NoRow, Opener \in Confirmed(c), NEW m \in Confirmed(c), Ends(m)
      PROVE  ViewOf(c, r) = EndOf(m)
  <2>1. \A n \in Moves : EndsIn[n] # "none" <=> Ends(n)
    <3> SUFFICES ASSUME NEW n \in Moves PROVE EndsIn[n] # "none" <=> Ends(n)
      OBVIOUS
    <3>1. CASE Ends(n)
      <4>1. PICK q \in Transitions[Kind] : q.verb = Verb[n] /\ q.to \in Terminal[Kind]
        BY <3>1 DEF Ends
      <4>2. EndsIn[n] = q.to
        BY <4>1, MoveKinds DEF EndRow
      <4> QED BY <3>1, <4>1, <4>2, TableFacts
    <3>2. CASE ~Ends(n)
      BY <3>2 DEF Ends, EndsIn, IsTerminal
    <3> QED BY <3>1, <3>2
  <2> DEFINE e == CHOOSE n \in Moves : EndsIn[n] # "none" /\ c[Move(n)] = "confirmed"
  <2>2. m \in Moves /\ EndsIn[m] # "none" /\ c[Move(m)] = "confirmed"
    BY <1>3, <2>1 DEF Confirmed
  <2>3. e \in Moves /\ EndsIn[e] # "none" /\ c[Move(e)] = "confirmed"
    BY <2>2
  <2>4. ViewOf(c, r) = [state |-> EndsIn[e], assignee |-> NoOne]
    BY <1>1, <1>3 DEF ViewOf
  <2> HIDE DEF e
  <2>5. e \in Confirmed(c) /\ Ends(e)
    BY <2>1, <2>3 DEF Confirmed
  <2>6. e = m
    BY <1>3, <2>5 DEF Consistent
  <2> QED BY <2>4, <2>6 DEF EndOf
<1> QED BY <1>2, <1>3 DEF Shows

\* A write of the home puts on record what it makes readable.
LEMMA StaysOnRecord ==
  ASSUME NEW C \in SUBSET Moves, NEW r \in Rows, Consistent(C, r), NEW P, OnRecord(C, r, P),
         NEW D, NEW r2, Writes(C, r, D, r2), NEW v, Shows(D, r2, v)
  PROVE  OnRecord(D, r2, P \cup {v})
<1> DEFINE Q == P \cup {v}
<1>0. P \subseteq Q /\ v \in Q
  OBVIOUS
<1> HIDE DEF Q
<1>1. ASSUME D = C, r2 = r PROVE OnRecord(D, r2, Q)
  BY <1>0, <1>1 DEF OnRecord
<1>2. ASSUME Opener \notin C, D = C \cup {Opener}, r2 = Opened PROVE OnRecord(D, r2, Q)
  <2>1. D = {Opener} /\ r2 # NoRow /\ v = r2
    BY <1>2, RowKinds DEF Consistent, Shows
  <2> QED BY <1>0, <1>2, <2>1, OpenerKind DEF OnRecord
<1>3. ASSUME NEW m \in Moves \ (C \cup {Opener}),
             r # NoRow, D = C \cup {m}, Along(m, r, r2)
      PROVE  OnRecord(D, r2, Q)
  <2>1. Opener \in C /\ Opener \in D /\ \A n \in C : ~Ends(n)
    BY <1>3 DEF Consistent
  <2>2. /\ NoRow \in Q /\ Opened \in Q
        /\ \A n \in C : Ends(n) => EndOf(n) \in Q
        /\ \A k, n \in C, x \in NonTerminal[Kind] :
             LandsIn(k, x) /\ Assigns(n) => [state |-> x, assignee |-> AssigneeOf(n)] \in Q
    BY <1>0, <2>1 DEF OnRecord
  <2>3. r2 # NoRow => r2 \in Q
    BY <1>0 DEF Shows
  <2>4. CASE Finishes(m, r2)
    <3>1. v = EndOf(m)
      BY <1>3, <2>1, <2>4 DEF Finishes, Shows
    <3>2. ~Assigns(m) /\ \A x : ~LandsIn(m, x)
      <4>1. PICK q \in Transitions[Kind] : q.verb = Verb[m] /\ q.to \in Terminal[Kind]
        BY <2>4 DEF Finishes, Ends
      <4>2. /\ Assigns(m) <=> AssignRow(q)
            /\ \A x : LandsIn(m, x) => ~EndRow(q)
        BY <4>1, MoveKinds
      <4> QED BY <4>1, <4>2, RowKinds DEF AssignRow, EndRow
    <3>3. \A n \in D : Ends(n) => EndOf(n) \in Q
      BY <1>0, <1>3, <2>2, <3>1
    <3>4. \A k, n \in D, x \in NonTerminal[Kind] :
             LandsIn(k, x) /\ Assigns(n) => [state |-> x, assignee |-> AssigneeOf(n)] \in Q
      BY <1>3, <2>2, <3>2
    <3> QED BY <2>2, <2>3, <3>3, <3>4 DEF OnRecord
  <2>5. CASE Adds(m, r, r2)
    BY <1>3, <2>2, <2>3, <2>5 DEF Adds, OnRecord
  <2>6. CASE HandsOut(m, r, r2)
    <3>1. r2 \in Q
      BY <2>3, <2>6 DEF HandsOut, NoRow
    <3>2. Unassigned(C, r)
      BY <1>3, <2>6 DEF Consistent, HandsOut
    <3>3. \A n \in C : ~Assigns(n)
      <4> SUFFICES ASSUME NEW n \in C, Assigns(n) PROVE FALSE
        OBVIOUS
      <4>1. PICK q \in Transitions[Kind] : q.verb = Verb[n] /\ q.to = "assigned"
                                           /\ q.from \subseteq {"offered", "open"}
        BY DEF Assigns
      <4>2. LandsIn(n, "assigned")
        BY <4>1, RowKinds DEF LandsIn
      <4> QED BY <3>2, <4>2, RowKinds DEF Unassigned
    <3>4. \A k, n \in D, x \in NonTerminal[Kind] :
             LandsIn(k, x) /\ Assigns(n) => [state |-> x, assignee |-> AssigneeOf(n)] \in Q
      <4> SUFFICES ASSUME NEW k \in D, NEW n \in D, NEW x \in NonTerminal[Kind],
                          LandsIn(k, x), Assigns(n)
                   PROVE  [state |-> x, assignee |-> AssigneeOf(n)] \in Q
        OBVIOUS
      <4>1. n = m /\ k = m
        BY <1>3, <3>2, <3>3 DEF Unassigned
      <4>2. x = "assigned"
        BY <2>6, <4>1 DEF HandsOut
      <4> QED BY <2>6, <3>1, <4>1, <4>2 DEF HandsOut
    <3>5. \A n \in D : Ends(n) => EndOf(n) \in Q
      BY <1>3, <2>2, <2>6 DEF HandsOut
    <3> QED BY <2>2, <2>3, <3>4, <3>5 DEF OnRecord
  <2>7. CASE MovesOn(m, r, r2)
    <3>1. PICK y \in NonTerminal[Kind] :
            (\A x : LandsIn(m, x) => x = y) /\ r2 = [state |-> y, assignee |-> r.assignee]
      BY <2>7 DEF MovesOn
    <3>2. r2 # NoRow /\ r2 \in Q
      BY <2>3, <2>7, <3>1 DEF MovesOn, NoRow
    <3>3. PICK a \in C : Assigns(a) /\ r.assignee = AssigneeOf(a)
      BY <1>3, <2>7 DEF Consistent, MovesOn, AssignedBy
    <3>4. \A n \in D : Assigns(n) => n = a
      BY <1>3, <2>7, <3>3 DEF Consistent, MovesOn
    <3>5. \A k, n \in D, x \in NonTerminal[Kind] :
             LandsIn(k, x) /\ Assigns(n) => [state |-> x, assignee |-> AssigneeOf(n)] \in Q
      <4> SUFFICES ASSUME NEW k \in D, NEW n \in D, NEW x \in NonTerminal[Kind],
                          LandsIn(k, x), Assigns(n)
                   PROVE  [state |-> x, assignee |-> AssigneeOf(n)] \in Q
        OBVIOUS
      <4>1. n = a
        BY <3>4
      <4>2. CASE k \in C
        BY <2>2, <3>3, <4>1, <4>2
      <4>3. CASE k = m
        <5>1. x = y
          BY <3>1, <4>3
        <5> QED BY <3>1, <3>2, <3>3, <4>1, <5>1
      <4> QED BY <1>3, <4>2, <4>3
    <3>6. \A n \in D : Ends(n) => EndOf(n) \in Q
      BY <1>3, <2>2, <2>7 DEF MovesOn
    <3> QED BY <2>2, <2>3, <3>5, <3>6 DEF OnRecord
  <2> QED BY <1>3, <2>4, <2>5, <2>6, <2>7, AlongKinds
<1>4. OnRecord(D, r2, Q)
  BY <1>1, <1>2, <1>3 DEF Writes
<1> QED BY <1>4 DEF Q

\* What any server shows is on record, if the home has its moves.
LEMMA ShownIsPast ==
  ASSUME NEW C \in SUBSET Moves, NEW r \in Rows, Consistent(C, r), NEW v, Shows(C, r, v),
         NEW H, NEW h, NEW P, OnRecord(H, h, P),
         \A m \in C : ~IsAdditive(Kind, Verb[m]) \/ m = Opener => m \in H
  PROVE  v \in P
<1>1. \A m \in C : Ends(m) \/ Assigns(m) \/ (\E x : LandsIn(m, x)) => m \in H
  <2> SUFFICES ASSUME NEW m \in C, Ends(m) \/ Assigns(m) \/ \E x : LandsIn(m, x)
               PROVE  ~IsAdditive(Kind, Verb[m])
    OBVIOUS
  <2>1. PICK q \in Transitions[Kind] : q.verb = Verb[m] /\ q.from # {q.to}
    <3>1. CASE Ends(m)
      BY <3>1, RowKinds DEF Ends
    <3>2. CASE Assigns(m)
      BY <3>2 DEF Assigns
    <3>3. CASE \E x : LandsIn(m, x)
      BY <3>3 DEF LandsIn
    <3> QED BY <3>1, <3>2, <3>3
  <2> QED BY <2>1 DEF IsAdditive
<1>2. CASE Opener \notin C
  BY <1>2 DEF Consistent, Shows, OnRecord
<1>3. CASE Opener \in C /\ r = NoRow
  <2>1. PICK m \in C : Ends(m)
    BY <1>3 DEF Consistent
  <2> QED BY <1>1, <1>3, <2>1 DEF Shows, OnRecord
<1>4. CASE Opener \in C /\ r # NoRow
  <2>1. v = r
    BY <1>4 DEF Shows
  <2>2. CASE r.assignee = NoOne
    BY <1>4, <2>1, <2>2 DEF Consistent, Unassigned, OnRecord
  <2>3. CASE r.assignee # NoOne
    <3>1. PICK n \in C : Assigns(n) /\ r.assignee = AssigneeOf(n)
      BY <1>4, <2>3 DEF Consistent, AssignedBy
    <3>2. PICK m \in C : r.state \in NonTerminal[Kind] /\ LandsIn(m, r.state)
      BY <1>4, <2>3 DEF Consistent, AssignedBy
    <3>3. r = [state |-> r.state, assignee |-> r.assignee]
      BY DEF Rows
    <3>4. n \in H /\ m \in H
      BY <1>1, <3>1, <3>2
    <3> QED BY <2>1, <3>1, <3>2, <3>3, <3>4 DEF OnRecord
  <2> QED BY <2>2, <2>3
<1> QED BY <1>2, <1>3, <1>4

\* A step writes at most one server's log and view.  `past` gains what the home
\* shows then, or the home's view and confirmed moves are as they were.
Wrote(s) ==
    /\ \A p \in Servers \ {s} : conf'[p] = conf[p] /\ row'[p] = row[p]
    /\ OpenerOK(conf[s]) =>
        /\ OpenerOK(conf'[s])
        /\ Writes(Confirmed(conf[s]), row[s], Confirmed(conf'[s]), row'[s])
    /\ \/ s = Home /\ past' = past \cup {ViewOf(conf'[s], row'[s])}
       \/ /\ past' = past
          /\ s = Home => Confirmed(conf'[s]) = Confirmed(conf[s]) /\ row'[s] = row[s]
WroteOne == \E s \in Servers : Wrote(s)

\* Logs and views that no step touches.
LEMMA WroteNothing ==
  ASSUME UNCHANGED <<conf, row, past>>
  PROVE  WroteOne
<1>1. conf' = conf /\ row' = row /\ past' = past /\ Home \in Servers
  BY TaskAssumption
<1>2. Wrote(Home)
  BY <1>1 DEF Wrote, Writes
<1> QED BY <1>1, <1>2 DEF WroteOne

\* A write of an event.
LEMMA WroteEvent ==
  ASSUME Typed, NEW s \in Servers, NEW id \in Ids, NEW peer,
         Stored(s, ApplyActEvent(s, id, peer).st)
  PROVE  WroteOne
<1> DEFINE w == ApplyActEvent(s, id, peer)
<1>1. GoodWrite(s, id, peer, w)
  BY EventWrite
<1>2. /\ conf' = [conf EXCEPT ![s] = w.st.conf] /\ row' = [row EXCEPT ![s] = w.st.row]
      /\ past' = IF s = Home THEN past \cup {ViewOf(w.st.conf, w.st.row)} ELSE past
  BY DEF Stored
<1> HIDE DEF w
<1>3. /\ conf'[s] = w.st.conf /\ row'[s] = w.st.row
      /\ \A p \in Servers \ {s} : conf'[p] = conf[p] /\ row'[p] = row[p]
  BY <1>2 DEF Typed
<1>4. Wrote(s)
  BY <1>1, <1>2, <1>3 DEF GoodWrite, Wrote
<1> QED BY <1>4 DEF WroteOne

\* A log and view written back as they were.
LEMMA WroteAgain ==
  ASSUME Typed, NEW s \in Servers, Stored(s, Store(s))
  PROVE  WroteOne
<1>1. /\ conf' = [conf EXCEPT ![s] = conf[s]] /\ row' = [row EXCEPT ![s] = row[s]]
      /\ past' = IF s = Home THEN past \cup {ViewOf(conf[s], row[s])} ELSE past
  BY DEF Stored, Store
<1>2. conf' = conf /\ row' = row
  BY <1>1 DEF Typed
<1>3. Wrote(s)
  BY <1>1, <1>2 DEF Wrote, Writes
<1> QED BY <1>3 DEF WroteOne

\* Judging one event.
LEMMA WroteJudged ==
  ASSUME Typed, NEW s \in Servers, NEW t, NEW it, NEW rest, NEW flying, it.id \in Ids,
         JudgeLive(s, t, it, rest, flying)
  PROVE  WroteOne
<1>1. \/ UNCHANGED <<conf, row, past>>
      \/ Stored(s, ApplyActEvent(s, it.id, it.peer).st)
  BY DEF JudgeLive
<1> QED BY <1>1, WroteNothing, WroteEvent

\* Every step.
LEMMA EveryWrite ==
  ASSUME TaskInv, [Next]_vars
  PROVE  WroteOne
<1>0. Typed /\ Home \in Servers
  BY InvParts
<1>1. ASSUME NEW m \in Moves, Post(m) PROVE WroteOne
  <2>1. At[m] \in Servers /\ Move(m) \in Ids /\ ~IsReceipt(Move(m)) /\ Move(m)[1] = m
    BY IdFacts, TaskAssumption
  <2>2. ApplyMove(At[m], m, At[m]) = ApplyActEvent(At[m], Move(m), At[m])
    BY <2>1 DEF ApplyActEvent
  <2>3. Stored(At[m], ApplyMove(At[m], m, At[m]).st)
    BY <1>1 DEF Post
  <2>4. Stored(At[m], ApplyActEvent(At[m], Move(m), At[m]).st)
    BY <2>2, <2>3
  <2> QED BY <1>0, <2>1, <2>4, WroteEvent
<1>2. ASSUME NEW m \in Moves, Sweep(m) PROVE WroteOne
  <2>1. Move(m) \in Ids /\ ~IsReceipt(Move(m)) /\ Move(m)[1] = m
    BY IdFacts
  <2>2. ApplyMove(Home, m, Home) = ApplyActEvent(Home, Move(m), Home)
    BY <2>1 DEF ApplyActEvent
  <2>3. Stored(Home, ApplyMove(Home, m, Home).st)
    BY <1>2 DEF Sweep
  <2>4. Stored(Home, ApplyActEvent(Home, Move(m), Home).st)
    BY <2>2, <2>3
  <2> QED BY <1>0, <2>1, <2>4, WroteEvent
<1>3. ASSUME NEW msg \in net, Receive(msg) PROVE WroteOne
  <2> DEFINE it == Step(IF msg.kind = "ask" THEN "ask" ELSE "judge",
                        msg.id, msg.from, NoOne, FALSE)
  <2>1. msg \in Messages
    BY <1>0 DEF Typed
  <2>2. msg.to \in Servers /\ it.id \in Ids
    BY <2>1 DEF Messages, Step
  <2>3. JudgeLive(msg.to, "proc", it, << >>, net \ {msg})
    BY <1>3 DEF Receive
  <2> HIDE DEF it
  <2> QED BY <1>0, <2>2, <2>3, WroteJudged
<1>4. ASSUME NEW s \in Servers, NEW t \in Tasks, JudgeParked(s, t) PROVE WroteOne
  <2>1. /\ work[s][t] # << >> /\ Head(work[s][t]).op = "judge"
        /\ JudgeLive(s, t, Head(work[s][t]), Tail(work[s][t]), net)
    BY <1>4 DEF JudgeParked, Busy
  <2>2. Head(work[s][t]).id \in Ids
    BY <2>1, HeadStep DEF StepOK, Handled
  <2> QED BY <1>0, <2>1, <2>2, WroteJudged
<1>5. ASSUME NEW s \in Servers, NEW t \in Tasks, Replay(s, t) PROVE WroteOne
  <2> DEFINE it == Head(work[s][t])
  <2>1. /\ work[s][t] # << >> /\ it.op = "replay"
        /\ \/ Stored(s, Store(s))
           \/ Stored(s, ApplyActEvent(s, it.id, it.peer).st)
    BY <1>5 DEF Replay, Busy
  <2>2. it.id \in Ids
    BY <2>1, HeadStep DEF StepOK, Handled
  <2> HIDE DEF it
  <2> QED BY <1>0, <2>1, <2>2, WroteEvent, WroteAgain
<1>6. ASSUME NEW s \in Servers, NEW t \in Tasks, MintReceipt(s, t) PROVE WroteOne
  <2> DEFINE m == Head(work[s][t]).id[1]
  <2>1. /\ work[s][t] # << >> /\ Head(work[s][t]).op = "mint"
        /\ conf' = [conf EXCEPT ![s][Receipt(m)] = "record"]
        /\ row' = row /\ past' = past
    BY <1>6 DEF MintReceipt, Busy
  <2>2. Head(work[s][t]).id \in Ids
    BY <2>1, HeadStep DEF StepOK
  <2>3. m \in Moves /\ Receipt(m) \in Ids /\ \A n \in Moves : Move(n) \in Ids /\ Move(n) # Receipt(m)
    BY <2>2, IdFacts
  <2> HIDE DEF m
  <2>4. /\ \A p \in Servers \ {s} : conf'[p] = conf[p]
        /\ \A n \in Moves : conf'[s][Move(n)] = conf[s][Move(n)]
    BY <1>0, <2>1, <2>3 DEF Typed
  <2>5. Confirmed(conf'[s]) = Confirmed(conf[s]) /\ conf'[s][Move(Opener)] = conf[s][Move(Opener)]
    BY <2>4, TaskAssumption DEF Confirmed
  <2>6. Wrote(s)
    BY <2>1, <2>4, <2>5 DEF Wrote, Writes, OpenerOK
  <2> QED BY <2>6 DEF WroteOne
<1>7. ASSUME \/ \E s \in Servers, t \in Tasks : ParkIt(s, t) \/ ReleaseIt(s, t) \/ TakeForKey(s, t)
             \/ \E s \in Servers, t \in Tasks : ParkReplayedReceipt(s, t)
             \/ \E s, p \in Servers : CatchUp(s, p)
             \/ \E s \in Servers : \E a \in Authors \cup {Home} : KeyLands(s, a)
             \/ \E s \in Servers, m \in Moves : FlushRoute(s, m)
             \/ \E s \in Servers : TaskWaitOverdue(s) \/ Restart(s)
             \/ \E msg \in net : Lose(msg)
             \/ UNCHANGED vars
      PROVE  WroteOne
  <2>1. UNCHANGED <<conf, row, past>>
    BY <1>7 DEF ParkIt, ReleaseIt, TakeForKey, CatchUp, KeyLands, FlushRoute, TaskWaitOverdue,
       ParkReplayedReceipt, Restart, Lose, vars
  <2> QED BY <2>1, WroteNothing
<1> QED BY <1>1, <1>2, <1>3, <1>4, <1>5, <1>6, <1>7 DEF Next, Progress, TaskStep

\* At the start nothing is on file and nothing shown.
LEMMA ViewInit == Init => ViewInv
<1> SUFFICES ASSUME Init PROVE ViewInv
  OBVIOUS
<1>1. \A s \in Servers : OpenerOK(conf[s]) /\ Confirmed(conf[s]) = {} /\ row[s] = NoRow
  BY IdFacts, TaskAssumption DEF Init, OpenerOK, Confirmed
<1>2. past = {NoRow} /\ Home \in Servers
  BY TaskAssumption DEF Init
<1>3. Consistent({}, NoRow)
  BY DEF Consistent
<1>4. OnRecord({}, NoRow, {NoRow})
  BY DEF OnRecord
<1> QED BY <1>1, <1>2, <1>3, <1>4 DEF ViewInv

\* Every step keeps views consistent and the home's on record.
LEMMA ViewStep ==
  ASSUME TaskInv, ViewInv, [Next]_vars
  PROVE  ViewInv'
<1>1. PICK s \in Servers : Wrote(s)
  BY EveryWrite DEF WroteOne
<1>2. Home \in Servers /\ row \in [Servers -> Rows] /\ \A c : Confirmed(c) \in SUBSET Moves
  BY InvParts DEF Typed, Confirmed
<1>3. ASSUME NEW p \in Servers
      PROVE  OpenerOK(conf'[p]) /\ Consistent(Confirmed(conf'[p]), row'[p])
  <2>1. OpenerOK(conf[p]) /\ Consistent(Confirmed(conf[p]), row[p])
    BY DEF ViewInv
  <2>2. CASE p # s
    BY <1>1, <2>1, <2>2 DEF Wrote
  <2>3. CASE p = s
    <3>1. OpenerOK(conf'[s]) /\ Writes(Confirmed(conf[s]), row[s], Confirmed(conf'[s]), row'[s])
      BY <1>1, <2>1, <2>3 DEF Wrote
    <3> QED BY <1>2, <2>1, <2>3, <3>1, StaysConsistent
  <2> QED BY <2>2, <2>3
<1>4. OnRecord(Confirmed(conf'[Home]), row'[Home], past')
  <2>1. /\ OnRecord(Confirmed(conf[Home]), row[Home], past)
        /\ OpenerOK(conf[Home]) /\ Consistent(Confirmed(conf[Home]), row[Home])
    BY <1>2 DEF ViewInv
  <2>2. CASE s # Home
    BY <1>1, <1>2, <2>1, <2>2 DEF Wrote
  <2>3. CASE s = Home /\ past' = past \cup {ViewOf(conf'[s], row'[s])}
    <3>1. Writes(Confirmed(conf[Home]), row[Home], Confirmed(conf'[Home]), row'[Home])
      BY <1>1, <2>1, <2>3 DEF Wrote
    <3>2. Shows(Confirmed(conf'[Home]), row'[Home], ViewOf(conf'[Home], row'[Home]))
      BY <1>2, <1>3, ViewShows
    <3>3. OnRecord(Confirmed(conf'[Home]), row'[Home], past \cup {ViewOf(conf'[Home], row'[Home])})
      BY <1>2, <2>1, <3>1, <3>2, StaysOnRecord
    <3> QED BY <2>3, <3>3
  <2>4. CASE s = Home /\ past' = past /\ Confirmed(conf'[s]) = Confirmed(conf[s]) /\ row'[s] = row[s]
    BY <2>1, <2>4
  <2> QED BY <1>1, <2>2, <2>3, <2>4 DEF Wrote
<1>5. \A p \in Servers : OpenerOK(conf'[p]) /\ Consistent(Confirmed(conf'[p]), row'[p])
  BY <1>3
<1> QED BY <1>4, <1>5 DEF ViewInv

\* A write that changes neither shows what was shown.
LEMMA ShowsTheSame ==
  ASSUME NEW C \in SUBSET Moves, NEW r, Consistent(C, r), NEW v, NEW w, Shows(C, r, v), Shows(C, r, w)
  PROVE  v = w
<1>1. CASE r # NoRow \/ Opener \notin C
  BY <1>1 DEF Shows
<1>2. CASE r = NoRow /\ Opener \in C
  <2>1. PICK m \in C : Ends(m)
    BY <1>2 DEF Consistent
  <2> QED BY <1>2, <2>1 DEF Shows
<1> QED BY <1>1, <1>2

\* A live row is in no final state.
LEMMA RowIsLive ==
  ASSUME NEW C \in SUBSET Moves, NEW r \in Rows, Consistent(C, r)
  PROVE  r.state \notin Terminal[Kind]
<1>1. CASE r = NoRow
  BY <1>1, TableFacts DEF NoRow
<1>2. CASE r # NoRow
  BY <1>2, RowKinds DEF Consistent, Unassigned, AssignedBy
<1> QED BY <1>1, <1>2

\* A view that is over stays as it is.
LEMMA OverStays ==
  ASSUME NEW C \in SUBSET Moves, NEW r \in Rows, Consistent(C, r), NEW D, NEW r2,
         Writes(C, r, D, r2), NEW v, NEW w, Shows(C, r, v), Shows(D, r2, w),
         v.state \in Terminal[Kind]
  PROVE  w = v
<1>1. r.state \notin Terminal[Kind]
  BY RowIsLive
<1>2. r = NoRow /\ Opener \in C
  BY <1>1 DEF Shows
<1>3. D = C /\ r2 = r
  BY <1>2 DEF Writes
<1> QED BY <1>3, ShowsTheSame

\* What a write makes of a view: nothing, the opening, or a row of the table.
Handed(v, w) ==
    \/ w.state \in Terminal[Kind] /\ w.assignee = NoOne
    \/ w.assignee = v.assignee
    \/ w.state = "assigned" /\ v.assignee = NoOne
LEMMA ViewMoves ==
  ASSUME NEW C \in SUBSET Moves, NEW r \in Rows, Consistent(C, r), NEW D, NEW r2,
         Writes(C, r, D, r2), NEW v, NEW w, Shows(C, r, v), Shows(D, r2, w)
  PROVE  \/ w = v
         \/ v = NoRow /\ w = Opened
         \/ \E q \in Transitions[Kind] : v.state \in q.from /\ w.state = q.to /\ Handed(v, w)
<1>1. CASE D = C /\ r2 = r
  BY <1>1, ShowsTheSame
<1>2. CASE Opener \notin C /\ D = C \cup {Opener} /\ r2 = Opened
  <2>1. r = NoRow /\ Opened # NoRow
    BY <1>2, RowKinds DEF Consistent
  <2> QED BY <1>2, <2>1 DEF Shows
<1>3. ASSUME NEW m \in Moves \ (C \cup {Opener}),
             r # NoRow, D = C \cup {m}, Along(m, r, r2)
      PROVE  \E q \in Transitions[Kind] : v.state \in q.from /\ w.state = q.to /\ Handed(v, w)
  <2>1. PICK q \in Transitions[Kind] :
          /\ q.verb = Verb[m] /\ r.state \in q.from
          /\ r2 = IF q.to \in Terminal[Kind] THEN NoRow
                  ELSE [state |-> q.to,
                        assignee |-> IF r.assignee = NoOne /\ q.to = "assigned"
                                     THEN AssigneeOf(m) ELSE r.assignee]
    BY <1>3 DEF Along
  <2>2. v = r /\ Opener \in D
    BY <1>3 DEF Shows, Consistent
  <2>3. CASE q.to \in Terminal[Kind]
    <3>1. Ends(m) /\ EndsIn[m] = q.to
      BY <2>1, <2>3, MoveKinds DEF EndRow
    <3>2. w = EndOf(m)
      BY <1>3, <2>1, <2>2, <2>3, <3>1 DEF Shows
    <3> QED BY <2>1, <2>2, <2>3, <3>1, <3>2 DEF EndOf, Handed
  <2>4. CASE q.to \notin Terminal[Kind]
    <3> DEFINE a == IF r.assignee = NoOne /\ q.to = "assigned" THEN AssigneeOf(m) ELSE r.assignee
    <3>1. r2 = [state |-> q.to, assignee |-> a]
      BY <2>1, <2>4
    <3>2. a = r.assignee \/ (q.to = "assigned" /\ r.assignee = NoOne)
      OBVIOUS
    <3> HIDE DEF a
    <3>3. r2.state = q.to /\ r2.assignee = a /\ r2 # NoRow
      BY <2>1, <3>1, TableFacts DEF NoRow
    <3>4. w = r2
      BY <3>3 DEF Shows
    <3> QED BY <2>1, <2>2, <3>2, <3>3, <3>4 DEF Handed
  <2> QED BY <2>3, <2>4
<1> QED BY <1>1, <1>2, <1>3 DEF Writes

\* The rules are the referee's.
LEMMA SameRules ==
  /\ Referee!Transitions = Transitions /\ Referee!Terminal = Terminal
  /\ \A v : Referee!Ended(v) <=> v.state \in Terminal[Kind]
  /\ Referee!Unopened = NoRow
  /\ Opened = [state |-> CHOOSE x \in Referee!CheckOpen(Kind, Offeree # NoOne) : TRUE,
               assignee |-> NoOne]
<1>1. Referee!Transitions = Transitions
  BY DEF Referee!Transitions, Transitions, Referee!HandoffRows, Referee!BountyRows, Referee!Row,
     HandoffRows, BountyRows, Row, Referee!NonTerminal, NonTerminal
<1>2. Referee!Terminal = Terminal
  BY DEF Referee!Terminal, Terminal
<1>3. \A v : Referee!Ended(v) <=> v.state \in Terminal[Kind]
  BY <1>2 DEF Referee!Ended, Referee!IsTerminal
<1>4. Referee!Unopened = NoRow
  BY DEF Referee!Unopened, NoRow
<1>5. Opened = [state |-> CHOOSE x \in Referee!CheckOpen(Kind, Offeree # NoOne) : TRUE,
                assignee |-> NoOne]
  BY DEF Opened, Referee!CheckOpen, CheckOpen
<1> QED BY <1>1, <1>2, <1>3, <1>4, <1>5

\* What the readers of each server see, and what they see after the step.
Shown(s) == ViewOf(conf[s], row[s])
ShownNext(s) == ViewOf(conf'[s], row'[s])

\* The home's writes: it opens or moves the task, or nothing is seen to change.
LEMMA HomeDecides ==
  ASSUME TaskInv, ViewInv, ViewInv', Wrote(Home)
  PROVE  \/ ShownNext(Home) = Shown(Home) /\ past' = past
         \/ /\ \/ Shown(Home) = NoRow /\ ShownNext(Home) = Opened
               \/ \E q \in Transitions[Kind] : /\ Shown(Home).state \in q.from
                                               /\ ShownNext(Home).state = q.to
                                               /\ Handed(Shown(Home), ShownNext(Home))
            /\ past' = past \cup {ShownNext(Home)}
<1> DEFINE C == Confirmed(conf[Home])
           D == Confirmed(conf'[Home])
           r == row[Home]
           r2 == row'[Home]
           v == Shown(Home)
           w == ShownNext(Home)
<1>1. /\ Home \in Servers /\ r \in Rows /\ C \in SUBSET Moves /\ D \in SUBSET Moves
  BY InvParts DEF Typed, Confirmed
<1>2. /\ OpenerOK(conf[Home]) /\ Consistent(C, r) /\ OnRecord(C, r, past)
      /\ OpenerOK(conf'[Home]) /\ Consistent(D, r2)
  BY <1>1 DEF ViewInv
<1>3. Shows(C, r, v) /\ Shows(D, r2, w)
  BY <1>2, ViewShows DEF Shown, ShownNext
<1>4. /\ Writes(C, r, D, r2)
      /\ \/ past' = past \cup {w}
         \/ past' = past /\ D = C /\ r2 = r
  BY <1>2 DEF Wrote, ShownNext
<1> HIDE DEF C, D, r, r2, v, w
<1>5. \A m \in C : m \in C
  OBVIOUS
<1>6. v \in past
  BY <1>1, <1>2, <1>3, <1>5, ShownIsPast
<1>7. ASSUME past' = past, D = C, r2 = r PROVE w = v
  BY <1>1, <1>2, <1>3, <1>7, ShowsTheSame
<1>8. \/ w = v
      \/ v = NoRow /\ w = Opened
      \/ \E q \in Transitions[Kind] : v.state \in q.from /\ w.state = q.to /\ Handed(v, w)
  BY <1>1, <1>2, <1>3, <1>4, ViewMoves
<1>9. w = v => past \cup {w} = past
  BY <1>6
<1>10. \/ w = v /\ past' = past
       \/ /\ \/ v = NoRow /\ w = Opened
             \/ \E q \in Transitions[Kind] : v.state \in q.from /\ w.state = q.to /\ Handed(v, w)
          /\ past' = past \cup {w}
  BY <1>4, <1>7, <1>8, <1>9
<1> QED BY <1>10 DEF v, w

\* Another server's writes: it comes to show what the home has had.
LEMMA OthersFollow ==
  ASSUME TaskInv, ViewInv, ViewInv', TaskInv', NEW s \in Servers, s # Home, Wrote(s)
  PROVE  /\ past' = past /\ ShownNext(s) \in past
         /\ ShownNext(s) # Shown(s) => Shown(s).state \notin Terminal[Kind]
<1> DEFINE C == Confirmed(conf[s])
           D == Confirmed(conf'[s])
           H == Confirmed(conf'[Home])
           r == row[s]
           r2 == row'[s]
           v == Shown(s)
           w == ShownNext(s)
<1>1. /\ Home \in Servers /\ r \in Rows /\ r2 \in Rows
      /\ C \in SUBSET Moves /\ D \in SUBSET Moves
  BY TaskAssumption DEF TaskInv, Typed, Confirmed
<1>2. /\ OpenerOK(conf[s]) /\ Consistent(C, r) /\ OpenerOK(conf'[s]) /\ Consistent(D, r2)
      /\ OnRecord(H, row'[Home], past')
  BY <1>1 DEF ViewInv
<1>3. Shows(C, r, v) /\ Shows(D, r2, w)
  BY <1>2, ViewShows DEF Shown, ShownNext
<1>4. Writes(C, r, D, r2) /\ past' = past
  BY <1>2 DEF Wrote
<1>5. \A m \in D : ~IsAdditive(Kind, Verb[m]) \/ m = Opener => m \in H
  <2> SUFFICES ASSUME NEW m \in D, ~IsAdditive(Kind, Verb[m]) \/ m = Opener PROVE m \in H
    OBVIOUS
  <2>1. m \in Moves /\ conf'[s][Move(m)] = "confirmed"
    BY DEF Confirmed
  <2>2. CASE ~IsAdditive(Kind, Verb[m])
    <3>1. conf'[Home][Move(m)] = "confirmed"
      BY <2>1, <2>2 DEF TaskInv, FollowersOnlyFollow
    <3> QED BY <2>1, <3>1 DEF Confirmed
  <2>3. CASE m = Opener
    <3>1. Move(m) \in Ids /\ ~IsReceipt(Move(m))
      BY <2>1, IdFacts
    <3>2. Heard(conf'[Home], Move(m))
      BY <2>1, <3>1 DEF TaskInv, LogsOK
    <3>3. conf'[Home][Move(m)] = "confirmed"
      BY <2>3, <3>1, <3>2 DEF Heard, Given
    <3> QED BY <2>1, <3>3 DEF Confirmed
  <2> QED BY <2>2, <2>3
<1> HIDE DEF C, D, H, r, r2, v, w
<1>6. w \in past
  <2>1. w \in past'
    BY <1>1, <1>2, <1>3, <1>5, ShownIsPast
  <2> QED BY <1>4, <2>1
<1>7. w # v => v.state \notin Terminal[Kind]
  BY <1>1, <1>2, <1>3, <1>4, OverStays
<1> QED BY <1>4, <1>6, <1>7 DEF v, w

\* A step of the protocol is a step of the referee, or shows nothing new.
LEMMA RefereeStep ==
  ASSUME TaskInv, ViewInv, ViewInv', TaskInv', [Next]_vars
  PROVE  [Referee!Next]_(Referee!vars)
<1> DEFINE V == [s \in Servers |-> ViewOf(conf[s], row[s])]
<1>1. PICK s \in Servers : Wrote(s)
  BY EveryWrite DEF WroteOne
<1>2. Home \in Servers
  BY TaskAssumption
<1>3. /\ V = [p \in Servers |-> Shown(p)] /\ V' = [p \in Servers |-> ShownNext(p)]
  BY DEF Shown, ShownNext
<1>4. \A p \in Servers \ {s} : ShownNext(p) = Shown(p)
  BY <1>1 DEF Wrote, Shown, ShownNext
<1>5. V' = [V EXCEPT ![s] = ShownNext(s)] /\ V[s] = Shown(s) /\ V'[s] = ShownNext(s)
  BY <1>3, <1>4
<1>6. ASSUME ShownNext(s) = Shown(s), past' = past PROVE V' = V
  BY <1>3, <1>4, <1>6
<1>7. Referee!vars = <<V, past>> /\ (Referee!vars)' = <<V', past'>>
  BY DEF Referee!vars
<1>8. CASE ShownNext(s) = Shown(s) /\ past' = past
  BY <1>6, <1>7, <1>8
<1>9. CASE s = Home /\ ~(ShownNext(s) = Shown(s) /\ past' = past)
  <2>1. /\ \/ V[Home] = NoRow /\ V'[Home] = Opened
           \/ \E q \in Transitions[Kind] : /\ V[Home].state \in q.from
                                           /\ V'[Home].state = q.to
                                           /\ Handed(V[Home], V'[Home])
        /\ past' = past \cup {V'[Home]}
    BY <1>1, <1>5, <1>9, HomeDecides
  <2>2. V' = [V EXCEPT ![Home] = V'[Home]]
    BY <1>5, <1>9
  <2> HIDE DEF V
  <2>3. ASSUME V[Home] = NoRow, V'[Home] = Opened PROVE Referee!Opens(V'[Home])
    BY <2>3, SameRules DEF Referee!Opens, V
  <2>4. ASSUME NEW q \in Transitions[Kind], V[Home].state \in q.from, V'[Home].state = q.to,
               Handed(V[Home], V'[Home])
        PROVE  Referee!Advances(V'[Home])
    BY <2>4, SameRules DEF Referee!Advances, Handed, V
  <2>5. Referee!Opens(V'[Home]) \/ Referee!Advances(V'[Home])
    BY <2>1, <2>3, <2>4
  <2>6. Referee!Decide
    BY <2>1, <2>2, <2>5 DEF Referee!Decide, V
  <2> QED BY <2>6 DEF Referee!Next
<1>10. CASE s # Home /\ ~(ShownNext(s) = Shown(s) /\ past' = past)
  <2>1. /\ past' = past /\ V'[s] \in past /\ V[s].state \notin Terminal[Kind]
    BY <1>1, <1>5, <1>10, OthersFollow
  <2>2. V' = [V EXCEPT ![s] = V'[s]]
    BY <1>5
  <2>3. Referee!Follow(s)
    BY <1>10, <2>1, <2>2, SameRules DEF Referee!Follow
  <2> QED BY <2>3 DEF Referee!Next
<1> QED BY <1>8, <1>9, <1>10

\* Every server's readers see the task as TaskReferee promises, for every set
\* of servers, people and moves, whatever is lost, delayed or replayed and
\* whoever restarts: the home alone moves it, one row of the table at a time,
\* and no reader is shown what the home never had or sees an end undone.
THEOREM HomeReferees == Spec => RefereedByHome
<1>1. Init => Referee!Init
  <2> SUFFICES ASSUME Init PROVE Referee!Init
    OBVIOUS
  <2>1. \A s \in Servers : conf[s][Move(Opener)] = "absent" /\ row[s] = NoRow
    BY IdFacts, TaskAssumption DEF Init
  <2>2. \A s \in Servers : ViewOf(conf[s], row[s]) = NoRow
    BY <2>1 DEF ViewOf
  <2>3. past = {NoRow}
    BY DEF Init
  <2> QED BY <2>2, <2>3, SameRules DEF Referee!Init
<1>2. TaskInv /\ ViewInv /\ [Next]_vars => ViewInv'
  BY ViewStep
<1>3. TaskInv /\ ViewInv /\ ViewInv' /\ TaskInv' /\ [Next]_vars => [Referee!Next]_(Referee!vars)
  BY RefereeStep
<1> QED BY <1>1, <1>2, <1>3, ViewInit, TaskInvariant, PTL DEF Spec, RefereedByHome, Referee!Spec
=============================================================================
