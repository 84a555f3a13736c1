---------------------------- MODULE ActTransitions ----------------------------
(***************************************************************************)
(* The rules of a task, as freeq-sdk/src/act_transitions.rs reads them     *)
(* from spec/act-transitions.json: which move is legal, from which state,  *)
(* by whom.  A pure component: every server runs the same checker, over    *)
(* its own copy of the task.                                               *)
(*                                                                         *)
(* The checker's refusals are told apart only by their wording; here each  *)
(* is the empty set of landing states.  Deadlines are compared with the    *)
(* millisecond in the event's id: an event carries the outcome of that     *)
(* comparison, `late`, fixed when it is minted.                            *)
(***************************************************************************)
EXTENDS Naturals

\* One row of the table.  `timed` rows stop at the offer's deadline (the one
\* that bounds offers or the one that bounds bids); a row that `picks` names
\* a bid and assigns its author.
Row(verb, from, to, who, timed, picks) ==
    [verb |-> verb, from |-> from, to |-> to, who |-> who,
     timed |-> timed, picks |-> picks]

Terminal ==
    [handoff |-> {"completed", "failed", "cancelled", "declined", "expired"},
     bounty |-> {"accepted", "forfeited", "cancelled", "expired"}]

NonTerminal ==
    [handoff |-> {"offered", "open", "assigned"},
     bounty |-> {"open", "assigned", "under_review"}]

HandoffRows ==
    {Row("accept", {"offered"}, "assigned", "offeree", TRUE, FALSE),
     Row("decline", {"offered"}, "declined", "offeree", FALSE, FALSE),
     Row("claim", {"open"}, "assigned", "anyone", TRUE, FALSE),
     Row("progress", {"assigned"}, "assigned", "assignee", FALSE, FALSE),
     Row("complete", {"assigned"}, "completed", "assignee", FALSE, FALSE),
     Row("fail", {"assigned"}, "failed", "assignee", FALSE, FALSE),
     Row("cancel", {"offered", "assigned", "open"}, "cancelled", "offerer",
         FALSE, FALSE),
     Row("expire", NonTerminal["handoff"], "expired", "system", FALSE, FALSE)}

BountyRows ==
    {Row("bid", {"open"}, "open", "anyone", TRUE, FALSE),
     Row("award", {"open"}, "assigned", "offerer", TRUE, TRUE),
     Row("progress", {"assigned"}, "assigned", "assignee", FALSE, FALSE),
     Row("submit", {"assigned"}, "under_review", "assignee", FALSE, FALSE),
     Row("revise", {"under_review"}, "assigned", "offerer", FALSE, FALSE),
     Row("accept-work", {"under_review"}, "accepted", "offerer", FALSE, FALSE),
     Row("forfeit", {"assigned", "under_review"}, "forfeited", "assignee",
         FALSE, FALSE),
     Row("auto-accept", {"under_review"}, "accepted", "system", FALSE, FALSE),
     Row("cancel", {"open", "assigned"}, "cancelled", "offerer", FALSE, FALSE),
     Row("expire", NonTerminal["bounty"], "expired", "system", FALSE, FALSE)}

Transitions == [handoff |-> HandoffRows, bounty |-> BountyRows]

\* Where an opener lands: an offer to one person waits for them, an offer to
\* the room is open, and a kind with no directed form refuses one.
CheckOpen(kind, directed) ==
    IF ~directed THEN {"open"} ELSE IF kind = "handoff" THEN {"offered"} ELSE {}

IsTerminal(kind, state) == state \in Terminal[kind]

\* A verb every row of which lands in the one state it moves from.
IsAdditive(kind, verb) ==
    \A row \in Transitions[kind] : row.verb = verb => row.from = {row.to}

\* Whether the sender holds the role the row asks for.
HoldsRole(who, task, event) ==
    CASE who = "offerer" -> event.actor = task.offerer
      [] who = "offeree" -> event.actor = task.offeree
      [] who = "assignee" -> event.actor = task.assignee
      [] who = "system" -> event.system
      [] OTHER -> TRUE

\* The states `event` may take `task` to: one when the rules admit it, none
\* when they refuse it.  `event.bidder` is the author of the bid the event
\* names, as the caller resolved it from its own log.
Check(kind, task, event, nobody) ==
    {row.to : row \in {r \in Transitions[kind] :
        /\ r.verb = event.verb
        /\ ~IsTerminal(kind, task.state)
        /\ task.state \in r.from
        /\ r.picks => event.bidder # nobody
        /\ HoldsRole(r.who, task, event)
        /\ r.timed => ~event.late}}

\* Who a move into `assigned` hands the work to.
AssigneeSource(kind, event) ==
    IF \E r \in Transitions[kind] : r.verb = event.verb /\ r.picks
    THEN event.bidder ELSE event.actor
===============================================================================
