------------------------------ MODULE TaskReferee ------------------------------
(***************************************************************************)
(* What a shared task promises its readers, whatever the network does.     *)
(* One server, the home, moves the task, and only as the rules of its kind *)
(* allow; every other server shows the task as the home has had it at some *)
(* point, and a task shown as finished stays so.  TaskNet implements it.   *)
(***************************************************************************)
EXTENDS ActTransitions

CONSTANTS Servers, Home, Kind, Offeree, NoOne

VARIABLES
    view,  \* of a server: the task as its readers see it
    past   \* every way the home has had it

vars == <<view, past>>

Unopened == [state |-> "none", assignee |-> NoOne]
Ended(v) == IsTerminal(Kind, v.state)

Init ==
    /\ view = [s \in Servers |-> Unopened]
    /\ past = {Unopened}

\* The home opens the task, or moves it along one row of the table: the work
\* is handed out once, and an end is shown without its assignee.
Opens(now) ==
    /\ view[Home] = Unopened
    /\ now = [state |-> CHOOSE x \in CheckOpen(Kind, Offeree # NoOne) : TRUE,
              assignee |-> NoOne]

Advances(now) ==
    \E r \in Transitions[Kind] :
        /\ view[Home].state \in r.from
        /\ now.state = r.to
        /\ \/ Ended(now) /\ now.assignee = NoOne
           \/ now.assignee = view[Home].assignee
           \/ now.state = "assigned" /\ view[Home].assignee = NoOne

Decide ==
    /\ Opens(view'[Home]) \/ Advances(view'[Home])
    /\ view' = [view EXCEPT ![Home] = view'[Home]]
    /\ past' = past \cup {view'[Home]}

\* Another server comes to show what the home has had.
Follow(s) ==
    /\ s # Home
    /\ ~Ended(view[s])
    /\ view'[s] \in past
    /\ view' = [view EXCEPT ![s] = view'[s]]
    /\ UNCHANGED past

Next == Decide \/ \E s \in Servers : Follow(s)

Spec == Init /\ [][Next]_vars
===============================================================================
