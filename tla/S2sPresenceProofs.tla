------------------------- MODULE S2sPresenceProofs -------------------------
(***************************************************************************)
(* Theorems about the link between two servers and about presence over it, *)
(* for any number of connections, faults and redials and any capacities.   *)
(* The invariant of the link carries over: what presence adds to its steps *)
(* does not disturb it.                                                    *)
(***************************************************************************)
EXTENDS S2sPresence, QueueLemmas

-----------------------------------------------------------------------------
(***************************************************************************)
(* The link.                                                               *)
(***************************************************************************)
\* There are exactly two servers, so "the other one" is well defined.
LEMMA OtherServer ==
  ASSUME NEW s \in Servers
  PROVE  /\ Other(s) \in Servers /\ Other(s) # s
         /\ \A x \in Servers : x = s \/ x = Other(s)
         /\ Other(Other(s)) = s
<1>1. PICK o \in Servers : Servers = {s, o} /\ s # o
  BY S2sLinkAssumption
<1>2. Other(s) = o
  BY <1>1 DEF Other
<1>3. Other(o) = s
  BY <1>1 DEF Other
<1> QED BY <1>1, <1>2, <1>3

\* Every step keeps every variable in its type.
LEMMA TypeStep == LinkTypeOK /\ [LinkNext]_linkVars => LinkTypeOK'
<1> SUFFICES ASSUME LinkTypeOK, [LinkNext]_linkVars PROVE LinkTypeOK'
  OBVIOUS
<1> USE DEF LinkTypeOK
<1>1. ASSUME NEW s \in Servers, NEW c \in Slots, Dial(s, c) PROVE LinkTypeOK'
  <2>1. /\ hnd' \in [Servers -> [Slots -> {"none", "dialing", "opening", "greeting", "live"}]]
        /\ loop' \in [Servers -> Slots \cup {None}] /\ dialer' \in [Slots -> Servers]
        /\ conn' \in [Slots -> BOOLEAN] /\ opened' \in [Slots -> BOOLEAN]
    BY <1>1 DEF Dial
  <2>2. rd' \in [Servers -> [Slots -> {"none", "run", "done"}]]
    BY <1>1 DEF Dial
  <2>3. wr' \in [Servers -> [Slots -> {"none", "run", "done"}]]
    BY <1>1 DEF Dial
  <2> QED BY <1>1, <2>1, <2>2, <2>3 DEF Dial
<1>2. ASSUME NEW s \in Servers, NEW c \in Slots, Connected(s, c) PROVE LinkTypeOK'
  <2>1. Other(s) \in Servers
    BY OtherServer
  <2> QED BY <1>2, <2>1 DEF Connected
<1>3. ASSUME NEW s \in Servers, NEW c \in Slots, OpenFails(s, c) PROVE LinkTypeOK'
  BY <1>3 DEF OpenFails, LoopAfter
<1>4. ASSUME NEW s \in Servers, NEW c \in Slots, Yield(s, c) PROVE LinkTypeOK'
  BY <1>4 DEF Yield, LoopAfter
<1>5. ASSUME NEW s \in Servers, NEW c \in Slots, Register(s, c) PROVE LinkTypeOK'
  BY <1>5 DEF Register
<1>6. ASSUME NEW s \in Servers, NEW c \in Slots, Greet(s, c) PROVE LinkTypeOK'
  BY <1>6 DEF Greet
<1>7. ASSUME NEW s \in Servers, NEW c \in Slots, HandlerEnds(s, c) PROVE LinkTypeOK'
  BY <1>7 DEF HandlerEnds, LoopAfter, EntryAfter
<1>8. ASSUME NEW s \in Servers, NEW c \in Slots, ReadEnds(s, c) PROVE LinkTypeOK'
  BY <1>8 DEF ReadEnds
<1>9. ASSUME NEW s \in Servers, NEW c \in Slots, WriteEnds(s, c) PROVE LinkTypeOK'
  <2>1. Reaches(s, c) \in BOOLEAN
    BY DEF Reaches, Up
  <2> QED BY <1>9, <2>1 DEF WriteEnds
<1>10. ASSUME NEW s \in Servers, Rejected(s) PROVE LinkTypeOK'
  BY <1>10 DEF Rejected
<1>11. ASSUME NEW s \in Servers, Crash(s) PROVE LinkTypeOK'
  BY <1>11 DEF Crash, Fault
<1>12. ASSUME NEW s \in Servers, Revoke(s) PROVE LinkTypeOK'
  BY <1>12 DEF Revoke, Fault
<1>13. ASSUME NEW c \in Slots, Lose(c) PROVE LinkTypeOK'
  BY <1>13 DEF Lose, Fault
<1>14. CASE UNCHANGED linkVars
  BY <1>14 DEF linkVars
<1> QED
  BY <1>1, <1>2, <1>3, <1>4, <1>5, <1>6, <1>7, <1>8, <1>9, <1>10, <1>11, <1>12, <1>13, <1>14
  DEF LinkNext

\* The initial state has the types.
LEMMA TypeInit == LinkInit => LinkTypeOK
<1> SUFFICES ASSUME LinkInit PROVE LinkTypeOK
  OBVIOUS
<1>1. Lower \in Servers /\ MaxFaults \in Nat
  BY S2sLinkAssumption
<1>2. conn \in [Slots -> BOOLEAN] /\ opened \in [Slots -> BOOLEAN]
  BY DEF LinkInit
<1> QED BY <1>1, <1>2 DEF LinkInit, LinkTypeOK

\* Every variable of the link has its type in every reachable state.
THEOREM LinkTypeCorrect == LinkSpec => []LinkTypeOK
  BY TypeInit, TypeStep, PTL DEF LinkSpec

-----------------------------------------------------------------------------
(***************************************************************************)
(* The inductive invariant.  EntryIsServed alone is not inductive: a       *)
(* connection that completes gives the other end a handler, which must not *)
(* take the place of one that serves an entry.                             *)
(***************************************************************************)

\* While a dial is in progress the slot is the dialler's own and nothing else
\* has touched it.
DialIsFresh ==
  \A s \in Servers, c \in Slots : hnd[s][c] = "dialing" =>
    /\ dialer[c] = s /\ hnd[Other(s)][c] = "none"
    /\ \A x \in Servers : rd[x][c] = "none" /\ wr[x][c] = "none"

\* A handler that is not yet registered has no tasks.
OpeningIsFresh ==
  \A s \in Servers, c \in Slots :
    hnd[s][c] = "opening" => rd[s][c] = "none" /\ wr[s][c] = "none"

\* A server's outgoing handler is the one its retry loop waits for: there is
\* one at a time.
LoopOwns ==
  \A s \in Servers, c \in Slots :
    dialer[c] = s /\ hnd[s][c] # "none" => loop[s] = c

\* On a connection that is up and that the other end holds, or is about to,
\* both tasks of an entry run.
TasksRun ==
  \A s \in Servers, c \in Slots :
    peers[s] = c /\ conn[c] /\ (peers[Other(s)] = c \/ hnd[Other(s)][c] = "opening")
      => rd[s][c] = "run" /\ wr[s][c] = "run"

Shape == EntryIsServed /\ DialIsFresh /\ OpeningIsFresh
LinkInv == LinkTypeOK /\ Shape /\ LoopOwns /\ TasksRun

\* The initial state, with no connection and no entry, satisfies the invariant.
LEMMA InvInit == LinkInit => LinkInv
<1> SUFFICES ASSUME LinkInit PROVE LinkInv
  OBVIOUS
<1>1. LinkTypeOK
  BY TypeInit
<1>2. \A s \in Servers, c \in Slots : hnd[s][c] = "none" /\ peers[s] = None
  BY DEF LinkInit
<1>3. None \notin Slots
  BY S2sLinkAssumption
<1>4. Shape
  BY <1>2 DEF Shape, EntryIsServed, DialIsFresh, OpeningIsFresh, LinkInit
<1>5. LoopOwns
  BY <1>2 DEF LoopOwns
<1>6. TasksRun
  BY <1>2, <1>3 DEF TasksRun
<1> QED BY <1>1, <1>4, <1>5, <1>6 DEF LinkInv

\* No step leaves an entry without its handler.
LEMMA EntryStep == LinkTypeOK /\ EntryIsServed /\ DialIsFresh /\ [LinkNext]_linkVars => EntryIsServed'
<1> SUFFICES ASSUME LinkTypeOK, EntryIsServed, DialIsFresh, [LinkNext]_linkVars PROVE EntryIsServed'
  OBVIOUS
<1>1. ASSUME NEW s \in Servers, NEW c \in Slots, Dial(s, c) PROVE EntryIsServed'
  BY <1>1, OtherServer DEF Dial, Unused, Idle, LinkTypeOK, EntryIsServed, DialIsFresh
<1>2. ASSUME NEW s \in Servers, NEW c \in Slots, Connected(s, c) PROVE EntryIsServed'
  BY <1>2, OtherServer DEF Connected, LinkTypeOK, EntryIsServed, DialIsFresh
<1>3. ASSUME NEW s \in Servers, NEW c \in Slots, OpenFails(s, c) PROVE EntryIsServed'
  BY <1>3, OtherServer DEF OpenFails, LoopAfter, LinkTypeOK, EntryIsServed, DialIsFresh
<1>4. ASSUME NEW s \in Servers, NEW c \in Slots, Yield(s, c) PROVE EntryIsServed'
  BY <1>4, OtherServer DEF Yield, LoopAfter, LinkTypeOK, EntryIsServed, DialIsFresh
<1>5. ASSUME NEW s \in Servers, NEW c \in Slots, Register(s, c) PROVE EntryIsServed'
  BY <1>5, OtherServer DEF Register, LinkTypeOK, EntryIsServed, DialIsFresh
<1>6. ASSUME NEW s \in Servers, NEW c \in Slots, Greet(s, c) PROVE EntryIsServed'
  BY <1>6, OtherServer DEF Greet, LinkTypeOK, EntryIsServed, DialIsFresh
<1>7. ASSUME NEW s \in Servers, NEW c \in Slots, HandlerEnds(s, c) PROVE EntryIsServed'
  BY <1>7, OtherServer DEF HandlerEnds, EntryAfter, LoopAfter, LinkTypeOK, EntryIsServed, DialIsFresh
<1>8. ASSUME NEW s \in Servers, NEW c \in Slots, ReadEnds(s, c) PROVE EntryIsServed'
  BY <1>8, OtherServer DEF ReadEnds, LinkTypeOK, EntryIsServed, DialIsFresh
<1>9. ASSUME NEW s \in Servers, NEW c \in Slots, WriteEnds(s, c) PROVE EntryIsServed'
  BY <1>9, OtherServer DEF WriteEnds, LinkTypeOK, EntryIsServed, DialIsFresh
<1>10. ASSUME NEW s \in Servers, Rejected(s) PROVE EntryIsServed'
  BY <1>10, OtherServer DEF Rejected, LinkTypeOK, EntryIsServed, DialIsFresh
<1>11. ASSUME NEW s \in Servers, Crash(s) PROVE EntryIsServed'
  BY <1>11, OtherServer DEF Crash, LinkTypeOK, EntryIsServed, DialIsFresh
<1>12. ASSUME NEW s \in Servers, Revoke(s) PROVE EntryIsServed'
  BY <1>12, OtherServer DEF Revoke, LinkTypeOK, EntryIsServed, DialIsFresh
<1>13. ASSUME NEW c \in Slots, Lose(c) PROVE EntryIsServed'
  BY <1>13, OtherServer DEF Lose, LinkTypeOK, EntryIsServed, DialIsFresh
<1>14. CASE UNCHANGED linkVars
  BY <1>14 DEF linkVars, EntryIsServed
<1> QED
  BY <1>1, <1>2, <1>3, <1>4, <1>5, <1>6, <1>7, <1>8, <1>9, <1>10, <1>11, <1>12, <1>13, <1>14
  DEF LinkNext

\* No step touches a slot that is being dialled.
LEMMA DialStep == LinkTypeOK /\ DialIsFresh /\ [LinkNext]_linkVars => DialIsFresh'
<1> SUFFICES ASSUME LinkTypeOK, DialIsFresh, [LinkNext]_linkVars,
                    NEW y \in Servers, NEW d \in Slots, hnd'[y][d] = "dialing"
             PROVE  /\ dialer'[d] = y /\ hnd'[Other(y)][d] = "none"
                    /\ \A x \in Servers : rd'[x][d] = "none" /\ wr'[x][d] = "none"
  BY DEF DialIsFresh
<1> DEFINE Goal == /\ dialer'[d] = y /\ hnd'[Other(y)][d] = "none"
                   /\ \A x \in Servers : rd'[x][d] = "none" /\ wr'[x][d] = "none"
<1>a. Other(y) \in Servers /\ Other(y) # y /\ \A x \in Servers : x = y \/ x = Other(y)
  BY OtherServer
<1>b. hnd[y][d] = "dialing" =>
         /\ dialer[d] = y /\ hnd[Other(y)][d] = "none"
         /\ \A x \in Servers : rd[x][d] = "none" /\ wr[x][d] = "none"
  BY DEF DialIsFresh
<1>1. ASSUME NEW s \in Servers, NEW c \in Slots, Dial(s, c) PROVE Goal
  BY <1>1, <1>a, <1>b DEF Dial, Unused, Idle, LinkTypeOK
<1>2. ASSUME NEW s \in Servers, NEW c \in Slots, Connected(s, c) PROVE Goal
  BY <1>2, <1>a, <1>b, OtherServer DEF Connected, LinkTypeOK
<1>3. ASSUME NEW s \in Servers, NEW c \in Slots, OpenFails(s, c) PROVE Goal
  BY <1>3, <1>a, <1>b DEF OpenFails, LoopAfter, LinkTypeOK
<1>4. ASSUME NEW s \in Servers, NEW c \in Slots, Yield(s, c) PROVE Goal
  BY <1>4, <1>a, <1>b DEF Yield, LoopAfter, LinkTypeOK
<1>5. ASSUME NEW s \in Servers, NEW c \in Slots, Register(s, c) PROVE Goal
  BY <1>5, <1>a, <1>b DEF Register, LinkTypeOK
<1>6. ASSUME NEW s \in Servers, NEW c \in Slots, Greet(s, c) PROVE Goal
  BY <1>6, <1>a, <1>b DEF Greet, LinkTypeOK
<1>7. ASSUME NEW s \in Servers, NEW c \in Slots, HandlerEnds(s, c) PROVE Goal
  BY <1>7, <1>a, <1>b DEF HandlerEnds, EntryAfter, LoopAfter, LinkTypeOK
<1>8. ASSUME NEW s \in Servers, NEW c \in Slots, ReadEnds(s, c) PROVE Goal
  BY <1>8, <1>a, <1>b DEF ReadEnds, LinkTypeOK
<1>9. ASSUME NEW s \in Servers, NEW c \in Slots, WriteEnds(s, c) PROVE Goal
  BY <1>9, <1>a, <1>b DEF WriteEnds, LinkTypeOK
<1>10. ASSUME NEW s \in Servers, Rejected(s) PROVE Goal
  BY <1>10, <1>a, <1>b DEF Rejected, LinkTypeOK
<1>11. ASSUME NEW s \in Servers, Crash(s) PROVE Goal
  BY <1>11, <1>a, <1>b DEF Crash, LinkTypeOK
<1>12. ASSUME NEW s \in Servers, Revoke(s) PROVE Goal
  BY <1>12, <1>a, <1>b DEF Revoke, LinkTypeOK
<1>13. ASSUME NEW c \in Slots, Lose(c) PROVE Goal
  BY <1>13, <1>a, <1>b DEF Lose, LinkTypeOK
<1>14. CASE UNCHANGED linkVars
  BY <1>14, <1>b DEF linkVars
<1> QED
  BY <1>1, <1>2, <1>3, <1>4, <1>5, <1>6, <1>7, <1>8, <1>9, <1>10, <1>11, <1>12, <1>13, <1>14
  DEF LinkNext

\* No step gives tasks to an unregistered handler.
LEMMA OpeningStep == LinkTypeOK /\ OpeningIsFresh /\ DialIsFresh /\ [LinkNext]_linkVars => OpeningIsFresh'
<1> SUFFICES ASSUME LinkTypeOK, OpeningIsFresh, DialIsFresh, [LinkNext]_linkVars PROVE OpeningIsFresh'
  OBVIOUS
<1>1. ASSUME NEW s \in Servers, NEW c \in Slots, Dial(s, c) PROVE OpeningIsFresh'
  BY <1>1, OtherServer DEF Dial, Unused, Idle, LinkTypeOK, OpeningIsFresh, DialIsFresh
<1>2. ASSUME NEW s \in Servers, NEW c \in Slots, Connected(s, c) PROVE OpeningIsFresh'
  BY <1>2, OtherServer DEF Connected, LinkTypeOK, OpeningIsFresh, DialIsFresh
<1>3. ASSUME NEW s \in Servers, NEW c \in Slots, OpenFails(s, c) PROVE OpeningIsFresh'
  BY <1>3, OtherServer DEF OpenFails, LoopAfter, LinkTypeOK, OpeningIsFresh, DialIsFresh
<1>4. ASSUME NEW s \in Servers, NEW c \in Slots, Yield(s, c) PROVE OpeningIsFresh'
  BY <1>4, OtherServer DEF Yield, LoopAfter, LinkTypeOK, OpeningIsFresh, DialIsFresh
<1>5. ASSUME NEW s \in Servers, NEW c \in Slots, Register(s, c) PROVE OpeningIsFresh'
  BY <1>5, OtherServer DEF Register, LinkTypeOK, OpeningIsFresh, DialIsFresh
<1>6. ASSUME NEW s \in Servers, NEW c \in Slots, Greet(s, c) PROVE OpeningIsFresh'
  BY <1>6, OtherServer DEF Greet, LinkTypeOK, OpeningIsFresh, DialIsFresh
<1>7. ASSUME NEW s \in Servers, NEW c \in Slots, HandlerEnds(s, c) PROVE OpeningIsFresh'
  BY <1>7, OtherServer DEF HandlerEnds, EntryAfter, LoopAfter, LinkTypeOK, OpeningIsFresh, DialIsFresh
<1>8. ASSUME NEW s \in Servers, NEW c \in Slots, ReadEnds(s, c) PROVE OpeningIsFresh'
  BY <1>8, OtherServer DEF ReadEnds, LinkTypeOK, OpeningIsFresh, DialIsFresh
<1>9. ASSUME NEW s \in Servers, NEW c \in Slots, WriteEnds(s, c) PROVE OpeningIsFresh'
  BY <1>9, OtherServer DEF WriteEnds, LinkTypeOK, OpeningIsFresh, DialIsFresh
<1>10. ASSUME NEW s \in Servers, Rejected(s) PROVE OpeningIsFresh'
  BY <1>10, OtherServer DEF Rejected, LinkTypeOK, OpeningIsFresh, DialIsFresh
<1>11. ASSUME NEW s \in Servers, Crash(s) PROVE OpeningIsFresh'
  BY <1>11, OtherServer DEF Crash, LinkTypeOK, OpeningIsFresh, DialIsFresh
<1>12. ASSUME NEW s \in Servers, Revoke(s) PROVE OpeningIsFresh'
  BY <1>12, OtherServer DEF Revoke, LinkTypeOK, OpeningIsFresh, DialIsFresh
<1>13. ASSUME NEW c \in Slots, Lose(c) PROVE OpeningIsFresh'
  BY <1>13, OtherServer DEF Lose, LinkTypeOK, OpeningIsFresh, DialIsFresh
<1>14. CASE UNCHANGED linkVars
  BY <1>14 DEF linkVars, OpeningIsFresh
<1> QED
  BY <1>1, <1>2, <1>3, <1>4, <1>5, <1>6, <1>7, <1>8, <1>9, <1>10, <1>11, <1>12, <1>13, <1>14
  DEF LinkNext

\* No step gives a server a second outgoing handler.
LEMMA LoopStep == LinkTypeOK /\ DialIsFresh /\ LoopOwns /\ [LinkNext]_linkVars => LoopOwns'
<1> SUFFICES ASSUME LinkTypeOK, DialIsFresh, LoopOwns, [LinkNext]_linkVars,
                    NEW y \in Servers, NEW d \in Slots,
                    dialer'[d] = y, hnd'[y][d] # "none"
             PROVE  loop'[y] = d
  BY DEF LoopOwns
<1> DEFINE Goal == loop'[y] = d
<1>a. Other(y) \in Servers /\ Other(y) # y /\ \A x \in Servers : x = y \/ x = Other(y)
  BY OtherServer
<1>b. dialer[d] = y /\ hnd[y][d] # "none" => loop[y] = d
  BY DEF LoopOwns
<1>c. None \notin Slots
  BY S2sLinkAssumption
<1>d. \A x \in Servers : hnd[x][d] = "dialing" => dialer[d] = x
  BY DEF DialIsFresh
<1>1. ASSUME NEW s \in Servers, NEW c \in Slots, Dial(s, c) PROVE Goal
  BY <1>1, <1>a, <1>b, <1>c DEF Dial, Unused, Idle, LinkTypeOK
<1>2. ASSUME NEW s \in Servers, NEW c \in Slots, Connected(s, c) PROVE Goal
  BY <1>2, <1>a, <1>b, <1>c, <1>d, OtherServer DEF Connected, LinkTypeOK
<1>3. ASSUME NEW s \in Servers, NEW c \in Slots, OpenFails(s, c) PROVE Goal
  BY <1>3, <1>a, <1>b, <1>c DEF OpenFails, LoopAfter, LinkTypeOK
<1>4. ASSUME NEW s \in Servers, NEW c \in Slots, Yield(s, c) PROVE Goal
  BY <1>4, <1>a, <1>b, <1>c DEF Yield, LoopAfter, LinkTypeOK
<1>5. ASSUME NEW s \in Servers, NEW c \in Slots, Register(s, c) PROVE Goal
  BY <1>5, <1>a, <1>b, <1>c DEF Register, LinkTypeOK
<1>6. ASSUME NEW s \in Servers, NEW c \in Slots, Greet(s, c) PROVE Goal
  BY <1>6, <1>a, <1>b, <1>c DEF Greet, LinkTypeOK
<1>7. ASSUME NEW s \in Servers, NEW c \in Slots, HandlerEnds(s, c) PROVE Goal
  BY <1>7, <1>a, <1>b, <1>c DEF HandlerEnds, EntryAfter, LoopAfter, LinkTypeOK
<1>8. ASSUME NEW s \in Servers, NEW c \in Slots, ReadEnds(s, c) PROVE Goal
  BY <1>8, <1>a, <1>b, <1>c DEF ReadEnds, LinkTypeOK
<1>9. ASSUME NEW s \in Servers, NEW c \in Slots, WriteEnds(s, c) PROVE Goal
  BY <1>9, <1>a, <1>b, <1>c DEF WriteEnds, LinkTypeOK
<1>10. ASSUME NEW s \in Servers, Rejected(s) PROVE Goal
  BY <1>10, <1>a, <1>b, <1>c DEF Rejected, LinkTypeOK
<1>11. ASSUME NEW s \in Servers, Crash(s) PROVE Goal
  BY <1>11, <1>a, <1>b, <1>c DEF Crash, LinkTypeOK
<1>12. ASSUME NEW s \in Servers, Revoke(s) PROVE Goal
  BY <1>12, <1>a, <1>b, <1>c DEF Revoke, LinkTypeOK
<1>13. ASSUME NEW c \in Slots, Lose(c) PROVE Goal
  BY <1>13, <1>a, <1>b, <1>c DEF Lose, LinkTypeOK
<1>14. CASE UNCHANGED linkVars
  BY <1>14, <1>b, <1>c DEF linkVars
<1> QED
  BY <1>1, <1>2, <1>3, <1>4, <1>5, <1>6, <1>7, <1>8, <1>9, <1>10, <1>11, <1>12, <1>13, <1>14
  DEF LinkNext

\* No step stops a task of an entry whose connection both ends hold.
LEMMA TasksStep == LinkTypeOK /\ Shape /\ TasksRun /\ [LinkNext]_linkVars => TasksRun'
<1> SUFFICES ASSUME LinkTypeOK, Shape, TasksRun, [LinkNext]_linkVars,
                    NEW y \in Servers, NEW d \in Slots,
                    peers'[y] = d, conn'[d], peers'[Other(y)] = d \/ hnd'[Other(y)][d] = "opening"
             PROVE  rd'[y][d] = "run" /\ wr'[y][d] = "run"
  BY DEF TasksRun
<1> DEFINE Goal == rd'[y][d] = "run" /\ wr'[y][d] = "run"
<1>a. Other(y) \in Servers /\ Other(y) # y /\ \A x \in Servers : x = y \/ x = Other(y)
  BY OtherServer
<1>b. \A x \in {y, Other(y)} : peers[x] = d => hnd[x][d] \in {"greeting", "live"}
  BY <1>a, S2sLinkAssumption DEF Shape, EntryIsServed
<1>c. /\ peers[y] = d /\ conn[d] /\ (peers[Other(y)] = d \/ hnd[Other(y)][d] = "opening")
         => rd[y][d] = "run" /\ wr[y][d] = "run"
      /\ peers[Other(y)] = d /\ conn[d] /\ (peers[y] = d \/ hnd[y][d] = "opening")
         => rd[Other(y)][d] = "run" /\ wr[Other(y)][d] = "run"
  BY <1>a, OtherServer DEF TasksRun
<1>d. /\ hnd[Other(y)][d] = "opening" => wr[Other(y)][d] = "none"
      /\ \A x \in Servers : hnd[x][d] = "dialing" => hnd[Other(x)][d] = "none"
  BY <1>a, OtherServer DEF Shape, OpeningIsFresh, DialIsFresh
<1>e. \A x \in Servers : Other(x) \in Servers /\ Other(x) # x /\ (x = y \/ x = Other(y))
  BY <1>a, OtherServer
<1>f. None # d
  BY S2sLinkAssumption
<1>1. ASSUME NEW s \in Servers, NEW c \in Slots, Dial(s, c) PROVE Goal
  BY <1>1, <1>a, <1>b, <1>c, <1>d, <1>f DEF Dial, Unused, Idle, LinkTypeOK, LetGo, Up
<1>2. ASSUME NEW s \in Servers, NEW c \in Slots, Connected(s, c) PROVE Goal
  BY <1>2, <1>a, <1>b, <1>c, <1>d, <1>f, <1>e DEF Connected, LinkTypeOK, LetGo, Up
<1>3. ASSUME NEW s \in Servers, NEW c \in Slots, OpenFails(s, c) PROVE Goal
  BY <1>3, <1>a, <1>b, <1>c, <1>d, <1>f DEF OpenFails, LoopAfter, LinkTypeOK, LetGo, Up
<1>4. ASSUME NEW s \in Servers, NEW c \in Slots, Yield(s, c) PROVE Goal
  BY <1>4, <1>a, <1>b, <1>c, <1>d, <1>f DEF Yield, LoopAfter, LinkTypeOK, LetGo, Up
<1>5. ASSUME NEW s \in Servers, NEW c \in Slots, Register(s, c) PROVE Goal
  BY <1>5, <1>a, <1>b, <1>c, <1>d, <1>f DEF Register, LinkTypeOK, LetGo, Up
<1>6. ASSUME NEW s \in Servers, NEW c \in Slots, Greet(s, c) PROVE Goal
  BY <1>6, <1>a, <1>b, <1>c, <1>d, <1>f DEF Greet, LinkTypeOK, LetGo, Up
<1>7. ASSUME NEW s \in Servers, NEW c \in Slots, HandlerEnds(s, c) PROVE Goal
  BY <1>7, <1>a, <1>b, <1>c, <1>d, <1>f DEF HandlerEnds, EntryAfter, LoopAfter, LinkTypeOK, LetGo, Up
<1>8. ASSUME NEW s \in Servers, NEW c \in Slots, ReadEnds(s, c) PROVE Goal
  BY <1>8, <1>a, <1>b, <1>c, <1>d, <1>f DEF ReadEnds, LinkTypeOK, LetGo, Up
<1>9. ASSUME NEW s \in Servers, NEW c \in Slots, WriteEnds(s, c) PROVE Goal
  <2>1. /\ wr[s][c] = "run" /\ (peers[s] # c \/ ~ Up(c))
        /\ wr' = [wr EXCEPT ![s][c] = "done"] /\ UNCHANGED <<conn, hnd, rd, peers>>
    BY <1>9 DEF WriteEnds
  <2>2. rd[y][d] = "run" /\ wr[y][d] = "run"
    BY <1>c, <2>1
  <2>3. CASE s = y /\ c = d
    <3>1. ~ Up(d)
      BY <2>1, <2>3
    <3> QED BY <1>a, <1>b, <1>c, <1>d, <1>f, <2>1, <2>2, <2>3, <3>1 DEF LinkTypeOK, LetGo, Up
  <2>4. CASE ~ (s = y /\ c = d)
    <3>1. wr'[y][d] = wr[y][d]
      BY <2>1, <2>4 DEF LinkTypeOK
    <3> QED BY <2>1, <2>2, <3>1
  <2> QED BY <2>3, <2>4
<1>10. ASSUME NEW s \in Servers, Rejected(s) PROVE Goal
  BY <1>10, <1>a, <1>b, <1>c, <1>d, <1>f DEF Rejected, LinkTypeOK, LetGo, Up
<1>11. ASSUME NEW s \in Servers, Crash(s) PROVE Goal
  BY <1>11, <1>a, <1>b, <1>c, <1>d, <1>f DEF Crash, LinkTypeOK, LetGo, Up
<1>12. ASSUME NEW s \in Servers, Revoke(s) PROVE Goal
  BY <1>12, <1>a, <1>b, <1>c, <1>d, <1>f DEF Revoke, LinkTypeOK, LetGo, Up
<1>13. ASSUME NEW c \in Slots, Lose(c) PROVE Goal
  BY <1>13, <1>a, <1>b, <1>c, <1>d, <1>f DEF Lose, LinkTypeOK, LetGo, Up
<1>14. CASE UNCHANGED linkVars
  BY <1>14, <1>b, <1>c, <1>d, <1>f DEF linkVars
<1> QED
  BY <1>1, <1>2, <1>3, <1>4, <1>5, <1>6, <1>7, <1>8, <1>9, <1>10, <1>11, <1>12, <1>13, <1>14
  DEF LinkNext

\* The invariant is inductive.
LEMMA InvStep == LinkInv /\ [LinkNext]_linkVars => LinkInv'
<1> SUFFICES ASSUME LinkInv, [LinkNext]_linkVars PROVE LinkInv'
  OBVIOUS
<1>1. LinkTypeOK'
  BY TypeStep DEF LinkInv
<1>2. Shape'
  BY EntryStep, DialStep, OpeningStep DEF LinkInv, Shape
<1>3. LoopOwns'
  BY LoopStep DEF LinkInv, Shape
<1>4. TasksRun'
  BY TasksStep DEF LinkInv
<1> QED BY <1>1, <1>2, <1>3, <1>4 DEF LinkInv

\* No behaviour, however many redials, crashes, losses and revocations it has,
\* leaves an entry in the peers map that no handler will take out.
THEOREM EntriesAreServed == LinkSpec => []EntryIsServed
<1>1. LinkInv => EntryIsServed
  BY DEF LinkInv, Shape
<1> QED BY InvInit, InvStep, <1>1, PTL DEF LinkSpec

-----------------------------------------------------------------------------
\* A step that is no fault does not take the kept link from either map: the
\* tie-break refuses every duplicate, and the kept link's tasks all run.
LEMMA KeptStep ==
  ASSUME LinkInv, [LinkNext]_linkVars,
         NEW c \in Slots, Agreed(c), dialer[c] = Lower, rejects = {}, faults' = faults,
         \A d \in Slots : dialer[d] = Lower => hnd[Other(Lower)][d] # "opening"
  PROVE  Agreed(c)'
<1> DEFINE Kept == (\A s \in Servers : peers'[s] = c /\ hnd'[s][c] = "live") /\ conn'[c]
<1>1. SUFFICES Kept
  BY DEF Agreed, Up, LetGo
<1>2. /\ \A s \in Servers : peers[s] = c /\ hnd[s][c] = "live"
      /\ conn[c] /\ c # None
  BY S2sLinkAssumption DEF Agreed, Up
<1>3. \A s \in Servers : rd[s][c] = "run" /\ wr[s][c] = "run"
  BY <1>2, OtherServer DEF LinkInv, TasksRun
<1>4. Lower \in Servers /\ faults \in Nat
  BY S2sLinkAssumption DEF LinkInv, LinkTypeOK
<1> USE DEF LinkTypeOK
<1>5. ASSUME NEW s \in Servers, NEW d \in Slots, Dial(s, d) PROVE FALSE
  BY <1>2, <1>5 DEF Dial
<1>6. ASSUME NEW s \in Servers, NEW d \in Slots, Connected(s, d) PROVE Kept
  BY <1>2, <1>6, OtherServer DEF Connected, LinkInv
<1>7. ASSUME NEW s \in Servers, NEW d \in Slots, OpenFails(s, d) PROVE Kept
  BY <1>2, <1>7 DEF OpenFails, LinkInv
<1>8. ASSUME NEW s \in Servers, NEW d \in Slots, Yield(s, d) PROVE Kept
  BY <1>2, <1>8 DEF Yield, LinkInv
<1>9. ASSUME NEW s \in Servers, NEW d \in Slots, Register(s, d) PROVE FALSE
  <2>1. hnd[s][d] = "opening" /\ DuplicateLinkWins(s, d)
    BY <1>2, <1>9 DEF Register, YieldsTo
  <2>2. dialer[d] = Lower
    BY <1>4, <2>1, OtherServer DEF DuplicateLinkWins, Incoming, LinkInv
  <2>3. CASE s = Lower
    <3>1. loop[s] = d /\ loop[s] = c
      BY <1>2, <2>1, <2>2, <2>3 DEF LinkInv, LoopOwns
    <3> QED BY <1>2, <2>1, <3>1
  <2>4. CASE s # Lower
    BY <1>4, <2>1, <2>2, <2>4, OtherServer
  <2> QED BY <2>3, <2>4
<1>10. ASSUME NEW s \in Servers, NEW d \in Slots, Greet(s, d) PROVE Kept
  BY <1>2, <1>10 DEF Greet, LinkInv
<1>11. ASSUME NEW s \in Servers, NEW d \in Slots, HandlerEnds(s, d) PROVE Kept
  BY <1>2, <1>3, <1>11 DEF HandlerEnds, EntryAfter, LinkInv
<1>12. ASSUME NEW s \in Servers, NEW d \in Slots, ReadEnds(s, d) PROVE Kept
  BY <1>2, <1>12 DEF ReadEnds, LinkInv
<1>13. ASSUME NEW s \in Servers, NEW d \in Slots, WriteEnds(s, d) PROVE Kept
  BY <1>2, <1>13 DEF WriteEnds, LinkInv
<1>14. ASSUME NEW s \in Servers, Rejected(s) PROVE FALSE
  BY <1>14 DEF Rejected
<1>15. ASSUME NEW kind, Fault(kind) PROVE FALSE
  BY <1>4, <1>15 DEF Fault
<1>16. CASE UNCHANGED linkVars
  BY <1>2, <1>16 DEF linkVars
<1> QED
  BY <1>5, <1>6, <1>7, <1>8, <1>9, <1>10, <1>11, <1>12, <1>13, <1>14, <1>15, <1>16
  DEF LinkNext, Crash, Revoke, Lose

\* Two servers that hold the link the tie-break prefers keep it through every
\* duplicate connection, for as long as no fault strikes.
THEOREM KeptLinkStays == LinkSpec => AgreedLinkKept
<1>1. LinkInv /\ [LinkNext]_linkVars =>
        [\A c \in Slots :
           /\ Agreed(c) /\ dialer[c] = Lower /\ rejects = {} /\ faults' = faults
           /\ \A d \in Slots : dialer[d] = Lower => hnd[Other(Lower)][d] # "opening"
           => Agreed(c)']_linkVars
  BY KeptStep
<1> QED BY InvInit, InvStep, <1>1, PTL DEF LinkSpec, AgreedLinkKept

-----------------------------------------------------------------------------
(***************************************************************************)
(* Presence over the link.                                                 *)
(***************************************************************************)
\* What the event processor and the rate limiter do to the link that S2sLink
\* does not: an entry goes at a HelloAck, a dropped event counts as a fault.
LEMMA ProcessKeepsLink ==
  ASSUME LinkInv, me \in Servers,
         peers' \in {peers, [peers EXCEPT ![me] = None]}, faults' \in Nat,
         UNCHANGED <<dials, rejects, dialer, conn, opened, hnd, rd, wr, loop>>
  PROVE  LinkInv'
<1>1. LinkTypeOK /\ Shape /\ LoopOwns /\ TasksRun
  BY DEF LinkInv
<1>2. \A s \in Servers : peers'[s] \in {peers[s], None}
  BY <1>1 DEF LinkTypeOK
<1>3. None \notin Slots
  BY S2sLinkAssumption
<1>4. LinkTypeOK'
  BY <1>1 DEF LinkTypeOK
<1>5. Shape'
  BY <1>1, <1>2 DEF Shape, EntryIsServed, DialIsFresh, OpeningIsFresh
<1>6. LoopOwns'
  BY <1>1 DEF LoopOwns
<1>7. TasksRun'
  <2> SUFFICES ASSUME NEW s \in Servers, NEW c \in Slots, peers'[s] = c, conn[c],
                      peers'[Other(s)] = c \/ hnd[Other(s)][c] = "opening"
               PROVE  rd[s][c] = "run" /\ wr[s][c] = "run"
    BY DEF TasksRun
  <2>1. Other(s) \in Servers
    BY OtherServer
  <2>2. peers[s] = c /\ (peers'[Other(s)] = c => peers[Other(s)] = c)
    BY <1>2, <1>3, <2>1
  <2> QED BY <1>1, <2>2 DEF TasksRun
<1> QED BY <1>4, <1>5, <1>6, <1>7 DEF LinkInv

\* Every step of the composition keeps the invariant of the link.
LEMMA LinkStays ==
  ASSUME LinkInv, PresenceTypeOK, [Next]_vars
  PROVE  LinkInv'
<1>1. me \in Servers /\ Other(me) \in Servers
  BY OtherServer DEF PresenceTypeOK
<1>2. CASE Process
  <2>1. peers' \in {peers, [peers EXCEPT ![me] = None]}
    BY <1>2 DEF Process, MapAfter
  <2>2. faults' \in Nat
    BY <1>2 DEF Process, PresenceTypeOK, LinkTypeOK
  <2> QED BY <1>1, <1>2, <2>1, <2>2, ProcessKeepsLink DEF Process
<1>3. CASE RateLimited
  <2>1. faults' \in Nat
    BY <1>3 DEF RateLimited, Fault, PresenceTypeOK, LinkTypeOK
  <2> QED BY <1>1, <1>3, <2>1, ProcessKeepsLink DEF RateLimited
<1>4. CASE ~ Process /\ ~ RateLimited
  <2>1. [LinkNext]_linkVars
    BY <1>1, <1>4 DEF Next, vars, LinkNext, DialNew, LinkOnly, Handshake, ReaderEnds, CleanUp,
       Read, LoseTail, AnswerHello, SendRoster, Restart, RevokePeer, RevokeAuth
  <2> QED BY <2>1, InvStep
<1> QED BY <1>2, <1>3, <1>4

-----------------------------------------------------------------------------
\* What a sender puts on the streams.
LEMMA SentToMeType ==
  ASSUME PresenceTypeOK, NEW k \in Kinds \ {"disc"}
  PROVE  SentToMe(k) \in [Slots -> Seq(Kinds \ {"disc"})]
<1>1. /\ pipe \in [Slots -> Seq(Kinds \ {"disc"})] /\ Other(me) \in Servers
      /\ peers \in [Servers -> Slots \cup {None}]
  BY OtherServer DEF PresenceTypeOK, LinkTypeOK
<1>2. ASSUME Arrives(Other(me))
      PROVE  SentToMe(k) \in [Slots -> Seq(Kinds \ {"disc"})]
  <2>1. peers[Other(me)] \in Slots
    BY <1>1, <1>2 DEF Arrives
  <2>2. Append(pipe[peers[Other(me)]], k) \in Seq(Kinds \ {"disc"})
    BY <1>1, <2>1, ItemsOfAppend
  <2> QED BY <1>1, <1>2, <2>1, <2>2 DEF SentToMe
<1> QED BY <1>1, <1>2 DEF SentToMe

QueuedEvent == [kind: Kinds, via: Slots]

\* The four things a step can do to the event channel: leave it, take its head,
\* hand on a line of a stream whose reader runs, or note that the link in the
\* map is gone.  A restart empties it.
ReadStep(c) ==
  /\ rd[me][c] = "run" /\ UNCHANGED linkVars
  /\ \E k \in Kinds \ {"disc"} : evq' = Append(evq, [kind |-> k, via |-> c])
NoticeStep(c) ==
  /\ HandlerEnds(me, c) /\ peers[me] = c
  /\ evq' = Append(evq, [kind |-> "disc", via |-> c])
EventStep ==
  \/ evq' = evq
  \/ evq # << >> /\ evq' = Tail(evq) /\ UNCHANGED <<rd, hnd>> /\ peers'[me] \in {peers[me], None}
  \/ \E c \in Slots : ReadStep(c) \/ NoticeStep(c)
  \/ evq' = << >>

\* Every step does one of five things to the event channel.
LEMMA EventSteps ==
  ASSUME PresenceTypeOK, [Next]_vars
  PROVE  EventStep /\ me' = me
<1> USE DEF PresenceTypeOK
<1>1. CASE Process
  BY <1>1 DEF Process, MapAfter, EventStep, LinkTypeOK
<1>2. CASE RateLimited
  BY <1>2 DEF RateLimited, EventStep
<1>3. ASSUME NEW c \in Slots, Read(c) PROVE EventStep /\ me' = me
  <2>1. Head(pipe[c]) \in Kinds \ {"disc"}
    BY <1>3, ItemsOfTail DEF Read
  <2> QED BY <1>3, <2>1 DEF Read, EventStep, ReadStep
<1>4. ASSUME NEW s \in Servers, NEW c \in Slots, CleanUp(s, c) PROVE EventStep /\ me' = me
  <2>1. CASE s = me /\ peers[s] = c
    <3>1. evq \in Seq(QueuedEvent) /\ [kind |-> "disc", via |-> c] \in QueuedEvent
      BY DEF QueuedEvent, Kinds
    <3>2. evq' = evq \o <<[kind |-> "disc", via |-> c]>>
      BY <1>4, <2>1 DEF CleanUp, DisconnectNotice
    <3>3. evq' = Append(evq, [kind |-> "disc", via |-> c])
      BY <3>1, <3>2, AppendIsConcat
    <3> QED BY <1>4, <2>1, <3>3 DEF CleanUp, EventStep, NoticeStep
  <2>2. CASE s = me /\ peers[s] # c
    <3>1. evq' = evq \o << >>
      BY <1>4, <2>2 DEF CleanUp, DisconnectNotice
    <3>2. evq' = evq
      BY <3>1, ConcatEmptySeq
    <3> QED BY <1>4, <3>2 DEF CleanUp, EventStep
  <2>3. CASE s # me
    BY <1>4, <2>3 DEF CleanUp, EventStep
  <2> QED BY <2>1, <2>2, <2>3
<1>5. CASE UNCHANGED <<evq, me>>
  BY <1>5 DEF EventStep
<1>6. ASSUME NEW s \in Servers, Restart(s) PROVE EventStep /\ me' = me
  BY <1>6 DEF Restart, EventStep
<1> QED
  BY <1>1, <1>2, <1>3, <1>4, <1>5, <1>6 DEF Next, vars, presenceVars, DialNew, LinkOnly, Handshake,
     ReaderEnds, LoseTail, AnswerHello, SendRoster, RevokePeer, RevokeAuth

\* The watched server starts with every variable of its type.
LEMMA PresenceTypeInit == Init => PresenceTypeOK
<1> SUFFICES ASSUME Init PROVE PresenceTypeOK
  OBVIOUS
<1>1. << >> \in Seq(Kinds \ {"disc"}) /\ << >> \in Seq([kind: Kinds, via: Slots])
  BY EmptySeq
<1> QED BY <1>1, TypeInit DEF Init, PresenceTypeOK

\* Every step keeps the types, given those of the link.
LEMMA PresenceTypeStep ==
  ASSUME LinkInv, LinkInv', PresenceTypeOK, [Next]_vars
  PROVE  PresenceTypeOK'
<1>1. LinkTypeOK'
  BY DEF LinkInv
<1>2. me' \in Servers /\ evq' \in Seq([kind: Kinds, via: Slots])
  <2>1. EventStep /\ me' = me
    BY EventSteps
  <2>2. evq \in Seq(QueuedEvent) /\ me \in Servers
    BY DEF PresenceTypeOK, QueuedEvent
  <2>3. ASSUME NEW c \in Slots, ReadStep(c) PROVE evq' \in Seq(QueuedEvent)
    <3>1. PICK k \in Kinds \ {"disc"} : evq' = Append(evq, [kind |-> k, via |-> c])
      BY <2>3 DEF ReadStep
    <3>2. [kind |-> k, via |-> c] \in QueuedEvent
      BY DEF QueuedEvent
    <3> QED BY <2>2, <3>1, <3>2, ItemsOfAppend
  <2>4. ASSUME NEW c \in Slots, NoticeStep(c) PROVE evq' \in Seq(QueuedEvent)
    <3>1. [kind |-> "disc", via |-> c] \in QueuedEvent
      BY DEF QueuedEvent, Kinds
    <3> QED BY <2>2, <2>4, <3>1, ItemsOfAppend DEF NoticeStep
  <2>5. evq # << >> => Tail(evq) \in Seq(QueuedEvent)
    BY <2>2, ItemsOfTail
  <2>6. << >> \in Seq(QueuedEvent)
    BY EmptySeq
  <2> QED BY <2>1, <2>2, <2>3, <2>4, <2>5, <2>6 DEF EventStep, QueuedEvent
<1>3. pipe' \in [Slots -> Seq(Kinds \ {"disc"})]
  <2> DEFINE T == Seq(Kinds \ {"disc"})
  <2>0. pipe \in [Slots -> T] /\ << >> \in T
    BY EmptySeq DEF PresenceTypeOK
  <2>1. ASSUME NEW s \in Servers, NEW c \in Slots, Handshake(s, c) PROVE pipe' \in [Slots -> T]
    <3>1. SentToMe("hello") \in [Slots -> T]
      BY SentToMeType DEF Kinds
    <3> QED BY <2>0, <2>1, <3>1 DEF Handshake
  <2>2. ASSUME AnswerHello PROVE pipe' \in [Slots -> T]
    <3>1. SentToMe("ack") \in [Slots -> T] /\ SentToMe("nack") \in [Slots -> T]
      BY SentToMeType DEF Kinds
    <3> QED BY <2>2, <3>1 DEF AnswerHello
  <2>3. ASSUME SendRoster PROVE pipe' \in [Slots -> T]
    BY <2>3, SentToMeType DEF SendRoster, Kinds
  <2>4. ASSUME NEW c \in Slots, Read(c) PROVE pipe' \in [Slots -> T]
    <3>1. Tail(pipe[c]) \in T
      BY <2>0, <2>4, ItemsOfTail DEF Read
    <3> QED BY <2>0, <2>4, <3>1 DEF Read
  <2>5. ASSUME NEW c \in Slots, pipe' = [pipe EXCEPT ![c] = << >>] PROVE pipe' \in [Slots -> T]
    BY <2>0, <2>5
  <2>6. ASSUME pipe' = [c \in Slots |-> << >>] \/ pipe' = pipe PROVE pipe' \in [Slots -> T]
    BY <2>0, <2>6
  <2>7. ASSUME NEW s \in Servers, NEW c \in Slots, DialNew(s, c) PROVE pipe' \in [Slots -> T]
    BY <2>5, <2>7 DEF DialNew
  <2>8. ASSUME NEW c \in Slots, LoseTail(c) PROVE pipe' \in [Slots -> T]
    BY <2>5, <2>8 DEF LoseTail
  <2> QED
    BY <2>1, <2>2, <2>3, <2>4, <2>6, <2>7, <2>8 DEF Next, vars, presenceVars, LinkOnly,
       ReaderEnds, CleanUp, Process, RateLimited, Restart, RevokePeer, RevokeAuth
<1>4. owed' \in BOOLEAN
  BY DEF Next, vars, presenceVars, DialNew, LinkOnly, Handshake, ReaderEnds, CleanUp, Read, LoseTail,
     AnswerHello, SendRoster, Process, RateLimited, Restart, RevokePeer, RevokeAuth, PresenceTypeOK
<1>5. auth' \in BOOLEAN /\ revoking' \in BOOLEAN /\ roster' \in BOOLEAN
  BY DEF Next, vars, presenceVars, DialNew, LinkOnly, Handshake, ReaderEnds, CleanUp, Read, LoseTail,
     AnswerHello, SendRoster, Process, RateLimited, Restart, RevokePeer, RevokeAuth, PresenceTypeOK,
     AuthAfter, RosterAfter
<1> QED BY <1>1, <1>2, <1>3, <1>4, <1>5 DEF PresenceTypeOK

-----------------------------------------------------------------------------
(***************************************************************************)
(* The inductive invariant behind WipesOnlyTheOld.  A connection enters    *)
(* the map before its reader starts, so it must be known that no event in  *)
(* the channel came over it: that follows a slot from the dial, through    *)
(* the handler that opens it, to the reader.                               *)
(***************************************************************************)

\* A handler of mine that has registered has started its reader.
ServedIsRead == \A c \in Slots : hnd[me][c] \in {"greeting", "live"} => rd[me][c] # "none"

\* No event in the channel came over a connection whose reader never ran.
UnreadIsSilent ==
  \A c \in Slots : rd[me][c] = "none" => \A i \in 1 .. Len(evq) : evq[i].via # c

PresenceInv ==
  LinkInv /\ PresenceTypeOK /\ ServedIsRead /\ UnreadIsSilent /\ WipesOnlyTheOld

\* How a step moves a reader of mine: to "none" only by a dial or a crash.
LEMMA ServedStep ==
  ASSUME LinkInv, PresenceTypeOK, ServedIsRead, [Next]_vars
  PROVE  ServedIsRead'
<1>0. me' = me /\ me \in Servers /\ Other(me) \in Servers /\ Other(me) # me
  BY EventSteps, OtherServer DEF PresenceTypeOK
<1>1. LinkTypeOK /\ Other(Other(me)) = me /\ \A x \in Servers : x = me \/ x = Other(me)
  BY <1>0, OtherServer DEF PresenceTypeOK
<1> SUFFICES ASSUME NEW d \in Slots, hnd'[me][d] \in {"greeting", "live"} PROVE rd'[me][d] # "none"
  BY <1>0 DEF ServedIsRead
<1>2. hnd[me][d] \in {"greeting", "live"} => rd[me][d] # "none"
  BY DEF ServedIsRead
<1> DEFINE Goal == rd'[me][d] # "none"
<1>3. ASSUME NEW s \in Servers, NEW c \in Slots, Dial(s, c) PROVE Goal
  BY <1>0, <1>1, <1>2, <1>3 DEF Dial, Unused, Idle, LinkTypeOK
<1>4. ASSUME NEW s \in Servers, NEW c \in Slots, Connected(s, c) PROVE Goal
  BY <1>0, <1>1, <1>2, <1>4 DEF Connected, LinkTypeOK
<1>5. ASSUME NEW s \in Servers, NEW c \in Slots, OpenFails(s, c) \/ Yield(s, c) PROVE Goal
  <2>1. rd' = rd /\ hnd' = [hnd EXCEPT ![s][c] = "none"]
    BY <1>5 DEF OpenFails, Yield
  <2> QED BY <1>0, <1>1, <1>2, <2>1 DEF LinkTypeOK
<1>6. ASSUME NEW s \in Servers, NEW c \in Slots, Register(s, c) PROVE Goal
  BY <1>0, <1>1, <1>2, <1>6 DEF Register, LinkTypeOK
<1>7. ASSUME NEW s \in Servers, NEW c \in Slots, Greet(s, c) \/ HandlerEnds(s, c) PROVE Goal
  <2>1. CASE Greet(s, c)
    BY <1>0, <1>1, <1>2, <2>1 DEF Greet, LinkTypeOK
  <2>2. CASE HandlerEnds(s, c)
    BY <1>0, <1>1, <1>2, <2>2 DEF HandlerEnds, LinkTypeOK
  <2> QED BY <1>7, <2>1, <2>2
<1>8. ASSUME NEW s \in Servers, NEW c \in Slots, ReadEnds(s, c) PROVE Goal
  BY <1>0, <1>1, <1>2, <1>8 DEF ReadEnds, LinkTypeOK
<1>9. ASSUME NEW s \in Servers, Crash(s) PROVE Goal
  BY <1>0, <1>1, <1>2, <1>9 DEF Crash, LinkTypeOK
<1>10. CASE UNCHANGED <<hnd, rd>>
  BY <1>2, <1>10
<1> QED
  BY <1>3, <1>4, <1>5, <1>6, <1>7, <1>8, <1>9, <1>10 DEF Next, vars, linkVars, DialNew, LinkOnly,
     Handshake, ReaderEnds, CleanUp, Read, LoseTail, AnswerHello, SendRoster, Process, RateLimited,
     Restart, RevokePeer, RevokeAuth, WriteEnds, Rejected, Revoke, Lose

\* A reader of mine is back at "none" only on a slot no queued event came over.
LEMMA ReaderResets ==
  ASSUME LinkInv, PresenceTypeOK, [Next]_vars, NEW d \in Slots, rd'[me][d] = "none"
  PROVE  \/ rd[me][d] = "none"
         \/ evq' = << >>
         \/ evq' = evq /\ \A i \in 1 .. Len(evq) : evq[i].via # d
<1>0. me \in Servers /\ LinkTypeOK
  BY DEF PresenceTypeOK
<1> DEFINE Goal == \/ rd[me][d] = "none"
                   \/ evq' = << >>
                   \/ evq' = evq /\ \A i \in 1 .. Len(evq) : evq[i].via # d
<1>1. ASSUME NEW s \in Servers, NEW c \in Slots, DialNew(s, c) PROVE Goal
  BY <1>0, <1>1 DEF DialNew, Dial, LinkTypeOK
<1>2. ASSUME NEW s \in Servers, NEW c \in Slots, Register(s, c) PROVE Goal
  BY <1>0, <1>2 DEF Register, LinkTypeOK
<1>3. ASSUME NEW s \in Servers, NEW c \in Slots, ReadEnds(s, c) PROVE Goal
  BY <1>0, <1>3 DEF ReadEnds, LinkTypeOK
<1>4. ASSUME NEW s \in Servers, Restart(s) PROVE Goal
  BY <1>0, <1>4 DEF Restart, Crash, LinkTypeOK
<1>5. CASE UNCHANGED rd
  BY <1>5
<1>6. \/ \E s \in Servers, c \in Slots : DialNew(s, c) \/ Register(s, c) \/ ReadEnds(s, c)
      \/ \E s \in Servers : Restart(s)
      \/ UNCHANGED rd
  <2>1. ASSUME NEW s \in Servers, NEW c \in Slots, LinkOnly(s, c)
        PROVE  Register(s, c) \/ UNCHANGED rd
    BY <2>1 DEF LinkOnly, Connected, OpenFails, Yield, WriteEnds
  <2>2. ASSUME NEW s \in Servers, NEW c \in Slots, Handshake(s, c) \/ CleanUp(s, c)
        PROVE  UNCHANGED rd
    BY <2>2 DEF Handshake, Greet, CleanUp, HandlerEnds
  <2>3. ASSUME NEW s \in Servers, NEW c \in Slots, ReaderEnds(s, c)
        PROVE  ReadEnds(s, c)
    BY <2>3 DEF ReaderEnds
  <2>4. ASSUME NEW c \in Slots, Read(c) \/ LoseTail(c) \/ Lose(c) PROVE UNCHANGED rd
    BY <2>4 DEF Read, LoseTail, Lose, linkVars
  <2>5. ASSUME \/ AnswerHello \/ SendRoster \/ Process \/ RateLimited \/ UNCHANGED vars
               \/ Rejected(Other(me)) \/ RevokeAuth \/ \E s \in Servers : RevokePeer(s)
        PROVE  UNCHANGED rd
    BY <2>5 DEF AnswerHello, SendRoster, Process, RateLimited, Rejected, RevokePeer, RevokeAuth, Revoke, linkVars, vars
  <2> QED BY <2>1, <2>2, <2>3, <2>4, <2>5 DEF Next
<1> QED BY <1>1, <1>2, <1>3, <1>4, <1>5, <1>6

\* The entry of mine changes only to None, or to a connection whose handler
\* was opening.
LEMMA EntryChanges ==
  ASSUME LinkInv, PresenceTypeOK, [Next]_vars
  PROVE  \/ peers'[me] \in {peers[me], None}
         \/ /\ evq' = evq /\ peers'[me] \in Slots /\ hnd[me][peers'[me]] = "opening"
<1>0. me \in Servers /\ LinkTypeOK
  BY DEF PresenceTypeOK
<1> DEFINE Goal == \/ peers'[me] \in {peers[me], None}
                   \/ /\ evq' = evq /\ peers'[me] \in Slots /\ hnd[me][peers'[me]] = "opening"
<1>1. ASSUME NEW s \in Servers, NEW c \in Slots, Register(s, c), UNCHANGED presenceVars PROVE Goal
  BY <1>0, <1>1 DEF Register, LinkTypeOK, presenceVars
<1>2. ASSUME NEW s \in Servers, NEW c \in Slots, HandlerEnds(s, c) PROVE Goal
  BY <1>0, <1>2 DEF HandlerEnds, EntryAfter, LinkTypeOK
<1>3. ASSUME NEW s \in Servers, Crash(s) \/ Revoke(s) \/ Rejected(s) PROVE Goal
  BY <1>0, <1>3 DEF Crash, Revoke, Rejected, LinkTypeOK
<1>4. CASE Process
  BY <1>0, <1>4 DEF Process, MapAfter, LinkTypeOK
<1>5. CASE UNCHANGED peers
  BY <1>5
<1>6. Other(me) \in Servers
  BY <1>0, OtherServer
<1>7. \/ \E s \in Servers, c \in Slots : Register(s, c) /\ UNCHANGED presenceVars
      \/ \E s \in Servers, c \in Slots : HandlerEnds(s, c)
      \/ \E s \in Servers : Crash(s) \/ Revoke(s) \/ Rejected(s)
      \/ Process \/ UNCHANGED peers
  <2>1. ASSUME NEW s \in Servers, NEW c \in Slots, LinkOnly(s, c)
        PROVE  (Register(s, c) /\ UNCHANGED presenceVars) \/ UNCHANGED peers
    BY <2>1 DEF LinkOnly, Connected, OpenFails, Yield, WriteEnds
  <2>2. ASSUME NEW s \in Servers, NEW c \in Slots,
               DialNew(s, c) \/ Handshake(s, c) \/ ReaderEnds(s, c)
        PROVE  UNCHANGED peers
    BY <2>2 DEF DialNew, Dial, Handshake, Greet, ReaderEnds, ReadEnds
  <2>3. ASSUME NEW s \in Servers, NEW c \in Slots, CleanUp(s, c)
        PROVE  HandlerEnds(s, c)
    BY <2>3 DEF CleanUp
  <2>4. ASSUME NEW c \in Slots, Read(c) \/ LoseTail(c) \/ Lose(c) PROVE UNCHANGED peers
    BY <2>4 DEF Read, LoseTail, Lose, linkVars
  <2>5. ASSUME AnswerHello \/ SendRoster \/ RateLimited \/ RevokeAuth \/ UNCHANGED vars
        PROVE  UNCHANGED peers
    BY <2>5 DEF AnswerHello, SendRoster, RateLimited, RevokeAuth, linkVars, vars
  <2>6. ASSUME NEW s \in Servers, Restart(s) \/ RevokePeer(s)
        PROVE  Crash(s) \/ Revoke(s)
    BY <2>6 DEF Restart, RevokePeer
  <2> QED BY <1>6, <2>1, <2>2, <2>3, <2>4, <2>5, <2>6 DEF Next
<1> QED BY <1>1, <1>2, <1>3, <1>4, <1>5, <1>7

\* Positions in the event channel after a step.
LEMMA QueuedBefore ==
  ASSUME PresenceTypeOK, evq # << >>, evq' = Tail(evq), NEW i \in 1 .. Len(evq')
  PROVE  i + 1 \in 1 .. Len(evq) /\ evq'[i] = evq[i + 1]
<1>1. evq \in Seq(QueuedEvent)
  BY DEF PresenceTypeOK, QueuedEvent
<1>2. /\ Len(Tail(evq)) = Len(evq) - 1 /\ Len(evq) \in Nat
      /\ \A j \in 1 .. Len(Tail(evq)) : Tail(evq)[j] = evq[j + 1]
  BY <1>1, HeadTailProperties, LenProperties
<1> QED BY <1>2

\* An event that is appended is the last; the others keep their places.
LEMMA QueuedAtEnd ==
  ASSUME PresenceTypeOK, NEW e \in QueuedEvent, evq' = Append(evq, e), NEW i \in 1 .. Len(evq')
  PROVE  \/ i \in 1 .. Len(evq) /\ evq'[i] = evq[i]
         \/ i = Len(evq') /\ i = Len(evq) + 1 /\ evq'[i] = e
<1>1. evq \in Seq(QueuedEvent)
  BY DEF PresenceTypeOK, QueuedEvent
<1>2. /\ Len(Append(evq, e)) = Len(evq) + 1 /\ Len(evq) \in Nat
      /\ \A j \in 1 .. Len(evq) : Append(evq, e)[j] = evq[j]
      /\ Append(evq, e)[Len(evq) + 1] = e
  BY <1>1, AppendProperties, LenProperties
<1> QED BY <1>2

\* No event of a connection is queued before its reader runs.
LEMMA UnreadStep ==
  ASSUME LinkInv, PresenceTypeOK, ServedIsRead, UnreadIsSilent, [Next]_vars
  PROVE  UnreadIsSilent'
<1>0. me' = me /\ EventStep /\ me \in Servers
  BY EventSteps DEF PresenceTypeOK
<1> SUFFICES ASSUME NEW d \in Slots, rd'[me][d] = "none", NEW i \in 1 .. Len(evq')
             PROVE  evq'[i].via # d
  BY <1>0 DEF UnreadIsSilent
<1>1. CASE evq' = evq
  <2>1. \/ rd[me][d] = "none"
        \/ evq' = << >>
        \/ \A j \in 1 .. Len(evq) : evq[j].via # d
    BY ReaderResets
  <2> QED BY <1>1, <2>1 DEF UnreadIsSilent
<1>2. CASE evq # << >> /\ evq' = Tail(evq) /\ UNCHANGED <<rd, hnd>>
  BY <1>2, QueuedBefore DEF UnreadIsSilent
<1>3. ASSUME NEW c \in Slots, ReadStep(c) PROVE evq'[i].via # d
  <2>1. PICK k \in Kinds \ {"disc"} : evq' = Append(evq, [kind |-> k, via |-> c])
    BY <1>3 DEF ReadStep
  <2>2. [kind |-> k, via |-> c] \in QueuedEvent
    BY DEF QueuedEvent
  <2>3. rd' = rd /\ rd[me][c] = "run"
    BY <1>3 DEF ReadStep, linkVars
  <2> QED BY <2>1, <2>2, <2>3, QueuedAtEnd DEF UnreadIsSilent
<1>4. ASSUME NEW c \in Slots, NoticeStep(c) PROVE evq'[i].via # d
  <2>1. [kind |-> "disc", via |-> c] \in QueuedEvent
    BY DEF QueuedEvent, Kinds
  <2>2. rd' = rd /\ rd[me][c] # "none"
    BY <1>4 DEF NoticeStep, HandlerEnds, ServedIsRead
  <2> QED BY <1>4, <2>1, <2>2, QueuedAtEnd DEF UnreadIsSilent, NoticeStep
<1>5. CASE evq' = << >>
  BY <1>5
<1> QED BY <1>0, <1>1, <1>2, <1>3, <1>4, <1>5 DEF EventStep

\* No step puts a notice behind an event of the link in the map.
LEMMA WipesStep ==
  ASSUME PresenceInv, [Next]_vars
  PROVE  WipesOnlyTheOld'
<1>0. /\ me' = me /\ EventStep /\ me \in Servers
      /\ LinkInv /\ PresenceTypeOK /\ UnreadIsSilent /\ WipesOnlyTheOld /\ None \notin Slots
  BY EventSteps, S2sLinkAssumption DEF PresenceInv, PresenceTypeOK
<1> SUFFICES ASSUME NEW j \in 1 .. Len(evq'), evq'[j].kind = "disc", NEW i \in 1 .. j
             PROVE  evq'[i].via # peers'[me]
  BY <1>0 DEF WipesOnlyTheOld
<1>1. \A k \in 1 .. Len(evq) : evq[k].via \in Slots
  <2>1. evq \in Seq(QueuedEvent)
    BY <1>0 DEF PresenceTypeOK, QueuedEvent
  <2>2. \A k \in 1 .. Len(evq) : evq[k] \in QueuedEvent
    BY <2>1, ElementOfSeq
  <2> QED BY <2>2 DEF QueuedEvent
<1>2. i \in 1 .. Len(evq')
  OBVIOUS
<1>3. CASE evq' = evq
  <2>1. evq[i].via # peers[me] /\ evq[i].via \in Slots
    BY <1>0, <1>1, <1>2, <1>3 DEF WipesOnlyTheOld
  <2>2. CASE peers'[me] \in {peers[me], None}
    BY <1>0, <1>3, <2>1, <2>2
  <2>3. CASE peers'[me] \in Slots /\ hnd[me][peers'[me]] = "opening"
    <3>1. rd[me][peers'[me]] = "none"
      BY <1>0, <2>3 DEF LinkInv, Shape, OpeningIsFresh
    <3> QED BY <1>0, <1>2, <1>3, <2>3, <3>1 DEF UnreadIsSilent
  <2> QED BY <1>0, <2>2, <2>3, EntryChanges
<1>4. CASE evq # << >> /\ evq' = Tail(evq) /\ peers'[me] \in {peers[me], None}
  <2>1. i + 1 \in 1 .. Len(evq) /\ evq'[i] = evq[i + 1]
    BY <1>0, <1>2, <1>4, QueuedBefore
  <2>2. j + 1 \in 1 .. Len(evq) /\ evq'[j] = evq[j + 1]
    BY <1>0, <1>4, QueuedBefore
  <2>3. i + 1 \in 1 .. (j + 1)
    OBVIOUS
  <2>4. evq[i + 1].via # peers[me]
    BY <1>0, <2>2, <2>3 DEF WipesOnlyTheOld
  <2> QED BY <1>0, <1>1, <1>4, <2>1, <2>4
<1>5. ASSUME NEW c \in Slots, ReadStep(c) PROVE evq'[i].via # peers'[me]
  <2>1. PICK k \in Kinds \ {"disc"} : evq' = Append(evq, [kind |-> k, via |-> c])
    BY <1>5 DEF ReadStep
  <2>2. [kind |-> k, via |-> c] \in QueuedEvent /\ [kind |-> k, via |-> c].kind # "disc"
    BY DEF QueuedEvent
  <2>3. j \in 1 .. Len(evq) /\ evq'[j] = evq[j]
    BY <1>0, <2>1, <2>2, QueuedAtEnd
  <2>4. i # Len(evq) + 1
    BY <2>3
  <2>5. evq'[i] = evq[i]
    BY <1>0, <1>2, <2>1, <2>2, <2>4, QueuedAtEnd
  <2>6. peers' = peers
    BY <1>5 DEF ReadStep, linkVars
  <2> QED BY <1>0, <2>3, <2>5, <2>6 DEF WipesOnlyTheOld
<1>6. ASSUME NEW c \in Slots, NoticeStep(c) PROVE evq'[i].via # peers'[me]
  <2>1. [kind |-> "disc", via |-> c] \in QueuedEvent
    BY DEF QueuedEvent, Kinds
  <2>2. peers'[me] = None
    BY <1>0, <1>6 DEF NoticeStep, HandlerEnds, EntryAfter, PresenceTypeOK, LinkTypeOK
  <2>3. evq'[i].via \in Slots
    BY <1>0, <1>1, <1>2, <1>6, <2>1, QueuedAtEnd DEF NoticeStep
  <2> QED BY <1>0, <2>2, <2>3
<1>7. CASE evq' = << >>
  BY <1>7
<1> QED BY <1>0, <1>3, <1>4, <1>5, <1>6, <1>7 DEF EventStep

\* The invariant holds before the first dial.
LEMMA PresenceInit == Init => PresenceInv
<1> SUFFICES ASSUME Init PROVE PresenceInv
  OBVIOUS
<1>1. LinkInv /\ PresenceTypeOK
  BY InvInit, PresenceTypeInit DEF Init
<1>2. evq = << >> /\ \A c \in Slots : hnd[me][c] = "none"
  BY DEF Init, LinkInit
<1> QED BY <1>1, <1>2 DEF PresenceInv, ServedIsRead, UnreadIsSilent, WipesOnlyTheOld

\* Every step of the link and of the processor preserves the invariant.
LEMMA PresenceStep == PresenceInv /\ [Next]_vars => PresenceInv'
<1> SUFFICES ASSUME PresenceInv, [Next]_vars PROVE PresenceInv'
  OBVIOUS
<1>1. LinkInv'
  BY LinkStays DEF PresenceInv
<1>2. PresenceTypeOK'
  BY <1>1, PresenceTypeStep DEF PresenceInv
<1>3. ServedIsRead' /\ UnreadIsSilent'
  BY ServedStep, UnreadStep DEF PresenceInv
<1> QED BY <1>1, <1>2, <1>3, WipesStep DEF PresenceInv

\* The event channel carries events of connections, and only a handler puts a
\* disconnect notice there, with presence and faults interleaved.
THEOREM PresenceTypeCorrect == Spec => []PresenceTypeOK
<1>1. PresenceInv => PresenceTypeOK
  BY DEF PresenceInv
<1> QED BY PresenceInit, PresenceStep, <1>1, PTL DEF Spec

\* handle_s2s_connection: the notice of a link that is gone is in the event
\* channel before any event of the link that replaces it, so what the new link
\* teaches is never wiped by it, whatever crashes, is lost, revoked or dropped.
THEOREM NoticeWipesOnlyTheOld == Spec => []WipesOnlyTheOld
<1>1. PresenceInv => WipesOnlyTheOld
  BY DEF PresenceInv
<1> QED BY PresenceInit, PresenceStep, <1>1, PTL DEF Spec

\* With the processor's own removals (a HelloAck that refuses) in the picture,
\* an entry of the map still always has its handler.
THEOREM EntriesAreServedWithPresence == Spec => []EntryIsServed
<1>1. PresenceInv => EntryIsServed
  BY DEF PresenceInv, LinkInv, Shape
<1> QED BY PresenceInit, PresenceStep, <1>1, PTL DEF Spec
=============================================================================
