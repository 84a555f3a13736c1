-------------------------------- MODULE Ratchet --------------------------------
(***************************************************************************)
(* A Double Ratchet session between two people (freeq-sdk ratchet.rs       *)
(* `Session`): what each end keeps, how a message moves it on, and what is *)
(* left of it when messages are lost, overtake each other or come twice.   *)
(*                                                                         *)
(* The cryptography is symbolic and perfect.  A ratchet key is its owner   *)
(* and a number; what two keys agree on is the pair of them; a root key is *)
(* the sequence of agreements that went into it; a chain key is the root   *)
(* it came from and the steps made since, and a message key is the chain   *)
(* key it was taken from.  A message opens under the key it was closed     *)
(* with and under no other.                                                *)
(*                                                                         *)
(* Left out: the wire format and its errors, the key agreement before the  *)
(* session, and saving a session to disk.                                  *)
(***************************************************************************)
EXTENDS Naturals, Sequences, FiniteSets

CONSTANTS
    Alice, Bob,    \* who opens the session, and who answers
    None,
    MaxSkip,       \* the largest gap that is skipped over
    MaxSends,      \* bound: how many messages each sends
    MaxDups        \* bound: how many messages come a second time

ASSUME BoundsAssumption ==
    /\ MaxSkip \in Nat /\ MaxSends \in Nat /\ MaxDups \in Nat
    /\ Alice # Bob /\ None \notin {Alice, Bob}

\* No chain key and no ratchet key is taken for the absence of one (Option in
\* the code).
ASSUME NoneAssumption ==
    /\ None \notin [root: Seq(SUBSET ({Alice, Bob} \X Nat)), step: Nat]
    /\ None \notin {Alice, Bob} \X Nat

VARIABLES
    session,   \* of each: its end of the session
    wires,     \* the messages written so far
    came,      \* those that were delivered
    opened,    \* those that were opened
    dups       \* how many came a second time

vars == <<session, wires, came, opened, dups>>

Parties == {Alice, Bob}
Peer(p) == IF p = Alice THEN Bob ELSE Alice

-------------------------------------------------------------------------------
(* Keys.                                                                   *)

Dh(mine, theirs) == {mine, theirs}
KdfRoot(root, dh) == Append(root, dh)
ChainOf(root) == [root |-> root, step |-> 0]
KdfChain(chain, steps) == [chain EXCEPT !.step = @ + steps]

-------------------------------------------------------------------------------
InitAlice ==
    LET root == KdfRoot(<< >>, Dh(<<Alice, 1>>, <<Bob, 1>>))
    IN [self |-> <<Alice, 1>>, remote |-> <<Bob, 1>>, root |-> root,
        sendChain |-> ChainOf(root), sendNum |-> 0,
        recvChain |-> None, recvNum |-> 0, prevLen |-> 0, skipped |-> {}]

InitBob ==
    [self |-> <<Bob, 1>>, remote |-> None, root |-> << >>,
     sendChain |-> None, sendNum |-> 0,
     recvChain |-> None, recvNum |-> 0, prevLen |-> 0, skipped |-> {}]

Init ==
    /\ session = [p \in Parties |-> IF p = Alice THEN InitAlice ELSE InitBob]
    /\ wires = {} /\ came = {} /\ opened = {} /\ dups = 0

SentBy(p) == {w \in wires : w.from = p}

\* Mutant: the sending chain stays where it is.
EncryptStays(p) ==
    LET s == session[p]
    IN /\ s.sendChain # None
       /\ Cardinality(SentBy(p)) < MaxSends
       /\ wires' = wires \cup {[from |-> p, rk |-> s.self, prevLen |-> s.prevLen,
                                num |-> s.sendNum, key |-> s.sendChain]}
       /\ session' = [session EXCEPT ![p].sendNum = @ + 1]
       /\ UNCHANGED <<came, opened, dups>>

\* `encrypt`: a responder that has received nothing cannot send.
Encrypt(p) ==
    LET s == session[p]
    IN /\ s.sendChain # None
       /\ Cardinality(SentBy(p)) < MaxSends
       /\ wires' = wires \cup {[from |-> p, rk |-> s.self, prevLen |-> s.prevLen,
                                num |-> s.sendNum, key |-> s.sendChain]}
       /\ session' = [session EXCEPT ![p].sendChain = KdfChain(@, 1),
                                     ![p].sendNum = @ + 1]
       /\ UNCHANGED <<came, opened, dups>>

-------------------------------------------------------------------------------
(* `decrypt`.                                                              *)

\* What `skip_messages` refuses, and what it does: keep the keys of the
\* messages from the next one up to `until`, and move the chain past them.
TooManySkipped(s, until) == until > s.recvNum + MaxSkip

\* Mutant: the key of the message itself is kept too.
KeptInclusive(s, rk, until) ==
    {[rk |-> rk, num |-> n, key |-> KdfChain(s.recvChain, n - s.recvNum)] :
        n \in s.recvNum .. until}

Kept(s, rk, until) ==
    {[rk |-> rk, num |-> n, key |-> KdfChain(s.recvChain, n - s.recvNum)] :
        n \in s.recvNum .. until - 1}

\* Mutant: the chain is not moved past the skipped messages.
SkipMessagesStays(s, rk, until) ==
    IF until < s.recvNum THEN s
    ELSE [s EXCEPT !.skipped = @ \cup Kept(s, rk, until)]

SkipMessages(s, rk, until) ==
    IF until < s.recvNum THEN s
    ELSE [s EXCEPT !.skipped = {k \in @ : ~(k.rk = rk /\ k.num \in s.recvNum .. until - 1)}
                                  \cup Kept(s, rk, until),
                   !.recvChain = KdfChain(@, until - s.recvNum)]

\* Mutant: the new keys change places.
DhRatchetSwapped(s, rk) ==
    LET recvRoot == KdfRoot(s.root, Dh(s.self, rk))
        fresh == <<s.self[1], s.self[2] + 1>>
        sendRoot == KdfRoot(recvRoot, Dh(fresh, rk))
    IN [s EXCEPT !.self = rk, !.remote = fresh, !.root = sendRoot,
                 !.recvChain = ChainOf(recvRoot), !.recvNum = 0,
                 !.prevLen = s.sendNum, !.sendNum = 0,
                 !.sendChain = ChainOf(sendRoot)]

\* Their key is new: a receiving chain with it, a fresh key of one's own, and
\* a sending chain with that.
DhRatchet(s, rk) ==
    LET recvRoot == KdfRoot(s.root, Dh(s.self, rk))
        fresh == <<s.self[1], s.self[2] + 1>>
        sendRoot == KdfRoot(recvRoot, Dh(fresh, rk))
    IN [s EXCEPT !.self = fresh, !.remote = rk, !.root = sendRoot,
                 !.recvChain = ChainOf(recvRoot), !.recvNum = 0,
                 !.prevLen = s.sendNum, !.sendNum = 0,
                 !.sendChain = ChainOf(sendRoot)]

\* The session after message w, and the key w was tried with.
Tried(s, key) == [session |-> s, key |-> key]
Refused(s) == Tried(s, None)

\* Mutant: the kept key stays.
DecryptSkippedKeeps(s, w) ==
    Tried(s, (CHOOSE k \in s.skipped : k.rk = w.rk /\ k.num = w.num).key)

\* A key kept for w is taken out, whether it opens w or not.
DecryptSkipped(s, w) ==
    LET kept == CHOOSE k \in s.skipped : k.rk = w.rk /\ k.num = w.num
    IN Tried([s EXCEPT !.skipped = @ \ {kept}], kept.key)

DecryptInChain(s, w) ==
    IF s.recvChain = None \/ TooManySkipped(s, w.num) THEN Refused(s)
    ELSE LET past == SkipMessages(s, w.rk, w.num)
         IN Tried([past EXCEPT !.recvChain = KdfChain(@, 1), !.recvNum = w.num + 1],
                  past.recvChain)

DecryptNewKey(s, w) ==
    IF s.recvChain = None THEN DecryptInChain(DhRatchet(s, w.rk), w)
    ELSE IF TooManySkipped(s, w.prevLen) THEN Refused(s)
    ELSE DecryptInChain(DhRatchet(SkipMessages(s, s.remote, w.prevLen), w.rk), w)

Decrypt(s, w) ==
    IF \E k \in s.skipped : k.rk = w.rk /\ k.num = w.num THEN DecryptSkipped(s, w)
    ELSE IF s.remote # w.rk THEN DecryptNewKey(s, w)
    ELSE DecryptInChain(s, w)

\* Message w reaches the other end; it may come a second time.
Receive(w) ==
    LET p == Peer(w.from)
        result == Decrypt(session[p], w)
    IN /\ w \in came => dups < MaxDups
       /\ dups' = IF w \in came THEN dups + 1 ELSE dups
       /\ session' = [session EXCEPT ![p] = result.session]
       /\ came' = came \cup {w}
       /\ opened' = IF result.key = w.key THEN opened \cup {w} ELSE opened
       /\ UNCHANGED wires

Next ==
    \/ \E p \in Parties : Encrypt(p)
    \/ \E w \in wires : Receive(w)

Spec == Init /\ [][Next]_vars

-------------------------------------------------------------------------------
(* Properties.                                                             *)

IsRatchetKey(k, p) == k \in {p} \X (Nat \ {0})
IsChain(c) == c.step \in Nat /\ Len(c.root) \in Nat \ {0}
IsSession(s, p) ==
    /\ IsRatchetKey(s.self, p)
    /\ s.remote = None \/ IsRatchetKey(s.remote, Peer(p))
    /\ s.sendChain = None \/ IsChain(s.sendChain)
    /\ s.recvChain = None \/ IsChain(s.recvChain)
    /\ {s.sendNum, s.recvNum, s.prevLen} \subseteq Nat
    /\ \A k \in s.skipped :
        IsRatchetKey(k.rk, Peer(p)) /\ k.num \in Nat /\ IsChain(k.key)

\* Both sessions, the messages and the kept keys have their types.
TypeOK ==
    /\ \A p \in Parties : IsSession(session[p], p)
    /\ \A w \in wires :
        /\ w.from \in Parties /\ IsRatchetKey(w.rk, w.from)
        /\ w.prevLen \in Nat /\ w.num \in Nat /\ IsChain(w.key)
    /\ opened \subseteq came /\ came \subseteq wires
    /\ dups \in 0 .. MaxDups

Missing(w) == {v \in wires \ {w} : v.from = w.from /\ v \notin opened}

\* However messages are lost and overtake each other, one that comes late
\* opens; one is refused only past a gap of more than MAX_SKIP messages that
\* never opened (ratchet.rs `decrypt`, `skip_messages`).  This is so until a
\* message comes twice.
EveryMessageOpens ==
    dups = 0 =>
        \A w \in wires \ came :
            LET key == Decrypt(session[Peer(w.from)], w).key
            IN key = w.key \/ (key = None /\ Cardinality(Missing(w)) > MaxSkip)

\* A session holds nothing an opened message could be read with again, be it
\* a kept key or a chain key from which its key would follow, whatever came
\* twice (the tests `forward_secrecy` and `replay_rejected`).
OpenedIsForgotten ==
    \A w \in opened :
        LET s == session[Peer(w.from)]
        IN /\ \A k \in s.skipped : k.key # w.key
           /\ s.recvChain # None /\ s.recvChain.root = w.key.root =>
                 s.recvChain.step > w.key.step

\* No key closes two messages, on either side and whatever came twice: with
\* random nonces this is what AES-GCM asks of `encrypt`.
KeysUsedOnce ==
    \A v, w \in wires : v.key = w.key => v = w

\* What is kept for later is owed: the keys of messages that were written and
\* have not opened, so a session without losses keeps nothing.
KeptIsOwed ==
    dups = 0 =>
        \A p \in Parties : \A k \in session[p].skipped :
            \E w \in wires \ opened : w.rk = k.rk /\ w.num = k.num /\ w.key = k.key
===============================================================================
