------------------------------ MODULE EventLog ------------------------------
(***************************************************************************)
(* The signed, hash-linked event log of crates/pillar-eventlog (lib.rs),   *)
(* one per replica.                                                        *)
(*                                                                         *)
(* An event is known by the hash of its content.  `content` holds every    *)
(* content that was ever signed and an id is a position in it, so equal    *)
(* contents share an id and a link can only name an older content (the     *)
(* hash of a later one cannot be known).  0 is the absent link.            *)
(***************************************************************************)
EXTENDS Integers, Sequences

CONSTANTS
    Replica,
    Author,
    Payload,
    MaxSeq,         \* bound: events in one author's chain
    MaxEvents       \* bound: distinct contents signed in one behaviour

ASSUME EventLogAssumption == MaxSeq \in Nat \ {0} /\ MaxEvents \in Nat

Position == 0..MaxSeq - 1
Content == [author : Author, seq : Position, prev : Nat, parents : SUBSET Nat, payload : Payload]

VARIABLES
    content,    \* every content signed so far
    log         \* per replica: the EventLog

vars == <<content, log>>

Id == 1..Len(content)

EmptyLog ==
    [events |-> {}, height |-> [a \in Author |-> 0], tip |-> [a \in Author |-> 0],
     bySeq |-> [a \in Author |-> [n \in Position |-> 0]]]

Log == [events : SUBSET Nat, height : [Author -> 0..MaxSeq], tip : [Author -> Nat],
        bySeq : [Author -> [Position -> Nat]]]

Init ==
    /\ content = <<>>
    /\ log = [r \in Replica |-> EmptyLog]

-----------------------------------------------------------------------------
\* Mutant of ChainLinkHolds: the link may name any event of the author.
AnyEarlierLink(l, c) ==
    IF c.prev = 0
    THEN c.seq = 0 /\ l.height[c.author] = 0
    ELSE /\ c.seq # 0
         /\ c.prev \in l.events
         /\ content[c.prev].author = c.author

\* The same-author link: genesis starts the chain, every other event extends
\* its tip by one.
ChainLinkHolds(l, c) ==
    IF c.prev = 0
    THEN c.seq = 0 /\ l.height[c.author] = 0
    ELSE /\ c.seq # 0
         /\ l.tip[c.author] = c.prev
         /\ c.prev \in l.events
         /\ content[c.prev].author = c.author
         /\ content[c.prev].seq = c.seq - 1

\* Every parent is a held event of another author.
ParentsHold(l, c) == \A p \in c.parents : p \in l.events /\ content[p].author # c.author

Admissible(l, c) == ChainLinkHolds(l, c) /\ ParentsHold(l, c)

\* The tail of ingest(): the event is recorded and its author's chain advanced.
Admitted(l, id, c) ==
    [l EXCEPT !.events = @ \cup {id},
              !.height[c.author] = c.seq + 1,
              !.tip[c.author] = id,
              !.bySeq[c.author][c.seq] = id]

\* ingest() of an authentic event of a supported version; a refusal and a
\* duplicate change nothing.
Ingested(l, id) ==
    IF id \notin l.events /\ Admissible(l, content[id])
    THEN Admitted(l, id, content[id])
    ELSE l

\* What append() signs: the next event of the chain, seeing the other tips.
NextContent(l, a, p) ==
    [author |-> a, seq |-> l.height[a], prev |-> l.tip[a],
     parents |-> {l.tip[b] : b \in {x \in Author \ {a} : l.tip[x] # 0}}, payload |-> p]

-----------------------------------------------------------------------------
Signed(c) == \E id \in Id : content[id] = c

\* The author signs a content; its links name contents that exist.
Sign(c) ==
    /\ ~Signed(c)
    /\ Len(content) < MaxEvents
    /\ c.prev \in Id \cup {0}
    /\ c.parents \subseteq Id
    /\ content' = Append(content, c)

\* Any well-signed content reaches the network, in or out of sequence.
Publish(c) == Sign(c) /\ UNCHANGED log

\* append(): sign the next event of the chain and ingest it; a content that
\* was signed before has the id it had.
AppendLocal(r, a, p) ==
    LET c == NextContent(log[r], a, p)
    IN /\ log[r].height[a] < MaxSeq
       /\ \/ /\ Sign(c)
             /\ log' = [log EXCEPT ![r] = IF Admissible(@, c) THEN Admitted(@, Len(content) + 1, c) ELSE @]
          \/ \E id \in Id : /\ content[id] = c
                            /\ log' = [log EXCEPT ![r] = Ingested(@, id)]
                            /\ UNCHANGED content

\* ingest() of an event somebody sent, in any order and any number of times.
Ingest(r, id) ==
    /\ log' = [log EXCEPT ![r] = Ingested(@, id)]
    /\ UNCHANGED content

Next ==
    \/ \E a \in Author, n \in Position, v \in Id \cup {0}, ps \in SUBSET Id, p \in Payload :
          Publish([author |-> a, seq |-> n, prev |-> v, parents |-> ps, payload |-> p])
    \/ \E r \in Replica : \/ \E a \in Author, p \in Payload : AppendLocal(r, a, p)
                          \/ \E id \in Id : Ingest(r, id)

Spec == Init /\ [][Next]_vars

-----------------------------------------------------------------------------
TypeOK == content \in Seq(Content) /\ log \in [Replica -> Log]

\* A log that holds the whole causal past of its events.
ClosedIn(ct, l) ==
    \A id \in l.events : ct[id].prev \in l.events \cup {0} /\ ct[id].parents \subseteq l.events

\* A log whose events of one author are one for each position below the
\* height, each linked to the one before, the last of them the tip.
ChainIn(ct, l, a) ==
    /\ \A id \in l.events :
          ct[id].author = a => ct[id].seq < l.height[a] /\ l.bySeq[a][ct[id].seq] = id
    /\ \A n \in 0..l.height[a] - 1 :
          /\ l.bySeq[a][n] \in l.events
          /\ ct[l.bySeq[a][n]].author = a
          /\ ct[l.bySeq[a][n]].seq = n
          /\ ct[l.bySeq[a][n]].prev = IF n = 0 THEN 0 ELSE l.bySeq[a][n - 1]
    /\ l.tip[a] = IF l.height[a] = 0 THEN 0 ELSE l.bySeq[a][l.height[a] - 1]

\* CausallyClosed of the anti-entropy docs: whatever arrives in whatever order,
\* a replica holds the whole causal past of every event it holds.
CausallyClosed == \A r \in Replica : ClosedIn(content, log[r])

\* NoGaps, UniquePerAuthorSeq and PrevLinkIntegrity of ingest(): every chain a
\* replica holds is a gap-free line, and heights, positions and tips, kept in
\* three maps, describe it.
ChainsAreWhole == \A r \in Replica, a \in Author : ChainIn(content, log[r], a)

\* The expect() in append(), "locally authored event is always valid": whatever
\* a replica has ingested, the event it would author next is admissible.
LocalAppendAdmitted ==
    \A r \in Replica, a \in Author, p \in Payload : Admissible(log[r], NextContent(log[r], a, p))

\* ingest(), append() and sync never drop or overtake an event: chains only
\* grow, at their end.
ChainsOnlyGrow ==
    [][\A r \in Replica, a \in Author :
          /\ log[r].events \subseteq log'[r].events
          /\ log'[r].height[a] >= log[r].height[a]
          /\ \A n \in 0..log[r].height[a] - 1 : log'[r].bySeq[a][n] = log[r].bySeq[a][n]]_vars

\* Nothing is held that was not signed.
HeldIsSigned == \A r \in Replica : log[r].events \subseteq Id

\* What ingest() needs to know of a log to keep it whole, on every replica
\* and whatever arrives in whatever order: what is held was signed, comes
\* with its causal past, and forms gap-free, fork-free chains whose heights
\* and tips are those recorded.
LogInv == TypeOK /\ HeldIsSigned /\ CausallyClosed /\ ChainsAreWhole
=============================================================================
