--------------------------- MODULE EventLogProofs ---------------------------
(***************************************************************************)
(* Proofs about EventLog and AntiEntropy: for any replicas, authors and    *)
(* payloads, and any arrivals, every replica keeps whole chains and a      *)
(* closed causal past, can always append, and never drops or reorders what *)
(* it holds; an answer leaves with causes first and, while nobody forks,   *)
(* is taken whole, so that one pull is enough.                             *)
(***************************************************************************)
EXTENDS AntiEntropy, InductionLemmas, TLAPS

\* An admissible event sits at the height of its author's chain: ingest() never
\* leaves a gap and never overwrites a position.
LEMMA AdmissibleAtHeight ==
    ASSUME NEW l \in Log, NEW c \in Content, content \in Seq(Content),
           l.events \subseteq Id, ChainIn(content, l, c.author), ChainLinkHolds(l, c)
    PROVE  c.seq = l.height[c.author] /\ c.prev = l.tip[c.author]
<1> DEFINE a == c.author
<1>1. a \in Author /\ c.seq \in 0..MaxSeq - 1 /\ l.height[a] \in 0..MaxSeq /\ MaxSeq \in Nat /\ c.prev \in Nat
  BY EventLogAssumption DEF Content, Position, Log
<1>2. CASE c.prev = 0
  BY <1>1, <1>2 DEF ChainLinkHolds, ChainIn
<1>3. CASE c.prev # 0
  <2>1. /\ c.prev = l.tip[a] /\ c.prev \in l.events
        /\ content[c.prev].author = a /\ content[c.prev].seq = c.seq - 1
    BY <1>3 DEF ChainLinkHolds
  <2>2. l.height[a] # 0
    BY <1>3, <2>1 DEF ChainIn
  <2>3. l.tip[a] = l.bySeq[a][l.height[a] - 1]
    BY <2>2 DEF ChainIn
  <2>4. l.height[a] - 1 \in 0..l.height[a] - 1
    BY <1>1, <2>2
  <2>5. content[l.bySeq[a][l.height[a] - 1]].seq = l.height[a] - 1
    BY <2>4 DEF ChainIn
  <2> QED
    BY <1>1, <2>1, <2>3, <2>5
<1> QED
  BY <1>2, <1>3

\* ingest() of an admissible event keeps a log typed, signed, closed and its
\* chains whole, over the contents known after the step.
LEMMA AdmittedKeepsLog ==
    ASSUME NEW l \in Log, NEW id, NEW ct, NEW c \in Content,
           content \in Seq(Content), ct \in Seq(Content),
           Id \subseteq DOMAIN ct, \A i \in Id : ct[i] = content[i],
           id \in DOMAIN ct, ct[id] = c, id \notin l.events,
           l.events \subseteq Id, ClosedIn(content, l),
           \A a \in Author : ChainIn(content, l, a),
           Admissible(l, c)
    PROVE  /\ Admitted(l, id, c) \in Log
           /\ Admitted(l, id, c).events \subseteq DOMAIN ct
           /\ ClosedIn(ct, Admitted(l, id, c))
           /\ \A a \in Author : ChainIn(ct, Admitted(l, id, c), a)
<1> DEFINE m == Admitted(l, id, c)
           b == c.author
<1>1. /\ b \in Author /\ c.seq \in Position /\ c.seq \in 0..MaxSeq - 1 /\ MaxSeq \in Nat
      /\ c.prev \in Nat /\ c.parents \subseteq Nat
  BY EventLogAssumption DEF Content, Position
<1>2. /\ l.events \subseteq Nat /\ l.height \in [Author -> 0..MaxSeq] /\ l.tip \in [Author -> Nat]
      /\ l.bySeq \in [Author -> [Position -> Nat]]
  BY DEF Log
<1>3. id \in Nat
  OBVIOUS
<1>4. c.seq = l.height[b] /\ c.prev = l.tip[b]
  BY <1>1, AdmissibleAtHeight DEF Admissible
<1>5. /\ m.events = l.events \cup {id}
      /\ m.height = [l.height EXCEPT ![b] = c.seq + 1]
      /\ m.tip = [l.tip EXCEPT ![b] = id]
      /\ m.bySeq = [l.bySeq EXCEPT ![b] = [@ EXCEPT ![c.seq] = id]]
  BY DEF Admitted, Log
<1>6. m \in Log
  <2>1. m.height \in [Author -> 0..MaxSeq]
    BY <1>1, <1>2, <1>5
  <2>2. m.tip \in [Author -> Nat] /\ m.bySeq \in [Author -> [Position -> Nat]]
    BY <1>1, <1>2, <1>3, <1>5
  <2> QED
    BY <1>2, <1>3, <1>5, <2>1, <2>2 DEF Admitted, Log
<1>7. m.events \subseteq DOMAIN ct
  BY <1>5
<1>8. ClosedIn(ct, m)
  <2> SUFFICES ASSUME NEW i \in m.events
               PROVE  ct[i].prev \in m.events \cup {0} /\ ct[i].parents \subseteq m.events
    BY DEF ClosedIn
  <2>1. CASE i \in l.events
    BY <1>5, <2>1 DEF ClosedIn
  <2>2. CASE i = id
    <3>1. c.prev \in l.events \cup {0}
      BY DEF Admissible, ChainLinkHolds
    <3>2. c.parents \subseteq l.events
      BY DEF Admissible, ParentsHold
    <3> QED
      BY <1>5, <2>2, <3>1, <3>2
  <2> QED
    BY <1>5, <2>1, <2>2
<1>9. ASSUME NEW a \in Author PROVE ChainIn(ct, m, a)
  <2>1. CASE a # b
    <3>1. m.height[a] = l.height[a] /\ m.tip[a] = l.tip[a] /\ m.bySeq[a] = l.bySeq[a]
      BY <1>2, <1>5, <2>1
    <3>2. \A i \in m.events : ct[i].author = a => i \in l.events /\ ct[i] = content[i]
      BY <1>5, <2>1
    <3>3. \A i \in m.events : ct[i].author = a => ct[i].seq < m.height[a] /\ m.bySeq[a][ct[i].seq] = i
      BY <3>1, <3>2 DEF ChainIn
    <3>4. ASSUME NEW n \in 0..m.height[a] - 1
          PROVE  /\ m.bySeq[a][n] \in m.events
                 /\ ct[m.bySeq[a][n]].author = a
                 /\ ct[m.bySeq[a][n]].seq = n
                 /\ ct[m.bySeq[a][n]].prev = IF n = 0 THEN 0 ELSE m.bySeq[a][n - 1]
      <4>1. ChainIn(content, l, a) /\ n \in 0..l.height[a] - 1
        BY <3>1
      <4>2. /\ l.bySeq[a][n] \in l.events
            /\ content[l.bySeq[a][n]].author = a
            /\ content[l.bySeq[a][n]].seq = n
            /\ content[l.bySeq[a][n]].prev = IF n = 0 THEN 0 ELSE l.bySeq[a][n - 1]
        BY <4>1 DEF ChainIn
      <4>3. ct[l.bySeq[a][n]] = content[l.bySeq[a][n]]
        BY <4>2
      <4> QED
        BY <1>5, <3>1, <4>2, <4>3
    <3>5. m.tip[a] = IF m.height[a] = 0 THEN 0 ELSE m.bySeq[a][m.height[a] - 1]
      BY <3>1 DEF ChainIn
    <3> QED
      BY <3>3, <3>4, <3>5 DEF ChainIn
  <2>2. CASE a = b
    <3>1. m.height[a] = c.seq + 1 /\ m.tip[a] = id /\ m.bySeq[a][c.seq] = id
      BY <1>1, <1>2, <1>5, <2>2
    <3>2. ASSUME NEW n \in Position, n # c.seq PROVE m.bySeq[a][n] = l.bySeq[a][n]
      BY <1>1, <1>2, <1>5, <2>2, <3>2
    <3>3. ASSUME NEW i \in m.events, ct[i].author = a
          PROVE  ct[i].seq < m.height[a] /\ m.bySeq[a][ct[i].seq] = i
      <4>1. CASE i = id
        BY <1>1, <3>1, <4>1
      <4>2. CASE i # id
        <5>1. i \in l.events /\ ct[i] = content[i] /\ content[i] \in Content
          BY <1>5, <4>2
        <5>2. content[i].seq < l.height[a] /\ l.bySeq[a][content[i].seq] = i
          BY <3>3, <5>1 DEF ChainIn
        <5>3. content[i].seq \in Position /\ content[i].seq \in Nat
          BY <1>1, <5>1 DEF Content, Position
        <5> QED
          BY <1>1, <1>4, <2>2, <3>1, <3>2, <5>1, <5>2, <5>3
      <4> QED
        BY <4>1, <4>2
    <3>4. ASSUME NEW n \in 0..m.height[a] - 1
          PROVE  /\ m.bySeq[a][n] \in m.events
                 /\ ct[m.bySeq[a][n]].author = a
                 /\ ct[m.bySeq[a][n]].seq = n
                 /\ ct[m.bySeq[a][n]].prev = IF n = 0 THEN 0 ELSE m.bySeq[a][n - 1]
      <4>0. n \in 0..c.seq /\ c.seq \in Nat
        BY <1>1, <3>1
      <4>1. CASE n = c.seq
        <5>1. c.prev = IF n = 0 THEN 0 ELSE l.bySeq[a][n - 1]
          BY <1>4, <2>2, <4>1 DEF ChainIn
        <5>2. n # 0 => n - 1 \in Position /\ n - 1 # c.seq
          BY <1>1, <4>0, <4>1 DEF Position
        <5>3. n # 0 => m.bySeq[a][n - 1] = l.bySeq[a][n - 1]
          BY <3>2, <5>2
        <5> QED
          BY <1>5, <2>2, <3>1, <4>1, <5>1, <5>3
      <4>2. CASE n # c.seq
        <5>1. n \in 0..l.height[a] - 1 /\ n \in Position
          BY <1>1, <1>4, <2>2, <4>0, <4>2 DEF Position
        <5>2. /\ l.bySeq[a][n] \in l.events
              /\ content[l.bySeq[a][n]].author = a
              /\ content[l.bySeq[a][n]].seq = n
              /\ content[l.bySeq[a][n]].prev = IF n = 0 THEN 0 ELSE l.bySeq[a][n - 1]
          BY <5>1 DEF ChainIn
        <5>3. n # 0 => n - 1 \in Position /\ n - 1 # c.seq
          BY <1>1, <4>0, <4>2, <5>1 DEF Position
        <5>4. m.bySeq[a][n] = l.bySeq[a][n] /\ (n # 0 => m.bySeq[a][n - 1] = l.bySeq[a][n - 1])
          BY <3>2, <4>2, <5>1, <5>3
        <5>5. ct[l.bySeq[a][n]] = content[l.bySeq[a][n]]
          BY <5>2
        <5> QED
          BY <1>5, <5>2, <5>4, <5>5
      <4> QED
        BY <4>1, <4>2
    <3>5. m.tip[a] = IF m.height[a] = 0 THEN 0 ELSE m.bySeq[a][m.height[a] - 1]
      BY <1>1, <3>1
    <3> QED
      BY <3>3, <3>4, <3>5 DEF ChainIn
  <2> QED
    BY <2>1, <2>2
<1> QED
  BY <1>6, <1>7, <1>8, <1>9

\* A log that does not change stays as it is when a content is signed.
LEMMA SignedLater ==
    ASSUME NEW l \in Log, NEW ct \in Seq(Content), content \in Seq(Content),
           Id \subseteq DOMAIN ct, \A i \in Id : ct[i] = content[i],
           l.events \subseteq Id, ClosedIn(content, l), \A a \in Author : ChainIn(content, l, a)
    PROVE  /\ l.events \subseteq DOMAIN ct
           /\ ClosedIn(ct, l)
           /\ \A a \in Author : ChainIn(ct, l, a)
<1>1. \A i \in l.events : ct[i] = content[i]
  OBVIOUS
<1>2. ClosedIn(ct, l)
  BY <1>1 DEF ClosedIn
<1>3. ASSUME NEW a \in Author PROVE ChainIn(ct, l, a)
  BY <1>1 DEF ChainIn
<1> QED
  BY <1>2, <1>3

\* A content that a local append signs is a content.
LEMMA NextContentType ==
    ASSUME NEW l \in Log, NEW a \in Author, NEW p \in Payload, l.height[a] < MaxSeq
    PROVE  NextContent(l, a, p) \in Content
<1>1. l.height[a] \in 0..MaxSeq /\ MaxSeq \in Nat /\ l.tip \in [Author -> Nat]
  BY EventLogAssumption DEF Log
<1>2. l.height[a] \in Position
  BY <1>1 DEF Position
<1> QED
  BY <1>1, <1>2 DEF NextContent, Content

\* The log of one replica after a step, over the contents known after it.
LogKept(ct, l) ==
    /\ l \in Log
    /\ l.events \subseteq DOMAIN ct
    /\ ClosedIn(ct, l)
    /\ \A a \in Author : ChainIn(ct, l, a)

\* new(): the empty logs satisfy the invariant.
LEMMA LogInvInit == Init => LogInv
<1> SUFFICES ASSUME Init PROVE LogInv
  OBVIOUS
<1>1. MaxSeq \in Nat \ {0} /\ EmptyLog \in Log
  BY EventLogAssumption DEF EmptyLog, Log, Position
<1>2. TypeOK
  BY <1>1 DEF Init, TypeOK
<1>3. HeldIsSigned /\ CausallyClosed
  BY DEF Init, HeldIsSigned, CausallyClosed, ClosedIn, EmptyLog
<1>4. ChainsAreWhole
  BY DEF Init, ChainsAreWhole, ChainIn, EmptyLog
<1> QED
  BY <1>2, <1>3, <1>4 DEF LogInv

\* ingest() as a whole: admitted, refused or a duplicate, the log stays whole.
LEMMA IngestedKeepsLog ==
    ASSUME LogInv, NEW r \in Replica, NEW id \in Id
    PROVE  LogKept(content, Ingested(log[r], id))
<1>1. /\ content \in Seq(Content) /\ log[r] \in Log /\ log[r].events \subseteq Id
      /\ ClosedIn(content, log[r]) /\ \A a \in Author : ChainIn(content, log[r], a)
      /\ DOMAIN content = Id
  BY DEF LogInv, TypeOK, HeldIsSigned, CausallyClosed, ChainsAreWhole, Id
<1>2. content[id] \in Content
  BY <1>1
<1>3. CASE id \notin log[r].events /\ Admissible(log[r], content[id])
  <2>1. LogKept(content, Admitted(log[r], id, content[id]))
    BY <1>1, <1>2, <1>3, AdmittedKeepsLog DEF LogKept
  <2> QED
    BY <1>3, <2>1 DEF Ingested
<1>4. CASE ~(id \notin log[r].events /\ Admissible(log[r], content[id]))
  BY <1>1, <1>4 DEF Ingested, LogKept
<1> QED
  BY <1>3, <1>4

\* Signing a content leaves the older ones where they were.
LEMMA SignExtends ==
    ASSUME content \in Seq(Content), NEW c \in Content, Sign(c)
    PROVE  /\ content' \in Seq(Content) /\ Id \subseteq DOMAIN content' /\ DOMAIN content' = Id'
           /\ Len(content) + 1 \in DOMAIN content' /\ content'[Len(content) + 1] = c
           /\ \A i \in Id : content'[i] = content[i]
BY DEF Sign, Id

\* Every step of the log keeps the invariant.
LEMMA LogInvNext == LogInv /\ [Next]_vars => LogInv'
<1> SUFFICES ASSUME LogInv, [Next]_vars PROVE LogInv'
  OBVIOUS
<1> USE DEF LogInv
<1>1. /\ content \in Seq(Content) /\ DOMAIN content = Id
      /\ log \in [Replica -> Log]
      /\ \A r \in Replica : LogKept(content, log[r])
  BY DEF TypeOK, HeldIsSigned, CausallyClosed, ChainsAreWhole, LogKept, Id
<1>2. SUFFICES /\ content' \in Seq(Content)
               /\ log' \in [Replica -> Log]
               /\ \A r \in Replica : LogKept(content', log'[r])
  BY DEF TypeOK, HeldIsSigned, CausallyClosed, ChainsAreWhole, LogKept, Id
<1>3. ASSUME NEW c \in Content, Sign(c), NEW r \in Replica PROVE LogKept(content', log[r])
  <2>1. content' \in Seq(Content) /\ Id \subseteq DOMAIN content' /\ \A i \in Id : content'[i] = content[i]
    BY <1>1, <1>3, SignExtends
  <2> QED
    BY <1>1, <2>1, SignedLater DEF LogKept
<1>4. ASSUME NEW a \in Author, NEW n \in Position, NEW v \in Id \cup {0}, NEW ps \in SUBSET Id,
             NEW p \in Payload,
             Publish([author |-> a, seq |-> n, prev |-> v, parents |-> ps, payload |-> p])
      PROVE  /\ content' \in Seq(Content)
             /\ log' \in [Replica -> Log]
             /\ \A r \in Replica : LogKept(content', log'[r])
  <2> DEFINE c == [author |-> a, seq |-> n, prev |-> v, parents |-> ps, payload |-> p]
  <2>1. c \in Content
    BY DEF Content, Id
  <2>2. Sign(c) /\ log' = log
    BY <1>4 DEF Publish
  <2> QED
    BY <1>1, <1>3, <2>1, <2>2, SignExtends
<1>5. ASSUME NEW r \in Replica, NEW id \in Id,
             log' = [log EXCEPT ![r] = Ingested(@, id)], UNCHANGED content
      PROVE  /\ content' \in Seq(Content)
             /\ log' \in [Replica -> Log]
             /\ \A q \in Replica : LogKept(content', log'[q])
  <2>1. LogKept(content, Ingested(log[r], id))
    BY IngestedKeepsLog
  <2> QED
    BY <1>1, <1>5, <2>1 DEF LogKept
<1>6. ASSUME NEW r \in Replica, NEW a \in Author, NEW p \in Payload, AppendLocal(r, a, p)
      PROVE  /\ content' \in Seq(Content)
             /\ log' \in [Replica -> Log]
             /\ \A q \in Replica : LogKept(content', log'[q])
  <2> DEFINE c == NextContent(log[r], a, p)
             n == Len(content) + 1
  <2>1. log[r] \in Log /\ log[r].height[a] < MaxSeq /\ c \in Content
    BY <1>1, <1>6, NextContentType DEF AppendLocal
  <2>2. CASE /\ Sign(c)
             /\ log' = [log EXCEPT ![r] = IF Admissible(@, c) THEN Admitted(@, n, c) ELSE @]
    <3>1. /\ content' \in Seq(Content) /\ Id \subseteq DOMAIN content'
          /\ n \in DOMAIN content' /\ content'[n] = c /\ \A i \in Id : content'[i] = content[i]
      BY <1>1, <2>1, <2>2, SignExtends
    <3>2. n \notin log[r].events
      BY <1>1 DEF LogKept, Id
    <3>3. Admissible(log[r], c) => LogKept(content', Admitted(log[r], n, c))
      <4> SUFFICES ASSUME Admissible(log[r], c) PROVE LogKept(content', Admitted(log[r], n, c))
        OBVIOUS
      <4> HIDE DEF c, n
      <4> QED
        BY <1>1, <2>1, <3>1, <3>2, AdmittedKeepsLog DEF LogKept
    <3>4. \A q \in Replica : LogKept(content', log[q])
      BY <1>3, <2>1, <2>2
    <3>5. log'[r] = IF Admissible(log[r], c) THEN Admitted(log[r], n, c) ELSE log[r]
      BY <1>1, <2>2
    <3>6. \A q \in Replica \ {r} : log'[q] = log[q]
      BY <1>1, <2>2
    <3>7. \A q \in Replica : LogKept(content', log'[q])
      BY <3>3, <3>4, <3>5, <3>6
    <3>8. log' \in [Replica -> Log]
      BY <1>1, <2>2, <3>3, <3>5 DEF LogKept
    <3> QED
      BY <3>1, <3>7, <3>8
  <2>3. CASE \E id \in Id : /\ content[id] = c
                            /\ log' = [log EXCEPT ![r] = Ingested(@, id)]
                            /\ UNCHANGED content
    BY <1>5, <2>3
  <2> QED
    BY <1>6, <2>2, <2>3 DEF AppendLocal
<1>7. CASE UNCHANGED vars
  BY <1>1, <1>7 DEF vars
<1> QED
  BY <1>4, <1>5, <1>6, <1>7 DEF Next, Ingest

\* ingest(), append() and whatever is published: for every number of replicas
\* and authors, chains are whole and the causal past is held.
THEOREM LogInvariant == Spec => []LogInv
  BY LogInvInit, LogInvNext, PTL DEF Spec

\* The event a replica authors next extends its own chain and sees held events.
LEMMA AppendValid == LogInv => LocalAppendAdmitted
<1> SUFFICES ASSUME LogInv, NEW r \in Replica, NEW a \in Author, NEW p \in Payload
             PROVE  Admissible(log[r], NextContent(log[r], a, p))
  BY DEF LocalAppendAdmitted
<1> DEFINE l == log[r]
           c == NextContent(l, a, p)
<1>1. /\ l \in Log /\ l.events \subseteq Id /\ content \in Seq(Content)
      /\ \A b \in Author : ChainIn(content, l, b)
  BY DEF LogInv, TypeOK, HeldIsSigned, ChainsAreWhole
<1>2. ASSUME NEW b \in Author, l.tip[b] # 0
      PROVE  /\ l.tip[b] \in l.events /\ content[l.tip[b]].author = b
             /\ content[l.tip[b]].seq = l.height[b] - 1 /\ l.height[b] # 0
  <2>1. l.height[b] \in 0..MaxSeq /\ MaxSeq \in Nat
    BY <1>1, EventLogAssumption DEF Log
  <2>2. l.height[b] # 0 /\ l.tip[b] = l.bySeq[b][l.height[b] - 1]
    BY <1>1, <1>2 DEF ChainIn
  <2>3. l.height[b] - 1 \in 0..l.height[b] - 1
    BY <2>1, <2>2
  <2> QED
    BY <1>1, <2>2, <2>3 DEF ChainIn
<1>3. l.tip[a] = 0 => l.height[a] = 0
  <2> SUFFICES ASSUME l.height[a] # 0 PROVE l.tip[a] # 0
    OBVIOUS
  <2>1. l.height[a] \in 0..MaxSeq /\ MaxSeq \in Nat
    BY <1>1, EventLogAssumption DEF Log
  <2>2. l.height[a] - 1 \in 0..l.height[a] - 1
    BY <2>1
  <2>3. l.tip[a] \in l.events
    BY <1>1, <2>2 DEF ChainIn
  <2> QED
    BY <1>1, <2>3 DEF Id
<1>4. c.author = a /\ c.seq = l.height[a] /\ c.prev = l.tip[a]
  BY DEF NextContent
<1>5. c.parents = {l.tip[b] : b \in {x \in Author \ {a} : l.tip[x] # 0}}
  BY DEF NextContent
<1> HIDE DEF c
<1>6. ChainLinkHolds(l, c)
  BY <1>2, <1>3, <1>4 DEF ChainLinkHolds
<1>7. ParentsHold(l, c)
  BY <1>2, <1>4, <1>5 DEF ParentsHold
<1> QED
  BY <1>6, <1>7 DEF Admissible, c

\* The expect() in append() never fires: the event a replica authors next is
\* admissible in every reachable state.
THEOREM AppendAlwaysValid == Spec => []LocalAppendAdmitted
  BY AppendValid, LogInvInit, LogInvNext, PTL DEF Spec

\* Admission adds one event at the end of one chain and moves nothing.
LEMMA AdmittedGrows ==
    ASSUME NEW l \in Log, NEW id, NEW c \in Content, NEW a \in Author,
           content \in Seq(Content), l.events \subseteq Id,
           \A b \in Author : ChainIn(content, l, b), Admissible(l, c)
    PROVE  /\ l.events \subseteq Admitted(l, id, c).events
           /\ Admitted(l, id, c).height[a] >= l.height[a]
           /\ \A n \in 0..l.height[a] - 1 : Admitted(l, id, c).bySeq[a][n] = l.bySeq[a][n]
<1> DEFINE m == Admitted(l, id, c)
<1>1. /\ c.author \in Author /\ c.seq \in Position /\ MaxSeq \in Nat
      /\ l.height \in [Author -> 0..MaxSeq] /\ l.bySeq \in [Author -> [Position -> Nat]]
  BY EventLogAssumption DEF Content, Log
<1>2. c.seq = l.height[c.author]
  BY <1>1, AdmissibleAtHeight DEF Admissible
<1>3. /\ m.events = l.events \cup {id}
      /\ m.height = [l.height EXCEPT ![c.author] = c.seq + 1]
      /\ m.bySeq = [l.bySeq EXCEPT ![c.author] = [@ EXCEPT ![c.seq] = id]]
  BY DEF Admitted, Log
<1>4. m.height[a] >= l.height[a]
  BY <1>1, <1>2, <1>3
<1>5. ASSUME NEW n \in 0..l.height[a] - 1 PROVE m.bySeq[a][n] = l.bySeq[a][n]
  <2>1. CASE a # c.author
    BY <1>1, <1>3, <2>1
  <2>2. CASE a = c.author
    <3>1. n \in Position /\ n # c.seq
      BY <1>1, <1>2, <2>2 DEF Position
    <3> QED
      BY <1>1, <1>3, <2>2, <3>1
  <2> QED
    BY <2>1, <2>2
<1> QED
  BY <1>3, <1>4, <1>5

\* No step of any replica drops an event, skips a position or moves one.
THEOREM LogOnlyGrows == Spec => ChainsOnlyGrow
<1> DEFINE Grows(l, m, a) ==
              /\ l.events \subseteq m.events
              /\ m.height[a] >= l.height[a]
              /\ \A n \in 0..l.height[a] - 1 : m.bySeq[a][n] = l.bySeq[a][n]
<1>1. ASSUME LogInv, [Next]_vars, NEW r \in Replica, NEW a \in Author
      PROVE  Grows(log[r], log'[r], a)
  <2>1. /\ content \in Seq(Content) /\ log \in [Replica -> Log] /\ DOMAIN content = Id
        /\ \A q \in Replica : log[q].events \subseteq Id /\ \A b \in Author : ChainIn(content, log[q], b)
    BY <1>1 DEF LogInv, TypeOK, HeldIsSigned, ChainsAreWhole, Id
  <2>2. Grows(log[r], log[r], a)
    BY <2>1, EventLogAssumption DEF Log
  <2>3. ASSUME NEW id, NEW c \in Content, Admissible(log[r], c)
        PROVE  Grows(log[r], Admitted(log[r], id, c), a)
    BY <2>1, <2>3, AdmittedGrows
  <2> HIDE DEF Grows
  <2>4. ASSUME NEW q \in Replica, NEW id \in Id, log' = [log EXCEPT ![q] = Ingested(@, id)]
        PROVE  Grows(log[r], log'[r], a)
    <3>1. content[id] \in Content
      BY <2>1
    <3>2. log'[r] = IF q = r THEN Ingested(log[r], id) ELSE log[r]
      BY <2>1, <2>4
    <3> QED
      BY <2>2, <2>3, <3>1, <3>2 DEF Ingested
  <2>5. ASSUME NEW q \in Replica, NEW b \in Author, NEW p \in Payload, AppendLocal(q, b, p)
        PROVE  Grows(log[r], log'[r], a)
    <3> DEFINE c == NextContent(log[q], b, p)
    <3>1. c \in Content
      BY <2>1, <2>5, NextContentType DEF AppendLocal
    <3>2. CASE log' = [log EXCEPT ![q] = IF Admissible(@, c) THEN Admitted(@, Len(content) + 1, c) ELSE @]
      <4>1. log'[r] = IF q = r /\ Admissible(log[r], c) THEN Admitted(log[r], Len(content) + 1, c) ELSE log[r]
        BY <2>1, <3>2
      <4> QED
        BY <2>2, <2>3, <3>1, <4>1
    <3>3. CASE \E id \in Id : log' = [log EXCEPT ![q] = Ingested(@, id)]
      BY <2>4, <3>3
    <3> QED
      BY <2>5, <3>2, <3>3 DEF AppendLocal
  <2>6. CASE UNCHANGED log
    BY <2>2, <2>6
  <2> QED
    BY <1>1, <2>4, <2>5, <2>6 DEF Next, Publish, Ingest, vars
<1>2. LogInv /\ [Next]_vars => [\A r \in Replica, a \in Author :
          /\ log[r].events \subseteq log'[r].events
          /\ log'[r].height[a] >= log[r].height[a]
          /\ \A n \in 0..log[r].height[a] - 1 : log'[r].bySeq[a][n] = log[r].bySeq[a][n]]_vars
  BY <1>1
<1> QED
  BY <1>2, LogInvInit, LogInvNext, PTL DEF Spec, ChainsOnlyGrow

-----------------------------------------------------------------------------
(* What leaves a replica: the missing events, causes first.                  *)

\* A sequence is over the members it has.
LEMMA SeqNarrows ==
    ASSUME NEW X, NEW s \in Seq(X), NEW Y, \A j \in 1..Len(s) : s[j] \in Y
    PROVE  s \in Seq(Y)
  OBVIOUS

\* A set of ids in the order of their hashes holds these ids and no others.
LEMMA InHashOrderHolds ==
    ASSUME NEW M \in SUBSET (1..MaxEvents)
    PROVE  /\ InHashOrder(M) \in Seq(M)
           /\ \A id \in M : \E j \in 1..Len(InHashOrder(M)) : InHashOrder(M)[j] = id
  <1> DEFINE X == 1..MaxEvents
             N == Len(HashOrder)
             P == {i \in 1..N : HashOrder[i] \in M}
             IsUpto(f) == f = [i \in 0..N |-> IF i = 0 THEN <<>>
                                  ELSE IF HashOrder[i] \in M THEN Append(f[i - 1], HashOrder[i]) ELSE f[i - 1]]
             g == CHOOSE f : IsUpto(f)
             s == g[N]
  <1>1. InHashOrder(M) = s
    BY DEF InHashOrder
  <1>2. N \in Nat /\ HashOrder \in Seq(X) /\ \A x \in X : \E i \in 1..N : HashOrder[i] = x
    BY AntiEntropyAssumption DEF Range
  <1> HIDE DEF N, X
  <1>3. \A i \in 0..N : i # 0 => (i \in P <=> HashOrder[i] \in M)
    BY <1>2
  <1>4. \A i \in 1..N : i \in P <=> HashOrder[i] \in M
    OBVIOUS
  <1> HIDE DEF P
  <1>5. \A f : IsSelection(HashOrder, P, f) <=> IsUpto(f)
    BY <1>3 DEF IsSelection, N
  <1>6. IsSelection(HashOrder, P, g)
    BY <1>2, <1>5, SelectionExists
  <1> HIDE DEF g, IsUpto
  <1>7. /\ s \in Seq(X)
        /\ \A j \in 1..Len(s) : \E i \in 1..N : i \in P /\ s[j] = HashOrder[i]
        /\ \A i \in 1..N : i \in P => \E j \in 1..Len(s) : s[j] = HashOrder[i]
    BY ONLY <1>2, <1>6, SelectionIs DEF N, s
  <1> HIDE DEF s
  <1>8. s \in Seq(M)
    <2>1. \A j \in 1..Len(s) : s[j] \in M
      BY <1>4, <1>7
    <2> QED BY ONLY <1>7, <2>1, SeqNarrows
  <1>9. \A id \in M : \E j \in 1..Len(s) : s[j] = id
    BY <1>2, <1>4, <1>7 DEF X
  <1> QED BY <1>1, <1>8, <1>9

\* One id after the other is emitted: the outputs in between, all of them of
\* the kind that emission keeps.
Outputs(emit, out, ids, g) ==
    /\ g[0] = out
    /\ \A i \in 1..Len(ids) : g[i] = emit[<<ids[i], g[i - 1]>>]

\* The outputs exist, and the last one is what is emitted.
LEMMA EachRuns ==
    ASSUME NEW Q, NEW emit, NEW X, NEW ids \in Seq(X), NEW out \in Q,
           \A i \in 1..Len(ids) : \A q \in Q : emit[<<ids[i], q>>] \in Q
    PROVE  \E g : /\ Outputs(emit, out, ids, g)
                  /\ \A i \in 0..Len(ids) : g[i] \in Q
                  /\ EmitEach(emit, out, ids) = g[Len(ids)]
  <1> DEFINE N == Len(ids)
             F == [x \in Q \X (1..N) |-> emit[<<ids[x[2]], x[1]>>]]
             IsAfter(f) == f = [i \in 0..N |-> IF i = 0 THEN out ELSE emit[<<ids[i], f[i - 1]>>]]
             g == CHOOSE f : IsAfter(f)
  <1>1. EmitEach(emit, out, ids) = g[N]
    BY DEF EmitEach
  <1>2. N \in Nat
    OBVIOUS
  <1> HIDE DEF N
  <1>3. \A q \in Q : \A i \in 1..N : F[<<q, i>>] = emit[<<ids[i], q>>] /\ F[<<q, i>>] \in Q
    BY DEF N
  <1> HIDE DEF F
  <1>4. PICK f : IterateMap(F, out, N, f)
    BY <1>2, IterateExists
  <1>5. \A i \in 0..N : f[i] \in Q
    BY ONLY <1>2, <1>3, <1>4, out \in Q, IterateStays
  <1>6. \A i \in 0..N : i # 0 => i - 1 \in 0..N /\ i \in 1..N
    BY <1>2
  <1>7. f = [i \in 0..N |-> IF i = 0 THEN out ELSE F[<<f[i - 1], i>>]]
    BY <1>4 DEF IterateMap
  <1>8. \A i \in 0..N : i # 0 => F[<<f[i - 1], i>>] = emit[<<ids[i], f[i - 1]>>]
    BY <1>3, <1>5, <1>6
  <1>9. IsAfter(f)
    BY <1>7, <1>8
  <1>10. IsAfter(g)
    BY <1>9
  <1> HIDE DEF g
  <1>11. g[0] = out /\ \A i \in 1..N : g[i] = emit[<<ids[i], g[i - 1]>>]
    <2>1. \A i \in 0..N : g[i] = IF i = 0 THEN out ELSE emit[<<ids[i], g[i - 1]>>]
      BY <1>10
    <2>2. 0 \in 0..N /\ \A i \in 1..N : i \in 0..N /\ i # 0
      BY <1>2
    <2> QED BY <2>1, <2>2
  <1>12. \A i \in 0..N : g[i] \in Q
    <2> DEFINE T == {i \in 0..N : g[i] \in Q}
    <2>1. 0 \in T
      BY <1>2, <1>11
    <2>2. ASSUME NEW k \in 0..N, k # N, k \in T
          PROVE  k + 1 \in T
      <3>1. k + 1 \in 1..N /\ k + 1 \in 0..N /\ (k + 1) - 1 = k
        BY <1>2, <2>2
      <3>2. g[k + 1] = emit[<<ids[k + 1], g[k]>>]
        BY <1>11, <3>1
      <3> QED BY <2>2, <3>1, <3>2 DEF N
    <2> HIDE DEF T
    <2>3. \A k \in 0..N : k \in T
      BY <1>2, <2>1, <2>2, InductionUpTo
    <2> QED BY <2>3 DEF T
  <1> QED BY <1>1, <1>11, <1>12 DEF N, Outputs

\* What is emitted depends on how the ids themselves are emitted only.
LEMMA EachSame ==
    ASSUME NEW Q, NEW emit, NEW other, NEW X, NEW ids \in Seq(X), NEW out \in Q,
           \A i \in 1..Len(ids) : \A q \in Q : emit[<<ids[i], q>>] \in Q,
           \A i \in 1..Len(ids) : \A q \in Q : other[<<ids[i], q>>] = emit[<<ids[i], q>>]
    PROVE  EmitEach(other, out, ids) = EmitEach(emit, out, ids)
  <1> DEFINE N == Len(ids)
  <1>1. PICK g : /\ Outputs(emit, out, ids, g) /\ \A i \in 0..N : g[i] \in Q
                 /\ EmitEach(emit, out, ids) = g[N]
    BY EachRuns
  <1>2. \A i \in 1..Len(ids) : \A q \in Q : other[<<ids[i], q>>] \in Q
    OBVIOUS
  <1>3. PICK h : /\ Outputs(other, out, ids, h) /\ EmitEach(other, out, ids) = h[N]
    BY ONLY <1>2, ids \in Seq(X), out \in Q, EachRuns
  <1>4. N \in Nat
    OBVIOUS
  <1> DEFINE T == {i \in 0..N : g[i] = h[i]}
  <1>5. 0 \in T
    BY <1>1, <1>3, <1>4 DEF Outputs
  <1>6. ASSUME NEW k \in 0..N, k # N, k \in T
        PROVE  k + 1 \in T
    <2>1. k + 1 \in 1..N /\ k + 1 \in 0..N /\ (k + 1) - 1 = k
      BY <1>4, <1>6
    <2>2. g[k + 1] = emit[<<ids[k + 1], g[k]>>] /\ h[k + 1] = other[<<ids[k + 1], h[k]>>]
      BY <1>1, <1>3, <2>1 DEF Outputs
    <2> QED BY <1>1, <1>6, <2>1, <2>2
  <1> HIDE DEF T
  <1>7. \A k \in 0..N : k \in T
    BY <1>4, <1>5, <1>6, InductionUpTo
  <1>8. N \in 0..N
    BY <1>4
  <1> QED BY <1>1, <1>3, <1>7, <1>8 DEF T

\* Contents link to contents that were signed before.
LinksOlder(ct) == \A i \in DOMAIN ct : ct[i].prev < i /\ \A p \in ct[i].parents : p < i

\* The ids an event links to; 0 is none.
Linked(ct, id) == {ct[id].prev} \cup ct[id].parents

\* The contents that sync relies on.
SyncBase ==
    /\ content \in Seq(Content) /\ Len(content) <= MaxEvents /\ LinksOlder(content)

\* The links within a set are older members of it, and all of them.
LEMMA LinksInAre ==
    ASSUME SyncBase, NEW M \in SUBSET Id, NEW id \in M
    PROVE  /\ LinksIn(M, id) \in Seq({x \in M : x < id})
           /\ \A x \in M \cap Linked(content, id) : \E j \in 1..Len(LinksIn(M, id)) : LinksIn(M, id)[j] = x
  <1> DEFINE p == content[id].prev
             B == content[id].parents \cap M
             older == {x \in M : x < id}
             s == InHashOrder(B)
             q == IF p \in M THEN <<p>> ELSE <<>>
  <1>1. B \in SUBSET (1..MaxEvents) /\ \A x \in M : x \in Nat
    <2>1. Len(content) \in Nat /\ MaxEvents \in Nat /\ Len(content) <= MaxEvents
      BY EventLogAssumption DEF SyncBase
    <2>2. \A x \in M : x \in 1..Len(content)
      BY DEF Id
    <2>3. \A x \in M : x \in 1..MaxEvents /\ x \in Nat
      BY <2>1, <2>2
    <2> QED BY <2>3
  <1>2. p < id /\ \A x \in B : x < id
    BY DEF SyncBase, LinksOlder, Id
  <1>3. s \in Seq(B) /\ \A x \in B : \E j \in 1..Len(s) : s[j] = x
    BY ONLY <1>1, InHashOrderHolds
  <1>4. LinksIn(M, id) = q \o s
    BY DEF LinksIn
  <1>5. B \subseteq older
    BY <1>2
  <1>6. s \in Seq(older)
    BY <1>3, <1>5
  <1>7. q \in Seq(older) /\ (p \in M => Len(q) = 1 /\ q[1] = p)
    BY <1>2
  <1>8. M \cap Linked(content, id) \subseteq B \cup {x \in M : x = p}
    BY DEF Linked
  <1>9. /\ q \o s \in Seq(older) /\ Len(q \o s) = Len(q) + Len(s) /\ Len(q) \in Nat /\ Len(s) \in Nat
        /\ \A j \in 1..Len(q) : (q \o s)[j] = q[j]
        /\ \A j \in 1..Len(s) : (q \o s)[Len(q) + j] = s[j]
    <2> HIDE DEF q, s, older
    <2> QED BY <1>6, <1>7
  <1> HIDE DEF q, s, B, p
  <1>10. ASSUME NEW x \in M \cap Linked(content, id)
         PROVE  \E j \in 1..Len(q \o s) : (q \o s)[j] = x
    <2>1. CASE x \in B
      <3>1. PICK j \in 1..Len(s) : s[j] = x
        BY <1>3, <2>1
      <3>2. Len(q) + j \in 1..Len(q \o s) /\ (q \o s)[Len(q) + j] = x
        BY <1>9, <3>1
      <3> QED BY <3>2
    <2>2. CASE x = p
      <3>1. Len(q) = 1 /\ q[1] = x
        BY <1>7, <2>2
      <3>2. 1 \in 1..Len(q) /\ 1 \in 1..Len(q \o s)
        BY <1>9, <3>1
      <3> QED BY <1>9, <3>1, <3>2
    <2> QED BY <1>8, <2>1, <2>2
  <1> QED BY <1>4, <1>9, <1>10

\* How emit_in_causal_order emits the members of D.
EmitsOn(M, D, f) ==
    f = [x \in D \X Seq(M) |->
            IF x[1] \in Range(x[2]) THEN x[2]
            ELSE Append(EmitEach(f, x[2], LinksIn(M, x[1])), x[1])]

\* The recursion of emit_in_causal_order ends, because links name older events.
LEMMA EmitExists ==
    ASSUME SyncBase, NEW M \in SUBSET Id
    PROVE  \E f : EmitsOn(M, M, f)
  <1> DEFINE D(n) == {i \in M : i <= n}
             Into(n, f) == \A i \in D(n) : \A q \in Seq(M) : f[<<i, q>>] \in Seq(M)
             T == {n \in Nat : \E f : EmitsOn(M, D(n), f) /\ Into(n, f)}
  <1>0. \A i \in M : i \in Nat /\ i # 0
    BY DEF Id
  <1>1. 0 \in T
    <2>1. D(0) = {}
      BY <1>0
    <2> DEFINE f == [x \in D(0) \X Seq(M) |-> <<>>]
    <2>2. EmitsOn(M, D(0), f) /\ Into(0, f)
      BY <2>1 DEF EmitsOn
    <2> QED BY <2>2
  <1>2. ASSUME NEW n \in Nat, n \in T
        PROVE  n + 1 \in T
    <2>1. PICK f : EmitsOn(M, D(n), f) /\ Into(n, f)
      BY <1>2
    <2> DEFINE Step(h, i, q) == IF i \in Range(q) THEN q ELSE Append(EmitEach(h, q, LinksIn(M, i)), i)
               g == [x \in D(n + 1) \X Seq(M) |-> Step(f, x[1], x[2])]
    <2>2. \A i \in D(n) : i \in D(n + 1)
      BY <1>0
    <2>3. \A i \in D(n + 1) : \A q \in Seq(M) : g[<<i, q>>] = Step(f, i, q)
      OBVIOUS
    <2>4. \A i \in D(n) : \A q \in Seq(M) : f[<<i, q>>] = Step(f, i, q)
      <3> HIDE DEF D
      <3>1. f = [x \in D(n) \X Seq(M) |-> Step(f, x[1], x[2])]
        BY <2>1 DEF EmitsOn
      <3> TAKE i \in D(n)
      <3> TAKE q \in Seq(M)
      <3>2. <<i, q>> \in D(n) \X Seq(M) /\ <<i, q>>[1] = i /\ <<i, q>>[2] = q
        OBVIOUS
      <3>3. f[<<i, q>>] = Step(f, <<i, q>>[1], <<i, q>>[2])
        <4> HIDE DEF Step
        <4> QED BY <3>1, <3>2
      <3> QED BY <3>2, <3>3
    <2>5. \A i \in D(n) : \A q \in Seq(M) : g[<<i, q>>] = f[<<i, q>>]
      BY <2>2, <2>3, <2>4
    <2> HIDE DEF g
    <2>6. ASSUME NEW i \in D(n + 1), NEW q \in Seq(M)
          PROVE  /\ EmitEach(g, q, LinksIn(M, i)) = EmitEach(f, q, LinksIn(M, i))
                 /\ EmitEach(f, q, LinksIn(M, i)) \in Seq(M)
      <3> DEFINE ids == LinksIn(M, i)
      <3>1. i \in M /\ ids \in Seq({x \in M : x < i})
        BY LinksInAre
      <3>2. {x \in M : x < i} \subseteq D(n)
        BY <1>0
      <3> HIDE DEF ids
      <3>3. ids \in Seq(M) /\ \A j \in 1..Len(ids) : ids[j] \in D(n)
        BY <3>1, <3>2
      <3> HIDE DEF D
      <3>4. \A j \in 1..Len(ids) : \A r \in Seq(M) : f[<<ids[j], r>>] \in Seq(M)
        BY <2>1, <3>3
      <3>5. \A j \in 1..Len(ids) : \A r \in Seq(M) : g[<<ids[j], r>>] = f[<<ids[j], r>>]
        BY <2>5, <3>3
      <3>6. q \in Seq(M)
        OBVIOUS
      <3>7. EmitEach(g, q, ids) = EmitEach(f, q, ids)
        <4> DEFINE Q == Seq(M)
        <4>1. /\ q \in Q /\ ids \in Seq(M)
              /\ \A j \in 1..Len(ids) : \A r \in Q : f[<<ids[j], r>>] \in Q
              /\ \A j \in 1..Len(ids) : \A r \in Q : g[<<ids[j], r>>] = f[<<ids[j], r>>]
          BY <3>3, <3>4, <3>5
        <4> HIDE DEF Q
        <4> QED BY ONLY <4>1, EachSame
      <3>8. PICK h : (\A j \in 0..Len(ids) : h[j] \in Seq(M)) /\ EmitEach(f, q, ids) = h[Len(ids)]
        BY ONLY <3>3, <3>4, <3>6, EachRuns
      <3>9. Len(ids) \in 0..Len(ids)
        BY <3>3
      <3> QED BY <3>7, <3>8, <3>9 DEF ids
    <2>7. \A i \in D(n + 1) : \A q \in Seq(M) : Step(g, i, q) = Step(f, i, q) /\ Step(f, i, q) \in Seq(M)
      BY <2>6
    <2> HIDE DEF Step
    <2>8. EmitsOn(M, D(n + 1), g)
      <3> HIDE DEF D
      <3>1. \A x \in D(n + 1) \X Seq(M) : Step(g, x[1], x[2]) = Step(f, x[1], x[2])
        BY <2>7
      <3>2. g = [x \in D(n + 1) \X Seq(M) |-> Step(g, x[1], x[2])]
        BY <3>1 DEF g
      <3> QED BY <3>2 DEF EmitsOn, Step
    <2>9. Into(n + 1, g)
      BY <2>3, <2>7
    <2> HIDE DEF Into, D
    <2>10. \E h : EmitsOn(M, D(n + 1), h) /\ Into(n + 1, h)
      BY <2>8, <2>9
    <2> QED BY <2>10
  <1> HIDE DEF T
  <1>3. Nat \subseteq T
    BY <1>1, <1>2, InductionOnNat
  <1>4. Len(content) \in Nat /\ D(Len(content)) = M
    <2>1. Len(content) \in Nat
      BY DEF SyncBase
    <2>2. \A i \in M : i <= Len(content)
      BY <2>1 DEF Id
    <2> QED BY <2>1, <2>2
  <1>5. Len(content) \in T
    BY <1>3, <1>4
  <1>6. \E f : EmitsOn(M, D(Len(content)), f)
    BY <1>5 DEF T
  <1> QED BY <1>4, <1>6

\* The members of a sequence.
LEMMA InRange ==
    ASSUME NEW X, NEW s \in Seq(X)
    PROVE  \A x : x \in Range(s) <=> \E j \in 1..Len(s) : s[j] = x
  BY DEF Range

\* Outputs in which the causes among M come first.
CausesFirst(M, out) ==
    \A k \in 1..Len(out) : \A x \in M \cap Linked(content, out[k]) : \E j \in 1..k - 1 : out[j] = x

InOrder(M) == {out \in Seq(M) : CausesFirst(M, out)}

\* An event whose causes are emitted may follow.
LEMMA AppendInOrder ==
    ASSUME NEW M, NEW mid \in InOrder(M), NEW id \in M, \A x \in M \cap Linked(content, id) : x \in Range(mid)
    PROVE  /\ Append(mid, id) \in InOrder(M)
           /\ Range(mid) \subseteq Range(Append(mid, id)) /\ id \in Range(Append(mid, id))
  <1> DEFINE n == Len(mid)
             res == Append(mid, id)
  <1>1. mid \in Seq(M) /\ CausesFirst(M, mid)
    BY DEF InOrder
  <1>2. /\ n \in Nat /\ res \in Seq(M) /\ Len(res) = n + 1 /\ res[n + 1] = id
        /\ \A j \in 1..n : res[j] = mid[j]
    BY <1>1
  <1> HIDE DEF n, res
  <1>3. ASSUME NEW k \in 1..n + 1, NEW x \in M \cap Linked(content, res[k])
        PROVE  \E j \in 1..k - 1 : res[j] = x
    <2>1. CASE k = n + 1
      <3>1. x \in Range(mid)
        BY <1>2, <1>3, <2>1
      <3>2. PICK j \in 1..n : mid[j] = x
        BY <1>1, <3>1, InRange DEF n
      <3>3. j \in 1..k - 1 /\ res[j] = x
        BY <1>2, <2>1, <3>2
      <3> QED BY <3>3
    <2>2. CASE k # n + 1
      <3>1. k \in 1..n /\ res[k] = mid[k]
        BY <1>2, <2>2
      <3>2. \A y \in M \cap Linked(content, mid[k]) : \E j \in 1..k - 1 : mid[j] = y
        BY <1>1, <3>1 DEF CausesFirst, n
      <3>3. PICK j \in 1..k - 1 : mid[j] = x
        BY <1>3, <3>1, <3>2
      <3>4. j \in 1..n
        BY <1>2, <3>1
      <3> QED BY <1>2, <3>3, <3>4
    <2> QED BY <2>1, <2>2
  <1>4. res \in InOrder(M)
    BY <1>2, <1>3 DEF InOrder, CausesFirst
  <1>5. \A j \in 1..n : j \in 1..n + 1
    BY <1>2
  <1>6. \A x : x \in Range(res) <=> \E j \in 1..n + 1 : res[j] = x
    BY <1>2, InRange
  <1>7. \A x : x \in Range(mid) <=> \E j \in 1..n : mid[j] = x
    BY <1>1, InRange DEF n
  <1>8. n + 1 \in 1..n + 1
    BY <1>2
  <1> QED BY <1>2, <1>4, <1>5, <1>6, <1>7, <1>8 DEF res

\* An id is emitted in order: the output stays in order, keeps what it had and
\* has the id.
EmitsInOrder(M, e, id) ==
    \A out \in InOrder(M) :
        /\ e[<<id, out>>] \in InOrder(M)
        /\ Range(out) \subseteq Range(e[<<id, out>>])
        /\ id \in Range(e[<<id, out>>])

\* So are several, one after the other.
LEMMA EachInOrder ==
    ASSUME NEW M, NEW e, NEW X, NEW ids \in Seq(X), NEW out \in InOrder(M),
           \A i \in 1..Len(ids) : EmitsInOrder(M, e, ids[i])
    PROVE  /\ EmitEach(e, out, ids) \in InOrder(M)
           /\ Range(out) \subseteq Range(EmitEach(e, out, ids))
           /\ \A i \in 1..Len(ids) : ids[i] \in Range(EmitEach(e, out, ids))
  <1> DEFINE N == Len(ids)
             Q == InOrder(M)
  <1>1. \A i \in 1..Len(ids) : \A q \in Q : e[<<ids[i], q>>] \in Q
    BY DEF EmitsInOrder
  <1>q. out \in Q
    OBVIOUS
  <1> HIDE DEF Q
  <1>2. PICK g : /\ Outputs(e, out, ids, g) /\ \A i \in 0..Len(ids) : g[i] \in Q
                 /\ EmitEach(e, out, ids) = g[Len(ids)]
    BY ONLY <1>1, <1>q, ids \in Seq(X), EachRuns
  <1>3. N \in Nat
    OBVIOUS
  <1> DEFINE T == {k \in 0..N : Range(out) \subseteq Range(g[k]) /\ \A i \in 1..k : ids[i] \in Range(g[k])}
  <1>4. 0 \in T
    BY <1>2, <1>3 DEF Outputs
  <1>5. ASSUME NEW k \in 0..N, k # N, k \in T
        PROVE  k + 1 \in T
    <2>1. k + 1 \in 1..N /\ k + 1 \in 0..N /\ (k + 1) - 1 = k
      BY <1>3, <1>5
    <2>2. g[k + 1] = e[<<ids[k + 1], g[k]>>] /\ g[k] \in InOrder(M)
      BY <1>2, <2>1 DEF Outputs, Q
    <2>3. Range(g[k]) \subseteq Range(g[k + 1]) /\ ids[k + 1] \in Range(g[k + 1])
      BY <2>1, <2>2 DEF EmitsInOrder
    <2>4. \A i \in 1..k + 1 : i \in 1..k \/ i = k + 1
      BY <1>3
    <2> QED BY <1>5, <2>1, <2>3, <2>4
  <1> HIDE DEF T
  <1>6. \A k \in 0..N : k \in T
    BY <1>3, <1>4, <1>5, InductionUpTo
  <1>7. N \in 0..N
    BY <1>3
  <1>8. N \in T
    BY <1>6, <1>7
  <1> QED BY <1>2, <1>7, <1>8 DEF T, Q

\* emit_in_causal_order emits every id in order.
LEMMA EmitInOrder ==
    ASSUME SyncBase, NEW M \in SUBSET Id, NEW e, EmitsOn(M, M, e)
    PROVE  \A id \in M : EmitsInOrder(M, e, id)
  <1> DEFINE T == {n \in Nat : \A i \in M : i <= n => EmitsInOrder(M, e, i)}
  <1>0. \A i \in M : i \in Nat /\ i # 0
    BY DEF Id
  <1>1. 0 \in T
    BY <1>0
  <1>2. ASSUME NEW n \in Nat, n \in T
        PROVE  n + 1 \in T
    <2>1. ASSUME NEW i \in M, i = n + 1, NEW out \in InOrder(M)
          PROVE  /\ e[<<i, out>>] \in InOrder(M)
                 /\ Range(out) \subseteq Range(e[<<i, out>>])
                 /\ i \in Range(e[<<i, out>>])
      <3> DEFINE ids == LinksIn(M, i)
                 mid == EmitEach(e, out, ids)
      <3>1. out \in Seq(M)
        BY DEF InOrder
      <3>2. e[<<i, out>>] = IF i \in Range(out) THEN out ELSE Append(mid, i)
        <4>1. <<i, out>> \in M \X Seq(M) /\ <<i, out>>[1] = i /\ <<i, out>>[2] = out
          BY <3>1
        <4> DEFINE Step(j, q) == IF j \in Range(q) THEN q ELSE Append(EmitEach(e, q, LinksIn(M, j)), j)
        <4>2. e = [x \in M \X Seq(M) |-> Step(x[1], x[2])]
          BY DEF EmitsOn
        <4>3. e[<<i, out>>] = Step(<<i, out>>[1], <<i, out>>[2])
          <5> HIDE DEF Step
          <5> QED BY <4>1, <4>2
        <4> QED BY <4>1, <4>3
      <3>3. CASE i \in Range(out)
        BY <3>2, <3>3
      <3>4. CASE i \notin Range(out)
        <4>1. /\ ids \in Seq({x \in M : x < i})
              /\ \A x \in M \cap Linked(content, i) : \E j \in 1..Len(ids) : ids[j] = x
          BY LinksInAre
        <4> HIDE DEF ids
        <4>2. \A j \in 1..Len(ids) : EmitsInOrder(M, e, ids[j])
          <5>1. \A j \in 1..Len(ids) : ids[j] \in M /\ ids[j] < i
            BY <4>1
          <5>2. \A x \in M : x < i => x <= n
            BY <1>0, <2>1
          <5>3. \A x \in M : x <= n => EmitsInOrder(M, e, x)
            BY <1>2
          <5> QED BY <5>1, <5>2, <5>3
        <4>3. /\ mid \in InOrder(M) /\ Range(out) \subseteq Range(mid)
              /\ \A j \in 1..Len(ids) : ids[j] \in Range(mid)
          BY ONLY <4>1, <4>2, <2>1, EachInOrder
        <4> HIDE DEF mid
        <4>4. \A x \in M \cap Linked(content, i) : x \in Range(mid)
          BY <4>1, <4>3
        <4>5. /\ Append(mid, i) \in InOrder(M)
              /\ Range(mid) \subseteq Range(Append(mid, i)) /\ i \in Range(Append(mid, i))
          BY <4>3, <4>4, AppendInOrder
        <4> QED BY <3>2, <3>4, <4>3, <4>5
      <3> QED BY <3>3, <3>4
    <2>2. \A i \in M : i = n + 1 => EmitsInOrder(M, e, i)
      BY <2>1 DEF EmitsInOrder
    <2>3. \A i \in M : i <= n + 1 => i <= n \/ i = n + 1
      BY <1>0
    <2> QED BY <1>2, <2>2, <2>3
  <1> HIDE DEF T
  <1>3. Nat \subseteq T
    BY <1>1, <1>2, InductionOnNat
  <1>4. \A i \in M : i \in T /\ i <= i
    BY <1>0, <1>3
  <1> QED BY <1>4 DEF T

\* What events_missing_from() returns of a set: all of it, causes first.
LEMMA EmittedInOrder ==
    ASSUME SyncBase, NEW M \in SUBSET Id
    PROVE  /\ Emitted(M) \in InOrder(M)
           /\ \A id \in M : id \in Range(Emitted(M))
  <1> DEFINE e == EmitInCausalOrder(M)
             ids == InHashOrder(M)
  <1>1. EmitsOn(M, M, e)
    <2>1. e = CHOOSE f : EmitsOn(M, M, f)
      BY DEF EmitInCausalOrder, EmitsOn
    <2> QED BY <2>1, EmitExists
  <1>2. Emitted(M) = EmitEach(e, <<>>, ids)
    BY DEF Emitted
  <1> HIDE DEF e
  <1>3. \A id \in M : EmitsInOrder(M, e, id)
    BY <1>1, EmitInOrder
  <1>4. ids \in Seq(M) /\ \A id \in M : \E j \in 1..Len(ids) : ids[j] = id
    <2>1. Len(content) \in Nat /\ MaxEvents \in Nat /\ Len(content) <= MaxEvents
      BY EventLogAssumption DEF SyncBase
    <2>2. \A x \in M : x \in 1..Len(content)
      BY DEF Id
    <2>3. \A x \in M : x \in 1..MaxEvents
      BY <2>1, <2>2
    <2>4. M \in SUBSET (1..MaxEvents)
      BY <2>3
    <2> QED BY <2>4, InHashOrderHolds
  <1> HIDE DEF ids
  <1>5. <<>> \in InOrder(M)
    <2>1. <<>> \in Seq(M) /\ Len(<<>>) = 0
      OBVIOUS
    <2> QED BY <2>1 DEF InOrder, CausesFirst
  <1>6. \A j \in 1..Len(ids) : EmitsInOrder(M, e, ids[j])
    BY <1>3, <1>4
  <1>7. /\ EmitEach(e, <<>>, ids) \in InOrder(M)
        /\ \A j \in 1..Len(ids) : ids[j] \in Range(EmitEach(e, <<>>, ids))
    BY ONLY <1>4, <1>5, <1>6, EachInOrder
  <1> QED BY <1>2, <1>4, <1>7

-----------------------------------------------------------------------------
(* What an answer does to a log.                                             *)

\* Every event of a log has its parents with other authors.
ParentsApart(ct, l) == \A id \in l.events : \A p \in ct[id].parents : ct[p].author # ct[id].author

\* A log as the invariant keeps it.
Whole(ct, l) == LogKept(ct, l) /\ ParentsApart(ct, l)

\* One log is the other with more at the ends of its chains.
Grows(l, m) ==
    /\ l.events \subseteq m.events
    /\ \A a \in Author : /\ m.height[a] >= l.height[a]
                         /\ \A n \in 0..l.height[a] - 1 : m.bySeq[a][n] = l.bySeq[a][n]

\* Growth adds up.
LEMMA GrowsOn ==
    ASSUME NEW l \in Log, NEW m \in Log, NEW k \in Log, Grows(l, m), Grows(m, k)
    PROVE  Grows(l, k)
  <1>1. ASSUME NEW a \in Author
        PROVE  /\ k.height[a] >= l.height[a]
               /\ \A n \in 0..l.height[a] - 1 : k.bySeq[a][n] = l.bySeq[a][n]
    <2>1. l.height[a] \in Nat /\ m.height[a] \in Nat /\ k.height[a] \in Nat
      BY EventLogAssumption DEF Log
    <2>2. /\ m.height[a] >= l.height[a] /\ k.height[a] >= m.height[a]
          /\ \A n \in 0..l.height[a] - 1 : m.bySeq[a][n] = l.bySeq[a][n]
          /\ \A n \in 0..m.height[a] - 1 : k.bySeq[a][n] = m.bySeq[a][n]
      BY DEF Grows
    <2>3. \A n \in 0..l.height[a] - 1 : n \in 0..m.height[a] - 1
      BY <2>1, <2>2
    <2> QED BY <2>1, <2>2, <2>3
  <1> QED BY <1>1 DEF Grows

\* A log that does not change has grown by nothing.
LEMMA GrowsSelf ==
    ASSUME NEW l \in Log
    PROVE  Grows(l, l)
  <1>1. \A a \in Author : l.height[a] \in Nat
    BY EventLogAssumption DEF Log
  <1> QED BY <1>1 DEF Grows

\* An admitted event keeps a log whole, over the contents known after the step.
LEMMA AdmittedWhole ==
    ASSUME NEW l, NEW id, NEW ct \in Seq(Content), NEW c \in Content,
           content \in Seq(Content), Whole(content, l),
           Id \subseteq DOMAIN ct, \A i \in Id : ct[i] = content[i],
           id \in DOMAIN ct, ct[id] = c, id \notin l.events, Admissible(l, c)
    PROVE  Whole(ct, Admitted(l, id, c)) /\ Grows(l, Admitted(l, id, c))
  <1> DEFINE m == Admitted(l, id, c)
  <1>1. /\ l \in Log /\ l.events \subseteq Id /\ ClosedIn(content, l)
        /\ \A a \in Author : ChainIn(content, l, a)
        /\ \A i \in l.events : i \in Id
    BY DEF Whole, LogKept, Id
  <1>2. LogKept(ct, m)
    BY <1>1, AdmittedKeepsLog DEF LogKept
  <1>3. m.events = l.events \cup {id}
    BY <1>1 DEF Admitted, Log
  <1>4. ASSUME NEW i \in m.events, NEW p \in ct[i].parents
        PROVE  ct[p].author # ct[i].author
    <2>1. CASE i \in l.events
      <3>1. ct[i] = content[i] /\ p \in l.events
        BY <1>1, <1>4, <2>1 DEF ClosedIn
      <3>2. ct[p] = content[p]
        BY <1>1, <3>1
      <3> QED BY <1>4, <2>1, <3>1, <3>2 DEF Whole, ParentsApart
    <2>2. CASE i = id
      <3>1. p \in l.events /\ content[p].author # c.author
        BY <1>4, <2>2 DEF Admissible, ParentsHold
      <3> QED BY <1>1, <2>2, <3>1
    <2> QED BY <1>3, <2>1, <2>2
  <1>5. Grows(l, m)
    <2>1. \A a \in Author :
             /\ l.events \subseteq m.events /\ m.height[a] >= l.height[a]
             /\ \A n \in 0..l.height[a] - 1 : m.bySeq[a][n] = l.bySeq[a][n]
      BY <1>1, AdmittedGrows
    <2> QED BY <1>3, <2>1 DEF Grows
  <1> QED BY <1>2, <1>4, <1>5 DEF Whole, ParentsApart

\* ingest() as a whole.
LEMMA IngestedWhole ==
    ASSUME content \in Seq(Content), NEW l, Whole(content, l), NEW id \in Id
    PROVE  Whole(content, Ingested(l, id)) /\ Grows(l, Ingested(l, id)) /\ Ingested(l, id) \in Log
  <1>1. l \in Log /\ DOMAIN content = Id /\ content[id] \in Content
    BY DEF Whole, LogKept, Id
  <1>2. CASE id \notin l.events /\ Admissible(l, content[id])
    <2>1. Whole(content, Admitted(l, id, content[id])) /\ Grows(l, Admitted(l, id, content[id]))
      BY <1>1, <1>2, AdmittedWhole
    <2> QED BY <1>2, <2>1 DEF Ingested, Whole, LogKept
  <1>3. CASE ~(id \notin l.events /\ Admissible(l, content[id]))
    <2>1. Ingested(l, id) = l
      BY <1>3 DEF Ingested
    <2> QED BY <1>1, <2>1, GrowsSelf
  <1> QED BY <1>2, <1>3

\* apply_sync() event by event.
Ingests(l, evs, g) == g[0] = l /\ \A i \in 1..Len(evs) : g[i] = Ingested(g[i - 1], evs[i])

\* Every log on the way is whole and has everything the first one had.
LEMMA AppliedRuns ==
    ASSUME content \in Seq(Content), NEW l, Whole(content, l), NEW evs \in Seq(Id)
    PROVE  \E g : /\ Ingests(l, evs, g)
                  /\ \A i \in 0..Len(evs) : Whole(content, g[i]) /\ Grows(l, g[i])
                  /\ Applied(l, evs) = g[Len(evs)]
  <1> DEFINE N == Len(evs)
             Q == {m \in Log : Whole(content, m) /\ Grows(l, m)}
             F == [x \in Q \X (1..N) |-> Ingested(x[1], evs[x[2]])]
             IsAfter(f) == f = [i \in 0..N |-> IF i = 0 THEN l ELSE Ingested(f[i - 1], evs[i])]
             g == CHOOSE f : IsAfter(f)
  <1>1. Applied(l, evs) = g[N]
    BY DEF Applied
  <1>2. N \in Nat /\ \A i \in 1..N : evs[i] \in Id
    OBVIOUS
  <1>3. l \in Q
    BY GrowsSelf DEF Whole, LogKept
  <1>4. ASSUME NEW m \in Q, NEW i \in 1..N
        PROVE  Ingested(m, evs[i]) \in Q
    <2>1. m \in Log /\ Whole(content, m) /\ Grows(l, m) /\ l \in Log /\ evs[i] \in Id
      BY <1>2, <1>3
    <2>2. /\ Whole(content, Ingested(m, evs[i])) /\ Grows(m, Ingested(m, evs[i]))
          /\ Ingested(m, evs[i]) \in Log
      BY <2>1, IngestedWhole
    <2>3. Grows(l, Ingested(m, evs[i]))
      BY <2>1, <2>2, GrowsOn
    <2> QED BY <2>2, <2>3
  <1> HIDE DEF N, Q
  <1>5. \A m \in Q : \A i \in 1..N : F[<<m, i>>] = Ingested(m, evs[i])
    OBVIOUS
  <1>6. \A m \in Q : \A i \in 1..N : F[<<m, i>>] \in Q
    BY <1>4, <1>5
  <1> HIDE DEF F
  <1>7. PICK f : IterateMap(F, l, N, f)
    BY <1>2, IterateExists
  <1>8. \A i \in 0..N : f[i] \in Q
    BY ONLY <1>2, <1>3, <1>6, <1>7, IterateStays
  <1>9. \A i \in 0..N : i # 0 => i - 1 \in 0..N /\ i \in 1..N
    BY <1>2
  <1>10. f = [i \in 0..N |-> IF i = 0 THEN l ELSE F[<<f[i - 1], i>>]]
    BY <1>7 DEF IterateMap
  <1>11. \A i \in 0..N : i # 0 => F[<<f[i - 1], i>>] = Ingested(f[i - 1], evs[i])
    BY <1>5, <1>8, <1>9
  <1>12. IsAfter(f)
    BY <1>10, <1>11
  <1>13. IsAfter(g)
    BY <1>12
  <1> HIDE DEF g
  <1>14. g[0] = l /\ \A i \in 1..N : g[i] = Ingested(g[i - 1], evs[i])
    <2>1. \A i \in 0..N : g[i] = IF i = 0 THEN l ELSE Ingested(g[i - 1], evs[i])
      BY <1>13
    <2>2. 0 \in 0..N /\ \A i \in 1..N : i \in 0..N /\ i # 0
      BY <1>2
    <2> QED BY <2>1, <2>2
  <1>15. \A i \in 0..N : g[i] \in Q
    <2> DEFINE T == {i \in 0..N : g[i] \in Q}
    <2>1. 0 \in T
      BY <1>2, <1>3, <1>14
    <2>2. ASSUME NEW k \in 0..N, k # N, k \in T
          PROVE  k + 1 \in T
      <3>1. k + 1 \in 1..N /\ k + 1 \in 0..N /\ (k + 1) - 1 = k
        BY <1>2, <2>2
      <3>2. g[k + 1] = Ingested(g[k], evs[k + 1])
        BY <1>14, <3>1
      <3> QED BY <1>4, <2>2, <3>1, <3>2
    <2> HIDE DEF T
    <2>3. \A k \in 0..N : k \in T
      BY <1>2, <2>1, <2>2, InductionUpTo
    <2> QED BY <2>3 DEF T
  <1> QED BY <1>1, <1>14, <1>15 DEF N, Ingests, Q

\* Whatever signed events an answer has, the log stays whole and loses nothing.
LEMMA AppliedKeeps ==
    ASSUME content \in Seq(Content), NEW l, Whole(content, l), NEW evs \in Seq(Id)
    PROVE  Whole(content, Applied(l, evs)) /\ Grows(l, Applied(l, evs))
  <1>1. Len(evs) \in 0..Len(evs)
    OBVIOUS
  <1> QED BY <1>1, AppliedRuns

\* An event that some log could admit.
SoundEvent(ct, id) ==
    /\ ct[id].prev = 0 => ct[id].seq = 0
    /\ ct[id].prev # 0 =>
          /\ ct[id].seq # 0 /\ ct[id].prev \in DOMAIN ct
          /\ ct[ct[id].prev].author = ct[id].author /\ ct[ct[id].prev].seq = ct[id].seq - 1
    /\ \A p \in ct[id].parents : p \in DOMAIN ct /\ ct[p].author # ct[id].author

\* What a log holds was admitted once.
LEMMA HeldSound ==
    ASSUME NEW ct \in Seq(Content), NEW l, Whole(ct, l), NEW id \in l.events
    PROVE  SoundEvent(ct, id)
  <1> DEFINE c == ct[id]
             a == ct[id].author
             n == ct[id].seq
  <1>1. /\ l \in Log /\ l.events \subseteq DOMAIN ct /\ ClosedIn(ct, l) /\ id \in DOMAIN ct
        /\ c \in Content /\ a \in Author /\ ChainIn(ct, l, a)
        /\ 0 \notin DOMAIN ct
    <2>1. /\ l \in Log /\ l.events \subseteq DOMAIN ct /\ ClosedIn(ct, l)
          /\ \A b \in Author : ChainIn(ct, l, b)
      BY DEF Whole, LogKept
    <2>2. id \in DOMAIN ct /\ 0 \notin DOMAIN ct
      BY <2>1
    <2>3. c \in Content
      BY <2>2
    <2> QED BY <2>1, <2>2, <2>3 DEF Content
  <1>2. n \in Nat /\ l.height[a] \in Nat /\ n < l.height[a] /\ l.bySeq[a][n] = id
    <2>1. n \in Nat /\ l.height[a] \in Nat
      BY <1>1, EventLogAssumption DEF Log, Content, Position
    <2>2. n < l.height[a] /\ l.bySeq[a][n] = id
      BY <1>1 DEF ChainIn
    <2> QED BY <2>1, <2>2
  <1>3. n \in 0..l.height[a] - 1
    BY <1>2
  <1>4. c.prev = IF n = 0 THEN 0 ELSE l.bySeq[a][n - 1]
    BY <1>1, <1>2, <1>3 DEF ChainIn
  <1>5. c.prev \in l.events \cup {0} /\ c.parents \subseteq l.events
    BY <1>1 DEF ClosedIn
  <1>6. ASSUME n # 0
        PROVE  c.prev # 0 /\ ct[c.prev].author = a /\ ct[c.prev].seq = n - 1
    <2>1. n - 1 \in 0..l.height[a] - 1 /\ c.prev = l.bySeq[a][n - 1]
      BY <1>2, <1>4, <1>6
    <2>2. c.prev \in l.events /\ ct[c.prev].author = a /\ ct[c.prev].seq = n - 1
      BY <1>1, <2>1 DEF ChainIn
    <2> QED BY <1>1, <2>2
  <1>7. \A p \in c.parents : ct[p].author # a
    BY DEF Whole, ParentsApart
  <1> QED BY <1>1, <1>4, <1>5, <1>6, <1>7 DEF SoundEvent

\* No author has signed two events for one position.
UnforkedIn(ct) ==
    \A i, j \in DOMAIN ct : ct[i].author = ct[j].author /\ ct[i].seq = ct[j].seq => i = j

\* Without forks, a log that holds the links of a sound event admits it.
LEMMA SoundAdmitted ==
    ASSUME content \in Seq(Content), UnforkedIn(content), NEW l, Whole(content, l),
           NEW id \in Id, SoundEvent(content, id), id \notin l.events,
           content[id].prev \in l.events \cup {0}, content[id].parents \subseteq l.events
    PROVE  Admissible(l, content[id])
  <1> DEFINE c == content[id]
             a == c.author
             n == c.seq
             h == l.height[a]
  <1>1. /\ l \in Log /\ DOMAIN content = Id /\ l.events \subseteq Id
        /\ c \in Content /\ a \in Author /\ ChainIn(content, l, a) /\ 0 \notin Id
    <2>1. /\ l \in Log /\ DOMAIN content = Id /\ l.events \subseteq Id
          /\ \A b \in Author : ChainIn(content, l, b)
      BY DEF Whole, LogKept, Id
    <2>2. c \in Content /\ 0 \notin Id
      BY DEF Id
    <2> QED BY <2>1, <2>2 DEF Content
  <1>2. n \in Nat /\ h \in Nat
    BY <1>1, EventLogAssumption DEF Log, Content, Position
  <1>3. ParentsHold(l, c)
    BY DEF ParentsHold, SoundEvent
  <1>4. ~(n < h)
    <2> SUFFICES ASSUME n < h PROVE FALSE
      OBVIOUS
    <2>1. n \in 0..h - 1
      BY <1>2
    <2>2. l.bySeq[a][n] \in l.events /\ content[l.bySeq[a][n]].author = a /\ content[l.bySeq[a][n]].seq = n
      BY <1>1, <2>1 DEF ChainIn
    <2>3. l.bySeq[a][n] = id
      BY <1>1, <2>2 DEF UnforkedIn
    <2> QED BY <2>2, <2>3
  <1>5. CASE c.prev = 0
    <2>1. n = 0
      BY <1>5 DEF SoundEvent
    <2>2. h = 0
      BY <1>2, <1>4, <2>1
    <2> QED BY <1>3, <1>5, <2>1, <2>2 DEF Admissible, ChainLinkHolds
  <1>6. CASE c.prev # 0
    <2>1. /\ n # 0 /\ c.prev \in l.events /\ content[c.prev].author = a /\ content[c.prev].seq = n - 1
      BY <1>6 DEF SoundEvent
    <2>2. n - 1 < h /\ l.bySeq[a][n - 1] = c.prev
      BY <1>1, <2>1 DEF ChainIn
    <2>3. h = n /\ h # 0
      BY <1>2, <1>4, <2>1, <2>2
    <2>4. l.tip[a] = l.bySeq[a][h - 1]
      BY <1>1, <2>3 DEF ChainIn
    <2>5. l.tip[a] = c.prev
      BY <2>2, <2>3, <2>4
    <2> QED BY <1>3, <1>6, <2>1, <2>5 DEF Admissible, ChainLinkHolds
  <1> QED BY <1>5, <1>6

\* Events that a log can take in this order: each is sound, and what it links
\* to is held or comes before.
SoundAll(ct, evs) == \A k \in 1..Len(evs) : SoundEvent(ct, evs[k])

CausesAt(ct, l, evs) ==
    \A k \in 1..Len(evs) : \A x \in Linked(ct, evs[k]) \ {0} :
        x \in l.events \/ \E j \in 1..k - 1 : evs[j] = x

\* Then all of them are held in the end.
LEMMA AppliedWhole ==
    ASSUME content \in Seq(Content), UnforkedIn(content), NEW l, Whole(content, l),
           NEW evs \in Seq(Id), SoundAll(content, evs), CausesAt(content, l, evs)
    PROVE  Range(evs) \subseteq Applied(l, evs).events
  <1> DEFINE N == Len(evs)
  <1>1. PICK g : /\ Ingests(l, evs, g)
                 /\ \A i \in 0..N : Whole(content, g[i]) /\ Grows(l, g[i])
                 /\ Applied(l, evs) = g[N]
    BY AppliedRuns
  <1>2. N \in Nat /\ \A i \in 1..N : evs[i] \in Id
    OBVIOUS
  <1> DEFINE T == {k \in 0..N : \A i \in 1..k : evs[i] \in g[k].events}
  <1>3. 0 \in T
    BY <1>2
  <1>4. ASSUME NEW k \in 0..N, k # N, k \in T
        PROVE  k + 1 \in T
    <2> DEFINE m == g[k]
               id == evs[k + 1]
    <2>1. k + 1 \in 1..N /\ k + 1 \in 0..N /\ (k + 1) - 1 = k
      BY <1>2, <1>4
    <2>2. g[k + 1] = Ingested(m, id) /\ Whole(content, m) /\ Grows(l, m) /\ id \in Id
      BY <1>1, <1>2, <2>1 DEF Ingests
    <2>3. \A i \in 1..k : evs[i] \in m.events
      BY <1>4
    <2>4. \A x \in Linked(content, id) \ {0} : x \in m.events
      <3> TAKE x \in Linked(content, id) \ {0}
      <3>1. x \in l.events \/ \E j \in 1..(k + 1) - 1 : evs[j] = x
        BY <2>1 DEF CausesAt
      <3> QED BY <2>1, <2>2, <2>3, <3>1 DEF Grows
    <2>5. 0 \notin content[id].parents
      <3>1. SoundEvent(content, id)
        BY <2>1 DEF SoundAll
      <3>2. 0 \notin DOMAIN content
        OBVIOUS
      <3> QED BY <3>1, <3>2 DEF SoundEvent
    <2>6. content[id].prev \in m.events \cup {0} /\ content[id].parents \subseteq m.events
      BY <2>4, <2>5 DEF Linked
    <2>7. SoundEvent(content, id)
      BY <2>1 DEF SoundAll
    <2> HIDE DEF m, id
    <2>8. m \in Log /\ m.events \subseteq g[k + 1].events
      <3>1. m \in Log
        BY <2>2 DEF Whole, LogKept
      <3>2. Grows(m, Ingested(m, id))
        BY <2>2, IngestedWhole
      <3> QED BY <2>2, <3>1, <3>2 DEF Grows
    <2>9. id \in g[k + 1].events
      <3>1. CASE id \in m.events
        BY <2>8, <3>1
      <3>2. CASE id \notin m.events
        <4>1. Admissible(m, content[id])
          BY <2>2, <2>6, <2>7, <3>2, SoundAdmitted
        <4> QED BY <2>2, <2>8, <3>2, <4>1 DEF Ingested, Admitted, Log
      <3> QED BY <3>1, <3>2
    <2>10. \A i \in 1..k + 1 : i \in 1..k \/ i = k + 1
      BY <1>2
    <2> QED BY <2>1, <2>3, <2>8, <2>9, <2>10 DEF id
  <1> HIDE DEF T
  <1>5. \A k \in 0..N : k \in T
    BY <1>2, <1>3, <1>4, InductionUpTo
  <1>6. N \in 0..N
    BY <1>2
  <1>7. N \in T
    BY <1>5, <1>6
  <1>8. \A i \in 1..N : evs[i] \in Applied(l, evs).events
    BY <1>1, <1>7 DEF T
  <1>9. \A x \in Range(evs) : \E j \in 1..N : evs[j] = x
    BY InRange
  <1> QED BY <1>8, <1>9

\* What a log lacks of a position below its height was never signed.
LEMMA HeldBelow ==
    ASSUME content \in Seq(Content), UnforkedIn(content), NEW l, Whole(content, l), NEW id \in Id,
           content[id].seq < l.height[content[id].author]
    PROVE  id \in l.events
  <1> DEFINE c == content[id]
             a == c.author
             n == c.seq
  <1>1. /\ l \in Log /\ DOMAIN content = Id /\ l.events \subseteq Id
        /\ \A b \in Author : ChainIn(content, l, b)
    BY DEF Whole, LogKept, Id
  <1>2. c \in Content
    BY <1>1
  <1>3. a \in Author /\ n \in Nat /\ l.height[a] \in Nat
    BY <1>1, <1>2, EventLogAssumption DEF Content, Position, Log
  <1>4. n \in 0..l.height[a] - 1
    BY <1>3
  <1>5. l.bySeq[a][n] \in l.events /\ content[l.bySeq[a][n]].author = a /\ content[l.bySeq[a][n]].seq = n
    BY <1>1, <1>3, <1>4 DEF ChainIn
  <1>6. l.bySeq[a][n] = id
    BY <1>1, <1>5 DEF UnforkedIn
  <1> QED BY <1>5, <1>6

\* The tails of the chains beyond the heights of a digest.
LEMMA MissingIs ==
    ASSUME content \in Seq(Content), NEW l, Whole(content, l), NEW d \in [Author -> 0..MaxSeq]
    PROVE  /\ Missing(l, d) \subseteq l.events
           /\ \A id \in l.events : id \in Missing(l, d) \/ content[id].seq < d[content[id].author]
  <1>1. /\ l \in Log /\ l.events \subseteq DOMAIN content
        /\ \A b \in Author : ChainIn(content, l, b)
    BY DEF Whole, LogKept
  <1>2. ASSUME NEW id \in Missing(l, d) PROVE id \in l.events
    <2>1. PICK a \in Author : id \in {l.bySeq[a][n] : n \in d[a]..l.height[a] - 1}
      BY <1>2 DEF Missing
    <2>2. PICK n \in d[a]..l.height[a] - 1 : id = l.bySeq[a][n]
      BY <2>1
    <2>3. d[a] \in Nat /\ l.height[a] \in Nat
      BY <1>1, EventLogAssumption DEF Log
    <2>4. n \in 0..l.height[a] - 1
      BY <2>3
    <2> QED BY <1>1, <2>2, <2>4 DEF ChainIn
  <1>3. ASSUME NEW id \in l.events, ~(content[id].seq < d[content[id].author])
        PROVE  id \in Missing(l, d)
    <2> DEFINE a == content[id].author
               n == content[id].seq
    <2>1. content[id] \in Content
      BY <1>1
    <2>2. a \in Author /\ n \in Nat /\ d[a] \in Nat /\ l.height[a] \in Nat
      <3>1. a \in Author /\ n \in Nat
        BY <2>1, EventLogAssumption DEF Content, Position
      <3> HIDE DEF a, n
      <3>2. d[a] \in 0..MaxSeq /\ l.height[a] \in 0..MaxSeq /\ MaxSeq \in Nat
        BY <1>1, <3>1, EventLogAssumption DEF Log
      <3> QED BY <3>1, <3>2
    <2>3. n < l.height[a] /\ l.bySeq[a][n] = id
      BY <1>1, <2>2 DEF ChainIn
    <2>4. n \in d[a]..l.height[a] - 1
      BY <1>3, <2>2, <2>3
    <2>5. id \in {l.bySeq[a][k] : k \in d[a]..l.height[a] - 1}
      BY <2>3, <2>4
    <2> HIDE DEF a, n
    <2> QED BY <2>2, <2>5 DEF Missing
  <1> QED BY <1>2, <1>3

\* What an answer may rely on: its events are signed and sound, and as long as
\* nobody forks, what they link to is held or comes before.
AnswerKept(ct, l, evs) ==
    /\ evs \in Seq(DOMAIN ct)
    /\ SoundAll(ct, evs)
    /\ UnforkedIn(ct) => CausesAt(ct, l, evs)

\* answer_sync(): an answer to a digest that the asking replica has reached.
LEMMA AnswerIs ==
    ASSUME SyncBase, NEW src, Whole(content, src), NEW dst, Whole(content, dst),
           NEW d \in [Author -> 0..MaxSeq], \A a \in Author : d[a] <= dst.height[a]
    PROVE  /\ AnswerKept(content, dst, EventsMissingFrom(src, d))
           /\ EventsMissingFrom(src, d) \in Seq(1..MaxEvents)
           /\ Missing(src, d) \subseteq Range(EventsMissingFrom(src, d))
  <1> DEFINE M == Missing(src, d)
             evs == EventsMissingFrom(src, d)
  <1>0. content \in Seq(Content) /\ DOMAIN content = Id /\ 0 \notin Id
    BY DEF SyncBase, Id
  <1>1. /\ M \subseteq src.events /\ src.events \subseteq Id /\ ClosedIn(content, src)
        /\ \A id \in src.events : id \in M \/ content[id].seq < d[content[id].author]
    BY <1>0, MissingIs DEF Whole, LogKept
  <1> HIDE DEF M
  <1>2. M \in SUBSET Id
    BY <1>1
  <1>3. evs = Emitted(M)
    BY DEF EventsMissingFrom, M
  <1>4. evs \in InOrder(M) /\ \A id \in M : id \in Range(evs)
    BY <1>2, <1>3, EmittedInOrder
  <1> HIDE DEF evs
  <1>5. evs \in Seq(M) /\ CausesFirst(M, evs) /\ \A k \in 1..Len(evs) : evs[k] \in M
    BY <1>4 DEF InOrder
  <1>6. evs \in Seq(Id) /\ evs \in Seq(1..MaxEvents)
    <2>1. Len(content) \in Nat /\ MaxEvents \in Nat /\ Len(content) <= MaxEvents
      BY EventLogAssumption DEF SyncBase
    <2>2. \A x \in M : x \in 1..MaxEvents /\ x \in Id
      BY <1>2, <2>1 DEF Id
    <2>3. \A k \in 1..Len(evs) : evs[k] \in 1..MaxEvents /\ evs[k] \in Id
      BY <1>5, <2>2
    <2> QED BY ONLY <1>5, <2>3, SeqNarrows
  <1>7. SoundAll(content, evs)
    <2>1. \A id \in M : SoundEvent(content, id)
      BY <1>0, <1>1, HeldSound
    <2> QED BY <1>5, <2>1 DEF SoundAll
  <1>8. ASSUME UnforkedIn(content), NEW k \in 1..Len(evs), NEW x \in Linked(content, evs[k]) \ {0}
        PROVE  x \in dst.events \/ \E j \in 1..k - 1 : evs[j] = x
    <2>1. evs[k] \in src.events /\ x \in src.events /\ x \in Id
      BY <1>1, <1>5 DEF ClosedIn, Linked
    <2>2. CASE x \in M
      BY <1>5, <1>8, <2>2 DEF CausesFirst
    <2>3. CASE x \notin M
      <3> DEFINE a == content[x].author
                 n == content[x].seq
      <3>1. n < d[a] /\ content[x] \in Content
        BY <1>0, <1>1, <2>1, <2>3
      <3>2. a \in Author /\ n \in Nat /\ d[a] \in Nat /\ d[a] <= dst.height[a]
        BY <3>1, EventLogAssumption DEF Content, Position
      <3>3. dst.height[a] \in Nat
        BY <3>2, EventLogAssumption DEF Whole, LogKept, Log
      <3>4. n < dst.height[a]
        BY <3>1, <3>2, <3>3
      <3> QED BY <1>0, <1>8, <2>1, <3>4, HeldBelow
    <2> QED BY <2>2, <2>3
  <1>9. AnswerKept(content, dst, evs)
    BY <1>0, <1>6, <1>7, <1>8 DEF AnswerKept, CausesAt
  <1> QED BY <1>4, <1>6, <1>9 DEF M, evs

\* One pull leaves nothing behind.
LEMMA PullIsEnough ==
    ASSUME SyncBase, UnforkedIn(content), NEW src, Whole(content, src), NEW dst, Whole(content, dst)
    PROVE  src.events \subseteq Applied(dst, EventsMissingFrom(src, dst.height)).events
  <1> DEFINE d == dst.height
             evs == EventsMissingFrom(src, d)
  <1>1. d \in [Author -> 0..MaxSeq] /\ \A a \in Author : d[a] <= dst.height[a]
    BY EventLogAssumption DEF Whole, LogKept, Log
  <1>2. content \in Seq(Content) /\ DOMAIN content = Id /\ src.events \subseteq Id
    BY DEF SyncBase, Id, Whole, LogKept
  <1> HIDE DEF d
  <1>3. AnswerKept(content, dst, evs) /\ Missing(src, d) \subseteq Range(evs)
    BY <1>1, AnswerIs
  <1> HIDE DEF evs
  <1>4. Range(evs) \subseteq Applied(dst, evs).events
    BY <1>2, <1>3, AppliedWhole DEF AnswerKept
  <1>5. dst.events \subseteq Applied(dst, evs).events
    BY <1>2, <1>3, AppliedKeeps DEF AnswerKept, Grows
  <1>6. \A id \in src.events : id \in Missing(src, d) \/ content[id].seq < d[content[id].author]
    BY <1>1, <1>2, MissingIs
  <1>7. ASSUME NEW id \in src.events, content[id].seq < d[content[id].author]
        PROVE  id \in dst.events
    BY <1>2, <1>7, HeldBelow DEF d
  <1> QED BY <1>3, <1>4, <1>5, <1>6, <1>7 DEF d, evs

-----------------------------------------------------------------------------
(* The messages in flight while contents and logs move on.                   *)

\* Contents are only ever added.
Later(ct, more) ==
    /\ more \in Seq(Content)
    /\ DOMAIN ct \subseteq DOMAIN more
    /\ \A i \in DOMAIN ct : more[i] = ct[i]

\* An answer stays usable while contents are signed and its receiver's log grows.
LEMMA AnswerLater ==
    ASSUME NEW ct \in Seq(Content), NEW more, Later(ct, more), NEW l, NEW m, Grows(l, m),
           NEW evs, AnswerKept(ct, l, evs)
    PROVE  AnswerKept(more, m, evs)
  <1>1. evs \in Seq(DOMAIN ct) /\ \A k \in 1..Len(evs) : evs[k] \in DOMAIN ct /\ SoundEvent(ct, evs[k])
    BY DEF AnswerKept, SoundAll
  <1>2. \A k \in 1..Len(evs) : evs[k] \in DOMAIN more /\ more[evs[k]] = ct[evs[k]]
    BY <1>1 DEF Later
  <1>3. evs \in Seq(DOMAIN more)
    BY ONLY <1>1, <1>2, SeqNarrows
  <1>4. ASSUME NEW id \in DOMAIN ct, SoundEvent(ct, id)
        PROVE  SoundEvent(more, id)
    <2>1. more[id] = ct[id] /\ \A x \in DOMAIN ct : more[x] = ct[x] /\ x \in DOMAIN more
      BY DEF Later
    <2> QED BY <1>4, <2>1 DEF SoundEvent
  <1>5. SoundAll(more, evs)
    BY <1>1, <1>4 DEF SoundAll
  <1>6. UnforkedIn(more) => UnforkedIn(ct)
    BY DEF UnforkedIn, Later
  <1>7. CausesAt(ct, l, evs) => CausesAt(more, m, evs)
    <2>1. \A k \in 1..Len(evs) : Linked(more, evs[k]) = Linked(ct, evs[k])
      BY <1>2 DEF Linked
    <2> QED BY <2>1 DEF CausesAt, Grows
  <1> QED BY <1>3, <1>5, <1>6, <1>7 DEF AnswerKept

\* A digest is of heights that the asking replica had, and so has.
RequestKept(l, d) == \A a \in Author : d[a] <= l.height[a]

\* A message in flight is one that its receiver can use.
MessageKept(ct, lg, m) ==
    \/ m \in Request /\ RequestKept(lg[m.from], m.digest)
    \/ m \in Answer /\ AnswerKept(ct, lg[m.to], m.events)

\* So does every message.
LEMMA MessageLater ==
    ASSUME NEW ct \in Seq(Content), NEW more, Later(ct, more),
           NEW lg \in [Replica -> Log], NEW ext \in [Replica -> Log], \A r \in Replica : Grows(lg[r], ext[r]),
           NEW m, MessageKept(ct, lg, m)
    PROVE  MessageKept(more, ext, m)
  <1>1. CASE m \in Request /\ RequestKept(lg[m.from], m.digest)
    <2>1. m.from \in Replica /\ m.digest \in [Author -> 0..MaxSeq]
      BY <1>1 DEF Request
    <2>2. lg[m.from] \in Log /\ ext[m.from] \in Log /\ Grows(lg[m.from], ext[m.from])
      BY <2>1
    <2>3. ASSUME NEW a \in Author PROVE m.digest[a] <= ext[m.from].height[a]
      <3>1. m.digest[a] \in Nat /\ lg[m.from].height[a] \in Nat /\ ext[m.from].height[a] \in Nat
        BY <2>1, <2>2, EventLogAssumption DEF Log
      <3>2. m.digest[a] <= lg[m.from].height[a] /\ ext[m.from].height[a] >= lg[m.from].height[a]
        BY <1>1, <2>2 DEF RequestKept, Grows
      <3> QED BY <3>1, <3>2
    <2> QED BY <1>1, <2>3 DEF MessageKept, RequestKept
  <1>2. CASE m \in Answer /\ AnswerKept(ct, lg[m.to], m.events)
    <2>1. m.to \in Replica
      BY <1>2 DEF Answer
    <2>2. AnswerKept(more, ext[m.to], m.events)
      BY <1>2, <2>1, AnswerLater
    <2> QED BY <1>2, <2>2 DEF MessageKept
  <1> QED BY <1>1, <1>2 DEF MessageKept

\* A request is not an answer.
LEMMA KindsDiffer ==
    ASSUME NEW m
    PROVE  ~(m \in Request /\ m \in Answer)
  <1> SUFFICES ASSUME m \in Request, m \in Answer PROVE FALSE
    OBVIOUS
  <1>1. DOMAIN m = {"from", "digest"}
    BY DEF Request
  <1>2. DOMAIN m = {"to", "events"}
    BY DEF Answer
  <1> QED BY <1>1, <1>2

-----------------------------------------------------------------------------
(* Sync as a whole.                                                          *)

\* What answers, gossip and losses keep: the logs are whole, contents link to
\* older ones, and every message in flight is one that its receiver can use.
SyncCore ==
    /\ SyncBase
    /\ log \in [Replica -> Log]
    /\ \A r \in Replica : Whole(content, log[r])
    /\ \A m \in net : MessageKept(content, log, m)

\* The core says what LogInv says of the logs.
LEMMA CoreIsLogInv == SyncCore => LogInv
  <1> SUFFICES ASSUME SyncCore PROVE LogInv
    OBVIOUS
  <1>1. content \in Seq(Content) /\ DOMAIN content = Id
    BY DEF SyncCore, SyncBase, Id
  <1>2. log \in [Replica -> Log] /\ \A r \in Replica : LogKept(content, log[r])
    BY DEF SyncCore, Whole
  <1> QED
    BY <1>1, <1>2 DEF LogInv, TypeOK, HeldIsSigned, CausallyClosed, ChainsAreWhole, LogKept

\* A step of the log: what it signs, and what it does to one replica.
LEMMA NextIs ==
    ASSUME SyncCore, Next, NEW r \in Replica
    PROVE  /\ content' = content \/ \E c \in Content : Sign(c)
           /\ \/ log'[r] = log[r]
              \/ \E id \in DOMAIN content' :
                    /\ id \notin log[r].events /\ content'[id] \in Content
                    /\ Admissible(log[r], content'[id])
                    /\ log'[r] = Admitted(log[r], id, content'[id])
  <1> DEFINE Moved == \/ log'[r] = log[r]
                      \/ \E id \in DOMAIN content' :
                            /\ id \notin log[r].events /\ content'[id] \in Content
                            /\ Admissible(log[r], content'[id])
                            /\ log'[r] = Admitted(log[r], id, content'[id])
  <1>1. /\ content \in Seq(Content) /\ DOMAIN content = Id /\ log \in [Replica -> Log]
        /\ \A q \in Replica : log[q].events \subseteq Id /\ log[q] \in Log
    BY DEF SyncCore, SyncBase, Whole, LogKept, Id
  <1>2. ASSUME NEW a \in Author, NEW n \in Position, NEW v \in Id \cup {0}, NEW ps \in SUBSET Id,
               NEW p \in Payload,
               Publish([author |-> a, seq |-> n, prev |-> v, parents |-> ps, payload |-> p])
        PROVE  (\E c \in Content : Sign(c)) /\ Moved
    <2>1. [author |-> a, seq |-> n, prev |-> v, parents |-> ps, payload |-> p] \in Content
      BY DEF Content, Id
    <2> QED BY <1>2, <2>1 DEF Publish
  <1>3. ASSUME NEW q \in Replica, NEW id \in Id, log' = [log EXCEPT ![q] = Ingested(@, id)], content' = content
        PROVE  Moved
    <2>1. log'[r] = IF q = r THEN Ingested(log[r], id) ELSE log[r]
      BY <1>1, <1>3
    <2>2. content[id] \in Content
      BY <1>1
    <2> QED BY <1>1, <1>3, <2>1, <2>2 DEF Ingested
  <1>4. ASSUME NEW q \in Replica, NEW a \in Author, NEW p \in Payload, AppendLocal(q, a, p)
        PROVE  (content' = content \/ \E c \in Content : Sign(c)) /\ Moved
    <2> DEFINE c == NextContent(log[q], a, p)
               n == Len(content) + 1
    <2>1. c \in Content
      BY <1>1, <1>4, NextContentType DEF AppendLocal
    <2>2. CASE Sign(c) /\ log' = [log EXCEPT ![q] = IF Admissible(@, c) THEN Admitted(@, n, c) ELSE @]
      <3>1. n \in DOMAIN content' /\ content'[n] = c
        BY <1>1, <2>1, <2>2, SignExtends
      <3>2. n \notin log[r].events
        BY <1>1 DEF Id
      <3>3. log'[r] = IF q = r /\ Admissible(log[r], c) THEN Admitted(log[r], n, c) ELSE log[r]
        BY <1>1, <2>2
      <3> HIDE DEF c, n
      <3> QED BY <2>1, <2>2, <3>1, <3>2, <3>3
    <2>3. CASE \E id \in Id : /\ content[id] = c
                              /\ log' = [log EXCEPT ![q] = Ingested(@, id)]
                              /\ UNCHANGED content
      BY <1>3, <2>3
    <2> QED BY <1>4, <2>2, <2>3 DEF AppendLocal
  <1> HIDE DEF Moved
  <1>5. (content' = content \/ \E c \in Content : Sign(c)) /\ Moved
    BY <1>2, <1>3, <1>4 DEF Next, Ingest
  <1> QED BY <1>5 DEF Moved

\* Contents and logs only grow, and stay whole.
Advances ==
    /\ SyncBase' /\ Later(content, content')
    /\ log' \in [Replica -> Log]
    /\ \A r \in Replica : Whole(content', log'[r]) /\ Grows(log[r], log'[r])

\* Publishing, appending and ingesting.
LEMMA NextAdvances ==
    ASSUME SyncCore, Next
    PROVE  Advances
  <1>1. /\ content \in Seq(Content) /\ DOMAIN content = Id /\ log \in [Replica -> Log]
        /\ Len(content) <= MaxEvents /\ LinksOlder(content)
        /\ \A q \in Replica : log[q] \in Log /\ Whole(content, log[q])
    BY DEF SyncCore, SyncBase, Id
  <1>2. ASSUME NEW c \in Content, Sign(c)
        PROVE  SyncBase' /\ Later(content, content')
    <2> DEFINE n == Len(content) + 1
    <2>1. /\ content' \in Seq(Content) /\ Id \subseteq DOMAIN content' /\ content'[n] = c
          /\ \A i \in Id : content'[i] = content[i]
      BY <1>1, <1>2, SignExtends
    <2>2. /\ Len(content) \in Nat /\ MaxEvents \in Nat /\ Len(content) < MaxEvents
          /\ content' = Append(content, c) /\ c.prev \in Id \cup {0} /\ c.parents \subseteq Id
      BY <1>1, <1>2, EventLogAssumption DEF Sign
    <2>3. Len(content') = n /\ n <= MaxEvents /\ DOMAIN content' = 1..n
      BY <1>1, <2>2
    <2>4. ASSUME NEW i \in DOMAIN content'
          PROVE  content'[i].prev < i /\ \A p \in content'[i].parents : p < i
      <3>1. CASE i \in Id
        BY <1>1, <2>1, <3>1 DEF LinksOlder
      <3>2. CASE i \notin Id
        <4>1. i = n
          BY <2>2, <2>3, <3>2 DEF Id
        <4>2. \A x \in Id \cup {0} : x < n
          BY <2>2 DEF Id
        <4> QED BY <2>1, <2>2, <4>1, <4>2
      <3> QED BY <3>1, <3>2
    <2>5. LinksOlder(content')
      BY <2>4 DEF LinksOlder
    <2> QED BY <1>1, <2>1, <2>3, <2>5 DEF SyncBase, Later
  <1>3. SyncBase' /\ Later(content, content')
    <2>1. CASE Replica = {}
      <3>1. PICK c \in Content : Sign(c)
        <4>1. PICK a \in Author, n \in Position, v \in Id \cup {0}, ps \in SUBSET Id, p \in Payload :
                 Publish([author |-> a, seq |-> n, prev |-> v, parents |-> ps, payload |-> p])
          BY <2>1 DEF Next
        <4>2. [author |-> a, seq |-> n, prev |-> v, parents |-> ps, payload |-> p] \in Content
          BY DEF Content, Id
        <4> QED BY <4>1, <4>2 DEF Publish
      <3> QED BY <1>2, <3>1
    <2>2. CASE Replica # {}
      <3>1. content' = content \/ \E c \in Content : Sign(c)
        BY <2>2, NextIs
      <3>2. CASE content' = content
        BY <1>1, <3>2 DEF SyncCore, SyncBase, Later
      <3> QED BY <1>2, <3>1, <3>2
    <2> QED BY <2>1, <2>2
  <1>4. ASSUME NEW r \in Replica
        PROVE  Whole(content', log'[r]) /\ Grows(log[r], log'[r])
    <2>1. /\ content' \in Seq(Content) /\ Id \subseteq DOMAIN content'
          /\ \A i \in Id : content'[i] = content[i]
      BY <1>1, <1>3 DEF Later
    <2>2. CASE log'[r] = log[r]
      <3>1. LogKept(content', log[r])
        BY <1>1, <2>1, SignedLater DEF Whole, LogKept
      <3>2. ParentsApart(content', log[r])
        <4>1. /\ \A id \in log[r].events : id \in Id /\ content[id].parents \subseteq log[r].events
              /\ ParentsApart(content, log[r])
          BY <1>1 DEF Whole, LogKept, ClosedIn
        <4>2. \A id \in log[r].events : content'[id] = content[id]
          BY <2>1, <4>1
        <4> QED BY <4>1, <4>2 DEF ParentsApart
      <3> QED BY <1>1, <2>2, <3>1, <3>2, GrowsSelf DEF Whole
    <2>3. CASE log'[r] # log[r]
      <3>1. PICK id \in DOMAIN content' :
                    /\ id \notin log[r].events /\ content'[id] \in Content
                    /\ Admissible(log[r], content'[id])
                    /\ log'[r] = Admitted(log[r], id, content'[id])
        BY <2>3, NextIs
      <3> QED BY <1>1, <2>1, <3>1, AdmittedWhole
    <2> QED BY <2>2, <2>3
  <1>5. log' \in [Replica -> Log]
    <2>1. \A r \in Replica : log'[r] \in Log
      BY <1>4 DEF Whole, LogKept
    <2>2. log' = [r \in Replica |-> log'[r]]
      BY <1>1 DEF Next, Publish, AppendLocal, Ingest
    <2> QED BY <2>1, <2>2
  <1> QED BY <1>3, <1>4, <1>5 DEF Advances

\* An answer or a pull applied to one replica.
LEMMA AppliedAdvances ==
    ASSUME SyncCore, NEW r \in Replica, NEW evs \in Seq(Id),
           log' = [log EXCEPT ![r] = Applied(@, evs)], content' = content
    PROVE  Advances
  <1>1. /\ content \in Seq(Content) /\ log \in [Replica -> Log]
        /\ \A q \in Replica : log[q] \in Log /\ Whole(content, log[q])
    BY DEF SyncCore, SyncBase
  <1>2. Whole(content, Applied(log[r], evs)) /\ Grows(log[r], Applied(log[r], evs))
    BY <1>1, AppliedKeeps
  <1>3. Applied(log[r], evs) \in Log
    BY <1>2 DEF Whole, LogKept
  <1>4. log' \in [Replica -> Log] /\ \A q \in Replica : log'[q] = IF q = r THEN Applied(log[r], evs) ELSE log[q]
    BY <1>1, <1>3
  <1>5. \A q \in Replica : Whole(content', log'[q]) /\ Grows(log[q], log'[q])
    BY <1>1, <1>2, <1>4, GrowsSelf
  <1>6. SyncBase' /\ Later(content, content')
    BY DEF SyncCore, SyncBase, Later
  <1> QED BY <1>4, <1>5, <1>6 DEF Advances

\* Steps that send nothing keep the core.
LEMMA AdvancesKeeps ==
    ASSUME SyncCore, Advances, net' \subseteq net
    PROVE  SyncCore'
  <1>1. \A m \in net : MessageKept(content', log', m)
    BY MessageLater DEF SyncCore, SyncBase, Advances
  <1> QED BY <1>1 DEF SyncCore, Advances

\* What sync_from() pulls was signed.
LEMMA PulledAre ==
    ASSUME SyncCore, NEW r \in Replica, NEW s \in Replica
    PROVE  EventsMissingFrom(log[s], log[r].height) \in Seq(Id)
  <1>1. Whole(content, log[s]) /\ Whole(content, log[r]) /\ SyncBase /\ DOMAIN content = Id
    BY DEF SyncCore, SyncBase, Id
  <1>2. log[r].height \in [Author -> 0..MaxSeq] /\ \A a \in Author : log[r].height[a] <= log[r].height[a]
    BY <1>1, EventLogAssumption DEF Whole, LogKept, Log
  <1>3. AnswerKept(content, log[r], EventsMissingFrom(log[s], log[r].height))
    BY <1>1, <1>2, AnswerIs
  <1> QED BY <1>1, <1>3 DEF AnswerKept

\* Every step that syncs, answers, loses or logs keeps the core.
LEMMA SyncCoreNext == SyncCore /\ [AENext]_aeVars => SyncCore'
  <1> SUFFICES ASSUME SyncCore, [AENext]_aeVars PROVE SyncCore'
    OBVIOUS
  <1>0. /\ SyncBase /\ content \in Seq(Content) /\ DOMAIN content = Id /\ log \in [Replica -> Log]
        /\ \A r \in Replica : Whole(content, log[r]) /\ log[r] \in Log
        /\ \A m \in net : MessageKept(content, log, m)
    BY DEF SyncCore, SyncBase, Id
  <1>1. CASE Next /\ UNCHANGED net
    BY <1>1, NextAdvances, AdvancesKeeps
  <1>k. ASSUME content' = content, log' = log, \A m \in net' : MessageKept(content, log, m)
        PROVE  SyncCore'
    BY <1>k DEF SyncCore, SyncBase
  <1>2. ASSUME NEW r \in Replica, SendRequest(r)
        PROVE  SyncCore'
    <2> DEFINE n == [from |-> r, digest |-> log[r].height]
    <2>1. log[r].height \in [Author -> 0..MaxSeq] /\ \A a \in Author : log[r].height[a] \in Nat
      BY <1>0, EventLogAssumption DEF Log
    <2>2. n \in Request /\ n.from = r /\ n.digest = log[r].height
      BY <2>1 DEF Request
    <2>3. RequestKept(log[r], log[r].height)
      BY <2>1 DEF RequestKept
    <2> HIDE DEF n
    <2>4. MessageKept(content, log, n)
      BY <2>2, <2>3 DEF MessageKept
    <2>5. content' = content /\ log' = log /\ net' = net \cup {n}
      BY <1>2 DEF SendRequest, n
    <2> QED BY <1>0, <1>k, <2>4, <2>5
  <1>3. ASSUME NEW s \in Replica, NEW m \in net, SendAnswer(s, m)
        PROVE  SyncCore'
    <2> DEFINE evs == EventsMissingFrom(log[s], m.digest)
               n == [to |-> m.from, events |-> evs]
    <2>1. m \in Request /\ content' = content /\ log' = log /\ net' = (net \ {m}) \cup {n}
      BY <1>3 DEF SendAnswer
    <2>2. m.from \in Replica /\ m.digest \in [Author -> 0..MaxSeq]
      BY <2>1 DEF Request
    <2>3. RequestKept(log[m.from], m.digest)
      BY <1>0, <2>1, KindsDiffer DEF MessageKept
    <2>4. AnswerKept(content, log[m.from], evs) /\ evs \in Seq(1..MaxEvents)
      <3>1. \A a \in Author : m.digest[a] <= log[m.from].height[a]
        BY <2>3 DEF RequestKept
      <3> QED BY <1>0, <2>2, <3>1, AnswerIs
    <2> HIDE DEF evs
    <2>5. n \in Answer /\ n.to = m.from /\ n.events = evs
      BY <2>2, <2>4 DEF Answer
    <2> HIDE DEF n
    <2>6. MessageKept(content, log, n)
      BY <2>4, <2>5 DEF MessageKept
    <2> QED BY <1>0, <1>k, <2>1, <2>6
  <1>4. ASSUME NEW r \in Replica, NEW s \in Replica, SyncFrom(r, s)
        PROVE  SyncCore'
    <2>1. /\ log' = [log EXCEPT ![r] = Applied(@, EventsMissingFrom(log[s], log[r].height))]
          /\ content' = content /\ net' = net
      BY <1>0, <1>4 DEF SyncFrom, Synced
    <2> QED BY <2>1, PulledAre, AppliedAdvances, AdvancesKeeps
  <1>5. ASSUME NEW m \in net, ApplyAnswer(m)
        PROVE  SyncCore'
    <2>1. /\ m \in Answer /\ log' = [log EXCEPT ![m.to] = Applied(@, m.events)] /\ content' = content
          /\ net' \subseteq net
      BY <1>5 DEF ApplyAnswer
    <2>2. AnswerKept(content, log[m.to], m.events)
      BY <1>0, <2>1, KindsDiffer DEF MessageKept
    <2>3. m.to \in Replica /\ m.events \in Seq(Id)
      BY <1>0, <2>1, <2>2 DEF Answer, AnswerKept
    <2> QED BY <2>1, <2>3, AppliedAdvances, AdvancesKeeps
  <1>6. ASSUME NEW m \in net, Lose(m)
        PROVE  SyncCore'
    <2>1. content' = content /\ log' = log /\ net' \subseteq net
      BY <1>6 DEF Lose
    <2> QED BY <1>0, <1>k, <2>1
  <1>7. CASE UNCHANGED aeVars
    <2>1. content' = content /\ log' = log /\ net' = net
      BY <1>7 DEF aeVars
    <2> QED BY <1>0, <1>k, <2>1
  <1> QED BY <1>1, <1>2, <1>3, <1>4, <1>5, <1>6, <1>7 DEF AENext

\* Empty logs and an empty net.
LEMMA SyncCoreInit == AEInit => SyncCore
  <1> SUFFICES ASSUME AEInit PROVE SyncCore
    OBVIOUS
  <1>1. content = <<>> /\ net = {} /\ log = [r \in Replica |-> EmptyLog]
    BY DEF AEInit, Init
  <1>2. LogInv
    BY LogInvInit DEF AEInit
  <1>3. SyncBase
    <2>1. content \in Seq(Content) /\ Len(content) = 0 /\ DOMAIN content = {} /\ MaxEvents \in Nat
      BY <1>1, EventLogAssumption
    <2> QED BY <2>1 DEF SyncBase, LinksOlder
  <1>4. DOMAIN content = Id
    BY <1>3 DEF SyncBase, Id
  <1>5. ASSUME NEW r \in Replica PROVE Whole(content, log[r])
    <2>1. LogKept(content, log[r])
      BY <1>2, <1>4 DEF LogInv, TypeOK, HeldIsSigned, CausallyClosed, ChainsAreWhole, LogKept
    <2>2. log[r].events = {}
      BY <1>1 DEF EmptyLog
    <2> QED BY <2>1, <2>2 DEF Whole, ParentsApart
  <1>6. log \in [Replica -> Log]
    BY <1>2 DEF LogInv, TypeOK
  <1> QED BY <1>1, <1>3, <1>5, <1>6 DEF SyncCore

\* One pull is enough between any two replicas, for any number of replicas and
\* authors, any order of the hashes and whatever gossip, late answers and
\* losses have left, as long as no author forks.
THEOREM SyncHolds == AESpec => []SyncInv
  <1>1. SyncCore => SyncInv
    <2> SUFFICES ASSUME SyncCore PROVE AETypeOK /\ OnePullIsEnough
      BY DEF SyncInv
    <2>1. AETypeOK
      BY CoreIsLogInv DEF AETypeOK, LogInv, SyncCore, MessageKept
    <2>2. ASSUME Unforked, NEW r \in Replica, NEW s \in Replica
          PROVE  log[s].events \subseteq Synced(r, s).events
      <3>1. UnforkedIn(content)
        BY <2>2 DEF Unforked, UnforkedIn, Id, SyncCore, SyncBase
      <3>2. SyncBase /\ Whole(content, log[s]) /\ Whole(content, log[r])
        BY DEF SyncCore
      <3> QED BY <3>1, <3>2, PullIsEnough DEF Synced
    <2> QED BY <2>1, <2>2 DEF OnePullIsEnough
  <1> QED BY <1>1, SyncCoreInit, SyncCoreNext, PTL DEF AESpec

\* An answer is taken whole however late it comes, as long as no author forks.
THEOREM AnswersTakenWhole == AESpec => AnswersApplyWhole
  <1>1. ASSUME SyncCore, Unforked, NEW m \in net, ApplyAnswer(m)
        PROVE  Range(m.events) \subseteq log'[m.to].events
    <2>1. /\ m \in Answer /\ log' = [log EXCEPT ![m.to] = Applied(@, m.events)]
      BY <1>1 DEF ApplyAnswer
    <2>2. /\ content \in Seq(Content) /\ DOMAIN content = Id /\ log \in [Replica -> Log]
          /\ MessageKept(content, log, m) /\ \A r \in Replica : Whole(content, log[r])
      BY <1>1 DEF SyncCore, SyncBase, Id
    <2>3. m.to \in Replica /\ AnswerKept(content, log[m.to], m.events)
      BY <2>1, <2>2, KindsDiffer DEF MessageKept, Answer
    <2>4. UnforkedIn(content)
      BY <1>1, <2>2 DEF Unforked, UnforkedIn
    <2>5. Range(m.events) \subseteq Applied(log[m.to], m.events).events
      BY <2>2, <2>3, <2>4, AppliedWhole DEF AnswerKept
    <2> QED BY <2>1, <2>2, <2>3, <2>5
  <1>2. SyncCore /\ [AENext]_aeVars =>
          [Unforked => \A m \in net : ApplyAnswer(m) => Range(m.events) \subseteq log'[m.to].events]_aeVars
    BY <1>1
  <1> QED BY <1>2, SyncCoreInit, SyncCoreNext, PTL DEF AESpec, AnswersApplyWhole

\* With anti-entropy running, and with forks, the chains of every replica stay
\* whole and only grow, and it can always append.
THEOREM SyncKeepsChains == AESpec => [](LogInv /\ LocalAppendAdmitted) /\ ChainsOnlyGrow
  <1>1. ASSUME SyncCore, [AENext]_aeVars
        PROVE  (content' = content /\ log' = log) \/ Advances
    <2>1. CASE Next
      BY <1>1, <2>1, NextAdvances
    <2>2. ASSUME NEW r \in Replica, NEW s \in Replica, SyncFrom(r, s) PROVE Advances
      <3>1. log' = [log EXCEPT ![r] = Applied(@, EventsMissingFrom(log[s], log[r].height))] /\ content' = content
        BY <1>1, <2>2 DEF SyncFrom, Synced, SyncCore
      <3> QED BY <1>1, <3>1, PulledAre, AppliedAdvances
    <2>3. ASSUME NEW m \in net, ApplyAnswer(m) PROVE Advances
      <3>1. m \in Answer /\ log' = [log EXCEPT ![m.to] = Applied(@, m.events)] /\ content' = content
        BY <2>3 DEF ApplyAnswer
      <3>2. m.to \in Replica /\ AnswerKept(content, log[m.to], m.events) /\ DOMAIN content = Id
        BY <1>1, <3>1, KindsDiffer DEF SyncCore, SyncBase, MessageKept, Answer, Id
      <3> QED BY <1>1, <3>1, <3>2, AppliedAdvances DEF AnswerKept
    <2> QED BY <1>1, <2>1, <2>2, <2>3 DEF AENext, SendRequest, SendAnswer, Lose, aeVars
  <1>2. SyncCore /\ [AENext]_aeVars => [\A r \in Replica, a \in Author :
          /\ log[r].events \subseteq log'[r].events
          /\ log'[r].height[a] >= log[r].height[a]
          /\ \A n \in 0..log[r].height[a] - 1 : log'[r].bySeq[a][n] = log[r].bySeq[a][n]]_vars
    BY <1>1 DEF Advances, Grows, vars
  <1> QED BY <1>2, CoreIsLogInv, AppendValid, SyncCoreInit, SyncCoreNext, PTL DEF AESpec, ChainsOnlyGrow
=============================================================================
