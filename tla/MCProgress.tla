----------------------------- MODULE MCProgress -----------------------------
(***************************************************************************)
(* What must eventually happen: a backed lease is awarded, a locked        *)
(* account is freed, a byte handed to a pillar-udp stream is read, a       *)
(* command ends, the load balancer learns which backends run.  The five    *)
(* share no state, so a behaviour follows one of them and the others stay  *)
(* in their initial states.                                                *)
(***************************************************************************)
EXTENDS LeaseCluster, Sequences

CONSTANTS
    Id, MaxFailures, LockoutSecs, Capacity, Refill, Window, None,   \* AccountLockout
    MaxPayload, MaxBytes, MaxReplyBytes, MaxAccepts,                \* UdpStream
    MaxWork, Tiers, MaxCopies,                                      \* ClientWire
    Backends, Client, Hash, CursorMod, MaxInFlight, MaxTroubles     \* UdpDataplane

VARIABLES
    by_id, buckets, guesses, passed,
    write_buf, queue, pending, sent, send_seq, recv_seq, inbound, open, running, listening,
    accepts, net,
    cli, dial, dials, held, requests, replies, evaluated,
    policy, up, healthy, outstanding, sticky, cursor, picked, relays, probe, troubles,
    part    \* the component the behaviour follows

loginVars == <<by_id, buckets, guesses, passed>>
streamVars == <<write_buf, queue, pending, sent, send_seq, recv_seq, inbound, open, running,
                listening, accepts, net>>
commandVars == <<cli, dial, dials, held, requests, replies, evaluated>>
balancerVars == <<policy, up, healthy, outstanding, sticky, cursor, picked, relays, probe,
                  troubles>>
mcVars == <<vars, loginVars, streamVars, commandVars, balancerVars, part>>

L == INSTANCE AccountLockout
U == INSTANCE UdpStream
W == INSTANCE ClientWire
D == INSTANCE UdpDataplane

ASSUME L!PolicyAssumption
ASSUME U!StreamAssumption
ASSUME W!WireAssumption
ASSUME D!DataplaneAssumption

\* A short-tier client: the first tier may repeat a datagram, the second not.
TwoTiers == <<"udp", "https">>

\* Clients hash to an even and to an odd number.
OddEven == [c \in Client |-> IF c = CHOOSE d \in Client : TRUE THEN 1 ELSE 4]

\* The balancer's policy is of interest only where the balancer is followed.
MCInit ==
    /\ Init /\ L!Init /\ U!Init /\ W!WireInit /\ D!DataplaneInit
    /\ part \in {"lease", "login", "stream", "command", "balancer"}
    /\ part # "balancer" => policy = [algorithm |-> "least_conn", sticky |-> FALSE, active |-> FALSE]
    /\ part # "stream" => net = {}

InLease(A) ==
    /\ part = "lease" /\ A
    /\ UNCHANGED <<loginVars, streamVars, commandVars, balancerVars, part>>
InLogin(A) ==
    /\ part = "login" /\ A
    /\ UNCHANGED <<vars, streamVars, commandVars, balancerVars, part>>
InStream(A) ==
    /\ part = "stream" /\ A
    /\ UNCHANGED <<vars, loginVars, commandVars, balancerVars, part>>
InCommand(A) ==
    /\ part = "command" /\ A
    /\ UNCHANGED <<vars, loginVars, streamVars, balancerVars, part>>
InBalancer(A) ==
    /\ part = "balancer" /\ A
    /\ UNCHANGED <<vars, loginVars, streamVars, commandVars, part>>

MCNext ==
    \/ InLease(Next)
    \/ InLogin(L!Next)
    \/ InStream(U!Next)
    \/ InCommand(W!WireNext)
    \/ InBalancer(D!DataplaneNext)

\* The fairness of LeaseCluster!FairSpec and of AccountLockout!Spec.
LeaseAndLoginFair ==
    /\ \A p \in Peer, g \in GrantEvent : WF_mcVars(InLease(g \in cast /\ FoldGrant(p, g)))
    /\ \A p \in Peer, c \in Candidate, e \in Epoch : WF_mcVars(InLease(TryAcquire(p, c, e)))
    /\ WF_mcVars(InLogin(L!Tick))

\* The pump takes what is queued, its interval keeps ticking, and what is sent
\* again and again is not lost every time.
StreamFair ==
    /\ WF_mcVars(InStream(U!TakeChunk("dialer")))
    /\ SF_mcVars(InStream(U!RetransmitGetsThrough("dialer")))
    /\ \A q \in 0..MaxBytes : /\ SF_mcVars(InStream(U!ArrivesAndIsAcked(q)))
                              /\ WF_mcVars(InStream(U!AckArrives(q)))

\* The command's own steps, among them the timeout of a tier that is silent; a
\* peer that holds a connection need not let go.
CommandFair == WF_mcVars(InCommand(W!SendNext \/ W!Timeout \/ W!Finish))

\* The forwarding loop, the relay tasks with their timeout, and the prober.
BalancerFair ==
    /\ WF_mcVars(InBalancer(picked # None /\ \E s \in D!Slot : D!Forward(s)))
    /\ \A s \in D!Slot : WF_mcVars(InBalancer(D!RelayEnds(s)))
    /\ WF_mcVars(InBalancer(\E lost \in BOOLEAN : D!ProbeAnswered(lost)))
    /\ WF_mcVars(InBalancer(D!ProbeStored))

MCSpec ==
    /\ MCInit /\ [][MCNext]_mcVars
    /\ LeaseAndLoginFair /\ StreamFair /\ CommandFair /\ BalancerFair

\* AccountLockout: the wrong passwords evaluated within one cooldown never
\* exceed the threshold, and over any window the bucket lets no more attempts
\* through than its capacity and its refill.
ThrottleInv == L!ThrottleInv

\* AccountLockout: a locked identifier is eventually free again, whatever
\* attempts keep arriving.
LockEnds == L!LockEnds

\* UdpStream: the pumps, the accept loop and a network that loses, repeats and
\* reorders implement a pipe, re-accepted streams included.
ImplementsPipe == U!ImplementsPipe

\* UdpStream: what the dialer handed over is read unless an application drops
\* its stream or an end loses its socket.
FlushedIsRead == U!FlushedIsRead

\* ClientWire: a command ends, whatever the network and the node do, unless it
\* is held again and again by the other end of a connection.
CommandEnds == W!CommandEnds

\* UdpStream: a frame counted as acknowledged was handed on by the other pump,
\* and each side reads a prefix of what the other wrote.  ClientWire: every OK
\* a command records was given to that operation, and the documents of a
\* manifest are evaluated in their order.  UdpDataplane: a backend's count is
\* the number of its relay tasks.
TransportInv == U!StreamInv /\ W!WireInv /\ D!DataplaneInv

\* UdpDataplane: the health flags follow the backends in the end, and a backend
\* that stays down gets no more datagrams.
HealthFollows == D!HealthFollows
=============================================================================
