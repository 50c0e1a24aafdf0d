---------------------------- MODULE UdpDataplane ----------------------------
(***************************************************************************)
(* The UDP load balancer of crates/pillar-net (udp_dataplane.rs) as        *)
(* `pillar run` and `pillar ingress-lb-udp` start it: a forwarding loop, a *)
(* relay task per datagram, a health prober, and backends that stop and    *)
(* come back.                                                              *)
(*                                                                         *)
(* The loop reads the health flags, then chooses: the prober may run in    *)
(* between.  A probe is a question and an answer: the flag is stored after *)
(* the answer, when the backend may have changed already.  The round-robin *)
(* cursor is kept modulo CursorMod, which every backend count divides.     *)
(***************************************************************************)
EXTENDS Integers, FiniteSets

CONSTANTS
    Backends,       \* the number of backends, in manifest order
    Client,
    Hash,           \* consistent_hash(): a number for every client
    CursorMod,
    MaxInFlight,    \* bound on relay tasks
    MaxTroubles,    \* bound on backends stopping and coming back, on probes
                    \* lost on a live backend and on mark_unhealthy
    None

Backend == 1..Backends
Slot == 1..MaxInFlight

\* A relay task: the client it answers and the backend it waits for.
Relay == [client : Client, backend : Backend]

DataplaneAssumption ==
    /\ Backends \in Nat \ {0} /\ MaxInFlight \in Nat
    /\ CursorMod \in Nat \ {0} /\ \A n \in Backend : CursorMod % n = 0
    /\ Hash \in [Client -> Nat]
    /\ None \notin Relay

VARIABLES
    policy,     \* algorithm, sticky affinity, active health checks
    up,         \* which backends run
    healthy,    \* the health flags
    outstanding,
    sticky,     \* the backend a client is pinned to
    cursor,     \* rr_cursor
    picked,     \* the datagram in the loop: its client and the flags read
    relays,     \* the relay tasks
    probe,      \* the prober: the backend asked and its answer
    troubles    \* how many of them happened

dataplaneVars == <<policy, up, healthy, outstanding, sticky, cursor, picked, relays, probe, troubles>>

Algorithm == {"round_robin", "least_conn", "consistent_hash"}

DataplaneInit ==
    /\ policy \in [algorithm : Algorithm, sticky : BOOLEAN, active : BOOLEAN]
    /\ up = [b \in Backend |-> TRUE]
    /\ healthy = [b \in Backend |-> TRUE]
    /\ outstanding = [b \in Backend |-> 0]
    /\ sticky = [c \in Client |-> None]
    /\ cursor = 0
    /\ picked = None
    /\ relays = [s \in Slot |-> None]
    /\ probe = [at |-> 1, answer |-> None]
    /\ troubles = 0

-----------------------------------------------------------------------------
(* The forwarding loop. *)

\* recv_from() and the read of the flags; with every backend down the
\* datagram is dropped.
Receive(c) ==
    /\ picked = None
    /\ \E b \in Backend : healthy[b]
    /\ picked' = [client |-> c, live |-> {b \in Backend : healthy[b]}]
    /\ UNCHANGED <<policy, up, healthy, outstanding, sticky, cursor, relays, probe, troubles>>

\* The backend at a position, from 0, of the live ones in manifest order.
Nth(live, i) == CHOOSE b \in live : Cardinality({a \in live : a < b}) = i

LeastLoaded(live) ==
    CHOOSE b \in live : \A a \in live :
        outstanding[b] < outstanding[a] \/ (outstanding[b] = outstanding[a] /\ b <= a)

Pinned(c, live) == policy.sticky /\ sticky[c] \in live

\* select_backend() on the flags read before.
SelectBackend(c, live) ==
    IF Pinned(c, live) THEN sticky[c]
    ELSE CASE policy.algorithm = "round_robin"     -> Nth(live, cursor % Cardinality(live))
           [] policy.algorithm = "least_conn"      -> LeastLoaded(live)
           [] policy.algorithm = "consistent_hash" -> Nth(live, Hash[c] % Cardinality(live))

\* The choice, the pin and the start of the relay task.
Forward(s) ==
    LET c == picked.client
        live == picked.live
        b == SelectBackend(c, live)
    IN /\ relays[s] = None /\ \A t \in Slot : t < s => relays[t] # None
       /\ cursor' = IF Pinned(c, live) \/ policy.algorithm # "round_robin" THEN cursor
                    ELSE (cursor + 1) % CursorMod
       /\ sticky' = IF policy.sticky THEN [sticky EXCEPT ![c] = b] ELSE sticky
       /\ outstanding' = [outstanding EXCEPT ![b] = @ + 1]
       /\ relays' = [relays EXCEPT ![s] = [client |-> c, backend |-> b]]
       /\ picked' = None
       /\ UNCHANGED <<policy, up, healthy, probe, troubles>>

\* The relay task ends: the backend answered, or two seconds passed.  Either
\* way the guard gives the count back.
RelayEnds(s) ==
    /\ relays[s] # None
    /\ relays' = [relays EXCEPT ![s] = None]
    /\ outstanding' = [outstanding EXCEPT ![relays[s].backend] = @ - 1]
    /\ UNCHANGED <<policy, up, healthy, sticky, cursor, picked, probe, troubles>>

-----------------------------------------------------------------------------
(* Health. *)

\* probe(): the backend answers, or it does not.
ProbeAnswered(lost) ==
    /\ policy.active
    /\ probe.answer = None
    /\ lost => up[probe.at] /\ troubles < MaxTroubles
    /\ probe' = [probe EXCEPT !.answer = IF up[probe.at] /\ ~lost THEN "yes" ELSE "no"]
    /\ troubles' = IF lost THEN troubles + 1 ELSE troubles
    /\ UNCHANGED <<policy, up, healthy, outstanding, sticky, cursor, picked, relays>>

\* Mutant of ProbeStored: a backend once found down stays down.
ProbeStoredDown ==
    /\ probe.answer # None
    /\ healthy' = [healthy EXCEPT ![probe.at] = @ /\ probe.answer = "yes"]
    /\ probe' = [at |-> (probe.at % Backends) + 1, answer |-> None]
    /\ UNCHANGED <<policy, up, outstanding, sticky, cursor, picked, relays, troubles>>

\* The flag is stored and the prober moves on to the next backend.
ProbeStored ==
    /\ probe.answer # None
    /\ healthy' = [healthy EXCEPT ![probe.at] = probe.answer = "yes"]
    /\ probe' = [at |-> (probe.at % Backends) + 1, answer |-> None]
    /\ UNCHANGED <<policy, up, outstanding, sticky, cursor, picked, relays, troubles>>

MarkUnhealthy(b) ==
    /\ troubles < MaxTroubles
    /\ healthy' = [healthy EXCEPT ![b] = FALSE]
    /\ troubles' = troubles + 1
    /\ UNCHANGED <<policy, up, outstanding, sticky, cursor, picked, relays, probe>>

\* A backend stops or comes back.
BackendChanges(b) ==
    /\ troubles < MaxTroubles
    /\ up' = [up EXCEPT ![b] = ~@]
    /\ troubles' = troubles + 1
    /\ UNCHANGED <<policy, healthy, outstanding, sticky, cursor, picked, relays, probe>>

DataplaneNext ==
    \/ \E c \in Client : Receive(c)
    \/ picked # None /\ \E s \in Slot : Forward(s)
    \/ \E s \in Slot : RelayEnds(s)
    \/ \E lost \in BOOLEAN : ProbeAnswered(lost)
    \/ ProbeStored
    \/ \E b \in Backend : MarkUnhealthy(b) \/ BackendChanges(b)

DataplaneSpec == DataplaneInit /\ [][DataplaneNext]_dataplaneVars

-----------------------------------------------------------------------------
\* The count of a backend, from which least-connections chooses, is the number
\* of its relay tasks, however they end and whatever happened to the backend
\* meanwhile.
DataplaneInv ==
    \A b \in Backend : outstanding[b] =
        Cardinality({s \in Slot : relays[s] # None /\ relays[s].backend = b})

\* Once backends stop coming and going, the flags come to say which ones run
\* under active checks and stay so, although an answer may be stale by the time
\* it is stored; and a backend that is down has no datagram sent to it then.
HealthFollows ==
    policy.active =>
        <>[](\A b \in Backend :
                /\ healthy[b] = up[b]
                /\ ~up[b] => \A s \in Slot : relays[s] = None \/ relays[s].backend # b)
=============================================================================
