----------------------------- MODULE QuotaLedger -----------------------------
(***************************************************************************)
(* The quorum-fenced reservation ledger (crates/pillar-quota-ledger) and   *)
(* the admission hook that owns one (crates/pillar-manifest/admission.rs). *)
(* Every node that enforces the attestation opens its own ledger from it   *)
(* with for_budget: a ledger is [register, nextSlot, outstanding, log].    *)
(* The op-log entries are kept as what they say: the reservation admitted  *)
(* or released.                                                            *)
(***************************************************************************)
EXTENDS LeaseRegister, FiniteSetsExt

CONSTANTS
    Node,     \* the nodes that enforce the attestation, one ledger each
    Amount,   \* the amounts workloads request (u64; zero is legal)
    Budget    \* the quota of the attestation

QuotaAssumption == Budget \in Nat /\ Amount \subseteq Nat

VARIABLES
    ledger,   \* ledger[n]: the QuotaLedger of node n
    ids,      \* ids[n]: the slots whose ReservationId a caller still keeps
    wired     \* the nodes whose ledger was moved into an admission hook

vars == <<ledger, ids, wired>>

Reservation == [slot : Epoch, candidate : Candidate, amount : Amount]

TypeOK ==
    /\ \A n \in Node :
        /\ ledger[n].register \in Register
        /\ ledger[n].nextSlot \in Nat
        /\ ledger[n].outstanding \subseteq Reservation
        /\ ledger[n].log \subseteq [op : {"admit", "release"}, res : Reservation]
    /\ ids \in [Node -> SUBSET Epoch]
    /\ wired \subseteq Node

TotalAmount(reservations) ==
    FoldSet(LAMBDA r, total : total + r.amount, 0, reservations)

Reserved(l) == TotalAmount(l.outstanding)

Available(l) == Budget - Reserved(l)

Init ==
    /\ ledger = [n \in Node |-> [register    |-> EmptyRegister,
                                 nextSlot    |-> 0,
                                 outstanding |-> {},
                                 log         |-> {}]]
    /\ ids = [n \in Node |-> {}]
    /\ wired = {}

\* One vote for the pending slot; the core refuses a stale one.
GrantPending(l, v, c) == [l EXCEPT !.register = Granted(@, v, c, l.nextSlot)]

\* Mutant of SpoilSlot: the refusal keeps the slot.
SpoilNothing(l) == l

\* A refused admit spoils the slot: its grants are spent.
SpoilSlot(l) == [l EXCEPT !.nextSlot = @ + 1]

\* Mutant of Fits: the gate forgets what is already reserved.
FitsWholeBudget(l, amount) == amount <= Budget

\* The budget gate of admit().
Fits(l, amount) == amount <= Available(l)

Admits(l, c, amount) ==
    /\ Fits(l, amount)
    /\ Acquires(l.register, c, l.nextSlot)

\* The tail of admit() once both gates are passed.
Charged(l, c, amount) ==
    LET res == [slot |-> l.nextSlot, candidate |-> c, amount |-> amount]
    IN  [l EXCEPT !.register = Acquired(@, c, l.nextSlot),
                  !.nextSlot = @ + 1,
                  !.outstanding = @ \cup {res},
                  !.log = @ \cup {[op |-> "admit", res |-> res]}]

\* The ledger after admit().
AfterAdmit(l, c, amount) ==
    IF Admits(l, c, amount) THEN Charged(l, c, amount) ELSE SpoilSlot(l)

\* The tail of release() for an outstanding reservation.
Discharged(l, res) ==
    [l EXCEPT !.outstanding = @ \ {res},
              !.log = @ \cup {[op |-> "release", res |-> res]}]

-----------------------------------------------------------------------------
\* Direct callers of the ledger.

PendingSlotInBound(n) == ledger[n].nextSlot \in Epoch

LedgerGrant(n, v, c) ==
    /\ n \notin wired
    /\ PendingSlotInBound(n)
    /\ ledger' = [ledger EXCEPT ![n] = GrantPending(@, v, c)]
    /\ UNCHANGED <<ids, wired>>

LedgerAdmit(n, c, amount) ==
    /\ n \notin wired
    /\ PendingSlotInBound(n)
    /\ ledger' = [ledger EXCEPT ![n] = AfterAdmit(@, c, amount)]
    /\ ids' = [ids EXCEPT ![n] = IF Admits(ledger[n], c, amount)
                                 THEN @ \cup {ledger[n].nextSlot} ELSE @]
    /\ UNCHANGED wired

\* An id that is not outstanding any more is refused and changes nothing, so
\* only a first release is a step.  The hook's release() is this one.
LedgerRelease(n, slot) ==
    \E res \in ledger[n].outstanding :
        /\ res.slot = slot
        /\ ledger' = [ledger EXCEPT ![n] = Discharged(@, res)]
        /\ ids' = [ids EXCEPT ![n] = @ \ {slot}]
        /\ UNCHANGED wired

-----------------------------------------------------------------------------
\* The admission hook: from new() on, the only caller of its ledger, with a
\* voter list and a candidate (the identity of its cell).  Each admission collects every
\* voter's grant of the pending slot; the first refused grant ends it there.

Wire(n) ==
    /\ n \notin wired
    /\ wired' = wired \cup {n}
    /\ UNCHANGED <<ledger, ids>>

GrantsAllVoters(l) == \A v \in Voter : GrantAccepted(l.register, v, l.nextSlot)

AllGranted(l, c) ==
    [l EXCEPT !.register.grants =
        [v \in Voter |-> [epoch |-> l.nextSlot, candidate |-> c]]]

\* admit(): the caller keeps the id of an admitted workload.
HookAdmit(n, c, amount) ==
    /\ n \in wired
    /\ PendingSlotInBound(n)
    /\ GrantsAllVoters(ledger[n])
    /\ LET l == AllGranted(ledger[n], c)
       IN  /\ ledger' = [ledger EXCEPT ![n] = AfterAdmit(l, c, amount)]
           /\ ids' = [ids EXCEPT ![n] = IF Admits(l, c, amount)
                                        THEN @ \cup {l.nextSlot} ELSE @]
    /\ UNCHANGED wired

\* reconcile(): the same admission, whose ReservationId is matched and dropped.
HookReconcile(n, c, amount) ==
    /\ n \in wired
    /\ PendingSlotInBound(n)
    /\ GrantsAllVoters(ledger[n])
    /\ ledger' = [ledger EXCEPT ![n] = AfterAdmit(AllGranted(@, c), c, amount)]
    /\ UNCHANGED <<ids, wired>>

\* An admission that meets a spent vote is refused without reaching admit():
\* the votes before it in the list are given, the slot stays.
HookRefused(n, c) ==
    /\ n \in wired
    /\ PendingSlotInBound(n)
    /\ \E spent \in Voter :
        /\ ~GrantAccepted(ledger[n].register, spent, ledger[n].nextSlot)
        /\ \E before \in SUBSET (Voter \ {spent}) :
            /\ \A v \in before : GrantAccepted(ledger[n].register, v, ledger[n].nextSlot)
            /\ ledger' = [ledger EXCEPT ![n].register.grants =
                   [v \in Voter |-> IF v \in before
                                    THEN [epoch |-> ledger[n].nextSlot, candidate |-> c]
                                    ELSE @[v]]]
    /\ UNCHANGED <<ids, wired>>

Next ==
    \E n \in Node :
        \/ \E v \in Voter, c \in Candidate : LedgerGrant(n, v, c)
        \/ \E c \in Candidate, amount \in Amount :
               \/ LedgerAdmit(n, c, amount)
               \/ HookAdmit(n, c, amount)
               \/ HookReconcile(n, c, amount)
        \/ \E slot \in ids[n] : LedgerRelease(n, slot)
        \/ Wire(n)
        \/ \E c \in Candidate : HookRefused(n, c)

Spec == Init /\ [][Next]_vars

-----------------------------------------------------------------------------
\* A ledger never reserves more than its attestation's quota, through any
\* sequence of grants, refusals, spoilt slots and releases; so the unchecked
\* u64 subtraction of available() never wraps.
WithinBudget == \A n \in Node : Reserved(ledger[n]) <= Budget

\* The balance can be rebuilt from the durable log alone: what was admitted
\* minus what was released is what is reserved.
BalanceFromLog ==
    \A n \in Node :
        LET logged(op) == TotalAmount({x.res : x \in {y \in ledger[n].log : y.op = op}})
        IN  Reserved(ledger[n]) = logged("admit") - logged("release")

\* A ReservationId names one reservation: no two reservations, outstanding or
\* released, ever had the same slot, and each was fenced for its candidate.
SlotsAreFencedOnce ==
    \A n \in Node :
        /\ \A x, y \in ledger[n].log :
              (x.op = y.op /\ x.res.slot = y.res.slot) => x = y
        /\ \A x \in ledger[n].log :
              ledger[n].register.holders[x.res.slot] = x.res.candidate

\* The hook never wedges itself: as long as it was wired to a ledger whose
\* pending slot nobody voted for yet, every admission, admitted or refused,
\* leaves a pending slot that every voter can still grant.
HookSlotStaysFresh ==
    [][\A n \in wired :
          GrantsAllVoters(ledger[n]) => GrantsAllVoters(ledger'[n])]_vars

\* What the crate documentation promises of several nodes that enforce one
\* attestation: together they stay within it.
SharedBudgetRespected ==
    FoldSet(LAMBDA n, total : total + Reserved(ledger[n]), 0, Node) <= Budget

\* What admit(), confirm() and release() keep together, whatever the order of
\* the calls and of the hook's reconciles: the reservations stay within the
\* attested budget (available() cannot wrap), the balance is the one the
\* op-log tells, and every admitted reservation has a slot won in the
\* register that no other reservation has.
QuotaInv == TypeOK /\ WithinBudget /\ BalanceFromLog /\ SlotsAreFencedOnce
=============================================================================
