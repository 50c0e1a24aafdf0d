-------------------------------- MODULE Ipam --------------------------------
(***************************************************************************)
(* Address allocation of crates/pillar-ipam: delegated pools bound to the  *)
(* failure domains of a topology tier (lib.rs), each fenced by a lease     *)
(* register whose epochs are the slots of the pool, and the operator       *)
(* surface that records which purpose got which address (operator.rs).     *)
(*                                                                         *)
(* An address is a number below 2^Width of one family; the two families    *)
(* are alike, so one is modelled.  Placement is fixed: nothing reaches the *)
(* topology once the IPAM owns it.                                         *)
(***************************************************************************)
EXTENDS LeaseRegister

CONSTANTS
    Site,       \* values of the binding tier
    SiteOf,     \* placement of every node: a site, or None
    Name,       \* the purposes an operator records
    Pools,      \* the pools [base, len] an operator may bind
    Width,      \* bits of an address of the family
    MaxBinds,   \* bound on bind_pool calls
    None

Addr == 0 .. 2^Width - 1

Pool == [base : Addr, len : Nat]

\* Every slot of every pool is an epoch of its register.
IpamAssumption ==
    /\ Width \in Nat /\ MaxBinds \in Nat
    /\ Pools \subseteq Pool
    /\ \A p \in Pools : 0 .. p.len - 1 \subseteq Epoch
    /\ SiteOf \in [Candidate -> Site \cup {None}]
    /\ None \notin Site

VARIABLES
    pool,      \* the pool bound to each site
    register,  \* the register that fences it
    records,   \* name -> recorded binding
    binds,     \* bind_pool calls so far
    stranded   \* the names recorded before the pool of their site was replaced

vars == <<pool, register, records, binds, stranded>>

Binding == [node : Candidate, addr : Addr, allocated : BOOLEAN]

Init ==
    /\ pool = [s \in Site |-> None]
    /\ register = [s \in Site |-> EmptyRegister]
    /\ records = [n \in Name |-> None]
    /\ binds = 0
    /\ stranded = {}

----------------------------------------------------------------------------
(* Slots. *)

\* index_of(): the offset from the base, None outside the pool.
IndexOf(p, a) == IF a - p.base \in 0 .. p.len - 1 THEN a - p.base ELSE None

\* addr_at(): the sum is cut to the width of the family.
AddrAt(p, i) == IF i >= p.len THEN None ELSE (p.base + i) % 2^Width

\* allocator_for() and epoch_of() succeed: the node is placed, its site has a
\* pool and the address lies in it.
InScope(n, a) ==
    /\ SiteOf[n] # None
    /\ pool[SiteOf[n]] # None
    /\ IndexOf(pool[SiteOf[n]], a) # None

Slot(n, a) == IndexOf(pool[SiteOf[n]], a)

----------------------------------------------------------------------------
(* The topology-scoped IPAM. *)

\* bind_pool(): a new allocator, hence a new register; a second pool replaces
\* the first, and the records made in it stay.
BindPool(s, p) ==
    /\ binds < MaxBinds
    /\ binds' = binds + 1
    /\ pool' = [pool EXCEPT ![s] = p]
    /\ register' = [register EXCEPT ![s] = EmptyRegister]
    /\ stranded' = stranded \cup {n \in Name : records[n] # None /\ SiteOf[records[n].node] = s}
    /\ UNCHANGED records

\* grant_for(): a voter's grant reaches the register of the node's site.
GrantFor(v, n, a) ==
    /\ InScope(n, a)
    /\ register' = [register EXCEPT ![SiteOf[n]] = Granted(@, v, n, Slot(n, a))]
    /\ UNCHANGED <<pool, records, binds, stranded>>

----------------------------------------------------------------------------
(* The operator surface. *)

\* ensure_free(): no other name has the address.
EnsureFree(name, a) ==
    \A n \in Name \ {name} : records[n] # None => records[n].addr # a

\* Mutant of BindingFor: whatever is recorded is taken to be allocated.
BindingForAssumed(n, a) == [node |-> n, addr |-> a, allocated |-> TRUE]

\* The record of an address: allocated is what allocate_for() answers.
BindingFor(n, a) ==
    [node |-> n, addr |-> a,
     allocated |-> Acquires(register[SiteOf[n]], n, Slot(n, a))]

\* Both verbs ask allocate_for() and write the record under the name.
Put(name, n, a) ==
    /\ EnsureFree(name, a)
    /\ InScope(n, a)
    /\ records' = [records EXCEPT ![name] = BindingFor(n, a)]
    /\ register' = [register EXCEPT ![SiteOf[n]] = Acquired(@, n, Slot(n, a))]
    /\ stranded' = stranded \ {name}
    /\ UNCHANGED <<pool, binds>>

Reserve(name, n, a) == Put(name, n, a)

\* allocate() records a live allocation only.
Allocate(name, n, a) == BindingFor(n, a).allocated /\ Put(name, n, a)

\* release(): the record goes in any case, the slot if it is still in scope.
Release(name) ==
    /\ records[name] # None
    /\ LET b == records[name]
       IN  register' =
             IF InScope(b.node, b.addr)
             THEN [register EXCEPT ![SiteOf[b.node]] =
                                     Released(@, b.node, Slot(b.node, b.addr))]
             ELSE register
    /\ records' = [records EXCEPT ![name] = None]
    /\ stranded' = stranded \ {name}
    /\ UNCHANGED <<pool, binds>>

Next ==
    \/ \E s \in Site, p \in Pools : BindPool(s, p)
    \/ \E n \in Candidate, a \in Addr :
         /\ InScope(n, a)
         /\ \/ \E v \in Voter : GrantFor(v, n, a)
            \/ \E name \in Name : Reserve(name, n, a) \/ Allocate(name, n, a)
    \/ \E name \in Name : Release(name)

Spec == Init /\ [][Next]_vars

----------------------------------------------------------------------------
(* Properties. *)

\* The variables keep to their sets, and a register knows no slot beyond its
\* pool.
TypeOK ==
    /\ pool \in [Site -> Pools \cup {None}]
    /\ register \in [Site -> Register]
    /\ \A s \in Site, v \in Voter :
          pool[s] # None => register[s].grants[v].epoch < pool[s].len
    /\ records \in [Name -> Binding \cup {None}]
    /\ binds \in 0 .. MaxBinds
    /\ stranded \subseteq Name

\* An address is recorded under one name, whatever mix of reservations,
\* allocations and rebound pools led there ("an operator can never hand one
\* VIP address to two purposes", operator.rs).
RecordedOnce ==
    \A m, n \in Name :
        /\ records[m] # None
        /\ records[n] # None
        /\ records[m].addr = records[n].addr
        => m = n

\* What the load balancer reads as allocated is held, in the register of the
\* node's site, by the node of the record: no release under another name, a
\* stranded one included, and no later record takes the slot away from it.
\* Only replacing the pool does, and then of the records made before.
AllocatedIsHeld ==
    \A name \in Name \ stranded :
        LET b == records[name]
        IN  b # None =>
              (b.allocated =>
                 /\ InScope(b.node, b.addr)
                 /\ register[SiteOf[b.node]].holders[Slot(b.node, b.addr)] = b.node)

\* The slot that fences an address is the slot of that address alone: addr_at()
\* names it back, although it cuts the sum to the width of the family and a
\* pool may reach beyond the family's end.
SlotsRoundTrip ==
    \A s \in Site, a \in Addr :
        pool[s] # None /\ IndexOf(pool[s], a) # None => AddrAt(pool[s], IndexOf(pool[s], a)) = a

\* What the operator surface (operator.rs) and the fenced pools (lib.rs) keep
\* together: no address is recorded for two purposes, and what is recorded as
\* allocated is held in the register of its pool by the recorded node.
AddressInv == TypeOK /\ RecordedOnce /\ AllocatedIsHeld
=============================================================================
