---------------------------- MODULE ExclusiveLease ----------------------------
(***************************************************************************)
(* What the coordination core promises a controller: an epoch is awarded   *)
(* at most once, to one candidate, for ever ("I hold epoch e" is the right *)
(* to perform an exclusive, non-idempotent side effect).                   *)
(***************************************************************************)
CONSTANTS Epoch, Candidate, NoNode

VARIABLE award   \* award[e]: the one candidate epoch e was ever given to

Init == award = [e \in Epoch |-> NoNode]

Award(e, c) ==
    /\ award[e] = NoNode
    /\ award' = [award EXCEPT ![e] = c]

Next == \E e \in Epoch, c \in Candidate : Award(e, c)

Spec == Init /\ [][Next]_award
=============================================================================
