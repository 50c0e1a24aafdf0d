----------------------------- MODULE KeyEscrow -----------------------------
(***************************************************************************)
(* The escrow store of crates/pillar-key-distribution: an operational key  *)
(* is kept under the owner's password, and its release for signing costs a *)
(* step-up token.  The cipher is what it decides: an envelope opens under  *)
(* the password it was stored with.                                        *)
(***************************************************************************)
EXTENDS Integers, FiniteSets

CONSTANTS
    Artifact,
    Root,       \* the artifacts of kind Root
    Password,
    Token,      \* the step-up tokens ever minted
    MaxSigned,  \* bound on releases for signing
    None

EscrowAssumption ==
    /\ Root \subseteq Artifact
    /\ MaxSigned \in Nat
    /\ None \notin Password

VARIABLES
    envelope,   \* the password each stored envelope opens under
    decrypted,  \* artifacts whose plaintext was recovered
    consumed,   \* spent tokens
    signed      \* releases for signing so far

vars == <<envelope, decrypted, consumed, signed>>

Init ==
    /\ envelope = [a \in Artifact |-> None]
    /\ decrypted = {}
    /\ consumed = {}
    /\ signed = 0

\* store(): a root is refused; an earlier envelope is replaced.
Store(a, p) ==
    /\ a \notin Root
    /\ envelope' = [envelope EXCEPT ![a] = p]
    /\ UNCHANGED <<decrypted, consumed, signed>>

Opens(a, p) == envelope[a] # None /\ envelope[a] = p

\* recover_plaintext()
Recover(a, p) ==
    /\ Opens(a, p)
    /\ decrypted' = decrypted \cup {a}
    /\ UNCHANGED <<envelope, consumed, signed>>

\* Mutant of Consume: the token is looked at and left as it is.
ConsumeChecked(t) == t \notin consumed /\ UNCHANGED consumed

\* StepUpToken::consume()
Consume(t) == t \notin consumed /\ consumed' = consumed \cup {t}

\* recover_plaintext_for_signing(): the token is spent before the envelope
\* is tried.
RecoverForSigning(a, p, t) ==
    /\ signed < MaxSigned
    /\ Consume(t)
    /\ IF Opens(a, p)
       THEN decrypted' = decrypted \cup {a} /\ signed' = signed + 1
       ELSE UNCHANGED <<decrypted, signed>>
    /\ UNCHANGED envelope

Next ==
    \E a \in Artifact, p \in Password :
        \/ Store(a, p)
        \/ Recover(a, p)
        \/ \E t \in Token : RecoverForSigning(a, p, t)

Spec == Init /\ [][Next]_vars

\* No root is ever escrowed or recovered, however the artifacts are handed in
\* (Escrow::store is the only way into the store).
NoRootEscrow == \A a \in Root : envelope[a] = None /\ a \notin decrypted

\* One step-up pays for at most one release for signing, over any sequence
\* of stores, wrong passwords and retries.
OneReleasePerToken == signed <= Cardinality(consumed)

EscrowTypeOK ==
    /\ envelope \in [Artifact -> Password \cup {None}]
    /\ decrypted \subseteq Artifact
    /\ consumed \subseteq Token /\ IsFiniteSet(consumed)
    /\ signed \in 0..MaxSigned

\* A root never reaches the store, and what left it for signing was paid for
\* with as many step-up tokens, wrong passwords and reused tokens included.
EscrowInv == EscrowTypeOK /\ NoRootEscrow /\ OneReleasePerToken
=============================================================================
