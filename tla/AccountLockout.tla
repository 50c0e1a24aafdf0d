--------------------------- MODULE AccountLockout ---------------------------
(***************************************************************************)
(* The two throttles in front of the portal's login                        *)
(* (crates/pillar-web/account_lockout.rs, driven by dispatch_login         *)
(* and dispatch_users_unlock of crates/pillar-cli/web_serve.rs): a token   *)
(* bucket per identifier, then the failed-attempt lockout with its         *)
(* cooldown.                                                               *)
(*                                                                         *)
(* The code stores instants and subtracts them from now; the model stores  *)
(* the ages directly, cut off where they stop to matter, so that time may  *)
(* run for ever.  The clock is taken to be monotone.  Refill is a whole    *)
(* number of tokens per second, so the fixed-point SCALE factors out.      *)
(***************************************************************************)
EXTENDS Integers, FiniteSetsExt

CONSTANTS
    Id,             \* login identifiers
    MaxFailures,    \* LockoutPolicy.max_failures
    LockoutSecs,    \* LockoutPolicy.lockout_secs
    Capacity,       \* RateLimitPolicy.capacity of the login class
    Refill,         \* RateLimitPolicy.refill_per_sec of the login class
    Window,         \* seconds of history the rate property looks back over
    None

\* AttemptState, with the time since locked_at in place of the instant.
Attempts == [failures : 0..MaxFailures, lockAge : 0..LockoutSecs \cup {None}]

\* Bucket, with the time since `last`; after Capacity seconds it is full.
Bucket == [tokens : 0..Capacity, idle : 0..Capacity]

PolicyAssumption ==
    /\ MaxFailures \in Nat \ {0}
    /\ LockoutSecs \in Nat
    /\ Capacity \in Nat \ {0}
    /\ Refill \in Nat \ {0}
    /\ Window \in Nat
    /\ None \notin Nat /\ None \notin Attempts /\ None \notin Bucket

VARIABLES
    by_id,      \* LockoutGate.by_id
    buckets,    \* RateLimiter.buckets of the login class
    guesses,    \* history: evaluated wrong passwords by age, since the last clear
    passed      \* history: attempts the bucket let through, by age

vars == <<by_id, buckets, guesses, passed>>

TypeOK ==
    /\ by_id \in [Id -> Attempts \cup {None}]
    /\ buckets \in [Id -> Bucket \cup {None}]
    /\ guesses \in [Id -> [0..LockoutSecs -> Nat]]
    /\ passed \in [Id -> [0..Window -> Nat]]

NoGuess == [a \in 0..LockoutSecs |-> 0]

Init ==
    /\ by_id = [i \in Id |-> None]
    /\ buckets = [i \in Id |-> None]
    /\ guesses = [i \in Id |-> NoGuess]
    /\ passed = [i \in Id |-> [a \in 0..Window |-> 0]]

-----------------------------------------------------------------------------
\* The token bucket.

\* The refill step of RateLimiter::allow.
Refilled(b) ==
    IF b = None THEN [tokens |-> Capacity, idle |-> 0]
    ELSE [tokens |-> Min({Capacity, b.tokens + Refill * b.idle}), idle |-> 0]

Allows(i) == Refilled(buckets[i]).tokens >= 1

\* allow() consumes a token when there is one; the refill happens either way.
Consume(i) ==
    LET b == Refilled(buckets[i])
    IN  buckets' = [buckets EXCEPT ![i] = IF Allows(i) THEN [b EXCEPT !.tokens = @ - 1] ELSE b]

-----------------------------------------------------------------------------
\* The lockout gate.

Fresh == [failures |-> 0, lockAge |-> None]

\* Mutant of EntryExpired: the cooldown ends one second early.
EntryExpiredEarly(s) ==
    IF s = None THEN Fresh
    ELSE IF s.lockAge # None /\ s.lockAge + 1 >= LockoutSecs THEN Fresh
    ELSE s

\* entry_expired: an elapsed lock is cleared together with its counter.
EntryExpired(s) ==
    IF s = None THEN Fresh
    ELSE IF s.lockAge # None /\ s.lockAge >= LockoutSecs THEN Fresh
    ELSE s

Locked(i) == EntryExpired(by_id[i]).lockAge # None

\* Mutant of AfterCheck: refusing an attempt restarts the cooldown.
AfterCheckSliding(s) ==
    LET e == EntryExpired(s)
    IN IF e.lockAge # None THEN [e EXCEPT !.lockAge = 0] ELSE e

\* check: the stored state is the expired entry, nothing else.
AfterCheck(s) == EntryExpired(s)

\* record_failure
AfterFailure(s) ==
    LET e == EntryExpired(s)
        n == e.failures + 1
    IN IF e.lockAge # None THEN e
       ELSE [failures |-> n, lockAge |-> IF n >= MaxFailures THEN 0 ELSE None]

-----------------------------------------------------------------------------
\* dispatch_login, one action per outcome.

RateLimited(i) ==
    /\ ~Allows(i)
    /\ Consume(i)
    /\ UNCHANGED <<by_id, guesses, passed>>

Admitted(i) ==
    /\ Allows(i)
    /\ Consume(i)
    /\ passed' = [passed EXCEPT ![i][0] = @ + 1]

LoginLocked(i) ==
    /\ Admitted(i)
    /\ Locked(i)
    /\ by_id' = [by_id EXCEPT ![i] = AfterCheck(@)]
    /\ UNCHANGED guesses

\* A wrong password, an unknown user or a stale nonce: all count alike.
LoginFails(i) ==
    /\ Admitted(i)
    /\ ~Locked(i)
    /\ by_id' = [by_id EXCEPT ![i] = AfterFailure(AfterCheck(@))]
    /\ guesses' = [guesses EXCEPT ![i][0] = @ + 1]

LoginSucceeds(i) ==
    /\ Admitted(i)
    /\ ~Locked(i)
    /\ by_id' = [by_id EXCEPT ![i] = None]
    /\ guesses' = [guesses EXCEPT ![i] = NoGuess]

\* admin_unlock, once dispatch_users_unlock has proved the admin's authority.
AdminUnlock(i) ==
    /\ by_id[i] # None
    /\ by_id' = [by_id EXCEPT ![i] = None]
    /\ guesses' = [guesses EXCEPT ![i] = NoGuess]
    /\ UNCHANGED <<buckets, passed>>

-----------------------------------------------------------------------------
Older(h) == [a \in DOMAIN h |-> IF a = 0 THEN 0 ELSE h[a - 1]]

\* One second passes.
Tick ==
    /\ by_id' = [i \in Id |->
          IF by_id[i] # None /\ by_id[i].lockAge # None
          THEN [by_id[i] EXCEPT !.lockAge = Min({LockoutSecs, @ + 1})]
          ELSE by_id[i]]
    /\ buckets' = [i \in Id |->
          IF buckets[i] # None THEN [buckets[i] EXCEPT !.idle = Min({Capacity, @ + 1})]
          ELSE buckets[i]]
    /\ guesses' = [i \in Id |-> Older(guesses[i])]
    /\ passed' = [i \in Id |-> Older(passed[i])]

\* Both throttles live in memory only.
Restart ==
    /\ by_id' = [i \in Id |-> None]
    /\ buckets' = [i \in Id |-> None]
    /\ guesses' = [i \in Id |-> NoGuess]
    /\ passed' = [i \in Id |-> [a \in 0..Window |-> 0]]

Next ==
    \/ \E i \in Id : \/ RateLimited(i) \/ LoginLocked(i) \/ LoginFails(i)
                     \/ LoginSucceeds(i) \/ AdminUnlock(i)
    \/ Tick
    \/ Restart

\* Time passes whatever callers do.
Spec == Init /\ [][Next]_vars /\ WF_vars(Tick)

-----------------------------------------------------------------------------
Recent(h, secs) == MapThenSumSet(LAMBDA a : h[a], 0..secs)

\* Between two clears (a success, an admin unlock, a restart) at most
\* MaxFailures wrong passwords are evaluated within one cooldown, however the
\* attempts are spread: check, record_failure and the expiry together bound
\* the rate of password guessing.
GuessRateBounded ==
    \A i \in Id :
        LockoutSecs > 0 => Recent(guesses[i], LockoutSecs - 1) <= MaxFailures

\* The bucket of RateLimiter::allow: over any s seconds no more attempts get
\* past it than a full bucket and s refills pay for.
BurstBounded ==
    \A i \in Id : \A s \in 0..Window : Recent(passed[i], s) <= Capacity + Refill * s

\* Some identifier is refused whatever password it presents.
SomeLocked == \E i \in Id : Locked(i)

\* A lock ends even while attempts keep arriving: a refused or failing attempt
\* never restarts the cooldown (record_failure's early return, check's expiry).
LockEnds == []<>(~SomeLocked)

\* What the two throttles together promise the login: the wrong passwords
\* evaluated within one cooldown never exceed the threshold, and over any
\* window the bucket lets no more attempts through than capacity and refill.
ThrottleInv == TypeOK /\ GuessRateBounded /\ BurstBounded
=============================================================================
