---------------------------- MODULE LoginLimiter ----------------------------
(***************************************************************************)
(* The sign-in limiter (cmd/web/ratelimit.go) and the three pre-sign-in    *)
(* paths that ask it: password, second factor and reset request.  A path   *)
(* asks whether its keys are locked, does its work, and reports a failure  *)
(* or a success; requests overlap, so a failure may be reported under a    *)
(* lock another request set.                                               *)
(***************************************************************************)
EXTENDS Naturals

CONSTANTS
    User, Source,    \* the keys: a username, a client address
    MaxFailures,     \* failures before a lock
    Window,          \* quiet time that forgets failures
    BaseLockout, MaxLockout,
    AcctCeiling,     \* how long a username stays locked at most
    MaxInstant,      \* bound: the clock
    MaxRequests      \* bound: requests in flight

ASSUME LimiterAssumption ==
    /\ {MaxFailures, Window, BaseLockout, MaxLockout} \subseteq Nat
    /\ {AcctCeiling, MaxInstant, MaxRequests} \subseteq Nat

VARIABLES
    instant,
    entries,   \* failures, lastFailure, lockedUntil, firstLockedAt by key (0: unset)
    guesses,   \* requests that have passed the check
    since      \* by key, since when it has been locked without a break

limiterVars == <<instant, entries, guesses, since>>

LimiterKey == User \cup Source
NoEntry == [failures |-> 0, lastFailure |-> 0, lockedUntil |-> 0, firstLockedAt |-> 0]

LimiterInit ==
    /\ instant = 1
    /\ entries = [k \in LimiterKey |-> NoEntry]
    /\ guesses = [g \in 1..MaxRequests |-> <<>>]
    /\ since = [k \in LimiterKey |-> 0]

\* Variant for mutation: a username's lock that goes on as long as its failures do.
lockedAt_NoCeiling(k, E, t) == t < E[k].lockedUntil

lockedAt(k, E, t) ==
    /\ t < E[k].lockedUntil
    /\ ~(k \in User /\ E[k].firstLockedAt # 0 /\ t >= E[k].firstLockedAt + AcctCeiling)

\* The lock doubles with every failure past the limit, up to its maximum.
lockoutFor(failures) ==
    LET d == BaseLockout * 2 ^ (failures - MaxFailures)
    IN IF d \in 0..MaxLockout THEN d ELSE MaxLockout

\* Failures older than the window are forgotten, but never under a lock.
Forgets(e) == instant >= e.lockedUntil /\ e.lastFailure # 0 /\ instant - e.lastFailure > Window

anchor(e) == IF e.firstLockedAt = 0 THEN instant ELSE e.firstLockedAt

failEntry(old) ==
    LET e == IF Forgets(old) THEN [old EXCEPT !.failures = 0, !.firstLockedAt = 0] ELSE old
        n == e.failures + 1
    IN [failures |-> n, lastFailure |-> instant,
        lockedUntil |-> IF n >= MaxFailures THEN instant + lockoutFor(n) ELSE e.lockedUntil,
        firstLockedAt |-> IF n >= MaxFailures THEN anchor(e) ELSE e.firstLockedAt]

\* Keeps since in step with the entries and the clock.
Observe(E, t) ==
    since' = [k \in LimiterKey |-> IF ~lockedAt(k, E, t) THEN 0 ELSE IF since[k] = 0 THEN t ELSE since[k]]

\* loginSubmit, loginTOTP, forgotSubmit: refused at once when either key is locked.
limiterCheck(g, u, ip) ==
    /\ guesses[g] = <<>>
    /\ ~lockedAt(u, entries, instant) /\ ~lockedAt(ip, entries, instant)
    /\ guesses' = [guesses EXCEPT ![g] = <<u, ip>>]
    /\ UNCHANGED <<instant, entries, since>>

\* A wrong password or code, or any reset request.
limiterFail(g) ==
    /\ guesses[g] # <<>>
    /\ entries' = [k \in LimiterKey |-> IF k \in {guesses[g][1], guesses[g][2]} THEN failEntry(entries[k]) ELSE entries[k]]
    /\ guesses' = [guesses EXCEPT ![g] = <<>>]
    /\ Observe(entries', instant)
    /\ UNCHANGED instant

\* The right one.
limiterReset(g) ==
    /\ guesses[g] # <<>>
    /\ entries' = [k \in LimiterKey |-> IF k \in {guesses[g][1], guesses[g][2]} THEN NoEntry ELSE entries[k]]
    /\ guesses' = [guesses EXCEPT ![g] = <<>>]
    /\ Observe(entries', instant)
    /\ UNCHANGED instant

LimiterClock ==
    /\ instant < MaxInstant
    /\ instant' = instant + 1
    /\ Observe(entries, instant')
    /\ UNCHANGED <<entries, guesses>>

LimiterNext ==
    \/ LimiterClock
    \/ \E g \in 1..MaxRequests :
        \/ \E u \in User, ip \in Source : limiterCheck(g, u, ip)
        \/ limiterFail(g) \/ limiterReset(g)

LimiterSpec == LimiterInit /\ [][LimiterNext]_limiterVars

-----------------------------------------------------------------------------
\* Nobody can keep a username locked: whoever goes on failing, and however the
\* requests overlap, it is locked for less than the ceiling at a stretch
\* (loginLimiter.locked, fail).
LockoutEnds == \A u \in User : since[u] # 0 => instant - since[u] < AcctCeiling
=============================================================================
