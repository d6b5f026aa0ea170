------------------------------ MODULE Fetcher -------------------------------
(***************************************************************************)
(* The HTTP layer towards one host: DomainLimiter and fetch in             *)
(* monitor/fetcher.py.  Every request passes a semaphore, then a lock      *)
(* under which it sleeps until the minimum gap to the request before it is *)
(* over, and faults are tried again after a pause.                         *)
(*                                                                         *)
(* Time is counted in ticks.  asyncio.sleep never ends early and may end   *)
(* late.  Hosts do not share a limiter, so one host is enough.             *)
(***************************************************************************)
EXTENDS Naturals, FiniteSets

CONSTANTS
    Fetches,     \* concurrent calls of fetch for the host
    Concurrency, \* PER_DOMAIN_CONCURRENCY
    MinGap,      \* PER_DOMAIN_MIN_GAP, in ticks
    Retries,
    MaxPause     \* the longest back-off, in ticks

ASSUME FetcherAssumption ==
    /\ IsFiniteSet(Fetches)
    /\ Concurrency \in Nat \ {0}
    /\ MinGap \in Nat \ {0}
    /\ {Retries, MaxPause} \subseteq Nat

VARIABLES
    at,         \* per fetch: where it is
    nap,        \* ticks it still sleeps
    attempt,    \* the attempt it is on, from 0
    since       \* ticks since _last was set, counted up to MinGap

vars == <<at, nap, attempt, since>>

\* "queued" for the semaphore, "gated" by the lock, "pacing": asleep under the
\* lock, "asking" the host, "resting" between two attempts.
Places == {"idle", "queued", "gated", "pacing", "asking", "resting"}

Holders == {f \in Fetches : at[f] \in {"gated", "pacing", "asking"}}

Pacing == {f \in Fetches : at[f] = "pacing"}

\* The shape of the state: at most Concurrency fetches are past the semaphore.
TypeOK ==
    /\ at \in [Fetches -> Places]
    /\ nap \in [Fetches -> Nat]
    /\ attempt \in [Fetches -> 0..Retries]
    /\ since \in 0..MinGap
    /\ Cardinality(Holders) <= Concurrency

Init ==
    /\ at = [f \in Fetches |-> "idle"]
    /\ nap = [f \in Fetches |-> 0]
    /\ attempt = [f \in Fetches |-> 0]
    /\ since = MinGap

-----------------------------------------------------------------------------

Passes ==
    /\ since' = IF since < MinGap THEN since + 1 ELSE since
    /\ nap' = [f \in Fetches |-> IF nap[f] > 0 THEN nap[f] - 1 ELSE 0]
    /\ UNCHANGED <<at, attempt>>

Call(f) ==
    /\ at[f] = "idle"
    /\ at' = [at EXCEPT ![f] = "queued"]
    /\ attempt' = [attempt EXCEPT ![f] = 0]
    /\ UNCHANGED <<nap, since>>

\* Mutation: a semaphore that lets everyone in.
Acquire_Always(f) ==
    /\ at[f] = "queued"
    /\ at' = [at EXCEPT ![f] = "gated"]
    /\ UNCHANGED <<nap, attempt, since>>

Acquire(f) ==
    /\ at[f] = "queued"
    /\ Cardinality(Holders) < Concurrency
    /\ at' = [at EXCEPT ![f] = "gated"]
    /\ UNCHANGED <<nap, attempt, since>>

\* _last is set, the lock is left, and the request goes out.
Go(f) ==
    /\ at' = [at EXCEPT ![f] = "asking"]
    /\ since' = 0
    /\ UNCHANGED <<nap, attempt>>

\* Mutation: the gap is slept off without the lock.
LockFree_Always == TRUE

LockFree == Pacing = {}

\* Once the gap is over nothing is awaited under the lock.
Enter(f) ==
    /\ at[f] = "gated"
    /\ LockFree
    /\ IF since < MinGap
       THEN /\ at' = [at EXCEPT ![f] = "pacing"]
            /\ nap' = [nap EXCEPT ![f] = MinGap - since]
            /\ UNCHANGED <<attempt, since>>
       ELSE Go(f)

Paced(f) ==
    /\ at[f] = "pacing"
    /\ nap[f] = 0
    /\ Go(f)

\* fetch returns: a page, a 304, a 429 or any other answer at once, a fault or
\* silence when the attempts are used up.
Settle(f) ==
    /\ at[f] = "asking"
    /\ at' = [at EXCEPT ![f] = "idle"]
    /\ UNCHANGED <<nap, attempt, since>>

\* Another try after a server fault or silence.  The semaphore is released
\* before the pause.
Rest(f) ==
    /\ at[f] = "asking"
    /\ attempt[f] < Retries
    /\ at' = [at EXCEPT ![f] = "resting"]
    /\ \E pause \in 0..MaxPause : nap' = [nap EXCEPT ![f] = pause]
    /\ attempt' = [attempt EXCEPT ![f] = @ + 1]
    /\ UNCHANGED since

\* Mutation: the retry starts its attempts over.
Again_Afresh(f) ==
    /\ at[f] = "resting"
    /\ nap[f] = 0
    /\ at' = [at EXCEPT ![f] = "queued"]
    /\ attempt' = [attempt EXCEPT ![f] = 0]
    /\ UNCHANGED <<nap, since>>

Again(f) ==
    /\ at[f] = "resting"
    /\ nap[f] = 0
    /\ at' = [at EXCEPT ![f] = "queued"]
    /\ UNCHANGED <<nap, attempt, since>>

Next ==
    \/ Passes
    \/ \E f \in Fetches :
        \/ Call(f) \/ Acquire(f) \/ Enter(f) \/ Paced(f)
        \/ Settle(f) \/ Rest(f) \/ Again(f)

Spec == Init /\ [][Next]_vars

\* Time passes, requests have a timeout, and asyncio serves a semaphore and a
\* lock in the order of their waiters.
FairSpec ==
    /\ Spec
    /\ WF_vars(Passes)
    /\ \A f \in Fetches :
        /\ SF_vars(Acquire(f)) /\ SF_vars(Enter(f)) /\ WF_vars(Paced(f))
        /\ WF_vars(Settle(f) \/ Rest(f)) /\ WF_vars(Again(f))

-----------------------------------------------------------------------------
(* Properties *)

Departs(f) == at[f] # "asking" /\ at'[f] = "asking"

\* However many fetches wait for the host, retry or slept under the lock, two
\* requests to it never start closer together than the gap.
RequestsAreSpaced == [][\A f \in Fetches : Departs(f) => since = MinGap]_vars

\* No fetch goes on for ever, however the host behaves: it waits for the others,
\* for the gap and for its own retries a bounded time only.
EveryFetchEnds == \A f \in Fetches : at[f] = "queued" ~> at[f] = "idle"
=============================================================================
