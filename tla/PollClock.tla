----------------------------- MODULE PollClock ------------------------------
(***************************************************************************)
(* The cadence of one watch: the interval it has learned, the poll it has  *)
(* scheduled, and the hot tier a person can arm.  adapt_interval and       *)
(* next_interval of monitor/statemachine.py with the parts of check_watch  *)
(* that use them, and the routes that touch the same columns.              *)
(*                                                                         *)
(* Like every other column, base_interval_s is read into a copy before the *)
(* store is awaited and written back from that copy afterwards.            *)
(***************************************************************************)
EXTENDS Naturals

CONSTANTS
    Floor, Ceiling, \* INTERVAL_FLOOR, INTERVAL_CEILING
    Speedup,        \* SPEEDUP_STEP
    MaxBackoff,     \* MAX_BACKOFF_STEP
    Hot,            \* hot_interval_s
    Default,        \* the tier a watch starts in
    Tiers,          \* the tiers PATCH may set later
    Jitters,        \* percentages of the interval a poll may be scheduled at
    RetryAfters,    \* what a 429 may say in its Retry-After header
    NoHint,         \* no such header, or one that is not in seconds
    Outcomes,       \* bound: what the store does
    Tick, Forcers

ASSUME ClockAssumption ==
    /\ {Floor, Ceiling, Speedup, MaxBackoff} \subseteq Nat
    /\ 0 < Floor /\ Floor <= Ceiling
    /\ Tiers \cup {Hot, Default} \subseteq Floor..Ceiling
    /\ Jitters \subseteq 1..200
    /\ RetryAfters \subseteq Nat \cup {NoHint}
    /\ NoHint \notin Nat
    /\ Outcomes \subseteq {"ok", "failed", "cut", "limited"}

Checkers == {Tick} \cup Forcers

VARIABLES
    base,   \* base_interval_s
    armed,  \* hot_until lies in the future
    wait,   \* seconds from the check that set next_check_at to it; 0: due
    last,   \* how the last check ended
    job     \* per checker: whether it runs, and what its copy of the row said

vars == <<base, armed, wait, last, job>>

Jobs == [runs : BOOLEAN, base : Floor..Ceiling, armed : BOOLEAN]

Idle == [runs |-> FALSE, base |-> Floor, armed |-> FALSE]

Jittered(seconds, percent) == (seconds * percent) \div 100

\* However the store behaves, the learned interval stays within its bounds and
\* the next poll is never further away than the ceiling and its jitter.
TypeOK ==
    /\ base \in Floor..Ceiling
    /\ armed \in BOOLEAN
    /\ wait \in Nat
    /\ wait = 0 \/ \E p \in Jitters : wait <= Jittered(Ceiling, p)
    /\ last \in {"ok", "failed", "cut", "limited"}
    /\ job \in [Checkers -> Jobs]

Init ==
    /\ base = Default
    /\ armed = FALSE
    /\ wait = 0
    /\ last = "ok"
    /\ job = [c \in Checkers |-> Idle]

-----------------------------------------------------------------------------
(* Learning: additive increase, multiplicative decrease *)

Least(a, b) == IF a < b THEN a ELSE b
Most(a, b)  == IF a > b THEN a ELSE b

Clamp(proposed) == Most(Floor, Least(Ceiling, proposed))

\* A 429: the store's own terms, or half as much again, up to MaxBackoff more.
BackedOff(current, retry) ==
    Clamp(IF retry # NoHint /\ retry > 0 THEN Most(retry, current)
          ELSE Least((3 * current) \div 2, current + MaxBackoff))

\* Mutation: nothing is earned back.
SpedUp_Never(current) == Clamp(current)

\* Anything else earns a little speed.
SpedUp(current) == Clamp(IF current > Speedup THEN current - Speedup ELSE 0)

\* Mutation: the controller learns from the armed interval.
Current_Hot(copy, hot) == IF hot THEN Hot ELSE copy.base

\* What the controller learns from: the copy, never the armed interval.
Current(copy, hot) == copy.base

Learned(outcome, current, retry) ==
    IF outcome = "limited" THEN BackedOff(current, retry) ELSE SpedUp(current)

\* Mutation: an armed watch ignores the back-off.
Delay_HotAlways(outcome, learned, hot) == IF hot THEN Hot ELSE learned

\* While armed, the hot interval; a back-off outlasts it.
Delay(outcome, learned, hot) ==
    IF ~hot THEN learned
    ELSE IF outcome = "limited" THEN Most(learned, Hot)
    ELSE Hot

-----------------------------------------------------------------------------
(* Time, checks, and the person *)

ComesDue ==
    /\ wait > 0
    /\ wait' = 0
    /\ UNCHANGED <<base, armed, last, job>>

Start(c) ==
    /\ ~job[c].runs
    /\ c = Tick => wait = 0
    /\ job' = [job EXCEPT ![c] = [runs |-> TRUE, base |-> base, armed |-> armed]]
    /\ UNCHANGED <<base, armed, wait, last>>

\* hot: whether the copy's hot_until still lies ahead by now.
Finish(c, outcome, retry, hot) ==
    /\ job[c].runs
    /\ hot => job[c].armed
    /\ LET learned == Learned(outcome, Current(job[c], hot), retry)
       IN  /\ base' = learned
           /\ \E p \in Jitters : wait' = Jittered(Delay(outcome, learned, hot), p)
    /\ last' = outcome
    /\ job' = [job EXCEPT ![c] = Idle]
    /\ UNCHANGED armed

FinishAny(c) ==
    \E outcome \in Outcomes, retry \in RetryAfters, hot \in BOOLEAN :
        Finish(c, outcome, retry, hot)

\* PATCH with a tier sets the interval and leaves next_check_at alone.
SetTier(tier) ==
    /\ base' = tier
    /\ UNCHANGED <<armed, wait, last, job>>

Arm ==
    /\ armed' = TRUE
    /\ wait' = 0
    /\ UNCHANGED <<base, last, job>>

\* Disarmed by hand, or hot_until has passed.
Disarm ==
    /\ armed
    /\ armed' = FALSE
    /\ UNCHANGED <<base, wait, last, job>>

Next ==
    \/ ComesDue
    \/ \E c \in Checkers : Start(c) \/ FinishAny(c)
    \/ \E tier \in Tiers : SetTier(tier)
    \/ Arm \/ Disarm

Spec == Init /\ [][Next]_vars

\* The tick fires every few seconds and every check it starts ends.
FairSpec ==
    /\ Spec
    /\ WF_vars(ComesDue) /\ WF_vars(Start(Tick)) /\ WF_vars(FinishAny(Tick))

-----------------------------------------------------------------------------
(* Properties *)

Finishes(c) == job[c].runs /\ ~job'[c].runs

\* Compared with the interval it started from, one check never speeds the watch
\* up by more than a step and slows it down only when refused, armed or not,
\* whatever is set meanwhile: a temporary arming teaches the controller nothing.
CadenceMovesGently ==
    [][\A c \in Checkers : Finishes(c) =>
        /\ job[c].base <= base' + Speedup
        /\ base' <= job[c].base \/ last' = "limited"]_vars

\* A 429 never has the watch polled faster than it was when the check started,
\* and the next poll keeps the distance just learned (short of the jitter),
\* whether or not the watch is armed and whatever tier was set meanwhile.
RefusalIsHeeded ==
    [][\A c \in Checkers : Finishes(c) /\ last' = "limited" =>
        /\ base' >= job[c].base
        /\ \E p \in Jitters : wait' >= Jittered(base', p)]_vars

\* A watch slowed down by a bad afternoon, or by hand, recovers on its own once
\* the refusals and the edits of its tier stop.
SpeedIsRegained ==
    <>[](last # "limited") /\ <>[][~\E tier \in Tiers : SetTier(tier)]_vars
        => <>[](base = Floor)

\* A tier that was set takes effect: no check that ends takes it back.
TierTakesEffect ==
    [][\A c \in Checkers : Finishes(c) => base <= base' + Speedup]_vars

\* A 429 gives speed back.
RefusalSlowsDown ==
    [][\A c \in Checkers : Finishes(c) /\ last' = "limited" =>
        base' > base \/ base = Ceiling]_vars

\* A 429 costs no more than MaxBackoff.
RefusalCostsLittle ==
    [][\A c \in Checkers : Finishes(c) /\ last' = "limited" =>
        base' <= base + MaxBackoff]_vars

\* When the store says how long to wait, we do not come back earlier.  (For a
\* store that always says the same.)
TermsAreKept ==
    [][\A retry \in RetryAfters \ {NoHint} :
        Finish(Tick, "limited", retry, FALSE) => wait' >= retry]_vars

\* Only a clean check earns speed.
SpeedIsEarned ==
    [][\A c \in Checkers : Finishes(c) /\ base' < base => last' = "ok"]_vars

\* Arming never makes a healthy watch poll less often than it would unarmed.
ArmingNeverSlows ==
    [][\A c \in Checkers : Finishes(c) /\ last' = "ok" /\ job[c].armed =>
        \E p \in Jitters : wait' <= Jittered(base', p)]_vars

\* While a watch is armed, its checks leave it on the hot tier.
ArmedIsHot ==
    [][\A c \in Checkers : Finishes(c) /\ last' = "ok" /\ armed =>
        \E p \in Jitters : wait' <= Jittered(Hot, p)]_vars
=============================================================================
