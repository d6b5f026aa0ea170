-------------------------- MODULE PollClock_proofs --------------------------
(***************************************************************************)
(* Theorems about PollClock, for every choice of the bounds, the steps,    *)
(* the tiers and the jitter.                                               *)
(***************************************************************************)
EXTENDS PollClock, TLAPS

-----------------------------------------------------------------------------
(* The controller *)

\* Dividing by 100 keeps an order.
LEMMA HundredthsOrdered ==
    ASSUME NEW x \in Nat, NEW y \in Nat, x <= y
    PROVE  x \div 100 <= y \div 100 /\ x \div 100 \in Nat
OBVIOUS

\* Jitter keeps an order and yields a number of seconds.
LEMMA JitterOrdered ==
    ASSUME NEW a \in Nat, NEW b \in Nat, a <= b, NEW p \in Jitters
    PROVE  Jittered(a, p) <= Jittered(b, p) /\ Jittered(a, p) \in Nat
<1>1. p \in Nat
  BY ClockAssumption
<1>2. a * p \in Nat /\ b * p \in Nat /\ a * p <= b * p
  BY <1>1
<1>. QED  BY <1>2, HundredthsOrdered DEF Jittered

\* Whatever is proposed, what is learned stays between floor and ceiling.
LEMMA ClampBounds ==
    ASSUME NEW n \in Nat
    PROVE  /\ Clamp(n) \in Floor..Ceiling
           /\ \A m \in Floor..Ceiling : m <= n => m <= Clamp(n)
BY ClockAssumption DEF Clamp, Most, Least

\* A 429 is heeded: the interval does not shrink.
LEMMA BackedOffBounds ==
    ASSUME NEW current \in Floor..Ceiling, NEW retry \in RetryAfters
    PROVE  BackedOff(current, retry) \in Floor..Ceiling
           /\ current <= BackedOff(current, retry)
<1>. DEFINE asked == IF retry # NoHint /\ retry > 0 THEN Most(retry, current)
                     ELSE Least((3 * current) \div 2, current + MaxBackoff)
<1>1. asked \in Nat /\ current <= asked
  <2>1. CASE retry # NoHint /\ retry > 0
    BY <2>1, ClockAssumption DEF Most
  <2>2. CASE ~(retry # NoHint /\ retry > 0)
    <3>1. current \in Nat /\ MaxBackoff \in Nat
      BY ClockAssumption
    <3>2. (3 * current) \div 2 \in Nat /\ current <= (3 * current) \div 2
      BY <3>1
    <3>. QED  BY <2>2, <3>1, <3>2 DEF Least
  <2>. QED  BY <2>1, <2>2
<1>. HIDE DEF asked
<1>2. Clamp(asked) \in Floor..Ceiling /\ current <= Clamp(asked)
  BY <1>1, ClampBounds
<1>. QED  BY <1>2 DEF BackedOff, asked

\* A check that was not refused speeds up, by one step at most.
LEMMA SpedUpBounds ==
    ASSUME NEW current \in Floor..Ceiling
    PROVE  /\ SpedUp(current) \in Floor..Ceiling
           /\ current <= SpedUp(current) + Speedup
           /\ SpedUp(current) <= current
BY ClockAssumption DEF SpedUp, Clamp, Most, Least

LEMMA LearnedBounds ==
    ASSUME NEW outcome, NEW current \in Floor..Ceiling, NEW retry \in RetryAfters
    PROVE  /\ Learned(outcome, current, retry) \in Floor..Ceiling
           /\ current <= Learned(outcome, current, retry) + Speedup
           /\ outcome = "limited" => current <= Learned(outcome, current, retry)
           /\ outcome # "limited" => Learned(outcome, current, retry) <= current
<1>. Speedup \in Nat /\ Floor \in Nat /\ Ceiling \in Nat
  BY ClockAssumption
<1>1. CASE outcome = "limited"
  BY <1>1, BackedOffBounds DEF Learned
<1>2. CASE outcome # "limited"
  BY <1>2, SpedUpBounds DEF Learned
<1>. QED  BY <1>1, <1>2

\* The delay is within the same bounds, and heeds a back-off.
LEMMA DelayBounds ==
    ASSUME NEW outcome, NEW learned \in Floor..Ceiling, NEW hot \in BOOLEAN
    PROVE  /\ Delay(outcome, learned, hot) \in Floor..Ceiling
           /\ outcome = "limited" => learned <= Delay(outcome, learned, hot)
BY ClockAssumption DEF Delay, Most

-----------------------------------------------------------------------------
(* One check *)

\* What the end of a check does to the two numbers.
LEMMA FinishMoves ==
    ASSUME TypeOK, NEW c \in Checkers, NEW outcome \in Outcomes,
           NEW retry \in RetryAfters, NEW hot \in BOOLEAN,
           Finish(c, outcome, retry, hot)
    PROVE  /\ base' \in Floor..Ceiling
           /\ job[c].base <= base' + Speedup
           /\ outcome # "limited" => base' <= job[c].base
           /\ outcome = "limited" =>
                /\ job[c].base <= base'
                /\ \E p \in Jitters : wait' >= Jittered(base', p)
           /\ wait' \in Nat
           /\ \E p \in Jitters : wait' <= Jittered(Ceiling, p)
<1>. DEFINE learned == Learned(outcome, Current(job[c], hot), retry)
            delay == Delay(outcome, learned, hot)
<1>0. Floor \in Nat /\ Ceiling \in Nat
  BY ClockAssumption
<1>1. job[c].base \in Floor..Ceiling
  BY DEF TypeOK, Jobs
<1>2. /\ learned \in Floor..Ceiling
      /\ job[c].base <= learned + Speedup
      /\ outcome = "limited" => job[c].base <= learned
      /\ outcome # "limited" => learned <= job[c].base
  BY <1>1, LearnedBounds DEF Current
<1>3. base' = learned /\ \E p \in Jitters : wait' = Jittered(delay, p)
  BY DEF Finish
<1>. HIDE DEF learned
<1>4. delay \in Floor..Ceiling /\ (outcome = "limited" => learned <= delay)
  BY <1>2, DelayBounds
<1>. HIDE DEF delay
<1>5. PICK p \in Jitters : wait' = Jittered(delay, p)
  BY <1>3
<1>6. delay \in Nat /\ delay <= Ceiling /\ learned \in Nat
  BY <1>0, <1>2, <1>4
<1>7. wait' \in Nat /\ wait' <= Jittered(Ceiling, p)
  BY <1>0, <1>5, <1>6, JitterOrdered
<1>8. ASSUME outcome = "limited" PROVE wait' >= Jittered(base', p)
  <2>1. Jittered(learned, p) <= Jittered(delay, p) /\ Jittered(learned, p) \in Nat
    BY <1>4, <1>6, <1>8, JitterOrdered
  <2>. QED  BY <2>1, <1>3, <1>5, <1>7
<1>. QED  BY <1>2, <1>3, <1>7, <1>8

LEMMA TypeStep == TypeOK /\ [Next]_vars => TypeOK'
<1>. SUFFICES ASSUME TypeOK, [Next]_vars PROVE TypeOK'
  OBVIOUS
<1>. USE DEF TypeOK
<1>1. CASE ComesDue
  BY <1>1 DEF ComesDue
<1>2. ASSUME NEW c \in Checkers, Start(c) PROVE TypeOK'
  BY <1>2 DEF Start, Jobs
<1>3. ASSUME NEW c \in Checkers, NEW outcome \in Outcomes, NEW retry \in RetryAfters,
             NEW hot \in BOOLEAN, Finish(c, outcome, retry, hot)
      PROVE  TypeOK'
  <2>1. /\ base' \in Floor..Ceiling
        /\ wait' \in Nat
        /\ \E p \in Jitters : wait' <= Jittered(Ceiling, p)
    BY <1>3, FinishMoves
  <2>2. last' \in {"ok", "failed", "cut", "limited"}
    BY <1>3, ClockAssumption DEF Finish
  <2>3. job' \in [Checkers -> Jobs]
    BY <1>3, ClockAssumption DEF Finish, Idle, Jobs
  <2>4. armed' \in BOOLEAN
    BY <1>3 DEF Finish
  <2>. QED  BY <2>1, <2>2, <2>3, <2>4
<1>4. ASSUME NEW tier \in Tiers, SetTier(tier) PROVE TypeOK'
  BY <1>4, ClockAssumption DEF SetTier
<1>5. CASE Arm
  BY <1>5 DEF Arm
<1>6. CASE Disarm
  BY <1>6 DEF Disarm
<1>7. CASE UNCHANGED vars
  BY <1>7 DEF vars
<1>. QED  BY <1>1, <1>2, <1>3, <1>4, <1>5, <1>6, <1>7 DEF Next, FinishAny

\* However the store behaves, the learned interval keeps its bounds and the
\* next poll is never further off than the ceiling: no afternoon, hostile or
\* not, silences a watch.
THEOREM TypeCorrect == Spec => []TypeOK
<1>1. Init => TypeOK
  <2>1. Floor \in Floor..Ceiling /\ Default \in Floor..Ceiling
    BY ClockAssumption
  <2>2. Idle \in Jobs
    BY <2>1 DEF Idle, Jobs
  <2>. SUFFICES ASSUME Init PROVE TypeOK
    OBVIOUS
  <2>3. base \in Floor..Ceiling /\ armed \in BOOLEAN /\ wait \in Nat /\ wait = 0
    BY <2>1 DEF Init
  <2>4. last \in {"ok", "failed", "cut", "limited"} /\ job \in [Checkers -> Jobs]
    BY <2>2 DEF Init
  <2>. QED  BY <2>3, <2>4 DEF TypeOK
<1>2. TypeOK /\ [Next]_vars => TypeOK'
  BY TypeStep
<1>. QED  BY <1>1, <1>2, PTL DEF Spec

\* A check that ends is the only step in which a checker stops running.
LEMMA OnlyFinishEnds ==
    ASSUME TypeOK, [Next]_vars, NEW c \in Checkers, Finishes(c)
    PROVE  \E outcome \in Outcomes, retry \in RetryAfters, hot \in BOOLEAN :
                Finish(c, outcome, retry, hot) /\ last' = outcome
<1>. USE DEF Finishes, TypeOK
<1>1. ASSUME NEW d \in Checkers, Start(d) PROVE FALSE
  BY <1>1 DEF Start, Jobs
<1>2. ASSUME NEW d \in Checkers, NEW outcome \in Outcomes, NEW retry \in RetryAfters,
             NEW hot \in BOOLEAN, Finish(d, outcome, retry, hot)
      PROVE  d = c /\ last' = outcome
  BY <1>2 DEF Finish, Jobs
<1>3. ComesDue \/ (\E tier \in Tiers : SetTier(tier)) \/ Arm \/ Disarm
        \/ UNCHANGED vars => job' = job
  BY DEF ComesDue, SetTier, Arm, Disarm, vars
<1>. QED  BY <1>1, <1>2, <1>3 DEF Next, FinishAny

\* A 429 is heeded whoever runs the check, armed or not, and whatever the
\* person does to the tier meanwhile.
THEOREM RefusalsHeeded == Spec => RefusalIsHeeded
<1>1. TypeOK /\ [Next]_vars =>
        \A c \in Checkers : Finishes(c) /\ last' = "limited" =>
            /\ base' >= job[c].base
            /\ \E p \in Jitters : wait' >= Jittered(base', p)
  <2>. SUFFICES ASSUME TypeOK, [Next]_vars, NEW c \in Checkers,
                       Finishes(c), last' = "limited"
                PROVE  /\ base' >= job[c].base
                       /\ \E p \in Jitters : wait' >= Jittered(base', p)
    OBVIOUS
  <2>1. PICK retry \in RetryAfters, hot \in BOOLEAN :
            "limited" \in Outcomes /\ Finish(c, "limited", retry, hot)
    BY OnlyFinishEnds
  <2>. QED  BY <2>1, FinishMoves
<1>. QED  BY <1>1, TypeCorrect, PTL DEF Spec, RefusalIsHeeded

\* A watch is never sped up by more than a step at a time, and slowed only when
\* refused, whoever runs its checks: arming it teaches the controller nothing.
THEOREM CadenceIsGentle == Spec => CadenceMovesGently
<1>1. TypeOK /\ [Next]_vars =>
        \A c \in Checkers : Finishes(c) =>
            /\ job[c].base <= base' + Speedup
            /\ base' <= job[c].base \/ last' = "limited"
  BY OnlyFinishEnds, FinishMoves
<1>. QED  BY <1>1, TypeCorrect, PTL DEF Spec, CadenceMovesGently
=============================================================================
