------------------------------ MODULE Polling -------------------------------
(***************************************************************************)
(* The polling loop over all watches: tick in monitor/scheduler.py, the    *)
(* semaphore every check passes through, due_watches in monitor/db.py, and *)
(* the heartbeat that tells the outside world how the tick went.           *)
(*                                                                         *)
(* A check is abstracted to whether it reached its store; a failed check   *)
(* may be the one that pauses its watch.  What a check does to its own row *)
(* is the matter of ProductWatch, CatalogueWatch and PollClock.            *)
(***************************************************************************)
EXTENDS Naturals, FiniteSets, SequencesExt

CONSTANTS
    Watches,
    Limit,      \* how many watches one tick claims
    Slots,      \* MAX_CONCURRENT_CHECKS
    Tick,
    Forcers,    \* concurrent calls of POST /watches/{id}/check
    Hurries,    \* whether the person arms watches or edits what they look at
    Toggles     \* whether the person pauses, resumes, adds and deletes watches

ASSUME PollingAssumption ==
    /\ Limit \in Nat \ {0}
    /\ Slots \in Nat \ {0}
    /\ Tick \notin Forcers
    /\ IsFiniteSet(Watches)
    /\ {Hurries, Toggles} \subseteq BOOLEAN

Callers == {Tick} \cup Forcers

VARIABLES
    status,     \* of each watch: "unborn", "on", "paused" or "gone"
    hurried,    \* due at once: next_check_at is the epoch
    late,       \* the others whose next_check_at has passed, oldest first
    reachable,  \* whether any store can be reached at all
    ticking,    \* the tick holds its lock
    claimed,    \* the watches it claimed
    worked,     \* one of its checks succeeded
    stage,      \* per caller and watch: where that check is
    heart       \* the last ping

lines    == <<status, hurried, late>>
pollVars == <<lines, reachable, ticking, claimed, worked, stage, heart>>

Stages == {"none", "queued", "asking", "reached", "refused"}

\* The shape of the state.  No watch is in both waiting lines or twice in one,
\* only existing watches wait, and the semaphore is never oversubscribed.
PollingTypeOK ==
    /\ status \in [Watches -> {"unborn", "on", "paused", "gone"}]
    /\ hurried \subseteq Watches
    /\ late \in Seq(Watches)
    /\ \A i, j \in DOMAIN late : late[i] = late[j] => i = j
    /\ \A i \in DOMAIN late : late[i] \notin hurried
    /\ \A w \in Watches : status[w] \in {"unborn", "gone"} =>
        w \notin hurried /\ \A i \in DOMAIN late : late[i] # w
    /\ {reachable, ticking, worked} \subseteq BOOLEAN
    /\ claimed \subseteq Watches
    /\ stage \in [Callers \X Watches -> Stages]
    /\ heart \in {"ok", "fail"}
    /\ Cardinality({r \in DOMAIN stage : stage[r] = "asking"}) <= Slots

PollingInit ==
    /\ status \in [Watches -> {"unborn", "on"}]
    /\ hurried = {w \in Watches : status[w] = "on"}
    /\ late = << >>
    /\ reachable \in BOOLEAN
    /\ ticking = FALSE /\ claimed = {} /\ worked = FALSE
    /\ stage = [r \in Callers \X Watches |-> "none"]
    /\ heart = "ok"

-----------------------------------------------------------------------------
(* Waiting lines *)

\* A line without w, which stands in it once at most.
Without(line, w) ==
    IF \E i \in DOMAIN line : line[i] = w
    THEN RemoveAt(line, CHOOSE i \in DOMAIN line : line[i] = w)
    ELSE line

IsLate(w) == \E i \in DOMAIN late : late[i] = w

Ready == {w \in Watches : status[w] = "on" /\ (w \in hurried \/ IsLate(w))}

\* ORDER BY next_check_at; ties among the hurried fall either way.
Before(v, w) ==
    \/ v \in hurried /\ w \notin hurried
    \/ \E i, j \in DOMAIN late : i < j /\ late[i] = v /\ late[j] = w

\* Mutation: LIMIT without ORDER BY.
Claims_Unordered ==
    {S \in SUBSET Ready :
        Cardinality(S) = IF Cardinality(Ready) < Limit THEN Cardinality(Ready) ELSE Limit}

\* The oldest Limit of the watches that are ready.
Claims ==
    {S \in SUBSET Ready :
        /\ Cardinality(S) = IF Cardinality(Ready) < Limit THEN Cardinality(Ready) ELSE Limit
        /\ \A w \in S, v \in Ready \ S : ~Before(v, w)}

Leaves(w) ==
    /\ hurried' = hurried \ {w}
    /\ late' = Without(late, w)

\* Its next_check_at passes.
ComesDue(w) ==
    /\ status[w] \in {"on", "paused"}
    /\ w \notin hurried /\ ~IsLate(w)
    /\ late' = Append(late, w)
    /\ UNCHANGED <<status, hurried, reachable, ticking, claimed, worked, stage, heart>>

-----------------------------------------------------------------------------
(* The tick *)

\* Mutation: the lock is not looked at.
Free_Always == TRUE

\* A tick that finds the previous one still running is skipped.
Free == ~ticking

\* Nothing is due: all is well.
EmptyTick ==
    /\ Free
    /\ Ready = {}
    /\ heart' = "ok"
    /\ UNCHANGED <<lines, reachable, ticking, claimed, worked, stage>>

BeginTick ==
    /\ Free
    /\ Ready # {}
    /\ ticking' = TRUE
    /\ worked' = FALSE
    /\ \E claims \in Claims :
        /\ claimed' = claims
        /\ stage' = [r \in DOMAIN stage |->
                        IF r[1] = Tick /\ r[2] \in claims THEN "queued" ELSE stage[r]]
    /\ UNCHANGED <<lines, reachable, heart>>

\* Mutation: a tick without a success is not told from any other.
Verdict_Ok == "ok"

Verdict == IF worked THEN "ok" ELSE "fail"

\* gather returns once every check has; the heartbeat reports on them together.
EndTick ==
    /\ ticking
    /\ \A w \in Watches : stage[<<Tick, w>>] = "none"
    /\ ticking' = FALSE
    /\ claimed' = {}
    /\ heart' = Verdict
    /\ UNCHANGED <<lines, reachable, worked, stage>>

-----------------------------------------------------------------------------
(* One check, of the tick or of the "check now" route *)

ForceCheck(c, w) ==
    /\ c # Tick
    /\ \A v \in Watches : stage[<<c, v>>] = "none"
    /\ status[w] \in {"on", "paused"}
    /\ stage' = [stage EXCEPT ![<<c, w>>] = "queued"]
    /\ UNCHANGED <<lines, reachable, ticking, claimed, worked, heart>>

Asking == {r \in DOMAIN stage : stage[r] = "asking"}

Admit(c, w) ==
    /\ stage[<<c, w>>] = "queued"
    /\ Cardinality(Asking) < Slots
    /\ stage' = [stage EXCEPT ![<<c, w>>] = "asking"]
    /\ UNCHANGED <<lines, reachable, ticking, claimed, worked, heart>>

\* A refusal, a rate limit and an exception are all the same to the tick.
Answered(c, w, outcome) ==
    /\ stage[<<c, w>>] = "asking"
    /\ outcome = "reached" => reachable
    /\ stage' = [stage EXCEPT ![<<c, w>>] = outcome]
    /\ UNCHANGED <<lines, reachable, ticking, claimed, worked, heart>>

\* The row is written and the next poll scheduled; deleted meanwhile, the check
\* raises, and what it found counts for nothing.
Return(c, w, pauses) ==
    /\ stage[<<c, w>>] \in {"reached", "refused"}
    /\ stage' = [stage EXCEPT ![<<c, w>>] = "none"]
    /\ LET good == stage[<<c, w>>] = "reached" /\ status[w] # "gone"
       IN  worked' = (worked \/ (c = Tick /\ good))
    /\ pauses => stage[<<c, w>>] = "refused" /\ status[w] = "on"
    /\ status' = IF pauses THEN [status EXCEPT ![w] = "paused"] ELSE status
    /\ Leaves(w)
    /\ UNCHANGED <<reachable, ticking, claimed, heart>>

CheckStep(c, w) ==
    \/ Admit(c, w)
    \/ \E outcome \in {"reached", "refused"} : Answered(c, w, outcome)
    \/ \E pauses \in BOOLEAN : Return(c, w, pauses)

-----------------------------------------------------------------------------
(* The person and the world *)

Hurry(w) ==
    /\ Hurries
    /\ status[w] \in {"on", "paused"}
    /\ hurried' = hurried \cup {w}
    /\ late' = Without(late, w)
    /\ UNCHANGED <<status, reachable, ticking, claimed, worked, stage, heart>>

Create(w) ==
    /\ Toggles
    /\ status[w] = "unborn"
    /\ status' = [status EXCEPT ![w] = "on"]
    /\ hurried' = hurried \cup {w}
    /\ UNCHANGED <<late, reachable, ticking, claimed, worked, stage, heart>>

SetEnabled(w, to) ==
    /\ Toggles
    /\ {status[w], to} = {"on", "paused"}
    /\ status' = [status EXCEPT ![w] = to]
    /\ UNCHANGED <<hurried, late, reachable, ticking, claimed, worked, stage, heart>>

Delete(w) ==
    /\ Toggles
    /\ status[w] \in {"on", "paused"}
    /\ status' = [status EXCEPT ![w] = "gone"]
    /\ Leaves(w)
    /\ UNCHANGED <<reachable, ticking, claimed, worked, stage, heart>>

\* This host is refused everywhere, or no longer.
Outage ==
    /\ reachable' = ~reachable
    /\ UNCHANGED <<lines, ticking, claimed, worked, stage, heart>>

PollingNext ==
    \/ EmptyTick \/ BeginTick \/ EndTick \/ Outage
    \/ \E w \in Watches :
        \/ ComesDue(w) \/ Hurry(w) \/ Create(w) \/ Delete(w)
        \/ \E to \in {"on", "paused"} : SetEnabled(w, to)
        \/ \E c \in Callers : ForceCheck(c, w) \/ CheckStep(c, w)

PollingSpec == PollingInit /\ [][PollingNext]_pollVars

\* The job fires every few seconds, time passes, and every await ends: requests
\* have a timeout, and the semaphore is served in order.
PollingFairSpec ==
    /\ PollingSpec
    /\ WF_pollVars(EmptyTick) /\ WF_pollVars(BeginTick) /\ WF_pollVars(EndTick)
    /\ \A w \in Watches :
        /\ WF_pollVars(ComesDue(w))
        /\ \A c \in Callers :
            /\ SF_pollVars(Admit(c, w))
            /\ WF_pollVars(\E outcome \in {"reached", "refused"} : Answered(c, w, outcome))
            /\ WF_pollVars(\E pauses \in BOOLEAN : Return(c, w, pauses))

-----------------------------------------------------------------------------
(* Properties *)

\* The tick never starts a check of a watch that one of its own checks is still
\* busy with, however long that takes.
NoOverlap ==
    [][\A w \in Watches :
        stage[<<Tick, w>>] # "none" => stage'[<<Tick, w>>] # "queued"
                                       \/ stage[<<Tick, w>>] = "queued"]_pollVars

Unhurried == <>[][\A v \in Watches : ~Hurry(v)]_pollVars

Unforced == <>[][\A v \in Watches, c \in Callers : ~ForceCheck(c, v)]_pollVars

\* A due watch that stays on gets its turn, however many others are due and
\* however many of their checks fail, unless people arm watches without end:
\* an armed watch goes first.
EveryDueWatchIsChecked ==
    Unhurried
        => \A w \in Watches :
            w \in Ready ~> (w \notin Ready \/ stage[<<Tick, w>>] = "asking")

\* A host that is refused everywhere keeps tripping the alarm as long as some
\* watch is still polled by the tick, not by hand all the time.
OutageIsReported ==
    Unhurried /\ Unforced
        => \A w \in Watches :
            <>[](status[w] = "on" /\ ~reachable) => []<>(heart = "fail")

\* Once raised, the alarm stands until a check has succeeded again.
AlarmStands == [][heart = "fail" /\ heart' = "ok" => worked]_pollVars

\* A monitor that had watches to poll keeps raising the alarm as long as every
\* store refuses it.
OutageKeepsAlarming ==
    (\E w \in Watches : status[w] = "on") /\ <>[]~reachable => []<>(heart = "fail")
=============================================================================
