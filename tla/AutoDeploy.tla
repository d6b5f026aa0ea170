----------------------------- MODULE AutoDeploy -----------------------------
(***************************************************************************)
(* The update path of the server, autodeploy.sh: a timer's run takes what  *)
(* was pushed, installs, tests, restarts, asks after the service's health, *)
(* and puts everything back when one of these fails.                       *)
(*                                                                         *)
(* systemd kills a run that takes too long, and restarts a service that    *)
(* dies with whatever the checkout holds at the time; flock keeps the runs *)
(* apart.                                                                  *)
(***************************************************************************)
EXTENDS Naturals

CONSTANTS
    Commits,    \* what the branch may be pushed to, force-pushes included
    First,      \* the commit the installer left running
    Versions,   \* what monitor/requirements.txt may ask for
    Units,      \* what monitor-api.service may say
    None

ASSUME DeployAssumption == First \in Commits /\ None \notin Commits

VARIABLES
    nature,     \* per commit: "good", "broken" (tests fail) or "sick" (never healthy)
    needs,      \* per commit: its requirements
    unitOf,     \* per commit: its systemd unit
    remote,     \* origin/BRANCH
    head,       \* the checkout
    venv,       \* the installed requirements
    unit,       \* the installed systemd unit
    running,    \* the commit the service was started from
    mark,       \* .autodeploy-failed
    at,         \* where the script is
    prev, next, \* PREV, NEXT
    back,       \* whether undoing restarts the service
    tested,     \* history: commits whose tests passed here
    told,       \* history: how often each was reported as failed since the last
                \* push, counted up to 2
    mishaps     \* history: what happened beside the script

program == <<nature, needs, unitOf>>
server  == <<head, venv, unit, running>>
script  == <<at, prev, next, back>>
vars    == <<program, remote, server, mark, script, tested, told, mishaps>>

Places == {"idle", "installing", "testing", "restarting", "asking",
           "resetting", "restoring", "returning", "marking", "telling"}

NoReports == [c \in Commits |-> 0]

DepsChanged == needs[prev] # needs[next]

\* The shape of the state: requirements are installed only where they changed,
\* and an abandoned attempt never comes near the service.
TypeOK ==
    /\ nature \in [Commits -> {"good", "broken", "sick"}]
    /\ needs \in [Commits -> Versions] /\ unitOf \in [Commits -> Units]
    /\ {remote, head, running, prev, next} \subseteq Commits
    /\ venv \in Versions /\ unit \in Units
    /\ mark \in Commits \cup {None}
    /\ at \in Places /\ back \in BOOLEAN
    /\ at \in {"installing", "restoring"} => DepsChanged
    /\ at = "returning" => back
    /\ tested \subseteq Commits /\ told \in [Commits -> 0..2]
    /\ mishaps \subseteq {"killed", "respawned", "not_restored"}

Init ==
    /\ nature \in {n \in [Commits -> {"good", "broken", "sick"}] : n[First] = "good"}
    /\ needs \in [Commits -> Versions] /\ unitOf \in [Commits -> Units]
    /\ remote = First /\ head = First /\ running = First
    /\ venv = needs[First] /\ unit = unitOf[First]
    /\ mark = None
    /\ at = "idle" /\ prev = First /\ next = First /\ back = FALSE
    /\ tested = {First} /\ told = NoReports /\ mishaps = {}

-----------------------------------------------------------------------------
(* The world *)

Push(c) ==
    /\ c # remote
    /\ remote' = c
    /\ told' = NoReports
    /\ UNCHANGED <<program, server, mark, script, tested, mishaps>>

\* TimeoutStartSec, or a reboot.
Kill ==
    /\ at # "idle"
    /\ at' = "idle"
    /\ mishaps' = mishaps \cup {"killed"}
    /\ UNCHANGED <<program, remote, server, mark, prev, next, back, tested, told>>

\* Restart=always.
Respawn ==
    /\ running # head
    /\ running' = head
    /\ mishaps' = mishaps \cup {"respawned"}
    /\ UNCHANGED <<program, remote, head, venv, unit, mark, script, tested, told>>

-----------------------------------------------------------------------------
(* The script *)

\* Mutation: a failed commit is tried at every tick.
News_Unmarked == head # remote

\* Mutation: one failure stops every later update.
News_Stops == head # remote /\ mark = None

\* Neither what is checked out nor what failed before.
News == head # remote /\ mark # remote

\* git fetch and git reset --hard.
Update ==
    /\ at = "idle"
    /\ News
    /\ prev' = head /\ next' = remote /\ head' = remote
    /\ at' = IF needs[head] # needs[remote] THEN "installing" ELSE "testing"
    /\ back' = FALSE
    /\ UNCHANGED <<program, remote, venv, unit, running, mark, tested, told, mishaps>>

Install ==
    /\ at = "installing"
    /\ venv' = needs[next]
    /\ at' = "testing"
    /\ UNCHANGED <<program, remote, head, unit, running, mark, prev, next, back,
                   tested, told, mishaps>>

\* pip gives up, before or after it changed something; this path restarts too.
InstallFails ==
    /\ at = "installing"
    /\ venv' \in {venv, needs[next]}
    /\ at' = "resetting" /\ back' = TRUE
    /\ UNCHANGED <<program, remote, head, unit, running, mark, prev, next,
                   tested, told, mishaps>>

\* Mutation: no gate.
Passes_Always == TRUE

Passes == nature[next] # "broken"

Test ==
    /\ at = "testing"
    /\ Passes
    /\ tested' = IF nature[next] # "broken" THEN tested \cup {next} ELSE tested
    /\ at' = "restarting"
    /\ UNCHANGED <<program, remote, server, mark, prev, next, back, told, mishaps>>

\* The tests fail, or cannot be run.
Refuse ==
    /\ at = "testing"
    /\ at' = "resetting" /\ back' = FALSE
    /\ UNCHANGED <<program, remote, server, mark, prev, next, tested, told, mishaps>>

\* A changed unit is installed on the way.
Restart ==
    /\ at = "restarting"
    /\ unit' = IF unitOf[prev] # unitOf[next] THEN unitOf[next] ELSE unit
    /\ running' = next
    /\ at' = "asking"
    /\ UNCHANGED <<program, remote, head, venv, mark, prev, next, back, tested,
                   told, mishaps>>

\* rm -f of the marker, and the good news.
Healthy ==
    /\ at = "asking"
    /\ nature[running] = "good"
    /\ mark' = None
    /\ at' = "idle"
    /\ UNCHANGED <<program, remote, server, prev, next, back, tested, told, mishaps>>

\* A good commit may be slow to come up.
Unhealthy ==
    /\ at = "asking"
    /\ at' = "resetting" /\ back' = TRUE
    /\ UNCHANGED <<program, remote, server, mark, prev, next, tested, told, mishaps>>

\* Mutation: the requirements are not put back.
NextUndo_CodeOnly == IF back THEN "returning" ELSE "marking"

NextUndo ==
    IF DepsChanged THEN "restoring" ELSE IF back THEN "returning" ELSE "marking"

Reset ==
    /\ at = "resetting"
    /\ head' = prev
    /\ at' = NextUndo
    /\ UNCHANGED <<program, remote, venv, unit, running, mark, prev, next, back,
                   tested, told, mishaps>>

\* The result of pip is ignored here.
Restore ==
    /\ at = "restoring"
    /\ \/ venv' = needs[prev] /\ UNCHANGED mishaps
       \/ mishaps' = mishaps \cup {"not_restored"} /\ UNCHANGED venv
    /\ at' = IF back THEN "returning" ELSE "marking"
    /\ UNCHANGED <<program, remote, head, unit, running, mark, prev, next, back,
                   tested, told>>

Return ==
    /\ at = "returning"
    /\ running' = head
    /\ at' = "marking"
    /\ UNCHANGED <<program, remote, head, venv, unit, mark, prev, next, back,
                   tested, told, mishaps>>

\* Mutation: the marker is not written.
Marked_Forgotten == mark

Marked == next

Mark ==
    /\ at = "marking"
    /\ mark' = Marked
    /\ at' = "telling"
    /\ UNCHANGED <<program, remote, server, prev, next, back, tested, told, mishaps>>

Tell ==
    /\ at = "telling"
    /\ told' = IF next = remote /\ told[next] < 2
               THEN [told EXCEPT ![next] = @ + 1] ELSE told
    /\ at' = "idle"
    /\ UNCHANGED <<program, remote, server, mark, prev, next, back, tested, mishaps>>

Script ==
    \/ Update \/ Install \/ InstallFails \/ Test \/ Refuse \/ Restart
    \/ Healthy \/ Unhealthy \/ Reset \/ Restore \/ Return \/ Mark \/ Tell

Next == Script \/ Kill \/ Respawn \/ \E c \in Commits : Push(c)

Spec == Init /\ [][Next]_vars

\* The timer keeps firing and what the script calls has a timeout.
FairSpec == Spec /\ WF_vars(Script)

-----------------------------------------------------------------------------
(* Properties *)

Undisturbed == mishaps \cap {"killed", "respawned"} = {}

\* The service never runs code whose tests did not pass, unless it died or the
\* script was killed while the checkout was ahead of the tests.
OnlyTestedRuns == Undisturbed => running \in tested

\* A commit that stays pushed is reported as failed once, whatever else happens,
\* kills and respawns included.
ToldOnce == \A c \in Commits : told[c] <= 1

\* Between two runs the service, the checkout and the requirements agree, after
\* any sequence of successes and rollbacks.
RollbackIsWhole ==
    at = "idle" /\ mishaps = {} => running = head /\ venv = needs[head]

\* A push that stays is not ignored: in the end it runs, or its failure is
\* written down, unless the service died or the script was killed meanwhile.
PushIsAnswered ==
    \A c \in Commits :
        <>[](remote = c)
            => <>[](mark = c \/ {head, running} = {c} \/ ~Undisturbed)

\* What a rollback puts back includes the systemd unit.
UnitIsRolledBack == at = "idle" /\ mishaps = {} => unit = unitOf[head]

\* Whatever happens, the service runs only code whose tests passed.
NeverUntested == running \in tested
=============================================================================
