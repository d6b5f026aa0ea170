------------------------- MODULE AutoDeploy_proofs --------------------------
(***************************************************************************)
(* Theorems about AutoDeploy, for any commits, requirements and units.     *)
(***************************************************************************)
EXTENDS AutoDeploy, TLAPS

NotRestored == "not_restored" \in mishaps

\* The commit the checkout, the service and the requirements belong to at each
\* point of the script.
HeadAt ==
    /\ at \in {"installing", "testing", "restarting", "asking", "resetting"} => head = next
    /\ at \in {"restoring", "returning", "marking", "telling"} => head = prev

RunningAt ==
    /\ at \in {"installing", "testing", "restarting", "marking", "telling"} => running = prev
    /\ at \in {"resetting", "restoring"} /\ ~back => running = prev
    /\ at = "asking" => running = next
    /\ at = "idle" => running = head

VenvAt ==
    /\ at = "installing" => DepsChanged
    /\ at \in {"testing", "restarting", "asking"} => venv = needs[next]
    /\ at = "resetting" /\ ~DepsChanged => venv = needs[prev]
    /\ at \in {"returning", "marking", "telling"} => venv = needs[prev]
    /\ at = "idle" => venv = needs[head]

TestedAt ==
    /\ running \in tested /\ prev \in tested
    /\ at \in {"restarting", "asking"} => next \in tested

\* What has to hold between the steps of the script for a rollback to know
\* where to go back to.
Agreement ==
    Undisturbed => HeadAt /\ RunningAt /\ TestedAt /\ (~NotRestored => VenvAt)

\* Everything keeps its type.
THEOREM TypeCorrect == Spec => []TypeOK
<1>1. Init => TypeOK
  <2> SUFFICES ASSUME Init PROVE TypeOK
      OBVIOUS
  <2>1. told \in [Commits -> 0..2]
      BY DEF Init, NoReports
  <2>2. venv \in Versions /\ unit \in Units
      BY DeployAssumption DEF Init
  <2> QED BY <2>1, <2>2, DeployAssumption DEF Init, TypeOK, Places
<1>2. TypeOK /\ [Next]_vars => TypeOK'
  <2> SUFFICES ASSUME TypeOK, [Next]_vars PROVE TypeOK'
      OBVIOUS
  <2> USE DEF TypeOK, Places, NoReports, DepsChanged, program, server, script
  <2>1. ASSUME NEW c \in Commits, Push(c) PROVE TypeOK'
      BY <2>1 DEF Push
  <2>2. CASE Kill
      BY <2>2 DEF Kill
  <2>3. CASE Respawn
      BY <2>3 DEF Respawn
  <2>4. CASE Update
      BY <2>4 DEF Update
  <2>5. CASE Install
      BY <2>5 DEF Install
  <2>6. CASE InstallFails
      BY <2>6 DEF InstallFails
  <2>7. CASE Test
      BY <2>7 DEF Test
  <2>8. CASE Refuse
      BY <2>8 DEF Refuse
  <2>9. CASE Restart
      BY <2>9 DEF Restart
  <2>10. CASE Healthy
      BY <2>10 DEF Healthy
  <2>11. CASE Unhealthy
      BY <2>11 DEF Unhealthy
  <2>12. CASE Reset
      BY <2>12 DEF Reset, NextUndo
  <2>13. CASE Restore
      BY <2>13 DEF Restore
  <2>14. CASE Return
      BY <2>14 DEF Return
  <2>15. CASE Mark
      BY <2>15 DEF Mark, Marked
  <2>16. CASE Tell
      BY <2>16 DEF Tell
  <2>17. CASE UNCHANGED vars
      BY <2>17 DEF vars
  <2> QED BY <2>1, <2>2, <2>3, <2>4, <2>5, <2>6, <2>7, <2>8, <2>9, <2>10, <2>11,
             <2>12, <2>13, <2>14, <2>15, <2>16, <2>17 DEF Next, Script
<1> QED BY <1>1, <1>2, PTL DEF Spec

\* The agreement holds at the start and every step keeps it.
LEMMA AgreementInvariant == Spec => []Agreement
<1>1. Init => Agreement
    BY DEF Init, Agreement, HeadAt, RunningAt, VenvAt, TestedAt
<1>2. Agreement /\ [Next]_vars => Agreement'
  <2> SUFFICES ASSUME Agreement, [Next]_vars PROVE Agreement'
      OBVIOUS
  <2> USE DEF Agreement, HeadAt, RunningAt, VenvAt, TestedAt, NotRestored, Undisturbed,
              DepsChanged, program, server, script
  <2>1. ASSUME NEW c \in Commits, Push(c) PROVE Agreement'
      BY <2>1 DEF Push
  <2>2. CASE Kill
      BY <2>2 DEF Kill
  <2>3. CASE Respawn
      BY <2>3 DEF Respawn
  <2>4. CASE Update
      BY <2>4 DEF Update
  <2>5. CASE Install
      BY <2>5 DEF Install
  <2>6. CASE InstallFails
      BY <2>6 DEF InstallFails
  <2>7. CASE Test
      BY <2>7 DEF Test, Passes
  <2>8. CASE Refuse
      BY <2>8 DEF Refuse
  <2>9. CASE Restart
      BY <2>9 DEF Restart
  <2>10. CASE Healthy
      BY <2>10 DEF Healthy
  <2>11. CASE Unhealthy
      BY <2>11 DEF Unhealthy
  <2>12. CASE Reset
      BY <2>12 DEF Reset, NextUndo
  <2>13. CASE Restore
      BY <2>13 DEF Restore
  <2>14. CASE Return
      BY <2>14 DEF Return
  <2>15. CASE Mark
      BY <2>15 DEF Mark
  <2>16. CASE Tell
      BY <2>16 DEF Tell
  <2>17. CASE UNCHANGED vars
      BY <2>17 DEF vars
  <2> QED BY <2>1, <2>2, <2>3, <2>4, <2>5, <2>6, <2>7, <2>8, <2>9, <2>10, <2>11,
             <2>12, <2>13, <2>14, <2>15, <2>16, <2>17 DEF Next, Script
<1> QED BY <1>1, <1>2, PTL DEF Spec

\* Undisturbed, the service only ever runs code whose tests passed here.
THEOREM TestedRuns == Spec => []OnlyTestedRuns
<1>1. Agreement => OnlyTestedRuns
    BY DEF Agreement, TestedAt, OnlyTestedRuns
<1> QED BY <1>1, AgreementInvariant, PTL

\* A run that is not disturbed leaves service, checkout and requirements
\* agreeing, whatever failed in it.
THEOREM WholeRollback == Spec => []RollbackIsWhole
<1>1. Agreement => RollbackIsWhole
    BY DEF Agreement, RunningAt, VenvAt, Undisturbed, NotRestored, RollbackIsWhole
<1> QED BY <1>1, AgreementInvariant, PTL

\* A report is the last word on a push: the marker names the commit and no run
\* is under way.
LastWord ==
    /\ at = "telling" => mark = next
    /\ \A c \in Commits :
        told[c] # 0 => told[c] = 1 /\ remote = c /\ mark = c /\ at = "idle"

\* A commit that stays pushed is reported as failed at most once, through kills,
\* respawns and anything the installer and the tests do.
THEOREM ReportedOnce == Spec => []ToldOnce
<1>1. Init => LastWord
    BY DEF Init, LastWord, NoReports
<1>2. TypeOK /\ LastWord /\ [Next]_vars => LastWord'
  <2> SUFFICES ASSUME TypeOK, LastWord, [Next]_vars PROVE LastWord'
      OBVIOUS
  <2> USE DEF TypeOK, LastWord, server, script
  <2>1. ASSUME NEW c \in Commits, Push(c) PROVE LastWord'
      BY <2>1 DEF Push, NoReports
  <2>2. CASE Update
      BY <2>2 DEF Update, News
  <2>3. CASE Mark
      BY <2>3 DEF Mark, Marked
  <2>4. CASE Tell
      BY <2>4 DEF Tell
  <2>5. CASE Kill \/ Respawn
      BY <2>5 DEF Kill, Respawn
  <2>6. CASE Install \/ InstallFails \/ Test \/ Refuse \/ Restart
      BY <2>6 DEF Install, InstallFails, Test, Refuse, Restart
  <2>7. CASE Healthy \/ Unhealthy \/ Reset \/ Restore \/ Return
      BY <2>7 DEF Healthy, Unhealthy, Reset, NextUndo, Restore, Return
  <2>8. CASE UNCHANGED vars
      BY <2>8 DEF vars
  <2> QED BY <2>1, <2>2, <2>3, <2>4, <2>5, <2>6, <2>7, <2>8 DEF Next, Script
<1>3. TypeOK /\ LastWord => ToldOnce
  <2> SUFFICES ASSUME TypeOK, LastWord, NEW c \in Commits PROVE told[c] <= 1
      BY DEF ToldOnce
  <2>1. told[c] \in 0..2
      BY DEF TypeOK
  <2>2. told[c] = 0 \/ told[c] = 1
      BY <2>1 DEF LastWord
  <2> QED BY <2>2
<1> QED BY <1>1, <1>2, <1>3, TypeCorrect, PTL DEF Spec
=============================================================================
