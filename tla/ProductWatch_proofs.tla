------------------------- MODULE ProductWatch_proofs -------------------------
(***************************************************************************)
(* What holds of ProductWatch for any set of products, sizes, prices and   *)
(* preferences, any alert threshold, and any number of checks.             *)
(***************************************************************************)
EXTENDS ProductWatch, TLAPS

Decisions == [state    : States,
              failures : Nat,
              price    : [of : Targets, amount : Prices] \cup {NoPrice},
              pause    : BOOLEAN,
              events   : Seq(Alerts)]

-----------------------------------------------------------------------------
(* What folding an answer returns *)

\* An optional alert is a sequence of alerts.
LEMMA WhenType ==
    ASSUME NEW condition \in BOOLEAN, NEW alert \in Alerts
    PROVE  When(condition, alert) \in Seq(Alerts)
BY DEF When

\* Folding anything but a rate limit yields values of the columns' types.
LEMMA DecisionType ==
    ASSUME NEW w \in Rows, NEW a \in Answers, a.outcome # "rate_limited"
    PROVE  Decision(w, a) \in Decisions
<1>1. /\ w.failures \in Nat
      /\ w.state \in States
      /\ w.size \subseteq Sizes
      /\ w.price \in [of : Targets, amount : Prices] \cup {NoPrice}
  BY ConstantsAssumption DEF Rows
<1>2. Alert("watch_failing", NoPage) \in Alerts /\ Alert("watch_recovered", NoPage) \in Alerts
  BY DEF Alert, Alerts, Kinds
<1>3. Recovered(w) \in Seq(Alerts)
  <2>1. (w.failures >= Threshold) \in BOOLEAN
    OBVIOUS
  <2>2. QED BY <1>2, <2>1, WhenType DEF Recovered
<1>4. CASE a.outcome = "failed"
  <2>1. When(w.failures + 1 = Threshold, Alert("watch_failing", NoPage)) \in Seq(Alerts)
    BY <1>2, WhenType
  <2>2. w.failures + 1 \in Nat /\ (w.failures + 1 >= Threshold) \in BOOLEAN
    BY <1>1, ThresholdAssumption
  <2>3. OnFailure(w) \in Decisions
    BY <1>1, <2>1, <2>2 DEF OnFailure, Decisions
  <2>4. QED BY <1>4, <2>3 DEF Decision
<1>5. CASE a.outcome = "not_modified"
  <2>1. OnNotModified(w) \in Decisions
    BY <1>1, <1>3 DEF OnNotModified, Decisions
  <2>2. QED BY <1>5, <2>1 DEF Decision
<1>6. CASE a.outcome = "ok"
  <2>1. a.page \in Pages
    BY <1>6 DEF Answers
  <2>2. Reads(a.page.doc, w.size) \in States
    BY DEF Reads, States
  <2>3. PriceOn(a.page) \in [of : Targets, amount : Prices] \cup {NoPrice}
    BY <2>1 DEF PriceOn, Pages, Docs
  <2>4. \A kind \in Kinds : Alert(kind, a.page) \in Alerts
    BY <2>1 DEF Alert, Alerts
  <2>5. \A condition \in BOOLEAN, kind \in {"restock", "held", "price_drop"} :
            When(condition, Alert(kind, a.page)) \in Seq(Alerts)
    BY <2>4, WhenType DEF Kinds
  <2>6. OnPage(w, a.page).events \in Seq(Alerts)
    <3> DEFINE new   == Reads(a.page.doc, w.size)
               back  == When(IsRestock(w.state, new), Alert("restock", a.page))
               held  == When(w.state = "out_of_stock" /\ new = "held",
                             Alert("held", a.page))
               cheap == When(Cheaper(PriceOn(a.page), w.price),
                             Alert("price_drop", a.page))
    <3>1. back \in Seq(Alerts)
      BY <2>5 DEF IsRestock
    <3>2. held \in Seq(Alerts)
      BY <2>5
    <3>3. cheap \in Seq(Alerts)
      BY <2>5 DEF Cheaper
    <3>4. OnPage(w, a.page).events = ((Recovered(w) \o back) \o held) \o cheap
      BY DEF OnPage
    <3> HIDE DEF back, held, cheap
    <3>5. Recovered(w) \o back \in Seq(Alerts)
      BY <1>3, <3>1
    <3>6. (Recovered(w) \o back) \o held \in Seq(Alerts)
      BY <3>2, <3>5
    <3>7. QED BY <3>3, <3>4, <3>6
  <2>7. OnPage(w, a.page) \in Decisions
    BY <1>1, <2>2, <2>3, <2>6 DEF OnPage, Decisions
  <2>8. QED BY <1>6, <2>7 DEF Decision
<1>7. QED BY <1>4, <1>5, <1>6 DEF Answers

-----------------------------------------------------------------------------
(* Type correctness *)

LEMMA FinishedType ==
    ASSUME TypeOK, NEW c \in Checkers, Finished(c)
    PROVE  JobsOK'
<1>1. << >> \in Seq(Alerts)
  OBVIOUS
<1>2. QED BY <1>1 DEF TypeOK, JobsOK, Finished

LEMMA ContinueType ==
    ASSUME TypeOK, NEW c \in Checkers, pc[c] # "idle",
           NEW rest \in Seq(Alerts), Continue(c, rest)
    PROVE  JobsOK'
<1>1. CASE rest = << >>
  BY <1>1, FinishedType DEF Continue
<1>2. CASE rest # << >>
  BY <1>2 DEF Continue, TypeOK, JobsOK
<1>3. QED BY <1>1, <1>2

LEMMA FoldType ==
    ASSUME TypeOK, NEW c \in Checkers, Fold(c)
    PROVE  TypeOK'
<1> DEFINE d == Decision(snap[c], answer[c])
<1>1. snap[c] \in Rows /\ answer[c] \in Answers /\ answer[c].outcome # "rate_limited"
  BY DEF Fold, TypeOK, JobsOK
<1>2. d \in Decisions
  BY <1>1, DecisionType
<1>3. /\ row' = Folded(c, d)
      /\ Continue(c, d.events)
      /\ gone' \in BOOLEAN
      /\ UNCHANGED <<store, alive, events>>
  BY DEF Fold, TypeOK, InStockNow
<1> HIDE DEF d
<1>4. answer[c].outcome = "ok" => answer[c].page \in Pages
  BY <1>1 DEF Answers
<1>5. row' \in Rows
  BY <1>2, <1>3, <1>4 DEF Folded, TypeOK, Rows, Decisions
<1>6. JobsOK'
  <2>1. pc[c] # "idle" /\ d.events \in Seq(Alerts)
    BY <1>2 DEF Fold, Decisions
  <2>2. QED BY <1>3, <2>1, ContinueType
<1>7. failrun' \in 0..Threshold
  BY ThresholdAssumption DEF Fold, TypeOK
<1>8. QED BY <1>3, <1>5, <1>6, <1>7 DEF TypeOK

LEMMA CheckType ==
    ASSUME TypeOK, NEW c \in Checkers, Check(c)
    PROVE  TypeOK'
<1>1. CASE Start(c)
  BY <1>1 DEF Start, TypeOK, JobsOK, Rows, ghostVars
<1>2. ASSUME NEW outcome \in Outcomes, Answer(c, outcome)
      PROVE  TypeOK'
  <2>1. PageOf(snap[c].target) \in Pages
    BY <1>2 DEF Answer, PageOf, Pages, TypeOK, JobsOK, Rows
  <2>2. [outcome |-> outcome,
         page    |-> IF outcome \in {"ok", "not_modified"}
                     THEN PageOf(snap[c].target) ELSE NoPage] \in Answers
    BY <1>2, <2>1 DEF Answers, Outcomes
  <2>3. QED BY <1>2, <2>2 DEF Answer, TypeOK, JobsOK, ghostVars
<1>3. CASE FoldDeleted(c)
  BY <1>3, FinishedType DEF FoldDeleted, TypeOK, ghostVars
<1>4. CASE FoldRateLimited(c)
  <2>1. row' \in Rows
    BY <1>4 DEF FoldRateLimited, TypeOK, Rows
  <2>2. QED BY <1>4, <2>1, FinishedType DEF FoldRateLimited, TypeOK, ghostVars
<1>5. CASE Fold(c)
  BY <1>5, FoldType
<1>6. CASE Suppress(c)
  <2>1. pc[c] # "idle" /\ Tail(queue[c]) \in Seq(Alerts)
    BY <1>6 DEF Suppress, TypeOK, JobsOK
  <2>2. QED BY <1>6, <2>1, ContinueType DEF Suppress, TypeOK, ghostVars
<1>7. CASE Record(c)
  <2>1. Head(queue[c]) \in Alerts /\ Tail(queue[c]) \in Seq(Alerts)
    BY <1>7 DEF Record, TypeOK, JobsOK
  <2>2. QED BY <1>7, <2>1 DEF Record, TypeOK, JobsOK, ghostVars
<1>8. CASE RecordDeleted(c)
  BY <1>8, FinishedType DEF RecordDeleted, TypeOK, ghostVars
<1>9. ASSUME NEW delivered \in BOOLEAN, Send(c, delivered)
      PROVE  TypeOK'
  <2>1. pc[c] # "idle" /\ queue[c] \in Seq(Alerts)
    BY <1>9 DEF Send, TypeOK, JobsOK
  <2>2. row' \in Rows
    BY <1>9 DEF Send, TypeOK, Rows
  <2>3. QED BY <1>9, <2>1, <2>2, ContinueType DEF Send, TypeOK, ghostVars
<1>10. QED BY <1>1, <1>2, <1>3, <1>4, <1>5, <1>6, <1>7, <1>8, <1>9 DEF Check

LEMMA PatchType ==
    ASSUME TypeOK, PatchAny
    PROVE  TypeOK'
<1>1. PICK retarget \in Choices("target", BOOLEAN, {FALSE}), t \in Targets,
           s \in Choices("size", Prefs, {row.size}),
           enable \in Choices("enabled", {"keep", "on", "off"}, {"keep"}) :
           Patch(retarget, t, s, enable)
  BY DEF PatchAny
<1>2. retarget \in BOOLEAN /\ s \in Prefs
  BY DEF Choices, TypeOK, Rows
<1>3. row' \in Rows
  BY <1>1, <1>2 DEF Patch, TypeOK, Rows, States
<1>4. QED BY <1>1, <1>2, <1>3 DEF Patch, TypeOK, JobsOK, jobVars

LEMMA TypeStep == TypeOK /\ [Next]_vars => TypeOK'
<1> SUFFICES ASSUME TypeOK, [Next]_vars PROVE TypeOK'
  OBVIOUS
<1>1. ASSUME NEW t \in Targets, NEW d \in Docs, StoreChanges(t, d)
      PROVE  TypeOK'
  BY <1>1 DEF StoreChanges, TypeOK, JobsOK, jobVars
<1>2. CASE BecomesDue
  BY <1>2 DEF BecomesDue, TypeOK, JobsOK, Rows, jobVars, ghostVars
<1>3. ASSUME NEW c \in Checkers, Check(c)
      PROVE  TypeOK'
  BY <1>3, CheckType
<1>4. CASE PatchAny
  BY <1>4, PatchType
<1>5. CASE Arm
  BY <1>5 DEF Arm, TypeOK, JobsOK, Rows, jobVars, ghostVars
<1>6. CASE Delete
  BY <1>6 DEF Delete, TypeOK, JobsOK, jobVars, ghostVars
<1>7. CASE ClearEvents
  BY <1>7 DEF ClearEvents, TypeOK, JobsOK, jobVars, ghostVars
<1>8. CASE Crash
  BY <1>8 DEF Crash, TypeOK, JobsOK, ghostVars
<1>9. CASE UNCHANGED vars
  BY <1>9 DEF vars, TypeOK, JobsOK, jobVars, ghostVars
<1>10. QED BY <1>1, <1>2, <1>3, <1>4, <1>5, <1>6, <1>7, <1>8, <1>9, ShownAssumption DEF Next

LEMMA TypeInit == Init => TypeOK
  BY ThresholdAssumption, ShownAssumption DEF Init, TypeOK, JobsOK, NewRow, Rows, States

\* Every state the watch and its checks can reach is well formed.
THEOREM TypeCorrect == Spec => []TypeOK
<1>1. QED BY TypeInit, TypeStep, PTL DEF Spec

-----------------------------------------------------------------------------
(* Which alerts a decision holds *)

LEMMA SaysWhen ==
    ASSUME NEW condition \in BOOLEAN, NEW alert, NEW kind
    PROVE  Says(When(condition, alert), kind) <=> condition /\ alert.kind = kind
BY DEF Says, When

LEMMA SaysConcat ==
    ASSUME NEW s \in Seq(Alerts), NEW t \in Seq(Alerts), NEW kind
    PROVE  Says(s \o t, kind) <=> Says(s, kind) \/ Says(t, kind)
<1>1. ASSUME NEW i \in DOMAIN s, s[i].kind = kind
      PROVE  Says(s \o t, kind)
  BY <1>1 DEF Says
<1>2. ASSUME NEW i \in DOMAIN t, t[i].kind = kind
      PROVE  Says(s \o t, kind)
  <2>1. Len(s) + i \in DOMAIN (s \o t) /\ (s \o t)[Len(s) + i] = t[i]
    OBVIOUS
  <2>2. QED BY <1>2, <2>1 DEF Says
<1>3. ASSUME NEW i \in DOMAIN (s \o t), (s \o t)[i].kind = kind
      PROVE  Says(s, kind) \/ Says(t, kind)
  <2>1. CASE i \in DOMAIN s
    BY <1>3, <2>1 DEF Says
  <2>2. CASE i \notin DOMAIN s
    <3>1. i - Len(s) \in DOMAIN t /\ (s \o t)[i] = t[i - Len(s)]
      BY <2>2
    <3>2. QED BY <1>3, <3>1 DEF Says
  <2>3. QED BY <2>1, <2>2
<1>4. QED BY <1>1, <1>2, <1>3 DEF Says

\* What a page makes the check say: a restock exactly on the transition into
\* stock, and nothing about failing.
LEMMA PageSays ==
    ASSUME NEW w \in Rows, NEW page \in Pages
    PROVE  /\ Says(OnPage(w, page).events, "restock")
                <=> IsRestock(w.state, Reads(page.doc, w.size))
           /\ ~Says(OnPage(w, page).events, "watch_failing")
<1> DEFINE new   == Reads(page.doc, w.size)
           rec   == Recovered(w)
           back  == When(IsRestock(w.state, new), Alert("restock", page))
           held  == When(w.state = "out_of_stock" /\ new = "held", Alert("held", page))
           cheap == When(Cheaper(PriceOn(page), w.price), Alert("price_drop", page))
           failing == "watch_failing"
<1>1. OnPage(w, page).events = ((rec \o back) \o held) \o cheap
  BY DEF OnPage
<1>2. \A kind \in Kinds : Alert(kind, page) \in Alerts
  BY DEF Alert, Alerts
<1>3. rec \in Seq(Alerts) /\ ~Says(rec, "restock") /\ ~Says(rec, failing)
  <2>1. (w.failures >= Threshold) \in BOOLEAN
    OBVIOUS
  <2>2. Alert("watch_recovered", NoPage) \in Alerts
    BY DEF Alert, Alerts, Kinds
  <2>3. rec \in Seq(Alerts)
    BY <2>1, <2>2, WhenType DEF Recovered
  <2>4. QED BY <2>3 DEF Recovered, When, Alert, Says
<1>4. /\ back \in Seq(Alerts) /\ ~Says(back, failing)
      /\ Says(back, "restock") <=> IsRestock(w.state, new)
  BY <1>2, WhenType DEF IsRestock, Kinds, When, Alert, Says
<1>5. held \in Seq(Alerts) /\ ~Says(held, "restock") /\ ~Says(held, failing)
  BY <1>2, WhenType DEF Kinds, When, Alert, Says
<1>6. cheap \in Seq(Alerts) /\ ~Says(cheap, "restock") /\ ~Says(cheap, failing)
  BY <1>2, WhenType DEF Cheaper, Kinds, When, Alert, Says
<1> HIDE DEF rec, back, held, cheap
<1>7. rec \o back \in Seq(Alerts) /\ (rec \o back) \o held \in Seq(Alerts)
  BY <1>3, <1>4, <1>5
<1>8. \A kind \in Kinds :
        Says(((rec \o back) \o held) \o cheap, kind)
          <=> Says(rec, kind) \/ Says(back, kind) \/ Says(held, kind) \/ Says(cheap, kind)
  BY <1>3, <1>4, <1>5, <1>6, <1>7, SaysConcat
<1>9. QED BY <1>1, <1>3, <1>4, <1>5, <1>6, <1>8 DEF Kinds

\* A decision announces a restock exactly on the transition into stock, and a
\* failing watch exactly on the failure that reaches the threshold.
LEMMA DecisionSays ==
    ASSUME NEW w \in Rows, NEW a \in Answers, a.outcome # "rate_limited"
    PROVE  /\ Says(Decision(w, a).events, "restock") <=>
                a.outcome = "ok" /\ IsRestock(w.state, Reads(a.page.doc, w.size))
           /\ Says(Decision(w, a).events, "watch_failing") <=>
                a.outcome = "failed" /\ w.failures + 1 = Threshold
<1>1. CASE a.outcome = "failed"
  BY <1>1 DEF Decision, OnFailure, When, Alert, Says
<1>2. CASE a.outcome = "not_modified"
  BY <1>2 DEF Decision, OnNotModified, Recovered, When, Alert, Says
<1>3. CASE a.outcome = "ok"
  <2>1. a.page \in Pages
    BY <1>3 DEF Answers
  <2>2. Decision(w, a) = OnPage(w, a.page)
    BY <1>3 DEF Decision
  <2>3. QED BY <1>3, <2>1, <2>2, PageSays
<1>4. QED BY <1>1, <1>2, <1>3 DEF Answers

\* What is decided is what is queued.
LEMMA RaisesDecided ==
    ASSUME TypeOK, NEW c \in Checkers, Fold(c), NEW kind
    PROVE  Raises(c, kind) <=> Says(Decision(snap[c], answer[c]).events, kind)
<1>1. Continue(c, Decision(snap[c], answer[c]).events)
  BY DEF Fold
<1>2. queue'[c] = Decision(snap[c], answer[c]).events
  BY <1>1 DEF Continue, Finished, TypeOK, JobsOK
<1>3. QED BY <1>2 DEF Raises

-----------------------------------------------------------------------------
(* The tick alone: with no check running beside it, the failure count is   *)
(* never ahead of the failures there really were.  None of the properties  *)
(* is inductive alone: what a check writes comes from its copy of the row, *)
(* so the copy has to satisfy them too, for as long as it is in use.       *)

CountsHeld(c) ==
    pc[c] \in {"fetching", "folding"} =>
        /\ snap[c].enabled
        /\ snap[c].failures < Threshold
        /\ snap[c].failures <= failrun

CountsOK ==
    /\ PolledBelowThreshold
    /\ row.failures <= failrun
    /\ \A c \in Checkers : CountsHeld(c)

\* A failed check raises the count by one, anything else clears it; the pause
\* comes with the alert.
LEMMA FoldCounts ==
    ASSUME Forcers = {}, TypeOK, CountsOK, NEW c \in Checkers, Fold(c)
    PROVE  /\ PolledBelowThreshold'
           /\ row'.failures <= failrun'
           /\ row.enabled /\ ~row'.enabled => Raises(c, "watch_failing")
           /\ Raises(c, "watch_failing") => failrun' = Threshold
<1> DEFINE w == snap[c]
           a == answer[c]
           d == Decision(w, a)
<1>1. /\ w \in Rows /\ a \in Answers /\ a.outcome # "rate_limited"
      /\ w.enabled /\ w.failures < Threshold /\ w.failures <= failrun
      /\ w.failures \in Nat /\ failrun \in 0..Threshold
  BY DEF Fold, TypeOK, JobsOK, CountsOK, CountsHeld, Rows
<1>2. /\ row'.failures = d.failures
      /\ row'.enabled = IF d.pause THEN FALSE ELSE row.enabled
  BY <1>1 DEF Fold, Folded, TypeOK, Rows
<1>3. failrun' = IF a.outcome # "failed" THEN 0
                 ELSE IF failrun < Threshold THEN failrun + 1 ELSE failrun
  BY DEF Fold
<1>4. Raises(c, "watch_failing") <=> a.outcome = "failed" /\ w.failures + 1 = Threshold
  BY <1>1, RaisesDecided, DecisionSays
<1>5. CASE a.outcome = "failed"
  <2>1. d.failures = w.failures + 1 /\ (d.pause <=> w.failures + 1 >= Threshold)
    BY <1>5 DEF Decision, OnFailure
  <2> HIDE DEF w, a, d
  <2>2. d.pause <=> w.failures + 1 = Threshold
    BY <1>1, <2>1, ThresholdAssumption
  <2>3. row'.failures <= failrun'
    BY <1>1, <1>2, <1>3, <1>5, <2>1, ThresholdAssumption
  <2>4. PolledBelowThreshold'
    <3>1. row'.enabled => w.failures + 1 # Threshold
      BY <1>2, <2>2
    <3>2. row'.failures = w.failures + 1
      BY <1>2, <2>1
    <3>3. QED BY <1>1, <3>1, <3>2, ThresholdAssumption DEF PolledBelowThreshold
  <2>5. row.enabled /\ ~row'.enabled => Raises(c, "watch_failing")
    BY <1>2, <1>4, <1>5, <2>2
  <2>6. Raises(c, "watch_failing") => failrun' = Threshold
    BY <1>1, <1>3, <1>4, <1>5, ThresholdAssumption
  <2>7. QED BY <2>3, <2>4, <2>5, <2>6
<1>6. CASE a.outcome # "failed"
  <2>1. d.failures = 0 /\ ~d.pause
    BY <1>1, <1>6 DEF Decision, OnNotModified, OnPage, Answers
  <2>2. QED BY <1>2, <1>3, <1>4, <1>6, <2>1, ThresholdAssumption DEF PolledBelowThreshold
<1>7. QED BY <1>5, <1>6

LEMMA CountsStep ==
    ASSUME Forcers = {}, TypeOK, CountsOK, [Next]_vars
    PROVE  CountsOK'
<1> USE DEF CountsOK, CountsHeld, PolledBelowThreshold
<1>1. ASSUME NEW t \in Targets, NEW d \in Docs, StoreChanges(t, d)
      PROVE  CountsOK'
  BY <1>1 DEF StoreChanges, jobVars
<1>2. CASE BecomesDue
  BY <1>2 DEF BecomesDue, jobVars, ghostVars, TypeOK, Rows
<1>3. ASSUME NEW c \in Checkers, Check(c)
      PROVE  CountsOK'
  <2>1. c = Tick
    BY <1>3 DEF Checkers
  <2>2. CASE Start(c)
    BY <2>1, <2>2 DEF Start, ghostVars, TypeOK, JobsOK, Rows
  <2>3. ASSUME NEW outcome \in Outcomes, Answer(c, outcome)
        PROVE  CountsOK'
    BY <2>3 DEF Answer, ghostVars
  <2>4. CASE FoldDeleted(c)
    BY <2>4 DEF FoldDeleted, Finished, ghostVars, TypeOK, JobsOK
  <2>5. CASE FoldRateLimited(c)
    BY <2>5 DEF FoldRateLimited, Finished, ghostVars, TypeOK, JobsOK, Rows
  <2>6. CASE Fold(c)
    <3>1. PolledBelowThreshold' /\ row'.failures <= failrun'
      BY <2>6, FoldCounts
    <3>2. \A k \in Checkers : pc'[k] \notin {"fetching", "folding"}
      BY <2>1, <2>6 DEF Fold, Continue, Finished, TypeOK, JobsOK, Checkers
    <3>3. QED BY <3>1, <3>2
  <2>7. CASE Suppress(c)
    BY <2>7 DEF Suppress, Continue, Finished, ghostVars, TypeOK, JobsOK
  <2>8. CASE Record(c)
    BY <2>8 DEF Record, ghostVars, TypeOK, JobsOK
  <2>9. CASE RecordDeleted(c)
    BY <2>9 DEF RecordDeleted, Finished, ghostVars, TypeOK, JobsOK
  <2>10. ASSUME NEW delivered \in BOOLEAN, Send(c, delivered)
         PROVE  CountsOK'
    <3>1. /\ row'.failures = row.failures /\ row'.enabled = row.enabled
          /\ UNCHANGED failrun
      BY <2>10 DEF Send, ghostVars, TypeOK, Rows
    <3>2. pc'[c] \notin {"fetching", "folding"}
      BY <2>10 DEF Send, Continue, Finished, TypeOK, JobsOK
    <3>3. QED BY <2>1, <3>1, <3>2 DEF Checkers
  <2>11. QED BY <1>3, <2>2, <2>3, <2>4, <2>5, <2>6, <2>7, <2>8, <2>9, <2>10 DEF Check
<1>4. CASE PatchAny
  <2>1. PICK retarget \in Choices("target", BOOLEAN, {FALSE}), t \in Targets,
             s \in Choices("size", Prefs, {row.size}),
             enable \in Choices("enabled", {"keep", "on", "off"}, {"keep"}) :
             Patch(retarget, t, s, enable)
    BY <1>4 DEF PatchAny
  <2>2. /\ row'.failures = 0 \/ (row'.failures = row.failures /\ (row'.enabled => row.enabled))
        /\ UNCHANGED <<pc, snap, failrun>>
    BY <2>1 DEF Patch, jobVars, TypeOK, Rows
  <2>3. failrun \in Nat
    BY ThresholdAssumption DEF TypeOK
  <2>4. QED BY <2>2, <2>3, ThresholdAssumption
<1>5. CASE Arm
  BY <1>5 DEF Arm, jobVars, ghostVars, TypeOK, Rows
<1>6. CASE Delete
  BY <1>6 DEF Delete, jobVars, ghostVars
<1>7. CASE ClearEvents
  BY <1>7 DEF ClearEvents, jobVars, ghostVars
<1>8. CASE Crash
  BY <1>8 DEF Crash, ghostVars
<1>9. CASE UNCHANGED vars
  BY <1>9 DEF vars, jobVars, ghostVars
<1>10. QED BY <1>1, <1>2, <1>3, <1>4, <1>5, <1>6, <1>7, <1>8, <1>9, ShownAssumption DEF Next

LEMMA CountsInit == Init => CountsOK
  BY ThresholdAssumption DEF Init, CountsOK, CountsHeld, PolledBelowThreshold, NewRow

LEMMA Counts == Forcers = {} => (Spec => [](TypeOK /\ CountsOK))
<1>1. CASE Forcers = {}
  <2>1. TypeOK /\ CountsOK /\ [Next]_vars => (TypeOK /\ CountsOK)'
    BY <1>1, TypeStep, CountsStep
  <2>2. QED BY <2>1, TypeInit, CountsInit, PTL DEF Spec
<1>2. QED BY <1>1

\* With only the tick checking, a watch that is still polled has failed fewer
\* times in a row than the alert threshold, whatever edits, deletions and
\* crashes come between the steps of a check.
THEOREM PolledStaysBelowThreshold == Forcers = {} => (Spec => []PolledBelowThreshold)
<1>1. CountsOK => PolledBelowThreshold
  BY DEF CountsOK
<1>2. QED BY <1>1, Counts, PTL

\* With only the tick checking, no check pauses a watch without deciding, in
\* the same step, to say that it is failing.
THEOREM NoSilentPause == Forcers = {} => (Spec => PausesAreAnnounced)
<1>1. CASE Forcers = {}
  <2>1. TypeOK /\ CountsOK /\ [Next]_vars =>
          [\A c \in Checkers :
             Fold(c) /\ row.enabled /\ ~row'.enabled => Raises(c, "watch_failing")]_vars
    BY <1>1, FoldCounts
  <2>2. QED BY <1>1, <2>1, Counts, PTL DEF Spec, PausesAreAnnounced
<1>2. QED BY <1>1

\* With only the tick checking, an alert that a watch is failing is never
\* raised before Threshold checks in a row have really failed.
THEOREM FailingAlertIsEarned == Forcers = {} => (Spec => FailingIsEarned)
<1>1. CASE Forcers = {}
  <2>1. TypeOK /\ CountsOK /\ [Next]_vars =>
          [\A c \in Checkers : Raises(c, "watch_failing") => failrun' = Threshold]_vars
    BY <1>1, FoldCounts DEF Raises
  <2>2. QED BY <1>1, <2>1, Counts, PTL DEF Spec, FailingIsEarned
<1>2. QED BY <1>1

-----------------------------------------------------------------------------
(* A watch whose url and size are left alone, checked by the tick alone: the *)
(* stored state and the stored validator stay in step, and so do both with  *)
(* the copy that a check folds into.                                        *)

Undisturbed == Forcers = {} /\ Edits \subseteq {"enabled"}

CopyIsFresh(c) ==
    /\ pc[c] \in {"fetching", "folding"} =>
        /\ snap[c].state = row.state /\ snap[c].etag = row.etag
        /\ snap[c].target = row.target /\ snap[c].size = row.size
    /\ pc[c] = "folding" =>
        /\ answer[c].outcome = "not_modified" => answer[c].page = snap[c].etag
        /\ answer[c].outcome \in {"ok", "not_modified"}
             /\ Reads(answer[c].page.doc, row.size) # "in_stock" => gone

ReadingsOK ==
    /\ EtagSpeaksForState
    /\ row.state \in {"out_of_stock", "held"} \/ ~InStockNow => gone
    /\ \A c \in Checkers : CopyIsFresh(c)

\* Folding keeps state and validator in step, decides a restock exactly when
\* the row goes from "not to be had" to "in stock", and believes the store.
LEMMA FoldReadings ==
    ASSUME TypeOK, ReadingsOK, NEW c \in Checkers, Fold(c)
    PROVE  /\ EtagSpeaksForState'
           /\ row'.state \in {"out_of_stock", "held"} \/ ~InStockNow' => gone'
           /\ Raises(c, "restock") => gone
           /\ row.state \in {"out_of_stock", "held"} /\ row'.state = "in_stock"
                => Raises(c, "restock")
           /\ answer[c].outcome \in {"ok", "not_modified"}
                => row'.state = Reads(answer[c].page.doc, row.size)
<1> DEFINE w == snap[c]
           a == answer[c]
           d == Decision(w, a)
           says == Says(d.events, "restock")
<1>1. /\ w \in Rows /\ a \in Answers /\ a.outcome # "rate_limited"
      /\ w.state = row.state /\ w.etag = row.etag /\ w.size = row.size
      /\ a.outcome = "not_modified" => a.page = w.etag
      /\ a.outcome \in {"ok", "not_modified"}
           /\ Reads(a.page.doc, row.size) # "in_stock" => gone
  BY DEF Fold, TypeOK, JobsOK, ReadingsOK, CopyIsFresh
<1>2. /\ row'.state = d.state /\ row'.size = row.size /\ row'.target = row.target
      /\ row'.etag = IF a.outcome = "ok" THEN a.page ELSE row.etag
      /\ UNCHANGED store
  BY DEF Fold, Folded, TypeOK, Rows
<1>3. InStockNow' = InStockNow
  BY <1>2 DEF InStockNow
<1>4. gone' = IF says THEN ~InStockNow ELSE gone
  BY DEF Fold
<1>5. says <=> a.outcome = "ok" /\ IsRestock(row.state, Reads(a.page.doc, row.size))
  BY <1>1, DecisionSays
<1>6. Raises(c, "restock") <=> says
  BY RaisesDecided
<1>7. CASE a.outcome = "failed"
  <2>1. d.state = row.state
    BY <1>1, <1>7 DEF Decision, OnFailure
  <2>2. QED BY <1>2, <1>3, <1>4, <1>5, <1>6, <1>7, <2>1 DEF ReadingsOK, EtagSpeaksForState
<1>8. CASE a.outcome = "not_modified"
  <2>1. d.state = row.state
    BY <1>1, <1>8 DEF Decision, OnNotModified
  <2>2. a.page \in Pages
    BY <1>1, <1>8 DEF Answers
  <2>3. row.state = Reads(a.page.doc, row.size)
    BY <1>1, <1>8, <2>2, SentinelAssumption DEF ReadingsOK, EtagSpeaksForState
  <2>4. QED BY <1>2, <1>3, <1>4, <1>5, <1>6, <1>8, <2>1, <2>3 DEF ReadingsOK, EtagSpeaksForState
<1>9. CASE a.outcome = "ok"
  <2>1. d.state = Reads(a.page.doc, row.size)
    BY <1>1, <1>9 DEF Decision, OnPage
  <2>2. a.page \in Pages
    BY <1>1, <1>9 DEF Answers
  <2>3. Raises(c, "restock") => gone
    BY <1>5, <1>6 DEF ReadingsOK, IsRestock
  <2>4. EtagSpeaksForState'
    BY <1>2, <1>9, <2>1 DEF EtagSpeaksForState
  <2>5. row'.state \in {"out_of_stock", "held"} \/ ~InStockNow' => gone'
    <3>1. CASE says
      BY <1>2, <1>3, <1>4, <1>5, <2>1, <3>1 DEF IsRestock
    <3>2. CASE ~says
      BY <1>1, <1>2, <1>3, <1>4, <1>9, <2>1, <3>2 DEF ReadingsOK
    <3>3. QED BY <3>1, <3>2
  <2>6. row.state \in {"out_of_stock", "held"} /\ row'.state = "in_stock"
          => Raises(c, "restock")
    BY <1>2, <1>5, <1>6, <1>9, <2>1 DEF IsRestock
  <2>7. QED BY <1>2, <2>1, <2>3, <2>4, <2>5, <2>6
<1>10. QED BY <1>1, <1>7, <1>8, <1>9 DEF Answers

\* Every step but a fold leaves the recorded state alone.
LEMMA ReadingsStep ==
    ASSUME Undisturbed, TypeOK, ReadingsOK, [Next]_vars
    PROVE  ReadingsOK' /\ (row'.state = row.state \/ \E c \in Checkers : Fold(c))
<1> USE DEF ReadingsOK, CopyIsFresh, EtagSpeaksForState, InStockNow
<1>1. ASSUME NEW t \in Targets, NEW d \in Docs, StoreChanges(t, d)
      PROVE  ReadingsOK' /\ row'.state = row.state
  BY <1>1 DEF StoreChanges, jobVars, TypeOK, Rows
<1>2. CASE BecomesDue
  BY <1>2 DEF BecomesDue, jobVars, ghostVars, TypeOK, Rows
<1>3. ASSUME NEW c \in Checkers, Check(c)
      PROVE  ReadingsOK' /\ (row'.state = row.state \/ Fold(c))
  <2>1. Checkers = {c}
    BY DEF Checkers, Undisturbed
  <2>2. CASE Start(c)
    BY <2>1, <2>2 DEF Start, ghostVars, TypeOK, JobsOK, Rows
  <2>3. ASSUME NEW outcome \in Outcomes, Answer(c, outcome)
        PROVE  ReadingsOK' /\ row'.state = row.state
    <3>1. /\ pc[c] = "fetching" /\ UNCHANGED <<store, row, snap, gone>>
          /\ answer'[c].outcome = outcome
          /\ outcome \in {"ok", "not_modified"} => answer'[c].page = PageOf(snap[c].target)
          /\ outcome = "not_modified" => snap[c].etag = PageOf(snap[c].target)
      BY <2>3 DEF Answer, ghostVars, TypeOK, JobsOK
    <3>2. PageOf(snap[c].target).doc = store[row.target]
      BY <3>1 DEF PageOf
    <3>3. QED BY <2>1, <3>1, <3>2
  <2>4. CASE FoldDeleted(c)
    BY <2>1, <2>4 DEF FoldDeleted, Finished, ghostVars, TypeOK, JobsOK
  <2>5. CASE FoldRateLimited(c)
    BY <2>1, <2>5 DEF FoldRateLimited, Finished, ghostVars, TypeOK, JobsOK, Rows
  <2>6. CASE Fold(c)
    <3>1. pc'[c] \notin {"fetching", "folding"}
      BY <2>6 DEF Fold, Continue, Finished, TypeOK, JobsOK
    <3>2. QED BY <2>1, <2>6, <3>1, FoldReadings
  <2>7. CASE Suppress(c)
    BY <2>1, <2>7 DEF Suppress, Continue, Finished, ghostVars, TypeOK, JobsOK
  <2>8. CASE Record(c)
    BY <2>1, <2>8 DEF Record, ghostVars, TypeOK, JobsOK
  <2>9. CASE RecordDeleted(c)
    BY <2>1, <2>9 DEF RecordDeleted, Finished, ghostVars, TypeOK, JobsOK
  <2>10. ASSUME NEW delivered \in BOOLEAN, Send(c, delivered)
         PROVE  ReadingsOK' /\ row'.state = row.state
    <3>1. /\ row'.state = row.state /\ row'.etag = row.etag
          /\ row'.size = row.size /\ row'.target = row.target
          /\ UNCHANGED <<store, gone>>
      BY <2>10 DEF Send, ghostVars, TypeOK, Rows
    <3>2. pc'[c] \notin {"fetching", "folding"}
      BY <2>10 DEF Send, Continue, Finished, TypeOK, JobsOK
    <3>3. QED BY <2>1, <3>1, <3>2
  <2>11. QED BY <1>3, <2>2, <2>3, <2>4, <2>5, <2>6, <2>7, <2>8, <2>9, <2>10 DEF Check
<1>4. CASE PatchAny
  <2>1. PICK retarget \in Choices("target", BOOLEAN, {FALSE}), t \in Targets,
             s \in Choices("size", Prefs, {row.size}),
             enable \in Choices("enabled", {"keep", "on", "off"}, {"keep"}) :
             /\ retarget \/ t = row.target
             /\ Patch(retarget, t, s, enable)
    BY <1>4 DEF PatchAny
  <2>2. ~retarget /\ s = row.size
    BY DEF Choices, Undisturbed
  <2>3. /\ row'.state = row.state /\ row'.etag = row.etag
        /\ row'.size = row.size /\ row'.target = row.target
        /\ UNCHANGED <<store, gone, pc, snap, answer>>
    BY <2>1, <2>2 DEF Patch, jobVars, TypeOK, Rows
  <2>4. QED BY <2>3
<1>5. CASE Arm
  BY <1>5 DEF Arm, jobVars, ghostVars, TypeOK, Rows
<1>6. CASE Delete
  BY <1>6 DEF Delete, jobVars, ghostVars
<1>7. CASE ClearEvents
  BY <1>7 DEF ClearEvents, jobVars, ghostVars
<1>8. CASE Crash
  BY <1>8 DEF Crash, ghostVars
<1>9. CASE UNCHANGED vars
  BY <1>9 DEF vars, jobVars, ghostVars
<1>10. QED BY <1>1, <1>2, <1>3, <1>4, <1>5, <1>6, <1>7, <1>8, <1>9, ShownAssumption DEF Next

LEMMA ReadingsInit == Init => ReadingsOK
  BY DEF Init, ReadingsOK, CopyIsFresh, EtagSpeaksForState, NewRow

LEMMA Readings == Undisturbed => (Spec => [](TypeOK /\ ReadingsOK))
<1>1. CASE Undisturbed
  <2>1. TypeOK /\ ReadingsOK /\ [Next]_vars => (TypeOK /\ ReadingsOK)'
    BY <1>1, TypeStep, ReadingsStep
  <2>2. QED BY <2>1, TypeInit, ReadingsInit, PTL DEF Spec
<1>2. QED BY <1>1

\* The stored validator and the stored state of an undisturbed watch always
\* come from one reading, so a 304 keeps the state that belongs to it.
THEOREM EtagInStep == Undisturbed => (Spec => []EtagSpeaksForState)
<1>1. ReadingsOK => EtagSpeaksForState
  BY DEF ReadingsOK
<1>2. QED BY <1>1, Readings, PTL

\* An undisturbed watch never announces one restock twice.
THEOREM OneAlertPerReturn == Undisturbed => (Spec => RestockNeedsReturn)
<1>1. CASE Undisturbed
  <2>1. TypeOK /\ ReadingsOK /\ [Next]_vars =>
          [\A c \in Checkers : Raises(c, "restock") => gone]_vars
    BY FoldReadings DEF Raises
  <2>2. QED BY <1>1, <2>1, Readings, PTL DEF Spec, RestockNeedsReturn
<1>2. QED BY <1>1

\* The row of an undisturbed watch never comes to say "in stock" in silence
\* once it has said that the product was not to be had.
THEOREM NoReturnSwallowed == Undisturbed => (Spec => ReturnIsAnnounced)
<1>1. CASE Undisturbed
  <2>1. TypeOK /\ ReadingsOK /\ [Next]_vars =>
          [row.state \in {"out_of_stock", "held"} /\ row'.state = "in_stock"
             => \E c \in Checkers : Raises(c, "restock")]_vars
    <3>1. ASSUME TypeOK, ReadingsOK, [Next]_vars,
                 row.state \in {"out_of_stock", "held"}, row'.state = "in_stock"
          PROVE  \E c \in Checkers : Raises(c, "restock")
      <4>1. PICK c \in Checkers : Fold(c)
        BY <1>1, <3>1, ReadingsStep
      <4>2. QED BY <3>1, <4>1, FoldReadings
    <3>2. QED BY <3>1
  <2>2. QED BY <1>1, <2>1, Readings, PTL DEF Spec, ReturnIsAnnounced
<1>2. QED BY <1>1

\* After a check of an undisturbed watch that reached the store, in full or
\* by a 304, the row says what the page showed.
THEOREM CheckSettles == Undisturbed => (Spec => CheckSettlesState)
<1>1. CASE Undisturbed
  <2>1. TypeOK /\ ReadingsOK /\ [Next]_vars =>
          [\A c \in Checkers : SettlesUndisturbed(c) =>
             row'.state = Reads(answer[c].page.doc, row.size)]_vars
    BY FoldReadings DEF SettlesUndisturbed
  <2>2. QED BY <1>1, <2>1, Readings, PTL DEF Spec, CheckSettlesState
<1>2. QED BY <1>1

-----------------------------------------------------------------------------
(* Any number of checks at once, any edit, deletion and crash *)

LEMMA ChecksKeepSettingsStep ==
    ASSUME TypeOK, [Next]_vars, pc' # pc
    PROVE  /\ row'.target = row.target
           /\ row'.size = row.size
           /\ row'.enabled => row.enabled
<1>1. ASSUME NEW c \in Checkers, Check(c)
      PROVE  /\ row'.target = row.target
             /\ row'.size = row.size
             /\ row'.enabled => row.enabled
  <2>1. CASE Fold(c)
    BY <2>1 DEF Fold, Folded, TypeOK, Rows
  <2>2. CASE FoldRateLimited(c)
    BY <2>2 DEF FoldRateLimited, TypeOK, Rows
  <2>3. ASSUME NEW delivered \in BOOLEAN, Send(c, delivered)
        PROVE  /\ row'.target = row.target
               /\ row'.size = row.size
               /\ row'.enabled => row.enabled
    BY <2>3 DEF Send, TypeOK, Rows
  <2>4. CASE ~Fold(c) /\ ~FoldRateLimited(c) /\ ~\E delivered \in BOOLEAN : Send(c, delivered)
    BY <1>1, <2>4 DEF Check, Start, Answer, FoldDeleted, Suppress, Record, RecordDeleted
  <2>5. QED BY <2>1, <2>2, <2>3, <2>4
<1>2. CASE Crash
  BY <1>2 DEF Crash
<1>3. QED BY <1>1, <1>2 DEF Next, StoreChanges, BecomesDue, PatchAny, Patch, Arm,
                            Delete, ClearEvents, vars, jobVars

\* However many checks run at once, none takes back an edit of what is watched
\* and none resumes a watch that was paused meanwhile.
THEOREM SettingsSurviveChecks == Spec => ChecksKeepSettings
<1>1. TypeOK /\ [Next]_vars =>
        [pc' # pc => /\ row'.target = row.target
                     /\ row'.size = row.size
                     /\ row'.enabled => row.enabled]_vars
  BY ChecksKeepSettingsStep
<1>2. QED BY <1>1, TypeCorrect, PTL DEF Spec, ChecksKeepSettings

\* However many checks outlive a deleted watch, none leaves an alert behind.
THEOREM DeletedWatchIsSilent == Spec => []NoOrphanEvents
<1>1. Init => NoOrphanEvents
  BY DEF Init, NoOrphanEvents
<1>2. TypeOK /\ NoOrphanEvents /\ [Next]_vars => NoOrphanEvents'
  <2> SUFFICES ASSUME TypeOK, NoOrphanEvents, [Next]_vars PROVE NoOrphanEvents'
    OBVIOUS
  <2> USE DEF NoOrphanEvents
  <2>1. ASSUME NEW c \in Checkers, Check(c)
        PROVE  NoOrphanEvents'
    <3>1. CASE Record(c)
      BY <3>1 DEF Record
    <3>2. ASSUME NEW delivered \in BOOLEAN, Send(c, delivered)
          PROVE  NoOrphanEvents'
      BY <3>2 DEF Send, TypeOK
    <3>3. CASE ~Record(c) /\ ~\E delivered \in BOOLEAN : Send(c, delivered)
      BY <2>1, <3>3 DEF Check, Start, Answer, FoldDeleted, FoldRateLimited, Fold,
                        Suppress, RecordDeleted
    <3>4. QED BY <3>1, <3>2, <3>3
  <2>2. CASE Delete
    BY <2>2 DEF Delete
  <2>3. CASE ClearEvents
    BY <2>3 DEF ClearEvents
  <2>4. CASE Crash
    BY <2>4 DEF Crash
  <2>5. QED BY <2>1, <2>2, <2>3, <2>4 DEF Next, StoreChanges, BecomesDue, PatchAny, Patch,
                                          Arm, vars
<1>3. QED BY <1>1, <1>2, TypeCorrect, PTL DEF Spec

=============================================================================
