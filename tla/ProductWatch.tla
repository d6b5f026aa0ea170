---------------------------- MODULE ProductWatch ----------------------------
(***************************************************************************)
(* One product watch: its row in the database, the checks that run on it,  *)
(* the person who edits it, and the store it looks at.                     *)
(*                                                                         *)
(* check_watch in monitor/scheduler.py is not atomic.  It is handed a copy *)
(* of the row, awaits the store, folds the answer into that COPY, writes   *)
(* selected columns back over whatever the row holds by then, and only     *)
(* afterwards records and sends the alerts it decided on, one await after  *)
(* another.  The tick runs at most one check of a watch at a time, but the *)
(* "check now" route runs check_watch outside the tick's lock, and the     *)
(* edit, arm and delete routes run in worker threads at any moment.        *)
(***************************************************************************)
EXTENDS Decide

CONSTANTS
    Targets,    \* the products a watch can be pointed at
    Sizes,
    Prices,
    Shown,      \* bound: the contents a product's page shows, some of Docs
    Prefs,      \* the size preferences a person sets
    Tick,       \* the polling loop
    Forcers,    \* concurrent calls of POST /watches/{id}/check
    Edits,      \* which fields PATCH may change: "target", "size", "enabled"
    Crashes,    \* whether the process may die and restart
    NoTag,      \* no cache validator stored
    NoRow,      \* the copy held by a job that is not running
    NoAnswer,
    NoAlert,    \* a job that has no alert row open
    MaxFailures \* bound: a watch that failed so often in a row fails no further

ASSUME ConstantsAssumption ==
    /\ Prices \subseteq Nat
    /\ NoPrice \notin [of : Targets, amount : Prices]
    /\ Prefs \subseteq SUBSET Sizes
    /\ Prefs # {}
    /\ Targets # {}
    /\ Tick \notin Forcers
    /\ Edits \subseteq {"target", "size", "enabled"}
    /\ Crashes \in BOOLEAN
    /\ MaxFailures \in Nat

Checkers == {Tick} \cup Forcers

Docs == [sizes : SUBSET Sizes, price : Prices]

\* What a response shows.  An ETag stands for exactly the page it came with.
Pages == [target : Targets, doc : Docs]

ASSUME SentinelAssumption == NoTag \notin Pages

ASSUME ShownAssumption == Shown \subseteq Docs

Rows == [target   : Targets,
         size     : Prefs,
         enabled  : BOOLEAN,
         due      : BOOLEAN,          \* next_check_at has passed
         state    : States,           \* last_state
         failures : Nat,              \* consecutive_failures
         etag     : Pages \cup {NoTag},
         price    : [of : Targets, amount : Prices] \cup {NoPrice},
         alerted  : BOOLEAN]          \* last_alert_at is set

Outcomes == {"ok", "not_modified", "failed", "rate_limited"}

Answers == [outcome : {"ok", "not_modified"}, page : Pages]
           \cup [outcome : {"failed", "rate_limited"}, page : {NoPage}]

Alerts == [kind : Kinds, page : Pages \cup {NoPage}]

VARIABLES
    store,      \* what each product's page shows now
    alive,      \* the row exists
    row,        \* the row (its last content once deleted)
    events,     \* the row each check has inserted and not yet marked notified
    pc,         \* where each check is
    snap,       \* the copy of the row each check was handed
    answer,     \* what strategies.check returned to it
    queue,      \* the alerts it has decided on and not yet recorded
    gone,       \* history: the product has left stock since the last restock alert
    failrun     \* history: failed checks in a row, counted up to Threshold

jobVars   == <<pc, snap, answer, queue>>
ghostVars == <<gone, failrun>>
vars      == <<store, alive, row, events, jobVars, ghostVars>>

-----------------------------------------------------------------------------
JobsOK ==
    /\ pc \in [Checkers -> {"idle", "fetching", "folding", "emitting", "sending"}]
    /\ snap \in [Checkers -> Rows \cup {NoRow}]
    /\ answer \in [Checkers -> Answers \cup {NoAnswer}]
    /\ queue \in [Checkers -> Seq(Alerts)]
    /\ \A c \in Checkers :
        /\ pc[c] # "idle" => snap[c] \in Rows
        /\ pc[c] = "folding" => answer[c] \in Answers
        /\ pc[c] = "emitting" => queue[c] # << >>

\* The shape of the state: a running check holds a copy of the row, one that
\* folds holds an answer, and one that alerts has something to say.
TypeOK ==
    /\ store \in [Targets -> Docs]
    /\ alive \in BOOLEAN
    /\ row \in Rows
    /\ events \in [Checkers -> Alerts \cup {NoAlert}]
    /\ gone \in BOOLEAN
    /\ failrun \in 0..Threshold
    /\ JobsOK

NewRow(t, s) ==
    [target |-> t, size |-> s, enabled |-> TRUE, due |-> TRUE,
     state |-> "unknown", failures |-> 0, etag |-> NoTag, price |-> NoPrice,
     alerted |-> FALSE]

Init ==
    /\ store \in [Targets -> Shown]
    /\ alive = TRUE
    /\ \E t \in Targets, s \in Prefs : row = NewRow(t, s)
    /\ events = [c \in Checkers |-> NoAlert]
    /\ pc = [c \in Checkers |-> "idle"]
    /\ snap = [c \in Checkers |-> NoRow]
    /\ answer = [c \in Checkers |-> NoAnswer]
    /\ queue = [c \in Checkers |-> << >>]
    /\ gone = TRUE
    /\ failrun = 0

PageOf(t) == [target |-> t, doc |-> store[t]]

InStockNow == Reads(store[row.target], row.size) = "in_stock"

-----------------------------------------------------------------------------
(* The world: the store sells and restocks, time passes. *)

StoreChanges(t, d) ==
    /\ d # store[t]
    /\ store' = [store EXCEPT ![t] = d]
    /\ gone' = (gone \/ (t = row.target /\ Reads(d, row.size) # "in_stock"))
    /\ UNCHANGED <<alive, row, events, jobVars, failrun>>

BecomesDue ==
    /\ alive /\ ~row.due
    /\ row' = [row EXCEPT !.due = TRUE]
    /\ UNCHANGED <<store, alive, events, jobVars, ghostVars>>

-----------------------------------------------------------------------------
(* A check: start on a copy, ask the store, fold, then alert by alert. *)

\* The copy's own next_check_at is never read again.
Start(c) ==
    /\ pc[c] = "idle"
    /\ alive
    /\ c = Tick => row.enabled /\ row.due
    /\ pc' = [pc EXCEPT ![c] = "fetching"]
    /\ snap' = [snap EXCEPT ![c] = [row EXCEPT !.due = TRUE]]
    /\ UNCHANGED <<store, alive, row, events, answer, queue, ghostVars>>

\* The store may answer a matching validator with 304, or in full regardless.
Answer(c, outcome) ==
    /\ pc[c] = "fetching"
    /\ outcome = "not_modified" => snap[c].etag = PageOf(snap[c].target)
    /\ outcome = "failed" => snap[c].failures < MaxFailures
    /\ pc' = [pc EXCEPT ![c] = "folding"]
    /\ answer' = [answer EXCEPT ![c] =
                    [outcome |-> outcome,
                     page    |-> IF outcome \in {"ok", "not_modified"}
                                 THEN PageOf(snap[c].target) ELSE NoPage]]
    /\ UNCHANGED <<store, alive, row, events, snap, queue, ghostVars>>

\* The check is over: it returned, or an exception ended it.
Finished(c) ==
    /\ pc' = [pc EXCEPT ![c] = "idle"]
    /\ snap' = [snap EXCEPT ![c] = NoRow]
    /\ answer' = [answer EXCEPT ![c] = NoAnswer]
    /\ queue' = [queue EXCEPT ![c] = << >>]

\* The alerts still to be recorded; when there are none, the check returns.
Continue(c, rest) ==
    IF rest = << >>
    THEN Finished(c)
    ELSE /\ pc' = [pc EXCEPT ![c] = "emitting"]
         /\ queue' = [queue EXCEPT ![c] = rest]
         /\ answer' = [answer EXCEPT ![c] = NoAnswer]
         /\ UNCHANGED snap

\* Mutation: the whole copy is saved, edits made meanwhile included.
Folded_WholeCopy(c, decision) ==
    [snap[c] EXCEPT
        !.state    = decision.state,
        !.failures = decision.failures,
        !.price    = decision.price,
        !.due      = FALSE,
        !.enabled  = IF decision.pause THEN FALSE ELSE @,
        !.etag     = IF answer[c].outcome = "ok" THEN answer[c].page ELSE @]

\* The columns update_watch writes; every other one keeps what the row holds.
Folded(c, decision) ==
    [row EXCEPT
        !.state    = decision.state,
        !.failures = decision.failures,
        !.price    = decision.price,
        !.due      = FALSE,
        !.enabled  = IF decision.pause /\ snap[c].enabled THEN FALSE ELSE @,
        !.etag     = IF answer[c].outcome = "ok" THEN answer[c].page ELSE @]

\* The row went while we were away: record_check violates its foreign key.
FoldDeleted(c) ==
    /\ pc[c] = "folding"
    /\ ~alive
    /\ Finished(c)
    /\ UNCHANGED <<store, alive, row, events, ghostVars>>

\* Mutation: the early return of the 429 branch never gives the tick back.
FoldRateLimited_Stuck(c) ==
    /\ pc[c] = "folding"
    /\ alive
    /\ answer[c].outcome = "rate_limited"
    /\ row' = [row EXCEPT !.due = FALSE]
    /\ UNCHANGED <<store, alive, events, jobVars, ghostVars>>

\* A 429 moves the next poll and nothing else.
FoldRateLimited(c) ==
    /\ pc[c] = "folding"
    /\ alive
    /\ answer[c].outcome = "rate_limited"
    /\ row' = [row EXCEPT !.due = FALSE]
    /\ Finished(c)
    /\ UNCHANGED <<store, alive, events, ghostVars>>

Fold(c) ==
    /\ pc[c] = "folding"
    /\ alive
    /\ answer[c].outcome # "rate_limited"
    /\ LET decision == Decision(snap[c], answer[c])
       IN  /\ row' = Folded(c, decision)
           /\ Continue(c, decision.events)
           /\ gone' = IF Says(decision.events, "restock") THEN ~InStockNow ELSE gone
    /\ failrun' = IF answer[c].outcome # "failed" THEN 0
                  ELSE IF failrun < Threshold THEN failrun + 1 ELSE failrun
    /\ UNCHANGED <<store, alive, events>>

\* Only a price drop is ever swallowed, and only if the COPY of the row had
\* alerted before: that alert may or may not lie within the cooldown by now.
Suppress(c) ==
    /\ pc[c] = "emitting"
    /\ Head(queue[c]).kind = "price_drop"
    /\ snap[c].alerted
    /\ Continue(c, Tail(queue[c]))
    /\ UNCHANGED <<store, alive, row, events, ghostVars>>

\* Mutation: foreign keys are not enforced.
Record_NoForeignKey(c) ==
    /\ pc[c] = "emitting"
    /\ events' = [events EXCEPT ![c] = Head(queue[c])]
    /\ queue' = [queue EXCEPT ![c] = Tail(@)]
    /\ pc' = [pc EXCEPT ![c] = "sending"]
    /\ UNCHANGED <<store, alive, row, snap, answer, ghostVars>>

Record(c) ==
    /\ pc[c] = "emitting"
    /\ alive
    /\ events' = [events EXCEPT ![c] = Head(queue[c])]
    /\ queue' = [queue EXCEPT ![c] = Tail(@)]
    /\ pc' = [pc EXCEPT ![c] = "sending"]
    /\ UNCHANGED <<store, alive, row, snap, answer, ghostVars>>

\* insert_event violates its foreign key: the rest of the alerts go with it.
RecordDeleted(c) ==
    /\ pc[c] = "emitting"
    /\ ~alive
    /\ Finished(c)
    /\ UNCHANGED <<store, alive, row, events, ghostVars>>

\* Mutation: the exception of a channel that failed is let through, and ends the
\* loop over the alerts.
Send_FailureEnds(c, delivered) ==
    /\ pc[c] = "sending"
    /\ events' = [events EXCEPT ![c] = NoAlert]
    /\ row' = IF delivered /\ alive THEN [row EXCEPT !.alerted = TRUE] ELSE row
    /\ IF delivered THEN Continue(c, queue[c]) ELSE Finished(c)
    /\ UNCHANGED <<store, alive, ghostVars>>

\* Every channel is tried once; whatever came of it, the row is marked notified
\* and no check touches it again.
Send(c, delivered) ==
    /\ pc[c] = "sending"
    /\ events' = [events EXCEPT ![c] = NoAlert]
    /\ row' = IF delivered /\ alive THEN [row EXCEPT !.alerted = TRUE] ELSE row
    /\ Continue(c, queue[c])
    /\ UNCHANGED <<store, alive, ghostVars>>

Check(c) ==
    \/ Start(c)
    \/ \E outcome \in Outcomes : Answer(c, outcome)
    \/ FoldDeleted(c) \/ FoldRateLimited(c) \/ Fold(c)
    \/ Suppress(c) \/ Record(c) \/ RecordDeleted(c)
    \/ \E delivered \in BOOLEAN : Send(c, delivered)

-----------------------------------------------------------------------------
(* The person: PATCH, arm, delete. *)

\* retarget: the url or target_ref sent differs from the stored one, though it
\* may still name the same product page.  enable: "keep", "on" or "off".
Patch(retarget, t, s, enable) ==
    /\ alive
    /\ row' = [row EXCEPT
                !.target   = IF retarget THEN t ELSE @,
                !.size     = s,
                !.enabled  = IF enable = "keep" THEN @ ELSE enable = "on",
                !.failures = IF retarget \/ enable = "on" THEN 0 ELSE @,
                !.state    = IF retarget THEN "unknown" ELSE @,
                !.due      = retarget \/ s # row.size \/ @]
    /\ gone' = (gone \/ retarget \/ s # row.size)
    /\ UNCHANGED <<store, alive, events, jobVars, failrun>>

Choices(field, all, none) == IF field \in Edits THEN all ELSE none

PatchAny ==
    \E retarget \in Choices("target", BOOLEAN, {FALSE}),
       t \in Targets,
       s \in Choices("size", Prefs, {row.size}),
       enable \in Choices("enabled", {"keep", "on", "off"}, {"keep"}) :
        /\ Edits # {}
        /\ retarget \/ t = row.target
        /\ Patch(retarget, t, s, enable)

\* hot_until, which arming also sets, only shortens the wait for the next poll.
Arm ==
    /\ alive
    /\ row' = [row EXCEPT !.due = TRUE]
    /\ UNCHANGED <<store, alive, events, jobVars, ghostVars>>

\* ON DELETE CASCADE takes the alert history along.
Delete ==
    /\ alive
    /\ alive' = FALSE
    /\ events' = [c \in Checkers |-> NoAlert]
    /\ UNCHANGED <<store, row, jobVars, ghostVars>>

\* DELETE /events wipes the alert history, rows still being delivered included.
ClearEvents ==
    /\ events' = [c \in Checkers |-> NoAlert]
    /\ UNCHANGED <<store, alive, row, jobVars, ghostVars>>

\* The process dies and comes back: the database survives, running checks do not.
Crash ==
    /\ Crashes
    /\ pc' = [c \in Checkers |-> "idle"]
    /\ snap' = [c \in Checkers |-> NoRow]
    /\ answer' = [c \in Checkers |-> NoAnswer]
    /\ queue' = [c \in Checkers |-> << >>]
    /\ events' = [c \in Checkers |-> NoAlert]
    /\ UNCHANGED <<store, alive, row, ghostVars>>

Next ==
    \/ \E t \in Targets, d \in Shown : StoreChanges(t, d)
    \/ BecomesDue
    \/ \E c \in Checkers : Check(c)
    \/ PatchAny \/ Arm \/ Delete \/ ClearEvents \/ Crash

Spec == Init /\ [][Next]_vars
-----------------------------------------------------------------------------
(* Steps the properties speak about *)

Raises(c, kind) ==
    /\ Fold(c)
    /\ Says(queue'[c], kind)

\* A check that reached the store ends, and nobody edited what it looks at.
SettlesUndisturbed(c) ==
    /\ Fold(c)
    /\ answer[c].outcome \in {"ok", "not_modified"}
    /\ snap[c].target = row.target
    /\ snap[c].size = row.size

-----------------------------------------------------------------------------
(* Properties of the tick alone: Forcers = {} *)

\* The stored validator and the stored state always come from one and the same
\* reading, so a 304 that keeps the state keeps the right one.  (Needs a row
\* whose url and size preference are not edited: see the violations.)
EtagSpeaksForState ==
    row.etag # NoTag => row.state = Reads(row.etag.doc, row.size)

\* A watch that is still polled is strictly below the alert threshold, so it
\* has to pass through the crossing before it is paused.
PolledBelowThreshold == row.enabled => row.failures < Threshold

\* A check never pauses a watch in silence: the pause and the watch_failing
\* alert are decided together.
PausesAreAnnounced ==
    [][\A c \in Checkers :
        Fold(c) /\ row.enabled /\ ~row'.enabled => Raises(c, "watch_failing")]_vars

\* watch_failing means Threshold checks in a row really failed, with no
\* successful one in between.
FailingIsEarned ==
    [][\A c \in Checkers : Raises(c, "watch_failing") => failrun' = Threshold]_vars

\* No restock is announced twice: since the last announcement the product must
\* have left stock.
RestockNeedsReturn ==
    [][\A c \in Checkers : Raises(c, "restock") => gone]_vars

\* No restock is swallowed: a row that said "not to be had" never comes to say
\* "in stock" without the alert being decided in the same step.
ReturnIsAnnounced ==
    [][row.state \in {"out_of_stock", "held"} /\ row'.state = "in_stock"
        => \E c \in Checkers : Raises(c, "restock")]_vars

\* After a check that nobody disturbed, the row says what the page showed.
CheckSettlesState ==
    [][\A c \in Checkers : SettlesUndisturbed(c) =>
        row'.state = Reads(answer[c].page.doc, row.size)]_vars

-----------------------------------------------------------------------------
(* Properties with "check now" calls, edits and deletion running alongside *)

\* A check writes its own columns only: it never takes back an edit of what is
\* watched, and it may pause a watch but never resumes one.
ChecksKeepSettings ==
    [][pc' # pc => /\ row'.target = row.target
                   /\ row'.size = row.size
                   /\ row'.enabled => row.enabled]_vars

\* Checks that outlive a deleted watch leave no alert behind.
NoOrphanEvents == ~alive => \A c \in Checkers : events[c] = NoAlert

\* A failed check proves nothing, so it leaves the recorded state alone.
FailureKeepsState ==
    [][\A c \in Checkers :
        Fold(c) /\ answer[c].outcome = "failed" => row'.state = row.state]_vars

\* "Recovered" is only said of a watch that is being polled again.
RecoveredIsPolled ==
    [][\A c \in Checkers : Raises(c, "watch_recovered") => row'.enabled]_vars

\* A price drop compares two prices of one product.
DropComparesOneProduct ==
    [][\A c \in Checkers :
        Raises(c, "price_drop") => snap[c].price.of = answer[c].page.target]_vars

-----------------------------------------------------------------------------
(* Liveness of the tick *)

\* The scheduler fires every few seconds, its steps run to completion, and a
\* store that keeps being asked sooner or later answers.
Fairness ==
    /\ WF_vars(BecomesDue)
    /\ WF_vars(Start(Tick))
    /\ SF_vars(Answer(Tick, "ok") \/ Answer(Tick, "not_modified"))
    /\ WF_vars(\E outcome \in Outcomes : Answer(Tick, outcome))
    /\ WF_vars(FoldDeleted(Tick) \/ FoldRateLimited(Tick) \/ Fold(Tick))
    /\ WF_vars(Suppress(Tick) \/ Record(Tick) \/ RecordDeleted(Tick))
    /\ WF_vars(\E delivered \in BOOLEAN : Send(Tick, delivered))

FairSpec == Spec /\ Fairness

\* The watch is left running and the page stays d from now on.
Steady(t, s, d) ==
    /\ alive /\ row.enabled
    /\ row.target = t /\ row.size = s /\ store[t] = d

\* Once the store stops changing, the row ends up saying what it shows.
StateConverges ==
    \A t \in Targets, s \in Prefs, d \in Shown :
        <>[]Steady(t, s, d) => <>[](row.state = Reads(d, s))

\* The tick's check has decided on an alert that no cooldown can swallow.
Decided(kind) ==
    /\ Says(queue[Tick], kind)
    /\ kind = "price_drop" => ~snap[Tick].alerted

\* Every alert a check decided on gets a row of its own and is tried, though the
\* channels refused the alerts before it, the history is cleared meanwhile and
\* the watch is paused; only a deletion of the watch, or a crash, takes it away.
EveryAlertIsTried ==
    \A kind \in Kinds :
        Decided(kind) ~> (events[Tick] # NoAlert /\ events[Tick].kind = kind) \/ ~alive

=============================================================================
