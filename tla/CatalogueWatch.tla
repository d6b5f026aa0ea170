--------------------------- MODULE CatalogueWatch ---------------------------
(***************************************************************************)
(* A collection watch: its memory of a catalogue, the sweeps that read the *)
(* catalogue page by page, the store that keeps changing meanwhile, and    *)
(* the person who edits the saved search.                                  *)
(*                                                                         *)
(* Time is abstracted to what the code compares.  row.recent holds the     *)
(* handles the store dates after the sweep window's start                  *)
(* (last_sweep_at minus the slack): it grows when the store publishes, and *)
(* a new last_sweep_at may push out any handle but those published since   *)
(* the running sweeps began, the slack being longer than any sweep.        *)
(* lately holds the handles launched less than the cooldown ago.           *)
(*                                                                         *)
(* Failure counting, pausing, deletion and the delivery of an alert are    *)
(* those of every watch: ProductWatch models them.                         *)
(***************************************************************************)
EXTENDS Sweep, Alert, SequencesExt

CONSTANTS
    PageSize,
    MaxPages,
    Tick,
    Forcers,    \* concurrent calls of POST /watches/{id}/check
    StoreLooks, \* bound: the looks the store's products take
    StoreDates, \* bound: the dates they carry
    Searches,   \* bound: the saved searches the person sets
    Gated,      \* whether products.json may fail, leaving the Atom feed
    Reshelves,  \* whether a product may leave the shelf while a sweep pages on
    Retargets,  \* whether the person respells the watched url
    Crashes,    \* whether the process may die and restart
    SlowStart,  \* whether the first complete sweep may take longer than the slack
    NoTag

ASSUME ConstantsAssumption ==
    /\ PageSize \in Nat \ {0}
    /\ MaxPages \in Nat \ {0}
    /\ StoreLooks \subseteq Looks
    /\ StoreDates \subseteq Dates
    /\ Searches \subseteq Filters
    /\ Everything \notin [names : SUBSET Handles, in_stock : BOOLEAN]
    /\ \A S \in SUBSET Handles : NoBaseline # S
    /\ NoEntry \notin Entries
    /\ {Gated, Reshelves, Retargets, Crashes, SlowStart} \subseteq BOOLEAN

Checkers == {Tick} \cup Forcers

\* An ETag stands for the exact content of page one.
Tags == UNION {[1..n -> Handles \X Items] : n \in 0..PageSize}

ASSUME SentinelAssumption == NoTag \notin Tags

Rows == [baseline : {NoBaseline} \cup SUBSET Handles,
         ledger   : Ledgers,
         wanted   : Filters,
         etag     : {NoTag} \cup Tags,
         swept    : BOOLEAN,            \* last_sweep_at is set
         recent   : SUBSET Handles]

NewRow(wanted) ==
    [baseline |-> NoBaseline, ledger |-> EmptyLedger, wanted |-> wanted,
     etag |-> NoTag, swept |-> FALSE, recent |-> {}]

VARIABLES
    shelf,      \* the handles the catalogue lists, in its order
    goods,      \* how each of them looks and is dated
    row,
    job,        \* per checker: the sweep it is running
    lately,     \* the handles launched within the cooldown
    covered,    \* history: the watch has succeeded since its url was last set
    owed,       \* history: published under that cover, and not announced yet
    seen,       \* history: shown by some finished read since the last first sweep
    sold,       \* history: stated on sale by some finished read since then
    outage,     \* history: not to be had at some time since last read on sale
    news        \* history: announced as buyable within the cooldown

world  == <<shelf, goods>>
ghosts == <<covered, owed, seen, sold, outage, news>>
vars   == <<world, row, job, lately, ghosts>>

\* w: the copy of the row the sweep was handed; during: published since then;
\* tag: the validator of page one; whole: not truncated.
Jobs == [at     : {"idle", "first", "more", "atom", "unchanged", "folding", "telling"},
         w      : Rows,
         during : SUBSET Handles,
         page   : Nat,
         read   : UNION {[S -> Seen] : S \in SUBSET Handles},
         tag    : {NoTag} \cup Tags,
         whole  : BOOLEAN,
         drops  : Seq(Drops)]

Idle == [at |-> "idle", w |-> NewRow(Everything), during |-> {}, page |-> 0,
         read |-> << >>, tag |-> NoTag, whole |-> FALSE, drops |-> << >>]

\* The shape of the state; the shelf lists a handle once, and a sweep that is
\* announcing has something to announce.
TypeOK ==
    /\ shelf \in Seq(Handles) /\ IsInjective(shelf)
    /\ goods \in [Handles -> Items]
    /\ row \in Rows
    /\ job \in [Checkers -> Jobs]
    /\ \A c \in Checkers : job[c].at = "telling" => job[c].drops # << >>
    /\ covered \in BOOLEAN
    /\ \A set \in {lately, owed, seen, sold, outage, news} : set \subseteq Handles

Listed == Range(shelf)

OnSale(item) == item.look \in {"on_sale", "unflagged"}

\* What a product off the shelf looks like does not matter.
Offshelf == [look |-> "bare", dates |-> "undated"]

Init ==
    /\ \E S \in SUBSET Handles : IsFiniteSet(S) /\ shelf \in SetToSeqs(S)
    /\ goods \in [Handles -> [look : StoreLooks, dates : StoreDates] \cup {Offshelf}]
    /\ \A h \in Handles : goods[h] = Offshelf <=> h \notin Listed
    /\ \E wanted \in Searches, recent \in SUBSET Listed :
        row = [NewRow(wanted) EXCEPT !.recent = recent]
    /\ job = [c \in Checkers |-> Idle]
    /\ covered = FALSE
    /\ outage = {h \in Listed : ~OnSale(goods[h])}
    /\ lately = {} /\ owed = {} /\ seen = {} /\ sold = {} /\ news = {}

-----------------------------------------------------------------------------
(* The store and the clock *)

Running == {c \in Checkers : job[c].at \in {"first", "more", "atom", "unchanged", "folding"}}

\* A product appears at either end of the listing.
Publish(h, look, dates) ==
    /\ h \notin Listed
    /\ shelf' \in {<<h>> \o shelf, Append(shelf, h)}
    /\ goods' = [goods EXCEPT ![h] = [look |-> look, dates |-> dates]]
    /\ row' = [row EXCEPT !.recent = @ \cup {h}]
    /\ job' = [c \in Checkers |->
                IF c \in Running THEN [job[c] EXCEPT !.during = @ \cup {h}] ELSE job[c]]
    /\ owed' = IF covered /\ h \notin seen THEN owed \cup {h} ELSE owed
    /\ outage' = IF look \in {"on_sale", "unflagged"} THEN outage ELSE outage \cup {h}
    /\ UNCHANGED <<lately, covered, seen, sold, news>>

Unlist(h) ==
    /\ Reshelves \/ \A c \in Checkers : job[c].at # "more"
    /\ \E i \in DOMAIN shelf : shelf[i] = h /\ shelf' = RemoveAt(shelf, i)
    /\ goods' = [goods EXCEPT ![h] = Offshelf]
    /\ UNCHANGED <<row, job, lately, ghosts>>

Restyle(h, look) ==
    /\ h \in Listed
    /\ goods[h].look # look
    /\ goods' = [goods EXCEPT ![h].look = look]
    /\ outage' = IF look \in {"on_sale", "unflagged"} THEN outage ELSE outage \cup {h}
    /\ UNCHANGED <<shelf, row, job, lately, covered, owed, seen, sold, news>>

\* Until a first sweep is recorded the window is measured back from now.
AgeOut(h) ==
    /\ ~row.swept
    /\ covered => SlowStart
    /\ h \in row.recent
    /\ \A c \in Checkers : h \notin job[c].during
    /\ row' = [row EXCEPT !.recent = @ \ {h}]
    /\ UNCHANGED <<world, job, lately, ghosts>>

\* An hour has passed since the last alert about h.
Cool(h) ==
    /\ h \in news
    /\ news' = news \ {h}
    /\ lately' = lately \ {h}
    /\ UNCHANGED <<world, row, job, covered, owed, seen, sold, outage>>

-----------------------------------------------------------------------------
(* A sweep: page after page, then fold, then announce *)

ItemsOn(k) == {shelf[i] : i \in DOMAIN shelf \cap ((k - 1) * PageSize + 1)..(k * PageSize)}

FullPage(k) == Cardinality(ItemsOn(k)) = PageSize

PageOneTag == [i \in 1..Cardinality(ItemsOn(1)) |-> <<shelf[i], goods[shelf[i]]>>]

\* Mutation: the validator of page one is trusted for the whole catalogue.
MultiPage_Never(w) == FALSE

\* Read off the baseline, so it errs toward reading everything.
MultiPage(w) == w.baseline # NoBaseline /\ Cardinality(w.baseline) >= PageSize

\* What is read first wins; a page may repeat what another one showed.
ReadInto(read, handles) ==
    [h \in DOMAIN read \cup handles |-> IF h \in DOMAIN read THEN read[h] ELSE goods[h]]

Start(c) ==
    /\ job[c].at = "idle"
    /\ job' = [job EXCEPT ![c] = [Idle EXCEPT !.at = "first", !.w = row]]
    /\ UNCHANGED <<world, row, lately, ghosts>>

\* A 429 for the first request changes nothing that is remembered.
RateLimited(c) ==
    /\ job[c].at = "first"
    /\ job' = [job EXCEPT ![c] = Idle]
    /\ UNCHANGED <<world, row, lately, ghosts>>

\* Neither the catalogue nor its fallback could be read, or reading it raised:
\* the baseline the sweep was handed is written back.
Fail(c) ==
    /\ job[c].at \in {"first", "more", "atom"}
    /\ row' = [row EXCEPT !.baseline = IF job[c].w.baseline = NoBaseline
                                       THEN @ ELSE job[c].w.baseline]
    /\ job' = [job EXCEPT ![c] = Idle]
    /\ UNCHANGED <<world, lately, ghosts>>

NotModified(c) ==
    /\ job[c].at = "first"
    /\ ~MultiPage(job[c].w)
    /\ job[c].w.etag = PageOneTag
    /\ job' = [job EXCEPT ![c].at = "unchanged"]
    /\ UNCHANGED <<world, row, lately, ghosts>>

\* The sweep after page k: it pages on until a short page; a full page at the
\* cap means there is more.
PageRead(c, k) ==
    [job[c] EXCEPT !.at    = IF FullPage(k) /\ k < MaxPages THEN "more" ELSE "folding",
                   !.page  = k,
                   !.read  = ReadInto(@, ItemsOn(k)),
                   !.tag   = IF k = 1 THEN PageOneTag ELSE @,
                   !.whole = ~FullPage(k)]

ReadPage(c, k) == job' = [job EXCEPT ![c] = PageRead(c, k)]

ReadFirst(c) ==
    /\ job[c].at = "first"
    /\ ReadPage(c, 1)
    /\ UNCHANGED <<world, row, lately, ghosts>>

ReadNext(c) ==
    /\ job[c].at = "more"
    /\ ReadPage(c, job[c].page + 1)
    /\ UNCHANGED <<world, row, lately, ghosts>>

\* Mutation: a page that could not be read is taken for an empty one.
Cut_Whole(c) ==
    /\ job[c].at = "more"
    /\ job' = [job EXCEPT ![c] = [@ EXCEPT !.at = "folding", !.whole = TRUE]]
    /\ UNCHANGED <<world, row, lately, ghosts>>

\* A later page is refused: what was read so far is all there is.
Cut(c) ==
    /\ job[c].at = "more"
    /\ job' = [job EXCEPT ![c] = [@ EXCEPT !.at = "folding", !.whole = FALSE]]
    /\ UNCHANGED <<world, row, lately, ghosts>>

Blocked(c) ==
    /\ Gated
    /\ job[c].at = "first"
    /\ job' = [job EXCEPT ![c].at = "atom"]
    /\ UNCHANGED <<world, row, lately, ghosts>>

ReadAtom(c) ==
    /\ job[c].at = "atom"
    /\ job' = [job EXCEPT ![c] =
                [@ EXCEPT !.at = "folding", !.whole = TRUE, !.tag = NoTag,
                          !.read = [h \in Listed |-> AtomItem(goods[h])]]]
    /\ UNCHANGED <<world, row, lately, ghosts>>

\* A new last_sweep_at: the window closes over anything older than the slack.
Stamped(recent) ==
    LET young == UNION {job[c].during : c \in Running}
    IN  {young \cup old : old \in SUBSET (recent \ young)}

\* A 304: the copied baseline is written back, and the sweep is stamped.
FoldUnchanged(c) ==
    /\ job[c].at = "unchanged"
    /\ \E recent \in Stamped(row.recent) :
        row' = [row EXCEPT
                 !.baseline = IF job[c].w.baseline = NoBaseline THEN @ ELSE job[c].w.baseline,
                 !.swept    = TRUE,
                 !.recent   = recent]
    /\ job' = [job EXCEPT ![c] = Idle]
    /\ covered' = TRUE
    /\ UNCHANGED <<world, lately, owed, seen, sold, outage, news>>

Told(drops) == UNION {drops[i].handles : i \in DOMAIN drops}

TellsLaunch(drops) ==
    UNION {drops[i].handles : i \in {j \in DOMAIN drops : drops[j].arrival = "launched"}}

Outcome(c) ==
    OnSweep([baseline |-> job[c].w.baseline, ledger |-> job[c].w.ledger,
             wanted |-> job[c].w.wanted],
            job[c].read, job[c].w.recent \cup job[c].during, lately)

\* Handles the sweep showed as buyable: told of them, or not interested.
Settled(c) ==
    LET read == job[c].read
    IN  {h \in DOMAIN read :
            \/ h \in Told(Outcome(c).drops)
            \/ /\ read[h].look \in {"on_sale", "unflagged"}
               /\ ~Matches(h, read[h], job[c].w.wanted)}

\* A sweep with nothing left to say is over.
Announcing(drops) ==
    IF drops = << >> THEN Idle ELSE [Idle EXCEPT !.at = "telling", !.drops = drops]

Fold(c) ==
    /\ job[c].at = "folding"
    /\ \E recent \in IF job[c].whole THEN Stamped(row.recent) ELSE {row.recent} :
        row' = [row EXCEPT
                 !.baseline = Outcome(c).baseline,
                 !.ledger   = Outcome(c).ledger,
                 !.etag     = job[c].tag,
                 !.swept    = @ \/ job[c].whole,
                 !.recent   = recent]
    /\ job' = [job EXCEPT ![c] = Announcing(Outcome(c).drops)]
    /\ lately' = lately \cup TellsLaunch(Outcome(c).drops)
    /\ covered' = TRUE
    /\ owed' = owed \ Settled(c)
    /\ LET read   == job[c].read
           stated == {h \in DOMAIN read : read[h].look = "on_sale"}
           anew   == job[c].w.baseline = NoBaseline
       IN  /\ seen' = DOMAIN read \cup IF anew THEN {} ELSE seen
           /\ sold' = stated \cup IF anew THEN {} ELSE sold
           /\ outage' = (outage \ stated) \cup {h \in Listed : ~OnSale(goods[h])}
           /\ news' = news \cup {h \in Told(Outcome(c).drops) :
                                    read[h].look \in {"on_sale", "unflagged"}}
    /\ UNCHANGED world

\* One alert is recorded and sent; for a drop the product pages are asked first.
Tell(c) ==
    /\ job[c].at = "telling"
    /\ job' = [job EXCEPT ![c] = Announcing(Tail(@.drops))]
    /\ UNCHANGED <<world, row, lately, ghosts>>

Check(c) ==
    \/ Start(c) \/ RateLimited(c) \/ Fail(c) \/ NotModified(c) \/ ReadFirst(c)
    \/ ReadNext(c) \/ Cut(c) \/ Blocked(c) \/ ReadAtom(c) \/ FoldUnchanged(c) \/ Fold(c) \/ Tell(c)

-----------------------------------------------------------------------------
(* The person and the process *)

\* Narrowing or widening the saved search changes what is said, not what is
\* remembered.
SetFilter(wanted) ==
    /\ wanted # row.wanted
    /\ row' = [row EXCEPT !.wanted = wanted]
    /\ UNCHANGED <<world, job, lately, ghosts>>

\* The url is respelled: the baseline goes, ledger, validator and window stay.
Retarget ==
    /\ Retargets
    /\ row' = [row EXCEPT !.baseline = NoBaseline]
    /\ covered' = FALSE
    /\ owed' = {}
    /\ UNCHANGED <<world, job, lately, seen, sold, outage, news>>

Crash ==
    /\ Crashes
    /\ job' = [c \in Checkers |-> Idle]
    /\ UNCHANGED <<world, row, lately, ghosts>>

StoreMoves ==
    \E h \in Handles :
        \/ \E look \in StoreLooks, dates \in StoreDates : Publish(h, look, dates)
        \/ Unlist(h)
        \/ \E look \in StoreLooks : Restyle(h, look)

Next ==
    \/ StoreMoves
    \/ \E h \in Handles : AgeOut(h) \/ Cool(h)
    \/ \E c \in Checkers : Check(c)
    \/ \E wanted \in Searches : SetFilter(wanted)
    \/ Retarget \/ Crash

Spec == Init /\ [][Next]_vars
-----------------------------------------------------------------------------
(* Properties of sweeps that the tick runs alone *)

\* Whatever the feed drops and shows again, whatever filter is set, however the
\* url is respelled in mid-sweep and whichever sweeps then fail, no handle that
\* a finished read has shown, since the watch last started a baseline, is ever
\* announced as an arrival.
ArrivalsAreUnseen ==
    [][\A c \in Checkers : Fold(c) =>
        (Told(Outcome(c).drops) \ TellsLaunch(Outcome(c).drops)) \cap seen = {}]_vars

\* No release is absorbed in silence.  A product published while the watch was
\* working is announced by the first read that shows it on sale and that the
\* saved search wants, if it has not been announced before: pages cut short,
\* validators that speak for one page, products first met unbuyable, undated,
\* half-built, relisted or through the Atom feed included.
ReleasesAreSpoken ==
    [][\A c \in Checkers : Fold(c) =>
        \A h \in owed \cap DOMAIN job[c].read :
            LET item == job[c].read[h]
            IN  item.look = "on_sale" /\ Matches(h, item, job[c].w.wanted)
                    => h \in Told(Outcome(c).drops)]_vars

\* What the words of an alert say of the products it names.
Says(headline, drop, read) ==
    CASE headline = "released"      -> drop.handles \cap sold = {}
      [] headline = "some_released" -> /\ drop.debut \cap sold = {}
                                       /\ drop.handles \ drop.debut \subseteq sold
      [] headline = "back"          -> drop.handles \subseteq sold
      [] headline = "early"         -> \A h \in drop.handles : OnSale(read[h])
      [] headline = "new"           -> \A h \in drop.handles : read[h].dates = "new"
      [] headline = "relisted"      -> \A h \in drop.handles : read[h].dates = "relisted"
      [] headline = "unconfirmed"   -> \A h \in drop.handles : read[h].dates = "undated"

\* An alert says what is.  Whatever the product pages answer, "released" is
\* said of products no sweep since the first has stated on sale, "back in
\* stock" of products one did, both only of products that were not to be had in
\* between, and
\* "just listed" and "relisted" of what the store's dates show to be so.
WordsAreTrue ==
    [][\A c \in Checkers : Fold(c) =>
        \A i \in DOMAIN Outcome(c).drops :
            LET drop == Outcome(c).drops[i]
            IN  /\ drop.arrival = "launched" => drop.handles \subseteq outage
                /\ \A pages \in AskThePages(drop, job[c].read) :
                        Says(Headline(drop, pages), drop, job[c].read)]_vars

\* A launch is not repeated for the same product within the hour.
LaunchesAreSpaced ==
    [][\A c \in Checkers : Fold(c) => TellsLaunch(Outcome(c).drops) \cap lately = {}]_vars

\* One release is one alert: nothing that was announced as buyable within the
\* hour is announced as a launch.
ReleaseIsToldOnce ==
    [][\A c \in Checkers : Fold(c) => TellsLaunch(Outcome(c).drops) \cap news = {}]_vars

\* Once the url has changed, the next sweep starts a baseline of its own.
RebaselineStartsOver ==
    [][\A c \in Checkers : Fold(c) /\ row.baseline = NoBaseline =>
        row'.baseline = DOMAIN job[c].read]_vars

-----------------------------------------------------------------------------
(* Liveness of the tick's sweeps *)

\* Every step of a sweep is eventually taken, and a store that keeps being
\* asked answers each request in full again and again.
Fairness ==
    /\ WF_vars(Start(Tick))
    /\ WF_vars(RateLimited(Tick) \/ Fail(Tick) \/ NotModified(Tick) \/ ReadFirst(Tick)
               \/ Blocked(Tick) \/ ReadAtom(Tick))
    /\ SF_vars(NotModified(Tick) \/ ReadFirst(Tick))
    /\ SF_vars(ReadNext(Tick))
    /\ WF_vars(ReadNext(Tick) \/ Cut(Tick) \/ Fail(Tick))
    /\ WF_vars(FoldUnchanged(Tick) \/ Fold(Tick))
    /\ WF_vars(Tell(Tick))

FairSpec == Spec /\ Fairness

\* A release that stays on the shelf and on sale, and stays wanted, is
\* announced in the end.
ReleaseIsAnnounced ==
    \A h \in Handles :
        [](h \in owed => /\ h \in Listed /\ goods[h].look = "on_sale"
                         /\ row.wanted = Everything)
            => (h \in owed ~> h \notin owed)
=============================================================================
