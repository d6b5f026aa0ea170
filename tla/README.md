# A TLA+ development of restock

restock watches shops: it polls product pages and whole catalogues, folds what
it reads into a small SQLite row per watch, and tells one person, over Telegram
and ntfy, when something comes into stock or appears. This directory models the
parts of it where a wrong order of events costs a missed or a repeated alert,
checks them with TLC and proves the most important results with TLAPS.

Everything runs with `tlc -config X.cfg MCModule.tla` and
`tlapm Module_proofs.tla`; `PROJECT.json` holds the list of runs, of mutants, of
hazards and the source lines each definition stands for.

## The system

| Component | State it keeps | Operations | What is hard | What makes it correct |
|---|---|---|---|---|
| Product state machine (`statemachine.py`) | none, pure | `decide` for a product page | failures, 304s, "held" readings and unknown states in between | an alert per transition, none per condition; the failing alert exactly at the crossing |
| Catalogue state machine (`statemachine.py`, `filters.py`) | none, pure | `_decide_collection`, the availability ledger, `classify_arrival` | absence is not evidence, missing flags, half-built listings, dates that are missing or old | nothing known is announced as new, no release is absorbed in silence |
| A check (`scheduler.py: check_watch`, `_emit`) | the `watches` row, `events` rows | fetch, fold, write, record, send | not atomic: works on a copy of the row across awaits | takes no edit back, loses no decided alert |
| A sweep (`strategies/shopify.py`, `scheduler.py`) | `baseline_json`, `availability_json`, `etag`, `last_sweep_at` | read page after page, fall back to the Atom feed | the store changes while the sweep pages, a page is refused, a 304 speaks for page one | the sweep window closes only over what was read |
| Cadence (`statemachine.py: adapt_interval`) | `base_interval_s`, `next_check_at`, `hot_until` | learn from each answer, jitter, arm, set a tier | column written back from a copy | bounded, heeds a 429, recovers |
| The tick (`scheduler.py: tick`, `db.py: due_watches`) | a lock, a semaphore | claim the oldest due watches, run them together, ping | skipped ticks, a slot limit, check-now beside it | no overlap, no starvation, an honest heartbeat |
| Alert history (`db.py`, `routes/events.py`) | `events.payload_json` | prune one product, delete, clear | two devices at once | a compare-and-swap that loses no dismissal |
| Telegram commands (`telegram_bot.py`) | `tg_offset` | long poll, dispatch, reply | restart or failed reply between offset and command | at most once, in order, none passed over |
| Saved search and stars (`telegram_bot.py`, `routes/watches.py`) | `filter_json` | read, change, write back; read off a url | two questions share one column, chat and routes both write it | each question keeps its last answer |
| Address detection (`strategies/__init__.py`, `routes/detect.py`) | none that outlives a request | follow a share link, ask the strategies in turn | links that loop, pages several strategies can read, a site that changes meanwhile | every address is answered, none is taken for what it is not |
| Strategies (`target.py`, `bestbuy.py`, `announce.py`, `retail.py`, `shopify.py`) | none | `detect`, `check` | error pages with status 200, bodies of another shape | what detection promises checking keeps; silence is not news |
| Alert words (`notify/telegram.py`, `scheduler.py: _ask_the_pages`) | none | ask up to three product pages, choose the headline | pages that contradict the feed, one headline for several products | what an alert says is so |
| Sign-in link (`security.py`, `db.py: kv_claim`) | one nonce | issue, redeem | old and new links opened in any order, replies lost, restarts | a link opens one session, the newest one works, no other does |
| Fetcher (`fetcher.py`) | per host a semaphore, a lock, the time of the last request | space requests, retry | sleeps under the lock while holding a slot, retries queue again | requests keep their distance and their number, every fetch ends |
| Auto-deploy (`autodeploy.sh`) | the checkout, the installed requirements, a mark of the failed commit | fetch, reset, install, test, restart, roll back | killed in between, the service respawned in between, a failing rollback | what runs was tested, a rollback is whole, a failure is told once |
| Everything else | none that outlives a request | parsers, diagnostics, dashboard, proxy, scripts | | left out, see the last section |

They interact through the database and one event loop. The tick and the "check
now" route both run `check_watch`; the latter does so outside the tick's lock.
The edit, arm and delete routes run in worker threads, so they may come between
any two awaits of a check. `check_watch` calls a strategy, hands its result to
`decide`, writes the row back and then records and sends the alerts, one await
after another.

## The modules

| Module | Models | Actions and the code |
|---|---|---|
| `Decide` | `decide` for a product watch | pure operators: `OnFailure`, `OnNotModified`, `OnPage`, `IsRestock`, `Decision` |
| `ProductWatch` | one product watch: its row, its checks, its person, its store | `Start` (claim and copy), `Answer` (the strategy returns), `Fold`, `FoldRateLimited`, `FoldDeleted` (the write after the await), `Suppress`, `Record`, `RecordDeleted`, `Send` (`_emit`), `PatchAny`, `Arm`, `Delete`, `ClearEvents`, `Crash` |
| `Sweep` | `_decide_collection` | `Arrival`, `WorthWaking`, `FoldLedger`, `Launched`, `OnSweep` |
| `Alert` | the headline of an alert about products, and the pages asked before it | pure operators: `AskThePages`, `Headline` |
| `CatalogueWatch` | one collection watch | `ReadFirst`, `ReadNext`, `Cut`, `NotModified`, `Blocked`, `ReadAtom`, `RateLimited`, `Fail` (the strategy and what `check_watch` makes of a refusal), `Fold`, `FoldUnchanged`, `Tell`, `SetFilter`, `Retarget`, `Crash`; `Publish`, `Unlist`, `Restyle` (the store), `AgeOut`, `Cool` (the clock) |
| `PollClock` | the cadence of one watch | `Start`, `Finish`, `SetTier`, `Arm`, `Disarm`, `ComesDue` |
| `Polling` | the tick over all watches | `BeginTick`, `EmptyTick`, `EndTick`, `ForceCheck`, `Admit`, `Answered`, `Return`, `Hurry`, `Create`, `SetEnabled`, `Delete`, `Outage` |
| `Dismissals` | what the alert history promises | `Ask`, then `TakeOut` or `Miss` in one step; `Wipe` |
| `EventItems` | `drop_event_item` attempt by attempt | `Call`, `Read`, `ReadMissing`, `Write`, `LoseRace`, `Wipe`; implements `Dismissals` |
| `TelegramBot` | the command loop | `Receive`, `PollFails`, `Retry`, `TakeUp`, `BatchDone`, `Handle`, `Reply`, `ReplyFails`, `Arrives`, `Crash` |
| `LoginLink` | the one-tap sign-in | `Issue` (`/login`), `Tap` (the route with `kv_claim`), `Expire`, over the steps of `TelegramBot` |
| `Fetcher` | `DomainLimiter` and `fetch` for one host | `Call`, `Acquire`, `Enter`, `Paced` (`__aenter__`), `Settle`, `Rest`, `Again` (the attempts), `Passes` (time) |
| `AutoDeploy` | `autodeploy.sh` and what surrounds it | `Update`, `Install`, `InstallFails`, `Test`, `Refuse`, `Restart`, `Healthy`, `Unhealthy`, `Reset`, `Restore`, `Return`, `Mark`, `Tell` (the script, in its order); `Push`, `Kill`, `Respawn` (the world) |
| `Readings` | what each strategy makes of an address (`detect`) and of what its site answers (`check`) | pure operators: `ShopifyDetect`, `RetailDetect`, ..., `DetectOrder`; `ShopifyListingCheck`, `TargetCheck`, ..., `Reading` |
| `Watchlist` | how a watch comes to be and what it is told to look for | `Paste`, `FollowHop`, `Unwrap`, `Arrive`, `ShareLinkError` (`resolve_share_link`), `Sniff`, `Decline`, `Add`, `AddPinned` (`detect`, `/add`, `/check`, POST `/watches`, POST `/detect`), `Hear` and `Obey` (`/filter`, `/star`), `PatchFilter`, `PatchUrl`, `SiteMoves`, `Crash` |
| `ProductWatch_proofs`, `CatalogueWatch_proofs`, `PollClock_proofs`, `EventItems_proofs`, `AutoDeploy_proofs`, `Watchlist_proofs`; `LoginLink_proofs` (with `TelegramBot`), `Load_proofs` (`Polling` and `Fetcher`) | theorems | |
| `MC*` | instances for TLC | |

`ProductWatch` extends `Decide`, `CatalogueWatch` extends `Sweep` and `Alert`,
`Watchlist` extends `Readings`, `LoginLink` extends `TelegramBot`, `EventItems`
instantiates `Dismissals`. The three models of a single watch under way look at different columns of one row. `ProductWatch` carries
what every watch shares (failures, pausing, deletion, recording and sending
alerts); `CatalogueWatch` and `PollClock` leave that out and add what is theirs.
`Polling` reduces a check to whether it reached its store.

### How the code is abstracted

- *A check* is split where it awaits: before the request, after it, and at each
  alert. What runs between two awaits is one action. A running check carries a
  copy of the row (`snap`, `job[c].w`), as the function carries the `sqlite3.Row`
  it was handed, and writes only the columns that `update_watch` is given.
- *A page* is what a buyer of some sizes would see of it, and a price. Its ETag is
  the page itself: a store sends 304 only for the very page it sent before, and it
  may send the page in full regardless.
- *A catalogue entry* is a look (`on_sale`, `sold_out`, `staged`, `unflagged`,
  `bare`, or `atom` when read through the feed that carries no variants) and a
  dating (`new`, `relisted`, `undated`).
- *Time* is what the code compares. `due` means `next_check_at` has passed. The
  sweep window is the set `recent` of handles the store dates after its start; a
  new `last_sweep_at` may push any handle out of it but those published since the
  running sweeps began, the slack being longer than a sweep. `lately` is the set
  of handles launched less than the cooldown ago. In `PollClock` intervals are
  seconds, with the program's own numbers, and jitter a percentage.
- *History variables* (`gone`, `failrun`; `covered`, `owed`, `seen`, `sold`,
  `outage`, `news`; `lost`; `tested`, `told`, `mishaps`; `hops`, `fresh`,
  `meant`) only serve properties. No guard reads them but two: `AgeOut`'s, which uses `covered` to say that the first
  complete read of a catalogue takes no longer than the slack (`SlowStart` lifts
  that), and `SiteMoves`', which lets a site move once after a watch is made: what is
  read depends on the row and the site alone, so one move shows all of it.
  `seen` and `sold` start anew with the first sweep that finds no baseline, as the
  memory of the watch itself does: "new" and "first time on sale" are said since then.
- *An address* in `Watchlist` is what detection reads of it: whose host it is, what
  its path is the path of, whether a locale stands before that (Shopify finds
  `/collections/` anywhere in a path, retail looks at the first segment), the name in
  it and the facets in its query. *A site* is what its host answers at each of five
  endpoints, and *a body* what the parsers tell apart: an error, a rate limit, a page
  for people that is well-formed XML or not, one that is not and mentions a feed
  (`torn`) or is and mentions one (`wrapped`), Atom, RSS, JSON of one shape or another,
  a page with a product on it, with several, or one that calls itself a listing. Detection by one
  strategy is one step, with the site as it is at that step; between two strategies
  the site may change. *A wish* is what the body of a POST says of the watch itself:
  its kind and its `target_ref`, or nothing of either.
- *The setting of a search or a star* is whether its key is there; `/filter` and
  `/star` change keys of one kind, PATCH the whole column.
- *A link* in `LoginLink` is named by the update that asked for it; `minted` tells
  which updates were a `/login` that handed out a link. The signature is left out:
  a forged token touches nothing.
- *A commit* in `AutoDeploy` has a nature (its tests fail, it never comes up
  healthy, or neither), its requirements and its systemd unit. Good commits may
  still be refused or come up late, and pip may fail at any time.
- *Bounds.* `told` counts up to 2. `MaxFailures` stops a watch from failing for ever, beyond the
  threshold that matters; `MaxUpdates` bounds the updates that arrive; the sets
  of handles, looks, dates, sizes, prices, addresses and sites are small;
  `Shown` are the contents a page may have and `Wishes` what a body may say; `PollClock` needs no
  bound, its numbers being clamped by the code.

## What the runs check

A passing run is exhaustive for its constants. Each property has a mutant, a
plausible bug in one definition (`..._Something` beside the definition it
mutates), which TLC finds to break it.

| Run | Question | Bounds, and why they are enough |
|---|---|---|
| `serial` | Do the tick's checks, with pausing and resuming, announce one restock per return and swallow none, count failures correctly, try every alert they decide on, and converge? | Threshold 2 and three failures in a row: below, at and past the crossing. Two sizes of which one is wanted give in stock, held and out of stock; two prices give a drop, which the cooldown may suppress. Every message may fail. |
| `edited` | Does a check, beside a check-now call, edits of url, size and switch, deletion and crashes, ever take an edit back, resume what is paused, or leave an orphan alert? | Two products to point the watch at (symmetric), one size wanted or any: two checks can hold different copies of every column an edit touches. Threshold 1, so that one failure pauses the watch and a success or a resume brings it back. The page is sold out: what it shows is `serial`'s question, and the alerts here are those of failing and recovering. The view leaves out what no later step and no property of the run reads. |
| `paging` | Is a release lost when the catalogue is read over several pages? | Three products, pages of one, a cap of two: full and short pages, a cut after the first, a catalogue beyond the cap, a 304 for page one. Handles are symmetric. |
| `respelled` | Does editing the url or the saved search, under sweeps that may fail and put an old baseline back, replay anything, and does an alert ever say of a product what is not so? | One product; on sale, unflagged, sold out and bare; relisted and undated through `products.json`, new through the Atom feed; a search for what is in stock or for anything; crashes. The headline of a mixed alert (`some_released`) needs two products and is left to the theorem `WordsHold`. |
| `announced` | Is each release announced, by the read that shows it and in the end, and are launches spaced? | One product with all five looks and all three datings through both feeds: a release's fate depends on no other product but through paging. |
| `cadence` | Is the learned interval gentle, heedful of a 429, and back at the floor in the end? | Floor 35, ceiling 900, step 15, back-off 120, hot 45 as in the code; hints of 1, 600 and 3600 seconds or none; jitter at both ends; tiers 45 and 900. |
| `ticks` | Do ticks overlap, starve a watch, or hide an outage? | Two watches, one claim per tick, one slot: each limit is exceeded. A check-now call beside the tick. |
| `dismissals` | Is the compare-and-swap loop linearizable? | Three products, two devices, as many attempts as products. |
| `commands` | Is each command carried out at most once, none passed over, each in the end; and does a link from `/login` open one session and only as the newest? | Four updates in batches of any size give a batch in hand and one to come, and three generations of links; every poll, reply and process may fail. |
| `hosts` | Do requests to one host keep their distance, never more than two at once, and does every fetch end? | Three fetches over two slots: one asking, one asleep under the lock, one waiting; a gap of two ticks, so that one may pass in the middle; one retry after a pause of none or one tick. |
| `deploys` | Does the service run tested code only, is a rollback whole, a failure told once, no push ignored? | Three commits: the one that runs, one to fail and one to follow, pushed and force-pushed in any order; two sets of requirements; one systemd unit (see `UnitIsRolledBack` below). |
| `watchlist` | Is a watch what its address is, can the strategy that found it read it, does silence stay silence, is a search ever ignored, is every address answered, and do search and stars keep apart? | Fifteen addresses, one or more of each kind detection tells apart, a collection and a front page behind a locale among them; twenty sites, one of each kind the parsers tell apart; five requests, the plain one and four whose body brings a kind, a reference, both or an empty one; two hops instead of five (the resolver only counts them), so a link that arrives with the last hop and one that leads one further; two names, two search keys, two stars; no Best Buy key. PATCH does not come between a command's read and its write (`Overtaking`, see below). |

### Fairness, and why the code justifies it

- `ProductWatch`: the job fires every few seconds, time passes, and every await of
  a check ends (requests have a timeout), hence weak fairness of the tick's steps.
  `StateConverges` also needs a store that is asked again and again to answer now
  and then: strong fairness of a usable answer. No fairness of forced checks,
  edits or the store. `EveryAlertIsTried` needs the weak fairness only, of a process
  that lives on: `serial` has no crashes.
- `CatalogueWatch`: the same, with a store that now and then answers the first
  page and each later page in full. `ReleaseIsAnnounced` speaks of a release that
  stays listed, on sale and wanted.
- `PollClock`: a due watch is checked and a check ends. `SpeedIsRegained` assumes
  that refusals and edits of the tier stop.
- `Polling`: weak fairness of the tick and of every check in flight, strong
  fairness of entering the semaphore, which asyncio serves in order.
  `EveryDueWatchIsChecked` assumes that people do not arm watches without end (an
  armed watch goes first), and `OutageIsReported` that they do not force checks
  without end (each pushes the watch's own turn back).
- `TelegramBot`: weak fairness of the loop. A crash may interrupt every step, so
  `Receive` and `TakeUp` need strong fairness: between the answer and the first
  write of the offset nothing is awaited, so a process that dies now and then does
  not die exactly there for ever. `LoginLink` adds none: nobody has to open a link.
- `Fetcher`: time passes, requests end (they have a timeout), and asyncio serves a
  semaphore and a lock in the order of their waiters, hence strong fairness of
  getting either.
- `Watchlist`: the resolver and the sniffers go on: every request they make has a
  timeout. Nothing is assumed of the links or the site, which may change at every
  step. `AddedAsWhatItIs` and `AddedCanBeRead` speak of a site that stands still
  while it is looked at, or from the moment a strategy said yes, and of a request that
  leaves kind and reference to detection.
- `AutoDeploy`: weak fairness of the script: the timer fires every five minutes and
  what the script calls ends. Nothing makes pip, the tests or the health check
  succeed.

## What is proved

Every safety property that a run checks, invariant or action property, is also a
theorem: it holds for every value of the constants that the modules' `ASSUME`s and
the premises below allow. What is left to TLC alone is named at the end.

`ProductWatch_proofs`. `TypeCorrect` is inductive as it stands. Two inductive
invariants carry the rest:

- `CountsOK`: the watch is below the threshold while it is on, so is the copy of
  each running check, and neither count exceeds the history `failrun`. It is needed
  because alert and pause are decided from the *copy*, which says where the row
  stands only as long as no other check has written since. From it:
  `PolledStaysBelowThreshold`, `NoSilentPause`, `FailingAlertIsEarned`, all for
  `Forcers = {}` with any edits.
- `ReadingsOK`: the stored validator's page reads as the stored state says
  (`EtagSpeaksForState`), copies agree with the row on state, validator and what is
  watched, an answer in hand that shows no stock is known to `gone`, and so is a row
  that says "not to be had". It is needed because a 304 keeps a state without
  looking: that is right only if the validator it answered belongs to that state.
  From it: `EtagInStep`, `OneAlertPerReturn`, `NoReturnSwallowed`, `CheckSettles`,
  for `Undisturbed` watches (no check-now calls, only pausing and resuming). The
  violations show that each of these premises is needed.
- `SettingsSurviveChecks` and `DeletedWatchIsSilent` need no premise: which columns
  a check writes, and the foreign key, are enough whatever runs at once.

`CatalogueWatch_proofs`, for any set of products, page size and page cap, saved
searches, looks and dates of the store. `TypeCorrect` needs no premise. The other
theorems speak of sweeps that do not race with a check-now call (`Alone`), and each
has an inductive invariant that ties the row to the copy a sweep carries:

- `NothingIsNewTwice` (`ArrivalsAreUnseen`), from `ShownIsKnown`: what a finished
  read has shown since the watch last started a baseline is in every baseline the row
  may have from here on, its own and the one a running sweep would write back if it
  fails. Edits, failing sweeps, crashes, relistings and the Atom feed are all allowed.
- `LaunchesKeepTheirDistance` (`LaunchesAreSpaced`), for an address that stays: a
  launch less than a cooldown old is stamped in the ledger (`LaunchesAreStamped`),
  and the copy of a running sweep has the row's baseline, ledger and validator
  (`CopyIsCurrent`).
- `WordsHold` (`WordsAreTrue`), even across a new address and over sweeps that fail
  and put the old baseline back (the ledger they leave alone, so copy and row agree on
  it: `LedgerIsCopied`): no sale is recorded as never where one was seen since the
  first sweep, and every "was unavailable" has an outage behind it
  (`LedgerIsTrue`, `OutagesAreNoted`), so that "released" is said only of what had
  never been seen on sale and "back" only of what had been away.
- `NoReleaseIsAbsorbed` (`ReleasesAreSpoken`), the theorem the window of the sweep
  exists for: a release still owed an alert is either inside the window, or in the
  ledger as something yet to become buyable (`OwedIsArmed`); the baseline is exactly
  what was shown (`MemoryIsSeen`); and a sweep that pages on has read all that the
  pages behind it hold, or it was published meanwhile (`SweepIsComplete`), where
  arithmetic on page numbers shows that after a short page nothing is left to read
  (`ShortPage`), and that a catalogue cut off at the cap does not count as whole. Its premises are `Undisturbed` (no
  check-now, no new address, nothing unlisted or relisted, the first read within
  the slack) and `Legible` (no search, or a store whose feed states what is on
  sale); the violations below show that dropping any one of them loses a release, and
  so does a search for what is in stock over entries that state nothing (`bare`).
  `Alone` is needed in all four: beside a check-now call TLC breaks each of them.

`PollClock_proofs`. `TypeCorrect` from the arithmetic of the controller (`Clamp`
bounds every proposal, jitter keeps order). `RefusalsHeeded` and
`CadenceIsGentle` follow from what the end of a check does to the two numbers
(`FinishMoves`), for any number of concurrent checks, tiers and armings.

`EventItems_proofs`. `DismissalsLinearizable`: the compare-and-swap loop refines
`Dismissals`, for any number of devices, provided there are at least as many
attempts as products in the alert. The argument (`AttemptsLast`) is that a lost
race means that the payload has shrunk since it was read, so the attempts left
never run out before the products do.

`Load_proofs`, on both ends of a request.

- The tick (`Polling`). `ChecksDoNotOverlap`, whoever forces, edits or deletes
  meanwhile: it needs that between ticks none of the tick's own checks is under way
  (`TickIsWhole`), which is what `gather` inside the lock is for. `SlotsSuffice`: the
  semaphore bounds forced checks and the tick's together. `PollingTypeCorrect`: no
  watch waits twice and no deleted one waits. `TheLineIsKept` states
  `NobodyOvertakes`: of two watches that stay due neither gets in front of the other
  unless a person arms or creates it. It is the safety half of
  `EveryDueWatchIsChecked`; the lemmas `Leaving` and `Joining` say what a line is
  after somebody left or joined it.
- One host (`Fetcher`). `TypeCorrect` contains the semaphore's promise; it rests on the
  cardinality of the holders, which one step raises by one at most. `Spaced` needs
  `LockIsHeld`: at most one fetch sleeps under the lock, and what it has left to
  sleep covers what is left of the gap. Without the first half a second sleeper would
  count from the same `_last`.

`AutoDeploy_proofs`. `Agreement` says at each point of the script which commit the
checkout, the service and the requirements belong to; it is needed because a
rollback goes back to `PREV`, which was only read and never tested in this run. From
it: `TestedRuns` and `WholeRollback`, without kills and respawns. `ReportedOnce`
needs neither: once a failure is told, the marker names the commit and no run is
under way until the next push (`LastWord`).

`LoginLink_proofs`. Of the command loop, one inductive invariant (`Inv`): the batch in hand lies within
what has arrived and starts at the offset or just before it; what lies before the
offset was carried out once, lost or is in hand, and nothing from the offset on was
touched. From it `RunsAtMostOnce`, `NonePassedOver` and `RunInOrder`, with crashes.

Of the link, `LinkInv` on top of it: the stored
nonce is the newest update that asked for a link and has not been opened. It is
needed because `Tap` compares with what is stored, while the properties speak of
what was handed out. From it `NewestWorks` and `OpensOnce`, with crashes and lost
replies.

`Watchlist_proofs`. The invariant says four things. A request that sniffs has been
weighed, so its page is no page of results unless the request only looks: from it
`SearchesAreKept`. A row found by a probe and left as found, since when nothing moved,
is of a strategy whose `detect` says yes to the site as it is: from it
`DetectionIsKept`, one lemma per strategy; it excepts the store found by a body that
only mentions a feed (see below). The strategies already passed over, while nothing
moved, say no to the site as it is: from it `WatchesAreWhatTheyAre`, since retail is
asked last: a grid that Shopify can list never becomes a product watch, however deep
in the path it stands. And a link's hops and the iterations left count the same
steps: from it `InReachIsOpened`.
`SettingsStand` needs that a command between its read and its write still has the
column in hand (`~Overtaking`); the other theorems have no premise.
`SilenceTellsNothing` holds of any row and site, found, brought, pinned or edited, but
for a document in the place of Shopify's feed (`FallsBackOnADocument`, see below).

Only model-checked: the ten properties that something happens in the end, all of
them under fairness, which this prover cannot reason about: `StateConverges`,
`EveryAlertIsTried`, `ReleaseIsAnnounced`, `SpeedIsRegained`, `EveryDueWatchIsChecked`,
`OutageIsReported`, `EveryCommandIsRun`, `EveryFetchEnds`, `PushIsAnswered` and
`EveryPasteIsAnswered`. Proved and in no run are `TypeOK` of `ProductWatch`,
`CatalogueWatch`, `PollClock`, `Polling`, `EventItems`, `TelegramBot`, `AutoDeploy`
and `Watchlist` (that of `Fetcher`, the semaphore's promise, is in one),
`EtagSpeaksForState` of
`ProductWatch`, `NobodyOvertakes`, and `PagesInReachAreOpened` of `Watchlist`. Out of
reach too is what a recursive definition computes for every input; no module with a
theorem has a RECURSIVE operator.

## Where the code differs from what it says of itself

Disagreements, each found by TLC with the given constants. What is not
named is small: for `ProductWatch` one target, size and price, `Prefs <- AnySize`, `Shown <- AnyDoc`,
no edits, crashes or forced checks; for `CatalogueWatch` one handle that is on sale
and new, `PageSize = 1`, `MaxPages = 1`, `Searches <- NoSearch` and every flag off; for `PollClock`
the program's numbers with `Tiers = {}`, `Jitters = {100}` and
`RetryAfters <- NoHints`; for `AutoDeploy` the constants of `deploys`, for
`Watchlist` those of `watchlist`. The
specification is `Spec` (of `Polling`, `PollingSpec`) unless named.

| Module: property | Constants | Code | What happens, and what is said |
|---|---|---|---|
| `ProductWatch`: `PausesAreAnnounced` | `Forcers = {now}`, `Edits = {"enabled"}` | `src/monitor/statemachine.py:140` | Two checks fold failures into copies of the row taken before either wrote; a forced check of a paused watch that is resumed meanwhile counts from the old number, passes the crossing by and pauses the watch again with failures > threshold and no watch_failing event. src/monitor/statemachine.py:140 says 'Alert exactly once, on the crossing'; src/README.md:164 says 'After five consecutive failures the watch alerts you that it's broken and pauses itself'. |
| `ProductWatch`: `FailureKeepsState` | `Forcers = {now}` | `src/monitor/scheduler.py:131` | A check that fails writes last_state from the copy it read before the request, so beside a forced check it overwrites the state a successful check recorded meanwhile. src/monitor/statemachine.py:152 says 'prev_state is preserved verbatim. This is the rule that matters'; src/README.md:161 says a failure 'leaves the last known state untouched'. |
| `ProductWatch`: `RestockNeedsReturn` | `Forcers = {now}` | `src/monitor/routes/watches.py:264` | force_check runs check_watch outside the tick's lock: both checks read out_of_stock, both see in_stock, both emit a restock. src/monitor/scheduler.py:286 says 'Restocks and new drops are already deduplicated by the state machine — they fire on a transition, not on a condition'. |
| `ProductWatch`: `CheckSettlesState` | `Edits = {"size"}`, two sizes, `Prefs <- SizeOrAny` | `src/monitor/routes/watches.py:59` | Changing size_pref hurries the next check but keeps the ETag; the store answers 304 and decide keeps the state that was computed for the old sizes. src/monitor/routes/watches.py:58 says 'Changing these changes what counts as a match, so the current state is stale'; src/monitor/tests/test_edit.py:107 says 'held should resolve on the next tick, not at the next scheduled poll'. |
| `ProductWatch`: `CheckSettlesState` | `Edits = {"target"}` | `src/monitor/routes/watches.py:218` | Editing url resets last_state to unknown and keeps the ETag; when the new spelling serves the same resource, the 304 keeps 'unknown' for as long as the page does not change, and a restock out of unknown is not announced. src/monitor/routes/watches.py:55 says such a change 'invalidates the baseline it has been comparing against'; the cached validator, part of that baseline, stays. |
| `ProductWatch`: `EveryAlertIsTried` | `FairSpec`, `Crashes = TRUE` | `src/monitor/scheduler.py:179` | The new state is committed before the first event is inserted: a process that dies in between comes back with the transition recorded and no event. src/monitor/scheduler.py:6 says 'a restart resumes exactly where it left off'. |
| `ProductWatch`: `DropComparesOneProduct` | `Edits = {"target"}`, two targets, two prices | `src/monitor/routes/watches.py:218` | PATCH of url clears baseline_json, last_state and the failure count and keeps last_price: the first check of the new product announces a price drop against the price of the old one. src/monitor/routes/watches.py:219 says 'The watch is now looking at something else. Comparing against the old baseline would either miss real arrivals or [...] report every previously-ignored entry as new'. |
| `ProductWatch`: `RecoveredIsPolled` | `Forcers = {now}` | `src/monitor/statemachine.py:117` | A check-now call on an auto-paused watch that succeeds emits watch_recovered and leaves enabled = 0: the watch is not polled. src/monitor/statemachine.py:115 says 'otherwise you never learn that the gap in coverage ended'; src/monitor/notify/telegram.py:124 tells the person 'Back to normal after … failures'. |
| `CatalogueWatch`: `ReleasesAreSpoken` | two handles, `MaxPages = 3`, `Reshelves = TRUE` | `src/monitor/strategies/shopify.py:382` | Pages are read by number: a product removed while the sweep pages on moves one entry from the page still to be read to the page already read. The sweep counts as complete, the window moves on, and the entry is absorbed as known later. src/monitor/scheduler.py:164 says stamping after part of the catalogue was never looked at 'would close the window over exactly the products we failed to reach'; src/README.md:136 says 'The window runs from the last sweep that actually read the catalogue'. |
| `CatalogueWatch`: `ReleasesAreSpoken` | two handles, `MaxPages = 3`, `SlowStart = TRUE` | `src/monitor/scheduler.py:56` | While no complete read has been recorded (the first ones were cut short), _sweep_window counts back from now: a product published after the first partial read and reached later than the slack is absorbed as known. src/README.md:253 says of a truncated read 'The window stays open until a read that actually finished'. |
| `CatalogueWatch`: `ReleasesAreSpoken` | `PageSize = 2`, `Retargets = TRUE` | `src/monitor/routes/watches.py:218` | PATCH of url clears the baseline and keeps the ETag: a 304 then counts as a sweep while no baseline exists, and what is published after it is recorded in silence by the first full read. src/monitor/scheduler.py:159 says 'A 304 counts — the validator matching is the store confirming nothing changed'. |
| `CatalogueWatch`: `ArrivalsAreUnseen` | `PageSize = 2`, `Forcers = {now}` | `src/monitor/routes/watches.py:264` | Two sweeps that start on the same baseline both announce the handle. src/monitor/scheduler.py:286 says 'Restocks and new drops are already deduplicated by the state machine'. |
| `CatalogueWatch`: `ReleasesAreSpoken` | `PageSize = 2`, `Gated = TRUE`, `Searches <- Named` | `src/monitor/filters.py:115` | An Atom entry has no vendor, tags or price, so it satisfies no search that names one; it enters the baseline unannounced, and as the ledger does not record it (nothing stated), the next products.json read has nothing to launch it from. src/README.md:777 says 'Everything the collection holds still enters the baseline and the ledger'. |
| `CatalogueWatch`: `ReleaseIsToldOnce` | `PageSize = 2`, looks `on_sale`, `sold_out` | `src/monitor/statemachine.py:368` | The cooldown looks at alerted_at, which only a launch stamps: a product announced as a new arrival has none, so its first size coming back minutes later is a second alert. src/README.md:218 says 'One release is one alert. Sizes sell out and come back all through a busy drop; a launch is not repeated for the same product within an hour'. |
| `CatalogueWatch`: `RebaselineStartsOver` | `PageSize = 2`, `Retargets = TRUE` | `src/monitor/scheduler.py:140` | PATCH clears baseline_json while a sweep of the old url is running; the sweep writes the union with the baseline of its copy back, and so does, with the copy's baseline alone, a sweep that fails for any reason but a 429 (src/monitor/statemachine.py:153). src/monitor/routes/watches.py:219 says 'The watch is now looking at something else'. |
| `PollClock`: `TierTakesEffect` | `Tiers = {900}`, `Outcomes = {"ok"}` | `src/monitor/scheduler.py:135` | check_watch writes base_interval_s learned from its copy of the row; a tier PATCHed while it awaits the store is lost. src/monitor/scheduler.py:5 says 'changing a watch's tier takes effect on the next tick'. |
| `PollClock`: `RefusalSlowsDown` | `RetryAfters <- ShortHint` | `src/monitor/statemachine.py:560` | With a Retry-After below the current interval the proposal is the current interval: a 429 with 'Retry-After: 1' leaves the pace as it is. src/monitor/statemachine.py:546 says 'a 429 gives a lot of it back at once'. |
| `PollClock`: `RefusalCostsLittle` | `RetryAfters <- TenMinutes` | `src/monitor/statemachine.py:560` | MAX_BACKOFF_STEP does not bound a Retry-After: from 300 s to 600 s in one step. src/README.md:397 says 'A 429 costs at most two extra minutes'. |
| `PollClock`: `TermsAreKept` | `RetryAfters <- TenMinutes`, `Jitters = {80, 120}` | `src/monitor/scheduler.py:117` | jittered multiplies the honoured Retry-After by as little as 0.8: told 600 s the next poll may be due after 480 s. src/monitor/scheduler.py:111 says 'Retry-After wins when the store states its terms'. |
| `PollClock`: `SpeedIsEarned` | `Outcomes = {"ok", "failed"}` | `src/monitor/scheduler.py:126` | Everything but a 429 is adapted with rate_limited=False: timeouts and 403s shorten the interval too. src/monitor/scheduler.py:124 says 'A clean check earns a little speed back'. |
| `PollClock`: `SpeedIsEarned` | `Outcomes = {"ok", "cut"}` | `src/monitor/strategies/shopify.py:385` | A sweep refused on page two returns ok with truncated set, so check_watch sees no rate limit and shortens the interval. src/README.md:390 says 'Every clean check earns a little speed (−15s); a 429 gives it back multiplicatively'. |
| `PollClock`: `ArmingNeverSlows` | `Outcomes = {"ok"}` | `src/monitor/scheduler.py:128` | While armed, wait is the hot interval, 45 s, also when the learned one is at the floor of 35 s. src/README.md:181 says 'fast \| 35 s \| only while armed'. |
| `PollClock`: `ArmedIsHot` | `Outcomes = {"ok"}` | `src/monitor/scheduler.py:136` | arm sets hot_until and next_check_at; the check in flight decides on the unarmed copy and writes next_check_at a base interval ahead. src/monitor/routes/watches.py:247 says 'Switch to the hot interval for a known drop window'. |
| `Polling`: `AlarmStands` | one watch, no `Hurries`, no `Toggles` | `src/monitor/scheduler.py:308` | After a tick in which every check failed, the next tick has nothing due and pings ok. src/monitor/scheduler.py:318 says 'a green heartbeat here would be a lie'. |
| `Polling`: `OutageKeepsAlarming` | one watch, `PollingFairSpec`, no `Hurries`, no `Toggles` | `src/monitor/scheduler.py:308` | An outage pauses the watches one by one; with none enabled every tick is empty and pings ok. src/monitor/notify/heartbeat.py:8 says 'The dangerous one is a monitor that is running happily while every request it makes is refused'. |
| `EventItems`: `MissingIsTrue` | six handles, two requests, `Attempts = 5` | `src/monitor/db.py:477` | The loop gives up after five lost compare-and-swaps and returns None, which the route turns into 404 for a product the alert still lists. src/monitor/db.py:437 says 'None when there was no such event or the event never mentioned this product'. |
| `Watchlist`: `SearchesAreAnnounced` | as `watchlist` | `src/monitor/strategies/announce.py:206` | The address /search/suggest.json?q=term of a Shopify store, as long as nothing matches the term, is not announce's (no hits), is no search address to `_bad_url` (it does not end in /search), and is claimed by shopify's probe of the whole catalogue: the term is ignored from then on. src/monitor/strategies/__init__.py:26 says 'announce precedes shopify because a store's /search URL would otherwise be claimed as a collection watch by shopify's origin probe'; src/monitor/strategies/shopify.py:71 calls that 'answering a different question than the one asked'. |
| `Watchlist`: `SilenceIsNeverNews` | as `watchlist` | `src/monitor/strategies/shopify.py:455` | The Atom fallback parses whatever it is given and looks for entries: a well-formed page made for people has none, and the check answers ok, out of stock, with no handles. src/monitor/strategies/announce.py:69 says '`<html>...</html>` is perfectly well-formed XML, so parsing alone proves nothing — and treating an error page as an empty feed would record a baseline of nothing, making the next real response look like a flood of brand-new entries'. |
| `Watchlist`: `GridsAreNotProducts` | as `watchlist` | `src/monitor/strategies/retail.py:151` | looks_like_a_listing looks at the first segment of the path: /en-us/collections/x of a store closed to Shopify's probe, whose cards carry Product blocks and which does not declare itself, becomes a retail watch of the first card. src/monitor/tests/test_listing_not_product.py:1 says 'A grid of products is not a product'. |
| `Watchlist`: `SettingsStandAsSaid` | `Overtaking = TRUE` | `src/monitor/telegram_bot.py:294` | The chat command reads the row in the event loop, PATCH writes filter_json in a worker thread, the command writes back what it read, with its own keys changed: what PATCH said of the other question is gone. src/monitor/telegram_bot.py:291 says 'Two different questions sharing a row is not a reason to let one answer overwrite the other'. |
| `AutoDeploy`: `NeverUntested` | as `deploys` | `src/autodeploy.sh:124` | The checkout is moved to the new commit before it is tested, and systemd respawns a service that dies (`Restart=always`) from the checkout: for as long as the tests take, it comes up with untested code, and when they fail the abandoned commit goes on running while the message says the old one does. A run killed after `TimeoutStartSec` leaves the checkout there for good, the next run taking it for deployed. src/autodeploy.sh:2 says 'only if the new code passes its own tests'; src/autodeploy.sh:176 'A failure here must leave the running service completely untouched'. |
| `AutoDeploy`: `UnitIsRolledBack` | `Units = {u1, u2}` | `src/autodeploy.sh:196` | A changed monitor-api.service is installed before the restart, and rollback puts back the code and the requirements only: the old code goes on under the new unit. src/autodeploy.sh:75 says of dependencies that 'a rollback that leaves them behind would not actually roll anything back'. |

Met while modelling `Readings` and `Watchlist`, visible in their definitions and not
stated as properties:

- PATCH of `url` leaves `target_ref` alone: a watch that was detected goes on reading
  the product or collection it was made for (`PatchUrl`, `Reading`), while
  src/monitor/routes/watches.py:219 has it 'looking at something else'.
- A products.json that answers JSON of another shape is an empty catalogue to
  `check` and a gated one to `detect` (`ShopifyListingCheck`, `ShopifyDetect`); so is,
  to announce, any JSON (`AnnounceCheck`).
- Shopify's detection takes a body for a feed when its first 2000 characters contain
  `<feed` (`MentionsFeed`, src/monitor/strategies/shopify.py:583), its check parses it
  (`ParsesAsXml`, shopify.py:455): a page or a cut feed that only mentions one makes a
  watch that cannot be read, or one that reads a page. `AddedCanBeRead` excepts it.
- RedSky's JSON of another shape reads as out of stock (`TargetCheck`), while
  src/monitor/strategies/target.py:9 says 'a refusal surfaces as an `error` state'.
- POST `/watches` refuses a Best Buy watch without the key, `/add` in the chat does
  not (`Refused`): the watch is made and every check of it fails.
- PATCH neither reads the facets of a new `url` nor refuses a page of results, and a
  `filter_json` in it replaces the stars with the search (`PatchUrl`, `PatchFilter`).
- `/filter` answers 'Applies to what arrives from now on'; a sweep in flight still
  speaks by the search it started with (`SetFilter` in `CatalogueWatch`).

The README's section on cadence also speaks of 1000 products over four pages where
`MAX_PAGES` is 10 (`src/README.md:386` against `src/README.md:255`); and after a
respelled url `LaunchesAreSpaced` is lost along with the ledger, which the first
sweep starts anew.

## What is not modelled, and why

- In `Readings`: prices, images and names read off a body, the nearby stores that
  Target also reports, which tracking parameters are stripped from an address, a
  parser that raises (detection goes on to the next strategy as with "nothing"), and a
  page in the place of Shopify's feed that is well-formed XML and carries structured
  data as well.
- In `Watchlist`: PATCH of `target_ref` alone (`PatchUrl` has the url), what the
  keywords of an announcement are matched with, deletion (in `ProductWatch`), more than one watch (`/star all` is
  `/star` of each in turn), the shipping rates and the valuation of one item, which
  is arithmetic.
- Suggestions and inspection: lists and read-only diagnostics.
- Message wording but for the headline of an alert about products, keyboards,
  layout; of delivery, `Send` says whether a channel took it.
- Password hashing and cookie signing; the dashboard; the stateless proxy; scripts
  that an operator runs by hand; database migrations.
- `PollClock` lets a watch fail without end, while in the program it pauses;
  the granularity of the tick and the wall clock are left out.
- In `AutoDeploy`: the move to another remote, the Caddyfile, the installation of
  the test runner (a gate that cannot run is `Refuse`). In `Fetcher`: the proxy and
  the headers. In `LoginLink`: password sign-in and the cookie.
- A heartbeat ping lost on its way is not told from one that arrived.

## Plan

Done, in this order: `Decide` and `ProductWatch` (the core), `Sweep` and
`CatalogueWatch`, `PollClock`, `Polling`, `Dismissals` and `EventItems`,
`TelegramBot`, `Fetcher`, `AutoDeploy`, `LoginLink`, `Alert`, `Readings` and
`Watchlist`; theorems about all of them that a step can break, the safety
properties of every run among them.

Next:

1. A promise of the alert stream as an abstract specification that `ProductWatch`
   implements for an undisturbed watch, and its refinement proved.
2. Lemmas about the pure operators that no theorem uses yet (`Headline` against the
   outcome of a sweep for any catalogue).
3. `Fetcher` under `Polling`: that a slow host does not starve the others.
