------------------------------- MODULE Sweep --------------------------------
(***************************************************************************)
(* What one finished read of a catalogue means: the pure part of a         *)
(* collection watch, _decide_collection and its helpers in                 *)
(* monitor/statemachine.py.                                                *)
(*                                                                         *)
(* A catalogue entry is abstracted to how it looks to a buyer and to how   *)
(* the store dates it.  Looks: "on_sale" and "sold_out" state availability *)
(* and a price; "staged" states both too, but nothing can be bought and    *)
(* the price is zero; "unflagged" is a theme without the available flag,   *)
(* which counts as buyable; "bare" has no variants at all; "atom" is       *)
(* anything seen through the Atom feed, which carries neither variants,    *)
(* prices nor tags.                                                        *)
(***************************************************************************)
EXTENDS Sequences

CONSTANTS
    Handles,
    NoEntry,    \* a handle the availability ledger does not hold
    NoBaseline, \* baseline_json is NULL: no sweep yet
    Everything  \* no saved search

Looks == {"on_sale", "unflagged", "sold_out", "staged", "bare"}

\* "relisted": published since the window opened, created long before that.
Dates == {"new", "relisted", "undated"}

Items == [look : Looks, dates : Dates]

Seen == [look : Looks \cup {"atom"}, dates : Dates]

\* A saved search: which products it names, and whether they must be in stock.
Filters == {Everything} \cup [names : SUBSET Handles, in_stock : BOOLEAN]

\* The ledger's record of a handle; alerted: a launch has been announced.
Entries == [sale : {"never", "before", "now"}, alerted : BOOLEAN]

Ledgers == [Handles -> Entries \cup {NoEntry}]

Drops == [arrival : {"new", "relisted", "unconfirmed", "launched"},
          handles : SUBSET Handles,
          debut   : SUBSET Handles]

-----------------------------------------------------------------------------
(* Reading one item *)

Available(item) == item.look \in {"on_sale", "unflagged"}

AvailableStated(item) == item.look \in {"on_sale", "sold_out", "staged"}

StillBeingBuilt(item) == item.look = "staged"

\* The Atom feed has one date for both, so nothing in it looks relisted.
AtomItem(item) ==
    [look  |-> "atom",
     dates |-> IF item.dates = "relisted" THEN "new" ELSE item.dates]

\* An entry without tags, vendor or price satisfies no filter that names one.
Matches(h, item, wanted) ==
    \/ wanted = Everything
    \/ /\ item.look # "atom"
       /\ h \in wanted.names
       /\ wanted.in_stock => Available(item)

\* Why a handle is new to us.  window: the handles that the store's own dates
\* place after the start of the sweep window.
Arrival(h, item, window) ==
    IF item.dates = "undated" THEN "unconfirmed"
    ELSE IF h \notin window THEN "known"
    ELSE item.dates

\* Mutation: a missing availability flag is read as "no".
WorthWaking_UnstatedIsNo(arrival, item) ==
    \/ Available(item)
    \/ arrival = "new" /\ AvailableStated(item) /\ ~StillBeingBuilt(item)

WorthWaking(arrival, item) ==
    \/ Available(item)
    \/ /\ ~StillBeingBuilt(item)
       /\ arrival = "new" \/ ~AvailableStated(item)

-----------------------------------------------------------------------------
(* The availability ledger.  lately: the handles whose last launch alert is *)
(* less than RELAUNCH_COOLDOWN_S old.                                       *)

BecameBuyable(ledger, h, item, lately) ==
    /\ item.look = "on_sale"
    /\ ledger[h] # NoEntry
    /\ ledger[h].sale # "now"
    /\ ledger[h].alerted => h \notin lately

\* Mutation: a product that sells out is forgotten to have been on sale.
FoldLedger_ForgetsSale(ledger, read, launched) ==
    [h \in Handles |->
        IF h \in DOMAIN read /\ AvailableStated(read[h])
        THEN [sale    |-> IF Available(read[h]) THEN "now" ELSE "never",
              alerted |-> h \in launched \/ (ledger[h] # NoEntry /\ ledger[h].alerted)]
        ELSE ledger[h]]

\* Mutation: the time of the last launch alert is not carried forward.
FoldLedger_DropsStamp(ledger, read, launched) ==
    [h \in Handles |->
        IF h \in DOMAIN read /\ AvailableStated(read[h])
        THEN [sale    |-> IF Available(read[h]) THEN "now"
                          ELSE IF ledger[h] # NoEntry /\ ledger[h].sale # "never"
                               THEN "before" ELSE "never",
              alerted |-> h \in launched]
        ELSE ledger[h]]

\* Only what this read states is updated; absence is not evidence.
FoldLedger(ledger, read, launched) ==
    [h \in Handles |->
        IF h \in DOMAIN read /\ AvailableStated(read[h])
        THEN [sale    |-> IF Available(read[h]) THEN "now"
                          ELSE IF ledger[h] # NoEntry /\ ledger[h].sale # "never"
                               THEN "before" ELSE "never",
              alerted |-> h \in launched \/ (ledger[h] # NoEntry /\ ledger[h].alerted)]
        ELSE ledger[h]]

EmptyLedger == [h \in Handles |-> NoEntry]

-----------------------------------------------------------------------------
(* Folding a read (a function from the handles it showed to their items)   *)
(* into the memory m of the watch.                                         *)

Unseen(m, read) == DOMAIN read \ m.baseline

\* Handles new to us that the store's dates do not explain away.
Arrived(m, read, window, kind) ==
    {h \in Unseen(m, read) : Arrival(h, read[h], window) = kind}

Spoken(m, read, window, kind) ==
    {h \in Arrived(m, read, window, kind) :
        WorthWaking(kind, read[h]) /\ Matches(h, read[h], m.wanted)}

Launched(m, read, window, lately) ==
    {h \in DOMAIN read :
        /\ h \in m.baseline \/ Arrival(h, read[h], window) = "known"
        /\ BecameBuyable(m.ledger, h, read[h], lately)
        /\ Matches(h, read[h], m.wanted)}

Drop(kind, handles, debut) ==
    [arrival |-> kind, handles |-> handles, debut |-> debut]

\* A drop that names no product is not said.
Saying(drop) == IF drop.handles = {} THEN << >> ELSE <<drop>>

\* Mutation: only what the saved search wants is remembered.
NewBaseline_OnlyWanted(m, read) ==
    {h \in DOMAIN read : Matches(h, read[h], m.wanted)}
        \cup IF m.baseline = NoBaseline THEN {} ELSE m.baseline

\* A union, so a product briefly missing from the feed stays known.
NewBaseline(m, read) ==
    IF m.baseline = NoBaseline THEN DOMAIN read ELSE m.baseline \cup DOMAIN read

\* The first sweep records what is there and says nothing.
FirstSweep(m, read) ==
    [baseline |-> NewBaseline(m, read),
     ledger   |-> FoldLedger(EmptyLedger, read, {}),
     drops    |-> << >>]

LaterSweep(m, read, window, lately) ==
    LET launched == Launched(m, read, window, lately)
        arrived(kind) == Drop(kind, Spoken(m, read, window, kind), {})
        debut == {h \in launched : m.ledger[h].sale = "never"}
    IN  [baseline |-> NewBaseline(m, read),
         ledger   |-> FoldLedger(m.ledger, read, launched),
         drops    |-> Saying(arrived("new")) \o Saying(arrived("relisted"))
                        \o Saying(arrived("unconfirmed"))
                        \o Saying(Drop("launched", launched, debut))]

OnSweep(m, read, window, lately) ==
    IF m.baseline = NoBaseline
    THEN FirstSweep(m, read)
    ELSE LaterSweep(m, read, window, lately)
=============================================================================
