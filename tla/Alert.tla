------------------------------- MODULE Alert --------------------------------
(***************************************************************************)
(* The words of an alert about new products, and the product pages that    *)
(* are asked before it goes out: render in monitor/notify/telegram.py and  *)
(* _ask_the_pages in monitor/scheduler.py.                                 *)
(***************************************************************************)
EXTENDS FiniteSets, Naturals

CONSTANT PageSample   \* PAGE_SAMPLE

ASSUME PageSampleAssumption == PageSample \in Nat

\* Which pages were read, of those that were asked, and which of them still
\* say "Coming soon"; only what the feed calls buyable is asked about.
Answers(drop, read) ==
    LET buyable == {h \in drop.handles : read[h].look \in {"on_sale", "unflagged"}}
    IN  {[checked |-> checked, soon |-> soon] :
            checked \in {S \in SUBSET buyable : Cardinality(S) <= PageSample},
            soon \in SUBSET buyable}

\* A page that was not read says nothing.
AskThePages(drop, read) == {pages \in Answers(drop, read) : pages.soon \subseteq pages.checked}

Staged(pages) == pages.checked # {} /\ pages.soon = pages.checked

\* "early" is a release the page has not opened yet; a release and a restock
\* are told apart by what has been seen on sale before.
Headline(drop, pages) ==
    IF drop.arrival # "launched" THEN drop.arrival
    ELSE IF Staged(pages) THEN "early"
    ELSE IF drop.debut = drop.handles THEN "released"
    ELSE IF drop.debut # {} THEN "some_released" ELSE "back"
=============================================================================
