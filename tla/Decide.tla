------------------------------- MODULE Decide -------------------------------
(***************************************************************************)
(* What one finished check of a product watch means: the pure part of      *)
(* monitor/statemachine.py, and the three-way reading of a product page    *)
(* that monitor/strategies/shopify.py hands to it.                         *)
(*                                                                         *)
(* A page is abstracted to the product it shows (target), the sizes that   *)
(* can be bought, and one price.  A size preference is the set of watched  *)
(* sizes, the empty set meaning "any size".                                *)
(***************************************************************************)
EXTENDS Naturals, Sequences

CONSTANTS
    Threshold,  \* FAILURE_ALERT_THRESHOLD
    NoPrice,    \* Python's None where a price is expected
    NoPage      \* the empty payload of an alert about the watch itself

ASSUME ThresholdAssumption == Threshold \in Nat \ {0}

States == {"unknown", "out_of_stock", "held", "in_stock"}

Kinds == {"restock", "held", "price_drop", "watch_failing", "watch_recovered"}

Alert(kind, page) == [kind |-> kind, page |-> page]

\* A list of alerts has one of this kind.
Says(alerts, kind) == \E i \in DOMAIN alerts : alerts[i].kind = kind

When(condition, alert) == IF condition THEN <<alert>> ELSE << >>

-----------------------------------------------------------------------------
(* Reading a page *)

\* Nothing to buy, something but not in a watched size, or a watched size.
Reads(doc, wanted) ==
    IF doc.sizes = {} THEN "out_of_stock"
    ELSE IF wanted # {} /\ doc.sizes \cap wanted = {} THEN "held"
    ELSE "in_stock"

\* The price of the variant the alert leads with; no variant, no price.
PriceOn(page) ==
    IF page.doc.sizes = {} THEN NoPrice
    ELSE [of |-> page.target, amount |-> page.doc.price]

Cheaper(new, old) ==
    /\ old # NoPrice
    /\ new # NoPrice
    /\ new.amount < old.amount

-----------------------------------------------------------------------------
(* Folding it into the watch w, the row as the check read it at its start *)

Recovered(w) == When(w.failures >= Threshold, Alert("watch_recovered", NoPage))

\* Mutation: the alert is one failure late.
OnFailure_LateAlert(w) ==
    LET failures == w.failures + 1
    IN  [state    |-> w.state,
         failures |-> failures,
         price    |-> w.price,
         pause    |-> failures >= Threshold,
         events   |-> When(failures > Threshold, Alert("watch_failing", NoPage))]

OnFailure(w) ==
    LET failures == w.failures + 1
    IN  [state    |-> w.state,
         failures |-> failures,
         price    |-> w.price,
         pause    |-> failures >= Threshold,
         events   |-> When(failures = Threshold, Alert("watch_failing", NoPage))]

\* Mutation: a 304 carries no state, and that is taken for "unknown".
OnNotModified_Unknown(w) ==
    [state    |-> "unknown",
     failures |-> 0,
     price    |-> w.price,
     pause    |-> FALSE,
     events   |-> Recovered(w)]

\* Mutation: a 304 does not count as a success.
OnNotModified_KeepsCount(w) ==
    [state    |-> w.state,
     failures |-> w.failures,
     price    |-> w.price,
     pause    |-> FALSE,
     events   |-> Recovered(w)]

OnNotModified(w) ==
    [state    |-> w.state,
     failures |-> 0,
     price    |-> w.price,
     pause    |-> FALSE,
     events   |-> Recovered(w)]

\* Mutation: alerting on the condition instead of the transition.
IsRestock_Condition(prev, new) == new = "in_stock"

\* Mutation: a product that was held back is not waited for any more.
IsRestock_NotHeld(prev, new) == prev = "out_of_stock" /\ new = "in_stock"

\* Only a genuine transition into stock; out of "unknown" nothing is known.
IsRestock(prev, new) == prev \in {"out_of_stock", "held"} /\ new = "in_stock"

OnPage(w, page) ==
    LET new   == Reads(page.doc, w.size)
        price == PriceOn(page)
    IN  [state    |-> new,
         failures |-> 0,
         price    |-> IF price = NoPrice THEN w.price ELSE price,
         pause    |-> FALSE,
         events   |-> Recovered(w)
                      \o When(IsRestock(w.state, new), Alert("restock", page))
                      \o When(w.state = "out_of_stock" /\ new = "held",
                              Alert("held", page))
                      \o When(Cheaper(price, w.price), Alert("price_drop", page))]

\* A rate limit never gets here: it decides nothing (see ProductWatch!Fold).
Decision(w, answer) ==
    CASE answer.outcome = "failed"       -> OnFailure(w)
      [] answer.outcome = "not_modified" -> OnNotModified(w)
      [] answer.outcome = "ok"           -> OnPage(w, answer.page)
=============================================================================
