----------------------------- MODULE Dismissals -----------------------------
(***************************************************************************)
(* What dismissing products from an alert promises to devices that do it   *)
(* at the same time: every request takes effect at one instant between its *)
(* start and its answer, takes its own product out and no other, and says  *)
(* "missing" only when the alert does not mention that product.            *)
(***************************************************************************)
CONSTANTS
    Handles,
    Requests,
    Nothing

VARIABLES
    event,      \* the products the alert mentions; none: it is gone
    wants,      \* per request: the product it is asked to take out
    answer      \* per request: the last answer it gave

vars == <<event, wants, answer>>

Init ==
    /\ event \in (SUBSET Handles) \ {{}}
    /\ wants = [r \in Requests |-> Nothing]
    /\ answer = [r \in Requests |-> Nothing]

Ask(r, h) ==
    /\ wants[r] = Nothing
    /\ wants' = [wants EXCEPT ![r] = h]
    /\ answer' = [answer EXCEPT ![r] = Nothing]
    /\ UNCHANGED event

Answer(r, said) ==
    /\ answer' = [answer EXCEPT ![r] = said]
    /\ wants' = [wants EXCEPT ![r] = Nothing]

TakeOut(r) ==
    /\ wants[r] # Nothing
    /\ wants[r] \in event
    /\ event' = event \ {wants[r]}
    /\ Answer(r, IF event' = {} THEN "deleted" ELSE "pruned")

Miss(r) ==
    /\ wants[r] # Nothing
    /\ wants[r] \notin event
    /\ Answer(r, "missing")
    /\ UNCHANGED event

\* The whole alert is dismissed, or the history cleared.
Wipe ==
    /\ event' = {}
    /\ UNCHANGED <<wants, answer>>

Next ==
    \/ \E r \in Requests : TakeOut(r) \/ Miss(r) \/ \E h \in Handles : Ask(r, h)
    \/ Wipe

Spec == Init /\ [][Next]_vars
=============================================================================
