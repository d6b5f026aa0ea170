----------------------------- MODULE EventItems -----------------------------
(***************************************************************************)
(* Dismissing one product of a stored alert: drop_event_item in            *)
(* monitor/db.py, called by requests from several devices at once.         *)
(*                                                                         *)
(* The stored payload is abstracted to the handles it lists and, of these, *)
(* the ones it calls a first sale.  Each attempt reads the row and then    *)
(* writes it only if the payload is still the one it read; the transaction *)
(* begins at the write, so other requests come in between.                 *)
(***************************************************************************)
EXTENDS Naturals, FiniteSets

CONSTANTS
    Handles,
    Requests,   \* concurrent DELETE /events/{id}/items/{handle}
    Attempts,   \* how often a lost race is tried again
    NoEvent,    \* the row does not exist
    Nothing

ASSUME ItemsAssumption ==
    /\ IsFiniteSet(Handles)
    /\ Attempts \in Nat \ {0}
    /\ Nothing \notin Handles

Payloads == [handles : (SUBSET Handles) \ {{}}, first_sale : SUBSET Handles]

ASSUME NoEventAssumption == NoEvent \notin Payloads

VARIABLES
    row,        \* payload_json, or NoEvent
    at,         \* per request: "idle", "reading" or "writing"
    drop,       \* the handle it was asked to drop
    raw,        \* the payload it read
    tries,      \* attempts it has left
    answer      \* what it returned last

vars == <<row, at, drop, raw, tries, answer>>

Answers == {"pruned", "deleted", "missing"}

\* The shape of the state; whatever the races, an alert lists something, and it
\* calls nothing a first sale that it does not list; a request that writes has
\* read a payload that listed its product.
TypeOK ==
    /\ row = NoEvent \/ (row \in Payloads /\ row.first_sale \subseteq row.handles)
    /\ at \in [Requests -> {"idle", "reading", "writing"}]
    /\ drop \in [Requests -> Handles \cup {Nothing}]
    /\ raw \in [Requests -> Payloads \cup {Nothing}]
    /\ tries \in [Requests -> 0..Attempts]
    /\ answer \in [Requests -> Answers \cup {Nothing}]
    /\ \A r \in Requests :
        /\ at[r] = "idle" => drop[r] = Nothing
        /\ at[r] # "idle" => drop[r] \in Handles
        /\ at[r] = "writing" => raw[r] \in Payloads /\ drop[r] \in raw[r].handles

Init ==
    /\ row \in {p \in Payloads : p.first_sale \subseteq p.handles}
    /\ at = [r \in Requests |-> "idle"]
    /\ drop = [r \in Requests |-> Nothing]
    /\ raw = [r \in Requests |-> Nothing]
    /\ tries = [r \in Requests |-> 0]
    /\ answer = [r \in Requests |-> Nothing]

Call(r, h) ==
    /\ at[r] = "idle"
    /\ at' = [at EXCEPT ![r] = "reading"]
    /\ drop' = [drop EXCEPT ![r] = h]
    /\ tries' = [tries EXCEPT ![r] = Attempts]
    /\ answer' = [answer EXCEPT ![r] = Nothing]
    /\ UNCHANGED <<row, raw>>

Listed == IF row = NoEvent THEN {} ELSE row.handles

Return(r, said) ==
    /\ at' = [at EXCEPT ![r] = "idle"]
    /\ drop' = [drop EXCEPT ![r] = Nothing]
    /\ raw' = [raw EXCEPT ![r] = Nothing]
    /\ tries' = [tries EXCEPT ![r] = 0]
    /\ answer' = [answer EXCEPT ![r] = said]

Read(r) ==
    /\ at[r] = "reading"
    /\ drop[r] \in Listed
    /\ at' = [at EXCEPT ![r] = "writing"]
    /\ raw' = [raw EXCEPT ![r] = row]
    /\ UNCHANGED <<row, drop, tries, answer>>

\* No such event, or it never mentioned this product.
ReadMissing(r) ==
    /\ at[r] = "reading"
    /\ drop[r] \notin Listed
    /\ Return(r, "missing")
    /\ UNCHANGED row

Pruned(p, h) == [handles |-> p.handles \ {h}, first_sale |-> p.first_sale \ {h}]

\* Mutation: a blind write, whatever has become of the row.
StillThere_Exists(r) == row # NoEvent

StillThere(r) == row = raw[r]

Write(r) ==
    /\ at[r] = "writing"
    /\ StillThere(r)
    /\ IF raw[r].handles = {drop[r]}
       THEN row' = NoEvent /\ Return(r, "deleted")
       ELSE row' = Pruned(raw[r], drop[r]) /\ Return(r, "pruned")

\* The payload changed since it was read: start over, and give up in the end.
LoseRace(r) ==
    /\ at[r] = "writing"
    /\ ~StillThere(r)
    /\ IF tries[r] > 1
       THEN /\ at' = [at EXCEPT ![r] = "reading"]
            /\ raw' = [raw EXCEPT ![r] = Nothing]
            /\ tries' = [tries EXCEPT ![r] = @ - 1]
            /\ UNCHANGED <<drop, answer>>
       ELSE Return(r, "missing")
    /\ UNCHANGED row

\* DELETE /events/{id} and DELETE /events, or the watch goes.
Wipe ==
    /\ row' = NoEvent
    /\ UNCHANGED <<at, drop, raw, tries, answer>>

Next ==
    \/ \E r \in Requests :
        \/ Read(r) \/ ReadMissing(r) \/ Write(r) \/ LoseRace(r)
        \/ \E h \in Handles : Call(r, h)
    \/ Wipe

Spec == Init /\ [][Next]_vars

-----------------------------------------------------------------------------
(* Properties *)

Promise == INSTANCE Dismissals
    WITH event <- Listed, wants <- drop

\* Devices dismissing at once see one dismissal after another: nobody brings
\* back what another took out, takes two, or is told "missing" of a product
\* that is still listed.  (Needs Attempts to be at least the number of products:
\* every lost race means that one of them went.)
Linearizable == Promise!Spec

\* "missing" means there was no such event, or that it never mentioned this
\* product.
MissingIsTrue ==
    [][\A r \in Requests :
        answer'[r] = "missing" /\ answer[r] = Nothing => drop[r] \notin Listed]_vars
=============================================================================
