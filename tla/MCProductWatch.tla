--------------------------- MODULE MCProductWatch ---------------------------
(***************************************************************************)
(* Small instances of ProductWatch for TLC.                                *)
(***************************************************************************)
EXTENDS ProductWatch, TLC

AnySize   == {{}}               \* the person takes any size
SizeOrAny == {{}, {"m"}}
OnlyM     == {{"m"}}

AnyDoc     == Docs              \* every size and every price of the instance
SoldOut    == [sizes : {{}}, price : Prices]

\* The products are interchangeable.
AnyTarget == Permutations(Targets)

\* What a check still reads of the copy it was handed and of what it decided.
StillRead(c) ==
    LET w == snap[c]
    IN  CASE pc[c] = "idle"     -> <<pc[c]>>
          [] pc[c] = "fetching" -> <<pc[c], w>>
          [] pc[c] = "folding"  -> <<pc[c], answer[c], w.size, w.enabled, w.state,
                                     w.failures, w.price, w.alerted>>
          [] OTHER -> <<pc[c], w.alerted, [i \in DOMAIN queue[c] |-> queue[c][i].kind]>>

\* The state without what no later step, and no property of the run, reads: the
\* history variables, a deleted row, what a check is done with.
WithoutTheUnread ==
    <<store, alive, IF alive THEN row ELSE NoRow,
      [c \in Checkers |-> <<StillRead(c), events[c] = NoAlert>>]>>
=============================================================================
