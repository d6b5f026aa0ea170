-------------------------- MODULE LoginLink_proofs --------------------------
(***************************************************************************)
(* Theorems about the command loop (TelegramBot) and the sign-in links it  *)
(* hands out (LoginLink), for any number of updates and links, with and    *)
(* without crashes.                                                        *)
(***************************************************************************)
EXTENDS LoginLink, TLAPS

-----------------------------------------------------------------------------
(* The command loop *)


\* Arithmetic on the positions of a batch.
Positions ==
    /\ arrived \in Nat /\ arrived <= MaxUpdates
    /\ offset \in Nat /\ 1 <= offset /\ offset <= arrived + 1
    /\ first \in Nat /\ 1 <= first /\ first <= offset
    /\ last \in Nat /\ last <= arrived
    /\ at = "sorting" /\ first <= last => offset = first
    /\ at \in {"handling", "replying"} => first <= last /\ offset = first + 1

\* What lies before the offset was carried out once, lost, or is in hand;
\* nothing from the offset on was touched.
Ledger ==
    /\ handled \in [Updates -> Nat]
    /\ \A u \in Updates : handled[u] <= 1
    /\ \A u \in Updates : u >= offset => handled[u] = 0
    /\ at = "handling" => handled[first] = 0
    /\ NothingSkipped

Inv ==
    /\ kind \in [Updates -> Kinds]
    /\ at \in Places
    /\ replied \subseteq Updates /\ lost \subseteq Updates
    /\ Positions
    /\ Ledger

LEMMA InvInit == Init => Inv
    BY BotAssumption DEF Init, Inv, Positions, Ledger, NothingSkipped, Places, Updates

LEMMA InvStep == Inv /\ [Next]_vars => Inv'
<1> SUFFICES ASSUME Inv, [Next]_vars PROVE Inv'
    OBVIOUS
<1> USE BotAssumption DEF Inv, Positions, Ledger, NothingSkipped, Places, Updates
<1>1. CASE Arrives
    BY <1>1 DEF Arrives
<1>2. CASE Receive
    BY <1>2 DEF Receive
<1>3. CASE PollFails
    BY <1>3 DEF PollFails
<1>4. CASE Retry
    BY <1>4 DEF Retry
<1>5. CASE TakeUp
  <2>1. first \in Updates
      BY <1>5 DEF TakeUp
  <2>2. CASE kind[first] = "command"
      BY <1>5, <2>1, <2>2 DEF TakeUp, Advanced
  <2>3. CASE kind[first] # "command"
      BY <1>5, <2>1, <2>3 DEF TakeUp, Advanced
  <2> QED BY <2>2, <2>3
<1>6. CASE BatchDone
    BY <1>6 DEF BatchDone
<1>7. ASSUME NEW says \in BOOLEAN, Handle(says) PROVE Inv'
  <2>1. first \in Updates /\ offset = first + 1 /\ handled[first] = 0
      BY <1>7 DEF Handle
  <2>2. handled' = [handled EXCEPT ![first] = 1]
      BY <1>7, <2>1 DEF Handle
  <2>3. Positions'
      BY <1>7, <2>1 DEF Handle
  <2>4. Ledger'
      BY <1>7, <2>1, <2>2 DEF Handle
  <2> QED BY <1>7, <2>3, <2>4 DEF Handle
<1>8. CASE Reply
    BY <1>8 DEF Reply
<1>9. CASE ReplyFails
    BY <1>9 DEF ReplyFails
<1>10. CASE Crash
    BY <1>10 DEF Crash
<1>11. CASE UNCHANGED vars
    BY <1>11 DEF vars
<1> QED BY <1>1, <1>2, <1>3, <1>4, <1>5, <1>6, <1>7, <1>8, <1>9, <1>10, <1>11 DEF Next

LEMMA Invariant == Spec => []Inv
    BY InvInit, InvStep, PTL DEF Spec

\* Every variable keeps its type, and the batch in hand its shape.
THEOREM TypeCorrect == Spec => []TypeOK
<1>1. Inv => TypeOK
    BY BotAssumption DEF Inv, Positions, Ledger, TypeOK
<1> QED BY <1>1, Invariant, PTL

\* No command is carried out twice, whatever fails and whenever the process dies.
THEOREM RunsAtMostOnce == Spec => []AtMostOnce
<1>1. Inv => AtMostOnce
    BY DEF Inv, Ledger, AtMostOnce
<1> QED BY <1>1, Invariant, PTL

\* What the offset has left behind was carried out, unless the process died
\* over it.
THEOREM NonePassedOver == Spec => []NothingSkipped
<1>1. Inv => NothingSkipped
    BY DEF Inv, Ledger
<1> QED BY <1>1, Invariant, PTL

\* Commands are carried out in the order in which they were sent.
THEOREM RunInOrder == Spec => InOrder
<1>1. Inv /\ [Next]_vars
        => [\A u, v \in Updates :
               u < v /\ handled'[u] > handled[u] => handled[v] = 0]_vars
  <2> SUFFICES ASSUME Inv, Next, NEW u \in Updates, NEW v \in Updates,
                      u < v, handled'[u] > handled[u]
               PROVE  handled[v] = 0
      OBVIOUS
  <2> USE DEF Inv, Positions, Ledger, Updates
  <2>0. handled' # handled
    <3>1. handled[u] \in Nat
        OBVIOUS
    <3>2. ~(handled[u] > handled[u])
        BY <3>1
    <3>3. CASE handled' = handled
      <4>1. handled'[u] = handled[u]
          BY <3>3
      <4> QED BY <3>2, <4>1
    <3> QED BY <3>3
  <2>1. PICK says \in BOOLEAN : Handle(says)
      BY <2>0 DEF Next, Arrives, Receive, PollFails, Retry, TakeUp, BatchDone, Reply, ReplyFails, Crash
  <2>2. u = first
    <3>1. handled' = [handled EXCEPT ![first] = @ + 1]
        BY <2>1 DEF Handle
    <3>2. handled[u] \in Nat
        OBVIOUS
    <3> QED BY <3>1, <3>2
  <2>3. v >= offset
      BY <2>1, <2>2 DEF Handle
  <2> QED BY <2>3
<1> QED BY <1>1, Invariant, PTL DEF Spec, InOrder

-----------------------------------------------------------------------------
(* The links *)


\* Every link was issued by a command that lies behind the loop; the stored
\* nonce is the newest of them and unused, and it only goes when it is used.
LinkInv ==
    /\ minted \subseteq Updates
    /\ opened \in [Updates -> Nat]
    /\ \A u \in minted : handled[u] > 0
    /\ \A u \in Updates \ minted : opened[u] = 0
    /\ live # 0 => /\ live \in minted
                   /\ opened[live] = 0
                   /\ \A v \in minted : v <= live
    /\ NewestLinkWorks

LEMMA LinkInit == LoginInit => Inv /\ LinkInv
<1> SUFFICES ASSUME LoginInit PROVE Inv /\ LinkInv
    OBVIOUS
<1>1. Inv
    BY InvInit DEF LoginInit
<1> QED BY <1>1 DEF LoginInit, LinkInv, NewestLinkWorks, Updates

\* A step of the loop never takes back that a command was carried out.
LEMMA HandledGrows ==
    ASSUME Inv, Next, NEW u \in Updates, handled[u] > 0
    PROVE  handled'[u] > 0
<1> USE BotAssumption DEF Inv, Positions, Ledger, Updates
<1>1. ASSUME NEW says \in BOOLEAN, Handle(says) PROVE handled'[u] > 0
    BY <1>1 DEF Handle
<1>2. CASE UNCHANGED handled
    BY <1>2
<1> QED BY <1>1, <1>2
    DEF Next, Arrives, Receive, PollFails, Retry, TakeUp, BatchDone, Reply, ReplyFails, Crash

LEMMA LinkStep == Inv /\ LinkInv /\ [LoginNext]_<<vars, links>> => Inv' /\ LinkInv'
<1> SUFFICES ASSUME Inv, LinkInv, [LoginNext]_<<vars, links>>
             PROVE  Inv' /\ LinkInv'
    OBVIOUS
<1>1. CASE BotStep
  <2>1. Inv'
      BY <1>1, InvStep DEF BotStep
  <2>2. \A u \in minted : handled'[u] > 0
      BY <1>1, HandledGrows DEF BotStep, LinkInv
  <2> QED BY <1>1, <2>1, <2>2 DEF BotStep, links, LinkInv, NewestLinkWorks
<1>2. CASE Issue
  <2>1. Inv'
      BY <1>2, InvStep DEF Issue, Next
  <2>2. /\ first \in Updates /\ handled[first] = 0 /\ offset = first + 1
        /\ handled' = [handled EXCEPT ![first] = 1]
        /\ \A u \in Updates : u >= offset => handled[u] = 0
        /\ handled \in [Updates -> Nat]
    <3>1. /\ at = "handling" /\ handled' = [handled EXCEPT ![first] = handled[first] + 1]
        BY <1>2 DEF Issue, Handle
    <3>2. /\ first \in Updates /\ handled[first] = 0 /\ offset = first + 1
          /\ \A u \in Updates : u >= offset => handled[u] = 0
          /\ handled \in [Updates -> Nat]
        BY <3>1, BotAssumption DEF Inv, Positions, Ledger, Updates
    <3> QED BY <3>1, <3>2
  <2>3. \A u \in minted : u \in Updates /\ u < first
    <3> SUFFICES ASSUME NEW u \in minted PROVE u \in Updates /\ u < first
        OBVIOUS
    <3>1. u \in Updates /\ handled[u] > 0
        BY DEF LinkInv
    <3>2. u # first /\ ~(u >= offset)
        BY <2>2, <3>1
    <3> QED BY <2>2, <3>1, <3>2, BotAssumption DEF Updates
  <2>4. /\ live' = first /\ minted' = minted \cup {first} /\ opened' = opened
      BY <1>2 DEF Issue, Stored
  <2>5. opened[first] = 0 /\ first \in Nat \ {0}
      BY <2>2, <2>3, BotAssumption DEF LinkInv, Updates
  <2>6. \A u \in minted' : u \in Updates /\ u <= first /\ handled'[u] > 0
      BY <2>2, <2>3, <2>4, BotAssumption DEF LinkInv, Updates
  <2>7. \A u \in minted' : (\A v \in minted' : v <= u) => u = first
      BY <2>3, <2>4, <2>5, BotAssumption DEF Updates
  <2>8. /\ live' # 0 => /\ live' \in minted' /\ opened'[live'] = 0
                        /\ \A v \in minted' : v <= live'
        /\ NewestLinkWorks'
      BY <2>4, <2>5, <2>6, <2>7 DEF NewestLinkWorks
  <2>9. LinkInv'
      BY <2>4, <2>2, <2>6, <2>8 DEF LinkInv
  <2> QED BY <2>1, <2>9
<1>3. ASSUME NEW u \in Updates, Expire(u) PROVE Inv' /\ LinkInv'
  <2>1. Inv'
      BY <1>3, InvStep DEF Expire
  <2> QED BY <1>3, <2>1 DEF Expire, vars, LinkInv, NewestLinkWorks
<1>4. ASSUME NEW u \in Updates, Tap(u) PROVE Inv' /\ LinkInv'
  <2>1. Inv' /\ handled' = handled /\ minted' = minted /\ u \in minted
      BY <1>4, InvStep DEF Tap, vars
  <2>2. CASE u \in expired \/ live # u
    <3>1. live' = live /\ opened' = opened
        BY <1>4, <2>2 DEF Tap, Claimed, LinkInv
    <3> QED BY <2>1, <3>1 DEF LinkInv, NewestLinkWorks
  <2>3. CASE u \notin expired /\ live = u
    <3>1. live' = 0 /\ opened' = [opened EXCEPT ![u] = opened[u] + 1] /\ u \in Nat \ {0}
        BY <1>4, <2>3, BotAssumption DEF Tap, Claimed, Updates
    <3>2. \A v \in minted : opened'[v] = 0 /\ (\A w \in minted : w <= v) => FALSE
      <4> SUFFICES ASSUME NEW v \in minted, opened'[v] = 0, \A w \in minted : w <= v
                   PROVE  FALSE
          OBVIOUS
      <4>1. v <= u /\ u <= v /\ v \in Nat
          BY <2>1, <2>3, <3>1, BotAssumption DEF LinkInv, Updates
      <4>2. v = u
          BY <3>1, <4>1
      <4> QED BY <3>1, <4>2, <2>1 DEF LinkInv
    <3>3. opened' \in [Updates -> Nat]
        BY <3>1 DEF LinkInv
    <3> QED BY <2>1, <3>1, <3>2, <3>3 DEF LinkInv, NewestLinkWorks
  <2> QED BY <2>2, <2>3
<1>5. CASE UNCHANGED <<vars, links>>
  <2>1. Inv'
      BY <1>5, InvStep
  <2> QED BY <1>5, <2>1 DEF vars, links, LinkInv, NewestLinkWorks
<1> QED BY <1>1, <1>2, <1>3, <1>4, <1>5 DEF LoginNext

LEMMA LinkInvariant == LoginSpec => [](Inv /\ LinkInv)
    BY LinkInit, LinkStep, PTL DEF LoginSpec

\* However often old links are opened and whenever the process dies, the newest
\* link works until it is used or too old.
THEOREM NewestWorks == LoginSpec => []NewestLinkWorks
<1>1. LinkInv => NewestLinkWorks
    BY DEF LinkInv
<1> QED BY <1>1, LinkInvariant, PTL

\* A link opens one session at most, and only while it is the newest.
THEOREM OpensOnce == LoginSpec => LinkOpensOnce
<1>1. Inv /\ LinkInv /\ [LoginNext]_<<vars, links>>
        => [\A u \in Updates :
               opened'[u] > opened[u] =>
                   opened[u] = 0 /\ \A v \in minted : v <= u]_<<vars, links>>
  <2> SUFFICES ASSUME LinkInv, LoginNext, NEW u \in Updates, opened'[u] > opened[u]
               PROVE  opened[u] = 0 /\ \A v \in minted : v <= u
      OBVIOUS
  <2>1. opened[u] \in Nat /\ opened' # opened
      BY DEF LinkInv
  <2>2. PICK t \in Updates : Tap(t)
      BY <2>1 DEF LoginNext, BotStep, Issue, Expire, links
  <2>3. t \notin expired /\ live = t /\ opened' = [opened EXCEPT ![t] = opened[t] + 1]
      BY <2>1, <2>2 DEF Tap, LinkInv
  <2>4. u = t
      BY <2>1, <2>3 DEF LinkInv
  <2>5. t \in Nat \ {0}
      BY BotAssumption DEF Updates
  <2> QED BY <2>3, <2>4, <2>5 DEF LinkInv
<1> QED BY <1>1, LinkInvariant, PTL DEF LoginSpec, LinkOpensOnce
=============================================================================
