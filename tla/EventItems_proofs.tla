------------------------- MODULE EventItems_proofs --------------------------
(***************************************************************************)
(* Theorems about EventItems: type correctness, and that it implements     *)
(* Dismissals whenever the attempts suffice.                               *)
(***************************************************************************)
EXTENDS EventItems, FiniteSetTheorems, TLAPS

\* A write that goes through takes out exactly what the request was asked to.
LEMMA WriteMoves ==
    ASSUME TypeOK, NEW r \in Requests, Write(r)
    PROVE  /\ row \in Payloads /\ row = raw[r]
           /\ drop[r] \in Listed
           /\ Listed' = Listed \ {drop[r]}
           /\ row' = NoEvent \/ (row' \in Payloads /\ row'.first_sale \subseteq row'.handles)
           /\ Return(r, IF Listed' = {} THEN "deleted" ELSE "pruned")
<1>1. /\ row = raw[r] /\ raw[r] \in Payloads /\ drop[r] \in raw[r].handles
      /\ drop[r] \in Handles
  BY DEF Write, StillThere, TypeOK
<1>2. row # NoEvent /\ row.first_sale \subseteq row.handles
  BY <1>1, NoEventAssumption DEF TypeOK
<1>3. Listed = raw[r].handles
  BY <1>1, <1>2 DEF Listed
<1>4. CASE raw[r].handles = {drop[r]}
  <2>1. row' = NoEvent /\ Return(r, "deleted")
    BY <1>4 DEF Write
  <2>2. Listed' = {}
    BY <2>1 DEF Listed
  <2>. QED  BY <1>1, <1>2, <1>3, <1>4, <2>1, <2>2
<1>5. CASE raw[r].handles # {drop[r]}
  <2>1. row' = Pruned(raw[r], drop[r]) /\ Return(r, "pruned")
    BY <1>5 DEF Write
  <2>2. row' \in Payloads /\ row'.handles = raw[r].handles \ {drop[r]}
        /\ row'.first_sale \subseteq row'.handles
    BY <1>1, <1>2, <1>5, <2>1 DEF Payloads, Pruned
  <2>3. Listed' = raw[r].handles \ {drop[r]} /\ Listed' # {}
    BY <1>1, <1>5, <2>2, NoEventAssumption DEF Listed
  <2>. QED  BY <1>1, <1>2, <1>3, <2>1, <2>2, <2>3
<1>. QED  BY <1>4, <1>5

LEMMA TypeStep == TypeOK /\ [Next]_vars => TypeOK'
<1>. SUFFICES ASSUME TypeOK, [Next]_vars PROVE TypeOK'
  OBVIOUS
<1>. USE ItemsAssumption DEF Answers
<1>1. ASSUME NEW r \in Requests, NEW h \in Handles, Call(r, h) PROVE TypeOK'
  BY <1>1 DEF Call, TypeOK
<1>2. ASSUME NEW r \in Requests, Read(r) PROVE TypeOK'
  BY <1>2 DEF Read, Listed, TypeOK
<1>3. ASSUME NEW r \in Requests, ReadMissing(r) PROVE TypeOK'
  BY <1>3 DEF ReadMissing, Return, TypeOK
<1>4. ASSUME NEW r \in Requests, Write(r) PROVE TypeOK'
  <2>1. row' = NoEvent \/ (row' \in Payloads /\ row'.first_sale \subseteq row'.handles)
    BY <1>4, WriteMoves
  <2>2. Return(r, "deleted") \/ Return(r, "pruned")
    BY <1>4, WriteMoves
  <2>. QED  BY <2>1, <2>2 DEF Return, TypeOK
<1>5. ASSUME NEW r \in Requests, LoseRace(r) PROVE TypeOK'
  <2>1. CASE tries[r] > 1
    BY <1>5, <2>1 DEF LoseRace, TypeOK
  <2>2. CASE ~(tries[r] > 1)
    BY <1>5, <2>2 DEF LoseRace, Return, TypeOK
  <2>. QED  BY <2>1, <2>2
<1>6. CASE Wipe
  BY <1>6 DEF Wipe, TypeOK
<1>7. CASE UNCHANGED vars
  BY <1>7 DEF vars, TypeOK
<1>. QED  BY <1>1, <1>2, <1>3, <1>4, <1>5, <1>6, <1>7 DEF Next

\* An alert always lists something, and calls nothing a first sale that it does
\* not list, however many devices dismiss products from it.
THEOREM TypeCorrect == Spec => []TypeOK
<1>1. Init => TypeOK
  BY ItemsAssumption DEF Init, TypeOK
<1>2. TypeOK /\ [Next]_vars => TypeOK'
  BY TypeStep
<1>. QED  BY <1>1, <1>2, PTL DEF Spec

-----------------------------------------------------------------------------
(* Every lost race has taken a product out of the alert, so a request that  *)
(* has not given up still has as many attempts as it could lose races.      *)

\* What a request has read covers what is there, and is what is there unless
\* something has gone since.
Covers(r) ==
    /\ Listed \subseteq raw[r].handles
    /\ Listed = raw[r].handles => row = raw[r]

AttemptsLast ==
    \A r \in Requests :
        /\ at[r] = "reading" => Cardinality(Listed) <= tries[r]
        /\ at[r] = "writing" => Covers(r) /\ Cardinality(raw[r].handles) <= tries[r]

LEMMA SetsAreFinite ==
    ASSUME NEW S \in SUBSET Handles
    PROVE  IsFiniteSet(S) /\ Cardinality(S) \in Nat
BY ItemsAssumption, FS_Subset, FS_CardinalityType

LEMMA ListedType ==
    ASSUME TypeOK PROVE Listed \in SUBSET Handles
BY DEF TypeOK, Listed, Payloads

\* Whatever takes products out of the alert keeps the requests supplied.
LEMMA ShrinkingIsFine ==
    ASSUME TypeOK, AttemptsLast,
           Listed' \subseteq Listed,
           row' = row \/ Listed' # Listed,
           NEW r \in Requests,
           UNCHANGED <<at[r], raw[r], tries[r]>>
    PROVE  /\ at'[r] = "reading" => Cardinality(Listed') <= tries'[r]
           /\ at'[r] = "writing" =>
                Covers(r)' /\ Cardinality(raw'[r].handles) <= tries'[r]
<1>1. Cardinality(Listed') <= Cardinality(Listed)
      /\ Cardinality(Listed') \in Nat /\ Cardinality(Listed) \in Nat
  BY ListedType, SetsAreFinite, FS_Subset
<1>2. tries[r] \in Nat
  BY ItemsAssumption DEF TypeOK
<1>3. ASSUME at'[r] = "reading" PROVE Cardinality(Listed') <= tries'[r]
  <2>1. at[r] = "reading" /\ tries'[r] = tries[r]
    BY <1>3
  <2>2. Cardinality(Listed) <= tries[r]
    BY <2>1 DEF AttemptsLast
  <2>. QED  BY <1>1, <1>2, <2>1, <2>2
<1>4. ASSUME at'[r] = "writing" PROVE Covers(r)'
  BY <1>4 DEF AttemptsLast, Covers
<1>. QED  BY <1>3, <1>4 DEF AttemptsLast

LEMMA AttemptsStep ==
    ASSUME Cardinality(Handles) <= Attempts, TypeOK, AttemptsLast, [Next]_vars
    PROVE  AttemptsLast'
<1>. DEFINE P(r) == /\ at[r] = "reading" => Cardinality(Listed) <= tries[r]
                    /\ at[r] = "writing" =>
                            Covers(r) /\ Cardinality(raw[r].handles) <= tries[r]
<1>0. Cardinality(Listed) \in Nat /\ Cardinality(Listed) <= Cardinality(Handles)
      /\ Cardinality(Handles) \in Nat
  BY ListedType, SetsAreFinite, FS_Subset, ItemsAssumption
<1>. SUFFICES ASSUME NEW q \in Requests PROVE P(q)'
  BY DEF AttemptsLast
<1>1. ASSUME NEW r \in Requests, NEW h \in Handles, Call(r, h) PROVE P(q)'
  <2>0. row' = row /\ Listed' = Listed
    BY <1>1 DEF Call, Listed
  <2>1. CASE q = r
    <3>1. at'[r] = "reading" /\ tries'[r] = Attempts
      BY <1>1 DEF Call, TypeOK
    <3>. QED  BY <1>0, <2>0, <2>1, <3>1, ItemsAssumption
  <2>2. CASE q # r
    <3>1. UNCHANGED <<at[q], raw[q], tries[q]>>
      BY <1>1, <2>2 DEF Call, TypeOK
    <3>. QED  BY <2>0, <3>1, ShrinkingIsFine
  <2>. QED  BY <2>1, <2>2
<1>2. ASSUME NEW r \in Requests, Read(r) PROVE P(q)'
  <2>0. row' = row /\ Listed' = Listed
    BY <1>2 DEF Read, Listed
  <2>1. CASE q = r
    <3>1. at'[r] = "writing" /\ raw'[r] = row /\ tries'[r] = tries[r]
      BY <1>2 DEF Read, TypeOK
    <3>2. row # NoEvent /\ Listed = row.handles
      BY <1>2 DEF Read, Listed
    <3>3. Cardinality(Listed) <= tries[r]
      BY <1>2 DEF Read, AttemptsLast
    <3>. QED  BY <2>0, <2>1, <3>1, <3>2, <3>3 DEF Covers
  <2>2. CASE q # r
    <3>1. UNCHANGED <<at[q], raw[q], tries[q]>>
      BY <1>2, <2>2 DEF Read, TypeOK
    <3>. QED  BY <2>0, <3>1, ShrinkingIsFine
  <2>. QED  BY <2>1, <2>2
<1>3. ASSUME NEW r \in Requests, ReadMissing(r) PROVE P(q)'
  <2>0. row' = row /\ Listed' = Listed
    BY <1>3 DEF ReadMissing, Listed
  <2>1. CASE q = r
    BY <1>3, <2>1 DEF ReadMissing, Return, TypeOK
  <2>2. CASE q # r
    <3>1. UNCHANGED <<at[q], raw[q], tries[q]>>
      BY <1>3, <2>2 DEF ReadMissing, Return, TypeOK
    <3>. QED  BY <2>0, <3>1, ShrinkingIsFine
  <2>. QED  BY <2>1, <2>2
<1>4. ASSUME NEW r \in Requests, Write(r) PROVE P(q)'
  <2>0. /\ Listed' = Listed \ {drop[r]} /\ drop[r] \in Listed
        /\ Return(r, IF Listed' = {} THEN "deleted" ELSE "pruned")
    BY <1>4, WriteMoves
  <2>1. CASE q = r
    BY <2>0, <2>1 DEF Return, TypeOK
  <2>2. CASE q # r
    <3>1. UNCHANGED <<at[q], raw[q], tries[q]>>
      BY <2>0, <2>2 DEF Return, TypeOK
    <3>. QED  BY <2>0, <3>1, ShrinkingIsFine
  <2>. QED  BY <2>1, <2>2
<1>5. ASSUME NEW r \in Requests, LoseRace(r) PROVE P(q)'
  <2>0. row' = row /\ Listed' = Listed
    BY <1>5 DEF LoseRace, Listed
  <2>1. CASE q # r
    <3>1. UNCHANGED <<at[q], raw[q], tries[q]>>
      BY <1>5, <2>1 DEF LoseRace, Return, TypeOK
    <3>. QED  BY <2>0, <3>1, ShrinkingIsFine
  <2>2. CASE q = r /\ tries[r] > 1
    <3>1. at'[r] = "reading" /\ tries'[r] = tries[r] - 1
      BY <1>5, <2>2 DEF LoseRace, TypeOK
    <3>2. Cardinality(Listed) < tries[r]
      <4>1. /\ Listed \subseteq raw[r].handles /\ Listed # raw[r].handles
            /\ Cardinality(raw[r].handles) <= tries[r]
        BY <1>5 DEF LoseRace, StillThere, AttemptsLast, Covers
      <4>2. raw[r].handles \in SUBSET Handles
        BY <1>5 DEF LoseRace, TypeOK, Payloads
      <4>3. Cardinality(Listed) < Cardinality(raw[r].handles)
            /\ Cardinality(raw[r].handles) \in Nat
        BY <4>1, <4>2, SetsAreFinite, FS_Subset
      <4>4. tries[r] \in Nat
        BY ItemsAssumption DEF TypeOK
      <4>. QED  BY <1>0, <4>1, <4>3, <4>4
    <3>3. tries[r] \in Nat
      BY ItemsAssumption DEF TypeOK
    <3>. QED  BY <1>0, <2>0, <2>2, <3>1, <3>2, <3>3
  <2>3. CASE q = r /\ ~(tries[r] > 1)
    BY <1>5, <2>3 DEF LoseRace, Return, TypeOK
  <2>. QED  BY <2>1, <2>2, <2>3
<1>6. CASE Wipe
  <2>1. Listed' = {} /\ UNCHANGED <<at[q], raw[q], tries[q]>>
    BY <1>6 DEF Wipe, Listed
  <2>2. CASE Listed = {}
    <3>0. row # NoEvent => row.handles \in (SUBSET Handles) \ {{}}
      BY DEF TypeOK, Payloads
    <3>1. row = NoEvent
      <4>. SUFFICES ASSUME row # NoEvent PROVE FALSE
        OBVIOUS
      <4>1. Listed = row.handles
        BY DEF Listed
      <4>2. row.handles # {}
        BY <3>0
      <4>. QED  BY <2>2, <4>1, <4>2
    <3>2. row' = row
      BY <1>6, <3>1 DEF Wipe
    <3>. QED  BY <2>1, <2>2, <3>2, ShrinkingIsFine
  <2>3. CASE Listed # {}
    BY <2>1, <2>3, ShrinkingIsFine
  <2>. QED  BY <2>2, <2>3
<1>7. CASE UNCHANGED vars
  <2>1. row' = row /\ Listed' = Listed /\ UNCHANGED <<at[q], raw[q], tries[q]>>
    BY <1>7 DEF vars, Listed
  <2>. QED  BY <2>1, ShrinkingIsFine
<1>. QED  BY <1>1, <1>2, <1>3, <1>4, <1>5, <1>6, <1>7 DEF Next

\* A request that gives up after its last attempt tells the truth.
LEMMA GivingUpIsMissing ==
    ASSUME TypeOK, AttemptsLast, NEW r \in Requests, LoseRace(r), ~(tries[r] > 1)
    PROVE  drop[r] \notin Listed
<1>1. /\ Listed \subseteq raw[r].handles /\ Listed # raw[r].handles
      /\ Cardinality(raw[r].handles) <= tries[r]
  BY DEF LoseRace, StillThere, AttemptsLast, Covers
<1>2. raw[r].handles \in SUBSET Handles
  BY DEF LoseRace, TypeOK, Payloads
<1>3. tries[r] \in Nat
  BY ItemsAssumption DEF TypeOK
<1>4. /\ Cardinality(Listed) < Cardinality(raw[r].handles)
      /\ Cardinality(raw[r].handles) \in Nat
      /\ Cardinality(Listed) \in Nat /\ IsFiniteSet(Listed)
  BY <1>1, <1>2, ListedType, SetsAreFinite, FS_Subset
<1>5. Cardinality(Listed) = 0
  BY <1>1, <1>3, <1>4
<1>. QED  BY <1>4, <1>5, FS_EmptySet

-----------------------------------------------------------------------------
(* Refinement *)

LEMMA InitRefines == Init => Promise!Init
<1>. SUFFICES ASSUME Init PROVE Promise!Init
  OBVIOUS
<1>1. row \in Payloads
  BY DEF Init
<1>2. Listed = row.handles
  BY <1>1, NoEventAssumption DEF Listed
<1>. QED  BY <1>1, <1>2 DEF Init, Promise!Init, Payloads

LEMMA StepRefines ==
    ASSUME TypeOK, AttemptsLast, [Next]_vars
    PROVE  [Promise!Next]_(Promise!vars)
<1>. USE DEF Promise!Next, Promise!vars
<1>1. ASSUME NEW r \in Requests, NEW h \in Handles, Call(r, h)
      PROVE  Promise!Ask(r, h)
  BY <1>1 DEF Call, Promise!Ask, TypeOK, Listed
<1>2. ASSUME NEW r \in Requests, Read(r) PROVE UNCHANGED Promise!vars
  BY <1>2 DEF Read, Listed
<1>3. ASSUME NEW r \in Requests, ReadMissing(r) PROVE Promise!Miss(r)
  <2>1. drop[r] # Nothing
    BY <1>3, ItemsAssumption DEF ReadMissing, TypeOK
  <2>. QED  BY <1>3, <2>1 DEF ReadMissing, Return, Promise!Miss, Promise!Answer, Listed
<1>4. ASSUME NEW r \in Requests, Write(r) PROVE Promise!TakeOut(r)
  <2>1. drop[r] # Nothing
    BY <1>4, ItemsAssumption DEF Write, TypeOK
  <2>2. /\ drop[r] \in Listed /\ Listed' = Listed \ {drop[r]}
        /\ Return(r, IF Listed' = {} THEN "deleted" ELSE "pruned")
    BY <1>4, WriteMoves
  <2>. QED  BY <2>1, <2>2 DEF Return, Promise!TakeOut, Promise!Answer
<1>5. ASSUME NEW r \in Requests, LoseRace(r), tries[r] > 1
      PROVE  UNCHANGED Promise!vars
  BY <1>5 DEF LoseRace, Listed
<1>6. ASSUME NEW r \in Requests, LoseRace(r), ~(tries[r] > 1)
      PROVE  Promise!Miss(r)
  <2>1. drop[r] # Nothing /\ drop[r] \notin Listed
    BY <1>6, GivingUpIsMissing, ItemsAssumption DEF LoseRace, TypeOK
  <2>2. Return(r, "missing") /\ row' = row
    BY <1>6 DEF LoseRace
  <2>. QED  BY <2>1, <2>2 DEF Return, Promise!Miss, Promise!Answer, Listed
<1>7. CASE Wipe
  BY <1>7 DEF Wipe, Promise!Wipe, Listed
<1>8. CASE UNCHANGED vars
  BY <1>8 DEF vars, Listed
<1>. QED  BY <1>1, <1>2, <1>3, <1>4, <1>5, <1>6, <1>7, <1>8 DEF Next

\* If a request may try as often as the alert has products, devices that dismiss
\* products at the same time see one dismissal after another.
THEOREM DismissalsLinearizable ==
    Cardinality(Handles) <= Attempts => (Spec => Linearizable)
<1>. SUFFICES ASSUME Cardinality(Handles) <= Attempts PROVE Spec => Promise!Spec
  BY DEF Linearizable
<1>1. Init => AttemptsLast
  BY DEF Init, AttemptsLast
<1>2. TypeOK /\ AttemptsLast /\ [Next]_vars => AttemptsLast'
  BY AttemptsStep
<1>3. TypeOK /\ AttemptsLast /\ [Next]_vars => [Promise!Next]_(Promise!vars)
  BY StepRefines
<1>. QED  BY <1>1, <1>2, <1>3, TypeCorrect, InitRefines, PTL DEF Spec, Promise!Spec
=============================================================================
