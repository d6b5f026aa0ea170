---------------------------- MODULE Load_proofs -----------------------------
(***************************************************************************)
(* What keeps the load on the stores within bounds, for any number of      *)
(* watches, fetches and slots: the lock and the semaphore of the tick      *)
(* (Polling), and the lock and the semaphore of a host (Fetcher).          *)
(***************************************************************************)
EXTENDS Polling, Fetcher, SequenceTheorems, FiniteSetTheorems, TLAPS

-----------------------------------------------------------------------------
(* Semaphores *)

\* Entering while there is room leaves no one over.
LEMMA OneMoreFits ==
    ASSUME NEW S, IsFiniteSet(S), NEW room \in Nat, Cardinality(S) < room, NEW x
    PROVE  IsFiniteSet(S \cup {x}) /\ Cardinality(S \cup {x}) <= room
<1>1. Cardinality(S) \in Nat
    BY FS_CardinalityType
<1>2. /\ IsFiniteSet(S \cup {x})
      /\ Cardinality(S \cup {x}) \in {Cardinality(S), Cardinality(S) + 1}
    BY FS_AddElement
<1> QED BY <1>1, <1>2

\* Leaving makes room.
LEMMA FewerFit ==
    ASSUME NEW S, IsFiniteSet(S), NEW room \in Nat, Cardinality(S) <= room,
           NEW T, T \subseteq S
    PROVE  IsFiniteSet(T) /\ Cardinality(T) <= room
<1>1. IsFiniteSet(T) /\ Cardinality(T) <= Cardinality(S)
    BY FS_Subset
<1>2. Cardinality(T) \in Nat /\ Cardinality(S) \in Nat
    BY <1>1, FS_CardinalityType
<1> QED BY <1>1, <1>2

-----------------------------------------------------------------------------
(* The tick *)

\* Between two ticks none of the tick's checks is under way.
TickIsWhole ==
    /\ stage \in [Callers \X Watches -> Stages]
    /\ ~ticking => \A w \in Watches : stage[<<Tick, w>>] = "none"

LEMMA TickInit == PollingInit => TickIsWhole
    BY DEF PollingInit, TickIsWhole, Stages, Callers

LEMMA TickStep == TickIsWhole /\ [PollingNext]_pollVars => TickIsWhole'
<1> SUFFICES ASSUME TickIsWhole, [PollingNext]_pollVars PROVE TickIsWhole'
    OBVIOUS
<1> USE DEF TickIsWhole, Stages, Callers
<1>1. CASE BeginTick
  <2>1. ticking' = TRUE
      BY <1>1 DEF BeginTick
  <2>2. PICK claims \in Claims :
            stage' = [r \in DOMAIN stage |->
                        IF r[1] = Tick /\ r[2] \in claims THEN "queued" ELSE stage[r]]
      BY <1>1 DEF BeginTick
  <2> QED BY <2>1, <2>2
<1>2. CASE EndTick
    BY <1>2 DEF EndTick
<1>3. ASSUME NEW c \in Callers, NEW w \in Watches, ForceCheck(c, w) PROVE TickIsWhole'
    BY <1>3 DEF ForceCheck
<1>4. ASSUME NEW c \in Callers, NEW w \in Watches, CheckStep(c, w) PROVE TickIsWhole'
  <2>1. ticking' = ticking
      BY <1>4 DEF CheckStep, Admit, Answered, Return
  <2>2. PICK to \in Stages : stage' = [stage EXCEPT ![<<c, w>>] = to]
      BY <1>4 DEF CheckStep, Admit, Answered, Return
  <2>3. stage[<<c, w>>] # "none"
      BY <1>4 DEF CheckStep, Admit, Answered, Return
  <2>4. stage' \in [Callers \X Watches -> Stages]
      BY <2>2
  <2>5. ASSUME ~ticking, NEW v \in Watches PROVE stage'[<<Tick, v>>] = "none"
    <3>1. stage[<<Tick, v>>] = "none"
        BY <2>5
    <3>2. <<c, w>> # <<Tick, v>>
        BY <2>3, <3>1
    <3> QED BY <2>2, <3>1, <3>2
  <2> QED BY <2>1, <2>4, <2>5
<1>5. CASE UNCHANGED <<ticking, stage>>
    BY <1>5
<1> QED
  <2>1. CASE EmptyTick \/ Outage \/ UNCHANGED pollVars
      BY <1>5, <2>1 DEF EmptyTick, Outage, pollVars
  <2>2. ASSUME NEW w \in Watches, ComesDue(w) \/ Hurry(w) \/ Create(w) \/ Delete(w)
        PROVE  TickIsWhole'
      BY <1>5, <2>2 DEF ComesDue, Hurry, Create, Delete
  <2>3. ASSUME NEW w \in Watches, NEW to, SetEnabled(w, to) PROVE TickIsWhole'
      BY <1>5, <2>3 DEF SetEnabled
  <2> QED BY <1>1, <1>2, <1>3, <1>4, <2>1, <2>2, <2>3 DEF PollingNext

\* However long a check of the tick takes, whoever forces checks, edits, pauses
\* or deletes meanwhile, the tick does not start the same watch again.
THEOREM ChecksDoNotOverlap == PollingSpec => NoOverlap
<1>1. ASSUME TickIsWhole, PollingNext, NEW w \in Watches, stage[<<Tick, w>>] # "none"
      PROVE  stage'[<<Tick, w>>] # "queued" \/ stage[<<Tick, w>>] = "queued"
  <2> USE DEF TickIsWhole, Stages, Callers
  <2>1. ~BeginTick
      BY <1>1 DEF BeginTick, Free
  <2>2. ASSUME NEW c \in Callers, NEW v \in Watches, ForceCheck(c, v)
        PROVE  stage'[<<Tick, w>>] = stage[<<Tick, w>>]
    <3>1. <<c, v>> # <<Tick, w>>
        BY <2>2 DEF ForceCheck
    <3> QED BY <2>2, <3>1 DEF ForceCheck
  <2>3. ASSUME NEW c \in Callers, NEW v \in Watches, CheckStep(c, v)
        PROVE  stage'[<<Tick, w>>] # "queued" \/ stage'[<<Tick, w>>] = stage[<<Tick, w>>]
    <3>1. PICK to \in Stages \ {"queued"} : stage' = [stage EXCEPT ![<<c, v>>] = to]
        BY <2>3 DEF CheckStep, Admit, Answered, Return
    <3> QED BY <1>1, <3>1
  <2>4. stage' = stage \/ \E c \in Callers, v \in Watches : ForceCheck(c, v) \/ CheckStep(c, v)
      BY <1>1, <2>1 DEF PollingNext, EmptyTick, EndTick, Outage, ComesDue, Hurry, Create,
                        Delete, SetEnabled
  <2> QED BY <2>2, <2>3, <2>4
<1>2. TickIsWhole /\ [PollingNext]_pollVars
        => [\A w \in Watches :
                stage[<<Tick, w>>] # "none" => stage'[<<Tick, w>>] # "queued"
                                               \/ stage[<<Tick, w>>] = "queued"]_pollVars
    BY <1>1
<1> QED BY <1>2, TickInit, TickStep, PTL DEF PollingSpec, NoOverlap

\* Whoever starts them, and however many watches there are, never more than
\* Slots checks ask their stores at once.
THEOREM SlotsSuffice == PollingSpec => [](Cardinality(Asking) <= Slots)
<1> DEFINE Fits == IsFiniteSet(Asking) /\ Cardinality(Asking) <= Slots
<1>1. PollingInit => Fits
  <2> SUFFICES ASSUME PollingInit PROVE Fits
      OBVIOUS
  <2>1. Asking = {}
      BY DEF PollingInit, Asking
  <2> QED BY <2>1, FS_EmptySet, PollingAssumption
<1>2. TickIsWhole /\ Fits /\ [PollingNext]_pollVars => Fits'
  <2> SUFFICES ASSUME TickIsWhole, Fits, [PollingNext]_pollVars PROVE Fits'
      OBVIOUS
  <2> USE DEF TickIsWhole
  <2>1. Slots \in Nat
      BY PollingAssumption
  <2>2. ASSUME NEW c \in Callers, NEW w \in Watches, Admit(c, w) PROVE Fits'
    <3>1. Asking' = Asking \cup {<<c, w>>} /\ Cardinality(Asking) < Slots
        BY <2>2 DEF Admit, Asking
    <3> QED BY <2>1, <3>1, OneMoreFits
  <2>3. CASE \A c \in Callers, w \in Watches : ~Admit(c, w)
    <3>1. Asking' \subseteq Asking
      <4>1. ASSUME NEW c \in Callers, NEW w \in Watches, ForceCheck(c, w)
            PROVE  Asking' \subseteq Asking
          BY <4>1 DEF ForceCheck, Asking
      <4>2. ASSUME NEW c \in Callers, NEW w \in Watches, CheckStep(c, w)
            PROVE  Asking' \subseteq Asking
        <5>1. PICK to \in {"reached", "refused", "none"} :
                stage' = [stage EXCEPT ![<<c, w>>] = to]
            BY <2>3, <4>2 DEF CheckStep, Answered, Return
        <5> QED BY <5>1 DEF Asking
      <4>3. CASE BeginTick
        <5>1. PICK claims \in Claims :
                stage' = [r \in DOMAIN stage |->
                            IF r[1] = Tick /\ r[2] \in claims THEN "queued" ELSE stage[r]]
            BY <4>3 DEF BeginTick
        <5> QED BY <5>1 DEF Asking
      <4>4. CASE stage' = stage
          BY <4>4 DEF Asking
      <4>5. \/ stage' = stage \/ BeginTick
            \/ \E c \in Callers, w \in Watches : ForceCheck(c, w) \/ CheckStep(c, w)
          BY DEF PollingNext, pollVars, EmptyTick, EndTick, Outage, ComesDue, Hurry, Create,
                 Delete, SetEnabled
      <4> QED BY <4>1, <4>2, <4>3, <4>4, <4>5
    <3> QED BY <2>1, <3>1, FewerFit
  <2> QED BY <2>2, <2>3
<1>3. Fits => Cardinality(Asking) <= Slots
    OBVIOUS
<1> HIDE DEF Fits
<1> QED BY <1>1, <1>2, <1>3, TickInit, TickStep, PTL DEF PollingSpec

-----------------------------------------------------------------------------
(* The line of those that are due *)

LEMMA Removing ==
    ASSUME NEW S, NEW s \in Seq(S), NEW k \in DOMAIN s
    PROVE  /\ RemoveAt(s, k) \in Seq(S)
           /\ DOMAIN RemoveAt(s, k) = 1..(Len(s) - 1)
           /\ \A i \in 1..(Len(s) - 1) :
                RemoveAt(s, k)[i] = IF i < k THEN s[i] ELSE s[i + 1]
<1> DEFINE a == SubSeq(s, 1, k - 1)
           b == SubSeq(s, k + 1, Len(s))
           t == RemoveAt(s, k)
<1>1. /\ Len(s) \in Nat /\ DOMAIN s = 1..Len(s) /\ k \in 1..Len(s)
      /\ \A i \in 1..Len(s) : s[i] \in S
    BY LenProperties, ElementOfSeq
<1>2. /\ a \in Seq(S) /\ Len(a) = k - 1
      /\ \A i \in 1..(k - 1) : a[i] = s[i]
  <2>1. \A i \in 1..(k - 1) : s[i] \in S
      BY <1>1
  <2>2. /\ a \in Seq(S) /\ Len(a) = IF 1 <= k - 1 THEN k - 1 - 1 + 1 ELSE 0
        /\ \A i \in 1..(k - 1 - 1 + 1) : a[i] = s[1 + i - 1]
      BY <1>1, <2>1, SubSeqProperties
  <2> HIDE DEF a
  <2> QED BY <1>1, <2>2
<1>3. /\ b \in Seq(S) /\ Len(b) = Len(s) - k
      /\ \A i \in 1..(Len(s) - k) : b[i] = s[k + i]
  <2>1. \A i \in (k + 1)..Len(s) : s[i] \in S
      BY <1>1
  <2>2. /\ b \in Seq(S)
        /\ Len(b) = IF k + 1 <= Len(s) THEN Len(s) - (k + 1) + 1 ELSE 0
        /\ \A i \in 1..(Len(s) - (k + 1) + 1) : b[i] = s[(k + 1) + i - 1]
      BY <1>1, <2>1, SubSeqProperties
  <2> HIDE DEF b
  <2>3. /\ Len(s) - (k + 1) + 1 = Len(s) - k
        /\ k + 1 <= Len(s) \/ Len(s) - k = 0
        /\ \A i \in 1..(Len(s) - k) : (k + 1) + i - 1 = k + i
      BY <1>1
  <2> QED BY <1>1, <2>2, <2>3
<1>4. t = a \o b
    BY DEF RemoveAt
<1> HIDE DEF a, b, t
<1>5. /\ t \in Seq(S)
      /\ Len(t) = Len(a) + Len(b)
      /\ \A i \in 1..(Len(a) + Len(b)) : t[i] = IF i <= Len(a) THEN a[i] ELSE b[i - Len(a)]
    BY <1>2, <1>3, <1>4, ConcatProperties
<1>6. DOMAIN t = 1..(Len(s) - 1)
    BY <1>1, <1>2, <1>3, <1>5
<1>7. ASSUME NEW i \in 1..(Len(s) - 1) PROVE t[i] = IF i < k THEN s[i] ELSE s[i + 1]
  <2>1. i \in 1..(Len(a) + Len(b)) /\ k \in Nat
      BY <1>1, <1>2, <1>3
  <2>2. CASE i < k
    <3>1. i <= Len(a) /\ i \in 1..(k - 1)
        BY <1>2, <2>1, <2>2
    <3> QED BY <1>2, <1>5, <2>1, <2>2, <3>1
  <2>3. CASE ~(i < k)
    <3>1. ~(i <= Len(a)) /\ i - Len(a) \in 1..(Len(s) - k) /\ k + (i - Len(a)) = i + 1
        BY <1>1, <1>2, <2>1, <2>3
    <3>2. t[i] = b[i - Len(a)] /\ b[i - Len(a)] = s[k + (i - Len(a))]
        BY <1>3, <1>5, <2>1, <3>1
    <3> QED BY <2>3, <3>1, <3>2
  <2> QED BY <2>2, <2>3
<1> QED BY <1>5, <1>6, <1>7 DEF t

\* Nobody stands twice in line.
Single(line) == \A i, j \in DOMAIN line : line[i] = line[j] => i = j

Stands(line, w) == \E i \in DOMAIN line : line[i] = w

\* v stands somewhere in front of w.
InFront(line, v, w) == \E i, j \in DOMAIN line : i < j /\ line[i] = v /\ line[j] = w

\* Who leaves the line leaves the others in it, and in their order.
LEMMA Leaving ==
    ASSUME NEW line \in Seq(Watches), Single(line), NEW w
    PROVE  /\ Without(line, w) \in Seq(Watches)
           /\ Single(Without(line, w))
           /\ \A v : Stands(Without(line, w), v) <=> Stands(line, v) /\ v # w
           /\ \A u, v : InFront(Without(line, w), u, v) => InFront(line, u, v)
<1>1. CASE ~Stands(line, w)
  <2>1. Without(line, w) = line
      BY <1>1 DEF Without, Stands
  <2> QED BY <1>1, <2>1
<1>2. CASE Stands(line, w)
  <2> DEFINE t == Without(line, w)
  <2>1. PICK k \in DOMAIN line : line[k] = w /\ t = RemoveAt(line, k)
      BY <1>2 DEF Stands, Without
  <2> HIDE DEF t
  <2>2. Len(line) \in Nat /\ DOMAIN line = 1..Len(line) /\ k \in Nat
      BY LenProperties
  <2>3. /\ t \in Seq(Watches)
        /\ DOMAIN t = 1..(Len(line) - 1)
        /\ \A i \in 1..(Len(line) - 1) : t[i] = IF i < k THEN line[i] ELSE line[i + 1]
      BY <2>1, Removing
  <2> DEFINE was(i) == IF i < k THEN i ELSE i + 1
  <2>4. \A i \in DOMAIN t : was(i) \in DOMAIN line /\ was(i) # k /\ t[i] = line[was(i)]
      BY <2>2, <2>3
  <2>5. \A i, j \in DOMAIN t : /\ was(i) = was(j) => i = j
                               /\ i < j => was(i) < was(j)
      BY <2>2, <2>3
  <2>6. \A i \in DOMAIN line : i # k => \E j \in DOMAIN t : was(j) = i
    <3> SUFFICES ASSUME NEW i \in DOMAIN line, i # k PROVE \E j \in DOMAIN t : was(j) = i
        OBVIOUS
    <3>1. CASE i < k
      <4>1. i \in DOMAIN t /\ was(i) = i
          BY <2>2, <2>3, <3>1
      <4> QED BY <4>1
    <3>2. CASE ~(i < k)
      <4>1. i - 1 \in DOMAIN t /\ was(i - 1) = i
          BY <2>2, <2>3, <3>2
      <4> QED BY <4>1
    <3> QED BY <3>1, <3>2
  <2> HIDE DEF was
  <2>7. Single(t)
      BY <2>4, <2>5 DEF Single
  <2>8. \A v : Stands(t, v) <=> Stands(line, v) /\ v # w
    <3>1. ASSUME NEW i \in DOMAIN t PROVE Stands(line, t[i]) /\ t[i] # w
        BY <2>1, <2>4 DEF Stands, Single
    <3>2. ASSUME NEW i \in DOMAIN line, line[i] # w PROVE Stands(t, line[i])
        BY <2>1, <2>4, <2>6, <3>2 DEF Stands
    <3> QED BY <3>1, <3>2 DEF Stands
  <2>9. \A u, v : InFront(t, u, v) => InFront(line, u, v)
      BY <2>4, <2>5 DEF InFront
  <2> QED BY <2>3, <2>7, <2>8, <2>9 DEF t
<1> QED BY <1>1, <1>2

\* Who joins the line stands at its end.
LEMMA Joining ==
    ASSUME NEW line \in Seq(Watches), Single(line), NEW w \in Watches, ~Stands(line, w)
    PROVE  /\ Append(line, w) \in Seq(Watches)
           /\ Single(Append(line, w))
           /\ \A v : Stands(Append(line, w), v) <=> Stands(line, v) \/ v = w
           /\ \A u, v : InFront(Append(line, w), u, v) /\ v # w => InFront(line, u, v)
<1> DEFINE t == Append(line, w)
<1>1. /\ t \in Seq(Watches) /\ Len(t) = Len(line) + 1
      /\ \A i \in 1..Len(line) : t[i] = line[i]
      /\ t[Len(line) + 1] = w
    BY AppendProperties
<1>2. Len(line) \in Nat /\ DOMAIN line = 1..Len(line) /\ DOMAIN t = 1..(Len(line) + 1)
    BY <1>1, LenProperties
<1> HIDE DEF t
<1>3. \A i \in DOMAIN t : \/ i \in DOMAIN line /\ t[i] = line[i] /\ t[i] # w
                          \/ i = Len(line) + 1 /\ t[i] = w
    BY <1>1, <1>2 DEF Stands
<1>4. \A i \in DOMAIN line : i \in DOMAIN t /\ t[i] = line[i]
    BY <1>1, <1>2
<1>5. Len(line) + 1 \in DOMAIN t
    BY <1>2
<1>6. Single(t)
    BY <1>3 DEF Single
<1>7. \A v : Stands(t, v) <=> Stands(line, v) \/ v = w
    BY <1>1, <1>3, <1>4, <1>5 DEF Stands
<1>8. ASSUME NEW i \in DOMAIN t, NEW j \in DOMAIN t, i < j, t[j] # w
      PROVE  i \in DOMAIN line /\ j \in DOMAIN line /\ t[i] = line[i] /\ t[j] = line[j]
    BY <1>1, <1>2, <1>3, <1>8
<1>9. \A u, v : InFront(t, u, v) /\ v # w => InFront(line, u, v)
    BY <1>8 DEF InFront
<1> QED BY <1>1, <1>6, <1>7, <1>9 DEF t

\* The lines, as PollingTypeOK has them.
LinesAreSound ==
    /\ status \in [Watches -> {"unborn", "on", "paused", "gone"}]
    /\ hurried \subseteq Watches
    /\ late \in Seq(Watches)
    /\ Single(late)
    /\ \A w \in Watches : w \in hurried => ~Stands(late, w)
    /\ \A w \in Watches : w \in hurried \/ Stands(late, w) => status[w] \in {"on", "paused"}

LEMMA LinesInit == PollingInit => LinesAreSound
<1> SUFFICES ASSUME PollingInit PROVE LinesAreSound
    OBVIOUS
<1>1. late \in Seq(Watches) /\ DOMAIN late = {}
    BY EmptySeq, LenProperties DEF PollingInit
<1> QED BY <1>1 DEF PollingInit, LinesAreSound, Single, Stands

\* Who leaves both lines leaves them sound.
LEMMA LinesLeft ==
    ASSUME LinesAreSound, NEW w \in Watches, Leaves(w),
           status' \in [Watches -> {"unborn", "on", "paused", "gone"}],
           \A v \in Watches : v # w => status'[v] = status[v]
    PROVE  LinesAreSound'
<1>1. /\ late' \in Seq(Watches)
      /\ Single(late')
      /\ \A v : Stands(late', v) <=> Stands(late, v) /\ v # w
    BY Leaving DEF Leaves, LinesAreSound
<1>2. hurried' = hurried \ {w}
    BY DEF Leaves
<1> QED BY <1>1, <1>2 DEF LinesAreSound

LEMMA LinesStep == LinesAreSound /\ [PollingNext]_pollVars => LinesAreSound'
<1> SUFFICES ASSUME LinesAreSound, [PollingNext]_pollVars PROVE LinesAreSound'
    OBVIOUS
<1>1. ASSUME NEW w \in Watches, ComesDue(w) PROVE LinesAreSound'
  <2>1. ~Stands(late, w) /\ w \notin hurried /\ status[w] \in {"on", "paused"}
      BY <1>1 DEF ComesDue, IsLate, Stands
  <2>2. /\ late' \in Seq(Watches)
        /\ Single(late')
        /\ \A v : Stands(late', v) <=> Stands(late, v) \/ v = w
      BY <1>1, <2>1, Joining DEF ComesDue, LinesAreSound
  <2> QED BY <1>1, <2>1, <2>2 DEF ComesDue, LinesAreSound
<1>2. ASSUME NEW w \in Watches, Hurry(w) PROVE LinesAreSound'
  <2>1. /\ late' \in Seq(Watches)
        /\ Single(late')
        /\ \A v : Stands(late', v) <=> Stands(late, v) /\ v # w
      BY <1>2, Leaving DEF Hurry, LinesAreSound
  <2> QED BY <1>2, <2>1 DEF Hurry, LinesAreSound
<1>3. ASSUME NEW w \in Watches, Create(w) PROVE LinesAreSound'
    BY <1>3 DEF Create, LinesAreSound
<1>4. ASSUME NEW w \in Watches, NEW to \in {"on", "paused"}, SetEnabled(w, to)
      PROVE  LinesAreSound'
  <2>1. status[w] \in {"on", "paused"}
      BY <1>4 DEF SetEnabled
  <2> QED BY <1>4, <2>1 DEF SetEnabled, LinesAreSound
<1>5. ASSUME NEW w \in Watches, Delete(w) PROVE LinesAreSound'
  <2>1. /\ Leaves(w)
        /\ status' = [status EXCEPT ![w] = "gone"]
      BY <1>5 DEF Delete
  <2>2. /\ status' \in [Watches -> {"unborn", "on", "paused", "gone"}]
        /\ \A v \in Watches : v # w => status'[v] = status[v]
      BY <2>1 DEF LinesAreSound
  <2> QED BY <2>1, <2>2, LinesLeft
<1>6. ASSUME NEW c \in Callers, NEW w \in Watches, NEW pauses \in BOOLEAN,
             Return(c, w, pauses)
      PROVE  LinesAreSound'
  <2>1. /\ Leaves(w)
        /\ status' = IF pauses THEN [status EXCEPT ![w] = "paused"] ELSE status
      BY <1>6 DEF Return
  <2>2. /\ status' \in [Watches -> {"unborn", "on", "paused", "gone"}]
        /\ \A v \in Watches : v # w => status'[v] = status[v]
      BY <2>1 DEF LinesAreSound
  <2> QED BY <2>1, <2>2, LinesLeft
<1>7. CASE UNCHANGED lines
    BY <1>7 DEF lines, LinesAreSound
<1>8. \/ UNCHANGED lines
      \/ \E w \in Watches : \/ ComesDue(w) \/ Hurry(w) \/ Create(w) \/ Delete(w)
                            \/ \E to \in {"on", "paused"} : SetEnabled(w, to)
                            \/ \E c \in Callers, pauses \in BOOLEAN : Return(c, w, pauses)
  <2>1. CASE UNCHANGED pollVars \/ EmptyTick \/ BeginTick \/ EndTick \/ Outage
      BY <2>1 DEF pollVars, EmptyTick, BeginTick, EndTick, Outage
  <2>2. ASSUME NEW c \in Callers, NEW w \in Watches,
               \/ ForceCheck(c, w) \/ Admit(c, w)
               \/ \E outcome \in {"reached", "refused"} : Answered(c, w, outcome)
        PROVE  UNCHANGED lines
      BY <2>2 DEF ForceCheck, Admit, Answered
  <2> QED BY <2>1, <2>2 DEF PollingNext, CheckStep
<1> QED BY <1>1, <1>2, <1>3, <1>4, <1>5, <1>6, <1>7, <1>8

\* What the rest of PollingTypeOK says, but for the semaphore.
RestIsSound ==
    /\ {reachable, ticking, worked} \subseteq BOOLEAN
    /\ claimed \subseteq Watches
    /\ heart \in {"ok", "fail"}

\* Every state of the polling loop has the shape PollingTypeOK gives it: in
\* particular no watch waits twice, and no deleted watch waits at all.
THEOREM PollingTypeCorrect == PollingSpec => []PollingTypeOK
<1>1. PollingInit => RestIsSound
    BY DEF PollingInit, RestIsSound
<1>2. TickIsWhole /\ RestIsSound /\ [PollingNext]_pollVars => RestIsSound'
  <2> SUFFICES ASSUME TickIsWhole, RestIsSound, [PollingNext]_pollVars PROVE RestIsSound'
      OBVIOUS
  <2> USE DEF RestIsSound
  <2>1. CASE BeginTick
      BY <2>1 DEF BeginTick, Claims, Ready
  <2>2. CASE EndTick
      BY <2>2 DEF EndTick, Verdict
  <2>3. ASSUME NEW c \in Callers, NEW w \in Watches, ForceCheck(c, w) \/ CheckStep(c, w)
        PROVE  RestIsSound'
    <3>1. UNCHANGED <<reachable, ticking, claimed, heart>>
        BY <2>3 DEF ForceCheck, CheckStep, Admit, Answered, Return
    <3>2. worked' \in BOOLEAN
        BY <2>3 DEF ForceCheck, CheckStep, Admit, Answered, Return
    <3> QED BY <3>1, <3>2
  <2>4. CASE EmptyTick \/ Outage \/ UNCHANGED pollVars
      BY <2>4 DEF EmptyTick, Outage, pollVars
  <2>5. ASSUME NEW w \in Watches, ComesDue(w) \/ Hurry(w) \/ Create(w) \/ Delete(w)
        PROVE  RestIsSound'
      BY <2>5 DEF ComesDue, Hurry, Create, Delete
  <2>6. ASSUME NEW w \in Watches, NEW to, SetEnabled(w, to) PROVE RestIsSound'
      BY <2>6 DEF SetEnabled
  <2> QED BY <2>1, <2>2, <2>3, <2>4, <2>5, <2>6 DEF PollingNext
<1>3. TickIsWhole /\ LinesAreSound /\ RestIsSound /\ Cardinality(Asking) <= Slots
        => PollingTypeOK
    BY DEF TickIsWhole, LinesAreSound, RestIsSound, PollingTypeOK, Asking, Single, Stands
<1> QED BY <1>1, <1>2, <1>3, TickInit, TickStep, LinesInit, LinesStep, SlotsSuffice, PTL
        DEF PollingSpec

\* Of two watches that are due and stay due, neither gets in front of the other
\* unless a person arms or creates it: however ticks, checks, pauses and
\* deletions interleave, the oldest keeps its place.
NobodyOvertakes ==
    [][\A v, w \in Watches :
        w \in Ready /\ w \in Ready' /\ Before(v, w)'
            => Before(v, w) \/ Hurry(v) \/ Create(v)]_pollVars

THEOREM TheLineIsKept == PollingSpec => NobodyOvertakes
<1>1. ASSUME LinesAreSound, PollingNext, NEW v \in Watches, NEW w \in Watches,
             w \in Ready, w \in Ready', Before(v, w)', ~Hurry(v), ~Create(v)
      PROVE  Before(v, w)
  <2>1. /\ w \in hurried \/ Stands(late, w)
        /\ w \in hurried' \/ Stands(late', w)
      BY <1>1 DEF Ready, IsLate, Stands
  <2>2. (v \in hurried' /\ w \notin hurried') \/ InFront(late', v, w)
      BY <1>1 DEF Before, InFront
  <2>3. SUFFICES (v \in hurried /\ w \notin hurried) \/ InFront(late, v, w)
      BY DEF Before, InFront
  <2>4. CASE UNCHANGED <<hurried, late>>
      BY <2>2, <2>4
  <2>5. ASSUME NEW x \in Watches, Leaves(x)
        PROVE  (v \in hurried /\ w \notin hurried) \/ InFront(late, v, w)
    <3>1. /\ \A y : Stands(late', y) <=> Stands(late, y) /\ y # x
          /\ InFront(late', v, w) => InFront(late, v, w)
          /\ hurried' = hurried \ {x}
        BY <1>1, <2>5, Leaving DEF Leaves, LinesAreSound
    <3>2. w # x
        BY <2>1, <3>1
    <3> QED BY <2>2, <3>1, <3>2
  <2>6. ASSUME NEW x \in Watches, ComesDue(x)
        PROVE  (v \in hurried /\ w \notin hurried) \/ InFront(late, v, w)
    <3>1. x \notin hurried /\ ~Stands(late, x) /\ late' = Append(late, x) /\ hurried' = hurried
        BY <2>6 DEF ComesDue, IsLate, Stands
    <3>2. w # x
        BY <2>1, <3>1
    <3>3. InFront(late', v, w) => InFront(late, v, w)
        BY <1>1, <3>1, <3>2, Joining DEF LinesAreSound
    <3> QED BY <2>2, <3>1, <3>3
  <2>7. ASSUME NEW x \in Watches, Hurry(x)
        PROVE  (v \in hurried /\ w \notin hurried) \/ InFront(late, v, w)
    <3>1. /\ InFront(late', v, w) => InFront(late, v, w)
          /\ hurried' = hurried \cup {x}
        BY <1>1, <2>7, Leaving DEF Hurry, LinesAreSound
    <3>2. v # x
        BY <1>1, <2>7
    <3> QED BY <2>2, <3>1, <3>2
  <2>8. ASSUME NEW x \in Watches, Create(x)
        PROVE  (v \in hurried /\ w \notin hurried) \/ InFront(late, v, w)
    <3>1. v # x
        BY <1>1, <2>8
    <3> QED BY <2>2, <2>8, <3>1 DEF Create
  <2>9. \/ UNCHANGED <<hurried, late>>
        \/ \E x \in Watches : Leaves(x) \/ ComesDue(x) \/ Hurry(x) \/ Create(x)
    <3>1. CASE EmptyTick \/ BeginTick \/ EndTick \/ Outage
        BY <3>1 DEF EmptyTick, BeginTick, EndTick, Outage, lines
    <3>2. ASSUME NEW c \in Callers, NEW x \in Watches,
                 \/ ForceCheck(c, x) \/ Admit(c, x)
                 \/ \E outcome \in {"reached", "refused"} : Answered(c, x, outcome)
          PROVE  UNCHANGED <<hurried, late>>
        BY <3>2 DEF ForceCheck, Admit, Answered, lines
    <3>3. ASSUME NEW c \in Callers, NEW x \in Watches, NEW pauses, Return(c, x, pauses)
          PROVE  Leaves(x)
        BY <3>3 DEF Return
    <3>4. ASSUME NEW x \in Watches, NEW to, SetEnabled(x, to)
          PROVE  UNCHANGED <<hurried, late>>
        BY <3>4 DEF SetEnabled
    <3>5. ASSUME NEW x \in Watches, Delete(x) PROVE Leaves(x)
        BY <3>5 DEF Delete
    <3> QED BY <1>1, <3>1, <3>2, <3>3, <3>4, <3>5 DEF PollingNext, CheckStep
  <2> QED BY <2>4, <2>5, <2>6, <2>7, <2>8, <2>9
<1>2. LinesAreSound /\ [PollingNext]_pollVars
        => [\A v, w \in Watches :
                w \in Ready /\ w \in Ready' /\ Before(v, w)'
                    => Before(v, w) \/ Hurry(v) \/ Create(v)]_pollVars
    BY <1>1
<1> QED BY <1>2, LinesInit, LinesStep, PTL DEF PollingSpec, NobodyOvertakes

-----------------------------------------------------------------------------
(* One host *)

\* Whoever sleeps under the lock is alone there, and when its sleep is over the
\* gap is over too.
LockIsHeld ==
    /\ \A f, g \in Pacing : f = g
    /\ \A f \in Pacing : nap[f] + since >= MinGap

Shape ==
    /\ at \in [Fetches -> Places]
    /\ nap \in [Fetches -> Nat]
    /\ attempt \in [Fetches -> 0..Retries]
    /\ since \in 0..MinGap

\* The variables keep their types.
LEMMA ShapeStep == Shape /\ [Next]_vars => Shape'
<1> SUFFICES ASSUME Shape, [Next]_vars PROVE Shape'
    OBVIOUS
<1> USE FetcherAssumption DEF Shape, Places
<1>1. CASE Passes
    BY <1>1 DEF Passes
<1>2. ASSUME NEW f \in Fetches, Call(f) PROVE Shape'
    BY <1>2 DEF Call
<1>3. ASSUME NEW f \in Fetches, Acquire(f) PROVE Shape'
    BY <1>3 DEF Acquire
<1>4. ASSUME NEW f \in Fetches, Enter(f) PROVE Shape'
    BY <1>4 DEF Enter, Go
<1>5. ASSUME NEW f \in Fetches, Paced(f) PROVE Shape'
    BY <1>5 DEF Paced, Go
<1>6. ASSUME NEW f \in Fetches, Settle(f) PROVE Shape'
    BY <1>6 DEF Settle
<1>7. ASSUME NEW f \in Fetches, Rest(f) PROVE Shape'
  <2>1. PICK pause \in 0..MaxPause : nap' = [nap EXCEPT ![f] = pause]
      BY <1>7 DEF Rest
  <2>2. attempt' \in [Fetches -> 0..Retries]
      BY <1>7 DEF Rest
  <2> QED BY <1>7, <2>1, <2>2 DEF Rest
<1>8. ASSUME NEW f \in Fetches, Again(f) PROVE Shape'
    BY <1>8 DEF Again
<1>9. CASE UNCHANGED vars
    BY <1>9 DEF vars
<1> QED BY <1>1, <1>2, <1>3, <1>4, <1>5, <1>6, <1>7, <1>8, <1>9 DEF Next

\* No step lets a second fetch past the lock, and the sleep under it covers
\* what is left of the gap.
LEMMA LockStep == Shape /\ LockIsHeld /\ [Next]_vars => LockIsHeld'
<1> SUFFICES ASSUME Shape, LockIsHeld, [Next]_vars PROVE LockIsHeld'
    OBVIOUS
<1> USE FetcherAssumption DEF LockIsHeld, Pacing, Shape
<1>1. CASE Passes
    BY <1>1 DEF Passes
<1>2. ASSUME NEW f \in Fetches, Call(f) PROVE LockIsHeld'
    BY <1>2 DEF Call
<1>3. ASSUME NEW f \in Fetches, Acquire(f) PROVE LockIsHeld'
    BY <1>3 DEF Acquire
<1>4. ASSUME NEW f \in Fetches, Enter(f) PROVE LockIsHeld'
  <2>1. CASE since < MinGap
    <3>1. \A g \in Fetches : at'[g] = "pacing" <=> g = f
        BY <1>4, <2>1 DEF Enter, LockFree
    <3>2. nap'[f] + since' >= MinGap
        BY <1>4, <2>1 DEF Enter
    <3> QED BY <3>1, <3>2
  <2>2. CASE ~(since < MinGap)
      BY <1>4, <2>2 DEF Enter, Go, LockFree
  <2> QED BY <2>1, <2>2
<1>5. ASSUME NEW f \in Fetches, Paced(f) PROVE LockIsHeld'
    BY <1>5 DEF Paced, Go
<1>6. ASSUME NEW f \in Fetches, Settle(f) PROVE LockIsHeld'
    BY <1>6 DEF Settle
<1>7. ASSUME NEW f \in Fetches, Rest(f) PROVE LockIsHeld'
  <2>1. \A g \in Fetches : at'[g] = "pacing" => at[g] = "pacing" /\ g # f
      BY <1>7 DEF Rest
  <2>2. \A g \in Fetches : g # f => nap'[g] = nap[g]
      BY <1>7 DEF Rest
  <2> QED BY <1>7, <2>1, <2>2 DEF Rest
<1>8. ASSUME NEW f \in Fetches, Again(f) PROVE LockIsHeld'
    BY <1>8 DEF Again
<1>9. CASE UNCHANGED vars
    BY <1>9 DEF vars
<1> QED BY <1>1, <1>2, <1>3, <1>4, <1>5, <1>6, <1>7, <1>8, <1>9 DEF Next

\* The semaphore admits one fetch at a time, and only while there is room.
LEMMA HoldersStep == TypeOK /\ [Next]_vars => Cardinality(Holders') <= Concurrency
<1> SUFFICES ASSUME TypeOK, [Next]_vars PROVE Cardinality(Holders') <= Concurrency
    OBVIOUS
<1> USE DEF TypeOK
<1>1. IsFiniteSet(Holders) /\ Concurrency \in Nat
    BY FetcherAssumption, FS_Subset DEF Holders
<1>2. ASSUME NEW f \in Fetches, Acquire(f) PROVE Cardinality(Holders') <= Concurrency
  <2>1. Holders' = Holders \cup {f}
      BY <1>2 DEF Acquire, Holders
  <2>2. Cardinality(Holders) < Concurrency
      BY <1>2 DEF Acquire
  <2> QED BY <1>1, <2>1, <2>2, OneMoreFits
<1>3. CASE \A f \in Fetches : ~Acquire(f)
  <2>1. Holders' \subseteq Holders
      BY <1>3 DEF Holders, Next, vars, Passes, Call, Enter, Paced, Go, Settle, Rest, Again
  <2> QED BY <1>1, <2>1, FewerFit
<1> QED BY <1>2, <1>3

\* Every variable keeps its type, and never more than Concurrency fetches are
\* past the semaphore of a host.
THEOREM TypeCorrect == Spec => []TypeOK
<1>1. Init => TypeOK
  <2> SUFFICES ASSUME Init PROVE TypeOK
      OBVIOUS
  <2>1. Holders = {}
      BY DEF Init, Holders
  <2> QED BY <2>1, FetcherAssumption, FS_EmptySet DEF Init, TypeOK, Places
<1>2. TypeOK /\ [Next]_vars => TypeOK'
    BY ShapeStep, HoldersStep DEF TypeOK, Shape, Holders
<1> QED BY <1>1, <1>2, PTL DEF Spec

\* However many fetches wait for a host, two requests to it never start closer
\* together than the gap.
THEOREM Spaced == Spec => RequestsAreSpaced
<1>1. Init => Shape /\ LockIsHeld
    BY FetcherAssumption DEF Init, Shape, LockIsHeld, Pacing, Places
<1>2. Shape /\ LockIsHeld /\ [Next]_vars => (Shape /\ LockIsHeld)'
    BY ShapeStep, LockStep
<1>3. Shape /\ LockIsHeld /\ [Next]_vars
        => [\A f \in Fetches : Departs(f) => since = MinGap]_vars
  <2> SUFFICES ASSUME Shape, LockIsHeld, Next, NEW f \in Fetches, Departs(f)
               PROVE  since = MinGap
      OBVIOUS
  <2>1. Enter(f) \/ Paced(f)
      BY DEF Departs, Next, Shape, Passes, Call, Acquire, Enter, Go, Paced, Settle, Rest, Again
  <2>2. CASE Enter(f)
      BY <2>2, FetcherAssumption DEF Enter, Departs, Shape
  <2>3. CASE Paced(f)
      BY <2>3, FetcherAssumption DEF Paced, Shape, LockIsHeld, Pacing
  <2> QED BY <2>1, <2>2, <2>3
<1> QED BY <1>1, <1>2, <1>3, PTL DEF Spec, RequestsAreSpaced
=============================================================================
