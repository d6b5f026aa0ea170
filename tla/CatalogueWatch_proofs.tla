----------------------- MODULE CatalogueWatch_proofs ------------------------
(***************************************************************************)
(* What holds of CatalogueWatch for any set of products, any page size and *)
(* cap, and any saved searches.                                            *)
(***************************************************************************)
EXTENDS CatalogueWatch, SequenceTheorems, FiniteSetTheorems, TLAPS

\* What the watch knows; a watch without a baseline knows nothing.
Remembered(w) == IF w.baseline = NoBaseline THEN {} ELSE w.baseline

\* The products a validator speaks for.
TagHandles(tag) == {tag[i][1] : i \in DOMAIN tag}

-----------------------------------------------------------------------------
(* Reading pages *)

\* What a sweep has read is a function from some handles to what they showed.
LEMMA ReadType ==
    ASSUME NEW read
    PROVE  read \in UNION {[S -> Seen] : S \in SUBSET Handles}
             <=> DOMAIN read \subseteq Handles /\ read \in [DOMAIN read -> Seen]
<1>1. ASSUME read \in UNION {[S -> Seen] : S \in SUBSET Handles}
      PROVE  DOMAIN read \subseteq Handles /\ read \in [DOMAIN read -> Seen]
  <2>1. PICK S \in SUBSET Handles : read \in [S -> Seen]
    BY <1>1
  <2>2. QED BY <2>1
<1>2. ASSUME DOMAIN read \subseteq Handles, read \in [DOMAIN read -> Seen]
      PROVE  read \in UNION {[S -> Seen] : S \in SUBSET Handles}
  BY <1>2
<1>3. QED BY <1>1, <1>2

\* A page shows as many products as it lists: all it may, unless the shelf ends.
LEMMA PageLength ==
    ASSUME shelf \in Seq(Handles), IsInjective(shelf), NEW k \in Nat \ {0}
    PROVE  /\ IsFiniteSet(ItemsOn(k))
           /\ ItemsOn(k) \subseteq Listed
           /\ Cardinality(ItemsOn(k)) = IF Len(shelf) >= k * PageSize THEN PageSize
                                        ELSE IF Len(shelf) > (k - 1) * PageSize
                                        THEN Len(shelf) - (k - 1) * PageSize ELSE 0
<1> DEFINE lo == (k - 1) * PageSize
           n  == IF Len(shelf) >= lo + PageSize THEN PageSize
                 ELSE IF Len(shelf) > lo THEN Len(shelf) - lo ELSE 0
           f  == [i \in 1..n |-> shelf[lo + i]]
<1>1. lo \in Nat /\ k * PageSize = lo + PageSize /\ PageSize \in Nat \ {0}
  BY ConstantsAssumption
<1>2. Len(shelf) \in Nat /\ DOMAIN shelf = 1..Len(shelf)
  BY LenProperties
<1>3. n \in Nat /\ \A i \in 1..n : lo + i \in DOMAIN shelf
  <2> HIDE DEF lo
  <2>1. QED BY <1>1, <1>2
<1>4. ItemsOn(k) = {f[i] : i \in 1..n}
  <2>1. DOMAIN shelf \cap ((k - 1) * PageSize + 1)..(k * PageSize) = {lo + i : i \in 1..n}
    <3>1. ASSUME NEW i \in DOMAIN shelf \cap (lo + 1)..(lo + PageSize)
          PROVE  i \in {lo + j : j \in 1..n}
      <4> HIDE DEF lo
      <4>1. i - lo \in 1..n /\ i = lo + (i - lo)
        BY <1>1, <1>2, <3>1
      <4> QED BY <4>1
    <3>2. ASSUME NEW i \in 1..n
          PROVE  lo + i \in DOMAIN shelf \cap (lo + 1)..(lo + PageSize)
      <4> HIDE DEF lo
      <4> QED BY <1>1, <1>2, <1>3
    <3> QED BY <1>1, <3>1, <3>2
  <2> HIDE DEF lo, n
  <2>2. ItemsOn(k) = {shelf[i] : i \in {lo + i : i \in 1..n}}
    BY <2>1 DEF ItemsOn
  <2> QED BY <2>2
<1>5. f \in Bijection(1..n, ItemsOn(k))
  <2> HIDE DEF lo, n
  <2>1. \A i, j \in 1..n : f[i] = f[j] => i = j
    <3> SUFFICES ASSUME NEW i \in 1..n, NEW j \in 1..n, f[i] = f[j] PROVE i = j
      OBVIOUS
    <3>1. lo + i = lo + j
      BY <1>3 DEF IsInjective
    <3> QED BY <1>1, <1>3, <3>1
  <2>2. f \in [1..n -> ItemsOn(k)]
    BY <1>4
  <2>3. f \in Injection(1..n, ItemsOn(k))
    BY <2>1, <2>2 DEF Injection, IsInjective
  <2>4. f \in Surjection(1..n, ItemsOn(k))
    BY <1>4, <2>2 DEF Surjection
  <2> QED BY <2>3, <2>4 DEF Bijection
<1>6. IsFiniteSet(1..n) /\ Cardinality(1..n) = n
  <2> HIDE DEF n
  <2>1. IsFiniteSet(1..n) /\ Cardinality(1..n) = IF 1 > n THEN 0 ELSE n - 1 + 1
    BY <1>3, FS_Interval
  <2> QED BY <1>3, <2>1
<1>7. IsFiniteSet(ItemsOn(k)) /\ Cardinality(ItemsOn(k)) = n
  <2> HIDE DEF n, f
  <2>1. ExistsBijection(1..n, ItemsOn(k))
    BY <1>5 DEF ExistsBijection
  <2> QED BY <1>6, <2>1, FS_Bijection
<1>8. ItemsOn(k) \subseteq Listed
  BY DEF ItemsOn, Listed, Range
<1> QED BY <1>1, <1>7, <1>8

-----------------------------------------------------------------------------
(* What a finished sweep says *)

Memories == [baseline : {NoBaseline} \cup SUBSET Handles, ledger : Ledgers, wanted : Filters]

\* The drops of a sweep that names what it launched, and of what it met.
Met(m, read, window, kind) == Drop(kind, Spoken(m, read, window, kind), {})

Launches(m, read, window, recently) ==
    LET launched == Launched(m, read, window, recently)
    IN  Drop("launched", launched, {h \in launched : m.ledger[h].sale = "never"})

LEMMA SayingRange ==
    ASSUME NEW drop
    PROVE  Range(Saying(drop)) = IF drop.handles = {} THEN {} ELSE {drop}
BY DEF Saying, Range

LEMMA SayingType ==
    ASSUME NEW drop \in Drops
    PROVE  Saying(drop) \in Seq(Drops)
BY DEF Saying

LEMMA DropTypes ==
    ASSUME NEW m \in Memories, NEW read, DOMAIN read \subseteq Handles,
           NEW window, NEW recently
    PROVE  /\ \A kind \in {"new", "relisted", "unconfirmed"} :
                Met(m, read, window, kind) \in Drops
           /\ Launches(m, read, window, recently) \in Drops
BY DEF Met, Launches, Drop, Drops, Spoken, Arrived, Unseen, Launched

\* A first sweep says nothing.  A later one says, for each kind of arrival, what
\* is worth it, and what was launched; none of its drops is empty.
LEMMA SweepDrops ==
    ASSUME NEW m \in Memories, NEW read, DOMAIN read \subseteq Handles,
           NEW window, NEW recently
    PROVE  LET drops == OnSweep(m, read, window, recently).drops
               said  == {Met(m, read, window, "new"), Met(m, read, window, "relisted"),
                         Met(m, read, window, "unconfirmed"),
                         Launches(m, read, window, recently)}
           IN  /\ drops \in Seq(Drops)
               /\ m.baseline = NoBaseline => drops = << >>
               /\ m.baseline # NoBaseline => Range(drops) = {d \in said : d.handles # {}}
<1> DEFINE a == Met(m, read, window, "new")
           b == Met(m, read, window, "relisted")
           c == Met(m, read, window, "unconfirmed")
           d == Launches(m, read, window, recently)
           drops == OnSweep(m, read, window, recently).drops
<1>1. CASE m.baseline = NoBaseline
  BY <1>1 DEF OnSweep, FirstSweep
<1>2. CASE m.baseline # NoBaseline
  <2>1. drops = ((Saying(a) \o Saying(b)) \o Saying(c)) \o Saying(d)
    BY <1>2 DEF OnSweep, LaterSweep, Met, Launches
  <2>2. a \in Drops /\ b \in Drops /\ c \in Drops /\ d \in Drops
    BY DropTypes
  <2> HIDE DEF a, b, c, d, drops
  <2>3. /\ Saying(a) \in Seq(Drops) /\ Saying(b) \in Seq(Drops)
        /\ Saying(c) \in Seq(Drops) /\ Saying(d) \in Seq(Drops)
    BY <2>2, SayingType
  <2> DEFINE ab  == Saying(a) \o Saying(b)
             abc == ab \o Saying(c)
  <2>4. ab \in Seq(Drops) /\ Range(ab) = Range(Saying(a)) \cup Range(Saying(b))
    BY <2>3, ConcatProperties, RangeConcatenation
  <2> HIDE DEF ab
  <2>5. abc \in Seq(Drops) /\ Range(abc) = Range(ab) \cup Range(Saying(c))
    BY <2>3, <2>4, ConcatProperties, RangeConcatenation
  <2> HIDE DEF abc
  <2>6. /\ abc \o Saying(d) \in Seq(Drops)
        /\ Range(abc \o Saying(d)) = Range(abc) \cup Range(Saying(d))
    BY <2>3, <2>5, ConcatProperties, RangeConcatenation
  <2>7. /\ drops \in Seq(Drops)
        /\ Range(drops) = ((Range(Saying(a)) \cup Range(Saying(b))) \cup Range(Saying(c)))
                             \cup Range(Saying(d))
    BY <2>1, <2>4, <2>5, <2>6 DEF ab, abc
  <2>8. Range(drops) = {x \in {a, b, c, d} : x.handles # {}}
    BY <2>7, SayingRange
  <2> QED BY <1>2, <2>7, <2>8 DEF a, b, c, d, drops
<1> QED BY <1>1, <1>2

\* Who is told of: the launched ones in a drop of their own.
LEMMA SweepTells ==
    ASSUME NEW m \in Memories, NEW read, DOMAIN read \subseteq Handles,
           NEW window, NEW recently
    PROVE  LET drops == OnSweep(m, read, window, recently).drops
           IN  /\ m.baseline = NoBaseline => Told(drops) = {} /\ TellsLaunch(drops) = {}
               /\ m.baseline # NoBaseline =>
                    /\ TellsLaunch(drops) = Launched(m, read, window, recently)
                    /\ Told(drops) = Launched(m, read, window, recently)
                           \cup UNION {Spoken(m, read, window, kind) :
                                         kind \in {"new", "relisted", "unconfirmed"}}
<1> DEFINE drops == OnSweep(m, read, window, recently).drops
           a == Met(m, read, window, "new")
           b == Met(m, read, window, "relisted")
           c == Met(m, read, window, "unconfirmed")
           d == Launches(m, read, window, recently)
<1>1. CASE m.baseline = NoBaseline
  BY <1>1, SweepDrops DEF Told, TellsLaunch
<1>2. CASE m.baseline # NoBaseline
  <2>1. Range(drops) = {x \in {a, b, c, d} : x.handles # {}}
    BY <1>2, SweepDrops
  <2>2. /\ a.arrival = "new" /\ a.handles = Spoken(m, read, window, "new")
        /\ b.arrival = "relisted" /\ b.handles = Spoken(m, read, window, "relisted")
        /\ c.arrival = "unconfirmed" /\ c.handles = Spoken(m, read, window, "unconfirmed")
        /\ d.arrival = "launched" /\ d.handles = Launched(m, read, window, recently)
    BY DEF Met, Launches, Drop
  <2> HIDE DEF a, b, c, d, drops
  <2>3. \A h : h \in Told(drops) <=> \E x \in Range(drops) : h \in x.handles
    BY DEF Told, Range
  <2>4. \A h : h \in TellsLaunch(drops)
                 <=> \E x \in Range(drops) : x.arrival = "launched" /\ h \in x.handles
    BY DEF TellsLaunch, Range
  <2>5. TellsLaunch(drops) = Launched(m, read, window, recently)
    BY <2>1, <2>2, <2>4
  <2>6. Told(drops) = a.handles \cup b.handles \cup c.handles \cup d.handles
    BY <2>1, <2>3
  <2> QED BY <1>2, <2>2, <2>5, <2>6 DEF drops
<1> QED BY <1>1, <1>2

-----------------------------------------------------------------------------
(* The shelf *)

\* A product published at either end pushes no other one past its next place.
LEMMA ShelfGains ==
    ASSUME NEW s \in Seq(Handles), IsInjective(s), NEW h \in Handles, h \notin Range(s),
           NEW t \in {<<h>> \o s, Append(s, h)}
    PROVE  /\ t \in Seq(Handles)
           /\ IsInjective(t)
           /\ Range(t) = Range(s) \cup {h}
           /\ \A i \in DOMAIN t : t[i] = h \/ \E j \in DOMAIN s : j <= i /\ t[i] = s[j]
<1>1. /\ Len(s) \in Nat /\ DOMAIN s = 1..Len(s)
      /\ \A i \in 1..Len(s) : s[i] \in Handles /\ s[i] # h
  BY LenProperties, ElementOfSeq DEF Range
<1>2. CASE t = <<h>> \o s
  <2>1. <<h>> \in Seq(Handles) /\ Len(<<h>>) = 1 /\ <<h>>[1] = h
    OBVIOUS
  <2>2. /\ t \in Seq(Handles)
        /\ Len(t) = 1 + Len(s)
        /\ \A i \in 1..(1 + Len(s)) : t[i] = IF i <= 1 THEN h ELSE s[i - 1]
    BY <1>2, <2>1, ConcatProperties
  <2>3. DOMAIN t = 1..(1 + Len(s)) /\ t[1] = h
    BY <1>1, <2>2
  <2>4. \A i \in DOMAIN t : i # 1 => i - 1 \in DOMAIN s /\ i - 1 <= i /\ t[i] = s[i - 1]
    BY <1>1, <2>2, <2>3
  <2>5. \A i \in DOMAIN s : i + 1 \in DOMAIN t /\ t[i + 1] = s[i]
    BY <1>1, <2>2, <2>3
  <2>6. 1 \in DOMAIN t
    BY <1>1, <2>3
  <2>7. IsInjective(t)
    <3> SUFFICES ASSUME NEW i \in DOMAIN t, NEW j \in DOMAIN t, t[i] = t[j] PROVE i = j
      BY DEF IsInjective
    <3>1. CASE i = 1 \/ j = 1
      BY <1>1, <2>3, <2>4, <3>1
    <3>2. CASE i # 1 /\ j # 1
      <4>1. i - 1 = j - 1
        BY <2>4, <3>2 DEF IsInjective
      <4> QED BY <2>3, <4>1
    <3> QED BY <3>1, <3>2
  <2>8. Range(t) = Range(s) \cup {h}
    <3>1. \A i \in DOMAIN t : t[i] \in Range(s) \cup {h}
      BY <2>3, <2>4 DEF Range
    <3>2. \A i \in DOMAIN s : s[i] \in Range(t)
      BY <2>5 DEF Range
    <3>3. h \in Range(t)
      BY <2>3, <2>6 DEF Range
    <3> QED BY <3>1, <3>2, <3>3 DEF Range
  <2> QED BY <2>2, <2>3, <2>4, <2>7, <2>8
<1>3. CASE t = Append(s, h)
  <2>1. /\ t \in Seq(Handles)
        /\ Len(t) = Len(s) + 1
        /\ \A i \in 1..Len(s) : t[i] = s[i]
        /\ t[Len(s) + 1] = h
    BY <1>3, AppendProperties
  <2>2. DOMAIN t = 1..(Len(s) + 1)
    BY <2>1
  <2>3. \A i \in DOMAIN t : i = Len(s) + 1 \/ (i \in DOMAIN s /\ i <= i /\ t[i] = s[i])
    BY <1>1, <2>1, <2>2
  <2>4. \A i \in DOMAIN s : i \in DOMAIN t /\ t[i] = s[i]
    BY <1>1, <2>1, <2>2
  <2>5. Len(s) + 1 \in DOMAIN t
    BY <1>1, <2>2
  <2>6. IsInjective(t)
    <3> SUFFICES ASSUME NEW i \in DOMAIN t, NEW j \in DOMAIN t, t[i] = t[j] PROVE i = j
      BY DEF IsInjective
    <3> QED BY <1>1, <2>1, <2>3 DEF IsInjective
  <2>7. Range(t) = Range(s) \cup {h}
    <3>1. \A i \in DOMAIN t : t[i] \in Range(s) \cup {h}
      BY <2>1, <2>3 DEF Range
    <3>2. \A i \in DOMAIN s : s[i] \in Range(t)
      BY <2>4 DEF Range
    <3>3. h \in Range(t)
      BY <2>1, <2>5 DEF Range
    <3> QED BY <3>1, <3>2, <3>3 DEF Range
  <2> QED BY <2>1, <2>3, <2>6, <2>7
<1> QED BY <1>2, <1>3

LEMMA ShelfLoses ==
    ASSUME NEW s \in Seq(Handles), IsInjective(s), NEW k \in DOMAIN s
    PROVE  /\ RemoveAt(s, k) \in Seq(Handles)
           /\ IsInjective(RemoveAt(s, k))
           /\ Range(RemoveAt(s, k)) = Range(s) \ {s[k]}
<1> DEFINE a == SubSeq(s, 1, k - 1)
           b == SubSeq(s, k + 1, Len(s))
           t == RemoveAt(s, k)
<1>1. /\ Len(s) \in Nat /\ DOMAIN s = 1..Len(s) /\ k \in 1..Len(s)
      /\ \A i \in 1..Len(s) : s[i] \in Handles
  BY LenProperties, ElementOfSeq
<1>2. /\ a \in Seq(Handles) /\ Len(a) = k - 1
      /\ \A i \in 1..(k - 1) : a[i] = s[i]
  <2>1. \A i \in 1..(k - 1) : s[i] \in Handles
    BY <1>1
  <2>2. /\ a \in Seq(Handles) /\ Len(a) = IF 1 <= k - 1 THEN k - 1 - 1 + 1 ELSE 0
        /\ \A i \in 1..(k - 1 - 1 + 1) : a[i] = s[1 + i - 1]
    BY <1>1, <2>1, SubSeqProperties
  <2> HIDE DEF a
  <2> QED BY <1>1, <2>2
<1>3. /\ b \in Seq(Handles) /\ Len(b) = Len(s) - k
      /\ \A i \in 1..(Len(s) - k) : b[i] = s[k + i]
  <2>1. \A i \in (k + 1)..Len(s) : s[i] \in Handles
    BY <1>1
  <2>2. /\ b \in Seq(Handles)
        /\ Len(b) = IF k + 1 <= Len(s) THEN Len(s) - (k + 1) + 1 ELSE 0
        /\ \A i \in 1..(Len(s) - (k + 1) + 1) : b[i] = s[(k + 1) + i - 1]
    BY <1>1, <2>1, SubSeqProperties
  <2> HIDE DEF b
  <2>3. /\ Len(s) - (k + 1) + 1 = Len(s) - k
        /\ k + 1 <= Len(s) \/ Len(s) - k = 0
        /\ \A i \in 1..(Len(s) - k) : (k + 1) + i - 1 = k + i
    BY <1>1
  <2> QED BY <1>1, <2>2, <2>3
<1>4. t = a \o b
  BY DEF RemoveAt
<1> HIDE DEF a, b, t
<1>5. /\ t \in Seq(Handles)
      /\ Len(t) = Len(a) + Len(b)
      /\ \A i \in 1..(Len(a) + Len(b)) : t[i] = IF i <= Len(a) THEN a[i] ELSE b[i - Len(a)]
  BY <1>2, <1>3, <1>4, ConcatProperties
<1>6. DOMAIN t = 1..(Len(s) - 1)
  BY <1>1, <1>2, <1>3, <1>5
<1>7. \A i \in DOMAIN t : \/ i < k /\ i \in DOMAIN s /\ t[i] = s[i]
                          \/ i >= k /\ i + 1 \in DOMAIN s /\ t[i] = s[i + 1]
  <2> SUFFICES ASSUME NEW i \in DOMAIN t
               PROVE  \/ i < k /\ i \in DOMAIN s /\ t[i] = s[i]
                      \/ i >= k /\ i + 1 \in DOMAIN s /\ t[i] = s[i + 1]
    OBVIOUS
  <2>1. i \in 1..(Len(a) + Len(b)) /\ i \in 1..(Len(s) - 1)
    BY <1>1, <1>2, <1>3, <1>6
  <2>2. CASE i < k
    <3>1. i <= Len(a) /\ i \in 1..(k - 1)
      BY <1>1, <1>2, <2>1, <2>2
    <3> QED BY <1>1, <1>2, <1>5, <2>1, <2>2, <3>1
  <2>3. CASE i >= k
    <3>1. ~(i <= Len(a)) /\ i - Len(a) \in 1..(Len(s) - k) /\ k + (i - Len(a)) = i + 1
      BY <1>1, <1>2, <2>1, <2>3
    <3>2. t[i] = b[i - Len(a)] /\ b[i - Len(a)] = s[k + (i - Len(a))]
      BY <1>3, <1>5, <2>1, <3>1
    <3> QED BY <1>1, <2>1, <2>3, <3>1, <3>2
  <2> QED BY <1>1, <2>1, <2>2, <2>3
<1>8. \A i \in DOMAIN s : \/ i < k /\ i \in DOMAIN t /\ t[i] = s[i]
                          \/ i > k /\ i - 1 \in DOMAIN t /\ t[i - 1] = s[i]
                          \/ i = k
  <2> SUFFICES ASSUME NEW i \in DOMAIN s
               PROVE  \/ i < k /\ i \in DOMAIN t /\ t[i] = s[i]
                      \/ i > k /\ i - 1 \in DOMAIN t /\ t[i - 1] = s[i]
                      \/ i = k
    OBVIOUS
  <2>1. CASE i < k
    BY <1>1, <1>6, <1>7, <2>1
  <2>2. CASE i > k
    <3>1. i - 1 \in DOMAIN t /\ i - 1 >= k /\ (i - 1) + 1 = i
      BY <1>1, <1>6, <2>2
    <3> QED BY <1>1, <1>7, <2>2, <3>1
  <2> QED BY <1>1, <2>1, <2>2
<1>9. IsInjective(t)
  <2> SUFFICES ASSUME NEW i \in DOMAIN t, NEW j \in DOMAIN t, t[i] = t[j] PROVE i = j
    BY DEF IsInjective
  <2> QED BY <1>1, <1>6, <1>7 DEF IsInjective
<1>10. Range(t) = Range(s) \ {s[k]}
  <2>1. ASSUME NEW i \in DOMAIN t PROVE t[i] \in Range(s) \ {s[k]}
    BY <1>1, <1>6, <1>7, <2>1 DEF Range, IsInjective
  <2>2. ASSUME NEW i \in DOMAIN s, s[i] # s[k] PROVE s[i] \in Range(t)
    BY <1>8, <2>2 DEF Range
  <2> QED BY <2>1, <2>2 DEF Range
<1> QED BY <1>5, <1>9, <1>10 DEF t

-----------------------------------------------------------------------------
(* Type correctness *)

Memory(c) ==
    [baseline |-> job[c].w.baseline, ledger |-> job[c].w.ledger, wanted |-> job[c].w.wanted]

Window(c) == job[c].w.recent \cup job[c].during

LEMMA JobFacts ==
    ASSUME TypeOK, NEW c \in Checkers
    PROVE  /\ job[c] \in Jobs
           /\ job[c].w \in Rows
           /\ Memory(c) \in Memories
           /\ Window(c) \subseteq Handles
           /\ DOMAIN job[c].read \subseteq Handles
           /\ job[c].read \in [DOMAIN job[c].read -> Seen]
           /\ Outcome(c) = OnSweep(Memory(c), job[c].read, Window(c), lately)
<1>1. job[c] \in Jobs
  BY DEF TypeOK
<1>2. job[c].w \in Rows /\ job[c].during \subseteq Handles
  BY <1>1 DEF Jobs
<1>3. job[c].read \in UNION {[S -> Seen] : S \in SUBSET Handles}
  BY <1>1 DEF Jobs
<1>4. Memory(c) \in Memories /\ Window(c) \subseteq Handles
  BY <1>2 DEF Rows, Memory, Memories, Window
<1>5. Outcome(c) = OnSweep(Memory(c), job[c].read, Window(c), lately)
  BY DEF Outcome, Memory, Window
<1> QED BY <1>1, <1>2, <1>3, <1>4, <1>5, ReadType

LEMMA IdleType == Idle \in Jobs
<1>1. << >> \in [{} -> Seen] /\ << >> \in Seq(Drops)
  OBVIOUS
<1>2. << >> \in UNION {[S -> Seen] : S \in SUBSET Handles}
  BY <1>1
<1>3. NewRow(Everything) \in Rows
  BY DEF NewRow, Rows, EmptyLedger, Ledgers, Filters
<1> QED BY <1>1, <1>2, <1>3 DEF Idle, Jobs

LEMMA AnnouncingType ==
    ASSUME NEW drops \in Seq(Drops)
    PROVE  /\ Announcing(drops) \in Jobs
           /\ Announcing(drops).at \in {"idle", "telling"}
           /\ Announcing(drops).at = "telling" => Announcing(drops).drops # << >>
<1>1. Idle \in Jobs /\ Idle.at = "idle"
  BY IdleType DEF Idle
<1>2. CASE drops = << >>
  BY <1>1, <1>2 DEF Announcing
<1>3. CASE drops # << >>
  <2>1. Announcing(drops) = [Idle EXCEPT !.at = "telling", !.drops = drops]
    BY <1>3 DEF Announcing
  <2> QED BY <1>1, <1>3, <2>1 DEF Jobs
<1> QED BY <1>2, <1>3

LEMMA FoldLedgerType ==
    ASSUME NEW ledger \in Ledgers, NEW read, NEW launched
    PROVE  FoldLedger(ledger, read, launched) \in Ledgers
<1> SUFFICES ASSUME NEW h \in Handles
             PROVE  FoldLedger(ledger, read, launched)[h] \in Entries \cup {NoEntry}
  BY DEF FoldLedger, Ledgers
<1>1. CASE h \in DOMAIN read /\ AvailableStated(read[h])
  <2>1. FoldLedger(ledger, read, launched)[h] \in Entries
    BY <1>1 DEF FoldLedger, Entries
  <2> QED BY <2>1
<1>2. CASE ~(h \in DOMAIN read /\ AvailableStated(read[h]))
  BY <1>2 DEF FoldLedger, Ledgers
<1> QED BY <1>1, <1>2

\* What a fold writes to the row, and what it leaves to say.
LEMMA OutcomeType ==
    ASSUME TypeOK, NEW c \in Checkers
    PROVE  /\ Outcome(c).baseline = Remembered(job[c].w) \cup DOMAIN job[c].read
           /\ Outcome(c).baseline \in SUBSET Handles
           /\ Outcome(c).ledger \in Ledgers
           /\ Outcome(c).drops \in Seq(Drops)
           /\ Told(Outcome(c).drops) \subseteq Handles
           /\ TellsLaunch(Outcome(c).drops) \subseteq Handles
<1> DEFINE m == Memory(c)
           read == job[c].read
<1>1. /\ m \in Memories /\ DOMAIN read \subseteq Handles
      /\ Outcome(c) = OnSweep(m, read, Window(c), lately)
      /\ m.baseline = job[c].w.baseline
  BY JobFacts DEF Memory
<1>2. Outcome(c).drops \in Seq(Drops)
  BY <1>1, SweepDrops
<1>3. EmptyLedger \in Ledgers /\ m.ledger \in Ledgers
  BY <1>1 DEF EmptyLedger, Ledgers, Memories
<1>4. /\ Outcome(c).baseline = NewBaseline(m, read)
      /\ Outcome(c).ledger \in Ledgers
  BY <1>1, <1>3, FoldLedgerType DEF OnSweep, FirstSweep, LaterSweep
<1>5. Outcome(c).baseline = Remembered(job[c].w) \cup DOMAIN read
  BY <1>1, <1>4 DEF NewBaseline, Remembered
<1>6. Remembered(job[c].w) \subseteq Handles
  BY <1>1 DEF Remembered, Memories
<1>7. ASSUME NEW drops \in Seq(Drops)
      PROVE  Told(drops) \subseteq Handles /\ TellsLaunch(drops) \subseteq Handles
  <2>1. ASSUME NEW i \in DOMAIN drops PROVE drops[i].handles \subseteq Handles
    <3>1. drops[i] \in Drops
      BY <1>7
    <3> QED BY <3>1 DEF Drops
  <2> QED BY <2>1 DEF Told, TellsLaunch
<1> QED BY <1>1, <1>2, <1>4, <1>5, <1>6, <1>7

\* A step that replaces one job keeps the others as they are.
LEMMA JobReplaced ==
    ASSUME TypeOK, NEW c \in Checkers, NEW j \in Jobs, job' = [job EXCEPT ![c] = j],
           j.at = "telling" => j.drops # << >>
    PROVE  /\ job' \in [Checkers -> Jobs]
           /\ \A d \in Checkers : job'[d].at = "telling" => job'[d].drops # << >>
BY DEF TypeOK

LEMMA ReadIntoType ==
    ASSUME TypeOK, NEW c \in Checkers, NEW k \in Nat \ {0}
    PROVE  LET read == ReadInto(job[c].read, ItemsOn(k))
           IN  /\ DOMAIN read = DOMAIN job[c].read \cup ItemsOn(k)
               /\ read \in UNION {[S -> Seen] : S \in SUBSET Handles}
               /\ \A h \in DOMAIN read : \/ h \in DOMAIN job[c].read /\ read[h] = job[c].read[h]
                                         \/ h \in Listed /\ read[h] = goods[h]
<1> DEFINE read == ReadInto(job[c].read, ItemsOn(k))
<1>1. /\ DOMAIN job[c].read \subseteq Handles
      /\ job[c].read \in [DOMAIN job[c].read -> Seen]
  BY JobFacts
<1>2. ItemsOn(k) \subseteq Listed /\ Listed \subseteq Handles
  BY PageLength, RangeOfSeq DEF TypeOK, Listed
<1>3. goods \in [Handles -> Items] /\ Items \subseteq Seen
  BY DEF TypeOK, Items, Seen
<1>4. DOMAIN read = DOMAIN job[c].read \cup ItemsOn(k)
  BY DEF ReadInto
<1>5. ASSUME NEW h \in DOMAIN read
      PROVE  /\ read[h] \in Seen
             /\ \/ h \in DOMAIN job[c].read /\ read[h] = job[c].read[h]
                \/ h \in Listed /\ read[h] = goods[h]
  <2>1. read[h] = IF h \in DOMAIN job[c].read THEN job[c].read[h] ELSE goods[h]
    BY DEF ReadInto
  <2> HIDE DEF read
  <2> QED BY <1>1, <1>2, <1>3, <1>4, <2>1
<1>6. read \in [DOMAIN read -> Seen]
  BY <1>5 DEF ReadInto
<1>7. DOMAIN read \subseteq Handles
  BY <1>1, <1>2, <1>4
<1>8. read \in UNION {[S -> Seen] : S \in SUBSET Handles}
  BY <1>6, <1>7, ReadType
<1> QED BY <1>4, <1>5, <1>8

\* The validator of page one holds exactly its products.
LEMMA PageOneTagType ==
    ASSUME TypeOK
    PROVE  PageOneTag \in Tags /\ TagHandles(PageOneTag) = ItemsOn(1)
<1> DEFINE n == Cardinality(ItemsOn(1))
<1>1. /\ PageSize \in Nat \ {0} /\ Len(shelf) \in Nat /\ DOMAIN shelf = 1..Len(shelf)
      /\ \A i \in DOMAIN shelf : shelf[i] \in Handles
      /\ goods \in [Handles -> Items]
  BY ConstantsAssumption, LenProperties, ElementOfSeq DEF TypeOK
<1>2. n = IF Len(shelf) >= 1 * PageSize THEN PageSize
          ELSE IF Len(shelf) > (1 - 1) * PageSize
          THEN Len(shelf) - (1 - 1) * PageSize ELSE 0
  BY PageLength DEF TypeOK
<1>3. n \in 0..PageSize /\ 1..n = DOMAIN shelf \cap 1..PageSize
  <2> DEFINE len == Len(shelf)
  <2>1. 1 * PageSize = PageSize /\ (1 - 1) * PageSize = 0
    BY <1>1
  <2>2. len \in Nat /\ PageSize \in Nat /\ DOMAIN shelf = 1..len
    BY <1>1
  <2>3. n = IF len >= PageSize THEN PageSize ELSE IF len > 0 THEN len - 0 ELSE 0
    BY <1>2, <2>1
  <2> HIDE DEF n, len
  <2>4. n \in 0..PageSize
    BY <2>2, <2>3
  <2>5. 1..n = (1..len) \cap 1..PageSize
    BY <2>2, <2>3
  <2> QED BY <2>2, <2>4, <2>5
<1>4. PageOneTag = [i \in 1..n |-> <<shelf[i], goods[shelf[i]]>>]
  BY DEF PageOneTag
<1>5. ItemsOn(1) = {shelf[i] : i \in 1..n}
  <2>1. (1 - 1) * PageSize + 1 = 1 /\ 1 * PageSize = PageSize
    BY <1>1
  <2> HIDE DEF n
  <2>2. ItemsOn(1) = {shelf[i] : i \in DOMAIN shelf \cap 1..PageSize}
    BY <2>1 DEF ItemsOn
  <2> QED BY <1>3, <2>2
<1> HIDE DEF n
<1>6. PageOneTag \in [1..n -> Handles \X Items]
  BY <1>1, <1>3, <1>4
<1>7. TagHandles(PageOneTag) = {shelf[i] : i \in 1..n}
  BY <1>4 DEF TagHandles
<1>8. PageOneTag \in Tags
  BY <1>3, <1>6 DEF Tags
<1> QED BY <1>5, <1>7, <1>8

LEMMA ReadPageFacts ==
    ASSUME TypeOK, NEW c \in Checkers, NEW k \in Nat \ {0}, ReadPage(c, k)
    PROVE  /\ PageRead(c, k) \in Jobs
           /\ PageRead(c, k).at \in {"more", "folding"}
           /\ job' = [job EXCEPT ![c] = PageRead(c, k)]
<1>1. job[c] \in Jobs
  BY JobFacts
<1>2. /\ ReadInto(job[c].read, ItemsOn(k)) \in UNION {[S -> Seen] : S \in SUBSET Handles}
      /\ PageOneTag \in Tags
  BY ReadIntoType, PageOneTagType
<1>3. (~FullPage(k)) \in BOOLEAN
  OBVIOUS
<1>4. PageRead(c, k).at \in {"more", "folding"}
  BY <1>1 DEF PageRead, Jobs
<1>5. PageRead(c, k) \in Jobs
  BY <1>1, <1>2, <1>3 DEF PageRead, Jobs
<1>6. job' = [job EXCEPT ![c] = PageRead(c, k)]
  BY DEF ReadPage
<1> QED BY <1>4, <1>5, <1>6

LEMMA StampedType ==
    ASSUME TypeOK, NEW recent \in Stamped(row.recent)
    PROVE  recent \subseteq Handles
<1>1. \A c \in Checkers : job[c].during \subseteq Handles
  BY JobFacts DEF Jobs
<1>2. row.recent \subseteq Handles
  BY DEF TypeOK, Rows
<1> QED BY <1>1, <1>2 DEF Stamped, Running

LEMMA TypeInit == Init => TypeOK
<1> SUFFICES ASSUME Init PROVE TypeOK
  OBVIOUS
<1>1. shelf \in Seq(Handles) /\ IsInjective(shelf)
  <2>1. PICK S \in SUBSET Handles : IsFiniteSet(S) /\ shelf \in SetToSeqs(S)
    BY DEF Init
  <2>2. Cardinality(S) \in Nat
    BY <2>1, FS_CardinalityType
  <2>3. /\ shelf \in [1..Cardinality(S) -> S]
        /\ \A i, j \in 1..Cardinality(S) : i # j => shelf[i] # shelf[j]
    BY <2>1 DEF SetToSeqs
  <2>4. shelf \in Seq(Handles)
    BY <2>2, <2>3
  <2> QED BY <2>3, <2>4 DEF IsInjective
<1>2. Listed \subseteq Handles
  BY <1>1, RangeOfSeq DEF Listed
<1>3. goods \in [Handles -> Items]
  <2>1. [look : StoreLooks, dates : StoreDates] \cup {Offshelf} \subseteq Items
    <3>1. StoreLooks \subseteq Looks /\ StoreDates \subseteq Dates
      BY ConstantsAssumption
    <3>2. [look : StoreLooks, dates : StoreDates] \subseteq Items
      BY <3>1 DEF Items
    <3>3. Offshelf \in Items
      BY DEF Items, Offshelf, Looks, Dates
    <3> QED BY <3>2, <3>3
  <2> QED BY <2>1 DEF Init
<1>4. row \in Rows
  <2>1. PICK wanted \in Searches, recent \in SUBSET Listed :
            row = [NewRow(wanted) EXCEPT !.recent = recent]
    BY DEF Init
  <2>2. NewRow(wanted) \in Rows
    BY ConstantsAssumption DEF NewRow, Rows, EmptyLedger, Ledgers
  <2> QED BY <1>2, <2>1, <2>2 DEF Rows
<1>5. job \in [Checkers -> Jobs] /\ \A c \in Checkers : job[c].at = "idle"
  BY IdleType DEF Init, Idle
<1> QED BY <1>1, <1>2, <1>3, <1>4, <1>5 DEF Init, TypeOK

\* The steps of a sweep up to its fold touch nothing but its job.
Reads(c) ==
    Start(c) \/ RateLimited(c) \/ NotModified(c) \/ ReadFirst(c) \/ ReadNext(c)
        \/ Cut(c) \/ Blocked(c) \/ ReadAtom(c) \/ Tell(c)

LEMMA ReadsType ==
    ASSUME TypeOK, NEW c \in Checkers, Reads(c)
    PROVE  \E j \in Jobs : /\ job' = [job EXCEPT ![c] = j]
                           /\ j.at = "telling" => j.drops # << >>
<1>1. job[c] \in Jobs /\ row \in Rows
  BY JobFacts DEF TypeOK
<1>2. CASE Start(c)
  <2>1. [Idle EXCEPT !.at = "first", !.w = row] \in Jobs
    BY <1>1, IdleType DEF Jobs
  <2>2. [Idle EXCEPT !.at = "first", !.w = row].at = "first"
    BY DEF Idle
  <2> QED BY <1>2, <2>1, <2>2 DEF Start
<1>3. CASE RateLimited(c)
  BY <1>3, IdleType DEF RateLimited, Idle
<1>4. CASE NotModified(c)
  <2>1. [job[c] EXCEPT !.at = "unchanged"] \in Jobs
    BY <1>1 DEF Jobs
  <2> QED BY <1>1, <1>4, <2>1 DEF NotModified, Jobs
<1>5. CASE ReadFirst(c)
  BY <1>5, ReadPageFacts DEF ReadFirst
<1>6. CASE ReadNext(c)
  <2>1. job[c].page + 1 \in Nat \ {0}
    BY <1>1 DEF Jobs
  <2> QED BY <1>6, <2>1, ReadPageFacts DEF ReadNext
<1>7. CASE Cut(c)
  <2>1. [job[c] EXCEPT !.at = "folding", !.whole = FALSE] \in Jobs
    BY <1>1 DEF Jobs
  <2> QED BY <1>1, <1>7, <2>1 DEF Cut, Jobs
<1>8. CASE Blocked(c)
  <2>1. [job[c] EXCEPT !.at = "atom"] \in Jobs
    BY <1>1 DEF Jobs
  <2> QED BY <1>1, <1>8, <2>1 DEF Blocked, Jobs
<1>9. CASE ReadAtom(c)
  <2> DEFINE read == [h \in Listed |-> AtomItem(goods[h])]
  <2>1. Listed \subseteq Handles /\ goods \in [Handles -> Items]
    BY RangeOfSeq DEF TypeOK, Listed
  <2>2. \A h \in Listed : AtomItem(goods[h]) \in Seen
    BY <2>1 DEF AtomItem, Items, Seen, Dates
  <2>3. read \in UNION {[S -> Seen] : S \in SUBSET Handles}
    BY <2>1, <2>2
  <2> HIDE DEF read
  <2>4. [job[c] EXCEPT !.at = "folding", !.whole = TRUE, !.tag = NoTag, !.read = read] \in Jobs
    BY <1>1, <2>3 DEF Jobs
  <2>5. job' = [job EXCEPT ![c] = [job[c] EXCEPT !.at = "folding", !.whole = TRUE,
                                                 !.tag = NoTag, !.read = read]]
    BY <1>9 DEF ReadAtom, read
  <2> QED BY <1>1, <2>4, <2>5 DEF Jobs
<1>10. CASE Tell(c)
  <2>1. job[c].drops \in Seq(Drops) /\ job[c].drops # << >>
    BY <1>1, <1>10 DEF TypeOK, Jobs, Tell
  <2>2. Tail(job[c].drops) \in Seq(Drops)
    BY <2>1, HeadTailProperties
  <2> QED BY <1>10, <2>2, AnnouncingType DEF Tell
<1> QED BY <1>2, <1>3, <1>4, <1>5, <1>6, <1>7, <1>8, <1>9, <1>10 DEF Reads

LEMMA ReadsFrame ==
    ASSUME NEW c, Reads(c)
    PROVE  UNCHANGED <<world, row, lately, ghosts>>
BY DEF Reads, Start, RateLimited, NotModified, ReadFirst, ReadNext, Cut, Blocked, ReadAtom, Tell

LEMMA TypeStep == TypeOK /\ [Next]_vars => TypeOK'
<1> SUFFICES ASSUME TypeOK, [Next]_vars PROVE TypeOK'
  OBVIOUS
<1>1. ASSUME NEW c \in Checkers, Reads(c) PROVE TypeOK'
  <2>1. PICK j \in Jobs : /\ job' = [job EXCEPT ![c] = j]
                          /\ j.at = "telling" => j.drops # << >>
    BY <1>1, ReadsType
  <2>2. /\ job' \in [Checkers -> Jobs]
        /\ \A d \in Checkers : job'[d].at = "telling" => job'[d].drops # << >>
    BY <2>1, JobReplaced
  <2> QED BY <1>1, <2>2, ReadsFrame DEF TypeOK, world, ghosts, Listed
<1>2. ASSUME NEW c \in Checkers, FoldUnchanged(c) PROVE TypeOK'
  <2>1. job[c].w \in Rows /\ row \in Rows
    BY JobFacts DEF TypeOK
  <2>2. row' \in Rows
    BY <1>2, <2>1, StampedType DEF FoldUnchanged, Rows
  <2>3. /\ job' \in [Checkers -> Jobs]
        /\ \A d \in Checkers : job'[d].at = "telling" => job'[d].drops # << >>
    <3>1. job' = [job EXCEPT ![c] = Idle] /\ Idle \in Jobs /\ Idle.at # "telling"
      BY <1>2, IdleType DEF FoldUnchanged, Idle
    <3> QED BY <3>1, JobReplaced
  <2> QED BY <1>2, <2>2, <2>3 DEF FoldUnchanged, TypeOK, world
<1>3. ASSUME NEW c \in Checkers, Fold(c) PROVE TypeOK'
  <2> DEFINE o == Outcome(c)
  <2>1. /\ o.baseline \in SUBSET Handles /\ o.ledger \in Ledgers /\ o.drops \in Seq(Drops)
        /\ Told(o.drops) \subseteq Handles /\ TellsLaunch(o.drops) \subseteq Handles
    BY OutcomeType
  <2>2. job[c] \in Jobs /\ row \in Rows /\ DOMAIN job[c].read \subseteq Handles
    BY JobFacts DEF TypeOK
  <2>3. Listed \subseteq Handles
    BY RangeOfSeq DEF TypeOK, Listed
  <2> HIDE DEF o
  <2>4. row' \in Rows
    <3>1. PICK recent \in IF job[c].whole THEN Stamped(row.recent) ELSE {row.recent} :
            row' = [row EXCEPT !.baseline = o.baseline, !.ledger = o.ledger,
                               !.etag = job[c].tag, !.swept = @ \/ job[c].whole,
                               !.recent = recent]
      BY <1>3 DEF Fold, o
    <3>2. recent \subseteq Handles
      BY <2>2, <3>1, StampedType DEF Rows
    <3>3. (row.swept \/ job[c].whole) \in BOOLEAN /\ job[c].tag \in {NoTag} \cup Tags
      BY <2>2 DEF Jobs, Rows
    <3> QED BY <2>1, <2>2, <3>1, <3>2, <3>3 DEF Rows
  <2>5. /\ job' \in [Checkers -> Jobs]
        /\ \A d \in Checkers : job'[d].at = "telling" => job'[d].drops # << >>
    BY <1>3, <2>1, AnnouncingType, JobReplaced DEF Fold, o
  <2>6. \A set \in {lately', owed', seen', sold', outage', news'} : set \subseteq Handles
    BY <1>3, <2>1, <2>2, <2>3 DEF Fold, o, TypeOK
  <2> QED BY <1>3, <2>4, <2>5, <2>6 DEF Fold, TypeOK, world
<1>4. ASSUME NEW h \in Handles, NEW look \in StoreLooks, NEW dates \in StoreDates,
             Publish(h, look, dates)
      PROVE  TypeOK'
  <2>1. shelf' \in Seq(Handles) /\ IsInjective(shelf')
    BY <1>4, ShelfGains DEF Publish, TypeOK, Listed
  <2>2. [look |-> look, dates |-> dates] \in Items
    BY ConstantsAssumption DEF Items
  <2>3. goods' \in [Handles -> Items]
    BY <1>4, <2>2 DEF Publish, TypeOK
  <2>4. row' \in Rows
    BY <1>4 DEF Publish, TypeOK, Rows
  <2>5. ASSUME NEW c \in Checkers
        PROVE  /\ job'[c] \in Jobs
               /\ job'[c].at = "telling" => job'[c].drops # << >>
    <3>1. job[c] \in Jobs
      BY JobFacts
    <3>2. [job[c] EXCEPT !.during = @ \cup {h}] \in Jobs
      BY <3>1 DEF Jobs
    <3>3. c \in Running => job[c].at # "telling"
      BY DEF Running
    <3>4. job'[c] = IF c \in Running THEN [job[c] EXCEPT !.during = @ \cup {h}] ELSE job[c]
      BY <1>4 DEF Publish
    <3> QED BY <3>1, <3>2, <3>3, <3>4 DEF TypeOK, Jobs
  <2>6. job' \in [Checkers -> Jobs]
    BY <1>4, <2>5 DEF Publish
  <2> QED BY <1>4, <2>1, <2>3, <2>4, <2>5, <2>6 DEF Publish, TypeOK
<1>5. ASSUME NEW h \in Handles, Unlist(h) PROVE TypeOK'
  <2>1. shelf' \in Seq(Handles) /\ IsInjective(shelf')
    BY <1>5, ShelfLoses DEF Unlist, TypeOK
  <2>2. goods' \in [Handles -> Items]
    BY <1>5 DEF Unlist, TypeOK, Offshelf, Items, Looks, Dates
  <2> QED BY <1>5, <2>1, <2>2 DEF Unlist, TypeOK, ghosts
<1>6. ASSUME NEW h \in Handles, NEW look \in StoreLooks, Restyle(h, look) PROVE TypeOK'
  <2>1. goods' \in [Handles -> Items]
    BY <1>6, ConstantsAssumption DEF Restyle, TypeOK, Items
  <2> QED BY <1>6, <2>1 DEF Restyle, TypeOK
<1>7. ASSUME NEW h \in Handles, AgeOut(h) PROVE TypeOK'
  BY <1>7 DEF AgeOut, TypeOK, Rows, world, ghosts
<1>8. ASSUME NEW h \in Handles, Cool(h) PROVE TypeOK'
  BY <1>8 DEF Cool, TypeOK, world
<1>9. ASSUME NEW wanted \in Searches, SetFilter(wanted) PROVE TypeOK'
  BY <1>9, ConstantsAssumption DEF SetFilter, TypeOK, Rows, world, ghosts
<1>10. CASE Retarget
  BY <1>10 DEF Retarget, TypeOK, Rows, world
<1>11. CASE Crash
  <2>1. Idle.at = "idle"
    BY DEF Idle
  <2> QED BY <1>11, <2>1, IdleType DEF Crash, TypeOK, world, ghosts
<1>12. CASE UNCHANGED vars
  BY <1>12 DEF vars, TypeOK, world, ghosts
<1>13. ASSUME NEW c \in Checkers, Fail(c) PROVE TypeOK'
  <2>1. job[c].w \in Rows /\ row \in Rows
    BY JobFacts DEF TypeOK
  <2>2. row' \in Rows
    BY <1>13, <2>1 DEF Fail, Rows
  <2>3. /\ job' \in [Checkers -> Jobs]
        /\ \A d \in Checkers : job'[d].at = "telling" => job'[d].drops # << >>
    <3>1. job' = [job EXCEPT ![c] = Idle] /\ Idle \in Jobs /\ Idle.at # "telling"
      BY <1>13, IdleType DEF Fail, Idle
    <3> QED BY <3>1, JobReplaced
  <2> QED BY <1>13, <2>2, <2>3 DEF Fail, TypeOK, world, ghosts
<1> QED
  <2>1. ASSUME NEW c \in Checkers, Check(c) PROVE TypeOK'
    BY <1>1, <1>2, <1>3, <1>13, <2>1 DEF Check, Reads
  <2> QED BY <1>4, <1>5, <1>6, <1>7, <1>8, <1>9, <1>10, <1>11, <1>12, <2>1
           DEF Next, StoreMoves

\* The state of a collection watch keeps its shape: the shelf lists a product
\* once, rows, ledgers and validators are well formed, and a sweep that is
\* announcing has something to announce.
THEOREM TypeCorrect == Spec => []TypeOK
BY TypeInit, TypeStep, PTL DEF Spec

-----------------------------------------------------------------------------
(* What the steps do to a running sweep *)

\* A sweep keeps the copy it was handed; what it reads is what the shelf shows.
LEMMA ReadsEffect ==
    ASSUME TypeOK, NEW c \in Checkers, Reads(c)
    PROVE  \/ job'[c].at \in {"idle", "telling"}
           \/ /\ job'[c].at = "first" /\ job'[c].w = row
              /\ job'[c].during = {} /\ job'[c].read = << >> /\ job'[c].tag = NoTag
           \/ /\ c \in Running /\ c \in Running'
              /\ job'[c].w = job[c].w /\ job'[c].during = job[c].during
              /\ \A h \in DOMAIN job'[c].read :
                    \/ h \in DOMAIN job[c].read /\ job'[c].read[h] = job[c].read[h]
                    \/ h \in Listed /\ job'[c].read[h] \in {goods[h], AtomItem(goods[h])}
<1>1. job[c] \in Jobs /\ job \in [Checkers -> Jobs]
  BY JobFacts DEF TypeOK
<1>2. CASE Start(c)
  BY <1>1, <1>2 DEF Start, Idle
<1>3. CASE RateLimited(c)
  BY <1>1, <1>3 DEF RateLimited, Idle
<1>4. CASE NotModified(c)
  BY <1>1, <1>4 DEF NotModified, Jobs, Running
<1>5. ASSUME NEW k \in Nat \ {0}, ReadPage(c, k), job[c].at \in {"first", "more"}
      PROVE  /\ c \in Running /\ c \in Running'
             /\ job'[c].w = job[c].w /\ job'[c].during = job[c].during
             /\ \A h \in DOMAIN job'[c].read :
                   \/ h \in DOMAIN job[c].read /\ job'[c].read[h] = job[c].read[h]
                   \/ h \in Listed /\ job'[c].read[h] = goods[h]
  <2>1. job'[c] = PageRead(c, k) /\ job'[c].at \in {"more", "folding"}
    BY <1>1, <1>5, ReadPageFacts
  <2>2. /\ job'[c].w = job[c].w /\ job'[c].during = job[c].during
        /\ job'[c].read = ReadInto(job[c].read, ItemsOn(k))
    BY <1>1, <2>1 DEF PageRead, Jobs
  <2>3. \A h \in DOMAIN job'[c].read :
            \/ h \in DOMAIN job[c].read /\ job'[c].read[h] = job[c].read[h]
            \/ h \in Listed /\ job'[c].read[h] = goods[h]
    <3> DEFINE read == ReadInto(job[c].read, ItemsOn(k))
    <3>1. \A h \in DOMAIN read :
              \/ h \in DOMAIN job[c].read /\ read[h] = job[c].read[h]
              \/ h \in Listed /\ read[h] = goods[h]
      BY ReadIntoType
    <3>2. job'[c].read = read
      BY <2>2
    <3> HIDE DEF read
    <3> QED BY <3>1, <3>2
  <2>4. c \in Running /\ c \in Running'
    BY <1>5, <2>1 DEF Running
  <2> QED BY <2>2, <2>3, <2>4
<1>6. CASE ReadFirst(c)
  BY <1>5, <1>6 DEF ReadFirst
<1>7. CASE ReadNext(c)
  <2>1. job[c].page + 1 \in Nat \ {0}
    BY <1>1 DEF Jobs
  <2> QED BY <1>5, <1>7, <2>1 DEF ReadNext
<1>8. CASE Cut(c)
  BY <1>1, <1>8 DEF Cut, Jobs, Running
<1>9. CASE Blocked(c)
  BY <1>1, <1>9 DEF Blocked, Jobs, Running
<1>10. CASE ReadAtom(c)
  <2>1. /\ job'[c].at = "folding" /\ job'[c].w = job[c].w /\ job'[c].during = job[c].during
        /\ job'[c].read = [h \in Listed |-> AtomItem(goods[h])]
    BY <1>1, <1>10 DEF ReadAtom, Jobs
  <2> QED BY <1>10, <2>1 DEF Running, ReadAtom
<1>11. CASE Tell(c)
  <2>1. job[c].drops \in Seq(Drops) /\ job[c].drops # << >>
    BY <1>1, <1>11 DEF TypeOK, Jobs, Tell
  <2>2. Tail(job[c].drops) \in Seq(Drops)
    BY <2>1, HeadTailProperties
  <2> QED BY <1>1, <1>11, <2>2, AnnouncingType DEF Tell
<1> QED BY <1>2, <1>3, <1>4, <1>6, <1>7, <1>8, <1>9, <1>10, <1>11 DEF Reads

\* A sweep takes note of what is published while it runs, and of nothing else.
LEMMA PublishEffect ==
    ASSUME TypeOK, NEW h \in Handles, NEW look, NEW dates, Publish(h, look, dates)
    PROVE  /\ Running' = Running
           /\ \A c \in Checkers \ Running : job'[c] = job[c]
           /\ \A c \in Running :
                /\ job'[c].at = job[c].at /\ job'[c].w = job[c].w
                /\ job'[c].page = job[c].page /\ job'[c].read = job[c].read
                /\ job'[c].tag = job[c].tag /\ job'[c].whole = job[c].whole
                /\ job'[c].during = job[c].during \cup {h}
           /\ Listed' = Listed \cup {h}
<1>1. \A c \in Checkers : job[c] \in Jobs
  BY JobFacts
<1>2. \A c \in Checkers :
        job'[c] = IF c \in Running THEN [job[c] EXCEPT !.during = @ \cup {h}] ELSE job[c]
  BY DEF Publish
<1>3. ASSUME NEW c \in Running
      PROVE  /\ job'[c].at = job[c].at /\ job'[c].w = job[c].w
             /\ job'[c].page = job[c].page /\ job'[c].read = job[c].read
             /\ job'[c].tag = job[c].tag /\ job'[c].whole = job[c].whole
             /\ job'[c].during = job[c].during \cup {h}
  BY <1>1, <1>2 DEF Running, Jobs
<1>4. \A c \in Checkers \ Running : job'[c] = job[c]
  BY <1>2
<1>5. Running' = Running
  BY <1>3, <1>4 DEF Running
<1>6. Listed' = Listed \cup {h}
  BY ShelfGains DEF Publish, TypeOK, Listed
<1> QED BY <1>3, <1>4, <1>5, <1>6

LEMMA UnlistEffect ==
    ASSUME TypeOK, NEW h \in Handles, Unlist(h)
    PROVE  Listed' = Listed \ {h}
BY ShelfLoses DEF Unlist, TypeOK, Listed

\* Once it has folded or failed, a sweep runs no more.
LEMMA FoldEnds ==
    ASSUME TypeOK, NEW c \in Checkers, Fold(c) \/ FoldUnchanged(c) \/ Fail(c)
    PROVE  /\ c \notin Running'
           /\ \A d \in Checkers \ {c} : job'[d] = job[d]
<1>1. CASE FoldUnchanged(c) \/ Fail(c)
  <2>1. job' = [job EXCEPT ![c] = Idle] /\ job \in [Checkers -> Jobs]
    BY <1>1 DEF FoldUnchanged, Fail, TypeOK
  <2>2. job'[c] = Idle /\ Idle.at = "idle"
    BY <2>1 DEF Idle
  <2> QED BY <2>1, <2>2 DEF Running
<1>2. CASE Fold(c)
  <2>1. Outcome(c).drops \in Seq(Drops)
    BY OutcomeType
  <2>2. job' = [job EXCEPT ![c] = Announcing(Outcome(c).drops)]
    BY <1>2 DEF Fold
  <2>3. job'[c].at \in {"idle", "telling"}
    BY <2>1, <2>2, AnnouncingType DEF TypeOK
  <2> QED BY <2>2, <2>3 DEF Running, TypeOK
<1> QED BY <1>1, <1>2

-----------------------------------------------------------------------------
(* The tick's sweeps alone: nothing is announced as new that was shown      *)

\* No "check now" call: at most one sweep runs at a time.
Alone == Forcers = {}

\* What the finished reads since the first sweep have shown is in the baseline,
\* and in the copy of it that a running sweep was handed, if there is one.
Knows(r) == r.baseline # NoBaseline => seen \subseteq r.baseline

ShownIsKnown ==
    /\ Knows(row)
    /\ \A c \in Running : Knows(job[c].w)

LEMMA ShownInit == Init => ShownIsKnown
BY DEF Init, ShownIsKnown, Knows, Running, Idle

LEMMA ShownStep ==
    ASSUME Alone, TypeOK, ShownIsKnown, [Next]_vars
    PROVE  ShownIsKnown'
<1> USE DEF ShownIsKnown, Knows
<1>1. ASSUME NEW c \in Checkers, Reads(c) PROVE ShownIsKnown'
  <2>1. Checkers = {c}
    BY DEF Alone, Checkers
  <2>2. UNCHANGED <<row, seen>>
    BY <1>1, ReadsFrame DEF ghosts
  <2>3. c \in Running' => job'[c].w = row \/ (c \in Running /\ job'[c].w = job[c].w)
    BY <1>1, ReadsEffect DEF Running
  <2> QED BY <2>1, <2>2, <2>3 DEF Running
<1>2. ASSUME NEW c \in Checkers, FoldUnchanged(c) \/ Fail(c) PROVE ShownIsKnown'
  <2>1. Checkers = {c} /\ c \notin Running'
    BY <1>2, FoldEnds DEF Alone, Checkers
  <2>2. seen' = seen /\ c \in Running
    BY <1>2 DEF FoldUnchanged, Fail, Running, ghosts
  <2>3. row'.baseline = IF job[c].w.baseline = NoBaseline THEN row.baseline
                        ELSE job[c].w.baseline
    BY <1>2 DEF FoldUnchanged, Fail, TypeOK, Rows
  <2> QED BY <2>1, <2>2, <2>3 DEF Running
<1>3. ASSUME NEW c \in Checkers, Fold(c) PROVE ShownIsKnown'
  <2>1. Checkers = {c} /\ c \notin Running' /\ c \in Running
    BY <1>3, FoldEnds DEF Alone, Checkers, Fold, Running
  <2>2. seen' = DOMAIN job[c].read \cup IF job[c].w.baseline = NoBaseline THEN {} ELSE seen
    BY <1>3 DEF Fold
  <2>3. row'.baseline = Remembered(job[c].w) \cup DOMAIN job[c].read
    BY <1>3, OutcomeType DEF Fold, TypeOK, Rows
  <2>4. seen' \subseteq row'.baseline
    BY <2>1, <2>2, <2>3 DEF Remembered
  <2> QED BY <2>1, <2>4 DEF Running
<1>4. ASSUME NEW h \in Handles, NEW look, NEW dates, Publish(h, look, dates)
      PROVE  ShownIsKnown'
  <2>1. seen' = seen /\ row'.baseline = row.baseline
    BY <1>4 DEF Publish, TypeOK, Rows
  <2>2. Running' = Running /\ \A c \in Running : job'[c].w = job[c].w
    BY <1>4, PublishEffect
  <2> QED BY <2>1, <2>2
<1>5. CASE Retarget
  BY <1>5 DEF Retarget, TypeOK, Rows, Running
<1>6. CASE Crash
  <2>1. Running' = {}
    BY <1>6 DEF Crash, Running, Idle
  <2> QED BY <1>6, <2>1 DEF Crash, ghosts
<1>7. CASE UNCHANGED <<job, seen>> /\ row'.baseline = row.baseline
  BY <1>7 DEF Running
<1> QED
  <2>1. ASSUME NEW c \in Checkers, Check(c) PROVE ShownIsKnown'
    BY <1>1, <1>2, <1>3, <2>1 DEF Check, Reads
  <2>2. ASSUME NEW h \in Handles, Unlist(h) \/ AgeOut(h) \/ Cool(h)
        PROVE  ShownIsKnown'
    BY <1>7, <2>2 DEF Unlist, AgeOut, Cool, ghosts, TypeOK, Rows
  <2>3. ASSUME NEW h \in Handles, NEW look \in StoreLooks, Restyle(h, look)
        PROVE  ShownIsKnown'
    BY <1>7, <2>3 DEF Restyle
  <2>4. ASSUME NEW wanted \in Searches, SetFilter(wanted) PROVE ShownIsKnown'
    BY <1>7, <2>4 DEF SetFilter, ghosts, TypeOK, Rows
  <2>5. CASE UNCHANGED vars
    BY <1>7, <2>5 DEF vars, ghosts
  <2> QED BY <1>4, <1>5, <1>6, <2>1, <2>2, <2>3, <2>4, <2>5 DEF Next, StoreMoves

\* Whatever the feed drops and shows again, whatever is searched for, whether
\* the url is respelled in mid-sweep, that sweep then fails and puts the old
\* baseline back, or the process dies: without "check now" calls no product
\* that a finished read has shown since the watch last started a baseline is
\* announced as an arrival, for any set of products, any page size and any cap.
THEOREM NothingIsNewTwice == Alone => (Spec => ArrivalsAreUnseen)
<1>1. CASE Alone
  <2>1. TypeOK /\ ShownIsKnown /\ [Next]_vars => (TypeOK /\ ShownIsKnown)'
    BY <1>1, TypeStep, ShownStep
  <2>2. ASSUME TypeOK, ShownIsKnown, NEW c \in Checkers, Fold(c)
        PROVE  (Told(Outcome(c).drops) \ TellsLaunch(Outcome(c).drops)) \cap seen = {}
    <3>1. c \in Running
      BY <2>2 DEF Fold, Running
    <3>2. /\ Memory(c) \in Memories /\ DOMAIN job[c].read \subseteq Handles
          /\ Outcome(c) = OnSweep(Memory(c), job[c].read, Window(c), lately)
          /\ Memory(c).baseline = job[c].w.baseline
      BY <2>2, JobFacts DEF Memory
    <3>3. CASE Memory(c).baseline = NoBaseline
      BY <3>2, <3>3, SweepTells
    <3>4. CASE Memory(c).baseline # NoBaseline
      <4>1. Told(Outcome(c).drops) \ TellsLaunch(Outcome(c).drops)
              \subseteq UNION {Spoken(Memory(c), job[c].read, Window(c), kind) :
                                 kind \in {"new", "relisted", "unconfirmed"}}
        BY <3>2, <3>4, SweepTells
      <4>2. \A kind : Spoken(Memory(c), job[c].read, Window(c), kind) \cap job[c].w.baseline = {}
        BY <3>2 DEF Spoken, Arrived, Unseen
      <4>3. seen \subseteq job[c].w.baseline
        BY <2>2, <3>1, <3>2, <3>4 DEF ShownIsKnown, Knows
      <4> QED BY <4>1, <4>2, <4>3
    <3> QED BY <3>3, <3>4
  <2>3. TypeOK /\ ShownIsKnown /\ [Next]_vars =>
          [\A c \in Checkers : Fold(c) =>
             (Told(Outcome(c).drops) \ TellsLaunch(Outcome(c).drops)) \cap seen = {}]_vars
    BY <2>2
  <2>4. QED BY <2>1, <2>3, TypeInit, ShownInit, PTL DEF Spec, ArrivalsAreUnseen
<1>2. QED BY <1>1

-----------------------------------------------------------------------------
(* The tick's sweeps alone: what the ledger remembers                       *)

\* While a sweep runs, nobody else writes what it will write.
LEMMA RunningKeepsCopy ==
    ASSUME Alone, TypeOK, [Next]_vars, NEW c \in Running'
    PROVE  \/ job'[c].w = row /\ row' = row
           \/ /\ c \in Running
              /\ job'[c].w = job[c].w
              /\ row'.ledger = row.ledger /\ row'.etag = row.etag
              /\ row'.baseline = row.baseline \/ Retarget
<1>1. Checkers = {c}
  BY DEF Alone, Checkers, Running
<1>2. CASE Reads(c)
  BY <1>2, <1>1, ReadsEffect, ReadsFrame DEF Running
<1>3. ~FoldUnchanged(c) /\ ~Fold(c) /\ ~Fail(c)
  BY <1>1, FoldEnds
<1>4. ASSUME NEW h \in Handles, NEW look, NEW dates, Publish(h, look, dates)
      PROVE  /\ c \in Running /\ job'[c].w = job[c].w
             /\ row'.ledger = row.ledger /\ row'.etag = row.etag
             /\ row'.baseline = row.baseline
  <2>1. c \in Running /\ job'[c].w = job[c].w
    BY <1>4, PublishEffect
  <2> QED BY <1>4, <2>1 DEF Publish, TypeOK, Rows
<1>5. ~Crash
  BY DEF Crash, Running, Idle
<1>6. CASE /\ UNCHANGED job
           /\ row'.ledger = row.ledger /\ row'.etag = row.etag
           /\ row'.baseline = row.baseline \/ Retarget
  BY <1>6 DEF Running
<1> QED
  <2>1. ASSUME NEW h \in Handles, Unlist(h) \/ AgeOut(h) \/ Cool(h)
        PROVE  UNCHANGED job /\ row'.ledger = row.ledger /\ row'.etag = row.etag
                 /\ row'.baseline = row.baseline
    BY <2>1 DEF Unlist, AgeOut, Cool, TypeOK, Rows
  <2>2. ASSUME NEW h \in Handles, NEW look \in StoreLooks, Restyle(h, look)
        PROVE  UNCHANGED <<job, row>>
    BY <2>2 DEF Restyle
  <2>3. ASSUME NEW wanted \in Searches, SetFilter(wanted)
        PROVE  UNCHANGED job /\ row'.ledger = row.ledger /\ row'.etag = row.etag
                 /\ row'.baseline = row.baseline
    BY <2>3 DEF SetFilter, TypeOK, Rows
  <2>4. CASE Retarget
    BY <1>6, <2>4 DEF Retarget, TypeOK, Rows
  <2>5. CASE UNCHANGED vars
    BY <1>6, <2>5 DEF vars
  <2>6. ASSUME NEW d \in Checkers, Check(d) PROVE Reads(c)
    BY <1>1, <1>3, <2>6 DEF Check, Reads
  <2> QED BY <1>2, <1>4, <1>5, <1>6, <2>1, <2>2, <2>3, <2>4, <2>5, <2>6 DEF Next, StoreMoves

\* Only the fold of a sweep writes the ledger.
LedgerIsCopied == \A c \in Running : job[c].w.ledger = row.ledger

\* With the url left alone, the same goes for baseline and validator.
CopyIsCurrent ==
    \A c \in Running : /\ job[c].w.baseline = row.baseline
                       /\ job[c].w.ledger = row.ledger
                       /\ job[c].w.etag = row.etag

LEMMA LedgerCopyStep ==
    ASSUME Alone, TypeOK, LedgerIsCopied, [Next]_vars
    PROVE  LedgerIsCopied'
<1> SUFFICES ASSUME NEW c \in Running' PROVE job'[c].w.ledger = row'.ledger
  BY DEF LedgerIsCopied
<1> QED BY RunningKeepsCopy DEF LedgerIsCopied

LEMMA CopyStep ==
    ASSUME Alone, ~Retargets, TypeOK, CopyIsCurrent, [Next]_vars
    PROVE  CopyIsCurrent'
<1> SUFFICES ASSUME NEW c \in Running'
             PROVE  /\ job'[c].w.baseline = row'.baseline
                    /\ job'[c].w.ledger = row'.ledger
                    /\ job'[c].w.etag = row'.etag
  BY DEF CopyIsCurrent
<1> QED BY RunningKeepsCopy DEF CopyIsCurrent, Retarget

\* What a launch is: a product in the ledger that was not to be had, now on
\* sale, of which no launch was announced within the cooldown.
LEMMA LaunchedFacts ==
    ASSUME NEW m, NEW read, NEW window, NEW recently,
           NEW h \in Launched(m, read, window, recently)
    PROVE  /\ h \in DOMAIN read /\ read[h].look = "on_sale"
           /\ m.ledger[h] # NoEntry /\ m.ledger[h].sale # "now"
           /\ m.ledger[h].alerted => h \notin recently
BY DEF Launched, BecameBuyable

\* The ledger after a fold, product by product.
LEMMA SweepLedger ==
    ASSUME NEW m \in Memories, NEW read, NEW window, NEW recently, NEW h \in Handles
    PROVE  LET old   == IF m.baseline = NoBaseline THEN NoEntry ELSE m.ledger[h]
               new   == OnSweep(m, read, window, recently).ledger[h]
               told  == m.baseline # NoBaseline /\ h \in Launched(m, read, window, recently)
           IN  /\ h \in DOMAIN read /\ AvailableStated(read[h]) =>
                    /\ new # NoEntry
                    /\ new.sale = IF read[h].look = "on_sale" THEN "now"
                                  ELSE IF old # NoEntry /\ old.sale # "never"
                                  THEN "before" ELSE "never"
                    /\ new.alerted <=> told \/ (old # NoEntry /\ old.alerted)
               /\ ~(h \in DOMAIN read /\ AvailableStated(read[h])) => new = old
<1> DEFINE old      == IF m.baseline = NoBaseline THEN NoEntry ELSE m.ledger[h]
           launched == IF m.baseline = NoBaseline THEN {} ELSE Launched(m, read, window, recently)
           entry    == [sale    |-> IF Available(read[h]) THEN "now"
                                    ELSE IF old # NoEntry /\ old.sale # "never"
                                         THEN "before" ELSE "never",
                        alerted |-> h \in launched \/ (old # NoEntry /\ old.alerted)]
<1>1. OnSweep(m, read, window, recently).ledger[h]
        = IF h \in DOMAIN read /\ AvailableStated(read[h]) THEN entry ELSE old
  BY DEF OnSweep, FirstSweep, LaterSweep, FoldLedger, EmptyLedger
<1>2. old \in Entries \cup {NoEntry}
  BY DEF Memories, Ledgers
<1>3. old # NoEntry => old.alerted \in BOOLEAN
  BY <1>2 DEF Entries
<1>4. entry \in Entries
  BY <1>3 DEF Entries
<1>5. entry # NoEntry
  BY <1>4, ConstantsAssumption
<1>6. AvailableStated(read[h]) => (Available(read[h]) <=> read[h].look = "on_sale")
  BY DEF AvailableStated, Available
<1>7. h \in launched
        <=> m.baseline # NoBaseline /\ h \in Launched(m, read, window, recently)
  OBVIOUS
<1> DEFINE new == OnSweep(m, read, window, recently).ledger[h]
<1>8. /\ entry.sale = IF Available(read[h]) THEN "now"
                      ELSE IF old # NoEntry /\ old.sale # "never" THEN "before" ELSE "never"
      /\ entry.alerted <=> h \in launched \/ (old # NoEntry /\ old.alerted)
  OBVIOUS
<1>9. new = IF h \in DOMAIN read /\ AvailableStated(read[h]) THEN entry ELSE old
  BY <1>1
<1> HIDE DEF new, entry, launched, old
<1>10. /\ h \in DOMAIN read /\ AvailableStated(read[h]) =>
            /\ new # NoEntry
            /\ new.sale = IF read[h].look = "on_sale" THEN "now"
                          ELSE IF old # NoEntry /\ old.sale # "never"
                          THEN "before" ELSE "never"
            /\ new.alerted <=> h \in launched \/ (old # NoEntry /\ old.alerted)
       /\ ~(h \in DOMAIN read /\ AvailableStated(read[h])) => new = old
  BY <1>5, <1>6, <1>8, <1>9
<1> QED BY <1>7, <1>10 DEF new, old

\* A fold in terms of the copy of the row its sweep was handed.
LEMMA FoldFacts ==
    ASSUME TypeOK, NEW c \in Checkers, Fold(c)
    PROVE  /\ c \in Running
           /\ Memory(c) \in Memories
           /\ Memory(c).baseline = job[c].w.baseline
           /\ Memory(c).ledger = job[c].w.ledger
           /\ Memory(c).wanted = job[c].w.wanted
           /\ DOMAIN job[c].read \subseteq Handles
           /\ Outcome(c) = OnSweep(Memory(c), job[c].read, Window(c), lately)
           /\ row'.baseline = Remembered(job[c].w) \cup DOMAIN job[c].read
           /\ row'.baseline # NoBaseline
           /\ row'.ledger = Outcome(c).ledger
           /\ row'.etag = job[c].tag
           /\ row'.wanted = row.wanted
<1>1. c \in Running
  BY DEF Fold, Running
<1>2. row \in Rows
  BY DEF TypeOK
<1>3. /\ row'.baseline = Outcome(c).baseline /\ row'.ledger = Outcome(c).ledger
      /\ row'.etag = job[c].tag /\ row'.wanted = row.wanted
  BY <1>2 DEF Fold, Rows
<1>4. row'.baseline # NoBaseline
  BY <1>3, OutcomeType, ConstantsAssumption
<1> QED BY <1>1, <1>3, <1>4, JobFacts, OutcomeType DEF Memory

\* Every launch of the last hour is stamped in the ledger.
LaunchesAreStamped ==
    /\ row.baseline = NoBaseline => lately = {}
    /\ \A h \in lately : row.ledger[h] # NoEntry /\ row.ledger[h].alerted

\* Only a fold announces, and only a fold rewrites the ledger.
LEMMA MemoryFrame ==
    ASSUME TypeOK, [Next]_vars, \A c \in Checkers : ~Fold(c)
    PROVE  /\ row'.ledger = row.ledger
           /\ lately' \subseteq lately
           /\ sold' = sold
           /\ row'.baseline = row.baseline \/ Retarget
                \/ \E c \in Running : /\ job[c].w.baseline # NoBaseline
                                      /\ row'.baseline = job[c].w.baseline
<1> USE DEF ghosts, TypeOK, Rows
<1>1. ASSUME NEW c \in Checkers, Reads(c)
      PROVE  UNCHANGED <<row, lately, sold>>
  BY <1>1, ReadsFrame
<1>2. ASSUME NEW c \in Checkers, FoldUnchanged(c) \/ Fail(c)
      PROVE  /\ row'.ledger = row.ledger /\ UNCHANGED <<lately, sold>>
             /\ row'.baseline = row.baseline
                  \/ \E d \in Running : /\ job[d].w.baseline # NoBaseline
                                        /\ row'.baseline = job[d].w.baseline
  <2>1. /\ row'.ledger = row.ledger
        /\ row'.baseline = IF job[c].w.baseline = NoBaseline THEN row.baseline
                           ELSE job[c].w.baseline
    BY <1>2 DEF FoldUnchanged, Fail
  <2> QED BY <1>2, <2>1 DEF FoldUnchanged, Fail, Running
<1>3. ASSUME NEW c \in Checkers, Check(c)
      PROVE  /\ row'.ledger = row.ledger /\ UNCHANGED <<lately, sold>>
             /\ row'.baseline = row.baseline
                  \/ \E d \in Running : /\ job[d].w.baseline # NoBaseline
                                        /\ row'.baseline = job[d].w.baseline
  BY <1>1, <1>2, <1>3 DEF Check, Reads
<1>4. ASSUME NEW h \in Handles, NEW look, NEW dates, Publish(h, look, dates)
      PROVE  /\ row'.ledger = row.ledger /\ row'.baseline = row.baseline
             /\ UNCHANGED <<lately, sold>>
  BY <1>4 DEF Publish
<1>5. ASSUME NEW h \in Handles, Unlist(h) \/ AgeOut(h) \/ Cool(h)
      PROVE  /\ row'.ledger = row.ledger /\ row'.baseline = row.baseline
             /\ lately' \subseteq lately /\ sold' = sold
  BY <1>5 DEF Unlist, AgeOut, Cool
<1>6. ASSUME NEW h \in Handles, NEW look, Restyle(h, look)
      PROVE  UNCHANGED <<row, lately, sold>>
  BY <1>6 DEF Restyle
<1>7. ASSUME NEW wanted, SetFilter(wanted)
      PROVE  /\ row'.ledger = row.ledger /\ row'.baseline = row.baseline
             /\ UNCHANGED <<lately, sold>>
  BY <1>7 DEF SetFilter
<1>8. CASE Retarget
  BY <1>8 DEF Retarget
<1>9. CASE Crash \/ UNCHANGED vars
  BY <1>9 DEF Crash, vars
<1> QED BY <1>3, <1>4, <1>5, <1>6, <1>7, <1>8, <1>9 DEF Next, StoreMoves

LEMMA LaunchInit == Init => LaunchesAreStamped /\ CopyIsCurrent /\ LedgerIsCopied
BY DEF Init, LaunchesAreStamped, CopyIsCurrent, LedgerIsCopied, Running, Idle

LEMMA LaunchFold ==
    ASSUME TypeOK, CopyIsCurrent, LaunchesAreStamped, NEW c \in Checkers, Fold(c)
    PROVE  /\ TellsLaunch(Outcome(c).drops) \cap lately = {}
           /\ LaunchesAreStamped'
<1> DEFINE m == Memory(c)
           read == job[c].read
           launched == Launched(m, read, Window(c), lately)
<1>1. /\ c \in Running /\ m \in Memories
      /\ m.baseline = row.baseline /\ m.ledger = row.ledger
      /\ DOMAIN read \subseteq Handles
      /\ Outcome(c) = OnSweep(m, read, Window(c), lately)
      /\ row'.baseline # NoBaseline
      /\ row'.ledger = Outcome(c).ledger
  BY FoldFacts DEF CopyIsCurrent
<1>2. lately' = lately \cup TellsLaunch(Outcome(c).drops) /\ lately \subseteq Handles
  BY DEF Fold, TypeOK
<1>3. CASE row.baseline = NoBaseline
  <2>1. TellsLaunch(Outcome(c).drops) = {} /\ lately = {}
    <3>1. TellsLaunch(OnSweep(m, read, Window(c), lately).drops) = {}
      BY <1>1, <1>3, SweepTells
    <3> QED BY <1>1, <1>3, <3>1 DEF LaunchesAreStamped
  <2> QED BY <1>1, <1>2, <2>1 DEF LaunchesAreStamped
<1>4. CASE row.baseline # NoBaseline
  <2>1. TellsLaunch(Outcome(c).drops) = launched
    BY <1>1, <1>4, SweepTells
  <2>2. \A h \in launched : /\ h \in DOMAIN read /\ read[h].look = "on_sale"
                            /\ row.ledger[h] # NoEntry
                            /\ row.ledger[h].alerted => h \notin lately
    BY <1>1, LaunchedFacts
  <2>3. launched \cap lately = {}
    BY <2>2 DEF LaunchesAreStamped
  <2>4. ASSUME NEW h \in lately'
        PROVE  row'.ledger[h] # NoEntry /\ row'.ledger[h].alerted
    <3>1. h \in Handles /\ (h \in lately \/ h \in launched)
      BY <1>1, <1>2, <2>1, <2>2, <2>4
    <3>2. h \in lately => row.ledger[h] # NoEntry /\ row.ledger[h].alerted
      BY DEF LaunchesAreStamped
    <3>3. CASE h \in DOMAIN read /\ AvailableStated(read[h])
      <4>1. /\ row'.ledger[h] # NoEntry
            /\ row'.ledger[h].alerted
                 <=> h \in launched \/ (row.ledger[h] # NoEntry /\ row.ledger[h].alerted)
        BY <1>1, <1>4, <3>1, <3>3, SweepLedger
      <4> QED BY <3>1, <3>2, <4>1
    <3>4. CASE ~(h \in DOMAIN read /\ AvailableStated(read[h]))
      <4>1. row'.ledger[h] = row.ledger[h]
        BY <1>1, <1>4, <3>1, <3>4, SweepLedger
      <4>2. h \notin launched
        BY <2>2, <3>4 DEF AvailableStated
      <4> QED BY <3>1, <3>2, <4>1, <4>2
    <3> QED BY <3>3, <3>4
  <2> QED BY <1>1, <2>1, <2>3, <2>4 DEF LaunchesAreStamped
<1> QED BY <1>3, <1>4

LEMMA LaunchStep ==
    ASSUME Alone, ~Retargets, TypeOK, CopyIsCurrent, LaunchesAreStamped, [Next]_vars
    PROVE  LaunchesAreStamped'
<1>1. CASE \E c \in Checkers : Fold(c)
  BY <1>1, LaunchFold
<1>2. CASE \A c \in Checkers : ~Fold(c)
  <2>1. /\ row'.ledger = row.ledger /\ lately' \subseteq lately
        /\ row'.baseline = row.baseline
    BY <1>2, MemoryFrame DEF CopyIsCurrent, Retarget
  <2> QED BY <2>1 DEF LaunchesAreStamped
<1> QED BY <1>1, <1>2

\* Without "check now" calls, and as long as the url is left alone, no product
\* is launched twice within the cooldown, whatever the store does and however
\* often the process dies.
THEOREM LaunchesKeepTheirDistance == Alone /\ ~Retargets => (Spec => LaunchesAreSpaced)
<1>1. CASE Alone /\ ~Retargets
  <2>1. TypeOK /\ CopyIsCurrent /\ LaunchesAreStamped /\ [Next]_vars
          => (TypeOK /\ CopyIsCurrent /\ LaunchesAreStamped)'
    BY <1>1, TypeStep, CopyStep, LaunchStep
  <2>2. TypeOK /\ CopyIsCurrent /\ LaunchesAreStamped /\ [Next]_vars =>
          [\A c \in Checkers : Fold(c) => TellsLaunch(Outcome(c).drops) \cap lately = {}]_vars
    BY LaunchFold
  <2>3. QED BY <2>1, <2>2, TypeInit, LaunchInit, PTL DEF Spec, LaunchesAreSpaced
<1>2. QED BY <1>1

-----------------------------------------------------------------------------
(* The tick's sweeps alone: the words of an alert                           *)

\* The ledger has been right about sales and about outages.
LedgerIsTrue ==
    /\ \A h \in sold : row.ledger[h] # NoEntry /\ row.ledger[h].sale # "never"
    /\ \A h \in Handles : row.ledger[h] # NoEntry =>
        /\ row.ledger[h].sale # "never" => h \in sold
        /\ row.ledger[h].sale # "now" => h \in outage

\* Whatever is, or was read as, not to be had has been so since it was last
\* stated on sale.
OutagesAreNoted ==
    /\ \A h \in Listed : ~OnSale(goods[h]) => h \in outage
    /\ \A c \in Running : \A h \in DOMAIN job[c].read :
        job[c].read[h].look \in {"sold_out", "staged"} => h \in outage

WordsInv ==
    /\ LedgerIsCopied
    /\ LedgerIsTrue
    /\ OutagesAreNoted

LEMMA WordsInit == Init => WordsInv
<1> SUFFICES ASSUME Init PROVE WordsInv
  OBVIOUS
<1>1. LedgerIsCopied
  BY LaunchInit
<1>2. LedgerIsTrue
  BY DEF Init, LedgerIsTrue, NewRow, EmptyLedger
<1>3. OutagesAreNoted
  BY DEF Init, OutagesAreNoted, Running, Idle
<1> QED BY <1>1, <1>2, <1>3 DEF WordsInv, Init

\* Until a fold, outages are only added to.
LEMMA OutageFrame ==
    ASSUME TypeOK, [Next]_vars, \A c \in Checkers : ~Fold(c)
    PROVE  outage \subseteq outage'
<1>1. ASSUME NEW c \in Checkers, Check(c) PROVE UNCHANGED outage
  BY <1>1, ReadsFrame DEF Check, Reads, FoldUnchanged, Fail, ghosts
<1> QED BY <1>1 DEF Next, StoreMoves, Publish, Unlist, Restyle, AgeOut, Cool, SetFilter,
                    Retarget, Crash, vars, ghosts

LEMMA OutagesFold ==
    ASSUME Alone, TypeOK, NEW c \in Checkers, Fold(c)
    PROVE  OutagesAreNoted'
<1>1. Running' = {}
  BY FoldEnds DEF Alone, Checkers, Running
<1>2. UNCHANGED <<shelf, goods>> /\ {h \in Listed : ~OnSale(goods[h])} \subseteq outage'
  BY DEF Fold, world
<1> QED BY <1>1, <1>2 DEF OutagesAreNoted, Listed

LEMMA OutagesStep ==
    ASSUME Alone, TypeOK, OutagesAreNoted, [Next]_vars
    PROVE  OutagesAreNoted'
<1> USE DEF OutagesAreNoted
<1>1. CASE \E c \in Checkers : Fold(c)
  BY <1>1, OutagesFold
<1>2. ASSUME NEW c \in Checkers, Reads(c) PROVE OutagesAreNoted'
  <2>1. UNCHANGED <<shelf, goods, outage>> /\ Checkers = {c}
    BY <1>2, ReadsFrame DEF world, ghosts, Alone, Checkers
  <2>2. ASSUME c \in Running', NEW h \in DOMAIN job'[c].read,
               job'[c].read[h].look \in {"sold_out", "staged"}
        PROVE  h \in outage
    <3>1. CASE job'[c].read = << >>
      BY <2>2, <3>1
    <3>2. CASE c \in Running /\ h \in DOMAIN job[c].read /\ job'[c].read[h] = job[c].read[h]
      BY <2>2, <3>2
    <3>3. CASE h \in Listed /\ job'[c].read[h] \in {goods[h], AtomItem(goods[h])}
      BY <2>2, <3>3 DEF AtomItem, OnSale
    <3> QED BY <1>2, <2>2, <3>1, <3>2, <3>3, ReadsEffect DEF Running
  <2> QED BY <2>1, <2>2 DEF Running, Listed
<1>3. ASSUME NEW c \in Checkers, FoldUnchanged(c) \/ Fail(c) PROVE OutagesAreNoted'
  <2>1. Running' = {}
    BY <1>3, FoldEnds DEF Alone, Checkers, Running
  <2> QED BY <1>3, <2>1 DEF FoldUnchanged, Fail, world, ghosts, Listed
<1>4. ASSUME NEW h \in Handles, NEW look \in StoreLooks, NEW dates \in StoreDates,
             Publish(h, look, dates)
      PROVE  OutagesAreNoted'
  <2>1. Listed' = Listed \cup {h} /\ Running' = Running
        /\ \A c \in Running : job'[c].read = job[c].read
    BY <1>4, PublishEffect
  <2>2. /\ goods'[h].look = look
        /\ \A k \in Listed : goods'[k] = goods[k]
        /\ outage \subseteq outage'
        /\ look \notin {"on_sale", "unflagged"} => h \in outage'
    BY <1>4 DEF Publish, TypeOK
  <2> QED BY <2>1, <2>2 DEF OnSale
<1>5. ASSUME NEW h \in Handles, Unlist(h) PROVE OutagesAreNoted'
  <2>1. Listed' = Listed \ {h}
    BY <1>5, UnlistEffect
  <2>2. Listed \subseteq Handles
    BY RangeOfSeq DEF TypeOK, Listed
  <2>3. \A k \in Listed' : goods'[k] = goods[k]
    BY <1>5, <2>1, <2>2 DEF Unlist, TypeOK
  <2> QED BY <1>5, <2>1, <2>3 DEF Unlist, Running, ghosts
<1>6. ASSUME NEW h \in Handles, NEW look \in StoreLooks, Restyle(h, look)
      PROVE  OutagesAreNoted'
  <2>1. Listed \subseteq Handles
    BY RangeOfSeq DEF TypeOK, Listed
  <2>2. /\ Listed' = Listed /\ Running' = Running /\ job' = job
        /\ goods' = [goods EXCEPT ![h].look = look]
        /\ outage \subseteq outage'
        /\ look \notin {"on_sale", "unflagged"} => h \in outage'
    BY <1>6 DEF Restyle, Listed, Running
  <2>3. \A k \in Handles : goods'[k].look = IF k = h THEN look ELSE goods[k].look
    BY <2>2 DEF TypeOK, Items
  <2> QED BY <2>1, <2>2, <2>3 DEF OnSale
<1>7. CASE Crash
  <2>1. Running' = {}
    BY <1>7 DEF Crash, Running, Idle
  <2> QED BY <1>7, <2>1 DEF Crash, world, ghosts, Listed
<1>8. CASE UNCHANGED <<world, job, outage>>
  BY <1>8 DEF world, Listed, Running
<1> QED
  <2>1. ASSUME NEW c \in Checkers, Check(c), ~Fold(c) PROVE OutagesAreNoted'
    BY <1>2, <1>3, <2>1 DEF Check, Reads
  <2>2. ASSUME NEW h \in Handles, AgeOut(h) \/ Cool(h) PROVE OutagesAreNoted'
    BY <1>8, <2>2 DEF AgeOut, Cool, ghosts
  <2>3. ASSUME NEW wanted \in Searches, SetFilter(wanted) PROVE OutagesAreNoted'
    BY <1>8, <2>3 DEF SetFilter, ghosts
  <2>4. CASE Retarget \/ UNCHANGED vars
    BY <1>8, <2>4 DEF Retarget, vars, ghosts
  <2> QED BY <1>1, <1>4, <1>5, <1>6, <1>7, <2>1, <2>2, <2>3, <2>4 DEF Next, StoreMoves

LEMMA LedgerFold ==
    ASSUME Alone, TypeOK, WordsInv, NEW c \in Checkers, Fold(c)
    PROVE  LedgerIsTrue'
<1> DEFINE m == Memory(c)
           read == job[c].read
           stated == {h \in DOMAIN read : read[h].look = "on_sale"}
<1>1. /\ c \in Running /\ m \in Memories
      /\ m.baseline = job[c].w.baseline /\ m.ledger = row.ledger
      /\ DOMAIN read \subseteq Handles /\ read \in [DOMAIN read -> Seen]
      /\ Outcome(c) = OnSweep(m, read, Window(c), lately)
      /\ row'.ledger = Outcome(c).ledger
  BY FoldFacts, JobFacts DEF WordsInv, LedgerIsCopied
<1> DEFINE before == IF m.baseline = NoBaseline THEN {} ELSE sold
<1>2. /\ sold' = stated \cup before /\ before \subseteq sold
      /\ outage \ stated \subseteq outage'
      /\ sold \subseteq Handles
  BY <1>1 DEF Fold, TypeOK
<1>3. m.baseline = NoBaseline => before = {}
  OBVIOUS
<1>4. ASSUME NEW h \in Handles, h \in DOMAIN read, AvailableStated(read[h])
      PROVE  /\ row'.ledger[h] # NoEntry
             /\ read[h].look = "on_sale" <=> row'.ledger[h].sale = "now"
             /\ read[h].look # "on_sale" => h \in outage
             /\ row'.ledger[h].sale = "before" => h \in before
             /\ h \in before => row'.ledger[h].sale # "never"
             /\ row'.ledger[h].sale \in {"now", "before", "never"}
  <2> DEFINE old == IF m.baseline = NoBaseline THEN NoEntry ELSE m.ledger[h]
  <2>1. /\ row'.ledger[h] # NoEntry
        /\ row'.ledger[h].sale = IF read[h].look = "on_sale" THEN "now"
                                 ELSE IF old # NoEntry /\ old.sale # "never"
                                 THEN "before" ELSE "never"
    BY <1>1, <1>4, SweepLedger
  <2>2. read[h].look # "on_sale" => h \in outage
    BY <1>1, <1>4 DEF AvailableStated, WordsInv, OutagesAreNoted
  <2>3. old # NoEntry /\ old.sale # "never" => h \in before
    BY <1>1 DEF WordsInv, LedgerIsTrue
  <2>4. h \in before => old # NoEntry /\ old.sale # "never"
    BY <1>1 DEF WordsInv, LedgerIsTrue
  <2> HIDE DEF old, m, read, before
  <2> QED BY <2>1, <2>2, <2>3, <2>4
<1>5. ASSUME NEW h \in Handles, ~(h \in DOMAIN read /\ AvailableStated(read[h]))
      PROVE  /\ row'.ledger[h] \in {NoEntry, row.ledger[h]}
             /\ row'.ledger[h] # NoEntry => m.baseline # NoBaseline
             /\ h \in before => row'.ledger[h] = row.ledger[h]
             /\ h \notin stated
  <2>1. row'.ledger[h] = IF m.baseline = NoBaseline THEN NoEntry ELSE m.ledger[h]
    BY <1>1, <1>5, SweepLedger
  <2>2. h \notin stated
    BY <1>5 DEF AvailableStated
  <2> QED BY <1>1, <1>3, <2>1, <2>2
<1>7. ASSUME NEW h \in sold'
      PROVE  row'.ledger[h] # NoEntry /\ row'.ledger[h].sale # "never"
  <2>1. h \in Handles
    BY <1>1, <1>2, <1>7
  <2>2. CASE h \in DOMAIN read /\ AvailableStated(read[h])
    BY <1>2, <1>4, <1>7, <2>1, <2>2
  <2>3. CASE ~(h \in DOMAIN read /\ AvailableStated(read[h]))
    BY <1>2, <1>5, <1>7, <2>1, <2>3 DEF WordsInv, LedgerIsTrue
  <2> QED BY <2>2, <2>3
<1>8. ASSUME NEW h \in Handles, row'.ledger[h] # NoEntry
      PROVE  /\ row'.ledger[h].sale # "never" => h \in sold'
             /\ row'.ledger[h].sale # "now" => h \in outage'
  <2>1. CASE h \in DOMAIN read /\ AvailableStated(read[h])
    <3>1. CASE read[h].look = "on_sale"
      BY <1>2, <1>4, <2>1, <3>1
    <3>2. CASE read[h].look # "on_sale"
      BY <1>2, <1>4, <2>1, <3>2
    <3> QED BY <3>1, <3>2
  <2>2. CASE ~(h \in DOMAIN read /\ AvailableStated(read[h]))
    BY <1>2, <1>5, <1>8, <2>2 DEF WordsInv, LedgerIsTrue
  <2> QED BY <2>1, <2>2
<1> QED BY <1>7, <1>8 DEF LedgerIsTrue

LEMMA WordsStep ==
    ASSUME Alone, TypeOK, WordsInv, [Next]_vars
    PROVE  WordsInv'
<1>1. LedgerIsCopied' /\ OutagesAreNoted'
  BY LedgerCopyStep, OutagesStep DEF WordsInv
<1>2. LedgerIsTrue'
  <2>1. CASE \E c \in Checkers : Fold(c)
    BY <2>1, LedgerFold
  <2>2. CASE \A c \in Checkers : ~Fold(c)
    <3>1. row'.ledger = row.ledger /\ sold' = sold /\ outage \subseteq outage'
      BY <2>2, MemoryFrame, OutageFrame
    <3> QED BY <3>1 DEF WordsInv, LedgerIsTrue
  <2> QED BY <2>1, <2>2
<1> QED BY <1>1, <1>2 DEF WordsInv

\* What an arrival's dates are, and what the ledger knows of a launch.
LEMMA DropFacts ==
    ASSUME Alone, TypeOK, WordsInv, NEW c \in Checkers, Fold(c),
           NEW i \in DOMAIN Outcome(c).drops
    PROVE  LET drop == Outcome(c).drops[i]
               read == job[c].read
           IN  \/ \E kind \in {"new", "relisted", "unconfirmed"} :
                    /\ drop.arrival = kind
                    /\ \A h \in drop.handles :
                        read[h].dates = IF kind = "unconfirmed" THEN "undated" ELSE kind
               \/ /\ drop.arrival = "launched"
                  /\ drop.debut \subseteq drop.handles
                  /\ drop.debut \cap sold = {}
                  /\ drop.handles \ drop.debut \subseteq sold
                  /\ \A h \in drop.handles : h \in outage /\ read[h].look = "on_sale"
<1> DEFINE m    == Memory(c)
           read == job[c].read
           drop == Outcome(c).drops[i]
<1>1. /\ m \in Memories /\ DOMAIN read \subseteq Handles
      /\ read \in [DOMAIN read -> Seen]
      /\ m.ledger = row.ledger
      /\ Outcome(c) = OnSweep(m, read, Window(c), lately)
  BY FoldFacts, JobFacts DEF WordsInv, LedgerIsCopied
<1>2. drop \in Range(Outcome(c).drops)
  BY DEF Range
<1>3. m.baseline # NoBaseline
  BY <1>1, SweepDrops
<1>4. \/ \E kind \in {"new", "relisted", "unconfirmed"} : drop = Met(m, read, Window(c), kind)
      \/ drop = Launches(m, read, Window(c), lately)
  <2> DEFINE said == {Met(m, read, Window(c), "new"), Met(m, read, Window(c), "relisted"),
                      Met(m, read, Window(c), "unconfirmed"),
                      Launches(m, read, Window(c), lately)}
  <2>1. Range(OnSweep(m, read, Window(c), lately).drops) = {d \in said : d.handles # {}}
    BY <1>1, <1>3, SweepDrops
  <2>2. drop \in said
    BY <1>1, <1>2, <2>1
  <2> HIDE DEF m, read, drop
  <2> QED BY <2>2
<1>5. ASSUME NEW kind \in {"new", "relisted", "unconfirmed"},
             drop = Met(m, read, Window(c), kind)
      PROVE  /\ drop.arrival = kind
             /\ \A h \in drop.handles :
                    read[h].dates = IF kind = "unconfirmed" THEN "undated" ELSE kind
  <2>1. /\ drop.arrival = kind
        /\ \A h \in drop.handles : h \in DOMAIN read /\ Arrival(h, read[h], Window(c)) = kind
    BY <1>5 DEF Met, Drop, Spoken, Arrived, Unseen
  <2>2. \A h \in DOMAIN read : read[h].dates \in {"new", "relisted", "undated"}
    BY <1>1 DEF Seen, Dates
  <2> QED BY <2>1, <2>2 DEF Arrival
<1>6. ASSUME drop = Launches(m, read, Window(c), lately)
      PROVE  /\ drop.arrival = "launched"
             /\ drop.debut \subseteq drop.handles
             /\ drop.debut \cap sold = {}
             /\ drop.handles \ drop.debut \subseteq sold
             /\ \A h \in drop.handles : h \in outage /\ read[h].look = "on_sale"
  <2>1. /\ drop.arrival = "launched"
        /\ drop.handles = Launched(m, read, Window(c), lately)
        /\ drop.debut = {h \in drop.handles : row.ledger[h].sale = "never"}
    BY <1>1, <1>6 DEF Launches, Drop
  <2>2. \A h \in drop.handles : /\ h \in Handles /\ read[h].look = "on_sale"
                                /\ row.ledger[h] # NoEntry /\ row.ledger[h].sale # "now"
    BY <1>1, <2>1, LaunchedFacts
  <2> HIDE DEF drop, read, m
  <2> QED BY <2>1, <2>2 DEF WordsInv, LedgerIsTrue
<1>7. CASE \E kind \in {"new", "relisted", "unconfirmed"} : drop = Met(m, read, Window(c), kind)
  <2>1. PICK kind \in {"new", "relisted", "unconfirmed"} : drop = Met(m, read, Window(c), kind)
    BY <1>7
  <2> HIDE DEF drop, read, m
  <2>2. /\ drop.arrival = kind
        /\ \A h \in drop.handles :
              read[h].dates = IF kind = "unconfirmed" THEN "undated" ELSE kind
    BY <1>5, <2>1
  <2> QED BY <2>2 DEF drop, read
<1>8. CASE drop = Launches(m, read, Window(c), lately)
  BY <1>6, <1>8
<1> QED BY <1>4, <1>7, <1>8

\* Whatever the product pages answer, the headline fits the drop.
LEMMA WordsFold ==
    ASSUME Alone, TypeOK, WordsInv, NEW c \in Checkers, Fold(c),
           NEW i \in DOMAIN Outcome(c).drops
    PROVE  LET drop == Outcome(c).drops[i]
           IN  /\ drop.arrival = "launched" => drop.handles \subseteq outage
               /\ \A pages \in AskThePages(drop, job[c].read) :
                        Says(Headline(drop, pages), drop, job[c].read)
<1> DEFINE drop == Outcome(c).drops[i]
           read == job[c].read
<1>1. CASE \E kind \in {"new", "relisted", "unconfirmed"} :
            /\ drop.arrival = kind
            /\ \A h \in drop.handles :
                read[h].dates = IF kind = "unconfirmed" THEN "undated" ELSE kind
  <2> HIDE DEF drop, read
  <2>1. \A pages : Headline(drop, pages) = drop.arrival
    BY <1>1 DEF Headline
  <2>2. Says(drop.arrival, drop, read)
    BY <1>1 DEF Says
  <2> QED BY <1>1, <2>1, <2>2 DEF drop, read
<1>2. CASE /\ drop.arrival = "launched"
           /\ drop.debut \subseteq drop.handles
           /\ drop.debut \cap sold = {}
           /\ drop.handles \ drop.debut \subseteq sold
           /\ \A h \in drop.handles : h \in outage /\ read[h].look = "on_sale"
  <2> HIDE DEF drop, read
  <2>1. Says("early", drop, read)
    BY <1>2 DEF Says, OnSale
  <2>2. drop.debut = drop.handles => Says("released", drop, read)
    BY <1>2 DEF Says
  <2>3. Says("some_released", drop, read)
    BY <1>2 DEF Says
  <2>4. drop.debut = {} => Says("back", drop, read)
    BY <1>2 DEF Says
  <2>5. \A pages : Says(Headline(drop, pages), drop, read)
    BY <1>2, <2>1, <2>2, <2>3, <2>4 DEF Headline
  <2> QED BY <1>2, <2>5 DEF drop, read
<1> QED BY <1>1, <1>2, DropFacts

\* Swept one at a time, the watch says what is: nothing is called a release that
\* was on sale since the first sweep, nothing is called back that was not, and a
\* launch is of what was not to be had in between - however the url is respelled
\* under a running sweep, whichever sweeps fail and put an old baseline back,
\* whatever the process forgets when it dies, and whatever the pages answer.
THEOREM WordsHold == Alone => (Spec => WordsAreTrue)
<1>1. CASE Alone
  <2>1. TypeOK /\ WordsInv /\ [Next]_vars => (TypeOK /\ WordsInv)'
    BY <1>1, TypeStep, WordsStep
  <2>2. TypeOK /\ WordsInv /\ [Next]_vars =>
          [\A c \in Checkers : Fold(c) =>
            \A i \in DOMAIN Outcome(c).drops :
                LET drop == Outcome(c).drops[i]
                IN  /\ drop.arrival = "launched" => drop.handles \subseteq outage
                    /\ \A pages \in AskThePages(drop, job[c].read) :
                            Says(Headline(drop, pages), drop, job[c].read)]_vars
    BY <1>1, WordsFold
  <2>3. QED BY <2>1, <2>2, TypeInit, WordsInit, PTL DEF Spec, WordsAreTrue
<1>2. QED BY <1>1

-----------------------------------------------------------------------------
(* The tick's sweeps alone: no release is absorbed in silence               *)

\* The url is left alone, nothing leaves the shelf under a paging sweep, and no
\* sweep outlasts the slack of the window.
Undisturbed == Alone /\ ~Retargets /\ ~Reshelves /\ ~SlowStart

\* Nobody asks, of products that show neither price nor stock, for particular
\* ones.
Legible == Searches \subseteq {Everything} \/ (~Gated /\ "bare" \notin StoreLooks)

\* The rows of the shelf from the first to the k-th page.
UpTo(k) == {shelf[i] : i \in DOMAIN shelf \cap 1..(k * PageSize)}

LEMMA NothingYet == TypeOK => UpTo(0) = {}
<1>1. 0 * PageSize = 0
  BY ConstantsAssumption
<1>2. 1..0 = {}
  OBVIOUS
<1> QED BY <1>1, <1>2 DEF UpTo

LEMMA PageByPage ==
    ASSUME TypeOK, NEW k \in Nat \ {0}
    PROVE  UpTo(k) = UpTo(k - 1) \cup ItemsOn(k)
<1> DEFINE lo == (k - 1) * PageSize
           hi == k * PageSize
<1>1. lo \in Nat /\ hi = lo + PageSize /\ PageSize \in Nat \ {0}
  BY ConstantsAssumption
<1> HIDE DEF lo, hi
<1>2. 1..hi = 1..lo \cup (lo + 1)..hi
  BY <1>1
<1>3. DOMAIN shelf \cap 1..hi = (DOMAIN shelf \cap 1..lo) \cup (DOMAIN shelf \cap (lo + 1)..hi)
  BY <1>2
<1>4. {shelf[i] : i \in DOMAIN shelf \cap 1..hi}
        = {shelf[i] : i \in DOMAIN shelf \cap 1..lo}
            \cup {shelf[i] : i \in DOMAIN shelf \cap (lo + 1)..hi}
  BY <1>3
<1> QED BY <1>4 DEF UpTo, ItemsOn, lo, hi

\* After a page that is not full there is nothing more to read.
LEMMA ShortPage ==
    ASSUME TypeOK, NEW k \in Nat \ {0}, ~FullPage(k)
    PROVE  UpTo(k) = Listed
<1>1. Len(shelf) \in Nat /\ DOMAIN shelf = 1..Len(shelf) /\ PageSize \in Nat \ {0}
  BY ConstantsAssumption, LenProperties DEF TypeOK
<1>2. k * PageSize \in Nat
  BY <1>1
<1>3. ~(Len(shelf) >= k * PageSize)
  BY PageLength DEF TypeOK, FullPage
<1> DEFINE n == Len(shelf)
           hi == k * PageSize
<1>4. 1..n \subseteq 1..hi
  <2>1. n \in Nat /\ hi \in Nat /\ ~(n >= hi)
    BY <1>1, <1>2, <1>3
  <2> HIDE DEF n, hi
  <2> QED BY <2>1
<1>5. DOMAIN shelf \cap 1..(k * PageSize) = DOMAIN shelf
  BY <1>1, <1>4
<1> QED BY <1>5 DEF UpTo, Listed, Range

LEMMA ShelfIsFinite == TypeOK => IsFiniteSet(Listed)
<1> SUFFICES ASSUME TypeOK PROVE IsFiniteSet(Listed)
  OBVIOUS
<1>1. Len(shelf) \in Nat /\ DOMAIN shelf = 1..Len(shelf)
  BY LenProperties DEF TypeOK
<1>2. IsFiniteSet(DOMAIN shelf)
  BY <1>1, FS_Interval
<1>3. shelf \in [DOMAIN shelf -> Listed]
  BY <1>1 DEF TypeOK, Listed, Range
<1>4. shelf \in Surjection(DOMAIN shelf, Listed)
  BY <1>3 DEF Surjection, Listed, Range
<1> QED BY <1>2, <1>4, FS_Surjection

\* A product published while a sweep pages on pushes nothing past it unseen.
LEMMA ShelfGrowsBehind ==
    ASSUME TypeOK, NEW h \in Handles, NEW look, NEW dates, Publish(h, look, dates),
           NEW k \in Nat
    PROVE  UpTo(k)' \subseteq UpTo(k) \cup {h}
<1>1. /\ shelf' \in Seq(Handles)
      /\ \A i \in DOMAIN shelf' : shelf'[i] = h
                                    \/ \E j \in DOMAIN shelf : j <= i /\ shelf'[i] = shelf[j]
  BY ShelfGains DEF Publish, TypeOK, Listed
<1>2. /\ DOMAIN shelf = 1..Len(shelf) /\ DOMAIN shelf' = 1..Len(shelf')
      /\ Len(shelf) \in Nat /\ Len(shelf') \in Nat
  BY <1>1, LenProperties DEF TypeOK
<1>3. k * PageSize \in Nat
  BY ConstantsAssumption
<1>4. ASSUME NEW i \in DOMAIN shelf' \cap 1..(k * PageSize), shelf'[i] # h
      PROVE  shelf'[i] \in UpTo(k)
  <2>1. PICK j \in DOMAIN shelf : j <= i /\ shelf'[i] = shelf[j]
    BY <1>1, <1>4
  <2> DEFINE hi == k * PageSize
  <2>2. i \in 1..hi /\ j \in Nat \ {0} /\ hi \in Nat
    BY <1>2, <1>3, <1>4
  <2> HIDE DEF hi
  <2>3. j \in 1..hi
    BY <2>1, <2>2
  <2> QED BY <2>1, <2>3 DEF UpTo, hi
<1> QED BY <1>4 DEF UpTo

\* The baseline is exactly what was shown, and all other memory is of that.
MemoryIsSeen ==
    /\ covered <=> row.baseline # NoBaseline
    /\ seen = Remembered(row)
    /\ IsFiniteSet(seen)
    /\ owed # {} => covered
    /\ \A h \in Handles : row.ledger[h] # NoEntry => h \in seen
    /\ row.etag # NoTag => covered /\ TagHandles(row.etag) \subseteq seen

\* A release that is still to be announced is either within the window, or
\* recorded as something that has yet to become buyable.
OwedIsArmed ==
    \A h \in owed :
        /\ h \in Listed \ seen => h \in row.recent
        /\ h \in seen => /\ row.ledger[h] # NoEntry
                         /\ row.ledger[h].sale # "now"
                         /\ ~row.ledger[h].alerted

\* What a sweep has gone past it has read, or it was published meanwhile.
SweepIsComplete ==
    \A c \in Running :
        /\ IsFiniteSet(DOMAIN job[c].read)
        /\ \A h \in owed \ seen : h \in Listed \cup DOMAIN job[c].read => h \in Window(c)
        /\ job[c].at = "more" => UpTo(job[c].page) \subseteq DOMAIN job[c].read \cup job[c].during
        /\ job[c].at = "folding" /\ job[c].whole
                => Listed \subseteq DOMAIN job[c].read \cup job[c].during
        /\ job[c].at = "unchanged" => covered /\ Listed \subseteq seen \cup job[c].during
        /\ job[c].tag # NoTag => TagHandles(job[c].tag) \subseteq DOMAIN job[c].read

\* Either everything is wanted, or whatever is read states what a search needs.
EverythingIsWanted ==
    row.wanted = Everything /\ \A c \in Running : job[c].w.wanted = Everything

LooksAreStated ==
    /\ \A h \in Listed : goods[h].look \notin {"bare", "atom"}
    /\ \A c \in Running :
        /\ job[c].at # "atom"
        /\ \A h \in DOMAIN job[c].read : job[c].read[h].look \notin {"bare", "atom"}

SearchIsAnswered ==
    /\ Searches \subseteq {Everything} => EverythingIsWanted
    /\ ~Gated /\ "bare" \notin StoreLooks => LooksAreStated

ReleaseInv ==
    /\ CopyIsCurrent
    /\ MemoryIsSeen
    /\ OwedIsArmed
    /\ SweepIsComplete
    /\ SearchIsAnswered

\* A step that no sweep notices: what is on the shelf may go, but not while a
\* sweep pages on.
Unnoticed ==
    /\ UNCHANGED <<job, covered, owed, seen>>
    /\ row'.baseline = row.baseline /\ row'.ledger = row.ledger /\ row'.etag = row.etag
    /\ row'.recent = row.recent \/ ~covered
    /\ Listed' \subseteq Listed
    /\ shelf' = shelf \/ \A c \in Checkers : job[c].at # "more"

\* The running sweep is lost, and nothing else: the process died, or the sweep
\* failed and the baseline it put back was the current one.
Undone == Running' = {} /\ UNCHANGED <<world, row, lately, ghosts>>

LEMMA LostSweep ==
    ASSUME Alone, TypeOK, CopyIsCurrent, Crash \/ \E c \in Checkers : Fail(c)
    PROVE  Undone
<1>1. CASE Crash
  BY <1>1 DEF Crash, Undone, Running, Idle
<1>2. ASSUME NEW c \in Checkers, Fail(c) PROVE Undone
  <2>1. Running' = {} /\ c \in Running
    BY <1>2, FoldEnds DEF Alone, Checkers, Running, Fail
  <2>2. row \in Rows /\ job[c].w.baseline = row.baseline
    BY <2>1 DEF TypeOK, CopyIsCurrent
  <2>3. row' = [row EXCEPT !.baseline = row.baseline]
    BY <1>2, <2>2 DEF Fail
  <2>4. row' = row
    BY <2>2, <2>3 DEF Rows
  <2> QED BY <1>2, <2>1, <2>4 DEF Fail, Undone
<1> QED BY <1>1, <1>2

LEMMA StepKinds ==
    ASSUME Undisturbed, TypeOK, CopyIsCurrent, [Next]_vars
    PROVE  \/ \E c \in Checkers : Reads(c) \/ FoldUnchanged(c) \/ Fold(c)
           \/ \E h \in Handles, look \in StoreLooks, dates \in StoreDates :
                Publish(h, look, dates)
           \/ Undone
           \/ Unnoticed
<1>1. row \in Rows
  BY DEF TypeOK
<1>2. ASSUME NEW h \in Handles, Unlist(h) PROVE Unnoticed
  <2>1. Listed' \subseteq Listed
    BY <1>2, UnlistEffect
  <2>2. \A c \in Checkers : job[c].at # "more"
    BY <1>2 DEF Unlist, Undisturbed
  <2> QED BY <1>2, <2>1, <2>2 DEF Unlist, Unnoticed, ghosts
<1>3. ASSUME NEW h \in Handles, NEW look \in StoreLooks, Restyle(h, look) PROVE Unnoticed
  BY <1>3 DEF Restyle, Unnoticed, Listed
<1>4. ASSUME NEW h \in Handles, AgeOut(h) PROVE Unnoticed
  BY <1>1, <1>4 DEF AgeOut, Unnoticed, Undisturbed, Listed, world, ghosts, Rows
<1>5. ASSUME NEW h \in Handles, Cool(h) PROVE Unnoticed
  BY <1>5 DEF Cool, Unnoticed, Listed, world
<1>6. ASSUME NEW wanted \in Searches, SetFilter(wanted) PROVE Unnoticed
  BY <1>1, <1>6 DEF SetFilter, Unnoticed, Listed, world, ghosts, Rows
<1>7. CASE UNCHANGED vars
  BY <1>7 DEF vars, Unnoticed, Listed, world, ghosts
<1>8. ~Retarget
  BY DEF Retarget, Undisturbed
<1>9. ASSUME NEW c \in Checkers, Check(c)
      PROVE  Undone \/ \E d \in Checkers : Reads(d) \/ FoldUnchanged(d) \/ Fold(d)
  BY <1>9, LostSweep DEF Check, Reads, Undisturbed
<1>10. CASE \E c \in Checkers : Check(c)
  BY <1>9, <1>10
<1>11. CASE StoreMoves
  BY <1>2, <1>3, <1>11 DEF StoreMoves
<1>12. CASE \E h \in Handles : AgeOut(h) \/ Cool(h)
  BY <1>4, <1>5, <1>12
<1>13. CASE \E wanted \in Searches : SetFilter(wanted)
  BY <1>6, <1>13
<1>14. CASE Crash
  BY <1>14, LostSweep DEF Undisturbed
<1> QED BY <1>7, <1>8, <1>10, <1>11, <1>12, <1>13, <1>14 DEF Next

LEMMA ReleaseInit == Init => ReleaseInv
<1> SUFFICES ASSUME Init PROVE ReleaseInv
  OBVIOUS
<1>1. Running = {} /\ row.baseline = NoBaseline /\ row.ledger = EmptyLedger /\ row.etag = NoTag
  BY DEF Init, Running, Idle, NewRow
<1>2. CopyIsCurrent /\ OwedIsArmed /\ SweepIsComplete
  BY <1>1 DEF CopyIsCurrent, OwedIsArmed, SweepIsComplete, Init
<1>3. MemoryIsSeen
  BY <1>1, FS_EmptySet DEF MemoryIsSeen, Init, Remembered, EmptyLedger
<1>4. ASSUME Searches \subseteq {Everything} PROVE EverythingIsWanted
  BY <1>1, <1>4 DEF EverythingIsWanted, Init, NewRow
<1>5. ASSUME "bare" \notin StoreLooks PROVE LooksAreStated
  <2>1. Listed \subseteq Handles
    BY TypeInit, RangeOfSeq DEF TypeOK, Listed
  <2>2. \A h \in Listed : goods[h] \in [look : StoreLooks, dates : StoreDates]
    BY <2>1 DEF Init
  <2>3. "atom" \notin StoreLooks
    BY ConstantsAssumption DEF Looks
  <2> QED BY <1>1, <1>5, <2>2, <2>3 DEF LooksAreStated
<1>6. SearchIsAnswered
  BY <1>4, <1>5 DEF SearchIsAnswered
<1> QED BY <1>2, <1>3, <1>6 DEF ReleaseInv

\* What no fold has touched is still what was seen.
LEMMA MemoryStep ==
    ASSUME Undisturbed, TypeOK, ReleaseInv, [Next]_vars
    PROVE  MemoryIsSeen'
<1> USE DEF ReleaseInv
<1>1. ASSUME NEW c \in Checkers, Fold(c) PROVE MemoryIsSeen'
  <2> DEFINE read == job[c].read
  <2>1. /\ c \in Running /\ Memory(c) \in Memories
        /\ Memory(c).baseline = row.baseline /\ Memory(c).ledger = row.ledger
        /\ DOMAIN read \subseteq Handles
        /\ Outcome(c) = OnSweep(Memory(c), read, Window(c), lately)
        /\ row'.baseline = Remembered(job[c].w) \cup DOMAIN read
        /\ row'.baseline # NoBaseline
        /\ row'.ledger = Outcome(c).ledger
        /\ row'.etag = job[c].tag
    BY <1>1, FoldFacts DEF CopyIsCurrent
  <2>2. Remembered(job[c].w) = seen
    BY <2>1 DEF CopyIsCurrent, MemoryIsSeen, Remembered
  <2>3. seen' = seen \cup DOMAIN read /\ covered' = TRUE
    <3>1. job[c].w.baseline = NoBaseline => seen = {}
      BY <2>2 DEF Remembered
    <3> QED BY <1>1, <3>1 DEF Fold
  <2>4. seen' = Remembered(row')
    BY <2>1, <2>2, <2>3 DEF Remembered
  <2>5. IsFiniteSet(seen')
    BY <2>1, <2>3, FS_Union DEF MemoryIsSeen, SweepIsComplete
  <2>6. ASSUME NEW h \in Handles, row'.ledger[h] # NoEntry PROVE h \in seen'
    <3>1. CASE h \in DOMAIN read
      BY <2>3, <3>1
    <3>2. CASE h \notin DOMAIN read
      <4>1. row'.ledger[h] \in {NoEntry, row.ledger[h]}
        BY <2>1, <3>2, SweepLedger
      <4> QED BY <2>3, <2>6, <4>1 DEF MemoryIsSeen
    <3> QED BY <3>1, <3>2
  <2>7. row'.etag # NoTag => TagHandles(row'.etag) \subseteq seen'
    BY <2>1, <2>3 DEF SweepIsComplete
  <2> QED BY <2>1, <2>3, <2>4, <2>5, <2>6, <2>7 DEF MemoryIsSeen
<1>2. ASSUME NEW c \in Checkers, FoldUnchanged(c) PROVE MemoryIsSeen'
  <2>1. c \in Running
    BY <1>2 DEF FoldUnchanged, Running
  <2>2. /\ row'.baseline = row.baseline /\ row'.ledger = row.ledger /\ row'.etag = row.etag
        /\ seen' = seen /\ owed' = owed /\ covered' = TRUE
    BY <1>2, <2>1 DEF FoldUnchanged, TypeOK, Rows, CopyIsCurrent
  <2>3. covered
    BY <1>2, <2>1 DEF SweepIsComplete, FoldUnchanged
  <2> QED BY <2>2, <2>3 DEF MemoryIsSeen, Remembered
<1>3. ASSUME NEW h \in Handles, NEW look, NEW dates, Publish(h, look, dates)
      PROVE  MemoryIsSeen'
  <2>1. /\ row'.baseline = row.baseline /\ row'.ledger = row.ledger /\ row'.etag = row.etag
        /\ seen' = seen /\ covered' = covered
        /\ owed' = owed \/ covered
    BY <1>3 DEF Publish, TypeOK, Rows
  <2> QED BY <2>1 DEF MemoryIsSeen, Remembered
<1>4. CASE /\ row'.baseline = row.baseline /\ row'.ledger = row.ledger
           /\ row'.etag = row.etag /\ UNCHANGED <<covered, owed, seen>>
  BY <1>4 DEF MemoryIsSeen, Remembered
<1>5. ASSUME NEW c \in Checkers, Reads(c) PROVE MemoryIsSeen'
  BY <1>4, <1>5, ReadsFrame DEF ghosts
<1>6. CASE Undone \/ Unnoticed
  BY <1>4, <1>6 DEF Undone, Unnoticed, ghosts
<1> QED BY <1>1, <1>2, <1>3, <1>5, <1>6, StepKinds

\* A finished read of a release that is still to be announced: it is told of if
\* it is on sale and wanted, and stays armed unless that settles it.
LEMMA OwedRead ==
    ASSUME Undisturbed, Legible, TypeOK, ReleaseInv, NEW c \in Checkers, Fold(c),
           NEW h \in owed \cap DOMAIN job[c].read
    PROVE  /\ job[c].read[h].look = "on_sale" /\ Matches(h, job[c].read[h], job[c].w.wanted)
                => h \in Told(Outcome(c).drops)
           /\ h \notin Settled(c) => /\ row'.ledger[h] # NoEntry
                                     /\ row'.ledger[h].sale # "now"
                                     /\ ~row'.ledger[h].alerted
<1> USE DEF ReleaseInv
<1> DEFINE m    == Memory(c)
           read == job[c].read
           item == read[h]
           told == Told(Outcome(c).drops)
<1>1. /\ c \in Running /\ m \in Memories
      /\ m.baseline = row.baseline /\ m.ledger = row.ledger /\ m.wanted = job[c].w.wanted
      /\ DOMAIN read \subseteq Handles
      /\ Outcome(c) = OnSweep(m, read, Window(c), lately)
      /\ row'.ledger = Outcome(c).ledger
  BY FoldFacts DEF CopyIsCurrent
<1>2. m.baseline = seen /\ m.baseline # NoBaseline /\ h \in Handles /\ h \in owed
  BY <1>1 DEF MemoryIsSeen, Remembered
<1>3. item \in Seen
  BY JobFacts
<1>4. told = Launched(m, read, Window(c), lately)
               \cup UNION {Spoken(m, read, Window(c), kind) :
                             kind \in {"new", "relisted", "unconfirmed"}}
  BY <1>1, <1>2, SweepTells
<1>5. h \in Launched(m, read, Window(c), lately) => item.look = "on_sale"
  BY LaunchedFacts
<1>6. h \notin Settled(c) => h \notin told /\ (Available(item) => Matches(h, item, m.wanted))
  BY <1>1 DEF Settled, Available
<1>7. CASE h \in seen
  <2>1. /\ row.ledger[h] # NoEntry /\ row.ledger[h].sale # "now" /\ ~row.ledger[h].alerted
    BY <1>2, <1>7 DEF OwedIsArmed
  <2>2. ASSUME item.look = "on_sale", Matches(h, item, m.wanted) PROVE h \in told
    <3>1. h \in Launched(m, read, Window(c), lately)
      BY <1>1, <1>2, <1>7, <2>1, <2>2 DEF Launched, BecameBuyable
    <3> QED BY <1>4, <3>1
  <2>3. h \notin Settled(c) => item.look # "on_sale"
    BY <1>6, <2>2 DEF Available
  <2>4. ASSUME item.look # "on_sale"
        PROVE  row'.ledger[h] # NoEntry /\ row'.ledger[h].sale # "now" /\ ~row'.ledger[h].alerted
    <3>1. CASE AvailableStated(item)
      <4>1. /\ row'.ledger[h] # NoEntry
            /\ row'.ledger[h].sale \in {"before", "never"}
            /\ row'.ledger[h].alerted
                 <=> h \in Launched(m, read, Window(c), lately) \/ row.ledger[h].alerted
        BY <1>1, <1>2, <2>1, <2>4, <3>1, SweepLedger
      <4> QED BY <1>5, <2>1, <2>4, <4>1
    <3>2. CASE ~AvailableStated(item)
      <4>1. row'.ledger[h] = row.ledger[h]
        BY <1>1, <1>2, <3>2, SweepLedger
      <4> QED BY <2>1, <4>1
    <3> QED BY <3>1, <3>2
  <2> QED BY <1>1, <2>2, <2>3, <2>4
<1>8. CASE h \notin seen
  <2>1. h \in Window(c) /\ row.ledger[h] = NoEntry
    BY <1>1, <1>2, <1>8 DEF SweepIsComplete, MemoryIsSeen
  <2> DEFINE kind == Arrival(h, item, Window(c))
  <2>2. kind \in {"new", "relisted", "unconfirmed"}
    BY <1>3, <2>1 DEF Arrival, Seen, Dates
  <2>3. h \in Arrived(m, read, Window(c), kind)
    BY <1>2, <1>8 DEF Arrived, Unseen
  <2> HIDE DEF kind
  <2>4. WorthWaking(kind, item) /\ Matches(h, item, m.wanted) => h \in told
    BY <1>4, <2>2, <2>3 DEF Spoken
  <2>5. Available(item) => WorthWaking(kind, item)
    BY DEF WorthWaking
  <2>6. item.look \in {"bare", "atom"} => WorthWaking(kind, item) /\ Matches(h, item, m.wanted)
    <3>1. EverythingIsWanted \/ LooksAreStated
      BY DEF Legible, SearchIsAnswered
    <3> QED BY <1>1, <3>1 DEF WorthWaking, StillBeingBuilt, AvailableStated,
                              EverythingIsWanted, LooksAreStated, Matches
  <2>7. h \notin Settled(c) => ~Available(item) /\ item.look \notin {"bare", "atom"}
    BY <1>6, <2>4, <2>5, <2>6
  <2>8. h \notin Settled(c) => item.look \in {"sold_out", "staged"}
    BY <1>3, <2>7 DEF Available, Seen, Looks
  <2>9. ASSUME item.look \in {"sold_out", "staged"}
        PROVE  row'.ledger[h] # NoEntry /\ row'.ledger[h].sale # "now" /\ ~row'.ledger[h].alerted
    <3>1. AvailableStated(item) /\ item.look # "on_sale"
      BY <2>9 DEF AvailableStated
    <3>2. /\ row'.ledger[h] # NoEntry
          /\ row'.ledger[h].sale = "never"
          /\ row'.ledger[h].alerted <=> h \in Launched(m, read, Window(c), lately)
      BY <1>1, <1>2, <2>1, <3>1, SweepLedger
    <3> QED BY <1>5, <3>1, <3>2
  <2> QED BY <1>1, <2>4, <2>5, <2>8, <2>9 DEF Available
<1> QED BY <1>7, <1>8

LEMMA OwedFold ==
    ASSUME Undisturbed, Legible, TypeOK, ReleaseInv, NEW c \in Checkers, Fold(c)
    PROVE  OwedIsArmed'
<1> USE DEF ReleaseInv
<1> DEFINE read == job[c].read
<1>1. /\ c \in Running /\ Memory(c) \in Memories
      /\ Memory(c).baseline = row.baseline /\ Memory(c).ledger = row.ledger
      /\ Outcome(c) = OnSweep(Memory(c), read, Window(c), lately)
      /\ row'.ledger = Outcome(c).ledger
  BY FoldFacts DEF CopyIsCurrent
<1>2. /\ owed' = owed \ Settled(c) /\ seen' = seen \cup DOMAIN read /\ Listed' = Listed
  <2>1. job[c].w.baseline = NoBaseline => seen = {}
    BY <1>1 DEF CopyIsCurrent, MemoryIsSeen, Remembered
  <2> QED BY <2>1 DEF Fold, world, Listed
<1>3. row'.recent \in IF job[c].whole THEN Stamped(row.recent) ELSE {row.recent}
  BY DEF Fold, TypeOK, Rows
<1>4. ASSUME NEW h \in owed, h \in Listed \ seen' PROVE h \in row'.recent
  <2>1. CASE job[c].whole
    <3>1. h \in job[c].during
      BY <1>1, <1>2, <1>4, <2>1 DEF SweepIsComplete, Fold
    <3> QED BY <1>1, <1>3, <2>1, <3>1 DEF Stamped
  <2>2. CASE ~job[c].whole
    BY <1>2, <1>3, <1>4, <2>2 DEF OwedIsArmed
  <2> QED BY <2>1, <2>2
<1>5. ASSUME NEW h \in owed', h \in seen'
      PROVE  row'.ledger[h] # NoEntry /\ row'.ledger[h].sale # "now" /\ ~row'.ledger[h].alerted
  <2>1. h \in owed /\ h \notin Settled(c) /\ h \in Handles
    BY <1>2 DEF TypeOK
  <2>2. CASE h \in DOMAIN read
    BY <2>1, <2>2, OwedRead
  <2>3. CASE h \notin DOMAIN read
    <3>1. h \in seen /\ row.baseline # NoBaseline
      BY <1>2, <1>5, <2>1, <2>3 DEF MemoryIsSeen
    <3>2. row'.ledger[h] = row.ledger[h]
      BY <1>1, <2>1, <2>3, <3>1, SweepLedger
    <3> QED BY <2>1, <3>1, <3>2 DEF OwedIsArmed
  <2> QED BY <2>2, <2>3
<1> QED BY <1>2, <1>4, <1>5 DEF OwedIsArmed

LEMMA OwedStep ==
    ASSUME Undisturbed, Legible, TypeOK, ReleaseInv, [Next]_vars
    PROVE  OwedIsArmed'
<1> USE DEF ReleaseInv
<1>1. ASSUME NEW c \in Checkers, Reads(c) PROVE OwedIsArmed'
  BY <1>1, ReadsFrame DEF OwedIsArmed, ghosts, world, Listed
<1>2. ASSUME NEW c \in Checkers, FoldUnchanged(c) PROVE OwedIsArmed'
  <2>1. c \in Running
    BY <1>2 DEF FoldUnchanged, Running
  <2>2. /\ row'.ledger = row.ledger /\ owed' = owed /\ seen' = seen /\ Listed' = Listed
        /\ row'.recent \in Stamped(row.recent)
    BY <1>2 DEF FoldUnchanged, TypeOK, Rows, world, Listed
  <2>3. Listed \subseteq seen \cup job[c].during
    BY <1>2, <2>1 DEF SweepIsComplete, FoldUnchanged
  <2>4. job[c].during \subseteq row'.recent
    BY <2>1, <2>2 DEF Stamped
  <2> QED BY <2>2, <2>3, <2>4 DEF OwedIsArmed
<1>3. ASSUME NEW h \in Handles, NEW look, NEW dates, Publish(h, look, dates)
      PROVE  OwedIsArmed'
  <2>1. Listed' = Listed \cup {h}
    BY <1>3, PublishEffect
  <2>2. /\ row'.ledger = row.ledger /\ seen' = seen
        /\ row'.recent = row.recent \cup {h}
        /\ owed' = owed \/ (h \notin seen /\ owed' = owed \cup {h})
    BY <1>3 DEF Publish, TypeOK, Rows
  <2> QED BY <2>1, <2>2 DEF OwedIsArmed
<1>4. CASE Undone
  BY <1>4 DEF Undone, OwedIsArmed, world, ghosts, Listed
<1>5. CASE Unnoticed
  BY <1>5 DEF Unnoticed, OwedIsArmed, MemoryIsSeen
<1> QED BY <1>1, <1>2, <1>3, <1>4, <1>5, OwedFold, StepKinds

\* What a page adds to a sweep that has read all there is up to it.
LEMMA PageAdds ==
    ASSUME TypeOK, NEW c \in Checkers, NEW k \in Nat \ {0}, ReadPage(c, k),
           IsFiniteSet(DOMAIN job[c].read),
           UpTo(k - 1) \subseteq DOMAIN job[c].read \cup job[c].during,
           job[c].tag # NoTag => TagHandles(job[c].tag) \subseteq DOMAIN job[c].read
    PROVE  /\ IsFiniteSet(DOMAIN job'[c].read)
           /\ DOMAIN job'[c].read \subseteq DOMAIN job[c].read \cup Listed
           /\ job'[c].at \in {"more", "folding"}
           /\ UpTo(job'[c].page) \subseteq DOMAIN job'[c].read \cup job'[c].during
           /\ job'[c].whole => Listed \subseteq DOMAIN job'[c].read \cup job'[c].during
           /\ job'[c].tag # NoTag => TagHandles(job'[c].tag) \subseteq DOMAIN job'[c].read
<1>1. job[c] \in Jobs /\ job'[c] = PageRead(c, k) /\ job'[c].at \in {"more", "folding"}
  BY JobFacts, ReadPageFacts DEF TypeOK
<1>2. /\ job'[c].read = ReadInto(job[c].read, ItemsOn(k))
      /\ job'[c].during = job[c].during
      /\ job'[c].page = k
      /\ job'[c].tag = IF k = 1 THEN PageOneTag ELSE job[c].tag
      /\ job'[c].whole = ~FullPage(k)
  BY <1>1 DEF PageRead, Jobs
<1>3. DOMAIN job'[c].read = DOMAIN job[c].read \cup ItemsOn(k)
  BY <1>2, ReadIntoType
<1>4. IsFiniteSet(ItemsOn(k)) /\ ItemsOn(k) \subseteq Listed
  BY PageLength DEF TypeOK
<1>5. IsFiniteSet(DOMAIN job'[c].read)
  BY <1>3, <1>4, FS_Union
<1>6. UpTo(k) \subseteq DOMAIN job'[c].read \cup job'[c].during
  BY <1>2, <1>3, PageByPage
<1>7. job'[c].whole => Listed \subseteq DOMAIN job'[c].read \cup job'[c].during
  BY <1>2, <1>6, ShortPage
<1>8. job'[c].tag # NoTag => TagHandles(job'[c].tag) \subseteq DOMAIN job'[c].read
  BY <1>2, <1>3, PageOneTagType
<1> QED BY <1>1, <1>2, <1>3, <1>4, <1>5, <1>6, <1>7, <1>8

\* A validator that still fits the first page of a catalogue known to be short
\* speaks for all of it.
LEMMA NothingChanged ==
    ASSUME TypeOK, CopyIsCurrent, MemoryIsSeen, NEW c \in Checkers, NotModified(c)
    PROVE  covered /\ Listed \subseteq seen
<1>1. c \in Running
  BY DEF NotModified, Running
<1>2. row.etag = PageOneTag
  BY <1>1 DEF NotModified, CopyIsCurrent
<1>3. row.etag # NoTag /\ TagHandles(row.etag) = ItemsOn(1)
  BY <1>2, PageOneTagType, SentinelAssumption
<1>4. covered /\ ItemsOn(1) \subseteq seen
  BY <1>3 DEF MemoryIsSeen
<1>5. seen = row.baseline /\ job[c].w.baseline = seen /\ row.baseline # NoBaseline
  BY <1>1, <1>4 DEF MemoryIsSeen, Remembered, CopyIsCurrent
<1>6. ~(Cardinality(seen) >= PageSize)
  BY <1>5 DEF NotModified, MultiPage
<1>7. ~FullPage(1)
  <2>1. /\ Cardinality(ItemsOn(1)) \in Nat /\ Cardinality(seen) \in Nat
        /\ Cardinality(ItemsOn(1)) <= Cardinality(seen)
    BY <1>4, FS_Subset, FS_CardinalityType DEF MemoryIsSeen
  <2>2. PageSize \in Nat
    BY ConstantsAssumption
  <2> QED BY <1>6, <2>1, <2>2 DEF FullPage
<1>8. UpTo(1) = Listed /\ UpTo(1) = UpTo(1 - 1) \cup ItemsOn(1) /\ UpTo(0) = {}
  BY <1>7, ShortPage, PageByPage, NothingYet
<1>9. UpTo(1 - 1) = UpTo(0)
  OBVIOUS
<1> QED BY <1>4, <1>8, <1>9

LEMMA CompleteReads ==
    ASSUME Undisturbed, TypeOK, ReleaseInv, NEW c \in Checkers, Reads(c), c \in Running'
    PROVE  /\ IsFiniteSet(DOMAIN job'[c].read)
           /\ \A h \in owed \ seen : h \in Listed \cup DOMAIN job'[c].read
                => h \in job'[c].w.recent \cup job'[c].during
           /\ job'[c].at = "more"
                => UpTo(job'[c].page) \subseteq DOMAIN job'[c].read \cup job'[c].during
           /\ job'[c].at = "folding" /\ job'[c].whole
                => Listed \subseteq DOMAIN job'[c].read \cup job'[c].during
           /\ job'[c].at = "unchanged" => covered /\ Listed \subseteq seen \cup job'[c].during
           /\ job'[c].tag # NoTag => TagHandles(job'[c].tag) \subseteq DOMAIN job'[c].read
<1> USE DEF ReleaseInv
<1>1. job[c] \in Jobs /\ job \in [Checkers -> Jobs]
  BY JobFacts DEF TypeOK
<1>2. CASE Start(c)
  <2>1. /\ job'[c].at = "first" /\ job'[c].w = row /\ job'[c].during = {}
        /\ DOMAIN job'[c].read = {} /\ job'[c].tag = NoTag
    BY <1>1, <1>2 DEF Start, Idle
  <2> QED BY <2>1, FS_EmptySet DEF OwedIsArmed
<1>3. CASE RateLimited(c) \/ Tell(c)
  <2>1. job'[c].at \in {"idle", "telling"}
    <3>1. CASE RateLimited(c)
      BY <1>1, <3>1 DEF RateLimited, Idle
    <3>2. CASE Tell(c)
      <4>1. job[c].drops \in Seq(Drops) /\ job[c].drops # << >>
        BY <1>1, <3>2 DEF TypeOK, Jobs, Tell
      <4>2. Tail(job[c].drops) \in Seq(Drops)
        BY <4>1, HeadTailProperties
      <4> QED BY <1>1, <3>2, <4>2, AnnouncingType DEF Tell
    <3> QED BY <1>3, <3>1, <3>2
  <2> QED BY <2>1 DEF Running
<1>4. CASE NotModified(c)
  <2>1. /\ c \in Running /\ job'[c].at = "unchanged" /\ job'[c].w = job[c].w
        /\ job'[c].during = job[c].during /\ job'[c].read = job[c].read
        /\ job'[c].tag = job[c].tag
    BY <1>1, <1>4 DEF NotModified, Jobs, Running
  <2>2. covered /\ Listed \subseteq seen
    BY <1>4, NothingChanged
  <2> QED BY <2>1, <2>2 DEF SweepIsComplete, Window
<1>5. ASSUME NEW k \in Nat \ {0}, ReadPage(c, k), c \in Running,
             UpTo(k - 1) \subseteq DOMAIN job[c].read \cup job[c].during
      PROVE  /\ IsFiniteSet(DOMAIN job'[c].read)
             /\ \A h \in owed \ seen : h \in Listed \cup DOMAIN job'[c].read
                  => h \in job'[c].w.recent \cup job'[c].during
             /\ job'[c].at \in {"more", "folding"}
             /\ UpTo(job'[c].page) \subseteq DOMAIN job'[c].read \cup job'[c].during
             /\ job'[c].whole => Listed \subseteq DOMAIN job'[c].read \cup job'[c].during
             /\ job'[c].tag # NoTag => TagHandles(job'[c].tag) \subseteq DOMAIN job'[c].read
  <2>1. job'[c].w = job[c].w /\ job'[c].during = job[c].during
    <3>1. job'[c] = PageRead(c, k)
      BY <1>1, <1>5, ReadPageFacts
    <3> QED BY <1>1, <3>1 DEF PageRead, Jobs
  <2> QED BY <1>5, <2>1, PageAdds DEF SweepIsComplete, Window
<1>6. CASE ReadFirst(c)
  <2>1. UpTo(1 - 1) = {} /\ c \in Running /\ ReadPage(c, 1)
    BY <1>6, NothingYet DEF ReadFirst, Running
  <2> QED BY <1>5, <2>1
<1>7. CASE ReadNext(c)
  <2> DEFINE k == job[c].page + 1
  <2>1. k \in Nat \ {0} /\ k - 1 = job[c].page
    BY <1>1 DEF Jobs
  <2>2. c \in Running /\ ReadPage(c, k) /\ job[c].at = "more"
    BY <1>7 DEF ReadNext, Running
  <2>3. UpTo(k - 1) \subseteq DOMAIN job[c].read \cup job[c].during
    BY <2>1, <2>2 DEF SweepIsComplete
  <2> HIDE DEF k
  <2> QED BY <1>5, <2>1, <2>2, <2>3
<1>8. CASE Cut(c)
  <2>1. /\ c \in Running /\ job'[c].at = "folding" /\ job'[c].whole = FALSE
        /\ job'[c].w = job[c].w /\ job'[c].during = job[c].during
        /\ job'[c].read = job[c].read /\ job'[c].tag = job[c].tag
    BY <1>1, <1>8 DEF Cut, Jobs, Running
  <2> QED BY <2>1 DEF SweepIsComplete, Window
<1>9. CASE Blocked(c)
  <2>1. /\ c \in Running /\ job'[c].at = "atom"
        /\ job'[c].w = job[c].w /\ job'[c].during = job[c].during
        /\ job'[c].read = job[c].read /\ job'[c].tag = job[c].tag
    BY <1>1, <1>9 DEF Blocked, Jobs, Running
  <2> QED BY <2>1 DEF SweepIsComplete, Window
<1>10. CASE ReadAtom(c)
  <2>1. /\ c \in Running /\ job'[c].at = "folding" /\ job'[c].tag = NoTag
        /\ job'[c].w = job[c].w /\ job'[c].during = job[c].during
        /\ DOMAIN job'[c].read = Listed
    BY <1>1, <1>10 DEF ReadAtom, Jobs, Running
  <2> QED BY <2>1, ShelfIsFinite DEF SweepIsComplete, Window
<1> QED BY <1>2, <1>3, <1>4, <1>6, <1>7, <1>8, <1>9, <1>10 DEF Reads

LEMMA CompleteStep ==
    ASSUME Undisturbed, TypeOK, ReleaseInv, [Next]_vars
    PROVE  SweepIsComplete'
<1> USE DEF ReleaseInv
<1>1. ASSUME NEW c \in Checkers, Reads(c) PROVE SweepIsComplete'
  <2>1. Checkers = {c}
    BY DEF Undisturbed, Alone, Checkers
  <2>2. UNCHANGED <<shelf, owed, seen, covered>>
    BY <1>1, ReadsFrame DEF ghosts, world
  <2>3. c \in Running' => SweepIsComplete'
    BY <1>1, <2>1, <2>2, CompleteReads DEF SweepIsComplete, Window, Listed, UpTo, Running
  <2> QED BY <2>1, <2>3 DEF SweepIsComplete, Running
<1>2. ASSUME NEW c \in Checkers, FoldUnchanged(c) \/ Fold(c) PROVE SweepIsComplete'
  <2>1. Running' = {}
    BY <1>2, FoldEnds DEF Undisturbed, Alone, Checkers, Running
  <2> QED BY <2>1 DEF SweepIsComplete
<1>3. ASSUME NEW h \in Handles, NEW look, NEW dates, Publish(h, look, dates)
      PROVE  SweepIsComplete'
  <2>1. /\ Listed' = Listed \cup {h} /\ Running' = Running
        /\ \A c \in Running : /\ job'[c].at = job[c].at /\ job'[c].w = job[c].w
                              /\ job'[c].page = job[c].page /\ job'[c].read = job[c].read
                              /\ job'[c].tag = job[c].tag /\ job'[c].whole = job[c].whole
                              /\ job'[c].during = job[c].during \cup {h}
    BY <1>3, PublishEffect
  <2>2. seen' = seen /\ covered' = covered /\ owed' \subseteq owed \cup {h}
    BY <1>3 DEF Publish
  <2>3. \A c \in Running : UpTo(job[c].page)' \subseteq UpTo(job[c].page) \cup {h}
    <3> SUFFICES ASSUME NEW c \in Running
                 PROVE  UpTo(job[c].page)' \subseteq UpTo(job[c].page) \cup {h}
      OBVIOUS
    <3>1. job[c].page \in Nat
      BY JobFacts DEF Running, Jobs
    <3>2. PICK k \in Nat : k = job[c].page
      BY <3>1
    <3>3. UpTo(k)' \subseteq UpTo(k) \cup {h}
      BY <1>3, ShelfGrowsBehind
    <3>4. k = job'[c].page
      BY <2>1, <3>2
    <3> QED BY <3>2, <3>3, <3>4 DEF UpTo
  <2> QED BY <2>1, <2>2, <2>3 DEF SweepIsComplete, Window
<1>4. CASE Undone
  BY <1>4 DEF Undone, SweepIsComplete
<1>5. CASE Unnoticed
  <2>1. Running' = Running /\ job' = job /\ Listed' \subseteq Listed
        /\ UNCHANGED <<owed, seen, covered>>
    BY <1>5 DEF Unnoticed, Running
  <2>2. ASSUME NEW c \in Running, job[c].at = "more"
        PROVE  shelf' = shelf
    BY <1>5, <2>2 DEF Unnoticed, Running
  <2> QED BY <2>1, <2>2 DEF SweepIsComplete, Window, UpTo
<1> QED BY <1>1, <1>2, <1>3, <1>4, <1>5, StepKinds

LEMMA WantedStep ==
    ASSUME Alone, Searches \subseteq {Everything}, TypeOK, EverythingIsWanted, [Next]_vars
    PROVE  EverythingIsWanted'
<1>1. row'.wanted = Everything
  <2>1. ASSUME NEW c \in Checkers, Reads(c) PROVE row' = row
    BY <2>1, ReadsFrame
  <2>2. ASSUME NEW c \in Checkers, FoldUnchanged(c) \/ Fold(c) \/ Fail(c)
        PROVE  row'.wanted = row.wanted
    BY <2>2 DEF FoldUnchanged, Fold, Fail, TypeOK, Rows
  <2>3. ASSUME NEW c \in Checkers, Check(c) PROVE row'.wanted = row.wanted
    BY <2>1, <2>2, <2>3 DEF Check, Reads
  <2>4. ASSUME NEW h \in Handles, NEW look, NEW dates, Publish(h, look, dates)
        PROVE  row'.wanted = row.wanted
    BY <2>4 DEF Publish, TypeOK, Rows
  <2>5. ASSUME NEW h \in Handles, Unlist(h) \/ AgeOut(h) \/ Cool(h)
        PROVE  row'.wanted = row.wanted
    BY <2>5 DEF Unlist, AgeOut, Cool, TypeOK, Rows
  <2>6. ASSUME NEW h \in Handles, NEW look, Restyle(h, look) PROVE row' = row
    BY <2>6 DEF Restyle
  <2>7. ASSUME NEW wanted \in Searches, SetFilter(wanted) PROVE row'.wanted = Everything
    BY <2>7 DEF SetFilter, TypeOK, Rows
  <2>8. CASE Retarget
    BY <2>8 DEF Retarget, TypeOK, Rows, EverythingIsWanted
  <2>9. CASE Crash \/ UNCHANGED vars
    BY <2>9 DEF Crash, vars, EverythingIsWanted
  <2> QED BY <2>3, <2>4, <2>5, <2>6, <2>7, <2>8, <2>9 DEF Next, StoreMoves, EverythingIsWanted
<1>2. \A c \in Running' : job'[c].w.wanted = Everything
  BY RunningKeepsCopy DEF EverythingIsWanted
<1> QED BY <1>1, <1>2 DEF EverythingIsWanted

LEMMA StatedStep ==
    ASSUME Alone, ~Gated, "bare" \notin StoreLooks, TypeOK, LooksAreStated, [Next]_vars
    PROVE  LooksAreStated'
<1> USE DEF LooksAreStated
<1>1. Listed \subseteq Handles /\ goods \in [Handles -> Items] /\ "atom" \notin Looks
  BY RangeOfSeq DEF TypeOK, Listed, Looks
<1>2. "atom" \notin StoreLooks
  BY <1>1, ConstantsAssumption
<1>3. ASSUME NEW c \in Checkers, Reads(c) PROVE LooksAreStated'
  <2>1. Checkers = {c} /\ UNCHANGED <<shelf, goods>>
    BY <1>3, ReadsFrame DEF Alone, Checkers, world
  <2>2. ASSUME c \in Running'
        PROVE  /\ job'[c].at # "atom"
               /\ \A h \in DOMAIN job'[c].read :
                    \/ h \in DOMAIN job[c].read /\ job'[c].read[h] = job[c].read[h] /\ c \in Running
                    \/ h \in Listed /\ job'[c].read[h] = goods[h]
    <3>1. job[c] \in Jobs /\ job \in [Checkers -> Jobs]
      BY JobFacts DEF TypeOK
    <3>2. ~Blocked(c) /\ ~ReadAtom(c)
      BY DEF Blocked, ReadAtom, Running
    <3>3. CASE Start(c)
      BY <3>1, <3>3 DEF Start, Idle
    <3>4. CASE NotModified(c)
      BY <3>1, <3>4 DEF NotModified, Jobs, Running
    <3>5. CASE Cut(c)
      BY <3>1, <3>5 DEF Cut, Jobs, Running
    <3>6. ASSUME NEW k \in Nat \ {0}, ReadPage(c, k), c \in Running
          PROVE  /\ job'[c].at # "atom"
                 /\ \A h \in DOMAIN job'[c].read :
                    \/ h \in DOMAIN job[c].read /\ job'[c].read[h] = job[c].read[h] /\ c \in Running
                    \/ h \in Listed /\ job'[c].read[h] = goods[h]
      <4> DEFINE read == ReadInto(job[c].read, ItemsOn(k))
      <4>1. job'[c] = PageRead(c, k) /\ job'[c].at \in {"more", "folding"}
        BY <3>1, <3>6, ReadPageFacts
      <4>2. job'[c].read = read
        BY <3>1, <4>1 DEF PageRead, Jobs
      <4>3. \A h \in DOMAIN read :
                \/ h \in DOMAIN job[c].read /\ read[h] = job[c].read[h]
                \/ h \in Listed /\ read[h] = goods[h]
        BY ReadIntoType
      <4> HIDE DEF read
      <4> QED BY <3>6, <4>1, <4>2, <4>3
    <3>7. CASE ReadFirst(c)
      BY <3>6, <3>7 DEF ReadFirst, Running
    <3>8. CASE ReadNext(c)
      <4>1. job[c].page + 1 \in Nat \ {0}
        BY <3>1 DEF Jobs
      <4> QED BY <3>6, <3>8, <4>1 DEF ReadNext, Running
    <3>9. ~RateLimited(c) /\ ~Tell(c)
      <4>1. ~RateLimited(c)
        BY <2>2, <3>1 DEF RateLimited, Idle, Running
      <4>2. ASSUME Tell(c) PROVE FALSE
        <5>1. job[c].drops \in Seq(Drops) /\ job[c].drops # << >>
          BY <3>1, <4>2 DEF TypeOK, Jobs, Tell
        <5>2. Tail(job[c].drops) \in Seq(Drops)
          BY <5>1, HeadTailProperties
        <5> QED BY <2>2, <3>1, <4>2, <5>2, AnnouncingType DEF Tell, Running
      <4> QED BY <4>1, <4>2
    <3> QED BY <1>3, <3>2, <3>3, <3>4, <3>5, <3>7, <3>8, <3>9 DEF Reads
  <2> QED BY <2>1, <2>2 DEF Listed, Running
<1>4. ASSUME NEW c \in Checkers, FoldUnchanged(c) \/ Fold(c) \/ Fail(c)
      PROVE  LooksAreStated'
  <2>1. Running' = {}
    BY <1>4, FoldEnds DEF Alone, Checkers, Running
  <2> QED BY <1>4, <2>1 DEF FoldUnchanged, Fold, Fail, world, Listed
<1>5. ASSUME NEW h \in Handles, NEW look \in StoreLooks, NEW dates \in StoreDates,
             Publish(h, look, dates)
      PROVE  LooksAreStated'
  <2>1. /\ Listed' = Listed \cup {h} /\ Running' = Running
        /\ \A c \in Running : job'[c].at = job[c].at /\ job'[c].read = job[c].read
    BY <1>5, PublishEffect
  <2>2. goods'[h].look = look /\ \A k \in Listed : goods'[k] = goods[k]
    BY <1>1, <1>5 DEF Publish
  <2> QED BY <1>2, <2>1, <2>2
<1>6. ASSUME NEW h \in Handles, Unlist(h) PROVE LooksAreStated'
  <2>1. Listed' = Listed \ {h}
    BY <1>6, UnlistEffect
  <2>2. \A k \in Listed' : goods'[k] = goods[k]
    BY <1>1, <1>6, <2>1 DEF Unlist
  <2> QED BY <1>6, <2>1, <2>2 DEF Unlist, Running
<1>7. ASSUME NEW h \in Handles, NEW look \in StoreLooks, Restyle(h, look) PROVE LooksAreStated'
  <2>1. \A k \in Listed : goods'[k].look = IF k = h THEN look ELSE goods[k].look
    BY <1>1, <1>7 DEF Restyle, Items
  <2> QED BY <1>2, <1>7, <2>1 DEF Restyle, Listed, Running
<1>8. CASE Crash
  <2>1. Running' = {}
    BY <1>8 DEF Crash, Running, Idle
  <2> QED BY <1>8, <2>1 DEF Crash, world, Listed
<1>9. CASE UNCHANGED <<world, job>>
  BY <1>9 DEF world, Listed, Running
<1> QED
  <2>1. ASSUME NEW c \in Checkers, Check(c) PROVE LooksAreStated'
    BY <1>3, <1>4, <2>1 DEF Check, Reads
  <2>2. ASSUME NEW h \in Handles, AgeOut(h) \/ Cool(h) PROVE LooksAreStated'
    BY <1>9, <2>2 DEF AgeOut, Cool
  <2>3. ASSUME NEW wanted \in Searches, SetFilter(wanted) PROVE LooksAreStated'
    BY <1>9, <2>3 DEF SetFilter
  <2>4. CASE Retarget \/ UNCHANGED vars
    BY <1>9, <2>4 DEF Retarget, vars
  <2> QED BY <1>5, <1>6, <1>7, <1>8, <2>1, <2>2, <2>3, <2>4 DEF Next, StoreMoves

LEMMA ReleaseStep ==
    ASSUME Undisturbed, Legible, TypeOK, ReleaseInv, [Next]_vars
    PROVE  ReleaseInv'
<1>1. CopyIsCurrent' /\ MemoryIsSeen' /\ OwedIsArmed' /\ SweepIsComplete'
  BY CopyStep, MemoryStep, OwedStep, CompleteStep DEF ReleaseInv, Undisturbed
<1>2. SearchIsAnswered'
  BY WantedStep, StatedStep DEF ReleaseInv, SearchIsAnswered, Undisturbed
<1> QED BY <1>1, <1>2 DEF ReleaseInv

\* No release is absorbed in silence, whatever the size of the catalogue, of its
\* pages and of the cap, whatever is published, restyled or taken down between
\* sweeps, cut short, answered from the cache or blocked, and however often the
\* process dies - when the tick sweeps alone, the url stays, and a search for
\* particular products meets products that state price and stock.
THEOREM NoReleaseIsAbsorbed == Undisturbed /\ Legible => (Spec => ReleasesAreSpoken)
<1>1. CASE Undisturbed /\ Legible
  <2>1. TypeOK /\ ReleaseInv /\ [Next]_vars => (TypeOK /\ ReleaseInv)'
    BY <1>1, TypeStep, ReleaseStep
  <2>2. ASSUME TypeOK, ReleaseInv, NEW c \in Checkers, Fold(c),
               NEW h \in owed \cap DOMAIN job[c].read
        PROVE  LET item == job[c].read[h]
               IN  item.look = "on_sale" /\ Matches(h, item, job[c].w.wanted)
                     => h \in Told(Outcome(c).drops)
    BY <1>1, <2>2, OwedRead
  <2>3. TypeOK /\ ReleaseInv /\ [Next]_vars =>
          [\A c \in Checkers : Fold(c) =>
            \A h \in owed \cap DOMAIN job[c].read :
                LET item == job[c].read[h]
                IN  item.look = "on_sale" /\ Matches(h, item, job[c].w.wanted)
                        => h \in Told(Outcome(c).drops)]_vars
    BY <2>2
  <2>4. QED BY <2>1, <2>3, TypeInit, ReleaseInit, PTL DEF Spec, ReleasesAreSpoken
<1>2. QED BY <1>1

=============================================================================
