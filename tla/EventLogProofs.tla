--------------------------- MODULE EventLogProofs ---------------------------
(***************************************************************************)
(* Facts about the operators of EventLog: least and greatest positions,    *)
(* what a bounded read leaves out, and what appending a batch changes.     *)
(***************************************************************************)
EXTENDS EventLog, FiniteSetTheorems, SequenceTheorems, WellFoundedInduction, TLAPS

\* A non-empty set of naturals has a least element. Well-foundedness is that
\* of the strict subset ordering, by way of the initial segments 0..x.
LEMMA LeastExists ==
    ASSUME NEW S, \A y \in S : y \in Nat, S # {}
    PROVE  \E x \in S : \A y \in S : x <= y
<1> DEFINE R == StrictSubsetOrdering(Nat)
           F == FiniteSubsetsOf(Nat)
           T == {0..x : x \in S}
<1>1. IsWellFoundedOn(R, F)
  BY FS_StrictSubsetOrderingWellFounded
<1>2. T \subseteq F
  <2> SUFFICES ASSUME NEW x \in S PROVE 0..x \in F
    OBVIOUS
  <2>1. IsFiniteSet(0..x)
    BY FS_Interval
  <2> QED BY <2>1 DEF FiniteSubsetsOf
<1>3. T # {}
  OBVIOUS
<1>4. PICK t \in T : \A u \in T : ~ (<<u, t>> \in R)
  <2> HIDE DEF R, F, T
  <2> QED BY <1>1, <1>2, <1>3, WFMin
<1>5. PICK x \in S : t = 0..x
  OBVIOUS
<1>6. \A y \in S : ~ (y < x)
  <2> SUFFICES ASSUME NEW y \in S, y < x PROVE FALSE
    OBVIOUS
  <2>1. 0..y \in T /\ <<0..y, 0..x>> \in R
    BY DEF StrictSubsetOrdering
  <2> QED BY <2>1, <1>4, <1>5
<1> QED BY <1>6

\* A non-empty bounded set of naturals has a greatest element, and it is Max.
LEMMA MaxIsGreatest ==
    ASSUME NEW m \in Nat, NEW S, \A y \in S : y \in 0..m, S # {}
    PROVE  /\ Max(S) \in S
           /\ \A y \in S : y <= Max(S)
<1> DEFINE Bounds == {n \in Nat : \A y \in S : y <= n}
<1>1. m \in Bounds
  OBVIOUS
<1>2. PICK b \in Bounds : \A c \in Bounds : b <= c
  BY <1>1, LeastExists
<1>3. b \in S
  <2> SUFFICES ASSUME b \notin S PROVE FALSE
    OBVIOUS
  <2>1. \A y \in S : y <= b - 1
    BY <1>2
  <2>2. PICK y \in S : TRUE
    OBVIOUS
  <2>3. b - 1 \in Nat
    BY <2>1, <2>2
  <2>4. b - 1 \in Bounds
    BY <2>1, <2>3
  <2> QED BY <2>4, <1>2
<1>4. \E x \in S : \A y \in S : x >= y
  BY <1>2, <1>3
<1> QED BY <1>4 DEF Max

\* The positions up to a bound, and before it, are finitely many.
LEMMA UpToFinite ==
    ASSUME NEW m \in Nat, NEW S, \A y \in S : y \in 1..m, NEW p \in Nat
    PROVE  /\ IsFiniteSet(S) /\ IsFiniteSet(UpTo(S, p)) /\ IsFiniteSet(Before(S, p))
           /\ Cardinality(S) \in Nat
           /\ Cardinality(UpTo(S, p)) \in Nat
           /\ Cardinality(Before(S, p)) \in Nat
<1>1. IsFiniteSet(1..m)
  BY FS_Interval
<1>2. UpTo(S, p) \subseteq 1..m /\ Before(S, p) \subseteq 1..m
  BY DEF UpTo, Before
<1> QED BY <1>1, <1>2, FS_Subset, FS_CardinalityType

\* What a bounded read returns is an initial segment of what there is to read.
LEMMA FirstOfClosed ==
    ASSUME NEW m \in Nat, NEW S, \A y \in S : y \in 1..m, NEW n \in Nat,
           NEW later \in FirstOf(S, n), NEW x \in S, x <= later
    PROVE  x \in FirstOf(S, n)
<1>1. CASE n = Unset
  BY <1>1 DEF FirstOf
<1>2. CASE n # Unset
  <2>1. later \in S /\ Cardinality(UpTo(S, later)) <= n
    BY <1>2 DEF FirstOf
  <2>2. later \in Nat /\ x \in Nat
    BY <2>1
  <2>3. UpTo(S, x) \subseteq UpTo(S, later)
    <3> SUFFICES ASSUME NEW y \in S, y <= x PROVE y <= later
      BY DEF UpTo
    <3>1. y \in Nat
      OBVIOUS
    <3> QED BY <2>2, <3>1
  <2>4. /\ IsFiniteSet(UpTo(S, later))
        /\ Cardinality(UpTo(S, x)) \in Nat
        /\ Cardinality(UpTo(S, later)) \in Nat
    BY <2>2, UpToFinite
  <2>5. Cardinality(UpTo(S, x)) <= Cardinality(UpTo(S, later))
    BY <2>3, <2>4, FS_Subset
  <2>6. Cardinality(UpTo(S, x)) <= n
    BY <2>1, <2>5, <2>4
  <2> QED BY <1>2, <2>6 DEF FirstOf
<1> QED BY <1>1, <1>2

\* A bounded read returns something if there is anything to read.
LEMMA FirstOfNonempty ==
    ASSUME NEW m \in Nat, NEW S, \A y \in S : y \in 1..m, NEW n \in Nat, S # {}
    PROVE  FirstOf(S, n) # {}
<1>1. CASE n = Unset
  BY <1>1 DEF FirstOf
<1>2. CASE n # Unset
  <2>1. PICK x \in S : \A y \in S : x <= y
    BY LeastExists
  <2>2. UpTo(S, x) = {x}
    BY <2>1 DEF UpTo
  <2>3. Cardinality(UpTo(S, x)) = 1
    BY <2>2, FS_Singleton
  <2>4. Cardinality(UpTo(S, x)) <= n
    BY <2>3, <1>2 DEF Unset
  <2> QED BY <1>2, <2>4 DEF FirstOf
<1> QED BY <1>1, <1>2

\* A read that returns fewer events than its bound has returned all of them.
LEMMA FirstOfComplete ==
    ASSUME NEW m \in Nat, NEW S, \A y \in S : y \in 1..m, NEW n \in Nat \ {0},
           Cardinality(FirstOf(S, n)) < n
    PROVE  FirstOf(S, n) = S
<1> DEFINE Rest == S \ FirstOf(S, n)
<1>1. FirstOf(S, n) \subseteq S
  BY DEF FirstOf
<1>2. SUFFICES ASSUME Rest # {} PROVE FALSE
  BY <1>1
<1>3. PICK x \in Rest : \A y \in Rest : x <= y
  <2>1. \A y \in Rest : y \in Nat
    OBVIOUS
  <2> QED BY <1>2, <2>1, LeastExists
<1>4. Before(S, x) \subseteq FirstOf(S, n)
  BY <1>3 DEF Before
<1>5. IsFiniteSet(FirstOf(S, n)) /\ Cardinality(FirstOf(S, n)) \in Nat
  BY <1>1, UpToFinite, FS_Subset, FS_CardinalityType
<1>6. Cardinality(Before(S, x)) <= Cardinality(FirstOf(S, n))
  BY <1>4, <1>5, FS_Subset
<1>7. UpTo(S, x) = Before(S, x) \cup {x} /\ x \notin Before(S, x)
  BY DEF UpTo, Before
<1>8. x \in Nat
  OBVIOUS
<1>9. /\ IsFiniteSet(Before(S, x)) /\ Cardinality(Before(S, x)) \in Nat
      /\ Cardinality(UpTo(S, x)) = Cardinality(Before(S, x)) + 1
  BY <1>7, <1>8, UpToFinite, FS_AddElement
<1>10. Cardinality(UpTo(S, x)) <= n
  BY <1>5, <1>6, <1>9
<1>11. x \in FirstOf(S, n)
  BY <1>10 DEF FirstOf, Unset
<1> QED BY <1>11

-----------------------------------------------------------------------------

\* The broker's last position of the subject bounds every position of it.
LEMMA CurrentPositionIsLast ==
    ASSUME NEW E, NEW log \in Seq(E)
    PROVE  /\ CurrentPosition(log) \in 0..Len(log)
           /\ CurrentPosition(log) \in {NoPosition} \cup OnSubject(log)
           /\ \A x \in OnSubject(log) : x <= CurrentPosition(log)
           /\ Decodable(log) \subseteq OnSubject(log)
           /\ \A x \in OnSubject(log) : x \in 1..Len(log)
<1>1. Len(log) \in Nat
  BY LenProperties
<1>2. \A x \in OnSubject(log) : x \in 1..Len(log)
  BY DEF OnSubject, Positions
<1>3. Decodable(log) \subseteq OnSubject(log)
  BY DEF Decodable, OnSubject
<1>4. CASE OnSubject(log) = {}
  BY <1>1, <1>2, <1>3, <1>4 DEF CurrentPosition, LastOf, NoPosition
<1>5. CASE OnSubject(log) # {}
  <2>1. \A y \in OnSubject(log) : y \in 0..Len(log)
    BY <1>1, <1>2
  <2>2. /\ Max(OnSubject(log)) \in OnSubject(log)
        /\ \A y \in OnSubject(log) : y <= Max(OnSubject(log))
    BY <1>1, <1>5, <2>1, MaxIsGreatest
  <2>3. CurrentPosition(log) = Max(OnSubject(log))
    BY <1>5 DEF CurrentPosition, LastOf
  <2> QED BY <1>2, <1>3, <2>1, <2>2, <2>3
<1> QED BY <1>4, <1>5

\* A log grows at its end only.
Extends(new, old) ==
    /\ Len(old) <= Len(new)
    /\ \A x \in Positions(old) : new[x] = old[x]

\* Growing a log changes nothing at or below its old length.
LEMMA ExtensionKeepsHistory ==
    ASSUME NEW E, NEW old \in Seq(E), NEW new \in Seq(E), Extends(new, old)
    PROVE  /\ \A x \in 1..Len(old) : /\ x \in OnSubject(new) <=> x \in OnSubject(old)
                                     /\ x \in Decodable(new) <=> x \in Decodable(old)
           /\ OnSubject(old) \subseteq OnSubject(new)
           /\ Decodable(old) \subseteq Decodable(new)
           /\ \A p \in 0..Len(old) : History(new, p) = History(old, p)
<1>1. Len(old) \in Nat /\ Len(new) \in Nat /\ Len(old) <= Len(new)
  BY LenProperties DEF Extends
<1>2. \A x \in 1..Len(old) : /\ x \in OnSubject(new) <=> x \in OnSubject(old)
                             /\ x \in Decodable(new) <=> x \in Decodable(old)
  BY <1>1 DEF Extends, OnSubject, Decodable, Positions
<1>3. OnSubject(old) \subseteq OnSubject(new) /\ Decodable(old) \subseteq Decodable(new)
  BY <1>2 DEF OnSubject, Decodable, Positions
<1>4. ASSUME NEW bound \in 0..Len(old)
      PROVE  History(new, bound) = History(old, bound)
  <2>1. \A x \in Decodable(new) : x <= bound => x \in 1..Len(old)
    BY <1>1 DEF Decodable, Positions
  <2> QED BY <1>2, <1>3, <2>1 DEF History, UpTo
<1> QED BY <1>2, <1>3, <1>4

\* Publishing a batch of n events adds exactly n decodable positions.
LEMMA AppendBatch ==
    ASSUME NEW E, NEW old \in Seq(E), NEW batch \in Seq(E),
           \A i \in 1..Len(batch) : batch[i].kind = "event",
           NEW new, new = old \o batch
    PROVE  /\ new \in Seq(E)
           /\ Len(new) = Len(old) + Len(batch)
           /\ Extends(new, old)
           /\ \A i \in 1..Len(batch) : new[Len(old) + i] = batch[i]
           /\ \A x : x \in Decodable(new)
                    <=> x \in Decodable(old) \/ x \in (Len(old) + 1)..(Len(old) + Len(batch))
<1>1. Len(old) \in Nat /\ Len(batch) \in Nat
  BY LenProperties
<1>2. /\ new \in Seq(E)
      /\ Len(new) = Len(old) + Len(batch)
      /\ \A i \in 1..(Len(old) + Len(batch)) :
            new[i] = IF i <= Len(old) THEN old[i] ELSE batch[i - Len(old)]
  BY ConcatProperties
<1>3. Extends(new, old)
  BY <1>1, <1>2 DEF Extends, Positions
<1>4. ASSUME NEW i \in 1..Len(batch) PROVE new[Len(old) + i] = batch[i]
  <2>1. /\ Len(old) + i \in 1..(Len(old) + Len(batch)) /\ ~ (Len(old) + i <= Len(old))
        /\ (Len(old) + i) - Len(old) = i
    BY <1>1
  <2> QED BY <1>2, <2>1
<1>5. ASSUME NEW x \in (Len(old) + 1)..(Len(old) + Len(batch)) PROVE x \in Decodable(new)
  <2>1. /\ x - Len(old) \in 1..Len(batch) /\ x \in 1..Len(new)
        /\ x = Len(old) + (x - Len(old))
    BY <1>1, <1>2
  <2>2. new[x] = batch[x - Len(old)]
    BY <1>4, <2>1
  <2> QED BY <2>1, <2>2 DEF Decodable, Positions
<1>6. ASSUME NEW x \in Decodable(new), x \notin (Len(old) + 1)..(Len(old) + Len(batch))
      PROVE  x \in Decodable(old)
  <2>1. x \in 1..Len(old)
    BY <1>1, <1>2, <1>6 DEF Decodable, Positions
  <2> QED BY <1>2, <1>3, <2>1, ExtensionKeepsHistory
<1>7. \A x : x \in Decodable(new)
             <=> x \in Decodable(old) \/ x \in (Len(old) + 1)..(Len(old) + Len(batch))
  BY <1>2, <1>3, <1>5, <1>6, ExtensionKeepsHistory
<1> QED BY <1>2, <1>3, <1>4, <1>7

\* Another writer adds one position the fold never applies.
LEMMA AppendOtherEntry ==
    ASSUME NEW E, NEW old \in Seq(E), NEW kind \in {"alien", "foreign"}, Other(kind) \in E,
           NEW new, new = Append(old, Other(kind))
    PROVE  /\ new \in Seq(E)
           /\ Len(new) = Len(old) + 1
           /\ Extends(new, old)
           /\ Decodable(new) = Decodable(old)
<1>1. Len(old) \in Nat
  BY LenProperties
<1>2. /\ new \in Seq(E)
      /\ Len(new) = Len(old) + 1
      /\ \A i \in 1..Len(old) : new[i] = old[i]
      /\ new[Len(old) + 1] = Other(kind)
  BY AppendProperties
<1>3. Extends(new, old)
  BY <1>1, <1>2 DEF Extends, Positions
<1>4. Len(old) + 1 \notin Decodable(new)
  BY <1>1, <1>2 DEF Decodable, Other
<1>5. \A x \in Decodable(new) : x \in 1..Len(old)
  BY <1>1, <1>2, <1>4 DEF Decodable, Positions
<1>6. Decodable(old) \subseteq Decodable(new) /\ Decodable(new) \subseteq Decodable(old)
  BY <1>2, <1>3, <1>5, ExtensionKeepsHistory
<1> QED BY <1>2, <1>3, <1>6

-----------------------------------------------------------------------------

\* What a turn of the replay loop keeps of a chunk, and the state it folds to.
Kept(log, position, bound, tail) == UpTo(ReadAfter(log, position, bound), tail)

Folded(log, position, bound, tail) ==
    History(log, position) \cup (Kept(log, position, bound, tail) \cap Decodable(log))

\* The positions of the subject after low, up to high.
Between(log, low, high) == {x \in OnSubject(log) : low < x /\ x <= high}

\* What one turn of the replay loop keeps: an initial segment of the events
\* between the position and the pinned tail. It is all of them if nothing was
\* read, if nothing was kept, if it reaches the tail, or if the read was complete.
LEMMA KeptChunk ==
    ASSUME NEW E, NEW log \in Seq(E), NEW position \in Nat, NEW bound \in Nat,
           NEW tail \in Nat, position <= tail,
           NEW kept, kept = Kept(log, position, bound, tail)
    PROVE  /\ kept \subseteq Between(log, position, tail)
           /\ kept # {} =>
                 /\ Max(kept) \in 1..Len(log) /\ position < Max(kept) /\ Max(kept) <= tail
                 /\ kept = Between(log, position, Max(kept))
           /\ \/ ReadAfter(log, position, bound) = {}
              \/ kept = {}
              \/ Max(kept) >= tail
              \/ ReadAfter(log, position, bound) = After(OnSubject(log), position)
              => kept = Between(log, position, tail)
<1> PICK chunk : chunk = ReadAfter(log, position, bound) /\ kept = UpTo(chunk, tail)
  BY DEF Kept
<1> DEFINE Rest == After(OnSubject(log), position)
<1>1. Len(log) \in Nat /\ \A x \in OnSubject(log) : x \in 1..Len(log)
  BY LenProperties, CurrentPositionIsLast
<1>2. \A x \in Rest : x \in 1..Len(log) /\ position < x /\ x \in OnSubject(log)
  BY <1>1 DEF After
<1>3. chunk = FirstOf(Rest, bound) /\ chunk \subseteq Rest
  BY DEF ReadAfter, FirstOf
<1>4. \A x \in kept : x \in Rest /\ x \in chunk /\ x \in 1..Len(log) /\ position < x /\ x <= tail
  BY <1>2, <1>3 DEF UpTo
<1>5. ASSUME NEW x \in Rest, NEW later \in chunk, x <= later
      PROVE  x \in chunk
  <2> HIDE DEF Rest
  <2> QED BY <1>1, <1>2, <1>3, <1>5, FirstOfClosed
<1>6. kept \subseteq Between(log, position, tail)
  BY <1>2, <1>4 DEF Between
<1>7. ASSUME kept # {}
      PROVE  /\ Max(kept) \in 1..Len(log) /\ position < Max(kept) /\ Max(kept) <= tail
             /\ kept = Between(log, position, Max(kept))
  <2>1. \A x \in kept : x \in 0..Len(log)
    BY <1>4
  <2>2. Max(kept) \in kept /\ \A x \in kept : x <= Max(kept)
    BY <1>1, <1>7, <2>1, MaxIsGreatest
  <2>3. ASSUME NEW x \in Rest, x <= Max(kept) PROVE x \in kept
    <3>1. x \in chunk
      BY <1>4, <1>5, <2>2, <2>3
    <3>2. x <= tail
      BY <1>2, <1>4, <2>2, <2>3
    <3> QED BY <3>1, <3>2 DEF UpTo
  <2>4. \A x \in Between(log, position, Max(kept)) : x \in Rest /\ x <= Max(kept)
    BY DEF Between, After
  <2>5. \A x \in kept : x \in Between(log, position, Max(kept))
    BY <1>2, <1>4, <2>2 DEF Between
  <2>6. kept = Between(log, position, Max(kept))
    BY <2>3, <2>4, <2>5
  <2> QED BY <1>4, <2>2, <2>6
<1>8. ASSUME \A x \in Rest : x <= tail => x \in kept
      PROVE  kept = Between(log, position, tail)
  BY <1>6, <1>8 DEF Between, After
<1>9. CASE chunk = {}
  <2>1. Rest = {}
    <3> HIDE DEF Rest
    <3> QED BY <1>1, <1>2, <1>3, <1>9, FirstOfNonempty
  <2> QED BY <1>7, <1>8, <1>6, <2>1
<1>10. CASE kept = {} /\ chunk # {}
  <2>1. ASSUME NEW x \in Rest, x <= tail PROVE FALSE
    <3>1. PICK c \in chunk : ~ (c <= tail)
      BY <1>10 DEF UpTo
    <3>2. x <= c
      BY <1>2, <1>3, <2>1, <3>1
    <3>3. x \in chunk
      BY <1>5, <3>2
    <3> QED BY <1>10, <2>1, <3>3 DEF UpTo
  <2> QED BY <1>6, <1>8, <1>10, <2>1
<1>11. CASE kept # {} /\ Max(kept) >= tail
  <2>1. Max(kept) = tail
    BY <1>1, <1>7, <1>11
  <2> QED BY <1>6, <1>7, <1>11, <2>1
<1>12. CASE chunk = Rest
  <2>1. \A x \in Rest : x <= tail => x \in kept
    BY <1>12 DEF UpTo
  <2> QED BY <1>6, <1>7, <1>8, <2>1
<1> QED BY <1>6, <1>7, <1>9, <1>10, <1>11, <1>12

\* What one turn of the replay loop folds is exact to the last event kept, and
\* to the pinned tail if everything up to it was kept.
LEMMA FoldChunk ==
    ASSUME NEW E, NEW log \in Seq(E), NEW position \in Nat, NEW bound \in Nat,
           NEW tail \in Nat, position <= tail
    PROVE  /\ Kept(log, position, bound, tail) # {} =>
                 /\ Max(Kept(log, position, bound, tail)) \in 1..Len(log)
                 /\ Max(Kept(log, position, bound, tail)) <= tail
                 /\ Folded(log, position, bound, tail)
                       = History(log, Max(Kept(log, position, bound, tail)))
           /\ \/ ReadAfter(log, position, bound) = {}
              \/ Kept(log, position, bound, tail) = {}
              \/ Max(Kept(log, position, bound, tail)) >= tail
              \/ ReadAfter(log, position, bound) = After(OnSubject(log), position)
              => Folded(log, position, bound, tail) = History(log, tail)
<1> PICK kept : kept = Kept(log, position, bound, tail)
  OBVIOUS
<1>1. Len(log) \in Nat
      /\ \A x \in Decodable(log) : x \in OnSubject(log) /\ x \in 1..Len(log)
  BY LenProperties, CurrentPositionIsLast
<1>2. ASSUME NEW reach \in Nat, position <= reach, kept = Between(log, position, reach)
      PROVE  Folded(log, position, bound, tail) = History(log, reach)
  <2>1. \A x \in Decodable(log) :
            x <= reach <=> x <= position \/ x \in Between(log, position, reach)
    BY <1>1, <1>2 DEF Between
  <2> QED BY <1>2, <2>1 DEF Folded, History, UpTo
<1>3. ASSUME kept # {}
      PROVE  /\ Max(kept) \in 1..Len(log) /\ position < Max(kept) /\ Max(kept) <= tail
             /\ kept = Between(log, position, Max(kept))
  BY <1>3, KeptChunk
<1>4. ASSUME \/ ReadAfter(log, position, bound) = {}
             \/ kept = {}
             \/ Max(kept) >= tail
             \/ ReadAfter(log, position, bound) = After(OnSubject(log), position)
      PROVE  kept = Between(log, position, tail)
  BY <1>4, KeptChunk
<1>5. kept # {} => Folded(log, position, bound, tail) = History(log, Max(kept))
  BY <1>1, <1>2, <1>3
<1> QED BY <1>2, <1>3, <1>4, <1>5

\* Positions in between are finitely many, and adjacent ranges add up.
LEMMA BetweenAdds ==
    ASSUME NEW E, NEW log \in Seq(E), NEW low \in Nat, NEW mid \in Nat, NEW high \in Nat,
           low <= mid, mid <= high
    PROVE  /\ IsFiniteSet(Between(log, low, high)) /\ Cardinality(Between(log, low, high)) \in Nat
           /\ Cardinality(Between(log, low, mid)) \in Nat
           /\ Cardinality(Between(log, mid, high)) \in Nat
           /\ Cardinality(Between(log, low, high))
                 = Cardinality(Between(log, low, mid)) + Cardinality(Between(log, mid, high))
<1>1. Len(log) \in Nat /\ \A x \in OnSubject(log) : x \in 1..Len(log)
  BY LenProperties, CurrentPositionIsLast
<1>2. ASSUME NEW l \in Nat, NEW h \in Nat
      PROVE  IsFiniteSet(Between(log, l, h)) /\ Cardinality(Between(log, l, h)) \in Nat
  <2>1. \A x \in Between(log, l, h) : x \in 1..Len(log)
    BY <1>1 DEF Between
  <2> QED BY <1>1, <2>1, UpToFinite
<1>3. /\ Between(log, low, high) = Between(log, low, mid) \cup Between(log, mid, high)
      /\ Between(log, low, mid) \cap Between(log, mid, high) = {}
  BY <1>1 DEF Between
<1>4. Cardinality(Between(log, low, high))
        = Cardinality(Between(log, low, mid)) + Cardinality(Between(log, mid, high))
            - Cardinality({})
  BY <1>2, <1>3, FS_Union
<1> QED BY <1>2, <1>4, FS_EmptySet

\* A log that grows keeps what is in between.
LEMMA BetweenKept ==
    ASSUME NEW E, NEW old \in Seq(E), NEW new \in Seq(E), Extends(new, old),
           NEW low \in Nat, NEW high \in 0..Len(old)
    PROVE  Between(new, low, high) = Between(old, low, high)
<1>1. Len(old) \in Nat /\ \A x \in OnSubject(old) \cup OnSubject(new) : x \in Nat \ {0}
  BY LenProperties, CurrentPositionIsLast
<1>2. \A x \in 1..Len(old) : x \in OnSubject(new) <=> x \in OnSubject(old)
  BY ExtensionKeepsHistory
<1> QED BY <1>1, <1>2 DEF Between

\* A read whose bound comes from the limit alone has read everything unless
\* it returned more events than the limit allows.
LEMMA UnchunkedReadIsComplete ==
    ASSUME NEW E, NEW log \in Seq(E), NEW position \in Nat, NEW limit \in Nat,
           NEW chunk, chunk = ReadAfter(log, position, ReadBound(limit, Unset, 0)),
           limit = Unset \/ Cardinality(chunk) <= limit
    PROVE  chunk = After(OnSubject(log), position)
<1> DEFINE Rest == After(OnSubject(log), position)
<1>1. Len(log) \in Nat /\ \A x \in OnSubject(log) : x \in 1..Len(log)
  BY LenProperties, CurrentPositionIsLast
<1>2. \A x \in Rest : x \in 1..Len(log)
  BY <1>1 DEF After
<1>3. CASE limit = Unset
  BY <1>3 DEF ReadAfter, ReadBound, FirstOf
<1>4. CASE limit # Unset
  <2>1. ReadBound(limit, Unset, 0) = limit + 1
    BY <1>4 DEF ReadBound, Unset
  <2>2. chunk = FirstOf(Rest, limit + 1)
    BY <2>1 DEF ReadAfter
  <2>3. IsFiniteSet(Rest)
    <3> HIDE DEF Rest
    <3> QED BY <1>1, <1>2, UpToFinite
  <2>4. chunk \subseteq Rest
    BY <2>2 DEF FirstOf
  <2>5. Cardinality(chunk) \in Nat
    BY <2>3, <2>4, FS_Subset, FS_CardinalityType
  <2>6. Cardinality(FirstOf(Rest, limit + 1)) < limit + 1
    BY <1>4, <2>2, <2>5
  <2> HIDE DEF Rest
  <2>7. FirstOf(Rest, limit + 1) = Rest
    BY <1>1, <1>2, <2>6, FirstOfComplete
  <2> QED BY <2>2, <2>7 DEF Rest
<1> QED BY <1>3, <1>4

\* A read is bounded by a position.
LEMMA ReadBoundType ==
    ASSUME NEW limit \in Nat, NEW chunk \in Nat, NEW replayed \in Nat
    PROVE  ReadBound(limit, chunk, replayed) \in Nat
BY DEF ReadBound, Unset

=============================================================================
