--------------------------- MODULE CompactionProofs ---------------------------
(***************************************************************************)
(* Proofs about the compaction inside Ingestion, for any number of         *)
(* batches, attempts of the extraction, faults and loaders and any limit:  *)
(* a manifest, local or on the stage, always names existing objects that   *)
(* hold the batches of one reading of the run exactly once, chunked by the *)
(* limit; and every variable of Ingestion has its type.                    *)
(***************************************************************************)
EXTENDS IngestionProofs, FiniteSetTheorems, WellFoundedInduction

-----------------------------------------------------------------------------
(* The rows of a set of batches *)

\* Induction over the numbers, for a set of them: else the least number outside it would
\* follow one inside.
LEMMA ByCounting ==
    ASSUME NEW T, 0 \in T, \A n \in Nat : n \in T => n + 1 \in T
    PROVE  Nat \subseteq T
<1> SUFFICES ASSUME Nat \ T # {} PROVE FALSE
  OBVIOUS
<1>1. PICK n \in Nat \ T : \A m \in Nat \ T : ~ (<<m, n>> \in OpToRel(<, Nat))
  <2>1. Nat \ T \subseteq Nat
    OBVIOUS
  <2> QED
    BY <2>1, NatLessThanWellFounded, WFMin, Zenon
<1>2. \A m \in Nat \ T : ~ (m < n)
  BY <1>1 DEF OpToRel
<1>3. n # 0 /\ n - 1 \in Nat /\ n - 1 < n /\ (n - 1) + 1 = n
  OBVIOUS
<1>4. n - 1 \in T
  BY <1>2, <1>3
<1> QED
  BY <1>3, <1>4

\* The recursive function MapThenSumSet is defined by.
Pick(s) == CHOOSE x \in s : TRUE
Plus(g, s) == IF s = {} THEN 0 ELSE Pick(s).count + g[s \ {Pick(s)}]
IsSum(g, S) == g = [s \in SUBSET S |-> Plus(g, s)]

\* Rows chooses one such function over the subsets of S.
LEMMA RowsAre == ASSUME NEW S PROVE Rows(S) = (CHOOSE g : IsSum(g, S))[S]
BY DEF Rows, MapThenSumSet, MapThenFoldSet, IsSum, Plus, Pick

\* Without the batch picked, a set is smaller by one.
LEMMA Picked ==
    ASSUME NEW S, IsFiniteSet(S), S # {}
    PROVE  /\ Pick(S) \in S /\ IsFiniteSet(S \ {Pick(S)})
           /\ Cardinality(S) \in Nat \ {0}
           /\ Cardinality(S \ {Pick(S)}) = Cardinality(S) - 1
<1>1. Pick(S) \in S
  BY DEF Pick
<1>2. Cardinality(S) \in Nat /\ Cardinality(S) # 0
  BY FS_CardinalityType, FS_EmptySet
<1> QED
  BY <1>1, <1>2, FS_RemoveElement

\* There is one: by induction on the size of the subsets.
LEMMA SumExists ==
    ASSUME NEW S, IsFiniteSet(S)
    PROVE  \E g : IsSum(g, S)
<1> DEFINE Upto(g, n) == \A s \in SUBSET S : Cardinality(s) <= n => g[s] = Plus(g, s)
           T == {n \in Nat : \E g : Upto(g, n)}
<1>1. \A s \in SUBSET S : IsFiniteSet(s) /\ Cardinality(s) \in Nat
  BY FS_Subset, FS_CardinalityType
<1>2. 0 \in T
  <2> DEFINE g == [s \in SUBSET S |-> 0]
  <2>1. ASSUME NEW s \in SUBSET S, Cardinality(s) <= 0 PROVE g[s] = Plus(g, s)
    <3>1. s = {}
      BY <1>1, <2>1, FS_EmptySet
    <3> QED
      BY <3>1 DEF Plus
  <2>2. Upto(g, 0)
    BY <2>1
  <2> QED
    BY <2>2
<1>3. ASSUME NEW n \in Nat, n \in T PROVE n + 1 \in T
  <2>1. PICK g : Upto(g, n)
    BY <1>3
  <2> DEFINE h == [s \in SUBSET S |-> IF Cardinality(s) <= n THEN g[s] ELSE Plus(g, s)]
  <2>2. ASSUME NEW s \in SUBSET S, Cardinality(s) <= n + 1 PROVE h[s] = Plus(h, s)
    <3>1. h[s] = Plus(g, s)
      BY <2>1
    <3>2. CASE s = {}
      BY <3>1, <3>2 DEF Plus
    <3>3. CASE s # {}
      <4>1. s \ {Pick(s)} \in SUBSET S /\ Cardinality(s \ {Pick(s)}) <= n
        BY <1>1, <2>2, <3>3, Picked
      <4>2. h[s \ {Pick(s)}] = g[s \ {Pick(s)}]
        BY <4>1
      <4> HIDE DEF h
      <4> QED
        BY <3>1, <3>3, <4>2 DEF Plus
    <3> QED
      BY <3>2, <3>3
  <2>3. Upto(h, n + 1)
    BY <2>2
  <2> HIDE DEF h, Upto
  <2> QED
    BY <2>3
<1>4. Cardinality(S) \in T
  <2> HIDE DEF T
  <2>1. Nat \subseteq T
    BY <1>2, <1>3, ByCounting
  <2> QED
    BY <1>1, <2>1
<1>5. PICK g : Upto(g, Cardinality(S))
  BY <1>4
<1>6. \A s \in SUBSET S : g[s] = Plus(g, s)
  BY <1>5, <1>1, FS_Subset
<1> DEFINE f == [s \in SUBSET S |-> g[s]]
<1>7. ASSUME NEW s \in SUBSET S PROVE f[s] = Plus(f, s)
  <2>1. s \ {Pick(s)} \in SUBSET S
    OBVIOUS
  <2> QED
    BY <1>6, <2>1 DEF Plus
<1>8. f = [s \in SUBSET S |-> Plus(f, s)]
  <2>1. f = [s \in SUBSET S |-> f[s]]
    OBVIOUS
  <2> HIDE DEF f
  <2> QED
    BY <1>7, <2>1
<1> QED
  BY <1>8 DEF IsSum

\* And any two agree where both are defined.
LEMMA SumUnique ==
    ASSUME NEW S, NEW R, NEW g, NEW h, IsFiniteSet(S), IsSum(g, S), IsSum(h, R),
           NEW s0 \in (SUBSET S) \cap (SUBSET R)
    PROVE  g[s0] = h[s0]
<1> DEFINE Both == (SUBSET S) \cap (SUBSET R)
           T == {n \in Nat : \A s \in Both : Cardinality(s) = n => g[s] = h[s]}
<1>1. \A s \in Both : /\ IsFiniteSet(s) /\ Cardinality(s) \in Nat
                      /\ g[s] = Plus(g, s) /\ h[s] = Plus(h, s)
  BY FS_Subset, FS_CardinalityType DEF IsSum
<1>2. 0 \in T
  <2>1. ASSUME NEW s \in Both, Cardinality(s) = 0 PROVE g[s] = h[s]
    <3>1. s = {}
      BY <1>1, <2>1, FS_EmptySet
    <3> QED
      BY <1>1, <3>1 DEF Plus
  <2> QED
    BY <2>1
<1>3. ASSUME NEW n \in Nat, n \in T PROVE n + 1 \in T
  <2>1. ASSUME NEW s \in Both, Cardinality(s) = n + 1 PROVE g[s] = h[s]
    <3>1. s # {}
      BY <2>1, FS_EmptySet
    <3>2. s \ {Pick(s)} \in Both /\ Cardinality(s \ {Pick(s)}) = n
      BY <1>1, <2>1, <3>1, Picked
    <3>3. g[s \ {Pick(s)}] = h[s \ {Pick(s)}]
      BY <1>3, <3>2
    <3> QED
      BY <1>1, <3>1, <3>3 DEF Plus
  <2> QED
    BY <2>1
<1>4. Nat \subseteq T
  <2> HIDE DEF T
  <2> QED
    BY <1>2, <1>3, ByCounting
<1> QED
  BY <1>1, <1>4

\* So Rows sums as it should, one batch at a time ...
LEMMA RowsPicked ==
    ASSUME NEW S, IsFiniteSet(S)
    PROVE  Rows(S) = IF S = {} THEN 0 ELSE Pick(S).count + Rows(S \ {Pick(S)})
<1> DEFINE R == S \ {Pick(S)}
           g == CHOOSE f : IsSum(f, S)
           h == CHOOSE f : IsSum(f, R)
<1>1. IsFiniteSet(R)
  BY FS_Subset
<1>2. IsSum(g, S) /\ IsSum(h, R)
  BY <1>1, SumExists
<1>3. Rows(S) = g[S] /\ Rows(R) = h[R]
  BY RowsAre
<1> HIDE DEF g, h
<1>4. g[S] = Plus(g, S)
  BY <1>2 DEF IsSum
<1>5. g[R] = h[R]
  BY <1>2, SumUnique
<1> QED
  BY <1>3, <1>4, <1>5 DEF Plus

LEMMA RowsTyped ==
    ASSUME NEW S \in SUBSET Plan
    PROVE  IsFiniteSet(S) /\ Rows(S) \in Nat
<1> DEFINE T == {n \in Nat : \A s \in SUBSET Plan : Cardinality(s) = n => Rows(s) \in Nat}
<1>1. \A s \in SUBSET Plan : IsFiniteSet(s) /\ Cardinality(s) \in Nat
  BY FS_Subset, FS_CardinalityType, PlanAssumption
<1>2. 0 \in T
  <2>1. ASSUME NEW s \in SUBSET Plan, Cardinality(s) = 0 PROVE Rows(s) \in Nat
    <3>1. s = {}
      BY <1>1, <2>1, FS_EmptySet
    <3>2. Rows(s) = 0
      BY <1>1, <3>1, RowsPicked
    <3> QED
      BY <3>2
  <2> QED
    BY <2>1
<1>3. ASSUME NEW n \in Nat, n \in T PROVE n + 1 \in T
  <2>1. ASSUME NEW s \in SUBSET Plan, Cardinality(s) = n + 1 PROVE Rows(s) \in Nat
    <3>1. s # {}
      BY <2>1, FS_EmptySet
    <3>2. s \ {Pick(s)} \in SUBSET Plan /\ Cardinality(s \ {Pick(s)}) = n /\ Pick(s) \in Plan
      BY <1>1, <2>1, <3>1, Picked
    <3>3. Rows(s \ {Pick(s)}) \in Nat /\ Pick(s).count \in Nat
      BY <1>3, <3>2, PlanAssumption
    <3>4. Rows(s) = Pick(s).count + Rows(s \ {Pick(s)})
      BY <1>1, <3>1, RowsPicked
    <3> QED
      BY <3>3, <3>4
  <2> QED
    BY <2>1
<1>4. Nat \subseteq T
  <2> HIDE DEF T
  <2> QED
    BY <1>2, <1>3, ByCounting
<1> QED
  BY <1>1, <1>4

\* ... and whichever batch is added last.
LEMMA RowsAdded ==
    ASSUME NEW S0 \in SUBSET Plan, NEW b0 \in Plan \ S0
    PROVE  Rows(S0 \cup {b0}) = Rows(S0) + b0.count
<1> DEFINE T == {n \in Nat : \A S \in SUBSET Plan : \A b \in Plan \ S :
                    Cardinality(S) = n => Rows(S \cup {b}) = Rows(S) + b.count}
<1>1. \A S \in SUBSET Plan : IsFiniteSet(S) /\ Cardinality(S) \in Nat /\ Rows(S) \in Nat
  BY FS_CardinalityType, RowsTyped
<1>2. \A b \in Plan : b.count \in Nat
  BY PlanAssumption
<1>3. ASSUME NEW n \in Nat, NEW S \in SUBSET Plan, NEW b \in Plan \ S, Cardinality(S) = n,
             n # 0 => n - 1 \in T
      PROVE  Rows(S \cup {b}) = Rows(S) + b.count
  <2> DEFINE x == Pick(S \cup {b})
  <2>1. S \cup {b} \in SUBSET Plan /\ S \cup {b} # {}
    OBVIOUS
  <2>2. x \in S \cup {b} /\ Rows(S \cup {b}) = x.count + Rows((S \cup {b}) \ {x})
    BY <1>1, <2>1, Picked, RowsPicked
  <2> HIDE DEF x
  <2>3. CASE x = b
    <3>1. (S \cup {b}) \ {x} = S
      BY <2>3
    <3>2. Rows(S \cup {b}) = b.count + Rows(S)
      BY <2>2, <2>3, <3>1
    <3>3. b.count \in Nat /\ Rows(S) \in Nat
      BY <1>1, <1>2
    <3> QED
      BY <3>2, <3>3
  <2>4. CASE x # b
    <3>1. x \in S /\ (S \cup {b}) \ {x} = (S \ {x}) \cup {b} /\ (S \ {x}) \cup {x} = S
      BY <2>2, <2>4
    <3>2. Cardinality(S \ {x}) = n - 1 /\ n # 0
      BY <1>1, <1>3, <3>1, FS_RemoveElement, FS_EmptySet
    <3>3. S \ {x} \in SUBSET Plan /\ b \in Plan \ (S \ {x}) /\ x \in Plan \ (S \ {x})
      BY <3>1
    <3>4. Rows((S \ {x}) \cup {b}) = Rows(S \ {x}) + b.count
          /\ Rows((S \ {x}) \cup {x}) = Rows(S \ {x}) + x.count
      BY <1>3, <3>2, <3>3
    <3>5. Rows(S \ {x}) \in Nat /\ b.count \in Nat /\ x.count \in Nat
      BY <1>1, <1>2, <3>3
    <3>6. Rows(S) = Rows(S \ {x}) + x.count
      BY <3>1, <3>4
    <3>7. Rows(S \cup {b}) = x.count + (Rows(S \ {x}) + b.count)
      BY <2>2, <3>1, <3>4
    <3> QED
      BY <3>5, <3>6, <3>7
  <2> QED
    BY <2>3, <2>4
<1>4. 0 \in T
  BY <1>3
<1>5. ASSUME NEW n \in Nat, n \in T PROVE n + 1 \in T
  <2>1. (n + 1) - 1 \in T /\ n + 1 \in Nat
    BY <1>5
  <2>2. \A S \in SUBSET Plan : \A b \in Plan \ S :
          Cardinality(S) = n + 1 => Rows(S \cup {b}) = Rows(S) + b.count
    <3> HIDE DEF T
    <3> QED
      BY <1>3, <2>1
  <2> QED
    BY <2>1, <2>2
<1>6. Nat \subseteq T
  <2> HIDE DEF T
  <2> QED
    BY <1>4, <1>5, ByCounting
<1> QED
  BY <1>1, <1>6

\* The rows of one batch.
LEMMA RowsOfOne == ASSUME NEW b \in Plan PROVE Rows({b}) = b.count
<1>1. Rows({} \cup {b}) = Rows({}) + b.count
  BY RowsAdded
<1>2. Rows({}) = 0 /\ b.count \in Nat
  BY RowsPicked, FS_EmptySet, PlanAssumption
<1>3. {} \cup {b} = {b}
  OBVIOUS
<1> QED
  BY <1>1, <1>2, <1>3

\* More batches have no fewer rows.
LEMMA RowsMonotone ==
    ASSUME NEW big \in SUBSET Plan, NEW small \in SUBSET big
    PROVE  Rows(small) <= Rows(big)
<1> DEFINE T == {n \in Nat : \A B \in SUBSET Plan : \A S \in SUBSET B :
                    Cardinality(B \ S) = n => Rows(S) <= Rows(B)}
<1>1. \A S \in SUBSET Plan : IsFiniteSet(S) /\ Cardinality(S) \in Nat /\ Rows(S) \in Nat
  BY FS_CardinalityType, RowsTyped
<1>2. 0 \in T
  <2>1. ASSUME NEW B \in SUBSET Plan, NEW S \in SUBSET B, Cardinality(B \ S) = 0
        PROVE  Rows(S) <= Rows(B)
    <3>1. IsFiniteSet(B \ S)
      BY <1>1
    <3>2. B \ S = {}
      BY <2>1, <3>1, FS_EmptySet
    <3>3. B = S
      BY <3>2
    <3> QED
      BY <1>1, <3>3
  <2> QED
    BY <2>1
<1>3. ASSUME NEW n \in Nat, n \in T PROVE n + 1 \in T
  <2>1. ASSUME NEW B \in SUBSET Plan, NEW S \in SUBSET B, Cardinality(B \ S) = n + 1
        PROVE  Rows(S) <= Rows(B)
    <3>1. IsFiniteSet(B \ S) /\ B \ S # {}
      BY <1>1, <2>1, FS_EmptySet
    <3>2. PICK x \in B \ S : TRUE
      BY <3>1
    <3> DEFINE A == B \ {x}
    <3>3. A \ S = (B \ S) \ {x} /\ A \in SUBSET Plan /\ S \in SUBSET A
          /\ A \cup {x} = B /\ x \in Plan \ A
      BY <3>2
    <3>4. Cardinality(A \ S) = n
      BY <2>1, <3>1, <3>2, <3>3, FS_RemoveElement
    <3> HIDE DEF A
    <3>5. Rows(S) <= Rows(A)
      BY <1>3, <3>3, <3>4
    <3>6. Rows(A \cup {x}) = Rows(A) + x.count
      BY <3>3, RowsAdded
    <3>7. Rows(B) = Rows(A) + x.count
      BY <3>3, <3>6
    <3>8. x.count \in Nat /\ Rows(S) \in Nat /\ Rows(A) \in Nat
      BY <1>1, <3>3, PlanAssumption
    <3> QED
      BY <3>5, <3>7, <3>8
  <2> QED
    BY <2>1
<1>4. Nat \subseteq T
  <2> HIDE DEF T
  <2> QED
    BY <1>2, <1>3, ByCounting
<1>5. Cardinality(big \ small) \in Nat
  BY <1>1
<1> QED
  BY <1>4, <1>5

-----------------------------------------------------------------------------
(* The order of the batches *)

LEMMA PlanTyped ==
    ASSUME NEW b \in Plan
    PROVE  b.state \in Nat /\ b.offset \in Nat /\ b.count \in Nat /\ b.count > 0
           /\ b.offset < EndOf(b) /\ EndOf(b) \in Nat
<1>1. b.state \in Nat /\ b.offset \in Nat /\ b.count \in Nat \ {0}
  BY PlanAssumption
<1> QED
  BY <1>1 DEF EndOf

\* Two batches of a state do not overlap ...
LEMMA Apart ==
    ASSUME NEW b \in Plan, NEW c \in Plan, b.state = c.state, b # c
    PROVE  EndOf(b) <= c.offset \/ EndOf(c) <= b.offset
<1>1. PICK i \in DOMAIN Waves : b \in Waves[i]
  BY DEF Plan
<1>2. PICK j \in DOMAIN Waves : c \in Waves[j]
  BY DEF Plan
<1> QED
  BY <1>1, <1>2, TilingAssumption

\* ... so Before is a total order.
LEMMA BeforeIsTotal ==
    ASSUME NEW b \in Plan, NEW c \in Plan, b # c
    PROVE  Before(b, c) \/ Before(c, b)
<1>1. /\ b.state \in Nat /\ b.offset \in Nat /\ b.offset < EndOf(b) /\ EndOf(b) \in Nat
      /\ c.state \in Nat /\ c.offset \in Nat /\ c.offset < EndOf(c) /\ EndOf(c) \in Nat
  BY PlanTyped
<1>2. b.state = c.state => EndOf(b) <= c.offset \/ EndOf(c) <= b.offset
  BY Apart
<1>3. b.state = c.state => b.offset < c.offset \/ c.offset < b.offset
  BY <1>1, <1>2
<1> QED
  BY <1>1, <1>3 DEF Before, Earlier

LEMMA BeforeIsStrict ==
    ASSUME NEW b \in Plan, NEW c \in Plan, Before(b, c)
    PROVE  ~ Before(c, b) /\ b # c
<1>1. /\ b.state \in Nat /\ b.offset \in Nat /\ c.state \in Nat /\ c.offset \in Nat
  BY PlanTyped
<1> QED
  BY <1>1 DEF Before, Earlier

\* What follows a batch without a gap is the next of its state.
LEMMA NothingBetween ==
    ASSUME NEW e \in Plan, NEW b \in Plan, e.state = b.state, EndOf(e) = b.offset,
           NEW c \in Plan, Before(e, c)
    PROVE  ~ Before(c, b) /\ Before(e, b)
<1>1. /\ e.state \in Nat /\ e.offset \in Nat /\ e.offset < EndOf(e) /\ EndOf(e) \in Nat
      /\ c.state \in Nat /\ c.offset \in Nat /\ c.offset < EndOf(c) /\ EndOf(c) \in Nat
      /\ b.state \in Nat /\ b.offset \in Nat
  BY PlanTyped
<1>2. c.state = e.state => EndOf(e) <= c.offset
  <2> SUFFICES ASSUME c.state = e.state PROVE EndOf(e) <= c.offset
    OBVIOUS
  <2>1. e.offset < c.offset
    BY <1>1 DEF Before, Earlier
  <2>2. EndOf(e) <= c.offset \/ EndOf(c) <= e.offset
    BY <1>1, <2>1, Apart
  <2> QED
    BY <1>1, <2>1, <2>2
<1> QED
  BY <1>1, <1>2 DEF Before, Earlier

LEMMA Least ==
    ASSUME NEW S \in SUBSET Nat, S # {}
    PROVE  \E n \in S : \A m \in S : n <= m
<1>1. PICK n \in S : \A m \in S : ~ (<<m, n>> \in OpToRel(<, Nat))
  BY NatLessThanWellFounded, WFMin, Zenon
<1>2. \A m \in S : ~ (m < n)
  BY <1>1 DEF OpToRel
<1> QED
  BY <1>2

\* So the loop always comes to a batch, as long as there is one.
LEMMA FirstOf ==
    ASSUME NEW S \in SUBSET Plan, S # {}
    PROVE  \E b \in S : \A c \in S : ~ Before(c, b)
<1>1. \A b \in S : b.state \in Nat /\ b.offset \in Nat
  BY PlanTyped
<1>2. PICK s \in {b.state : b \in S} : \A n \in {b.state : b \in S} : s <= n
  <2>1. {b.state : b \in S} \in SUBSET Nat /\ {b.state : b \in S} # {}
    BY <1>1
  <2> QED
    BY <2>1, Least
<1>3. PICK o \in {b.offset : b \in {c \in S : c.state = s}} :
          \A n \in {b.offset : b \in {c \in S : c.state = s}} : o <= n
  <2>1. {b.offset : b \in {c \in S : c.state = s}} \in SUBSET Nat
        /\ {b.offset : b \in {c \in S : c.state = s}} # {}
    BY <1>1, <1>2
  <2> QED
    BY <2>1, Least
<1>4. PICK b \in S : b.state = s /\ b.offset = o
  BY <1>3
<1>5. ASSUME NEW c \in S, Before(c, b) PROVE FALSE
  <2>1. s <= c.state
    BY <1>2
  <2>2. c.state = s => o <= c.offset
    BY <1>3
  <2>3. c.state < s \/ (c.state = s /\ c.offset < o)
    BY <1>4, <1>5 DEF Before, Earlier
  <2> QED
    BY <1>1, <1>4, <2>1, <2>2, <2>3
<1> QED
  BY <1>5

-----------------------------------------------------------------------------
(* The invariant *)

\* No other batch of the set lies between two of these.
Gapless(bs, all) ==
    \A b \in all : \A e, f \in bs : Earlier(e, b) /\ Earlier(b, f) => b \in bs

\* The next batch of the state, with or without records missing in between, does not fit.
Follows(b, bs, all) ==
    /\ b \in all \ bs /\ \E e \in bs : Earlier(e, b)
    /\ \A c \in all \ bs : (\E e \in bs : Earlier(e, c)) => ~ Earlier(c, b)
Full(bs, all) == \A b \in all : Follows(b, bs, all) => Rows(bs) + b.count > MaxRows

Disjoint(chunks) == \A c, d \in chunks : c # d => c.batches \cap d.batches = {}

\* A file as the loop leaves it, of a reading of the run.
Filled(c, all) ==
    /\ Rows(c.batches) <= MaxRows
    /\ \A b \in c.batches : b.state = c.state
    /\ Gapless(c.batches, all) /\ Full(c.batches, all)

\* The batches of a reading of the run: with each one those before it.
Closed(bs, run) ==
    /\ bs \subseteq run
    /\ \A b \in bs : \A e \in run : Earlier(e, b) => e \in bs

\* A manifest, given the batches of the run and the objects of the store.
Whole(m, run, store) ==
    /\ Disjoint(m) /\ \A c \in m : Filled(c, Batches(m))
    /\ m \subseteq store /\ Closed(Batches(m), run)

\* In the loop: what was taken lies before what was not, and what was closed before
\* what is open.
Sorted ==
    /\ open \cap Batches(built) = {}
    /\ \A t \in open \cup Batches(built) : \A b \in Todo : Before(t, b)
    /\ \A t \in Batches(built) : \A b \in open : Before(t, b)

OpenFits ==
    /\ Gapless(open, snapshot) /\ Rows(open) <= MaxRows
    /\ \A b, c \in open : b.state = c.state

Built == Disjoint(built) /\ built \subseteq objects /\ \A c \in built : Filled(c, snapshot)

Building == cpc = "build" => Sorted /\ OpenFits /\ Built

CompactionInv ==
    /\ Building
    /\ cpc # "off" => Closed(snapshot, extracted)
    /\ Whole(kept, extracted, objects) /\ Whole(stage, extracted, objects)

\* What adjoins a batch of a file without gaps follows the file.
LEMMA AdjoiningFollows ==
    ASSUME NEW bs, NEW all \in SUBSET Plan, bs \subseteq all, Gapless(bs, all),
           NEW b \in all \ bs, NEW e \in bs, EndOf(e) = b.offset, e.state = b.state
    PROVE  Follows(b, bs, all)
<1>1. e \in Plan /\ b \in Plan
  OBVIOUS
<1>2. Earlier(e, b)
  BY <1>1, PlanTyped DEF Earlier
<1>3. ASSUME NEW c \in all \ bs, NEW f \in bs, Earlier(f, c), Earlier(c, b) PROVE FALSE
  <2>1. c \in Plan /\ c # e /\ Before(c, b)
    BY <1>3 DEF Before
  <2>2. ~ Before(e, c)
    BY <1>1, <2>1, NothingBetween
  <2>3. Before(c, e) /\ c.state = e.state
    BY <1>1, <1>3, <2>1, <2>2, BeforeIsTotal DEF Earlier
  <2>4. Earlier(c, e)
    <3>1. c.state \in Nat /\ e.state \in Nat
      BY <1>1, <2>1, PlanTyped
    <3> QED
      BY <2>3, <3>1 DEF Before
  <2> QED
    BY <1>3, <2>4 DEF Gapless
<1> QED
  BY <1>2, <1>3 DEF Follows

LEMMA WholeIsEnough == CompactionInv /\ Planned => ManifestsAreWhole
<1>1. ASSUME NEW m, Whole(m, extracted, objects), Batches(m) \subseteq Plan
      PROVE  /\ WellChunked(m) /\ m \subseteq objects
             /\ \A b \in Batches(m) : \A e \in extracted : Earlier(e, b) => e \in Batches(m)
  <2>1. ASSUME NEW c \in m, NEW b \in Batches(m) \ c.batches, NEW e \in c.batches,
               EndOf(e) = b.offset, e.state = b.state
        PROVE  Rows(c.batches) + b.count > MaxRows
    <3>1. c.batches \subseteq Batches(m)
      BY DEF Batches
    <3>2. Follows(b, c.batches, Batches(m))
      BY <1>1, <2>1, <3>1, AdjoiningFollows DEF Whole, Filled
    <3> QED
      BY <1>1, <2>1, <3>2 DEF Whole, Filled, Full
  <2>2. WellChunked(m)
    BY <1>1, <2>1 DEF Whole, WellChunked, Disjoint, Filled, Gapless
  <2> QED
    BY <1>1, <2>2 DEF Whole, Closed
<1> QED
  BY <1>1 DEF CompactionInv, Planned, ManifestsAreWhole

LEMMA CompactionInvInit == Init => CompactionInv
<1> SUFFICES ASSUME Init PROVE CompactionInv
  OBVIOUS
<1>1. cpc = "off" /\ kept = {} /\ stage = {}
  BY DEF Init, CompactionInit
<1>2. cpc # "off" => FALSE
  BY <1>1
<1>3. Batches({}) = {}
  BY DEF Batches
<1>4. Whole({}, extracted, objects)
  BY <1>3 DEF Whole, Disjoint, Closed
<1> QED
  BY <1>1, <1>2, <1>4 DEF CompactionInv, Building

-----------------------------------------------------------------------------
(* One lemma per step *)

\* The loop's view of what does not change.
LEMMA SameBuilding ==
    ASSUME Building, UNCHANGED <<cpc, snapshot, open, built>>, objects \subseteq objects'
    PROVE  Building'
<1>1. Todo' = Todo
  BY DEF Todo, Batches
<1>2. Sorted => Sorted'
  BY <1>1 DEF Sorted, Batches
<1>3. OpenFits => OpenFits'
  BY DEF OpenFits
<1>4. Built => Built'
  BY DEF Built
<1> QED
  BY <1>2, <1>3, <1>4 DEF Building

\* A manifest stays whole when objects are added and the run does not grow.
LEMMA StaysWhole ==
    ASSUME NEW m, NEW run, NEW store, NEW more, Whole(m, run, store), store \subseteq more
    PROVE  Whole(m, run, more)
BY DEF Whole

\* A wave adds nothing before what is there.
LEMMA StaysClosed ==
    ASSUME NEW i \in DOMAIN Waves, NEW bs, NEW run, NEW grown,
           run = UNION {Waves[j] : j \in 1..(i - 1)}, grown = run \cup Waves[i],
           Closed(bs, run)
    PROVE  Closed(bs, grown)
<1> SUFFICES ASSUME NEW b \in bs, NEW e \in Waves[i], Earlier(e, b) PROVE e \in bs
  BY DEF Closed
<1>1. b \in run
  BY DEF Closed
<1>2. PICK j \in 1..(i - 1) : b \in Waves[j]
  BY <1>1
<1>3. i \in 1..Len(Waves) /\ Len(Waves) \in Nat /\ DOMAIN Waves = 1..Len(Waves)
  BY WavesAssumption
<1>4. j \in DOMAIN Waves /\ j < i
  BY <1>2, <1>3
<1>5. b \in Plan /\ e \in Plan
  BY <1>2, <1>4 DEF Plan
<1>6. e.offset \in Nat /\ b.offset \in Nat /\ e.offset < b.offset /\ e.state = b.state
  BY <1>5, PlanTyped DEF Earlier
<1>7. b # e => b.offset < e.offset
  BY <1>2, <1>4, <1>6, TilingAssumption
<1> QED
  BY <1>6, <1>7

\* The compaction does not touch the run and the store loses no object.
LEMMA QuietlyWhole ==
    ASSUME CompactionInv, UNCHANGED <<extracted, kept, stage>>, objects \subseteq objects'
    PROVE  Whole(kept, extracted, objects)' /\ Whole(stage, extracted, objects)'
BY StaysWhole DEF CompactionInv

\* The end of a process asks for nothing more.
LEMMA EndedBuilding ==
    ASSUME NEW code, EndCompaction(code)
    PROVE  Building' /\ (cpc # "off" => Closed(snapshot, extracted))'
BY DEF EndCompaction, Building

LEMMA ExtendKeeps ==
    ASSUME CompactionInv, Extend, UNCHANGED compactionVars
    PROVE  CompactionInv'
<1>1. PICK i \in DOMAIN Waves :
          /\ extracted = UNION {Waves[j] : j \in 1..(i - 1)}
          /\ extracted' = extracted \cup Waves[i]
  BY DEF Extend
<1>2. /\ stage' = stage /\ kept' = kept /\ objects' = objects
      /\ UNCHANGED <<cpc, snapshot, open, built>>
  BY DEF Extend, compactionVars
<1>3. \A bs : Closed(bs, extracted) => Closed(bs, extracted')
  BY <1>1, StaysClosed
<1>4. Building'
  BY <1>2, SameBuilding DEF CompactionInv
<1>5. Whole(kept, extracted, objects)' /\ Whole(stage, extracted, objects)'
  BY <1>2, <1>3 DEF CompactionInv, Whole
<1> QED
  BY <1>2, <1>3, <1>4, <1>5 DEF CompactionInv

LEMMA StartKeeps ==
    ASSUME CompactionInv, ReadIsBuilt, StartCompaction
    PROVE  CompactionInv'
<1>1. /\ snapshot' = extracted /\ open' = {} /\ built' = {}
      /\ UNCHANGED <<extracted, stage, objects, kept>>
  BY DEF StartCompaction, ReadIsBuilt, durable
<1>2. Closed(extracted, extracted)
  BY DEF Closed
<1>3. Batches({}) = {} /\ Rows({}) = 0
  BY RowsPicked, FS_EmptySet DEF Batches
<1>4. Building'
  <2>1. Sorted'
    BY <1>1, <1>3 DEF Sorted
  <2>2. OpenFits'
    BY <1>1, <1>3, RowsAssumption DEF OpenFits, Gapless
  <2>3. Built'
    BY <1>1 DEF Built, Disjoint
  <2> QED
    BY <2>1, <2>2, <2>3 DEF Building
<1> QED
  BY <1>1, <1>2, <1>4, QuietlyWhole DEF CompactionInv

LEMMA TakeKeeps ==
    ASSUME CompactionInv, ReadIsBuilt, Planned, TakeBatch
    PROVE  CompactionInv'
<1>1. PICK b \in Todo : /\ ComesNext(b) /\ b.count <= MaxRows /\ Fits(b)
                        /\ open' = open \cup {b}
  BY DEF TakeBatch
<1>2. /\ cpc = "build" /\ cpc' = "build" /\ snapshot' = snapshot /\ built' = built
      /\ UNCHANGED <<extracted, stage, objects, kept>>
  BY DEF TakeBatch, durable
<1>3. Sorted /\ OpenFits /\ Built
  BY <1>2 DEF CompactionInv, Building
<1>4. /\ b \in snapshot /\ b \notin open /\ b \notin Batches(built)
      /\ open \subseteq snapshot /\ Batches(built) \subseteq snapshot /\ snapshot \subseteq Plan
  BY <1>2 DEF Todo, ReadIsBuilt, Planned
<1>5. Todo' = Todo \ {b} /\ Batches(built') = Batches(built)
  BY <1>1, <1>2 DEF Todo, Batches
<1>6. \A c \in Todo \ {b} : Before(b, c)
  <2> TAKE c \in Todo \ {b}
  <2>1. ~ Before(c, b)
    BY <1>1 DEF ComesNext
  <2>2. c \in Plan /\ b \in Plan /\ c # b
    BY <1>4 DEF Todo
  <2> QED
    BY <2>1, <2>2, BeforeIsTotal
<1>7. Sorted'
  <2>1. open' \cap Batches(built') = {}
    BY <1>1, <1>3, <1>4, <1>5 DEF Sorted
  <2>2. \A t \in open' \cup Batches(built') : \A c \in Todo' : Before(t, c)
    BY <1>1, <1>3, <1>5, <1>6 DEF Sorted
  <2>3. \A t \in Batches(built') : \A c \in open' : Before(t, c)
    BY <1>1, <1>3, <1>5 DEF Sorted
  <2> QED
    BY <2>1, <2>2, <2>3 DEF Sorted
<1>8. Gapless(open', snapshot')
  <2> SUFFICES ASSUME NEW c \in snapshot, NEW e \in open', NEW f \in open',
                      Earlier(e, c), Earlier(c, f), c \notin open'
               PROVE  FALSE
    BY <1>2 DEF Gapless
  <2>1. e \in Plan /\ c \in Plan /\ f \in Plan /\ Before(e, c) /\ Before(c, f)
    BY <1>1, <1>4 DEF Before
  <2>2. c \in Batches(built) \/ (c \in Todo /\ c # b)
    BY <1>1 DEF Todo
  <2>3. CASE c \in Batches(built)
    <3>1. Before(c, e)
      BY <1>7, <1>5, <2>3 DEF Sorted
    <3> QED
      BY <2>1, <3>1, BeforeIsStrict
  <2>4. CASE c \in Todo /\ c # b
    <3>1. Before(f, c)
      BY <1>5, <1>7, <2>4 DEF Sorted
    <3> QED
      BY <2>1, <3>1, BeforeIsStrict
  <2> QED
    BY <2>2, <2>3, <2>4
<1>9. \A c, d \in open' : c.state = d.state
  BY <1>1, <1>3 DEF Fits, OpenFits
<1>10. Rows(open') <= MaxRows
  <2>1. CASE open = {}
    <3>1. open' = {b}
      BY <1>1, <2>1
    <3>2. Rows(open') = b.count
      BY <1>4, <3>1, RowsOfOne
    <3> QED
      BY <1>1, <3>2
  <2>2. CASE open # {}
    <3>1. Rows(open) + b.count <= MaxRows
      BY <1>1, <2>2 DEF Fits
    <3>2. open \in SUBSET Plan /\ b \in Plan \ open
      BY <1>4
    <3>3. Rows(open \cup {b}) = Rows(open) + b.count
      BY <3>2, RowsAdded
    <3>4. Rows(open') = Rows(open) + b.count
      BY <1>1, <3>3
    <3> QED
      BY <3>1, <3>4
  <2> QED
    BY <2>1, <2>2
<1>11. Built'
  BY <1>2, <1>3 DEF Built
<1>12. Building'
  BY <1>7, <1>8, <1>9, <1>10, <1>11 DEF Building, OpenFits
<1> QED
  BY <1>2, <1>12, QuietlyWhole DEF CompactionInv

\* The file the loop closes is filled: what follows it is what the loop comes to next, and
\* did not fit.
LEMMA ClosedFileIsFilled ==
    ASSUME Sorted, OpenFits, open # {}, open \subseteq snapshot, snapshot \subseteq Plan,
           \A b \in Todo : ComesNext(b) => b.count <= MaxRows /\ ~Fits(b)
    PROVE  Filled(Chunk, snapshot) /\ Chunk.batches = open
<1>1. Chunk.batches = open /\ \A b \in open : b.state = Chunk.state
  <2> DEFINE s == (CHOOSE b \in open : TRUE).state
  <2>1. Chunk.batches = open /\ Chunk.state = s
    BY DEF Chunk
  <2>2. \A b \in open : b.state = s
    <3>1. (CHOOSE b \in open : TRUE) \in open
      OBVIOUS
    <3> QED
      BY <3>1 DEF OpenFits
  <2> HIDE DEF s
  <2> QED
    BY <2>1, <2>2
<1>2. Full(open, snapshot)
  <2> SUFFICES ASSUME NEW b \in snapshot, Follows(b, open, snapshot)
               PROVE  Rows(open) + b.count > MaxRows
    BY DEF Full
  <2>1. PICK e \in open : Earlier(e, b)
    BY DEF Follows
  <2>2. e \in Plan /\ b \in Plan /\ Before(e, b) /\ e.state = b.state
    BY <2>1 DEF Before, Earlier
  <2>3. b \in Todo
    <3>1. b \notin Batches(built)
      BY <2>2, BeforeIsStrict DEF Sorted
    <3> QED
      BY <3>1 DEF Todo, Follows
  <2>4. ComesNext(b)
    <3> SUFFICES ASSUME NEW c \in Todo, Before(c, b) PROVE FALSE
      BY DEF ComesNext
    <3>1. Before(e, c) /\ c \in Plan /\ c \in snapshot \ open
      BY DEF Sorted, Todo
    <3>2. c.state \in Nat /\ e.state \in Nat
      BY <2>2, <3>1, PlanTyped
    <3>3. Earlier(e, c) /\ Earlier(c, b)
      BY <2>2, <3>1, <3>2 DEF Before, Earlier
    <3> QED
      BY <3>1, <3>3 DEF Follows
  <2>5. ~ Fits(b)
    BY <2>3, <2>4
  <2>6. PICK c \in open : ~ (c.state = b.state /\ Rows(open) + b.count <= MaxRows)
    BY <2>5 DEF Fits
  <2>7. c.state = b.state
    BY <2>2 DEF OpenFits
  <2>8. Rows(open) \in Nat /\ b.count \in Nat /\ MaxRows \in Nat
    <3>1. open \in SUBSET Plan
      OBVIOUS
    <3> QED
      BY <2>2, <3>1, RowsTyped, PlanTyped, RowsAssumption
  <2> QED
    BY <2>6, <2>7, <2>8
<1> QED
  BY <1>1, <1>2 DEF Filled, OpenFits

LEMMA PublishKeeps ==
    ASSUME CompactionInv, ReadIsBuilt, Planned, PublishChunk
    PROVE  CompactionInv'
<1>1. /\ cpc = "build" /\ open # {}
      /\ \A b \in Todo : ComesNext(b) => b.count <= MaxRows /\ ~Fits(b)
  BY DEF PublishChunk
<1>2. PICK c : c = Chunk
  OBVIOUS
<1>3. /\ objects' = objects \cup {c} /\ built' = built \cup {c} /\ open' = {}
      /\ UNCHANGED <<extracted, stage, kept, cpc, snapshot>>
  BY <1>2 DEF PublishChunk
<1>4. Sorted /\ OpenFits /\ Built
  BY <1>1 DEF CompactionInv, Building
<1>5. open \subseteq snapshot /\ snapshot \subseteq Plan
  BY <1>1 DEF ReadIsBuilt, Planned
<1>6. Filled(c, snapshot) /\ c.batches = open
  BY <1>1, <1>2, <1>4, <1>5, ClosedFileIsFilled
<1>7. Batches(built') = Batches(built) \cup open
  BY <1>3, <1>6 DEF Batches
<1>8. Todo' = Todo
  BY <1>3, <1>7 DEF Todo
<1>9. Sorted'
  BY <1>3, <1>4, <1>7, <1>8 DEF Sorted
<1>10. OpenFits'
  <2>1. Rows({}) = 0
    BY RowsPicked, FS_EmptySet
  <2> QED
    BY <1>3, <2>1, RowsAssumption DEF OpenFits, Gapless
<1>11. Disjoint(built')
  <2>1. \A d \in built : d.batches \subseteq Batches(built)
    BY DEF Batches
  <2>2. \A d \in built : d.batches \cap c.batches = {}
    BY <1>4, <1>6, <2>1 DEF Sorted
  <2> QED
    BY <1>3, <1>4, <2>2 DEF Built, Disjoint
<1>12. Built'
  BY <1>3, <1>4, <1>6, <1>11 DEF Built
<1>13. Building'
  BY <1>9, <1>10, <1>12 DEF Building
<1> QED
  BY <1>3, <1>13, QuietlyWhole DEF CompactionInv

LEMMA WriteKeeps ==
    ASSUME CompactionInv, ReadIsBuilt, WriteCompactionManifest
    PROVE  CompactionInv'
<1>1. /\ cpc = "build" /\ Todo = {} /\ open = {} /\ kept' = built /\ cpc' = "sync"
      /\ UNCHANGED <<extracted, stage, objects, snapshot>>
  BY DEF WriteCompactionManifest
<1>2. Built /\ Closed(snapshot, extracted)
  BY <1>1 DEF CompactionInv, Building
<1>3. Batches(built) = snapshot
  BY <1>1 DEF Todo, ReadIsBuilt
<1>4. Whole(built, extracted, objects)
  BY <1>2, <1>3 DEF Built, Whole
<1>5. Building'
  BY <1>1 DEF Building
<1> QED
  BY <1>1, <1>4, <1>5 DEF CompactionInv

LEMMA SyncKeeps ==
    ASSUME CompactionInv, SyncCompactionManifest \/ SyncFails
    PROVE  CompactionInv'
<1>1. PICK code : EndCompaction(code)
  BY DEF SyncCompactionManifest, SyncFails
<1>2. stage' \in {stage, kept} /\ UNCHANGED <<extracted, objects, kept>>
  BY DEF SyncCompactionManifest, SyncFails, durable
<1>3. Whole(kept, extracted, objects)' /\ Whole(stage, extracted, objects)'
  BY <1>2 DEF CompactionInv
<1> QED
  BY <1>1, <1>3, EndedBuilding DEF CompactionInv

LEMMA EndKeeps ==
    ASSUME CompactionInv, RejectBatch \/ BuildFails \/ KillCompaction
    PROVE  CompactionInv'
<1>1. PICK code : EndCompaction(code)
  BY DEF RejectBatch, BuildFails, KillCompaction
<1>2. objects \subseteq objects' /\ UNCHANGED <<extracted, stage, kept>>
  BY DEF RejectBatch, BuildFails, KillCompaction, durable
<1> QED
  BY <1>1, <1>2, EndedBuilding, QuietlyWhole DEF CompactionInv

\* A step of a loader, or none, leaves the compaction, the run and the stage alone.
LEMMA ElsewhereKeeps ==
    ASSUME CompactionInv, UNCHANGED <<extracted, stage, compactionVars>>
    PROVE  CompactionInv'
<1>1. /\ UNCHANGED <<cpc, snapshot, open, built>>
      /\ UNCHANGED <<extracted, stage, objects, kept>>
  BY DEF compactionVars
<1>2. Building'
  BY <1>1, SameBuilding DEF CompactionInv
<1> QED
  BY <1>1, <1>2, QuietlyWhole DEF CompactionInv

LEMMA LoadersLookOnly ==
    LoaderNext => UNCHANGED <<extracted, stage>>
BY DEF LoaderNext, LoaderStep, StartLoader, SkipBatch, TakeUnit, ReadCounts, InsertMissing,
       Recount, CopyBatch, MergeLoaded, RecordFailure, FinishLoader, StatementFails, ReadFails,
       KillLoader, LateStatement

LEMMA CompactionInvStep ==
    CompactionInv /\ ReadIsBuilt /\ Planned /\ [Next]_vars => CompactionInv'
<1> SUFFICES ASSUME CompactionInv, ReadIsBuilt, Planned, [Next]_vars PROVE CompactionInv'
  OBVIOUS
<1>1. CASE Extend /\ UNCHANGED compactionVars
  BY <1>1, ExtendKeeps
<1>2. CASE StartCompaction
  BY <1>2, StartKeeps
<1>3. CASE CompactionStep
  BY <1>3, TakeKeeps, PublishKeeps, WriteKeeps, SyncKeeps, EndKeeps DEF CompactionStep
<1>4. CASE LoaderNext /\ UNCHANGED compactionVars
  BY <1>4, LoadersLookOnly, ElsewhereKeeps
<1>5. CASE UNCHANGED vars
  BY <1>5, ElsewhereKeeps DEF vars
<1> QED
  BY <1>1, <1>2, <1>3, <1>4, <1>5 DEF Next, CompactionNext

(* A manifest, here or on the stage, always names existing objects that      *)
(* hold each batch of some reading of manifest.jsonl exactly once, chunked   *)
(* by the limit, although processes die between the object, the manifest and *)
(* the stage copy and the run grows between them (compact_run,               *)
(* _write_compaction_manifest).                                              *)
THEOREM ManifestsAlwaysWhole == Spec => []ManifestsAreWhole
<1> QED
  BY CompactionInvInit, CompactionInvStep, ReadIsBuiltInit, ReadIsBuiltStep,
     PlannedInit, PlannedStep, WholeIsEnough, PTL DEF Spec

-----------------------------------------------------------------------------
(* Types *)

\* A file's index counts the files built before it: there are finitely many.
FilesTyped ==
    /\ extracted \subseteq Plan /\ snapshot \subseteq Plan /\ open \subseteq Plan
    /\ \A m \in {stage, kept, objects, built} : m \subseteq Chunks
    /\ cpc \in {"off", "build", "sync"} /\ IsFiniteSet(built)

LoadersTyped ==
    /\ copied \subseteq Plan /\ vouched \subseteq Plan /\ detached \subseteq [does : Writes, to : SUBSET Plan]
    /\ ledger \in [Plan -> {"none", "LOADED", "FAILED"}]
    /\ left \in [Loaders -> SUBSET SUBSET Plan]
    /\ \A f \in {asked, unit, seen, missing} : f \in [Loaders -> SUBSET Plan]

FaultsTyped == faults \in 0..MaxFaults /\ overlapped \in BOOLEAN

LEMMA ChunkTyped ==
    ASSUME FilesTyped, open # {}
    PROVE  Chunk \in Chunks
<1> DEFINE s == (CHOOSE b \in open : TRUE).state
           n == Cardinality({c \in built : c.state = s})
<1>1. (CHOOSE b \in open : TRUE) \in open /\ open \subseteq Plan
  BY DEF FilesTyped
<1>2. s \in {b.state : b \in Plan}
  BY <1>1
<1>3. n \in Nat
  BY FS_Subset, FS_CardinalityType DEF FilesTyped
<1>4. Chunk = [state |-> s, index |-> n, batches |-> open]
  BY DEF Chunk
<1> HIDE DEF s, n
<1> QED
  BY <1>1, <1>2, <1>3, <1>4 DEF Chunks

LEMMA FilesTypedInit == Init => FilesTyped
BY FS_EmptySet DEF Init, CompactionInit, FilesTyped

LEMMA FilesTypedStep == FilesTyped /\ [Next]_vars => FilesTyped'
<1> SUFFICES ASSUME FilesTyped, [Next]_vars PROVE FilesTyped'
  OBVIOUS
<1> USE DEF FilesTyped
<1>1. CASE Extend /\ UNCHANGED compactionVars
  <2>1. PICK i \in DOMAIN Waves : extracted' = extracted \cup Waves[i]
    BY <1>1 DEF Extend
  <2>2. Waves[i] \subseteq Plan
    BY <2>1 DEF Plan
  <2> QED
    BY <1>1, <2>1, <2>2 DEF Extend, compactionVars
<1>2. CASE StartCompaction
  BY <1>2 DEF StartCompaction, durable
<1>3. CASE TakeBatch
  BY <1>3 DEF TakeBatch, Todo, durable
<1>4. CASE PublishChunk
  <2>1. PICK c \in Chunks : c = Chunk
    BY <1>4, ChunkTyped DEF PublishChunk
  <2>2. IsFiniteSet(built \cup {c})
    BY FS_AddElement
  <2> QED
    BY <1>4, <2>1, <2>2 DEF PublishChunk
<1>5. CASE RejectBatch \/ KillCompaction
  BY <1>5, FS_EmptySet DEF RejectBatch, KillCompaction, EndCompaction, durable
<1>6. CASE BuildFails
  <2>1. objects' \subseteq Chunks
    BY <1>6, ChunkTyped DEF BuildFails
  <2> QED
    BY <1>6, <2>1, FS_EmptySet DEF BuildFails, EndCompaction
<1>7. CASE WriteCompactionManifest
  BY <1>7 DEF WriteCompactionManifest
<1>8. CASE SyncCompactionManifest \/ SyncFails
  BY <1>8, FS_EmptySet DEF SyncCompactionManifest, SyncFails, EndCompaction, durable
<1>9. CASE LoaderNext /\ UNCHANGED compactionVars
  BY <1>9, LoadersLookOnly DEF compactionVars
<1>10. CASE UNCHANGED vars
  BY <1>10 DEF vars, compactionVars
<1> QED
  BY <1>1, <1>2, <1>3, <1>4, <1>5, <1>6, <1>7, <1>8, <1>9, <1>10
     DEF Next, CompactionNext, CompactionStep

LEMMA FaultsTypedInit == Init => FaultsTyped
<1> SUFFICES ASSUME Init PROVE FaultsTyped
  OBVIOUS
<1>1. faults = 0
  BY DEF Init
<1>2. overlapped \in BOOLEAN
  BY DEF Init, LoaderInit
<1> QED
  BY <1>1, <1>2, FaultsAssumption DEF FaultsTyped

LEMMA FaultsTypedStep == FaultsTyped /\ [Next]_vars => FaultsTyped'
<1> SUFFICES ASSUME FaultsTyped, [Next]_vars PROVE FaultsTyped'
  OBVIOUS
<1>1. Fault \/ faults' = faults
  BY DEF Next, vars, NoFault, Extend, CompactionNext, CompactionStep, StartCompaction,
         TakeBatch, RejectBatch, PublishChunk, BuildFails, WriteCompactionManifest,
         SyncCompactionManifest, SyncFails, KillCompaction,
         LoaderNext, LoaderStep, StartLoader, SkipBatch, TakeUnit, ReadCounts, InsertMissing,
         Recount, CopyBatch, MergeLoaded, RecordFailure, FinishLoader, StatementFails,
         ReadFails, KillLoader, LateStatement
<1>2. faults' \in 0..MaxFaults
  BY <1>1, FaultsAssumption DEF Fault, FaultsTyped
<1>3. overlapped' = overlapped \/ overlapped' = TRUE
  BY Zenon DEF Next, vars, compactionVars, loaderVars, history, Extend, CompactionNext,
         LoaderNext, LoaderStep, StartLoader, SkipBatch, TakeUnit, ReadCounts, InsertMissing,
         Recount, CopyBatch, MergeLoaded, RecordFailure, FinishLoader, StatementFails,
         ReadFails, KillLoader, LateStatement, EndLoader
<1>4. overlapped' \in BOOLEAN
  BY <1>3, Zenon DEF FaultsTyped
<1> QED
  BY <1>2, <1>4 DEF FaultsTyped

LEMMA LoadersTypedInit == Init => LoadersTyped
BY DEF Init, LoaderInit, LoadersTyped

LEMMA LoadersTypedStep == LoadersTyped /\ FilesTyped /\ [Next]_vars => LoadersTyped'
<1> SUFFICES ASSUME LoadersTyped, FilesTyped, [Next]_vars PROVE LoadersTyped'
  OBVIOUS
<1> USE DEF LoadersTyped
<1>1. CASE UNCHANGED loaderVars
  BY <1>1 DEF loaderVars, warehouse, memory, history
<1>2. \A code : \A l \in Loaders : EndLoader(l, code) =>
        /\ left' \in [Loaders -> SUBSET SUBSET Plan] /\ vouched' \subseteq Plan
        /\ \A f \in {asked', unit', seen', missing'} : f \in [Loaders -> SUBSET Plan]
  BY DEF EndLoader
<1>3. \A bs : /\ Merged(bs, "LOADED") \in [Plan -> {"none", "LOADED", "FAILED"}]
              /\ Merged(bs, "FAILED") \in [Plan -> {"none", "LOADED", "FAILED"}]
  BY DEF Merged
<1>4. Units \in SUBSET SUBSET Plan /\ UNION Units \in SUBSET Plan
  <2>1. \A c \in stage : c.batches \in SUBSET Plan
    BY DEF FilesTyped, Chunks
  <2>2. \A b \in extracted : {b} \in SUBSET Plan
    BY DEF FilesTyped
  <2>3. \A u \in Units : u \in SUBSET Plan
    BY <2>1, <2>2 DEF Units
  <2> QED
    BY <2>3
<1>5. ASSUME NEW l \in Loaders, Detaches(l)
       PROVE  detached' \subseteq [does : Writes, to : SUBSET Plan]
  <2>1. Statement(l).to \in SUBSET Plan
    BY DEF Statement, Pending
  <2>2. Statement(l) \in [does : Writes, to : SUBSET Plan]
    <3>1. Statement(l) = [does |-> lpc[l], to |-> Statement(l).to] /\ lpc[l] \in Writes
      BY <1>5 DEF Statement, Detaches
    <3> QED
      BY <2>1, <3>1
  <2> QED
    BY <1>5, <2>2 DEF Detaches
<1>6. ASSUME NEW l \in Loaders, StartLoader(l) PROVE LoadersTyped'
  BY <1>4, <1>6 DEF StartLoader, warehouse
<1>7. ASSUME NEW l \in Loaders, SkipBatch(l) PROVE LoadersTyped'
  BY <1>7 DEF SkipBatch, warehouse, history
<1>8. ASSUME NEW l \in Loaders, TakeUnit(l) PROVE LoadersTyped'
  <2>1. PICK u \in left[l] :
          /\ left' = [left EXCEPT ![l] = @ \ {u}] /\ unit' = [unit EXCEPT ![l] = u]
          /\ seen' = [seen EXCEPT ![l] = {b \in u : ledger[b] = "LOADED"}]
    BY <1>8 DEF TakeUnit
  <2>2. u \in SUBSET Plan
    OBVIOUS
  <2>3. left' \in [Loaders -> SUBSET SUBSET Plan] /\ unit' \in [Loaders -> SUBSET Plan]
        /\ seen' \in [Loaders -> SUBSET Plan]
    BY <2>1, <2>2
  <2> QED
    BY <1>8, <2>3 DEF TakeUnit, warehouse, history
<1>9. ASSUME NEW l \in Loaders, ReadCounts(l) PROVE LoadersTyped'
  <2>1. Missing(l) \in SUBSET Plan
    BY DEF Missing
  <2> QED
    BY <1>2, <1>9, <2>1 DEF ReadCounts, warehouse, history
<1>10. ASSUME NEW l \in Loaders, InsertMissing(l) \/ Recount(l) PROVE LoadersTyped'
  BY <1>10 DEF InsertMissing, Recount, warehouse, memory, history
<1>11. ASSUME NEW l \in Loaders, CopyBatch(l) PROVE LoadersTyped'
  BY <1>11 DEF CopyBatch, memory, history
<1>12. ASSUME NEW l \in Loaders, MergeLoaded(l) PROVE LoadersTyped'
  BY <1>3, <1>12 DEF MergeLoaded, history
<1>13. ASSUME NEW l \in Loaders, StatementFails(l) PROVE LoadersTyped'
  <2>1. \/ UNCHANGED warehouse
        \/ Executed(Statement(l)) /\ UNCHANGED detached
        \/ Detaches(l) /\ UNCHANGED <<raw, copied, ledger>>
    BY <1>13 DEF StatementFails
  <2>2. UNCHANGED <<memory, history>>
    BY <1>13 DEF StatementFails
  <2>3. Statement(l).to \in SUBSET Plan
    BY DEF Statement, Pending
  <2>4. /\ copied' \subseteq Plan /\ ledger' \in [Plan -> {"none", "LOADED", "FAILED"}]
        /\ detached' \subseteq [does : Writes, to : SUBSET Plan]
    BY <1>3, <1>5, <2>1, <2>3 DEF Executed, warehouse
  <2> QED
    BY <2>2, <2>4 DEF memory, history
<1>14. ASSUME NEW l \in Loaders, RecordFailure(l) PROVE LoadersTyped'
  <2>1. /\ copied' \subseteq Plan /\ ledger' \in [Plan -> {"none", "LOADED", "FAILED"}]
        /\ detached' \subseteq [does : Writes, to : SUBSET Plan]
    BY <1>3, <1>14, <1>5 DEF RecordFailure
  <2> QED
    BY <1>2, <1>14, <2>1 DEF RecordFailure
<1>15. ASSUME NEW l \in Loaders, ReadFails(l) \/ FinishLoader(l) PROVE LoadersTyped'
  BY <1>2, <1>15 DEF ReadFails, FinishLoader, warehouse
<1>16. ASSUME NEW l \in Loaders, KillLoader(l) PROVE LoadersTyped'
  <2>1. detached' \subseteq [does : Writes, to : SUBSET Plan]
    BY <1>16, <1>5 DEF KillLoader
  <2> QED
    BY <1>2, <1>16, <2>1 DEF KillLoader
<1>17. CASE LateStatement
  <2>1. PICK s \in detached : Executed(s) /\ detached' = detached \ {s}
    BY <1>17 DEF LateStatement
  <2>2. copied' \subseteq Plan /\ ledger' \in [Plan -> {"none", "LOADED", "FAILED"}]
    BY <1>3, <2>1 DEF Executed
  <2> QED
    BY <1>17, <2>1, <2>2 DEF LateStatement, memory, history
<1>18. CASE LoaderNext
  BY <1>6, <1>7, <1>8, <1>9, <1>10, <1>11, <1>12, <1>13, <1>14, <1>15, <1>16, <1>17, <1>18
     DEF LoaderNext, LoaderStep
<1> QED
  BY <1>1, <1>18 DEF Next, vars

\* Every variable has its type: the invariants above, and the loaders' program counters
\* and row counts of IngestionProofs.
THEOREM IngestionTypeCorrect == Spec => []TypeOK
<1>1. FilesTyped /\ LoadersTyped /\ FaultsTyped /\ Invariant => TypeOK
  BY DEF FilesTyped, LoadersTyped, FaultsTyped, Invariant, Memory, TypeOK
<1> QED
  BY <1>1, FilesTypedInit, FilesTypedStep, LoadersTypedInit, LoadersTypedStep,
     FaultsTypedInit, FaultsTypedStep, InvariantAlways, PTL DEF Spec

-----------------------------------------------------------------------------
(* Building again: the files a reading is cut into, and their numbers, are   *)
(* determined by the reading                                                 *)

Precedes(d, c) ==
    d.state = c.state /\ \A x \in d.batches, y \in c.batches : Before(x, y)

\* The files of a state are numbered in the order of their batches.
Numbered(m) == \A c \in m : c.index = Cardinality({d \in m : Precedes(d, c)})

\* A process that reads what the manifest covers has built files of the manifest, and
\* has part of one in hand.
Again ==
    cpc = "build" /\ Batches(kept) = snapshot =>
        /\ built \subseteq kept
        /\ open # {} => \E k \in kept : open \subseteq k.batches

Numbering ==
    /\ Numbered(kept)
    /\ cpc = "build" => Numbered(built)
    /\ Again

LEMMA ChunksFilled ==
    ASSUME FilesTyped
    PROVE  \A c \in kept \cup built : c.batches # {} /\ c.batches \subseteq Plan
BY DEF FilesTyped, Chunks

\* The number the loop gives a file.
LEMMA ChunkIs ==
    /\ Chunk.batches = open
    /\ Chunk.index = Cardinality({c \in built : c.state = Chunk.state})
    /\ Chunk = [state |-> Chunk.state, index |-> Chunk.index, batches |-> Chunk.batches]
<1> DEFINE s == (CHOOSE b \in open : TRUE).state
<1>1. Chunk = [state |-> s, index |-> Cardinality({c \in built : c.state = s}), batches |-> open]
  BY DEF Chunk
<1> HIDE DEF s
<1> QED
  BY <1>1

\* As the loop cuts them, the files built so far are numbered.
LEMMA NextIsNumbered ==
    ASSUME Sorted, Numbered(built), FilesTyped, Batches(built) \subseteq Plan,
           NEW c, c.batches = open, open # {},
           c.index = Cardinality({d \in built : d.state = c.state})
    PROVE  Numbered(built \cup {c})
<1>1. \A d \in built : /\ d.batches # {} /\ d.batches \subseteq Batches(built)
                       /\ \A x \in d.batches, y \in open : Before(x, y)
  <2>1. \A d \in built : d.batches \subseteq Batches(built)
    BY DEF Batches
  <2> QED
    BY <2>1, ChunksFilled DEF Sorted
<1>2. open \subseteq Plan
  BY DEF FilesTyped
<1>3. ~ Precedes(c, c)
  <2> PICK x \in open : TRUE
    OBVIOUS
  <2>1. ~ Before(x, x)
    BY <1>2, BeforeIsStrict
  <2> QED
    BY <2>1 DEF Precedes
<1>4. \A d \in built : ~ Precedes(c, d)
  <2> TAKE d \in built
  <2>1. PICK x \in d.batches, y \in open : Before(x, y) /\ x \in Plan /\ y \in Plan
    BY <1>1, <1>2
  <2>2. ~ Before(y, x)
    BY <2>1, BeforeIsStrict
  <2> QED
    BY <2>1, <2>2 DEF Precedes
<1>5. {d \in built \cup {c} : Precedes(d, c)} = {d \in built : d.state = c.state}
  BY <1>1, <1>3 DEF Precedes
<1>6. \A e \in built : {d \in built \cup {c} : Precedes(d, e)} = {d \in built : Precedes(d, e)}
  BY <1>4
<1>7. \A e \in built : e.index = Cardinality({d \in built : Precedes(d, e)})
  BY DEF Numbered
<1>8. \A e \in built : e.index = Cardinality({d \in built \cup {c} : Precedes(d, e)})
  BY <1>6, <1>7
<1>9. c.index = Cardinality({d \in built \cup {c} : Precedes(d, c)})
  BY <1>5
<1> QED
  BY <1>8, <1>9 DEF Numbered

\* The batch the loop takes is of the same file of the manifest as those in hand.
LEMMA SameFileTaken ==
    ASSUME Sorted, OpenFits, FilesTyped, built \subseteq kept, Disjoint(kept),
           Batches(kept) = snapshot, open \subseteq snapshot, open # {},
           NEW k \in kept, open \subseteq k.batches, Filled(k, snapshot),
           NEW b \in Todo, ComesNext(b), Fits(b)
    PROVE  b \in k.batches
<1> SUFFICES ASSUME b \notin k.batches PROVE FALSE
  OBVIOUS
<1>1. PICK e \in open : TRUE
  OBVIOUS
<1>2. /\ b \in snapshot /\ b \in Plan /\ e \in Plan /\ k.batches \subseteq snapshot
      /\ snapshot \subseteq Plan
  BY ChunksFilled DEF Todo, FilesTyped, Batches
<1>3. Before(e, b) /\ e.state = b.state /\ e.state = k.state
  BY <1>1 DEF Sorted, Fits, Filled
<1>4. Earlier(e, b)
  <2>1. e.state \in Nat /\ b.state \in Nat
    BY <1>2, PlanTyped
  <2> QED
    BY <1>3, <2>1 DEF Before
<1>5. \A y \in k.batches \ open : y \in Todo
  <2> SUFFICES ASSUME NEW y \in k.batches \ open, y \in Batches(built) PROVE FALSE
    BY <1>2 DEF Todo
  <2>1. PICK c \in built : y \in c.batches
    BY DEF Batches
  <2>2. c = k
    BY <2>1 DEF Disjoint
  <2>3. k.batches \subseteq Batches(built)
    BY <2>1, <2>2 DEF Batches
  <2> QED
    BY <1>1, <2>3 DEF Sorted
<1>6. k.batches = open
  <2> SUFFICES ASSUME NEW y \in k.batches \ open PROVE FALSE
    OBVIOUS
  <2>1. y \in Todo /\ y \in Plan /\ y # b /\ ~ Before(y, b)
    BY <1>2, <1>5 DEF ComesNext
  <2>2. Before(b, y) /\ y.state = b.state
    BY <1>2, <1>3, <2>1, BeforeIsTotal DEF Filled
  <2>3. Earlier(b, y)
    <3>1. y.state \in Nat /\ b.state \in Nat
      BY <1>2, <2>1, PlanTyped
    <3> QED
      BY <2>2, <3>1 DEF Before
  <2> QED
    BY <1>2, <1>4, <2>3 DEF Filled, Gapless
<1>7. Follows(b, k.batches, snapshot)
  <2>1. ASSUME NEW c \in snapshot \ open, NEW f \in open, Earlier(f, c), Earlier(c, b)
        PROVE  FALSE
    <3>1. c \in Plan /\ f \in Plan /\ Before(f, c) /\ Before(c, b)
      BY <1>2, <2>1 DEF Before
    <3>2. c \notin Todo
      BY <3>1 DEF ComesNext
    <3>3. Before(c, f)
      BY <2>1, <3>2 DEF Todo, Sorted
    <3> QED
      BY <3>1, <3>3, BeforeIsStrict
  <2> QED
    BY <1>2, <1>4, <1>6, <2>1 DEF Follows
<1>8. Rows(open) + b.count > MaxRows
  BY <1>2, <1>6, <1>7 DEF Filled, Full
<1>9. Rows(open) + b.count <= MaxRows
  BY <1>1 DEF Fits
<1>10. Rows(open) \in Nat /\ b.count \in Nat /\ MaxRows \in Nat
  <2>1. open \in SUBSET Plan
    BY <1>2
  <2> QED
    BY <1>2, <2>1, RowsTyped, PlanTyped, RowsAssumption
<1> QED
  BY <1>8, <1>9, <1>10

\* The file the loop closes is that file of the manifest.
LEMMA SameFileClosed ==
    ASSUME Sorted, OpenFits, FilesTyped, built \subseteq kept, Disjoint(kept), Numbered(kept),
           Batches(kept) = snapshot, open \subseteq snapshot, open # {},
           NEW k \in kept, open \subseteq k.batches, Filled(k, snapshot),
           \A b \in Todo : ComesNext(b) => b.count <= MaxRows /\ ~Fits(b)
    PROVE  Chunk = k
<1>1. /\ k.batches \subseteq snapshot /\ snapshot \subseteq Plan
      /\ \A b \in k.batches : b.state = k.state
  BY DEF FilesTyped, Batches, Filled
<1>2. \A y \in k.batches \ open : y \in Todo
  <2> SUFFICES ASSUME NEW y \in k.batches \ open, y \in Batches(built) PROVE FALSE
    BY <1>1 DEF Todo
  <2>1. PICK c \in built : y \in c.batches
    BY DEF Batches
  <2>2. c = k
    BY <2>1 DEF Disjoint
  <2>3. k.batches \subseteq Batches(built)
    BY <2>1, <2>2 DEF Batches
  <2> QED
    BY <2>3 DEF Sorted
<1>3. k.batches = open
  <2> SUFFICES ASSUME NEW y \in k.batches \ open PROVE FALSE
    OBVIOUS
  <2>1. y \in Todo /\ Todo \in SUBSET Plan
    BY <1>1, <1>2 DEF Todo
  <2>2. PICK b \in Todo : \A c \in Todo : ~ Before(c, b)
    BY <2>1, FirstOf
  <2>3. ~ Fits(b) /\ b \in snapshot /\ b \notin open
    BY <2>2 DEF ComesNext, Todo
  <2>4. PICK e \in open : ~ (e.state = b.state /\ Rows(open) + b.count <= MaxRows)
    BY <2>3 DEF Fits
  <2>5. b \in Plan /\ e \in Plan /\ y \in Plan /\ Before(e, b) /\ e.state = y.state
    BY <1>1, <2>3 DEF Sorted
  <2>6. b = y \/ Before(b, y)
    BY <2>1, <2>2, <2>5, BeforeIsTotal
  <2>7. e.state = b.state
    <3>1. e.state \in Nat /\ b.state \in Nat /\ y.state \in Nat
      BY <2>5, PlanTyped
    <3> QED
      BY <2>5, <2>6, <3>1 DEF Before, Earlier
  <2>8. b \in k.batches
    <3> SUFFICES ASSUME b # y PROVE b \in k.batches
      OBVIOUS
    <3>1. Earlier(e, b) /\ Earlier(b, y)
      <4>1. e.state \in Nat /\ b.state \in Nat /\ y.state \in Nat
        BY <2>5, PlanTyped
      <4> QED
        BY <2>5, <2>6, <2>7, <4>1 DEF Before, Earlier
    <3> QED
      BY <2>3, <3>1 DEF Filled, Gapless
  <2>9. open \in SUBSET Plan /\ k.batches \in SUBSET Plan /\ open \cup {b} \in SUBSET k.batches
        /\ b \in Plan \ open
    BY <1>1, <2>3, <2>8
  <2>10. Rows(open \cup {b}) = Rows(open) + b.count
    BY <2>9, RowsAdded
  <2>11. Rows(open \cup {b}) <= Rows(k.batches)
    BY <2>9, RowsMonotone
  <2>12. Rows(open) \in Nat /\ Rows(k.batches) \in Nat /\ b.count \in Nat /\ MaxRows \in Nat
    BY <2>5, <2>9, RowsTyped, PlanTyped, RowsAssumption
  <2>13. Rows(k.batches) <= MaxRows
    BY DEF Filled
  <2>14. Rows(open) + b.count <= Rows(k.batches)
    BY <2>10, <2>11
  <2>15. Rows(open) + b.count <= MaxRows
    BY <2>12, <2>13, <2>14
  <2> QED
    BY <2>4, <2>7, <2>15
<1>4. Chunk.state = k.state
  <2>1. \A b \in open : b.state = Chunk.state
    BY ClosedFileIsFilled, ChunkIs, <1>1 DEF Filled
  <2> QED
    BY <1>1, <1>3, <2>1
<1>5. {d \in built : d.state = k.state} = {d \in kept : Precedes(d, k)}
  <2>1. ASSUME NEW d \in built, d.state = k.state PROVE Precedes(d, k)
    <3>1. d.batches \subseteq Batches(built)
      BY DEF Batches
    <3> QED
      BY <1>3, <2>1, <3>1 DEF Sorted, Precedes
  <2>2. ASSUME NEW d \in kept, Precedes(d, k) PROVE d \in built
    <3>1. PICK x \in d.batches, y \in open : x \in Plan /\ y \in Plan /\ Before(x, y)
      BY <1>1, <1>3, <2>2, ChunksFilled DEF Precedes
    <3>2. x \in snapshot
      BY DEF Batches
    <3>3. x \notin Todo
      BY <3>1, BeforeIsStrict DEF Sorted
    <3>4. x \notin open
      <4> SUFFICES ASSUME x \in k.batches PROVE FALSE
        BY <1>3
      <4>1. d = k
        BY DEF Disjoint
      <4>2. Before(x, x)
        BY <2>2, <4>1 DEF Precedes
      <4> QED
        BY <3>1, <4>2, BeforeIsStrict
    <3>5. PICK c \in built : x \in c.batches
      BY <3>2, <3>3, <3>4 DEF Todo, Batches
    <3> QED
      BY <3>5 DEF Disjoint
  <2> QED
    BY <2>1, <2>2 DEF Precedes
<1>6. Chunk.index = k.index
  BY <1>4, <1>5, ChunkIs DEF Numbered
<1>7. k = [state |-> k.state, index |-> k.index, batches |-> k.batches]
  BY DEF FilesTyped, Chunks
<1>8. Chunk = [state |-> Chunk.state, index |-> Chunk.index, batches |-> open]
  BY ChunkIs, Zenon
<1> QED
  BY <1>3, <1>4, <1>6, <1>7, <1>8

LEMMA ClosedAgain ==
    ASSUME Numbering, CompactionInv, ReadIsBuilt, FilesTyped,
           cpc = "build", Batches(kept) = snapshot, open # {},
           \A b \in Todo : ComesNext(b) => b.count <= MaxRows /\ ~Fits(b)
    PROVE  Chunk \in kept /\ Chunk \in objects
<1>1. Sorted /\ OpenFits
  BY DEF CompactionInv, Building
<1>2. Numbered(kept) /\ built \subseteq kept
  BY DEF Numbering, Again
<1>3. Disjoint(kept) /\ kept \subseteq objects /\ \A k \in kept : Filled(k, snapshot)
  BY DEF CompactionInv, Whole
<1>4. open \subseteq snapshot
  BY DEF ReadIsBuilt
<1>5. PICK k \in kept : open \subseteq k.batches
  BY DEF Numbering, Again
<1>6. Chunk = k
  BY <1>1, <1>2, <1>3, <1>4, <1>5, SameFileClosed
<1> QED
  BY <1>3, <1>6

LEMMA NumberingInit == Init => Numbering
BY DEF Init, CompactionInit, Numbering, Numbered, Again

LEMMA NumberingStep ==
    Numbering /\ CompactionInv /\ ReadIsBuilt /\ FilesTyped /\ [Next]_vars => Numbering'
<1> SUFFICES ASSUME Numbering, CompactionInv, ReadIsBuilt, FilesTyped, [Next]_vars
             PROVE  Numbering'
  OBVIOUS
<1>1. CASE UNCHANGED <<kept, cpc, snapshot, open, built>>
  BY <1>1 DEF Numbering, Again
<1>2. CASE StartCompaction
  <2>1. kept' = kept /\ open' = {} /\ built' = {}
    BY <1>2 DEF StartCompaction, ReadIsBuilt, durable
  <2> QED
    BY <2>1 DEF Numbering, Numbered, Again
<1>3. CASE TakeBatch
  <2>1. PICK b \in Todo : ComesNext(b) /\ Fits(b) /\ open' = open \cup {b}
    BY <1>3 DEF TakeBatch
  <2>2. cpc = "build" /\ UNCHANGED <<kept, cpc, snapshot, built>>
    BY <1>3 DEF TakeBatch, durable
  <2>3. Sorted /\ OpenFits
    BY <2>2 DEF CompactionInv, Building
  <2>4. ASSUME Batches(kept) = snapshot PROVE \E k \in kept : open' \subseteq k.batches
    <3>1. built \subseteq kept /\ (open # {} => \E k \in kept : open \subseteq k.batches)
      BY <2>2, <2>4 DEF Numbering, Again
    <3>2. Disjoint(kept) /\ \A k \in kept : Filled(k, snapshot)
      BY <2>4 DEF CompactionInv, Whole
    <3>3. CASE open = {}
      <4>1. PICK k \in kept : b \in k.batches
        BY <2>4 DEF Todo, Batches
      <4> QED
        BY <2>1, <3>3, <4>1
    <3>4. CASE open # {}
      <4>1. PICK k \in kept : open \subseteq k.batches
        BY <3>1, <3>4
      <4>2. open \subseteq snapshot
        BY <2>2 DEF ReadIsBuilt
      <4>3. b \in k.batches
        BY <2>1, <2>3, <2>4, <3>1, <3>2, <3>4, <4>1, <4>2, SameFileTaken
      <4> QED
        BY <2>1, <4>1, <4>3
    <3> QED
      BY <3>3, <3>4
  <2> QED
    BY <2>2, <2>4 DEF Numbering, Again
<1>4. CASE PublishChunk
  <2>1. PICK c : c = Chunk
    OBVIOUS
  <2>2. /\ cpc = "build" /\ open # {} /\ built' = built \cup {c} /\ open' = {}
        /\ \A b \in Todo : ComesNext(b) => b.count <= MaxRows /\ ~Fits(b)
        /\ UNCHANGED <<kept, cpc, snapshot>>
    BY <1>4, <2>1 DEF PublishChunk
  <2>3. Sorted /\ Numbered(built) /\ Batches(built) \subseteq Plan
    BY <2>2 DEF CompactionInv, Building, Numbering, ReadIsBuilt, FilesTyped
  <2>4. c.batches = open /\ c.index = Cardinality({d \in built : d.state = c.state})
    BY <2>1, ChunkIs
  <2>5. Numbered(built \cup {c})
    BY <2>2, <2>3, <2>4, NextIsNumbered
  <2>6. Numbered(built')
    BY <2>2, <2>5
  <2>7. Batches(kept) = snapshot => c \in kept
    BY <2>1, <2>2, ClosedAgain
  <2> QED
    BY <2>2, <2>6, <2>7 DEF Numbering, Again
<1>5. CASE RejectBatch \/ BuildFails \/ KillCompaction \/ SyncCompactionManifest \/ SyncFails
  <2>1. kept' = kept /\ cpc' = "off"
    BY <1>5 DEF RejectBatch, BuildFails, KillCompaction, SyncCompactionManifest, SyncFails,
                EndCompaction, durable
  <2> QED
    BY <2>1 DEF Numbering, Again
<1>6. CASE WriteCompactionManifest
  <2>1. kept' = built /\ cpc = "build" /\ cpc' = "sync"
    BY <1>6 DEF WriteCompactionManifest
  <2> QED
    BY <2>1 DEF Numbering, Again
<1> QED
  BY <1>1, <1>2, <1>3, <1>4, <1>5, <1>6
     DEF Next, CompactionNext, CompactionStep, compactionVars, vars

(* Building again what the manifest already covers, because one HEAD request *)
(* failed, finds every object by its content-addressed name and stores       *)
(* nothing new (publish_compacted_batch, Readme.md:345).                     *)
THEOREM RebuildAlwaysAddsNothing == Spec => RebuildAddsNothing
<1>1. Numbering /\ CompactionInv /\ ReadIsBuilt /\ FilesTyped /\ [Next]_vars
        => [cpc = "build" /\ kept # {} /\ Batches(kept) = snapshot
              => objects' = objects]_compactionVars
  <2> SUFFICES ASSUME Numbering, CompactionInv, ReadIsBuilt, FilesTyped, [Next]_vars,
                      cpc = "build", Batches(kept) = snapshot
               PROVE  objects' = objects
    OBVIOUS
  <2>1. CASE PublishChunk \/ BuildFails
    <3>1. \/ objects' = objects
          \/ /\ open # {} /\ objects' = objects \cup {Chunk}
             /\ \A b \in Todo : ComesNext(b) => b.count <= MaxRows /\ ~Fits(b)
      BY <2>1 DEF PublishChunk, BuildFails
    <3> QED
      BY <3>1, ClosedAgain
  <2>2. CASE ~ (PublishChunk \/ BuildFails)
    BY <2>2 DEF Next, vars, compactionVars, CompactionNext, CompactionStep, StartCompaction,
                TakeBatch, RejectBatch, WriteCompactionManifest, SyncCompactionManifest,
                SyncFails, KillCompaction, durable
  <2> QED
    BY <2>1, <2>2
<1> QED
  BY <1>1, NumberingInit, NumberingStep, CompactionInvInit, CompactionInvStep,
     ReadIsBuiltInit, ReadIsBuiltStep, PlannedInit, PlannedStep, FilesTypedInit,
     FilesTypedStep, PTL DEF Spec, RebuildAddsNothing

=============================================================================
