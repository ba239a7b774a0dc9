-------------------------- MODULE RingIndexProofs --------------------------
(***************************************************************************)
(* What the index arithmetic of RingIndex guarantees, for every capacity   *)
(* and every word the capacity divides, and what every queue needs to be   *)
(* read as a sequence: the indices between the consumer's and the          *)
(* producer's, their slots, and how the sequence grows and shrinks.        *)
(***************************************************************************)
EXTENDS RingIndex, Sequences, SequenceTheorems, TLAPS

\* The index word holds at least two laps, so a difference of Capacity is
\* never mistaken for a difference of 0 (the `producer - consumer == Capacity'
\* test of every queue).
LEMMA WordFacts ==
  /\ WordSize \in Nat
  /\ WordSize >= Capacity + Capacity
  /\ Capacity \in Nat
  /\ Capacity >= 2
<1>1. Capacity \in Nat /\ Capacity >= 2
  BY CapacityAssumption
<1>2. Laps \in Nat /\ Laps >= 2
  BY LapsAssumption
<1>3. Laps * Capacity \in Nat
  BY <1>1, <1>2
<1>4. Laps * Capacity >= 2 * Capacity
  BY <1>1, <1>2, SMTT(30)
<1>. QED
  BY <1>1, <1>3, <1>4 DEF WordSize

\* Unsigned subtraction stays in the word and is 0 exactly on equal operands.
LEMMA SubFacts ==
  ASSUME NEW a \in Word, NEW b \in Word
  PROVE  /\ Sub(a, b) \in Word
         /\ (Sub(a, b) = 0) <=> (a = b)
         /\ Sub(a, a) = 0
BY WordFacts DEF Word, Sub

\* Advancing the index one measures from.
LEMMA SubIncLeft ==
  ASSUME NEW a \in Word, NEW b \in Word, Sub(a, b) < WordSize - 1
  PROVE  /\ Inc(a) \in Word
         /\ Sub(Inc(a), b) = Sub(a, b) + 1
BY WordFacts DEF Word, Sub, Inc

\* Advancing the index one measures to.
LEMMA SubIncRight ==
  ASSUME NEW a \in Word, NEW b \in Word, a # b
  PROVE  /\ Inc(b) \in Word
         /\ Sub(a, Inc(b)) = Sub(a, b) - 1
BY WordFacts DEF Word, Sub, Inc

\* Two indices as far behind a third are the same.
LEMMA SubInjective ==
  ASSUME NEW a \in Word, NEW b \in Word, NEW c \in Word, Sub(a, b) = Sub(a, c)
  PROVE  b = c
BY WordFacts DEF Word, Sub

\* Between two indices behind a third, the difference of their distances.
LEMMA SubDifference ==
  ASSUME NEW a \in Word, NEW b \in Word, NEW c \in Word, Sub(a, b) <= Sub(a, c)
  PROVE  Sub(b, c) = Sub(a, c) - Sub(a, b)
BY WordFacts DEF Word, Sub

\* An index between an older and a newer one is between them as seen from a third
\* one ahead of both.
LEMMA SubBetween ==
  ASSUME NEW a \in Word, NEW old \in Word, NEW new \in Word, NEW x \in Word,
         Sub(a, new) <= Sub(a, old), Sub(x, old) <= Sub(new, old)
  PROVE  Sub(a, new) <= Sub(a, x) /\ Sub(a, x) <= Sub(a, old)
BY WordFacts DEF Word, Sub

\* The mask takes every index to a slot.
LEMMA SlotInRange ==
  ASSUME NEW x \in Word
  PROVE  Slot(x) \in SlotIds
BY WordFacts DEF Word, Slot, SlotIds

\* No multiple of n lies strictly between 0 and n.
LEMMA NoMultipleBetween ==
  ASSUME NEW n \in Nat, NEW k \in Int, 0 < n * k, n * k < n
  PROVE  FALSE
<1>1. CASE k <= 0
  <2>1. n * k <= 0
    BY <1>1
  <2>. QED
    BY <2>1
<1>2. CASE k >= 1
  <2>1. n * k >= n
    BY <1>2
  <2>. QED
    BY <2>1
<1>. QED
  BY <1>1, <1>2

\* An index is its slot plus a whole number of laps.
LEMMA Division ==
  ASSUME NEW x \in Word
  PROVE  /\ x \div Capacity \in Int
         /\ x = Capacity * (x \div Capacity) + Slot(x)
BY WordFacts DEF Word, Slot

\* Different indices less than a lap apart have different slots: this is where
\* the capacity must divide the size of the word, as a power of two does.
LEMMA SlotsDistinct ==
  ASSUME NEW a \in Word, NEW b \in Word, a # b, Sub(a, b) < Capacity
  PROVE  Slot(a) # Slot(b)
<1>. DEFINE qa == a \div Capacity
            qb == b \div Capacity
<1>1. Capacity \in Nat /\ Laps \in Int /\ a \in Int /\ b \in Int
  BY WordFacts, LapsAssumption DEF Word
<1>2. qa \in Int /\ qb \in Int /\ Slot(a) \in Int /\ Slot(b) \in Int
  BY Division, SlotInRange DEF SlotIds
<1>3. a = Capacity * qa + Slot(a) /\ b = Capacity * qb + Slot(b)
  BY Division
<1>4. 0 < Sub(a, b)
  BY SubFacts DEF Word
<1>5. SUFFICES ASSUME Slot(a) = Slot(b) PROVE FALSE
  OBVIOUS
<1>. HIDE DEF qa, qb
<1>6. CASE b <= a
  <2>1. Sub(a, b) = Capacity * (qa - qb)
    BY <1>1, <1>2, <1>3, <1>5, <1>6 DEF Sub
  <2>. QED
    BY <2>1, <1>1, <1>2, <1>4, NoMultipleBetween
<1>7. CASE a < b
  <2>1. WordSize = Capacity * Laps
    BY <1>1 DEF WordSize
  <2>2. Sub(a, b) = Capacity * (qa + Laps - qb)
    BY <2>1, <1>1, <1>2, <1>3, <1>5, <1>7 DEF Sub
  <2>. QED
    BY <2>2, <1>1, <1>2, <1>4, NoMultipleBetween
<1>. QED
  BY <1>1, <1>6, <1>7

-----------------------------------------------------------------------------
(* The indices between the consumer's and the producer's *)

\* The indices of the values in a ring: behind the producer's index p, and not
\* behind the consumer's index c.
Between(p, c) == {x \in Word : Sub(p, x) \in 1 .. Sub(p, c)}

\* The difference of two indices is a number below WordSize.
LEMMA SubRange ==
  ASSUME NEW a \in Word, NEW b \in Word
  PROVE  Sub(a, b) \in 0 .. WordSize - 1 /\ Sub(a, b) \in Nat
BY SubFacts, WordFacts DEF Word

\* Of the indices in a ring, and the next one of the producer if the ring is not
\* full, no two have the same slot.
LEMMA BetweenApart ==
  ASSUME NEW p \in Word, NEW c \in Word, Sub(p, c) <= Capacity,
         NEW x \in Between(p, c), NEW y \in Word, x # y,
         y \in Between(p, c) \/ (y = p /\ Sub(p, c) < Capacity)
  PROVE  Slot(x) # Slot(y)
<1>1. Sub(p, x) \in 1 .. Sub(p, c) /\ x \in Word
  BY DEF Between
<1>2. Sub(p, p) = 0 /\ Sub(p, y) \in Nat /\ Sub(p, c) \in Nat
  BY SubFacts, SubRange
<1>3. Sub(p, y) - Sub(p, x) < Capacity /\ Sub(p, x) - Sub(p, y) < Capacity
  BY <1>1, <1>2, WordFacts DEF Between
<1>4. CASE Sub(p, x) <= Sub(p, y)
  <2>1. Sub(x, y) = Sub(p, y) - Sub(p, x)
    BY <1>1, <1>4, SubDifference
  <2>. QED
    BY <2>1, <1>1, <1>3, SlotsDistinct
<1>5. CASE Sub(p, y) <= Sub(p, x)
  <2>1. Sub(y, x) = Sub(p, x) - Sub(p, y)
    BY <1>1, <1>5, SubDifference
  <2>. QED
    BY <2>1, <1>1, <1>3, SlotsDistinct
<1>. QED
  BY <1>1, <1>2, <1>4, <1>5

\* A push that is published adds the producer's old index.
LEMMA BetweenPush ==
  ASSUME NEW p \in Word, NEW c \in Word, Sub(p, c) < Capacity
  PROVE  /\ Inc(p) \in Word
         /\ Sub(Inc(p), c) = Sub(p, c) + 1
         /\ Between(Inc(p), c) = Between(p, c) \cup {p}
         /\ p \notin Between(p, c)
<1>1. Sub(p, c) \in Nat /\ Sub(p, p) = 0
  BY SubRange, SubFacts
<1>2. Inc(p) \in Word /\ Sub(Inc(p), c) = Sub(p, c) + 1
  BY <1>1, SubIncLeft, WordFacts
<1>3. ASSUME NEW x \in Word
      PROVE  Sub(Inc(p), x) \in 1 .. Sub(p, c) + 1
               <=> Sub(p, x) \in 1 .. Sub(p, c) \/ x = p
  BY <1>1, WordFacts DEF Sub, Inc, Word
<1>. QED
  BY <1>1, <1>2, <1>3 DEF Between

\* A pop that is published takes the consumer's old index away.
LEMMA BetweenPop ==
  ASSUME NEW p \in Word, NEW c \in Word, p # c
  PROVE  /\ Inc(c) \in Word
         /\ Sub(p, c) \in Nat \ {0}
         /\ Sub(p, Inc(c)) = Sub(p, c) - 1
         /\ Between(p, Inc(c)) = Between(p, c) \ {c}
         /\ c \in Between(p, c)
<1>1. Inc(c) \in Word /\ Sub(p, Inc(c)) = Sub(p, c) - 1
  BY SubIncRight
<1>2. Sub(p, c) \in Nat \ {0}
  BY SubRange, SubFacts
<1>3. \A x \in Word : Sub(p, x) \in Nat /\ (Sub(p, x) = Sub(p, c) <=> x = c)
  BY SubRange, SubInjective
<1>. QED
  BY <1>1, <1>2, <1>3 DEF Between

\* The k-th index from the consumer's on is k closer to the producer's, and the
\* last is the producer's.
LEMMA AheadFacts ==
  ASSUME NEW p \in Word, NEW c \in Word, NEW k \in 0 .. Sub(p, c)
  PROVE  /\ Ahead(c, k) \in Word
         /\ Sub(p, Ahead(c, k)) = Sub(p, c) - k
         /\ k < Sub(p, c) => Ahead(c, k) \in Between(p, c)
         /\ (Ahead(c, k) = c) <=> (k = 0)
         /\ (Ahead(c, k) = p) <=> (k = Sub(p, c))
<1>1. Ahead(c, k) \in Word /\ Sub(p, Ahead(c, k)) = Sub(p, c) - k
  BY WordFacts DEF Ahead, Sub, Word
<1>2. k < Sub(p, c) => Ahead(c, k) \in Between(p, c)
  BY <1>1, SubRange DEF Between
<1>3. (Ahead(c, k) = c) <=> (k = 0)
  <2>1. (Ahead(c, k) = c) <=> (Sub(p, Ahead(c, k)) = Sub(p, c))
    BY <1>1, SubInjective
  <2>2. Sub(p, c) \in Nat
    BY SubRange
  <2>. QED
    BY <2>1, <2>2, <1>1
<1>4. (Ahead(c, k) = p) <=> (k = Sub(p, c))
  <2>1. (Ahead(c, k) = p) <=> (Sub(p, Ahead(c, k)) = 0)
    BY <1>1, SubFacts
  <2>2. Sub(p, c) \in Nat
    BY SubRange
  <2>. QED
    BY <2>1, <2>2, <1>1
<1>. QED
  BY <1>1, <1>2, <1>3, <1>4

\* Counting from the next index is counting one further.
LEMMA AheadInc ==
  ASSUME NEW c \in Word, NEW k \in Nat, k < WordSize - 1
  PROVE  Ahead(Inc(c), k) = Ahead(c, k + 1)
BY WordFacts DEF Ahead, Inc, Word

-----------------------------------------------------------------------------
(* Sequences given element by element *)

\* A function on 1 .. n is a sequence of length n.
LEMMA Sequence ==
  ASSUME NEW V, NEW n \in Nat, NEW s \in [1 .. n -> V]
  PROVE  /\ s \in Seq(V)
         /\ Len(s) = n
         /\ n = 0 <=> s = << >>
<1>1. s \in Seq(V)
  BY SeqDef
<1>2. Len(s) = n
  BY <1>1, LenProperties
<1>. QED
  BY <1>1, <1>2, EmptySeq

\* One element more, and the others as they were: an Append.
LEMMA Appended ==
  ASSUME NEW V, NEW n \in Nat, NEW s \in [1 .. n -> V], NEW t \in [1 .. n + 1 -> V],
         \A k \in 1 .. n : t[k] = s[k]
  PROVE  t = Append(s, t[n + 1])
<1>1. /\ s \in Seq(V) /\ Len(s) = n
      /\ t \in Seq(V) /\ Len(t) = n + 1
      /\ t[n + 1] \in V
  BY Sequence
<1>2. /\ Append(s, t[n + 1]) \in Seq(V)
      /\ Len(Append(s, t[n + 1])) = n + 1
      /\ \A k \in 1 .. n : Append(s, t[n + 1])[k] = s[k]
      /\ Append(s, t[n + 1])[n + 1] = t[n + 1]
  BY <1>1, AppendProperties
<1>3. \A k \in 1 .. n + 1 : k \in 1 .. n \/ k = n + 1
  OBVIOUS
<1>. QED
  BY <1>1, <1>2, <1>3, SeqEqual

\* Every element one place nearer, and the first one gone: the Tail.
LEMMA TailOf ==
  ASSUME NEW V, NEW n \in Nat \ {0}, NEW s \in [1 .. n -> V],
         NEW t \in [1 .. n - 1 -> V],
         \A k \in 1 .. n - 1 : t[k] = s[k + 1]
  PROVE  /\ s # << >>
         /\ Head(s) = s[1]
         /\ t = Tail(s)
<1>1. /\ s \in Seq(V) /\ Len(s) = n /\ s # << >>
      /\ t \in Seq(V) /\ Len(t) = n - 1
  BY Sequence
<1>2. /\ Tail(s) \in Seq(V)
      /\ Len(Tail(s)) = n - 1
      /\ \A k \in 1 .. n - 1 : Tail(s)[k] = s[k + 1]
  BY <1>1, HeadTailProperties
<1>3. Head(s) = s[1]
  BY <1>1
<1>. QED
  BY <1>1, <1>2, <1>3, SeqEqual
=============================================================================
