------------------------- MODULE ClaudeStreamProofs -------------------------
(***************************************************************************)
(* Proofs about ClaudeStreams, for any pieces and any number of blocks and *)
(* deltas: what a client puts together from either stream is the answer it *)
(* would have got at once.                                                 *)
(***************************************************************************)
EXTENDS ClaudeStreams, FiniteSetTheorems, SequenceTheorems, WellFoundedInduction, TLAPS

-----------------------------------------------------------------------------
(***************************************************************************)
(* Ascending.  What lists a set in ascending order is unique; an induction *)
(* is a least counterexample.                                              *)
(***************************************************************************)

\* A nonempty set of naturals has a least member.
LEMMA HasLeast ==
    ASSUME NEW S, S \subseteq Nat, S # {}
    PROVE  \E n \in S : \A m \in S : n <= m
  <1> DEFINE R == OpToRel(<, Nat)
  <1>1. PICK n \in S : \A m \in S : ~ (<<m, n>> \in R)
    BY NatLessThanWellFounded, WFMin, Zenon
  <1>2. ASSUME NEW m \in S, m < n PROVE FALSE
    BY <1>1, <1>2 DEF OpToRel
  <1> QED BY <1>2

\* A function on 1..n is a sequence of length n.
LEMMA FunctionIsSequence ==
    ASSUME NEW S, NEW m \in Nat, NEW f \in [1..m -> S]
    PROVE  f \in Seq(S) /\ Len(f) = m
  <1>1. f \in Seq(S)
    OBVIOUS
  <1>2. Len(f) \in Nat /\ 1..Len(f) = 1..m
    BY <1>1, LenProperties
  <1>3. Len(f) <= m
    <2> SUFFICES ASSUME m < Len(f) PROVE FALSE
      BY <1>2
    <2>1. m + 1 \in 1..Len(f)
      BY <1>2
    <2>2. m + 1 \notin 1..m
      OBVIOUS
    <2> QED BY <1>2, <2>1, <2>2
  <1>4. m <= Len(f)
    <2> SUFFICES ASSUME Len(f) < m PROVE FALSE
      BY <1>2
    <2>1. Len(f) + 1 \in 1..m /\ Len(f) + 1 \notin 1..Len(f)
      BY <1>2
    <2> QED BY <1>2, <2>1
  <1> QED BY <1>1, <1>2, <1>3, <1>4

Rising(s) == \A i, j \in 1..Len(s) : i < j => s[i] < s[j]
Lists(s, S) == /\ S \subseteq Nat /\ s \in Seq(S) /\ Rising(s)
               /\ \A x \in S : \E i \in 1..Len(s) : s[i] = x

\* Two lists of a set agree at each place of the first.
LEMMA ListsAgree ==
    ASSUME NEW S, NEW s, Lists(s, S), NEW t, Lists(t, S)
    PROVE  \A i \in 1..Len(s) : i <= Len(t) /\ t[i] = s[i]
  <1> DEFINE Agree(n) == n <= Len(t) /\ t[n] = s[n]
             T == {n \in 1..Len(s) : ~Agree(n)}
  <1>1. /\ Len(s) \in Nat /\ Len(t) \in Nat /\ Rising(s) /\ Rising(t)
        /\ \A n \in 1..Len(s) : s[n] \in S /\ s[n] \in Nat
        /\ \A n \in 1..Len(t) : t[n] \in S /\ t[n] \in Nat
    <2>1. s \in Seq(S) /\ t \in Seq(S) /\ S \subseteq Nat /\ Rising(s) /\ Rising(t)
      BY DEF Lists
    <2>2. /\ Len(s) \in Nat /\ s \in [1..Len(s) -> S]
          /\ Len(t) \in Nat /\ t \in [1..Len(t) -> S]
      BY <2>1, LenProperties
    <2> QED BY <2>1, <2>2
  <1>2. ASSUME NEW n \in T, \A m \in T : n <= m
        PROVE  FALSE
    <2>1. n \in 1..Len(s) /\ ~Agree(n) /\ \A m \in 1..Len(s) : m < n => Agree(m)
      <3>1. n \in 1..Len(s) /\ ~Agree(n)
        OBVIOUS
      <3>2. ASSUME NEW m \in 1..Len(s), m < n PROVE Agree(m)
        <4>1. m \notin T
          <5> HIDE DEF T
          <5> QED BY <1>1, <1>2, <3>1, <3>2
        <4> QED BY <4>1
      <3> QED BY <3>1, <3>2
    <2> HIDE DEF T
    <2>2. PICK j \in 1..Len(t) : t[j] = s[n]
      BY <1>1, <2>1 DEF Lists
    <2>3. ~ (j < n)
      <3> SUFFICES ASSUME j < n PROVE FALSE
        OBVIOUS
      <3>1. j \in 1..Len(s)
        BY <1>1, <2>1, <2>2
      <3>2. t[j] = s[j] /\ s[j] < s[n]
        BY <1>1, <2>1, <3>1 DEF Rising
      <3> QED BY <1>1, <2>1, <2>2, <3>1, <3>2
    <2>4. n \in 1..Len(t) /\ n < j
      BY <1>1, <2>1, <2>2, <2>3
    <2>5. t[n] < s[n]
      BY <1>1, <2>2, <2>4 DEF Rising
    <2>6. PICK k \in 1..Len(s) : s[k] = t[n]
      BY <1>1, <2>4 DEF Lists
    <2>7. CASE k < n
      <3>1. t[k] = s[k] /\ k \in 1..Len(t)
        BY <1>1, <2>1, <2>4, <2>6, <2>7
      <3>2. t[k] < t[n]
        BY <1>1, <2>4, <2>7, <3>1 DEF Rising
      <3> QED BY <1>1, <2>4, <2>6, <3>1, <3>2
    <2>8. CASE ~ (k < n)
      <3>1. k = n \/ s[n] < s[k]
        BY <1>1, <2>1, <2>6, <2>8 DEF Rising
      <3> QED BY <1>1, <2>1, <2>5, <2>6, <3>1
    <2> QED BY <2>7, <2>8
  <1>3. T \subseteq Nat
    BY <1>1
  <1>4. T = {}
    BY <1>2, <1>3, HasLeast
  <1> QED BY <1>4

\* A set has one list in ascending order.
LEMMA ListsUnique ==
    ASSUME NEW S, NEW s, Lists(s, S), NEW t, Lists(t, S)
    PROVE  s = t
  <1>1. Len(s) \in Nat /\ Len(t) \in Nat /\ s \in Seq(S) /\ t \in Seq(S)
    BY LenProperties DEF Lists
  <1>2. \A i \in 1..Len(s) : i <= Len(t) /\ t[i] = s[i]
    BY ListsAgree
  <1>3. \A i \in 1..Len(t) : i <= Len(s) /\ s[i] = t[i]
    BY ListsAgree
  <1>4. Len(s) = Len(t)
    <2>1. CASE Len(s) = 0
      <3>1. ~ (Len(t) >= 1)
        <4> SUFFICES ASSUME Len(t) >= 1 PROVE FALSE
          OBVIOUS
        <4>1. 1 \in 1..Len(t)
          BY <1>1
        <4> QED BY <1>3, <2>1, <4>1
      <3> QED BY <1>1, <2>1, <3>1
    <2>2. CASE Len(s) # 0
      <3>1. Len(s) \in 1..Len(s) /\ Len(s) <= Len(t)
        BY <1>1, <1>2, <2>2
      <3>2. Len(t) \in 1..Len(t)
        BY <1>1, <2>2, <3>1
      <3>3. Len(t) <= Len(s)
        BY <1>3, <3>2
      <3> QED BY <1>1, <3>1, <3>3
    <2> QED BY <2>1, <2>2
  <1>5. /\ s = [i \in 1..Len(s) |-> s[i]]
        /\ t = [i \in 1..Len(t) |-> t[i]]
    BY <1>1, LenProperties
  <1> QED BY <1>2, <1>4, <1>5

\* A number above all of a set goes to the end of its list.
LEMMA ListsOneMore ==
    ASSUME NEW S, NEW s, Lists(s, S), NEW n \in Nat, \A x \in S : x < n
    PROVE  Lists(Append(s, n), S \cup {n})
  <1> DEFINE t == Append(s, n)
  <1>1. s \in Seq(S) /\ S \subseteq Nat /\ Len(s) \in Nat /\ Rising(s) /\ \A i \in 1..Len(s) : s[i] \in S
    BY LenProperties DEF Lists
  <1>2. s \in Seq(S \cup {n})
    BY <1>1
  <1>3. /\ t \in Seq(S \cup {n}) /\ Len(t) = Len(s) + 1 /\ t[Len(s) + 1] = n
        /\ \A i \in 1..Len(s) : t[i] = s[i]
    BY <1>2, AppendProperties
  <1> HIDE DEF t
  <1>4. ASSUME NEW i \in 1..Len(t), NEW j \in 1..Len(t), i < j
        PROVE  t[i] < t[j]
    <2>1. i \in 1..Len(s) /\ t[i] = s[i] /\ s[i] \in S
      BY <1>1, <1>3, <1>4
    <2>2. CASE j = Len(s) + 1
      BY <1>3, <2>1, <2>2
    <2>3. CASE j # Len(s) + 1
      <3>1. j \in 1..Len(s) /\ t[j] = s[j]
        BY <1>1, <1>3, <2>3
      <3> QED BY <1>1, <1>4, <2>1, <3>1 DEF Rising
    <2> QED BY <2>2, <2>3
  <1>5. ASSUME NEW x \in S \cup {n}
        PROVE  \E i \in 1..Len(t) : t[i] = x
    <2>1. CASE x \in S
      <3>1. PICK i \in 1..Len(s) : s[i] = x
        BY <2>1 DEF Lists
      <3>2. i \in 1..Len(t) /\ t[i] = x
        BY <1>1, <1>3, <3>1
      <3> QED BY <3>2
    <2>2. CASE x = n
      <3>1. Len(s) + 1 \in 1..Len(t)
        BY <1>1, <1>3
      <3> QED BY <1>3, <2>2, <3>1
    <2> QED BY <2>1, <2>2
  <1> QED BY <1>1, <1>3, <1>4, <1>5 DEF Lists, Rising, t

\* The empty set has the empty list.
LEMMA ListsNothing == Lists(<<>>, {})
  BY DEF Lists, Rising

\* The numbers up to n that are in a set have a list.
LEMMA ListExists ==
    ASSUME NEW n \in Nat, NEW S, S \subseteq 1..n
    PROVE  \E s : Lists(s, S)
  <1> DEFINE T == {m \in Nat : \E P \in SUBSET (1..m) : ~ \E s : Lists(s, P)}
  <1>1. ASSUME NEW m \in T, \A k \in T : m <= k
        PROVE  FALSE
    <2>1. m \in Nat
      OBVIOUS
    <2>2. PICK P \in SUBSET (1..m) : ~ \E s : Lists(s, P)
      OBVIOUS
    <2>3. P # {}
      BY <2>2, ListsNothing
    <2>4. m # 0
      <3> SUFFICES ASSUME m = 0 PROVE FALSE
        OBVIOUS
      <3>1. 1..m = {}
        OBVIOUS
      <3> QED BY <2>3, <3>1
    <2>5. m - 1 \in Nat /\ m - 1 \notin T
      <3> HIDE DEF T
      <3> QED BY <1>1, <2>1, <2>4
    <2>6. P \ {m} \in SUBSET (1..(m - 1))
      BY <2>1, <2>2
    <2>7. PICK s : Lists(s, P \ {m})
      BY <2>5, <2>6
    <2> HIDE DEF T
    <2>8. CASE m \in P
      <3>1. P \ {m} \subseteq Nat /\ \A x \in P \ {m} : x < m
        BY <2>1, <2>2
      <3>2. Lists(Append(s, m), (P \ {m}) \cup {m})
        BY <2>1, <2>7, <3>1, ListsOneMore
      <3>3. (P \ {m}) \cup {m} = P
        BY <2>8
      <3> QED BY <2>2, <3>2, <3>3
    <2>9. CASE m \notin P
      <3>1. P \ {m} = P
        BY <2>9
      <3> QED BY <2>2, <2>7, <3>1
    <2> QED BY <2>8, <2>9
  <1>2. T = {}
    BY <1>1, HasLeast
  <1> QED BY <1>2

\* What lists a set is what Ascending chooses.
LEMMA ListIsAscending ==
    ASSUME NEW S, NEW s, Lists(s, S)
    PROVE  Ascending(S) = s
  <1> DEFINE c == Len(s)
             Is(t) == /\ t \in [1..Cardinality(S) -> S]
                      /\ \A i, j \in DOMAIN t : i < j => t[i] < t[j]
  <1>1. /\ c \in Nat /\ s \in [1..c -> S] /\ Rising(s) /\ S \subseteq Nat
        /\ \A x \in S : \E i \in 1..c : s[i] = x
    BY LenProperties DEF Lists
  <1> HIDE DEF c
  <1>2. IsFiniteSet(S) /\ Cardinality(S) = c /\ IsFiniteSet(1..c) /\ Cardinality(1..c) = c
    <2>1. \A i, j \in 1..c : s[i] = s[j] => i = j
      <3> SUFFICES ASSUME NEW i \in 1..c, NEW j \in 1..c, i # j PROVE s[i] # s[j]
        OBVIOUS
      <3>1. s[i] \in Nat /\ s[j] \in Nat
        BY <1>1
      <3>2. s[i] < s[j] \/ s[j] < s[i]
        BY <1>1 DEF Rising, c
      <3> QED BY <3>1, <3>2
    <2>2. s \in Bijection(1..c, S)
      BY <1>1, <2>1 DEF Bijection, Injection, Surjection, IsInjective
    <2>3. ExistsBijection(1..c, S)
      BY <2>2 DEF ExistsBijection
    <2>4. IsFiniteSet(S) /\ Cardinality(S) = c
      BY <1>1, <2>3, FS_NatBijection, FS_CountingElements
    <2>5. 1 \in Int /\ c \in Int
      BY <1>1
    <2>6. IsFiniteSet(1..c) /\ Cardinality(1..c) = c
      BY <1>1, <2>5, FS_Interval
    <2> QED BY <2>4, <2>6
  <1>3. Is(s)
    BY <1>1, <1>2 DEF Rising, c
  <1> DEFINE t == Ascending(S)
  <1>4. Is(t)
    BY <1>3 DEF Ascending
  <1> HIDE DEF t
  <1>5. t \in [1..c -> S] /\ \A i, j \in 1..c : i < j => t[i] < t[j]
    BY <1>2, <1>4
  <1>6. t \in Injection(1..c, S)
    <2>1. \A i, j \in 1..c : t[i] = t[j] => i = j
      <3> SUFFICES ASSUME NEW i \in 1..c, NEW j \in 1..c, i # j PROVE t[i] # t[j]
        OBVIOUS
      <3>1. t[i] \in Nat /\ t[j] \in Nat
        BY <1>1, <1>5
      <3>2. t[i] < t[j] \/ t[j] < t[i]
        BY <1>1, <1>5
      <3> QED BY <3>1, <3>2
    <2> QED BY <1>5, <2>1 DEF Injection, IsInjective
  <1>7. t \in Surjection(1..c, S)
    BY <1>2, <1>6, FS_Injection
  <1>8. t \in Seq(S) /\ Len(t) = c
    BY <1>1, <1>5, FunctionIsSequence
  <1>9. Lists(t, S)
    BY <1>1, <1>5, <1>7, <1>8 DEF Lists, Rising, Surjection
  <1> QED BY <1>9, ListsUnique DEF t

\* Ascending lists every set of numbers up to a bound.
LEMMA AscendingLists ==
    ASSUME NEW n \in Nat, NEW S, S \subseteq 1..n
    PROVE  Lists(Ascending(S), S)
  <1>1. PICK s : Lists(s, S)
    BY ListExists
  <1> QED BY <1>1, ListIsAscending

\* A number above all of a set is the last of Ascending.
LEMMA AscendingOneMore ==
    ASSUME NEW n \in Nat, NEW S, S \subseteq 1..n
    PROVE  Ascending(S \cup {n + 1}) = Append(Ascending(S), n + 1)
  <1>1. Lists(Ascending(S), S)
    BY AscendingLists
  <1>2. n + 1 \in Nat /\ \A x \in S : x < n + 1
    OBVIOUS
  <1>3. Lists(Append(Ascending(S), n + 1), S \cup {n + 1})
    BY <1>1, <1>2, ListsOneMore
  <1> QED BY <1>3, ListIsAscending

\* If the last number is in the set, it is the last of its list.
LEMMA LastOfAscending ==
    ASSUME NEW n \in Nat, NEW S, S \subseteq 1..n, n \in S
    PROVE  LET at == Ascending(S)
           IN  /\ Len(at) \in Nat \ {0} /\ at[Len(at)] = n
               /\ \A i \in 1..Len(at) : i # Len(at) => at[i] \in S /\ at[i] < n
  <1> DEFINE at == Ascending(S)
  <1>1. at \in Seq(S) /\ Rising(at) /\ \A x \in S : \E i \in 1..Len(at) : at[i] = x
    BY AscendingLists DEF Lists
  <1> HIDE DEF at
  <1>2. /\ Len(at) \in Nat
        /\ \A i \in 1..Len(at) : at[i] \in S
    BY <1>1, LenProperties
  <1>3. PICK k \in 1..Len(at) : at[k] = n
    BY <1>1
  <1>4. Len(at) \in 1..Len(at)
    BY <1>2, <1>3
  <1>5. k = Len(at)
    <2> SUFFICES ASSUME k < Len(at) PROVE FALSE
      BY <1>2, <1>3
    <2>1. n < at[Len(at)] /\ at[Len(at)] \in 1..n
      BY <1>1, <1>2, <1>3, <1>4 DEF Rising
    <2> QED BY <2>1
  <1>6. ASSUME NEW i \in 1..Len(at), i # Len(at)
        PROVE  at[i] \in S /\ at[i] < n
    <2>1. i < Len(at)
      BY <1>2, <1>6
    <2> QED BY <1>1, <1>2, <1>3, <1>5, <2>1 DEF Rising
  <1> QED BY <1>2, <1>3, <1>4, <1>5, <1>6 DEF at

PlacesAt(s, T) == {i \in 1..Len(s) : s[i] \in T}
Composed(s, at) == [k \in 1..Len(at) |-> s[at[k]]]

\* What is listed of a part of a set: the places of its members in the whole list.
LEMMA PartOfList ==
    ASSUME NEW S, NEW s, Lists(s, S), NEW T, T \subseteq S,
           NEW at, at = Ascending(PlacesAt(s, T))
    PROVE  /\ \A k \in DOMAIN at : at[k] \in 1..Len(s)
           /\ DOMAIN at = 1..Len(at) /\ Len(at) \in Nat
           /\ Ascending(T) = Composed(s, at)
  <1> DEFINE P == {i \in 1..Len(s) : s[i] \in T}
             t == [k \in 1..Len(at) |-> s[at[k]]]
  <1>1. s \in Seq(S) /\ S \subseteq Nat /\ Len(s) \in Nat /\ Rising(s)
        /\ \A x \in S : \E i \in 1..Len(s) : s[i] = x
    BY LenProperties DEF Lists
  <1>2. Lists(at, P)
    BY <1>1, AscendingLists DEF PlacesAt
  <1>3. /\ Len(at) \in Nat /\ DOMAIN at = 1..Len(at) /\ Rising(at)
        /\ \A k \in 1..Len(at) : at[k] \in P
        /\ \A i \in P : \E k \in 1..Len(at) : at[k] = i
    <2>1. at \in Seq(P) /\ Rising(at) /\ \A i \in P : \E k \in 1..Len(at) : at[k] = i
      BY <1>2 DEF Lists
    <2> HIDE DEF P
    <2>2. Len(at) \in Nat /\ at \in [1..Len(at) -> P] /\ DOMAIN at = 1..Len(at)
      BY <2>1, LenProperties
    <2> QED BY <2>1, <2>2
  <1>4. t \in [1..Len(at) -> T]
    BY <1>3
  <1>5. t \in Seq(T) /\ Len(t) = Len(at) /\ \A k \in 1..Len(at) : t[k] = s[at[k]]
    <2>1. \A k \in 1..Len(at) : t[k] = s[at[k]]
      OBVIOUS
    <2> HIDE DEF t
    <2> QED BY <1>3, <1>4, <2>1, FunctionIsSequence
  <1> HIDE DEF t
  <1>6. ASSUME NEW i \in 1..Len(at), NEW j \in 1..Len(at), i < j
        PROVE  t[i] < t[j]
    <2>1. at[i] \in 1..Len(s) /\ at[j] \in 1..Len(s) /\ at[i] < at[j]
      BY <1>3, <1>6 DEF Rising
    <2> QED BY <1>1, <1>5, <2>1 DEF Rising
  <1>7. ASSUME NEW x \in T
        PROVE  \E k \in 1..Len(at) : t[k] = x
    <2>1. PICK i \in 1..Len(s) : s[i] = x
      BY <1>1
    <2>2. i \in P
      BY <2>1
    <2>3. PICK k \in 1..Len(at) : at[k] = i
      BY <1>3, <2>2
    <2> QED BY <1>5, <2>1, <2>3
  <1>8. Lists(t, T)
    BY <1>1, <1>5, <1>6, <1>7 DEF Lists, Rising
  <1>9. Ascending(T) = t
    BY <1>8, ListIsAscending
  <1> QED BY <1>3, <1>9 DEF t, Composed

-----------------------------------------------------------------------------
(* FlattenSeq *)

\* text is what the bodies are together; the witness is what they are up to each.
Joined(f, text, bodies) ==
    /\ f \in [0..Len(bodies) -> Bodies] /\ f[0] = <<>> /\ f[Len(bodies)] = text
    /\ \A i \in 1..Len(bodies) : f[i] = f[i - 1] \o bodies[i]
Joins(text, bodies) == bodies \in Seq(Bodies) /\ \E f : Joined(f, text, bodies)

\* The recursive function of FlattenSeq.
Flattens(h, bodies) ==
    h = [i \in 1..Len(bodies) |-> IF i = 1 THEN bodies[i] ELSE h[i - 1] \o bodies[i]]
Flattened(bodies) == CHOOSE h : Flattens(h, bodies)

\* FlattenSeq is the last value of its recursive function.
LEMMA FlattenIsFlattened ==
    ASSUME NEW bodies
    PROVE  FlattenSeq(bodies) = IF Len(bodies) = 0 THEN bodies
                                ELSE Flattened(bodies)[Len(bodies)]
  BY DEF FlattenSeq, Flattened, Flattens

\* What joins the bodies is what FlattenSeq makes of them: the witness satisfies the
\* equation of the recursive function, and by induction is the only one that does.
LEMMA JoinsIsFlatten ==
    ASSUME NEW text, NEW bodies, Joins(text, bodies)
    PROVE  FlattenSeq(bodies) = text /\ text \in Bodies
  <1>1. PICK f : Joined(f, text, bodies)
    BY DEF Joins
  <1> DEFINE n == Len(bodies)
             h == Flattened(bodies)
  <1>2. /\ n \in Nat /\ bodies \in Seq(Bodies) /\ \A i \in 1..n : bodies[i] \in Bodies
    BY LenProperties DEF Joins
  <1>3. /\ f \in [0..n -> Bodies] /\ f[0] = <<>> /\ f[n] = text
        /\ \A i \in 1..n : f[i] = f[i - 1] \o bodies[i]
    BY <1>1 DEF Joined
  <1>4. text \in Bodies
    BY <1>2, <1>3
  <1>5. CASE n = 0
    <2>1. bodies = <<>>
      BY <1>2, <1>5, EmptySeq
    <2> QED BY <1>3, <1>4, <1>5, <2>1, FlattenIsFlattened
  <1>6. CASE n # 0
    <2> DEFINE g == [i \in 1..n |-> f[i]]
    <2>1. Flattens(g, bodies)
      <3>1. ASSUME NEW i \in 1..n
            PROVE  g[i] = IF i = 1 THEN bodies[i] ELSE g[i - 1] \o bodies[i]
        <4>1. CASE i = 1
          <5>1. <<>> \o bodies[1] = bodies[1]
            BY <1>2, <4>1 DEF Bodies
          <5> QED BY <1>3, <4>1, <5>1
        <4>2. CASE i # 1
          <5>1. i - 1 \in 1..n
            BY <1>2, <4>2
          <5> QED BY <1>3, <4>2, <5>1
        <4> QED BY <4>1, <4>2
      <3>2. g = [i \in 1..n |-> g[i]]
        OBVIOUS
      <3> HIDE DEF g
      <3> QED BY <3>1, <3>2 DEF Flattens
    <2>2. Flattens(h, bodies)
      BY <2>1, Zenon DEF Flattened
    <2> HIDE DEF h, g
    <2>3. \A i \in 1..n : h[i] = IF i = 1 THEN bodies[i] ELSE h[i - 1] \o bodies[i]
      BY <2>2 DEF Flattens
    <2>4. \A i \in 1..n : g[i] = f[i] /\ g[i] = IF i = 1 THEN bodies[i] ELSE g[i - 1] \o bodies[i]
      <3>1. \A i \in 1..n : g[i] = IF i = 1 THEN bodies[i] ELSE g[i - 1] \o bodies[i]
        BY <2>1 DEF Flattens
      <3> QED BY <3>1 DEF g
    <2> DEFINE T == {i \in 1..n : h[i] # f[i]}
    <2>5. ASSUME NEW i \in T, \A j \in T : i <= j
          PROVE  FALSE
      <3>1. i \in 1..n /\ h[i] # f[i]
        OBVIOUS
      <3>2. i # 1
        BY <2>3, <2>4, <3>1
      <3>3. i - 1 \in 1..n /\ i - 1 \notin T
        <4>1. i - 1 \in 1..n
          BY <1>2, <3>1, <3>2
        <4>2. ~ (i <= i - 1)
          BY <1>2, <3>1
        <4> HIDE DEF T
        <4> QED BY <2>5, <4>1, <4>2
      <3>4. h[i - 1] = f[i - 1] /\ g[i - 1] = f[i - 1]
        BY <2>4, <3>3
      <3> QED BY <2>3, <2>4, <3>1, <3>2, <3>4
    <2>6. T \subseteq Nat
      BY <1>2
    <2>7. T = {}
      BY <2>5, <2>6, HasLeast
    <2>8. n \in 1..n
      BY <1>2, <1>6
    <2>9. h[n] = text
      BY <1>3, <2>7, <2>8
    <2> QED BY <1>4, <1>6, <2>9, FlattenIsFlattened DEF h
  <1> QED BY <1>5, <1>6

\* No bodies, no text.
LEMMA JoinsNothing == Joins(<<>>, <<>>)
  <1> DEFINE f == [i \in 0..0 |-> <<>>]
  <1>1. <<>> \in Bodies /\ <<>> \in Seq(Bodies) /\ Len(<<>>) = 0
    BY DEF Bodies
  <1>2. Joined(f, <<>>, <<>>)
    BY <1>1 DEF Joined
  <1> QED BY <1>1, <1>2 DEF Joins

\* An empty body more.
LEMMA JoinsAnother ==
    ASSUME NEW text, NEW bodies, Joins(text, bodies)
    PROVE  Joins(text, Append(bodies, <<>>))
  <1>1. PICK f : Joined(f, text, bodies)
    BY DEF Joins
  <1> DEFINE n == Len(bodies)
             all == Append(bodies, <<>>)
             g == [i \in 0..(n + 1) |-> IF i = n + 1 THEN text ELSE f[i]]
  <1>2. <<>> \in Bodies /\ bodies \in Seq(Bodies) /\ n \in Nat
    BY LenProperties DEF Joins, Bodies
  <1>3. /\ all \in Seq(Bodies) /\ Len(all) = n + 1 /\ all[n + 1] = <<>>
        /\ \A i \in 1..n : all[i] = bodies[i]
    BY <1>2, AppendProperties
  <1>4. /\ f \in [0..n -> Bodies] /\ f[0] = <<>> /\ f[n] = text
        /\ \A i \in 1..n : f[i] = f[i - 1] \o bodies[i]
    BY <1>1 DEF Joined
  <1> HIDE DEF all, n
  <1>5. text \in Bodies /\ text \o <<>> = text
    BY <1>2, <1>4 DEF Bodies
  <1>6. /\ g \in [0..(n + 1) -> Bodies] /\ g[n + 1] = text
        /\ \A i \in 0..n : g[i] = f[i]
    BY <1>2, <1>4, <1>5
  <1> HIDE DEF g
  <1>7. ASSUME NEW i \in 1..(n + 1)
        PROVE  g[i] = g[i - 1] \o all[i]
    <2>1. i - 1 \in 0..n /\ g[i - 1] = f[i - 1]
      BY <1>2, <1>6
    <2>2. CASE i = n + 1
      <3>1. i - 1 = n
        BY <1>2, <2>2
      <3> QED BY <1>3, <1>4, <1>5, <1>6, <2>1, <2>2, <3>1
    <2>3. CASE i # n + 1
      <3>1. i \in 1..n /\ i \in 0..n
        BY <1>2, <2>3
      <3> QED BY <1>3, <1>4, <1>6, <2>1, <3>1
    <2> QED BY <2>2, <2>3
  <1>8. Joined(g, text, all)
    <2>1. 0 \in 0..n
      BY <1>2
    <2> QED BY <1>3, <1>4, <1>6, <1>7, <2>1 DEF Joined
  <1> QED BY <1>3, <1>8 DEF Joins, all

\* A piece more, in the last body.
LEMMA JoinsMore ==
    ASSUME NEW text, NEW bodies, Joins(text, bodies), NEW p \in Pieces,
           NEW n \in Nat \ {0}, n = Len(bodies),
           NEW now, now = [bodies EXCEPT ![n] = Append(@, p)]
    PROVE  Joins(Append(text, p), now)
  <1>1. PICK f : Joined(f, text, bodies)
    BY DEF Joins
  <1> DEFINE g == [f EXCEPT ![n] = Append(text, p)]
  <1>2. /\ bodies \in Seq(Bodies) /\ DOMAIN bodies = 1..n
        /\ n \in 1..n /\ bodies[n] \in Bodies
    BY LenProperties DEF Joins
  <1>3. /\ f \in [0..n -> Bodies] /\ f[0] = <<>> /\ f[n] = text
        /\ \A i \in 1..n : f[i] = f[i - 1] \o bodies[i]
    BY <1>1 DEF Joined
  <1>4. text \in Bodies /\ f[n - 1] \in Bodies
    BY <1>3
  <1>5. Append(text, p) \in Bodies /\ Append(bodies[n], p) \in Bodies
    BY <1>2, <1>4 DEF Bodies
  <1>6. Append(text, p) = f[n - 1] \o Append(bodies[n], p)
    <2>1. text = f[n - 1] \o bodies[n]
      BY <1>2, <1>3
    <2> DEFINE a == f[n - 1]
               b == bodies[n]
    <2>2. a \in Seq(Pieces) /\ b \in Seq(Pieces) /\ text \in Seq(Pieces)
      BY <1>2, <1>4 DEF Bodies
    <2> HIDE DEF a, b
    <2>3. Append(text, p) = text \o <<p>>
      BY <2>2, AppendIsConcat
    <2>4. Append(b, p) = b \o <<p>>
      BY <2>2, AppendIsConcat
    <2>5. <<p>> \in Seq(Pieces)
      OBVIOUS
    <2>6. (a \o b) \o <<p>> = a \o (b \o <<p>>)
      BY <2>2, <2>5, ConcatAssociative
    <2>7. text = a \o b
      BY <2>1 DEF a, b
    <2>8. Append(text, p) = a \o Append(b, p)
      BY <2>3, <2>4, <2>6, <2>7
    <2> QED BY <2>8 DEF a, b
  <1>7. /\ now \in Seq(Bodies) /\ Len(now) = n
        /\ now[n] = Append(bodies[n], p)
        /\ \A i \in 1..n : i # n => now[i] = bodies[i]
    <2>1. now \in [1..n -> Bodies]
      BY <1>2, <1>5, LenProperties
    <2> QED BY <1>2, <2>1, FunctionIsSequence
  <1>8. /\ g \in [0..n -> Bodies] /\ g[n] = Append(text, p)
        /\ \A i \in 0..n : i # n => g[i] = f[i]
    BY <1>3, <1>5
  <1> HIDE DEF g
  <1>9. ASSUME NEW i \in 1..n
        PROVE  g[i] = g[i - 1] \o now[i]
    <2>1. i - 1 \in 0..n /\ i - 1 # n /\ i \in 0..n
      OBVIOUS
    <2>2. g[i - 1] = f[i - 1]
      BY <1>8, <2>1
    <2>3. CASE i = n
      BY <1>6, <1>7, <1>8, <2>2, <2>3
    <2>4. CASE i # n
      BY <1>3, <1>7, <1>8, <2>1, <2>2, <2>4
    <2> QED BY <2>3, <2>4
  <1>10. Joined(g, Append(text, p), now)
    <2>1. 0 \in 0..n /\ 0 # n
      OBVIOUS
    <2> QED BY <1>3, <1>7, <1>8, <1>9, <2>1 DEF Joined
  <1> QED BY <1>7, <1>10 DEF Joins

-----------------------------------------------------------------------------
(* The message, of any value *)

Block == [type : Types, body : Bodies]
BlocksIn(m, type) == {n \in DOMAIN m : m[n].type = type}
PlacesIn(m, type) == Ascending(BlocksIn(m, type))
BodiesIn(m, type) == [i \in DOMAIN PlacesIn(m, type) |-> m[PlacesIn(m, type)[i]].body]
CallsIn(m) == [i \in DOMAIN PlacesIn(m, "tool_use") |->
                  [id |-> PlacesIn(m, "tool_use")[i],
                   args |-> m[PlacesIn(m, "tool_use")[i]].body]]

\* Sequences that are equal at every place are equal.
LEMMA SameSequence ==
    ASSUME NEW S, NEW s \in Seq(S), NEW T, NEW t \in Seq(T), Len(s) = Len(t),
           \A i \in 1..Len(s) : s[i] = t[i]
    PROVE  s = t
  <1>1. /\ s = [i \in 1..Len(s) |-> s[i]]
        /\ t = [i \in 1..Len(t) |-> t[i]]
    BY LenProperties
  <1> QED BY <1>1

\* What a message is made of.
LEMMA MessageFacts ==
    ASSUME NEW m \in Seq(Block)
    PROVE  /\ Len(m) \in Nat /\ DOMAIN m = 1..Len(m)
           /\ \A n \in 1..Len(m) : m[n] \in Block /\ m[n].type \in Types /\ m[n].body \in Bodies
  <1>1. /\ Len(m) \in Nat /\ DOMAIN m = 1..Len(m) /\ m \in [1..Len(m) -> Block]
    BY LenProperties
  <1> QED BY <1>1 DEF Block

\* The places of the blocks of a type are places of the message, in order.
LEMMA PlacesFacts ==
    ASSUME NEW m \in Seq(Block), NEW type
    PROVE  /\ BlocksIn(m, type) \subseteq 1..Len(m)
           /\ Lists(PlacesIn(m, type), BlocksIn(m, type))
           /\ PlacesIn(m, type) \in Seq(Nat)
           /\ Len(PlacesIn(m, type)) \in Nat
           /\ DOMAIN PlacesIn(m, type) = 1..Len(PlacesIn(m, type))
           /\ \A i \in 1..Len(PlacesIn(m, type)) :
                  PlacesIn(m, type)[i] \in 1..Len(m) /\ m[PlacesIn(m, type)[i]].type = type
  <1>1. BlocksIn(m, type) \subseteq 1..Len(m) /\ Len(m) \in Nat
    BY MessageFacts DEF BlocksIn
  <1>2. Lists(PlacesIn(m, type), BlocksIn(m, type))
    BY <1>1, AscendingLists DEF PlacesIn
  <1>3. /\ Len(PlacesIn(m, type)) \in Nat
        /\ DOMAIN PlacesIn(m, type) = 1..Len(PlacesIn(m, type))
        /\ PlacesIn(m, type) \in [1..Len(PlacesIn(m, type)) -> BlocksIn(m, type)]
    BY <1>2, LenProperties DEF Lists
  <1>4. PlacesIn(m, type) \in Seq(Nat)
    BY <1>2 DEF Lists
  <1>5. ASSUME NEW i \in 1..Len(PlacesIn(m, type))
        PROVE  PlacesIn(m, type)[i] \in 1..Len(m) /\ m[PlacesIn(m, type)[i]].type = type
    <2>1. PlacesIn(m, type)[i] \in BlocksIn(m, type)
      BY <1>3
    <2> QED BY <1>1, <2>1 DEF BlocksIn
  <1> QED BY <1>1, <1>2, <1>3, <1>4, <1>5

\* What the bodies and the calls of a message are, by place.
LEMMA BodiesFacts ==
    ASSUME NEW m \in Seq(Block), NEW type
    PROVE  /\ BodiesIn(m, type) \in Seq(Bodies)
           /\ Len(BodiesIn(m, type)) = Len(PlacesIn(m, type))
           /\ \A i \in 1..Len(PlacesIn(m, type)) :
                  BodiesIn(m, type)[i] = m[PlacesIn(m, type)[i]].body
  <1> DEFINE at == PlacesIn(m, type)
             bodies == [i \in 1..Len(at) |-> m[at[i]].body]
  <1>1. /\ Len(at) \in Nat /\ DOMAIN at = 1..Len(at)
        /\ \A i \in 1..Len(at) : at[i] \in 1..Len(m)
    BY PlacesFacts
  <1>2. BodiesIn(m, type) = bodies
    BY <1>1 DEF BodiesIn
  <1>3. \A i \in 1..Len(at) : m[at[i]].body \in Bodies
    BY <1>1, MessageFacts
  <1> HIDE DEF at
  <1>4. bodies \in [1..Len(at) -> Bodies] /\ \A i \in 1..Len(at) : bodies[i] = m[at[i]].body
    BY <1>3
  <1> HIDE DEF bodies
  <1>5. bodies \in Seq(Bodies) /\ Len(bodies) = Len(at)
    BY <1>1, <1>4, FunctionIsSequence
  <1> QED BY <1>2, <1>4, <1>5 DEF at

Short(m) == m \in Seq(Block) /\ Len(m) <= MaxBlocks

\* Calls, by place, are the blocks of type tool_use.
LEMMA CallsFacts ==
    ASSUME NEW m, Short(m)
    PROVE  /\ CallsIn(m) \in Seq(Call)
           /\ Len(CallsIn(m)) = Len(PlacesIn(m, "tool_use"))
           /\ \A i \in 1..Len(PlacesIn(m, "tool_use")) :
                  CallsIn(m)[i] = [id |-> PlacesIn(m, "tool_use")[i],
                                   args |-> m[PlacesIn(m, "tool_use")[i]].body]
  <1> DEFINE at == PlacesIn(m, "tool_use")
             calls == [i \in 1..Len(at) |-> [id |-> at[i], args |-> m[at[i]].body]]
  <1>0. m \in Seq(Block) /\ Len(m) <= MaxBlocks
    BY DEF Short
  <1>1. /\ Len(at) \in Nat /\ DOMAIN at = 1..Len(at)
        /\ \A i \in 1..Len(at) : at[i] \in 1..Len(m)
    BY <1>0, PlacesFacts
  <1>2. CallsIn(m) = calls
    BY <1>1 DEF CallsIn
  <1>3. ASSUME NEW i \in 1..Len(at)
        PROVE  [id |-> at[i], args |-> m[at[i]].body] \in Call
    <2>1. at[i] \in 1..Len(m) /\ m[at[i]].body \in Bodies /\ Len(m) \in Nat
      BY <1>0, <1>1, MessageFacts
    <2>2. at[i] \in Indexes
      BY <1>0, <2>1, BlocksAssumption DEF Indexes
    <2> QED BY <2>1, <2>2 DEF Call
  <1> HIDE DEF at
  <1>4. /\ calls \in [1..Len(at) -> Call]
        /\ \A i \in 1..Len(at) : calls[i] = [id |-> at[i], args |-> m[at[i]].body]
    BY <1>3
  <1> HIDE DEF calls
  <1>5. calls \in Seq(Call) /\ Len(calls) = Len(at)
    BY <1>1, <1>4, FunctionIsSequence
  <1> QED BY <1>2, <1>4, <1>5 DEF at

-----------------------------------------------------------------------------
(* A block more *)

NewBlock(type) == [type |-> type, body |-> <<>>]
Added(now, m, type) ==
    m \in Seq(Block) /\ type \in Types /\ now = Append(m, NewBlock(type))

\* A new block is the last of its type, and changes nothing of the others.
LEMMA BlockIsAdded ==
    ASSUME NEW m, NEW type, NEW now, Added(now, m, type)
    PROVE  /\ now \in Seq(Block) /\ Len(now) = Len(m) + 1 /\ Len(m) \in Nat
           /\ now[Len(m) + 1] = NewBlock(type)
           /\ \A n \in 1..Len(m) : now[n] = m[n]
           /\ BlocksIn(now, type) = BlocksIn(m, type) \cup {Len(m) + 1}
           /\ PlacesIn(now, type) = Append(PlacesIn(m, type), Len(m) + 1)
           /\ \A t : t # type => BlocksIn(now, t) = BlocksIn(m, t)
           /\ \A t : t # type => PlacesIn(now, t) = PlacesIn(m, t)
  <1>0. m \in Seq(Block) /\ type \in Types /\ now = Append(m, NewBlock(type))
    BY DEF Added
  <1>1. NewBlock(type) \in Block /\ NewBlock(type).type = type
    BY <1>0 DEF NewBlock, Block, Bodies
  <1>2. /\ now \in Seq(Block) /\ Len(now) = Len(m) + 1
        /\ now[Len(m) + 1] = NewBlock(type)
        /\ \A n \in 1..Len(m) : now[n] = m[n]
    BY <1>0, <1>1, AppendProperties
  <1>3. /\ Len(m) \in Nat /\ DOMAIN m = 1..Len(m) /\ DOMAIN now = 1..(Len(m) + 1)
    BY <1>0, <1>2, MessageFacts
  <1>4. DOMAIN now = DOMAIN m \cup {Len(m) + 1} /\ Len(m) + 1 \notin DOMAIN m
    BY <1>3
  <1>5. BlocksIn(now, type) = BlocksIn(m, type) \cup {Len(m) + 1}
    BY <1>1, <1>2, <1>3, <1>4 DEF BlocksIn
  <1>6. \A t : t # type => BlocksIn(now, t) = BlocksIn(m, t)
    BY <1>1, <1>2, <1>3, <1>4 DEF BlocksIn
  <1>7. BlocksIn(m, type) \subseteq 1..Len(m)
    BY <1>3 DEF BlocksIn
  <1>8. PlacesIn(now, type) = Append(PlacesIn(m, type), Len(m) + 1)
    BY <1>3, <1>5, <1>7, AscendingOneMore DEF PlacesIn
  <1>9. \A t : t # type => PlacesIn(now, t) = PlacesIn(m, t)
    BY <1>6 DEF PlacesIn
  <1> QED BY <1>2, <1>3, <1>5, <1>6, <1>8, <1>9

\* By place: the place of the new block comes after the others of its type.
LEMMA PlacesAdded ==
    ASSUME NEW m, NEW type, NEW now, Added(now, m, type)
    PROVE  /\ Len(PlacesIn(m, type)) \in Nat
           /\ Len(PlacesIn(now, type)) = Len(PlacesIn(m, type)) + 1
           /\ PlacesIn(now, type)[Len(PlacesIn(m, type)) + 1] = Len(m) + 1
           /\ \A i \in 1..Len(PlacesIn(m, type)) :
                  PlacesIn(now, type)[i] = PlacesIn(m, type)[i]
  <1> DEFINE at == PlacesIn(m, type)
             after == PlacesIn(now, type)
  <1>1. m \in Seq(Block)
    BY DEF Added
  <1>2. Len(m) \in Nat /\ after = Append(at, Len(m) + 1)
    BY BlockIsAdded
  <1>3. at \in Seq(Nat) /\ Len(at) \in Nat
    BY <1>1, PlacesFacts
  <1>4. Len(m) + 1 \in Nat
    BY <1>2
  <1> HIDE DEF at, after
  <1>5. /\ Len(after) = Len(at) + 1 /\ after[Len(at) + 1] = Len(m) + 1
        /\ \A i \in 1..Len(at) : after[i] = at[i]
    BY <1>2, <1>3, <1>4, AppendProperties
  <1> QED BY <1>3, <1>5 DEF at, after

\* The bodies of its type have an empty one more.
LEMMA BodiesAdded ==
    ASSUME NEW m, NEW type, NEW now, Added(now, m, type)
    PROVE  BodiesIn(now, type) = Append(BodiesIn(m, type), <<>>)
  <1> DEFINE at == PlacesIn(m, type)
             after == PlacesIn(now, type)
             n == Len(at)
             b == BodiesIn(m, type)
             s == BodiesIn(now, type)
             t == Append(b, <<>>)
  <1>0. m \in Seq(Block)
    BY DEF Added
  <1>1. /\ now \in Seq(Block)
        /\ now[Len(m) + 1] = NewBlock(type)
        /\ \A i \in 1..Len(m) : now[i] = m[i]
    BY BlockIsAdded
  <1>2. \A i \in 1..n : at[i] \in 1..Len(m)
    BY <1>0, PlacesFacts
  <1>3. /\ n \in Nat /\ Len(after) = n + 1 /\ after[n + 1] = Len(m) + 1
        /\ \A i \in 1..n : after[i] = at[i]
    BY PlacesAdded
  <1>4. b \in Seq(Bodies) /\ Len(b) = n /\ \A i \in 1..n : b[i] = m[at[i]].body
    BY <1>0, BodiesFacts
  <1>5. /\ s \in Seq(Bodies) /\ Len(s) = Len(after)
        /\ \A i \in 1..Len(after) : s[i] = now[after[i]].body
    BY <1>1, BodiesFacts
  <1>6. <<>> \in Bodies
    BY DEF Bodies
  <1> HIDE DEF at, after, s, b, n
  <1>7. /\ t \in Seq(Bodies) /\ Len(t) = n + 1 /\ t[n + 1] = <<>>
        /\ \A i \in 1..n : t[i] = b[i]
    BY <1>3, <1>4, <1>6, AppendProperties
  <1> HIDE DEF t
  <1>8. ASSUME NEW i \in 1..Len(s) PROVE s[i] = t[i]
    <2>1. CASE i = n + 1
      <3>1. s[i] = now[Len(m) + 1].body
        BY <1>3, <1>5, <2>1
      <3> QED BY <1>1, <1>7, <2>1, <3>1 DEF NewBlock
    <2>2. CASE i # n + 1
      <3>1. i \in 1..n
        BY <1>3, <1>5, <2>2
      <3>2. s[i] = now[at[i]].body /\ now[at[i]] = m[at[i]]
        BY <1>1, <1>2, <1>3, <1>5, <3>1
      <3> QED BY <1>4, <1>7, <3>1, <3>2
    <2> QED BY <2>1, <2>2
  <1>9. Len(s) = Len(t)
    BY <1>3, <1>5, <1>7
  <1>10. s = t
    BY <1>5, <1>7, <1>8, <1>9, SameSequence
  <1> QED BY <1>10 DEF s, t, b

\* The bodies of the other types are what they were.
LEMMA OtherBodiesKept ==
    ASSUME NEW m, NEW type, NEW now, Added(now, m, type), NEW u, u # type
    PROVE  BodiesIn(now, u) = BodiesIn(m, u)
  <1>0. m \in Seq(Block)
    BY DEF Added
  <1>1. PlacesIn(now, u) = PlacesIn(m, u) /\ \A i \in 1..Len(m) : now[i] = m[i]
    BY BlockIsAdded
  <1>2. /\ DOMAIN PlacesIn(m, u) = 1..Len(PlacesIn(m, u))
        /\ \A i \in 1..Len(PlacesIn(m, u)) : PlacesIn(m, u)[i] \in 1..Len(m)
    BY <1>0, PlacesFacts
  <1> QED BY <1>1, <1>2 DEF BodiesIn

\* The calls have one more, without arguments, when the block is a call.
LEMMA CallsAdded ==
    ASSUME NEW m, NEW now, Added(now, m, "tool_use"), Short(now)
    PROVE  CallsIn(now) = Append(CallsIn(m), [id |-> Len(m) + 1, args |-> <<>>])
  <1> DEFINE at == PlacesIn(m, "tool_use")
             after == PlacesIn(now, "tool_use")
             n == Len(at)
             c == [id |-> Len(m) + 1, args |-> <<>>]
             b == CallsIn(m)
             s == CallsIn(now)
             t == Append(b, c)
  <1>0. m \in Seq(Block)
    BY DEF Added
  <1>1. /\ now \in Seq(Block) /\ Len(now) = Len(m) + 1 /\ Len(m) \in Nat
        /\ now[Len(m) + 1] = NewBlock("tool_use")
        /\ \A i \in 1..Len(m) : now[i] = m[i]
    BY BlockIsAdded
  <1>2. \A i \in 1..n : at[i] \in 1..Len(m)
    BY <1>0, PlacesFacts
  <1>3. /\ n \in Nat /\ Len(after) = n + 1 /\ after[n + 1] = Len(m) + 1
        /\ \A i \in 1..n : after[i] = at[i]
    BY PlacesAdded
  <1>31. Len(m) + 1 <= MaxBlocks
    BY <1>1 DEF Short
  <1>32. Short(m)
    BY <1>0, <1>1, <1>31, BlocksAssumption DEF Short
  <1>4. /\ b \in Seq(Call) /\ Len(b) = n
        /\ \A i \in 1..n : b[i] = [id |-> at[i], args |-> m[at[i]].body]
    BY <1>32, CallsFacts
  <1>5. /\ s \in Seq(Call) /\ Len(s) = Len(after)
        /\ \A i \in 1..Len(after) : s[i] = [id |-> after[i], args |-> now[after[i]].body]
    BY CallsFacts
  <1>6. c \in Call
    <2>1. Len(m) + 1 \in Indexes /\ <<>> \in Bodies
      BY <1>1, <1>31, BlocksAssumption DEF Indexes, Bodies
    <2> QED BY <2>1 DEF Call
  <1>61. now[Len(m) + 1].body = <<>>
    BY <1>1 DEF NewBlock
  <1>62. [id |-> Len(m) + 1, args |-> now[Len(m) + 1].body] = c
    BY <1>61
  <1> HIDE DEF at, after, s, b, n, c
  <1>7. /\ t \in Seq(Call) /\ Len(t) = n + 1 /\ t[n + 1] = c
        /\ \A i \in 1..n : t[i] = b[i]
    BY <1>3, <1>4, <1>6, AppendProperties
  <1> HIDE DEF t
  <1>8. ASSUME NEW i \in 1..Len(s) PROVE s[i] = t[i]
    <2>1. CASE i = n + 1
      <3>1. s[i] = [id |-> Len(m) + 1, args |-> now[Len(m) + 1].body]
        BY <1>3, <1>5, <2>1
      <3> QED BY <1>62, <1>7, <2>1, <3>1
    <2>2. CASE i # n + 1
      <3>1. i \in 1..n
        BY <1>3, <1>5, <2>2
      <3>2. s[i] = [id |-> at[i], args |-> now[at[i]].body] /\ now[at[i]] = m[at[i]]
        BY <1>1, <1>2, <1>3, <1>5, <3>1
      <3> QED BY <1>4, <1>7, <3>1, <3>2
    <2> QED BY <2>1, <2>2
  <1>9. Len(s) = Len(t)
    BY <1>3, <1>5, <1>7
  <1>10. s = t
    BY <1>5, <1>7, <1>8, <1>9, SameSequence
  <1> QED BY <1>10 DEF s, t, b, c

\* The calls are what they were when it is not.
LEMMA CallsKept ==
    ASSUME NEW m, NEW type, NEW now, Added(now, m, type), type # "tool_use"
    PROVE  CallsIn(now) = CallsIn(m)
  <1>0. m \in Seq(Block)
    BY DEF Added
  <1>1. /\ PlacesIn(now, "tool_use") = PlacesIn(m, "tool_use")
        /\ \A i \in 1..Len(m) : now[i] = m[i]
    BY BlockIsAdded
  <1>2. /\ DOMAIN PlacesIn(m, "tool_use") = 1..Len(PlacesIn(m, "tool_use"))
        /\ \A i \in 1..Len(PlacesIn(m, "tool_use")) : PlacesIn(m, "tool_use")[i] \in 1..Len(m)
    BY <1>0, PlacesFacts
  <1> QED BY <1>1, <1>2 DEF CallsIn

-----------------------------------------------------------------------------
(* A piece more *)

Filled(now, m, p) ==
    /\ m \in Seq(Block) /\ Len(m) >= 1 /\ p \in Pieces
    /\ now = [m EXCEPT ![Len(m)].body = Append(@, p)]

\* The last block has the piece; its type and the other blocks are what they were.
LEMMA BlockIsFilled ==
    ASSUME NEW m, NEW p, NEW now, Filled(now, m, p)
    PROVE  /\ m \in Seq(Block) /\ Len(m) \in Nat /\ Len(m) \in 1..Len(m)
           /\ now \in Seq(Block) /\ Len(now) = Len(m)
           /\ \A n \in 1..Len(m) : now[n].type = m[n].type
           /\ \A n \in 1..Len(m) : n # Len(m) => now[n] = m[n]
           /\ now[Len(m)].body = Append(m[Len(m)].body, p)
           /\ \A t : BlocksIn(now, t) = BlocksIn(m, t)
           /\ \A t : PlacesIn(now, t) = PlacesIn(m, t)
  <1>0. /\ m \in Seq(Block) /\ Len(m) >= 1 /\ p \in Pieces
        /\ now = [m EXCEPT ![Len(m)].body = Append(@, p)]
    BY DEF Filled
  <1>1. /\ Len(m) \in Nat /\ DOMAIN m = 1..Len(m)
        /\ m \in [1..Len(m) -> Block]
    BY <1>0, LenProperties
  <1>2. Len(m) \in 1..Len(m)
    BY <1>0, <1>1
  <1>3. m[Len(m)] \in Block /\ m[Len(m)].body \in Bodies
    BY <1>1, <1>2 DEF Block
  <1>4. Append(m[Len(m)].body, p) \in Bodies
    BY <1>0, <1>3, AppendProperties DEF Bodies
  <1>5. [m[Len(m)] EXCEPT !.body = Append(@, p)] \in Block
    BY <1>3, <1>4 DEF Block
  <1>6. now \in [1..Len(m) -> Block] /\ DOMAIN now = DOMAIN m
    BY <1>0, <1>1, <1>2, <1>5
  <1>7. now \in Seq(Block) /\ Len(now) = Len(m)
    BY <1>1, <1>6, FunctionIsSequence
  <1>8. \A n \in 1..Len(m) : n # Len(m) => now[n] = m[n]
    BY <1>0, <1>1
  <1>9. now[Len(m)] = [m[Len(m)] EXCEPT !.body = Append(@, p)]
    BY <1>0, <1>1, <1>2
  <1>10. /\ now[Len(m)].body = Append(m[Len(m)].body, p)
         /\ now[Len(m)].type = m[Len(m)].type
    BY <1>3, <1>9 DEF Block
  <1>11. \A n \in 1..Len(m) : now[n].type = m[n].type
    BY <1>8, <1>10
  <1>12. \A t : BlocksIn(now, t) = BlocksIn(m, t)
    BY <1>1, <1>6, <1>11 DEF BlocksIn
  <1>13. \A t : PlacesIn(now, t) = PlacesIn(m, t)
    BY <1>12 DEF PlacesIn
  <1> QED BY <1>0, <1>1, <1>2, <1>7, <1>8, <1>10, <1>11, <1>12, <1>13

\* A block that is the last of the message is the last of its type.
LEMMA LastPlace ==
    ASSUME NEW m \in Seq(Block), Len(m) >= 1, NEW type, type = m[Len(m)].type
    PROVE  /\ Len(PlacesIn(m, type)) \in 1..Len(PlacesIn(m, type))
           /\ \A i \in 1..Len(PlacesIn(m, type)) :
                  PlacesIn(m, type)[i] = Len(m) <=> i = Len(PlacesIn(m, type))
  <1>1. Len(m) \in Nat /\ DOMAIN m = 1..Len(m) /\ Len(m) \in DOMAIN m
    BY MessageFacts
  <1>2. Len(m) \in BlocksIn(m, type) /\ BlocksIn(m, type) \subseteq 1..Len(m)
    BY <1>1, PlacesFacts DEF BlocksIn
  <1>3. /\ Len(PlacesIn(m, type)) \in 1..Len(PlacesIn(m, type))
        /\ PlacesIn(m, type)[Len(PlacesIn(m, type))] = Len(m)
    BY <1>1, <1>2, LastOfAscending DEF PlacesIn
  <1> DEFINE at == PlacesIn(m, type)
  <1>4. Rising(at) /\ Len(at) \in Nat /\ \A i \in 1..Len(at) : at[i] \in 1..Len(m)
    BY PlacesFacts DEF Lists
  <1> HIDE DEF at
  <1>5. ASSUME NEW i \in 1..Len(at), i # Len(at) PROVE at[i] # at[Len(at)]
    <2>1. i < Len(at) /\ Len(at) \in 1..Len(at)
      BY <1>4, <1>5
    <2>2. at[i] < at[Len(at)]
      BY <1>4, <2>1 DEF Rising
    <2> QED BY <1>1, <1>4, <2>1, <2>2
  <1> QED BY <1>3, <1>5 DEF at

FilledLast(bodies, p) == [bodies EXCEPT ![Len(bodies)] = Append(@, p)]

\* The last of the bodies of its type has the piece.
LEMMA BodiesFilled ==
    ASSUME NEW m, NEW p, NEW now, Filled(now, m, p), NEW type, type = m[Len(m)].type
    PROVE  /\ Len(BodiesIn(m, type)) \in 1..Len(BodiesIn(m, type))
           /\ BodiesIn(now, type) = FilledLast(BodiesIn(m, type), p)
  <1> DEFINE at == PlacesIn(m, type)
             n == Len(at)
             b == BodiesIn(m, type)
             s == BodiesIn(now, type)
  <1>0. m \in Seq(Block) /\ Len(m) >= 1
    BY DEF Filled
  <1>1. /\ now \in Seq(Block)
        /\ \A i \in 1..Len(m) : i # Len(m) => now[i] = m[i]
        /\ now[Len(m)].body = Append(m[Len(m)].body, p)
        /\ PlacesIn(now, type) = at
    BY BlockIsFilled
  <1>2. \A i \in 1..n : at[i] \in 1..Len(m)
    BY <1>0, PlacesFacts
  <1>3. n \in 1..n /\ \A i \in 1..n : at[i] = Len(m) <=> i = n
    BY <1>0, LastPlace
  <1>4. b \in Seq(Bodies) /\ Len(b) = n /\ \A i \in 1..n : b[i] = m[at[i]].body
    BY <1>0, BodiesFacts
  <1>5. s \in Seq(Bodies) /\ Len(s) = n /\ \A i \in 1..n : s[i] = now[at[i]].body
    BY <1>1, BodiesFacts
  <1> HIDE DEF at, s, b, n
  <1>6. b = [i \in 1..n |-> b[i]] /\ s = [i \in 1..n |-> s[i]]
    BY <1>4, <1>5, LenProperties
  <1>7. ASSUME NEW i \in 1..n
        PROVE  s[i] = IF i = n THEN Append(b[n], p) ELSE b[i]
    <2>1. CASE i = n
      BY <1>1, <1>3, <1>4, <1>5, <2>1
    <2>2. CASE i # n
      <3>1. at[i] # Len(m) /\ at[i] \in 1..Len(m)
        BY <1>2, <1>3, <2>2
      <3>2. now[at[i]] = m[at[i]]
        BY <1>1, <3>1
      <3> QED BY <1>4, <1>5, <2>2, <3>2
    <2> QED BY <2>1, <2>2
  <1>8. DOMAIN b = 1..n
    BY <1>4, LenProperties
  <1>9. [b EXCEPT ![n] = Append(@, p)] = [i \in 1..n |-> IF i = n THEN Append(b[n], p) ELSE b[i]]
    BY <1>3, <1>8
  <1>10. s = [i \in 1..n |-> IF i = n THEN Append(b[n], p) ELSE b[i]]
    BY <1>6, <1>7
  <1>11. s = [b EXCEPT ![Len(b)] = Append(@, p)] /\ Len(b) \in 1..Len(b)
    BY <1>3, <1>4, <1>9, <1>10
  <1> QED BY <1>11 DEF b, s, FilledLast

\* The bodies of the other types do not have it.
LEMMA OtherBodiesUnfilled ==
    ASSUME NEW m, NEW p, NEW now, Filled(now, m, p), NEW type, type # m[Len(m)].type
    PROVE  BodiesIn(now, type) = BodiesIn(m, type)
  <1>0. m \in Seq(Block)
    BY DEF Filled
  <1>1. /\ PlacesIn(now, type) = PlacesIn(m, type)
        /\ \A i \in 1..Len(m) : i # Len(m) => now[i] = m[i]
    BY BlockIsFilled
  <1>2. /\ DOMAIN PlacesIn(m, type) = 1..Len(PlacesIn(m, type))
        /\ \A i \in 1..Len(PlacesIn(m, type)) : /\ PlacesIn(m, type)[i] \in 1..Len(m)
                                                /\ PlacesIn(m, type)[i] # Len(m)
    BY <1>0, PlacesFacts
  <1>3. \A i \in 1..Len(PlacesIn(m, type)) : now[PlacesIn(m, type)[i]] = m[PlacesIn(m, type)[i]]
    BY <1>1, <1>2
  <1> QED BY <1>1, <1>2, <1>3 DEF BodiesIn

\* The last call has the piece in its arguments, when the last block is a call.
LEMMA CallsFilled ==
    ASSUME NEW m, NEW p, NEW now, Filled(now, m, p), Short(m), m[Len(m)].type = "tool_use"
    PROVE  LET n == Len(CallsIn(m))
           IN  /\ n \in 1..n
               /\ CallsIn(now) = [CallsIn(m) EXCEPT ![n].args = Append(@, p)]
  <1> DEFINE at == PlacesIn(m, "tool_use")
             n == Len(at)
             b == CallsIn(m)
             s == CallsIn(now)
             last == [b[n] EXCEPT !.args = Append(@, p)]
  <1>0. m \in Seq(Block) /\ Len(m) >= 1
    BY DEF Filled
  <1>1. /\ now \in Seq(Block) /\ Len(now) = Len(m)
        /\ \A i \in 1..Len(m) : i # Len(m) => now[i] = m[i]
        /\ now[Len(m)].body = Append(m[Len(m)].body, p)
        /\ PlacesIn(now, "tool_use") = at
    BY BlockIsFilled
  <1>2. \A i \in 1..n : at[i] \in 1..Len(m)
    BY <1>0, PlacesFacts
  <1>3. n \in 1..n /\ \A i \in 1..n : at[i] = Len(m) <=> i = n
    BY <1>0, LastPlace
  <1>4. /\ b \in Seq(Call) /\ Len(b) = n
        /\ \A i \in 1..n : b[i] = [id |-> at[i], args |-> m[at[i]].body]
    BY CallsFacts
  <1>41. Short(now)
    BY <1>1 DEF Short
  <1>5. /\ s \in Seq(Call) /\ Len(s) = n
        /\ \A i \in 1..n : s[i] = [id |-> at[i], args |-> now[at[i]].body]
    BY <1>1, <1>41, CallsFacts
  <1> HIDE DEF at, s, b, n
  <1>6. b = [i \in 1..n |-> b[i]] /\ s = [i \in 1..n |-> s[i]]
    BY <1>4, <1>5, LenProperties
  <1>7. ASSUME NEW i \in 1..n
        PROVE  s[i] = IF i = n THEN last ELSE b[i]
    <2>1. CASE i = n
      <3>1. b[n] = [id |-> at[n], args |-> m[Len(m)].body] /\ at[n] = Len(m)
        BY <1>3, <1>4
      <3>2. last = [id |-> at[n], args |-> Append(m[Len(m)].body, p)]
        <4> DEFINE c == [id |-> at[n], args |-> m[Len(m)].body]
        <4>1. [c EXCEPT !.args = Append(@, p)] = [id |-> at[n], args |-> Append(m[Len(m)].body, p)]
          OBVIOUS
        <4> QED BY <3>1, <4>1
      <3>3. s[n] = [id |-> at[n], args |-> now[Len(m)].body]
        BY <1>3, <1>5, <3>1
      <3> QED BY <1>1, <2>1, <3>2, <3>3
    <2>2. CASE i # n
      <3>1. at[i] # Len(m) /\ at[i] \in 1..Len(m)
        BY <1>2, <1>3, <2>2
      <3>2. now[at[i]] = m[at[i]]
        BY <1>1, <3>1
      <3> QED BY <1>4, <1>5, <2>2, <3>2
    <2> QED BY <2>1, <2>2
  <1>8. DOMAIN b = 1..n
    BY <1>4, LenProperties
  <1>9. [b EXCEPT ![n].args = Append(@, p)] = [i \in 1..n |-> IF i = n THEN last ELSE b[i]]
    BY <1>3, <1>8
  <1>10. s = [i \in 1..n |-> IF i = n THEN last ELSE b[i]]
    BY <1>6, <1>7
  <1>11. s = [b EXCEPT ![Len(b)].args = Append(@, p)] /\ Len(b) \in 1..Len(b)
    BY <1>3, <1>4, <1>9, <1>10
  <1> QED BY <1>11 DEF b, s

\* The calls are what they were when the last block is none.
LEMMA CallsUnfilled ==
    ASSUME NEW m, NEW p, NEW now, Filled(now, m, p), m[Len(m)].type # "tool_use"
    PROVE  CallsIn(now) = CallsIn(m)
  <1>0. m \in Seq(Block)
    BY DEF Filled
  <1>1. /\ PlacesIn(now, "tool_use") = PlacesIn(m, "tool_use")
        /\ \A i \in 1..Len(m) : i # Len(m) => now[i] = m[i]
    BY BlockIsFilled
  <1>2. /\ DOMAIN PlacesIn(m, "tool_use") = 1..Len(PlacesIn(m, "tool_use"))
        /\ \A i \in 1..Len(PlacesIn(m, "tool_use")) :
               /\ PlacesIn(m, "tool_use")[i] \in 1..Len(m)
               /\ PlacesIn(m, "tool_use")[i] # Len(m)
    BY <1>0, PlacesFacts
  <1>3. \A i \in 1..Len(PlacesIn(m, "tool_use")) :
            now[PlacesIn(m, "tool_use")[i]] = m[PlacesIn(m, "tool_use")[i]]
    BY <1>1, <1>2
  <1> QED BY <1>1, <1>2, <1>3 DEF CallsIn

-----------------------------------------------------------------------------
(* The invariant *)

Chat == [roles : 0..1, text : Bodies, reasoning : Bodies, calls : Seq(Call),
         finish : {"none", "stop", "length", "tool_calls", "function_call"},
         done : BOOLEAN]
State == [inText : BOOLEAN, inThinking : BOOLEAN, inTool : BOOLEAN,
          text : Bodies, tool : Indexes, args : Bodies, counted : [Counters -> 0..2]]
Resp == [status : {"none", "in_progress", "completed"}, items : Seq(Item),
         orphans : BOOLEAN, counted : [Counters -> 0..2]]

MessageInv ==
    /\ Short(message)
    /\ phase = "block" => Len(message) >= 1
    /\ phase \in Phases /\ stop \in StopReasons \cup {"none"}
    /\ counted \in [Counters -> 0..2] /\ legacy \in BOOLEAN

\* The client's calls are those of the message so far; a function_call has room
\* for one only.
CallsFit(one, keys, calls, m) ==
    /\ keys = PlacesIn(m, "tool_use")
    /\ calls \in Seq(Call)
    /\ ~one => calls = CallsIn(m)
    /\ one => (Len(keys) = 0 <=> calls = <<>>) /\ Len(calls) <= 1
    /\ one /\ Len(keys) <= 1 => calls = CallsIn(m)

ChatFits(c, m) ==
    /\ c \in Chat
    /\ Joins(c.text, BodiesIn(m, "text"))
    /\ Joins(c.reasoning, BodiesIn(m, "thinking"))

ChatInv ==
    /\ ChatFits(chat, message)
    /\ CallsFit(legacy, order, chat.calls, message)
    /\ phase = "start" => chat.roles = 0
    /\ phase \in {"stopping", "stopped"} => chat.finish = FinishReason(stop)
    /\ chat.done => phase = "stopped"

\* The flags say of what type the block is that is open, and the buffers hold its body.
StateFits(s, m, open) ==
    /\ s.inText <=> open /\ m[Len(m)].type = "text"
    /\ s.inThinking <=> open /\ m[Len(m)].type = "thinking"
    /\ s.inTool <=> open /\ m[Len(m)].type = "tool_use"
    /\ s.inText => s.text = m[Len(m)].body
    /\ s.inTool => s.args = m[Len(m)].body /\ s.tool = Len(m)

\* An item is a block, by its place, and is open as long as the block is.
Shown == {"text", "tool_use"}
ShownIn(m) == {n \in DOMAIN m : m[n].type \in Shown}
ItemId(m, n) == IF m[n].type = "tool_use" THEN n ELSE MsgId
ItemFits(item, m, open) ==
    /\ item.at \in ShownIn(m)
    /\ item.id = ItemId(m, item.at)
    /\ item.body = m[item.at].body
    /\ item.open <=> open /\ item.at = Len(m)
    /\ ~item.open => item.final = item.body
PlacesOf(items) == [i \in 1..Len(items) |-> items[i].at]
ItemsFit(items, m, open) ==
    /\ Lists(PlacesOf(items), ShownIn(m))
    /\ \A i \in 1..Len(items) : ItemFits(items[i], m, open)

RespInv ==
    /\ state \in State /\ resp \in Resp
    /\ resp.status = "completed" => phase = "stopped" /\ resp.counted = counted
    /\ state.counted = counted
    /\ phase # "cut" => /\ StateFits(state, message, phase = "block")
                        /\ ItemsFit(resp.items, message, phase = "block")
                        /\ ~resp.orphans

IInv == MessageInv /\ ChatInv /\ RespInv

-----------------------------------------------------------------------------
(* The chat completion *)

\* A new block is empty, so what is joined stays.
LEMMA JoinsAdded ==
    ASSUME NEW m, NEW type, NEW now, Added(now, m, type),
           NEW T, NEW text, Joins(text, BodiesIn(m, T))
    PROVE  Joins(text, BodiesIn(now, T))
  <1>1. CASE T = type
    BY <1>1, BodiesAdded, JoinsAnother
  <1>2. CASE T # type
    BY <1>2, OtherBodiesKept
  <1> QED BY <1>1, <1>2

\* A piece goes to the end of what is joined, for the type of the last block.
LEMMA JoinsFilled ==
    ASSUME NEW m, NEW p, NEW now, Filled(now, m, p),
           NEW T, NEW text, Joins(text, BodiesIn(m, T))
    PROVE  Joins(IF T = m[Len(m)].type THEN Append(text, p) ELSE text, BodiesIn(now, T))
  <1>1. CASE T = m[Len(m)].type
    <2> DEFINE b == BodiesIn(m, T)
               n == Len(b)
    <2>01. Len(BodiesIn(m, T)) \in 1..Len(BodiesIn(m, T))
      BY <1>1, BodiesFilled
    <2>02. BodiesIn(now, T) = FilledLast(BodiesIn(m, T), p)
      BY <1>1, BodiesFilled
    <2>1. n \in 1..n /\ BodiesIn(now, T) = [b EXCEPT ![n] = Append(@, p)]
      BY <2>01, <2>02 DEF FilledLast
    <2>2. b \in Seq(Bodies) /\ p \in Pieces
      BY DEF Filled, Joins
    <2>3. n \in Nat \ {0}
      BY <2>1, <2>2, LenProperties
    <2>4. Joins(Append(text, p), BodiesIn(now, T))
      BY <2>1, <2>2, <2>3, JoinsMore
    <2> QED BY <1>1, <2>4
  <1>2. CASE T # m[Len(m)].type
    BY <1>2, OtherBodiesUnfilled
  <1> QED BY <1>1, <1>2

\* What WithCall and ChatDelta make of the calls.
Started(one, calls, n) ==
    IF one /\ calls # <<>> THEN [calls EXCEPT ![1].id = n]
    ELSE Append(calls, [id |-> n, args |-> <<>>])
FilledCall(calls, at, p) == [calls EXCEPT ![at].args = Append(@, p)]

\* A block that is no call leaves the client's calls right.
LEMMA CallsFitKept ==
    ASSUME NEW m, NEW type, NEW now, Added(now, m, type), type # "tool_use",
           NEW one, NEW keys, NEW calls, CallsFit(one, keys, calls, m)
    PROVE  CallsFit(one, keys, calls, now)
  <1>1. PlacesIn(now, "tool_use") = PlacesIn(m, "tool_use")
    BY BlockIsAdded
  <1>2. CallsIn(now) = CallsIn(m)
    BY CallsKept
  <1> QED BY <1>1, <1>2 DEF CallsFit

\* The head of a call gives it its place, or takes the one place of a function_call.
LEMMA CallsFitStarted ==
    ASSUME NEW m, NEW now, Added(now, m, "tool_use"), Short(now),
           NEW one \in BOOLEAN, NEW keys, NEW calls, CallsFit(one, keys, calls, m)
    PROVE  CallsFit(one, Append(keys, Len(now)), Started(one, calls, Len(now)), now)
  <1> DEFINE n == Len(now)
             c == [id |-> n, args |-> <<>>]
             after == Started(one, calls, n)
  <1>1. /\ Len(now) = Len(m) + 1 /\ Len(m) \in Nat
        /\ PlacesIn(now, "tool_use") = Append(keys, n)
    BY BlockIsAdded DEF CallsFit
  <1>2. CallsIn(now) = Append(CallsIn(m), c)
    BY <1>1, CallsAdded
  <1>3. /\ Len(keys) \in Nat
        /\ Len(Append(keys, n)) = Len(keys) + 1
    BY <1>1, PlacesAdded DEF CallsFit
  <1>4. c \in Call
    <2>1. n \in Indexes /\ <<>> \in Bodies
      BY <1>1, BlocksAssumption DEF Short, Indexes, Bodies
    <2> QED BY <2>1 DEF Call
  <1>5. calls \in Seq(Call)
    BY DEF CallsFit
  <1> HIDE DEF c, n
  <1>6. CASE ~one \/ calls = <<>>
    <2>1. after = Append(calls, c)
      BY <1>6 DEF Started, c
    <2>2. Append(calls, c) \in Seq(Call)
      BY <1>4, <1>5, AppendProperties
    <2>20. Append(calls, c) # <<>> /\ Len(Append(calls, c)) = Len(calls) + 1
      BY <1>4, <1>5, AppendProperties
    <2>21. calls = <<>> => Len(calls) = 0
      OBVIOUS
    <2>22. one => Len(Append(calls, c)) <= 1
      BY <1>6, <2>20, <2>21
    <2>3. ~one => calls = CallsIn(m)
      BY DEF CallsFit
    <2>4. one => calls = CallsIn(m)
      BY <1>3, <1>6 DEF CallsFit
    <2>5. after = CallsIn(now)
      BY <1>2, <2>1, <2>3, <2>4
    <2>6. Len(Append(keys, n)) # 0
      BY <1>3
    <2> HIDE DEF after
    <2>7. CallsFit(one, Append(keys, n), after, now)
      BY <1>1, <2>1, <2>2, <2>20, <2>22, <2>5, <2>6 DEF CallsFit
    <2> QED BY <2>7 DEF after, n
  <1>7. CASE one /\ calls # <<>>
    <2>1. after = [calls EXCEPT ![1].id = n]
      BY <1>7 DEF Started
    <2>2. Len(calls) <= 1 /\ Len(keys) # 0
      BY <1>7 DEF CallsFit
    <2>3. Len(calls) = 1 /\ calls \in [1..1 -> Call]
      <3>1. Len(calls) \in Nat /\ calls \in [1..Len(calls) -> Call] /\ Len(calls) # 0
        BY <1>5, <1>7, LenProperties, EmptySeq
      <3> QED BY <2>2, <3>1
    <2>4. n \in Indexes
      BY <1>4 DEF c, Call
    <2>5. after \in [1..1 -> Call]
      BY <2>1, <2>3, <2>4 DEF Call
    <2> HIDE DEF after
    <2>6. after \in Seq(Call) /\ Len(after) = 1
      BY <2>5, FunctionIsSequence
    <2>7. after # <<>>
      BY <2>6
    <2>8. Len(Append(keys, n)) > 1
      BY <1>3, <2>2
    <2>9. CallsFit(one, Append(keys, n), after, now)
      BY <1>1, <1>7, <2>6, <2>7, <2>8 DEF CallsFit
    <2> QED BY <2>9 DEF after, n
  <1> QED BY <1>6, <1>7

\* A piece of another block leaves them right.
LEMMA CallsFitUnfilled ==
    ASSUME NEW m, NEW p, NEW now, Filled(now, m, p), m[Len(m)].type # "tool_use",
           NEW one, NEW keys, NEW calls, CallsFit(one, keys, calls, m)
    PROVE  CallsFit(one, keys, calls, now)
  <1>1. PlacesIn(now, "tool_use") = PlacesIn(m, "tool_use")
    BY BlockIsFilled
  <1>2. CallsIn(now) = CallsIn(m)
    BY CallsUnfilled
  <1> QED BY <1>1, <1>2 DEF CallsFit

\* A piece of the arguments goes to the last call, by the place of its key.
LEMMA CallsFitFilled ==
    ASSUME NEW m, NEW p, NEW now, Filled(now, m, p), Short(m), m[Len(m)].type = "tool_use",
           NEW one \in BOOLEAN, NEW keys, NEW calls, CallsFit(one, keys, calls, m),
           NEW at, at = IF one THEN 1 ELSE Len(keys)
    PROVE  /\ at \in DOMAIN calls
           /\ CallsFit(one, keys, FilledCall(calls, at, p), now)
  <1> DEFINE after == [calls EXCEPT ![at].args = Append(@, p)]
             n == Len(CallsIn(m))
  <1>0. PlacesIn(now, "tool_use") = PlacesIn(m, "tool_use") /\ m \in Seq(Block)
    BY BlockIsFilled
  <1>1. PlacesIn(now, "tool_use") = keys /\ p \in Pieces
    BY <1>0 DEF CallsFit, Filled
  <1>2. n \in 1..n /\ CallsIn(now) = [CallsIn(m) EXCEPT ![n].args = Append(@, p)]
    BY CallsFilled
  <1>3. n = Len(keys) /\ n \in Nat /\ CallsIn(m) \in Seq(Call)
    BY CallsFacts, LenProperties DEF CallsFit
  <1>4. calls \in Seq(Call) /\ Len(calls) \in Nat /\ DOMAIN calls = 1..Len(calls)
        /\ calls \in [1..Len(calls) -> Call]
    BY LenProperties DEF CallsFit
  <1>5. at \in 1..Len(calls)
    <2>1. CASE one
      <3>1. calls # <<>> /\ Len(calls) <= 1
        BY <1>2, <1>3, <2>1 DEF CallsFit
      <3>2. Len(calls) # 0
        BY <1>4, <3>1, EmptySeq
      <3> QED BY <1>4, <2>1, <3>1, <3>2
    <2>2. CASE ~one
      BY <1>2, <1>3, <2>2 DEF CallsFit
    <2> QED BY <2>1, <2>2
  <1>6. Append(calls[at].args, p) \in Bodies /\ calls[at] \in Call
    <2>1. calls[at] \in Call
      BY <1>4, <1>5
    <2>2. calls[at].args \in Bodies
      BY <2>1 DEF Call
    <2> QED BY <1>1, <2>1, <2>2, AppendProperties DEF Bodies
  <1>7. [calls[at] EXCEPT !.args = Append(@, p)] \in Call
    BY <1>6 DEF Call
  <1>8. after \in [1..Len(calls) -> Call]
    BY <1>4, <1>5, <1>7
  <1>9. ~one \/ Len(keys) <= 1 => after = CallsIn(now)
    <2> SUFFICES ASSUME ~one \/ Len(keys) <= 1 PROVE after = CallsIn(now)
      OBVIOUS
    <2>1. calls = CallsIn(m)
      BY DEF CallsFit
    <2>2. at = n
      BY <1>2, <1>3
    <2> QED BY <1>2, <2>1, <2>2
  <1> HIDE DEF after
  <1>10. after \in Seq(Call) /\ Len(after) = Len(calls)
    BY <1>4, <1>8, FunctionIsSequence
  <1>11. after # <<>> /\ Len(keys) # 0
    BY <1>2, <1>3, <1>5, <1>10
  <1>12. one => Len(after) <= 1
    BY <1>10 DEF CallsFit
  <1>13. CallsFit(one, keys, after, now)
    BY <1>1, <1>9, <1>10, <1>11, <1>12 DEF CallsFit
  <1> QED BY <1>4, <1>5, <1>13 DEF after, FilledCall

\* The search for the index of a call finds the last.
LEMMA ToolIndexIsLast ==
    ASSUME message \in Seq(Block), Len(message) >= 1, message[Len(message)].type = "tool_use",
           order = PlacesIn(message, "tool_use")
    PROVE  /\ Len(message) \in ToSet(order)
           /\ ToolIndex(Len(message)) = IF legacy THEN 1 ELSE Len(order)
  <1> DEFINE n == Len(message)
             Is(i) == order[i] = n /\ \A j \in 1..(i - 1) : order[j] # n
  <1>1. /\ DOMAIN order = 1..Len(order) /\ Len(order) \in Nat
        /\ Len(order) \in 1..Len(order)
        /\ \A i \in 1..Len(order) : order[i] = n <=> i = Len(order)
    BY PlacesFacts, LastPlace
  <1>2. n \in ToSet(order)
    BY <1>1 DEF ToSet
  <1>3. Len(order) \in DOMAIN order /\ Is(Len(order))
    BY <1>1
  <1>4. \A i \in DOMAIN order : Is(i) => i = Len(order)
    BY <1>1
  <1>5. (CHOOSE i \in DOMAIN order : Is(i)) = Len(order)
    <2> HIDE DEF Is
    <2> QED BY <1>3, <1>4
  <1> QED BY <1>2, <1>5 DEF ToolIndex

\* A content_block_start adds an empty block to the message.
LEMMA MessageStarted ==
    ASSUME MessageInv, NEW type \in Types, BlockStart(type)
    PROVE  /\ Added(message', message, type) /\ Short(message')
           /\ message'[Len(message')].type = type /\ Len(message') = Len(message) + 1
           /\ MessageInv'
  <1>1. /\ message \in Seq(Block) /\ Len(message) < MaxBlocks
        /\ message' = Append(message, NewBlock(type))
    BY DEF MessageInv, Short, BlockStart, NewBlock
  <1>2. Added(message', message, type)
    BY <1>1 DEF Added
  <1>3. /\ message' \in Seq(Block) /\ Len(message') = Len(message) + 1 /\ Len(message) \in Nat
        /\ message'[Len(message) + 1] = NewBlock(type)
    BY <1>2, BlockIsAdded
  <1>4. Short(message')
    BY <1>1, <1>3, BlocksAssumption DEF Short
  <1>5. Len(message') >= 1
    BY <1>3
  <1>6. MessageInv'
    BY <1>4, <1>5 DEF MessageInv, BlockStart, Phases
  <1>7. message'[Len(message')].type = type
    BY <1>3 DEF NewBlock
  <1> QED BY <1>2, <1>3, <1>4, <1>6, <1>7

\* A content_block_delta fills the last block of the message.
LEMMA MessageFilled ==
    ASSUME MessageInv, NEW p \in Pieces, BlockDelta(p)
    PROVE  /\ Filled(message', message, p) /\ Len(message) >= 1 /\ message \in Seq(Block)
           /\ Len(message') = Len(message)
           /\ MessageInv'
  <1>1. /\ message \in Seq(Block) /\ Len(message) >= 1
        /\ message' = [message EXCEPT ![Len(message)].body = Append(@, p)]
    BY DEF MessageInv, Short, BlockDelta
  <1>2. Filled(message', message, p)
    BY <1>1 DEF Filled
  <1>3. message' \in Seq(Block) /\ Len(message') = Len(message)
    BY <1>2, BlockIsFilled
  <1>4. MessageInv'
    BY <1>1, <1>3 DEF MessageInv, BlockDelta, Short
  <1> QED BY <1>1, <1>2, <1>3, <1>4

\* content_block_start of the chat completion keeps its invariant.
LEMMA ChatStarted ==
    ASSUME MessageInv, ChatInv, NEW type \in Types, BlockStart(type)
    PROVE  ChatInv'
  <1>1. Added(message', message, type) /\ Short(message')
    BY MessageStarted
  <1>2. /\ chat \in Chat /\ CallsFit(legacy, order, chat.calls, message)
        /\ Joins(chat.text, BodiesIn(message, "text"))
        /\ Joins(chat.reasoning, BodiesIn(message, "thinking"))
        /\ ~chat.done /\ phase = "between" /\ phase' = "block" /\ legacy' = legacy
    BY DEF ChatInv, ChatFits, BlockStart
  <1>3. /\ Joins(chat.text, BodiesIn(message', "text"))
        /\ Joins(chat.reasoning, BodiesIn(message', "thinking"))
    BY <1>1, <1>2, JoinsAdded
  <1>4. CASE type # "tool_use"
    <2>1. order' = order /\ chat' = chat
      BY <1>4 DEF BlockStart, ChatBlockStart, Tool
    <2>2. CallsFit(legacy, order, chat.calls, message')
      BY <1>1, <1>2, <1>4, CallsFitKept
    <2> QED BY <1>2, <1>3, <2>1, <2>2 DEF ChatInv, ChatFits
  <1>5. CASE type = "tool_use"
    <2> DEFINE n == Len(message')
               calls == Started(legacy, chat.calls, n)
    <2>1. order' = Append(order, n) /\ chat' = WithCall(n)
      BY <1>5 DEF BlockStart, ChatBlockStart, Tool
    <2>2. chat' = [chat EXCEPT !.calls = calls]
      BY <2>1 DEF WithCall, Started
    <2>3. legacy \in BOOLEAN
      BY DEF MessageInv
    <2>4. CallsFit(legacy, Append(order, n), calls, message')
      BY <1>1, <1>2, <1>5, <2>3, CallsFitStarted
    <2>5. calls \in Seq(Call)
      BY <2>4 DEF CallsFit
    <2> HIDE DEF calls, n
    <2>6. /\ chat' \in Chat /\ chat'.calls = calls /\ chat'.text = chat.text
          /\ chat'.reasoning = chat.reasoning /\ chat'.done = chat.done
      BY <1>2, <2>2, <2>5 DEF Chat
    <2> QED BY <1>2, <1>3, <2>1, <2>4, <2>6 DEF ChatInv, ChatFits
  <1> QED BY <1>4, <1>5

\* content_block_delta of the chat completion keeps its invariant.
LEMMA ChatFilled ==
    ASSUME MessageInv, ChatInv, NEW p \in Pieces, BlockDelta(p)
    PROVE  ChatInv'
  <1> DEFINE n == Len(message)
             type == message[n].type
  <1>1. /\ Filled(message', message, p) /\ n >= 1 /\ message \in Seq(Block)
        /\ Short(message)
    BY MessageFilled DEF MessageInv
  <1>2. /\ chat \in Chat /\ CallsFit(legacy, order, chat.calls, message)
        /\ Joins(chat.text, BodiesIn(message, "text"))
        /\ Joins(chat.reasoning, BodiesIn(message, "thinking"))
        /\ ~chat.done /\ phase = "block" /\ phase' = "block" /\ legacy' = legacy
        /\ order' = order
    BY DEF ChatInv, ChatFits, BlockDelta
  <1>3. /\ Joins(IF "text" = type THEN Append(chat.text, p) ELSE chat.text,
                 BodiesIn(message', "text"))
        /\ Joins(IF "thinking" = type THEN Append(chat.reasoning, p) ELSE chat.reasoning,
                 BodiesIn(message', "thinking"))
    BY <1>1, <1>2, JoinsFilled
  <1>4. type # "tool_use" => CallsFit(legacy, order, chat.calls, message')
    BY <1>1, <1>2, CallsFitUnfilled
  <1>5. ChatDelta(n, type, p)
    BY DEF BlockDelta
  <1>6. type \in Types
    BY <1>1, MessageFacts
  <1>7. ASSUME NEW t, NEW b, Joins(t, b) PROVE t \in Bodies
    BY <1>7, JoinsIsFlatten
  <1> HIDE DEF n, type
  <1>8. CASE type = "text"
    <2>1. chat' = [chat EXCEPT !.text = Append(chat.text, p)]
      BY <1>5, <1>8 DEF ChatDelta, Tool
    <2>2. Joins(Append(chat.text, p), BodiesIn(message', "text"))
      BY <1>3, <1>8
    <2>3. Append(chat.text, p) \in Bodies
      BY <1>7, <2>2
    <2>4. /\ chat' \in Chat /\ chat'.calls = chat.calls /\ chat'.text = Append(chat.text, p)
          /\ chat'.reasoning = chat.reasoning /\ chat'.done = chat.done
      BY <1>2, <2>1, <2>3 DEF Chat
    <2> QED BY <1>2, <1>3, <1>4, <1>8, <2>2, <2>4 DEF ChatInv, ChatFits
  <1>9. CASE type = "thinking"
    <2>1. chat' = [chat EXCEPT !.reasoning = Append(chat.reasoning, p)]
      BY <1>5, <1>9 DEF ChatDelta, Tool
    <2>2. Joins(Append(chat.reasoning, p), BodiesIn(message', "thinking"))
      BY <1>3, <1>9
    <2>3. Append(chat.reasoning, p) \in Bodies
      BY <1>7, <2>2
    <2>4. /\ chat' \in Chat /\ chat'.calls = chat.calls /\ chat'.text = chat.text
          /\ chat'.reasoning = Append(chat.reasoning, p) /\ chat'.done = chat.done
      BY <1>2, <2>1, <2>3 DEF Chat
    <2> QED BY <1>2, <1>3, <1>4, <1>9, <2>2, <2>4 DEF ChatInv, ChatFits
  <1>10. CASE type = "tool_use"
    <2> DEFINE at == ToolIndex(n)
               calls == FilledCall(chat.calls, at, p)
    <2>1. order = PlacesIn(message, "tool_use")
      BY <1>2 DEF CallsFit
    <2>2. n \in ToSet(order) /\ at = IF legacy THEN 1 ELSE Len(order)
      BY <1>1, <1>10, <2>1, ToolIndexIsLast DEF n, type
    <2>3. chat' = [chat EXCEPT !.calls = calls]
      BY <1>5, <1>10, <2>2 DEF ChatDelta, Tool, FilledCall
    <2>4. legacy \in BOOLEAN
      BY DEF MessageInv
    <2> HIDE DEF at
    <2>40. message[Len(message)].type = "tool_use"
      BY <1>10 DEF n, type
    <2>5. CallsFit(legacy, order, calls, message')
      BY <1>1, <1>2, <2>2, <2>4, <2>40, CallsFitFilled
    <2>6. calls \in Seq(Call)
      BY <2>5 DEF CallsFit
    <2> HIDE DEF calls
    <2>7. /\ chat' \in Chat /\ chat'.calls = calls /\ chat'.text = chat.text
          /\ chat'.reasoning = chat.reasoning /\ chat'.done = chat.done
      BY <1>2, <2>3, <2>6 DEF Chat
    <2> QED BY <1>2, <1>3, <1>10, <2>5, <2>7 DEF ChatInv, ChatFits
  <1>11. CASE type = "redacted_thinking"
    <2>1. chat' = chat
      BY <1>5, <1>11 DEF ChatDelta, Tool
    <2> QED BY <1>2, <1>3, <1>4, <1>11, <2>1 DEF ChatInv, ChatFits
  <1> QED BY <1>6, <1>8, <1>9, <1>10, <1>11 DEF Types

-----------------------------------------------------------------------------
(* The items of the response *)

Items == Seq(Item)

\* Blocks that are shown are blocks.
LEMMA ShownFacts ==
    ASSUME NEW m \in Seq(Block)
    PROVE  ShownIn(m) \subseteq 1..Len(m) /\ ShownIn(m) \subseteq Nat /\ Len(m) \in Nat
  BY MessageFacts DEF ShownIn

\* What a sequence of items is made of.
LEMMA ItemsFacts ==
    ASSUME NEW items \in Items
    PROVE  /\ Len(items) \in Nat /\ DOMAIN items = 1..Len(items)
           /\ items \in [1..Len(items) -> Item]
           /\ \A i \in 1..Len(items) : items[i] \in Item
  BY LenProperties DEF Items

\* A block of a type that is shown is one more shown.
LEMMA ShownAdded ==
    ASSUME NEW m, NEW type, NEW now, Added(now, m, type)
    PROVE  ShownIn(now) = ShownIn(m) \cup (IF type \in Shown THEN {Len(now)} ELSE {})
  <1>1. /\ now \in Seq(Block) /\ Len(now) = Len(m) + 1 /\ Len(m) \in Nat
        /\ now[Len(m) + 1] = NewBlock(type)
        /\ \A n \in 1..Len(m) : now[n] = m[n]
    BY BlockIsAdded
  <1>2. m \in Seq(Block)
    BY DEF Added
  <1>3. DOMAIN m = 1..Len(m) /\ DOMAIN now = 1..(Len(m) + 1)
    BY <1>1, <1>2, MessageFacts
  <1>4. DOMAIN now = DOMAIN m \cup {Len(now)} /\ Len(now) \notin DOMAIN m
    BY <1>1, <1>3
  <1>5. now[Len(now)].type = type
    BY <1>1 DEF NewBlock
  <1> QED BY <1>1, <1>3, <1>4, <1>5 DEF ShownIn

\* An item that is closed stays what it is when a block is added.
LEMMA ItemFitsAdded ==
    ASSUME NEW m, NEW type, NEW now, Added(now, m, type),
           NEW item, ItemFits(item, m, FALSE)
    PROVE  ItemFits(item, now, TRUE)
  <1>1. /\ Len(now) = Len(m) + 1 /\ Len(m) \in Nat
        /\ \A n \in 1..Len(m) : now[n] = m[n]
    BY BlockIsAdded
  <1>2. m \in Seq(Block)
    BY DEF Added
  <1>3. item.at \in ShownIn(m)
    BY DEF ItemFits
  <1>4. item.at \in 1..Len(m) /\ item.at \in ShownIn(now)
    BY <1>2, <1>3, ShownFacts, ShownAdded
  <1>5. item.at # Len(now) /\ now[item.at] = m[item.at]
    BY <1>1, <1>4
  <1> QED BY <1>4, <1>5 DEF ItemFits, ItemId

\* A block that is not shown adds no item.
LEMMA ItemsFitAdded ==
    ASSUME NEW m, NEW type, NEW now, Added(now, m, type), type \notin Shown,
           NEW items, ItemsFit(items, m, FALSE)
    PROVE  ItemsFit(items, now, TRUE)
  <1>1. ShownIn(now) = ShownIn(m)
    BY ShownAdded
  <1>2. \A i \in 1..Len(items) : ItemFits(items[i], now, TRUE)
    BY ItemFitsAdded DEF ItemsFit
  <1> QED BY <1>1, <1>2 DEF ItemsFit

\* A block that is shown has its item, opened, at the end.
LEMMA ItemsFitStarted ==
    ASSUME NEW m, NEW type, NEW now, Added(now, m, type), type \in Shown, Short(now),
           NEW items \in Items, ItemsFit(items, m, FALSE)
    PROVE  LET item == NewItem(Len(now), ItemId(now, Len(now)))
           IN  /\ item \in Item
               /\ Append(items, item) \in Items
               /\ ItemsFit(Append(items, item), now, TRUE)
  <1> DEFINE n == Len(now)
             item == NewItem(n, ItemId(now, n))
             after == Append(items, item)
             s == PlacesOf(items)
             t == PlacesOf(after)
             k == Len(items)
  <1>1. /\ Len(now) = Len(m) + 1 /\ Len(m) \in Nat /\ now \in Seq(Block)
        /\ now[Len(m) + 1] = NewBlock(type)
    BY BlockIsAdded
  <1>2. m \in Seq(Block)
    BY DEF Added
  <1>3. n \in Indexes /\ now[n].type = type /\ now[n].body = <<>>
    BY <1>1, BlocksAssumption DEF Indexes, Short, NewBlock
  <1>4. ItemId(now, n) \in {MsgId} \cup Indexes
    BY <1>3 DEF ItemId
  <1>5. item \in Item
    BY <1>3, <1>4 DEF NewItem, Item, Bodies
  <1>6. n \in ShownIn(now)
    BY ShownAdded
  <1>7. /\ item.at = n /\ item.id = ItemId(now, n) /\ item.body = <<>> /\ item.open = TRUE
    BY DEF NewItem
  <1>8. ItemFits(item, now, TRUE)
    BY <1>3, <1>6, <1>7 DEF ItemFits
  <1> HIDE DEF item
  <1>9. k \in Nat /\ \A i \in 1..k : items[i] \in Item
    BY ItemsFacts
  <1>10. /\ after \in Items /\ Len(after) = k + 1 /\ after[k + 1] = item
         /\ \A i \in 1..k : after[i] = items[i]
    BY <1>5, AppendProperties DEF Items
  <1> HIDE DEF after
  <1>11. \A i \in 1..(k + 1) : ItemFits(after[i], now, TRUE)
    <2>1. \A i \in 1..k : ItemFits(items[i], m, FALSE)
      BY DEF ItemsFit
    <2>2. \A i \in 1..k : ItemFits(items[i], now, TRUE)
      BY <2>1, ItemFitsAdded
    <2>3. \A i \in 1..(k + 1) : i = k + 1 \/ i \in 1..k
      BY <1>9
    <2> QED BY <1>8, <1>10, <2>2, <2>3
  <1>12. Lists(s, ShownIn(m)) /\ ShownIn(m) \subseteq 1..Len(m)
    BY <1>2, ShownFacts DEF ItemsFit
  <1>13. ShownIn(now) = ShownIn(m) \cup {Len(m) + 1}
    BY <1>1, ShownAdded
  <1>14. Lists(Append(s, Len(m) + 1), ShownIn(now))
    BY <1>1, <1>12, <1>13, ListsOneMore
  <1>15. Append(s, Len(m) + 1) = t
    <2>1. /\ Len(m) + 1 \in Nat
      BY <1>1
    <2>2. s \in Seq(Nat) /\ Len(s) \in Nat
      BY <1>12, LenProperties DEF Lists
    <2>3. Len(s) = k /\ \A i \in 1..k : s[i] = items[i].at
      BY <1>9 DEF PlacesOf
    <2>4. /\ Append(s, Len(m) + 1) \in Seq(Nat)
          /\ Len(Append(s, Len(m) + 1)) = k + 1
          /\ \A i \in 1..k : Append(s, Len(m) + 1)[i] = s[i]
          /\ Append(s, Len(m) + 1)[k + 1] = Len(m) + 1
      BY <2>1, <2>2, <2>3, AppendProperties
    <2>5. \A i \in 1..(k + 1) : Append(s, Len(m) + 1)[i] = after[i].at
      <3>1. \A i \in 1..(k + 1) : i = k + 1 \/ i \in 1..k
        BY <1>9
      <3>2. after[k + 1].at = Len(m) + 1
        BY <1>1, <1>7, <1>10
      <3> QED BY <1>10, <2>3, <2>4, <3>1, <3>2
    <2> DEFINE u == Append(s, Len(m) + 1)
    <2>6. u = [i \in 1..(k + 1) |-> u[i]]
      BY <2>4, LenProperties
    <2> HIDE DEF u
    <2> QED BY <1>10, <2>5, <2>6 DEF PlacesOf, u
  <1>16. ItemsFit(after, now, TRUE)
    BY <1>10, <1>11, <1>14, <1>15 DEF ItemsFit
  <1> QED BY <1>5, <1>10, <1>16 DEF item, after

WithBody(items, n, p) ==
    [i \in 1..Len(items) |-> IF items[i].at = n
                             THEN [items[i] EXCEPT !.body = Append(@, p)] ELSE items[i]]
WithFinal(items, n, final) ==
    [i \in 1..Len(items) |-> IF items[i].at = n
                             THEN [items[i] EXCEPT !.final = final, !.open = FALSE]
                             ELSE items[i]]

\* A delta changes the body of the items of its block, and nothing else.
LEMMA WithBodyFacts ==
    ASSUME NEW items \in Items, NEW n, NEW p \in Pieces
    PROVE  /\ WithBody(items, n, p) \in Items /\ Len(WithBody(items, n, p)) = Len(items)
           /\ PlacesOf(WithBody(items, n, p)) = PlacesOf(items)
           /\ \A i \in 1..Len(items) :
                  LET item == items[i]
                      after == WithBody(items, n, p)[i]
                  IN  /\ after.at = item.at /\ after.id = item.id /\ after.open = item.open
                      /\ after.final = item.final
                      /\ after.body = IF item.at = n THEN Append(item.body, p) ELSE item.body
  <1> DEFINE after == WithBody(items, n, p)
  <1>1. Len(items) \in Nat /\ \A i \in 1..Len(items) : items[i] \in Item
    BY ItemsFacts
  <1>2. ASSUME NEW i \in 1..Len(items)
        PROVE  /\ after[i] \in Item
               /\ after[i].at = items[i].at /\ after[i].id = items[i].id
               /\ after[i].open = items[i].open /\ after[i].final = items[i].final
               /\ after[i].body = IF items[i].at = n THEN Append(items[i].body, p)
                                  ELSE items[i].body
    <2>1. items[i] \in Item
      BY <1>1
    <2>2. items[i].body \in Bodies
      BY <2>1 DEF Item
    <2>3. Append(items[i].body, p) \in Bodies
      BY <2>2, AppendProperties DEF Bodies
    <2>4. after[i] = IF items[i].at = n THEN [items[i] EXCEPT !.body = Append(items[i].body, p)]
                     ELSE items[i]
      BY DEF WithBody
    <2> HIDE DEF after
    <2> QED BY <2>1, <2>3, <2>4 DEF Item
  <1>3. after = [i \in 1..Len(items) |-> after[i]]
    BY DEF WithBody
  <1>4. after \in [1..Len(items) -> Item]
    <2> HIDE DEF after
    <2> QED BY <1>2, <1>3
  <1>5. after \in Items /\ Len(after) = Len(items)
    <2> HIDE DEF after
    <2> QED BY <1>1, <1>4, FunctionIsSequence DEF Items
  <1> HIDE DEF after
  <1>6. PlacesOf(after) = PlacesOf(items)
    BY <1>2, <1>5 DEF PlacesOf
  <1> QED BY <1>2, <1>5, <1>6 DEF after

\* A done event closes the items of its block, and changes nothing else.
LEMMA WithFinalFacts ==
    ASSUME NEW items \in Items, NEW n, NEW final \in Bodies
    PROVE  /\ WithFinal(items, n, final) \in Items
           /\ Len(WithFinal(items, n, final)) = Len(items)
           /\ PlacesOf(WithFinal(items, n, final)) = PlacesOf(items)
           /\ \A i \in 1..Len(items) :
                  LET item == items[i]
                      after == WithFinal(items, n, final)[i]
                  IN  /\ after.at = item.at /\ after.id = item.id /\ after.body = item.body
                      /\ item.at = n => after.final = final /\ ~after.open
                      /\ item.at # n => after = item
  <1> DEFINE after == WithFinal(items, n, final)
  <1>1. Len(items) \in Nat /\ \A i \in 1..Len(items) : items[i] \in Item
    BY ItemsFacts
  <1>2. ASSUME NEW i \in 1..Len(items)
        PROVE  /\ after[i] \in Item
               /\ after[i].at = items[i].at /\ after[i].id = items[i].id
               /\ after[i].body = items[i].body
               /\ items[i].at = n => after[i].final = final /\ ~after[i].open
               /\ items[i].at # n => after[i] = items[i]
    <2>1. items[i] \in Item
      BY <1>1
    <2>2. after[i] = IF items[i].at = n THEN [items[i] EXCEPT !.final = final, !.open = FALSE]
                     ELSE items[i]
      BY DEF WithFinal
    <2> HIDE DEF after
    <2> QED BY <2>1, <2>2 DEF Item
  <1>3. after = [i \in 1..Len(items) |-> after[i]]
    BY DEF WithFinal
  <1>4. after \in [1..Len(items) -> Item]
    <2> HIDE DEF after
    <2> QED BY <1>2, <1>3
  <1>5. after \in Items /\ Len(after) = Len(items)
    <2> HIDE DEF after
    <2> QED BY <1>1, <1>4, FunctionIsSequence DEF Items
  <1> HIDE DEF after
  <1>6. PlacesOf(after) = PlacesOf(items)
    BY <1>2, <1>5 DEF PlacesOf
  <1> QED BY <1>2, <1>5, <1>6 DEF after

\* A piece changes nothing of which blocks are shown.
LEMMA ShownFilled ==
    ASSUME NEW m, NEW p, NEW now, Filled(now, m, p)
    PROVE  ShownIn(now) = ShownIn(m)
  <1>1. /\ m \in Seq(Block) /\ now \in Seq(Block) /\ Len(now) = Len(m)
        /\ \A n \in 1..Len(m) : now[n].type = m[n].type
    BY BlockIsFilled
  <1>2. DOMAIN m = 1..Len(m) /\ DOMAIN now = 1..Len(m)
    BY <1>1, MessageFacts
  <1> QED BY <1>1, <1>2 DEF ShownIn

\* A delta is in the item of its block and no other.
LEMMA ItemsFitFilled ==
    ASSUME NEW m, NEW p, NEW now, Filled(now, m, p),
           NEW items \in Items, ItemsFit(items, m, TRUE)
    PROVE  ItemsFit(WithBody(items, Len(m), p), now, TRUE)
  <1> DEFINE after == WithBody(items, Len(m), p)
  <1>1. /\ m \in Seq(Block) /\ Len(now) = Len(m) /\ Len(m) \in 1..Len(m)
        /\ \A n \in 1..Len(m) : now[n].type = m[n].type
        /\ \A n \in 1..Len(m) : n # Len(m) => now[n] = m[n]
        /\ now[Len(m)].body = Append(m[Len(m)].body, p)
    BY BlockIsFilled
  <1>2. p \in Pieces
    BY DEF Filled
  <1>3. ShownIn(now) = ShownIn(m) /\ ShownIn(m) \subseteq 1..Len(m)
    BY <1>1, ShownFilled, ShownFacts
  <1>4. Len(after) = Len(items) /\ PlacesOf(after) = PlacesOf(items)
    BY <1>2, WithBodyFacts
  <1>5. ASSUME NEW i \in 1..Len(items)
        PROVE  ItemFits(after[i], now, TRUE)
    <2>1. ItemFits(items[i], m, TRUE)
      BY DEF ItemsFit
    <2>2. /\ after[i].at = items[i].at /\ after[i].id = items[i].id
          /\ after[i].open = items[i].open /\ after[i].final = items[i].final
          /\ after[i].body = IF items[i].at = Len(m) THEN Append(items[i].body, p)
                             ELSE items[i].body
      BY <1>2, WithBodyFacts
    <2> HIDE DEF after
    <2> DEFINE at == items[i].at
    <2>3. at \in ShownIn(m) /\ at \in 1..Len(m)
      BY <1>3, <2>1 DEF ItemFits
    <2>4. ItemId(now, at) = ItemId(m, at)
      BY <1>1, <2>3 DEF ItemId
    <2>5. after[i].body = now[at].body
      BY <1>1, <2>1, <2>2, <2>3 DEF ItemFits
    <2>6. ~after[i].open => after[i].final = after[i].body
      BY <2>1, <2>2 DEF ItemFits
    <2>7. after[i].open <=> at = Len(now)
      BY <1>1, <2>1, <2>2 DEF ItemFits
    <2> QED BY <1>3, <2>1, <2>2, <2>3, <2>4, <2>5, <2>6, <2>7 DEF ItemFits
  <1> HIDE DEF after
  <1>6. ItemsFit(after, now, TRUE)
    BY <1>3, <1>4, <1>5 DEF ItemsFit
  <1> QED BY <1>6 DEF after

\* The block is done: its item has the whole of its body.
LEMMA ItemsFitClosed ==
    ASSUME NEW m \in Seq(Block), Len(m) >= 1,
           NEW items \in Items, ItemsFit(items, m, TRUE),
           NEW final, final = m[Len(m)].body
    PROVE  ItemsFit(WithFinal(items, Len(m), final), m, FALSE)
  <1> DEFINE after == WithFinal(items, Len(m), final)
  <1>1. Len(m) \in 1..Len(m) /\ final \in Bodies
    BY MessageFacts
  <1>2. Len(after) = Len(items) /\ PlacesOf(after) = PlacesOf(items)
    BY <1>1, WithFinalFacts
  <1>3. ASSUME NEW i \in 1..Len(items)
        PROVE  ItemFits(after[i], m, FALSE)
    <2>1. ItemFits(items[i], m, TRUE)
      BY DEF ItemsFit
    <2>2. /\ after[i].at = items[i].at /\ after[i].id = items[i].id
          /\ after[i].body = items[i].body
          /\ items[i].at = Len(m) => after[i].final = final /\ ~after[i].open
          /\ items[i].at # Len(m) => after[i] = items[i]
      BY <1>1, WithFinalFacts
    <2> HIDE DEF after
    <2> QED BY <2>1, <2>2 DEF ItemFits
  <1> HIDE DEF after
  <1>4. ItemsFit(after, m, FALSE)
    BY <1>2, <1>3 DEF ItemsFit
  <1> QED BY <1>4 DEF after

\* A block that has no item opens and closes nothing.
LEMMA ItemsFitHidden ==
    ASSUME NEW m \in Seq(Block), Len(m) >= 1, m[Len(m)].type \notin Shown,
           NEW items, ItemsFit(items, m, TRUE)
    PROVE  ItemsFit(items, m, FALSE)
  <1>1. Len(m) \notin ShownIn(m)
    BY DEF ShownIn
  <1> QED BY <1>1 DEF ItemsFit, ItemFits

\* A piece of a block that is not shown changes no item.
LEMMA ItemsFitUnfilled ==
    ASSUME NEW m, NEW p, NEW now, Filled(now, m, p), m[Len(m)].type \notin Shown,
           NEW items, ItemsFit(items, m, TRUE)
    PROVE  ItemsFit(items, now, TRUE)
  <1>1. /\ m \in Seq(Block) /\ Len(now) = Len(m) /\ Len(m) \in 1..Len(m)
        /\ \A n \in 1..Len(m) : n # Len(m) => now[n] = m[n]
    BY BlockIsFilled
  <1>2. /\ ShownIn(now) = ShownIn(m) /\ ShownIn(m) \subseteq 1..Len(m)
        /\ Len(m) \notin ShownIn(m)
    BY <1>1, ShownFilled, ShownFacts DEF ShownIn
  <1>3. ASSUME NEW i \in 1..Len(items)
        PROVE  ItemFits(items[i], now, TRUE)
    <2>1. ItemFits(items[i], m, TRUE)
      BY DEF ItemsFit
    <2>2. items[i].at \in ShownIn(m) /\ items[i].at \in 1..Len(m) /\ items[i].at # Len(m)
      BY <1>2, <2>1 DEF ItemFits
    <2>3. now[items[i].at] = m[items[i].at]
      BY <1>1, <2>2
    <2> QED BY <1>1, <1>2, <2>1, <2>3 DEF ItemFits, ItemId
  <1> QED BY <1>2, <1>3 DEF ItemsFit

\* Place and id name the item of the open block, and there is one.
LEMMA NamedFacts ==
    ASSUME NEW m \in Seq(Block), Len(m) >= 1, m[Len(m)].type \in Shown,
           resp.items \in Items, ItemsFit(resp.items, m, TRUE)
    PROVE  /\ Named(Len(m), ItemId(m, Len(m))) =
                  {i \in 1..Len(resp.items) : resp.items[i].at = Len(m)}
           /\ Named(Len(m), ItemId(m, Len(m))) # {}
           /\ DOMAIN resp.items = 1..Len(resp.items)
  <1> DEFINE items == resp.items
             n == Len(m)
  <1>1. n \in DOMAIN m /\ n \in ShownIn(m)
    BY MessageFacts DEF ShownIn
  <1>2. /\ Len(items) \in Nat /\ DOMAIN items = 1..Len(items)
        /\ \A i \in 1..Len(items) : items[i] \in Item
    BY ItemsFacts
  <1>3. \A i \in 1..Len(items) : ItemFits(items[i], m, TRUE)
    BY DEF ItemsFit
  <1>4. Named(n, ItemId(m, n)) = {i \in 1..Len(items) : items[i].at = n}
    BY <1>2, <1>3 DEF Named, ItemFits
  <1>5. \E i \in 1..Len(items) : items[i].at = n
    <2>1. PICK i \in 1..Len(PlacesOf(items)) : PlacesOf(items)[i] = n
      BY <1>1 DEF ItemsFit, Lists
    <2>2. Len(PlacesOf(items)) = Len(items) /\ PlacesOf(items)[i] = items[i].at
      BY <1>2, <2>1 DEF PlacesOf
    <2> QED BY <2>1, <2>2
  <1> QED BY <1>2, <1>4, <1>5

\* What an event that names the item of the open block makes of the response.
LEMMA DeltaIsHeard ==
    ASSUME NEW m \in Seq(Block), Len(m) >= 1, m[Len(m)].type \in Shown,
           resp \in Resp, ItemsFit(resp.items, m, TRUE), ~resp.orphans,
           NEW id, id = ItemId(m, Len(m)), NEW p \in Pieces,
           NEW after, after = WithDelta(Len(m), id, p)
    PROVE  /\ after \in Resp /\ after.items = WithBody(resp.items, Len(m), p)
           /\ ~after.orphans /\ after.status = resp.status /\ after.counted = resp.counted
  <1> DEFINE n == Len(m)
             items == [i \in DOMAIN resp.items |-> IF i \in Named(n, id)
                          THEN [resp.items[i] EXCEPT !.body = Append(@, p)]
                          ELSE resp.items[i]]
             lost == resp.orphans \/ Named(n, id) = {}
  <1>1. resp.items \in Items
    BY DEF Resp, Items
  <1>2. /\ Named(n, id) = {i \in 1..Len(resp.items) : resp.items[i].at = n}
        /\ Named(n, id) # {} /\ DOMAIN resp.items = 1..Len(resp.items)
    BY <1>1, NamedFacts
  <1>3. items = WithBody(resp.items, n, p)
    BY <1>2 DEF WithBody
  <1>4. lost = FALSE
    BY <1>2
  <1>5. after = [resp EXCEPT !.items = items, !.orphans = lost]
    BY DEF WithDelta
  <1>6. after = [resp EXCEPT !.items = WithBody(resp.items, n, p), !.orphans = FALSE]
    BY <1>3, <1>4, <1>5
  <1>7. WithBody(resp.items, n, p) \in Seq(Item)
    BY <1>1, WithBodyFacts DEF Items
  <1> QED BY <1>6, <1>7 DEF Resp

\* The same of the done events.
LEMMA DoneIsHeard ==
    ASSUME NEW m \in Seq(Block), Len(m) >= 1, m[Len(m)].type \in Shown,
           resp \in Resp, ItemsFit(resp.items, m, TRUE), ~resp.orphans,
           NEW id, id = ItemId(m, Len(m)), NEW final \in Bodies,
           NEW after, after = WithDone(Len(m), id, final)
    PROVE  /\ after \in Resp /\ after.items = WithFinal(resp.items, Len(m), final)
           /\ ~after.orphans /\ after.status = resp.status /\ after.counted = resp.counted
  <1> DEFINE n == Len(m)
             items == [i \in DOMAIN resp.items |-> IF i \in Named(n, id)
                          THEN [resp.items[i] EXCEPT !.final = final, !.open = FALSE]
                          ELSE resp.items[i]]
             lost == resp.orphans \/ Named(n, id) = {}
  <1>1. resp.items \in Items
    BY DEF Resp, Items
  <1>2. /\ Named(n, id) = {i \in 1..Len(resp.items) : resp.items[i].at = n}
        /\ Named(n, id) # {} /\ DOMAIN resp.items = 1..Len(resp.items)
    BY <1>1, NamedFacts
  <1>3. items = WithFinal(resp.items, n, final)
    BY <1>2 DEF WithFinal
  <1>4. lost = FALSE
    BY <1>2
  <1>5. after = [resp EXCEPT !.items = items, !.orphans = lost]
    BY DEF WithDone
  <1>6. after = [resp EXCEPT !.items = WithFinal(resp.items, n, final), !.orphans = FALSE]
    BY <1>3, <1>4, <1>5
  <1>7. WithFinal(resp.items, n, final) \in Seq(Item)
    BY <1>1, WithFinalFacts DEF Items
  <1> QED BY <1>6, <1>7 DEF Resp

\* content_block_start of the response keeps its invariant.
LEMMA RespStarted ==
    ASSUME MessageInv, RespInv, NEW type \in Types, BlockStart(type)
    PROVE  RespInv'
  <1> DEFINE now == message'
             n == Len(now)
             id == IF type = "tool_use" THEN n ELSE MsgId
  <1>1. /\ Added(now, message, type) /\ Short(now) /\ now[n].type = type
        /\ n = Len(message) + 1
    BY MessageStarted
  <1>2. /\ state \in State /\ resp \in Resp /\ state.counted = counted
        /\ ItemsFit(resp.items, message, FALSE) /\ ~resp.orphans
        /\ ~state.inText /\ ~state.inThinking /\ ~state.inTool
        /\ resp.status # "completed" /\ phase' = "block" /\ counted' = counted
        /\ ResponsesBlockStart(n, type)
    BY DEF RespInv, BlockStart, StateFits
  <1>30. now \in Seq(Block) /\ now[n] = NewBlock(type)
    BY <1>1, BlockIsAdded
  <1>3. now \in Seq(Block) /\ now[n].body = <<>>
    BY <1>30 DEF NewBlock
  <1>4. n \in Indexes
    <2>1. n \in Nat /\ n >= 1
      BY <1>1, MessageFacts DEF Added
    <2> QED BY <1>1, <2>1, BlocksAssumption DEF Short, Indexes
  <1>5. resp.items \in Items /\ <<>> \in Bodies
    BY <1>2 DEF Resp, Items, Bodies
  <1>6. ASSUME type \in Shown
        PROVE  LET after == Append(resp.items, NewItem(n, id))
               IN  after \in Seq(Item) /\ ItemsFit(after, now, TRUE)
    <2>1. id = ItemId(now, n)
      BY <1>1 DEF ItemId
    <2>2. LET item == NewItem(n, ItemId(now, n))
          IN  Append(resp.items, item) \in Items /\ ItemsFit(Append(resp.items, item), now, TRUE)
      BY <1>1, <1>2, <1>5, <1>6, ItemsFitStarted
    <2> QED BY <2>1, <2>2 DEF Items
  <1>7. type \notin Shown => ItemsFit(resp.items, now, TRUE)
    BY <1>1, <1>2, ItemsFitAdded
  <1> HIDE DEF now, n
  <1>8. CASE type = "text"
    <2> DEFINE after == Append(resp.items, NewItem(n, MsgId))
    <2>1. after \in Seq(Item) /\ ItemsFit(after, now, TRUE)
      BY <1>6, <1>8 DEF Shown
    <2>2. /\ state' = [state EXCEPT !.inText = TRUE, !.text = <<>>]
          /\ resp' = [resp EXCEPT !.items = after]
      BY <1>2, <1>8 DEF ResponsesBlockStart, Tool
    <2> HIDE DEF after
    <2>3. /\ resp' \in Resp /\ resp'.items = after /\ resp'.orphans = resp.orphans
          /\ resp'.status = resp.status
      BY <1>2, <2>1, <2>2 DEF Resp
    <2>4. /\ state' \in State /\ state'.inText /\ ~state'.inThinking /\ ~state'.inTool
          /\ state'.text = <<>> /\ state'.counted = state.counted
      BY <1>2, <1>5, <2>2 DEF State
    <2>5. StateFits(state', now, TRUE)
      BY <1>1, <1>3, <1>8, <2>4 DEF StateFits, now, n
    <2> QED BY <1>2, <2>1, <2>3, <2>4, <2>5 DEF RespInv, now
  <1>9. CASE type = "tool_use"
    <2> DEFINE after == Append(resp.items, NewItem(n, n))
    <2>1. after \in Seq(Item) /\ ItemsFit(after, now, TRUE)
      BY <1>6, <1>9 DEF Shown
    <2>2. /\ state' = [state EXCEPT !.inTool = TRUE, !.tool = n, !.args = <<>>]
          /\ resp' = [resp EXCEPT !.items = after]
      BY <1>2, <1>9 DEF ResponsesBlockStart, Tool
    <2> HIDE DEF after
    <2>3. /\ resp' \in Resp /\ resp'.items = after /\ resp'.orphans = resp.orphans
          /\ resp'.status = resp.status
      BY <1>2, <2>1, <2>2 DEF Resp
    <2>4. /\ state' \in State /\ ~state'.inText /\ ~state'.inThinking /\ state'.inTool
          /\ state'.args = <<>> /\ state'.tool = n /\ state'.counted = state.counted
      BY <1>2, <1>4, <1>5, <2>2 DEF State
    <2>5. StateFits(state', now, TRUE)
      BY <1>1, <1>3, <1>9, <2>4 DEF StateFits, now, n
    <2> QED BY <1>2, <2>1, <2>3, <2>4, <2>5 DEF RespInv, now
  <1>10. CASE type = "thinking"
    <2>1. ItemsFit(resp.items, now, TRUE)
      BY <1>7, <1>10 DEF Shown
    <2>2. state' = [state EXCEPT !.inThinking = TRUE] /\ resp' = resp
      BY <1>2, <1>10 DEF ResponsesBlockStart, Tool
    <2>4. /\ state' \in State /\ ~state'.inText /\ state'.inThinking /\ ~state'.inTool
          /\ state'.counted = state.counted
      BY <1>2, <2>2 DEF State
    <2>5. StateFits(state', now, TRUE)
      BY <1>1, <1>3, <1>10, <2>4 DEF StateFits, now, n
    <2> QED BY <1>2, <2>1, <2>2, <2>4, <2>5 DEF RespInv, now
  <1>11. CASE type = "redacted_thinking"
    <2>1. ItemsFit(resp.items, now, TRUE)
      BY <1>7, <1>11 DEF Shown
    <2>2. state' = state /\ resp' = resp
      BY <1>2, <1>11 DEF ResponsesBlockStart, Tool
    <2>5. StateFits(state', now, TRUE)
      BY <1>1, <1>2, <1>11, <2>2 DEF StateFits, now, n
    <2> QED BY <1>2, <2>1, <2>2, <2>5 DEF RespInv, now
  <1> QED BY <1>8, <1>9, <1>10, <1>11 DEF Types

\* content_block_delta of the response keeps its invariant.
LEMMA RespFilled ==
    ASSUME MessageInv, RespInv, NEW p \in Pieces, BlockDelta(p)
    PROVE  RespInv'
  <1> DEFINE now == message'
             n == Len(message)
             type == message[n].type
             body == message[n].body
  <1>1. /\ Filled(now, message, p) /\ n >= 1 /\ message \in Seq(Block) /\ Len(now) = n
        /\ Short(message)
    BY MessageFilled DEF MessageInv
  <1>2. /\ state \in State /\ resp \in Resp /\ state.counted = counted
        /\ StateFits(state, message, TRUE)
        /\ ItemsFit(resp.items, message, TRUE) /\ ~resp.orphans
        /\ resp.status # "completed" /\ phase' = "block" /\ counted' = counted
        /\ ResponsesDelta(n, type, p)
    BY DEF RespInv, BlockDelta
  <1>3. now[n].type = type /\ now[n].body = Append(body, p) /\ n \in 1..n
    BY <1>1, BlockIsFilled
  <1>4. body \in Bodies /\ type \in Types
    BY <1>1, <1>3, MessageFacts
  <1>5. Append(body, p) \in Bodies
    BY <1>4, AppendProperties DEF Bodies
  <1>6. resp.items \in Items
    BY <1>2 DEF Resp, Items
  <1>7. ItemsFit(WithBody(resp.items, n, p), now, TRUE)
    BY <1>1, <1>2, <1>6, ItemsFitFilled
  <1>8. type \notin Shown => ItemsFit(resp.items, now, TRUE)
    BY <1>1, <1>2, ItemsFitUnfilled
  <1>9. ASSUME NEW id, id = ItemId(message, n), type \in Shown, NEW after, after = WithDelta(n, id, p)
        PROVE  /\ after \in Resp /\ after.items = WithBody(resp.items, n, p)
               /\ ~after.orphans /\ after.status = resp.status
    BY <1>1, <1>2, <1>9, DeltaIsHeard
  <1>10. /\ state.inText <=> type = "text"
         /\ state.inThinking <=> type = "thinking"
         /\ state.inTool <=> type = "tool_use"
         /\ state.inText => state.text = body
         /\ state.inTool => state.args = body /\ state.tool = n
    BY <1>2 DEF StateFits
  <1>11. ASSUME NEW s,
                /\ s.inText <=> type = "text"
                /\ s.inThinking <=> type = "thinking"
                /\ s.inTool <=> type = "tool_use"
                /\ s.inText => s.text = Append(body, p)
                /\ s.inTool => s.args = Append(body, p) /\ s.tool = n
         PROVE  StateFits(s, now, TRUE)
    BY <1>1, <1>3, <1>11 DEF StateFits
  <1>12. ItemId(message, n) = IF type = "tool_use" THEN n ELSE MsgId
    BY DEF ItemId
  <1> HIDE DEF now, n, type, body
  <1>13. CASE type = "text"
    <2>1. /\ state' = [state EXCEPT !.text = Append(@, p)]
          /\ resp' = WithDelta(n, MsgId, p)
      BY <1>2, <1>13 DEF ResponsesDelta, Tool
    <2>2. /\ resp' \in Resp /\ resp'.items = WithBody(resp.items, n, p)
          /\ ~resp'.orphans /\ resp'.status = resp.status
      BY <1>9, <1>12, <1>13, <2>1 DEF Shown
    <2>3. state' = [state EXCEPT !.text = Append(body, p)]
      BY <1>10, <1>13, <2>1
    <2>4. /\ state' \in State /\ state'.inText = state.inText
          /\ state'.inThinking = state.inThinking /\ state'.inTool = state.inTool
          /\ state'.text = Append(body, p) /\ state'.counted = state.counted
      BY <1>2, <1>5, <2>3 DEF State
    <2>5. StateFits(state', now, TRUE)
      BY <1>10, <1>11, <1>13, <2>4
    <2> QED BY <1>2, <1>7, <2>2, <2>4, <2>5 DEF RespInv, now
  <1>14. CASE type = "tool_use"
    <2>1. /\ state' = [state EXCEPT !.args = Append(@, p)]
          /\ resp' = WithDelta(n, state.tool, p)
      BY <1>2, <1>14 DEF ResponsesDelta, Tool
    <2>2. /\ resp' \in Resp /\ resp'.items = WithBody(resp.items, n, p)
          /\ ~resp'.orphans /\ resp'.status = resp.status
      BY <1>9, <1>10, <1>12, <1>14, <2>1 DEF Shown
    <2>3. state' = [state EXCEPT !.args = Append(body, p)]
      BY <1>10, <1>14, <2>1
    <2>4. /\ state' \in State /\ state'.inText = state.inText
          /\ state'.inThinking = state.inThinking /\ state'.inTool = state.inTool
          /\ state'.args = Append(body, p) /\ state'.tool = state.tool
          /\ state'.counted = state.counted
      BY <1>2, <1>5, <2>3 DEF State
    <2>5. StateFits(state', now, TRUE)
      BY <1>10, <1>11, <1>14, <2>4
    <2> QED BY <1>2, <1>7, <2>2, <2>4, <2>5 DEF RespInv, now
  <1>15. CASE type \notin Shown
    <2>1. state' = state /\ resp' = resp
      BY <1>2, <1>15 DEF ResponsesDelta, Tool, Shown
    <2>2. StateFits(state', now, TRUE)
      BY <1>10, <1>11, <1>15, <2>1 DEF Shown
    <2> QED BY <1>2, <1>8, <1>15, <2>1, <2>2 DEF RespInv, now
  <1> QED BY <1>13, <1>14, <1>15 DEF Shown

\* content_block_stop of the response keeps its invariant: the flags tell the type.
LEMMA RespStopped ==
    ASSUME MessageInv, RespInv, BlockStop
    PROVE  RespInv'
  <1> DEFINE n == Len(message)
             type == message[n].type
             body == message[n].body
  <1>1. /\ n >= 1 /\ message \in Seq(Block) /\ phase = "block" /\ phase' = "between"
        /\ message' = message /\ counted' = counted /\ ResponsesBlockStop(n)
    BY DEF MessageInv, BlockStop, Short
  <1>2. /\ state \in State /\ resp \in Resp /\ state.counted = counted
        /\ StateFits(state, message, TRUE)
        /\ ItemsFit(resp.items, message, TRUE) /\ ~resp.orphans
        /\ resp.status # "completed"
    BY <1>1 DEF RespInv
  <1>3. body \in Bodies /\ type \in Types
    BY <1>1, MessageFacts
  <1>4. resp.items \in Items
    BY <1>2 DEF Resp, Items
  <1>5. ItemsFit(WithFinal(resp.items, n, body), message, FALSE)
    BY <1>1, <1>2, <1>4, ItemsFitClosed
  <1>6. type \notin Shown => ItemsFit(resp.items, message, FALSE)
    BY <1>1, <1>2, ItemsFitHidden
  <1>7. ASSUME NEW id, id = ItemId(message, n), type \in Shown,
               NEW after, after = WithDone(n, id, body)
        PROVE  /\ after \in Resp /\ after.items = WithFinal(resp.items, n, body)
               /\ ~after.orphans /\ after.status = resp.status
    BY <1>1, <1>2, <1>3, <1>7, DoneIsHeard
  <1>8. /\ state.inText <=> type = "text"
        /\ state.inThinking <=> type = "thinking"
        /\ state.inTool <=> type = "tool_use"
        /\ state.inText => state.text = body
        /\ state.inTool => state.args = body /\ state.tool = n
    BY <1>2 DEF StateFits
  <1>9. ItemId(message, n) = IF type = "tool_use" THEN n ELSE MsgId
    BY DEF ItemId
  <1>10. ASSUME NEW s, ~s.inText, ~s.inThinking, ~s.inTool
         PROVE  StateFits(s, message, FALSE)
    BY <1>10 DEF StateFits
  <1>11. <<>> \in Bodies
    BY DEF Bodies
  <1> HIDE DEF n, type, body
  <1>12. CASE type = "text"
    <2>1. /\ state' = [state EXCEPT !.inText = FALSE, !.text = <<>>]
          /\ resp' = WithDone(n, MsgId, body)
      BY <1>1, <1>8, <1>12 DEF ResponsesBlockStop
    <2>2. /\ resp' \in Resp /\ resp'.items = WithFinal(resp.items, n, body)
          /\ ~resp'.orphans /\ resp'.status = resp.status
      BY <1>7, <1>9, <1>12, <2>1 DEF Shown
    <2>3. /\ state' \in State /\ ~state'.inText /\ state'.inThinking = state.inThinking
          /\ state'.inTool = state.inTool /\ state'.counted = state.counted
      BY <1>2, <1>11, <2>1 DEF State
    <2>4. StateFits(state', message, FALSE)
      BY <1>8, <1>10, <1>12, <2>3
    <2> QED BY <1>1, <1>2, <1>5, <2>2, <2>3, <2>4 DEF RespInv
  <1>13. CASE type = "tool_use"
    <2>1. /\ state' = [state EXCEPT !.inTool = FALSE, !.args = <<>>]
          /\ resp' = WithDone(n, n, body)
      BY <1>1, <1>8, <1>13 DEF ResponsesBlockStop
    <2>2. /\ resp' \in Resp /\ resp'.items = WithFinal(resp.items, n, body)
          /\ ~resp'.orphans /\ resp'.status = resp.status
      BY <1>7, <1>9, <1>13, <2>1 DEF Shown
    <2>3. /\ state' \in State /\ ~state'.inTool /\ state'.inThinking = state.inThinking
          /\ state'.inText = state.inText /\ state'.counted = state.counted
      BY <1>2, <1>11, <2>1 DEF State
    <2>4. StateFits(state', message, FALSE)
      BY <1>8, <1>10, <1>13, <2>3
    <2> QED BY <1>1, <1>2, <1>5, <2>2, <2>3, <2>4 DEF RespInv
  <1>14. CASE type = "thinking"
    <2>1. state' = [state EXCEPT !.inThinking = FALSE] /\ resp' = resp
      BY <1>1, <1>8, <1>14 DEF ResponsesBlockStop
    <2>2. /\ state' \in State /\ ~state'.inThinking /\ state'.inText = state.inText
          /\ state'.inTool = state.inTool /\ state'.counted = state.counted
      BY <1>2, <2>1 DEF State
    <2>3. StateFits(state', message, FALSE)
      BY <1>8, <1>10, <1>14, <2>2
    <2>4. ItemsFit(resp.items, message, FALSE)
      BY <1>6, <1>14 DEF Shown
    <2> QED BY <1>1, <1>2, <2>1, <2>2, <2>3, <2>4 DEF RespInv
  <1>15. CASE type = "redacted_thinking"
    <2>1. state' = state /\ resp' = resp
      BY <1>1, <1>8, <1>15 DEF ResponsesBlockStop
    <2>2. StateFits(state', message, FALSE)
      BY <1>8, <1>10, <1>15, <2>1
    <2>3. ItemsFit(resp.items, message, FALSE)
      BY <1>6, <1>15 DEF Shown
    <2> QED BY <1>1, <1>2, <2>1, <2>2, <2>3 DEF RespInv
  <1> QED BY <1>3, <1>12, <1>13, <1>14, <1>15 DEF Types

-----------------------------------------------------------------------------
(* Every step *)

\* Counts of tokens by kind, some of them reported anew.
LEMMA Counts ==
    ASSUME NEW f, NEW g, f \in [Counters -> 0..2], g \in [Counters -> 0..2],
           NEW S
    PROVE  [c \in Counters |-> IF c \in S THEN f[c] ELSE g[c]] \in [Counters -> 0..2]
  OBVIOUS

\* The invariant holds at first.
LEMMA InitHolds == Init => IInv
  <1> SUFFICES ASSUME Init PROVE IInv
    OBVIOUS
  <1>1. /\ message = <<>> /\ phase = "start" /\ stop = "none" /\ counted = Zero
        /\ legacy \in BOOLEAN /\ order = <<>>
        /\ state = [inText |-> FALSE, inThinking |-> FALSE, inTool |-> FALSE,
                    text |-> <<>>, tool |-> 1, args |-> <<>>, counted |-> Zero]
        /\ chat = [roles |-> 0, text |-> <<>>, reasoning |-> <<>>, calls |-> <<>>,
                   finish |-> "none", done |-> FALSE]
        /\ resp = [status |-> "none", items |-> <<>>, orphans |-> FALSE, counted |-> Zero]
    BY DEF Init
  <1>2. Zero \in [Counters -> 0..2]
    BY DEF Zero
  <1>3. <<>> \in Seq(Block) /\ <<>> \in Bodies /\ <<>> \in Seq(Call) /\ <<>> \in Seq(Item)
        /\ Len(<<>>) = 0
    BY DEF Bodies
  <1>4. DOMAIN message = {}
    BY <1>1
  <1>5. Short(message)
    BY <1>1, <1>3, BlocksAssumption DEF Short
  <1>6. MessageInv
    BY <1>1, <1>2, <1>5 DEF MessageInv, Phases
  <1>7. \A t : PlacesIn(message, t) = <<>>
    <2>1. ASSUME NEW t PROVE PlacesIn(message, t) = <<>>
      <3>1. BlocksIn(message, t) = {}
        BY <1>4 DEF BlocksIn
      <3> QED BY <3>1, ListsNothing, ListIsAscending DEF PlacesIn
    <2> QED BY <2>1
  <1>8. \A t : BodiesIn(message, t) = <<>>
    <2>1. ASSUME NEW t PROVE BodiesIn(message, t) = <<>>
      BY <1>7 DEF BodiesIn
    <2> QED BY <2>1
  <1>9. CallsIn(message) = <<>>
    BY <1>7 DEF CallsIn
  <1>10. chat \in Chat
    BY <1>1, <1>3 DEF Chat
  <1>11. ChatFits(chat, message)
    BY <1>1, <1>8, <1>10, JoinsNothing DEF ChatFits
  <1>12. CallsFit(legacy, order, chat.calls, message)
    BY <1>1, <1>3, <1>7, <1>9 DEF CallsFit
  <1>13. ChatInv
    BY <1>1, <1>11, <1>12 DEF ChatInv
  <1>14. state \in State
    <2>1. 1 \in Indexes
      BY BlocksAssumption DEF Indexes
    <2> QED BY <1>1, <1>2, <1>3, <2>1 DEF State
  <1>15. resp \in Resp
    BY <1>1, <1>2, <1>3 DEF Resp
  <1>16. StateFits(state, message, FALSE)
    BY <1>1 DEF StateFits
  <1>17. ItemsFit(resp.items, message, FALSE)
    <2>1. resp.items = <<>> /\ ShownIn(message) = {}
      BY <1>1, <1>4 DEF ShownIn
    <2>2. PlacesOf(<<>>) = <<>>
      BY <1>3 DEF PlacesOf
    <2> QED BY <1>3, <2>1, <2>2, ListsNothing DEF ItemsFit
  <1>18. RespInv
    BY <1>1, <1>14, <1>15, <1>16, <1>17 DEF RespInv
  <1> QED BY <1>6, <1>13, <1>18 DEF IInv

\* message_start keeps it.
LEMMA MessageStartHolds ==
    ASSUME IInv, MessageStart
    PROVE  IInv'
  <1>1. /\ phase = "start" /\ phase' = "between" /\ counted' = [c \in Counters |-> 1]
        /\ state' = [state EXCEPT !.counted = counted']
        /\ chat' = [chat EXCEPT !.roles = @ + 1]
        /\ resp' = [resp EXCEPT !.status = "in_progress"]
        /\ message' = message /\ stop' = stop /\ legacy' = legacy /\ order' = order
    BY DEF MessageStart
  <1>2. counted' \in [Counters -> 0..2]
    BY <1>1
  <1>3. MessageInv'
    BY <1>1, <1>2 DEF IInv, MessageInv, Phases
  <1>4. /\ chat \in Chat /\ chat.roles = 0 /\ ~chat.done
        /\ Joins(chat.text, BodiesIn(message, "text"))
        /\ Joins(chat.reasoning, BodiesIn(message, "thinking"))
        /\ CallsFit(legacy, order, chat.calls, message)
    BY <1>1 DEF IInv, ChatInv, ChatFits
  <1>5. chat' = [chat EXCEPT !.roles = 1]
    BY <1>1, <1>4
  <1>6. /\ chat' \in Chat /\ chat'.text = chat.text /\ chat'.reasoning = chat.reasoning
        /\ chat'.calls = chat.calls /\ chat'.done = chat.done
    BY <1>4, <1>5 DEF Chat
  <1>7. ChatInv'
    BY <1>1, <1>4, <1>6 DEF ChatInv, ChatFits
  <1>8. /\ state \in State /\ resp \in Resp /\ resp.status # "completed"
        /\ StateFits(state, message, FALSE) /\ ItemsFit(resp.items, message, FALSE)
        /\ ~resp.orphans
    BY <1>1 DEF IInv, RespInv
  <1>9. /\ state' \in State /\ state'.counted = counted' /\ state'.inText = state.inText
        /\ state'.inThinking = state.inThinking /\ state'.inTool = state.inTool
    BY <1>1, <1>2, <1>8 DEF State
  <1>10. StateFits(state', message, FALSE)
    BY <1>8, <1>9 DEF StateFits
  <1>11. /\ resp' \in Resp /\ resp'.items = resp.items /\ resp'.orphans = resp.orphans
         /\ resp'.status = "in_progress"
    BY <1>1, <1>8 DEF Resp
  <1>12. RespInv'
    BY <1>1, <1>8, <1>9, <1>10, <1>11 DEF RespInv
  <1> QED BY <1>3, <1>7, <1>12 DEF IInv

\* message_delta keeps it, whatever counts it reports.
LEMMA MessageDeltaHolds ==
    ASSUME IInv, NEW reason \in StopReasons, NEW reported \in SUBSET Counters,
           MessageDelta(reason, reported)
    PROVE  IInv'
  <1>1. /\ phase = "between" /\ phase' = "stopping" /\ stop' = reason
        /\ counted' = [c \in Counters |-> IF c \in reported THEN 2 ELSE counted[c]]
        /\ state' = [state EXCEPT !.counted =
                        [c \in Counters |-> IF c \in reported THEN counted'[c]
                                            ELSE state.counted[c]]]
        /\ chat' = [chat EXCEPT !.finish = FinishReason(reason)]
        /\ message' = message /\ legacy' = legacy /\ order' = order /\ resp' = resp
    BY DEF MessageDelta
  <1>2. counted \in [Counters -> 0..2]
    BY DEF IInv, MessageInv
  <1>3. counted' \in [Counters -> 0..2]
    BY <1>1, <1>2
  <1>4. MessageInv'
    BY <1>1, <1>3 DEF IInv, MessageInv, Phases
  <1>5. /\ chat \in Chat /\ ~chat.done
        /\ Joins(chat.text, BodiesIn(message, "text"))
        /\ Joins(chat.reasoning, BodiesIn(message, "thinking"))
        /\ CallsFit(legacy, order, chat.calls, message)
    BY <1>1 DEF IInv, ChatInv, ChatFits
  <1>6. FinishReason(reason) \in {"stop", "length", "tool_calls", "function_call"}
    BY Zenon DEF FinishReason
  <1>7. FinishReason(stop)' = FinishReason(reason)
    BY <1>1 DEF FinishReason
  <1> DEFINE finish == FinishReason(reason)
  <1> HIDE DEF finish
  <1>8. /\ chat' \in Chat /\ chat'.text = chat.text /\ chat'.reasoning = chat.reasoning
        /\ chat'.calls = chat.calls /\ chat'.done = chat.done /\ chat'.finish = finish
    <2>1. chat' = [chat EXCEPT !.finish = finish]
      BY <1>1 DEF finish
    <2>2. finish \in {"stop", "length", "tool_calls", "function_call"}
      BY <1>6 DEF finish
    <2> QED BY <1>5, <2>1, <2>2 DEF Chat
  <1>9. chat'.finish = FinishReason(stop)'
    BY <1>7, <1>8 DEF finish
  <1>10. ChatInv'
    BY <1>1, <1>5, <1>8, <1>9 DEF ChatInv, ChatFits
  <1>11. /\ state \in State /\ resp \in Resp /\ resp.status # "completed"
         /\ StateFits(state, message, FALSE) /\ ItemsFit(resp.items, message, FALSE)
         /\ ~resp.orphans /\ state.counted = counted
    BY <1>1 DEF IInv, RespInv
  <1>12. [c \in Counters |-> IF c \in reported THEN counted'[c] ELSE state.counted[c]] = counted'
    BY <1>1, <1>11
  <1>13. /\ state' \in State /\ state'.counted = counted' /\ state'.inText = state.inText
         /\ state'.inThinking = state.inThinking /\ state'.inTool = state.inTool
    <2>1. state' = [state EXCEPT !.counted = counted']
      BY <1>1, <1>12
    <2> QED BY <1>3, <1>11, <2>1 DEF State
  <1>14. StateFits(state', message, FALSE)
    BY <1>11, <1>13 DEF StateFits
  <1>15. RespInv'
    BY <1>1, <1>11, <1>13, <1>14 DEF RespInv
  <1> QED BY <1>4, <1>10, <1>15 DEF IInv

\* message_stop keeps it.
LEMMA MessageStopHolds ==
    ASSUME IInv, MessageStop
    PROVE  IInv'
  <1>1. /\ phase = "stopping" /\ phase' = "stopped"
        /\ chat' = [chat EXCEPT !.done = TRUE]
        /\ resp' = [resp EXCEPT !.status = "completed", !.counted = state.counted]
        /\ message' = message /\ stop' = stop /\ counted' = counted /\ legacy' = legacy
        /\ order' = order /\ state' = state
    BY DEF MessageStop
  <1>2. MessageInv'
    BY <1>1 DEF IInv, MessageInv, Phases
  <1>3. /\ chat \in Chat /\ chat.finish = FinishReason(stop)
        /\ Joins(chat.text, BodiesIn(message, "text"))
        /\ Joins(chat.reasoning, BodiesIn(message, "thinking"))
        /\ CallsFit(legacy, order, chat.calls, message)
    BY <1>1 DEF IInv, ChatInv, ChatFits
  <1>4. /\ chat' \in Chat /\ chat'.text = chat.text /\ chat'.reasoning = chat.reasoning
        /\ chat'.calls = chat.calls /\ chat'.finish = chat.finish
    BY <1>1, <1>3 DEF Chat
  <1>5. FinishReason(stop)' = FinishReason(stop)
    BY <1>1 DEF FinishReason
  <1>6. ChatInv'
    BY <1>1, <1>3, <1>4, <1>5 DEF ChatInv, ChatFits
  <1>7. /\ state \in State /\ resp \in Resp /\ state.counted = counted
        /\ StateFits(state, message, FALSE) /\ ItemsFit(resp.items, message, FALSE)
        /\ ~resp.orphans
    BY <1>1 DEF IInv, RespInv
  <1>8. state.counted \in [Counters -> 0..2]
    BY <1>7 DEF State
  <1>9. /\ resp' \in Resp /\ resp'.items = resp.items /\ resp'.orphans = resp.orphans
        /\ resp'.counted = state.counted
    BY <1>1, <1>7, <1>8 DEF Resp
  <1>10. RespInv'
    BY <1>1, <1>7, <1>9 DEF RespInv
  <1> QED BY <1>2, <1>6, <1>10 DEF IInv

\* content_block_stop keeps it.
LEMMA BlockStopHolds ==
    ASSUME IInv, BlockStop
    PROVE  IInv'
  <1>1. /\ phase = "block" /\ phase' = "between" /\ message' = message /\ stop' = stop
        /\ counted' = counted /\ legacy' = legacy /\ order' = order /\ chat' = chat
    BY DEF BlockStop
  <1>2. MessageInv' /\ ChatInv'
    BY <1>1 DEF IInv, MessageInv, ChatInv, Phases
  <1>3. RespInv'
    BY RespStopped DEF IInv
  <1> QED BY <1>2, <1>3 DEF IInv

\* An error or the end of the connection keeps it.
LEMMA CutHolds ==
    ASSUME IInv, Cut
    PROVE  IInv'
  <1>1. /\ phase \notin {"stopped", "cut"} /\ phase' = "cut"
        /\ message' = message /\ stop' = stop /\ counted' = counted /\ legacy' = legacy
        /\ order' = order /\ state' = state /\ chat' = chat /\ resp' = resp
    BY DEF Cut
  <1>2. MessageInv' /\ ChatInv'
    BY <1>1 DEF IInv, MessageInv, ChatInv, Phases
  <1>3. RespInv'
    BY <1>1 DEF IInv, RespInv
  <1> QED BY <1>2, <1>3 DEF IInv

\* Every step keeps the invariant.
LEMMA StepHolds == IInv /\ [Next]_vars => IInv'
  <1> SUFFICES ASSUME IInv, [Next]_vars PROVE IInv'
    OBVIOUS
  <1>1. CASE MessageStart
    BY <1>1, MessageStartHolds
  <1>2. ASSUME NEW type \in Types, BlockStart(type) PROVE IInv'
    BY <1>2, MessageStarted, ChatStarted, RespStarted DEF IInv
  <1>3. ASSUME NEW p \in Pieces, BlockDelta(p) PROVE IInv'
    BY <1>3, MessageFilled, ChatFilled, RespFilled DEF IInv
  <1>4. CASE BlockStop
    BY <1>4, BlockStopHolds
  <1>5. ASSUME NEW reason \in StopReasons, NEW reported \in SUBSET Counters,
               MessageDelta(reason, reported)
        PROVE  IInv'
    BY <1>5, MessageDeltaHolds
  <1>6. CASE MessageStop
    BY <1>6, MessageStopHolds
  <1>7. CASE Cut
    BY <1>7, CutHolds
  <1>8. CASE UNCHANGED vars
    BY <1>8 DEF vars, IInv, MessageInv, ChatInv, RespInv, FinishReason
  <1> QED BY <1>1, <1>2, <1>3, <1>4, <1>5, <1>6, <1>7, <1>8 DEF Next

-----------------------------------------------------------------------------
(* The theorems *)

\* At every moment the client has of both streams what the message says so far.
THEOREM Invariance == Spec => []IInv
  BY InitHolds, StepHolds, PTL DEF Spec

\* The invariant says of every variable its type.
LEMMA Typed == IInv => TypeOK
  <1> SUFFICES ASSUME IInv PROVE TypeOK
    OBVIOUS
  <1>1. message \in Seq(Block) /\ Len(message) <= MaxBlocks
    BY DEF IInv, MessageInv, Short
  <1>2. order = PlacesIn(message, "tool_use")
    BY DEF IInv, ChatInv, CallsFit
  <1>3. order \in Seq(Indexes)
    <2>1. BlocksIn(message, "tool_use") \subseteq 1..Len(message)
      BY <1>1, PlacesFacts
    <2>2. Len(message) \in Nat
      BY <1>1, MessageFacts
    <2>3. BlocksIn(message, "tool_use") \subseteq Indexes
      BY <1>1, <2>1, <2>2, BlocksAssumption DEF Indexes
    <2>4. order \in Seq(BlocksIn(message, "tool_use"))
      BY <1>1, <1>2, PlacesFacts DEF Lists
    <2> QED BY <2>3, <2>4
  <1>4. chat \in Chat /\ state \in State /\ resp \in Resp
    BY DEF IInv, ChatInv, ChatFits, RespInv
  <1> QED BY <1>1, <1>3, <1>4 DEF IInv, MessageInv, TypeOK, Block, Chat, State, Resp

\* The message, both translations and what a client holds stay in their types, for
\* every bound on the blocks and every set of pieces.
THEOREM AlwaysTyped == Spec => []TypeOK
  BY Invariance, Typed, PTL

\* The parts of the answer without streaming are those of the message.
LEMMA AnswerParts ==
    /\ \A type : Ascending(Blocks(type)) = PlacesIn(message, type)
    /\ \A type : BodiesOf(type) = BodiesIn(message, type)
  <1>1. \A type : Ascending(Blocks(type)) = PlacesIn(message, type)
    BY DEF Blocks, PlacesIn, BlocksIn
  <1>2. \A type : BodiesOf(type) = BodiesIn(message, type)
    BY <1>1 DEF BodiesOf, BodiesIn
  <1> QED BY <1>1, <1>2

\* Its calls are those of the message, but for what stands for no arguments.
LEMMA AnswerCalls ==
    ASSUME Short(message)
    PROVE  /\ SameCalls(CallsIn(message), CallsOf)
           /\ Len(CallsOf) = Len(CallsIn(message))
           /\ CallsIn(message) \in Seq(Call)
           /\ DOMAIN CallsOf = 1..Len(CallsIn(message))
  <1> DEFINE at == PlacesIn(message, "tool_use")
             n == Len(at)
             calls == CallsIn(message)
             Answered(i) == [id |-> at[i], args |-> Arguments(message[at[i]].body)]
             answered == [i \in 1..n |-> Answered(i)]
  <1>1. message \in Seq(Block)
    BY DEF Short
  <1>2. n \in Nat /\ DOMAIN at = 1..n
    BY <1>1, PlacesFacts
  <1>3. /\ calls \in Seq(Call) /\ Len(calls) = n
        /\ \A i \in 1..n : calls[i] = [id |-> at[i], args |-> message[at[i]].body]
    BY CallsFacts
  <1>4. CallsOf = answered
    BY <1>2, AnswerParts DEF CallsOf
  <1>5. DOMAIN calls = 1..n
    BY <1>3, LenProperties
  <1> HIDE DEF at, n, calls
  <1>6. DOMAIN answered = 1..n /\ \A i \in 1..n : answered[i] = Answered(i)
    OBVIOUS
  <1>7. Len(answered) = n
    <2>1. answered \in [1..n -> {Answered(i) : i \in 1..n}]
      OBVIOUS
    <2> HIDE DEF answered, Answered
    <2> QED BY <1>2, <2>1, FunctionIsSequence
  <1> HIDE DEF answered
  <1>8. ASSUME NEW i \in 1..n
        PROVE  /\ calls[i].id = answered[i].id
               /\ \/ calls[i].args = answered[i].args
                  \/ calls[i].args = <<>> /\ answered[i].args = NoInput
    BY <1>3, <1>6 DEF Arguments
  <1> HIDE DEF Answered
  <1>9. SameCalls(calls, answered)
    BY <1>5, <1>6, <1>8 DEF SameCalls
  <1> QED BY <1>3, <1>4, <1>6, <1>7, <1>9 DEF calls

\* At its end the chat completion is the answer.
LEMMA ChatAnswer == IInv => ChatStreamIsTheAnswer
  <1> SUFFICES ASSUME IInv, chat.done, legacy => Len(CallsOf) <= 1
               PROVE  /\ chat.text = ToOpenai.text
                      /\ SameCalls(chat.calls, ToOpenai.calls)
                      /\ chat.finish = ToOpenai.finish
                      /\ chat.reasoning = FlattenSeq(BodiesOf("thinking"))
    BY DEF ChatStreamIsTheAnswer
  <1>1. /\ Short(message) /\ legacy \in BOOLEAN
        /\ chat.finish = FinishReason(stop)
        /\ Joins(chat.text, BodiesIn(message, "text"))
        /\ Joins(chat.reasoning, BodiesIn(message, "thinking"))
        /\ CallsFit(legacy, order, chat.calls, message)
    BY DEF IInv, MessageInv, ChatInv, ChatFits
  <1>2. /\ FlattenSeq(BodiesOf("text")) = chat.text
        /\ FlattenSeq(BodiesOf("thinking")) = chat.reasoning
    BY <1>1, JoinsIsFlatten, AnswerParts
  <1> DEFINE calls == CallsIn(message)
  <1>3. /\ calls \in Seq(Call) /\ Len(calls) = Len(order) /\ Len(CallsOf) = Len(calls)
        /\ SameCalls(calls, CallsOf) /\ DOMAIN CallsOf = 1..Len(calls)
    BY <1>1, CallsFacts, AnswerCalls DEF CallsFit
  <1>4. chat.calls = calls
    BY <1>1, <1>3 DEF CallsFit
  <1> HIDE DEF calls
  <1>5. SameCalls(calls, IF legacy /\ CallsOf # <<>> THEN <<CallsOf[1]>> ELSE CallsOf)
    <2>1. CASE ~ (legacy /\ CallsOf # <<>>)
      BY <1>3, <2>1
    <2>2. CASE legacy /\ CallsOf # <<>>
      <3> DEFINE first == <<CallsOf[1]>>
      <3>1. DOMAIN first = 1..1 /\ first[1] = CallsOf[1]
        OBVIOUS
      <3> HIDE DEF first
      <3>2. Len(calls) <= 1 /\ Len(calls) \in Nat /\ DOMAIN calls = 1..Len(calls)
        BY <1>3, <2>2, LenProperties
      <3>3. CASE Len(calls) = 1
        BY <1>3, <3>1, <3>2, <3>3 DEF SameCalls, first
      <3>4. CASE Len(calls) = 0
        <4>1. chat.calls = <<>> /\ Len(CallsOf) = 0
          BY <1>3, <1>4, <3>4, EmptySeq
        <4>2. CallsOf = [i \in DOMAIN CallsOf |-> CallsOf[i]]
          BY DEF CallsOf
        <4>3. DOMAIN CallsOf = {}
          BY <1>3, <3>4
        <4>4. CallsOf = <<>>
          BY <4>2, <4>3
        <4> QED BY <2>2, <4>4
      <3> QED BY <3>2, <3>3, <3>4
    <2> QED BY <2>1, <2>2
  <1> QED BY <1>1, <1>2, <1>4, <1>5 DEF ToOpenai

\* A streamed chat completion that reaches its end is the answer without streaming,
\* its arguments each in their call: claudeStreamEventToOpenai against claudeToOpenai.
THEOREM ChatStreamIsAlwaysTheAnswer == Spec => []ChatStreamIsTheAnswer
  BY Invariance, ChatAnswer, PTL

ItemsWith(items, ids) == {i \in DOMAIN items : items[i].id \in ids}
ItemPlaces(items, ids) == Ascending(ItemsWith(items, ids))
IdsAreOf(ids, m, type) ==
    \A n \in ShownIn(m) : ItemId(m, n) \in ids <=> m[n].type = type

\* The items whose id is of some kind are the blocks of a type, in order.
LEMMA ItemsAreBlocks ==
    ASSUME NEW m \in Seq(Block), NEW items \in Items, ItemsFit(items, m, FALSE),
           NEW type \in Shown, NEW ids, IdsAreOf(ids, m, type)
    PROVE  /\ DOMAIN ItemPlaces(items, ids) = 1..Len(ItemPlaces(items, ids))
           /\ Len(ItemPlaces(items, ids)) \in Nat
           /\ \A k \in 1..Len(ItemPlaces(items, ids)) :
                  ItemPlaces(items, ids)[k] \in 1..Len(items)
           /\ PlacesIn(m, type) = Composed(PlacesOf(items), ItemPlaces(items, ids))
  <1> DEFINE at == ItemPlaces(items, ids)
  <1> DEFINE s == PlacesOf(items)
             T == BlocksIn(m, type)
  <1>1. Lists(s, ShownIn(m)) /\ \A i \in 1..Len(items) : ItemFits(items[i], m, FALSE)
    BY DEF ItemsFit
  <1>2. Len(items) \in Nat /\ DOMAIN items = 1..Len(items)
    BY ItemsFacts
  <1>3. Len(s) = Len(items) /\ \A i \in 1..Len(items) : s[i] = items[i].at
    BY <1>2 DEF PlacesOf
  <1>4. T \subseteq ShownIn(m)
    BY DEF BlocksIn, ShownIn
  <1>5. \A i \in 1..Len(items) : s[i] \in T <=> items[i].id \in ids
    BY <1>1, <1>3 DEF ItemFits, BlocksIn, ShownIn, IdsAreOf
  <1>6. ItemsWith(items, ids) = PlacesAt(s, T)
    BY <1>2, <1>3, <1>5 DEF ItemsWith, PlacesAt
  <1> HIDE DEF s, T
  <1>7. at = Ascending(PlacesAt(s, T))
    BY <1>6 DEF ItemPlaces
  <1> HIDE DEF at
  <1>8. /\ \A k \in DOMAIN at : at[k] \in 1..Len(s)
        /\ DOMAIN at = 1..Len(at) /\ Len(at) \in Nat
        /\ Ascending(T) = Composed(s, at)
    BY <1>1, <1>4, <1>7, PartOfList
  <1> QED BY <1>3, <1>8 DEF PlacesIn, T, s, at

PartPlaces == {n \in DOMAIN message :
                  \/ message[n].type = "text"
                  \/ message[n].type = "thinking" /\ message[n].body # <<>>}

\* The texts of the answer's one message are those of the message.
LEMMA AnswerTexts ==
    ASSUME message \in Seq(Block)
    PROVE  TextsOf(Parts) = BodiesIn(message, "text")
  <1> DEFINE s == Ascending(PartPlaces)
             T == BlocksIn(message, "text")
             parts == [i \in DOMAIN s |-> message[s[i]]]
             at == Ascending(PlacesAt(s, T))
  <1>1. Len(message) \in Nat /\ DOMAIN message = 1..Len(message)
    BY MessageFacts
  <1>2. PartPlaces \subseteq 1..Len(message) /\ T \subseteq PartPlaces
    BY <1>1 DEF PartPlaces, BlocksIn
  <1>3. Lists(s, PartPlaces)
    BY <1>1, <1>2, AscendingLists
  <1>4. Parts = parts
    BY DEF Parts, PartPlaces
  <1>5. /\ DOMAIN s = 1..Len(s)
        /\ \A i \in 1..Len(s) : s[i] \in PartPlaces
    <2>1. s \in Seq(PartPlaces)
      BY <1>3 DEF Lists
    <2> HIDE DEF s
    <2> QED BY <2>1, LenProperties
  <1>6. /\ \A k \in DOMAIN at : at[k] \in 1..Len(s)
        /\ DOMAIN at = 1..Len(at) /\ Len(at) \in Nat
        /\ Ascending(T) = Composed(s, at)
    <2>1. at = Ascending(PlacesAt(s, T)) /\ T \subseteq PartPlaces
      BY <1>2
    <2> HIDE DEF s, T, at
    <2> QED BY ONLY <1>3, <2>1, PartOfList
  <1> DEFINE Texts == {i \in DOMAIN parts : parts[i].type = "text"}
  <1>7. Texts = PlacesAt(s, T)
    <2> HIDE DEF s
    <2> QED BY <1>1, <1>2, <1>5 DEF PlacesAt, BlocksIn
  <1>8. TextsOf(parts) = [k \in DOMAIN at |-> parts[at[k]].body]
    <2> HIDE DEF parts
    <2>1. TextsOf(parts) = [k \in DOMAIN Ascending(Texts) |-> parts[Ascending(Texts)[k]].body]
      BY DEF TextsOf
    <2>2. at = Ascending(Texts)
      <3> HIDE DEF Texts
      <3> QED BY <1>7
    <2> HIDE DEF at, Texts
    <2> QED BY <2>1, <2>2
  <1>9. PlacesIn(message, "text") = [k \in 1..Len(at) |-> s[at[k]]]
    BY <1>6 DEF PlacesIn, Composed
  <1> HIDE DEF s, T, at
  <1>10. BodiesIn(message, "text") = [k \in 1..Len(at) |-> message[s[at[k]]].body]
    BY <1>9 DEF BodiesIn
  <1>11. [k \in DOMAIN at |-> parts[at[k]].body] = [k \in 1..Len(at) |-> message[s[at[k]]].body]
    BY <1>5, <1>6
  <1> QED BY <1>4, <1>8, <1>10, <1>11

\* At its end the response is the answer.
LEMMA ResponsesAnswer == IInv => ResponsesStreamIsTheAnswer
  <1> SUFFICES ASSUME IInv, resp.status = "completed"
               PROVE  /\ ~resp.orphans
                      /\ \A i \in DOMAIN resp.items :
                             ~resp.items[i].open
                             /\ resp.items[i].body = resp.items[i].final
                      /\ LET texts == ItemsOf({MsgId})
                             calls == ItemsOf(Indexes)
                         IN  /\ TextsOf(ToResponses.content)
                                   = [i \in DOMAIN texts |-> texts[i].final]
                             /\ SameCalls([i \in DOMAIN calls |->
                                              [id |-> calls[i].id, args |-> calls[i].final]],
                                          ToResponses.calls)
                      /\ ToResponses.counted = resp.counted
                      /\ stop # "max_tokens" => ToResponses.status = resp.status
    BY DEF ResponsesStreamIsTheAnswer
  <1> DEFINE items == resp.items
             m == message
  <1>1. /\ m \in Seq(Block) /\ Len(m) <= MaxBlocks /\ ~resp.orphans /\ Short(message)
        /\ ItemsFit(items, m, FALSE) /\ resp.counted = counted
    BY DEF IInv, MessageInv, Short, RespInv
  <1>2. items \in Items
    BY DEF IInv, RespInv, Resp, Items
  <1>3. DOMAIN items = 1..Len(items)
    BY <1>2, ItemsFacts
  <1>4. \A i \in 1..Len(items) :
            /\ items[i].at \in ShownIn(m) /\ items[i].id = ItemId(m, items[i].at)
            /\ ~items[i].open /\ items[i].body = m[items[i].at].body
            /\ items[i].final = items[i].body
    BY <1>1 DEF ItemsFit, ItemFits
  <1>5. ShownIn(m) \subseteq Indexes /\ MsgId \notin Indexes
    <2>1. ShownIn(m) \subseteq 1..Len(m) /\ Len(m) \in Nat
      BY <1>1, ShownFacts
    <2> QED BY <1>1, <2>1, BlocksAssumption DEF Indexes, MsgId
  <1> HIDE DEF items, m
  <1>6. IdsAreOf({MsgId}, m, "text")
    BY <1>5 DEF IdsAreOf, ItemId, ShownIn, Shown
  <1>7. IdsAreOf(Indexes, m, "tool_use")
    BY <1>5 DEF IdsAreOf, ItemId, ShownIn, Shown
  <1> DEFINE ta == ItemPlaces(items, {MsgId})
             ca == ItemPlaces(items, Indexes)
  <1>71. "text" \in Shown /\ "tool_use" \in Shown
    BY DEF Shown
  <1>8. /\ DOMAIN ta = 1..Len(ta) /\ Len(ta) \in Nat
        /\ \A k \in 1..Len(ta) : ta[k] \in 1..Len(items)
        /\ PlacesIn(m, "text") = [k \in 1..Len(ta) |-> items[ta[k]].at]
    <2>1. /\ DOMAIN ta = 1..Len(ta) /\ Len(ta) \in Nat
          /\ \A k \in 1..Len(ta) : ta[k] \in 1..Len(items)
          /\ PlacesIn(m, "text") = Composed(PlacesOf(items), ta)
      BY <1>1, <1>2, <1>6, <1>71, ItemsAreBlocks
    <2> HIDE DEF ta
    <2> QED BY <2>1 DEF Composed, PlacesOf
  <1>9. /\ DOMAIN ca = 1..Len(ca) /\ Len(ca) \in Nat
        /\ \A k \in 1..Len(ca) : ca[k] \in 1..Len(items)
        /\ PlacesIn(m, "tool_use") = [k \in 1..Len(ca) |-> items[ca[k]].at]
    <2>1. /\ DOMAIN ca = 1..Len(ca) /\ Len(ca) \in Nat
          /\ \A k \in 1..Len(ca) : ca[k] \in 1..Len(items)
          /\ PlacesIn(m, "tool_use") = Composed(PlacesOf(items), ca)
      BY <1>1, <1>2, <1>7, <1>71, ItemsAreBlocks
    <2> HIDE DEF ca
    <2> QED BY <2>1 DEF Composed, PlacesOf
  <1>10. /\ ItemsOf({MsgId}) = [k \in DOMAIN ta |-> items[ta[k]]]
         /\ ItemsOf(Indexes) = [k \in DOMAIN ca |-> items[ca[k]]]
    BY DEF ItemsOf, ItemPlaces, ItemsWith, items
  <1> HIDE DEF ta, ca
  <1>11. BodiesIn(m, "text") = [k \in 1..Len(ta) |-> items[ta[k]].final]
    <2>1. BodiesIn(m, "text") = [k \in 1..Len(ta) |-> m[items[ta[k]].at].body]
      BY <1>8 DEF BodiesIn
    <2> QED BY <1>4, <1>8, <2>1
  <1>12. CallsIn(m) = [k \in 1..Len(ca) |-> [id |-> items[ca[k]].id, args |-> items[ca[k]].final]]
    <2>1. CallsIn(m) = [k \in 1..Len(ca) |-> [id |-> items[ca[k]].at,
                                              args |-> m[items[ca[k]].at].body]]
      BY <1>9 DEF CallsIn
    <2>2. ASSUME NEW k \in 1..Len(ca)
          PROVE  items[ca[k]].at = items[ca[k]].id
      <3>1. /\ PlacesIn(m, "tool_use")[k] = items[ca[k]].at
            /\ Len(PlacesIn(m, "tool_use")) = Len(ca)
        BY <1>9
      <3>2. m[items[ca[k]].at].type = "tool_use"
        BY <1>1, <3>1, PlacesFacts DEF m
      <3> QED BY <1>4, <1>9, <3>2 DEF ItemId
    <2> QED BY <1>4, <1>9, <2>1, <2>2
  <1>13. /\ ToResponses.content = Parts /\ ToResponses.calls = CallsOf
         /\ ToResponses.counted = counted
         /\ stop # "max_tokens" => ToResponses.status = "completed"
    BY DEF ToResponses
  <1> DEFINE texts == ItemsOf({MsgId})
             calls == ItemsOf(Indexes)
  <1>14. [i \in DOMAIN texts |-> texts[i].final] = BodiesIn(m, "text")
    BY <1>8, <1>10, <1>11
  <1>15. [i \in DOMAIN calls |-> [id |-> calls[i].id, args |-> calls[i].final]] = CallsIn(m)
    BY <1>9, <1>10, <1>12
  <1>16. TextsOf(ToResponses.content) = [i \in DOMAIN texts |-> texts[i].final]
    BY <1>1, <1>13, <1>14, AnswerTexts DEF m
  <1>18. SameCalls([i \in DOMAIN calls |-> [id |-> calls[i].id, args |-> calls[i].final]],
                   ToResponses.calls)
    BY <1>1, <1>13, <1>15, AnswerCalls DEF m
  <1>17. \A i \in DOMAIN items : ~items[i].open /\ items[i].body = items[i].final
    BY <1>3, <1>4
  <1> QED BY <1>1, <1>13, <1>16, <1>17, <1>18 DEF items

\* A response that is completed has its items opened, filled and closed, each by the
\* events that name it, and holds the texts, the calls and the counts of the answer
\* without streaming: claudeSSEToResponses against claudeToResponses.
THEOREM ResponsesStreamIsAlwaysTheAnswer == Spec => []ResponsesStreamIsTheAnswer
  BY Invariance, ResponsesAnswer, PTL
=============================================================================
