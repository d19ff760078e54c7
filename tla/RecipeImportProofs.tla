------------------------- MODULE RecipeImportProofs -------------------------
(***************************************************************************)
(* Proofs about the import of recipes: the version order, for versions of  *)
(* any length, and the import, for every set of packages and of archives,  *)
(* every command line and any number of interruptions.                     *)
(***************************************************************************)
EXTENDS RecipeImport, FiniteSetTheorems, WellFoundedInduction, TLAPS

(* A function that answers at the places where a loop stops, and elsewhere *)
(* what it answers at the place the loop goes on from.                     *)
IsLoop(f, D, stop, answer, next) ==
  /\ f = [p \in D |-> f[p]]
  /\ \A p \in stop : f[p] = answer[p]
  /\ \A p \in D \ stop : f[p] = f[next[p]]

HasLoop(D, stop, answer, next) == \E f : IsLoop(f, D, stop, answer, next)

(* A loop that either answers or goes on from another place is well        *)
(* defined whether or not it ends: what it answers from p is what the      *)
(* place of an answer reachable from p answers.                            *)
LEMMA LoopDefined ==
  ASSUME NEW D, NEW stop \in SUBSET D, NEW answer, NEW next,
         \A p \in D \ stop : next[p] \in D
  PROVE  HasLoop(D, stop, answer, next)
<1> DEFINE Closed(S) == \A p \in S \ stop : next[p] \in S
           From(p) == {q \in D : \A S \in SUBSET D : p \in S /\ Closed(S) => q \in S}
           Stops(p) == From(p) \cap stop
           f == [p \in D |-> answer[CHOOSE q \in Stops(p) : TRUE]]
<1>1. ASSUME NEW p \in stop PROVE Stops(p) = {p}
  <2>1. {p} \in SUBSET D /\ Closed({p})
    OBVIOUS
  <2> QED
    BY <2>1
<1>2. ASSUME NEW p \in D \ stop PROVE Stops(p) = Stops(next[p])
  <2>1. From(next[p]) \subseteq From(p)
    OBVIOUS
  <2>2. {p} \cup From(next[p]) \in SUBSET D /\ Closed({p} \cup From(next[p]))
    <3>1. next[p] \in From(next[p])
      OBVIOUS
    <3>2. ASSUME NEW q \in From(next[p]) \ stop PROVE next[q] \in From(next[p])
      BY <3>2
    <3> HIDE DEF From
    <3>3. From(next[p]) \in SUBSET D
      BY DEF From
    <3> QED
      BY <3>1, <3>2, <3>3
  <2>3. From(p) \subseteq {p} \cup From(next[p])
    <3> DEFINE T == {p} \cup From(next[p])
    <3>1. T \in SUBSET D /\ Closed(T) /\ p \in T
      BY <2>2
    <3>2. ASSUME NEW q \in From(p) PROVE q \in T
      <4> HIDE DEF T
      <4> QED
        BY <3>1
    <3> QED
      BY <3>2
  <2> HIDE DEF From
  <2> QED
    BY <2>1, <2>3
<1>3. ASSUME NEW p \in stop PROVE f[p] = answer[p]
  <2>1. (CHOOSE q \in Stops(p) : TRUE) = p
    <3> HIDE DEF Stops
    <3> QED
      BY <1>1
  <2> HIDE DEF Stops
  <2> QED
    BY <2>1
<1>4. ASSUME NEW p \in D \ stop PROVE f[p] = f[next[p]]
  <2> HIDE DEF Stops
  <2> QED
    BY <1>2
<1>5. f = [p \in D |-> f[p]]
  OBVIOUS
<1> HIDE DEF f
<1> QED
  BY <1>3, <1>4, <1>5 DEF HasLoop, IsLoop

LEMMA LeastOfNaturals ==
  ASSUME NEW N \in SUBSET Nat, N # {}
  PROVE  \E n \in N : \A m \in N : n <= m
<1>. DEFINE R == OpToRel(<, Nat)
<1>1. PICK n \in N : \A m \in N : <<m, n>> \notin R
  <2>1. IsWellFoundedOn(R, Nat)
    BY NatLessThanWellFounded
  <2>. HIDE DEF R
  <2>. QED  BY <2>1, WFMin
<1>2. \A m \in N : ~(m < n)
  BY <1>1 DEF OpToRel
<1>. QED  BY <1>2

(* Skip finds its position: the end of the version is one.                 *)
LEMMA SkipFacts ==
  ASSUME NEW s \in Seq(Segments), NEW i \in 1..Len(s) + 1
  PROVE  /\ Skip(s, i) \in i..Len(s) + 1
         /\ ~IsAt(s, Skip(s, i), Separator)
         /\ \A n \in i..Skip(s, i) - 1 : IsAt(s, n, Separator)
<1> DEFINE Stop == {m \in i..Len(s) + 1 : ~IsAt(s, m, Separator)}
<1>1. Len(s) \in Nat
  OBVIOUS
<1>2. Len(s) + 1 \in Stop /\ Stop \in SUBSET Nat
  BY <1>1 DEF IsAt, Ended
<1>3. PICK m \in Stop : \A n \in Stop : m <= n
  <2> HIDE DEF Stop
  <2> QED
    BY <1>2, LeastOfNaturals
<1>4. \A n \in i..m - 1 : IsAt(s, n, Separator)
  BY <1>1, <1>3
<1>5. \E k \in i..Len(s) + 1 :
        ~IsAt(s, k, Separator) /\ \A n \in i..k - 1 : IsAt(s, n, Separator)
  BY <1>3, <1>4
<1> QED
  BY <1>5 DEF Skip

(* The loop of rpmvercmp answers what its first pass says, or goes on.     *)
LEMMA PassesUnfold ==
  ASSUME NEW l \in Seq(Segments), NEW r \in Seq(Segments),
         NEW p \in Positions(l, r)
  PROVE  LET i == Skip(l, p[1])
             j == Skip(r, p[2])
         IN Passes(l, r)[p] =
              IF Verdict(l, r, i, j) # 0 \/ Ended(l, i) \/ Ended(r, j) THEN Verdict(l, r, i, j)
              ELSE Passes(l, r)[<<i + 1, j + 1>>]
<1> DEFINE D == Positions(l, r)
           Left(q) == Skip(l, q[1])
           Right(q) == Skip(r, q[2])
           Says(q) == Verdict(l, r, Left(q), Right(q))
           Over(q) == Says(q) # 0 \/ Ended(l, Left(q)) \/ Ended(r, Right(q))
           stop == {q \in D : Over(q)}
           answer == [q \in D |-> Says(q)]
           next == [q \in D |-> <<Left(q) + 1, Right(q) + 1>>]
           Fits(f) == f = [q \in D |-> IF Over(q) THEN Says(q) ELSE f[<<Left(q) + 1, Right(q) + 1>>]]
<1>1. ASSUME NEW q \in D \ stop PROVE next[q] \in D
  <2>1. q[1] \in 1..Len(l) + 1 /\ q[2] \in 1..Len(r) + 1
    BY DEF Positions
  <2>2. Left(q) \in 1..Len(l) + 1 /\ Right(q) \in 1..Len(r) + 1
    BY <2>1, SkipFacts
  <2>3. ~Ended(l, Left(q)) /\ ~Ended(r, Right(q))
    <3> HIDE DEF Left, Right, Says
    <3> QED
      OBVIOUS
  <2>4. Left(q) + 1 \in 1..Len(l) + 1 /\ Right(q) + 1 \in 1..Len(r) + 1
    <3> HIDE DEF Left, Right
    <3> QED
      BY <2>2, <2>3 DEF Ended
  <2> HIDE DEF Left, Right
  <2> QED
    BY <2>4 DEF Positions
<1>2. HasLoop(D, stop, answer, next)
  <2> HIDE DEF D, Over, Says, Left, Right, answer, next
  <2>1. stop \in SUBSET D
    OBVIOUS
  <2> HIDE DEF stop
  <2> QED
    BY <1>1, <2>1, LoopDefined
<1>3. PICK f : IsLoop(f, D, stop, answer, next)
  BY <1>2 DEF HasLoop
<1>4. Fits(f)
  <2>1. \A q \in D : f[q] = IF Over(q) THEN Says(q) ELSE f[<<Left(q) + 1, Right(q) + 1>>]
    <3> HIDE DEF D, Over, Says, Left, Right
    <3> QED
      BY <1>3 DEF IsLoop
  <2>2. f = [q \in D |-> f[q]]
    BY <1>3 DEF IsLoop
  <2> HIDE DEF D, Over, Says, Left, Right, stop, answer, next
  <2> QED
    BY <2>1, <2>2
<1>5. Passes(l, r) = CHOOSE g : Fits(g)
  BY DEF Passes
<1>6. Fits(Passes(l, r))
  <2> HIDE DEF Fits
  <2> QED
    BY <1>4, <1>5
<1> QED
  BY <1>6

-----------------------------------------------------------------------------
(* The segments of a version that are no separators, counted.              *)
LEMMA CountedFacts ==
  ASSUME NEW s, NEW m \in Nat
  PROVE  /\ Counted(s, m) \in 0..m
         /\ Counted(s, m + 1) =
              Counted(s, m) + IF s[m + 1] # Separator THEN 1 ELSE 0
<1> DEFINE N(k) == {n \in 1..k : s[n] # Separator}
<1>1. IsFiniteSet(1..m) /\ Cardinality(1..m) = m
  BY FS_Interval
<1>2. IsFiniteSet(N(m)) /\ Cardinality(N(m)) \in 0..m
  <2>1. N(m) \subseteq 1..m
    OBVIOUS
  <2> HIDE DEF N
  <2> QED
    BY <1>1, <2>1, FS_Subset, FS_CardinalityType
<1>3. N(m + 1) = IF s[m + 1] # Separator THEN N(m) \cup {m + 1} ELSE N(m)
  OBVIOUS
<1>4. m + 1 \notin N(m)
  OBVIOUS
<1>5. Cardinality(N(m) \cup {m + 1}) = Cardinality(N(m)) + 1
  <2> HIDE DEF N
  <2> QED
    BY <1>2, <1>4, FS_AddElement
<1>6. Counted(s, m) = Cardinality(N(m)) /\ Counted(s, m + 1) = Cardinality(N(m + 1))
  BY DEF Counted
<1> HIDE DEF N
<1> QED
  BY <1>2, <1>3, <1>5, <1>6

LEMMA CountedGrows ==
  ASSUME NEW s, NEW m \in Nat, NEW n \in Nat, m <= n
  PROVE  /\ Counted(s, m) <= Counted(s, n)
         /\ (\A k \in m + 1..n : s[k] = Separator) => Counted(s, m) = Counted(s, n)
<1> DEFINE N(k) == {q \in 1..k : s[q] # Separator}
<1>1. IsFiniteSet(1..n)
  BY FS_Interval
<1>2. N(m) \subseteq N(n) /\ N(n) \subseteq 1..n
  OBVIOUS
<1>3. Cardinality(N(m)) <= Cardinality(N(n))
  <2> HIDE DEF N
  <2>1. IsFiniteSet(N(n))
    BY <1>1, <1>2, FS_Subset
  <2> QED
    BY <1>2, <2>1, FS_Subset
<1>4. (\A k \in m + 1..n : s[k] = Separator) => N(m) = N(n)
  OBVIOUS
<1>5. Counted(s, m) = Cardinality(N(m)) /\ Counted(s, n) = Cardinality(N(n))
  BY DEF Counted
<1> HIDE DEF N
<1> QED
  BY <1>3, <1>4, <1>5

(* A place with a segment is the only one of its count.                    *)
LEMMA KthFacts ==
  ASSUME NEW s \in Seq(Segments)
  PROVE  /\ \A m \in 1..Len(s) : s[m] # Separator => Kth(s, Counted(s, m)) = s[m]
         /\ \A k \in Nat : k > Counted(s, Len(s)) => Kth(s, k) = <<"end", 0>>
<1>1. Len(s) \in Nat
  OBVIOUS
<1>2. ASSUME NEW m \in 1..Len(s), NEW n \in 1..Len(s), m < n, s[n] # Separator
      PROVE  Counted(s, m) < Counted(s, n)
  <2>1. n - 1 \in Nat /\ m \in Nat /\ n \in Nat /\ m <= n - 1 /\ (n - 1) + 1 = n
    BY <1>1, <1>2
  <2>2. Counted(s, m) <= Counted(s, n - 1)
    BY <2>1, CountedGrows
  <2>3. Counted(s, n) = Counted(s, n - 1) + 1
    BY <1>2, <2>1, CountedFacts
  <2> QED
    BY <2>1, <2>2, <2>3, CountedFacts
<1>3. ASSUME NEW m \in 1..Len(s), s[m] # Separator
      PROVE  Kth(s, Counted(s, m)) = s[m]
  <2>1. m \in Places(s, Counted(s, m))
    BY <1>3 DEF Places
  <2>2. ASSUME NEW n \in Places(s, Counted(s, m)) PROVE n = m
    <3>1. n \in 1..Len(s) /\ s[n] # Separator /\ Counted(s, n) = Counted(s, m)
      BY DEF Places
    <3>2. Counted(s, n) \in Nat /\ n \in Nat /\ m \in Nat
      BY <1>1, <3>1, CountedFacts
    <3> QED
      BY <1>2, <1>3, <3>1, <3>2
  <2>3. (CHOOSE n \in Places(s, Counted(s, m)) : TRUE) = m
    BY <2>1, <2>2
  <2> QED
    BY <2>1, <2>3 DEF Kth
<1>4. ASSUME NEW k \in Nat, k > Counted(s, Len(s))
      PROVE  Kth(s, k) = <<"end", 0>>
  <2>1. ASSUME NEW m \in Places(s, k) PROVE FALSE
    <3>1. m \in Nat /\ m <= Len(s) /\ Counted(s, m) = k
      BY <1>1 DEF Places
    <3>2. Counted(s, m) <= Counted(s, Len(s))
      BY <1>1, <3>1, CountedGrows
    <3> QED
      BY <1>1, <1>4, <3>1, <3>2, CountedFacts
  <2> QED
    BY <2>1 DEF Kth
<1> QED
  BY <1>3, <1>4

(* Where the loop looks after its separators: the next counted segment, or *)
(* the end and nothing counted any more.                                   *)
LEMMA SkipCounts ==
  ASSUME NEW s \in Seq(Segments), NEW i \in 1..Len(s) + 1, NEW c \in Nat,
         Counted(s, i - 1) = c
  PROVE  /\ Ended(s, Skip(s, i)) => \A k \in Nat : k > c => Kth(s, k) = <<"end", 0>>
         /\ ~Ended(s, Skip(s, i)) => /\ Skip(s, i) \in 1..Len(s)
                                     /\ Kth(s, c + 1) = s[Skip(s, i)]
                                     /\ Kth(s, c + 1) \in Segments \ {Separator}
                                     /\ Counted(s, Skip(s, i)) = c + 1
<1> DEFINE a == Skip(s, i)
<1>1. Len(s) \in Nat
  OBVIOUS
<1>2. /\ a \in i..Len(s) + 1 /\ ~IsAt(s, a, Separator)
      /\ \A n \in i..a - 1 : IsAt(s, n, Separator)
  BY SkipFacts
<1> HIDE DEF a
<1>3. i - 1 \in Nat /\ a - 1 \in Nat /\ a \in Nat /\ i - 1 <= a - 1
      /\ (i - 1) + 1 = i /\ (a - 1) + 1 = a
  BY <1>1, <1>2
<1>4. \A n \in (i - 1) + 1..a - 1 : s[n] = Separator
  BY <1>2, <1>3 DEF IsAt
<1>5. Counted(s, a - 1) = c
  BY <1>3, <1>4, CountedGrows
<1>6. CASE Ended(s, a)
  <2>1. a - 1 = Len(s)
    BY <1>1, <1>2, <1>6 DEF Ended
  <2> QED
    BY <1>5, <1>6, <2>1, KthFacts DEF a
<1>7. CASE ~Ended(s, a)
  <2>1. a \in 1..Len(s) /\ s[a] # Separator
    BY <1>1, <1>2, <1>7 DEF Ended, IsAt
  <2>2. Counted(s, a) = c + 1
    BY <1>3, <1>5, <2>1, CountedFacts
  <2>3. Kth(s, c + 1) = s[a]
    BY <2>1, <2>2, KthFacts
  <2>4. s[a] \in Segments
    BY <2>1
  <2> QED
    BY <1>7, <2>1, <2>2, <2>3, <2>4 DEF a
<1> QED
  BY <1>6, <1>7

(* A key is two numbers: of two keys one is below the other, or they are   *)
(* the same.                                                               *)
LEMMA KeyFacts ==
  ASSUME NEW s \in Seq(Segments), NEW k \in Nat
  PROVE  /\ Kth(s, k) = <<"end", 0>> \/ Kth(s, k) \in Segments \ {Separator}
         /\ Key(s, k)[1] \in 1..5 /\ Key(s, k)[2] \in Nat
         /\ Key(s, k) = <<Key(s, k)[1], Key(s, k)[2]>>
         /\ Key(s, k)[1] = 2 <=> Kth(s, k) = <<"end", 0>>
<1>1. Kth(s, k) = <<"end", 0>> \/ Kth(s, k) \in Segments \ {Separator}
  <2>1. CASE Places(s, k) = {}
    BY <2>1 DEF Kth
  <2>2. CASE Places(s, k) # {}
    <3>1. PICK m \in Places(s, k) : Kth(s, k) = s[m]
      BY <2>2 DEF Kth
    <3> QED
      BY <3>1 DEF Places
  <2> QED
    BY <2>1, <2>2
<1>2. CASE Kth(s, k) = <<"end", 0>>
  <2>1. Key(s, k) = <<2, 0>>
    BY <1>2 DEF Key, Rank
  <2> QED
    BY <1>2, <2>1
<1>3. CASE Kth(s, k) \in Segments \ {Separator}
  <2>1. \E n \in Nat : Kth(s, k) \in {<<"number", n>>, <<"word", n>>, <<"tilde", n>>, <<"caret", n>>}
    BY <1>3 DEF Segments, Separator, Tilde, Caret
  <2>2. PICK n \in Nat : Kth(s, k) \in {<<"number", n>>, <<"word", n>>, <<"tilde", n>>, <<"caret", n>>}
    BY <2>1
  <2>3. Key(s, k) \in {<<5, n>>, <<4, n>>, <<1, n>>, <<3, n>>}
    BY <2>2 DEF Key, Rank
  <2>4. Kth(s, k) # <<"end", 0>>
    BY <2>2
  <2> QED
    BY <1>3, <2>3, <2>4
<1> QED
  BY <1>1, <1>2, <1>3

(* What one pass of the loop says is the order of the next two keys.       *)
LEMMA VerdictFacts ==
  ASSUME NEW l \in Seq(Segments), NEW r \in Seq(Segments), NEW c \in Nat,
         NEW p \in Positions(l, r),
         Counted(l, p[1] - 1) = c, Counted(r, p[2] - 1) = c
  PROVE  LET i == Skip(l, p[1])
             j == Skip(r, p[2])
             a == Key(l, c + 1)
             b == Key(r, c + 1)
         IN /\ Verdict(l, r, i, j) = IF Below(a, b) THEN -1 ELSE IF Below(b, a) THEN 1 ELSE 0
            /\ Ended(l, i) <=> a[1] = 2
            /\ Ended(r, j) <=> b[1] = 2
<1> DEFINE i == Skip(l, p[1])
           j == Skip(r, p[2])
           x == Kth(l, c + 1)
           y == Kth(r, c + 1)
<1>1. p[1] \in 1..Len(l) + 1 /\ p[2] \in 1..Len(r) + 1
  BY DEF Positions
<1>2. /\ Ended(l, i) => x = <<"end", 0>>
      /\ ~Ended(l, i) => l[i] = x /\ x \in Segments \ {Separator}
  BY <1>1, SkipCounts
<1>3. /\ Ended(r, j) => y = <<"end", 0>>
      /\ ~Ended(r, j) => r[j] = y /\ y \in Segments \ {Separator}
  BY <1>1, SkipCounts
<1> HIDE DEF i, j
<1>4. \A z \in Segments \ {Separator} :
        \E n \in Nat : \/ z = <<"number", n>>
                       \/ z = <<"word", n>>
                       \/ z = Tilde
                       \/ z = Caret
  BY DEF Segments, Separator
<1>5. /\ Key(l, c + 1) = <<Rank[x[1]], x[2]>>
      /\ Key(r, c + 1) = <<Rank[y[1]], y[2]>>
  BY DEF Key
<1> HIDE DEF x, y
<1>6. /\ IsAt(l, i, Tilde) = (x = Tilde) /\ IsAt(r, j, Tilde) = (y = Tilde)
      /\ IsAt(l, i, Caret) = (x = Caret) /\ IsAt(r, j, Caret) = (y = Caret)
      /\ Ended(l, i) = (x = <<"end", 0>>) /\ Ended(r, j) = (y = <<"end", 0>>)
  BY <1>2, <1>3 DEF IsAt, Ended, Tilde, Caret, Segments, Separator
<1>7. Verdict(l, r, i, j) =
        IF (x = Tilde) # (y = Tilde) THEN Sign(y = Tilde)
        ELSE IF (x = Caret) # (y = Caret)
          THEN IF x = <<"end", 0>> \/ y = <<"end", 0>> THEN Sign(y = <<"end", 0>>)
               ELSE Sign(y = Caret)
        ELSE IF (x = <<"end", 0>>) # (y = <<"end", 0>>) THEN Sign(y = <<"end", 0>>)
        ELSE IF x = <<"end", 0>> THEN 0
        ELSE PastSegment(l[i], r[j])
  BY <1>6 DEF Verdict, PastTilde, PastCaret, PastEnd
<1>8. ASSUME NEW n \in Nat, NEW m \in Nat,
             x \in {<<"number", n>>, <<"word", n>>, Tilde, Caret, <<"end", 0>>},
             y \in {<<"number", m>>, <<"word", m>>, Tilde, Caret, <<"end", 0>>}
      PROVE  Verdict(l, r, i, j) =
               IF Below(Key(l, c + 1), Key(r, c + 1)) THEN -1
               ELSE IF Below(Key(r, c + 1), Key(l, c + 1)) THEN 1 ELSE 0
  BY <1>2, <1>3, <1>5, <1>6, <1>7, <1>8 DEF PastSegment, Below, Rank, Tilde, Caret, Sign
<1>9. /\ x = <<"end", 0>> \/ x \in Segments \ {Separator}
      /\ y = <<"end", 0>> \/ y \in Segments \ {Separator}
  BY <1>2, <1>3
<1>10. \E n \in Nat : x \in {<<"number", n>>, <<"word", n>>, Tilde, Caret, <<"end", 0>>}
  BY <1>4, <1>9
<1>11. \E m \in Nat : y \in {<<"number", m>>, <<"word", m>>, Tilde, Caret, <<"end", 0>>}
  BY <1>4, <1>9
<1>12. Ended(l, i) <=> Key(l, c + 1)[1] = 2
  <2>1. c + 1 \in Nat /\ (Ended(l, i) <=> Kth(l, c + 1) = <<"end", 0>>)
    BY <1>2 DEF x, Segments, Tilde, Caret
  <2> QED
    BY <2>1, KeyFacts
<1>13. Ended(r, j) <=> Key(r, c + 1)[1] = 2
  <2>1. c + 1 \in Nat /\ (Ended(r, j) <=> Kth(r, c + 1) = <<"end", 0>>)
    BY <1>3 DEF y, Segments, Tilde, Caret
  <2> QED
    BY <2>1, KeyFacts
<1> QED
  BY <1>8, <1>10, <1>11, <1>12, <1>13 DEF i, j

(* The keys of a version after its end are the end.                        *)
LEMMA EndStays ==
  ASSUME NEW s \in Seq(Segments), NEW m \in Nat, NEW k \in Nat, 0 < m, m <= k,
         Key(s, m)[1] = 2
  PROVE  Key(s, k) = <<2, 0>>
<1>1. Len(s) \in Nat /\ Counted(s, Len(s)) \in Nat
  BY CountedFacts
<1>2. Kth(s, m) = <<"end", 0>>
  BY KeyFacts
<1>3. m > Counted(s, Len(s))
  <2>1. SUFFICES ASSUME m <= Counted(s, Len(s)) PROVE FALSE
    BY <1>1
  <2> DEFINE N == {n \in Nat : n <= Len(s) /\ m <= Counted(s, n)}
  <2>2. PICK n \in N : \A q \in N : n <= q
    <3>1. N \in SUBSET Nat /\ Len(s) \in N
      BY <1>1, <2>1
    <3> HIDE DEF N
    <3> QED
      BY <3>1, LeastOfNaturals
  <2>3. Counted(s, 0) = 0
    BY CountedFacts
  <2>4. n # 0
    BY <2>3
  <2>5. n - 1 \in Nat /\ (n - 1) + 1 = n /\ n - 1 \notin N
    BY <2>2, <2>4
  <2>6. Counted(s, n - 1) < m
    <3>1. Counted(s, n - 1) \in Nat
      BY <2>5, CountedFacts
    <3>2. n - 1 <= Len(s)
      BY <1>1, <2>5
    <3> QED
      BY <2>5, <3>1, <3>2
  <2>7. s[n] # Separator /\ Counted(s, n) = m
    BY <2>2, <2>5, <2>6, CountedFacts
  <2>8. n \in 1..Len(s)
    BY <1>1, <2>4
  <2>9. Kth(s, m) = s[n] /\ s[n] \in Segments
    BY <2>7, <2>8, KthFacts
  <2> QED
    BY <1>2, <2>9 DEF Segments, Separator, Tilde, Caret
<1>4. Kth(s, k) = <<"end", 0>>
  BY <1>1, <1>3, KthFacts
<1> QED
  BY <1>4 DEF Key, Rank

(* The loop goes through the keys one by one for as long as they are the   *)
(* same and no end.                                                        *)
LEMMA PassesFollowKeys ==
  ASSUME NEW l \in Seq(Segments), NEW r \in Seq(Segments), NEW k \in Nat,
         \A m \in 1..k : Key(l, m) = Key(r, m) /\ Key(l, m)[1] # 2
  PROVE  \E p \in Positions(l, r) :
           /\ Counted(l, p[1] - 1) = k /\ Counted(r, p[2] - 1) = k
           /\ Passes(l, r)[<<1, 1>>] = Passes(l, r)[p]
<1> DEFINE At(c) == \E p \in Positions(l, r) :
                      /\ Counted(l, p[1] - 1) = c /\ Counted(r, p[2] - 1) = c
                      /\ Passes(l, r)[<<1, 1>>] = Passes(l, r)[p]
           N == {c \in 0..k : ~At(c)}
<1>1. At(0)
  <2>1. <<1, 1>> \in Positions(l, r)
    BY DEF Positions
  <2>2. Counted(l, 0) = 0 /\ Counted(r, 0) = 0
    BY CountedFacts
  <2> QED
    BY <2>1, <2>2
<1>2. ASSUME NEW c \in 0..k - 1, At(c) PROVE At(c + 1)
  <2>1. PICK p \in Positions(l, r) :
          /\ Counted(l, p[1] - 1) = c /\ Counted(r, p[2] - 1) = c
          /\ Passes(l, r)[<<1, 1>>] = Passes(l, r)[p]
    BY <1>2
  <2> DEFINE i == Skip(l, p[1])
             j == Skip(r, p[2])
  <2>2. c \in Nat /\ c + 1 \in 1..k
    OBVIOUS
  <2>3. /\ Verdict(l, r, i, j) =
             IF Below(Key(l, c + 1), Key(r, c + 1)) THEN -1
             ELSE IF Below(Key(r, c + 1), Key(l, c + 1)) THEN 1 ELSE 0
        /\ Ended(l, i) <=> Key(l, c + 1)[1] = 2
        /\ Ended(r, j) <=> Key(r, c + 1)[1] = 2
    BY <2>1, <2>2, VerdictFacts
  <2>4. Key(l, c + 1) = Key(r, c + 1) /\ Key(l, c + 1)[1] # 2
    BY <2>2
  <2>5. Key(l, c + 1)[1] \in 1..5 /\ Key(l, c + 1)[2] \in Nat
    BY <2>2, KeyFacts
  <2>6. Verdict(l, r, i, j) = 0 /\ ~Ended(l, i) /\ ~Ended(r, j)
    BY <2>3, <2>4, <2>5 DEF Below
  <2>7. Passes(l, r)[p] = Passes(l, r)[<<i + 1, j + 1>>]
    BY <2>6, PassesUnfold
  <2>8. p[1] \in 1..Len(l) + 1 /\ p[2] \in 1..Len(r) + 1
    BY DEF Positions
  <2>9. /\ i \in 1..Len(l) /\ Counted(l, i) = c + 1
        /\ j \in 1..Len(r) /\ Counted(r, j) = c + 1
    BY <2>1, <2>2, <2>6, <2>8, SkipCounts
  <2> HIDE DEF i, j
  <2>10. <<i + 1, j + 1>> \in Positions(l, r) /\ (i + 1) - 1 = i /\ (j + 1) - 1 = j
    BY <2>9 DEF Positions
  <2> QED
    BY <2>1, <2>7, <2>9, <2>10
<1> HIDE DEF At
<1>3. N = {}
  <2>1. SUFFICES ASSUME N # {} PROVE FALSE
    OBVIOUS
  <2>2. PICK c \in N : \A m \in N : c <= m
    <3>1. N \in SUBSET Nat
      OBVIOUS
    <3> HIDE DEF N
    <3> QED
      BY <2>1, <3>1, LeastOfNaturals
  <2>3. c # 0 /\ c \in Nat
    BY <1>1
  <2>4. c - 1 \in 0..k - 1 /\ c - 1 \notin N /\ (c - 1) + 1 = c
    BY <2>2, <2>3
  <2> QED
    BY <1>2, <2>4
<1>4. At(k)
  BY <1>3
<1> QED
  BY <1>4 DEF At

(* rpmvercmp tells the order said without a loop.                          *)
THEOREM ComparesByKeys ==
  ASSUME NEW l \in VersionStrings, NEW r \in VersionStrings
  PROVE  Compare(l, r) = IF Precedes(l, r) THEN -1 ELSE IF Precedes(r, l) THEN 1 ELSE 0
<1>1. l \in Seq(Segments) /\ r \in Seq(Segments) /\ l # <<>> /\ r # <<>>
  BY DEF VersionStrings
<1>2. Len(l) \in Nat /\ Len(r) \in Nat
  BY <1>1
<1> DEFINE a(k) == Key(l, k)
           b(k) == Key(r, k)
           P == Passes(l, r)[<<1, 1>>]
           Alike(k) == \A m \in 1..k - 1 : a(m) = b(m)
<1>3. \A k \in Nat : /\ a(k)[1] \in 1..5 /\ a(k)[2] \in Nat /\ a(k) = <<a(k)[1], a(k)[2]>>
                     /\ b(k)[1] \in 1..5 /\ b(k)[2] \in Nat /\ b(k) = <<b(k)[1], b(k)[2]>>
  BY <1>1, KeyFacts
<1>4. ASSUME NEW k \in Nat \ {0}, Alike(k), \A m \in 1..k - 1 : a(m)[1] # 2,
             a(k) # b(k) \/ a(k)[1] = 2
      PROVE  P = IF Below(a(k), b(k)) THEN -1 ELSE IF Below(b(k), a(k)) THEN 1 ELSE 0
  <2>1. k - 1 \in Nat /\ (k - 1) + 1 = k
    OBVIOUS
  <2>2. PICK p \in Positions(l, r) :
          /\ Counted(l, p[1] - 1) = k - 1 /\ Counted(r, p[2] - 1) = k - 1
          /\ P = Passes(l, r)[p]
    BY <1>1, <1>4, <2>1, PassesFollowKeys
  <2> DEFINE i == Skip(l, p[1])
             j == Skip(r, p[2])
  <2>3. /\ Verdict(l, r, i, j) = IF Below(a(k), b(k)) THEN -1
                                 ELSE IF Below(b(k), a(k)) THEN 1 ELSE 0
        /\ Ended(l, i) <=> a(k)[1] = 2
    BY <1>1, <2>1, <2>2, VerdictFacts
  <2>4. Verdict(l, r, i, j) # 0 \/ Ended(l, i)
    BY <1>3, <1>4, <2>3 DEF Below
  <2>5. Passes(l, r)[p] = Verdict(l, r, i, j)
    BY <1>1, <2>4, PassesUnfold
  <2> QED
    BY <2>2, <2>3, <2>5
<1>5. ASSUME NEW k \in Nat \ {0}, Alike(k), a(k) # b(k)
      PROVE  /\ P = IF Below(a(k), b(k)) THEN -1 ELSE 1
             /\ Below(a(k), b(k)) \/ Below(b(k), a(k))
  <2>1. ASSUME NEW m \in 1..k - 1, a(m)[1] = 2 PROVE FALSE
    <3>1. m \in Nat /\ 0 < m /\ m <= k /\ k \in Nat /\ b(m)[1] = 2
      BY <1>5, <2>1
    <3>2. a(k) = <<2, 0>> /\ b(k) = <<2, 0>>
      BY <1>1, <2>1, <3>1, EndStays
    <3> QED
      BY <1>5, <3>2
  <2>2. Below(a(k), b(k)) \/ Below(b(k), a(k))
    BY <1>3, <1>5 DEF Below
  <2> QED
    BY <1>4, <1>5, <2>1, <2>2
<1>6. ASSUME \A k \in Nat \ {0} : a(k) = b(k) PROVE P = 0
  <2> DEFINE N == {k \in Nat \ {0} : a(k)[1] = 2}
  <2>1. Counted(l, Len(l)) \in Nat
    BY <1>2, CountedFacts
  <2>2. Counted(l, Len(l)) + 1 \in N
    BY <1>1, <2>1, KthFacts DEF Key, Rank
  <2>3. PICK k \in N : \A m \in N : k <= m
    <3>1. N \in SUBSET Nat /\ N # {}
      BY <2>2
    <3> HIDE DEF N
    <3> QED
      BY <3>1, LeastOfNaturals
  <2>4. ~Below(a(k), b(k)) /\ ~Below(b(k), a(k))
    BY <1>3, <1>6 DEF Below
  <2>5. Alike(k) /\ \A m \in 1..k - 1 : a(m)[1] # 2
    BY <1>6, <2>3
  <2> QED
    BY <1>4, <2>4, <2>5
<1> DEFINE K == Len(l) + Len(r) + 1
<1>7. \A k \in Nat : k >= K => a(k) = b(k)
  <2>1. ASSUME NEW k \in Nat, k >= K PROVE a(k) = b(k)
    <3>1. Counted(l, Len(l)) \in 0..Len(l) /\ Counted(r, Len(r)) \in 0..Len(r)
      BY <1>2, CountedFacts
    <3>2. k > Counted(l, Len(l)) /\ k > Counted(r, Len(r))
      BY <1>2, <2>1, <3>1
    <3>3. Kth(l, k) = <<"end", 0>> /\ Kth(r, k) = <<"end", 0>>
      BY <1>1, <3>2, KthFacts
    <3> QED
      BY <3>3 DEF Key
  <2> QED
    BY <2>1
<1>8. CASE \A k \in Nat \ {0} : a(k) = b(k)
  <2>1. \A k \in Nat : ~Below(a(k), b(k)) \/ k = 0
    BY <1>3, <1>8 DEF Below
  <2>2. \A k \in Nat : ~Below(b(k), a(k)) \/ k = 0
    BY <1>3, <1>8 DEF Below
  <2>3. ~Precedes(l, r) /\ ~Precedes(r, l)
    BY <1>2, <2>1, <2>2 DEF Precedes
  <2> QED
    BY <1>1, <1>6, <1>8, <2>3 DEF Compare
<1>9. CASE \E k \in Nat \ {0} : a(k) # b(k)
  <2> DEFINE N == {k \in Nat \ {0} : a(k) # b(k)}
  <2>1. PICK k \in N : \A m \in N : k <= m
    <3>1. N \in SUBSET Nat /\ N # {}
      BY <1>9
    <3> HIDE DEF N
    <3> QED
      BY <3>1, LeastOfNaturals
  <2>2. k \in Nat \ {0} /\ a(k) # b(k) /\ Alike(k)
    BY <2>1
  <2>3. k \in 1..K
    BY <1>2, <1>7, <2>2
  <2>4. l # r
    BY <2>2
  <2>5. Compare(l, r) = P
    BY <1>1, <2>4 DEF Compare
  <2>6. \A m \in Nat \ {0} : Alike(m) /\ a(m) # b(m) => m = k
    BY <2>1, <2>2
  <2>7. \A m \in Nat \ {0} : Below(a(m), b(m)) \/ Below(b(m), a(m)) => a(m) # b(m)
    BY <1>3 DEF Below
  <2>8. Precedes(l, r) <=> Below(a(k), b(k))
    <3>1. Below(a(k), b(k)) => Precedes(l, r)
      BY <2>2, <2>3 DEF Precedes
    <3>2. ASSUME Precedes(l, r) PROVE Below(a(k), b(k))
      <4>1. PICK m \in 1..K : Alike(m) /\ Below(a(m), b(m))
        BY <3>2 DEF Precedes
      <4>2. m \in Nat \ {0}
        BY <1>2
      <4> QED
        BY <2>6, <2>7, <4>1, <4>2
    <3> QED
      BY <3>1, <3>2
  <2>9. Precedes(r, l) <=> Below(b(k), a(k))
    <3>1. Below(b(k), a(k)) => Precedes(r, l)
      BY <1>2, <2>2, <2>3 DEF Precedes
    <3>2. ASSUME Precedes(r, l) PROVE Below(b(k), a(k))
      <4>1. PICK m \in 1..Len(r) + Len(l) + 1 :
              (\A n \in 1..m - 1 : b(n) = a(n)) /\ Below(b(m), a(m))
        BY <3>2 DEF Precedes
      <4>2. m \in Nat \ {0} /\ Alike(m)
        BY <1>2, <4>1
      <4> QED
        BY <2>6, <2>7, <4>1, <4>2
    <3> QED
      BY <3>1, <3>2
  <2>10. Below(a(k), b(k)) => ~Below(b(k), a(k))
    BY <1>3, <2>2 DEF Below
  <2> HIDE DEF a, b, P
  <2> QED
    BY <1>5, <2>2, <2>5, <2>8, <2>9, <2>10
<1> QED
  BY <1>8, <1>9

(* Where the first two keys that differ are does not matter.               *)
LEMMA PrecedesAt ==
  ASSUME NEW l \in Seq(Segments), NEW r \in Seq(Segments), NEW k \in Nat \ {0},
         \A m \in 1..k - 1 : Key(l, m) = Key(r, m), Below(Key(l, k), Key(r, k))
  PROVE  Precedes(l, r)
<1>1. Len(l) \in Nat /\ Len(r) \in Nat
  OBVIOUS
<1>2. Key(l, k) # Key(r, k)
  BY KeyFacts DEF Below
<1>3. k \in 1..Len(l) + Len(r) + 1
  <2>1. SUFFICES ASSUME k > Len(l) + Len(r) + 1 PROVE FALSE
    BY <1>1
  <2>2. Counted(l, Len(l)) \in 0..Len(l) /\ Counted(r, Len(r)) \in 0..Len(r)
    BY <1>1, CountedFacts
  <2>3. k > Counted(l, Len(l)) /\ k > Counted(r, Len(r))
    BY <1>1, <2>1, <2>2
  <2>4. Kth(l, k) = <<"end", 0>> /\ Kth(r, k) = <<"end", 0>>
    BY <2>3, KthFacts
  <2> QED
    BY <1>2, <2>4 DEF Key
<1> QED
  BY <1>3 DEF Precedes

LEMMA PrecedesSplits ==
  ASSUME NEW l \in Seq(Segments), NEW m \in Seq(Segments), NEW r \in Seq(Segments),
         Precedes(l, r)
  PROVE  Precedes(l, m) \/ Precedes(m, r)
<1>1. Len(l) \in Nat /\ Len(r) \in Nat
  OBVIOUS
<1>2. PICK k \in 1..Len(l) + Len(r) + 1 :
        (\A n \in 1..k - 1 : Key(l, n) = Key(r, n)) /\ Below(Key(l, k), Key(r, k))
  BY DEF Precedes
<1>3. k \in Nat \ {0}
  BY <1>1
<1> DEFINE N == {n \in 1..k : Key(l, n) # Key(m, n) \/ Key(m, n) # Key(r, n)}
<1>4. Key(l, k) # Key(r, k)
  BY <1>2, <1>3, KeyFacts DEF Below
<1>5. PICK n \in N : \A q \in N : n <= q
  <2>1. N \in SUBSET Nat /\ k \in N
    BY <1>3, <1>4
  <2> HIDE DEF N
  <2> QED
    BY <2>1, LeastOfNaturals
<1>6. n \in Nat \ {0} /\ n \in 1..k
  BY <1>3
<1>7. \A q \in 1..n - 1 : Key(l, q) = Key(m, q) /\ Key(m, q) = Key(r, q)
  BY <1>3, <1>5, <1>6
<1>8. \A s \in {l, m, r} : /\ Key(s, n)[1] \in 1..5 /\ Key(s, n)[2] \in Nat
                           /\ Key(s, n) = <<Key(s, n)[1], Key(s, n)[2]>>
  BY <1>6, KeyFacts
<1>9. n = k \/ Key(l, n) = Key(r, n)
  BY <1>2, <1>3, <1>6
<1>10. Below(Key(l, n), Key(m, n)) \/ Below(Key(m, n), Key(r, n))
  <2>1. CASE n = k
    BY <1>2, <1>8, <2>1 DEF Below
  <2>2. CASE Key(l, n) = Key(r, n)
    <3>1. Key(l, n) # Key(m, n)
      BY <1>5, <2>2
    <3> QED
      BY <1>8, <2>2, <3>1 DEF Below
  <2> QED
    BY <1>9, <2>1, <2>2
<1> QED
  BY <1>6, <1>7, <1>10, PrecedesAt

(* rpmvercmp is a total preorder on the versions there are: what compares  *)
(* as no older than something no older is no older, and to swap the two    *)
(* swaps the answer.                                                       *)
THEOREM CompareIsOrder ==
  ASSUME NEW l \in VersionStrings, NEW m \in VersionStrings, NEW r \in VersionStrings
  PROVE  /\ Compare(l, r) \in {-1, 0, 1}
         /\ Compare(l, l) = 0
         /\ Compare(r, l) = -Compare(l, r)
         /\ Compare(l, m) >= 0 /\ Compare(m, r) >= 0 => Compare(l, r) >= 0
<1>1. l \in Seq(Segments) /\ m \in Seq(Segments) /\ r \in Seq(Segments)
  BY DEF VersionStrings
<1>2. Compare(l, l) = 0
  BY DEF Compare
<1>3. ~(Precedes(l, r) /\ Precedes(r, l))
  <2>1. SUFFICES ASSUME Precedes(l, r), Precedes(r, l) PROVE FALSE
    OBVIOUS
  <2>2. PICK k \in 1..Len(l) + Len(r) + 1 :
          (\A n \in 1..k - 1 : Key(l, n) = Key(r, n)) /\ Below(Key(l, k), Key(r, k))
    BY <2>1 DEF Precedes
  <2>3. PICK q \in 1..Len(r) + Len(l) + 1 :
          (\A n \in 1..q - 1 : Key(r, n) = Key(l, n)) /\ Below(Key(r, q), Key(l, q))
    BY <2>1 DEF Precedes
  <2>4. k \in Nat \ {0} /\ q \in Nat \ {0}
    BY <1>1
  <2>5. /\ Key(l, k)[1] \in 1..5 /\ Key(l, k)[2] \in Nat /\ Key(r, k)[1] \in 1..5 /\ Key(r, k)[2] \in Nat
        /\ Key(l, q)[1] \in 1..5 /\ Key(l, q)[2] \in Nat /\ Key(r, q)[1] \in 1..5 /\ Key(r, q)[2] \in Nat
    BY <1>1, <2>4, KeyFacts
  <2>6. Key(l, k) # Key(r, k) /\ Key(l, q) # Key(r, q) /\ ~Below(Key(r, k), Key(l, k))
    BY <2>2, <2>3, <2>5 DEF Below
  <2>7. k = q
    BY <2>2, <2>3, <2>4, <2>6
  <2> QED
    BY <2>3, <2>6, <2>7
<1>4. \A x, y \in VersionStrings : Compare(x, y) =
        IF Precedes(x, y) THEN -1 ELSE IF Precedes(y, x) THEN 1 ELSE 0
  BY ComparesByKeys
<1>5. Precedes(l, r) => Precedes(l, m) \/ Precedes(m, r)
  BY <1>1, PrecedesSplits
<1> QED
  BY <1>2, <1>3, <1>4, <1>5

(* A total preorder has a greatest element in every finite set, which is   *)
(* what a sort by it ends with.                                            *)
LEMMA GreatestExists ==
  ASSUME NEW S, IsFiniteSet(S), S # {}, NEW R,
         \A v, w \in S : <<v, w>> \in R \/ <<w, v>> \in R,
         \A u, v, w \in S : <<u, v>> \in R /\ <<v, w>> \in R => <<u, w>> \in R
  PROVE  \E v \in S : \A w \in S : <<v, w>> \in R
<1> DEFINE Above(v) == {w \in S : <<v, w>> \notin R}
           Count(v) == Cardinality(Above(v))
           N == {Count(v) : v \in S}
<1>1. ASSUME NEW v \in S PROVE IsFiniteSet(Above(v)) /\ Count(v) \in Nat
  <2>1. Above(v) \subseteq S
    OBVIOUS
  <2> HIDE DEF Above
  <2>2. IsFiniteSet(Above(v))
    BY <2>1, FS_Subset
  <2> QED
    BY <2>2, FS_CardinalityType
<1>2. PICK v \in S : \A w \in S : Count(v) <= Count(w)
  <2>1. \E n \in N : \A q \in N : n <= q
    <3> HIDE DEF Count
    <3>1. N \in SUBSET Nat /\ N # {}
      BY <1>1
    <3> HIDE DEF N
    <3> QED
      BY <3>1, LeastOfNaturals
  <2> HIDE DEF Count
  <2> QED
    BY <2>1
<1>3. ASSUME NEW w \in S, <<v, w>> \notin R PROVE FALSE
  <2>1. <<w, v>> \in R /\ <<w, w>> \in R
    BY <1>3
  <2>2. Above(w) \subseteq Above(v)
    BY <2>1
  <2>3. w \in Above(v) /\ w \notin Above(w)
    BY <1>3, <2>1
  <2>4. IsFiniteSet(Above(v)) /\ Count(v) \in Nat /\ Count(w) \in Nat
    BY <1>1
  <2> HIDE DEF Above
  <2>5. Cardinality(Above(w)) <= Cardinality(Above(v))
    BY <2>2, <2>4, FS_Subset
  <2>6. Cardinality(Above(w)) # Cardinality(Above(v))
    BY <2>2, <2>3, <2>4, FS_Subset
  <2>7. Count(v) <= Count(w)
    BY <1>2
  <2> QED
    BY <2>4, <2>5, <2>6, <2>7
<1> QED
  BY <1>3

-----------------------------------------------------------------------------
(* A directory that is there was unpacked from an archive of its package.  *)
Unpacked ==
  \A p \in Packages : recipe[p].state # "absent" =>
    recipe[p].archive \in Archives /\ recipe[p].archive.name = p

(* The command under way: its catalogue lists nothing the chroot has not   *)
(* still, and what it has in hand is of the package and the version it     *)
(* settled on, before and after extract unpacked something.                *)
SeedInHand ==
  /\ seed.entries \subseteq chroot
  /\ seed.phase # "idle" /\ ~seed.byHand => seed.ask \in Asks
  /\ seed.phase = "pick" => ~seed.byHand
  /\ seed.phase \in {"extract", "record"} => seed.name \in Packages
  /\ seed.phase = "extract" /\ ~seed.byHand =>
       seed.href \in Candidates(seed.entries, seed.name, seed.version)
  /\ seed.phase = "record" =>
       /\ seed.href \in Archives
       /\ seed.href.name = seed.name
       /\ recipe[seed.name].state = "whole"
       /\ recipe[seed.name].archive.version = seed.href.version

ImportInv == ImportTypeOK /\ Unpacked /\ SeedInHand /\ RecordedVersionHolds

-----------------------------------------------------------------------------
LEMMA ArchiveFacts ==
  ASSUME NEW a \in Archives
  PROVE  a.name \in Packages /\ a.version \in Versions /\ a # None
BY ImportAssumption DEF Versions

(* What the command line and the catalogue come to is a version, or none.  *)
LEMMA WantedTyped ==
  ASSUME NEW entries \in SUBSET Archives, NEW p \in Packages, NEW ask \in Asks,
         NEW v \in Wanted(entries, p, ask.version[p])
  PROVE  v \in Versions \cup {None}
<1>1. ask.version[p] \in Versions \cup {Newest, None}
  BY ImportAssumption
<1>2. Available(entries, p) \subseteq Versions
  BY DEF Available, Versions
<1> QED
  BY <1>1, <1>2 DEF Wanted, PickVersion

(* pick_version finds a newest version in whatever a chroot lists, and      *)
(* select_source a newest archive wherever it does not refuse: the sort by *)
(* rpmvercmp that each ends with has a last element to tell.               *)
THEOREM NewestFound ==
  ASSUME NEW entries \in SUBSET Archives, IsFiniteSet(entries), NEW p, NEW v,
         Candidates(entries, p, v) # {}
  PROVE  /\ PickVersion(Available(entries, p)) # {}
         /\ SelectSource(entries, p, v) = {} <=> Ambiguous(entries, p, v)
<1> DEFINE S == Candidates(entries, p, v)
           R == {x \in S \X S : AtLeast(x[1], x[2])}
           K == Available(entries, p)
           Q == {x \in K \X K : Compare(x[1], x[2]) >= 0}
<1>1. \A a \in entries : a.version \in VersionStrings /\ a.release \in VersionStrings
  BY ImportAssumption
<1>2. \A x, y \in VersionStrings :
        /\ Compare(x, y) \in {-1, 0, 1} /\ Compare(x, x) = 0 /\ Compare(y, x) = -Compare(x, y)
        /\ \A z \in VersionStrings :
             Compare(x, y) >= 0 /\ Compare(y, z) >= 0 => Compare(x, z) >= 0
  BY CompareIsOrder
<1>3. PickVersion(K) # {}
  <2>1. IsFiniteSet(K) /\ K # {}
    <3> DEFINE VersionOf == [a \in entries |-> a.version]
    <3>1. K \subseteq Range(VersionOf)
      BY DEF Available, Range
    <3>4. IsFiniteSet(Range(VersionOf))
      <4>1. VersionOf \in Surjection(entries, Range(VersionOf))
        BY DEF Surjection, Range
      <4> HIDE DEF VersionOf
      <4> QED
        BY <4>1, FS_Surjection
    <3>2. K # {}
      BY DEF Candidates, Available
    <3> HIDE DEF K
    <3> QED
      BY <3>1, <3>2, <3>4, FS_Subset
  <2>2. K \subseteq VersionStrings
    BY <1>1 DEF Available
  <2>3. \A x, y \in K : <<x, y>> \in Q <=> Compare(x, y) >= 0
    <3> HIDE DEF K
    <3> QED
      OBVIOUS
  <2>4. \A x, y \in K : <<x, y>> \in Q \/ <<y, x>> \in Q
    <3>1. \A x, y \in K : Compare(x, y) >= 0 \/ Compare(y, x) >= 0
      BY <1>2, <2>2
    <3> HIDE DEF K, Q
    <3> QED
      BY <2>3, <3>1
  <2>5. \A x, y, z \in K : <<x, y>> \in Q /\ <<y, z>> \in Q => <<x, z>> \in Q
    BY <1>2, <2>2, <2>3
  <2> HIDE DEF K, Q
  <2>6. \E x \in K : \A y \in K : <<x, y>> \in Q
    BY <2>1, <2>4, <2>5, GreatestExists
  <2> QED
    BY <2>3, <2>6 DEF PickVersion
<1>4. ~Ambiguous(entries, p, v) => SelectSource(entries, p, v) # {}
  <2>1. IsFiniteSet(S) /\ S \subseteq entries
    <3>1. S \subseteq entries
      BY DEF Candidates
    <3> HIDE DEF S
    <3> QED
      BY <3>1, FS_Subset
  <2>2. \A a \in S : a.version \in VersionStrings /\ a.release \in VersionStrings
    BY <1>1, <2>1
  <2>3. \A a, b \in S : <<a, b>> \in R <=> AtLeast(a, b)
    <3> HIDE DEF S
    <3> QED
      OBVIOUS
  <2> HIDE DEF S
  <2>4. ASSUME NEW a \in S, NEW b \in S PROVE AtLeast(a, b) \/ AtLeast(b, a)
    BY <1>2, <2>2 DEF AtLeast
  <2>5. ASSUME NEW a \in S, NEW b \in S, NEW c \in S, AtLeast(a, b), AtLeast(b, c)
        PROVE  AtLeast(a, c)
    <3>1. /\ Compare(a.version, b.version) >= 0 /\ Compare(b.version, c.version) >= 0
          /\ Compare(a.version, b.version) = 0 => Compare(a.release, b.release) >= 0
          /\ Compare(b.version, c.version) = 0 => Compare(b.release, c.release) >= 0
      BY <1>2, <2>2, <2>5 DEF AtLeast
    <3>2. Compare(a.version, c.version) >= 0
      BY <1>2, <2>2, <3>1
    <3>3. ASSUME Compare(a.version, c.version) = 0
          PROVE  Compare(a.version, b.version) = 0 /\ Compare(b.version, c.version) = 0
      <4>1. Compare(c.version, a.version) >= 0
        BY <1>2, <2>2, <3>3
      <4>2. Compare(b.version, a.version) >= 0 /\ Compare(c.version, b.version) >= 0
        BY <1>2, <2>2, <3>1, <4>1
      <4>3. /\ Compare(b.version, a.version) = -Compare(a.version, b.version)
            /\ Compare(c.version, b.version) = -Compare(b.version, c.version)
            /\ Compare(a.version, b.version) \in {-1, 0, 1} /\ Compare(b.version, c.version) \in {-1, 0, 1}
        BY <1>2, <2>2
      <4> QED
        BY <3>1, <4>2, <4>3
    <3>4. Compare(a.version, c.version) = 0 => Compare(a.release, c.release) >= 0
      BY <1>2, <2>2, <3>1, <3>3
    <3>5. Compare(a.version, c.version) \in {-1, 0, 1}
      BY <1>2, <2>2
    <3> QED
      BY <3>2, <3>4, <3>5 DEF AtLeast
  <2> HIDE DEF R
  <2>6. \A a, b \in S : <<a, b>> \in R \/ <<b, a>> \in R
    BY <2>3, <2>4
  <2>7. \A a, b, c \in S : <<a, b>> \in R /\ <<b, c>> \in R => <<a, c>> \in R
    BY <2>3, <2>5
  <2>8. S # {}
    BY DEF S
  <2>9. \E a \in S : \A b \in S : <<a, b>> \in R
    BY <2>1, <2>6, <2>7, <2>8, GreatestExists
  <2> QED
    BY <2>3, <2>9 DEF SelectSource, S
<1> QED
  BY <1>3, <1>4 DEF SelectSource

(* select_source answers with archives of the package and the version, and *)
(* when no version was named every archive of the package has that of the  *)
(* answer.                                                                 *)
LEMMA SelectSourceFacts ==
  ASSUME NEW entries, NEW p, NEW version, NEW a \in SelectSource(entries, p, version)
  PROVE  /\ a \in Candidates(entries, p, version)
         /\ version = None => \A b \in Candidates(entries, p, None) : b.version = a.version
BY DEF SelectSource, Ambiguous, Candidates

(* The archive taken when no version was asked for compares as the newest. *)
LEMMA PickedNewest ==
  ASSUME NEW entries \in SUBSET Archives, NEW p, NEW asked \in {None, Newest},
         NEW v \in Wanted(entries, p, asked), NEW a \in SelectSource(entries, p, v),
         NEW b \in Candidates(entries, p, None)
  PROVE  /\ Compare(a.version, b.version) >= 0
         /\ a.version = b.version => Compare(a.release, b.release) >= 0
<1>1. /\ a \in Candidates(entries, p, v)
      /\ \A c \in Candidates(entries, p, v) : AtLeast(a, c)
      /\ v = None => \A c \in Candidates(entries, p, None) : c.version = a.version
  BY DEF SelectSource, Ambiguous, Candidates
<1>2. Compare(a.version, a.version) = 0
  BY DEF Compare
<1>3. a.version = b.version => Compare(a.release, b.release) >= 0
  <2>1. a.version = b.version => b \in Candidates(entries, p, v)
    BY <1>1 DEF Candidates
  <2> QED
    BY <1>1, <1>2, <2>1 DEF AtLeast
<1>4. Compare(a.version, b.version) >= 0
  <2>1. CASE v = None
    BY <1>1, <1>2, <2>1
  <2>2. CASE v # None
    <3>1. None \notin Versions /\ Available(entries, p) \subseteq Versions /\ None # Newest
      BY ImportAssumption DEF Available, Versions
    <3>2. v \in PickVersion(Available(entries, p)) \/ v = asked
      BY DEF Wanted
    <3>3. v \in PickVersion(Available(entries, p))
      BY <2>2, <3>1, <3>2 DEF Wanted
    <3>4. a.version = v /\ b.version \in Available(entries, p)
      BY <1>1, <2>2 DEF Candidates, Available
    <3> QED
      BY <3>3, <3>4 DEF PickVersion
  <2> QED
    BY <2>1, <2>2
<1> QED
  BY <1>3, <1>4

LEMMA NoCommandTyped == NoCommand \in Commands
BY DEF NoCommand, Commands, Phases

(* A package done with, one way or the other, leaves nothing in hand.      *)
LEMMA ResumeFacts ==
  ASSUME ImportTypeOK, SeedInHand, seed.phase \in {"extract", "record"},
         NEW failed \in BOOLEAN, Resume(failed)
  PROVE  /\ seed' \in Commands
         /\ seed'.phase \in {"idle", "pick"}
         /\ seed'.phase = "pick" => ~seed'.byHand
         /\ seed'.phase # "idle" => seed'.ask \in Asks
         /\ seed'.entries \subseteq seed.entries
<1>1. seed \in Commands /\ seed.name \in Packages
  BY DEF ImportTypeOK, SeedInHand
<1>2. CASE seed.byHand
  <2>1. seed' = NoCommand
    BY <1>2 DEF Resume
  <2> QED
    BY <2>1, NoCommandTyped DEF NoCommand
<1>3. CASE ~seed.byHand
  <2>1. seed' = [seed EXCEPT !.phase = "pick", !.todo = @ \ {seed.name},
                   !.failed = IF failed THEN @ \cup {seed.name} ELSE @]
    BY <1>3 DEF Resume
  <2>2. seed.ask \in Asks
    BY <1>3 DEF SeedInHand
  <2> QED
    BY <1>1, <1>3, <2>1, <2>2 DEF Commands, Phases
<1> QED
  BY <1>2, <1>3, <1>1 DEF Commands

(* An unpacked directory, complete or not, is of the package in hand.      *)
LEMMA DirectoryFacts ==
  ASSUME ImportInv, NEW a \in chroot, NEW state \in {"debris", "partial", "whole"},
         Extractable(a), Directory(state, a), chroot' = chroot, sidecar' = sidecar
  PROVE  /\ recipe' \in [Packages -> Directories]
         /\ Unpacked'
         /\ RecordedVersionHolds'
         /\ recipe'[seed.name].state = state
         /\ recipe'[seed.name].archive = a
<1>1. a \in Archives /\ a \in Candidates(chroot, seed.name, seed.version)
  BY SelectSourceFacts DEF ImportInv, ImportTypeOK, Extractable
<1>2. a.name = seed.name /\ seed.name \in Packages /\ seed.name \notin Recorded
  BY <1>1 DEF ImportInv, SeedInHand, RecordedVersionHolds, Recorded, Extractable, Candidates
<1>3. recipe' = [recipe EXCEPT ![seed.name] = [state |-> state, archive |-> a]]
  BY DEF Directory
<1>4. recipe' \in [Packages -> Directories]
  BY <1>1, <1>2, <1>3 DEF ImportInv, ImportTypeOK, Directories
<1>5. Unpacked'
  BY <1>1, <1>2, <1>3 DEF ImportInv, ImportTypeOK, Unpacked
<1>6. RecordedVersionHolds'
  BY <1>2, <1>3 DEF ImportInv, ImportTypeOK, RecordedVersionHolds, Recorded
<1> QED
  BY <1>2, <1>3, <1>4, <1>5, <1>6 DEF ImportInv, ImportTypeOK

-----------------------------------------------------------------------------
LEMMA ImportInvInit == ImportInit => ImportInv
<1> SUFFICES ASSUME ImportInit PROVE ImportInv
  OBVIOUS
<1>1. ImportTypeOK
  BY NoCommandTyped DEF ImportInit, ImportTypeOK, NoDirectory, NoArchives, Directories
<1> QED
  BY <1>1
  DEF ImportInit, ImportInv, Unpacked, SeedInHand, RecordedVersionHolds, Recorded, NoDirectory,
              NoArchives, NoCommand

LEMMA ImportInvStep == ImportInv /\ [ImportNext]_importVars => ImportInv'
<1> SUFFICES ASSUME ImportInv, [ImportNext]_importVars PROVE ImportInv'
  OBVIOUS
<1> USE DEF ImportInv
<1>1. CASE Publish
  BY <1>1 DEF Publish, ImportTypeOK, Unpacked, SeedInHand, RecordedVersionHolds, Recorded
<1>2. CASE SeedStart
  <2>1. PICK ask \in Asks :
          seed' = [NoCommand EXCEPT !.phase = "pick", !.entries = chroot, !.ask = ask,
                     !.todo = IF ask.only # {} THEN ask.only ELSE {a.name : a \in chroot}]
    BY <1>2 DEF SeedStart
  <2>2. (IF ask.only # {} THEN ask.only ELSE {a.name : a \in chroot}) \subseteq Packages
    BY ArchiveFacts, ImportAssumption DEF ImportTypeOK
  <2>3. seed' \in Commands /\ seed'.phase = "pick" /\ ~seed'.byHand /\ seed'.ask = ask
          /\ seed'.entries = chroot
    BY <2>1, <2>2 DEF NoCommand, Commands, Phases, ImportTypeOK
  <2> QED
    BY <1>2, <2>3
    DEF SeedStart, ImportTypeOK, Unpacked, SeedInHand, RecordedVersionHolds, Recorded
<1>3. ASSUME NEW p \in Packages, SeedPick(p) PROVE ImportInv'
  <2> DEFINE asked == seed.ask.version[p]
  <2>1. /\ seed \in Commands /\ seed.phase = "pick" /\ ~seed.byHand /\ seed.ask \in Asks
        /\ seed.entries \in SUBSET Archives /\ seed.entries \subseteq chroot
    BY <1>3 DEF SeedPick, ImportTypeOK, SeedInHand, Commands
  <2>2. UNCHANGED <<chroot, recipe, sidecar, finished, kills>>
    BY <1>3 DEF SeedPick
  <2>3. CASE seed' = [seed EXCEPT !.todo = @ \ {p}, !.skipped = @ \cup {p}]
    BY <2>1, <2>2, <2>3
    DEF ImportTypeOK, Unpacked, SeedInHand, RecordedVersionHolds, Recorded, Commands
  <2>4. CASE seed' = [seed EXCEPT !.todo = @ \ {p}, !.failed = @ \cup {p}]
    BY <2>1, <2>2, <2>4
    DEF ImportTypeOK, Unpacked, SeedInHand, RecordedVersionHolds, Recorded, Commands
  <2>5. ASSUME NEW v \in Wanted(seed.entries, p, asked),
               NEW a \in SelectSource(seed.entries, p, v),
               seed' = [seed EXCEPT !.phase = "extract", !.name = p,
                                    !.version = v, !.href = a]
        PROVE  ImportInv'
    <3>1. v \in Versions \cup {None}
      BY <2>1, WantedTyped
    <3>2. a \in Candidates(seed.entries, p, v) /\ a \in Archives
      BY <2>1, SelectSourceFacts DEF Candidates
    <3>3. seed' \in Commands
      BY <2>1, <2>5, <3>1, <3>2 DEF Commands, Phases
    <3>4. /\ seed'.phase = "extract" /\ seed'.name = p /\ seed'.version = v /\ seed'.href = a
          /\ seed'.entries = seed.entries /\ seed'.ask = seed.ask /\ ~seed'.byHand
      BY <2>1, <2>5 DEF Commands
    <3>5. SeedInHand'
      BY <2>1, <2>2, <3>2, <3>4 DEF SeedInHand
    <3> QED
      BY <2>2, <3>3, <3>5 DEF ImportTypeOK, Unpacked, RecordedVersionHolds, Recorded
  <2> QED
    BY <1>3, <2>3, <2>4, <2>5 DEF SeedPick
<1>4. ASSUME NEW p \in Packages, NEW v \in Versions \cup {None}, ExtractByHand(p, v)
      PROVE  ImportInv'
  <2>1. /\ seed' \in Commands /\ seed'.phase = "extract" /\ seed'.byHand
        /\ seed'.name = p /\ seed'.entries = {}
    BY <1>4 DEF ExtractByHand, NoCommand, Commands, Phases
  <2> QED
    BY <1>4, <2>1
    DEF ExtractByHand, ImportTypeOK, Unpacked, SeedInHand, RecordedVersionHolds, Recorded
<1>5. CASE Extract
  <2>1. PICK a \in chroot :
          /\ Extractable(a)
          /\ Directory("whole", a)
          /\ seed' = [seed EXCEPT !.phase = "record", !.href = IF seed.byHand THEN a ELSE @]
    BY <1>5 DEF Extract
  <2>2. UNCHANGED <<chroot, sidecar, finished, kills>>
    BY <1>5 DEF Extract
  <2>3. /\ recipe' \in [Packages -> Directories] /\ Unpacked' /\ RecordedVersionHolds'
        /\ recipe'[seed.name].state = "whole" /\ recipe'[seed.name].archive = a
    BY <2>1, <2>2, DirectoryFacts
  <2>4. a \in Archives /\ seed \in Commands /\ seed.phase = "extract" /\ seed.name \in Packages
          /\ seed.entries \subseteq chroot
    BY <2>1 DEF Extractable, ImportTypeOK, SeedInHand
  <2>5. /\ a \in Candidates(chroot, seed.name, seed.version)
        /\ seed.version = None =>
             \A b \in Candidates(chroot, seed.name, None) : b.version = a.version
    BY <2>1, SelectSourceFacts DEF Extractable
  <2> DEFINE h == IF seed.byHand THEN a ELSE seed.href
  <2>6. h \in Archives /\ h.name = seed.name /\ h.version = a.version
    <3>1. CASE seed.byHand
      BY <2>4, <2>5, <3>1 DEF Candidates
    <3>2. CASE ~seed.byHand
      <4>1. seed.href \in Candidates(chroot, seed.name, seed.version)
        BY <2>4, <3>2 DEF SeedInHand, Candidates
      <4>2. h = seed.href /\ h \in Archives
        BY <4>1, <3>2 DEF Candidates, ImportTypeOK
      <4> QED
        BY <2>5, <4>1, <4>2 DEF Candidates
    <3> QED
      BY <3>1, <3>2, <2>4 DEF Commands
  <2>7. /\ seed' \in Commands /\ seed'.phase = "record" /\ seed'.name = seed.name
        /\ seed'.href = h /\ seed'.entries = seed.entries /\ seed'.ask = seed.ask
        /\ seed'.byHand = seed.byHand
    BY <2>1, <2>4, <2>6 DEF Commands, Phases
  <2>8. SeedInHand'
    BY <2>2, <2>3, <2>4, <2>6, <2>7 DEF SeedInHand
  <2> QED
    BY <2>2, <2>3, <2>7, <2>8 DEF ImportTypeOK
<1>6. CASE ExtractRefused
  BY <1>6, ResumeFacts
  DEF ExtractRefused, ImportTypeOK, Unpacked, SeedInHand, RecordedVersionHolds, Recorded
<1>7. CASE ExtractBroken
  <2>1. PICK a \in chroot, state \in {"debris", "partial"} : Extractable(a) /\ Directory(state, a)
    BY <1>7 DEF ExtractBroken
  <2>2. UNCHANGED <<chroot, sidecar, finished, kills>>
    BY <1>7 DEF ExtractBroken
  <2>3. recipe' \in [Packages -> Directories] /\ Unpacked' /\ RecordedVersionHolds'
    BY <2>1, <2>2, DirectoryFacts
  <2>4. seed.phase = "extract" /\ Resume(TRUE)
    BY <1>7, <2>1 DEF ExtractBroken, Extractable
  <2>5. seed' \in Commands /\ SeedInHand'
    BY <2>2, <2>4, ResumeFacts DEF SeedInHand
  <2> QED
    BY <2>2, <2>3, <2>5 DEF ImportTypeOK
<1>8. CASE Record
  <2>1. /\ seed.phase = "record" /\ Resume(FALSE) /\ UNCHANGED <<chroot, recipe, finished, kills>>
        /\ sidecar' = [sidecar EXCEPT ![seed.name] = seed.href]
    BY <1>8 DEF Record
  <2>2. /\ seed.name \in Packages /\ seed.href \in Archives /\ seed.href.name = seed.name
        /\ recipe[seed.name].state = "whole"
        /\ recipe[seed.name].archive.version = seed.href.version
    BY <2>1 DEF SeedInHand
  <2>3. seed' \in Commands /\ SeedInHand'
    BY <2>1, ResumeFacts DEF SeedInHand
  <2>4. sidecar' \in [Packages -> Archives \cup {None, CutShort}] /\ Unpacked'
    BY <2>1, <2>2 DEF ImportTypeOK, Unpacked
  <2>5. recipe[seed.name].archive.name = seed.name
    BY <2>2 DEF Unpacked
  <2>6. RecordedVersionHolds'
    BY <2>1, <2>2, <2>5 DEF ImportTypeOK, RecordedVersionHolds, Recorded
  <2> QED
    BY <2>1, <2>3, <2>4, <2>6 DEF ImportTypeOK
<1>9. CASE RecordFails
  BY <1>9, ResumeFacts
  DEF RecordFails, ImportTypeOK, Unpacked, SeedInHand, RecordedVersionHolds, Recorded
<1>10. CASE SeedEnd
  <2>1. seed \in Commands /\ seed.ask \in Asks /\ seed' = NoCommand
    BY <1>10 DEF SeedEnd, ImportTypeOK, SeedInHand
  <2>2. seed.ask.only \subseteq Packages /\ {a.name : a \in seed.entries} \subseteq Packages
    BY <2>1, ArchiveFacts, ImportAssumption DEF Commands
  <2>3. finished' \in Reports
    BY <1>10, <2>1, <2>2 DEF SeedEnd, Reports, Commands
  <2> QED
    BY <1>10, <2>1, <2>3, NoCommandTyped
    DEF SeedEnd, NoCommand, ImportTypeOK, Unpacked, SeedInHand, RecordedVersionHolds, Recorded
<1>11. CASE Kill
  <2> DEFINE kept == /\ recipe' \in [Packages -> Directories]
                     /\ sidecar' \in [Packages -> Archives \cup {None, CutShort}]
                     /\ Unpacked' /\ RecordedVersionHolds'
  <2>1. seed' = NoCommand /\ kills' \in Nat /\ UNCHANGED <<chroot, finished>>
    BY <1>11 DEF Kill, ImportTypeOK
  <2>2. kept
    <3>1. CASE UNCHANGED <<recipe, sidecar>>
      BY <2>1, <3>1 DEF ImportTypeOK, Unpacked, RecordedVersionHolds, Recorded
    <3>2. ASSUME NEW a \in chroot, NEW state \in {"debris", "partial", "whole"},
                 Extractable(a), Directory(state, a), UNCHANGED sidecar
          PROVE  kept
      BY <2>1, <3>2, DirectoryFacts DEF ImportTypeOK
    <3>3. CASE sidecar' = [sidecar EXCEPT ![seed.name] = CutShort] /\ UNCHANGED recipe
      BY <2>1, <3>3 DEF ImportTypeOK, Unpacked, RecordedVersionHolds, Recorded
    <3> QED
      BY <1>11, <3>1, <3>2, <3>3 DEF Kill
  <2> QED
    BY <2>1, <2>2, NoCommandTyped DEF NoCommand, ImportTypeOK, SeedInHand
<1>12. ASSUME NEW p \in Packages, Clean(p) PROVE ImportInv'
  BY <1>12
  DEF Clean, NoDirectory, Directories, ImportTypeOK, Unpacked, SeedInHand, RecordedVersionHolds, Recorded
<1>13. CASE UNCHANGED importVars
  BY <1>13
  DEF importVars, ImportTypeOK, Unpacked, SeedInHand, RecordedVersionHolds, Recorded, Candidates
<1> QED
  BY <1>1, <1>2, <1>3, <1>4, <1>5, <1>6, <1>7, <1>8, <1>9, <1>10, <1>11, <1>12, <1>13
  DEF ImportNext

-----------------------------------------------------------------------------
(* What a seeding chose itself compares as the newest of its package.      *)
Chosen ==
  (/\ seed.phase \in {"extract", "record"}
   /\ ~seed.byHand
   /\ seed.ask.version[seed.name] \in {None, Newest})
    => \A a \in Candidates(seed.entries, seed.name, None) :
        /\ Compare(seed.href.version, a.version) >= 0
        /\ seed.href.version = a.version => Compare(seed.href.release, a.release) >= 0

LEMMA ChosenInit == ImportInit => Chosen
BY DEF ImportInit, Chosen, NoCommand

LEMMA ChosenStep == ImportInv /\ Chosen /\ [ImportNext]_importVars => Chosen'
<1> SUFFICES ASSUME ImportInv, Chosen, [ImportNext]_importVars PROVE Chosen'
  OBVIOUS
<1>1. CASE seed' = seed
  BY <1>1 DEF Chosen
<1>2. CASE SeedStart
  <2>1. seed'.phase = "pick"
    BY <1>2 DEF SeedStart, NoCommand
  <2> QED
    BY <2>1 DEF Chosen
<1>3. ASSUME NEW p \in Packages, SeedPick(p) PROVE Chosen'
  <2>1. /\ seed \in Commands /\ seed.phase = "pick" /\ seed.ask \in Asks
        /\ seed.entries \in SUBSET Archives
    BY <1>3 DEF SeedPick, ImportInv, ImportTypeOK, SeedInHand, Commands
  <2>2. CASE seed'.phase = "pick"
    BY <2>2 DEF Chosen
  <2>3. ASSUME NEW v \in Wanted(seed.entries, p, seed.ask.version[p]),
               NEW a \in SelectSource(seed.entries, p, v),
               seed' = [seed EXCEPT !.phase = "extract", !.name = p,
                                    !.version = v, !.href = a]
        PROVE  Chosen'
    <3>1. seed'.name = p /\ seed'.href = a /\ seed'.entries = seed.entries /\ seed'.ask = seed.ask
      BY <2>1, <2>3 DEF Commands
    <3> QED
      BY <2>1, <3>1, PickedNewest DEF Chosen
  <2>4. \/ seed'.phase = "pick"
        \/ \E v \in Wanted(seed.entries, p, seed.ask.version[p]) :
             \E a \in SelectSource(seed.entries, p, v) :
               seed' = [seed EXCEPT !.phase = "extract", !.name = p, !.version = v, !.href = a]
    BY <1>3, <2>1 DEF SeedPick, Commands
  <2> QED
    BY <2>2, <2>3, <2>4
<1>4. ASSUME NEW p \in Packages, NEW v \in Versions \cup {None}, ExtractByHand(p, v)
      PROVE  Chosen'
  <2>1. seed'.byHand
    BY <1>4 DEF ExtractByHand, NoCommand
  <2> QED
    BY <2>1 DEF Chosen
<1>5. CASE Extract
  <2>1. PICK a \in chroot :
          /\ Extractable(a)
          /\ seed' = [seed EXCEPT !.phase = "record", !.href = IF seed.byHand THEN a ELSE @]
    BY <1>5 DEF Extract
  <2>2. /\ seed.phase = "extract" /\ seed'.byHand = seed.byHand /\ seed'.name = seed.name
        /\ seed'.entries = seed.entries /\ seed'.ask = seed.ask
        /\ ~seed.byHand => seed'.href = seed.href
    BY <2>1 DEF Extractable, ImportInv, ImportTypeOK, Commands
  <2> QED
    BY <2>2 DEF Chosen
<1>6. ASSUME NEW failed \in BOOLEAN, seed.phase \in {"extract", "record"}, Resume(failed)
      PROVE  Chosen'
  BY <1>6, ResumeFacts DEF ImportInv, Chosen
<1>7. CASE seed' = NoCommand
  BY <1>7 DEF Chosen, NoCommand
<1>8. \/ seed' = seed \/ seed' = NoCommand
      \/ SeedStart \/ Extract
      \/ \E p \in Packages : SeedPick(p)
      \/ \E p \in Packages, v \in Versions \cup {None} : ExtractByHand(p, v)
      \/ seed.phase \in {"extract", "record"} /\ \E failed \in BOOLEAN : Resume(failed)
  BY DEF ImportNext, importVars, Publish, Clean, ExtractRefused, ExtractBroken, Extractable,
         Record, RecordFails, SeedEnd, Kill
<1> QED
  BY <1>1, <1>2, <1>3, <1>4, <1>5, <1>6, <1>7, <1>8

(* Comparing as the newest is being the newest, in the order that says     *)
(* where each segment stands (import_srpm.py, rpmvercmp).                  *)
LEMMA ChosenIsNewest == ImportInv /\ Chosen => SeedsNewest
<1> SUFFICES ASSUME ImportInv, Chosen,
                    seed.phase \in {"extract", "record"}, ~seed.byHand,
                    seed.ask.version[seed.name] \in {None, Newest},
                    NEW a \in seed.entries, a.name = seed.name
             PROVE  /\ ~Precedes(seed.href.version, a.version)
                    /\ seed.href.version = a.version => ~Precedes(seed.href.release, a.release)
  BY DEF SeedsNewest
<1>1. a \in Candidates(seed.entries, seed.name, None)
  BY DEF Candidates
<1>2. a \in Archives /\ seed.href \in Archives
  BY DEF ImportInv, ImportTypeOK, SeedInHand, Commands, Candidates
<1>3. /\ a.version \in VersionStrings /\ a.release \in VersionStrings
      /\ seed.href.version \in VersionStrings /\ seed.href.release \in VersionStrings
  BY <1>2, ImportAssumption
<1> QED
  BY <1>1, <1>3, ComparesByKeys DEF Chosen

(* While maintainers import, whatever the chroot publishes meanwhile and   *)
(* wherever a command dies, a recipe with a recorded checksum is complete, *)
(* and of the package and the version of the archive recorded.             *)
THEOREM ImportKeepsVersions == ImportSpec => []RecordedVersionHolds
<1>1. ImportSpec => []ImportInv
  BY ImportInvInit, ImportInvStep, PTL DEF ImportSpec
<1> QED
  BY <1>1, PTL DEF ImportInv

(* Left to choose, a seeding takes no archive older than another of its    *)
(* package (seed_from_copr.py, pick_version), whatever the versions.       *)
THEOREM ImportSeedsNewest == ImportSpec => []SeedsNewest
<1>1. ImportInit => ImportInv /\ Chosen
  BY ImportInvInit, ChosenInit
<1>2. ImportInv /\ Chosen /\ [ImportNext]_importVars => (ImportInv /\ Chosen)'
  BY ImportInvStep, ChosenStep
<1> QED
  BY <1>1, <1>2, ChosenIsNewest, PTL DEF ImportSpec
=============================================================================
