--------------------------- MODULE TranslatorProofs ---------------------------
(***************************************************************************)
(* The routing tables and the translation of a rule set, for every set of  *)
(* rules, values and statements.                                           *)
(***************************************************************************)
EXTENDS MCTables, RuleLists, FiniteSetTheorems, SequenceTheorems, WellFoundedInduction, TLAPS

-----------------------------------------------------------------------------
(* Numbers and lists *)

LEMMA LeastOfNumbers ==
  ASSUME NEW S \in SUBSET Nat, S # {}
  PROVE  \E m \in S : \A n \in S : m <= n
<1>1. PICK m \in S : \A n \in S : ~(<<n, m>> \in OpToRel(<, Nat))
  BY WFMin, NatLessThanWellFounded
<1>2. \A n \in S : <<n, m>> \in OpToRel(<, Nat) <=> n < m
  BY DEF OpToRel
<1>3. \A n \in S : n \in Nat /\ m \in Nat /\ ~(n < m)
  BY <1>1, <1>2
<1> QED
  BY <1>3

LEMMA GreatestOfNumbers ==
  ASSUME NEW N \in Nat, NEW S \in SUBSET (0 .. N), S # {}
  PROVE  \E m \in S : \A n \in S : n <= m
<1> DEFINE T == {N - n : n \in S}
<1>1. T \in SUBSET Nat /\ T # {}
  <2>1. \A n \in S : n \in Nat /\ n <= N
    OBVIOUS
  <2>2. \A n \in S : N - n \in Nat
    BY <2>1
  <2> QED
    BY <2>2
<1>2. PICK t \in T : \A n \in T : t <= n
  BY <1>1, LeastOfNumbers
<1>3. PICK m \in S : t = N - m
  BY <1>2
<1>4. \A n \in S : N - m <= N - n
  BY <1>2, <1>3
<1> QED
  BY <1>3, <1>4

\* Positions are counted: a position further on has a greater rank.
LEMMA Ranks ==
  ASSUME NEW N \in Nat, NEW S \in SUBSET (1 .. N)
  PROVE  /\ IsFiniteSet(S) /\ Cardinality(S) \in Nat
         /\ \A k \in S : Rank(S, k) \in 1 .. Cardinality(S)
         /\ \A j, k \in S : j < k => Rank(S, j) < Rank(S, k)
<1> DEFINE Upto(k) == {i \in S : i <= k}
<1>1. IsFiniteSet(S) /\ Cardinality(S) \in Nat
  <2>1. IsFiniteSet(1 .. N)
    BY FS_Interval
  <2>2. IsFiniteSet(S)
    BY <2>1, FS_Subset
  <2> QED
    BY <2>2, FS_CardinalityType
<1>2. \A k \in S : /\ IsFiniteSet(Upto(k)) /\ Cardinality(Upto(k)) \in Nat
                   /\ Cardinality(Upto(k)) <= Cardinality(S) /\ Cardinality(Upto(k)) # 0
  <2> TAKE k \in S
  <2>1. Upto(k) \subseteq S /\ k \in Upto(k)
    OBVIOUS
  <2>2. IsFiniteSet(Upto(k)) /\ Cardinality(Upto(k)) <= Cardinality(S)
    BY <1>1, <2>1, FS_Subset
  <2> QED
    BY <2>1, <2>2, FS_CardinalityType, FS_EmptySet
<1>3. \A j, k \in S : j < k => Cardinality(Upto(j)) < Cardinality(Upto(k))
  <2> SUFFICES ASSUME NEW j \in S, NEW k \in S, j < k PROVE Cardinality(Upto(j)) < Cardinality(Upto(k))
    OBVIOUS
  <2>1. Upto(j) \subseteq Upto(k) /\ Upto(j) # Upto(k)
    <3>1. k \in Upto(k) /\ k \notin Upto(j)
      OBVIOUS
    <3>2. \A i \in S : i <= j => i <= k
      OBVIOUS
    <3>3. Upto(j) \subseteq Upto(k)
      BY <3>2
    <3> QED
      BY <3>1, <3>3
  <2>2. IsFiniteSet(Upto(j)) /\ IsFiniteSet(Upto(k))
    BY <1>2
  <2>3. /\ Cardinality(Upto(j)) <= Cardinality(Upto(k))
        /\ Cardinality(Upto(j)) = Cardinality(Upto(k)) => Upto(j) = Upto(k)
    BY <2>1, <2>2, FS_Subset
  <2> QED
    BY <1>2, <2>1, <2>3
<1> QED
  BY <1>1, <1>2, <1>3 DEF Rank

LEMMA NthIs ==
  ASSUME NEW N \in Nat, NEW S \in SUBSET (1 .. N), NEW n \in 1 .. Cardinality(S)
  PROVE  Nth(S, n) \in S /\ Rank(S, Nth(S, n)) = n
<1> DEFINE Upto(k) == {i \in S : i <= k}
           T == {k \in S : Rank(S, k) >= n}
<1>0. Cardinality(S) \in Nat /\ n \in Nat
  BY Ranks
<1>1. S # {}
  BY <1>0, FS_EmptySet
<1>2. T # {}
  <2>1. PICK g \in S : \A k \in S : k <= g
    <3>1. S \in SUBSET (0 .. N)
      OBVIOUS
    <3> QED
      BY <3>1, <1>1, GreatestOfNumbers
  <2>2. Upto(g) = S
    BY <2>1
  <2> QED
    BY <1>0, <2>2 DEF Rank
<1>3. PICK m \in T : \A k \in T : m <= k
  <2>1. S \in SUBSET Nat /\ T \subseteq S
    OBVIOUS
  <2>2. T \in SUBSET Nat
    BY <2>1
  <2> HIDE DEF T
  <2> QED
    BY <2>2, <1>2, LeastOfNumbers
<1>4. m \in S /\ Rank(S, m) \in Nat /\ Rank(S, m) >= n
  <2>1. m \in S /\ Rank(S, m) >= n
    BY <1>3
  <2>2. Rank(S, m) \in 1 .. Cardinality(S)
    BY <2>1, Ranks
  <2> QED
    BY <1>0, <2>1, <2>2
<1>5. ASSUME Rank(S, m) > n PROVE FALSE
  <2> DEFINE Below == {i \in S : i < m}
  <2>0. \A i \in S : i \in Nat /\ m \in Nat /\ (i <= m <=> i < m \/ i = m)
    BY <1>4
  <2>1. m \notin Below /\ Upto(m) = Below \cup {m}
    <3>1. m \notin Below
      BY <1>4, <2>0
    <3>2. \A i : i \in Upto(m) <=> i \in Below \cup {m}
      BY <1>4, <2>0
    <3> QED
      BY <3>1, <3>2
  <2>2. Cardinality(Below) \in Nat /\ Cardinality(Below) = Rank(S, m) - 1
    <3>1. IsFiniteSet(S) /\ Below \subseteq S
      BY Ranks
    <3>2. IsFiniteSet(Below)
      BY <3>1, FS_Subset
    <3>3. Cardinality(Below) \in Nat
      BY <3>2, FS_CardinalityType
    <3>4. Cardinality(Below \cup {m}) = Cardinality(Below) + 1
      BY <2>1, <3>2, FS_AddElement
    <3>5. Rank(S, m) = Cardinality(Below \cup {m})
      BY <2>1 DEF Rank
    <3> QED
      BY <3>3, <3>4, <3>5
  <2>3. Below # {}
    BY <1>0, <1>4, <1>5, <2>2, FS_EmptySet
  <2>4. PICK p \in Below : \A k \in Below : k <= p
    <3>1. S \subseteq 0 .. N /\ Below \subseteq S
      OBVIOUS
    <3>2. Below \in SUBSET (0 .. N)
      BY <3>1
    <3> HIDE DEF Below
    <3> QED
      BY <3>2, <2>3, GreatestOfNumbers
  <2>5. p \in S /\ p < m /\ Upto(p) = Below
    <3>1. p \in S /\ p < m
      BY <2>4
    <3>2. \A i \in S : i \in Nat /\ p \in Nat /\ (i < m => i <= p)
      BY <2>0, <2>4, <3>1
    <3>3. \A i \in S : i <= p <=> i < m
      BY <2>0, <3>1, <3>2
    <3> QED
      BY <3>1, <3>3
  <2>6. Rank(S, p) >= n
    BY <1>0, <1>4, <1>5, <2>2, <2>5 DEF Rank
  <2> QED
    BY <1>3, <2>4, <2>6
<1>6. m \in S /\ Rank(S, m) = n
  BY <1>0, <1>3, <1>4, <1>5
<1> QED
  BY <1>6 DEF Nth

\* What stays of a list of generated rules are rules of it, and of every id but
\* those that are dropped one rule stays.
LEMMA FinalKeeps ==
  ASSUME NEW R, NEW list \in Seq(R)
  PROVE  /\ Final(list) \in Seq(R)
         /\ \A n \in DOMAIN Final(list) : \E k \in DOMAIN list : Final(list)[n] = list[k]
         /\ \A k \in DOMAIN list :
               list[k].id \notin HPP_SKIP => \E n \in DOMAIN Final(list) : Final(list)[n].id = list[k].id
<1> DEFINE S == Staying(list)
<1>1. Len(list) \in Nat /\ DOMAIN list = 1 .. Len(list) /\ S \in SUBSET (1 .. Len(list))
  BY DEF Staying
<1>2. Cardinality(S) \in Nat
  BY <1>1, Ranks
<1>3. \A n \in 1 .. Cardinality(S) : Nth(S, n) \in S /\ Rank(S, Nth(S, n)) = n
  BY <1>1, NthIs
<1>4. Final(list) = [n \in 1 .. Cardinality(S) |-> list[Nth(S, n)]]
  BY DEF Final
<1>5. \A n \in 1 .. Cardinality(S) : Nth(S, n) \in DOMAIN list /\ list[Nth(S, n)] \in R
  BY <1>1, <1>3
<1>6. Final(list) \in Seq(R)
  BY <1>2, <1>4, <1>5
<1>7. ASSUME NEW k \in DOMAIN list, list[k].id \notin HPP_SKIP
      PROVE  \E n \in DOMAIN Final(list) : Final(list)[n].id = list[k].id
  <2> DEFINE Same == {j \in DOMAIN list : list[j].id = list[k].id}
  <2>1. PICK j \in Same : \A i \in Same : j <= i
    <3>1. Same \in SUBSET Nat /\ k \in Same
      BY <1>1
    <3> QED
      BY <3>1, LeastOfNumbers
  <2>2. j \in S
    <3>1. \A i \in 1 .. j - 1 : i \in DOMAIN list /\ i < j
      BY <1>1, <2>1
    <3>2. \A i \in 1 .. j - 1 : list[i].id # list[j].id
      BY <1>1, <2>1, <3>1
    <3> QED
      BY <1>7, <2>1, <3>2 DEF Staying
  <2>3. Rank(S, j) \in 1 .. Cardinality(S)
    BY <1>1, <2>2, Ranks
  <2> DEFINE n == Rank(S, j)
             i == Nth(S, n)
  <2>4. i \in S /\ Rank(S, i) = n
    BY <1>3, <2>3
  <2>5. i = j
    <3>1. i < j \/ j < i \/ i = j
      BY <1>1, <2>2, <2>4
    <3>2. i < j => Rank(S, i) < Rank(S, j)
      BY <1>1, <2>2, <2>4, Ranks
    <3>3. j < i => Rank(S, j) < Rank(S, i)
      BY <1>1, <2>2, <2>4, Ranks
    <3> QED
      BY <1>2, <2>3, <2>4, <3>1, <3>2, <3>3
  <2>6. Final(list)[n].id = list[k].id /\ n \in DOMAIN Final(list)
    BY <1>4, <2>1, <2>3, <2>5
  <2> QED
    BY <2>6
<1> QED
  BY <1>4, <1>5, <1>6, <1>7

-----------------------------------------------------------------------------
(* Words and matches *)

LEMMA Folded ==
  ASSUME NEW p, NEW s \in Seq(RoutedBytes)
  PROVE  /\ Routing!Fold(p, s) \in Seq(RoutedBytes) /\ Len(Routing!Fold(p, s)) = Len(s)
         /\ \A k \in 1 .. Len(s) : Routing!Fold(p, s)[k] = IF p.fold THEN Lower[s[k]] ELSE s[k]
<1> DEFINE f == [k \in 1 .. Len(s) |-> Lower[s[k]]]
<1>1. \A k \in 1 .. Len(s) : Lower[s[k]] \in RoutedBytes
  BY RoutingConstants DEF Routing!RoutingAssumption, Routing!BytesAssumption
<1>2. f \in Seq(RoutedBytes) /\ Len(f) = Len(s)
  BY <1>1
<1> QED
  BY <1>2 DEF Routing!Fold

LEMMA PartOf ==
  ASSUME NEW B, NEW s \in Seq(B), NEW c \in 1 .. Len(s), NEW n \in 0 .. Len(s) - c + 1
  PROVE  /\ SubSeq(s, c, c + n - 1) \in Seq(B) /\ Len(SubSeq(s, c, c + n - 1)) = n
         /\ \A k \in 1 .. n : SubSeq(s, c, c + n - 1)[k] = s[c + k - 1]
  OBVIOUS

\* The text a matcher compares with a word, and its beginnings.
TextAt(p, data, c, n) == Routing!Fold(p, SubSeq(data, c, c + n - 1))

LEMMA TextIs ==
  ASSUME NEW p, NEW data \in Seq(RoutedBytes), NEW c \in 1 .. Len(data), NEW n \in 0 .. Len(data) - c + 1
  PROVE  /\ TextAt(p, data, c, n) \in Seq(RoutedBytes) /\ Len(TextAt(p, data, c, n)) = n
         /\ \A k \in 1 .. n : TextAt(p, data, c, n)[k] = IF p.fold THEN Lower[data[c + k - 1]] ELSE data[c + k - 1]
<1> DEFINE s == SubSeq(data, c, c + n - 1)
<1>1. /\ s \in Seq(RoutedBytes) /\ Len(s) = n
      /\ \A k \in 1 .. n : s[k] = data[c + k - 1]
  BY PartOf
<1> HIDE DEF s
<1>2. /\ Routing!Fold(p, s) \in Seq(RoutedBytes) /\ Len(Routing!Fold(p, s)) = Len(s)
      /\ \A k \in 1 .. Len(s) : Routing!Fold(p, s)[k] = IF p.fold THEN Lower[s[k]] ELSE s[k]
  BY <1>1, Folded
<1>3. TextAt(p, data, c, n) = Routing!Fold(p, s)
  BY DEF TextAt, s
<1> QED
  BY <1>1, <1>2, <1>3

LEMMA TextsAreNested ==
  ASSUME NEW p, NEW data \in Seq(RoutedBytes),
         NEW c \in 1 .. Len(data), NEW n \in 0 .. Len(data) - c + 1, NEW k \in 1 .. n
  PROVE  Routing!IsPrefix(TextAt(p, data, c, k), TextAt(p, data, c, n))
<1> DEFINE t == TextAt(p, data, c, k)
           u == TextAt(p, data, c, n)
<1>0. k \in 0 .. Len(data) - c + 1 /\ k \in Nat /\ n \in Nat /\ k <= n
  OBVIOUS
<1>1. /\ t \in Seq(RoutedBytes) /\ Len(t) = k
      /\ \A j \in 1 .. k : t[j] = IF p.fold THEN Lower[data[c + j - 1]] ELSE data[c + j - 1]
  BY <1>0, TextIs
<1>2. /\ u \in Seq(RoutedBytes) /\ Len(u) = n
      /\ \A j \in 1 .. n : u[j] = IF p.fold THEN Lower[data[c + j - 1]] ELSE data[c + j - 1]
  BY TextIs
<1> HIDE DEF t, u
<1>3. \A j \in 1 .. k : t[j] = u[j]
  <2>1. \A j \in 1 .. k : j \in 1 .. n
    OBVIOUS
  <2> QED
    BY <1>1, <1>2, <2>1
<1>4. SubSeq(t, 1, k) = SubSeq(u, 1, k)
  BY <1>0, <1>1, <1>2, <1>3
<1> QED
  BY <1>0, <1>1, <1>2, <1>4 DEF t, u, Routing!IsPrefix

\* What the theorems below say of a rule's matcher needs of its words.
Worded(i) == \A w \in Routing!PatternOf(i).words : w \in Seq(RoutedBytes) /\ w # <<>>

LEMMA Words ==
  ASSUME NEW i, Worded(i)
  PROVE  \A w \in Routing!Dictionary(Routing!PatternOf(i)) : w \in Seq(RoutedBytes) /\ Len(w) \in Nat /\ Len(w) >= 1
<1> SUFFICES ASSUME NEW v \in Routing!PatternOf(i).words
             PROVE  LET w == Routing!Fold(Routing!PatternOf(i), v)
                    IN w \in Seq(RoutedBytes) /\ Len(w) \in Nat /\ Len(w) >= 1
  BY DEF Routing!Dictionary
<1>1. v \in Seq(RoutedBytes) /\ Len(v) \in Nat /\ Len(v) >= 1
  BY DEF Worded
<1> QED
  BY <1>1, Folded

\* A trie answers for a rule whose case folding and word boundary it has
\* exactly where the rule's own matcher would match.
LEMMA HitsAreMatches ==
  ASSUME NEW members, NEW wanted, NEW i \in wanted, Worded(i),
         Routing!PatternOf(Routing!Min(members)).fold = Routing!PatternOf(i).fold,
         Routing!PatternOf(Routing!Min(members)).boundary = Routing!PatternOf(i).boundary,
         NEW data \in Seq(RoutedBytes), NEW offset \in Nat \ {0}
  PROVE  i \in Routing!RouterHits(members, data, offset, wanted)
           <=> \E c \in offset .. Len(data) : Routing!MatchesAt(i, data, c)
<1> DEFINE lead == Routing!PatternOf(Routing!Min(members))
           p == Routing!PatternOf(i)
           Text(c, n) == TextAt(lead, data, c, n)
           Below(node) == {j \in wanted : \E w \in Routing!Dictionary(Routing!PatternOf(j)) : Routing!IsPrefix(node, w)}
           Starts == {c \in offset..Len(data) : ~(lead.boundary /\ c > 1 /\ data[c - 1] \in RoutedWordBytes)}
           Walk(c) == {n \in 1..(Len(data) - c + 1) : \A k \in 1..n : Below(Text(c, k)) # {}}
           Hit == \E c \in Starts : \E n \in Walk(c) :
                    Text(c, n) \in Routing!Dictionary(p) /\ Routing!Continues(p, data, c + n)
<1>1. i \in Routing!RouterHits(members, data, offset, wanted) <=> Hit
  BY DEF Routing!RouterHits, TextAt
<1>2. \A c \in offset .. Len(data) : c \in 1 .. Len(data) /\ (c > 1 <=> c # 1)
  OBVIOUS
<1>3. \A s : Routing!Fold(lead, s) = Routing!Fold(p, s)
  BY DEF Routing!Fold
<1>4. Hit => \E c \in offset .. Len(data) : Routing!MatchesAt(i, data, c)
  <2> SUFFICES ASSUME NEW c \in Starts, NEW n \in Walk(c), Text(c, n) \in Routing!Dictionary(p),
                      Routing!Continues(p, data, c + n)
               PROVE  Routing!MatchesAt(i, data, c)
    OBVIOUS
  <2>1. c \in 1 .. Len(data) /\ n \in 0 .. Len(data) - c + 1
    BY <1>2
  <2>2. Len(Text(c, n)) = n
    BY <2>1, TextIs
  <2>3. c + Len(Text(c, n)) - 1 <= Len(data)
    BY <2>1, <2>2
  <2>4. p.boundary => c = 1 \/ data[c - 1] \notin RoutedWordBytes
    BY <1>2
  <2>5. Routing!Fold(p, SubSeq(data, c, c + Len(Text(c, n)) - 1)) = Text(c, n)
    BY <1>3, <2>2 DEF TextAt
  <2>6. Routing!Continues(p, data, c + Len(Text(c, n)))
    BY <2>2
  <2> HIDE DEF Text
  <2> QED
    BY <2>3, <2>4, <2>5, <2>6 DEF Routing!MatchesAt
<1>5. ASSUME NEW c \in offset .. Len(data), Routing!MatchesAt(i, data, c) PROVE Hit
  <2>1. PICK w \in Routing!Dictionary(p) :
               /\ c + Len(w) - 1 <= Len(data)
               /\ Routing!Fold(p, SubSeq(data, c, c + Len(w) - 1)) = w
               /\ Routing!Continues(p, data, c + Len(w))
    BY <1>5 DEF Routing!MatchesAt
  <2> DEFINE n == Len(w)
  <2>2. n \in Nat /\ n >= 1
    BY <2>1, Words
  <2>3. c \in 1 .. Len(data) /\ n \in 1 .. Len(data) - c + 1
    BY <1>2, <2>1, <2>2
  <2>4. Text(c, n) = w
    BY <1>3, <2>1 DEF TextAt
  <2>5. \A k \in 1 .. n : Routing!IsPrefix(Text(c, k), w)
    <3>1. n \in 0 .. Len(data) - c + 1
      BY <2>3
    <3> QED
      BY <2>3, <2>4, <3>1, TextsAreNested
  <2>6. \A k \in 1 .. n : i \in Below(Text(c, k))
    BY <2>1, <2>5
  <2>7. n \in Walk(c)
    BY <2>3, <2>6
  <2>8. c \in Starts
    BY <1>2, <1>5 DEF Routing!MatchesAt
  <2> HIDE DEF Text, Walk, Starts, n
  <2> QED
    BY <2>1, <2>4, <2>7, <2>8 DEF n
<1> HIDE DEF Hit
<1> QED
  BY <1>1, <1>4, <1>5

\* Lower-casing a value first changes nothing for a dictionary that ignores case.
Lowered(data) == [k \in 1 .. Len(data) |-> Lower[data[k]]]

LEMMA LoweredIs ==
  ASSUME NEW data \in Seq(RoutedBytes)
  PROVE  /\ Lowered(data) \in Seq(RoutedBytes) /\ Len(Lowered(data)) = Len(data)
         /\ \A k \in 1 .. Len(data) : Lowered(data)[k] = Lower[data[k]] /\ data[k] \in RoutedBytes
<1>1. \A k \in 1 .. Len(data) : data[k] \in RoutedBytes /\ Lower[data[k]] \in RoutedBytes
  BY RoutingConstants DEF Routing!RoutingAssumption, Routing!BytesAssumption
<1>2. Lowered(data) \in Seq(RoutedBytes) /\ Len(Lowered(data)) = Len(data)
  BY <1>1 DEF Lowered
<1> QED
  BY <1>1, <1>2 DEF Lowered

\* Where the text goes on after the blanks that may follow a word.
StartOf(data, pos) ==
  Routing!SelectInSubSeq(Append(data, ""), pos, Len(data) + 1, LAMBDA c : c \notin Blank)

\* A list and one more element.
LEMMA Appended ==
  ASSUME NEW U, NEW s \in Seq(U), NEW e \in U
  PROVE  /\ \A i \in 1 .. Len(s) : Append(s, e)[i] = s[i]
         /\ Append(s, e)[Len(s) + 1] = e
  OBVIOUS

LEMMA StartIs ==
  ASSUME NEW data \in Seq(RoutedBytes), NEW pos \in 1 .. Len(data) + 1
  PROVE  StartOf(data, pos) \in 1 .. Len(data) + 1 /\ StartOf(Lowered(data), pos) = StartOf(data, pos)
<1> DEFINE last == Len(data) + 1
           d == Append(data, "")
           l == Append(Lowered(data), "")
           I == {i \in pos .. last : d[i] \notin Blank}
           J == {i \in pos .. last : l[i] \notin Blank}
<1>1. last \in Nat /\ last >= 1 /\ last \in pos .. last
  OBVIOUS
<1>2. /\ \A i \in 1 .. Len(data) : d[i] = data[i] /\ l[i] = Lower[data[i]] /\ data[i] \in RoutedBytes
      /\ d[last] = "" /\ l[last] = "" /\ Len(Lowered(data)) + 1 = last
  <2> DEFINE U == RoutedBytes \cup {""}
  <2>1. /\ data \in Seq(U) /\ Lowered(data) \in Seq(U) /\ "" \in U /\ Len(Lowered(data)) = Len(data)
        /\ \A i \in 1 .. Len(data) : Lowered(data)[i] = Lower[data[i]] /\ data[i] \in RoutedBytes
    <3>1. /\ Lowered(data) \in Seq(RoutedBytes) /\ Len(Lowered(data)) = Len(data)
          /\ \A i \in 1 .. Len(data) : Lowered(data)[i] = Lower[data[i]] /\ data[i] \in RoutedBytes
      BY LoweredIs
    <3>2. RoutedBytes \subseteq U /\ "" \in U
      OBVIOUS
    <3> HIDE DEF U
    <3>3. \A s \in Seq(RoutedBytes) : s \in Seq(U)
      <4> TAKE s \in Seq(RoutedBytes)
      <4>1. Len(s) \in Nat /\ \A i \in 1 .. Len(s) : s[i] \in U
        <5>1. Len(s) \in Nat /\ \A i \in 1 .. Len(s) : s[i] \in RoutedBytes
          OBVIOUS
        <5> QED
          BY <3>2, <5>1
      <4>2. s = [i \in 1 .. Len(s) |-> s[i]]
        OBVIOUS
      <4>3. [i \in 1 .. Len(s) |-> s[i]] \in Seq(U)
        BY <4>1
      <4> QED
        BY <4>2, <4>3
    <3> QED
      BY <3>1, <3>2, <3>3
  <2> HIDE DEF U
  <2>2. \A s \in Seq(U) : /\ \A i \in 1 .. Len(s) : Append(s, "")[i] = s[i]
                          /\ Append(s, "")[Len(s) + 1] = ""
    BY <2>1, Appended
  <2>3. /\ \A i \in 1 .. Len(data) : d[i] = data[i]
        /\ d[last] = ""
    BY <2>1, <2>2
  <2>4. /\ \A i \in 1 .. Len(Lowered(data)) : l[i] = Lowered(data)[i]
        /\ l[Len(Lowered(data)) + 1] = ""
    BY <2>1, <2>2
  <2> QED
    BY <2>1, <2>3, <2>4
<1>3. "" \notin Blank
  BY RoutingConstants DEF Routing!RoutingAssumption, Routing!PunctuationAssumption
<1>4. \A i \in 1 .. Len(data) : Lower[data[i]] \in Blank <=> data[i] \in Blank
  BY <1>2, RoutingConstants DEF Routing!RoutingAssumption, Routing!BytesAssumption
<1>5. \A i \in pos .. last : i \in 1 .. Len(data) \/ i = last
  OBVIOUS
<1> HIDE DEF last, d, l
<1>6. I = J
  BY <1>2, <1>4, <1>5
<1>7. Routing!Min(I) \in I
  <2>0. last \in I
    BY <1>1, <1>2, <1>3
  <2>1. I \in SUBSET Nat /\ I # {}
    BY <1>1, <2>0
  <2>2. PICK m \in I : \A n \in I : m <= n
    BY <2>1, LeastOfNumbers
  <2> HIDE DEF I
  <2> QED
    BY <2>2 DEF Routing!Min
<1>8. StartOf(data, pos) = Routing!Min(I) /\ StartOf(Lowered(data), pos) = Routing!Min(J)
  BY <1>2, <1>6, <1>7 DEF StartOf, Routing!SelectInSubSeq, d, l, last
<1>9. \A i \in I : i \in 1 .. Len(data) + 1
  BY DEF last
<1> HIDE DEF I, J
<1> QED
  BY <1>6, <1>7, <1>8, <1>9

LEMMA LoweredContinues ==
  ASSUME NEW p, NEW data \in Seq(RoutedBytes), NEW pos \in 1 .. Len(data) + 1
  PROVE  Routing!Continues(p, Lowered(data), pos) <=> Routing!Continues(p, data, pos)
<1> DEFINE Goes(d, start) ==
             CASE p.suffix = "CALL" -> start <= Len(d) /\ d[start] = "("
               [] p.suffix = "ASSIGN" -> start < Len(d) /\ d[start] = "=" /\ d[start + 1] # "="
               [] OTHER -> TRUE
<1>1. \A k \in 1 .. Len(data) : (Lowered(data)[k] = "(" <=> data[k] = "(") /\ (Lowered(data)[k] = "=" <=> data[k] = "=")
  <2>1. \A b \in RoutedBytes, c \in {"(", "="} : Lower[b] = c <=> b = c
    BY RoutingConstants DEF Routing!RoutingAssumption, Routing!PunctuationAssumption
  <2>2. \A b \in RoutedBytes : (Lower[b] = "(" <=> b = "(") /\ (Lower[b] = "=" <=> b = "=")
    BY <2>1
  <2>3. \A k \in 1 .. Len(data) : Lowered(data)[k] = Lower[data[k]] /\ data[k] \in RoutedBytes
    BY LoweredIs
  <2> QED
    BY <2>2, <2>3
<1>2. Len(Lowered(data)) = Len(data) /\ Len(data) \in Nat
  BY LoweredIs
<1>3. ASSUME NEW start \in 1 .. Len(data) + 1 PROVE Goes(Lowered(data), start) <=> Goes(data, start)
  <2>1. start <= Len(data) => start \in 1 .. Len(data)
    OBVIOUS
  <2>2. start < Len(data) => start \in 1 .. Len(data) /\ start + 1 \in 1 .. Len(data)
    BY <1>2
  <2> QED
    BY <1>1, <1>2, <2>1, <2>2
<1>4. StartOf(data, pos) \in 1 .. Len(data) + 1 /\ StartOf(Lowered(data), pos) = StartOf(data, pos)
  BY StartIs
<1>5. Goes(Lowered(data), StartOf(data, pos)) <=> Goes(data, StartOf(data, pos))
  BY <1>3, <1>4
<1>6. Goes(Lowered(data), pos) <=> Goes(data, pos)
  BY <1>3
<1>7. \A d : Routing!Continues(p, d, pos) <=> Goes(d, IF p.blanks THEN StartOf(d, pos) ELSE pos)
  BY DEF Routing!Continues, StartOf
<1> HIDE DEF Goes
<1> QED
  BY <1>4, <1>5, <1>6, <1>7

LEMMA LoweredMatches ==
  ASSUME NEW i, Worded(i), Routing!PatternOf(i).fold, NEW data \in Seq(RoutedBytes), NEW c \in 1 .. Len(data)
  PROVE  Routing!MatchesAt(i, Lowered(data), c) <=> Routing!MatchesAt(i, data, c)
<1> DEFINE p == Routing!PatternOf(i)
           l == Lowered(data)
<1>1. l \in Seq(RoutedBytes) /\ Len(l) = Len(data) /\ Len(data) \in Nat
  BY LoweredIs
<1>2. \A k \in 1 .. Len(data) :
         /\ l[k] = Lower[data[k]] /\ Lower[l[k]] = Lower[data[k]]
         /\ l[k] \in RoutedWordBytes <=> data[k] \in RoutedWordBytes
  BY LoweredIs, RoutingConstants DEF Routing!RoutingAssumption, Routing!BytesAssumption
<1>3. c = 1 \/ (l[c - 1] \in RoutedWordBytes <=> data[c - 1] \in RoutedWordBytes)
  BY <1>1, <1>2
<1>4. ASSUME NEW w \in Routing!Dictionary(p), c + Len(w) - 1 <= Len(data)
      PROVE  /\ TextAt(p, l, c, Len(w)) = TextAt(p, data, c, Len(w))
             /\ Routing!Continues(p, l, c + Len(w)) <=> Routing!Continues(p, data, c + Len(w))
  <2> DEFINE n == Len(w)
  <2>1. n \in 0 .. Len(data) - c + 1 /\ c + n \in 1 .. Len(data) + 1
    <3>1. n \in Nat
      BY Words
    <3> QED
      BY <1>1, <1>4, <3>1
  <2> HIDE DEF n
  <2>2. /\ TextAt(p, l, c, n) \in Seq(RoutedBytes) /\ Len(TextAt(p, l, c, n)) = n
        /\ \A k \in 1 .. n : TextAt(p, l, c, n)[k] = Lower[l[c + k - 1]]
    <3>1. c \in 1 .. Len(l) /\ n \in 0 .. Len(l) - c + 1
      BY <1>1, <2>1
    <3> HIDE DEF l
    <3> QED
      BY <1>1, <3>1, TextIs
  <2>3. /\ TextAt(p, data, c, n) \in Seq(RoutedBytes) /\ Len(TextAt(p, data, c, n)) = n
        /\ \A k \in 1 .. n : TextAt(p, data, c, n)[k] = Lower[data[c + k - 1]]
    BY <2>1, TextIs
  <2>4. \A k \in 1 .. n : c + k - 1 \in 1 .. Len(data)
    BY <2>1
  <2>5. \A k \in 1 .. n : TextAt(p, l, c, n)[k] = TextAt(p, data, c, n)[k]
    BY <1>2, <2>2, <2>3, <2>4
  <2>6. TextAt(p, l, c, n) = TextAt(p, data, c, n)
    BY <2>2, <2>3, <2>5
  <2>7. Routing!Continues(p, l, c + n) <=> Routing!Continues(p, data, c + n)
    BY <2>1, LoweredContinues
  <2> QED
    BY <2>6, <2>7 DEF n
<1>5. \A d : Routing!MatchesAt(i, d, c) <=>
         /\ p.boundary => c = 1 \/ d[c - 1] \notin RoutedWordBytes
         /\ \E w \in Routing!Dictionary(p) :
               c + Len(w) - 1 <= Len(d) /\ TextAt(p, d, c, Len(w)) = w /\ Routing!Continues(p, d, c + Len(w))
  BY DEF Routing!MatchesAt, TextAt
<1> QED
  BY <1>1, <1>3, <1>4, <1>5


-----------------------------------------------------------------------------
(* Rows of the tables *)

\* The tables are those of the rules that stay.
Kept  == Final(rules)
Built == rules \in Seq(RuleChoices) /\ detection = Routing!Tables(rules)

LEMMA Rows ==
  ASSUME Built
  PROVE  /\ Kept \in Seq(RuleChoices) /\ Len(Kept) \in Nat /\ DOMAIN Kept = 1 .. Len(Kept)
         /\ Routing!Indexes = DOMAIN Kept
         /\ \A i \in DOMAIN Kept : Kept[i] \in RuleChoices /\ detection[i] = Routing!Row(Kept, i)
<1>1. Kept \in Seq(RuleChoices)
  BY FinalKeeps DEF Built, Kept
<1>2. Routing!Final(rules) = Kept
  <2>1. Routing!Staying(rules) = Staying(rules)
    BY DEF Staying, HPP_SKIP, Routing!Staying, Routing!HPP_SKIP
  <2>2. \A s : Routing!Cardinality(s) = Cardinality(s)
    BY Zenon DEF Cardinality, Routing!Cardinality
  <2>3. \A s, k : Routing!Rank(s, k) = Rank(s, k)
    BY <2>2 DEF Rank, Routing!Rank
  <2>4. \A s, n : Routing!Nth(s, n) = Nth(s, n)
    BY <2>3, Zenon DEF Nth, Routing!Nth
  <2> QED
    BY <2>1, <2>2, <2>4 DEF Kept, Final, Routing!Final
<1>3. detection = [i \in DOMAIN Kept |-> Routing!Row(Kept, i)]
  BY <1>2 DEF Built, Routing!Tables
<1> QED
  BY <1>1, <1>3 DEF Routing!Indexes

LEMMA RowIs ==
  ASSUME Built, NEW i \in Routing!Indexes
  PROVE  /\ Routing!PatternOf(i) = Kept[i].pattern /\ detection[i].transforms = Kept[i].transforms
         /\ detection[i].targets = Kept[i].targets
         /\ Routing!MasksOf(i) = Routing!Masks(Routing!Bindings(Kept[i].vars))
         /\ detection[i].body = (\E b \in Routing!Bound(Routing!Bindings(Kept[i].vars)) : b.collection = "REQUEST_BODY")
         /\ Routing!Router(i) = Routing!RouterOf(Kept, i)
         /\ detection[i].route = Routing!RouteMask(Kept[i], Routing!Standalone(Kept[i].pattern) \/ Routing!RouterOf(Kept, i) # {})
<1>1. detection[i] = Routing!Row(Kept, i)
  BY Rows
<1> QED
  BY <1>1 DEF Routing!Row, Routing!PatternOf, Routing!MasksOf, Routing!Router

LEMMA RowIsWorded ==
  ASSUME Built, NEW i \in Routing!Indexes
  PROVE  Worded(i) /\ detection[i].transforms \in {"none", "lowercase"}
<1>1. Routing!RoutedRule(Kept[i])
  BY Rows, RoutingConstants DEF Routing!RoutingAssumption
<1> QED
  BY <1>1, RowIs DEF Worded, Routing!RoutedRule

\* A router's rules, and the others its rule could share one with.
Routable(j) == Routing!HasPlan(Kept[j].pattern) /\ ~Routing!Standalone(Kept[j].pattern)
SameKey(j, k) == Routing!GroupKey(Kept[j]) = Routing!GroupKey(Kept[k])
Group(k) == {j \in DOMAIN Kept : Routable(j) /\ SameKey(j, k)}
ChunkAt(g, j) == Routing!Cardinality({k \in g : k < j}) \div RouterRules
Chunk(k) == {j \in Group(k) : ChunkAt(Group(k), j) = ChunkAt(Group(k), k)}
Alone(js) == Routing!Cardinality(js) < 2 /\ Routing!Cardinality(Routing!Dictionary(Kept[Routing!Min(js)].pattern)) < LargeDictionary

LEMMA RouterOfIs ==
  ASSUME NEW k
  PROVE  Routing!RouterOf(Kept, k) = IF ~Routable(k) \/ Alone(Group(k)) \/ Alone(Chunk(k)) THEN {} ELSE Chunk(k)
BY Zenon DEF Routing!RouterOf, Routable, SameKey, Group, ChunkAt, Chunk, Alone

\* A router is one set of rules for all its members, which fold case and ask for
\* a word boundary as its first member does.
LEMMA RouterIs ==
  ASSUME Built, NEW i \in Routing!Indexes, Routing!Router(i) # {}
  PROVE  /\ i \in Routing!Router(i) /\ Routing!Router(i) \subseteq Routing!Indexes
         /\ ~Routing!Standalone(Routing!PatternOf(i))
         /\ \A j \in Routing!Router(i) :
               /\ Routing!Router(j) = Routing!Router(i)
               /\ Routing!PatternOf(Routing!Min(Routing!Router(i))).fold = Routing!PatternOf(j).fold
               /\ Routing!PatternOf(Routing!Min(Routing!Router(i))).boundary = Routing!PatternOf(j).boundary
<1>1. /\ i \in DOMAIN Kept /\ DOMAIN Kept \subseteq Nat
      /\ \A k \in DOMAIN Kept :
            Routing!Router(k) = IF ~Routable(k) \/ Alone(Group(k)) \/ Alone(Chunk(k)) THEN {} ELSE Chunk(k)
  <2>1. DOMAIN Kept = Routing!Indexes /\ DOMAIN Kept \subseteq Nat
    BY Rows
  <2> QED
    BY <2>1, RowIs, RouterOfIs
<1>2. Routing!Router(i) = Chunk(i) /\ Routable(i) /\ ~Alone(Group(i)) /\ ~Alone(Chunk(i))
  BY <1>1
<1>3. i \in Chunk(i) /\ Chunk(i) \subseteq DOMAIN Kept
  BY <1>1, <1>2 DEF Chunk, Group, SameKey
<1>4. \A j \in Chunk(i) : Routable(j) /\ SameKey(j, i) /\ Group(j) = Group(i)
  BY DEF Chunk, Group, SameKey
<1>5. \A j \in Chunk(i) : Chunk(j) = Chunk(i)
  BY <1>4 DEF Chunk
<1>6. \A j \in Chunk(i) : Routing!Router(j) = Chunk(i)
  BY <1>1, <1>2, <1>3, <1>4, <1>5
<1>7. Routing!Min(Chunk(i)) \in Chunk(i)
  <2>1. Chunk(i) \in SUBSET Nat /\ Chunk(i) # {}
    BY <1>1, <1>3
  <2>2. PICK m \in Chunk(i) : \A n \in Chunk(i) : m <= n
    BY <2>1, LeastOfNumbers
  <2> QED
    BY <2>2 DEF Routing!Min
<1>8. \A j \in Chunk(i) : SameKey(Routing!Min(Chunk(i)), j)
  BY <1>4, <1>7 DEF SameKey
<1>9. \A j \in Chunk(i) : /\ Kept[Routing!Min(Chunk(i))].pattern.fold = Kept[j].pattern.fold
                          /\ Kept[Routing!Min(Chunk(i))].pattern.boundary = Kept[j].pattern.boundary
  BY <1>8 DEF SameKey, Routing!GroupKey
<1>10. \A j \in Chunk(i) : j \in Routing!Indexes /\ Routing!PatternOf(j) = Kept[j].pattern
  BY <1>3, Rows, RowIs
<1>11. ~Routing!Standalone(Routing!PatternOf(i))
  BY <1>2, RowIs DEF Routable
<1> QED
  BY <1>2, <1>3, <1>6, <1>7, <1>9, <1>10, <1>11


-----------------------------------------------------------------------------
(* Where a rule matches *)

\* The rule's expression holds somewhere in the value it is given.
MatchesIn(i, data) == \E c \in 1 .. Len(data) : Routing!MatchesAt(i, data, c)
Holds(i, v) == MatchesIn(i, Routing!Transformed(i, v.bytes))

LEMMA TransformedIs ==
  ASSUME Built, NEW i \in Routing!Indexes, NEW bytes \in Seq(RoutedBytes)
  PROVE  /\ Routing!Transformed(i, bytes) = IF detection[i].transforms = "lowercase" THEN Lowered(bytes) ELSE bytes
         /\ Routing!Transformed(i, bytes) \in Seq(RoutedBytes)
         /\ Len(Routing!Transformed(i, bytes)) = Len(bytes)
<1>1. Routing!Transformed(i, bytes) = IF detection[i].transforms = "lowercase" THEN Lowered(bytes) ELSE bytes
  BY DEF Routing!Transformed, Lowered
<1> QED
  BY <1>1, LoweredIs

\* A rule that matches somewhere is routed there.
LEMMA FirstByteIsRouted ==
  ASSUME Built, NEW i \in Routing!Indexes, NEW bytes \in Seq(RoutedBytes), NEW c \in 1 .. Len(bytes),
         Routing!MatchesAt(i, Routing!Transformed(i, bytes), c)
  PROVE  bytes[c] \in detection[i].route
<1> DEFINE p == Routing!PatternOf(i)
           data == Routing!Transformed(i, bytes)
           lower == detection[i].transforms = "lowercase"
           First == {w[1] : w \in Routing!Dictionary(p)}
<1>1. /\ data \in Seq(RoutedBytes) /\ Len(data) = Len(bytes) /\ bytes[c] \in RoutedBytes
      /\ data[c] = IF lower THEN Lower[bytes[c]] ELSE bytes[c]
  <2>1. /\ data = (IF lower THEN Lowered(bytes) ELSE bytes)
        /\ data \in Seq(RoutedBytes) /\ Len(data) = Len(bytes)
    BY TransformedIs
  <2>2. Lowered(bytes)[c] = Lower[bytes[c]] /\ bytes[c] \in RoutedBytes
    BY LoweredIs
  <2> HIDE DEF data
  <2> QED
    BY <2>1, <2>2
<1> HIDE DEF data
<1>2. PICK w \in Routing!Dictionary(p) : c + Len(w) - 1 <= Len(data) /\ TextAt(p, data, c, Len(w)) = w
  BY DEF Routing!MatchesAt, TextAt, data
<1>3. w[1] = IF p.fold THEN Lower[data[c]] ELSE data[c]
  <2>1. Len(w) \in Nat /\ Len(w) >= 1
    BY Words, RowIsWorded
  <2>2. c \in 1 .. Len(data) /\ Len(w) \in 0 .. Len(data) - c + 1 /\ 1 \in 1 .. Len(w) /\ c + 1 - 1 = c
    BY <1>1, <1>2, <2>1
  <2>3. TextAt(p, data, c, Len(w))[1] = IF p.fold THEN Lower[data[c + 1 - 1]] ELSE data[c + 1 - 1]
    BY <1>1, <2>2, TextIs
  <2> QED
    BY <1>2, <2>2, <2>3
<1>4. Lower[bytes[c]] \in RoutedBytes /\ Lower[Lower[bytes[c]]] = Lower[bytes[c]]
  BY <1>1, RoutingConstants DEF Routing!RoutingAssumption, Routing!BytesAssumption
<1>5. Lower[w[1]] = Lower[bytes[c]] /\ (~lower /\ ~p.fold => w[1] = bytes[c]) /\ w[1] \in First
  BY <1>1, <1>2, <1>3, <1>4
<1>6. \/ detection[i].route = RoutedBytes
      \/ detection[i].route = IF p.fold \/ lower THEN {b \in RoutedBytes : Lower[b] \in {Lower[f] : f \in First}} ELSE First
  BY RowIs DEF Routing!RouteMask
<1> HIDE DEF First
<1> QED
  BY <1>1, <1>5, <1>6

\* A rule with a matcher of its own is not routed everywhere.
LEMMA OwnMatcherIsNotAnywhere ==
  ASSUME Built, NEW i \in Routing!Indexes
  PROVE  i \in Routing!AnywhereMask <=> Routing!Router(i) # {} \/ Routing!Standalone(Routing!PatternOf(i))
<1> DEFINE p == Routing!PatternOf(i)
           lower == detection[i].transforms = "lowercase"
           First == {w[1] : w \in Routing!Dictionary(p)}
           Forced == Routing!Router(i) # {} \/ Routing!Standalone(p)
<1>1. i \in Routing!AnywhereMask <=> detection[i].route = RoutedBytes
  BY DEF Routing!AnywhereMask
<1>2. detection[i].route = IF Forced THEN RoutedBytes
                           ELSE IF p.fold \/ lower THEN {b \in RoutedBytes : Lower[b] \in {Lower[f] : f \in First}} ELSE First
  BY RowIs DEF Routing!RouteMask
<1>3. PICK b \in RoutedBytes : \A w \in p.words : Lower[b] # Lower[w[1]]
  <2>1. Routing!RoutedRule(Kept[i])
    BY Rows, RoutingConstants DEF Routing!RoutingAssumption
  <2> QED
    BY <2>1, RowIs DEF Routing!RoutedRule
<1>4. \A w \in p.words : w \in Seq(RoutedBytes) /\ w[1] \in RoutedBytes /\ 1 \in 1 .. Len(w)
  <2>1. Worded(i)
    BY RowIsWorded
  <2> QED
    BY <2>1 DEF Worded
<1>5. \A f \in First : Lower[f] # Lower[b]
  <2> SUFFICES ASSUME NEW w \in p.words PROVE Lower[Routing!Fold(p, w)[1]] # Lower[b]
    BY DEF Routing!Dictionary
  <2>1. Routing!Fold(p, w)[1] = IF p.fold THEN Lower[w[1]] ELSE w[1]
    BY <1>4, Folded
  <2>2. Lower[Lower[w[1]]] = Lower[w[1]]
    BY <1>4, RoutingConstants DEF Routing!RoutingAssumption, Routing!BytesAssumption
  <2> QED
    BY <1>3, <2>1, <2>2
<1> HIDE DEF First
<1> QED
  BY <1>1, <1>2, <1>3, <1>5


-----------------------------------------------------------------------------
(* What a value is matched against *)

\* A trie of its own, or the router of its group, finds a rule anywhere in the
\* value from the first offset on; another matcher where it is tried.
LEMMA DispatchIs ==
  ASSUME Built, NEW i \in Routing!Indexes, NEW bytes \in Seq(RoutedBytes)
  PROVE  /\ i \in Routing!AnywhereMask =>
               (Routing!Dispatch(i, bytes, 1) <=> MatchesIn(i, Routing!Transformed(i, bytes)))
         /\ i \notin Routing!AnywhereMask =>
               \A c : Routing!Dispatch(i, bytes, c) <=> Routing!MatchesAt(i, Routing!Transformed(i, bytes), c)
<1> DEFINE p == Routing!PatternOf(i)
           data == Routing!Transformed(i, bytes)
<1>1. data \in Seq(RoutedBytes) /\ Worded(i) /\ 1 \in Nat \ {0}
  BY TransformedIs, RowIsWorded
<1> HIDE DEF data
<1>2. CASE Routing!Router(i) # {}
  <2>1. i \in Routing!RouterHits(Routing!Router(i), data, 1, {i}) <=> MatchesIn(i, data)
    BY <1>1, <1>2, RouterIs, HitsAreMatches DEF MatchesIn
  <2>2. Routing!RouterHits(Routing!Router(i), data, 1, {i}) \subseteq {i}
    BY DEF Routing!RouterHits
  <2>3. Routing!Dispatch(i, bytes, 1) <=> Routing!RouterHits(Routing!Router(i), data, 1, {i}) # {}
    BY <1>2, RouterIs DEF Routing!Dispatch, data
  <2> QED
    BY <1>2, <2>1, <2>2, <2>3, OwnMatcherIsNotAnywhere DEF data
<1>3. CASE Routing!Router(i) = {} /\ Routing!Standalone(p)
  <2>0. i \in Nat
    BY Rows
  <2>1. Routing!Min({i}) = i
    BY <2>0 DEF Routing!Min
  <2>2. i \in Routing!RouterHits({i}, data, 1, {i}) <=> MatchesIn(i, data)
    BY <1>1, <2>1, HitsAreMatches DEF MatchesIn
  <2>3. Routing!RouterHits({i}, data, 1, {i}) \subseteq {i}
    BY DEF Routing!RouterHits
  <2>4. Routing!Dispatch(i, bytes, 1) <=> Routing!RouterHits({i}, data, 1, {i}) # {}
    BY <1>3 DEF Routing!Dispatch, data
  <2> QED
    BY <1>3, <2>2, <2>3, <2>4, OwnMatcherIsNotAnywhere DEF data
<1>4. CASE Routing!Router(i) = {} /\ ~Routing!Standalone(p)
  <2>1. \A c : Routing!Dispatch(i, bytes, c) <=> Routing!MatchesAt(i, data, c)
    BY <1>4 DEF Routing!Dispatch, data
  <2> QED
    BY <1>4, <2>1, OwnMatcherIsNotAnywhere DEF data
<1> QED
  BY <1>2, <1>3, <1>4

\* The routes lose no rule: of the rules asked for, those that match are found.
LEMMA RoutedIs ==
  ASSUME Built, NEW v, Routing!RoutedValue(v), NEW asked \in SUBSET Routing!Indexes, NEW i
  PROVE  i \in Routing!Routed(v, asked) <=> i \in asked /\ Holds(i, v)
<1> SUFFICES ASSUME i \in asked PROVE i \in Routing!Routed(v, asked) <=> Holds(i, v)
  BY DEF Routing!Routed
<1> DEFINE data == Routing!Transformed(i, v.bytes)
           length == Len(v.bytes)
<1>1. v.bytes \in Seq(RoutedBytes) /\ length \in Nat /\ length >= 1
  BY DEF Routing!RoutedValue
<1>2. i \in Routing!Routed(v, asked) <=>
         \/ v.bytes[1] \in detection[i].route /\ Routing!Dispatch(i, v.bytes, 1)
         \/ /\ i \notin Routing!AnywhereMask
            /\ \E c \in 2 .. length : v.bytes[c] \in detection[i].route /\ Routing!Dispatch(i, v.bytes, c)
  BY DEF Routing!Routed
<1>3. Len(data) = length
  BY <1>1, TransformedIs
<1> HIDE DEF data, length
<1>4. Holds(i, v) <=> \E c \in 1 .. length : Routing!MatchesAt(i, data, c)
  BY <1>3 DEF Holds, MatchesIn, data
<1>5. CASE i \in Routing!AnywhereMask
  <2>1. v.bytes[1] \in detection[i].route
    BY <1>1, <1>5 DEF Routing!AnywhereMask, length
  <2>2. Routing!Dispatch(i, v.bytes, 1) <=> MatchesIn(i, data)
    BY <1>1, <1>5, DispatchIs DEF data
  <2> QED
    BY <1>2, <1>5, <2>1, <2>2 DEF Holds, data
<1>6. CASE i \notin Routing!AnywhereMask
  <2>1. \A c \in 1 .. length : Routing!MatchesAt(i, data, c) => v.bytes[c] \in detection[i].route
    BY <1>1, FirstByteIsRouted DEF data, length
  <2>2. \A c : Routing!Dispatch(i, v.bytes, c) <=> Routing!MatchesAt(i, data, c)
    BY <1>1, <1>6, DispatchIs DEF data
  <2>3. \A c \in 1 .. length : c = 1 \/ c \in 2 .. length
    BY <1>1
  <2>4. 1 \in 1 .. length /\ 2 .. length \subseteq 1 .. length
    BY <1>1
  <2> QED
    BY <1>2, <1>4, <1>6, <2>1, <2>2, <2>3, <2>4
<1> QED
  BY <1>5, <1>6

\* The rows that a value selects are those of the rules one of whose variables
\* has the value's scope and type, and its selector.
LEMMA ActiveIs ==
  ASSUME NEW v, Routing!RoutedValue(v), NEW i \in Routing!Indexes
  PROVE  i \in Routing!ActiveMask(v) <=>
            /\ Routing!MasksOf(i).scope \cap v.scope # {}
            /\ v.type # 5 /\ v.type \in Routing!MasksOf(i).types
            /\ v.type = 3 => Routing!MasksOf(i).headers = {} \/ Routing!MasksOf(i).headers \cap v.headers # {}
<1> DEFINE Asked == Routing!MasksOf(i).scope \cap v.scope # {} /\ v.type \in Routing!MasksOf(i).types
           Known(slot) == Routing!MasksOf(i).headers = {} \/ Routing!MasksOf(i).headers \cap slot # {}
<1>1. v.type # 5
  BY DEF Routing!RoutedValue, Routing!AnyType
<1>2. i \in Routing!ActivePos0(v.scope, v.type) <=> Asked
  BY <1>1 DEF Routing!ActivePos0, Routing!AnyType
<1>3. CASE v.type # 3
  BY <1>1, <1>2, <1>3 DEF Routing!ActiveMask
<1>4. CASE v.type = 3
  <2>1. \A slot : i \in Routing!HeaderActivePos0(v.scope, slot) <=> Asked /\ Known(slot)
    BY <1>2, <1>4 DEF Routing!HeaderActivePos0
  <2>2. CASE Routing!Cardinality(v.headers) <= 1
    BY <1>1, <1>4, <2>1, <2>2 DEF Routing!ActiveMask
  <2>3. CASE ~(Routing!Cardinality(v.headers) <= 1)
    <3>1. i \in Routing!ActiveMask(v) <=>
             \/ i \in Routing!HeaderActivePos0(v.scope, {})
             \/ \E h \in v.headers : i \in Routing!HeaderActivePos0(v.scope, {h})
      BY <1>4, <2>3 DEF Routing!ActiveMask
    <3>2. Known(v.headers) <=> Known({}) \/ \E h \in v.headers : Known({h})
      OBVIOUS
    <3>3. i \in Routing!ActiveMask(v) <=> Asked /\ (Known({}) \/ \E h \in v.headers : Known({h}))
      BY <2>1, <3>1
    <3> QED
      BY <1>1, <1>4, <3>2, <3>3
  <2> QED
    BY <2>2, <2>3
<1> QED
  BY <1>3, <1>4


-----------------------------------------------------------------------------
(* Inspection and the audits *)

LEMMA SpecsAreApart ==
  \A c \in DOMAIN Routing!CollectionSpecs :
     /\ 3 \in Routing!CollectionSpecs[c].types => c = "REQUEST_HEADERS"
     /\ 4 \in Routing!CollectionSpecs[c].types => c = "REQUEST_BODY"
BY DEF Routing!CollectionSpecs, Routing!Spec3

\* What a binding of a rule adds to its masks.
LEMMA BoundIsMasked ==
  ASSUME NEW bindings, NEW b \in Routing!Bound(bindings), NEW s \in Routing!CollectionSpecs[b.collection].scope,
         NEW t \in Routing!CollectionSpecs[b.collection].types
  PROVE  s \in Routing!Masks(bindings).scope /\ t \in Routing!Masks(bindings).types
<1> DEFINE c == Routing!Contract(bindings)
<1>1. s \in c.scope /\ t \in c.types
  BY DEF Routing!Contract
<1>2. c = [scope |-> c.scope, types |-> c.types, collections |-> c.collections, headers |-> c.headers]
  BY DEF Routing!Contract
<1>3. Routing!Masks(bindings) = [c EXCEPT !.scope = IF c.scope = {} THEN Routing!Scopes ELSE c.scope,
                                          !.types = IF c.types = {} THEN Routing!AnyTypes ELSE c.types]
  BY DEF Routing!Masks
<1> HIDE DEF c
<1> QED
  BY <1>1, <1>2, <1>3

LEMMA MaskedHeaders ==
  ASSUME NEW bindings
  PROVE  Routing!Masks(bindings).headers = Routing!HeaderMask(bindings)
BY DEF Routing!Masks, Routing!Contract

\* A rule one of whose variables names a value is active for it.
LEMMA SelectedIsActive ==
  ASSUME Built, NEW v, Routing!RoutedValue(v), NEW i \in Routing!Indexes, Routing!Selects(i, v)
  PROVE  i \in Routing!ActiveMask(v) /\ (v.form => i \in Routing!RequestBodyMask)
<1> DEFINE bindings == Routing!Bindings(Kept[i].vars)
<1>1. PICK t \in Kept[i].targets :
         /\ Routing!CollectionSpecs[t.collection].scope \cap v.scope # {}
         /\ v.type \in Routing!CollectionSpecs[t.collection].types
         /\ t.header # "" => Routing!HeaderBit[t.header] \in v.headers
  BY RowIs DEF Routing!Selects
<1>2. PICK b \in Routing!Bound(bindings) : Routing!Binds(b, t)
  BY Rows, RoutingConstants DEF Routing!RoutingAssumption, Routing!RoutedRule
<1>3. t.header = "" \/ t.header \in DOMAIN Routing!HeaderBit
  BY Rows, RoutingConstants DEF Routing!RoutingAssumption, Routing!RoutedRule
<1>4. b.collection = t.collection /\ b.collection \in DOMAIN Routing!CollectionSpecs
  BY <1>2 DEF Routing!Binds, Routing!Bound
<1>5. Routing!MasksOf(i) = Routing!Masks(bindings)
  BY RowIs
<1>6. /\ Routing!MasksOf(i).scope \cap v.scope # {}
      /\ v.type \in Routing!MasksOf(i).types
  BY <1>1, <1>2, <1>4, <1>5, BoundIsMasked
<1>7. ASSUME v.type = 3
      PROVE  Routing!MasksOf(i).headers = {} \/ Routing!MasksOf(i).headers \cap v.headers # {}
  <2>1. b.collection = "REQUEST_HEADERS"
    BY <1>1, <1>4, <1>7, SpecsAreApart
  <2>2. Routing!MasksOf(i).headers = Routing!HeaderMask(bindings)
    BY <1>5, MaskedHeaders
  <2>3. CASE b.kind = "none"
    BY <1>2, <2>1, <2>2, <2>3 DEF Routing!HeaderMask
  <2>4. CASE b.kind = "literal" /\ t.header # "" /\ Head(b.selector) = t.header
    <3>1. Head(b.selector) \in DOMAIN Routing!HeaderBit /\ Routing!HeaderBit[Head(b.selector)] \in v.headers
      BY <1>1, <1>3, <2>4
    <3>2. Routing!HeaderMask(bindings) = {} \/ Routing!HeaderBit[Head(b.selector)] \in Routing!HeaderMask(bindings)
      BY <1>2, <2>1, <2>4, <3>1 DEF Routing!HeaderMask
    <3> QED
      BY <2>2, <3>1, <3>2
  <2> QED
    BY <1>2, <2>3, <2>4 DEF Routing!Binds
<1>8. v.type # 5
  BY DEF Routing!RoutedValue, Routing!AnyType
<1>9. i \in Routing!ActiveMask(v)
  BY <1>6, <1>7, <1>8, ActiveIs
<1>10. ASSUME v.form PROVE i \in Routing!RequestBodyMask
  <2>1. v.type = 4
    BY <1>10 DEF Routing!RoutedValue
  <2>2. b.collection = "REQUEST_BODY"
    BY <1>1, <1>4, <2>1, SpecsAreApart
  <2> QED
    BY <1>2, <2>2, RowIs DEF Routing!RequestBodyMask
<1> QED
  BY <1>9, <1>10

\* Inspection finds the rules that are on, active and match; those of a shared
\* router match the value as it is.
LEMMA InspectIs ==
  ASSUME Built, NEW v, Routing!RoutedValue(v), NEW i \in Routing!Indexes, Routing!SeesItsValue(i)
  PROVE  i \in Routing!Inspect(v) <=> i \in Routing!EffectiveMask(v) /\ Holds(i, v)
<1> DEFINE on == Routing!EffectiveMask(v)
           shared == {j \in on : Routing!Router(j) # {}}
           Hits(j) == Routing!RouterHits(Routing!Router(j), v.bytes, 1, Routing!Router(j) \cap on)
<1>1. on \in SUBSET Routing!Indexes /\ v.bytes \in Seq(RoutedBytes) /\ 1 \in Nat \ {0}
  BY DEF Routing!EffectiveMask, Routing!ActiveMask, Routing!ActivePos0, Routing!HeaderActivePos0,
         Routing!RequestBodyMask, Routing!RoutedValue
<1>2. i \in Routing!Inspect(v) <=> i \in Routing!Routed(v, on \ shared) \/ \E j \in shared : i \in Hits(j)
  BY DEF Routing!Inspect
<1> HIDE DEF on
<1>3. \A j \in shared : i \in Hits(j) => i \in on /\ i \in Routing!Router(j) /\ Routing!Router(i) # {}
  <2> SUFFICES ASSUME NEW j \in shared, i \in Hits(j) PROVE i \in on /\ i \in Routing!Router(j) /\ Routing!Router(i) # {}
    OBVIOUS
  <2>1. i \in Routing!Router(j) /\ i \in on
    BY DEF Routing!RouterHits
  <2> QED
    BY <1>1, <2>1, RouterIs
<1>4. CASE Routing!Router(i) = {}
  <2>1. i \in Routing!Routed(v, on \ shared) <=> i \in on \ shared /\ Holds(i, v)
    BY <1>1, RoutedIs
  <2> HIDE DEF Hits
  <2> QED
    BY <1>2, <1>3, <1>4, <2>1 DEF on
<1>5. CASE Routing!Router(i) # {}
  <2>1. i \notin Routing!Routed(v, on \ shared)
    BY <1>5 DEF Routing!Routed
  <2>2. ASSUME NEW j \in shared, i \in Hits(j) PROVE i \in on /\ MatchesIn(i, v.bytes)
    <3>1. i \in Routing!Router(j) /\ i \in on /\ Routing!Router(j) # {} /\ j \in Routing!Indexes
      BY <1>1, <1>3, <2>2
    <3>2. Worded(i) /\ i \in Routing!Router(j) \cap on
      BY <3>1, RowIsWorded
    <3> QED
      BY <1>1, <2>2, <3>1, <3>2, RouterIs, HitsAreMatches DEF MatchesIn
  <2>3. i \in on /\ MatchesIn(i, v.bytes) => i \in shared /\ i \in Hits(i)
    <3> SUFFICES ASSUME i \in on, MatchesIn(i, v.bytes) PROVE i \in Hits(i)
      BY <1>5
    <3>1. Worded(i) /\ i \in Routing!Router(i) \cap on
      BY <1>5, RouterIs, RowIsWorded
    <3> QED
      BY <1>1, <1>5, <3>1, RouterIs, HitsAreMatches DEF MatchesIn
  <2>4. MatchesIn(i, v.bytes) <=> Holds(i, v)
    <3>1. /\ Routing!Transformed(i, v.bytes) = IF detection[i].transforms = "lowercase" THEN Lowered(v.bytes) ELSE v.bytes
          /\ detection[i].transforms \in {"none", "lowercase"} /\ Worded(i)
      BY <1>1, TransformedIs, RowIsWorded
    <3>2. CASE detection[i].transforms = "none"
      BY <3>1, <3>2 DEF Holds
    <3>3. CASE detection[i].transforms = "lowercase"
      <4>1. Routing!PatternOf(i).fold
        BY <1>5, <3>3 DEF Routing!SeesItsValue
      <4>2. \A c \in 1 .. Len(v.bytes) : Routing!MatchesAt(i, Lowered(v.bytes), c) <=> Routing!MatchesAt(i, v.bytes, c)
        BY <1>1, <3>1, <4>1, LoweredMatches
      <4>3. Len(Lowered(v.bytes)) = Len(v.bytes)
        BY <1>1, LoweredIs
      <4> QED
        BY <3>1, <3>3, <4>2, <4>3 DEF Holds, MatchesIn
    <3> QED
      BY <3>1, <3>2, <3>3
  <2> HIDE DEF Hits, shared
  <2> QED
    BY <1>2, <2>1, <2>2, <2>3, <2>4 DEF on
<1> QED
  BY <1>4, <1>5


LEMMA EffectiveIs ==
  ASSUME NEW v, NEW i \in Routing!Indexes
  PROVE  i \in Routing!EffectiveMask(v) <=>
            i \in Routing!ActiveMask(v) /\ (v.form => i \in Routing!RequestBodyMask) /\ i \notin Routing!DisabledMask(v)
BY DEF Routing!EffectiveMask

\* The audit of one rule, which tests the rule's variables itself and removes no
\* target, asks for what the mask rows ask for.
LEMMA AuditRuleIs ==
  ASSUME Built, NEW v, Routing!RoutedValue(v), NEW i \in Routing!Indexes
  PROVE  Routing!AuditRule(v, i) <=>
            /\ detection[i].id \notin v.off /\ i \in Routing!ActiveMask(v)
            /\ v.form => i \in Routing!RequestBodyMask
            /\ Holds(i, v)
<1> DEFINE Offsets == {c \in 1 .. Len(v.bytes) : v.bytes[c] \in detection[i].route}
           Found == \E c \in IF i \in Routing!AnywhereMask THEN {1} ELSE Offsets : Routing!Dispatch(i, v.bytes, c)
           data == Routing!Transformed(i, v.bytes)
<1>1. v.bytes \in Seq(RoutedBytes)
  BY DEF Routing!RoutedValue
<1>2. Found <=> Holds(i, v)
  <2>1. CASE i \in Routing!AnywhereMask
    <3>1. Found <=> Routing!Dispatch(i, v.bytes, 1)
      BY <2>1
    <3> QED
      BY <1>1, <2>1, <3>1, DispatchIs DEF Holds
  <2>2. CASE i \notin Routing!AnywhereMask
    <3>1. \A c \in 1 .. Len(v.bytes) : Routing!MatchesAt(i, data, c) => c \in Offsets
      BY <1>1, FirstByteIsRouted
    <3>2. \A c : Routing!Dispatch(i, v.bytes, c) <=> Routing!MatchesAt(i, data, c)
      BY <1>1, <2>2, DispatchIs
    <3>3. Len(data) = Len(v.bytes)
      BY <1>1, TransformedIs
    <3> QED
      BY <2>2, <3>1, <3>2, <3>3 DEF Holds, MatchesIn
  <2> QED
    BY <2>1, <2>2
<1>3. Routing!AuditRule(v, i) <=>
         /\ detection[i].id \notin v.off
         /\ Routing!MasksOf(i).scope \cap v.scope # {}
         /\ v.type # 5 /\ v.type \in Routing!MasksOf(i).types
         /\ v.form => i \in Routing!RequestBodyMask
         /\ v.type = 3 => Routing!MasksOf(i).headers = {} \/ Routing!MasksOf(i).headers \cap v.headers # {}
         /\ Found
  BY DEF Routing!AuditRule, Routing!AnyType
<1> HIDE DEF Found
<1> QED
  BY <1>2, <1>3, ActiveIs

LEMMA AuditAllIs ==
  ASSUME Built, NEW v, Routing!RoutedValue(v), NEW i \in Routing!Indexes,
         Routing!MasksOf(i).collections \subseteq v.collections
  PROVE  i \in Routing!AuditAll(v) <=> i \in Routing!EffectiveMask(v) /\ Holds(i, v)
<1> DEFINE asked == {j \in Routing!EffectiveMask(v) : \/ Routing!MasksOf(j).collections = {}
                                                     \/ Routing!MasksOf(j).collections \cap v.collections # {}}
<1>1. asked \in SUBSET Routing!Indexes
  BY DEF Routing!EffectiveMask, Routing!ActiveMask, Routing!ActivePos0, Routing!HeaderActivePos0, Routing!RequestBodyMask
<1>2. i \in asked <=> i \in Routing!EffectiveMask(v)
  OBVIOUS
<1>3. Routing!AuditAll(v) = Routing!Routed(v, asked)
  BY DEF Routing!AuditAll
<1> HIDE DEF asked
<1> QED
  BY <1>1, <1>2, <1>3, RoutedIs

-----------------------------------------------------------------------------
(* The routing tables in use *)

\* The tables are built from rules that were translated, and what is found is
\* found with them.
RoutingIsBuilt ==
  tool = "routing" =>
    /\ rules \in Seq(RuleChoices)
    /\ stage # "translate" => Built
    /\ stage = "scanned" => /\ value \in RoutedValues
                            /\ fired = Routing!Inspect(value)
                            /\ audited = {i \in Routing!Indexes : Routing!AuditRule(value, i)}
                            /\ listed = Routing!AuditAll(value)

LEMMA RoutingStarts == TablesInit => RoutingIsBuilt
BY DEF TablesInit, Routing!Init, RoutingIsBuilt

\* The nodes of a trie, and what it answers with them.
Under(wanted, node) ==
  {i \in wanted : \E w \in Routing!Dictionary(Routing!PatternOf(i)) : Routing!IsPrefix(node, w)}
HitsOf(members, data, offset, wanted) ==
  LET lead == Routing!PatternOf(Routing!Min(members))
  IN {i \in wanted :
        \E c \in offset .. Len(data) :
          /\ ~(lead.boundary /\ c > 1 /\ data[c - 1] \in RoutedWordBytes)
          /\ \E n \in 1 .. (Len(data) - c + 1) :
               /\ \A k \in 1 .. n : Under(wanted, TextAt(lead, data, c, k)) # {}
               /\ TextAt(lead, data, c, n) \in Routing!Dictionary(Routing!PatternOf(i))
               /\ Routing!Continues(Routing!PatternOf(i), data, c + n)}

\* What is found with the tables does not change while they do not.
LEMMA SameTables ==
  ASSUME detection' = detection
  PROVE  /\ Routing!Indexes' = Routing!Indexes
         /\ \A v : /\ Routing!Inspect(v)' = Routing!Inspect(v)
                   /\ Routing!AuditAll(v)' = Routing!AuditAll(v)
                   /\ \A i : Routing!AuditRule(v, i)' <=> Routing!AuditRule(v, i)
<1>1. /\ Routing!Indexes' = Routing!Indexes
      /\ \A i : /\ Routing!PatternOf(i)' = Routing!PatternOf(i)
                /\ Routing!Router(i)' = Routing!Router(i)
                /\ Routing!MasksOf(i)' = Routing!MasksOf(i)
  BY DEF Routing!Indexes, Routing!PatternOf, Routing!Router, Routing!MasksOf
<1>2. \A i, data : Routing!Transformed(i, data)' = Routing!Transformed(i, data)
  BY DEF Routing!Transformed
<1>3. \A i, data, c : Routing!MatchesAt(i, data, c)' <=> Routing!MatchesAt(i, data, c)
  BY <1>1 DEF Routing!MatchesAt
<1>4. \A members, data, offset, wanted :
         Routing!RouterHits(members, data, offset, wanted)' = Routing!RouterHits(members, data, offset, wanted)
  <2> TAKE members, data, offset, wanted
  <2>1. \A node : Under(wanted, node)' = Under(wanted, node)
    BY <1>1 DEF Under
  <2>2. /\ Routing!RouterHits(members, data, offset, wanted) = HitsOf(members, data, offset, wanted)
        /\ Routing!RouterHits(members, data, offset, wanted)' = HitsOf(members, data, offset, wanted)'
    BY DEF Routing!RouterHits, HitsOf, Under, TextAt
  <2>3. HitsOf(members, data, offset, wanted)' = HitsOf(members, data, offset, wanted)
    BY <1>1, <2>1 DEF HitsOf
  <2> QED
    BY <2>2, <2>3
<1>5. \A i, bytes, offset : Routing!Dispatch(i, bytes, offset)' <=> Routing!Dispatch(i, bytes, offset)
  BY <1>1, <1>2, <1>3, <1>4 DEF Routing!Dispatch
<1>6. /\ Routing!AnywhereMask' = Routing!AnywhereMask
      /\ Routing!RequestBodyMask' = Routing!RequestBodyMask
      /\ \A v : Routing!DisabledMask(v)' = Routing!DisabledMask(v)
      /\ \A scope, type : Routing!ActivePos0(scope, type)' = Routing!ActivePos0(scope, type)
  BY <1>1 DEF Routing!AnywhereMask, Routing!RequestBodyMask, Routing!DisabledMask, Routing!ActivePos0
<1>7. \A scope, slot : Routing!HeaderActivePos0(scope, slot)' = Routing!HeaderActivePos0(scope, slot)
  BY <1>1, <1>6 DEF Routing!HeaderActivePos0
<1>8. \A v : Routing!ActiveMask(v)' = Routing!ActiveMask(v)
  BY <1>6, <1>7 DEF Routing!ActiveMask
<1>9. \A v : Routing!EffectiveMask(v)' = Routing!EffectiveMask(v)
  BY <1>1, <1>6, <1>8 DEF Routing!EffectiveMask
<1>10. \A v, asked : Routing!Routed(v, asked)' = Routing!Routed(v, asked)
  BY <1>5, <1>6 DEF Routing!Routed
<1>11. \A v : Routing!Inspect(v)' = Routing!Inspect(v)
  BY <1>1, <1>4, <1>9, <1>10 DEF Routing!Inspect
<1>12. \A v : Routing!AuditAll(v)' = Routing!AuditAll(v)
  BY <1>1, <1>9, <1>10 DEF Routing!AuditAll
<1>13. \A v, i : Routing!AuditRule(v, i)' <=> Routing!AuditRule(v, i)
  BY <1>1, <1>5, <1>6 DEF Routing!AuditRule
<1> QED
  BY <1>1, <1>11, <1>12, <1>13

LEMMA RoutingContinues ==
  ASSUME RoutingIsBuilt, [TablesNext]_tableVars
  PROVE  RoutingIsBuilt'
<1> SUFFICES ASSUME tool' = "routing" PROVE RoutingIsBuilt'
  BY DEF RoutingIsBuilt
<1>1. CASE UNCHANGED tableVars
  <2>1. /\ tool = "routing" /\ rules' = rules /\ stage' = stage /\ detection' = detection
        /\ value' = value /\ fired' = fired /\ audited' = audited /\ listed' = listed
    BY <1>1 DEF tableVars, routingOnly
  <2>2. Built => Built'
    BY <2>1 DEF Built
  <2>3. \A v : /\ Routing!Inspect(v)' = Routing!Inspect(v) /\ Routing!AuditAll(v)' = Routing!AuditAll(v)
               /\ {i \in Routing!Indexes : Routing!AuditRule(v, i)}' = {i \in Routing!Indexes : Routing!AuditRule(v, i)}
    BY <2>1, SameTables
  <2> QED
    BY <2>1, <2>2, <2>3 DEF RoutingIsBuilt
<1>2. CASE tool = "routing" /\ Routing!Next /\ UNCHANGED <<tool, textOnly>>
  <2>1. ASSUME NEW r \in RuleChoices, Routing!Translate(r) PROVE RoutingIsBuilt'
    BY <1>2, <2>1 DEF RoutingIsBuilt, Routing!Translate
  <2>2. CASE Routing!BuildTables
    BY <1>2, <2>2 DEF RoutingIsBuilt, Routing!BuildTables, Built
  <2>3. ASSUME NEW v \in RoutedValues, Routing!Scan(v) PROVE RoutingIsBuilt'
    <3>1. /\ rules' = rules /\ detection' = detection /\ stage # "translate" /\ stage' = "scanned"
          /\ value' = v /\ fired' = Routing!Inspect(v) /\ listed' = Routing!AuditAll(v)
          /\ audited' = {i \in Routing!Indexes : Routing!AuditRule(v, i)}
      BY <2>3 DEF Routing!Scan
    <3>2. rules \in Seq(RuleChoices) /\ Built
      BY <1>2, <3>1 DEF RoutingIsBuilt
    <3>3. Built'
      BY <3>1, <3>2 DEF Built
    <3>4. /\ fired' = Routing!Inspect(v)' /\ listed' = Routing!AuditAll(v)'
          /\ audited' = {i \in Routing!Indexes : Routing!AuditRule(v, i)}'
      BY <3>1, SameTables
    <3> QED
      BY <3>1, <3>2, <3>3, <3>4 DEF RoutingIsBuilt
  <2> QED
    BY <1>2, <2>1, <2>2, <2>3 DEF Routing!Next
<1> QED
  BY <1>1, <1>2 DEF TablesNext

THEOREM TablesAreBuilt == TablesSpec => []RoutingIsBuilt
<1> QED
  BY RoutingStarts, RoutingContinues, PTL DEF TablesSpec

LEMMA ScannedIs ==
  ASSUME RoutingIsBuilt, tool = "routing", stage = "scanned"
  PROVE  /\ Built /\ Routing!RoutedValue(value)
         /\ fired = Routing!Inspect(value) /\ listed = Routing!AuditAll(value)
         /\ audited = {i \in Routing!Indexes : Routing!AuditRule(value, i)}
<1>1. value \in RoutedValues
  BY DEF RoutingIsBuilt
<1> QED
  BY <1>1, RoutingConstants DEF RoutingIsBuilt, Routing!RoutingAssumption

\* src/luminawaf.cpp over the routing tables: inspection matches every rule that
\* is on, sees the value it asks for and is named by one of its variables, if the
\* rule's own matcher finds the transformed value anywhere.
THEOREM NoRuleIsMissed == TablesSpec => []NothingSelectedIsMissed
<1>1. RoutingIsBuilt => NothingSelectedIsMissed
  <2> SUFFICES ASSUME RoutingIsBuilt, tool = "routing", stage = "scanned", NEW i \in Routing!Indexes,
                      Routing!SeesItsValue(i), Routing!Selects(i, value), i \notin Routing!DisabledMask(value),
                      Holds(i, value)
               PROVE  i \in fired
    BY DEF NothingSelectedIsMissed, Routing!NothingSelectedIsMissed, Holds, MatchesIn
  <2>1. Built /\ Routing!RoutedValue(value) /\ fired = Routing!Inspect(value)
    BY ScannedIs
  <2>2. i \in Routing!EffectiveMask(value)
    BY <2>1, SelectedIsActive, EffectiveIs
  <2> QED
    BY <2>1, <2>2, InspectIs
<1> QED
  BY <1>1, TablesAreBuilt, PTL

\* Inspection, the audit of one rule and the full audit tell the same of a rule
\* that sees the value it asks for.
THEOREM AuditsTellWhatInspectionDoes == TablesSpec => []AuditsAgree
<1>1. RoutingIsBuilt => AuditsAgree
  <2> SUFFICES ASSUME RoutingIsBuilt, tool = "routing", stage = "scanned", NEW i \in Routing!Indexes,
                      Routing!SeesItsValue(i)
               PROVE  /\ i \in fired <=> i \in audited /\ i \notin Routing!DisabledMask(value)
                      /\ Routing!MasksOf(i).collections \subseteq value.collections => (i \in fired <=> i \in listed)
    BY DEF AuditsAgree, Routing!AuditsAgree
  <2>1. /\ Built /\ Routing!RoutedValue(value)
        /\ fired = Routing!Inspect(value) /\ listed = Routing!AuditAll(value)
        /\ audited = {j \in Routing!Indexes : Routing!AuditRule(value, j)}
    BY ScannedIs
  <2>2. i \in fired <=> i \in Routing!EffectiveMask(value) /\ Holds(i, value)
    BY <2>1, InspectIs
  <2>3. i \in audited <=> Routing!AuditRule(value, i)
    BY <2>1
  <2>4. i \notin Routing!DisabledMask(value) => detection[i].id \notin value.off
    BY DEF Routing!DisabledMask
  <2>5. i \in fired <=> i \in audited /\ i \notin Routing!DisabledMask(value)
    BY <2>1, <2>2, <2>3, <2>4, AuditRuleIs, EffectiveIs
  <2>6. Routing!MasksOf(i).collections \subseteq value.collections => (i \in fired <=> i \in listed)
    BY <2>1, <2>2, AuditAllIs
  <2> QED
    BY <2>5, <2>6
<1> QED
  BY <1>1, TablesAreBuilt, PTL


-----------------------------------------------------------------------------
(* The rules of a text *)

LEMMA SameLists ==
  /\ \A s : Translation!Cardinality(s) = Cardinality(s)
  /\ \A s, n : Translation!Nth(s, n) = Nth(s, n)
  /\ \A list : Translation!Final(list) = Final(list)
<1>1. \A s : Translation!Cardinality(s) = Cardinality(s)
  BY Zenon DEF Cardinality, Translation!Cardinality
<1>2. \A s, k : Translation!Rank(s, k) = Rank(s, k)
  BY <1>1 DEF Rank, Translation!Rank
<1>3. \A s, n : Translation!Nth(s, n) = Nth(s, n)
  BY <1>2, Zenon DEF Nth, Translation!Nth
<1>4. \A list : Translation!Staying(list) = Staying(list)
  BY DEF Staying, HPP_SKIP, Translation!Staying, Translation!HPP_SKIP
<1>5. \A list : Translation!Final(list) = Final(list)
  BY <1>1, <1>3, <1>4, Zenon DEF Final, Translation!Final
<1> QED
  BY <1>1, <1>3, <1>5

\* The items of the statements that may be written.
Items == UNION {Translation!ToSet(statement) : statement \in Statements}

LEMMA WrittenText ==
  ASSUME NEW statement \in Statements, NEW s \in Seq(Items)
  PROVE  s \o statement \in Seq(Items)
<1>1. statement \in Seq(Translation!ToSet(statement)) /\ Translation!ToSet(statement) \subseteq Items
  BY StatementsAreItems DEF Translation!StatementsAssumption, Items
<1>2. statement \in Seq(Items)
  BY <1>1, SeqMonotonic
<1> QED
  BY <1>2

LEMMA StatementsOfText ==
  ASSUME NEW items \in Seq(Items)
  PROVE  Translation!Split(items) \in Seq(Seq(Items))
<1> DEFINE starts == {k \in DOMAIN items : ~items[k].comment /\ items[k].item[1] \in {"SecRule", "SecAction"}}
           last == Cardinality(starts)
           End(n) == IF n = last THEN Len(items) ELSE Nth(starts, n + 1) - 1
<1>1. starts \in SUBSET (1 .. Len(items)) /\ Len(items) \in Nat
  OBVIOUS
<1> HIDE DEF starts
<1>2. last \in Nat
  BY <1>1, Ranks
<1>3. \A n \in 1 .. last : Nth(starts, n) \in 1 .. Len(items)
  BY <1>1, NthIs
<1>4. \A n \in 1 .. last : End(n) \in 0 .. Len(items)
  <2> TAKE n \in 1 .. last
  <2>1. n # last => n + 1 \in 1 .. last
    BY <1>2
  <2> HIDE DEF last
  <2> QED
    BY <1>1, <1>3, <2>1
<1>5. \A n \in 1 .. last : SubSeq(items, Nth(starts, n), End(n)) \in Seq(Items)
  <2> HIDE DEF End, last
  <2> QED
    BY <1>1, <1>3, <1>4
<1>6. Translation!Split(items) = [n \in 1 .. last |-> SubSeq(items, Nth(starts, n), End(n))]
  BY SameLists, Zenon DEF Translation!Split, starts
<1> HIDE DEF last
<1> QED
  BY <1>2, <1>5, <1>6

\* A rule as it is parsed.
IsRule(r) ==
  /\ r = [kind |-> r.kind, id |-> r.id, phase |-> r.phase, chain |-> r.chain, block |-> r.block, gating |-> r.gating,
          operator |-> r.operator, negated |-> r.negated, pattern |-> r.pattern, bindings |-> r.bindings,
          transforms |-> r.transforms, score |-> r.score, scoring |-> r.scoring, blockingEval |-> r.blockingEval,
          paranoia |-> r.paranoia, tags |-> r.tags, removes |-> r.removes, dynamic |-> r.dynamic,
          removeTargets |-> r.removeTargets, members |-> r.members]
  /\ r.members = <<>> /\ r.chain \in BOOLEAN /\ r.scoring \in BOOLEAN

LEMMA ParsedIsRule ==
  ASSUME NEW items
  PROVE  IsRule(Translation!ParseStatement(items))
BY DEF Translation!ParseStatement, IsRule

RuleSet == {Translation!ParseStatement(statement) : statement \in Seq(Items)}


\* The rule set that is translated.
Read == rules \in Seq(RuleSet)

LEMMA RulesAre ==
  ASSUME Read
  PROVE  /\ Len(rules) \in Nat /\ DOMAIN rules = 1 .. Len(rules)
         /\ \A k \in DOMAIN rules : IsRule(rules[k])
         /\ \A k \in DOMAIN rules : rules[k] \in Translation!ToSet(rules)
         /\ \A r \in Translation!ToSet(rules) : \E k \in DOMAIN rules : r = rules[k]
<1>1. Len(rules) \in Nat /\ DOMAIN rules = 1 .. Len(rules) /\ \A k \in DOMAIN rules : rules[k] \in RuleSet
  BY DEF Read
<1> QED
  BY <1>1, ParsedIsRule DEF RuleSet, Translation!ToSet

-----------------------------------------------------------------------------
(* Chains *)

LEMMA ChainEndIs ==
  ASSUME Read, NEW k \in DOMAIN rules
  PROVE  /\ Translation!ChainEnd(k) \in k .. Len(rules)
         /\ \A i \in k .. Translation!ChainEnd(k) - 1 : rules[i].chain
         /\ Translation!ChainEnd(k) = Len(rules) \/ ~rules[Translation!ChainEnd(k)].chain
<1> DEFINE ends == {j \in k .. Len(rules) : ~rules[j].chain}
<1>1. k \in Nat /\ Len(rules) \in Nat /\ k <= Len(rules)
  BY RulesAre
<1>2. Translation!ChainEnd(k) = IF ends = {} THEN Len(rules) ELSE Translation!Min(ends)
  BY DEF Translation!ChainEnd
<1>3. CASE ends = {}
  <2>1. \A i \in k .. Len(rules) - 1 : rules[i].chain
    BY <1>1, <1>3
  <2> HIDE DEF ends
  <2> QED
    BY <1>1, <1>2, <1>3, <2>1
<1>4. CASE ends # {}
  <2>1. ends \in SUBSET Nat
    BY <1>1
  <2>2. PICK m \in ends : \A n \in ends : m <= n
    BY <1>4, <2>1, LeastOfNumbers
  <2>3. \A x \in ends : (\A n \in ends : x <= n) => x = m
    BY <2>1, <2>2
  <2>4. Translation!ChainEnd(k) = m
    <3> HIDE DEF ends
    <3> QED
      BY <1>2, <1>4, <2>2, <2>3 DEF Translation!Min
  <2>5. m \in k .. Len(rules) /\ ~rules[m].chain
    BY <2>2
  <2>6. \A i \in k .. m - 1 : rules[i].chain
    <3> TAKE i \in k .. m - 1
    <3>1. i \in k .. Len(rules) /\ ~(m <= i)
      BY <1>1, <2>5
    <3> QED
      BY <2>2, <3>1
  <2> QED
    BY <2>4, <2>5, <2>6
<1> QED
  BY <1>3, <1>4

\* A chain reaches as far as its end.
LEMMA ReachIs ==
  ASSUME Read, NEW k \in DOMAIN rules, NEW j \in DOMAIN rules
  PROVE  Translation!Reaches(k, j) <=> j \in k .. Translation!ChainEnd(k)
<1> DEFINE e == Translation!ChainEnd(k)
<1>1. k \in Nat /\ j \in Nat /\ Len(rules) \in Nat /\ j <= Len(rules) /\ e \in Nat /\ k <= e
  BY RulesAre, ChainEndIs
<1>2. (\A i \in k .. e - 1 : rules[i].chain) /\ (e = Len(rules) \/ ~rules[e].chain)
  BY ChainEndIs
<1> HIDE DEF e
<1>3. ASSUME k <= j, j <= e PROVE Translation!Reaches(k, j)
  <2>1. \A i \in k .. j - 1 : i \in k .. e - 1
    BY <1>1, <1>3
  <2> QED
    BY <1>2, <1>3, <2>1 DEF Translation!Reaches
<1>4. ASSUME Translation!Reaches(k, j), j > e PROVE FALSE
  <2>1. e \in k .. j - 1 /\ e # Len(rules)
    BY <1>1, <1>4
  <2> QED
    BY <1>2, <1>4, <2>1 DEF Translation!Reaches
<1>5. Translation!Reaches(k, j) => k <= j
  BY DEF Translation!Reaches
<1> QED
  BY <1>1, <1>3, <1>4, <1>5 DEF e

\* A unit is the rule that starts it but for its members and its points: those
\* of the first rule of the chain that scores.
SameRule(u, r) ==
  /\ u.kind = r.kind /\ u.id = r.id /\ u.phase = r.phase /\ u.gating = r.gating /\ u.operator = r.operator
  /\ u.pattern = r.pattern /\ u.paranoia = r.paranoia

Charged(k, score) ==
  \E j \in DOMAIN rules :
     /\ Translation!Reaches(k, j)
     /\ rules[j].scoring \/ (j = k /\ ~Translation!ScoresAt(k))
     /\ \A i \in k .. (j - 1) : ~rules[i].scoring
     /\ score = rules[j].score

LEMMA UnitIs ==
  ASSUME Read, NEW k \in DOMAIN rules
  PROVE  /\ SameRule(Translation!Unit(k), rules[k])
         /\ Translation!ScoresAt(k) => Translation!chain_is_score_bearing(Translation!Unit(k))
         /\ Charged(k, Translation!Unit(k).score)
<1> DEFINE r == rules[k]
           e == Translation!ChainEnd(k)
           scoring == {j \in k .. e : rules[j].scoring}
           u == Translation!Unit(k)
<1>1. /\ k \in Nat /\ Len(rules) \in Nat /\ DOMAIN rules = 1 .. Len(rules) /\ k >= 1 /\ k <= Len(rules)
      /\ e \in k .. Len(rules)
  BY RulesAre, ChainEndIs
<1>2. IsRule(r)
  BY RulesAre
<1>3. \A j \in DOMAIN rules : Translation!Reaches(k, j) <=> j \in k .. e
  BY ReachIs
<1>4. k .. e \subseteq DOMAIN rules
  BY <1>1
<1>5. Translation!ScoresAt(k) <=> scoring # {}
  BY <1>3, <1>4 DEF Translation!ScoresAt
<1> HIDE DEF e
<1>6. CASE ~r.chain
  <2>1. u = r
    BY <1>6 DEF Translation!Unit
  <2>2. e = k
    <3>1. e # k => k \in k .. e - 1
      BY <1>1
    <3> QED
      BY <1>6, <3>1, ChainEndIs DEF e
  <2>3. Translation!chain_is_score_bearing(r) <=> r.scoring
    BY <1>2 DEF Translation!chain_is_score_bearing, Translation!Members, Translation!ToSet, IsRule
  <2>4. Translation!ScoresAt(k) <=> r.scoring
    BY <1>1, <1>5, <2>2
  <2>5. Translation!Reaches(k, k) /\ k .. (k - 1) = {}
    BY <1>1, <1>3
  <2> QED
    BY <2>1, <2>3, <2>4, <2>5 DEF SameRule, Charged
<1>7. CASE r.chain
  <2> DEFINE m == SubSeq(rules, k, e)
             s == IF scoring = {} THEN r.score ELSE rules[Translation!Min(scoring)].score
  <2>1. u = [r EXCEPT !.members = m, !.score = s]
    BY <1>7 DEF Translation!Unit, e
  <2>2. /\ Len(m) = e - k + 1 /\ DOMAIN m = 1 .. e - k + 1
        /\ \A n \in 1 .. e - k + 1 : m[n] = rules[k + n - 1]
    BY <1>1 DEF Read
  <2> HIDE DEF m, s
  <2>3. SameRule(u, r) /\ u.members = m /\ u.score = s
    BY <1>2, <2>1 DEF IsRule, SameRule
  <2>4. ASSUME NEW j \in scoring PROVE Translation!chain_is_score_bearing(u)
    <3>1. j - k + 1 \in 1 .. e - k + 1 /\ k + (j - k + 1) - 1 = j
      BY <1>1
    <3>2. m[j - k + 1] = rules[j] /\ j - k + 1 \in DOMAIN m
      BY <2>2, <3>1
    <3>3. rules[j] \in Translation!ToSet(m)
      BY <3>2 DEF Translation!ToSet
    <3>4. m # <<>>
      BY <2>2, <3>1
    <3> QED
      BY <2>3, <2>4, <3>3, <3>4 DEF Translation!chain_is_score_bearing, Translation!Members
  <2>5. CASE scoring = {}
    <3>1. k \in k .. e /\ k .. (k - 1) = {}
      BY <1>1
    <3>2. s = r.score
      BY <2>5 DEF s
    <3> QED
      BY <1>3, <1>5, <2>3, <2>5, <3>1, <3>2 DEF Charged
  <2>6. CASE scoring # {}
    <3>1. scoring \in SUBSET Nat
      BY <1>1
    <3>2. PICK j \in scoring : \A n \in scoring : j <= n
      BY <2>6, <3>1, LeastOfNumbers
    <3>3. \A x \in scoring : (\A n \in scoring : x <= n) => x = j
      BY <3>1, <3>2
    <3>4. s = rules[j].score
      <4> HIDE DEF scoring
      <4> QED
        BY <2>6, <3>2, <3>3 DEF Translation!Min, s
    <3>5. \A i \in k .. (j - 1) : ~rules[i].scoring
      <4> TAKE i \in k .. (j - 1)
      <4>1. i \in k .. e /\ ~(j <= i)
        BY <1>1
      <4> QED
        BY <3>2, <4>1
    <3>6. j \in DOMAIN rules /\ Translation!Reaches(k, j) /\ rules[j].scoring
      BY <1>3, <1>4, <3>2
    <3> QED
      BY <2>3, <2>4, <3>2, <3>4, <3>5, <3>6 DEF Charged
  <2> QED
    BY <2>5, <2>6
<1> QED
  BY <1>2, <1>6, <1>7 DEF IsRule


-----------------------------------------------------------------------------
(* The ladder of tests *)

Has(s, n) == s = [i \in 1 .. n |-> s[i]]

JoinedAs(l, s, t, a, b) ==
  /\ Has(l, a + b) /\ Len(l) = a + b
  /\ \A n \in 1 .. a : l[n] = s[n]
  /\ \A n \in 1 .. b : l[a + n] = t[n]

LEMMA Joined ==
  ASSUME NEW s, NEW t, NEW a \in Nat, NEW b \in Nat, Has(s, a), Has(t, b)
  PROVE  JoinedAs(s \o t, s, t, a, b)
<1> DEFINE S == {s[n] : n \in 1 .. a} \cup {t[n] : n \in 1 .. b}
<1>1. (\A n \in 1 .. a : s[n] \in S) /\ (\A n \in 1 .. b : t[n] \in S)
  BY Zenon
<1> HIDE DEF S
<1>2. s \in Seq(S) /\ Len(s) = a
  BY <1>1 DEF Has
<1>3. t \in Seq(S) /\ Len(t) = b
  BY <1>1 DEF Has
<1> QED
  BY <1>2, <1>3 DEF Has, JoinedAs

\* A test that holds generates the rule, leaves an entry in unsupported_rules, or
\* has a reason for neither that is stated.
Stated(reason) == reason # ""
Answers(t) == t.guard => t.to = "generated" \/ Stated(t.reason)

LEMMA OffAnswers ==
  ASSUME NEW guard, ~guard, NEW to, NEW reason
  PROVE  Answers(Translation!Test(guard, to, reason)) /\ Answers(Translation!Lost(guard, reason))
BY DEF Answers, Translation!Test, Translation!Lost

LEMMA ListedAnswers ==
  ASSUME NEW guard, NEW reason, Stated(reason)
  PROVE  Answers(Translation!Lost(guard, reason))
BY DEF Answers, Translation!Test, Translation!Lost

LEMMA GeneratedAnswers ==
  ASSUME NEW guard, NEW reason
  PROVE  Answers(Translation!Test(guard, "generated", reason))
BY DEF Answers, Translation!Test

\* A unit that is to be accounted for: a score-bearing rule of the phases and
\* levels compiled, for which emission has what it needs.
Wanted(u) ==
  /\ Translation!chain_is_score_bearing(u)
  /\ u.kind = "SecRule" /\ u.operator # "" /\ u.phase \in {1, 2} /\ ~(u.paranoia > PL) /\ ~u.gating
  /\ ~Translation!GivenUp(u) /\ u.id \notin Translation!RUNTIME_COVERED_IDS

LEMMA GatesAnswer ==
  ASSUME NEW u, NEW mode, Wanted(u)
  PROVE  LET g == Translation!Gates(u, mode)
         IN /\ \A n \in 1 .. 11 : n = 4 \/ Answers(g[n])
            /\ g[4].guard => g[3].guard
<1> DEFINE g == Translation!Gates(u, mode)
           described == Translation!Descriptor(u) # "none"
<1>1. Answers(g[1])
  <2>1. g[1] = Translation!Test(u.gating, "gating", "")
    BY DEF Translation!Gates
  <2> HIDE DEF g
  <2> QED
    BY <2>1, OffAnswers DEF Wanted
<1>2. Answers(g[2])
  <2>1. g[2] = Translation!Lost(u.phase \notin {1, 2}, "")
    BY DEF Translation!Gates
  <2> HIDE DEF g
  <2> QED
    BY <2>1, OffAnswers DEF Wanted
<1>3. Answers(g[3])
  <2>1. g[3] = Translation!Lost(u.blockingEval /\ ~described /\ Translation!chain_is_score_bearing(u), "runtime-tx-state")
    BY DEF Translation!Gates
  <2> HIDE DEF g
  <2> QED
    BY <2>1, ListedAnswers DEF Stated
<1>5. Answers(g[5])
  <2>1. g[5] = Translation!Test(u.paranoia > PL, "pl", "")
    BY DEF Translation!Gates
  <2> HIDE DEF g
  <2> QED
    BY <2>1, OffAnswers DEF Wanted
<1>6. Answers(g[6])
  <2>1. g[6] = Translation!Lost(u.kind # "SecRule" \/ u.operator = "", "")
    BY DEF Translation!Gates
  <2> HIDE DEF g
  <2> QED
    BY <2>1, OffAnswers DEF Wanted
<1>7. Answers(g[7])
  <2>1. g[7] = Translation!Lost(u.id = Translation!NoId, "chain-child-or-missing-id")
    BY DEF Translation!Gates
  <2> HIDE DEF g
  <2> QED
    BY <2>1, ListedAnswers DEF Stated
<1>8. Answers(g[8])
  <2>1. g[8] = Translation!Test(u.id \in Translation!RUNTIME_COVERED_IDS, "runtime", "")
    BY DEF Translation!Gates
  <2> HIDE DEF g
  <2> QED
    BY <2>1, OffAnswers DEF Wanted
<1>9. Answers(g[9])
  <2>1. g[9] = Translation!Lost(~Translation!is_compilable(u, mode), "")
    BY DEF Translation!Gates
  <2> HIDE DEF g
  <2> QED
    BY <2>1, OffAnswers DEF Wanted, Translation!is_compilable
<1>10. Answers(g[10])
  <2>1. g[10] = Translation!Lost(~described /\ (u.bindings = {} \/ \E b \in u.bindings : b.collection \notin Collections),
                               "unknown-collection")
    BY DEF Translation!Gates
  <2> HIDE DEF g
  <2> QED
    BY <2>1, ListedAnswers DEF Stated
<1>11. Answers(g[11])
  <2>1. g[11] = Translation!Test(Translation!Descriptor(u) = "runtime", "generated", "")
    BY DEF Translation!Gates
  <2> HIDE DEF g
  <2> QED
    BY <2>1, GeneratedAnswers
<1>12. g[4].guard => g[3].guard
  <2>1. g[4].guard = (u.blockingEval /\ ~described)
    BY DEF Translation!Gates, Translation!Test
  <2>2. g[3].guard = (u.blockingEval /\ ~described /\ Translation!chain_is_score_bearing(u))
    BY DEF Translation!Gates, Translation!Test, Translation!Lost
  <2> HIDE DEF g, described
  <2> QED
    BY <2>1, <2>2 DEF Wanted
<1>13. \A n \in 1 .. 11 : n \in {1, 2, 3, 4, 5, 6, 7, 8, 9, 10, 11}
  OBVIOUS
<1> HIDE DEF g
<1> QED
  BY <1>1, <1>2, <1>3, <1>5, <1>6, <1>7, <1>8, <1>9, <1>10, <1>11, <1>12, <1>13 DEF g

LEMMA ChainsAnswer ==
  ASSUME NEW u
  PROVE  \A n \in 1 .. 4 : Answers(Translation!Chains(u)[n])
<1> DEFINE c == Translation!Chains(u)
           chained == u.members # <<>> /\ Translation!Descriptor(u) = "none"
<1>1. Answers(c[1])
  <2>1. c[1] = Translation!Lost(chained /\ ChainForm[u.pattern] = "none", "unsupported-chain")
    BY DEF Translation!Chains
  <2> HIDE DEF c
  <2> QED
    BY <2>1, ListedAnswers DEF Stated
<1>2. Answers(c[2])
  <2>1. c[2] = Translation!Lost(chained /\ ChainForm[u.pattern] = "phrase" /\ u.pattern \in MissingData,
                               "chain-pm-data-file-not-found")
    BY DEF Translation!Chains
  <2> HIDE DEF c
  <2> QED
    BY <2>1, ListedAnswers DEF Stated
<1>3. Answers(c[3])
  <2>1. c[3] = Translation!Lost(chained /\ u.pattern \in OverBudget, "chain-dfa-budget")
    BY DEF Translation!Chains
  <2> HIDE DEF c
  <2> QED
    BY <2>1, ListedAnswers DEF Stated
<1>4. Answers(c[4])
  <2>1. c[4] = Translation!Test(chained, "generated", "")
    BY DEF Translation!Chains
  <2> HIDE DEF c
  <2> QED
    BY <2>1, GeneratedAnswers
<1> HIDE DEF c
<1> QED
  BY <1>1, <1>2, <1>3, <1>4 DEF c

LEMMA NegationsAnswer ==
  ASSUME NEW u
  PROVE  \A n \in 1 .. 4 : Answers(Translation!Negations(u)[n])
<1> DEFINE c == Translation!Negations(u)
<1>1. Answers(c[1])
  <2>1. c[1] = Translation!Test(u.negated /\ u.operator = "@within", "generated", "")
    BY DEF Translation!Negations
  <2> HIDE DEF c
  <2> QED
    BY <2>1, GeneratedAnswers
<1>2. Answers(c[2])
  <2>1. c[2] = Translation!Lost(u.negated /\ ~(u.operator = "@rx" /\ Translation!negated_rx_runtime_safe(u)),
                               "unsafe-negated-operator-binding")
    BY DEF Translation!Negations
  <2> HIDE DEF c
  <2> QED
    BY <2>1, ListedAnswers DEF Stated
<1>3. Answers(c[3])
  <2>1. c[3] = Translation!Lost(u.negated /\ u.pattern \in OverBudget, "negated-dfa-budget")
    BY DEF Translation!Negations
  <2> HIDE DEF c
  <2> QED
    BY <2>1, ListedAnswers DEF Stated
<1>4. Answers(c[4])
  <2>1. c[4] = Translation!Test(u.negated, "generated", "")
    BY DEF Translation!Negations
  <2> HIDE DEF c
  <2> QED
    BY <2>1, GeneratedAnswers
<1> HIDE DEF c
<1> QED
  BY <1>1, <1>2, <1>3, <1>4 DEF c

LEMMA OperatorsAnswer ==
  ASSUME NEW u, ~Translation!GivenUp(u)
  PROVE  \A n \in 1 .. 6 : Answers(Translation!Operators(u)[n])
<1> DEFINE c == Translation!Operators(u)
<1>1. Answers(c[1])
  <2>1. c[1] = Translation!Lost(u.operator \in {"@rx"} /\ u.pattern \in Untranslatable, "")
    BY DEF Translation!Operators
  <2> HIDE DEF c
  <2> QED
    BY <2>1, OffAnswers DEF Translation!GivenUp
<1>2. Answers(c[2])
  <2>1. c[2] = Translation!Lost(u.operator \in {"@pm", "@contains"} /\ u.pattern = "", "")
    BY DEF Translation!Operators
  <2> HIDE DEF c
  <2> QED
    BY <2>1, OffAnswers DEF Translation!GivenUp
<1>3. Answers(c[3])
  <2>1. c[3] = Translation!Test(u.operator \in {"@pmFromFile"} /\ u.pattern = "", "uncounted", "")
    BY DEF Translation!Operators
  <2> HIDE DEF c
  <2> QED
    BY <2>1, OffAnswers DEF Translation!GivenUp
<1>4. Answers(c[4])
  <2>1. c[4] = Translation!Lost(u.operator \in {"@pmFromFile"} /\ u.pattern \in MissingData, "")
    BY DEF Translation!Operators
  <2> HIDE DEF c
  <2> QED
    BY <2>1, OffAnswers DEF Translation!GivenUp
<1>5. Answers(c[5])
  <2>1. c[5] = Translation!Test(u.operator \in (Translation!WholeBuffer \cup {"@rx", "@pm", "@contains", "@pmFromFile"}),
                               "generated", "")
    BY DEF Translation!Operators
  <2> HIDE DEF c
  <2> QED
    BY <2>1, GeneratedAnswers
<1>6. Answers(c[6])
  <2>1. c[6] = Translation!Lost(TRUE, "unsupported-operator")
    BY DEF Translation!Operators
  <2> HIDE DEF c
  <2> QED
    BY <2>1, ListedAnswers DEF Stated
<1> HIDE DEF c
<1> QED
  BY <1>1, <1>2, <1>3, <1>4, <1>5, <1>6 DEF c

\* The parts of the ladder, and what is behind them.
LEMMA LadderIs ==
  ASSUME NEW u, NEW mode
  PROVE  LET l == Translation!Ladder(u, mode)
         IN /\ Len(l) = 25
            /\ \A n \in 1 .. 11 : l[n] = Translation!Gates(u, mode)[n]
            /\ \A n \in 1 .. 4 : l[11 + n] = Translation!Chains(u)[n]
            /\ \A n \in 1 .. 4 : l[15 + n] = Translation!Negations(u)[n]
            /\ \A n \in 1 .. 6 : l[19 + n] = Translation!Operators(u)[n]
<1> DEFINE g == Translation!Gates(u, mode)
           c == Translation!Chains(u)
           d == Translation!Negations(u)
           o == Translation!Operators(u)
<1>1. Has(g, 11)
  BY DEF Translation!Gates, Has
<1>2. Has(c, 4)
  BY DEF Translation!Chains, Has
<1>3. Has(d, 4)
  BY DEF Translation!Negations, Has
<1>4. Has(o, 6)
  BY DEF Translation!Operators, Has
<1>5. Translation!Ladder(u, mode) = ((g \o c) \o d) \o o
  BY DEF Translation!Ladder
<1> HIDE DEF g, c, d, o
<1> DEFINE a == g \o c
           b == a \o d
<1>6. JoinedAs(a, g, c, 11, 4)
  BY <1>1, <1>2, Joined
<1> HIDE DEF a
<1>7. JoinedAs(b, a, d, 15, 4)
  <2>1. Has(a, 15)
    BY <1>6 DEF JoinedAs
  <2> QED
    BY <1>3, <2>1, Joined
<1> HIDE DEF b
<1> DEFINE l == b \o o
<1>8. JoinedAs(l, b, o, 19, 6)
  <2>1. Has(b, 19)
    BY <1>7 DEF JoinedAs
  <2> QED
    BY <1>4, <2>1, Joined
<1>9. Translation!Ladder(u, mode) = l
  BY <1>5 DEF a, b
<1> HIDE DEF l
<1>10. /\ \A n \in 1 .. 11 : n \in 1 .. 15 /\ n \in 1 .. 19
       /\ \A n \in 1 .. 4 : 11 + n \in 1 .. 15 /\ 11 + n \in 1 .. 19 /\ 15 + n \in 1 .. 19
  OBVIOUS
<1>11. /\ \A n \in 1 .. 11 : l[n] = g[n]
       /\ \A n \in 1 .. 4 : l[11 + n] = c[n]
       /\ \A n \in 1 .. 4 : l[15 + n] = d[n]
       /\ \A n \in 1 .. 6 : l[19 + n] = o[n]
       /\ Len(l) = 25
  <2>1. \A n \in 1 .. 11 : l[n] = g[n]
    BY <1>6, <1>7, <1>8, <1>10 DEF JoinedAs
  <2>2. \A n \in 1 .. 4 : l[11 + n] = c[n]
    BY <1>6, <1>7, <1>8, <1>10 DEF JoinedAs
  <2>3. \A n \in 1 .. 4 : l[15 + n] = d[n]
    BY <1>7, <1>8, <1>10 DEF JoinedAs
  <2>4. (\A n \in 1 .. 6 : l[19 + n] = o[n]) /\ Len(l) = 25
    BY <1>8 DEF JoinedAs
  <2> QED
    BY <2>1, <2>2, <2>3, <2>4
<1> QED
  BY <1>9, <1>11 DEF g, c, d, o

\* The first test that holds decides, and there is one.
LEMMA FateIs ==
  ASSUME NEW u, NEW mode
  PROVE  LET l == Translation!Ladder(u, mode)
         IN \E n \in 1 .. 25 :
               /\ l[n].guard /\ \A m \in 1 .. n - 1 : ~l[m].guard
               /\ Translation!Fate(u, mode) = [id |-> u.id, to |-> l[n].to, reason |-> l[n].reason]
<1> DEFINE l == Translation!Ladder(u, mode)
           I == {i \in 1 .. 25 : l[i].guard}
<1>1. Len(l) = 25
  BY LadderIs
<1>2. l[25].guard
  <2>1. l[19 + 6] = Translation!Operators(u)[6]
    BY LadderIs
  <2>2. Translation!Operators(u)[6] = Translation!Lost(TRUE, "unsupported-operator")
    BY DEF Translation!Operators
  <2>3. Translation!Lost(TRUE, "unsupported-operator").guard
    BY DEF Translation!Lost, Translation!Test
  <2>4. 19 + 6 = 25
    OBVIOUS
  <2> HIDE DEF l
  <2> QED
    BY <2>1, <2>2, <2>3, <2>4
<1> HIDE DEF l
<1>3. I \in SUBSET Nat /\ I # {}
  BY <1>2
<1>4. PICK n \in I : \A m \in I : n <= m
  BY <1>3, LeastOfNumbers
<1>5. \A x \in I : (\A m \in I : x <= m) => x = n
  BY <1>3, <1>4
<1>6. Translation!Fate(u, mode) = [id |-> u.id, to |-> l[n].to, reason |-> l[n].reason]
  <2>1. \A s : Translation!SelectInSeq(s, LAMBDA t : t.guard) =
                 LET J == {i \in 1 .. Len(s) : s[i].guard} IN IF J # {} THEN Translation!Min(J) ELSE 0
    BY DEF Translation!SelectInSeq, Translation!SelectInSubSeq
  <2>2. Translation!SelectInSeq(l, LAMBDA t : t.guard) = Translation!Min(I)
    BY <1>1, <1>3, <2>1
  <2>3. Translation!Min(I) = n
    <3> HIDE DEF I
    <3> QED
      BY <1>4, <1>5 DEF Translation!Min
  <2> QED
    BY <2>2, <2>3 DEF Translation!Fate, l
<1>7. n \in 1 .. 25 /\ l[n].guard /\ \A m \in 1 .. n - 1 : ~l[m].guard
  <2>1. n \in 1 .. 25 /\ l[n].guard
    BY <1>4
  <2>2. \A m \in 1 .. n - 1 : m \in 1 .. 25 /\ ~(n <= m)
    BY <2>1
  <2> QED
    BY <1>4, <2>1, <2>2
<1> QED
  BY <1>6, <1>7 DEF l

\* A unit that is to be accounted for is generated or listed.
LEMMA WantedIsAccounted ==
  ASSUME NEW u, NEW mode, Wanted(u)
  PROVE  LET fate == Translation!Fate(u, mode)
         IN fate.id = u.id /\ (fate.to = "generated" \/ Stated(fate.reason))
<1> DEFINE l == Translation!Ladder(u, mode)
<1>1. PICK n \in 1 .. 25 :
         /\ l[n].guard /\ \A m \in 1 .. n - 1 : ~l[m].guard
         /\ Translation!Fate(u, mode) = [id |-> u.id, to |-> l[n].to, reason |-> l[n].reason]
  BY FateIs
<1>2. /\ \A m \in 1 .. 11 : l[m] = Translation!Gates(u, mode)[m]
      /\ \A m \in 1 .. 4 : l[11 + m] = Translation!Chains(u)[m]
      /\ \A m \in 1 .. 4 : l[15 + m] = Translation!Negations(u)[m]
      /\ \A m \in 1 .. 6 : l[19 + m] = Translation!Operators(u)[m]
  BY LadderIs
<1> HIDE DEF l
<1>3. ASSUME n \in 1 .. 11 PROVE Answers(l[n])
  <2>1. n = 4 \/ Answers(l[n])
    BY <1>2, <1>3, GatesAnswer
  <2>2. l[4].guard => l[3].guard
    BY <1>2, GatesAnswer
  <2>3. n # 4
    BY <1>1, <2>2
  <2> QED
    BY <2>1, <2>3
<1>4. ASSUME n \in 12 .. 15 PROVE Answers(l[n])
  <2>1. n - 11 \in 1 .. 4 /\ 11 + (n - 11) = n
    BY <1>4
  <2> QED
    BY <1>2, <2>1, ChainsAnswer
<1>5. ASSUME n \in 16 .. 19 PROVE Answers(l[n])
  <2>1. n - 15 \in 1 .. 4 /\ 15 + (n - 15) = n
    BY <1>5
  <2> QED
    BY <1>2, <2>1, NegationsAnswer
<1>6. ASSUME n \in 20 .. 25 PROVE Answers(l[n])
  <2>1. n - 19 \in 1 .. 6 /\ 19 + (n - 19) = n
    BY <1>6
  <2>2. ~Translation!GivenUp(u)
    BY DEF Wanted
  <2>3. \A m \in 1 .. 6 : Answers(Translation!Operators(u)[m])
    BY <2>2, OperatorsAnswer
  <2> QED
    BY <1>2, <2>1, <2>3
<1>7. n \in 1 .. 11 \/ n \in 12 .. 15 \/ n \in 16 .. 19 \/ n \in 20 .. 25
  OBVIOUS
<1>8. l[n].to = "generated" \/ Stated(l[n].reason)
  BY <1>1, <1>3, <1>4, <1>5, <1>6, <1>7 DEF Answers
<1>9. Translation!Fate(u, mode) = [id |-> u.id, to |-> l[n].to, reason |-> l[n].reason]
  BY <1>1
<1> QED
  BY <1>8, <1>9


-----------------------------------------------------------------------------
(* From the text to the generated rules *)

\* The rules, once they are read, are statements of the text.
TextIsRead == tool = "rules" => text \in Seq(Items) /\ (stage # "read" => Read)

LEMMA ReadingStarts == TablesInit => TextIsRead
BY DEF TablesInit, Translation!Init, TextIsRead

\* Once the text is read no step changes it or the rules.
LEMMA RulesStay ==
  ASSUME tool' = "rules", [TablesNext]_tableVars, ~Translation!Write, ~Translation!Parse
  PROVE  /\ tool = "rules" /\ text' = text /\ rules' = rules
         /\ stage' = stage \/ (stage \in {"translate", "audit"} /\ stage' \in {"audit", "done"})
<1>1. CASE UNCHANGED tableVars
  BY <1>1 DEF tableVars, textOnly
<1>2. CASE tool = "rules" /\ Translation!Next
  BY <1>2 DEF Translation!Next, Translation!Group, Translation!Skip, Translation!Generate, Translation!Finish,
              Translation!Follow, Translation!Audit
<1> QED
  BY <1>1, <1>2 DEF TablesNext

LEMMA ReadingContinues ==
  ASSUME TextIsRead, [TablesNext]_tableVars
  PROVE  TextIsRead'
<1> SUFFICES ASSUME tool' = "rules" PROVE TextIsRead'
  BY DEF TextIsRead
<1>1. tool = "rules"
  BY DEF TablesNext, tableVars
<1>2. text \in Seq(Items)
  BY <1>1 DEF TextIsRead
<1>3. CASE Translation!Write
  <2>1. PICK statement \in Statements : text' = text \o statement
    BY <1>3 DEF Translation!Write
  <2>2. text' \in Seq(Items)
    BY <1>2, <2>1, WrittenText
  <2>3. stage' = "read"
    BY <1>3 DEF Translation!Write
  <2> QED
    BY <2>2, <2>3 DEF TextIsRead
<1>4. CASE Translation!Parse
  <2> DEFINE statements == Translation!Split(text)
  <2>1. rules' = [k \in DOMAIN statements |-> Translation!ParseStatement(statements[k])] /\ text' = text
    BY <1>4 DEF Translation!Parse
  <2>2. statements \in Seq(Seq(Items))
    BY <1>2, StatementsOfText
  <2> HIDE DEF statements
  <2>3. \A k \in DOMAIN statements : Translation!ParseStatement(statements[k]) \in RuleSet
    BY <2>2 DEF RuleSet
  <2>4. rules' \in Seq(RuleSet)
    <3>1. Len(statements) \in Nat /\ DOMAIN statements = 1 .. Len(statements)
      BY <2>2
    <3> QED
      BY <2>1, <2>3, <3>1
  <2> QED
    BY <1>2, <2>1, <2>4 DEF TextIsRead, Read
<1>5. CASE ~Translation!Write /\ ~Translation!Parse
  <2>1. text' = text /\ rules' = rules /\ (stage' # "read" => stage # "read")
    BY <1>5, RulesStay
  <2>2. stage # "read" => Read
    BY <1>1 DEF TextIsRead
  <2> QED
    BY <1>2, <2>1, <2>2 DEF TextIsRead, Read
<1> QED
  BY <1>3, <1>4, <1>5

THEOREM TextsAreRead == TablesSpec => []TextIsRead
<1> QED
  BY ReadingStarts, ReadingContinues, PTL DEF TablesSpec

\* What is read off the rules does not change while they do not.
LEMMA SameRules ==
  ASSUME rules' = rules
  PROVE  /\ Translation!Starts' = Translation!Starts
         /\ \A k : /\ Translation!Unit(k)' = Translation!Unit(k)
                   /\ Translation!ScoresAt(k)' <=> Translation!ScoresAt(k)
         /\ \A k, j : Translation!Reaches(k, j)' <=> Translation!Reaches(k, j)
         /\ \A k, score : Charged(k, score)' <=> Charged(k, score)
<1>1. Translation!Starts' = Translation!Starts
  BY DEF Translation!Starts
<1>2. \A k, j : Translation!Reaches(k, j)' <=> Translation!Reaches(k, j)
  BY DEF Translation!Reaches
<1>3. \A k : Translation!ScoresAt(k)' <=> Translation!ScoresAt(k)
  BY <1>2 DEF Translation!ScoresAt
<1>4. \A k : Translation!ChainEnd(k)' = Translation!ChainEnd(k)
  BY DEF Translation!ChainEnd
<1>5. \A k : Translation!Unit(k)' = Translation!Unit(k)
  BY <1>4 DEF Translation!Unit
<1>6. \A k, score : Charged(k, score)' <=> Charged(k, score)
  BY <1>2, <1>3 DEF Charged
<1> QED
  BY <1>1, <1>2, <1>3, <1>5, <1>6

LEMMA NextPlace ==
  ASSUME NEW x \in Nat, NEW l \in Nat, x <= l, x >= 1
  PROVE  x + 1 \in Nat /\ (x + 1) - 1 = x /\ (x = l \/ x + 1 \in 1 .. l)
<1>1. x + 1 \in Nat /\ (x + 1) - 1 = x
  OBVIOUS
<1>2. x = l \/ x + 1 \in 1 .. l
  OBVIOUS
<1> QED
  BY <1>1, <1>2

\* The unit after one starts behind its end.
LEMMA NextUnit ==
  ASSUME Read, NEW k \in Translation!Starts
  PROVE  LET n == IF rules[k].chain THEN Translation!ChainEnd(k) + 1 ELSE k + 1
         IN /\ n \in Nat /\ n \in Translation!Starts \cup {Len(rules) + 1}
            /\ \A j \in Translation!Starts : j < n => j < k \/ j = k
<1> DEFINE e == Translation!ChainEnd(k)
<1>1. k \in DOMAIN rules
  BY DEF Translation!Starts
<1>2. /\ Len(rules) \in Nat /\ DOMAIN rules = 1 .. Len(rules)
      /\ k \in Nat /\ k >= 1 /\ e \in Nat /\ k <= e /\ e <= Len(rules)
  BY <1>1, RulesAre, ChainEndIs
<1>3. e \in k .. Len(rules) /\ (\A i \in k .. e - 1 : rules[i].chain) /\ (e = Len(rules) \/ ~rules[e].chain)
  BY <1>1, ChainEndIs
<1> HIDE DEF e
<1>4. ~rules[k].chain => e = k
  <2>1. e # k => k \in k .. e - 1
    BY <1>2
  <2> QED
    BY <1>3, <2>1
<1>5. e + 1 \in Nat /\ (e + 1 \in Translation!Starts \/ e + 1 = Len(rules) + 1)
  <2>1. e + 1 \in Nat /\ (e + 1) - 1 = e /\ (e = Len(rules) \/ e + 1 \in DOMAIN rules)
    <3>1. e >= 1
      BY <1>2
    <3> QED
      BY <1>2, <3>1, NextPlace
  <2>2. e # Len(rules) => e + 1 \in Translation!Starts
    BY <1>3, <2>1, Zenon DEF Translation!Starts
  <2> QED
    BY <2>1, <2>2, Zenon
<1>6. \A j \in Translation!Starts : j < e + 1 => j < k \/ j = k
  <2> SUFFICES ASSUME NEW j \in Translation!Starts, j < e + 1, ~(j < k), j # k PROVE FALSE
    OBVIOUS
  <2>1. j \in DOMAIN rules /\ (j = 1 \/ ~rules[j - 1].chain)
    BY DEF Translation!Starts
  <2>2. j # 1 /\ j - 1 \in k .. e - 1
    <3>1. j \in Nat /\ k < j
      BY <1>2, <2>1
    <3> QED
      BY <1>2, <3>1
  <2> QED
    BY <1>3, <2>1, <2>2
<1> QED
  BY <1>4, <1>5, <1>6 DEF e


\* A scoring rule or chain that is to be accounted for, and that is.
Due(k) ==
  LET r == rules[k]
  IN Translation!ScoresAt(k) /\ r.kind = "SecRule" /\ r.operator # "" /\ r.phase \in {1, 2} /\ ~(r.paranoia > PL)
     /\ ~r.gating /\ ~Translation!GivenUp(r)
Generates(id) == \E n \in DOMAIN detection : detection[n].id = id
Listed(id) == \E u \in unsupported : u.id = id
Settled(k) == Due(k) => \/ rules[k].id \in Translation!RUNTIME_COVERED_IDS
                        \/ Generates(rules[k].id) \/ Listed(rules[k].id)
InWork(k) == \E n \in DOMAIN units : units[n] = Translation!Unit(k)

UnitSet == {Translation!Unit(k) : k \in Translation!Starts}
GeneratedSet == {Translation!Generated(u) : u \in UnitSet}

\* The loops over the units: a unit passed is settled or still to be classified,
\* and what is generated is generated from a unit.
NothingIsBegun == next = 1 /\ units = <<>> /\ detection = <<>>
UnitsAreSettled ==
  /\ next \in Nat /\ next \in Translation!Starts \cup {Len(rules) + 1}
  /\ units \in Seq(UnitSet)
  /\ \A k \in Translation!Starts : k < next => Settled(k) \/ InWork(k)

UnitsAreAnswered ==
  tool = "rules" =>
    /\ stage \in {"read", "translate", "audit", "done"}
    /\ stage = "read" => NothingIsBegun
    /\ stage = "translate" => UnitsAreSettled
    /\ stage # "read" => detection \in Seq(GeneratedSet)
    /\ Translation!Translated => \A k \in Translation!Starts : Settled(k)

LEMMA AnswersStart == TablesInit => UnitsAreAnswered
BY DEF TablesInit, Translation!Init, UnitsAreAnswered, NothingIsBegun, Translation!Translated

\* What is settled stays settled, as long as nothing is taken back.
LEMMA SettledStays ==
  ASSUME rules' = rules, \A id : Generates(id) => Generates(id)', \A id : Listed(id) => Listed(id)'
  PROVE  /\ UnitSet' = UnitSet /\ GeneratedSet' = GeneratedSet /\ Translation!Starts' = Translation!Starts
         /\ \A k : (Due(k)' <=> Due(k)) /\ (Settled(k) => Settled(k)')
<1>1. /\ Translation!Starts' = Translation!Starts
      /\ \A k : Translation!Unit(k)' = Translation!Unit(k) /\ (Translation!ScoresAt(k)' <=> Translation!ScoresAt(k))
  BY SameRules
<1>2. UnitSet' = UnitSet
  BY <1>1 DEF UnitSet
<1>3. GeneratedSet' = GeneratedSet
  BY <1>2 DEF GeneratedSet
<1>4. ASSUME NEW k PROVE (Due(k)' <=> Due(k)) /\ (Settled(k) => Settled(k)')
  <2>1. Due(k)' <=> Due(k)
    BY <1>1, Zenon DEF Due
  <2> QED
    BY <2>1, Zenon DEF Settled
<1> QED
  BY <1>1, <1>2, <1>3, <1>4

\* A unit that is to be accounted for settles what it stands for.
LEMMA DueIsWanted ==
  ASSUME Read, NEW k \in Translation!Starts, Due(k)
  PROVE  /\ Translation!Unit(k).id = rules[k].id
         /\ rules[k].id \in Translation!RUNTIME_COVERED_IDS \/ Wanted(Translation!Unit(k))
<1>1. k \in DOMAIN rules
  BY DEF Translation!Starts
<1> DEFINE u == Translation!Unit(k)
           r == rules[k]
<1>2. SameRule(u, r) /\ (Translation!ScoresAt(k) => Translation!chain_is_score_bearing(u))
  BY <1>1, UnitIs
<1> HIDE DEF u
<1>3. Translation!GivenUp(u) <=> Translation!GivenUp(r)
  BY <1>2 DEF SameRule, Translation!GivenUp
<1> QED
  BY <1>2, <1>3, Zenon DEF Due, SameRule, Wanted, u


LEMMA GroupAnswers ==
  ASSUME tool = "rules", Read, UnitsAreSettled, Translation!Group
  PROVE  UnitsAreSettled'
<1>1. /\ rules' = rules /\ units' = Append(units, Translation!Unit(next)) /\ next <= Len(rules)
      /\ next' = IF rules[next].chain THEN Translation!ChainEnd(next) + 1 ELSE next + 1
      /\ detection' = detection /\ unsupported' = unsupported
  BY DEF Translation!Group, Translation!outcome
<1>2. next \in Translation!Starts
  BY <1>1, RulesAre DEF UnitsAreSettled
<1>3. /\ next' \in Nat /\ next' \in Translation!Starts \cup {Len(rules) + 1}
      /\ \A j \in Translation!Starts : j < next' => j < next \/ j = next
  BY <1>1, <1>2, NextUnit
<1>4. /\ UnitSet' = UnitSet /\ Translation!Starts' = Translation!Starts /\ (\A k : Settled(k) => Settled(k)')
      /\ \A k : Translation!Unit(k)' = Translation!Unit(k)
  BY <1>1, SettledStays, SameRules DEF Generates, Listed
<1>5. units \in Seq(UnitSet) /\ Translation!Unit(next) \in UnitSet
  BY <1>2 DEF UnitsAreSettled, UnitSet
<1>6. /\ units' \in Seq(UnitSet) /\ DOMAIN units' = 1 .. Len(units) + 1 /\ Len(units) \in Nat
      /\ DOMAIN units = 1 .. Len(units)
      /\ (\A n \in DOMAIN units : units'[n] = units[n]) /\ units'[Len(units) + 1] = Translation!Unit(next)
  BY <1>1, <1>5
<1>7. \A k : InWork(k) => InWork(k)'
  BY <1>4, <1>6 DEF InWork
<1>8. ASSUME NEW k, k = next PROVE InWork(k)'
  <2>1. Len(units) + 1 \in DOMAIN units'
    BY <1>6
  <2>2. units'[Len(units) + 1] = Translation!Unit(k)'
    BY <1>4, <1>6, <1>8
  <2> QED
    BY <2>1, <2>2 DEF InWork
<1>9. ASSUME NEW k \in Translation!Starts, k < next' PROVE Settled(k)' \/ InWork(k)'
  <2>1. k < next \/ k = next
    BY <1>3, <1>9
  <2>2. k < next => Settled(k) \/ InWork(k)
    BY DEF UnitsAreSettled
  <2> QED
    BY <1>4, <1>7, <1>8, <2>1, <2>2
<1> QED
  BY <1>1, <1>3, <1>4, <1>6, <1>9 DEF UnitsAreSettled

\* A unit in work is the first one, or among the others.
LEMMA FirstInWork ==
  ASSUME units \in Seq(UnitSet), units # <<>>, units' = Tail(units), rules' = rules
  PROVE  /\ units' \in Seq(UnitSet) /\ Head(units) \in UnitSet
         /\ \A k : InWork(k) => InWork(k)' \/ Translation!Unit(k) = Head(units)
<1>1. Len(units) \in Nat /\ Len(units) >= 1 /\ DOMAIN units = 1 .. Len(units) /\ Head(units) = units[1]
  OBVIOUS
<1>2. /\ units' \in Seq(UnitSet) /\ DOMAIN units' = 1 .. Len(units) - 1
      /\ \A n \in 1 .. Len(units) - 1 : units'[n] = units[n + 1]
  OBVIOUS
<1>3. Head(units) \in UnitSet
  BY <1>1
<1>4. ASSUME NEW k, NEW n \in DOMAIN units, units[n] = Translation!Unit(k), n # 1
      PROVE  InWork(k)'
  <2>1. n - 1 \in 1 .. Len(units) - 1 /\ (n - 1) + 1 = n
    BY <1>1, <1>4
  <2>2. n - 1 \in DOMAIN units' /\ units'[n - 1] = units[n]
    BY <1>2, <2>1
  <2>3. units'[n - 1] = Translation!Unit(k)'
    BY <1>4, <2>2, SameRules
  <2> QED
    BY <2>2, <2>3 DEF InWork
<1> QED
  BY <1>1, <1>2, <1>3, <1>4 DEF InWork

\* The first unit leaves the work once it is settled.
LEMMA FirstIsSettled ==
  ASSUME Read, UnitsAreSettled, units # <<>>, units' = Tail(units), rules' = rules, next' = next,
         \A id : Generates(id) => Generates(id)', \A id : Listed(id) => Listed(id)',
         \A k \in Translation!Starts :
            Translation!Unit(k) = Head(units) /\ Due(k) =>
               \/ rules[k].id \in Translation!RUNTIME_COVERED_IDS
               \/ Generates(rules[k].id)' \/ Listed(rules[k].id)'
  PROVE  UnitsAreSettled'
<1>1. /\ UnitSet' = UnitSet /\ Translation!Starts' = Translation!Starts
      /\ \A k : (Due(k)' <=> Due(k)) /\ (Settled(k) => Settled(k)')
  BY SettledStays
<1>2. /\ units' \in Seq(UnitSet)
      /\ \A k : InWork(k) => InWork(k)' \/ Translation!Unit(k) = Head(units)
  BY FirstInWork DEF UnitsAreSettled
<1>3. ASSUME NEW k \in Translation!Starts, Translation!Unit(k) = Head(units) PROVE Settled(k)'
  BY <1>1, <1>3, Zenon DEF Settled
<1>4. \A k \in Translation!Starts : k < next => Settled(k)' \/ InWork(k)'
  BY <1>1, <1>2, <1>3 DEF UnitsAreSettled
<1> QED
  BY <1>1, <1>2, <1>4 DEF UnitsAreSettled

LEMMA SkipAnswers ==
  ASSUME tool = "rules", Read, UnitsAreSettled, detection \in Seq(GeneratedSet), Translation!Skip
  PROVE  UnitsAreSettled' /\ (detection \in Seq(GeneratedSet))'
<1> DEFINE u == Head(units)
           fate == Translation!Fate(u, Translation!RuleMode(rules))
<1>1. /\ rules' = rules /\ next' = next /\ units' = Tail(units) /\ units # <<>> /\ detection' = detection
  BY DEF Translation!Skip
<1>2. /\ fate.to # "generated"
      /\ unsupported' = unsupported \cup {[id |-> fate.id, reason |-> r] : r \in {fate.reason} \ {""}}
  BY DEF Translation!Skip
<1>3. Stated(fate.reason) => fate.reason \in {fate.reason} \ {""}
  BY Zenon DEF Stated
<1> HIDE DEF fate
<1>4. Stated(fate.reason) => [id |-> fate.id, reason |-> fate.reason] \in unsupported'
  BY <1>2, <1>3, Zenon
<1>5. (\A id : Generates(id) => Generates(id)') /\ (\A id : Listed(id) => Listed(id)')
  <2>1. unsupported \subseteq unsupported'
    BY <1>2, Zenon
  <2> QED
    BY <1>1, <2>1 DEF Generates, Listed
<1>6. ASSUME NEW k \in Translation!Starts, Translation!Unit(k) = u, Due(k), Wanted(u)
      PROVE  Listed(rules[k].id)'
  <2>1. fate.id = u.id /\ Stated(fate.reason)
    BY <1>2, <1>6, WantedIsAccounted DEF fate
  <2>2. fate.id = rules[k].id
    BY <1>6, <2>1, DueIsWanted
  <2>3. [id |-> fate.id, reason |-> fate.reason].id = fate.id
    OBVIOUS
  <2>4. \E e \in unsupported' : e.id = rules[k].id
    BY <1>4, <2>1, <2>2, <2>3
  <2> QED
    BY <1>1, <2>4 DEF Listed
<1>7. UnitsAreSettled'
  <2>1. ASSUME NEW k \in Translation!Starts, Translation!Unit(k) = u, Due(k)
        PROVE  \/ rules[k].id \in Translation!RUNTIME_COVERED_IDS \/ Listed(rules[k].id)'
    BY <1>6, <2>1, DueIsWanted
  <2> QED
    BY <1>1, <1>5, <2>1, FirstIsSettled
<1>8. GeneratedSet' = GeneratedSet
  BY <1>1, <1>5, SettledStays
<1> QED
  BY <1>1, <1>7, <1>8

LEMMA GenerateAnswers ==
  ASSUME tool = "rules", Read, UnitsAreSettled, detection \in Seq(GeneratedSet), Translation!Generate
  PROVE  UnitsAreSettled' /\ (detection \in Seq(GeneratedSet))'
<1> DEFINE u == Head(units)
           g == Translation!Generated(u)
<1>1. /\ rules' = rules /\ next' = next /\ units' = Tail(units) /\ units # <<>> /\ unsupported' = unsupported
      /\ detection' = Append(detection, g)
  BY DEF Translation!Generate
<1>2. u \in UnitSet
  BY <1>1, FirstInWork DEF UnitsAreSettled
<1>3. g \in GeneratedSet /\ g.id = u.id
  BY <1>2 DEF GeneratedSet, Translation!Generated
<1> HIDE DEF u, g
<1>4. /\ detection' \in Seq(GeneratedSet) /\ DOMAIN detection' = 1 .. Len(detection) + 1 /\ Len(detection) \in Nat
      /\ DOMAIN detection = 1 .. Len(detection)
      /\ (\A n \in DOMAIN detection : detection'[n] = detection[n]) /\ detection'[Len(detection) + 1] = g
  BY <1>1, <1>3
<1>5. (\A id : Generates(id) => Generates(id)') /\ (\A id : Listed(id) => Listed(id)')
  BY <1>1, <1>4 DEF Generates, Listed
<1>6. ASSUME NEW id, id = u.id PROVE Generates(id)'
  <2>1. Len(detection) + 1 \in DOMAIN detection'
    BY <1>4
  <2> QED
    BY <1>3, <1>4, <1>6, <2>1 DEF Generates
<1>7. ASSUME NEW k \in Translation!Starts, Translation!Unit(k) = u, Due(k)
      PROVE  Generates(rules[k].id)'
  <2>1. rules[k].id = u.id
    BY <1>7, DueIsWanted
  <2> QED
    BY <1>1, <1>6, <2>1
<1>8. UnitsAreSettled'
  BY <1>1, <1>5, <1>7, FirstIsSettled DEF u
<1>9. GeneratedSet' = GeneratedSet
  BY <1>1, <1>5, SettledStays
<1> QED
  BY <1>4, <1>8, <1>9


\* Every unit is settled when the loop has run over all of them, and what drops
\* out of the list of generated rules is repeated or counts parameters.
LEMMA FinishAnswers ==
  ASSUME tool = "rules", Read, UnitsAreSettled, detection \in Seq(GeneratedSet), Translation!Finish
  PROVE  /\ (detection \in Seq(GeneratedSet))'
         /\ \A k \in Translation!Starts' : Settled(k)'
<1>1. /\ rules' = rules /\ next > Len(rules) /\ units = <<>> /\ detection' = Final(detection)
  BY SameLists DEF Translation!Finish
<1>2. unsupported \subseteq unsupported'
  BY DEF Translation!Finish
<1>3. /\ UnitSet' = UnitSet /\ GeneratedSet' = GeneratedSet /\ Translation!Starts' = Translation!Starts
      /\ \A k : Translation!ScoresAt(k)' <=> Translation!ScoresAt(k)
  <2>1. /\ Translation!Starts' = Translation!Starts
        /\ \A k : Translation!Unit(k)' = Translation!Unit(k) /\ (Translation!ScoresAt(k)' <=> Translation!ScoresAt(k))
    BY <1>1, SameRules
  <2>2. UnitSet' = UnitSet
    BY <2>1 DEF UnitSet
  <2> QED
    BY <2>1, <2>2 DEF GeneratedSet
<1>4. detection' \in Seq(GeneratedSet)
  BY <1>1, FinalKeeps
<1>5. \A k : Due(k)' <=> Due(k)
  BY <1>1, <1>3, Zenon DEF Due
<1>6. ASSUME NEW k \in Translation!Starts, Due(k) PROVE Settled(k)'
  <2>1. ~InWork(k)
    BY <1>1 DEF InWork
  <2>2. k < next
    BY <1>1, RulesAre DEF UnitsAreSettled, Translation!Starts
  <2>3. Settled(k)
    BY <2>1, <2>2 DEF UnitsAreSettled
  <2>4. rules[k].id \notin HPP_SKIP
    <3>1. ~Translation!GivenUp(rules[k])
      BY <1>6, Zenon DEF Due
    <3>2. rules[k].id \in Translation!HPP_SKIP => Translation!GivenUp(rules[k])
      BY DEF Translation!GivenUp
    <3> QED
      BY <3>1, <3>2 DEF Translation!HPP_SKIP, HPP_SKIP
  <2>5. ASSUME NEW id, id \notin HPP_SKIP, Generates(id) PROVE Generates(id)'
    <3>1. PICK n \in DOMAIN detection : detection[n].id = id
      BY <2>5 DEF Generates
    <3>2. \E m \in DOMAIN Final(detection) : Final(detection)[m].id = detection[n].id
      BY <2>5, <3>1, FinalKeeps
    <3> QED
      BY <1>1, <3>1, <3>2 DEF Generates
  <2>6. \A id : Listed(id) => Listed(id)'
    BY <1>2 DEF Listed
  <2> QED
    BY <1>1, <1>6, <2>3, <2>4, <2>5, <2>6 DEF Settled
<1>7. \A k \in Translation!Starts : Settled(k)'
  BY <1>5, <1>6, Zenon DEF Settled
<1> QED
  BY <1>3, <1>4, <1>7

LEMMA AnswersContinue ==
  ASSUME TextIsRead, UnitsAreAnswered, TextIsRead', [TablesNext]_tableVars
  PROVE  UnitsAreAnswered'
<1> SUFFICES ASSUME tool' = "rules" PROVE UnitsAreAnswered'
  BY DEF UnitsAreAnswered
<1>1. tool = "rules"
  BY DEF TablesNext, tableVars
<1>2. /\ stage # "read" => Read /\ detection \in Seq(GeneratedSet)
      /\ stage = "read" => NothingIsBegun
      /\ stage = "translate" => UnitsAreSettled
      /\ stage \in {"audit", "done"} => \A k \in Translation!Starts : Settled(k)
      /\ stage \in {"read", "translate", "audit", "done"}
  BY <1>1 DEF TextIsRead, UnitsAreAnswered, Translation!Translated
<1>3. CASE Translation!Write
  <2>1. stage' = "read" /\ stage = "read" /\ next' = next /\ units' = units /\ detection' = detection
    BY <1>3 DEF Translation!Write, Translation!outcome
  <2>2. NothingIsBegun'
    BY <1>2, <2>1 DEF NothingIsBegun
  <2> QED
    BY <2>1, <2>2 DEF UnitsAreAnswered, Translation!Translated
<1>4. CASE Translation!Parse
  <2>1. stage' = "translate" /\ stage = "read" /\ next' = next /\ units' = units /\ detection' = detection
    BY <1>4 DEF Translation!Parse, Translation!outcome
  <2>2. next' = 1 /\ units' = <<>> /\ detection' = <<>>
    BY <1>2, <2>1 DEF NothingIsBegun
  <2>3. Read'
    BY <2>1 DEF TextIsRead
  <2>4. (units \in Seq(UnitSet))' /\ (detection \in Seq(GeneratedSet))'
    BY <2>2
  <2>5. /\ Len(rules') \in Nat /\ DOMAIN rules' = 1 .. Len(rules')
        /\ (next \in Translation!Starts \cup {Len(rules) + 1})'
        /\ \A k \in Translation!Starts' : ~(k < next')
    <3>1. Len(rules') \in Nat /\ DOMAIN rules' = 1 .. Len(rules')
      BY <2>3 DEF Read
    <3>2. Len(rules') = 0 => 1 = Len(rules') + 1
      OBVIOUS
    <3>3. Len(rules') # 0 => 1 \in DOMAIN rules'
      BY <3>1
    <3>4. Translation!Starts' = {k \in DOMAIN rules' : k = 1 \/ ~rules'[k - 1].chain}
      BY DEF Translation!Starts
    <3>5. 1 \in Translation!Starts' \/ 1 = Len(rules') + 1
      BY <3>2, <3>3, <3>4
    <3>6. \A k \in Translation!Starts' : ~(k < 1)
      BY <3>1, <3>4
    <3> QED
      BY <2>2, <3>1, <3>5, <3>6
  <2>6. UnitsAreSettled'
    BY <2>2, <2>4, <2>5 DEF UnitsAreSettled
  <2> QED
    BY <2>1, <2>4, <2>6 DEF UnitsAreAnswered, Translation!Translated
<1>5. CASE Translation!Group
  <2>1. stage' = "translate" /\ stage = "translate" /\ rules' = rules /\ detection' = detection
        /\ unsupported' = unsupported
    BY <1>5 DEF Translation!Group, Translation!outcome
  <2>2. UnitsAreSettled' /\ GeneratedSet' = GeneratedSet
    BY <1>1, <1>2, <1>5, <2>1, GroupAnswers, SettledStays DEF Generates, Listed
  <2> QED
    BY <1>2, <2>1, <2>2 DEF UnitsAreAnswered, Translation!Translated
<1>6. CASE Translation!Skip
  <2>1. stage' = "translate" /\ stage = "translate"
    BY <1>6 DEF Translation!Skip
  <2>2. UnitsAreSettled' /\ (detection \in Seq(GeneratedSet))'
    BY <1>1, <1>2, <1>6, <2>1, SkipAnswers
  <2> QED
    BY <2>1, <2>2 DEF UnitsAreAnswered, Translation!Translated
<1>7. CASE Translation!Generate
  <2>1. stage' = "translate" /\ stage = "translate"
    BY <1>7 DEF Translation!Generate
  <2>2. UnitsAreSettled' /\ (detection \in Seq(GeneratedSet))'
    BY <1>1, <1>2, <1>7, <2>1, GenerateAnswers
  <2> QED
    BY <2>1, <2>2 DEF UnitsAreAnswered, Translation!Translated
<1>8. CASE Translation!Finish
  <2>1. stage' = "audit" /\ stage = "translate"
    BY <1>8 DEF Translation!Finish
  <2>2. (detection \in Seq(GeneratedSet))' /\ \A k \in Translation!Starts' : Settled(k)'
    BY <1>1, <1>2, <1>8, <2>1, FinishAnswers
  <2> QED
    BY <2>1, <2>2 DEF UnitsAreAnswered
<1>9. CASE Translation!Follow \/ Translation!Audit \/ UNCHANGED tableVars
  <2>1. /\ rules' = rules /\ detection' = detection /\ unsupported' = unsupported
        /\ stage' # stage => stage = "audit" /\ stage' = "done"
        /\ stage' = stage => stage = "audit" \/ (next' = next /\ units' = units)
    BY <1>9 DEF Translation!Follow, Translation!Audit, Translation!outcome, tableVars, textOnly
  <2>2. /\ UnitSet' = UnitSet /\ GeneratedSet' = GeneratedSet /\ Translation!Starts' = Translation!Starts
        /\ \A k : Settled(k) => Settled(k)'
    BY <2>1, SettledStays DEF Generates, Listed
  <2>3. CASE stage \in {"audit", "done"}
    <3>1. stage' \in {"audit", "done"}
      BY <2>1, <2>3
    <3> QED
      BY <1>2, <2>1, <2>2, <2>3, <3>1 DEF UnitsAreAnswered
  <2>4. CASE stage = "read"
    <3>1. stage' = "read" /\ NothingIsBegun'
      BY <1>2, <2>1, <2>4 DEF NothingIsBegun
    <3> QED
      BY <3>1 DEF UnitsAreAnswered, Translation!Translated
  <2>5. CASE stage = "translate"
    <3>1. stage' = "translate" /\ next' = next /\ units' = units
      BY <2>1, <2>5
    <3>2. \A k : InWork(k) => InWork(k)'
      BY <2>1, <3>1, SameRules DEF InWork
    <3>3. UnitsAreSettled'
      BY <1>2, <2>1, <2>2, <2>5, <3>1, <3>2 DEF UnitsAreSettled
    <3> QED
      BY <1>2, <2>1, <2>2, <2>5, <3>1, <3>3 DEF UnitsAreAnswered, Translation!Translated
  <2> QED
    BY <1>2, <2>3, <2>4, <2>5
<1> QED
  BY <1>1, <1>3, <1>4, <1>5, <1>6, <1>7, <1>8, <1>9 DEF TablesNext, Translation!Next

THEOREM UnitsAreAnsweredAlways == TablesSpec => []UnitsAreAnswered
<1> QED
  BY TextsAreRead, AnswersStart, AnswersContinue, PTL DEF TablesSpec


\* sidecar_translator.py, group_rule_chains and the loop of main: a score-bearing
\* rule or chain of the phases and levels compiled is generated, left to the
\* runtime or in unsupported_rules, wherever in the chain its score is, unless it
\* is gating or one that GivenUp names: phrase data missing or empty, an @rx
\* emitter that raises, HPP_SKIP.  Those the code does lose (7884-7906, 7941-7947).
THEOREM NoScoringRuleIsLost == TablesSpec => []ScoringRulesAreAccounted
<1>1. UnitsAreAnswered => ScoringRulesAreAccounted
  <2> SUFFICES ASSUME UnitsAreAnswered, tool = "rules", Translation!Translated, NEW k \in Translation!Starts, Due(k)
               PROVE  \/ rules[k].id \in Translation!RUNTIME_COVERED_IDS
                      \/ \E g \in Translation!ToSet(detection) : g.id = rules[k].id
                      \/ \E u \in unsupported : u.id = rules[k].id
    BY Zenon DEF ScoringRulesAreAccounted, Translation!ScoringRulesAreAccounted, Due
  <2>1. Settled(k)
    BY DEF UnitsAreAnswered
  <2>2. \A n \in DOMAIN detection : detection[n] \in Translation!ToSet(detection)
    BY DEF Translation!ToSet
  <2> QED
    BY <2>1, <2>2 DEF Settled, Generates, Listed
<1> QED
  BY <1>1, UnitsAreAnsweredAlways, PTL

\* sidecar_translator.py, group_rule_chains and the emission of rules: a generated
\* rule charges the points of the first scoring statement of its chain, in its own
\* score or in that of its transaction descriptor.
THEOREM RulesChargeOnce == TablesSpec => []ChargedOnce
<1>1. TextIsRead /\ UnitsAreAnswered => ChargedOnce
  <2> SUFFICES ASSUME TextIsRead, UnitsAreAnswered, tool = "rules", Translation!Translated,
                      NEW g \in Translation!ToSet(detection)
               PROVE  \E k \in Translation!Starts :
                         /\ rules[k].id = g.id
                         /\ \E j \in DOMAIN rules :
                               /\ Translation!Reaches(k, j)
                               /\ rules[j].scoring \/ (j = k /\ ~Translation!ScoresAt(k))
                               /\ \A i \in k .. (j - 1) : ~rules[i].scoring
                               /\ \/ g.score = rules[j].score /\ g.transactionScore = Translation!NoScore
                                  \/ g.score = 0 /\ g.transactionScore = rules[j].score
    BY DEF ChargedOnce, Translation!ChargedOnce
  <2>1. Read /\ detection \in Seq(GeneratedSet)
    BY DEF TextIsRead, UnitsAreAnswered, Translation!Translated
  <2>2. g \in GeneratedSet
    BY <2>1 DEF Translation!ToSet
  <2>3. PICK k \in Translation!Starts : g = Translation!Generated(Translation!Unit(k))
    BY <2>2 DEF GeneratedSet, UnitSet
  <2> DEFINE u == Translation!Unit(k)
  <2>4. SameRule(u, rules[k]) /\ Charged(k, u.score)
    BY <2>1, UnitIs DEF Translation!Starts
  <2>5. /\ g.id = u.id
        /\ \/ g.score = u.score /\ g.transactionScore = Translation!NoScore
           \/ g.score = 0 /\ g.transactionScore = u.score
    <3> HIDE DEF u
    <3>1. g = Translation!Generated(u)
      BY <2>3 DEF u
    <3> QED
      BY <3>1 DEF Translation!Generated
  <2>6. PICK j \in DOMAIN rules :
           /\ Translation!Reaches(k, j)
           /\ rules[j].scoring \/ (j = k /\ ~Translation!ScoresAt(k))
           /\ \A i \in k .. (j - 1) : ~rules[i].scoring
           /\ u.score = rules[j].score
    BY <2>4 DEF Charged
  <2>7. rules[k].id = g.id
    BY <2>4, <2>5 DEF SameRule
  <2> HIDE DEF u
  <2> QED
    BY <2>5, <2>6, <2>7
<1> QED
  BY <1>1, TextsAreRead, UnitsAreAnsweredAlways, PTL

-----------------------------------------------------------------------------
(* Controls *)

\* Controls by id: those a list of rules gets reach what their statements name,
\* and a statement that names rules has a control or an entry.
LEMMA IdControls ==
  ASSUME NEW parsed, NEW final
  PROVE  LET byId == Translation!collect_rule_removal_controls(parsed, final)
         IN /\ \A c \in byId.controls :
                  \E r \in Translation!ToSet(parsed) :
                     r.id = c.source /\ c.targets = Translation!Positions(final, r.removes)
            /\ \A r \in Translation!ToSet(parsed) :
                  r.removes # {} \/ r.dynamic =>
                     \/ \E c \in byId.controls : c.source = r.id
                     \/ \E u \in byId.unsupported : u.id = r.id
<1> DEFINE named == {r \in Translation!ToSet(parsed) : r.dynamic \/ r.removes # {}}
           kept == {r \in named : Translation!Removal(r) /\ Translation!RemovalControl(r, final).targets # {}}
           Missed(r) == {t \in r.removes : Translation!Positions(final, {t}) = {}}
           controls == {Translation!RemovalControl(r, final) : r \in kept}
           bad == {[id |-> r.id, reason |-> "unsupported-rule-removal-control"] :
                      r \in {x \in named : ~Translation!Removal(x)}}
           gone == {[id |-> r.id, reason |-> "rule-removal-target-not-generated"] :
                      r \in {x \in named : Translation!Removal(x) /\ Missed(x) # {}}}
           byId == Translation!collect_rule_removal_controls(parsed, final)
<1>1. byId.controls = controls /\ byId.unsupported = bad \cup gone
  BY DEF Translation!collect_rule_removal_controls
<1>2. \A r : /\ Translation!RemovalControl(r, final).source = r.id
             /\ Translation!RemovalControl(r, final).targets = Translation!Positions(final, r.removes)
  BY DEF Translation!RemovalControl
<1> HIDE DEF byId
<1>3. \A c \in controls :
         \E r \in Translation!ToSet(parsed) :
            r.id = c.source /\ c.targets = Translation!Positions(final, r.removes)
  BY <1>2
<1>4. ASSUME NEW r \in named PROVE (\E c \in controls : c.source = r.id) \/ \E u \in bad \cup gone : u.id = r.id
  <2>1. CASE ~Translation!Removal(r)
    <3> DEFINE u == [id |-> r.id, reason |-> "unsupported-rule-removal-control"]
    <3>1. u \in bad /\ u.id = r.id
      BY <2>1
    <3> HIDE DEF u, bad, gone
    <3> QED
      BY <3>1
  <2>2. CASE r \in kept
    <3>1. Translation!RemovalControl(r, final) \in controls
      BY <2>2
    <3> QED
      BY <1>2, <3>1
  <2>3. CASE Translation!Removal(r) /\ Translation!Positions(final, r.removes) = {}
    <3>1. r.removes # {}
      BY <2>3 DEF Translation!Removal
    <3>2. PICK t \in r.removes : TRUE
      BY <3>1
    <3>3. Translation!Positions(final, {t}) \subseteq Translation!Positions(final, r.removes)
      BY <3>2 DEF Translation!Positions
    <3>4. t \in Missed(r)
      BY <2>3, <3>2, <3>3
    <3> DEFINE u == [id |-> r.id, reason |-> "rule-removal-target-not-generated"]
    <3>5. u \in gone /\ u.id = r.id
      BY <2>3, <3>4
    <3> HIDE DEF u, bad, gone
    <3> QED
      BY <3>5
  <2> QED
    BY <1>2, <2>1, <2>2, <2>3
<1>5. \A r \in Translation!ToSet(parsed) : r.removes # {} \/ r.dynamic => r \in named
  OBVIOUS
<1> HIDE DEF named, controls, bad, gone
<1> QED
  BY <1>1, <1>3, <1>4, <1>5 DEF byId

\* The same of the controls by tag.
LEMMA TagControls ==
  ASSUME NEW parsed, NEW final
  PROVE  LET byTag == Translation!collect_rule_target_removal_controls(parsed, final)
         IN /\ \A c \in byTag.controls :
                  \E r \in Translation!ToSet(parsed), a \in UNION {x.removeTargets : x \in Translation!ToSet(parsed)} :
                     /\ r.id = c.source /\ a \in r.removeTargets /\ a[3] = c.collection
                     /\ c.targets = {k \in DOMAIN final : a[2] \in final[k].tags}
            /\ \A r \in Translation!ToSet(parsed) :
                  r.removeTargets # {} =>
                     \/ \E c \in byTag.controls : c.source = r.id
                     \/ \E u \in byTag.unsupported : u.id = r.id
<1> DEFINE asked == UNION {{<<r, a>> : a \in r.removeTargets} : r \in Translation!ToSet(parsed)}
           Reach(a) == {k \in DOMAIN final : a[2] \in final[k].tags}
           kept == {x \in asked : Translation!TargetRemoval(x[1], x[2]) /\ Reach(x[2]) # {}}
           Control(x) == [source |-> x[1].id, collection |-> x[2][3], targets |-> Reach(x[2])]
           Reason(x) == IF Translation!TargetRemoval(x[1], x[2]) THEN "rule-remove-target-tag-empty"
                        ELSE "unsupported-rule-remove-target-by-tag-control"
           Entry(x) == [id |-> x[1].id, reason |-> Reason(x)]
           byTag == Translation!collect_rule_target_removal_controls(parsed, final)
<1>1. byTag.controls = {Control(x) : x \in kept} /\ byTag.unsupported = {Entry(x) : x \in asked \ kept}
  BY DEF Translation!collect_rule_target_removal_controls
<1> HIDE DEF byTag, Reason
<1>2. \A x \in asked : /\ x[1] \in Translation!ToSet(parsed) /\ x[2] \in x[1].removeTargets
                       /\ x[2] \in UNION {y.removeTargets : y \in Translation!ToSet(parsed)}
  OBVIOUS
<1>3. \A r \in Translation!ToSet(parsed) : \A a \in r.removeTargets : <<r, a>> \in asked /\ <<r, a>>[1] = r
  OBVIOUS
<1> HIDE DEF asked, Reach
<1>4. \A c \in {Control(x) : x \in kept} :
         \E r \in Translation!ToSet(parsed), a \in UNION {x.removeTargets : x \in Translation!ToSet(parsed)} :
            /\ r.id = c.source /\ a \in r.removeTargets /\ a[3] = c.collection
            /\ c.targets = Reach(a)
  BY <1>2
<1>5. ASSUME NEW r \in Translation!ToSet(parsed), NEW a \in r.removeTargets
      PROVE  (\E c \in byTag.controls : c.source = r.id) \/ \E u \in byTag.unsupported : u.id = r.id
  <2> DEFINE x == <<r, a>>
  <2>1. x \in asked /\ x[1] = r
    BY <1>3
  <2> HIDE DEF x
  <2>2. x \in kept => Control(x) \in byTag.controls /\ Control(x).source = r.id
    BY <1>1, <2>1
  <2>3. x \notin kept => Entry(x) \in byTag.unsupported /\ Entry(x).id = r.id
    BY <1>1, <2>1
  <2> QED
    BY <2>2, <2>3
<1> HIDE DEF Control, kept, Entry
<1> QED
  BY <1>1, <1>4, <1>5 DEF Reach, byTag


LEMMA FinishReaches ==
  ASSUME Translation!Finish
  PROVE  Translation!RemovalsReachTheirTargets'
<1> DEFINE byId == Translation!collect_rule_removal_controls(rules, detection')
           byTag == Translation!collect_rule_target_removal_controls(rules, detection')
<1>1. /\ rules' = rules /\ removals' = byId.controls /\ targetRemovals' = byTag.controls
      /\ unsupported' = unsupported \cup byId.unsupported \cup byTag.unsupported
  BY DEF Translation!Finish
<1>2. /\ \A c \in byId.controls :
            \E r \in Translation!ToSet(rules) :
               r.id = c.source /\ c.targets = Translation!Positions(detection', r.removes)
      /\ \A r \in Translation!ToSet(rules) :
            r.removes # {} \/ r.dynamic =>
               \/ \E c \in byId.controls : c.source = r.id
               \/ \E u \in byId.unsupported : u.id = r.id
  BY IdControls
<1>3. /\ \A c \in byTag.controls :
            \E r \in Translation!ToSet(rules), a \in UNION {x.removeTargets : x \in Translation!ToSet(rules)} :
               /\ r.id = c.source /\ a \in r.removeTargets /\ a[3] = c.collection
               /\ c.targets = {k \in DOMAIN detection' : a[2] \in detection'[k].tags}
      /\ \A r \in Translation!ToSet(rules) :
            r.removeTargets # {} =>
               \/ \E c \in byTag.controls : c.source = r.id
               \/ \E u \in byTag.unsupported : u.id = r.id
  BY TagControls
<1>4. Translation!ToSet(rules)' = Translation!ToSet(rules)
  BY <1>1
<1> HIDE DEF byId, byTag
<1>5. \A c \in removals' :
         \E r \in Translation!ToSet(rules)' :
            /\ r.id = c.source
            /\ c.targets = {k \in DOMAIN detection' : \E t \in r.removes : detection'[k].id \in t[2] .. t[3]}
  BY <1>1, <1>2, <1>4, Zenon DEF Translation!Positions
<1>6. \A c \in targetRemovals' :
         \E r \in Translation!ToSet(rules)', a \in UNION {x.removeTargets : x \in Translation!ToSet(rules)'} :
            /\ r.id = c.source /\ a \in r.removeTargets /\ a[3] = c.collection
            /\ c.targets = {k \in DOMAIN detection' : a[2] \in detection'[k].tags}
  BY <1>1, <1>3, <1>4, Zenon
<1>7. \A r \in Translation!ToSet(rules)' :
         r.removes # {} \/ r.dynamic \/ r.removeTargets # {} =>
            \/ \E c \in removals' \cup targetRemovals' : c.source = r.id
            \/ \E u \in unsupported' : u.id = r.id
  <2> SUFFICES ASSUME NEW r \in Translation!ToSet(rules),
                      r.removes # {} \/ r.dynamic \/ r.removeTargets # {}
               PROVE  \/ \E c \in removals' \cup targetRemovals' : c.source = r.id
                      \/ \E u \in unsupported' : u.id = r.id
    BY <1>4, Zenon
  <2>1. CASE \E c \in byId.controls : c.source = r.id
    BY <1>1, <2>1, Zenon
  <2>2. CASE \E c \in byTag.controls : c.source = r.id
    BY <1>1, <2>2, Zenon
  <2>3. CASE \E u \in byId.unsupported : u.id = r.id
    BY <1>1, <2>3, Zenon
  <2>4. CASE \E u \in byTag.unsupported : u.id = r.id
    BY <1>1, <2>4, Zenon
  <2> QED
    BY <1>2, <1>3, <2>1, <2>2, <2>3, <2>4, Zenon
<1> QED
  BY <1>5, <1>6, <1>7, Zenon DEF Translation!RemovalsReachTheirTargets

\* sidecar_translator.py, collect_rule_removal_controls and
\* collect_rule_target_removal_controls: a control disables the generated rules its
\* statement names, by the indices they have in the final list, and a statement
\* that names rules has a control or an entry in unsupported_rules.
THEOREM ControlsReachTheirTargets == TablesSpec => []RemovalsReachTheirTargets
<1>1. TablesInit => RemovalsReachTheirTargets
  BY DEF TablesInit, Translation!Init, RemovalsReachTheirTargets, Translation!RemovalsReachTheirTargets,
         Translation!Translated
<1>2. ASSUME RemovalsReachTheirTargets, [TablesNext]_tableVars PROVE RemovalsReachTheirTargets'
  <2> SUFFICES ASSUME tool' = "rules", Translation!Translated' PROVE Translation!RemovalsReachTheirTargets'
    BY DEF RemovalsReachTheirTargets, Translation!RemovalsReachTheirTargets
  <2>1. tool = "rules"
    BY <1>2 DEF TablesNext, tableVars
  <2>2. CASE Translation!Finish
    BY <2>2, FinishReaches
  <2>3. CASE Translation!Follow \/ Translation!Audit \/ UNCHANGED tableVars
    <3>1. /\ rules' = rules /\ detection' = detection /\ unsupported' = unsupported /\ removals' = removals
          /\ targetRemovals' = targetRemovals /\ stage \in {"audit", "done"}
      BY <2>3 DEF Translation!Follow, Translation!Audit, Translation!outcome, tableVars, textOnly,
                  Translation!Translated
    <3>2. Translation!RemovalsReachTheirTargets
      BY <1>2, <2>1 DEF RemovalsReachTheirTargets
    <3> QED
      BY <3>1, <3>2 DEF Translation!RemovalsReachTheirTargets, Translation!Translated
  <2>4. ~Translation!Write /\ ~Translation!Parse /\ ~Translation!Group /\ ~Translation!Skip /\ ~Translation!Generate
    BY DEF Translation!Translated, Translation!Write, Translation!Parse, Translation!Group, Translation!Skip,
           Translation!Generate
  <2> QED
    BY <1>2, <2>1, <2>2, <2>3, <2>4 DEF TablesNext, Translation!Next
<1> QED
  BY <1>1, <1>2, PTL DEF TablesSpec


-----------------------------------------------------------------------------
(* The audit *)

\* Where the audit is in the text, and the heads it has seen to score.
Chained(k, n) == \A i \in k .. n : rules[i].chain
HeadsAreFollowed ==
  /\ next \in 1 .. Len(rules) + 1
  /\ \A h \in heads : h # Translation!NoId /\ \E k \in DOMAIN rules : rules[k].id = h /\ Translation!ScoresAt(k)
  /\ head # Translation!NoId => \E k \in 1 .. next - 1 : rules[k].id = head /\ Chained(k, next - 1)
  /\ \A k \in Translation!Starts : \A j \in 1 .. next - 1 :
        rules[k].chain /\ rules[k].id # Translation!NoId /\ Translation!Reaches(k, j) /\ rules[j].scoring =>
          rules[k].id \in heads
  /\ \A k \in Translation!Starts :
        k < next /\ rules[k].id # Translation!NoId /\ Chained(k, next - 1) => head = rules[k].id
  /\ next \in Translation!Starts => head = Translation!NoId

AuditFollows ==
  tool = "rules" =>
    /\ stage \in {"read", "translate"} => head = Translation!NoId /\ heads = {}
    /\ stage = "audit" => HeadsAreFollowed
    /\ AuditSeesTheSameChains

LEMMA SameChains ==
  ASSUME rules' = rules
  PROVE  \A k, n : Chained(k, n)' <=> Chained(k, n)
BY DEF Chained

\* The chain a statement is in starts at a statement with its id.
LEMMA CurrentIs ==
  ASSUME Read, HeadsAreFollowed, next <= Len(rules)
  PROVE  LET c == Translation!Current(rules[next])
         IN /\ c # Translation!NoId =>
                 \E k \in 1 .. next : rules[k].id = c /\ Chained(k, next - 1) /\ (k # next \/ rules[next].chain)
            /\ \A k \in Translation!Starts :
                  k <= next /\ rules[k].id # Translation!NoId /\ rules[k].chain /\ Chained(k, next - 1) =>
                    c = rules[k].id
<1> DEFINE c == Translation!Current(rules[next])
<1>1. next \in Nat /\ next >= 1 /\ Len(rules) \in Nat /\ DOMAIN rules = 1 .. Len(rules)
  BY RulesAre DEF HeadsAreFollowed
<1>2. c = IF head # Translation!NoId THEN head ELSE IF rules[next].chain THEN rules[next].id ELSE Translation!NoId
  BY DEF Translation!Current
<1> HIDE DEF c
<1>3. ASSUME c # Translation!NoId
      PROVE  \E k \in 1 .. next : rules[k].id = c /\ Chained(k, next - 1) /\ (k # next \/ rules[next].chain)
  <2>1. CASE head # Translation!NoId
    <3>1. PICK k \in 1 .. next - 1 : rules[k].id = head /\ Chained(k, next - 1)
      BY <2>1 DEF HeadsAreFollowed
    <3>2. k \in 1 .. next /\ k # next
      BY <1>1
    <3> QED
      BY <1>2, <2>1, <3>1, <3>2
  <2>2. CASE head = Translation!NoId
    <3>1. rules[next].chain /\ c = rules[next].id
      BY <1>2, <1>3, <2>2
    <3>2. Chained(next, next - 1) /\ next \in 1 .. next
      BY <1>1 DEF Chained
    <3> QED
      BY <3>1, <3>2
  <2> QED
    BY <2>1, <2>2
<1>4. ASSUME NEW k \in Translation!Starts, k <= next, rules[k].id # Translation!NoId, rules[k].chain,
             Chained(k, next - 1)
      PROVE  c = rules[k].id
  <2>1. k < next \/ k = next
    BY <1>1, <1>4 DEF Translation!Starts
  <2>2. k < next => head = rules[k].id
    BY <1>4 DEF HeadsAreFollowed
  <2>3. k = next => head = Translation!NoId
    BY DEF HeadsAreFollowed
  <2> QED
    BY <1>2, <1>4, <2>1, <2>2, <2>3
<1> QED
  BY <1>3, <1>4 DEF c

LEMMA FollowContinues ==
  ASSUME Read, HeadsAreFollowed, Translation!Follow
  PROVE  HeadsAreFollowed'
<1> DEFINE r == rules[next]
           c == Translation!Current(r)
<1>1. /\ rules' = rules /\ next <= Len(rules) /\ next' = next + 1
      /\ head' = IF r.chain THEN c ELSE Translation!NoId
      /\ heads' = heads \cup IF r.scoring THEN {c} \ {Translation!NoId} ELSE {}
  BY DEF Translation!Follow
<1>2. next \in Nat /\ next >= 1 /\ Len(rules) \in Nat /\ DOMAIN rules = 1 .. Len(rules)
  BY RulesAre DEF HeadsAreFollowed
<1>3. /\ c # Translation!NoId =>
           \E k \in 1 .. next : rules[k].id = c /\ Chained(k, next - 1) /\ (k # next \/ r.chain)
      /\ \A k \in Translation!Starts :
            k <= next /\ rules[k].id # Translation!NoId /\ rules[k].chain /\ Chained(k, next - 1) => c = rules[k].id
  BY <1>1, CurrentIs
<1> HIDE DEF c
<1>4. /\ Translation!Starts' = Translation!Starts
      /\ \A k : Translation!ScoresAt(k)' <=> Translation!ScoresAt(k)
      /\ \A k, j : Translation!Reaches(k, j)' <=> Translation!Reaches(k, j)
      /\ \A k, n : Chained(k, n)' <=> Chained(k, n)
  BY <1>1, SameRules, SameChains
<1>5. next' - 1 = next
  BY <1>1, <1>2
<1>6. \A k : Chained(k, next) /\ k \in 1 .. next => r.chain /\ Chained(k, next - 1) /\ rules[k].chain
  <2> TAKE k
  <2> SUFFICES ASSUME Chained(k, next), k \in 1 .. next
               PROVE  r.chain /\ Chained(k, next - 1) /\ rules[k].chain
    OBVIOUS
  <2>1. next \in k .. next /\ k \in k .. next /\ \A i \in k .. next - 1 : i \in k .. next
    BY <1>2
  <2> QED
    BY <2>1 DEF Chained
<1>7. \A k : Chained(k, next - 1) /\ r.chain /\ k \in 1 .. next => Chained(k, next)
  <2> TAKE k
  <2> SUFFICES ASSUME Chained(k, next - 1), r.chain, k \in 1 .. next, NEW i \in k .. next
               PROVE  rules[i].chain
    BY DEF Chained
  <2>1. i = next \/ i \in k .. next - 1
    BY <1>2
  <2> QED
    BY <2>1 DEF Chained
<1>8. \A k \in Translation!Starts : k \in 1 .. Len(rules)
  BY <1>2 DEF Translation!Starts
<1>9. ASSUME NEW h \in heads'
      PROVE  h # Translation!NoId /\ \E k \in DOMAIN rules : rules[k].id = h /\ Translation!ScoresAt(k)
  <2>1. CASE h \in heads
    BY <2>1 DEF HeadsAreFollowed
  <2>2. CASE h = c /\ r.scoring /\ c # Translation!NoId
    <3>1. PICK k \in 1 .. next : rules[k].id = c /\ Chained(k, next - 1)
      BY <1>3, <2>2
    <3>2. k <= next /\ next \in DOMAIN rules /\ k \in DOMAIN rules
      BY <1>1, <1>2
    <3>3. Translation!Reaches(k, next)
      BY <3>1, <3>2 DEF Translation!Reaches, Chained
    <3>4. Translation!ScoresAt(k)
      BY <2>2, <3>2, <3>3 DEF Translation!ScoresAt
    <3> QED
      BY <2>2, <3>1, <3>2, <3>4
  <2> QED
    BY <1>1, <2>1, <2>2
<1>10. ASSUME head' # Translation!NoId
       PROVE  \E k \in 1 .. next : rules[k].id = head' /\ Chained(k, next)
  <2>1. r.chain /\ head' = c
    BY <1>1, <1>10
  <2> QED
    BY <1>3, <1>7, <1>10, <2>1
<1>11. ASSUME NEW k \in Translation!Starts, NEW j \in 1 .. next, rules[k].chain, rules[k].id # Translation!NoId,
              Translation!Reaches(k, j), rules[j].scoring
       PROVE  rules[k].id \in heads'
  <2>1. CASE j \in 1 .. next - 1
    <3>1. rules[k].id \in heads
      BY <1>11, <2>1 DEF HeadsAreFollowed
    <3> QED
      BY <1>1, <3>1
  <2>2. CASE j = next
    <3>1. k <= next /\ Chained(k, next - 1)
      BY <1>11, <2>2 DEF Translation!Reaches, Chained
    <3>2. c = rules[k].id
      BY <1>3, <1>11, <3>1
    <3> QED
      BY <1>1, <1>11, <2>2, <3>2
  <2> QED
    BY <1>2, <2>1, <2>2
<1>12. ASSUME NEW k \in Translation!Starts, k < next', rules[k].id # Translation!NoId, Chained(k, next)
       PROVE  head' = rules[k].id
  <2>1. k \in 1 .. next /\ k <= next
    BY <1>1, <1>2, <1>8, <1>12
  <2>2. r.chain /\ Chained(k, next - 1) /\ rules[k].chain
    BY <1>6, <1>12, <2>1
  <2> QED
    BY <1>1, <1>3, <1>12, <2>1, <2>2
<1>13. ASSUME next' \in Translation!Starts PROVE head' = Translation!NoId
  <2>1. next' # 1
    BY <1>1, <1>2
  <2>2. ~rules[next' - 1].chain
    BY <1>13, <2>1 DEF Translation!Starts
  <2> QED
    BY <1>1, <1>5, <2>2
<1>14. next' \in 1 .. Len(rules) + 1
  BY <1>1, <1>2
<1>15. (\A h \in heads : h # Translation!NoId /\ \E k \in DOMAIN rules : rules[k].id = h /\ Translation!ScoresAt(k))'
  BY <1>1, <1>4, <1>9
<1>16. (head # Translation!NoId => \E k \in 1 .. next - 1 : rules[k].id = head /\ Chained(k, next - 1))'
  BY <1>1, <1>5, <1>10 DEF Chained
<1>17. (\A k \in Translation!Starts : \A j \in 1 .. next - 1 :
          rules[k].chain /\ rules[k].id # Translation!NoId /\ Translation!Reaches(k, j) /\ rules[j].scoring =>
            rules[k].id \in heads)'
  BY <1>1, <1>4, <1>5, <1>11
<1>18. (\A k \in Translation!Starts :
          k < next /\ rules[k].id # Translation!NoId /\ Chained(k, next - 1) => head = rules[k].id)'
  BY <1>1, <1>4, <1>5, <1>12 DEF Chained
<1>19. (next \in 1 .. Len(rules) + 1)' /\ (next \in Translation!Starts => head = Translation!NoId)'
  BY <1>1, <1>4, <1>13, <1>14
<1> QED
  BY <1>15, <1>16, <1>17, <1>18, <1>19 DEF HeadsAreFollowed


LEMMA FollowStarts ==
  ASSUME Read, rules' = rules, next' = 1, head' = Translation!NoId, heads' = {}
  PROVE  HeadsAreFollowed'
<1>1. 1 .. next' - 1 = {} /\ next' \in 1 .. Len(rules') + 1
  BY RulesAre
<1>2. \A k \in Translation!Starts' : ~(k < next')
  BY RulesAre DEF Translation!Starts
<1>3. (\A k \in Translation!Starts : \A j \in 1 .. next - 1 :
          rules[k].chain /\ rules[k].id # Translation!NoId /\ Translation!Reaches(k, j) /\ rules[j].scoring =>
            rules[k].id \in heads)'
  BY <1>1, Zenon
<1>4. (\A k \in Translation!Starts :
          k < next /\ rules[k].id # Translation!NoId /\ Chained(k, next - 1) => head = rules[k].id)'
  BY <1>2, Zenon
<1> QED
  BY <1>1, <1>3, <1>4 DEF HeadsAreFollowed

\* A row of the audit: what it says of the rule with its id.
LEMMA RowsAre ==
  ASSUME Read, NEW emitted, NEW row \in Translation!audit_rules(rules, emitted)
  PROVE  row.id # Translation!NoId /\ (row.headScores <=> row.id \in heads)
<1>1. \E r \in Translation!ToSet(rules) :
         /\ r.id # Translation!NoId
         /\ row = [id |-> r.id, headScores |-> r.id \in heads,
                   scoring |-> r.scoring \/ (r.id \in heads /\ r.id \in Translation!AUDIT_COVERED_IDS),
                   covered |-> r.id \in Translation!AUDIT_COVERED_IDS \/ r.id \in emitted]
  BY Zenon DEF Translation!audit_rules
<1>2. PICK r \in Translation!ToSet(rules) :
         /\ r.id # Translation!NoId
         /\ row = [id |-> r.id, headScores |-> r.id \in heads,
                   scoring |-> r.scoring \/ (r.id \in heads /\ r.id \in Translation!AUDIT_COVERED_IDS),
                   covered |-> r.id \in Translation!AUDIT_COVERED_IDS \/ r.id \in emitted]
  BY <1>1, Zenon
<1>3. row.id = r.id
  BY <1>2, Zenon
<1>4. row.headScores = (r.id \in heads)
  BY <1>2, Zenon
<1> QED
  BY <1>2, <1>3, <1>4, Zenon

LEMMA RowOf ==
  ASSUME Read, NEW emitted, NEW r \in Translation!ToSet(rules),
         r.id # Translation!NoId, r.paranoia <= PL, r.phase \in {1, 2}, r.scoring,
         r.id \notin Translation!AUDIT_COVERED_IDS, r.id \notin emitted
  PROVE  r.id \in Translation!NotCovered(Translation!audit_rules(rules, emitted))
<1> DEFINE native == r.id \in Translation!AUDIT_COVERED_IDS
           row == [id |-> r.id, headScores |-> r.id \in heads,
                   scoring |-> r.scoring \/ (r.id \in heads /\ native),
                   covered |-> native \/ r.id \in emitted]
<1>1. row \in Translation!audit_rules(rules, emitted)
  BY DEF Translation!audit_rules
<1>2. row.id = r.id /\ row.scoring /\ ~row.covered
  OBVIOUS
<1> HIDE DEF row
<1> QED
  BY <1>1, <1>2 DEF Translation!NotCovered

LEMMA AuditSees ==
  ASSUME Read, HeadsAreFollowed, Translation!Audit
  PROVE  Translation!AuditSeesTheSameChains'
<1> DEFINE emitted == {g.id : g \in Translation!ToSet(detection)}
           rows == Translation!audit_rules(rules, emitted)
<1>1. /\ rules' = rules /\ next > Len(rules) /\ audited' = rows /\ detection' = detection /\ fates' = fates
  BY DEF Translation!Audit, Translation!outcome
<1>2. Len(rules) \in Nat /\ DOMAIN rules = 1 .. Len(rules) /\ next = Len(rules) + 1
  BY <1>1, RulesAre DEF HeadsAreFollowed
<1>3. /\ Translation!Starts' = Translation!Starts
      /\ \A k : Translation!ScoresAt(k)' <=> Translation!ScoresAt(k)
  BY <1>1, SameRules
<1>4. ASSUME NEW row \in rows, NEW k \in Translation!Starts, rules[k].id = row.id, rules[k].chain,
             Translation!Cardinality({j \in DOMAIN rules : rules[j].id = row.id}) = 1
      PROVE  row.headScores <=> Translation!ScoresAt(k)
  <2> DEFINE same == {j \in DOMAIN rules : rules[j].id = row.id}
  <2>1. row.id # Translation!NoId /\ (row.headScores <=> row.id \in heads)
    BY RowsAre
  <2>2. k \in same
    BY <1>4 DEF Translation!Starts
  <2>3. \A j \in same : j = k
    <3>1. IsFiniteSet(same) /\ Cardinality(same) = 1
      <4>1. IsFiniteSet(1 .. Len(rules)) /\ same \subseteq 1 .. Len(rules)
        BY <1>2, FS_Interval
      <4> HIDE DEF same
      <4>2. IsFiniteSet(same)
        BY <4>1, FS_Subset
      <4> QED
        BY <1>4, <4>2, SameLists DEF same
    <3> HIDE DEF same
    <3> QED
      BY <2>2, <3>1, FS_Singleton
  <2>4. ASSUME row.id \in heads PROVE Translation!ScoresAt(k)
    <3>1. PICK j \in DOMAIN rules : rules[j].id = row.id /\ Translation!ScoresAt(j)
      BY <2>4 DEF HeadsAreFollowed
    <3>2. j = k
      BY <2>3, <3>1
    <3> QED
      BY <3>1, <3>2
  <2>5. ASSUME Translation!ScoresAt(k) PROVE row.id \in heads
    <3>1. PICK j \in DOMAIN rules : Translation!Reaches(k, j) /\ rules[j].scoring
      BY <2>5 DEF Translation!ScoresAt
    <3>2. j \in 1 .. next - 1
      BY <1>2
    <3> QED
      BY <1>4, <2>1, <3>1, <3>2 DEF HeadsAreFollowed
  <2> QED
    BY <2>1, <2>4, <2>5
<1>5. ASSUME NEW fate \in Translation!ToSet(fates), NEW r \in Translation!ToSet(rules),
             r.id = fate.id, r.scoring, r.phase \in {1, 2}, r.paranoia <= PL, fate.id # Translation!NoId
      PROVE  \/ fate.id \in Translation!NotCovered(rows) \cup Translation!AUDIT_COVERED_IDS
             \/ \E g \in Translation!ToSet(detection) : g.id = fate.id
  <2>1. fate.id \in emitted => \E g \in Translation!ToSet(detection) : g.id = fate.id
    OBVIOUS
  <2> HIDE DEF emitted
  <2> QED
    BY <1>5, <2>1, RowOf
<1> HIDE DEF rows
<1>6. (\A row \in audited, k \in Translation!Starts :
         rules[k].id = row.id /\ rules[k].chain
         /\ Translation!Cardinality({j \in DOMAIN rules : rules[j].id = row.id}) = 1 =>
             (row.headScores <=> Translation!ScoresAt(k)))'
  BY <1>1, <1>3, <1>4, Zenon
<1>7. \A fate \in Translation!ToSet(fates)' : \A r \in Translation!ToSet(rules)' :
         /\ r.id = fate.id /\ r.scoring /\ r.phase \in {1, 2} /\ r.paranoia <= PL
         /\ fate.to = "unhandled" /\ fate.id # Translation!NoId
         => \/ fate.id \in Translation!NotCovered(audited)' \cup Translation!AUDIT_COVERED_IDS
            \/ \E g \in Translation!ToSet(detection)' : g.id = fate.id
  <2>1. /\ Translation!ToSet(fates)' = Translation!ToSet(fates) /\ Translation!ToSet(rules)' = Translation!ToSet(rules)
        /\ Translation!NotCovered(audited)' = Translation!NotCovered(rows)
        /\ Translation!ToSet(detection)' = Translation!ToSet(detection)
    BY <1>1
  <2> QED
    BY <1>5, <2>1, Zenon
<1> QED
  BY <1>6, <1>7, Zenon DEF Translation!AuditSeesTheSameChains

LEMMA AuditContinues ==
  ASSUME TextIsRead, AuditFollows, [TablesNext]_tableVars
  PROVE  AuditFollows'
<1> SUFFICES ASSUME tool' = "rules" PROVE AuditFollows'
  BY DEF AuditFollows
<1>1. tool = "rules"
  BY DEF TablesNext, tableVars
<1>2. /\ stage # "read" => Read
      /\ stage \in {"read", "translate"} => head = Translation!NoId /\ heads = {}
      /\ stage = "audit" => HeadsAreFollowed
      /\ Translation!AuditSeesTheSameChains
  BY <1>1 DEF TextIsRead, AuditFollows, AuditSeesTheSameChains
<1>3. stage' # "done" => AuditSeesTheSameChains'
  BY DEF AuditSeesTheSameChains, Translation!AuditSeesTheSameChains
<1>4. CASE Translation!Write \/ Translation!Parse \/ Translation!Group \/ Translation!Skip \/ Translation!Generate
  <2>1. stage \in {"read", "translate"} /\ stage' \in {"read", "translate"} /\ head' = head /\ heads' = heads
    BY <1>4 DEF Translation!Write, Translation!Parse, Translation!Group, Translation!Skip, Translation!Generate,
                Translation!audit
  <2> QED
    BY <1>2, <1>3, <2>1 DEF AuditFollows
<1>5. CASE Translation!Finish
  <2>1. stage = "translate" /\ stage' = "audit" /\ next' = 1 /\ rules' = rules /\ head' = head /\ heads' = heads
    BY <1>5 DEF Translation!Finish, Translation!audit
  <2>2. HeadsAreFollowed'
    BY <1>2, <2>1, FollowStarts
  <2> QED
    BY <1>3, <2>1, <2>2 DEF AuditFollows
<1>6. CASE Translation!Follow
  <2>1. stage = "audit" /\ stage' = "audit"
    BY <1>6 DEF Translation!Follow
  <2>2. HeadsAreFollowed'
    BY <1>2, <1>6, <2>1, FollowContinues
  <2> QED
    BY <1>3, <2>1, <2>2 DEF AuditFollows
<1>7. CASE Translation!Audit
  <2>1. stage = "audit" /\ stage' = "done"
    BY <1>7 DEF Translation!Audit
  <2>2. Translation!AuditSeesTheSameChains'
    BY <1>2, <1>7, <2>1, AuditSees
  <2> QED
    BY <2>1, <2>2 DEF AuditFollows, AuditSeesTheSameChains
<1>8. CASE UNCHANGED tableVars
  <2>1. /\ stage' = stage /\ rules' = rules /\ next' = next /\ head' = head /\ heads' = heads
        /\ audited' = audited /\ detection' = detection /\ fates' = fates
    BY <1>8 DEF tableVars, textOnly
  <2>2. /\ Translation!Starts' = Translation!Starts
        /\ \A k : Translation!ScoresAt(k)' <=> Translation!ScoresAt(k)
        /\ \A k, j : Translation!Reaches(k, j)' <=> Translation!Reaches(k, j)
        /\ \A k, n : Chained(k, n)' <=> Chained(k, n)
    BY <2>1, SameRules, SameChains
  <2>3. HeadsAreFollowed => HeadsAreFollowed'
    BY <2>1, <2>2 DEF HeadsAreFollowed, Chained
  <2>4. Translation!AuditSeesTheSameChains'
    BY <1>2, <2>1, <2>2 DEF Translation!AuditSeesTheSameChains
  <2> QED
    BY <1>2, <2>1, <2>3, <2>4 DEF AuditFollows, AuditSeesTheSameChains
<1> QED
  BY <1>1, <1>4, <1>5, <1>6, <1>7, <1>8 DEF TablesNext, Translation!Next

\* audit_crs_mechanisms.py, chain_score_heads and audit_rules: the audit finds the
\* chains that score where the translator finds them, and a rule that scores by
\* itself and that the translator lost is among the gaps.  A lost chain that
\* scores on a later member is not among them (audit_crs_mechanisms.py:269-273),
\* and heads are compared for ids that occur once.
THEOREM AuditAndTranslatorAgree == TablesSpec => []AuditSeesTheSameChains
<1>1. TablesInit => AuditFollows
  BY DEF TablesInit, Translation!Init, AuditFollows, AuditSeesTheSameChains, Translation!AuditSeesTheSameChains
<1>2. AuditFollows => AuditSeesTheSameChains
  BY DEF AuditFollows, AuditSeesTheSameChains
<1> QED
  BY <1>1, <1>2, TextsAreRead, AuditContinues, PTL DEF TablesSpec
================================================================================
