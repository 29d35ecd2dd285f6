--------------------------- MODULE PatternProofs ---------------------------
(***************************************************************************)
(* Proofs about module Pattern.                                            *)
(***************************************************************************)
EXTENDS Pattern, SequenceTheorems, WellFoundedInduction, TLAPS

-----------------------------------------------------------------------------
(* Induction over the tokens is in terms of a set: the library's theorems  *)
(* take an operator, which the provers cannot instantiate.                 *)

(* A set of natural numbers that is not empty has a least element.         *)
LEMMA Least ==
  ASSUME NEW S \in SUBSET Nat, S # {}
  PROVE  \E m \in S : \A k \in S : m <= k
<1> DEFINE R == OpToRel(<, Nat)
<1>1. IsWellFoundedOn(R, Nat)
  BY NatLessThanWellFounded, Zenon
<1> HIDE DEF R
<1>2. \E m \in S : \A k \in S : ~(<<k, m>> \in R)
  BY <1>1, WFMin
<1>3. PICK m \in S : \A k \in S : ~(<<k, m>> \in R)
  BY <1>2
<1>4. ASSUME NEW k \in S PROVE m <= k
  <2>1. ~(<<k, m>> \in R)
    BY <1>3
  <2>2. ~(k < m)
    BY <2>1, Zenon DEF R, OpToRel
  <2> QED
    BY <2>2
<1> QED
  BY <1>4

(* A set with 0, and with n + 1 if it has n, has all of 0 .. N.            *)
LEMMA UpTo ==
  ASSUME NEW N \in Nat, NEW S, 0 \in S, \A n \in 0 .. (N - 1) : n \in S => n + 1 \in S
  PROVE  \A n \in 0 .. N : n \in S
<1> DEFINE T == {n \in 0 .. N : n \notin S}
<1>1. SUFFICES ASSUME T # {} PROVE FALSE
  OBVIOUS
<1>2. T \in SUBSET Nat
  OBVIOUS
<1>3. PICK m \in T : \A k \in T : m <= k
  <2> HIDE DEF T
  <2> QED
    BY <1>1, <1>2, Least
<1>4. m - 1 \in 0 .. (N - 1) /\ m - 1 \notin T
  BY <1>3
<1> QED
  BY <1>3, <1>4

-----------------------------------------------------------------------------
(* The items of the reference.                                             *)

Names == DOMAIN FieldNames
Token == DOMAIN Width

(* The patterns are sequences of tokens.                                   *)
LEMMA PatternTokens == \A p \in Patterns : p \in Seq(Token)
<1>1. \A p \in Patterns : p \in Seq(DOMAIN Width \ {":06", ":09"})
  BY PatternAssumption, Zenon
<1>2. \A p \in Seq(DOMAIN Width \ {":06", ":09"}) : p \in Seq(DOMAIN Width)
  BY SeqMonotonic
<1> QED
  BY <1>1, <1>2, Zenon DEF Token

(* The names of the fields.                                                *)
LEMMA NamesAre ==
  Names = {"time", "file", "function", "line", "level", "message", "m", "thread"}
  BY DEF Names, FieldNames

(* Tokens j + 1 to k of p are a field.                                     *)
FieldAt(p, j, k) ==
  /\ p[j + 1] = "{" /\ p[j + 2] \in Names /\ p[k] = "}"
  /\ \/ k = j + 3
     \/ k = j + 4 /\ p[j + 3] = ":"
     \/ k = j + 5 /\ p[j + 3] = ":" /\ IsSpecOf(p[j + 2], p[j + 4])

(* They are an item.                                                       *)
ItemAt(p, j, k) ==
  \/ k = j + 1 /\ p[k] \notin {"{", "}"}
  \/ k = j + 2 /\ p[j + 1] \in {"{", "}"} /\ p[k] = p[j + 1]
  \/ FieldAt(p, j, k)

(* The tokens of a part of a sequence.                                     *)
LEMMA PartFacts ==
  ASSUME NEW T, NEW p \in Seq(T), NEW j \in Nat, NEW k \in Nat, j <= k, k <= Len(p)
  PROVE  /\ SubSeq(p, j + 1, k) \in Seq(T) /\ Len(SubSeq(p, j + 1, k)) = k - j
         /\ \A x \in 1 .. (k - j) : SubSeq(p, j + 1, k)[x] = p[j + x]
  OBVIOUS

(* The items of the reference, in terms of the tokens of the pattern.      *)
LEMMA FieldItemShape ==
  ASSUME NEW T, NEW p \in Seq(T), NEW j \in Nat, NEW k \in Nat, j < k, k <= Len(p)
  PROVE  IsFieldItem(SubSeq(p, j + 1, k)) <=> FieldAt(p, j, k)
<1> DEFINE s == SubSeq(p, j + 1, k)
<1>1. Len(s) = k - j /\ \A x \in 1 .. (k - j) : s[x] = p[j + x]
  BY PartFacts
<1> HIDE DEF s
<1>2. CASE k - j \notin 3 .. 5
  <2>1. Len(s) \notin 3 .. 5 /\ k # j + 3 /\ k # j + 4 /\ k # j + 5
    BY <1>1, <1>2
  <2> QED
    BY <2>1, Zenon DEF FieldAt, IsFieldItem, s
<1>3. CASE k - j \in 3 .. 5
  <2>1. s[1] = p[j + 1] /\ s[2] = p[j + 2] /\ s[3] = p[j + 3] /\ s[Len(s)] = p[k]
    BY <1>1, <1>3
  <2>2. k - j = 5 => s[4] = p[j + 4]
    BY <1>1
  <2>3. Len(s) \in 3 .. 5
    BY <1>1, <1>3
  <2>4. CASE k = j + 3
    <3>1. ~(Len(s) > 3) /\ ~(Len(s) > 4) /\ k # j + 4 /\ k # j + 5
      BY <1>1, <2>4
    <3> QED
      BY <2>1, <2>3, <2>4, <3>1, Zenon DEF FieldAt, IsFieldItem, Names, s
  <2>5. CASE k = j + 4
    <3>1. Len(s) > 3 /\ ~(Len(s) > 4) /\ k # j + 3 /\ k # j + 5
      BY <1>1, <2>5
    <3> QED
      BY <2>1, <2>3, <2>5, <3>1, Zenon DEF FieldAt, IsFieldItem, Names, s
  <2>6. CASE k = j + 5
    <3>1. Len(s) > 3 /\ Len(s) > 4 /\ k # j + 3 /\ k # j + 4 /\ s[4] = p[j + 4]
      BY <1>1, <2>2, <2>6
    <3> QED
      BY <2>1, <2>3, <2>6, <3>1, Zenon DEF FieldAt, IsFieldItem, Names, s
  <2> QED
    BY <1>3, <2>4, <2>5, <2>6
<1> QED
  BY <1>2, <1>3 DEF s
(* An item in terms of the tokens it stands at.                            *)
LEMMA ItemShape ==
  ASSUME NEW T, NEW p \in Seq(T), NEW j \in Nat, NEW k \in Nat, j < k, k <= Len(p)
  PROVE  IsItem(SubSeq(p, j + 1, k)) <=> ItemAt(p, j, k)
<1> DEFINE s == SubSeq(p, j + 1, k)
<1>1. Len(s) = k - j /\ \A x \in 1 .. (k - j) : s[x] = p[j + x]
  BY PartFacts
<1>2. IsFieldItem(s) <=> FieldAt(p, j, k)
  BY FieldItemShape
<1> HIDE DEF s
<1>3. s[1] = p[j + 1] /\ (k = j + 2 => s[2] = p[j + 2])
  BY <1>1
<1>4. IsWord(s) <=> k = j + 1 /\ p[k] \notin {"{", "}"}
  <2>1. Len(s) = 1 <=> k = j + 1
    BY <1>1
  <2> QED
    BY <2>1, <1>3, Zenon DEF IsWord
<1>5. IsEscape(s) <=> k = j + 2 /\ p[j + 1] \in {"{", "}"} /\ p[k] = p[j + 1]
  <2>1. Len(s) = 2 <=> k = j + 2
    BY <1>1
  <2> QED
    BY <2>1, <1>3, Zenon DEF IsEscape
<1> QED
  BY <1>2, <1>4, <1>5 DEF s, ItemAt, IsItem

(* No two items begin at the same place.                                   *)
LEMMA ItemUnique ==
  ASSUME NEW p, NEW j \in Nat, NEW k \in Nat, NEW m \in Nat, ItemAt(p, j, k), ItemAt(p, j, m)
  PROVE  k = m
<1>1. \A x \in Names : x \notin {"{", "}"}
  BY NamesAre
<1>2. \A x, y : IsSpecOf(x, y) => y # "}"
  BY DEF IsSpecOf
<1>3. ":" # "}" /\ "{" # "}"
  OBVIOUS
<1>4. CASE p[j + 1] \notin {"{", "}"}
  BY <1>4 DEF ItemAt, FieldAt
<1>5. CASE p[j + 1] \in {"{", "}"} /\ p[j + 2] = p[j + 1]
  BY <1>1, <1>5 DEF ItemAt, FieldAt
<1>6. CASE p[j + 1] \in {"{", "}"} /\ p[j + 2] # p[j + 1]
  <2>1. FieldAt(p, j, k) /\ FieldAt(p, j, m)
    BY <1>6 DEF ItemAt
  <2>2. ASSUME NEW x \in Nat, NEW y \in Nat, FieldAt(p, j, x), FieldAt(p, j, y), x < y
        PROVE  FALSE
    <3>1. p[x] = "}" /\ (x = j + 3 \/ x = j + 4 \/ x = j + 5)
      BY <2>2, Zenon DEF FieldAt
    <3>2. (y = j + 4 \/ y = j + 5) /\ (x = j + 3 \/ (x = j + 4 /\ y = j + 5))
      <4>1. y = j + 3 \/ y = j + 4 \/ y = j + 5
        BY <2>2, Zenon DEF FieldAt
      <4>2. x < y /\ (x = j + 3 \/ x = j + 4 \/ x = j + 5)
        BY <2>2, <3>1, Zenon
      <4> QED
        BY ONLY <4>1, <4>2, j \in Nat, x \in Nat, y \in Nat
    <3>3. p[j + 3] = ":" /\ (y = j + 5 => IsSpecOf(p[j + 2], p[j + 4]))
      <4>1. y # j + 3 /\ (y = j + 5 => y # j + 4)
        BY <3>2
      <4> QED
        BY <4>1, <2>2, Zenon DEF FieldAt
    <3> QED
      BY <1>2, <1>3, <3>1, <3>2, <3>3, Zenon
  <2> QED
    BY <2>1, <2>2
<1> QED
  BY <1>4, <1>5, <1>6

(* g is what the recursion of WellFormed makes of the first n tokens.      *)
Follows(p, k, g) == k = 0 \/ \E j \in 0 .. k - 1 : IsItem(SubSeq(p, j + 1, k)) /\ g[j]
GoodTo(p, n, g) == g = [k \in 0 .. n |-> Follows(p, k, g)]
CanGood(p, n) == \E g : GoodTo(p, n, g)

(* The recursion defines a function, and this is its equation.             *)
LEMMA WellFormedRecursion ==
  ASSUME NEW T, NEW p \in Seq(T)
  PROVE  /\ WellFormed(p)[0]
         /\ \A k \in 1 .. Len(p) :
              WellFormed(p)[k] <=>
                \E j \in 0 .. k - 1 : IsItem(SubSeq(p, j + 1, k)) /\ WellFormed(p)[j]
<1> DEFINE N == Len(p)
           S == {n \in 0 .. N : CanGood(p, n)}
<1>1. N \in Nat
  OBVIOUS
<1>2. CanGood(p, 0)
  <2> DEFINE g == [k \in 0 .. 0 |-> TRUE]
  <2>1. \A k \in 0 .. 0 : k = 0
    OBVIOUS
  <2>2. GoodTo(p, 0, g)
    BY <2>1, Zenon DEF GoodTo, Follows
  <2> QED
    BY <2>2, Zenon DEF CanGood
<1>3. ASSUME NEW n \in 0 .. (N - 1), CanGood(p, n) PROVE CanGood(p, n + 1)
  <2>1. PICK f : GoodTo(p, n, f)
    BY <1>3, Zenon DEF CanGood
  <2> DEFINE g == [k \in 0 .. (n + 1) |-> IF k = n + 1 THEN Follows(p, n + 1, f) ELSE f[k]]
  <2>2. \A k \in 0 .. n : k \in 0 .. (n + 1) /\ k # n + 1
    OBVIOUS
  <2>3. \A k \in 0 .. n : g[k] = f[k]
    BY <2>2, Zenon
  <2>4. \A k \in 0 .. (n + 1) : \A j \in 0 .. k - 1 : j \in 0 .. n
    OBVIOUS
  <2>5. ASSUME NEW k \in 0 .. (n + 1) PROVE Follows(p, k, g) = Follows(p, k, f)
    <3>1. \A j \in 0 .. k - 1 : g[j] = f[j]
      BY <2>3, <2>4, Zenon
    <3> HIDE DEF g
    <3> QED
      BY <3>1, Zenon DEF Follows
  <2>6. ASSUME NEW k \in 0 .. (n + 1) PROVE g[k] = Follows(p, k, g)
    <3>1. CASE k = n + 1
      BY <3>1, <2>5, Zenon
    <3>2. CASE k # n + 1
      <4>1. k \in 0 .. n
        BY <3>2
      <4>2. f[k] = Follows(p, k, f)
        BY <2>1, <4>1, Zenon DEF GoodTo
      <4> QED
        BY <4>1, <4>2, <2>3, <2>5, Zenon
    <3> QED
      BY <3>1, <3>2
  <2>7. GoodTo(p, n + 1, g)
    <3>1. g = [k \in 0 .. (n + 1) |-> g[k]]
      BY Zenon
    <3> HIDE DEF g
    <3> QED
      BY <3>1, <2>6, Zenon DEF GoodTo
  <2> HIDE DEF g
  <2> QED
    BY <2>7, Zenon DEF CanGood
<1>4. CanGood(p, N)
  <2>1. 0 \in S /\ \A n \in 0 .. (N - 1) : n \in S => n + 1 \in S
    BY <1>1, <1>2, <1>3
  <2> HIDE DEF S
  <2>2. \A n \in 0 .. N : n \in S
    BY <1>1, <2>1, UpTo
  <2> QED
    BY <2>2, <1>1 DEF S
<1> DEFINE g == WellFormed(p)
<1>5. GoodTo(p, N, g)
  BY <1>4, Zenon DEF WellFormed, GoodTo, CanGood, Follows
<1> HIDE DEF g
<1>6. \A k \in 0 .. N : g[k] = Follows(p, k, g)
  BY <1>5, Zenon DEF GoodTo
<1>7. 0 \in 0 .. N /\ \A k \in 1 .. N : k \in 0 .. N /\ k # 0
  BY <1>1
<1>8. g[0]
  BY <1>6, <1>7, Zenon DEF Follows
<1>9. \A k \in 1 .. N : g[k] <=> \E j \in 0 .. k - 1 : IsItem(SubSeq(p, j + 1, k)) /\ g[j]
  BY <1>6, <1>7, Zenon DEF Follows
<1> QED
  BY <1>8, <1>9, Zenon DEF g

(* Well-formed prefixes and items: an item after a well-formed prefix      *)
(* makes a longer one, and there are no others.                            *)
LEMMA GoodSteps ==
  ASSUME NEW T, NEW p \in Seq(T)
  PROVE  /\ WellFormed(p)[0]
         /\ \A k \in 1 .. Len(p) : \A j \in 0 .. k - 1 :
              WellFormed(p)[j] /\ ItemAt(p, j, k) => WellFormed(p)[k]
         /\ \A k \in 1 .. Len(p) :
              WellFormed(p)[k] => \E j \in 0 .. k - 1 : WellFormed(p)[j] /\ ItemAt(p, j, k)
<1>1. ASSUME NEW k \in 1 .. Len(p), NEW j \in 0 .. k - 1
      PROVE  IsItem(SubSeq(p, j + 1, k)) <=> ItemAt(p, j, k)
  <2>1. j \in Nat /\ k \in Nat /\ j < k /\ k <= Len(p)
    OBVIOUS
  <2> QED
    BY <2>1, ItemShape
<1> QED
  BY <1>1, WellFormedRecursion, Zenon

(* An item that begins inside a well-formed prefix ends inside it, too, if *)
(* it begins where a well-formed prefix ends.                              *)
CutsAt(p, m) ==
  \A j \in 0 .. m - 1 : \A k \in Nat :
    WellFormed(p)[j] /\ WellFormed(p)[m] /\ ItemAt(p, j, k) => k <= m

(* Every well-formed prefix has this property.                             *)
LEMMA Cuts ==
  ASSUME NEW T, NEW p \in Seq(T)
  PROVE  \A m \in 0 .. Len(p) : CutsAt(p, m)
<1> DEFINE N == Len(p)
           S == {n \in 0 .. N : \A m \in 0 .. n : CutsAt(p, m)}
<1>1. N \in Nat
  OBVIOUS
<1>2. 0 \in S
  BY <1>1 DEF CutsAt
<1>3. ASSUME NEW n \in 0 .. (N - 1), n \in S PROVE n + 1 \in S
  <2>1. \A m \in 0 .. n : CutsAt(p, m)
    BY <1>3
  <2>2. n \in Nat /\ n + 1 \in 1 .. N
    BY <1>1
  <2> HIDE DEF S
  <2>3. SUFFICES ASSUME NEW j \in 0 .. (n + 1) - 1, NEW k \in Nat,
                        WellFormed(p)[j], WellFormed(p)[n + 1], ItemAt(p, j, k)
                 PROVE  k <= n + 1
    <3>1. CutsAt(p, n + 1)
      BY <2>3 DEF CutsAt
    <3>2. \A m \in 0 .. (n + 1) : m \in 0 .. n \/ m = n + 1
      BY <2>2
    <3>3. \A m \in 0 .. (n + 1) : CutsAt(p, m)
      BY <2>1, <3>1, <3>2, Zenon
    <3>4. n + 1 \in 0 .. N
      BY <2>2
    <3> QED
      BY <3>3, <3>4, Zenon DEF S
  <2>4. PICK l \in 0 .. (n + 1) - 1 : WellFormed(p)[l] /\ ItemAt(p, l, n + 1)
    BY <2>2, <2>3, GoodSteps, Zenon
  <2>5. j \in Nat /\ l \in Nat /\ n + 1 \in Nat /\ j \in 0 .. n /\ l \in 0 .. n
    BY <2>2
  <2>6. CASE l = j
    <3>1. k = n + 1
      BY <2>3, <2>4, <2>5, <2>6, ItemUnique, Zenon
    <3> QED
      BY <3>1, <2>5
  <2>7. CASE j < l
    <3>1. j \in 0 .. l - 1
      BY <2>5, <2>7
    <3>2. k <= l
      BY <3>1, <2>1, <2>3, <2>4, <2>5, Zenon DEF CutsAt
    <3> QED
      BY <3>2, <2>5
  <2>8. CASE l < j
    <3>1. l \in 0 .. j - 1
      BY <2>5, <2>8
    <3>2. n + 1 <= j
      BY <3>1, <2>1, <2>3, <2>4, <2>5, Zenon DEF CutsAt
    <3> QED
      BY <3>2, <2>5
  <2> QED
    BY <2>5, <2>6, <2>7, <2>8
<1>4. \A n \in 0 .. N : n \in S
  <2> HIDE DEF S
  <2> QED
    BY <1>1, <1>2, <1>3, UpTo
<1> QED
  BY <1>1, <1>4

(* A well-formed prefix is well-formed in one way.                         *)
LEMMA LastStartIs ==
  ASSUME NEW T, NEW p \in Seq(T), NEW k \in 1 .. Len(p), NEW j \in 0 .. k - 1,
         WellFormed(p)[j], ItemAt(p, j, k)
  PROVE  LastStart(p, k) = j
<1>1. k \in Nat /\ j \in Nat /\ j < k /\ k \in 0 .. Len(p) /\ j \in 0 .. Len(p)
  OBVIOUS
<1>2. ASSUME NEW l \in 0 .. k - 1, IsItem(SubSeq(p, l + 1, k)) /\ WellFormed(p)[l] PROVE l = j
  <2>1. l \in Nat /\ l < k /\ l \in 0 .. Len(p)
    BY <1>1
  <2>2. ItemAt(p, l, k)
    BY <1>1, <1>2, <2>1, ItemShape
  <2>3. CASE l < j
    <3>1. l \in 0 .. j - 1
      BY <1>1, <2>1, <2>3
    <3>2. k <= j
      BY <3>1, <1>1, <1>2, <2>2, Cuts, Zenon DEF CutsAt
    <3> QED
      BY <1>1, <3>2
  <2>4. CASE j < l
    <3>1. j \in 0 .. l - 1
      BY <1>1, <2>1, <2>4
    <3>2. k <= l
      BY <3>1, <1>1, <1>2, <2>1, Cuts, Zenon DEF CutsAt
    <3> QED
      BY <1>1, <2>1, <3>2
  <2> QED
    BY <1>1, <2>1, <2>3, <2>4
<1>3. IsItem(SubSeq(p, j + 1, k)) /\ WellFormed(p)[j]
  BY <1>1, ItemShape
<1> QED
  BY <1>2, <1>3, Zenon DEF LastStart

(* Past a well-formed prefix with no item behind it, nothing is            *)
(* well-formed.                                                            *)
ItemAfter(p, j, k) == \E m \in j + 1 .. k : ItemAt(p, j, m)

(* A longer well-formed prefix has an item where a shorter one ends.       *)
LEMMA NoItemNoPrefix ==
  ASSUME NEW T, NEW p \in Seq(T), NEW j \in 0 .. Len(p), WellFormed(p)[j]
  PROVE  \A k \in j + 1 .. Len(p) : WellFormed(p)[k] => ItemAfter(p, j, k)
<1> DEFINE N == Len(p)
           S == {n \in 0 .. N : \A k \in j + 1 .. n : WellFormed(p)[k] => ItemAfter(p, j, k)}
<1>1. N \in Nat /\ j \in Nat
  OBVIOUS
<1>2. 0 \in S
  BY <1>1
<1>3. ASSUME NEW n \in 0 .. (N - 1), n \in S PROVE n + 1 \in S
  <2>1. \A k \in j + 1 .. n : WellFormed(p)[k] => ItemAfter(p, j, k)
    BY <1>3
  <2>2. n \in Nat /\ n + 1 \in 1 .. N /\ n + 1 \in 0 .. N
    BY <1>1
  <2> HIDE DEF S
  <2>3. SUFFICES ASSUME n + 1 \in j + 1 .. n + 1, WellFormed(p)[n + 1]
                 PROVE  ItemAfter(p, j, n + 1)
    <3>1. n + 1 \in j + 1 .. n + 1 => (WellFormed(p)[n + 1] => ItemAfter(p, j, n + 1))
      BY <2>3, Zenon
    <3>2. \A m \in j + 1 .. (n + 1) : m \in j + 1 .. n \/ m = n + 1
      BY <2>2, <1>1
    <3>3. \A m \in j + 1 .. (n + 1) : WellFormed(p)[m] => ItemAfter(p, j, m)
      BY <2>1, <3>1, <3>2, Zenon
    <3> QED
      BY <3>3, <2>2, Zenon DEF S
  <2>4. PICK l \in 0 .. (n + 1) - 1 : WellFormed(p)[l] /\ ItemAt(p, l, n + 1)
    BY <2>2, <2>3, GoodSteps, Zenon
  <2>5. l \in Nat /\ n + 1 \in Nat /\ l \in 0 .. n
    BY <2>2
  <2>6. CASE l = j
    BY <2>3, <2>4, <2>6, Zenon DEF ItemAfter
  <2>7. CASE j < l
    <3>1. l \in j + 1 .. n
      BY <1>1, <2>5, <2>7
    <3>2. ItemAfter(p, j, l)
      BY <3>1, <2>1, <2>4, Zenon
    <3>3. \A m \in j + 1 .. l : m \in j + 1 .. n + 1
      BY <1>1, <2>5, <2>2
    <3> QED
      BY <3>2, <3>3, Zenon DEF ItemAfter
  <2>8. CASE l < j
    <3>1. l \in 0 .. j - 1
      BY <1>1, <2>5, <2>8
    <3>2. n + 1 <= j
      BY <3>1, <2>4, <2>5, Cuts, Zenon DEF CutsAt
    <3> QED
      BY <3>2, <2>3, <2>5, <1>1
  <2> QED
    BY <1>1, <2>5, <2>6, <2>7, <2>8
<1>4. \A n \in 0 .. N : n \in S
  <2> HIDE DEF S
  <2> QED
    BY <1>1, <1>2, <1>3, UpTo
<1> QED
  BY <1>1, <1>4

-----------------------------------------------------------------------------
(* The number of characters of the sequences that parse_pattern() appends. *)

CharsTo(s, n, f) == f = [k \in 0 .. n |-> IF k = 0 THEN 0 ELSE f[k - 1] + Width[s[k]]]
CanChars(s, n) == \E f : CharsTo(s, n, f)

(* The recursion of Chars defines a function on the prefixes of s.         *)
LEMMA CharsRecursion ==
  ASSUME NEW s, Len(s) \in Nat
  PROVE  \E f : CharsTo(s, Len(s), f) /\ Chars(s) = f[Len(s)]
<1> DEFINE N == Len(s)
           S == {n \in 0 .. N : CanChars(s, n)}
<1>1. CanChars(s, 0)
  <2> DEFINE f == [k \in 0 .. 0 |-> 0]
  <2>1. \A k \in 0 .. 0 : k = 0
    OBVIOUS
  <2>2. CharsTo(s, 0, f)
    BY <2>1, Zenon DEF CharsTo
  <2> QED
    BY <2>2, Zenon DEF CanChars
<1>2. ASSUME NEW n \in 0 .. (N - 1), CanChars(s, n) PROVE CanChars(s, n + 1)
  <2>1. PICK f : CharsTo(s, n, f)
    BY <1>2, Zenon DEF CanChars
  <2> DEFINE g == [k \in 0 .. (n + 1) |-> IF k = n + 1 THEN f[n] + Width[s[n + 1]] ELSE f[k]]
  <2>2. /\ \A k \in 0 .. (n + 1) : k = n + 1 \/ (k \in 0 .. n /\ k # n + 1)
        /\ n + 1 # 0 /\ (n + 1) - 1 = n /\ n \in 0 .. n + 1 /\ n # n + 1
        /\ \A k \in 0 .. n : k # 0 => k - 1 \in 0 .. n + 1 /\ k - 1 # n + 1
    OBVIOUS
  <2>3. ASSUME NEW k \in 0 .. (n + 1)
        PROVE  g[k] = IF k = 0 THEN 0 ELSE g[k - 1] + Width[s[k]]
    <3>1. CASE k = n + 1
      BY <3>1, <2>2, Zenon
    <3>2. CASE k \in 0 .. n /\ k # n + 1
      <4>1. f[k] = IF k = 0 THEN 0 ELSE f[k - 1] + Width[s[k]]
        BY <2>1, <3>2, Zenon DEF CharsTo
      <4>2. k # 0 => g[k - 1] = f[k - 1]
        BY <3>2, <2>2, Zenon
      <4>3. g[k] = f[k]
        BY <3>2, <2>2, Zenon
      <4> QED
        BY ONLY <4>1, <4>2, <4>3, Zenon
    <3> QED
      BY <3>1, <3>2, <2>2, Zenon
  <2>4. g = [k \in 0 .. (n + 1) |-> g[k]]
    BY Zenon
  <2> HIDE DEF g
  <2>5. CharsTo(s, n + 1, g)
    BY <2>3, <2>4, Zenon DEF CharsTo
  <2> QED
    BY <2>5, Zenon DEF CanChars
<1>3. CanChars(s, N)
  <2>1. 0 \in S /\ \A n \in 0 .. (N - 1) : n \in S => n + 1 \in S
    BY <1>1, <1>2
  <2> HIDE DEF S
  <2>2. \A n \in 0 .. N : n \in S
    BY <2>1, UpTo
  <2> QED
    BY <2>2 DEF S
<1> DEFINE f == CHOOSE f : CharsTo(s, N, f)
<1>4. CharsTo(s, N, f)
  BY <1>3, Zenon DEF CanChars
<1>5. Chars(s) = f[N]
  BY Zenon DEF Chars, CharsTo
<1> QED
  BY <1>4, <1>5, Zenon

(* The characters of a sequence of one, two or six tokens.                 *)
LEMMA CharsShort ==
  ASSUME NEW s \in Seq(Token)
  PROVE  /\ Len(s) = 1 => Chars(s) = Width[s[1]]
         /\ Len(s) = 2 => Chars(s) = Width[s[1]] + Width[s[2]]
         /\ Len(s) = 6 => Chars(s) = Width[s[1]] + Width[s[2]] + Width[s[3]] + Width[s[4]]
                                       + Width[s[5]] + Width[s[6]]
<1>1. PICK f : CharsTo(s, Len(s), f) /\ Chars(s) = f[Len(s)]
  BY CharsRecursion
<1>2. \A k \in 0 .. Len(s) : f[k] = IF k = 0 THEN 0 ELSE f[k - 1] + Width[s[k]]
  BY <1>1, Zenon DEF CharsTo
<1>3. \A t \in Token : Width[t] \in Nat
  BY PatternAssumption DEF Token
<1>4. \A k \in 1 .. Len(s) : Width[s[k]] \in Nat
  BY <1>3
<1>5. f[0] = 0
  BY <1>2
<1>6. \A k \in 1 .. Len(s) : f[k] = f[k - 1] + Width[s[k]]
  BY <1>2
<1>7. ASSUME Len(s) >= 1 PROVE f[1] = Width[s[1]]
  BY <1>4, <1>5, <1>6, <1>7
<1>8. ASSUME Len(s) >= 2 PROVE f[2] = Width[s[1]] + Width[s[2]]
  BY <1>4, <1>6, <1>7, <1>8
<1>9. ASSUME Len(s) = 6 PROVE f[6] = Width[s[1]] + Width[s[2]] + Width[s[3]] + Width[s[4]]
                                       + Width[s[5]] + Width[s[6]]
  <2>1. f[3] = f[2] + Width[s[3]] /\ f[4] = f[3] + Width[s[4]]
        /\ f[5] = f[4] + Width[s[5]] /\ f[6] = f[5] + Width[s[6]]
    BY <1>6, <1>9
  <2> QED
    BY <2>1, <1>4, <1>8, <1>9
<1>10. 1 >= 1 /\ 2 >= 2
  OBVIOUS
<1> QED
  BY <1>1, <1>7, <1>8, <1>9, <1>10, Zenon

-----------------------------------------------------------------------------
(* What the items of the reference amount to.                              *)

FieldsIn(p, j, k) == IF FieldAt(p, j, k) THEN 1 ELSE 0
ItemLen(p, j, k) ==
  IF ~FieldAt(p, j, k) THEN IF k = j + 1 THEN Width[p[k]] ELSE 2
  ELSE IF k = j + 5 /\ p[j + 4] \in {"HMSf", "HMSF"} THEN 8 ELSE 2
ItemText(p, j, k) ==
  IF ~FieldAt(p, j, k) THEN <<p[j + 1]>>
  ELSE IF k = j + 5 /\ p[j + 4] # "path" THEN SpecMeaning[p[j + 4]]
  ELSE Data[FieldNames[p[j + 2]]]

(* The tokens of printed texts.                                            *)
Printable ==
  {"WARN", "worker", "full", "dir", "/", "sub", "\\", "name", "f", "123", "{", "}", ":06",
   "hms", ".", "us6", "ns9"}
Word == Token \cup Printable

(* An item in terms of the tokens of the pattern.                          *)
LEMMA ItemMeans ==
  ASSUME NEW p \in Seq(Token), NEW j \in Nat, NEW k \in Nat, j < k, k <= Len(p), ItemAt(p, j, k)
  PROVE  /\ FmtLen(SubSeq(p, j + 1, k)) = ItemLen(p, j, k)
         /\ Meaning(SubSeq(p, j + 1, k)) = ItemText(p, j, k)
<1> DEFINE s == SubSeq(p, j + 1, k)
<1>1. Len(s) = k - j /\ (\A x \in 1 .. (k - j) : s[x] = p[j + x]) /\ s \in Seq(Token)
  <2>1. j <= k
    OBVIOUS
  <2> QED
    BY <2>1, PartFacts
<1>2. IsFieldItem(s) <=> FieldAt(p, j, k)
  BY FieldItemShape
<1> HIDE DEF s
<1>3. s[1] = p[j + 1]
  BY <1>1
<1>4. CASE ~FieldAt(p, j, k)
  <2>1. Meaning(s) = ItemText(p, j, k)
    BY <1>2, <1>3, <1>4, Zenon DEF Meaning, ItemText
  <2>2. CASE k = j + 1
    <3>1. Chars(s) = Width[p[k]]
      <4>1. Len(s) = 1
        BY <1>1, <2>2
      <4> QED
        BY <4>1, <1>1, <1>3, <2>2, CharsShort, Zenon
    <3> QED
      BY <3>1, <2>1, <2>2, <1>2, <1>4, Zenon DEF FmtLen, ItemLen, s
  <2>3. CASE k # j + 1
    <3>1. k = j + 2 /\ p[j + 1] \in {"{", "}"} /\ p[k] = p[j + 1]
      BY <2>3, <1>4, Zenon DEF ItemAt
    <3>2. Len(s) = 2 /\ s[2] = p[k]
      <4>0. k = j + 2
        BY <3>1
      <4>1. k - j = 2 /\ 2 \in 1 .. (k - j)
        BY ONLY <4>0, j \in Nat, k \in Nat
      <4>2. Len(s) = 2
        BY ONLY <4>1, <1>1
      <4>3. s[2] = p[j + 2]
        BY <4>1, <1>1
      <4> QED
        BY <4>2, <4>3, <3>1
    <3>3. Width[s[1]] = 1 /\ Width[s[2]] = 1
      BY <3>1, <3>2, <1>3, PatternAssumption, Zenon
    <3>4. Chars(s) = 1 + 1
      BY <3>2, <3>3, <1>1, CharsShort, Zenon
    <3>5. Chars(s) = 2
      BY <3>4
    <3> QED
      BY <3>5, <2>1, <2>3, <1>2, <1>4, Zenon DEF FmtLen, ItemLen, s
  <2> QED
    BY <2>2, <2>3
<1>5. CASE FieldAt(p, j, k)
  <2>1. k = j + 3 \/ k = j + 4 \/ k = j + 5
    BY <1>5, Zenon DEF FieldAt
  <2>2. s[2] = p[j + 2] /\ (Len(s) = 5 <=> k = j + 5) /\ (k = j + 5 => s[4] = p[j + 4])
    BY <1>1, <2>1
  <2> QED
    BY <2>2, <1>2, <1>5, Zenon DEF FmtLen, ItemLen, Meaning, ItemText, s
<1> QED
  BY <1>4, <1>5

(* What can be printed is a text.                                          *)
LEMMA PrintableWords == \A s \in Seq(Printable) : s \in Seq(Word)
  BY SeqMonotonic DEF Word

(* What get_field() gives is text.                                         *)
LEMMA DataTypes ==
  \A x \in {"Time", "File", "Function", "Line", "Level", "Message", "ThreadName"} :
    Data[x] \in Seq(Word)
<1>1. Data["Time"] \in Seq(Printable)
  BY DEF Data, Printable
<1>2. Data["File"] \in Seq(Printable)
  BY DEF Data, Printable
<1>3. Data["Function"] \in Seq(Printable)
  BY DEF Data, Printable
<1>4. Data["Line"] \in Seq(Printable)
  BY DEF Data, Printable
<1>5. Data["Level"] \in Seq(Printable)
  BY DEF Data, Printable
<1>6. Data["Message"] \in Seq(Printable)
  BY DEF Data, Printable
<1>7. Data["ThreadName"] \in Seq(Printable)
  BY DEF Data, Printable
<1> QED
  BY <1>1, <1>2, <1>3, <1>4, <1>5, <1>6, <1>7, PrintableWords, Zenon

(* Their types.                                                            *)
LEMMA ItemTypes ==
  ASSUME NEW p \in Seq(Token), NEW j \in Nat, NEW k \in Nat, j < k, k <= Len(p), ItemAt(p, j, k)
  PROVE  ItemLen(p, j, k) \in Nat /\ FieldsIn(p, j, k) \in Nat /\ ItemText(p, j, k) \in Seq(Word)
<1>1. p[j + 1] \in Token /\ p[k] \in Token
  OBVIOUS
<1>2. ItemLen(p, j, k) \in Nat
  <2>1. Width[p[k]] \in Nat
    BY <1>1, PatternAssumption DEF Token
  <2> QED
    BY <2>1 DEF ItemLen
<1>3. FieldsIn(p, j, k) \in Nat
  BY DEF FieldsIn
<1>4. CASE ~FieldAt(p, j, k)
  <2>1. <<p[j + 1]>> \in Seq(Word)
    BY <1>1 DEF Word
  <2> QED
    BY <2>1, <1>2, <1>3, <1>4, Zenon DEF ItemText
<1>5. CASE FieldAt(p, j, k) /\ k = j + 5 /\ p[j + 4] # "path"
  <2>1. IsSpecOf(p[j + 2], p[j + 4])
    <3>1. k # j + 3 /\ k # j + 4
      BY <1>5
    <3> QED
      BY <3>1, <1>5, Zenon DEF FieldAt
  <2>2. p[j + 4] \in {"HMS", "HMSf", "HMSF", "nameonly"}
    BY <2>1, <1>5, Zenon DEF IsSpecOf
  <2>3. \A x \in {"HMS", "HMSf", "HMSF", "nameonly"} : SpecMeaning[x] \in Seq(Word)
    <3>1. SpecMeaning["HMS"] \in Seq(Printable)
      BY DEF SpecMeaning, Printable
    <3>2. SpecMeaning["HMSf"] \in Seq(Printable)
      BY DEF SpecMeaning, Printable
    <3>3. SpecMeaning["HMSF"] \in Seq(Printable)
      BY DEF SpecMeaning, Printable
    <3>4. SpecMeaning["nameonly"] \in Seq(Printable)
      BY DEF SpecMeaning, Printable
    <3> QED
      BY <3>1, <3>2, <3>3, <3>4, PrintableWords, Zenon
  <2> QED
    BY <2>2, <2>3, <1>2, <1>3, <1>5, Zenon DEF ItemText
<1>6. CASE FieldAt(p, j, k) /\ ~(k = j + 5 /\ p[j + 4] # "path")
  <2>1. p[j + 2] \in Names
    BY <1>6, Zenon DEF FieldAt
  <2>2. \A x \in Names : FieldNames[x] \in {"Time", "File", "Function", "Line", "Level", "Message", "ThreadName"}
    BY DEF Names, FieldNames
  <2>3. \A x \in {"Time", "File", "Function", "Line", "Level", "Message", "ThreadName"} :
          Data[x] \in Seq(Word)
    BY DataTypes
  <2> QED
    BY <2>1, <2>2, <2>3, <1>2, <1>3, <1>6, Zenon DEF ItemText
<1> QED
  BY <1>4, <1>5, <1>6

Nothing == [fields |-> 0, chars |-> 0, text |-> <<>>]
Extended(before, item) ==
  [fields |-> before.fields + (IF IsFieldItem(item) THEN 1 ELSE 0),
   chars |-> before.chars + FmtLen(item),
   text |-> before.text \o Meaning(item)]
ReadStep(p, k, f) ==
  IF k = 0 \/ ~WellFormed(p)[k] THEN Nothing
  ELSE Extended(f[LastStart(p, k)], SubSeq(p, LastStart(p, k) + 1, k))
ReadTo(p, n, f) == f = [k \in 0 .. n |-> ReadStep(p, k, f)]
CanRead(p, n) == \E f : ReadTo(p, n, f)

(* The recursion of Reading defines a function, and this is its equation.  *)
LEMMA ReadingRecursion ==
  ASSUME NEW T, NEW p \in Seq(T)
  PROVE  \A k \in 0 .. Len(p) : Reading(p)[k] = ReadStep(p, k, Reading(p))
<1> DEFINE N == Len(p)
           S == {n \in 0 .. N : CanRead(p, n)}
<1>1. N \in Nat
  OBVIOUS
<1>2. CanRead(p, 0)
  <2> DEFINE f == [k \in 0 .. 0 |-> Nothing]
  <2>1. \A k \in 0 .. 0 : k = 0
    OBVIOUS
  <2>2. ReadTo(p, 0, f)
    BY <2>1, Zenon DEF ReadTo, ReadStep
  <2> QED
    BY <2>2, Zenon DEF CanRead
<1>3. ASSUME NEW n \in 0 .. (N - 1), CanRead(p, n) PROVE CanRead(p, n + 1)
  <2>1. PICK f : ReadTo(p, n, f)
    BY <1>3, Zenon DEF CanRead
  <2> DEFINE g == [k \in 0 .. (n + 1) |-> IF k = n + 1 THEN ReadStep(p, n + 1, f) ELSE f[k]]
  <2>2. \A k \in 0 .. n : k \in 0 .. (n + 1) /\ k # n + 1
    OBVIOUS
  <2>3. \A k \in 0 .. n : g[k] = f[k]
    BY <2>2, Zenon
  <2>4. \A k \in 0 .. (n + 1) : \A j \in 0 .. k - 1 : j \in 0 .. n
    OBVIOUS
  <2>5. ASSUME NEW k \in 0 .. (n + 1) PROVE ReadStep(p, k, g) = ReadStep(p, k, f)
    <3>1. CASE k = 0 \/ ~WellFormed(p)[k]
      BY <3>1, Zenon DEF ReadStep
    <3>2. CASE ~(k = 0 \/ ~WellFormed(p)[k])
      <4>1. k \in 1 .. N
        BY <3>2, <1>1
      <4>2. PICK j \in 0 .. k - 1 : WellFormed(p)[j] /\ ItemAt(p, j, k)
        BY <4>1, <3>2, GoodSteps, Zenon
      <4>3. LastStart(p, k) = j
        BY <4>1, <4>2, LastStartIs, Zenon
      <4>4. g[LastStart(p, k)] = f[LastStart(p, k)]
        BY <4>3, <2>3, <2>4, Zenon
      <4> HIDE DEF g
      <4> QED
        BY <4>4, <3>2, Zenon DEF ReadStep
    <3> QED
      BY <3>1, <3>2, Zenon
  <2>6. ASSUME NEW k \in 0 .. (n + 1) PROVE g[k] = ReadStep(p, k, g)
    <3>1. CASE k = n + 1
      BY <3>1, <2>5, Zenon
    <3>2. CASE k # n + 1
      <4>1. k \in 0 .. n
        BY <3>2
      <4>2. f[k] = ReadStep(p, k, f)
        BY <2>1, <4>1, Zenon DEF ReadTo
      <4> QED
        BY <4>1, <4>2, <2>3, <2>5, Zenon
    <3> QED
      BY <3>1, <3>2
  <2>7. ReadTo(p, n + 1, g)
    <3>1. g = [k \in 0 .. (n + 1) |-> g[k]]
      BY Zenon
    <3> HIDE DEF g
    <3> QED
      BY <3>1, <2>6, Zenon DEF ReadTo
  <2> HIDE DEF g
  <2> QED
    BY <2>7, Zenon DEF CanRead
<1>4. CanRead(p, N)
  <2>1. 0 \in S /\ \A n \in 0 .. (N - 1) : n \in S => n + 1 \in S
    BY <1>1, <1>2, <1>3
  <2> HIDE DEF S
  <2>2. \A n \in 0 .. N : n \in S
    BY <1>1, <2>1, UpTo
  <2> QED
    BY <2>2, <1>1 DEF S
<1>5. ReadTo(p, N, Reading(p))
  BY <1>4, Zenon DEF Reading, ReadTo, CanRead, ReadStep, Extended, Nothing
<1> DEFINE f == Reading(p)
<1> HIDE DEF f
<1>6. \A k \in 0 .. N : f[k] = ReadStep(p, k, f)
  <2>1. ReadTo(p, N, f)
    BY <1>5 DEF f
  <2> QED
    BY <2>1, Zenon DEF ReadTo
<1> QED
  BY <1>6, Zenon DEF f

(* One item more.                                                          *)
LEMMA ReadingGrows ==
  ASSUME NEW p \in Seq(Token)
  PROVE  /\ Reading(p)[0] = Nothing
         /\ \A k \in 1 .. Len(p) : \A j \in 0 .. k - 1 :
              WellFormed(p)[j] /\ ItemAt(p, j, k) =>
                /\ Reading(p)[k].fields = Reading(p)[j].fields + FieldsIn(p, j, k)
                /\ Reading(p)[k].chars = Reading(p)[j].chars + ItemLen(p, j, k)
                /\ Reading(p)[k].text = Reading(p)[j].text \o ItemText(p, j, k)
<1> DEFINE R == Reading(p)
<1>1. \A k \in 0 .. Len(p) : R[k] = ReadStep(p, k, R)
  BY ReadingRecursion
<1> HIDE DEF R
<1>2. R[0] = Nothing
  <2>1. 0 \in 0 .. Len(p)
    OBVIOUS
  <2> QED
    BY <2>1, <1>1, Zenon DEF ReadStep
<1>3. ASSUME NEW k \in 1 .. Len(p), NEW j \in 0 .. k - 1, WellFormed(p)[j], ItemAt(p, j, k)
      PROVE  /\ R[k].fields = R[j].fields + FieldsIn(p, j, k)
             /\ R[k].chars = R[j].chars + ItemLen(p, j, k)
             /\ R[k].text = R[j].text \o ItemText(p, j, k)
  <2>1. k \in 0 .. Len(p) /\ k # 0 /\ j \in Nat /\ k \in Nat /\ j < k /\ k <= Len(p)
    OBVIOUS
  <2>2. WellFormed(p)[k]
    BY <1>3, GoodSteps, Zenon
  <2>3. LastStart(p, k) = j
    BY <1>3, LastStartIs, Zenon
  <2>4. R[k] = Extended(R[j], SubSeq(p, j + 1, k))
    BY <1>1, <2>1, <2>2, <2>3, Zenon DEF ReadStep
  <2>5. /\ IsFieldItem(SubSeq(p, j + 1, k)) <=> FieldAt(p, j, k)
        /\ FmtLen(SubSeq(p, j + 1, k)) = ItemLen(p, j, k)
        /\ Meaning(SubSeq(p, j + 1, k)) = ItemText(p, j, k)
    BY <1>3, <2>1, FieldItemShape, ItemMeans, Zenon
  <2>6. (IF IsFieldItem(SubSeq(p, j + 1, k)) THEN 1 ELSE 0) = FieldsIn(p, j, k)
    BY <2>5, Zenon DEF FieldsIn
  <2> DEFINE s == SubSeq(p, j + 1, k)
  <2> HIDE DEF s
  <2>7. /\ R[k].fields = R[j].fields + (IF IsFieldItem(s) THEN 1 ELSE 0)
        /\ R[k].chars = R[j].chars + FmtLen(s)
        /\ R[k].text = R[j].text \o Meaning(s)
    <3>1. R[k] = Extended(R[j], s)
      BY <2>4 DEF s
    <3> QED
      BY ONLY <3>1 DEF Extended
  <2> QED
    BY <2>5, <2>6, <2>7, Zenon DEF s
<1> QED
  BY <1>2, <1>3, Zenon DEF R

(* What a well-formed prefix amounts to.                                   *)
ReadingOK(p, k) ==
  WellFormed(p)[k] =>
    Reading(p)[k].fields \in Nat /\ Reading(p)[k].chars \in Nat /\ Reading(p)[k].text \in Seq(Word)

(* What a well-formed prefix amounts to has its types.                     *)
LEMMA ReadingTypes ==
  ASSUME NEW p \in Seq(Token)
  PROVE  \A k \in 0 .. Len(p) : ReadingOK(p, k)
<1> DEFINE N == Len(p)
           R == Reading(p)
           S == {n \in 0 .. N : \A k \in 0 .. n : ReadingOK(p, k)}
<1>1. N \in Nat
  OBVIOUS
<1>2. 0 \in S
  <2>1. \A k \in 0 .. 0 : k = 0
    OBVIOUS
  <2>2. R[0] = Nothing
    BY ReadingGrows
  <2>3. Nothing.fields \in Nat /\ Nothing.chars \in Nat /\ Nothing.text \in Seq(Word)
    BY DEF Nothing
  <2>4. ReadingOK(p, 0)
    BY <2>2, <2>3, Zenon DEF ReadingOK
  <2>5. 0 \in 0 .. N
    BY <1>1
  <2> QED
    BY <2>1, <2>4, <2>5, Zenon
<1>3. ASSUME NEW n \in 0 .. (N - 1), n \in S PROVE n + 1 \in S
  <2>1. \A k \in 0 .. n : ReadingOK(p, k)
    BY <1>3
  <2>2. n \in Nat /\ n + 1 \in 1 .. N /\ n + 1 \in 0 .. N
    BY <1>1
  <2> HIDE DEF S, R
  <2>3. SUFFICES ASSUME WellFormed(p)[n + 1]
                 PROVE  R[n + 1].fields \in Nat /\ R[n + 1].chars \in Nat /\ R[n + 1].text \in Seq(Word)
    <3>1. ReadingOK(p, n + 1)
      BY <2>3, Zenon DEF ReadingOK, R
    <3>2. \A k \in 0 .. (n + 1) : k \in 0 .. n \/ k = n + 1
      BY <2>2
    <3>3. \A k \in 0 .. (n + 1) : ReadingOK(p, k)
      BY <2>1, <3>1, <3>2, Zenon
    <3> QED
      BY <3>3, <2>2, Zenon DEF S
  <2>4. PICK j \in 0 .. (n + 1) - 1 : WellFormed(p)[j] /\ ItemAt(p, j, n + 1)
    BY <2>2, <2>3, GoodSteps, Zenon
  <2>5. j \in Nat /\ n + 1 \in Nat /\ j < n + 1 /\ n + 1 <= Len(p) /\ j \in 0 .. n
    BY <2>2
  <2>6. R[j].fields \in Nat /\ R[j].chars \in Nat /\ R[j].text \in Seq(Word)
    BY <2>1, <2>4, <2>5, Zenon DEF ReadingOK, R
  <2>7. /\ ItemLen(p, j, n + 1) \in Nat /\ FieldsIn(p, j, n + 1) \in Nat
        /\ ItemText(p, j, n + 1) \in Seq(Word)
    BY <2>4, <2>5, ItemTypes, Zenon
  <2>8. /\ R[n + 1].fields = R[j].fields + FieldsIn(p, j, n + 1)
        /\ R[n + 1].chars = R[j].chars + ItemLen(p, j, n + 1)
        /\ R[n + 1].text = R[j].text \o ItemText(p, j, n + 1)
    BY <2>2, <2>4, ReadingGrows, Zenon DEF R
  <2>9. \A s, t \in Seq(Word) : s \o t \in Seq(Word)
    OBVIOUS
  <2>10. R[n + 1].text \in Seq(Word)
    BY <2>6, <2>7, <2>8, <2>9, Zenon
  <2>11. \A x, y \in Nat : x + y \in Nat
    OBVIOUS
  <2> QED
    BY <2>6, <2>7, <2>8, <2>10, <2>11, Zenon
<1>4. \A n \in 0 .. N : n \in S
  <2> HIDE DEF S
  <2> QED
    BY <1>1, <1>2, <1>3, UpTo
<1> QED
  BY <1>1, <1>4

(* A longer prefix amounts to no less.                                     *)
NoLess(p, j, k) ==
  WellFormed(p)[k] => /\ Reading(p)[j].fields <= Reading(p)[k].fields
                      /\ Reading(p)[j].chars <= Reading(p)[k].chars

(* A longer prefix has no fewer fields and characters.                     *)
LEMMA ReadingMonotone ==
  ASSUME NEW p \in Seq(Token), NEW j \in 0 .. Len(p), WellFormed(p)[j]
  PROVE  \A k \in j .. Len(p) : NoLess(p, j, k)
<1> DEFINE N == Len(p)
           R == Reading(p)
           S == {n \in 0 .. N : \A k \in j .. n : NoLess(p, j, k)}
<1>1. N \in Nat /\ j \in Nat
  OBVIOUS
<1>2. NoLess(p, j, j)
  <2>1. R[j].fields \in Nat /\ R[j].chars \in Nat
    BY ReadingTypes DEF ReadingOK
  <2>2. \A x \in Nat : x <= x
    OBVIOUS
  <2> QED
    BY <2>1, <2>2, Zenon DEF NoLess
<1>3. 0 \in S
  <2>1. 0 \in 0 .. N /\ \A k \in j .. 0 : k = j
    BY <1>1
  <2> QED
    BY <2>1, <1>2, Zenon
<1>4. ASSUME NEW n \in 0 .. (N - 1), n \in S PROVE n + 1 \in S
  <2>1. \A k \in j .. n : NoLess(p, j, k)
    BY <1>4
  <2>2. n \in Nat /\ n + 1 \in 1 .. N /\ n + 1 \in 0 .. N
    BY <1>1
  <2> HIDE DEF S, R
  <2>3. SUFFICES ASSUME j <= n, WellFormed(p)[n + 1]
                 PROVE  R[j].fields <= R[n + 1].fields /\ R[j].chars <= R[n + 1].chars
    <3>1. j <= n => NoLess(p, j, n + 1)
      BY <2>3, Zenon DEF NoLess, R
    <3>2. \A k \in j .. (n + 1) : k \in j .. n \/ (k = n + 1 /\ j <= n) \/ k = j
      BY <2>2, <1>1
    <3>3. \A k \in j .. (n + 1) : NoLess(p, j, k)
      BY <1>2, <2>1, <3>1, <3>2, Zenon
    <3> QED
      BY <3>3, <2>2, Zenon DEF S
  <2>4. PICK l \in 0 .. (n + 1) - 1 : WellFormed(p)[l] /\ ItemAt(p, l, n + 1)
    BY <2>2, <2>3, GoodSteps, Zenon
  <2>5. l \in Nat /\ n + 1 \in Nat /\ l < n + 1 /\ n + 1 <= Len(p) /\ l \in 0 .. n /\ l \in 0 .. N
    BY <2>2
  <2>6. j <= l
    <3>1. SUFFICES ASSUME l < j PROVE FALSE
      BY <1>1, <2>5
    <3>2. l \in 0 .. j - 1
      BY <1>1, <2>5, <3>1
    <3>3. n + 1 <= j
      BY <3>2, <2>4, <2>5, Cuts, Zenon DEF CutsAt
    <3> QED
      BY <3>3, <2>3, <2>5, <1>1
  <2>7. l \in j .. n
    BY <2>5, <2>6, <1>1
  <2>8. R[j].fields <= R[l].fields /\ R[j].chars <= R[l].chars
    BY <2>1, <2>4, <2>7, Zenon DEF NoLess, R
  <2>9. /\ R[l].fields \in Nat /\ R[l].chars \in Nat
        /\ R[j].fields \in Nat /\ R[j].chars \in Nat
    BY <2>4, <2>5, ReadingTypes, Zenon DEF ReadingOK, R
  <2>10. ItemLen(p, l, n + 1) \in Nat /\ FieldsIn(p, l, n + 1) \in Nat
    BY <2>4, <2>5, ItemTypes, Zenon
  <2>11. /\ R[n + 1].fields = R[l].fields + FieldsIn(p, l, n + 1)
         /\ R[n + 1].chars = R[l].chars + ItemLen(p, l, n + 1)
    BY <2>2, <2>4, ReadingGrows, Zenon DEF R
  <2>12. \A x, y, z \in Nat : x <= y => x <= y + z
    OBVIOUS
  <2> QED
    BY <2>8, <2>9, <2>10, <2>11, <2>12, Zenon
<1>5. \A n \in 0 .. N : n \in S
  <2> HIDE DEF S
  <2> QED
    BY <1>1, <1>3, <1>4, UpTo
<1> QED
  BY <1>1, <1>5

-----------------------------------------------------------------------------
(* The search for the end of a field and its parts.                        *)

(* r is the first place of x in s[a .. b], or 0 if there is none.          *)
First(s, a, b, x, r) ==
  \/ r = 0 /\ \A k \in a .. b : s[k] # x
  \/ r \in a .. b /\ s[r] = x /\ \A k \in a .. r - 1 : s[k] # x

(* There is one such place.                                                *)
LEMMA FirstUnique ==
  ASSUME NEW s, NEW a \in Nat, a > 0, NEW b \in Nat, NEW x, NEW r, NEW q,
         First(s, a, b, x, r), First(s, a, b, x, q)
  PROVE  r = q
<1>1. ASSUME NEW u \in a .. b, NEW v \in a .. b, s[u] = x, \A k \in a .. v - 1 : s[k] # x
      PROVE  ~(u < v)
  BY <1>1
<1>2. CASE r = 0
  BY <1>2 DEF First
<1>3. CASE q = 0
  BY <1>3 DEF First
<1>4. CASE r # 0 /\ q # 0
  <2>1. /\ r \in a .. b /\ s[r] = x /\ \A k \in a .. r - 1 : s[k] # x
        /\ q \in a .. b /\ s[q] = x /\ \A k \in a .. q - 1 : s[k] # x
    BY <1>4 DEF First
  <2>2. ~(r < q) /\ ~(q < r)
    BY <1>1, <2>1
  <2> QED
    BY <2>1, <2>2
<1> QED
  BY <1>2, <1>3, <1>4

(* The least of a set of places.                                           *)
LEMMA MinIs ==
  ASSUME NEW S \in SUBSET Nat, S # {}
  PROVE  Min(S) \in S /\ \A k \in S : Min(S) <= k
  BY Least DEF Min

(* bracket_close_idx is the first closing brace behind i.                  *)
LEMMA CloseIs ==
  ASSUME pattern \in Seq(Token), i \in 1 .. Len(pattern)
  PROVE  First(pattern, i + 1, Len(pattern), "}", CloseIdx)
<1> DEFINE I == {k \in i + 1 .. Len(pattern) : pattern[k] = "}"}
<1>0. i \in Nat /\ Len(pattern) \in Nat
  <2>1. Len(pattern) \in Nat
    OBVIOUS
  <2> QED
    BY ONLY <2>1, i \in 1 .. Len(pattern)
<1>1. CloseIdx = IF I # {} THEN Min(I) ELSE 0
  BY Zenon DEF CloseIdx, SelectInSubSeq
<1>2. CASE I = {}
  <2>1. CloseIdx = 0
    BY <1>1, <1>2, Zenon
  <2>2. \A k \in i + 1 .. Len(pattern) : pattern[k] # "}"
    BY <1>2, Zenon
  <2> QED
    BY <2>1, <2>2, Zenon DEF First
<1>3. CASE I # {}
  <2>1. CloseIdx = Min(I)
    BY <1>1, <1>3, Zenon
  <2>2. I \in SUBSET Nat
    <3>1. \A k \in i + 1 .. Len(pattern) : k \in Nat
      BY ONLY <1>0
    <3> QED
      BY <3>1, Zenon
  <2>3. Min(I) \in I /\ \A k \in I : Min(I) <= k
    <3> HIDE DEF I
    <3> QED
      BY <1>3, <2>2, MinIs
  <2> DEFINE m == Min(I)
  <2> HIDE DEF m
  <2>4. m \in i + 1 .. Len(pattern) /\ pattern[m] = "}"
    BY <2>3, Zenon DEF m
  <2>5. \A k \in i + 1 .. m - 1 : k \in i + 1 .. Len(pattern) /\ ~(m <= k)
    <3>1. m \in i + 1 .. Len(pattern)
      BY <2>4
    <3> QED
      BY ONLY <1>0, <3>1
  <2>6. \A k \in i + 1 .. m - 1 : pattern[k] # "}"
    BY <2>3, <2>5, Zenon DEF m
  <2> QED
    BY <2>1, <2>4, <2>6, Zenon DEF First, m
<1> QED
  BY <1>2, <1>3

(* The separator is the first colon of what lies between the braces.       *)
LEMMA SeparatorIs ==
  ASSUME Len(name_and_spec) \in Nat
  PROVE  First(name_and_spec, 1, Len(name_and_spec), ":", Separator)
<1> DEFINE s == name_and_spec
<1> HIDE DEF s
<1> DEFINE I == {k \in 1 .. Len(s) : s[k] = ":"}
<1>0. Len(s) \in Nat
  BY DEF s
<1>1. Separator = IF I # {} THEN Min(I) ELSE 0
  BY Zenon DEF Separator, SelectInSeq, SelectInSubSeq, s
<1>2. CASE I = {}
  <2>1. Separator = 0
    BY <1>1, <1>2, Zenon
  <2>2. \A k \in 1 .. Len(s) : s[k] # ":"
    BY <1>2, Zenon
  <2> QED
    BY <2>1, <2>2, Zenon DEF First, s
<1>3. CASE I # {}
  <2>1. Separator = Min(I)
    BY <1>1, <1>3, Zenon
  <2>2. I \in SUBSET Nat
    OBVIOUS
  <2>3. Min(I) \in I /\ \A k \in I : Min(I) <= k
    <3> HIDE DEF I
    <3> QED
      BY <1>3, <2>2, MinIs
  <2> DEFINE m == Min(I)
  <2> HIDE DEF m
  <2>4. m \in 1 .. Len(s) /\ s[m] = ":"
    BY <2>3, Zenon DEF m
  <2>5. \A k \in 1 .. m - 1 : k \in 1 .. Len(s) /\ ~(m <= k)
    BY <2>4, <1>0
  <2>6. \A k \in 1 .. m - 1 : s[k] # ":"
    BY <2>3, <2>5, Zenon DEF m
  <2> QED
    BY <2>1, <2>4, <2>6, Zenon DEF First, m, s
<1> QED
  BY <1>2, <1>3

(* What the checks of a field let through.                                 *)
FieldGood ==
  /\ CloseIdx # 0 /\ name_and_spec # <<>> /\ InTable(field_name, FieldNames)
  /\ spec_name = <<>> \/ InTable(spec_name, SpecNames)
  /\ validate_field_spec_combination(Field, FormatSpec)

FieldFaults ==
  {"UnterminatedBrace", "EmptyFieldName", "UnknownFieldName", "UnknownFormatSpec",
   "InvalidSpecUsage"}

(* Which errors the checks of a field give.                                *)
LEMMA FieldErrorIs ==
  /\ FieldGood => FieldError = IF TooManyFields THEN "TooManyFields" ELSE "None"
  /\ ~FieldGood => FieldError \in FieldFaults
  BY Zenon DEF FieldGood, FieldError, FieldFaults

(* What lies between the braces.                                           *)
LEMMA BetweenBraces ==
  ASSUME pattern \in Seq(Token), i \in 1 .. Len(pattern), CloseIdx # 0
  PROVE  /\ CloseIdx \in i + 1 .. Len(pattern) /\ pattern[CloseIdx] = "}"
         /\ name_and_spec \in Seq(Token) /\ Len(name_and_spec) = (CloseIdx - 1) - i
         /\ \A x \in 1 .. (CloseIdx - 1) - i : name_and_spec[x] = pattern[i + x]
<1> DEFINE c == CloseIdx
           n == Len(pattern)
<1>1. c \in i + 1 .. n /\ pattern[c] = "}"
  BY CloseIs, Zenon DEF First
<1>2. n \in Nat
  OBVIOUS
<1> HIDE DEF c, n
<1>3. i \in Nat
  <2>1. i \in 1 .. n
    BY DEF n
  <2> QED
    BY ONLY <2>1, <1>2
<1>4. c - 1 \in Nat /\ i <= c - 1 /\ c - 1 <= n
  <2>1. c \in i + 1 .. n
    BY <1>1
  <2> QED
    BY ONLY <2>1, <1>2, <1>3
<1>5. /\ SubSeq(pattern, i + 1, c - 1) \in Seq(Token)
      /\ Len(SubSeq(pattern, i + 1, c - 1)) = (c - 1) - i
      /\ \A x \in 1 .. ((c - 1) - i) : SubSeq(pattern, i + 1, c - 1)[x] = pattern[i + x]
  BY <1>3, <1>4, PartFacts, Zenon DEF n
<1> QED
  BY <1>1, <1>5, Zenon DEF name_and_spec, c, n

(* The spec of a field.                                                    *)
SpecAt(p, j, k) == IF k = j + 5 THEN SpecNames[p[j + 4]] ELSE "None"

(* The places around i, counted from the tokens before it.                 *)
LEMMA Around ==
  ASSUME i \in Nat
  PROVE  /\ (i - 1) + 1 = i /\ (i - 1) + 2 = i + 1 /\ (i - 1) + 3 = i + 2
         /\ (i - 1) + 4 = i + 3 /\ (i - 1) + 5 = i + 4
  OBVIOUS

(* The specs of the tables that a field may have.                          *)
LEMMA SpecOf ==
  ASSUME NEW name \in Names, NEW spec \in DOMAIN SpecNames
  PROVE  validate_field_spec_combination(FieldNames[name], SpecNames[spec]) <=> IsSpecOf(name, spec)
<1>1. FieldNames[name] = "Time" <=> name = "time"
  BY DEF FieldNames, Names
<1>2. FieldNames[name] = "File" <=> name = "file"
  BY DEF FieldNames, Names
<1>3. SpecNames[spec] = "None" <=> spec = "path"
  BY DEF SpecNames
<1>4. SpecNames[spec] \in TimeSpecs <=> spec \in {"HMS", "HMSf", "HMSF"}
  BY DEF SpecNames, TimeSpecs
<1>5. SpecNames[spec] = "FileNameOnly" <=> spec = "nameonly"
  BY DEF SpecNames
<1> QED
  BY <1>1, <1>2, <1>3, <1>4, <1>5, Zenon DEF validate_field_spec_combination, IsSpecOf

(* What lies between the braces at a and c of p is ns, and its parts are   *)
(* fname and sname.                                                        *)
Parted(p, a, c, ns, q, fname, sname) ==
  /\ ns \in Seq(Token) /\ Len(ns) = (c - 1) - a
  /\ \A x \in 1 .. (c - 1) - a : ns[x] = p[a + x]
  /\ First(ns, 1, Len(ns), ":", q)
  /\ fname = IF q = 0 THEN ns ELSE SubSeq(ns, 1, q - 1)
  /\ sname = IF q = 0 THEN <<>> ELSE SubSeq(ns, q + 1, Len(ns))

PartsAre(p, a, c, fname, sname) ==
  /\ fname[1] = p[a + 1]
  /\ \/ c = a + 2 /\ sname = <<>>
     \/ c = a + 3 /\ sname = <<>> /\ p[a + 2] = ":"
     \/ c = a + 4 /\ sname # <<>> /\ p[a + 2] = ":" /\ sname[1] = p[a + 3]

(* The parts, if the name has one token and the spec at most one.          *)
LEMMA FieldParts ==
  ASSUME NEW p, NEW a \in Nat, NEW c \in Nat, NEW ns, NEW q, NEW fname, NEW sname,
         Parted(p, a, c, ns, q, fname, sname), Len(fname) = 1, sname = <<>> \/ Len(sname) = 1
  PROVE  PartsAre(p, a, c, fname, sname)
<1> USE DEF PartsAre
<1>0. /\ ns \in Seq(Token) /\ Len(ns) = (c - 1) - a
      /\ \A x \in 1 .. (c - 1) - a : ns[x] = p[a + x]
      /\ First(ns, 1, Len(ns), ":", q)
      /\ fname = IF q = 0 THEN ns ELSE SubSeq(ns, 1, q - 1)
      /\ sname = IF q = 0 THEN <<>> ELSE SubSeq(ns, q + 1, Len(ns))
  BY Zenon DEF Parted
<1> USE <1>0
<1>1. Len(ns) \in Nat
  BY LenProperties, Zenon
<1>2. CASE q = 0
  <2>1. fname = ns /\ sname = <<>>
    BY <1>2, Zenon
  <2>2. Len(ns) = 1
    BY <2>1
  <2>3. c = a + 2 /\ 1 \in 1 .. (c - 1) - a
    <3>1. (c - 1) - a = 1
      BY <2>2, Zenon
    <3> QED
      BY ONLY <3>1, a \in Nat, c \in Nat
  <2>4. ns[1] = p[a + 1]
    BY <2>3, Zenon
  <2> QED
    BY <2>1, <2>3, <2>4, Zenon
<1>3. CASE q # 0
  <2>1. q \in 1 .. Len(ns) /\ ns[q] = ":"
    BY <1>3, Zenon DEF First
  <2>2. fname = SubSeq(ns, 1, q - 1) /\ sname = SubSeq(ns, q + 1, Len(ns))
    BY <1>3, Zenon
  <2>3. Len(fname) = q - 1 /\ \A x \in 1 .. q - 1 : fname[x] = ns[x]
    BY ONLY <2>1, <2>2, <1>0
  <2>4. q = 2
    <3>1. q - 1 = 1
      BY <2>3, Zenon
    <3> QED
      BY ONLY <2>1, <1>1, <3>1
  <2>5. fname[1] = ns[1]
    BY ONLY <2>3, <2>4
  <2>6. Len(ns) >= 2 /\ ns[2] = ":"
    BY ONLY <2>1, <2>4, <1>1
  <2>7. 1 \in 1 .. (c - 1) - a /\ 2 \in 1 .. (c - 1) - a
    BY ONLY <2>6, <1>0, a \in Nat, c \in Nat
  <2>8. ns[1] = p[a + 1] /\ ns[2] = p[a + 2]
    BY <2>7, Zenon
  <2>9. Len(sname) = Len(ns) - 2 /\ (Len(ns) >= 3 => sname[1] = ns[3])
    <3>1. sname = SubSeq(ns, 3, Len(ns))
      BY ONLY <2>2, <2>4
    <3>2. 2 + 1 = 3 /\ 2 \in Nat /\ 2 <= Len(ns) /\ Len(ns) <= Len(ns)
      BY <2>6, <1>1
    <3>3. sname = SubSeq(ns, 2 + 1, Len(ns))
      BY ONLY <3>1, <3>2
    <3>6. Len(sname) = Len(ns) - 2 /\ \A x \in 1 .. (Len(ns) - 2) : sname[x] = ns[2 + x]
      <4>1. ns \in Seq(Token)
        BY <1>0, Zenon
      <4>2. /\ Len(SubSeq(ns, 2 + 1, Len(ns))) = Len(ns) - 2
            /\ \A x \in 1 .. (Len(ns) - 2) : SubSeq(ns, 2 + 1, Len(ns))[x] = ns[2 + x]
        <5>1. \A t \in Nat : t <= Len(ns) =>
                /\ Len(SubSeq(ns, t + 1, Len(ns))) = Len(ns) - t
                /\ \A x \in 1 .. (Len(ns) - t) : SubSeq(ns, t + 1, Len(ns))[x] = ns[t + x]
          BY ONLY <1>1, <3>2, <4>1, PartFacts, Zenon
        <5> QED
          BY ONLY <5>1, <3>2, Zenon
      <4> QED
        BY ONLY <3>3, <4>2, Zenon
    <3>7. 2 + 1 = 3
      OBVIOUS
    <3> DEFINE m == Len(ns)
    <3> HIDE DEF m
    <3>4. m \in Nat /\ m >= 2
      BY <1>1, <2>6 DEF m
    <3>5. m >= 3 => 1 \in 1 .. (m - 2)
      BY ONLY <3>4
    <3> QED
      BY <3>5, <3>6, <3>7, Zenon DEF m
  <2>10. CASE sname = <<>>
    <3>1. Len(sname) = 0
      BY ONLY <2>10
    <3>2. c = a + 3
      <4>1. ((c - 1) - a) - 2 = 0
        BY <3>1, <2>9, Zenon
      <4> QED
        BY ONLY <4>1, a \in Nat, c \in Nat
    <3> QED
      BY <3>2, <2>5, <2>6, <2>8, <2>10, Zenon
  <2>11. CASE sname # <<>>
    <3>1. Len(sname) = 1
      BY <2>11, Zenon
    <3>2. c = a + 4 /\ Len(ns) >= 3 /\ 3 \in 1 .. (c - 1) - a
      <4>1. ((c - 1) - a) - 2 = 1
        BY <3>1, <2>9, Zenon
      <4>2. c = a + 4 /\ (c - 1) - a >= 3 /\ 3 \in 1 .. (c - 1) - a
        BY ONLY <4>1, a \in Nat, c \in Nat
      <4> QED
        BY <4>2, Zenon
    <3>3. sname[1] = p[a + 3]
      BY <3>2, <2>9, Zenon
    <3> QED
      BY <3>2, <3>3, <2>5, <2>6, <2>8, <2>11, Zenon
  <2> QED
    BY <2>10, <2>11, Zenon
<1> QED
  BY <1>2, <1>3, Zenon

(* Numbers of tokens.                                                      *)
LEMMA Places ==
  ASSUME NEW p \in Seq(Token), NEW a \in 1 .. Len(p)
  PROVE  Len(p) \in Nat /\ a \in Nat /\ a - 1 \in 0 .. Len(p) /\ a - 1 \in Nat
  OBVIOUS

(* A field that passes the checks is an item of the reference, with the    *)
(* field and the spec that its name and its spec stand for.                *)
LEMMA FieldFound ==
  ASSUME pattern \in Seq(Token), i \in 1 .. Len(pattern), pattern[i] = "{", FieldGood
  PROVE  /\ CloseIdx \in i + 1 .. Len(pattern) /\ FieldAt(pattern, i - 1, CloseIdx)
         /\ Field = FieldNames[pattern[i + 1]]
         /\ FormatSpec = SpecAt(pattern, i - 1, CloseIdx)
<1> DEFINE c == CloseIdx
           ns == name_and_spec
           q == Separator
<1>1. /\ c \in i + 1 .. Len(pattern) /\ pattern[c] = "}" /\ ns \in Seq(Token)
      /\ Len(ns) = (c - 1) - i /\ \A x \in 1 .. (c - 1) - i : ns[x] = pattern[i + x]
  <2>1. CloseIdx # 0
    BY Zenon DEF FieldGood
  <2> QED
    BY <2>1, BetweenBraces, Zenon
<1>2. Len(ns) \in Nat
  BY <1>1, LenProperties, Zenon
<1>3. First(ns, 1, Len(ns), ":", q)
  BY <1>2, SeparatorIs, Zenon
<1>4. /\ field_name = IF q = 0 THEN ns ELSE SubSeq(ns, 1, q - 1)
      /\ spec_name = IF q = 0 THEN <<>> ELSE SubSeq(ns, q + 1, Len(ns))
  BY Zenon DEF field_name, spec_name
<1>5. i \in Nat /\ Len(pattern) \in Nat
  BY Places, Zenon
<1>6. /\ Len(field_name) = 1 /\ field_name[1] \in Names
      /\ spec_name = <<>> \/ (Len(spec_name) = 1 /\ spec_name[1] \in DOMAIN SpecNames)
      /\ validate_field_spec_combination(FieldNames[field_name[1]], FormatSpec)
  BY Zenon DEF FieldGood, InTable, Names, Field
<1>7. /\ Field = FieldNames[field_name[1]]
      /\ FormatSpec = IF spec_name = <<>> THEN "None" ELSE SpecNames[spec_name[1]]
  BY Zenon DEF Field, FormatSpec
<1>8. /\ (i - 1) + 1 = i /\ (i - 1) + 2 = i + 1 /\ (i - 1) + 3 = i + 2
      /\ (i - 1) + 4 = i + 3 /\ (i - 1) + 5 = i + 4
  BY <1>5, Around, Zenon
<1> HIDE DEF c, ns, q
<1>9. c \in Nat
  <2>1. c \in i + 1 .. Len(pattern)
    BY <1>1
  <2> QED
    BY ONLY <2>1, <1>5
<1>10. /\ field_name[1] = pattern[i + 1]
       /\ \/ c = i + 2 /\ spec_name = <<>>
          \/ c = i + 3 /\ spec_name = <<>> /\ pattern[i + 2] = ":"
          \/ c = i + 4 /\ spec_name # <<>> /\ pattern[i + 2] = ":" /\ spec_name[1] = pattern[i + 3]
  <2>1. Len(field_name) = 1 /\ (spec_name = <<>> \/ Len(spec_name) = 1)
    BY <1>6, Zenon
  <2>2. Parted(pattern, i, c, ns, q, field_name, spec_name)
    BY <1>1, <1>3, <1>4, Zenon DEF Parted
  <2>3. PartsAre(pattern, i, c, field_name, spec_name)
    BY ONLY <1>5, <1>9, <2>1, <2>2, FieldParts, Zenon
  <2> QED
    BY ONLY <2>3, Zenon DEF PartsAre
<1>11. i + 2 # i + 4 /\ i + 3 # i + 4
  BY ONLY <1>5
<1>12. Field = FieldNames[pattern[i + 1]] /\ pattern[i + 1] \in Names
  BY <1>6, <1>7, <1>10, Zenon
<1>13. CASE c = i + 2 /\ spec_name = <<>>
  <2>1. FieldAt(pattern, i - 1, c)
    BY <1>13, <1>12, <1>1, <1>8, Zenon DEF FieldAt
  <2>2. FormatSpec = "None" /\ c # (i - 1) + 5
    BY <1>13, <1>7, <1>8, <1>11, Zenon
  <2> QED
    BY <2>1, <2>2, <1>12, <1>1, Zenon DEF SpecAt, c
<1>14. CASE c = i + 3 /\ spec_name = <<>> /\ pattern[i + 2] = ":"
  <2>1. FieldAt(pattern, i - 1, c)
    BY <1>14, <1>12, <1>1, <1>8, Zenon DEF FieldAt
  <2>2. FormatSpec = "None" /\ c # (i - 1) + 5
    BY <1>14, <1>7, <1>8, <1>11, Zenon
  <2> QED
    BY <2>1, <2>2, <1>12, <1>1, Zenon DEF SpecAt, c
<1>15. CASE c = i + 4 /\ spec_name # <<>> /\ pattern[i + 2] = ":" /\ spec_name[1] = pattern[i + 3]
  <2>1. FormatSpec = SpecNames[pattern[i + 3]] /\ pattern[i + 3] \in DOMAIN SpecNames
    BY <1>15, <1>6, <1>7, Zenon
  <2>2. IsSpecOf(pattern[i + 1], pattern[i + 3])
    BY <2>1, <1>6, <1>10, <1>12, SpecOf, Zenon
  <2>3. FieldAt(pattern, i - 1, c)
    BY <2>2, <1>15, <1>12, <1>1, <1>8, Zenon DEF FieldAt
  <2>4. FormatSpec = SpecAt(pattern, i - 1, c)
    BY <2>1, <1>15, <1>8, Zenon DEF SpecAt
  <2> QED
    BY <2>3, <2>4, <1>12, <1>1, Zenon DEF c
<1> QED
  BY <1>10, <1>13, <1>14, <1>15, Zenon

PartsMade(p, a, c, ns, fname, sname) ==
  /\ ns # <<>> /\ Len(fname) = 1 /\ fname[1] = p[a + 1]
  /\ c # a + 4 => sname = <<>>
  /\ c = a + 4 => Len(sname) = 1 /\ sname[1] = p[a + 3]

(* The parts of a field of the reference.                                  *)
LEMMA FieldPartsOf ==
  ASSUME NEW p, NEW a \in Nat, NEW c \in Nat, NEW ns, NEW q, NEW fname, NEW sname,
         Parted(p, a, c, ns, q, fname, sname), p[a + 1] # ":",
         c = a + 2 \/ (c = a + 3 /\ p[a + 2] = ":") \/ (c = a + 4 /\ p[a + 2] = ":")
  PROVE  PartsMade(p, a, c, ns, fname, sname)
<1> USE DEF PartsMade
<1>0. /\ ns \in Seq(Token) /\ Len(ns) = (c - 1) - a
      /\ \A x \in 1 .. (c - 1) - a : ns[x] = p[a + x]
      /\ First(ns, 1, Len(ns), ":", q)
      /\ fname = IF q = 0 THEN ns ELSE SubSeq(ns, 1, q - 1)
      /\ sname = IF q = 0 THEN <<>> ELSE SubSeq(ns, q + 1, Len(ns))
  BY Zenon DEF Parted
<1>1. ns \in Seq(Token) /\ Len(ns) \in Nat
  BY <1>0, LenProperties, Zenon
<1>2. c = a + 2 \/ c = a + 3 \/ c = a + 4
  BY Zenon
<1>3. 1 \in 1 .. (c - 1) - a /\ (c # a + 2 => 2 \in 1 .. (c - 1) - a)
      /\ (c = a + 4 => 3 \in 1 .. (c - 1) - a)
  BY ONLY <1>2, a \in Nat, c \in Nat
<1>4. ns[1] = p[a + 1] /\ (c # a + 2 => ns[2] = p[a + 2]) /\ (c = a + 4 => ns[3] = p[a + 3])
  BY <1>0, <1>3, Zenon
<1>5. ns # <<>>
  <2>1. Len(ns) # 0
    <3>1. (c - 1) - a # 0
      BY ONLY <1>2, a \in Nat, c \in Nat
    <3> QED
      BY <3>1, <1>0, Zenon
  <2> QED
    BY ONLY <2>1
<1>6. CASE c = a + 2
  <2>1. Len(ns) = 1
    <3>1. (c - 1) - a = 1
      BY ONLY <1>6, a \in Nat, c \in Nat
    <3> QED
      BY <3>1, <1>0, Zenon
  <2>2. q = 0
    <3>1. \A k \in 1 .. Len(ns) : k = 1
      BY ONLY <2>1
    <3> QED
      BY <3>1, <1>0, <1>4, Zenon DEF First
  <2>3. fname = ns /\ sname = <<>>
    BY <2>2, <1>0, Zenon
  <2>4. c # a + 4
    BY ONLY <1>6, a \in Nat, c \in Nat
  <2> QED
    BY <2>1, <2>3, <2>4, <1>4, <1>5, Zenon
<1>7. CASE c # a + 2
  <2>1. p[a + 2] = ":"
    BY <1>7, Zenon
  <2>2. q = 2
    <3>1. Len(ns) >= 2
      <4>1. (c - 1) - a >= 2
        BY ONLY <1>2, <1>7, a \in Nat, c \in Nat
      <4> QED
        BY <4>1, <1>0, Zenon
    <3>2. 2 \in 1 .. Len(ns) /\ (\A k \in 1 .. 2 - 1 : k = 1) /\ 1 \in Nat /\ 1 > 0
      BY ONLY <1>1, <3>1
    <3>3. First(ns, 1, Len(ns), ":", 2)
      BY <3>2, <2>1, <1>4, <1>7, Zenon DEF First
    <3> QED
      BY <3>2, <3>3, <1>0, <1>1, FirstUnique, Zenon
  <2>3. fname = SubSeq(ns, 1, 2 - 1) /\ sname = SubSeq(ns, 2 + 1, Len(ns)) 
    <3>1. 2 # 0
      OBVIOUS
    <3> QED
      BY <3>1, <2>2, <1>0, Zenon
  <2>4. (c - 1) - a >= 2 /\ (c - 1) - a <= 3 /\ (c = a + 4 <=> (c - 1) - a = 3)
    BY ONLY <1>2, <1>7, a \in Nat, c \in Nat
  <2>5. Len(ns) >= 2 /\ Len(ns) <= 3 /\ (c = a + 4 <=> Len(ns) = 3)
    BY <2>4, <1>0, Zenon
  <2>6. Len(fname) = 1 /\ fname[1] = ns[1]
    BY ONLY <1>1, <2>3, <2>5
  <2>7. CASE c = a + 4
    <3>1. Len(ns) = 3
      BY <2>5, <2>7
    <3>2. Len(SubSeq(ns, 3, Len(ns))) = 1 /\ SubSeq(ns, 3, Len(ns))[1] = ns[3]
      BY ONLY <1>1, <3>1
    <3>3. sname = SubSeq(ns, 3, Len(ns))
      BY ONLY <2>3
    <3> QED
      BY <3>2, <3>3, <2>6, <2>7, <1>4, <1>5, Zenon
  <2>8. CASE c # a + 4
    <3>0. Len(ns) # 3 /\ Len(ns) >= 2 /\ Len(ns) <= 3
      BY <2>5, <2>8, Zenon
    <3>1. Len(ns) = 2
      <4>1. \A x \in Nat : x # 3 /\ x >= 2 /\ x <= 3 => x = 2
        OBVIOUS
      <4> QED
        BY <4>1, <1>1, <3>0, Zenon
    <3>2. SubSeq(ns, 3, Len(ns)) = <<>>
      BY ONLY <1>1, <3>1
    <3>3. sname = SubSeq(ns, 3, Len(ns))
      BY ONLY <2>3
    <3> QED
      BY <3>2, <3>3, <2>6, <2>8, <1>4, <1>5, Zenon
  <2> QED
    BY <2>7, <2>8, Zenon
<1> QED
  BY <1>6, <1>7, Zenon

(* A field from a to e.                                                    *)
Closed(p, a, e) ==
  /\ First(p, a + 1, Len(p), "}", e) /\ p[a] = "{" /\ p[a + 1] \in Names
  /\ \/ e = a + 2
     \/ e = a + 3 /\ p[a + 2] = ":"
     \/ e = a + 4 /\ p[a + 2] = ":" /\ IsSpecOf(p[a + 1], p[a + 3])

(* The first closing brace behind a field of the reference is its own.     *)
LEMMA FieldCloses ==
  ASSUME NEW p \in Seq(Token), NEW a \in Nat, a > 0, NEW e \in Nat, e <= Len(p), FieldAt(p, a - 1, e)
  PROVE  Closed(p, a, e)
<1> USE DEF Closed
<1>1. /\ (a - 1) + 1 = a /\ (a - 1) + 2 = a + 1 /\ (a - 1) + 3 = a + 2
      /\ (a - 1) + 4 = a + 3 /\ (a - 1) + 5 = a + 4
  OBVIOUS
<1>2. /\ p[a] = "{" /\ p[a + 1] \in Names /\ p[e] = "}"
      /\ \/ e = a + 2
         \/ e = a + 3 /\ p[a + 2] = ":"
         \/ e = a + 4 /\ p[a + 2] = ":" /\ IsSpecOf(p[a + 1], p[a + 3])
  BY <1>1, Zenon DEF FieldAt
<1>3. \A x \in Names : x # "}"
  BY NamesAre
<1>4. \A x, y : IsSpecOf(x, y) => y # "}"
  BY DEF IsSpecOf
<1>5. ":" # "}"
  OBVIOUS
<1>6. e \in a + 1 .. Len(p)
  <2>1. e = a + 2 \/ e = a + 3 \/ e = a + 4
    BY <1>2, Zenon
  <2>2. Len(p) \in Nat
    OBVIOUS
  <2> QED
    BY ONLY <2>1, <2>2, a \in Nat, e \in Nat, e <= Len(p)
<1>7. ASSUME NEW k \in a + 1 .. e - 1 PROVE p[k] # "}"
  <2>1. CASE e = a + 2
    <3>1. k = a + 1
      BY ONLY <2>1, a \in Nat, k \in a + 1 .. e - 1
    <3> QED
      BY <3>1, <1>2, <1>3, Zenon
  <2>2. CASE e = a + 3 /\ p[a + 2] = ":"
    <3>1. k = a + 1 \/ k = a + 2
      BY ONLY <2>2, a \in Nat, k \in a + 1 .. e - 1
    <3> QED
      BY <3>1, <2>2, <1>2, <1>3, <1>5, Zenon
  <2>3. CASE e = a + 4 /\ p[a + 2] = ":" /\ IsSpecOf(p[a + 1], p[a + 3])
    <3>0. e = a + 4
      BY <2>3
    <3>1. k = a + 1 \/ k = a + 2 \/ k = a + 3
      BY ONLY <3>0, a \in Nat, k \in a + 1 .. e - 1
    <3> QED
      BY <3>1, <2>3, <1>2, <1>3, <1>4, <1>5, Zenon
  <2> QED
    BY <2>1, <2>2, <2>3, <1>2, Zenon
<1> QED
  BY <1>2, <1>6, <1>7, Zenon DEF First

(* A field of the reference passes the checks.                             *)
LEMMA FieldComplete ==
  ASSUME pattern \in Seq(Token), i \in 1 .. Len(pattern),
         NEW e \in Nat, e <= Len(pattern), FieldAt(pattern, i - 1, e)
  PROVE  FieldGood
<1> DEFINE ns == name_and_spec
           q == Separator
<1>1. i \in Nat /\ i > 0 /\ Len(pattern) \in Nat
  <2>1. i \in Nat /\ Len(pattern) \in Nat
    BY Places, Zenon
  <2> QED
    BY <2>1
<1>2. /\ First(pattern, i + 1, Len(pattern), "}", e) /\ pattern[i] = "{" /\ pattern[i + 1] \in Names
      /\ \/ e = i + 2
         \/ e = i + 3 /\ pattern[i + 2] = ":"
         \/ e = i + 4 /\ pattern[i + 2] = ":" /\ IsSpecOf(pattern[i + 1], pattern[i + 3])
  <2>1. Closed(pattern, i, e)
    BY <1>1, FieldCloses, Zenon
  <2> QED
    BY ONLY <2>1, Zenon DEF Closed
<1>3. CloseIdx = e
  <2>1. First(pattern, i + 1, Len(pattern), "}", CloseIdx)
    BY CloseIs, Zenon
  <2>2. i + 1 \in Nat /\ i + 1 > 0
    BY ONLY <1>1
  <2> QED
    BY ONLY <2>1, <2>2, <1>1, <1>2, FirstUnique, Zenon
<1>4. CloseIdx # 0
  <2>1. e = i + 2 \/ e = i + 3 \/ e = i + 4
    BY <1>2, Zenon
  <2>2. e # 0
    BY ONLY <2>1, <1>1
  <2> QED
    BY <2>2, <1>3, Zenon
<1>5. /\ ns \in Seq(Token) /\ Len(ns) = (e - 1) - i
      /\ \A x \in 1 .. (e - 1) - i : ns[x] = pattern[i + x]
  BY <1>3, <1>4, BetweenBraces, Zenon
<1>6. Len(ns) \in Nat
  BY <1>5, LenProperties, Zenon
<1>7. First(ns, 1, Len(ns), ":", q)
  BY <1>6, SeparatorIs, Zenon
<1>8. Parted(pattern, i, e, ns, q, field_name, spec_name)
  BY <1>5, <1>7, Zenon DEF Parted, field_name, spec_name
<1> HIDE DEF ns, q
<1>9. pattern[i + 1] # ":"
  <2>1. \A x \in Names : x # ":"
    BY NamesAre
  <2> QED
    BY <2>1, <1>2, Zenon
<1>10. /\ ns # <<>> /\ Len(field_name) = 1 /\ field_name[1] = pattern[i + 1]
       /\ e # i + 4 => spec_name = <<>>
       /\ e = i + 4 => Len(spec_name) = 1 /\ spec_name[1] = pattern[i + 3]
  <2>1. e = i + 2 \/ (e = i + 3 /\ pattern[i + 2] = ":") \/ (e = i + 4 /\ pattern[i + 2] = ":")
    BY <1>2, Zenon
  <2>2. PartsMade(pattern, i, e, ns, field_name, spec_name)
    BY ONLY <2>1, <1>1, <1>8, <1>9, e \in Nat, FieldPartsOf, Zenon
  <2> QED
    BY ONLY <2>2, Zenon DEF PartsMade
<1>11. Field = FieldNames[pattern[i + 1]]
  BY <1>10, Zenon DEF Field
<1>12. InTable(field_name, FieldNames)
  BY <1>10, <1>2, Zenon DEF InTable, Names
<1>13. CASE e = i + 4
  <2>1. IsSpecOf(pattern[i + 1], pattern[i + 3])
    <3>1. e # i + 2 /\ e # i + 3
      BY ONLY <1>13, <1>1
    <3> QED
      BY <3>1, <1>2, Zenon
  <2>2. Len(spec_name) = 1 /\ spec_name[1] = pattern[i + 3]
    BY <1>10, <1>13, Zenon
  <2>3. spec_name # <<>>
    BY ONLY <2>2
  <2>4. \A x, y : IsSpecOf(x, y) => y \in DOMAIN SpecNames
    BY DEF IsSpecOf, SpecNames
  <2>5. InTable(spec_name, SpecNames)
    BY <2>1, <2>2, <2>4, Zenon DEF InTable
  <2>6. FormatSpec = SpecNames[pattern[i + 3]]
    BY <2>2, <2>3, Zenon DEF FormatSpec
  <2>7. validate_field_spec_combination(Field, FormatSpec)
    BY <2>1, <2>4, <2>6, <1>2, <1>11, SpecOf, Zenon
  <2> QED
    BY <2>5, <2>7, <1>4, <1>10, <1>12, Zenon DEF FieldGood, ns
<1>14. CASE e # i + 4
  <2>1. spec_name = <<>> /\ FormatSpec = "None"
    BY <1>14, <1>10, Zenon DEF FormatSpec
  <2>2. validate_field_spec_combination(Field, FormatSpec)
    BY <2>1, Zenon DEF validate_field_spec_combination
  <2> QED
    BY <2>1, <2>2, <1>4, <1>10, <1>12, Zenon DEF FieldGood, ns
<1> QED
  BY <1>13, <1>14, Zenon

-----------------------------------------------------------------------------
(* The inductive invariant: parse_pattern() has read whole items, has      *)
(* counted for them what the reference counts, and stops where the next    *)
(* item is missing or does not fit.                                        *)

FieldKinds == {"Time", "File", "Function", "Line", "Level", "Message", "ThreadName"}
SpecKinds == {"None", "TimeHMS", "TimeHMSf", "TimeHMSF", "FileNameOnly"}
FieldRecs ==
  {r \in [field : FieldKinds, spec : SpecKinds] : validate_field_spec_combination(r.field, r.spec)}
Faults == FieldFaults \cup {"UnmatchedClosingBrace"}
Limits == {"TooManyFields", "NotConstant"}

Types ==
  /\ pattern \in Seq(Token) /\ i \in 1 .. Len(pattern) + 1
  /\ fmt_str \in Seq(Token) /\ fmt_str_len \in 0 .. MaxFmtStrLen
  /\ fields \in Seq(FieldRecs) /\ Len(fields) <= MaxFields
  /\ error \in {"None"} \cup Faults \cup Limits /\ pc \in {"loop", "done"}

Consumed == WellFormed(pattern)[i - 1]

StoppedAtFault ==
  error \in Faults =>
    i <= Len(pattern) /\ \A k \in i .. Len(pattern) : ~ItemAt(pattern, i - 1, k)

Counted ==
  error = "None" => /\ Len(fields) = Reading(pattern)[i - 1].fields
                    /\ fmt_str_len = Reading(pattern)[i - 1].chars

Exceeds(p, k) == Reading(p)[k].fields > MaxFields \/ Reading(p)[k].chars > MaxFmtStrLen

StoppedAtLimit ==
  error \in Limits => \E k \in i .. Len(pattern) : ItemAt(pattern, i - 1, k) /\ Exceeds(pattern, k)

Ended == /\ pc = "loop" => error = "None"
         /\ pc = "done" /\ error = "None" => i = Len(pattern) + 1

IInv == Types /\ Consumed /\ StoppedAtFault /\ Counted /\ StoppedAtLimit /\ Ended

(* The errors are different from each other.                               *)
LEMMA ErrorKinds ==
  /\ "None" \notin Faults /\ "None" \notin Limits
  /\ "NotConstant" \notin Faults /\ "NotConstant" \in Limits /\ "NotConstant" # "None"
  /\ "TooManyFields" \notin Faults /\ "TooManyFields" \in Limits /\ "TooManyFields" # "None"
  /\ \A e \in Faults : e \notin Limits /\ e # "None"
  BY DEF Faults, FieldFaults, Limits

(* Tokens that are read next.                                              *)
LEMMA NextPlaces ==
  ASSUME NEW n \in Nat, NEW a \in 1 .. n + 1, a <= n, NEW k \in a .. n
  PROVE  /\ a \in Nat /\ a \in 1 .. n /\ a - 1 \in Nat /\ a - 1 \in 0 .. n /\ a - 1 \in 0 .. k - 1
         /\ k \in 1 .. n /\ k \in Nat /\ k \in 0 .. n /\ a - 1 < k /\ k <= n
         /\ k + 1 \in 1 .. n + 1 /\ (k + 1) - 1 = k
  OBVIOUS

(* An item that is forwarded or expanded keeps the invariant, whether it   *)
(* fits into fmt_str or not.                                               *)
LEMMA PushKeeps ==
  ASSUME IInv, pc = "loop", i <= Len(pattern), NEW k \in i .. Len(pattern),
         ItemAt(pattern, i - 1, k), NEW s \in Seq(Token), Chars(s) = ItemLen(pattern, i - 1, k),
         Push(s, k + 1), fields' \in Seq(FieldRecs), Len(fields') <= MaxFields,
         Len(fields') = Len(fields) + FieldsIn(pattern, i - 1, k)
  PROVE  IInv'
<1> DEFINE p == pattern
           R == Reading(pattern)
           n == Len(pattern)
<1>1. /\ p \in Seq(Token) /\ i \in 1 .. n + 1 /\ fmt_str \in Seq(Token)
      /\ fmt_str_len \in 0 .. MaxFmtStrLen
  BY Zenon DEF IInv, Types
<1>2. n \in Nat
  BY <1>1, LenProperties, Zenon
<1>3. /\ i \in Nat /\ i \in 1 .. n /\ i - 1 \in Nat /\ i - 1 \in 0 .. n /\ i - 1 \in 0 .. k - 1
      /\ k \in 1 .. n /\ k \in Nat /\ k \in 0 .. n /\ i - 1 < k /\ k <= n
      /\ k + 1 \in 1 .. n + 1 /\ (k + 1) - 1 = k
  BY <1>1, <1>2, NextPlaces, Zenon
<1>4. error = "None" /\ WellFormed(p)[i - 1]
  BY Zenon DEF IInv, Ended, Consumed
<1>5. Len(fields) = R[i - 1].fields /\ fmt_str_len = R[i - 1].chars
  BY <1>4, Zenon DEF IInv, Counted
<1>6. WellFormed(p)[k]
  BY <1>1, <1>3, <1>4, GoodSteps, Zenon
<1>7. /\ R[k].fields = R[i - 1].fields + FieldsIn(p, i - 1, k)
      /\ R[k].chars = R[i - 1].chars + ItemLen(p, i - 1, k)
  BY <1>1, <1>3, <1>4, ReadingGrows, Zenon
<1>8. R[k].fields = Len(fields') /\ R[k].chars = fmt_str_len + Chars(s)
  BY <1>5, <1>7, Zenon
<1>9. Chars(s) \in Nat
  <2>1. ItemLen(p, i - 1, k) \in Nat
    BY ONLY <1>1, <1>3, ItemAt(pattern, i - 1, k), ItemTypes, Zenon
  <2> QED
    BY <2>1, Zenon
<1>10. CASE fmt_str_len + Chars(s) <= MaxFmtStrLen
  <2>1. /\ fmt_str' = fmt_str \o s /\ fmt_str_len' = fmt_str_len + Chars(s) /\ i' = k + 1
        /\ pattern' = pattern /\ error' = error /\ pc' = pc
    BY <1>10, Zenon DEF Push
  <2>2. i' - 1 = k /\ i' \in 1 .. n + 1
    BY <2>1, <1>3, Zenon
  <2>3. fmt_str' \in Seq(Token)
    BY <2>1, <1>1, ConcatProperties, Zenon
  <2>4. fmt_str_len' \in 0 .. MaxFmtStrLen
    <3>1. MaxFmtStrLen \in Nat
      BY PatternAssumption
    <3>2. \A x, y \in Nat : x + y <= MaxFmtStrLen => x + y \in 0 .. MaxFmtStrLen
      BY ONLY <3>1
    <3>3. fmt_str_len \in Nat
      BY ONLY <1>1, <3>1
    <3> QED
      BY <2>1, <3>2, <3>3, <1>9, <1>10, Zenon
  <2>5. Types'
    <3>1. error' \in {"None"} \cup Faults \cup Limits /\ pc' \in {"loop", "done"}
      BY <2>1, <1>4, Zenon
    <3> QED
      BY <2>1, <2>2, <2>3, <2>4, <3>1, <1>1, Zenon DEF Types
  <2>6. Consumed'
    BY <2>1, <2>2, <1>6, Zenon DEF Consumed
  <2>7. StoppedAtFault' /\ StoppedAtLimit'
    BY <2>1, <1>4, ErrorKinds, Zenon DEF StoppedAtFault, StoppedAtLimit
  <2>8. Counted'
    BY <2>1, <2>2, <1>8, Zenon DEF Counted
  <2>9. Ended'
    BY <2>1, <1>4, Zenon DEF Ended
  <2> QED
    BY <2>5, <2>6, <2>7, <2>8, <2>9, Zenon DEF IInv
<1>11. CASE ~(fmt_str_len + Chars(s) <= MaxFmtStrLen)
  <2>1. /\ error' = "NotConstant" /\ pc' = "done" /\ pattern' = pattern /\ i' = i
        /\ fmt_str' = fmt_str /\ fmt_str_len' = fmt_str_len
    BY <1>11, Zenon DEF Push
  <2>2. Types'
    BY <2>1, <1>1, ErrorKinds, Zenon DEF Types
  <2>3. Consumed'
    BY <2>1, <1>4, Zenon DEF Consumed
  <2>4. StoppedAtFault' /\ Counted' /\ Ended'
    BY <2>1, ErrorKinds, Zenon DEF StoppedAtFault, Counted, Ended
  <2>5. R[k].chars > MaxFmtStrLen
    <3>1. MaxFmtStrLen \in Nat
      BY PatternAssumption
    <3>2. \A x, y \in Nat : ~(x + y <= MaxFmtStrLen) => x + y > MaxFmtStrLen
      BY ONLY <3>1
    <3>3. fmt_str_len \in Nat
      BY ONLY <1>1, <3>1
    <3> QED
      BY <3>2, <3>3, <1>8, <1>9, <1>11, Zenon
  <2>6. StoppedAtLimit'
    BY <2>1, <2>5, Zenon DEF StoppedAtLimit, Exceeds
  <2> QED
    BY <2>2, <2>3, <2>4, <2>6, Zenon DEF IInv
<1> QED
  BY <1>10, <1>11, Zenon

(* A refusal keeps the invariant.                                          *)
LEMMA RejectKeeps ==
  ASSUME IInv, NEW e, Reject(e),
         \/ /\ e \in Faults /\ i <= Len(pattern)
            /\ \A k \in i .. Len(pattern) : ~ItemAt(pattern, i - 1, k)
         \/ /\ e = "TooManyFields"
            /\ \E k \in i .. Len(pattern) : ItemAt(pattern, i - 1, k) /\ Exceeds(pattern, k)
  PROVE  IInv'
<1>1. /\ error' = e /\ pc' = "done" /\ pattern' = pattern /\ i' = i
      /\ fmt_str' = fmt_str /\ fmt_str_len' = fmt_str_len /\ fields' = fields
  BY Zenon DEF Reject
<1>2. Types'
  <2>1. e \in {"None"} \cup Faults \cup Limits
    BY ErrorKinds, Zenon
  <2> QED
    BY <1>1, <2>1, Zenon DEF IInv, Types
<1>3. Consumed'
  BY <1>1, Zenon DEF IInv, Consumed
<1>4. Counted' /\ Ended'
  BY <1>1, ErrorKinds, Zenon DEF Counted, Ended
<1>5. StoppedAtFault'
  BY <1>1, ErrorKinds, Zenon DEF StoppedAtFault
<1>6. StoppedAtLimit'
  BY <1>1, ErrorKinds, Zenon DEF StoppedAtLimit, Exceeds
<1> QED
  BY <1>2, <1>3, <1>4, <1>5, <1>6, Zenon DEF IInv

(* Short sequences.                                                        *)
LEMMA Two ==
  ASSUME NEW S, NEW x \in S, NEW y \in S
  PROVE  <<x, y>> \in Seq(S) /\ Len(<<x, y>>) = 2 /\ <<x, y>>[1] = x /\ <<x, y>>[2] = y
  OBVIOUS
(* Sequences of six tokens.                                                *)
LEMMA Six ==
  ASSUME NEW S, NEW x1 \in S, NEW x2 \in S, NEW x3 \in S, NEW x4 \in S, NEW x5 \in S, NEW x6 \in S
  PROVE  LET s == <<x1, x2, x3, x4, x5, x6>>
         IN  /\ s \in Seq(S) /\ Len(s) = 6 /\ s[1] = x1 /\ s[2] = x2 /\ s[3] = x3
             /\ s[4] = x4 /\ s[5] = x5 /\ s[6] = x6
  OBVIOUS

(* The format strings of the items.                                        *)
LEMMA TokenChars ==
  /\ \A t \in {"{", "}", ".", ":06", ":09"} : t \in Token
  /\ \A s \in {<<"{", "{">>, <<"}", "}">>, <<"{", "}">>} : s \in Seq(Token) /\ Chars(s) = 2
  /\ \A t \in {":06", ":09"} :
       LET s == <<"{", "}", ".", "{", t, "}">> IN s \in Seq(Token) /\ Chars(s) = 8
  /\ \A t \in Token : <<t>> \in Seq(Token) /\ Chars(<<t>>) = Width[t]
<1>0. 1 + 1 = 2 /\ 1 + 1 + 1 + 1 + 3 + 1 = 8
  OBVIOUS
<1>1. \A t \in {"{", "}", "."} : t \in Token /\ Width[t] = 1
  BY PatternAssumption, Zenon DEF Token
<1>2. \A t \in {":06", ":09"} : t \in Token /\ Width[t] = 3
  BY PatternAssumption, Zenon DEF Token
<1>3. ASSUME NEW x \in {"{", "}"}, NEW y \in {"{", "}"}
      PROVE  <<x, y>> \in Seq(Token) /\ Chars(<<x, y>>) = 2
  <2> DEFINE s == <<x, y>>
  <2>1. x \in Token /\ y \in Token /\ Width[x] = 1 /\ Width[y] = 1
    BY <1>1
  <2>2. s \in Seq(Token) /\ Len(s) = 2 /\ s[1] = x /\ s[2] = y
    BY ONLY <2>1, Two, Zenon
  <2> HIDE DEF s
  <2>3. Chars(s) = 1 + 1
    BY <2>1, <2>2, CharsShort, Zenon
  <2> QED
    BY <1>0, <2>2, <2>3, Zenon DEF s
<1>4. ASSUME NEW t \in {":06", ":09"}
      PROVE  /\ <<"{", "}", ".", "{", t, "}">> \in Seq(Token)
             /\ Chars(<<"{", "}", ".", "{", t, "}">>) = 8
  <2> DEFINE s == <<"{", "}", ".", "{", t, "}">>
  <2>1. t \in Token /\ Width[t] = 3 /\ "{" \in Token /\ "}" \in Token /\ "." \in Token
        /\ Width["{"] = 1 /\ Width["}"] = 1 /\ Width["."] = 1
    BY <1>1, <1>2
  <2>2. s \in Seq(Token) /\ Len(s) = 6 /\ s[1] = "{" /\ s[2] = "}" /\ s[3] = "."
        /\ s[4] = "{" /\ s[5] = t /\ s[6] = "}"
    BY ONLY <2>1, Six, Zenon
  <2> HIDE DEF s
  <2>3. Chars(s) = Width[s[1]] + Width[s[2]] + Width[s[3]] + Width[s[4]] + Width[s[5]] + Width[s[6]]
    BY <2>2, CharsShort, Zenon
  <2>4. Chars(s) = 1 + 1 + 1 + 1 + 3 + 1
    BY <2>1, <2>2, <2>3, Zenon
  <2> QED
    BY <1>0, <2>2, <2>4, Zenon DEF s
<1>5. ASSUME NEW t \in Token PROVE <<t>> \in Seq(Token) /\ Chars(<<t>>) = Width[t]
  <2> DEFINE s == <<t>>
  <2>1. s \in Seq(Token) /\ Len(s) = 1 /\ s[1] = t
    OBVIOUS
  <2> HIDE DEF s
  <2>2. Chars(s) = Width[t]
    BY <2>1, CharsShort, Zenon
  <2> QED
    BY <2>1, <2>2, Zenon DEF s
<1>6. \A t \in {"{", "}", ".", ":06", ":09"} : t \in Token
  BY <1>1, <1>2, Zenon
<1>7. \A s \in {<<"{", "{">>, <<"}", "}">>, <<"{", "}">>} : s \in Seq(Token) /\ Chars(s) = 2
  <2>1. "{" \in {"{", "}"} /\ "}" \in {"{", "}"}
    OBVIOUS
  <2> QED
    BY <1>3, <2>1, Zenon
<1> QED
  BY <1>4, <1>5, <1>6, <1>7, Zenon

(* Words and doubled braces are no fields.                                 *)
LEMMA PlainItems ==
  ASSUME NEW p, NEW a \in Nat, a > 0
  PROVE  /\ a = (a - 1) + 1 /\ a + 1 = (a - 1) + 2
         /\ ~FieldAt(p, a - 1, a) /\ ItemLen(p, a - 1, a) = Width[p[a]] /\ FieldsIn(p, a - 1, a) = 0
         /\ ~FieldAt(p, a - 1, a + 1) /\ ItemLen(p, a - 1, a + 1) = 2
         /\ FieldsIn(p, a - 1, a + 1) = 0
<1>1. /\ a = (a - 1) + 1 /\ a # (a - 1) + 3 /\ a # (a - 1) + 4 /\ a # (a - 1) + 5
      /\ a + 1 # (a - 1) + 1 /\ a + 1 # (a - 1) + 3 /\ a + 1 # (a - 1) + 4 /\ a + 1 # (a - 1) + 5
      /\ a + 1 = (a - 1) + 2
  OBVIOUS
<1>2. ~FieldAt(p, a - 1, a) /\ ~FieldAt(p, a - 1, a + 1)
  BY <1>1, Zenon DEF FieldAt
<1> QED
  BY <1>1, <1>2, Zenon DEF ItemLen, FieldsIn

(* The initial states.                                                     *)
LEMMA InitIInv == Init => IInv
<1> SUFFICES ASSUME Init PROVE IInv
  OBVIOUS
<1>1. pattern \in Seq(Token)
  BY PatternTokens, Zenon DEF Init
<1>2. /\ i = 1 /\ fmt_str = <<>> /\ fmt_str_len = 0 /\ fields = <<>> /\ error = "None" /\ pc = "loop"
  BY DEF Init
<1>3. 1 - 1 = 0 /\ 1 \in 1 .. Len(pattern) + 1
  BY <1>1
<1>4. i - 1 = 0 /\ i \in 1 .. Len(pattern) + 1
  BY <1>2, <1>3, Zenon
<1>5. 0 \in 0 .. MaxFmtStrLen /\ 0 <= MaxFields /\ <<>> \in Seq(Token) /\ <<>> \in Seq(FieldRecs)
      /\ Len(<<>>) = 0
  <2>1. MaxFmtStrLen \in Nat /\ MaxFields \in Nat
    BY PatternAssumption
  <2>2. 0 \in 0 .. MaxFmtStrLen /\ 0 <= MaxFields
    BY ONLY <2>1
  <2> QED
    BY ONLY <2>2, EmptySeq, Zenon
<1>6. Types
  BY <1>1, <1>2, <1>4, <1>5, Zenon DEF Types
<1>7. Consumed
  BY <1>1, <1>4, GoodSteps, Zenon DEF Consumed
<1>8. StoppedAtFault /\ StoppedAtLimit
  BY <1>2, ErrorKinds, Zenon DEF StoppedAtFault, StoppedAtLimit
<1>9. Counted
  <2>1. Reading(pattern)[0] = Nothing
    BY <1>1, ReadingGrows, Zenon
  <2>2. Nothing.fields = 0 /\ Nothing.chars = 0
    BY DEF Nothing
  <2> QED
    BY <2>1, <2>2, <1>2, <1>4, <1>5, Zenon DEF Counted
<1>10. Ended
  BY <1>2, Zenon DEF Ended
<1> QED
  BY <1>6, <1>7, <1>8, <1>9, <1>10, Zenon DEF IInv

(* The place of the next token.                                            *)
LEMMA HereIs ==
  ASSUME IInv, More
  PROVE  /\ pattern \in Seq(Token) /\ Len(pattern) \in Nat /\ pc = "loop" /\ error = "None"
         /\ i \in Nat /\ i > 0 /\ i <= Len(pattern) /\ i \in 1 .. Len(pattern)
         /\ fields \in Seq(FieldRecs) /\ Len(fields) \in Nat /\ Len(fields) <= MaxFields
<1>1. /\ pattern \in Seq(Token) /\ pc = "loop" /\ i \in 1 .. Len(pattern) + 1 /\ i <= Len(pattern)
      /\ fields \in Seq(FieldRecs) /\ Len(fields) <= MaxFields /\ error = "None"
  BY Zenon DEF IInv, Types, Ended, More
<1>2. Len(pattern) \in Nat /\ Len(fields) \in Nat
  BY <1>1, LenProperties, Zenon
<1>3. \A n \in Nat : \A a \in 1 .. n + 1 : a <= n => a \in Nat /\ a > 0 /\ a \in 1 .. n
  OBVIOUS
<1> QED
  BY <1>1, <1>2, <1>3, Zenon

(* The next token but one.                                                 *)
LEMMA OneFurther ==
  /\ \A n, m \in Nat : m < n => m + 1 \in m .. n /\ (m + 1) + 1 = m + 2
  /\ \A n \in Nat : n = n + 0
  OBVIOUS

(* A doubled brace.                                                        *)
LEMMA ForwardBraceKeeps ==
  ASSUME IInv, NEW t \in {"{", "}"}, Here(t), Doubled(t), Push(<<t, t>>, i + 2), UNCHANGED fields
  PROVE  IInv'
<1>1. /\ pattern \in Seq(Token) /\ Len(pattern) \in Nat /\ pc = "loop" /\ i \in Nat /\ i > 0
      /\ i <= Len(pattern) /\ fields \in Seq(FieldRecs) /\ Len(fields) \in Nat
      /\ Len(fields) <= MaxFields
  BY HereIs, Zenon DEF Here
<1>2. i < Len(pattern) /\ pattern[i] = t /\ pattern[i + 1] = t
  BY Zenon DEF Here, Doubled
<1>3. i + 1 \in i .. Len(pattern) /\ (i + 1) + 1 = i + 2 /\ Len(fields) = Len(fields) + 0
  BY <1>1, <1>2, OneFurther, Zenon
<1>4. /\ i = (i - 1) + 1 /\ i + 1 = (i - 1) + 2
      /\ ItemLen(pattern, i - 1, i + 1) = 2 /\ FieldsIn(pattern, i - 1, i + 1) = 0
  BY <1>1, PlainItems, Zenon
<1>5. ItemAt(pattern, i - 1, i + 1)
  BY <1>2, <1>4, Zenon DEF ItemAt
<1>6. <<t, t>> \in Seq(Token) /\ Chars(<<t, t>>) = 2
  BY TokenChars, Zenon
<1> DEFINE k == i + 1
<1>7. Push(<<t, t>>, k + 1) /\ k \in i .. Len(pattern) /\ ItemAt(pattern, i - 1, k)
      /\ Chars(<<t, t>>) = ItemLen(pattern, i - 1, k)
  BY <1>3, <1>4, <1>5, <1>6, Zenon
<1>8. /\ fields' \in Seq(FieldRecs) /\ Len(fields') <= MaxFields
      /\ Len(fields') = Len(fields) + FieldsIn(pattern, i - 1, k)
  BY <1>1, <1>3, <1>4, Zenon
<1> HIDE DEF k
<1> QED
  BY <1>1, <1>6, <1>7, <1>8, PushKeeps, Zenon

(* A doubled opening brace.                                                *)
LEMMA ForwardOpenKeeps == IInv /\ ForwardOpen => IInv'
<1>1. "{" \in {"{", "}"}
  OBVIOUS
<1> QED
  BY <1>1, ForwardBraceKeeps, Zenon DEF ForwardOpen

(* A doubled closing brace.                                                *)
LEMMA ForwardCloseKeeps == IInv /\ ForwardClose => IInv'
<1>1. "}" \in {"{", "}"}
  OBVIOUS
<1> QED
  BY <1>1, ForwardBraceKeeps, Zenon DEF ForwardClose

(* A word.                                                                 *)
LEMMA ForwardTextKeeps ==
  ASSUME IInv, ForwardText
  PROVE  IInv'
<1>0. More /\ pattern[i] \notin {"{", "}"} /\ Push(<<pattern[i]>>, i + 1) /\ fields' = fields
  BY Zenon DEF ForwardText
<1>1. /\ pattern \in Seq(Token) /\ Len(pattern) \in Nat /\ pc = "loop" /\ i \in Nat /\ i > 0
      /\ i <= Len(pattern) /\ i \in 1 .. Len(pattern) /\ fields \in Seq(FieldRecs)
      /\ Len(fields) \in Nat /\ Len(fields) <= MaxFields
  BY <1>0, HereIs, Zenon
<1>2. i \in i .. Len(pattern) /\ Len(fields) = Len(fields) + 0
  <2>1. \A n, m \in Nat : m <= n => m \in m .. n
    OBVIOUS
  <2>2. \A n \in Nat : n = n + 0
    OBVIOUS
  <2> QED
    BY <1>1, <2>1, <2>2, Zenon
<1>3. /\ i = (i - 1) + 1 /\ ItemLen(pattern, i - 1, i) = Width[pattern[i]]
      /\ FieldsIn(pattern, i - 1, i) = 0
  BY <1>1, PlainItems, Zenon
<1>4. ItemAt(pattern, i - 1, i)
  BY <1>0, <1>3, Zenon DEF ItemAt
<1>5. pattern[i] \in Token
  BY <1>1, ElementOfSeq, Zenon
<1>6. <<pattern[i]>> \in Seq(Token) /\ Chars(<<pattern[i]>>) = ItemLen(pattern, i - 1, i)
  BY <1>3, <1>5, TokenChars, Zenon
<1>7. /\ fields' \in Seq(FieldRecs) /\ Len(fields') <= MaxFields
      /\ Len(fields') = Len(fields) + FieldsIn(pattern, i - 1, i)
  BY <1>0, <1>1, <1>2, <1>3, Zenon
<1> QED
  BY <1>0, <1>1, <1>2, <1>4, <1>6, <1>7, PushKeeps, Zenon

(* A closing brace on its own.                                             *)
LEMMA RejectCloseKeeps ==
  ASSUME IInv, RejectClose
  PROVE  IInv'
<1>1. Here("}") /\ ~Doubled("}") /\ Reject("UnmatchedClosingBrace")
  BY Zenon DEF RejectClose
<1>2. Len(pattern) \in Nat /\ i \in Nat /\ i > 0 /\ i <= Len(pattern) /\ pattern[i] = "}"
  BY <1>1, HereIs, Zenon DEF Here
<1>3. ASSUME NEW k \in i .. Len(pattern), ItemAt(pattern, i - 1, k) PROVE FALSE
  <2>1. (i - 1) + 1 = i /\ (i - 1) + 2 = i + 1
    BY <1>2, Around, Zenon
  <2>2. "}" # "{" /\ "}" \in {"{", "}"}
    OBVIOUS
  <2>3. ~FieldAt(pattern, i - 1, k)
    BY <2>1, <2>2, <1>2, Zenon DEF FieldAt
  <2>4. k = i + 1 /\ pattern[k] = "}"
    BY <2>1, <2>2, <2>3, <1>2, <1>3, Zenon DEF ItemAt
  <2>5. \A n, m \in Nat : m + 1 \in m .. n => m < n
    OBVIOUS
  <2>6. i < Len(pattern)
    BY <2>4, <2>5, <1>2, <1>3, Zenon
  <2> QED
    BY <2>4, <2>6, <1>1, Zenon DEF Doubled
<1>4. "UnmatchedClosingBrace" \in Faults
  BY DEF Faults
<1> QED
  BY <1>1, <1>2, <1>3, <1>4, RejectKeeps, Zenon

(* The specs and what they become in the format string.                    *)
LEMMA SpecExpanded ==
  /\ \A x \in DOMAIN SpecNames : SpecNames[x] \in SpecKinds
  /\ SpecNames["HMSf"] = "TimeHMSf" /\ SpecNames["HMSF"] = "TimeHMSF"
  /\ \A x \in DOMAIN SpecNames :
       x \notin {"HMSf", "HMSF"} => SpecNames[x] \notin {"TimeHMSf", "TimeHMSF"}
  /\ expand_spec("TimeHMSf") = <<"{", "}", ".", "{", ":06", "}">>
  /\ expand_spec("TimeHMSF") = <<"{", "}", ".", "{", ":09", "}">>
  /\ \A s : s \notin {"TimeHMSf", "TimeHMSF"} => expand_spec(s) = <<"{", "}">>
<1>1. /\ \A x \in DOMAIN SpecNames : SpecNames[x] \in SpecKinds
      /\ SpecNames["HMSf"] = "TimeHMSf" /\ SpecNames["HMSF"] = "TimeHMSF"
      /\ \A x \in DOMAIN SpecNames :
           x \notin {"HMSf", "HMSF"} => SpecNames[x] \notin {"TimeHMSf", "TimeHMSF"}
  BY DEF SpecNames, SpecKinds
<1>2. "TimeHMSf" # "TimeHMSF"
  OBVIOUS
<1>3. expand_spec("TimeHMSf") = <<"{", "}", ".", "{", ":06", "}">>
  BY <1>2, Zenon DEF expand_spec
<1>4. expand_spec("TimeHMSF") = <<"{", "}", ".", "{", ":09", "}">>
  BY <1>2, Zenon DEF expand_spec
<1>5. \A s : s \notin {"TimeHMSf", "TimeHMSF"} => expand_spec(s) = <<"{", "}">>
  BY Zenon DEF expand_spec
<1> QED
  BY <1>1, <1>3, <1>4, <1>5, Zenon

(* A field takes as many characters of the format string as the reference  *)
(* says.                                                                   *)
LEMMA FieldExpanded ==
  ASSUME NEW p, NEW j \in Nat, NEW k \in Nat, FieldAt(p, j, k)
  PROVE  /\ SpecAt(p, j, k) \in SpecKinds /\ FieldsIn(p, j, k) = 1
         /\ expand_spec(SpecAt(p, j, k)) \in Seq(Token)
         /\ Chars(expand_spec(SpecAt(p, j, k))) = ItemLen(p, j, k)
<1>1. FieldsIn(p, j, k) = 1
  BY Zenon DEF FieldsIn
<1>2. CASE k # j + 5
  <2>1. SpecAt(p, j, k) = "None" /\ ItemLen(p, j, k) = 2
    BY <1>2, Zenon DEF SpecAt, ItemLen
  <2>2. "None" \in SpecKinds /\ "None" \notin {"TimeHMSf", "TimeHMSF"}
    BY DEF SpecKinds
  <2>3. expand_spec("None") = <<"{", "}">>
    BY <2>2, SpecExpanded, Zenon
  <2> QED
    BY <2>1, <2>2, <2>3, <1>1, TokenChars, Zenon
<1>3. CASE k = j + 5
  <2>1. SpecAt(p, j, k) = SpecNames[p[j + 4]]
    BY <1>3, Zenon DEF SpecAt
  <2>2. IsSpecOf(p[j + 2], p[j + 4])
    <3>1. k # j + 3 /\ k # j + 4
      BY <1>3
    <3> QED
      BY <3>1, Zenon DEF FieldAt
  <2>3. \A x, y : IsSpecOf(x, y) => y \in DOMAIN SpecNames
    BY DEF IsSpecOf, SpecNames
  <2>4. p[j + 4] \in DOMAIN SpecNames
    BY <2>2, <2>3, Zenon
  <2>5. CASE p[j + 4] \in {"HMSf", "HMSF"}
    <3>1. ItemLen(p, j, k) = 8
      BY <1>3, <2>5, Zenon DEF ItemLen
    <3>2. \/ SpecAt(p, j, k) = "TimeHMSf"
          \/ SpecAt(p, j, k) = "TimeHMSF"
      BY <2>1, <2>5, SpecExpanded, Zenon
    <3>3. \E t \in {":06", ":09"} : expand_spec(SpecAt(p, j, k)) = <<"{", "}", ".", "{", t, "}">>
      BY <3>2, SpecExpanded, Zenon
    <3>4. expand_spec(SpecAt(p, j, k)) \in Seq(Token) /\ Chars(expand_spec(SpecAt(p, j, k))) = 8
      BY <3>3, TokenChars, Zenon
    <3> QED
      BY <3>1, <3>4, <2>1, <2>4, <1>1, SpecExpanded, Zenon
  <2>6. CASE p[j + 4] \notin {"HMSf", "HMSF"}
    <3>1. ItemLen(p, j, k) = 2
      BY <2>6, Zenon DEF ItemLen
    <3>2. SpecAt(p, j, k) \notin {"TimeHMSf", "TimeHMSF"} /\ SpecAt(p, j, k) \in SpecKinds
      BY <2>1, <2>4, <2>6, SpecExpanded, Zenon
    <3>3. expand_spec(SpecAt(p, j, k)) = <<"{", "}">>
      BY <3>2, SpecExpanded, Zenon
    <3> QED
      BY <3>1, <3>2, <3>3, <1>1, TokenChars, Zenon
  <2> QED
    BY <2>5, <2>6, Zenon
<1> QED
  BY <1>2, <1>3, Zenon

(* The fields that the names stand for.                                    *)
LEMMA KindsOfNames == \A x \in Names : FieldNames[x] \in FieldKinds
  BY DEF Names, FieldNames, FieldKinds

(* Places behind the next token.                                           *)
LEMMA Behind ==
  \A n, m \in Nat : m > 0 => m - 1 \in Nat /\ \A c \in m + 1 .. n : c \in m .. n /\ c \in Nat
  OBVIOUS

(* What the checks of a field mean for the reference.                      *)
LEMMA FieldChecked ==
  ASSUME IInv, Here("{"), FieldGood
  PROVE  /\ CloseIdx \in i .. Len(pattern) /\ CloseIdx \in Nat
         /\ FieldAt(pattern, i - 1, CloseIdx)
         /\ Field = FieldNames[pattern[i + 1]] /\ FormatSpec = SpecAt(pattern, i - 1, CloseIdx)
         /\ [field |-> Field, spec |-> FormatSpec] \in FieldRecs
<1>1. /\ pattern \in Seq(Token) /\ Len(pattern) \in Nat /\ i \in Nat /\ i > 0
      /\ i \in 1 .. Len(pattern) /\ pattern[i] = "{"
  BY HereIs, Zenon DEF Here
<1>2. /\ CloseIdx \in i + 1 .. Len(pattern) /\ FieldAt(pattern, i - 1, CloseIdx)
      /\ Field = FieldNames[pattern[i + 1]] /\ FormatSpec = SpecAt(pattern, i - 1, CloseIdx)
  BY <1>1, FieldFound, Zenon
<1>4. CloseIdx \in i .. Len(pattern) /\ CloseIdx \in Nat /\ i - 1 \in Nat
  BY <1>1, <1>2, Behind, Zenon
<1>5. FormatSpec \in SpecKinds
  BY <1>2, <1>4, FieldExpanded, Zenon
<1>6. Field \in FieldKinds
  <2>2. (i - 1) + 2 = i + 1
    BY <1>1, Around, Zenon
  <2>3. pattern[i + 1] \in Names
    BY <1>2, <2>2, Zenon DEF FieldAt
  <2> QED
    BY <1>2, <2>3, KindsOfNames, Zenon
<1>7. validate_field_spec_combination(Field, FormatSpec)
  BY Zenon DEF FieldGood
<1>8. ASSUME NEW f \in FieldKinds, NEW x \in SpecKinds, validate_field_spec_combination(f, x)
      PROVE  [field |-> f, spec |-> x] \in FieldRecs
  <2>1. [field |-> f, spec |-> x] \in [field : FieldKinds, spec : SpecKinds]
    BY Zenon
  <2>2. [field |-> f, spec |-> x].field = f /\ [field |-> f, spec |-> x].spec = x
    BY Zenon
  <2> QED
    BY <1>8, <2>1, <2>2, Zenon DEF FieldRecs
<1> QED
  BY <1>2, <1>4, <1>5, <1>6, <1>7, <1>8, Zenon

(* A field.                                                                *)
LEMMA AddFieldKeeps ==
  ASSUME IInv, AddField
  PROVE  IInv'
<1> DEFINE c == CloseIdx
           f == [field |-> Field, spec |-> FormatSpec]
<1>0. /\ Here("{") /\ FieldError = "None" /\ fields' = Append(fields, f)
      /\ Push(expand_spec(FormatSpec), c + 1)
  BY Zenon DEF AddField
<1>1. FieldGood /\ ~TooManyFields
  <2>1. "None" \notin FieldFaults /\ "None" # "TooManyFields"
    BY DEF FieldFaults
  <2> QED
    BY <1>0, <2>1, FieldErrorIs, Zenon
<1>2. /\ c \in i .. Len(pattern) /\ c \in Nat /\ FieldAt(pattern, i - 1, c)
      /\ FormatSpec = SpecAt(pattern, i - 1, c) /\ f \in FieldRecs
  BY <1>0, <1>1, FieldChecked, Zenon
<1> HIDE DEF c, f
<1>3. /\ pc = "loop" /\ i <= Len(pattern) /\ i \in Nat /\ i > 0
      /\ fields \in Seq(FieldRecs) /\ Len(fields) \in Nat
  BY <1>0, HereIs, Zenon DEF Here
<1>4. ItemAt(pattern, i - 1, c)
  BY <1>2, Zenon DEF ItemAt
<1>5. i - 1 \in Nat
  BY <1>3
<1>6. /\ FieldsIn(pattern, i - 1, c) = 1 /\ expand_spec(FormatSpec) \in Seq(Token)
      /\ Chars(expand_spec(FormatSpec)) = ItemLen(pattern, i - 1, c)
  BY <1>2, <1>5, FieldExpanded, Zenon
<1>7. fields' \in Seq(FieldRecs) /\ Len(fields') = Len(fields) + 1
  <2>1. \A s \in Seq(FieldRecs) : \A x \in FieldRecs :
          Append(s, x) \in Seq(FieldRecs) /\ Len(Append(s, x)) = Len(s) + 1
    OBVIOUS
  <2> QED
    BY <1>0, <1>2, <1>3, <2>1, Zenon
<1>8. Len(fields') <= MaxFields
  <2>1. MaxFields \in Nat
    BY PatternAssumption
  <2>2. \A x \in Nat : ~(x >= MaxFields) => x + 1 <= MaxFields
    BY ONLY <2>1
  <2>3. ~(Len(fields) >= MaxFields)
    BY <1>1, Zenon DEF TooManyFields
  <2> QED
    BY <1>3, <1>7, <2>2, <2>3, Zenon
<1> QED
  BY <1>0, <1>2, <1>3, <1>4, <1>6, <1>7, <1>8, PushKeeps, Zenon

(* A field that is refused.                                                *)
LEMMA RejectFieldKeeps ==
  ASSUME IInv, RejectField
  PROVE  IInv'
<1>0. Here("{") /\ ~Doubled("{") /\ FieldError # "None" /\ Reject(FieldError)
  BY Zenon DEF RejectField
<1>1. /\ pattern \in Seq(Token) /\ Len(pattern) \in Nat /\ pc = "loop" /\ error = "None"
      /\ i \in Nat /\ i > 0 /\ i <= Len(pattern) /\ i \in 1 .. Len(pattern) /\ pattern[i] = "{"
      /\ Len(fields) \in Nat
  BY <1>0, HereIs, Zenon DEF Here
<1>2. CASE FieldGood
  <2>1. FieldError = "TooManyFields" /\ Len(fields) >= MaxFields
    BY <1>0, <1>2, FieldErrorIs, Zenon DEF TooManyFields
  <2>2. CloseIdx \in i .. Len(pattern) /\ CloseIdx \in Nat /\ FieldAt(pattern, i - 1, CloseIdx)
    BY <1>0, <1>2, FieldChecked, Zenon
  <2> DEFINE c == CloseIdx
             R == Reading(pattern)
  <2>3. ItemAt(pattern, i - 1, c) /\ FieldsIn(pattern, i - 1, c) = 1
    BY <2>2, Zenon DEF ItemAt, FieldsIn
  <2>4. i \in 1 .. Len(pattern) + 1
    BY Zenon DEF IInv, Types
  <2>5. c \in 1 .. Len(pattern) /\ i - 1 \in 0 .. c - 1
    BY <1>1, <2>2, <2>4, NextPlaces, Zenon
  <2>6. R[c].fields = R[i - 1].fields + 1
    <3>1. WellFormed(pattern)[i - 1]
      BY Zenon DEF IInv, Consumed
    <3> QED
      BY <3>1, <2>3, <2>5, <1>1, ReadingGrows, Zenon
  <2>7. R[c].fields = Len(fields) + 1
    BY <2>6, <1>1, Zenon DEF IInv, Counted
  <2>8. R[c].fields > MaxFields
    <3>1. MaxFields \in Nat
      BY PatternAssumption
    <3>2. \A x \in Nat : x >= MaxFields => x + 1 > MaxFields
      BY ONLY <3>1
    <3> QED
      BY <2>1, <2>7, <3>2, <1>1, Zenon
  <2>9. \E k \in i .. Len(pattern) : ItemAt(pattern, i - 1, k) /\ Exceeds(pattern, k)
    BY <2>2, <2>3, <2>8, Zenon DEF Exceeds
  <2> QED
    BY <1>0, <2>1, <2>9, RejectKeeps, Zenon
<1>3. CASE ~FieldGood
  <2>1. FieldError \in Faults
    BY <1>3, FieldErrorIs, Zenon DEF Faults
  <2>2. ASSUME NEW k \in i .. Len(pattern), ItemAt(pattern, i - 1, k) PROVE FALSE
    <3>1. (i - 1) + 1 = i /\ (i - 1) + 2 = i + 1
      BY <1>1, Around, Zenon
    <3>2. "{" \in {"{", "}"}
      OBVIOUS
    <3>3. \A n, m \in Nat : \A x \in m .. n : x \in Nat /\ x <= n
      OBVIOUS
    <3>4. ~FieldAt(pattern, i - 1, k)
      BY <3>3, <1>1, <1>3, FieldComplete, Zenon
    <3>5. k = i + 1 /\ pattern[k] = "{"
      BY <3>1, <3>2, <3>4, <2>2, <1>1, Zenon DEF ItemAt
    <3>6. \A n, m \in Nat : m + 1 \in m .. n => m < n
      OBVIOUS
    <3>7. i < Len(pattern)
      BY <3>5, <3>6, <2>2, <1>1, Zenon
    <3> QED
      BY <3>5, <3>7, <1>0, Zenon DEF Doubled
  <2> QED
    BY <1>0, <1>1, <2>1, <2>2, RejectKeeps, Zenon
<1> QED
  BY <1>2, <1>3, Zenon

(* The end of the pattern.                                                 *)
LEMMA FinishKeeps ==
  ASSUME IInv, Finish
  PROVE  IInv'
<1>1. /\ pc = "loop" /\ i > Len(pattern) /\ pc' = "done"
      /\ pattern' = pattern /\ i' = i /\ fmt_str' = fmt_str /\ fmt_str_len' = fmt_str_len
      /\ fields' = fields /\ error' = error
  BY Zenon DEF Finish
<1>2. i = Len(pattern) + 1
  <2>1. pattern \in Seq(Token) /\ i \in 1 .. Len(pattern) + 1
    BY Zenon DEF IInv, Types
  <2>2. Len(pattern) \in Nat
    BY <2>1, LenProperties, Zenon
  <2>3. \A n \in Nat : \A a \in 1 .. n + 1 : a > n => a = n + 1
    OBVIOUS
  <2> QED
    BY <1>1, <2>1, <2>2, <2>3, Zenon
<1>3. Types'
  BY <1>1, Zenon DEF IInv, Types
<1>4. Consumed' /\ StoppedAtFault' /\ Counted' /\ StoppedAtLimit'
  BY <1>1, Zenon DEF IInv, Consumed, StoppedAtFault, Counted, StoppedAtLimit, Exceeds
<1>5. Ended'
  <2>1. "done" # "loop"
    OBVIOUS
  <2> QED
    BY <1>1, <1>2, <2>1, Zenon DEF Ended
<1> QED
  BY <1>3, <1>4, <1>5, Zenon DEF IInv

(* Every step keeps the invariant.                                         *)
LEMMA NextIInv == IInv /\ [Next]_vars => IInv'
<1> SUFFICES ASSUME IInv, [Next]_vars PROVE IInv'
  OBVIOUS
<1>1. CASE UNCHANGED vars
  BY <1>1, Zenon DEF vars, IInv, Types, Consumed, StoppedAtFault, Counted, StoppedAtLimit, Ended, Exceeds
<1>2. CASE Next
  BY <1>1, <1>2, ForwardOpenKeeps, RejectFieldKeeps, AddFieldKeeps, ForwardCloseKeeps,
     RejectCloseKeeps, ForwardTextKeeps, FinishKeeps, Zenon DEF Next
<1> QED
  BY <1>1, <1>2, Zenon

(* parse_pattern() always is where it has read whole items, with what they *)
(* amount to counted in field_count and fmt_str_len, and has stopped only  *)
(* at the end, at something that is no item, or at an item that does not   *)
(* fit: for all patterns and all sizes of the result.                      *)
THEOREM ReadsWholeItems == Spec => []IInv
<1>1. Init => IInv
  BY InitIInv
<1>2. IInv /\ [Next]_vars => IInv'
  BY NextIInv
<1> QED
  BY <1>1, <1>2, PTL DEF Spec

(* parse_pattern() never writes past the ends of fmt_str, fields and specs *)
(* of its result, and accepts no field with the spec of another.           *)
THEOREM PatternTypeCorrect == Spec => []TypeOK
<1>1. IInv => TypeOK
  <2> SUFFICES ASSUME IInv PROVE TypeOK
    OBVIOUS
  <2>1. /\ pattern \in Seq(Token) /\ i \in 1 .. Len(pattern) + 1
        /\ fmt_str_len \in 0 .. MaxFmtStrLen
        /\ fields \in Seq(FieldRecs) /\ Len(fields) <= MaxFields
        /\ error \in {"None"} \cup Faults \cup Limits /\ pc \in {"loop", "done"}
    BY Zenon DEF IInv, Types
  <2>2. ASSUME NEW k \in DOMAIN fields
        PROVE  validate_field_spec_combination(fields[k].field, fields[k].spec)
    <3>1. fields[k] \in FieldRecs
      <4>1. k \in 1 .. Len(fields)
        BY <2>1, LenProperties, Zenon
      <4> QED
        BY <4>1, <2>1, ElementOfSeq, Zenon
    <3> QED
      BY <3>1, Zenon DEF FieldRecs
  <2>3. error \in {"None", "UnterminatedBrace", "EmptyFieldName", "UnknownFieldName",
                   "UnknownFormatSpec", "InvalidSpecUsage", "TooManyFields",
                   "UnmatchedClosingBrace", "NotConstant"}
    BY <2>1, Zenon DEF Faults, FieldFaults, Limits
  <2> QED
    BY <2>1, <2>2, <2>3, Zenon DEF TypeOK
<1> QED
  BY <1>1, ReadsWholeItems, PTL

(* parse_pattern() has always read a sequence of whole items, and when it  *)
(* reports a fault of the pattern then no longer prefix is one, so that    *)
(* the fault is the first one and no pattern with it is valid.             *)
THEOREM PatternStopsAtFirstFault == Spec => []StopsAtFirstFault
<1>1. IInv => StopsAtFirstFault
  <2> SUFFICES ASSUME IInv PROVE StopsAtFirstFault
    OBVIOUS
  <2>1. /\ pattern \in Seq(Token) /\ i \in 1 .. Len(pattern) + 1 /\ WellFormed(pattern)[i - 1]
        /\ error \in {"None"} \cup Faults \cup Limits
    BY Zenon DEF IInv, Types, Consumed
  <2>2. Len(pattern) \in Nat
    BY <2>1, LenProperties, Zenon
  <2>3. \A n \in Nat : \A a \in 1 .. n + 1 :
          /\ a - 1 \in 0 .. n /\ (a - 1) + 1 = a
          /\ \A k \in a .. n : \A m \in a .. k : m \in a .. n
    OBVIOUS
  <2>4. ASSUME error \notin {"None", "TooManyFields", "NotConstant"},
               NEW k \in i .. Len(pattern), WellFormed(pattern)[k]
        PROVE  FALSE
    <3>1. error \in Faults
      BY <2>1, <2>4, Zenon DEF Limits
    <3>2. \A m \in i .. Len(pattern) : ~ItemAt(pattern, i - 1, m)
      BY <3>1, Zenon DEF IInv, StoppedAtFault
    <3>3. i - 1 \in 0 .. Len(pattern) /\ (i - 1) + 1 = i /\ \A m \in i .. k : m \in i .. Len(pattern)
      BY <2>1, <2>2, <2>3, Zenon
    <3>4. ItemAfter(pattern, i - 1, k)
      BY <3>3, <2>1, <2>4, NoItemNoPrefix, Zenon
    <3> QED
      BY <3>2, <3>3, <3>4, Zenon DEF ItemAfter
  <2> QED
    BY <2>1, <2>4, Zenon DEF StopsAtFirstFault
<1> QED
  BY <1>1, ReadsWholeItems, PTL

(* The result of parse_pattern() passes the static_asserts of              *)
(* PatternFormatter exactly if the pattern is a sequence of items that     *)
(* has no more fields and needs no longer format string than the template  *)
(* parameters allow.                                                       *)
THEOREM PatternAcceptsExactly == Spec => []AcceptsExactly
<1>1. IInv => AcceptsExactly
  <2> SUFFICES ASSUME IInv, pc = "done"
               PROVE  error = "None" <=> WellFormed(pattern)[Len(pattern)] /\ Fits(pattern)
    BY Zenon DEF AcceptsExactly
  <2> DEFINE n == Len(pattern)
             R == Reading(pattern)
  <2>1. /\ pattern \in Seq(Token) /\ i \in 1 .. n + 1 /\ WellFormed(pattern)[i - 1]
        /\ error \in {"None"} \cup Faults \cup Limits
        /\ Len(fields) <= MaxFields /\ fmt_str_len \in 0 .. MaxFmtStrLen
    BY Zenon DEF IInv, Types, Consumed
  <2>2. n \in Nat
    BY <2>1, LenProperties, Zenon
  <2>3. MaxFields \in Nat /\ MaxFmtStrLen \in Nat
    BY PatternAssumption
  <2>4. Fits(pattern) <=> R[n].fields <= MaxFields /\ R[n].chars <= MaxFmtStrLen
    BY Zenon DEF Fits
  <2> HIDE DEF n, R
  <2>5. CASE error = "None"
    <3>1. i = n + 1
      BY <2>5, Zenon DEF IInv, Ended, n
    <3>2. (n + 1) - 1 = n
      BY ONLY <2>2
    <3>3. i - 1 = n
      BY <3>1, <3>2, Zenon
    <3>4. Len(fields) = R[n].fields /\ fmt_str_len = R[n].chars
      BY <2>5, <3>3, Zenon DEF IInv, Counted, R
    <3>5. fmt_str_len <= MaxFmtStrLen
      BY ONLY <2>1, <2>3
    <3>6. R[n].fields <= MaxFields /\ R[n].chars <= MaxFmtStrLen
      BY <2>1, <3>4, <3>5, Zenon
    <3> QED
      BY <2>1, <2>4, <2>5, <3>3, <3>6, Zenon DEF n
  <2>6. CASE error \in Faults
    <3>1. i <= n /\ \A k \in i .. n : ~ItemAt(pattern, i - 1, k)
      BY <2>6, Zenon DEF IInv, StoppedAtFault, n
    <3>2. \A a \in 1 .. n + 1 : a <= n =>
            /\ a - 1 \in 0 .. n /\ (a - 1) + 1 = a /\ n \in a .. n
      BY ONLY <2>2
    <3>3. i - 1 \in 0 .. n /\ (i - 1) + 1 = i /\ n \in i .. n
      BY <2>1, <3>1, <3>2, Zenon
    <3>4. ~WellFormed(pattern)[n]
      <4>1. WellFormed(pattern)[n] => ItemAfter(pattern, i - 1, n)
        BY <3>3, <2>1, NoItemNoPrefix, Zenon DEF n
      <4> QED
        BY <4>1, <3>1, <3>3, Zenon DEF ItemAfter
    <3> QED
      BY <2>6, <3>4, ErrorKinds, Zenon DEF n
  <2>7. CASE error \in Limits
    <3>1. PICK k \in i .. n : ItemAt(pattern, i - 1, k) /\ Exceeds(pattern, k)
      BY <2>7, Zenon DEF IInv, StoppedAtLimit, n
    <3>2. \A a \in 1 .. n + 1 : \A x \in a .. n :
            /\ a <= n /\ a - 1 \in 0 .. x - 1 /\ x \in 1 .. n /\ x \in 0 .. n /\ n \in x .. n /\ n \in 0 .. n
      BY ONLY <2>2
    <3>3. i - 1 \in 0 .. k - 1 /\ k \in 1 .. n /\ k \in 0 .. n /\ n \in k .. n /\ n \in 0 .. n
      BY <2>1, <3>2, Zenon
    <3>4. WellFormed(pattern)[k]
      BY <3>1, <3>3, <2>1, GoodSteps, Zenon DEF n
    <3>5. ASSUME WellFormed(pattern)[n] PROVE ~Fits(pattern)
      <4>1. R[k].fields <= R[n].fields /\ R[k].chars <= R[n].chars
        BY <3>3, <3>4, <3>5, <2>1, ReadingMonotone, Zenon DEF NoLess, R, n
      <4>2. R[k].fields \in Nat /\ R[k].chars \in Nat /\ R[n].fields \in Nat /\ R[n].chars \in Nat
        BY <3>3, <3>4, <3>5, <2>1, ReadingTypes, Zenon DEF ReadingOK, R, n
      <4>3. R[k].fields > MaxFields \/ R[k].chars > MaxFmtStrLen
        BY <3>1, Zenon DEF Exceeds, R
      <4>4. \A x, y, m \in Nat : x <= y /\ x > m => ~(y <= m)
        OBVIOUS
      <4> QED
        BY <4>1, <4>2, <4>3, <4>4, <2>3, <2>4, Zenon
    <3>6. error # "None"
      BY <2>7, ErrorKinds, Zenon
    <3> QED
      BY <3>5, <3>6, Zenon DEF n
  <2> QED
    BY <2>1, <2>5, <2>6, <2>7, Zenon
<1> QED
  BY <1>1, ReadsWholeItems, PTL

-----------------------------------------------------------------------------
(* What vformat() prints: the recursive definitions of the model.          *)

ScanStart == [mode |-> "text", next |-> 1, out |-> <<>>]
ScanStep(s, args, k, f) == IF k = 0 THEN ScanStart ELSE ScanToken(f[k - 1], s[k], args)
ScanTo(s, args, n, f) == f = [k \in 0 .. n |-> ScanStep(s, args, k, f)]
CanScan(s, args, n) == \E f : ScanTo(s, args, n, f)

(* The recursion of Scan defines a function, and this is its equation.     *)
LEMMA ScanRecursion ==
  ASSUME NEW s, NEW args, Len(s) \in Nat
  PROVE  \A k \in 0 .. Len(s) : Scan(s, args)[k] = ScanStep(s, args, k, Scan(s, args))
<1> DEFINE N == Len(s)
           S == {n \in 0 .. N : CanScan(s, args, n)}
<1>1. CanScan(s, args, 0)
  <2> DEFINE f == [k \in 0 .. 0 |-> ScanStart]
  <2>1. \A k \in 0 .. 0 : k = 0
    OBVIOUS
  <2>2. ScanTo(s, args, 0, f)
    BY <2>1, Zenon DEF ScanTo, ScanStep
  <2> QED
    BY <2>2, Zenon DEF CanScan
<1>2. ASSUME NEW n \in 0 .. (N - 1), CanScan(s, args, n) PROVE CanScan(s, args, n + 1)
  <2>1. PICK f : ScanTo(s, args, n, f)
    BY <1>2, Zenon DEF CanScan
  <2> DEFINE g == [k \in 0 .. (n + 1) |-> IF k = n + 1 THEN ScanStep(s, args, n + 1, f) ELSE f[k]]
  <2>2. /\ \A k \in 0 .. n : k \in 0 .. (n + 1) /\ k # n + 1
        /\ \A k \in 0 .. (n + 1) : (k # n + 1 => k \in 0 .. n) /\ (k # 0 => k - 1 \in 0 .. n)
    OBVIOUS
  <2>3. \A k \in 0 .. n : g[k] = f[k]
    BY <2>2, Zenon
  <2>4. ASSUME NEW k \in 0 .. (n + 1) PROVE ScanStep(s, args, k, g) = ScanStep(s, args, k, f)
    <3>1. k # 0 => g[k - 1] = f[k - 1]
      BY <2>2, <2>3, Zenon
    <3> HIDE DEF g
    <3> QED
      BY <3>1, Zenon DEF ScanStep
  <2>5. ASSUME NEW k \in 0 .. (n + 1) PROVE g[k] = ScanStep(s, args, k, g)
    <3>1. CASE k = n + 1
      BY <3>1, <2>4, Zenon
    <3>2. CASE k # n + 1
      <4>1. k \in 0 .. n
        BY <3>2, <2>2, Zenon
      <4>2. f[k] = ScanStep(s, args, k, f)
        BY <2>1, <4>1, Zenon DEF ScanTo
      <4> QED
        BY <4>1, <4>2, <2>3, <2>4, Zenon
    <3> QED
      BY <3>1, <3>2, Zenon
  <2>6. g = [k \in 0 .. (n + 1) |-> g[k]]
    BY Zenon
  <2> HIDE DEF g
  <2>7. ScanTo(s, args, n + 1, g)
    BY <2>5, <2>6, Zenon DEF ScanTo
  <2> QED
    BY <2>7, Zenon DEF CanScan
<1>3. CanScan(s, args, N)
  <2>1. 0 \in S /\ \A n \in 0 .. (N - 1) : n \in S => n + 1 \in S
    BY <1>1, <1>2
  <2> HIDE DEF S
  <2>2. \A n \in 0 .. N : n \in S
    BY <2>1, UpTo
  <2> QED
    BY <2>2 DEF S
<1>4. ScanTo(s, args, N, Scan(s, args))
  BY <1>3, Zenon DEF Scan, ScanTo, CanScan, ScanStep, ScanStart
<1> DEFINE f == Scan(s, args)
<1> HIDE DEF f
<1>5. ScanTo(s, args, N, f)
  BY <1>4 DEF f
<1>6. \A k \in 0 .. N : f[k] = ScanStep(s, args, k, f)
  BY <1>5, Zenon DEF ScanTo
<1> QED
  BY <1>6, Zenon DEF f

(* After s with the arguments args, vformat() is in state st.              *)
Scans(s, args, st) == Scan(s, args)[Len(s)] = st

(* One token more.                                                         *)
LEMMA ScanOne ==
  ASSUME NEW X, NEW s \in Seq(X), NEW x \in X, NEW args, NEW st, Scans(s, args, st)
  PROVE  Scans(Append(s, x), args, ScanToken(st, x, args))
<1> DEFINE t == Append(s, x)
           N == Len(s)
           f == Scan(s, args)
           g == Scan(t, args)
           S == {k \in 0 .. N : g[k] = f[k]}
<1>1. N \in Nat /\ Len(t) = N + 1 /\ t[N + 1] = x /\ \A k \in 1 .. N : t[k] = s[k]
  OBVIOUS
<1>2. N + 1 \in Nat
  BY <1>1
<1>3. \A k \in 0 .. N : f[k] = ScanStep(s, args, k, f)
  BY <1>1, ScanRecursion, Zenon
<1>4. \A k \in 0 .. N + 1 : g[k] = ScanStep(t, args, k, g)
  BY <1>1, <1>2, ScanRecursion, Zenon
<1> HIDE DEF t, N, f, g
<1>5. 0 \in S
  <2>1. 0 \in 0 .. N /\ 0 \in 0 .. N + 1
    BY ONLY <1>1
  <2>2. f[0] = ScanStart /\ g[0] = ScanStart
    BY <2>1, <1>3, <1>4, Zenon DEF ScanStep
  <2> QED
    BY <2>1, <2>2, Zenon
<1>6. ASSUME NEW n \in 0 .. (N - 1), n \in S PROVE n + 1 \in S
  <2>1. /\ n + 1 \in 0 .. N /\ n + 1 \in 0 .. N + 1 /\ n + 1 \in 1 .. N /\ n + 1 # 0
        /\ (n + 1) - 1 = n
    BY ONLY <1>1, n \in 0 .. (N - 1)
  <2>2. f[n + 1] = ScanToken(f[n], s[n + 1], args) /\ g[n + 1] = ScanToken(g[n], t[n + 1], args)
    BY <2>1, <1>3, <1>4, Zenon DEF ScanStep
  <2>3. g[n] = f[n] /\ t[n + 1] = s[n + 1]
    BY <2>1, <1>1, <1>6, Zenon
  <2> QED
    BY <2>1, <2>2, <2>3, Zenon
<1>7. g[N] = f[N]
  <2>1. \A n \in 0 .. N : n \in S
    <3> HIDE DEF S
    <3> QED
      BY <1>1, <1>5, <1>6, UpTo
  <2>2. N \in 0 .. N
    BY ONLY <1>1
  <2> QED
    BY <2>1, <2>2, Zenon
<1>8. N + 1 \in 0 .. N + 1 /\ N + 1 # 0 /\ (N + 1) - 1 = N
  BY ONLY <1>1
<1>9. g[N + 1] = ScanToken(g[N], x, args)
  BY <1>1, <1>4, <1>8, Zenon DEF ScanStep
<1>10. f[N] = st
  BY Zenon DEF Scans, f, N
<1>11. g[Len(t)] = ScanToken(st, x, args)
  BY <1>1, <1>7, <1>9, <1>10, Zenon
<1> QED
  BY <1>11, Zenon DEF Scans, g, t

(* The start.                                                              *)
LEMMA ScanEmpty == \A args : Scans(<<>>, args, ScanStart)
<1> TAKE args
<1>1. Len(<<>>) = 0 /\ 0 \in 0 .. 0 /\ 0 \in Nat
  OBVIOUS
<1>2. Scan(<<>>, args)[0] = ScanStep(<<>>, args, 0, Scan(<<>>, args))
  BY <1>1, ScanRecursion, Zenon
<1> QED
  BY <1>1, <1>2, Zenon DEF Scans, ScanStep

ArgsStep(fs, k, f) == IF k = 0 THEN <<>> ELSE f[k - 1] \o Expand(fs[k])
ArgsTo(fs, n, f) == f = [k \in 0 .. n |-> ArgsStep(fs, k, f)]
CanArgs(fs, n) == \E f : ArgsTo(fs, n, f)

(* The recursion of ArgsOf defines a function, and this is its equation.   *)
LEMMA ArgsRecursion ==
  ASSUME NEW fs, Len(fs) \in Nat
  PROVE  \A k \in 0 .. Len(fs) : ArgsOf(fs)[k] = ArgsStep(fs, k, ArgsOf(fs))
<1> DEFINE N == Len(fs)
           S == {n \in 0 .. N : CanArgs(fs, n)}
<1>1. CanArgs(fs, 0)
  <2> DEFINE f == [k \in 0 .. 0 |-> <<>>]
  <2>1. \A k \in 0 .. 0 : k = 0
    OBVIOUS
  <2>2. ArgsTo(fs, 0, f)
    BY <2>1, Zenon DEF ArgsTo, ArgsStep
  <2> QED
    BY <2>2, Zenon DEF CanArgs
<1>2. ASSUME NEW n \in 0 .. (N - 1), CanArgs(fs, n) PROVE CanArgs(fs, n + 1)
  <2>1. PICK f : ArgsTo(fs, n, f)
    BY <1>2, Zenon DEF CanArgs
  <2> DEFINE g == [k \in 0 .. (n + 1) |-> IF k = n + 1 THEN ArgsStep(fs, n + 1, f) ELSE f[k]]
  <2>2. /\ \A k \in 0 .. n : k \in 0 .. (n + 1) /\ k # n + 1
        /\ \A k \in 0 .. (n + 1) : (k # n + 1 => k \in 0 .. n) /\ (k # 0 => k - 1 \in 0 .. n)
    OBVIOUS
  <2>3. \A k \in 0 .. n : g[k] = f[k]
    BY <2>2, Zenon
  <2>4. ASSUME NEW k \in 0 .. (n + 1) PROVE ArgsStep(fs, k, g) = ArgsStep(fs, k, f)
    <3>1. k # 0 => g[k - 1] = f[k - 1]
      BY <2>2, <2>3, Zenon
    <3> HIDE DEF g
    <3> QED
      BY <3>1, Zenon DEF ArgsStep
  <2>5. ASSUME NEW k \in 0 .. (n + 1) PROVE g[k] = ArgsStep(fs, k, g)
    <3>1. CASE k = n + 1
      BY <3>1, <2>4, Zenon
    <3>2. CASE k # n + 1
      <4>1. k \in 0 .. n
        BY <3>2, <2>2, Zenon
      <4>2. f[k] = ArgsStep(fs, k, f)
        BY <2>1, <4>1, Zenon DEF ArgsTo
      <4> QED
        BY <4>1, <4>2, <2>3, <2>4, Zenon
    <3> QED
      BY <3>1, <3>2, Zenon
  <2>6. g = [k \in 0 .. (n + 1) |-> g[k]]
    BY Zenon
  <2> HIDE DEF g
  <2>7. ArgsTo(fs, n + 1, g)
    BY <2>5, <2>6, Zenon DEF ArgsTo
  <2> QED
    BY <2>7, Zenon DEF CanArgs
<1>3. CanArgs(fs, N)
  <2>1. 0 \in S /\ \A n \in 0 .. (N - 1) : n \in S => n + 1 \in S
    BY <1>1, <1>2
  <2> HIDE DEF S
  <2>2. \A n \in 0 .. N : n \in S
    BY <2>1, UpTo
  <2> QED
    BY <2>2 DEF S
<1>4. ArgsTo(fs, N, ArgsOf(fs))
  BY <1>3, Zenon DEF ArgsOf, ArgsTo, CanArgs, ArgsStep
<1> DEFINE f == ArgsOf(fs)
<1> HIDE DEF f
<1>5. ArgsTo(fs, N, f)
  BY <1>4 DEF f
<1>6. \A k \in 0 .. N : f[k] = ArgsStep(fs, k, f)
  BY <1>5, Zenon DEF ArgsTo
<1> QED
  BY <1>6, Zenon DEF f

(* One field more.                                                         *)
LEMMA ArgsOne ==
  ASSUME NEW X, NEW fs \in Seq(X), NEW x \in X
  PROVE  ArgsOf(Append(fs, x))[Len(Append(fs, x))] = ArgsOf(fs)[Len(fs)] \o Expand(x)
<1> DEFINE t == Append(fs, x)
           N == Len(fs)
           f == ArgsOf(fs)
           g == ArgsOf(t)
           S == {k \in 0 .. N : g[k] = f[k]}
<1>1. N \in Nat /\ Len(t) = N + 1 /\ t[N + 1] = x /\ \A k \in 1 .. N : t[k] = fs[k]
  OBVIOUS
<1>2. N + 1 \in Nat
  BY <1>1
<1>3. \A k \in 0 .. N : f[k] = ArgsStep(fs, k, f)
  BY <1>1, ArgsRecursion, Zenon
<1>4. \A k \in 0 .. N + 1 : g[k] = ArgsStep(t, k, g)
  BY <1>1, <1>2, ArgsRecursion, Zenon
<1> HIDE DEF t, N, f, g
<1>5. 0 \in S
  <2>1. 0 \in 0 .. N /\ 0 \in 0 .. N + 1
    BY ONLY <1>1
  <2>2. f[0] = <<>> /\ g[0] = <<>>
    BY <2>1, <1>3, <1>4, Zenon DEF ArgsStep
  <2> QED
    BY <2>1, <2>2, Zenon
<1>6. ASSUME NEW n \in 0 .. (N - 1), n \in S PROVE n + 1 \in S
  <2>1. /\ n + 1 \in 0 .. N /\ n + 1 \in 0 .. N + 1 /\ n + 1 \in 1 .. N /\ n + 1 # 0
        /\ (n + 1) - 1 = n
    BY ONLY <1>1, n \in 0 .. (N - 1)
  <2>2. f[n + 1] = f[n] \o Expand(fs[n + 1]) /\ g[n + 1] = g[n] \o Expand(t[n + 1])
    BY <2>1, <1>3, <1>4, Zenon DEF ArgsStep
  <2>3. g[n] = f[n] /\ t[n + 1] = fs[n + 1]
    BY <2>1, <1>1, <1>6, Zenon
  <2> QED
    BY <2>1, <2>2, <2>3, Zenon
<1>7. g[N] = f[N]
  <2>1. \A n \in 0 .. N : n \in S
    <3> HIDE DEF S
    <3> QED
      BY <1>1, <1>5, <1>6, UpTo
  <2>2. N \in 0 .. N
    BY ONLY <1>1
  <2> QED
    BY <2>1, <2>2, Zenon
<1>8. N + 1 \in 0 .. N + 1 /\ N + 1 # 0 /\ (N + 1) - 1 = N
  BY ONLY <1>1
<1>9. g[N + 1] = g[N] \o Expand(x)
  BY <1>1, <1>4, <1>8, Zenon DEF ArgsStep
<1> QED
  BY <1>1, <1>7, <1>9, Zenon DEF f, g, t, N

(* No field.                                                               *)
LEMMA ArgsEmpty == ArgsOf(<<>>)[Len(<<>>)] = <<>>
<1>1. Len(<<>>) = 0 /\ 0 \in 0 .. 0 /\ 0 \in Nat
  OBVIOUS
<1>2. ArgsOf(<<>>)[0] = ArgsStep(<<>>, 0, ArgsOf(<<>>))
  BY <1>1, ArgsRecursion, Zenon
<1> QED
  BY <1>1, <1>2, Zenon DEF ArgsStep

-----------------------------------------------------------------------------
(* The states of vformat().                                                *)

St(mode, next, out) == [mode |-> mode, next |-> next, out |-> out]

(* What a token does in a state.                                           *)
LEMMA ScanWord ==
  ASSUME NEW n, NEW out, NEW t, t \notin {"{", "}"}, NEW args
  PROVE  ScanToken(St("text", n, out), t, args) = St("text", n, out \o <<t>>)
  BY Zenon DEF ScanToken, St

(* A brace opens.                                                          *)
LEMMA ScanOpens ==
  ASSUME NEW n, NEW out, NEW t \in {"{", "}"}, NEW args
  PROVE  ScanToken(St("text", n, out), t, args) = St(t, n, out)
  BY Zenon DEF ScanToken, St

(* The same brace again stands for itself.                                 *)
LEMMA ScanDouble ==
  ASSUME NEW n, NEW out, NEW t \in {"{", "}"}, NEW args
  PROVE  ScanToken(St(t, n, out), t, args) = St("text", n, out \o <<t>>)
<1>1. t # "text"
  OBVIOUS
<1> QED
  BY <1>1, Zenon DEF ScanToken, St

(* A closing brace behind an opening one prints the next argument.         *)
LEMMA ScanUse ==
  ASSUME NEW n, NEW out, NEW args, n <= Len(args)
  PROVE  ScanToken(St("{", n, out), "}", args) = St("text", n + 1, out \o args[n])
  BY Zenon DEF ScanToken, St

(* A width behind an opening brace.                                        *)
LEMMA ScanWidth ==
  ASSUME NEW n, NEW out, NEW args, n <= Len(args), NEW w \in {":06", ":09"}
  PROVE  ScanToken(St("{", n, out), w, args) = St(w, n, out)
  BY Zenon DEF ScanToken, St

(* A closing brace behind a width prints the next argument padded.         *)
LEMMA ScanPadded ==
  ASSUME NEW n, NEW out, NEW args, NEW w \in {":06", ":09"}
  PROVE  ScanToken(St(w, n, out), "}", args) = St("text", n + 1, out \o Padded(args[n], w))
  BY Zenon DEF ScanToken, St

(* The arguments of the fields.                                            *)
LEMMA Texts ==
  /\ BaseName(Data["File"]) = <<"name">>
  /\ Padded(<<"us">>, ":06") = <<"us6">> /\ Padded(<<"ns">>, ":09") = <<"ns9">>
  /\ SpecMeaning["HMS"] = <<"hms">> /\ SpecMeaning["HMSf"] = <<"hms", ".", "us6">>
  /\ SpecMeaning["HMSF"] = <<"hms", ".", "ns9">> /\ SpecMeaning["nameonly"] = <<"name">>
<1>1. Data["File"] = <<"dir", "/", "sub", "\\", "name">>
  BY DEF Data
<1>2. BaseName(<<"dir", "/", "sub", "\\", "name">>) = <<"name">>
  <2> DEFINE s == <<"dir", "/", "sub", "\\", "name">>
             I == {k \in 1 .. Len(s) : s[k] \in {"/", "\\"}}
  <2>1. Len(s) = 5 /\ s[4] = "\\" /\ s[5] = "name"
    OBVIOUS
  <2>2. 4 \in I /\ 5 \notin I /\ I \subseteq 1 .. 5
    OBVIOUS
  <2>3. SelectLastInSeq(s, LAMBDA t : t \in {"/", "\\"}) = IF I # {} THEN Max(I) ELSE 0
    BY Zenon DEF SelectLastInSeq
  <2>4. Max(I) = 4
    <3> HIDE DEF I
    <3>1. \A k \in I : 4 >= k
      BY <2>2
    <3>2. \A x \in I : (\A k \in I : x >= k) => x = 4
      BY <2>2
    <3> QED
      BY <2>2, <3>1, <3>2, Zenon DEF Max
  <2>5. SelectLastInSeq(s, LAMBDA t : t \in {"/", "\\"}) = 4
    BY <2>2, <2>3, <2>4, Zenon
  <2>6. SubSeq(s, 4 + 1, 5) = <<"name">>
    <3>1. s \in Seq(Printable)
      BY DEF Printable
    <3> HIDE DEF s
    <3>0. \A u \in Seq(Printable) : \A n \in 1 .. Len(u) :
            /\ SubSeq(u, n, n) \in Seq(Printable) /\ Len(SubSeq(u, n, n)) = 1
            /\ SubSeq(u, n, n)[1] = u[n]
      OBVIOUS
    <3>4. 5 \in 1 .. 5 /\ 4 + 1 = 5
      OBVIOUS
    <3>2. /\ SubSeq(s, 4 + 1, 5) \in Seq(Printable) /\ Len(SubSeq(s, 4 + 1, 5)) = 1
          /\ SubSeq(s, 4 + 1, 5)[1] = s[5]
      BY <2>1, <3>0, <3>1, <3>4, Zenon
    <3>3. \A u \in Seq(Printable) : Len(u) = 1 => u = <<u[1]>>
      OBVIOUS
    <3> QED
      BY <2>1, <3>2, <3>3, Zenon
  <2> QED
    BY <2>1, <2>5, <2>6, Zenon DEF BaseName
<1>3. SpecMeaning["HMS"] = <<"hms">> /\ SpecMeaning["HMSf"] = <<"hms", ".", "us6">>
  BY DEF SpecMeaning
<1>4. SpecMeaning["HMSF"] = <<"hms", ".", "ns9">> /\ SpecMeaning["nameonly"] = <<"name">>
  BY DEF SpecMeaning
<1>5. <<"us">> # <<"ns">>
  OBVIOUS
<1>6. Padded(<<"us">>, ":06") = <<"us6">>
  BY <1>5, Zenon DEF Padded
<1>7. Padded(<<"ns">>, ":09") = <<"ns9">>
  BY <1>5, Zenon DEF Padded
<1> QED
  BY <1>1, <1>2, <1>3, <1>4, <1>6, <1>7, Zenon

-----------------------------------------------------------------------------
(* What the items print.                                                   *)

Text == Seq(Word)
Arg == Seq(Word \cup {"us", "ns"})

(* Concatenation under a name of its own, which the provers leave alone.   *)
Cat(x, y) == x \o y

Associates(x, y, z) == Cat(Cat(x, y), z) = Cat(x, Cat(y, z))
IsCat(x, y, z) == z = Cat(x, y)

(* It is associative.                                                      *)
LEMMA CatFacts ==
  ASSUME NEW X, NEW x \in Seq(X), NEW y \in Seq(X), NEW z \in Seq(X)
  PROVE  Cat(x, y) \in Seq(X) /\ Associates(x, y, z)
<1>1. x \o y \in Seq(X)
  OBVIOUS
<1>2. (x \o y) \o z = x \o (y \o z)
  BY ConcatAssociative
<1> QED
  BY <1>1, <1>2, Zenon DEF Cat, Associates

(* A number and the length of short sequences.                             *)
LEMMA NoneMore == \A n \in Nat : n + Len(<<>>) = n
  OBVIOUS

(* Behind whatever string leads vformat() to st, s leads it to next.       *)
Leads(s, args, st, next) ==
  \A base \in Seq(Token) : Scans(base, args, st) => Scans(base \o s, args, next)

(* The format strings s and u together are w.                              *)
Joins(s, u, w) == s \in Seq(Token) /\ u \in Seq(Token) /\ w = s \o u

(* One token, and one string behind another.                               *)
LEMMA LeadsOne ==
  ASSUME NEW x \in Token, NEW args, NEW st, NEW next, ScanToken(st, x, args) = next
  PROVE  Leads(<<x>>, args, st, next)
<1> SUFFICES ASSUME NEW base \in Seq(Token), Scans(base, args, st)
             PROVE  Scans(base \o <<x>>, args, next)
  BY Zenon DEF Leads
<1>1. \A b \in Seq(Token) : \A y \in Token : b \o <<y>> = Append(b, y)
  OBVIOUS
<1>2. base \o <<x>> = Append(base, x)
  BY <1>1, Zenon
<1>3. Scans(Append(base, x), args, ScanToken(st, x, args))
  BY ScanOne, Zenon
<1> QED
  BY <1>2, <1>3, Zenon

(* One string behind another.                                              *)
LEMMA LeadsJoin ==
  ASSUME NEW s, NEW u, NEW w, Joins(s, u, w), NEW args, NEW a, NEW b, NEW c,
         Leads(s, args, a, b), Leads(u, args, b, c)
  PROVE  Leads(w, args, a, c)
<1> SUFFICES ASSUME NEW base \in Seq(Token), Scans(base, args, a)
             PROVE  Scans(base \o w, args, c)
  BY Zenon DEF Leads
<1>1. s \in Seq(Token) /\ u \in Seq(Token) /\ w = s \o u
  BY Zenon DEF Joins
<1> DEFINE v == base \o s
<1>2. Cat(base, s) \in Seq(Token) /\ Associates(base, s, u)
  BY <1>1, CatFacts, Zenon
<1>3. v \in Seq(Token) /\ v \o u = base \o w
  BY <1>1, <1>2, Zenon DEF Cat, Associates
<1>4. Scans(v, args, b)
  BY Zenon DEF Leads
<1> HIDE DEF v
<1>5. Scans(v \o u, args, c)
  BY <1>3, <1>4, Zenon DEF Leads
<1> QED
  BY <1>3, <1>5, Zenon

(* The arguments A are those from n on.                                    *)
ArgsAt(args, n, A) ==
  \A x \in 1 .. Len(A) : n + (x - 1) <= Len(args) /\ args[n + (x - 1)] = A[x]

(* Wherever s stands in a format string, outside of braces, it prints text *)
(* with the arguments A.                                                   *)
Prints(s, A, text) ==
  \A args : \A n \in Nat, out \in Text :
    ArgsAt(args, n, A) => Leads(s, args, St("text", n, out), St("text", n + Len(A), out \o text))

(* The empty string prints nothing.                                        *)
LEMMA NonePrints == Prints(<<>>, <<>>, <<>>)
<1> SUFFICES ASSUME NEW args, NEW n \in Nat, NEW out \in Text, NEW base \in Seq(Token),
                    Scans(base, args, St("text", n, out))
             PROVE  Scans(base \o <<>>, args, St("text", n + Len(<<>>), out \o <<>>))
  BY Zenon DEF Prints, Leads
<1>1. base \o <<>> = base
  OBVIOUS
<1>2. out \o <<>> = out
  BY DEF Text
<1>3. n + Len(<<>>) = n
  OBVIOUS
<1> QED
  BY <1>1, <1>2, <1>3, Zenon

SplitAt(args, n, A, B, C) ==
  /\ ArgsAt(args, n, A) /\ ArgsAt(args, n + Len(A), B)
  /\ n + Len(A) \in Nat /\ (n + Len(A)) + Len(B) = n + Len(C)

(* Arguments of two strings, one behind the other.                         *)
LEMMA ArgsSplit ==
  ASSUME NEW args, NEW n \in Nat, NEW A \in Seq(Arg), NEW B \in Seq(Arg),
         NEW C, IsCat(A, B, C), ArgsAt(args, n, C)
  PROVE  SplitAt(args, n, A, B, C)
<1> DEFINE a == Len(A)
           b == Len(B)
<1>1. /\ a \in Nat /\ b \in Nat /\ Len(C) = a + b
      /\ \A x \in 1 .. a : C[x] = A[x]
      /\ \A x \in 1 .. b : C[a + x] = B[x]
  BY DEF Cat, IsCat
<1> HIDE DEF a, b
<1>2. /\ \A x \in 1 .. a : x \in 1 .. a + b
      /\ \A x \in 1 .. b : a + x \in 1 .. a + b /\ n + ((a + x) - 1) = (n + a) + (x - 1)
      /\ n + a \in Nat /\ (n + a) + b = n + (a + b)
  BY ONLY <1>1, n \in Nat
<1>3. \A x \in 1 .. a + b : n + (x - 1) <= Len(args) /\ args[n + (x - 1)] = C[x]
  BY <1>1, Zenon DEF ArgsAt
<1>4. ArgsAt(args, n, A)
  <2>1. \A x \in 1 .. a : n + (x - 1) <= Len(args) /\ args[n + (x - 1)] = A[x]
    BY <1>1, <1>2, <1>3, Zenon
  <2> QED
    BY <2>1, Zenon DEF ArgsAt, a
<1>5. ArgsAt(args, n + a, B)
  <2>1. ASSUME NEW x \in 1 .. b
        PROVE  (n + a) + (x - 1) <= Len(args) /\ args[(n + a) + (x - 1)] = B[x]
    <3>1. /\ n + ((a + x) - 1) <= Len(args) /\ args[n + ((a + x) - 1)] = C[a + x]
      BY <1>2, <1>3, Zenon
    <3> QED
      BY <3>1, <1>1, <1>2, Zenon
  <2> QED
    BY <2>1, Zenon DEF ArgsAt, b
<1> QED
  BY <1>1, <1>2, <1>4, <1>5, Zenon DEF a, b, SplitAt

(* One string behind another prints the one text behind the other.         *)
LEMMA JoinPrints ==
  ASSUME NEW s, NEW u, NEW w, Joins(s, u, w), NEW A \in Seq(Arg), NEW B \in Seq(Arg),
         NEW C, IsCat(A, B, C), NEW t1 \in Text, NEW t2 \in Text, NEW t3, IsCat(t1, t2, t3),
         Prints(s, A, t1), Prints(u, B, t2)
  PROVE  Prints(w, C, t3)
<1> SUFFICES ASSUME NEW args, NEW n \in Nat, NEW out \in Text, ArgsAt(args, n, C)
             PROVE  Leads(w, args, St("text", n, out), St("text", n + Len(C), out \o t3))
  BY Zenon DEF Prints
<1> DEFINE n2 == n + Len(A)
           out2 == out \o t1
           st1 == St("text", n, out)
           st2 == St("text", n2, out2)
           st3 == St("text", n2 + Len(B), out2 \o t2)
<1>1. /\ ArgsAt(args, n, A) /\ ArgsAt(args, n2, B) /\ n2 \in Nat
      /\ n2 + Len(B) = n + Len(C)
  <2>1. SplitAt(args, n, A, B, C)
    BY ArgsSplit, Zenon
  <2> QED
    BY <2>1, Zenon DEF SplitAt
<1>2. out2 \in Text /\ out2 \o t2 = out \o t3
  <2>1. Cat(out, t1) \in Seq(Word) /\ Associates(out, t1, t2)
    BY CatFacts, Zenon DEF Text
  <2> QED
    BY <2>1, Zenon DEF Text, Cat, Associates, IsCat
<1>3. Leads(s, args, st1, st2)
  BY <1>1, Zenon DEF Prints
<1> HIDE DEF n2, out2
<1>4. Leads(u, args, st2, st3)
  BY <1>1, <1>2, Zenon DEF Prints
<1>5. st3 = St("text", n + Len(C), out \o t3)
  BY <1>1, <1>2, Zenon
<1> HIDE DEF st1, st2, st3
<1>6. Leads(w, args, st1, st3)
  BY ONLY <1>3, <1>4, Joins(s, u, w), LeadsJoin, Zenon
<1> QED
  BY <1>5, <1>6, Zenon DEF st1

(* A word prints itself.                                                   *)
LEMMA WordPrints ==
  ASSUME NEW t \in Token, t \notin {"{", "}"}
  PROVE  Prints(<<t>>, <<>>, <<t>>)
<1> SUFFICES ASSUME NEW args, NEW n \in Nat, NEW out \in Text
             PROVE  Leads(<<t>>, args, St("text", n, out), St("text", n + Len(<<>>), out \o <<t>>))
  BY Zenon DEF Prints
<1> DEFINE st1 == St("text", n, out)
           st2 == St("text", n, out \o <<t>>)
<1>1. ScanToken(st1, t, args) = st2
  BY ScanWord, Zenon
<1>2. st2 = St("text", n + Len(<<>>), out \o <<t>>)
  <2>1. n + Len(<<>>) = n
    BY NoneMore, Zenon
  <2> QED
    BY <2>1, Zenon
<1> HIDE DEF st1, st2
<1>3. Leads(<<t>>, args, st1, st2)
  BY <1>1, LeadsOne, Zenon
<1> QED
  BY <1>2, <1>3, Zenon DEF st1

(* Short format strings as strings that are joined.                        *)
LEMMA Joined2 ==
  ASSUME NEW x \in Token, NEW y \in Token
  PROVE  Joins(<<x>>, <<y>>, <<x, y>>)
<1>1. <<x>> \in Seq(Token) /\ <<y>> \in Seq(Token)
  OBVIOUS
<1>2. \A s \in Seq(Token) : s \o <<y>> = Append(s, y)
  OBVIOUS
<1>3. <<x, y>> = Append(<<x>>, y)
  OBVIOUS
<1> QED
  BY <1>1, <1>2, <1>3, Zenon DEF Joins

(* Three tokens.                                                           *)
LEMMA Joined3 ==
  ASSUME NEW x \in Token, NEW y \in Token, NEW z \in Token
  PROVE  Joins(<<x, y>>, <<z>>, <<x, y, z>>)
<1>1. <<x, y>> \in Seq(Token) /\ <<z>> \in Seq(Token)
  OBVIOUS
<1>2. <<x, y, z>> = <<x, y>> \o <<z>>
  OBVIOUS
<1> QED
  BY <1>1, <1>2, Zenon DEF Joins

(* Six tokens.                                                             *)
LEMMA Joined6 ==
  ASSUME NEW a \in Token, NEW b \in Token, NEW c \in Token, NEW x \in Token, NEW y \in Token,
         NEW z \in Token
  PROVE  Joins(<<a, b, c>>, <<x, y, z>>, <<a, b, c, x, y, z>>)
<1>1. <<a, b, c>> \in Seq(Token) /\ <<x, y, z>> \in Seq(Token)
  OBVIOUS
<1>2. <<a, b, c, x, y, z>> = <<a, b, c>> \o <<x, y, z>>
  OBVIOUS
<1> QED
  BY <1>1, <1>2, Zenon DEF Joins

(* A doubled brace prints one.                                             *)
LEMMA BracePrints ==
  ASSUME NEW t \in {"{", "}"}
  PROVE  Prints(<<t, t>>, <<>>, <<t>>)
<1>0. t \in Token
  BY TokenChars, Zenon
<1> SUFFICES ASSUME NEW args, NEW n \in Nat, NEW out \in Text
             PROVE  Leads(<<t, t>>, args, St("text", n, out), St("text", n + Len(<<>>), out \o <<t>>))
  BY Zenon DEF Prints
<1> DEFINE st1 == St("text", n, out)
           st2 == St(t, n, out)
           st3 == St("text", n, out \o <<t>>)
<1>1. ScanToken(st1, t, args) = st2
  BY ScanOpens, Zenon
<1>2. ScanToken(st2, t, args) = st3
  BY ScanDouble, Zenon
<1>3. st3 = St("text", n + Len(<<>>), out \o <<t>>)
  <2>1. n + Len(<<>>) = n
    BY NoneMore, Zenon
  <2> QED
    BY <2>1, Zenon
<1> HIDE DEF st1, st2, st3
<1>4. Leads(<<t>>, args, st1, st2)
  BY ONLY <1>0, <1>1, LeadsOne, Zenon
<1>5. Leads(<<t>>, args, st2, st3)
  BY ONLY <1>0, <1>2, LeadsOne, Zenon
<1>6. Joins(<<t>>, <<t>>, <<t, t>>)
  BY ONLY <1>0, Joined2, Zenon
<1>7. Leads(<<t, t>>, args, st1, st3)
  BY ONLY <1>4, <1>5, <1>6, LeadsJoin, Zenon
<1> QED
  BY <1>3, <1>7, Zenon DEF st1

(* The argument of a placeholder.                                          *)
LEMMA OneMore ==
  ASSUME NEW n \in Nat, NEW args, NEW a, ArgsAt(args, n, <<a>>)
  PROVE  n <= Len(args) /\ args[n] = a /\ n + Len(<<a>>) = n + 1
<1>1. Len(<<a>>) = 1 /\ <<a>>[1] = a /\ 1 \in 1 .. 1 /\ n + (1 - 1) = n
  OBVIOUS
<1> QED
  BY <1>1, Zenon DEF ArgsAt

(* A pair of braces prints its argument.                                   *)
LEMMA FieldPrints ==
  ASSUME NEW a \in Arg
  PROVE  Prints(<<"{", "}">>, <<a>>, a)
<1>0. "{" \in Token /\ "}" \in Token /\ "{" \in {"{", "}"}
  BY TokenChars, Zenon
<1> SUFFICES ASSUME NEW args, NEW n \in Nat, NEW out \in Text, ArgsAt(args, n, <<a>>)
             PROVE  Leads(<<"{", "}">>, args, St("text", n, out), St("text", n + Len(<<a>>), out \o a))
  BY Zenon DEF Prints
<1> DEFINE st1 == St("text", n, out)
           st2 == St("{", n, out)
           st3 == St("text", n + 1, out \o args[n])
<1>1. n <= Len(args) /\ args[n] = a /\ n + Len(<<a>>) = n + 1
  BY OneMore, Zenon
<1>2. ScanToken(st1, "{", args) = st2
  BY <1>0, ScanOpens, Zenon
<1>3. ScanToken(st2, "}", args) = st3
  BY <1>1, ScanUse, Zenon
<1>4. st3 = St("text", n + Len(<<a>>), out \o a)
  BY <1>1, Zenon
<1> HIDE DEF st1, st2, st3
<1>5. Leads(<<"{">>, args, st1, st2)
  BY ONLY <1>0, <1>2, LeadsOne, Zenon
<1>6. Leads(<<"}">>, args, st2, st3)
  BY ONLY <1>0, <1>3, LeadsOne, Zenon
<1>7. Joins(<<"{">>, <<"}">>, <<"{", "}">>)
  BY ONLY <1>0, Joined2, Zenon
<1>8. Leads(<<"{", "}">>, args, st1, st3)
  BY ONLY <1>5, <1>6, <1>7, LeadsJoin, Zenon
<1> QED
  BY <1>4, <1>8, Zenon DEF st1

(* Braces with a width print their argument padded.                        *)
LEMMA PaddedPrints ==
  ASSUME NEW a \in Arg, NEW w \in {":06", ":09"}
  PROVE  Prints(<<"{", w, "}">>, <<a>>, Padded(a, w))
<1>0. "{" \in Token /\ "}" \in Token /\ w \in Token /\ "{" \in {"{", "}"}
  BY TokenChars, Zenon
<1> SUFFICES ASSUME NEW args, NEW n \in Nat, NEW out \in Text, ArgsAt(args, n, <<a>>)
             PROVE  Leads(<<"{", w, "}">>, args, St("text", n, out),
                          St("text", n + Len(<<a>>), out \o Padded(a, w)))
  BY Zenon DEF Prints
<1> DEFINE st1 == St("text", n, out)
           st2 == St("{", n, out)
           st3 == St(w, n, out)
           st4 == St("text", n + 1, out \o Padded(args[n], w))
<1>1. n <= Len(args) /\ args[n] = a /\ n + Len(<<a>>) = n + 1
  BY OneMore, Zenon
<1>2. ScanToken(st1, "{", args) = st2
  BY <1>0, ScanOpens, Zenon
<1>3. ScanToken(st2, w, args) = st3
  BY <1>1, ScanWidth, Zenon
<1>4. ScanToken(st3, "}", args) = st4
  BY ScanPadded, Zenon
<1>5. st4 = St("text", n + Len(<<a>>), out \o Padded(a, w))
  BY <1>1, Zenon
<1> HIDE DEF st1, st2, st3, st4
<1>6. Leads(<<"{">>, args, st1, st2)
  BY ONLY <1>0, <1>2, LeadsOne, Zenon
<1>7. Leads(<<w>>, args, st2, st3)
  BY ONLY <1>0, <1>3, LeadsOne, Zenon
<1>8. Leads(<<"}">>, args, st3, st4)
  BY ONLY <1>0, <1>4, LeadsOne, Zenon
<1>9. Joins(<<"{">>, <<w>>, <<"{", w>>)
  BY ONLY <1>0, Joined2, Zenon
<1>10. Joins(<<"{", w>>, <<"}">>, <<"{", w, "}">>)
  BY ONLY <1>0, Joined3, Zenon
<1>11. Leads(<<"{", w>>, args, st1, st3)
  BY ONLY <1>6, <1>7, <1>9, LeadsJoin, Zenon
<1>12. Leads(<<"{", w, "}">>, args, st1, st4)
  BY ONLY <1>8, <1>10, <1>11, LeadsJoin, Zenon
<1> QED
  BY <1>5, <1>12, Zenon DEF st1

(* Short sequences of texts and of arguments.                              *)
LEMMA ShortCats ==
  /\ \A a : IsCat(<<a>>, <<>>, <<a>>)
  /\ \A a, b : IsCat(<<a>>, <<b>>, <<a, b>>)
  /\ \A a, b, c : IsCat(<<a, b>>, <<c>>, <<a, b, c>>)
<1>1. ASSUME NEW a PROVE <<a>> = <<a>> \o <<>>
  OBVIOUS
<1>2. ASSUME NEW a, NEW b PROVE <<a, b>> = <<a>> \o <<b>>
  <2>1. <<a, b>> = Append(<<a>>, b)
    OBVIOUS
  <2>2. <<a>> \in Seq({a, b}) /\ b \in {a, b}
    OBVIOUS
  <2>3. \A X : \A s \in Seq(X) : \A y \in X : s \o <<y>> = Append(s, y)
    OBVIOUS
  <2> QED
    BY <2>1, <2>2, <2>3, Zenon
<1>3. ASSUME NEW a, NEW b, NEW c PROVE <<a, b, c>> = <<a, b>> \o <<c>>
  OBVIOUS
<1> QED
  BY <1>1, <1>2, <1>3, Zenon DEF IsCat, Cat

(* The text of the second, a point and the padded fraction.                *)
LEMMA FractionPrints ==
  ASSUME NEW a, NEW b, NEW c, NEW w \in {":06", ":09"}, <<a>> \in Text, <<c>> \in Text,
         <<a>> \in Arg, <<b>> \in Arg, Padded(<<b>>, w) = <<c>>, <<".">> \in Text,
         <<a, ".">> \in Text
  PROVE  Prints(<<"{", "}", ".", "{", w, "}">>, << <<a>>, <<b>> >>, <<a, ".", c>>)
<1>0. /\ "{" \in Token /\ "}" \in Token /\ w \in Token /\ "." \in Token
      /\ "." \notin {"{", "}"}
  BY TokenChars, Zenon
<1> DEFINE A == << <<a>> >>
           B == << <<b>> >>
           C == << <<a>>, <<b>> >>
           none == <<>>
<1>1. <<>> \in Seq(Arg) /\ \A x \in Arg : <<x>> \in Seq(Arg)
  OBVIOUS
<1>2. A \in Seq(Arg) /\ B \in Seq(Arg) /\ none \in Seq(Arg)
  BY <1>1, Zenon
<1>3. IsCat(A, none, A) /\ IsCat(A, B, C)
  BY ShortCats, Zenon
<1>4. Prints(<<"{", "}">>, A, <<a>>)
  BY FieldPrints, Zenon
<1>5. Prints(<<".">>, <<>>, <<".">>)
  BY <1>0, WordPrints, Zenon
<1>6. Prints(<<"{", w, "}">>, B, <<c>>)
  BY PaddedPrints, Zenon
<1>7. Joins(<<"{", "}">>, <<".">>, <<"{", "}", ".">>)
  BY ONLY <1>0, Joined3, Zenon
<1>8. Joins(<<"{", "}", ".">>, <<"{", w, "}">>, <<"{", "}", ".", "{", w, "}">>)
  BY ONLY <1>0, Joined6, Zenon
<1>9. IsCat(<<a>>, <<".">>, <<a, ".">>) /\ IsCat(<<a, ".">>, <<c>>, <<a, ".", c>>)
  BY ShortCats, Zenon
<1> DEFINE s1 == <<"{", "}">>
           s2 == <<".">>
           s3 == <<"{", w, "}">>
           s4 == <<"{", "}", ".">>
           s5 == <<"{", "}", ".", "{", w, "}">>
           t1 == <<a>>
           t2 == <<".">>
           t3 == <<c>>
           t4 == <<a, ".">>
           t5 == <<a, ".", c>>
<1>10. /\ Joins(s1, s2, s4) /\ Joins(s4, s3, s5) /\ IsCat(t1, t2, t4) /\ IsCat(t4, t3, t5)
       /\ Prints(s1, A, t1) /\ Prints(s2, none, t2) /\ Prints(s3, B, t3)
       /\ t1 \in Text /\ t2 \in Text /\ t3 \in Text /\ t4 \in Text
  BY <1>4, <1>5, <1>6, <1>7, <1>8, <1>9, Zenon
<1> HIDE DEF A, B, C, none, s1, s2, s3, s4, s5, t1, t2, t3, t4, t5
<1>11. Prints(s4, A, t4)
  BY ONLY <1>2, <1>3, <1>10, JoinPrints
<1>12. Prints(s5, C, t5)
  BY ONLY <1>2, <1>3, <1>10, <1>11, JoinPrints
<1> QED
  BY <1>12, Zenon DEF C, s5, t5

(* A field prints text with the arguments it is expanded to.               *)
PrintsField(field, spec, text) ==
  LET A == Expand([field |-> field, spec |-> spec])
  IN  A \in Seq(Arg) /\ Prints(expand_spec(spec), A, text)

(* The arguments of a field for each spec.                                 *)
LEMMA Expansions ==
  ASSUME NEW x
  PROVE  /\ Expand([field |-> x, spec |-> "None"]) = <<Data[x]>>
         /\ Expand([field |-> x, spec |-> "TimeHMS"]) = << <<"hms">> >>
         /\ Expand([field |-> x, spec |-> "TimeHMSf"]) = << <<"hms">>, <<"us">> >>
         /\ Expand([field |-> x, spec |-> "TimeHMSF"]) = << <<"hms">>, <<"ns">> >>
         /\ Expand([field |-> x, spec |-> "FileNameOnly"]) = <<BaseName(Data[x])>>
<1>0. \A y : [field |-> x, spec |-> y].spec = y /\ [field |-> x, spec |-> y].field = x
  BY Zenon
<1>1. Expand([field |-> x, spec |-> "None"]) = <<Data[x]>>
  BY <1>0, Zenon DEF Expand
<1>2. Expand([field |-> x, spec |-> "TimeHMS"]) = << <<"hms">> >>
  BY <1>0, Zenon DEF Expand
<1>3. Expand([field |-> x, spec |-> "TimeHMSf"]) = << <<"hms">>, <<"us">> >>
  BY <1>0, Zenon DEF Expand
<1>4. Expand([field |-> x, spec |-> "TimeHMSF"]) = << <<"hms">>, <<"ns">> >>
  BY <1>0, Zenon DEF Expand
<1>5. Expand([field |-> x, spec |-> "FileNameOnly"]) = <<BaseName(Data[x])>>
  BY <1>0, Zenon DEF Expand
<1> QED
  BY <1>1, <1>2, <1>3, <1>4, <1>5, Zenon

(* The texts and the arguments that occur.                                 *)
LEMMA ShortTexts ==
  /\ <<"hms">> \in Text /\ <<".">> \in Text /\ <<"hms", ".">> \in Text
  /\ <<"us6">> \in Text /\ <<"ns9">> \in Text
  /\ \A t \in Text : t \in Arg
  /\ <<"hms">> \in Arg /\ <<"us">> \in Arg /\ <<"ns">> \in Arg /\ <<"name">> \in Arg
  /\ \A x \in FieldKinds : Data[x] \in Arg
  /\ \A a \in Arg : <<a>> \in Seq(Arg)
  /\ \A a, b \in Arg : <<a, b>> \in Seq(Arg)
<1>1. <<"hms">> \in Seq(Printable) /\ <<".">> \in Seq(Printable) /\ <<"hms", ".">> \in Seq(Printable)
  BY DEF Printable
<1>2. <<"us6">> \in Seq(Printable) /\ <<"ns9">> \in Seq(Printable) /\ <<"name">> \in Seq(Printable)
  BY DEF Printable
<1>3. \A t \in Text : t \in Arg
  BY SeqMonotonic DEF Text, Arg
<1>4. \A t \in Seq(Printable) : t \in Text
  BY PrintableWords, Zenon DEF Text
<1>5. \A x \in {"us", "ns"} : <<x>> \in Arg
  BY DEF Arg
<1>6. \A x \in FieldKinds : Data[x] \in Text
  BY DataTypes, Zenon DEF FieldKinds, Text
<1>7. \A a \in Arg : <<a>> \in Seq(Arg)
  OBVIOUS
<1>8. \A a, b \in Arg : <<a, b>> \in Seq(Arg)
  OBVIOUS
<1> QED
  BY <1>1, <1>2, <1>3, <1>4, <1>5, <1>6, <1>7, <1>8, Zenon

(* What the specs print is what the reference says.                        *)
LEMMA SpecsPrint ==
  /\ \A x \in FieldKinds : PrintsField(x, "None", Data[x])
  /\ \A x \in FieldKinds : PrintsField(x, "TimeHMS", SpecMeaning["HMS"])
  /\ \A x \in FieldKinds : PrintsField(x, "TimeHMSf", SpecMeaning["HMSf"])
  /\ \A x \in FieldKinds : PrintsField(x, "TimeHMSF", SpecMeaning["HMSF"])
  /\ PrintsField("File", "FileNameOnly", SpecMeaning["nameonly"])
<1>0. /\ expand_spec("None") = <<"{", "}">> /\ expand_spec("TimeHMS") = <<"{", "}">>
      /\ expand_spec("FileNameOnly") = <<"{", "}">>
  <2>1. /\ "None" \notin {"TimeHMSf", "TimeHMSF"} /\ "TimeHMS" \notin {"TimeHMSf", "TimeHMSF"}
        /\ "FileNameOnly" \notin {"TimeHMSf", "TimeHMSF"}
    OBVIOUS
  <2> QED
    BY <2>1, SpecExpanded, Zenon
<1>1. ASSUME NEW x \in FieldKinds PROVE PrintsField(x, "None", Data[x])
  <2>1. Data[x] \in Arg /\ <<Data[x]>> \in Seq(Arg)
    BY ShortTexts, Zenon
  <2>2. Prints(<<"{", "}">>, <<Data[x]>>, Data[x])
    BY <2>1, FieldPrints, Zenon
  <2> QED
    BY <2>1, <2>2, <1>0, Expansions, Zenon DEF PrintsField
<1>2. ASSUME NEW x \in FieldKinds PROVE PrintsField(x, "TimeHMS", SpecMeaning["HMS"])
  <2>1. <<"hms">> \in Arg /\ << <<"hms">> >> \in Seq(Arg)
    BY ShortTexts, Zenon
  <2>2. Prints(<<"{", "}">>, << <<"hms">> >>, <<"hms">>)
    BY <2>1, FieldPrints, Zenon
  <2> QED
    BY <2>1, <2>2, <1>0, Expansions, Texts, Zenon DEF PrintsField
<1>3. ASSUME NEW x \in FieldKinds PROVE PrintsField(x, "TimeHMSf", SpecMeaning["HMSf"])
  <2>1. << <<"hms">>, <<"us">> >> \in Seq(Arg) /\ ":06" \in {":06", ":09"}
    BY ShortTexts, Zenon
  <2>2. Prints(<<"{", "}", ".", "{", ":06", "}">>, << <<"hms">>, <<"us">> >>, <<"hms", ".", "us6">>)
    BY <2>1, ShortTexts, Texts, FractionPrints, Zenon
  <2>3. expand_spec("TimeHMSf") = <<"{", "}", ".", "{", ":06", "}">>
    BY SpecExpanded, Zenon
  <2> QED
    BY <2>1, <2>2, <2>3, Expansions, Texts, Zenon DEF PrintsField
<1>4. ASSUME NEW x \in FieldKinds PROVE PrintsField(x, "TimeHMSF", SpecMeaning["HMSF"])
  <2>1. << <<"hms">>, <<"ns">> >> \in Seq(Arg) /\ ":09" \in {":06", ":09"}
    BY ShortTexts, Zenon
  <2>2. Prints(<<"{", "}", ".", "{", ":09", "}">>, << <<"hms">>, <<"ns">> >>, <<"hms", ".", "ns9">>)
    BY <2>1, ShortTexts, Texts, FractionPrints, Zenon
  <2>3. expand_spec("TimeHMSF") = <<"{", "}", ".", "{", ":09", "}">>
    BY SpecExpanded, Zenon
  <2> QED
    BY <2>1, <2>2, <2>3, Expansions, Texts, Zenon DEF PrintsField
<1>5. PrintsField("File", "FileNameOnly", SpecMeaning["nameonly"])
  <2>1. <<"name">> \in Arg /\ << <<"name">> >> \in Seq(Arg)
    BY ShortTexts, Zenon
  <2>2. Prints(<<"{", "}">>, << <<"name">> >>, <<"name">>)
    BY <2>1, FieldPrints, Zenon
  <2>3. Expand([field |-> "File", spec |-> "FileNameOnly"]) = << <<"name">> >>
    BY Expansions, Texts, Zenon
  <2>4. SpecMeaning["nameonly"] = <<"name">>
    BY Texts, Zenon
  <2> QED
    BY <2>1, <2>2, <2>3, <2>4, <1>0, Zenon DEF PrintsField
<1> QED
  BY <1>1, <1>2, <1>3, <1>4, <1>5, Zenon

(* A field of the pattern prints what the reference says.                  *)
LEMMA FieldItemPrints ==
  ASSUME NEW p, NEW j \in Nat, NEW k \in Nat, FieldAt(p, j, k)
  PROVE  PrintsField(FieldNames[p[j + 2]], SpecAt(p, j, k), ItemText(p, j, k))
<1> DEFINE x == FieldNames[p[j + 2]]
           y == p[j + 4]
<1>1. x \in FieldKinds
  BY KindsOfNames, Zenon DEF FieldAt
<1>2. CASE k # j + 5
  <2>1. SpecAt(p, j, k) = "None" /\ ItemText(p, j, k) = Data[x]
    BY <1>2, Zenon DEF SpecAt, ItemText
  <2> QED
    BY <2>1, <1>1, SpecsPrint, Zenon
<1>3. CASE k = j + 5
  <2>1. SpecAt(p, j, k) = SpecNames[y]
    BY <1>3, Zenon DEF SpecAt
  <2>2. IsSpecOf(p[j + 2], y)
    <3>1. k # j + 3 /\ k # j + 4
      BY <1>3
    <3> QED
      BY <3>1, Zenon DEF FieldAt
  <2>3. CASE y = "path"
    <3>1. ItemText(p, j, k) = Data[x]
      BY <2>3, Zenon DEF ItemText
    <3>2. SpecNames["path"] = "None"
      BY DEF SpecNames
    <3> QED
      BY <2>1, <2>3, <3>1, <3>2, <1>1, SpecsPrint, Zenon
  <2>4. CASE y \in {"HMS", "HMSf", "HMSF"}
    <3>1. y # "path"
      BY <2>4
    <3>2. ItemText(p, j, k) = SpecMeaning[y]
      BY <3>1, <1>3, Zenon DEF ItemText
    <3>3. /\ SpecNames["HMS"] = "TimeHMS" /\ SpecNames["HMSf"] = "TimeHMSf"
          /\ SpecNames["HMSF"] = "TimeHMSF"
      BY DEF SpecNames
    <3> HIDE DEF x
    <3> QED
      BY <2>1, <2>4, <3>2, <3>3, <1>1, SpecsPrint, Zenon DEF x
  <2>5. CASE p[j + 2] = "file" /\ y = "nameonly"
    <3>1. y # "path"
      BY <2>5
    <3>2. ItemText(p, j, k) = SpecMeaning["nameonly"]
      BY <3>1, <2>5, <1>3, Zenon DEF ItemText
    <3>3. SpecNames["nameonly"] = "FileNameOnly" /\ FieldNames["file"] = "File"
      BY DEF SpecNames, FieldNames
    <3> QED
      BY <2>1, <2>5, <3>2, <3>3, SpecsPrint, Zenon
  <2> QED
    BY <2>2, <2>3, <2>4, <2>5, Zenon DEF IsSpecOf
<1> QED
  BY <1>2, <1>3, Zenon

-----------------------------------------------------------------------------
(* While no error is found, the format string made so far prints what the  *)
(* items read so far mean, with the arguments of the fields so far.        *)
PrintsSoFar ==
  error = "None" => Args \in Seq(Arg) /\ Prints(fmt_str, Args, Reading(pattern)[i - 1].text)

(* An item that is forwarded or expanded.                                  *)
LEMMA PushPrints ==
  ASSUME IInv, PrintsSoFar, pc = "loop", i <= Len(pattern), NEW k \in i .. Len(pattern),
         ItemAt(pattern, i - 1, k), NEW s \in Seq(Token), Push(s, k + 1),
         NEW A \in Seq(Arg), IsCat(Args, A, Args'), Prints(s, A, ItemText(pattern, i - 1, k))
  PROVE  PrintsSoFar'
<1> DEFINE p == pattern
           n == Len(pattern)
           t1 == Reading(p)[i - 1].text
           t2 == ItemText(p, i - 1, k)
           t3 == Reading(p)[k].text
           B == Args
           C == Args'
           w == fmt_str \o s
           f == fmt_str
<1>1. p \in Seq(Token) /\ i \in 1 .. n + 1 /\ f \in Seq(Token)
  BY Zenon DEF IInv, Types
<1>2. n \in Nat
  BY <1>1, LenProperties, Zenon
<1>3. /\ i - 1 \in Nat /\ i - 1 \in 0 .. n /\ i - 1 \in 0 .. k - 1
      /\ k \in 1 .. n /\ k \in Nat /\ i - 1 < k /\ k <= n /\ (k + 1) - 1 = k
  BY <1>1, <1>2, NextPlaces, Zenon
<1>4. error = "None" /\ WellFormed(p)[i - 1]
  BY Zenon DEF IInv, Ended, Consumed
<1>5. B \in Seq(Arg) /\ Prints(f, B, t1) /\ Prints(s, A, t2) /\ IsCat(B, A, C)
  BY <1>4, Zenon DEF PrintsSoFar
<1>6. t1 \in Text
  <2>1. ReadingOK(p, i - 1)
    BY <1>1, <1>3, ReadingTypes, Zenon
  <2> QED
    BY <2>1, <1>4, Zenon DEF ReadingOK, Text
<1>7. t2 \in Text
  <2>1. t2 \in Seq(Word)
    BY ONLY <1>1, <1>3, ItemAt(pattern, i - 1, k), ItemTypes, Zenon
  <2> QED
    BY <2>1, Zenon DEF Text
<1>8. IsCat(t1, t2, t3)
  <2>1. t3 = t1 \o t2
    BY <1>1, <1>3, <1>4, ReadingGrows, Zenon
  <2> QED
    BY <2>1, Zenon DEF IsCat, Cat
<1>9. Joins(f, s, w)
  BY <1>1, Zenon DEF Joins
<1>10. C \in Seq(Arg)
  <2>1. Cat(B, A) \in Seq(Arg)
    BY <1>5, CatFacts, Zenon
  <2> QED
    BY <2>1, <1>5, Zenon DEF IsCat
<1> HIDE DEF t1, t2, t3, B, C, w, f
<1>11. Prints(w, C, t3)
  BY ONLY <1>5, <1>6, <1>7, <1>8, <1>9, A \in Seq(Arg), JoinPrints
<1>12. CASE fmt_str_len + Chars(s) <= MaxFmtStrLen
  <2>1. fmt_str' = w /\ i' = k + 1 /\ pattern' = p
    BY <1>12, Zenon DEF Push, w
  <2>2. i' - 1 = k
    BY <2>1, <1>3, Zenon
  <2>3. Reading(pattern')[i' - 1].text = t3
    BY <2>1, <2>2, Zenon DEF t3
  <2> QED
    BY <2>1, <2>3, <1>10, <1>11, Zenon DEF PrintsSoFar, C
<1>13. CASE ~(fmt_str_len + Chars(s) <= MaxFmtStrLen)
  <2>1. error' = "NotConstant" /\ "NotConstant" # "None"
    BY <1>13, Zenon DEF Push
  <2> QED
    BY <2>1, Zenon DEF PrintsSoFar
<1> QED
  BY <1>12, <1>13, Zenon

(* An item that is no field leaves the arguments alone.                    *)
LEMMA NoArgs ==
  ASSUME IInv, PrintsSoFar, error = "None", fields' = fields
  PROVE  <<>> \in Seq(Arg) /\ IsCat(Args, <<>>, Args')
<1>1. Args \in Seq(Arg) /\ Args' = Args
  BY Zenon DEF PrintsSoFar, Args
<1>2. <<>> \in Seq(Arg) /\ \A A \in Seq(Arg) : A = A \o <<>>
  OBVIOUS
<1> QED
  BY <1>1, <1>2, Zenon DEF IsCat, Cat

(* At first nothing is printed.                                            *)
LEMMA InitPrints == Init => PrintsSoFar
<1> SUFFICES ASSUME Init PROVE PrintsSoFar
  OBVIOUS
<1>1. pattern \in Seq(Token) /\ i = 1 /\ fmt_str = <<>> /\ fields = <<>>
  BY PatternTokens, Zenon DEF Init
<1>2. Reading(pattern)[0] = Nothing
  BY <1>1, ReadingGrows, Zenon
<1>3. 1 - 1 = 0 /\ <<>> \in Seq(Arg)
  OBVIOUS
<1>4. Reading(pattern)[i - 1].text = <<>>
  <2>1. Nothing.text = <<>>
    BY DEF Nothing
  <2> QED
    BY <1>1, <1>2, <1>3, <2>1, Zenon
<1>5. Args = <<>>
  BY <1>1, ArgsEmpty, Zenon DEF Args
<1> QED
  BY <1>1, <1>3, <1>4, <1>5, NonePrints, Zenon DEF PrintsSoFar

(* An item with no field in it is none.                                    *)
LEMMA NoField ==
  ASSUME NEW p, NEW j, NEW k, FieldsIn(p, j, k) = 0
  PROVE  ~FieldAt(p, j, k)
  BY DEF FieldsIn

(* A doubled brace.                                                        *)
LEMMA ForwardBracePrints ==
  ASSUME IInv, PrintsSoFar, NEW t \in {"{", "}"}, Here(t), Doubled(t), Push(<<t, t>>, i + 2),
         fields' = fields
  PROVE  PrintsSoFar'
<1>1. /\ pattern \in Seq(Token) /\ Len(pattern) \in Nat /\ pc = "loop" /\ i \in Nat /\ i > 0
      /\ i <= Len(pattern) /\ error = "None"
  BY HereIs, Zenon DEF Here
<1>2. i < Len(pattern) /\ pattern[i] = t /\ pattern[i + 1] = t
  BY Zenon DEF Here, Doubled
<1> DEFINE k == i + 1
<1>3. k \in i .. Len(pattern) /\ k + 1 = i + 2
  BY <1>1, <1>2, OneFurther, Zenon
<1>4. i = (i - 1) + 1 /\ k = (i - 1) + 2 /\ FieldsIn(pattern, i - 1, k) = 0
  BY <1>1, PlainItems, Zenon
<1>5. ItemAt(pattern, i - 1, k)
  BY <1>2, <1>4, Zenon DEF ItemAt
<1>6. ItemText(pattern, i - 1, k) = <<t>>
  <2>2. ~FieldAt(pattern, i - 1, k)
    BY <1>4, NoField, Zenon
  <2> QED
    BY <2>2, <1>2, <1>4, Zenon DEF ItemText
<1>7. <<t, t>> \in Seq(Token)
  BY TokenChars, Zenon
<1>8. <<>> \in Seq(Arg) /\ IsCat(Args, <<>>, Args')
  BY <1>1, NoArgs, Zenon
<1>9. Prints(<<t, t>>, <<>>, ItemText(pattern, i - 1, k))
  BY <1>6, BracePrints, Zenon
<1>10. Push(<<t, t>>, k + 1)
  BY <1>3, Zenon
<1> HIDE DEF k
<1> QED
  BY ONLY IInv, PrintsSoFar, <1>1, <1>3, <1>5, <1>7, <1>8, <1>9, <1>10, PushPrints, Zenon

(* A word.                                                                 *)
LEMMA ForwardTextPrints ==
  ASSUME IInv, PrintsSoFar, ForwardText
  PROVE  PrintsSoFar'
<1>0. More /\ pattern[i] \notin {"{", "}"} /\ Push(<<pattern[i]>>, i + 1) /\ fields' = fields
  BY Zenon DEF ForwardText
<1>1. /\ pattern \in Seq(Token) /\ Len(pattern) \in Nat /\ pc = "loop" /\ i \in Nat /\ i > 0
      /\ i <= Len(pattern) /\ i \in 1 .. Len(pattern) /\ error = "None"
  BY <1>0, HereIs, Zenon
<1>2. i \in i .. Len(pattern)
  <2>1. \A n, m \in Nat : m <= n => m \in m .. n
    OBVIOUS
  <2> QED
    BY <1>1, <2>1, Zenon
<1>3. i = (i - 1) + 1 /\ FieldsIn(pattern, i - 1, i) = 0
  BY <1>1, PlainItems, Zenon
<1>4. ItemAt(pattern, i - 1, i)
  BY <1>0, <1>3, Zenon DEF ItemAt
<1>5. pattern[i] \in Token
  BY <1>1, ElementOfSeq, Zenon
<1>6. <<pattern[i]>> \in Seq(Token)
  BY <1>5, TokenChars, Zenon
<1>7. ItemText(pattern, i - 1, i) = <<pattern[i]>>
  <2>2. ~FieldAt(pattern, i - 1, i)
    BY <1>3, NoField, Zenon
  <2> QED
    BY <2>2, <1>3, Zenon DEF ItemText
<1>8. Prints(<<pattern[i]>>, <<>>, ItemText(pattern, i - 1, i))
  BY <1>0, <1>5, <1>7, WordPrints, Zenon
<1>9. <<>> \in Seq(Arg) /\ IsCat(Args, <<>>, Args')
  BY <1>0, <1>1, NoArgs, Zenon
<1>10. Push(<<pattern[i]>>, i + 1)
  BY <1>0, Zenon
<1> QED
  BY ONLY IInv, PrintsSoFar, <1>1, <1>2, <1>4, <1>6, <1>8, <1>9, <1>10, PushPrints, Zenon

(* A field.                                                                *)
LEMMA AddFieldPrints ==
  ASSUME IInv, PrintsSoFar, AddField
  PROVE  PrintsSoFar'
<1> DEFINE c == CloseIdx
           f == [field |-> Field, spec |-> FormatSpec]
           s == expand_spec(FormatSpec)
           A == Expand(f)
<1>0. Here("{") /\ FieldError = "None" /\ fields' = Append(fields, f) /\ Push(s, c + 1)
  BY Zenon DEF AddField
<1>1. FieldGood
  <2>1. "None" \notin FieldFaults /\ "None" # "TooManyFields"
    BY DEF FieldFaults
  <2> QED
    BY <1>0, <2>1, FieldErrorIs, Zenon
<1>2. /\ c \in i .. Len(pattern) /\ c \in Nat /\ FieldAt(pattern, i - 1, c)
      /\ Field = FieldNames[pattern[i + 1]] /\ FormatSpec = SpecAt(pattern, i - 1, c)
      /\ f \in FieldRecs
  BY <1>0, <1>1, FieldChecked, Zenon
<1>3. /\ pc = "loop" /\ i <= Len(pattern) /\ i \in Nat /\ i > 0 /\ error = "None"
      /\ fields \in Seq(FieldRecs)
  BY <1>0, HereIs, Zenon DEF Here
<1>4. ItemAt(pattern, i - 1, c)
  BY <1>2, Zenon DEF ItemAt
<1>5. i - 1 \in Nat /\ (i - 1) + 2 = i + 1
  BY <1>3, Around, Behind, Zenon
<1>6. s \in Seq(Token)
  BY <1>2, <1>5, FieldExpanded, Zenon
<1>7. PrintsField(Field, FormatSpec, ItemText(pattern, i - 1, c))
  <2>1. PrintsField(FieldNames[pattern[(i - 1) + 2]], SpecAt(pattern, i - 1, c),
                    ItemText(pattern, i - 1, c))
    BY ONLY <1>2, <1>5, FieldItemPrints, Zenon
  <2> QED
    BY <2>1, <1>2, <1>5, Zenon
<1>8. A \in Seq(Arg) /\ Prints(s, A, ItemText(pattern, i - 1, c))
  BY <1>7, Zenon DEF PrintsField
<1>9. IsCat(Args, A, Args')
  <2>1. ArgsOf(Append(fields, f))[Len(Append(fields, f))] = ArgsOf(fields)[Len(fields)] \o Expand(f)
    <3> HIDE DEF f
    <3> QED
      BY ONLY <1>2, <1>3, ArgsOne, Zenon
  <2> QED
    BY <2>1, <1>0, Zenon DEF IsCat, Cat, Args
<1> HIDE DEF c, f, s, A
<1> QED
  BY ONLY IInv, PrintsSoFar, <1>0, <1>2, <1>3, <1>4, <1>6, <1>8, <1>9, PushPrints, Zenon

(* Every step.                                                             *)
LEMMA NextPrints == IInv /\ PrintsSoFar /\ [Next]_vars => PrintsSoFar'
<1> SUFFICES ASSUME IInv, PrintsSoFar, [Next]_vars PROVE PrintsSoFar'
  OBVIOUS
<1>0. "{" \in {"{", "}"} /\ "}" \in {"{", "}"}
  OBVIOUS
<1>1. CASE ForwardOpen
  BY <1>0, <1>1, ForwardBracePrints, Zenon DEF ForwardOpen
<1>2. CASE ForwardClose
  BY <1>0, <1>2, ForwardBracePrints, Zenon DEF ForwardClose
<1>3. CASE RejectField
  BY <1>3, Zenon DEF RejectField, Reject, PrintsSoFar
<1>4. CASE RejectClose
  <2>1. "UnmatchedClosingBrace" # "None"
    OBVIOUS
  <2> QED
    BY <2>1, <1>4, Zenon DEF RejectClose, Reject, PrintsSoFar
<1>5. ASSUME pattern' = pattern, i' = i, fmt_str' = fmt_str, fields' = fields, error' = error
      PROVE  PrintsSoFar'
  BY <1>5, Zenon DEF PrintsSoFar, Args
<1>6. CASE Finish
  BY <1>5, <1>6, Zenon DEF Finish
<1>7. CASE UNCHANGED vars
  <2>1. pattern' = pattern /\ i' = i /\ fmt_str' = fmt_str /\ fields' = fields /\ error' = error
    BY <1>7 DEF vars
  <2> QED
    BY <2>1, <1>5, Zenon
<1> QED
  BY <1>1, <1>2, <1>3, <1>4, <1>6, <1>7, ForwardTextPrints, AddFieldPrints, Zenon DEF Next

(* A pattern that compiles prints what it says: the format string and the  *)
(* arguments that PatternFormatter::format() gives to vformat() make the   *)
(* text of the items of the pattern, one behind the other.                 *)
THEOREM PatternFormatsAsWritten == Spec => []FormatsAsWritten
<1>1. IInv /\ PrintsSoFar => FormatsAsWritten
  <2> SUFFICES ASSUME IInv, PrintsSoFar, Compiled
               PROVE  Printed = Reading(pattern)[Len(pattern)].text
    BY Zenon DEF FormatsAsWritten
  <2> DEFINE text == Reading(pattern)[Len(pattern)].text
             n == Len(pattern)
  <2>1. error = "None" /\ pattern \in Seq(Token) /\ i = n + 1
    BY Zenon DEF Compiled, IInv, Types, Ended
  <2>2. n \in Nat
    BY <2>1, LenProperties, Zenon
  <2>3. (n + 1) - 1 = n
    BY ONLY <2>2
  <2>4. WellFormed(pattern)[n] /\ Args \in Seq(Arg) /\ Prints(fmt_str, Args, text)
    BY <2>1, <2>3, Zenon DEF IInv, Consumed, PrintsSoFar
  <2>5. text \in Text
    <3>1. n \in 0 .. n
      BY ONLY <2>2
    <3> QED
      BY <3>1, <2>1, <2>4, ReadingTypes, Zenon DEF ReadingOK, Text
  <2>6. ArgsAt(Args, 1, Args)
    <3>1. \A A \in Seq(Arg) : \A x \in 1 .. Len(A) : 1 + (x - 1) = x /\ x <= Len(A)
      OBVIOUS
    <3> QED
      BY <3>1, <2>4, Zenon DEF ArgsAt
  <2>7. 1 \in Nat /\ <<>> \in Text /\ <<>> \in Seq(Token)
    BY DEF Text
  <2> HIDE DEF text
  <2>8. Leads(fmt_str, Args, St("text", 1, <<>>), St("text", 1 + Len(Args), <<>> \o text))
    BY <2>4, <2>6, <2>7, Zenon DEF Prints
  <2>9. Scans(<<>>, Args, St("text", 1, <<>>))
    BY ScanEmpty, Zenon DEF ScanStart, St
  <2>10. <<>> \o text = text
    BY <2>5 DEF Text
  <2>11. fmt_str \in Seq(Token)
    BY Zenon DEF IInv, Types
  <2>12. <<>> \o fmt_str = fmt_str
    BY <2>11
  <2>13. Scans(<<>> \o fmt_str, Args, St("text", 1 + Len(Args), <<>> \o text))
    BY <2>7, <2>8, <2>9, Zenon DEF Leads
  <2>14. Scan(fmt_str, Args)[Len(fmt_str)] = St("text", 1 + Len(Args), text)
    BY <2>10, <2>12, <2>13, Zenon DEF Scans
  <2>15. \A m, o : St("text", m, o).mode = "text" /\ St("text", m, o).out = o
    BY Zenon DEF St
  <2> DEFINE end == Scan(fmt_str, Args)[Len(fmt_str)]
  <2> DEFINE want == St("text", 1 + Len(Args), text)
  <2>16. want.mode = "text" /\ want.out = text
    BY <2>15, Zenon
  <2> HIDE DEF want
  <2>17. end = want
    BY <2>14, Zenon DEF want
  <2>18. end.mode = "text" /\ end.out = text
    BY ONLY <2>16, <2>17, Zenon
  <2>19. Vformat(fmt_str, Args) = IF end.mode = "text" THEN end.out ELSE <<"format_error">>
    BY Zenon DEF Vformat
  <2> HIDE DEF end
  <2> QED
    BY <2>18, <2>19, Zenon DEF Printed, text
<1> QED
  BY <1>1, InitPrints, NextPrints, ReadsWholeItems, PTL DEF Spec

=============================================================================
