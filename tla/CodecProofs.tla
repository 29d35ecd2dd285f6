---------------------------- MODULE CodecProofs ----------------------------
(***************************************************************************)
(* Proofs about module Codec.                                              *)
(***************************************************************************)
EXTENDS Codec, SequenceTheorems, WellFoundedInduction, TLAPS

-----------------------------------------------------------------------------
(* Induction over the number of arguments, or of events, is in terms of a  *)
(* set: the library's theorems take an operator, which the provers cannot  *)
(* instantiate.                                                            *)

(* A set of natural numbers that is not empty has a least element.         *)
LEMMA Least ==
  ASSUME NEW S \in SUBSET Nat, S # {}
  PROVE  \E m \in S : \A k \in S : m <= k
<1> DEFINE R == OpToRel(<, Nat)
<1>1. IsWellFoundedOn(R, Nat)
  BY NatLessThanWellFounded, Zenon
<1> HIDE DEF R
<1>2. \E m \in S : \A k \in S : ~(<<k, m>> \in R)
  BY <1>1, WFMin
<1>3. PICK m \in S : \A k \in S : ~(<<k, m>> \in R)
  BY <1>2
<1>4. ASSUME NEW k \in S PROVE m <= k
  <2>1. ~(<<k, m>> \in R)
    BY <1>3
  <2>2. ~(k < m)
    BY <2>1, Zenon DEF R, OpToRel
  <2> QED
    BY <2>2
<1> QED
  BY <1>4

(* A set with 0, and with n + 1 if it has n, has all of 0 .. N.            *)
LEMMA UpTo ==
  ASSUME NEW N \in Nat, NEW S, 0 \in S, \A n \in 0 .. (N - 1) : n \in S => n + 1 \in S
  PROVE  \A n \in 0 .. N : n \in S
<1> DEFINE T == {n \in 0 .. N : n \notin S}
<1>1. SUFFICES ASSUME T # {} PROVE FALSE
  OBVIOUS
<1>2. T \in SUBSET Nat
  OBVIOUS
<1>3. PICK m \in T : \A k \in T : m <= k
  <2> HIDE DEF T
  <2> QED
    BY <1>1, <1>2, Least
<1>4. m - 1 \in 0 .. (N - 1) /\ m - 1 \notin T
  BY <1>3
<1> QED
  BY <1>3, <1>4

-----------------------------------------------------------------------------
(* The recursive definitions of the model.                                 *)

(* f is what the recursion makes of the first n numbers.                   *)
SumsTo(numbers, n, f) ==
  f = [k \in 0 .. n |-> IF k = 0 THEN 0 ELSE f[k - 1] + numbers[k]]
CanSum(numbers, n) == \E f \in [0 .. n -> Nat] : SumsTo(numbers, n, f)

(* Sums of encoded sizes: the recursion defines a function, and these are  *)
(* its equations.                                                          *)
LEMMA SumsRecursion ==
  ASSUME NEW numbers \in Seq(Nat)
  PROVE  /\ Sums(numbers) \in [0 .. Len(numbers) -> Nat]
         /\ Sums(numbers)[0] = 0
         /\ \A k \in 1 .. Len(numbers) : Sums(numbers)[k] = Sums(numbers)[k - 1] + numbers[k]
<1> DEFINE N == Len(numbers)
           S == {n \in 0 .. N : CanSum(numbers, n)}
<1>1. N \in Nat /\ \A k \in 1 .. N : numbers[k] \in Nat
  OBVIOUS
<1>2. CanSum(numbers, 0)
  <2> DEFINE f == [k \in 0 .. 0 |-> 0]
  <2>1. f \in [0 .. 0 -> Nat] /\ SumsTo(numbers, 0, f)
    BY DEF SumsTo
  <2> QED
    BY <2>1, Zenon DEF CanSum
<1>3. ASSUME NEW n \in 0 .. (N - 1), CanSum(numbers, n) PROVE CanSum(numbers, n + 1)
  <2>1. PICK f \in [0 .. n -> Nat] : SumsTo(numbers, n, f)
    BY <1>3 DEF CanSum
  <2> DEFINE g == [k \in 0 .. (n + 1) |-> IF k = n + 1 THEN f[n] + numbers[n + 1] ELSE f[k]]
  <2>2. g \in [0 .. (n + 1) -> Nat]
    BY <1>1
  <2>3. ASSUME NEW k \in 0 .. (n + 1)
        PROVE  g[k] = IF k = 0 THEN 0 ELSE g[k - 1] + numbers[k]
    <3>1. CASE k = n + 1
      BY <3>1
    <3>2. CASE k \in 0 .. n
      <4>1. f[k] = IF k = 0 THEN 0 ELSE f[k - 1] + numbers[k]
        BY <2>1, <3>2 DEF SumsTo
      <4> QED
        BY <4>1, <3>2
    <3> QED
      BY <3>1, <3>2
  <2>4. SumsTo(numbers, n + 1, g)
    BY <2>3 DEF SumsTo
  <2> HIDE DEF g
  <2> QED
    BY <2>2, <2>4, Zenon DEF CanSum
<1>4. CanSum(numbers, N)
  <2>1. 0 \in S /\ \A n \in 0 .. (N - 1) : n \in S => n + 1 \in S
    BY <1>1, <1>2, <1>3
  <2> HIDE DEF S
  <2>2. \A n \in 0 .. N : n \in S
    BY <1>1, <2>1, UpTo
  <2> QED
    BY <2>2, <1>1 DEF S
<1> DEFINE f == Sums(numbers)
<1>5. SumsTo(numbers, N, f)
  BY <1>4 DEF Sums, SumsTo, CanSum
<1>6. f = [k \in 0 .. N |-> IF k = 0 THEN 0 ELSE f[k - 1] + numbers[k]]
  BY <1>5 DEF SumsTo
<1> HIDE DEF f
<1> DEFINE T == {n \in 0 .. N : f[n] \in Nat}
<1>7. \A n \in 0 .. N : n \in T
  <2>1. 0 \in T
    BY <1>6, <1>1
  <2>2. \A n \in 0 .. (N - 1) : n \in T => n + 1 \in T
    BY <1>6, <1>1
  <2> HIDE DEF T
  <2> QED
    BY <1>1, <2>1, <2>2, UpTo
<1>8. DOMAIN f = 0 .. N /\ \A k \in 0 .. N : f[k] \in Nat
  BY <1>6, <1>7
<1>9. \A k \in 0 .. N : f[k] = IF k = 0 THEN 0 ELSE f[k - 1] + numbers[k]
  BY <1>6
<1>10. f[0] = 0 /\ \A k \in 1 .. N : f[k] = f[k - 1] + numbers[k]
  BY <1>9, <1>1
<1>11. f = [k \in 0 .. N |-> f[k]]
  BY <1>6
<1>12. f \in [0 .. N -> Nat]
  BY ONLY <1>8, <1>11
<1> QED
  BY <1>10, <1>12 DEF f

(* Concatenation as an operator of its own, which the solver leaves alone. *)
Cat(a, b) == a \o b

(* f is what the recursion makes of the first n sequences.                 *)
JoinedTo(seqs, n, f) ==
  f = [k \in 0 .. n |-> IF k = 0 THEN <<>> ELSE Cat(f[k - 1], seqs[k])]
CanJoin(X, seqs, n) == \E f \in [0 .. n -> Seq(X)] : JoinedTo(seqs, n, f)

(* Likewise for the bytes that are joined.                                 *)
LEMMA JoinedRecursion ==
  ASSUME NEW X, NEW seqs \in Seq(Seq(X))
  PROVE  /\ Joined(seqs) \in [0 .. Len(seqs) -> Seq(X)]
         /\ Joined(seqs)[0] = <<>>
         /\ \A k \in 1 .. Len(seqs) : Joined(seqs)[k] = Joined(seqs)[k - 1] \o seqs[k]
<1> DEFINE N == Len(seqs)
           S == {n \in 0 .. N : CanJoin(X, seqs, n)}
<1>1. N \in Nat /\ \A k \in 1 .. N : seqs[k] \in Seq(X)
  OBVIOUS
<1>0. <<>> \in Seq(X) /\ \A a, b \in Seq(X) : Cat(a, b) \in Seq(X)
  BY DEF Cat
<1>2. CanJoin(X, seqs, 0)
  <2> DEFINE f == [k \in 0 .. 0 |-> <<>>]
  <2>1. f \in [0 .. 0 -> Seq(X)] /\ JoinedTo(seqs, 0, f)
    BY DEF JoinedTo
  <2> QED
    BY <2>1, Zenon DEF CanJoin
<1>3. ASSUME NEW n \in 0 .. (N - 1), CanJoin(X, seqs, n) PROVE CanJoin(X, seqs, n + 1)
  <2>1. PICK f \in [0 .. n -> Seq(X)] : JoinedTo(seqs, n, f)
    BY <1>3 DEF CanJoin
  <2> DEFINE g == [k \in 0 .. (n + 1) |-> IF k = n + 1 THEN Cat(f[n], seqs[n + 1]) ELSE f[k]]
  <2>2. g \in [0 .. (n + 1) -> Seq(X)]
    BY <1>1, <1>0
  <2>3. ASSUME NEW k \in 0 .. (n + 1)
        PROVE  g[k] = IF k = 0 THEN <<>> ELSE Cat(g[k - 1], seqs[k])
    <3>1. CASE k = n + 1
      BY <3>1
    <3>2. CASE k \in 0 .. n
      <4>1. f[k] = IF k = 0 THEN <<>> ELSE Cat(f[k - 1], seqs[k])
        BY <2>1, <3>2 DEF JoinedTo
      <4> QED
        BY <4>1, <3>2
    <3> QED
      BY <3>1, <3>2
  <2>4. JoinedTo(seqs, n + 1, g)
    BY <2>3 DEF JoinedTo
  <2> HIDE DEF g
  <2> QED
    BY <2>2, <2>4, Zenon DEF CanJoin
<1>4. CanJoin(X, seqs, N)
  <2>1. 0 \in S /\ \A n \in 0 .. (N - 1) : n \in S => n + 1 \in S
    BY <1>1, <1>2, <1>3
  <2> HIDE DEF S
  <2>2. \A n \in 0 .. N : n \in S
    BY <1>1, <2>1, UpTo
  <2> QED
    BY <2>2, <1>1 DEF S
<1> DEFINE f == Joined(seqs)
<1>5. JoinedTo(seqs, N, f)
  BY <1>4, Zenon DEF Joined, JoinedTo, CanJoin, Cat
<1>6. f = [k \in 0 .. N |-> IF k = 0 THEN <<>> ELSE Cat(f[k - 1], seqs[k])]
  BY <1>5 DEF JoinedTo
<1> HIDE DEF f
<1>7. f[0] = <<>>
  BY <1>6, <1>1
<1>8. ASSUME NEW k \in 1 .. N PROVE f[k] = Cat(f[k - 1], seqs[k])
  <2>1. k \in 0 .. N /\ k # 0
    OBVIOUS
  <2> QED
    BY ONLY <1>6, <2>1, Zenon
<1> DEFINE T == {n \in 0 .. N : f[n] \in Seq(X)}
<1>9. \A n \in 0 .. N : n \in T
  <2>1. 0 \in 0 .. N
    BY <1>1
  <2>2. 0 \in T
    BY ONLY <1>7, <1>0, <2>1, Zenon
  <2>3. ASSUME NEW n \in 0 .. (N - 1), n \in T PROVE n + 1 \in T
    <3>1. n + 1 \in 1 .. N /\ (n + 1) - 1 = n /\ n + 1 \in 0 .. N
      OBVIOUS
    <3>2. f[n + 1] = Cat(f[n], seqs[n + 1])
      BY <1>8, <3>1
    <3>3. f[n] \in Seq(X) /\ seqs[n + 1] \in Seq(X)
      BY <2>3, <3>1, <1>1
    <3> QED
      BY ONLY <3>1, <3>2, <3>3, <1>0, Zenon
  <2> HIDE DEF T
  <2> QED
    BY <1>1, <2>2, <2>3, UpTo
<1>10. \A k \in 0 .. N : f[k] \in Seq(X)
  BY <1>9
<1>11. f = [k \in 0 .. N |-> f[k]]
  BY <1>6
<1>12. f \in [0 .. N -> Seq(X)]
  BY ONLY <1>10, <1>11
<1> QED
  BY <1>7, <1>8, <1>12, Zenon DEF f, Cat

(* c is a and then b.                                                      *)
IsCat(a, b, c) ==
  /\ Len(c) = Len(a) + Len(b)
  /\ \A i \in 1 .. Len(a) : c[i] = a[i]
  /\ \A i \in 1 .. Len(b) : c[Len(a) + i] = b[i]

(* What concatenation does.                                                *)
LEMMA CatProperties ==
  ASSUME NEW X, NEW a \in Seq(X), NEW b \in Seq(X)
  PROVE  Cat(a, b) \in Seq(X) /\ IsCat(a, b, Cat(a, b))
  BY DEF Cat, IsCat

(* In what is joined, every sequence is found where the sum of the sizes   *)
(* before it says, and it ends where the next one begins.                  *)
Placed(seqs, sizes, n) ==
  /\ Len(Joined(seqs)[n]) = Sums(sizes)[n]
  /\ \A i \in 1 .. n :
       /\ Sums(sizes)[i] <= Sums(sizes)[n]
       /\ \A j \in 1 .. sizes[i] : Joined(seqs)[n][Sums(sizes)[i - 1] + j] = seqs[i][j]

(* Every part of what is joined is found at the sum of the sizes before it. *)
LEMMA JoinedPlaces ==
  ASSUME NEW X, NEW seqs \in Seq(Seq(X)), NEW sizes \in Seq(Nat), Len(sizes) = Len(seqs),
         \A i \in 1 .. Len(seqs) : Len(seqs[i]) = sizes[i]
  PROVE  \A n \in 0 .. Len(seqs) : Placed(seqs, sizes, n)
<1> DEFINE N == Len(seqs)
           J == Joined(seqs)
           S == Sums(sizes)
           P == {n \in 0 .. N : Placed(seqs, sizes, n)}
<1>1. N \in Nat /\ \A k \in 1 .. N : seqs[k] \in Seq(X) /\ sizes[k] \in Nat
  OBVIOUS
<1>2. /\ \A k \in 0 .. N : J[k] \in Seq(X)
      /\ J[0] = <<>> /\ \A k \in 1 .. N : J[k] = Cat(J[k - 1], seqs[k])
  BY JoinedRecursion, Zenon DEF Cat
<1>3. S \in [0 .. N -> Nat] /\ S[0] = 0 /\ \A k \in 1 .. N : S[k] = S[k - 1] + sizes[k]
  BY SumsRecursion
<1> HIDE DEF J, S
<1>4. Placed(seqs, sizes, 0)
  BY <1>2, <1>3 DEF Placed, J, S
<1>5. ASSUME NEW n \in 0 .. (N - 1), Placed(seqs, sizes, n)
      PROVE  Placed(seqs, sizes, n + 1)
  <2>1. n + 1 \in 1 .. N /\ (n + 1) - 1 = n /\ n \in 0 .. N
    OBVIOUS
  <2>2. J[n + 1] = Cat(J[n], seqs[n + 1]) /\ S[n + 1] = S[n] + sizes[n + 1]
    BY <1>2, <1>3, <2>1
  <2>3. J[n] \in Seq(X) /\ seqs[n + 1] \in Seq(X) /\ Len(seqs[n + 1]) = sizes[n + 1]
    BY <1>1, <1>2, <2>1
  <2>4. S[n] \in Nat /\ sizes[n + 1] \in Nat
    BY <1>1, <1>3, <2>1
  <2>5. /\ Len(J[n]) = S[n]
        /\ \A i \in 1 .. n : /\ S[i] <= S[n]
                            /\ \A j \in 1 .. sizes[i] : J[n][S[i - 1] + j] = seqs[i][j]
    BY <1>5 DEF Placed, J, S
  <2>6. /\ Len(J[n + 1]) = S[n] + sizes[n + 1]
        /\ \A i \in 1 .. S[n] : J[n + 1][i] = J[n][i]
        /\ \A i \in 1 .. sizes[n + 1] : J[n + 1][S[n] + i] = seqs[n + 1][i]
    <3>1. IsCat(J[n], seqs[n + 1], J[n + 1])
      BY ONLY <2>2, <2>3, CatProperties, Zenon
    <3> QED
      BY ONLY <3>1, <2>3, <2>5, Zenon DEF IsCat
  <2>7. ASSUME NEW i \in 1 .. (n + 1)
        PROVE  /\ S[i] <= S[n + 1]
               /\ \A j \in 1 .. sizes[i] : J[n + 1][S[i - 1] + j] = seqs[i][j]
    <3>1. CASE i = n + 1
      <4>1. i - 1 = n /\ S[n + 1] <= S[n + 1]
        BY <3>1, <2>1, <2>2, <2>4
      <4> QED
        BY ONLY <3>1, <4>1, <2>6, Zenon
    <3>2. CASE i \in 1 .. n
      <4>1. S[i] \in Nat /\ S[i - 1] \in Nat /\ S[i] = S[i - 1] + sizes[i] /\ sizes[i] \in Nat
        <5>1. i \in 1 .. N /\ i \in 0 .. N /\ i - 1 \in 0 .. N
          BY <3>2, <1>1
        <5> QED
          BY ONLY <5>1, <1>1, <1>3
      <4>2. S[i] <= S[n]
        BY <2>5, <3>2
      <4>3. ASSUME NEW j \in 1 .. sizes[i] PROVE J[n + 1][S[i - 1] + j] = seqs[i][j]
        <5>1. S[i - 1] + j \in 1 .. S[n]
          <6> DEFINE x == S[i - 1]
                     y == S[i]
                     z == S[n]
                     w == sizes[i]
          <6>1. x \in Nat /\ y \in Nat /\ z \in Nat /\ w \in Nat /\ y = x + w /\ y <= z /\ j \in 1 .. w
            BY <4>1, <4>2, <2>4
          <6> HIDE DEF x, y, z, w
          <6>2. x + j \in 1 .. z
            BY ONLY <6>1
          <6> QED
            BY <6>2 DEF x, z
        <5> QED
          BY <5>1, <2>6, <2>5, <3>2
      <4> QED
        BY <4>1, <4>2, <4>3, <2>2, <2>4
    <3> QED
      BY <3>1, <3>2
  <2> QED
    BY <2>6, <2>2, <2>7 DEF Placed, J, S
<1>6. 0 \in P /\ \A n \in 0 .. (N - 1) : n \in P => n + 1 \in P
  BY <1>1, <1>4, <1>5
<1>7. \A n \in 0 .. N : n \in P
  <2> HIDE DEF P
  <2> QED
    BY <1>1, <1>6, UpTo
<1> QED
  BY <1>7

(* Concatenation is associative.                                           *)
LEMMA CatAssociative ==
  ASSUME NEW X, NEW a \in Seq(X), NEW b \in Seq(X), NEW c \in Seq(X)
  PROVE  Cat(Cat(a, b), c) = Cat(a, Cat(b, c))
  BY ConcatAssociative DEF Cat

(* Its unit is the empty sequence.                                         *)
LEMMA CatEmpty ==
  ASSUME NEW X, NEW a \in Seq(X)
  PROVE  Cat(<<>>, a) = a /\ Cat(a, <<>>) = a
  BY ConcatEmptySeq DEF Cat

(* An event is appended to what is in the queue.                           *)
LEMMA JoinedAppend ==
  ASSUME NEW X, NEW seqs \in Seq(Seq(X)), NEW s \in Seq(X)
  PROVE  Joined(Append(seqs, s))[Len(seqs) + 1] = Cat(Joined(seqs)[Len(seqs)], s)
<1> DEFINE N == Len(seqs)
           more == Append(seqs, s)
           J == Joined(seqs)
           K == Joined(more)
           P == {n \in 0 .. N : K[n] = J[n]}
<1>1. N \in Nat /\ more \in Seq(Seq(X)) /\ Len(more) = N + 1
      /\ more[N + 1] = s /\ \A k \in 1 .. N : more[k] = seqs[k]
  OBVIOUS
<1>2. J[0] = <<>> /\ \A k \in 1 .. N : J[k] = Cat(J[k - 1], seqs[k])
  BY JoinedRecursion, Zenon DEF Cat
<1>3. K[0] = <<>> /\ \A k \in 1 .. Len(more) : K[k] = Cat(K[k - 1], more[k])
  <2> HIDE DEF more
  <2> QED
    BY <1>1, JoinedRecursion, Zenon DEF Cat
<1> HIDE DEF J, K, more
<1>4. 0 \in P
  BY <1>1, <1>2, <1>3
<1>5. ASSUME NEW n \in 0 .. (N - 1), n \in P PROVE n + 1 \in P
  <2>1. n + 1 \in 1 .. N /\ n + 1 \in 1 .. Len(more) /\ (n + 1) - 1 = n /\ n + 1 \in 0 .. N
    BY <1>1
  <2>2. K[n] = J[n]
    BY <1>5
  <2>3. K[n + 1] = Cat(K[n], more[n + 1]) /\ J[n + 1] = Cat(J[n], seqs[n + 1])
    BY <1>2, <1>3, <2>1
  <2> QED
    BY ONLY <1>1, <2>1, <2>2, <2>3, Zenon
<1>6. N \in P
  <2>1. \A n \in 0 .. N : n \in P
    <3> HIDE DEF P
    <3> QED
      BY <1>1, <1>4, <1>5, UpTo
  <2> QED
    BY <1>1, <2>1
<1>7. N + 1 \in 1 .. Len(more) /\ (N + 1) - 1 = N
  BY <1>1
<1>8. K[N + 1] = Cat(K[N], s)
  BY <1>1, <1>3, <1>7
<1> QED
  BY <1>6, <1>8 DEF J, K, more

(* The first event is taken from what is in the queue.                     *)
LEMMA JoinedTail ==
  ASSUME NEW X, NEW seqs \in Seq(Seq(X)), seqs # <<>>
  PROVE  /\ Joined(Tail(seqs))[Len(Tail(seqs))] \in Seq(X)
         /\ Joined(seqs)[Len(seqs)] = Cat(seqs[1], Joined(Tail(seqs))[Len(Tail(seqs))])
<1> DEFINE N == Len(seqs)
           rest == Tail(seqs)
           J == Joined(seqs)
           K == Joined(rest)
           P == {n \in 0 .. (N - 1) : J[n + 1] = Cat(seqs[1], K[n])}
<1>1. N \in Nat /\ N > 0 /\ rest \in Seq(Seq(X)) /\ Len(rest) = N - 1
      /\ \A k \in 1 .. (N - 1) : rest[k] = seqs[k + 1]
  OBVIOUS
<1>2. \A k \in 1 .. N : seqs[k] \in Seq(X)
  OBVIOUS
<1>3. J[0] = <<>> /\ \A k \in 1 .. N : J[k] = Cat(J[k - 1], seqs[k])
  BY JoinedRecursion, Zenon DEF Cat
<1>4. /\ \A k \in 0 .. Len(rest) : K[k] \in Seq(X)
      /\ K[0] = <<>> /\ \A k \in 1 .. Len(rest) : K[k] = Cat(K[k - 1], rest[k])
  <2> HIDE DEF rest
  <2> QED
    BY <1>1, JoinedRecursion, Zenon DEF Cat
<1> HIDE DEF J, K, rest
<1>5. 0 \in P
  <2>1. 0 \in 0 .. (N - 1) /\ 1 \in 1 .. N /\ 1 - 1 = 0 /\ 0 + 1 = 1
    BY <1>1
  <2>2. J[1] = Cat(<<>>, seqs[1])
    BY <1>3, <2>1
  <2>3. seqs[1] \in Seq(X)
    BY <1>2, <2>1
  <2>4. Cat(<<>>, seqs[1]) = seqs[1] /\ Cat(seqs[1], <<>>) = seqs[1]
    BY ONLY <2>3, CatEmpty, Zenon
  <2> QED
    BY ONLY <2>1, <2>2, <2>4, <1>4, Zenon
<1>6. ASSUME NEW n \in 0 .. ((N - 1) - 1), n \in P PROVE n + 1 \in P
  <2>1. /\ n + 1 \in 1 .. Len(rest) /\ (n + 1) - 1 = n /\ n + 1 \in 0 .. (N - 1)
        /\ (n + 1) + 1 \in 1 .. N /\ ((n + 1) + 1) - 1 = n + 1 /\ n \in 0 .. Len(rest)
        /\ n + 1 \in 1 .. (N - 1) /\ 1 \in 1 .. N
    BY <1>1
  <2>2. J[n + 1] = Cat(seqs[1], K[n])
    BY <1>6
  <2>3. J[(n + 1) + 1] = Cat(J[n + 1], seqs[(n + 1) + 1])
    BY <1>3, <2>1
  <2>4. K[n + 1] = Cat(K[n], seqs[(n + 1) + 1])
    BY <1>1, <1>4, <2>1
  <2>5. K[n] \in Seq(X) /\ seqs[1] \in Seq(X) /\ seqs[(n + 1) + 1] \in Seq(X)
    BY <1>2, <1>4, <2>1
  <2>6. Cat(Cat(seqs[1], K[n]), seqs[(n + 1) + 1]) = Cat(seqs[1], Cat(K[n], seqs[(n + 1) + 1]))
    BY ONLY <2>5, CatAssociative
  <2> QED
    BY ONLY <2>1, <2>2, <2>3, <2>4, <2>6, Zenon
<1>7. N - 1 \in P
  <2>1. \A n \in 0 .. (N - 1) : n \in P
    <3>1. N - 1 \in Nat
      BY <1>1
    <3> HIDE DEF P
    <3> QED
      BY <3>1, <1>5, <1>6, UpTo
  <2> QED
    BY <1>1, <2>1
<1>8. (N - 1) + 1 = N /\ N - 1 \in 0 .. Len(rest)
  BY <1>1
<1>9. J[N] = Cat(seqs[1], K[Len(rest)]) /\ K[Len(rest)] \in Seq(X)
  BY ONLY <1>1, <1>4, <1>7, <1>8, Zenon
<1> QED
  BY <1>9 DEF J, K, rest

-----------------------------------------------------------------------------
(* One argument.                                                           *)

Byte == Int \X (0 .. 8)

(* A value that an argument of that type may have.                         *)
Fits(type, value) == IF IsString(type) THEN value \in Seq(Nat) ELSE value \in Nat

(* What the assumption on the targets says of the one we are on: the       *)
(* members of the header follow each other without padding.                *)
LEMMA LayoutFacts ==
  ASSUME abi \in Abis
  PROVE  /\ abi.ptr \in {4, 8}
         /\ Layout(abi).static_data = 0 /\ Layout(abi).thread_name = abi.ptr
         /\ Layout(abi).timestamp = 2 * abi.ptr
         /\ Layout(abi).payload_size = 2 * abi.ptr + 8
         /\ Layout(abi).size = 3 * abi.ptr + 8
<1>1. abi.ptr \in {4, 8} /\ abi.align64 \in {4, 8}
  BY CodecAssumption
<1>2. RoundUp(2 * abi.ptr, abi.align64) = 2 * abi.ptr
  BY <1>1 DEF RoundUp
<1> QED
  BY <1>1, <1>2, CodecAssumption DEF Layout

(* The object representation of a number.                                  *)
IsBytes(value, n, bytes) ==
  bytes \in Seq(Byte) /\ Len(bytes) = n /\ \A k \in 1 .. n : bytes[k] = <<value, k>>

(* What Bytes() builds.                                                    *)
LEMMA BytesSeq ==
  ASSUME NEW value \in Int, NEW n \in 0 .. 8
  PROVE  IsBytes(value, n, Bytes(value, n))
  BY DEF Bytes, Byte, IsBytes

(* That of an array of characters: character i is where it should be.      *)
LEMMA DataSeq ==
  ASSUME NEW value \in Seq(Nat), NEW width \in {1, 4}
  PROVE  /\ Data(value, width) \in Seq(Byte) /\ Len(Data(value, width)) = Len(value) * width
         /\ \A i \in 1 .. Len(value) : \A k \in 1 .. width :
              /\ (i - 1) * width + k \in 1 .. Len(value) * width
              /\ Data(value, width)[(i - 1) * width + k] = <<value[i], k>>
<1>1. Len(value) \in Nat /\ \A i \in 1 .. Len(value) : value[i] \in Nat
  OBVIOUS
<1>2. ASSUME NEW k \in 1 .. Len(value) * width
      PROVE  /\ ((k - 1) \div width) + 1 \in 1 .. Len(value)
             /\ ((k - 1) % width) + 1 \in 0 .. 8
  <2>1. CASE width = 1
    BY <2>1, <1>1
  <2>2. CASE width = 4
    BY <2>2, <1>1
  <2> QED
    BY <2>1, <2>2
<1>3. Data(value, width) \in Seq(Byte) /\ Len(Data(value, width)) = Len(value) * width
  <2>1. Len(value) * width \in Nat
    BY <1>1
  <2>2. ASSUME NEW k \in 1 .. Len(value) * width
        PROVE  <<value[((k - 1) \div width) + 1], ((k - 1) % width) + 1>> \in Byte
    <3> DEFINE i == ((k - 1) \div width) + 1
               j == ((k - 1) % width) + 1
    <3>1. i \in 1 .. Len(value) /\ j \in 0 .. 8
      BY <1>2
    <3> HIDE DEF i, j
    <3>2. <<value[i], j>> \in Byte
      BY <3>1, <1>1 DEF Byte
    <3> QED
      BY <3>2 DEF i, j
  <2> QED
    BY <2>1, <2>2 DEF Data
<1>4. ASSUME NEW i \in 1 .. Len(value), NEW k \in 1 .. width
      PROVE  /\ (i - 1) * width + k \in 1 .. Len(value) * width
             /\ Data(value, width)[(i - 1) * width + k] = <<value[i], k>>
  <2> DEFINE p == (i - 1) * width + k
  <2>1. p \in 1 .. Len(value) * width /\ (p - 1) \div width = i - 1 /\ (p - 1) % width = k - 1
    <3>1. CASE width = 1
      BY <3>1, <1>1
    <3>2. CASE width = 4
      BY <3>2, <1>1
    <3> QED
      BY <3>1, <3>2
  <2>2. ((p - 1) \div width) + 1 = i /\ ((p - 1) % width) + 1 = k
    BY <2>1
  <2> HIDE DEF p
  <2>3. Data(value, width)[p] = <<value[i], k>>
    BY <2>1, <2>2 DEF Data
  <2> QED
    BY <2>1, <2>3 DEF p
<1> QED
  BY <1>3, <1>4

(* The n bytes from offset pos on are those of v.                          *)
Found(pos, n, v) == \A k \in 1 .. n : buffer[pos + k] = <<v, k>>

(* Reading back what is there.                                             *)
LEMMA ReadValue ==
  ASSUME NEW pos \in Nat, NEW n \in 1 .. 8, NEW v, Len(buffer) \in Nat,
         pos + n <= Len(buffer), Found(pos, n, v)
  PROVE  Value(Read(pos, n)) = v
<1> DEFINE bytes == Read(pos, n)
<1>1. bytes = [k \in 1 .. n |-> <<v, k>>]
  BY DEF Read, Found
<1>2. Len(bytes) = n /\ bytes[1] = <<v, 1>> /\ bytes[1][1] = v
  BY <1>1
<1>3. bytes = Bytes(bytes[1][1], Len(bytes))
  BY <1>1, <1>2 DEF Bytes
<1> HIDE DEF bytes
<1>4. Value(bytes) = v
  BY <1>2, <1>3 DEF Value
<1> QED
  BY <1>4 DEF bytes

(* encode() writes as many bytes as encoded_size() says.                   *)
LEMMA EncodeSize ==
  ASSUME abi \in Abis, NEW type \in Types, NEW value, Fits(type, value)
  PROVE  /\ EncodedSize(type, value) \in Nat
         /\ Encode(type, value) \in Seq(Byte)
         /\ Len(Encode(type, value)) = EncodedSize(type, value)
<1>1. abi.ptr \in {4, 8}
  BY LayoutFacts
<1>2. CASE IsString(type)
  <2> DEFINE a == Bytes(Len(value), abi.ptr)
             b == Data(value, Width(type))
  <2>1. value \in Seq(Nat) /\ Len(value) \in Nat /\ Width(type) \in {1, 4}
    BY <1>2 DEF Fits, IsString, Width
  <2>2. IsBytes(Len(value), abi.ptr, a)
    <3>1. Len(value) \in Int /\ abi.ptr \in 0 .. 8
      BY <1>1, <2>1
    <3> QED
      BY ONLY <3>1, BytesSeq, Zenon DEF a
  <2>3. b \in Seq(Byte) /\ Len(b) = Len(value) * Width(type)
    BY <2>1, DataSeq
  <2> HIDE DEF a, b
  <2>4. a \o b \in Seq(Byte) /\ Len(a \o b) = abi.ptr + Len(value) * Width(type)
    <3>1. a \in Seq(Byte) /\ Len(a) = abi.ptr
      BY ONLY <2>2, Zenon DEF IsBytes
    <3> QED
      BY <3>1, <2>3
  <2>5. abi.ptr + Len(value) * Width(type) \in Nat
    BY <1>1, <2>1
  <2> QED
    BY <1>2, <2>4, <2>5 DEF Encode, EncodedSize, a, b
<1>3. CASE ~IsString(type)
  <2>1. value \in Nat /\ SizeOf(type) \in 1 .. 8
    BY <1>1, <1>3 DEF Fits, IsString, SizeOf, Types
  <2>2. IsBytes(value, SizeOf(type), Bytes(value, SizeOf(type)))
    <3>1. value \in Int /\ SizeOf(type) \in 0 .. 8
      BY <2>1
    <3> QED
      BY ONLY <3>1, BytesSeq, Zenon
  <2> QED
    BY <1>3, <2>1, <2>2 DEF Encode, EncodedSize, IsBytes
<1> QED
  BY <1>2, <1>3

(* decode() returns what encode() wrote, and moves on by its size.         *)
LEMMA DecodeEncoded ==
  ASSUME abi \in Abis, buffer \in Seq(Byte), NEW type \in Types, NEW value, Fits(type, value),
         NEW pos \in Nat, pos + EncodedSize(type, value) <= Len(buffer),
         \A j \in 1 .. EncodedSize(type, value) : buffer[pos + j] = Encode(type, value)[j]
  PROVE  /\ Decode(type, pos).value = value
         /\ Decode(type, pos).pos = pos + EncodedSize(type, value)
<1>1. abi.ptr \in {4, 8} /\ Len(buffer) \in Nat
  BY LayoutFacts
<1>2. CASE IsString(type)
  <2> DEFINE a == Bytes(Len(value), abi.ptr)
             w == Width(type)
             b == Data(value, w)
             start == pos + abi.ptr
             L == Len(value)
  <2>1. value \in Seq(Nat) /\ L \in Nat /\ w \in {1, 4}
    BY <1>2 DEF Fits, IsString, Width
  <2>2. a \in Seq(Byte) /\ Len(a) = abi.ptr /\ \A k \in 1 .. abi.ptr : a[k] = <<L, k>>
    <3>1. L \in Int /\ abi.ptr \in 0 .. 8
      BY <1>1, <2>1
    <3>2. IsBytes(L, abi.ptr, a)
      BY ONLY <3>1, BytesSeq, Zenon DEF a, L
    <3> QED
      BY ONLY <3>2, Zenon DEF IsBytes
  <2>3. /\ b \in Seq(Byte) /\ Len(b) = L * w
        /\ \A i \in 1 .. L : \A k \in 1 .. w :
             (i - 1) * w + k \in 1 .. L * w /\ b[(i - 1) * w + k] = <<value[i], k>>
    BY <2>1, DataSeq
  <2>4. EncodedSize(type, value) = abi.ptr + L * w /\ Encode(type, value) = Cat(a, b)
    BY <1>2 DEF EncodedSize, Encode, Cat
  <2> HIDE DEF a, b, w, L
  <2>5. IsCat(a, b, Cat(a, b))
    BY ONLY <2>2, <2>3, CatProperties, Zenon
  <2>6. L * w \in Nat
    BY <2>1
  <2>7. \A k \in 1 .. abi.ptr : buffer[pos + k] = <<L, k>>
    <3>1. \A k \in 1 .. abi.ptr : k \in 1 .. EncodedSize(type, value) /\ Cat(a, b)[k] = a[k]
      BY <1>1, <2>2, <2>4, <2>5, <2>6 DEF IsCat
    <3> QED
      BY <3>1, <2>2, <2>4
  <2>8. Value(Read(pos, abi.ptr)) = L
    <3>1. pos + abi.ptr <= Len(buffer) /\ abi.ptr \in 1 .. 8
      BY <1>1, <2>4, <2>6
    <3> QED
      BY <3>1, <2>7, <1>1, ReadValue DEF Found
  <2>9. ASSUME NEW j \in 1 .. L * w PROVE buffer[start + j] = b[j]
    <3>1. abi.ptr + j \in 1 .. EncodedSize(type, value) /\ start + j = pos + (abi.ptr + j)
      BY <1>1, <2>4, <2>6
    <3>2. Cat(a, b)[abi.ptr + j] = b[j]
      BY <2>2, <2>3, <2>5 DEF IsCat
    <3> QED
      BY <3>1, <3>2, <2>4
  <2>10. ASSUME NEW i \in 1 .. L PROVE Value(Read(start + (i - 1) * w, w)) = value[i]
    <3> DEFINE p == start + (i - 1) * w
    <3>1. p \in Nat /\ w \in 1 .. 8 /\ p + w <= Len(buffer)
      <4>1. CASE w = 1
        BY <4>1, <1>1, <2>1, <2>4
      <4>2. CASE w = 4
        BY <4>2, <1>1, <2>1, <2>4
      <4> QED
        BY <2>1, <4>1, <4>2
    <3>2. ASSUME NEW k \in 1 .. w PROVE buffer[p + k] = <<value[i], k>>
      <4> DEFINE j == (i - 1) * w + k
      <4>1. j \in 1 .. L * w /\ b[j] = <<value[i], k>>
        BY <2>3
      <4>2. p + k = start + j
        <5>1. (i - 1) * w \in Int
          BY <2>1
        <5> QED
          BY <5>1, <1>1, <2>1
      <4> HIDE DEF j
      <4>3. buffer[start + j] = b[j]
        BY <4>1, <2>9
      <4> QED
        BY <4>1, <4>2, <4>3
    <3> HIDE DEF p
    <3>3. Value(Read(p, w)) = value[i]
      BY <3>1, <3>2, <1>1, ReadValue DEF Found
    <3> QED
      BY <3>3 DEF p
  <2>11. Decode(type, pos) = [value |-> [i \in 1 .. L |-> Value(Read(start + (i - 1) * w, w))],
                              pos |-> start + L * w]
    BY ONLY <1>2, <2>8, Zenon DEF Decode, w, start
  <2>12. [i \in 1 .. L |-> Value(Read(start + (i - 1) * w, w))] = value
    <3>1. value = [i \in 1 .. L |-> value[i]]
      BY <2>1 DEF L
    <3> QED
      BY <3>1, <2>10, Zenon
  <2>13. start + L * w = pos + EncodedSize(type, value)
    BY <1>1, <2>4, <2>6
  <2> HIDE DEF start
  <2> QED
    BY <2>11, <2>12, <2>13
<1>3. CASE ~IsString(type)
  <2> DEFINE n == SizeOf(type)
  <2>1. value \in Nat /\ n \in 1 .. 8
    BY <1>1, <1>3 DEF Fits, IsString, SizeOf, Types
  <2>2. EncodedSize(type, value) = n /\ Encode(type, value) = Bytes(value, n)
    BY <1>3 DEF EncodedSize, Encode
  <2> HIDE DEF n
  <2>3. \A k \in 1 .. n : buffer[pos + k] = <<value, k>>
    <3>1. value \in Int /\ n \in 0 .. 8
      BY <2>1
    <3>2. IsBytes(value, n, Bytes(value, n))
      BY ONLY <3>1, BytesSeq, Zenon
    <3> QED
      BY <3>2, <2>2 DEF IsBytes
  <2>4. Value(Read(pos, n)) = value
    BY <2>1, <2>2, <2>3, <1>1, ReadValue DEF Found
  <2>5. Decode(type, pos) = [value |-> Value(Read(pos, n)), pos |-> pos + n]
    BY <1>3 DEF Decode, n
  <2> QED
    BY <2>2, <2>4, <2>5
<1> QED
  BY <1>2, <1>3

-----------------------------------------------------------------------------
(* The arguments of an event.                                              *)

Sizes(types, args) == [i \in DOMAIN types |-> EncodedSize(types[i], args[i])]
Pieces(types, args) == [i \in DOMAIN types |-> Encode(types[i], args[i])]
AllFit(types, args) == \A i \in DOMAIN types : Fits(types[i], args[i])

(* What is written of the arguments has the size that was reserved for it, *)
(* and every argument is where the sizes of those before it say.           *)
LEMMA ArgsEncoded ==
  ASSUME abi \in Abis, NEW types \in Seq(Types), NEW args, AllFit(types, args)
  PROVE  /\ Sizes(types, args) \in Seq(Nat) /\ Len(Sizes(types, args)) = Len(types)
         /\ Pieces(types, args) \in Seq(Seq(Byte)) /\ Len(Pieces(types, args)) = Len(types)
         /\ TotalArgsSize(types, args) \in Nat
         /\ EncodedArgs(types, args) \in Seq(Byte)
         /\ Len(EncodedArgs(types, args)) = TotalArgsSize(types, args)
         /\ Placed(Pieces(types, args), Sizes(types, args), Len(types))
<1> DEFINE N == Len(types)
           sizes == Sizes(types, args)
           pieces == Pieces(types, args)
<1>1. N \in Nat /\ DOMAIN types = 1 .. N /\ \A i \in 1 .. N : types[i] \in Types
  OBVIOUS
<1>2. ASSUME NEW i \in 1 .. N
      PROVE  /\ sizes[i] \in Nat /\ pieces[i] \in Seq(Byte) /\ Len(pieces[i]) = sizes[i]
             /\ sizes[i] = EncodedSize(types[i], args[i]) /\ pieces[i] = Encode(types[i], args[i])
  <2>1. types[i] \in Types /\ Fits(types[i], args[i])
    BY <1>1 DEF AllFit
  <2>2. /\ EncodedSize(types[i], args[i]) \in Nat
        /\ Encode(types[i], args[i]) \in Seq(Byte)
        /\ Len(Encode(types[i], args[i])) = EncodedSize(types[i], args[i])
    BY <2>1, EncodeSize
  <2>3. sizes[i] = EncodedSize(types[i], args[i]) /\ pieces[i] = Encode(types[i], args[i])
    BY <1>1 DEF Sizes, Pieces
  <2> QED
    BY ONLY <2>2, <2>3, Zenon
<1>3. sizes = [i \in 1 .. N |-> sizes[i]] /\ pieces = [i \in 1 .. N |-> pieces[i]]
  BY <1>1 DEF Sizes, Pieces
<1> HIDE DEF sizes, pieces
<1>4. sizes \in Seq(Nat) /\ Len(sizes) = N
  BY <1>1, <1>2, <1>3
<1>5. pieces \in Seq(Seq(Byte)) /\ Len(pieces) = N
  <2>1. [i \in 1 .. N |-> pieces[i]] \in Seq(Seq(Byte)) /\ Len([i \in 1 .. N |-> pieces[i]]) = N
    BY <1>1, <1>2, IsASeq
  <2> QED
    BY ONLY <2>1, <1>3, Zenon
<1>6. Placed(pieces, sizes, N)
  <2>1. Len(sizes) = Len(pieces) /\ \A i \in 1 .. Len(pieces) : Len(pieces[i]) = sizes[i]
    BY <1>2, <1>4, <1>5
  <2>2. \A n \in 0 .. Len(pieces) : Placed(pieces, sizes, n)
    BY ONLY <1>4, <1>5, <2>1, JoinedPlaces, Zenon
  <2> QED
    BY <2>2, <1>5, <1>1
<1>7. TotalArgsSize(types, args) = Sums(sizes)[N] /\ EncodedArgs(types, args) = Joined(pieces)[N]
  BY Zenon DEF TotalArgsSize, EncodedArgs, sizes, pieces, Sizes, Pieces
<1>8. Sums(sizes)[N] \in Nat
  BY <1>1, <1>4, SumsRecursion
<1>9. Joined(pieces)[N] \in Seq(Byte)
  <2>1. Joined(pieces) \in [0 .. Len(pieces) -> Seq(Byte)]
    BY ONLY <1>5, JoinedRecursion, Zenon
  <2> QED
    BY <2>1, <1>1, <1>5
<1>10. Len(Joined(pieces)[N]) = Sums(sizes)[N]
  BY ONLY <1>6, Zenon DEF Placed
<1> QED
  BY ONLY <1>4, <1>5, <1>6, <1>7, <1>8, <1>9, <1>10, Zenon DEF sizes, pieces

(* The arguments are in the buffer from offset start on.                   *)
ArgsFound(types, args, start) ==
  \A j \in 1 .. TotalArgsSize(types, args) : buffer[start + j] = EncodedArgs(types, args)[j]

(* decode_and_format() finds the arguments as they were passed.            *)
PositionsDef(types, start, f) ==
  f = [k \in 0 .. Len(types) |-> IF k = 0 THEN start ELSE Decode(types[k], f[k - 1]).pos]

(* The arguments are decoded as they were encoded.                         *)
LEMMA ArgsDecoded ==
  ASSUME abi \in Abis, buffer \in Seq(Byte), NEW types \in Seq(Types), NEW args,
         AllFit(types, args), NEW start \in Nat,
         start + TotalArgsSize(types, args) <= Len(buffer), ArgsFound(types, args, start)
  PROVE  DecodedArgs(types, start) = [i \in DOMAIN types |-> args[i]]
<1> DEFINE N == Len(types)
           sizes == Sizes(types, args)
           pieces == Pieces(types, args)
           S == Sums(sizes)
<1>1. N \in Nat /\ DOMAIN types = 1 .. N /\ \A i \in 1 .. N : types[i] \in Types
  OBVIOUS
<1>2. sizes \in Seq(Nat) /\ Len(sizes) = N /\ Placed(pieces, sizes, N)
  BY ArgsEncoded
<1>3. \A i \in 1 .. N : sizes[i] = EncodedSize(types[i], args[i]) /\ pieces[i] = Encode(types[i], args[i])
  BY <1>1 DEF Sizes, Pieces
<1>4. TotalArgsSize(types, args) = S[N] /\ EncodedArgs(types, args) = Joined(pieces)[N]
  BY Zenon DEF TotalArgsSize, EncodedArgs, Sizes, Pieces
<1> HIDE DEF sizes, pieces
<1>5. S \in [0 .. N -> Nat] /\ S[0] = 0 /\ \A k \in 1 .. N : S[k] = S[k - 1] + sizes[k]
  BY <1>2, SumsRecursion
<1>6. \A i \in 1 .. N : /\ S[i] <= S[N]
                        /\ \A j \in 1 .. sizes[i] : Joined(pieces)[N][S[i - 1] + j] = pieces[i][j]
  BY ONLY <1>2, Zenon DEF Placed, S
<1> HIDE DEF S
<1>7. ASSUME NEW i \in 1 .. N
      PROVE  /\ Decode(types[i], start + S[i - 1]).value = args[i]
             /\ Decode(types[i], start + S[i - 1]).pos = start + S[i]
  <2> DEFINE type == types[i]
             value == args[i]
             size == sizes[i]
             pos == start + S[i - 1]
  <2>1. /\ S[i] \in Nat /\ S[i - 1] \in Nat /\ S[N] \in Nat /\ S[i] = S[i - 1] + size
        /\ S[i] <= S[N] /\ size \in Nat
    <3>1. i \in 0 .. N /\ i - 1 \in 0 .. N /\ N \in 0 .. N
      BY <1>1
    <3>2. S[i] \in Nat /\ S[i - 1] \in Nat /\ S[N] \in Nat
      BY ONLY <3>1, <1>5
    <3>3. size \in Nat
      BY <1>1, <1>2
    <3> QED
      BY ONLY <3>2, <3>3, <1>5, <1>6, i \in 1 .. N, Zenon
  <2>2. type \in Types /\ Fits(type, value)
    BY <1>1 DEF AllFit
  <2>3. size = EncodedSize(type, value)
    BY <1>3
  <2>4. pos \in Nat /\ pos + EncodedSize(type, value) <= Len(buffer)
    <3> HIDE DEF size
    <3>1. Len(buffer) \in Nat
      OBVIOUS
    <3> QED
      BY <2>1, <2>3, <1>4, <3>1
  <2>5. ASSUME NEW j \in 1 .. EncodedSize(type, value)
        PROVE  buffer[pos + j] = Encode(type, value)[j]
    <3>1. S[i - 1] + j \in 1 .. S[N] /\ pos + j = start + (S[i - 1] + j)
      <4> DEFINE x == S[i - 1]
                 y == S[i]
                 z == S[N]
      <4>1. x \in Nat /\ y \in Nat /\ z \in Nat /\ size \in Nat /\ y = x + size /\ y <= z /\ j \in 1 .. size
        BY <2>1, <2>3
      <4> HIDE DEF x, y, z, size
      <4>2. x + j \in 1 .. z /\ (start + x) + j = start + (x + j)
        BY ONLY <4>1, start \in Nat
      <4> QED
        BY <4>2 DEF x, z
    <3>2. buffer[start + (S[i - 1] + j)] = Joined(pieces)[N][S[i - 1] + j]
      BY <3>1, <1>4 DEF ArgsFound
    <3>3. Joined(pieces)[N][S[i - 1] + j] = pieces[i][j]
      BY ONLY <1>6, <2>3, i \in 1 .. N, j \in 1 .. EncodedSize(type, value), Zenon
    <3> QED
      BY ONLY <3>1, <3>2, <3>3, <1>3, i \in 1 .. N, Zenon DEF type, value
  <2>6. pos + size = start + S[i]
    <3> HIDE DEF size
    <3> QED
      BY <2>1
  <2> HIDE DEF type, value, pos
  <2>7. /\ Decode(type, pos).value = value
        /\ Decode(type, pos).pos = pos + EncodedSize(type, value)
    BY <2>2, <2>4, <2>5, DecodeEncoded
  <2> QED
    BY ONLY <2>3, <2>6, <2>7, Zenon DEF type, value, pos
<1> DEFINE f == Positions(types, start)
<1>8. PositionsDef(types, start, f)
  <2> DEFINE g == [k \in 0 .. N |-> start + S[k]]
  <2>1. ASSUME NEW k \in 0 .. N
        PROVE  g[k] = IF k = 0 THEN start ELSE Decode(types[k], g[k - 1]).pos
    <3>1. CASE k = 0
      BY <3>1, <1>5
    <3>2. CASE k # 0
      <4>1. k \in 1 .. N /\ k - 1 \in 0 .. N
        BY <3>2, <1>1
      <4>2. g[k - 1] = start + S[k - 1] /\ g[k] = start + S[k]
        BY <4>1
      <4> HIDE DEF g
      <4> QED
        BY ONLY <3>2, <4>1, <4>2, <1>7, Zenon
    <3> QED
      BY <3>1, <3>2
  <2>2. PositionsDef(types, start, g)
    BY <2>1, Zenon DEF PositionsDef
  <2> HIDE DEF g
  <2> QED
    BY <2>2, Zenon DEF Positions, PositionsDef
<1>9. \A k \in 0 .. N : f[k] = IF k = 0 THEN start ELSE Decode(types[k], f[k - 1]).pos
  BY <1>8, Zenon DEF PositionsDef
<1> HIDE DEF f
<1> DEFINE P == {n \in 0 .. N : f[n] = start + S[n]}
<1>10. 0 \in P
  BY <1>1, <1>5, <1>9
<1>11. ASSUME NEW n \in 0 .. (N - 1), n \in P PROVE n + 1 \in P
  <2>1. n + 1 \in 0 .. N /\ n + 1 # 0 /\ (n + 1) - 1 = n /\ n + 1 \in 1 .. N
    OBVIOUS
  <2>2. f[n + 1] = Decode(types[n + 1], f[n]).pos
    BY ONLY <1>9, <2>1, Zenon
  <2>3. f[n] = start + S[n]
    BY <1>11
  <2>4. Decode(types[n + 1], start + S[n]).pos = start + S[n + 1]
    BY ONLY <1>7, <2>1, Zenon
  <2> QED
    BY ONLY <2>1, <2>2, <2>3, <2>4, Zenon
<1>12. \A n \in 0 .. N : n \in P
  <2> HIDE DEF P
  <2> QED
    BY <1>1, <1>10, <1>11, UpTo
<1>13. ASSUME NEW i \in 1 .. N PROVE Decode(types[i], f[i - 1]).value = args[i]
  <2>1. i - 1 \in 0 .. N
    BY <1>1
  <2>2. f[i - 1] = start + S[i - 1]
    BY ONLY <2>1, <1>12, Zenon
  <2> QED
    BY ONLY <2>2, <1>7, i \in 1 .. N, Zenon
<1>14. DecodedArgs(types, start) = [i \in DOMAIN types |-> Decode(types[i], f[i - 1]).value]
  BY Zenon DEF DecodedArgs, f
<1> QED
  BY ONLY <1>1, <1>13, <1>14, Zenon

-----------------------------------------------------------------------------
(* One event.                                                              *)

TypesOf(event) == CallSites[event.static_data]

(* An event of some call site: it has an argument for every type.          *)
Event ==
  {e \in [static_data : DOMAIN CallSites, thread_name : Nat, timestamp : Nat,
          args : Seq(Nat \cup Seq(Nat))] :
     Len(e.args) = Len(TypesOf(e)) /\ AllFit(TypesOf(e), e.args)}

(* What an event is, in the terms of the lemmas above.                     *)
LEMMA EventFacts ==
  ASSUME NEW e \in Event
  PROVE  /\ e.static_data \in DOMAIN CallSites /\ e.static_data \in Nat
         /\ e.thread_name \in Nat /\ e.timestamp \in Nat
         /\ TypesOf(e) \in Seq(Types) /\ AllFit(TypesOf(e), e.args)
         /\ e.args = [i \in DOMAIN TypesOf(e) |-> e.args[i]]
         /\ e = [static_data |-> e.static_data, thread_name |-> e.thread_name,
                 timestamp |-> e.timestamp, args |-> e.args]
<1>1. e \in [static_data : DOMAIN CallSites, thread_name : Nat, timestamp : Nat,
             args : Seq(Nat \cup Seq(Nat))]
      /\ Len(e.args) = Len(TypesOf(e)) /\ AllFit(TypesOf(e), e.args)
  BY Zenon DEF Event
<1>2. e.static_data \in DOMAIN CallSites /\ e.thread_name \in Nat /\ e.timestamp \in Nat
      /\ e.args \in Seq(Nat \cup Seq(Nat))
  BY ONLY <1>1
<1>3. CallSites \in Seq(Seq(Types))
  BY CodecAssumption
<1>4. e.static_data \in Nat /\ TypesOf(e) \in Seq(Types)
  BY <1>2, <1>3 DEF TypesOf
<1>5. e.args = [i \in DOMAIN TypesOf(e) |-> e.args[i]]
  <2>1. DOMAIN TypesOf(e) = DOMAIN e.args
    BY <1>1, <1>2, <1>4
  <2>2. e.args = [i \in DOMAIN e.args |-> e.args[i]]
    BY <1>2
  <2> QED
    BY ONLY <2>1, <2>2, Zenon
<1>6. e = [static_data |-> e.static_data, thread_name |-> e.thread_name,
           timestamp |-> e.timestamp, args |-> e.args]
  BY ONLY <1>1
<1> QED
  BY ONLY <1>1, <1>2, <1>4, <1>5, <1>6, Zenon

(* What has been written of an event: the members of the header and the    *)
(* arguments, at the places where the struct has them.                     *)
IsWritten(e, total, bytes) ==
  /\ bytes \in Seq(Byte) /\ total \in Nat
  /\ total = TotalArgsSize(TypesOf(e), e.args)
  /\ Len(bytes) = 3 * abi.ptr + 8 + total
  /\ \A k \in 1 .. abi.ptr : bytes[k] = <<e.static_data, k>>
  /\ \A k \in 1 .. abi.ptr : bytes[abi.ptr + k] = <<e.thread_name, k>>
  /\ \A k \in 1 .. 8 : bytes[2 * abi.ptr + k] = <<e.timestamp, k>>
  /\ \A k \in 1 .. abi.ptr : bytes[2 * abi.ptr + 8 + k] = <<total, k>>
  /\ \A j \in 1 .. total : bytes[3 * abi.ptr + 8 + j] = EncodedArgs(TypesOf(e), e.args)[j]

(* push_log_event() writes an event in this way.                           *)
LEMMA EventWritten ==
  ASSUME abi \in Abis, NEW e \in Event
  PROVE  IsWritten(e, TotalArgsSize(TypesOf(e), e.args), Written(e))
<1> DEFINE p == abi.ptr
           total == TotalArgsSize(TypesOf(e), e.args)
           a == Bytes(e.static_data, p)
           b == Bytes(e.thread_name, p)
           c == Bytes(e.timestamp, 8)
           d == Bytes(total, p)
           x == EncodedArgs(TypesOf(e), e.args)
           ab == Cat(a, b)
           abc == Cat(ab, c)
           abcd == Cat(abc, d)
           all == Cat(abcd, x)
<1>1. p \in {4, 8} /\ p \in Nat /\ p \in 0 .. 8 /\ 8 \in 0 .. 8
  BY LayoutFacts
<1>2. total \in Nat /\ x \in Seq(Byte) /\ Len(x) = total
  BY EventFacts, ArgsEncoded
<1>3. e.static_data \in Int /\ e.thread_name \in Int /\ e.timestamp \in Int /\ total \in Int
  <2>1. e.static_data \in Nat /\ e.thread_name \in Nat /\ e.timestamp \in Nat
    BY EventFacts, Zenon
  <2> QED
    BY ONLY <1>2, <2>1
<1>4. Written(e) = all
  BY Zenon DEF Written, Cat, TypesOf
<1>5. IsBytes(e.static_data, p, a) /\ IsBytes(e.thread_name, p, b)
      /\ IsBytes(e.timestamp, 8, c) /\ IsBytes(total, p, d)
  BY ONLY <1>1, <1>3, BytesSeq, Zenon DEF a, b, c, d
<1> HIDE DEF p, total, a, b, c, d, x, ab, abc, abcd, all
<1>6. a \in Seq(Byte) /\ b \in Seq(Byte) /\ c \in Seq(Byte) /\ d \in Seq(Byte)
      /\ Len(a) = p /\ Len(b) = p /\ Len(c) = 8 /\ Len(d) = p
  BY ONLY <1>5, Zenon DEF IsBytes
<1>7. /\ \A k \in 1 .. p : a[k] = <<e.static_data, k>> /\ b[k] = <<e.thread_name, k>>
                           /\ d[k] = <<total, k>>
      /\ \A k \in 1 .. 8 : c[k] = <<e.timestamp, k>>
  BY ONLY <1>5, Zenon DEF IsBytes
<1>8. ab \in Seq(Byte) /\ IsCat(a, b, ab)
  BY ONLY <1>6, CatProperties, Zenon DEF ab
<1>9. abc \in Seq(Byte) /\ IsCat(ab, c, abc)
  BY ONLY <1>6, <1>8, CatProperties, Zenon DEF abc
<1>10. abcd \in Seq(Byte) /\ IsCat(abc, d, abcd)
  BY ONLY <1>6, <1>9, CatProperties, Zenon DEF abcd
<1>11. all \in Seq(Byte) /\ IsCat(abcd, x, all)
  BY ONLY <1>2, <1>10, CatProperties, Zenon DEF all
<1>12. Len(ab) = 2 * p /\ \A k \in 1 .. p : ab[k] = a[k] /\ ab[p + k] = b[k]
  BY ONLY <1>1, <1>6, <1>8 DEF IsCat
<1>13. Len(abc) = 2 * p + 8 /\ (\A k \in 1 .. 2 * p : abc[k] = ab[k])
       /\ \A k \in 1 .. 8 : abc[2 * p + k] = c[k]
  BY ONLY <1>1, <1>6, <1>9, <1>12 DEF IsCat
<1>14. Len(abcd) = 3 * p + 8 /\ (\A k \in 1 .. (2 * p + 8) : abcd[k] = abc[k])
       /\ \A k \in 1 .. p : abcd[2 * p + 8 + k] = d[k]
  BY ONLY <1>1, <1>6, <1>10, <1>13 DEF IsCat
<1>15. Len(all) = 3 * p + 8 + total /\ (\A k \in 1 .. (3 * p + 8) : all[k] = abcd[k])
       /\ \A j \in 1 .. total : all[3 * p + 8 + j] = x[j]
  BY ONLY <1>1, <1>2, <1>11, <1>14 DEF IsCat
<1>16. \A k \in 1 .. p : all[k] = <<e.static_data, k>> /\ all[p + k] = <<e.thread_name, k>>
  <2> SUFFICES ASSUME NEW k \in 1 .. p
               PROVE  all[k] = <<e.static_data, k>> /\ all[p + k] = <<e.thread_name, k>>
    OBVIOUS
  <2>1. k \in 1 .. 2 * p /\ k \in 1 .. (2 * p + 8) /\ k \in 1 .. (3 * p + 8)
        /\ p + k \in 1 .. 2 * p /\ p + k \in 1 .. (2 * p + 8) /\ p + k \in 1 .. (3 * p + 8)
    BY ONLY <1>1, k \in 1 .. p
  <2> QED
    <3>1. all[k] = ab[k] /\ all[p + k] = ab[p + k]
      BY ONLY <2>1, <1>13, <1>14, <1>15, Zenon
    <3> QED
      BY ONLY <3>1, <1>7, <1>12, k \in 1 .. p, Zenon
<1>17. \A k \in 1 .. 8 : all[2 * p + k] = <<e.timestamp, k>>
  <2> SUFFICES ASSUME NEW k \in 1 .. 8 PROVE all[2 * p + k] = <<e.timestamp, k>>
    OBVIOUS
  <2>1. 2 * p + k \in 1 .. (2 * p + 8) /\ 2 * p + k \in 1 .. (3 * p + 8)
    BY ONLY <1>1, k \in 1 .. 8
  <2> QED
    BY ONLY <2>1, <1>7, <1>13, <1>14, <1>15, k \in 1 .. 8, Zenon
<1>18. \A k \in 1 .. p : all[2 * p + 8 + k] = <<total, k>>
  <2> SUFFICES ASSUME NEW k \in 1 .. p PROVE all[2 * p + 8 + k] = <<total, k>>
    OBVIOUS
  <2>1. 2 * p + 8 + k \in 1 .. (3 * p + 8)
    BY ONLY <1>1, k \in 1 .. p
  <2> QED
    BY ONLY <2>1, <1>7, <1>14, <1>15, k \in 1 .. p, Zenon
<1>19. IsWritten(e, total, all)
  BY ONLY <1>2, <1>11, <1>15, <1>16, <1>17, <1>18, Zenon DEF IsWritten, p, total, x
<1> QED
  BY ONLY <1>4, <1>19, Zenon DEF total

(* The event at the front of the buffer is decoded as it was logged, and   *)
(* what is left of the buffer is what follows it.                          *)
LEMMA EventDecoded ==
  ASSUME abi \in Abis, NEW e \in Event, NEW rest \in Seq(Byte), buffer = Cat(Written(e), rest)
  PROVE  /\ Header.static_data = e.static_data /\ Header.thread_name = e.thread_name
         /\ Header.timestamp = e.timestamp
         /\ DecodedArgs(TypesOf(e), Layout(abi).size) = e.args
         /\ SubSeq(buffer, TotalEventSize(Header) + 1, Len(buffer)) = rest
<1> DEFINE p == abi.ptr
           total == TotalArgsSize(TypesOf(e), e.args)
           w == Written(e)
<1>1. p \in {4, 8} /\ p \in Nat /\ p \in 1 .. 8 /\ 8 \in 1 .. 8
  BY LayoutFacts
<1>2. IsWritten(e, total, w)
  BY EventWritten
<1> HIDE DEF p, total, w
<1>3. w \in Seq(Byte) /\ total \in Nat /\ Len(w) = 3 * p + 8 + total
  BY ONLY <1>2, Zenon DEF IsWritten, p
<1>4. buffer \in Seq(Byte) /\ IsCat(w, rest, buffer)
  BY ONLY <1>3, rest \in Seq(Byte), buffer = Cat(Written(e), rest), CatProperties, Zenon DEF w
<1>5. Len(rest) \in Nat /\ Len(buffer) \in Nat /\ Len(buffer) = Len(w) + Len(rest)
      /\ \A k \in 1 .. Len(w) : buffer[k] = w[k]
  BY <1>3, <1>4 DEF IsCat
<1>6. /\ Found(0, p, e.static_data) /\ Found(p, p, e.thread_name)
      /\ Found(2 * p, 8, e.timestamp) /\ Found(2 * p + 8, p, total)
      /\ ArgsFound(TypesOf(e), e.args, 3 * p + 8)
  <2>1. /\ \A k \in 1 .. p : w[k] = <<e.static_data, k>>
        /\ \A k \in 1 .. p : w[p + k] = <<e.thread_name, k>>
        /\ \A k \in 1 .. 8 : w[2 * p + k] = <<e.timestamp, k>>
        /\ \A k \in 1 .. p : w[2 * p + 8 + k] = <<total, k>>
        /\ \A j \in 1 .. total : w[3 * p + 8 + j] = EncodedArgs(TypesOf(e), e.args)[j]
    BY ONLY <1>2, Zenon DEF IsWritten, p
  <2>2. \A k \in 1 .. p : /\ 0 + k \in 1 .. Len(w) /\ 0 + k = k /\ p + k \in 1 .. Len(w)
                          /\ (2 * p + 8) + k \in 1 .. Len(w)
    BY ONLY <1>1, <1>3
  <2>3. \A k \in 1 .. 8 : 2 * p + k \in 1 .. Len(w)
    BY ONLY <1>1, <1>3
  <2>4. \A j \in 1 .. total : (3 * p + 8) + j \in 1 .. Len(w)
    BY ONLY <1>1, <1>3
  <2> QED
    BY ONLY <2>1, <2>2, <2>3, <2>4, <1>5, Zenon DEF Found, ArgsFound, total
<1>7. /\ Value(Read(0, p)) = e.static_data /\ Value(Read(p, p)) = e.thread_name
      /\ Value(Read(2 * p, 8)) = e.timestamp /\ Value(Read(2 * p + 8, p)) = total
  <2>1. /\ 0 \in Nat /\ 2 * p \in Nat /\ 2 * p + 8 \in Nat /\ 0 + p <= Len(buffer)
        /\ p + p <= Len(buffer) /\ 2 * p + 8 <= Len(buffer) /\ (2 * p + 8) + p <= Len(buffer)
    BY ONLY <1>1, <1>3, <1>5
  <2>2. Value(Read(0, p)) = e.static_data
    BY ONLY <1>1, <1>5, <1>6, <2>1, ReadValue, Zenon
  <2>3. Value(Read(p, p)) = e.thread_name
    BY ONLY <1>1, <1>5, <1>6, <2>1, ReadValue, Zenon
  <2>4. Value(Read(2 * p, 8)) = e.timestamp
    BY ONLY <1>1, <1>5, <1>6, <2>1, ReadValue, Zenon
  <2>5. Value(Read(2 * p + 8, p)) = total
    BY ONLY <1>1, <1>5, <1>6, <2>1, ReadValue, Zenon
  <2> QED
    BY ONLY <2>2, <2>3, <2>4, <2>5, Zenon
<1>8. /\ Layout(abi).static_data = 0 /\ Layout(abi).thread_name = p
      /\ Layout(abi).timestamp = 2 * p /\ Layout(abi).payload_size = 2 * p + 8
      /\ Layout(abi).size = 3 * p + 8
  BY LayoutFacts, Zenon DEF p
<1>9. /\ Header.static_data = e.static_data /\ Header.thread_name = e.thread_name
      /\ Header.timestamp = e.timestamp /\ Header.payload_size = total
  <2>1. Header = [static_data |-> e.static_data, thread_name |-> e.thread_name,
                  timestamp |-> e.timestamp, payload_size |-> total]
    BY ONLY <1>7, <1>8, Zenon DEF Header, p
  <2> QED
    BY ONLY <2>1
<1>10. DecodedArgs(TypesOf(e), Layout(abi).size) = e.args
  <2>1. 3 * p + 8 \in Nat /\ (3 * p + 8) + total <= Len(buffer)
    BY ONLY <1>1, <1>3, <1>5
  <2>2. /\ TypesOf(e) \in Seq(Types) /\ AllFit(TypesOf(e), e.args)
        /\ e.args = [i \in DOMAIN TypesOf(e) |-> e.args[i]]
    BY EventFacts, Zenon
  <2>3. DecodedArgs(TypesOf(e), 3 * p + 8) = [i \in DOMAIN TypesOf(e) |-> e.args[i]]
    BY ONLY <1>4, <1>6, <2>1, <2>2, abi \in Abis, ArgsDecoded, Zenon DEF total
  <2> QED
    BY ONLY <1>8, <2>2, <2>3, Zenon
<1>11. TotalEventSize(Header) = Len(w)
  <2>1. TotalEventSize(Header) = (3 * p + 8) + total
    BY ONLY <1>8, <1>9, Zenon DEF TotalEventSize
  <2> QED
    BY ONLY <2>1, <1>1, <1>3
<1>12. SubSeq(Cat(w, rest), Len(w) + 1, Len(Cat(w, rest))) = rest
  <2>1. Len(Cat(w, rest)) = Len(w) + Len(rest)
    BY ONLY <1>3, <1>5, buffer = Cat(Written(e), rest), Zenon DEF w
  <2> QED
    BY ONLY <1>3, rest \in Seq(Byte), <2>1, SubSeqOfConcat2 DEF Cat
<1> QED
  BY ONLY <1>9, <1>10, <1>11, <1>12, buffer = Cat(Written(e), rest), Zenon DEF w

-----------------------------------------------------------------------------
(* The specification.                                                      *)

WrittenAll(events) == [i \in DOMAIN events |-> Written(events[i])]

(* The queue holds what was written of the events in it, one after the     *)
(* other: what makes the invariants inductive.                             *)
BufferHoldsQueued == buffer = Joined(WrittenAll(queued))[Len(queued)]

IInv ==
  /\ abi \in Abis /\ text \in Texts /\ count \in 0 .. MaxLogged
  /\ buffer \in Seq(Byte) /\ queued \in Seq(Event) /\ Len(queued) <= MaxQueued
  /\ BufferHoldsQueued
  /\ FillsReservation /\ DecodedAsLogged
  /\ \A d \in decoded : d.static_data \in DOMAIN CallSites

(* The pieces that the bytes of a queue are joined from.                   *)
LEMMA WrittenAllSeq ==
  ASSUME abi \in Abis, NEW q \in Seq(Event)
  PROVE  WrittenAll(q) \in Seq(Seq(Byte)) /\ Len(WrittenAll(q)) = Len(q)
<1>1. Len(q) \in Nat /\ DOMAIN q = 1 .. Len(q) /\ \A i \in 1 .. Len(q) : q[i] \in Event
  OBVIOUS
<1>2. \A i \in 1 .. Len(q) : Written(q[i]) \in Seq(Byte)
  BY ONLY <1>1, abi \in Abis, EventWritten, Zenon DEF IsWritten
<1>3. WrittenAll(q) = [i \in 1 .. Len(q) |-> Written(q[i])]
  BY <1>1, Zenon DEF WrittenAll
<1> DEFINE f == [i \in 1 .. Len(q) |-> Written(q[i])]
<1>4. f \in [1 .. Len(q) -> Seq(Byte)]
  BY <1>2
<1>5. f \in Seq(Seq(Byte)) /\ Len(f) = Len(q)
  BY <1>1, <1>4
<1> QED
  BY ONLY <1>3, <1>5, Zenon DEF f

(* An event more at the end, and one less at the front.                    *)
LEMMA WrittenAllAppend ==
  ASSUME NEW q \in Seq(Event), NEW e \in Event
  PROVE  WrittenAll(Append(q, e)) = Append(WrittenAll(q), Written(e))
  BY DEF WrittenAll

(* One less at the front.                                                  *)
LEMMA WrittenAllTail ==
  ASSUME NEW q \in Seq(Event), q # <<>>
  PROVE  WrittenAll(Tail(q)) = Tail(WrittenAll(q)) /\ WrittenAll(q)[1] = Written(q[1])
  BY DEF WrittenAll

(* The event that a call site logs.                                        *)
NewEvent(site) ==
  [static_data |-> site, thread_name |-> ThreadName, timestamp |-> count,
   args |-> [i \in DOMAIN CallSites[site] |-> Argument(CallSites[site][i])]]

(* It is an event.                                                         *)
LEMMA NewEventType ==
  ASSUME text \in Texts, count \in 0 .. MaxLogged, NEW site \in DOMAIN CallSites
  PROVE  NewEvent(site) \in Event
<1> DEFINE types == CallSites[site]
           args == [i \in DOMAIN types |-> Argument(types[i])]
           e == NewEvent(site)
<1>1. types \in Seq(Types) /\ text \in Seq(Nat) /\ count \in Nat
  BY CodecAssumption
<1> HIDE DEF types
<1>2. \A i \in DOMAIN types : /\ Argument(types[i]) \in Nat \cup Seq(Nat)
                              /\ Fits(types[i], Argument(types[i]))
  BY <1>1 DEF Argument, Fits, TextAddress
<1>3. args \in Seq(Nat \cup Seq(Nat)) /\ Len(args) = Len(types)
  BY <1>1, <1>2
<1>4. AllFit(types, args)
  BY <1>2, Zenon DEF AllFit
<1>5. /\ e.static_data = site /\ e.thread_name = ThreadName /\ e.timestamp = count
      /\ e.args = args /\ TypesOf(e) = types
  BY DEF NewEvent, TypesOf, types
<1>6. e = [static_data |-> site, thread_name |-> ThreadName, timestamp |-> count, args |-> args]
  BY Zenon DEF NewEvent, types
<1> HIDE DEF args, e
<1>7. ThreadName \in Nat
  BY DEF ThreadName
<1>8. e \in [static_data : DOMAIN CallSites, thread_name : Nat, timestamp : Nat,
             args : Seq(Nat \cup Seq(Nat))]
  BY ONLY <1>1, <1>3, <1>6, <1>7, site \in DOMAIN CallSites
<1>9. e \in Event
  BY ONLY <1>3, <1>4, <1>5, <1>8, Zenon DEF Event
<1> QED
  BY <1>9 DEF e

(* What is written of an event depends on the target only.                 *)
LEMMA WrittenUnchanged ==
  ASSUME abi' = abi
  PROVE  \A e : Written(e)' = Written(e)
<1>1. \A t : SizeOf(t)' = SizeOf(t)
  BY Zenon DEF SizeOf
<1>2. \A t, v : EncodedSize(t, v)' = EncodedSize(t, v)
  BY <1>1, Zenon DEF EncodedSize
<1>3. \A t, v : Encode(t, v)' = Encode(t, v)
  BY <1>1, Zenon DEF Encode
<1>4. ASSUME NEW types, NEW args
      PROVE  TotalArgsSize(types, args)' = TotalArgsSize(types, args)
  <2>1. [i \in DOMAIN types |-> EncodedSize(types[i], args[i])']
          = [i \in DOMAIN types |-> EncodedSize(types[i], args[i])]
    BY <1>2, Zenon
  <2> QED
    BY <2>1, Zenon DEF TotalArgsSize
<1>5. ASSUME NEW types, NEW args
      PROVE  EncodedArgs(types, args)' = EncodedArgs(types, args)
  <2>1. [i \in DOMAIN types |-> Encode(types[i], args[i])']
          = [i \in DOMAIN types |-> Encode(types[i], args[i])]
    BY <1>3, Zenon
  <2> QED
    BY <2>1, Zenon DEF EncodedArgs
<1> QED
  BY <1>4, <1>5, Zenon DEF Written

(* Initially nothing is in the queue.                                      *)
LEMMA InitIInv == Init => IInv
<1> SUFFICES ASSUME Init PROVE IInv
  OBVIOUS
<1>1. /\ abi \in Abis /\ text \in Texts /\ count = 0 /\ buffer = <<>> /\ queued = <<>>
      /\ slack = 0 /\ decoded = {}
  BY DEF Init
<1>2. count \in 0 .. MaxLogged /\ Len(queued) <= MaxQueued
      /\ buffer \in Seq(Byte) /\ queued \in Seq(Event)
  BY <1>1, CodecAssumption
<1>3. BufferHoldsQueued
  <2>1. WrittenAll(queued) = <<>>
    BY <1>1 DEF WrittenAll
  <2>2. Joined(<<>>)[0] = <<>>
    <3>1. <<>> \in Seq(Seq(Byte))
      OBVIOUS
    <3> QED
      BY ONLY <3>1, JoinedRecursion, Zenon
  <2>3. Len(queued) = 0
    BY <1>1
  <2> QED
    BY ONLY <1>1, <2>1, <2>2, <2>3, Zenon DEF BufferHoldsQueued
<1> QED
  BY <1>1, <1>2, <1>3, Zenon DEF IInv, FillsReservation, DecodedAsLogged

(* The caller's text is not part of what is in the queue.                  *)
LEMMA AssignIInv ==
  ASSUME IInv, NEW new \in Texts, Assign(new)
  PROVE  IInv'
<1>1. /\ text' = new /\ decoded' = {} /\ abi' = abi /\ count' = count /\ buffer' = buffer
      /\ queued' = queued /\ slack' = slack
  BY DEF Assign
<1>2. BufferHoldsQueued'
  <2>1. WrittenAll(queued)' = WrittenAll(queued)
    BY <1>1, WrittenUnchanged, Zenon DEF WrittenAll
  <2> QED
    BY <1>1, <2>1, Zenon DEF IInv, BufferHoldsQueued
<1> QED
  BY <1>1, <1>2, Zenon DEF IInv, FillsReservation, DecodedAsLogged

(* An event that is logged fills its reservation and follows the others.   *)
LEMMA PushLogEventIInv ==
  ASSUME IInv, NEW site \in DOMAIN CallSites, PushLogEvent(site)
  PROVE  IInv'
<1> DEFINE e == NewEvent(site)
           written == Written(e)
           total == TotalArgsSize(CallSites[site], e.args)
           reserved == total + Layout(abi).size
           committed == [k \in 1 .. reserved |->
                           IF k <= Len(written) THEN written[k] ELSE <<Garbage, 0>>]
<1>1. /\ count < MaxLogged /\ Len(queued) < MaxQueued
      /\ buffer' = buffer \o committed /\ slack' = reserved - Len(written)
      /\ queued' = Append(queued, e) /\ count' = count + 1 /\ decoded' = {}
      /\ abi' = abi /\ text' = text
  BY Zenon DEF PushLogEvent, NewEvent
<1>2. /\ abi \in Abis /\ text \in Texts /\ count \in 0 .. MaxLogged
      /\ buffer \in Seq(Byte) /\ queued \in Seq(Event) /\ BufferHoldsQueued
  BY Zenon DEF IInv
<1>3. e \in Event
  BY <1>2, NewEventType
<1>4. TypesOf(e) = CallSites[site]
  BY DEF TypesOf, NewEvent
<1> HIDE DEF e
<1>5. written \in Seq(Byte) /\ total \in Nat /\ Len(written) = 3 * abi.ptr + 8 + total
  BY ONLY <1>2, <1>3, <1>4, EventWritten, Zenon DEF IsWritten, written, total
<1>6. Layout(abi).size = 3 * abi.ptr + 8 /\ abi.ptr \in {4, 8}
  BY <1>2, LayoutFacts, Zenon
<1> HIDE DEF written, total
<1>7. reserved = Len(written)
  BY ONLY <1>5, <1>6 DEF reserved
<1>8. committed = written
  <2>1. committed = [k \in 1 .. Len(written) |-> written[k]]
    BY <1>7, <1>5
  <2>2. written = [k \in 1 .. Len(written) |-> written[k]]
    BY <1>5
  <2> QED
    BY ONLY <2>1, <2>2, Zenon
<1> HIDE DEF reserved, committed
<1>9. slack' = 0
  BY <1>1, <1>5, <1>7
<1>10. buffer' \in Seq(Byte) /\ buffer' = Cat(buffer, written)
  BY ONLY <1>1, <1>2, <1>5, <1>8, CatProperties, Zenon DEF Cat
<1>11. queued' \in Seq(Event) /\ Len(queued') = Len(queued) + 1 /\ Len(queued') <= MaxQueued
  BY <1>1, <1>2, <1>3, CodecAssumption
<1>12. BufferHoldsQueued'
  <2>1. WrittenAll(queued)  \in Seq(Seq(Byte)) /\ Len(WrittenAll(queued)) = Len(queued)
    BY ONLY <1>2, WrittenAllSeq, Zenon
  <2>2. WrittenAll(queued)' = Append(WrittenAll(queued), written)
    <3>1. WrittenAll(Append(queued, e)) = Append(WrittenAll(queued), Written(e))
      BY ONLY <1>2, <1>3, WrittenAllAppend, Zenon
    <3>2. WrittenAll(queued)' = WrittenAll(queued')
      BY <1>1, WrittenUnchanged, Zenon DEF WrittenAll
    <3> QED
      BY ONLY <3>1, <3>2, <1>1, Zenon DEF written
  <2>3. Joined(Append(WrittenAll(queued), written))[Len(queued) + 1]
          = Cat(Joined(WrittenAll(queued))[Len(queued)], written)
    BY ONLY <1>5, <2>1, JoinedAppend, Zenon
  <2> QED
    BY ONLY <1>2, <1>10, <1>11, <2>2, <2>3, Zenon DEF BufferHoldsQueued
<1>13. count' \in 0 .. MaxLogged
  BY <1>1, <1>2, CodecAssumption
<1> QED
  BY <1>1, <1>2, <1>9, <1>10, <1>11, <1>12, <1>13, Zenon
     DEF IInv, FillsReservation, DecodedAsLogged

(* The event that is read is the first one, and the others stay.           *)
LEMMA ReadIInv ==
  ASSUME IInv, ReadAndProcessSingleEvent
  PROVE  IInv'
<1> DEFINE e == Head(queued)
           all == WrittenAll(queued)
           rest == Joined(WrittenAll(Tail(queued)))[Len(Tail(queued))]
           types == IF Header.static_data \in DOMAIN CallSites
                    THEN CallSites[Header.static_data] ELSE <<>>
           args == DecodedArgs(types, Layout(abi).size)
<1>1. /\ queued # <<>> /\ queued' = Tail(queued)
      /\ abi' = abi /\ text' = text /\ count' = count /\ slack' = slack
      /\ decoded' = {[static_data |-> Header.static_data, thread_name |-> Header.thread_name,
                      timestamp |-> Header.timestamp, args |-> args, was |-> e]}
      /\ buffer' = SubSeq(buffer, TotalEventSize(Header) + 1, Len(buffer))
  BY Zenon DEF ReadAndProcessSingleEvent
<1>2. /\ abi \in Abis /\ text \in Texts /\ count \in 0 .. MaxLogged
      /\ buffer \in Seq(Byte) /\ queued \in Seq(Event) /\ Len(queued) <= MaxQueued
      /\ BufferHoldsQueued /\ FillsReservation
  BY Zenon DEF IInv
<1>3. /\ e \in Event /\ e = queued[1] /\ Tail(queued) \in Seq(Event)
      /\ Len(Tail(queued)) <= MaxQueued
  BY <1>1, <1>2, CodecAssumption
<1>4. all \in Seq(Seq(Byte)) /\ Len(all) = Len(queued)
  BY ONLY <1>2, WrittenAllSeq, Zenon DEF all
<1>5. WrittenAll(Tail(queued)) = Tail(all) /\ all[1] = Written(e)
  BY ONLY <1>1, <1>2, <1>3, WrittenAllTail, Zenon DEF all
<1> HIDE DEF all, e
<1>6. all # <<>> /\ Len(Tail(all)) = Len(Tail(queued))
  BY <1>1, <1>2, <1>4
<1>7. rest \in Seq(Byte) /\ Joined(all)[Len(all)] = Cat(Written(e), rest)
  BY ONLY <1>4, <1>5, <1>6, JoinedTail, Zenon DEF rest
<1>8. buffer = Cat(Written(e), rest)
  BY ONLY <1>2, <1>4, <1>7, Zenon DEF BufferHoldsQueued, all
<1> HIDE DEF rest
<1>9. /\ Header.static_data = e.static_data /\ Header.thread_name = e.thread_name
      /\ Header.timestamp = e.timestamp
      /\ DecodedArgs(TypesOf(e), Layout(abi).size) = e.args
      /\ SubSeq(buffer, TotalEventSize(Header) + 1, Len(buffer)) = rest
  BY ONLY <1>2, <1>3, <1>7, <1>8, EventDecoded, Zenon
<1>10. /\ e.static_data \in DOMAIN CallSites
       /\ e = [static_data |-> e.static_data, thread_name |-> e.thread_name,
               timestamp |-> e.timestamp, args |-> e.args]
  BY ONLY <1>3, EventFacts, Zenon
<1>11. args = e.args
  <2>1. types = TypesOf(e)
    BY ONLY <1>9, <1>10, Zenon DEF types, TypesOf
  <2> QED
    BY ONLY <2>1, <1>9, Zenon DEF args
<1> HIDE DEF args, types
<1>12. DecodedAsLogged' /\ \A d \in decoded' : d.static_data \in DOMAIN CallSites
  <2> SUFFICES ASSUME NEW d \in decoded'
               PROVE  /\ d.static_data \in DOMAIN CallSites
                      /\ d.was = [static_data |-> d.static_data, thread_name |-> d.thread_name,
                                  timestamp |-> d.timestamp, args |-> d.args]
    BY Zenon DEF DecodedAsLogged
  <2>1. d = [static_data |-> e.static_data, thread_name |-> e.thread_name,
             timestamp |-> e.timestamp, args |-> e.args, was |-> e]
    BY <1>1, <1>9, <1>11, Zenon
  <2>2. /\ d.static_data = e.static_data /\ d.thread_name = e.thread_name
        /\ d.timestamp = e.timestamp /\ d.args = e.args /\ d.was = e
    BY ONLY <2>1
  <2> QED
    BY ONLY <2>2, <1>10, Zenon
<1>13. buffer' = rest /\ BufferHoldsQueued'
  <2>1. WrittenAll(queued)' = WrittenAll(Tail(queued))
    BY <1>1, WrittenUnchanged, Zenon DEF WrittenAll
  <2> QED
    BY ONLY <1>1, <1>9, <2>1, Zenon DEF BufferHoldsQueued, rest
<1> QED
  BY ONLY <1>1, <1>2, <1>3, <1>7, <1>12, <1>13, Zenon DEF IInv, FillsReservation

(* Every step preserves the inductive invariant.                           *)
LEMMA NextIInv == IInv /\ [Next]_vars => IInv'
<1> SUFFICES ASSUME IInv, [Next]_vars PROVE IInv'
  OBVIOUS
<1>1. CASE \E new \in Texts : Assign(new)
  BY <1>1, AssignIInv, Zenon
<1>2. CASE \E site \in DOMAIN CallSites : PushLogEvent(site)
  BY <1>2, PushLogEventIInv, Zenon
<1>3. CASE ReadAndProcessSingleEvent
  BY <1>3, ReadIInv, Zenon
<1>4. CASE UNCHANGED vars
  <2>1. /\ text' = text /\ decoded' = decoded /\ abi' = abi /\ count' = count
        /\ buffer' = buffer /\ queued' = queued /\ slack' = slack
    BY <1>4, Zenon DEF vars
  <2>2. WrittenAll(queued)' = WrittenAll(queued)
    BY <2>1, WrittenUnchanged, Zenon DEF WrittenAll
  <2>3. BufferHoldsQueued'
    BY <2>1, <2>2, Zenon DEF IInv, BufferHoldsQueued
  <2> QED
    BY <2>1, <2>3, Zenon DEF IInv, FillsReservation, DecodedAsLogged
<1>5. CASE Done
  BY <1>4, <1>5, Zenon DEF Done
<1> QED
  BY <1>1, <1>2, <1>3, <1>4, <1>5, Zenon DEF Next

(* The inductive invariant holds in every state: between any two steps,    *)
(* the bytes in the queue are those of the events pushed and not yet read. *)
THEOREM QueueHoldsEvents == Spec => []IInv
  BY InitIInv, NextIInv, PTL DEF Spec

(* Every variable of Codec keeps its type, and static_data of a decoded    *)
(* header is always a pointer to the data of a call site.                  *)
THEOREM CodecTypeCorrect == Spec => []TypeOK
<1>1. IInv => TypeOK
  <2> SUFFICES ASSUME IInv PROVE TypeOK
    OBVIOUS
  <2>1. /\ abi \in Abis /\ text \in Texts /\ count \in 0 .. MaxLogged
        /\ buffer \in Seq(Byte) /\ Len(queued) <= MaxQueued /\ slack = 0
        /\ \A d \in decoded : d.static_data \in DOMAIN CallSites
    BY Zenon DEF IInv, FillsReservation
  <2>2. \A i \in DOMAIN buffer : buffer[i] \in Int \X (0 .. 8)
    BY <2>1 DEF Byte
  <2>3. slack \in Int
    BY <2>1
  <2> QED
    BY <2>1, <2>2, <2>3, Zenon DEF TypeOK
<1> QED
  BY <1>1, QueueHoldsEvents, PTL

(* What the backend decodes is what push_log_event() was called with: for  *)
(* every target without padding in the header, all call sites and texts,   *)
(* and however many events are in the queue.                               *)
THEOREM EventsDecodedAsLogged == Spec => []DecodedAsLogged
<1>1. IInv => DecodedAsLogged
  BY DEF IInv
<1> QED
  BY <1>1, QueueHoldsEvents, PTL

(* encode() of the header and of the arguments writes as many bytes as     *)
(* push_log_event() reserved: none past the reservation, none left out.    *)
THEOREM EventsFillReservation == Spec => []FillsReservation
<1>1. IInv => FillsReservation
  BY DEF IInv
<1> QED
  BY <1>1, QueueHoldsEvents, PTL

=============================================================================
