---------------------------- MODULE Materials_proofs ----------------------------
(***************************************************************************)
(* Theorems about what the programs of a scene's materials read.           *)
(*                                                                         *)
(* A concatenation is unfolded by counting up through its parts, so a      *)
(* program's samples, its paths, a batch and the slots dealt out of it are *)
(* known place by place (Follows, OrderIs, PathsAre, DealtHolds).  The     *)
(* pool only grows, and holds at a slot what was asked for there, at the   *)
(* quality it was last decoded at (PoolIs, Holds).  Networks of one key    *)
(* have images that are named and read alike, so a program made of one     *)
(* reads for the other (SameContent).                                      *)
(*                                                                         *)
(* MaterialsInv says that what was compiled, or is in the cache, is of a   *)
(* network of its key; that a material with nothing to sync is pending     *)
(* with the stage's network or settled; that a batch is the first of what  *)
(* is pending; that a library kept is of its key; and that, until          *)
(* something is stale, what was published is of the table as it is.        *)
(***************************************************************************)
EXTENDS Materials, SequenceTheorems, FiniteSetTheorems, WellFoundedInduction, TLAPS

-----------------------------------------------------------------------------
(* Sequences, of whatever elements.                                         *)

IsSeq(s) == Len(s) \in Nat /\ s = [i \in 1 .. Len(s) |-> s[i]]

LEMMA SeqIsSeq ==
  ASSUME NEW S, NEW s \in Seq(S)
  PROVE  IsSeq(s)
<1>1. Len(s) \in Nat /\ s \in [1 .. Len(s) -> S]
    BY LenProperties
<1> QED
    BY <1>1 DEF IsSeq

LEMMA IsSeqOfItsOwn ==
  ASSUME NEW s, IsSeq(s)
  PROVE  /\ Len(s) \in Nat /\ DOMAIN s = 1 .. Len(s)
         /\ s \in Seq(ToSet(s))
         /\ \A i \in 1 .. Len(s) : s[i] \in ToSet(s)
         /\ \A x \in ToSet(s) : \E i \in 1 .. Len(s) : s[i] = x
<1>1. Len(s) \in Nat /\ DOMAIN s = 1 .. Len(s)
    BY DEF IsSeq
<1>2. \A i \in 1 .. Len(s) : s[i] \in ToSet(s)
    BY <1>1 DEF ToSet
<1>3. s \in [1 .. Len(s) -> ToSet(s)]
    BY <1>2 DEF IsSeq
<1>4. s \in Seq(ToSet(s))
    BY <1>1, <1>3
<1> QED
    BY <1>1, <1>2, <1>4 DEF ToSet

LEMMA ListIsSeq ==
  ASSUME NEW N \in Nat, NEW s, s = [i \in 1 .. N |-> s[i]]
  PROVE  IsSeq(s) /\ Len(s) = N
<1> DEFINE T == {s[i] : i \in 1 .. N}
<1>1. DOMAIN s = 1 .. N
    OBVIOUS
<1>2. s \in [1 .. N -> T]
    OBVIOUS
<1> HIDE DEF T
<1>3. s \in Seq(T)
    BY <1>2
<1>4. Len(s) = N
    BY <1>1, <1>3, LenProperties
<1> QED
    BY <1>4 DEF IsSeq

LEMMA Empty == IsSeq(<<>>) /\ Len(<<>>) = 0 /\ ToSet(<<>>) = {}
BY DEF IsSeq, ToSet

LEMMA One ==
  ASSUME NEW x
  PROVE  IsSeq(<<x>>) /\ Len(<<x>>) = 1 /\ <<x>>[1] = x /\ ToSet(<<x>>) = {x}
BY DEF IsSeq, ToSet

LEMMA Joined ==
  ASSUME NEW s, NEW t, IsSeq(s), IsSeq(t)
  PROVE  /\ IsSeq(s \o t) /\ Len(s \o t) = Len(s) + Len(t)
         /\ \A i \in 1 .. Len(s) : (s \o t)[i] = s[i]
         /\ \A i \in 1 .. Len(t) : (s \o t)[Len(s) + i] = t[i]
         /\ ToSet(s \o t) = ToSet(s) \union ToSet(t)
<1> DEFINE S == ToSet(s) \union ToSet(t)
<1>1. s \in Seq(S) /\ t \in Seq(S)
  <2>1. s \in Seq(ToSet(s)) /\ t \in Seq(ToSet(t))
      BY IsSeqOfItsOwn
  <2> HIDE DEF S
  <2>2. ToSet(s) \subseteq S /\ ToSet(t) \subseteq S
      BY DEF S
  <2> QED
      BY <2>1, <2>2, SeqMonotonic
<1>2. Len(s) \in Nat /\ Len(t) \in Nat /\ DOMAIN s = 1 .. Len(s) /\ DOMAIN t = 1 .. Len(t)
    BY IsSeqOfItsOwn
<1> HIDE DEF S
<1>3. /\ s \o t \in Seq(S) /\ Len(s \o t) = Len(s) + Len(t)
      /\ \A i \in 1 .. Len(s) + Len(t) : (s \o t)[i] = IF i <= Len(s) THEN s[i] ELSE t[i - Len(s)]
    BY <1>1, ConcatProperties
<1>4. IsSeq(s \o t)
    BY <1>3, SeqIsSeq
<1>5. \A i \in 1 .. Len(s) : (s \o t)[i] = s[i]
    BY <1>2, <1>3
<1>6. \A i \in 1 .. Len(t) : (s \o t)[Len(s) + i] = t[i]
    BY <1>2, <1>3
<1>7. ToSet(s \o t) \subseteq ToSet(s) \union ToSet(t)
  <2>1. ASSUME NEW x \in ToSet(s \o t) PROVE x \in S
    <3>1. PICK i \in 1 .. Len(s) + Len(t) : x = (s \o t)[i]
        BY <1>3, <1>4, <2>1, IsSeqOfItsOwn
    <3>2. CASE i <= Len(s)
      <4>1. x = s[i] /\ i \in 1 .. Len(s)
          BY <1>2, <1>3, <3>1, <3>2
      <4> QED
          BY <4>1, IsSeqOfItsOwn DEF S
    <3>3. CASE ~(i <= Len(s))
      <4>1. x = t[i - Len(s)] /\ i - Len(s) \in 1 .. Len(t)
          BY <1>2, <1>3, <3>1, <3>3
      <4> QED
          BY <4>1, IsSeqOfItsOwn DEF S
    <3> QED
        BY <3>2, <3>3
  <2> QED
      BY <2>1 DEF S
<1>8. ASSUME NEW x \in ToSet(s) \union ToSet(t) PROVE x \in ToSet(s \o t)
  <2>1. CASE x \in ToSet(s)
    <3>1. PICK i \in 1 .. Len(s) : x = s[i]
        BY <2>1, IsSeqOfItsOwn
    <3>2. i \in 1 .. Len(s \o t) /\ (s \o t)[i] = x
        BY <1>2, <1>3, <1>5, <3>1
    <3> QED
        BY <1>4, <3>2, IsSeqOfItsOwn
  <2>2. CASE x \in ToSet(t)
    <3>1. PICK i \in 1 .. Len(t) : x = t[i]
        BY <2>2, IsSeqOfItsOwn
    <3>2. Len(s) + i \in 1 .. Len(s \o t) /\ (s \o t)[Len(s) + i] = x
        BY <1>2, <1>3, <1>6, <3>1
    <3> QED
        BY <1>4, <3>2, IsSeqOfItsOwn
  <2> QED
      BY <1>8, <2>1, <2>2
<1> QED
    BY <1>3, <1>4, <1>5, <1>6, <1>7, <1>8

LEMMA HasLeast ==
  ASSUME NEW S \in SUBSET Nat, S # {}
  PROVE  \E x \in S : \A y \in S : x <= y
<1>1. PICK x \in S : \A y \in S : ~(<<y, x>> \in OpToRel(<, Nat))
    BY NatLessThanWellFounded, WFMin
<1>2. ASSUME NEW y \in S PROVE x <= y
  <2>1. ~(y < x)
      BY <1>1 DEF OpToRel
  <2> QED
      BY <2>1
<1> QED
    BY <1>2

LEMMA CountsUp ==
  ASSUME NEW N \in Nat, NEW P \in SUBSET (0 .. N), 0 \in P,
         \A n \in P : n < N => n + 1 \in P
  PROVE  P = 0 .. N
<1> DEFINE missing == (0 .. N) \ P
<1>1. SUFFICES ASSUME missing # {} PROVE FALSE
    OBVIOUS
<1>2. missing \in SUBSET Nat
    OBVIOUS
<1>3. PICK d \in missing : \A e \in missing : d <= e
    BY <1>1, <1>2, HasLeast
<1>4. d \in 0 .. N /\ d \notin P /\ d # 0
    OBVIOUS
<1>5. d - 1 \in 0 .. N /\ d - 1 \notin missing
    BY <1>3, <1>4
<1>6. d - 1 \in P /\ d - 1 < N /\ (d - 1) + 1 = d
    BY <1>4, <1>5
<1> QED
    BY <1>4, <1>6

-----------------------------------------------------------------------------
(* Parts one after another.                                                 *)

Follows(parts, n, g) == g = [m \in 0 .. n |-> IF m = 0 THEN <<>> ELSE g[m - 1] \o parts[m]]

LEMMA ConcatUnfolds ==
  ASSUME NEW parts, Len(parts) \in Nat
  PROVE  \E g : Follows(parts, Len(parts), g) /\ Concat(parts) = g[Len(parts)]
<1> DEFINE N == Len(parts)
           P == {n \in 0 .. N : \E g : Follows(parts, n, g)}
<1>1. 0 \in P
  <2> DEFINE g == [m \in 0 .. 0 |-> <<>>]
  <2>1. Follows(parts, 0, g)
    <3>1. [m \in 0 .. 0 |-> IF m = 0 THEN <<>> ELSE g[m - 1] \o parts[m]] = g
        OBVIOUS
    <3> QED
        BY <3>1 DEF Follows
  <2> QED
      BY <2>1
<1>2. ASSUME NEW n \in P, n < N PROVE n + 1 \in P
  <2>1. PICK g : Follows(parts, n, g)
      OBVIOUS
  <2> DEFINE next(m) == IF m = 0 THEN <<>> ELSE g[m - 1] \o parts[m]
             h == [m \in 0 .. (n + 1) |-> IF m <= n THEN g[m] ELSE next(m)]
  <2>2. n \in Nat /\ n + 1 \in 0 .. N
      BY <1>2
  <2>3. \A m \in 0 .. n : g[m] = next(m)
    <3>1. g = [m \in 0 .. n |-> next(m)]
        BY <2>1 DEF Follows
    <3> HIDE DEF next
    <3> QED
        BY <3>1
  <2>4. \A m \in 0 .. (n + 1) : h[m] = next(m)
    <3> HIDE DEF next
    <3> QED
        BY <2>2, <2>3
  <2>5. \A m \in 0 .. n : h[m] = g[m]
    <3> HIDE DEF next
    <3> QED
        BY <2>2
  <2>6. \A m \in 0 .. (n + 1) : h[m] = IF m = 0 THEN <<>> ELSE h[m - 1] \o parts[m]
    <3>1. SUFFICES ASSUME NEW m \in 0 .. (n + 1), m # 0 PROVE h[m - 1] = g[m - 1]
      <4> HIDE DEF h
      <4> QED
          BY <2>4
    <3>2. m - 1 \in 0 .. n
        BY <2>2, <3>1
    <3> HIDE DEF h
    <3> QED
        BY <2>5, <3>2
  <2>7. h = [m \in 0 .. (n + 1) |-> h[m]]
      OBVIOUS
  <2> HIDE DEF h
  <2>8. Follows(parts, n + 1, h)
      BY <2>6, <2>7 DEF Follows
  <2> QED
      BY <2>2, <2>8
<1>3. P = 0 .. N
  <2> HIDE DEF P
  <2>1. P \in SUBSET (0 .. N)
      BY DEF P
  <2> QED
      BY <1>1, <1>2, <2>1, CountsUp
<1>4. \E g : Follows(parts, N, g)
    BY <1>3
<1> DEFINE g == CHOOSE g : g = [m \in 0 .. Len(parts) |-> IF m = 0 THEN <<>> ELSE g[m - 1] \o parts[m]]
<1>5. Follows(parts, N, g)
    BY <1>4 DEF Follows
<1>6. Concat(parts) = g[N]
    BY Zenon DEF Concat
<1> HIDE DEF g
<1> QED
    BY <1>5, <1>6

LEMMA FollowsEach ==
  ASSUME NEW parts, NEW n \in Nat, NEW g, Follows(parts, n, g)
  PROVE  g[0] = <<>> /\ \A m \in 1 .. n : g[m] = g[m - 1] \o parts[m]
<1> DEFINE next(m) == IF m = 0 THEN <<>> ELSE g[m - 1] \o parts[m]
<1>1. g = [m \in 0 .. n |-> next(m)]
    BY DEF Follows
<1>2. \A m \in 0 .. n : g[m] = next(m)
  <2> HIDE DEF next
  <2> QED
      BY <1>1
<1>3. 0 \in 0 .. n /\ \A m \in 1 .. n : m \in 0 .. n /\ m # 0
    OBVIOUS
<1> QED
    BY <1>2, <1>3

\* What stands before the k-th part.
Before(parts, k) == Concat(SubSeq(parts, 1, k - 1))

LEMMA BeforeFollows ==
  ASSUME NEW parts, IsSeq(parts), NEW g, Follows(parts, Len(parts), g), NEW k \in 1 .. Len(parts)
  PROVE  Before(parts, k) = g[k - 1]
<1> DEFINE N == Len(parts)
           front == SubSeq(parts, 1, k - 1)
<1>1. N \in Nat /\ parts \in Seq(ToSet(parts)) /\ k - 1 \in 0 .. N /\ k - 1 \in Nat
    BY IsSeqOfItsOwn
<1>2. Len(front) = k - 1 /\ \A m \in 1 .. k - 1 : front[m] = parts[m]
    BY <1>1, SubSeqProperties
<1>3. PICK f : Follows(front, k - 1, f) /\ Concat(front) = f[k - 1]
    BY <1>1, <1>2, ConcatUnfolds
<1> DEFINE P == {n \in 0 .. k - 1 : f[n] = g[n]}
<1> HIDE DEF front
<1>4. 0 \in P
  <2>1. f[0] = <<>> /\ g[0] = <<>>
      BY <1>1, <1>3, FollowsEach
  <2> QED
      BY <1>1, <2>1
<1>5. ASSUME NEW n \in P, n < k - 1 PROVE n + 1 \in P
  <2>1. n + 1 \in 1 .. k - 1 /\ n + 1 \in 1 .. N /\ (n + 1) - 1 = n /\ f[n] = g[n]
      BY <1>1, <1>5
  <2>2. f[n + 1] = f[(n + 1) - 1] \o front[n + 1] /\ g[n + 1] = g[(n + 1) - 1] \o parts[n + 1]
      BY <1>1, <1>3, <2>1, FollowsEach
  <2>3. front[n + 1] = parts[n + 1]
      BY <1>2, <2>1
  <2>4. f[n + 1] = g[n + 1]
      BY <2>1, <2>2, <2>3
  <2> QED
      BY <2>1, <2>4
<1>6. P = 0 .. k - 1
  <2>1. P \in SUBSET (0 .. k - 1)
      OBVIOUS
  <2> HIDE DEF P
  <2> QED
      BY <1>1, <1>4, <1>5, <2>1, CountsUp
<1>7. k - 1 \in P
    BY <1>1, <1>6
<1> QED
    BY <1>3, <1>7 DEF Before, front

Parts(parts) == IsSeq(parts) /\ \A k \in 1 .. Len(parts) : IsSeq(parts[k])

\* A part stands behind what is before it, and nothing but parts is there.
LEMMA ConcatIs ==
  ASSUME NEW parts, Parts(parts)
  PROVE  /\ IsSeq(Concat(parts))
         /\ ToSet(Concat(parts)) = UNION {ToSet(parts[k]) : k \in 1 .. Len(parts)}
         /\ \A k \in 1 .. Len(parts) :
              /\ Len(Before(parts, k)) \in Nat
              /\ Len(Before(parts, k)) + Len(parts[k]) <= Len(Concat(parts))
              /\ \A i \in 1 .. Len(parts[k]) : Concat(parts)[Len(Before(parts, k)) + i] = parts[k][i]
<1> DEFINE N == Len(parts)
<1>1. IsSeq(parts) /\ N \in Nat /\ \A k \in 1 .. N : IsSeq(parts[k]) /\ Len(parts[k]) \in Nat
    BY DEF Parts, IsSeq
<1>2. PICK g : Follows(parts, N, g) /\ Concat(parts) = g[N]
    BY <1>1, ConcatUnfolds
<1>3. g[0] = <<>> /\ \A n \in 1 .. N : g[n] = g[n - 1] \o parts[n]
    BY <1>1, <1>2, FollowsEach
<1> DEFINE Placed(n, k) == /\ Len(g[k - 1]) \in Nat
                           /\ Len(g[k - 1]) + Len(parts[k]) <= Len(g[n])
                           /\ \A i \in 1 .. Len(parts[k]) : g[n][Len(g[k - 1]) + i] = parts[k][i]
           Good(n) == /\ IsSeq(g[n])
                      /\ ToSet(g[n]) = UNION {ToSet(parts[k]) : k \in 1 .. n}
                      /\ \A k \in 1 .. n : Placed(n, k)
           P == {n \in 0 .. N : Good(n)}
<1>4. 0 \in P
  <2>1. IsSeq(g[0]) /\ ToSet(g[0]) = {}
      BY <1>3, Empty
  <2>2. 1 .. 0 = {}
      OBVIOUS
  <2>3. Good(0)
      BY <2>1, <2>2
  <2> HIDE DEF Good
  <2> QED
      BY <1>1, <2>3
<1>5. ASSUME NEW n \in P, n < N PROVE n + 1 \in P
  <2>1. n \in Nat /\ n + 1 \in 1 .. N /\ n + 1 \in 0 .. N /\ (n + 1) - 1 = n
      BY <1>1, <1>5
  <2>2. Good(n)
    <3> HIDE DEF Good
    <3> QED
        BY <1>5
  <2> DEFINE s == g[n]
             t == parts[n + 1]
  <2>3. g[n + 1] = s \o t
      BY <1>3, <2>1
  <2>4. IsSeq(s) /\ IsSeq(t)
      BY <1>1, <2>1, <2>2
  <2>5. /\ IsSeq(s \o t) /\ Len(s \o t) = Len(s) + Len(t)
        /\ \A i \in 1 .. Len(s) : (s \o t)[i] = s[i]
        /\ \A i \in 1 .. Len(t) : (s \o t)[Len(s) + i] = t[i]
        /\ ToSet(s \o t) = ToSet(s) \union ToSet(t)
    <3> HIDE DEF s, t
    <3> QED
        BY <2>4, Joined
  <2>6. ToSet(g[n + 1]) = UNION {ToSet(parts[k]) : k \in 1 .. (n + 1)}
    <3>1. \A k : k \in 1 .. (n + 1) <=> k \in 1 .. n \/ k = n + 1
        BY <2>1
    <3>2. ToSet(g[n + 1]) = ToSet(g[n]) \union ToSet(parts[n + 1])
        BY <2>3, <2>5
    <3>3. ToSet(g[n]) = UNION {ToSet(parts[k]) : k \in 1 .. n}
        BY <2>2
    <3> QED
        BY ONLY <3>1, <3>2, <3>3
  <2>7. ASSUME NEW k \in 1 .. (n + 1) PROVE Placed(n + 1, k)
    <3>1. Len(s) \in Nat /\ Len(t) \in Nat
        BY <2>4 DEF IsSeq
    <3>2. CASE k = n + 1
      <4>1. k - 1 = n /\ parts[k] = t
          BY <2>1, <3>2
      <4> HIDE DEF s, t
      <4>2. g[k - 1] = s
          BY <4>1 DEF s
      <4> QED
          BY <2>3, <2>5, <3>1, <4>1, <4>2
    <3>3. CASE k \in 1 .. n
      <4>1. Placed(n, k)
        <5> HIDE DEF Placed
        <5> QED
            BY <2>2, <3>3
      <4>2. Len(parts[k]) \in Nat
          BY <1>1, <2>1, <3>3
      <4>5. /\ Len(g[k - 1]) \in Nat
            /\ Len(g[k - 1]) + Len(parts[k]) <= Len(s)
            /\ \A i \in 1 .. Len(parts[k]) : s[Len(g[k - 1]) + i] = parts[k][i]
          BY <4>1
      <4> HIDE DEF Placed, s, t
      <4>6. Len(g[n + 1]) = Len(s) + Len(t)
          BY <2>3, <2>5
      <4>7. PICK a \in Nat, p \in Nat, l \in Nat, u \in Nat :
               a = Len(g[k - 1]) /\ p = Len(parts[k]) /\ l = Len(s) /\ u = Len(t)
          BY <3>1, <4>2, <4>5
      <4>8. a + p <= l /\ a + p <= l + u
        <5>1. a + p <= l
            BY <4>5, <4>7
        <5> QED
            BY ONLY <5>1, a \in Nat, p \in Nat, l \in Nat, u \in Nat
      <4>3. Len(g[k - 1]) + Len(parts[k]) <= Len(g[n + 1])
        <5>1. Len(g[n + 1]) = l + u
            BY <4>6, <4>7
        <5> QED
            BY <4>7, <4>8, <5>1
      <4>4. ASSUME NEW i \in 1 .. Len(parts[k])
            PROVE  g[n + 1][Len(g[k - 1]) + i] = parts[k][i]
        <5>1. Len(g[k - 1]) + i \in 1 .. Len(s)
          <6>1. i \in 1 .. p
              BY <4>4, <4>7
          <6>2. a + i \in 1 .. l
              BY ONLY <4>8, <6>1, a \in Nat, p \in Nat, l \in Nat
          <6> QED
              BY <4>7, <6>2
        <5>2. (s \o t)[Len(g[k - 1]) + i] = s[Len(g[k - 1]) + i]
            BY <2>5, <5>1
        <5> QED
            BY <2>3, <4>5, <5>2
      <4>9. Len(g[k - 1]) \in Nat
          BY <4>5
      <4> QED
          BY ONLY <4>9, <4>3, <4>4, Zenon DEF Placed
    <3>4. k = n + 1 \/ k \in 1 .. n
        BY <2>1
    <3> HIDE DEF Placed
    <3> QED
        BY <3>2, <3>3, <3>4
  <2>8. Good(n + 1)
    <3> HIDE DEF Placed
    <3> QED
        BY <2>3, <2>5, <2>6, <2>7
  <2> HIDE DEF Good
  <2> QED
      BY <2>1, <2>8
<1>6. P = 0 .. N
  <2>1. P \in SUBSET (0 .. N)
      OBVIOUS
  <2> HIDE DEF P
  <2> QED
      BY <1>1, <1>4, <1>5, <2>1, CountsUp
<1>7. Good(N)
  <2> HIDE DEF Good
  <2>1. N \in P
    <3> HIDE DEF P
    <3> QED
        BY <1>1, <1>6
  <2> QED
      BY <2>1
<1>8. \A k \in 1 .. N : Before(parts, k) = g[k - 1]
    BY <1>1, <1>2, BeforeFollows
<1> QED
    BY <1>2, <1>7, <1>8

\* What a sequence has at some places, in its order.
LEMMA ChosenIs ==
  ASSUME NEW s, IsSeq(s), NEW I
  PROVE  IsSeq(Chosen(s, I)) /\ ToSet(Chosen(s, I)) = {s[i] : i \in I \cap (1 .. Len(s))}
<1> DEFINE parts == [i \in DOMAIN s |-> IF i \in I THEN <<s[i]>> ELSE <<>>]
<1>1. DOMAIN s = 1 .. Len(s) /\ Len(s) \in Nat
    BY IsSeqOfItsOwn
<1>2. parts = [i \in 1 .. Len(s) |-> parts[i]]
    BY <1>1
<1>3. \A k \in 1 .. Len(s) :
         IsSeq(parts[k]) /\ ToSet(parts[k]) = IF k \in I THEN {s[k]} ELSE {}
    BY <1>1, One, Empty
<1> HIDE DEF parts
<1>4. IsSeq(parts) /\ Len(parts) = Len(s)
    BY <1>1, <1>2, ListIsSeq
<1>5. /\ IsSeq(Concat(parts))
      /\ ToSet(Concat(parts)) = UNION {ToSet(parts[k]) : k \in 1 .. Len(s)}
    BY <1>3, <1>4, ConcatIs DEF Parts
<1>6. Chosen(s, I) = Concat(parts)
    BY DEF Chosen, parts
<1>7. UNION {ToSet(parts[k]) : k \in 1 .. Len(s)} = {s[i] : i \in I \cap (1 .. Len(s))}
  <2>1. ASSUME NEW x \in UNION {ToSet(parts[k]) : k \in 1 .. Len(s)}
        PROVE  x \in {s[i] : i \in I \cap (1 .. Len(s))}
    <3>1. PICK k \in 1 .. Len(s) : x \in ToSet(parts[k])
        OBVIOUS
    <3>2. k \in I /\ x = s[k]
        BY <1>3, <3>1
    <3> QED
        BY <3>2
  <2>2. ASSUME NEW i \in I \cap (1 .. Len(s)) PROVE s[i] \in ToSet(parts[i])
      BY <1>3
  <2> QED
      BY <2>1, <2>2
<1> QED
    BY <1>5, <1>6, <1>7

LEMMA MinIs ==
  ASSUME NEW S \in SUBSET Nat, S # {}
  PROVE  Min(S) \in S /\ \A x \in S : Min(S) <= x
<1>1. \E x \in S : \A y \in S : x =< y
    BY HasLeast
<1> QED
    BY <1>1 DEF Min

LEMMA FirstsCover ==
  ASSUME NEW s, IsSeq(s), NEW x \in ToSet(s)
  PROVE  \E i \in Firsts(s) : i \in 1 .. Len(s) /\ s[i] = x
<1> DEFINE S == {i \in 1 .. Len(s) : s[i] = x}
<1>1. DOMAIN s = 1 .. Len(s) /\ Len(s) \in Nat /\ \E i \in 1 .. Len(s) : s[i] = x
    BY IsSeqOfItsOwn
<1>2. S # {} /\ S \in SUBSET Nat
    BY <1>1
<1> HIDE DEF S
<1>3. PICK i \in S : \A j \in S : i <= j
    BY <1>2, HasLeast
<1> QED
    BY <1>1, <1>3 DEF S, Firsts

Distinct(s) == \A i, j \in 1 .. Len(s) : s[i] = s[j] => i = j
Disjoint(s, t) == ToSet(s) \cap ToSet(t) = {}

LEMMA JoinedApart ==
  ASSUME NEW s, NEW t, IsSeq(s), IsSeq(t), Distinct(s), Distinct(t), Disjoint(s, t)
  PROVE  Distinct(s \o t)
<1>1. /\ Len(s \o t) = Len(s) + Len(t)
      /\ \A i \in 1 .. Len(s) : (s \o t)[i] = s[i]
      /\ \A i \in 1 .. Len(t) : (s \o t)[Len(s) + i] = t[i]
    BY Joined
<1>2. /\ Len(s) \in Nat /\ Len(t) \in Nat
      /\ \A i \in 1 .. Len(s) : s[i] \in ToSet(s)
      /\ \A i \in 1 .. Len(t) : t[i] \in ToSet(t)
    BY IsSeqOfItsOwn
<1>3. ASSUME NEW i \in 1 .. Len(s \o t)
      PROVE  \/ i \in 1 .. Len(s) /\ (s \o t)[i] = s[i] /\ s[i] \in ToSet(s)
             \/ /\ i - Len(s) \in 1 .. Len(t) /\ (s \o t)[i] = t[i - Len(s)] /\ t[i - Len(s)] \in ToSet(t)
  <2>1. CASE i <= Len(s)
      BY <1>1, <1>2, <2>1
  <2>2. CASE ~(i <= Len(s))
    <3>1. i - Len(s) \in 1 .. Len(t) /\ Len(s) + (i - Len(s)) = i
        BY <1>1, <1>2, <2>2
    <3>2. (s \o t)[Len(s) + (i - Len(s))] = t[i - Len(s)]
        BY <1>1, <3>1
    <3> QED
        BY <1>2, <3>1, <3>2
  <2> QED
      BY <1>2, <2>1, <2>2
<1>4. ASSUME NEW i \in 1 .. Len(s \o t), NEW j \in 1 .. Len(s \o t), (s \o t)[i] = (s \o t)[j]
      PROVE  i = j
  <2>1. CASE i \in 1 .. Len(s) /\ (s \o t)[i] = s[i] /\ s[i] \in ToSet(s)
    <3>1. j \in 1 .. Len(s) /\ (s \o t)[j] = s[j]
        BY <1>3, <1>4, <2>1 DEF Disjoint
    <3> QED
        BY <1>4, <2>1, <3>1 DEF Distinct
  <2>2. CASE i - Len(s) \in 1 .. Len(t) /\ (s \o t)[i] = t[i - Len(s)] /\ t[i - Len(s)] \in ToSet(t)
    <3>1. j - Len(s) \in 1 .. Len(t) /\ (s \o t)[j] = t[j - Len(s)]
        BY <1>3, <1>4, <2>2 DEF Disjoint
    <3>2. i - Len(s) = j - Len(s)
        BY <1>4, <2>2, <3>1 DEF Distinct
    <3>3. i \in Int /\ j \in Int
        BY <1>4
    <3> QED
        BY <1>2, <3>2, <3>3
  <2> QED
      BY <1>3, <2>1, <2>2
<1> QED
    BY <1>4 DEF Distinct

\* Parts without a repetition, no two of which share anything, have none together.
LEMMA ConcatApart ==
  ASSUME NEW parts, Parts(parts), \A k \in 1 .. Len(parts) : Distinct(parts[k]),
         \A k, l \in 1 .. Len(parts) : k # l => Disjoint(parts[k], parts[l])
  PROVE  Distinct(Concat(parts))
<1> DEFINE N == Len(parts)
<1>1. IsSeq(parts) /\ N \in Nat /\ \A k \in 1 .. N : IsSeq(parts[k])
    BY DEF Parts, IsSeq
<1>2. PICK g : Follows(parts, N, g) /\ Concat(parts) = g[N]
    BY <1>1, ConcatUnfolds
<1>3. g[0] = <<>> /\ \A n \in 1 .. N : g[n] = g[n - 1] \o parts[n]
    BY <1>1, <1>2, FollowsEach
<1> DEFINE Good(n) == /\ IsSeq(g[n]) /\ Distinct(g[n])
                      /\ \A x \in ToSet(g[n]) : \E k \in 1 .. n : x \in ToSet(parts[k])
           P == {n \in 0 .. N : Good(n)}
<1>4. 0 \in P
  <2>1. IsSeq(g[0]) /\ ToSet(g[0]) = {} /\ Len(g[0]) = 0
      BY <1>3, Empty
  <2>2. Good(0)
      BY <2>1 DEF Distinct
  <2> HIDE DEF Good
  <2> QED
      BY <1>1, <2>2
<1>5. ASSUME NEW n \in P, n < N PROVE n + 1 \in P
  <2>1. n \in Nat /\ n + 1 \in 1 .. N /\ n + 1 \in 0 .. N /\ (n + 1) - 1 = n
      BY <1>1, <1>5
  <2>2. Good(n)
    <3> HIDE DEF Good
    <3> QED
        BY <1>5
  <2> DEFINE s == g[n]
             t == parts[n + 1]
  <2>3. g[n + 1] = s \o t
      BY <1>3, <2>1
  <2>4. IsSeq(s) /\ IsSeq(t) /\ Distinct(s) /\ Distinct(t)
      BY <1>1, <2>1, <2>2
  <2>5. Disjoint(s, t)
    <3>1. ASSUME NEW x \in ToSet(s), x \in ToSet(t) PROVE FALSE
      <4>1. PICK k \in 1 .. n : x \in ToSet(parts[k])
          BY <2>2, <3>1
      <4>2. k \in 1 .. N /\ k # n + 1
          BY <2>1, <4>1
      <4>3. Disjoint(parts[k], parts[n + 1])
          BY <2>1, <4>2
      <4> QED
          BY <3>1, <4>1, <4>3 DEF Disjoint
    <3> QED
        BY <3>1 DEF Disjoint
  <2>6. /\ IsSeq(s \o t) /\ ToSet(s \o t) = ToSet(s) \union ToSet(t)
    <3> HIDE DEF s, t
    <3> QED
        BY <2>4, Joined
  <2>7. Distinct(s \o t)
    <3> HIDE DEF s, t
    <3> QED
        BY <2>4, <2>5, JoinedApart
  <2>8. ASSUME NEW x \in ToSet(g[n + 1]) PROVE \E k \in 1 .. (n + 1) : x \in ToSet(parts[k])
    <3>1. CASE x \in ToSet(s)
      <4>1. PICK k \in 1 .. n : x \in ToSet(parts[k])
          BY <2>2, <3>1
      <4> QED
          BY <2>1, <4>1
    <3>2. CASE x \in ToSet(t)
        BY <2>1, <3>2
    <3> QED
        BY <2>3, <2>6, <2>8, <3>1, <3>2
  <2>9. Good(n + 1)
      BY <2>3, <2>6, <2>7, <2>8
  <2> HIDE DEF Good
  <2> QED
      BY <2>1, <2>9
<1>6. P = 0 .. N
  <2>1. P \in SUBSET (0 .. N)
      OBVIOUS
  <2> HIDE DEF P
  <2> QED
      BY <1>1, <1>4, <1>5, <2>1, CountsUp
<1>7. Good(N)
  <2> HIDE DEF Good
  <2>1. N \in P
    <3> HIDE DEF P
    <3> QED
        BY <1>1, <1>6
  <2> QED
      BY <2>1
<1> QED
    BY <1>2, <1>7

LEMMA ChosenApart ==
  ASSUME NEW s, IsSeq(s), NEW I, \A i, j \in I \cap (1 .. Len(s)) : s[i] = s[j] => i = j
  PROVE  Distinct(Chosen(s, I))
<1> DEFINE parts == [i \in DOMAIN s |-> IF i \in I THEN <<s[i]>> ELSE <<>>]
<1>1. DOMAIN s = 1 .. Len(s) /\ Len(s) \in Nat
    BY IsSeqOfItsOwn
<1>2. parts = [i \in 1 .. Len(s) |-> parts[i]]
    BY <1>1
<1>3. \A k \in 1 .. Len(s) :
         /\ IsSeq(parts[k]) /\ ToSet(parts[k]) = IF k \in I THEN {s[k]} ELSE {}
         /\ Len(parts[k]) \in {0, 1}
    BY <1>1, One, Empty
<1> HIDE DEF parts
<1>4. IsSeq(parts) /\ Len(parts) = Len(s)
    BY <1>1, <1>2, ListIsSeq
<1>5. \A k \in 1 .. Len(s) : Distinct(parts[k])
  <2>1. \A n \in {0, 1} : \A i, j \in 1 .. n : i = j
      OBVIOUS
  <2> QED
      BY <1>3, <2>1 DEF Distinct
<1>6. ASSUME NEW k \in 1 .. Len(s), NEW l \in 1 .. Len(s), k # l
      PROVE  Disjoint(parts[k], parts[l])
  <2>1. CASE k \in I /\ l \in I
    <3>1. s[k] # s[l]
        BY <1>6, <2>1
    <3> QED
        BY <1>3, <2>1, <3>1 DEF Disjoint
  <2>2. CASE k \notin I \/ l \notin I
      BY <1>3, <2>2 DEF Disjoint
  <2> QED
      BY <2>1, <2>2
<1>7. Distinct(Concat(parts))
    BY <1>3, <1>4, <1>5, <1>6, ConcatApart DEF Parts
<1> QED
    BY <1>7 DEF Chosen, parts

-----------------------------------------------------------------------------
(* What a program samples.                                                  *)

Listed(images) ==
  /\ IsSeq(images)
  /\ \A i, j \in 1 .. Len(images) : images[i].uniform = images[j].uniform => i = j
  /\ \A i \in 1 .. Len(images) : images[i].file = None => images[i].resolved = None

LEMMA TilesAreSeqs ==
  ASSUME NEW image
  PROVE  IsSeq(ResolveUdimTiles(image))
BY TilesAssumption, SeqIsSeq, Empty DEF ResolveUdimTiles

LEMMA MappedIs ==
  ASSUME NEW s, IsSeq(s), NEW t, DOMAIN t = DOMAIN s, t = [i \in DOMAIN t |-> t[i]]
  PROVE  IsSeq(t) /\ Len(t) = Len(s) /\ DOMAIN t = 1 .. Len(s)
<1>1. DOMAIN s = 1 .. Len(s) /\ Len(s) \in Nat
    BY IsSeqOfItsOwn
<1>2. t = [i \in 1 .. Len(s) |-> t[i]]
    BY <1>1
<1> QED
    BY <1>1, <1>2, ListIsSeq

LEMMA ImageSlotsAre ==
  ASSUME NEW image
  PROVE  /\ IsSeq(ImageSlots(image))
         /\ ToSet(ImageSlots(image)) = {[uniform |-> image.uniform, tile |-> t] : t \in TilesRead(image)}
<1> DEFINE tiles == ResolveUdimTiles(image)
           slot(t) == [uniform |-> image.uniform, tile |-> t]
<1>1. IsSeq(tiles)
    BY TilesAreSeqs
<1>2. CASE FilenameSource(image) = None
    BY <1>2, Empty DEF ImageSlots, TilesRead
<1>3. CASE FilenameSource(image) # None /\ Len(tiles) < 2
  <2>1. ImageSlots(image) = <<slot(0)>> /\ TilesRead(image) = {0}
      BY <1>3 DEF ImageSlots, TilesRead
  <2>2. {slot(t) : t \in {0}} = {slot(0)}
      OBVIOUS
  <2> HIDE DEF slot
  <2>3. IsSeq(<<slot(0)>>) /\ ToSet(<<slot(0)>>) = {slot(0)}
      BY One
  <2>4. ToSet(ImageSlots(image)) = {slot(t) : t \in TilesRead(image)}
      BY <2>1, <2>2, <2>3
  <2> QED
      BY <2>1, <2>3, <2>4 DEF slot
<1>4. CASE FilenameSource(image) # None /\ ~(Len(tiles) < 2)
  <2> DEFINE t == [i \in DOMAIN tiles |-> slot(tiles[i])]
  <2>1. ImageSlots(image) = t
      BY <1>4 DEF ImageSlots, Mapped
  <2>2. TilesRead(image) = ToSet(tiles)
      BY <1>4 DEF TilesRead
  <2> HIDE DEF slot, tiles
  <2>3. IsSeq(t) /\ DOMAIN t = DOMAIN tiles
    <3>1. DOMAIN t = DOMAIN tiles /\ t = [i \in DOMAIN t |-> t[i]]
        OBVIOUS
    <3> HIDE DEF t
    <3> QED
        BY <1>1, <3>1, MappedIs
  <2>4. ToSet(t) = {slot(x) : x \in ToSet(tiles)}
      BY <2>3 DEF ToSet
  <2> HIDE DEF t
  <2> QED
      BY <2>1, <2>2, <2>3, <2>4 DEF slot
<1> QED
    BY <1>2, <1>3, <1>4

LEMMA OrderIs ==
  ASSUME NEW images, IsSeq(images)
  PROVE  /\ IsSeq(TextureOrder(images))
         /\ ToSet(TextureOrder(images)) =
              UNION {{[uniform |-> i.uniform, tile |-> t] : t \in TilesRead(i)} : i \in ToSet(images)}
<1> DEFINE parts == [k \in DOMAIN images |-> ImageSlots(images[k])]
           of(i) == {[uniform |-> i.uniform, tile |-> t] : t \in TilesRead(i)}
<1>1. DOMAIN images = 1 .. Len(images) /\ Len(images) \in Nat
    BY IsSeqOfItsOwn
<1>2. TextureOrder(images) = Concat(parts)
    BY DEF TextureOrder, Mapped
<1>3. \A k \in 1 .. Len(images) : IsSeq(parts[k]) /\ ToSet(parts[k]) = of(images[k])
    BY <1>1, ImageSlotsAre
<1>4. parts = [k \in 1 .. Len(images) |-> parts[k]]
    BY <1>1
<1> HIDE DEF parts, of
<1>5. IsSeq(parts) /\ Len(parts) = Len(images)
    BY <1>1, <1>4, ListIsSeq
<1>6. /\ IsSeq(Concat(parts))
      /\ ToSet(Concat(parts)) = UNION {ToSet(parts[k]) : k \in 1 .. Len(images)}
    BY <1>3, <1>5, ConcatIs DEF Parts
<1>7. UNION {ToSet(parts[k]) : k \in 1 .. Len(images)} = UNION {of(i) : i \in ToSet(images)}
  <2>1. ToSet(images) = {images[k] : k \in 1 .. Len(images)}
      BY <1>1 DEF ToSet
  <2>2. ASSUME NEW x, NEW k \in 1 .. Len(images), x \in ToSet(parts[k])
        PROVE  x \in UNION {of(i) : i \in ToSet(images)}
    <3>1. x \in of(images[k]) /\ images[k] \in ToSet(images)
        BY <1>3, <2>1, <2>2
    <3> QED
        BY <3>1
  <2>3. ASSUME NEW x, NEW i \in ToSet(images), x \in of(i)
        PROVE  x \in UNION {ToSet(parts[k]) : k \in 1 .. Len(images)}
    <3>1. PICK k \in 1 .. Len(images) : images[k] = i
        BY <2>1
    <3>2. x \in ToSet(parts[k])
        BY <1>3, <2>3, <3>1
    <3> QED
        BY <3>2
  <2> QED
      BY <2>2, <2>3
<1>8. ToSet(TextureOrder(images)) = UNION {of(i) : i \in ToSet(images)}
    BY <1>2, <1>6, <1>7
<1> QED
    BY <1>2, <1>6, <1>8 DEF of

\* A program has one uniform of a name.
LEMMA ImageOfIs ==
  ASSUME NEW images, Listed(images), NEW j \in 1 .. Len(images)
  PROVE  ImageOf(images, images[j].uniform) = images[j]
<1> DEFINE I == {i \in 1 .. Len(images) : images[i].uniform = images[j].uniform}
<1>1. I = {j} /\ I \in SUBSET Nat
    BY DEF Listed
<1>2. Min(I) = j
    BY <1>1, MinIs
<1>3. ImageOf(images, images[j].uniform) = images[IF I # {} THEN Min(I) ELSE 0]
    BY DEF ImageOf, SelectInSeq
<1> QED
    BY <1>1, <1>2, <1>3

\* Each index of an order is of one of the images, at a tile that is read of it.
LEMMA SampleIsOf ==
  ASSUME NEW images, Listed(images), NEW sample \in ToSet(TextureOrder(images))
  PROVE  \E j \in 1 .. Len(images) :
            /\ sample.uniform = images[j].uniform /\ sample.tile \in TilesRead(images[j])
            /\ ImageOf(images, sample.uniform) = images[j]
<1>1. PICK i \in ToSet(images) :
         sample \in {[uniform |-> i.uniform, tile |-> t] : t \in TilesRead(i)}
    BY OrderIs DEF Listed
<1>2. PICK j \in 1 .. Len(images) : images[j] = i
    BY IsSeqOfItsOwn DEF Listed
<1>3. sample.uniform = images[j].uniform /\ sample.tile \in TilesRead(images[j])
    BY <1>1, <1>2
<1> QED
    BY <1>3, ImageOfIs

\* The key a tile of an image is held by in the pool.
KeyOf(image, tile) ==
  [path  |-> <<ResolvedTexturePath(image), SubstituteUdimTile(image, tile)>>,
   space |-> ImageColorSpace(image)]

LEMMA PathsAre ==
  ASSUME NEW images, IsSeq(images)
  PROVE  /\ IsSeq(CollectTexturePaths(images))
         /\ Len(CollectTexturePaths(images)) = Len(TextureOrder(images))
         /\ \A k \in 1 .. Len(TextureOrder(images)) :
              CollectTexturePaths(images)[k] =
                KeyOf(ImageOf(images, TextureOrder(images)[k].uniform), TextureOrder(images)[k].tile)
<1> DEFINE order == TextureOrder(images)
           paths == [k \in DOMAIN order |-> KeyOf(ImageOf(images, order[k].uniform), order[k].tile)]
<1>1. IsSeq(order)
    BY OrderIs
<1>2. CollectTexturePaths(images) = paths
    BY DEF CollectTexturePaths, Mapped, KeyOf
<1>3. DOMAIN paths = DOMAIN order /\ paths = [k \in DOMAIN paths |-> paths[k]]
    OBVIOUS
<1>4. \A k \in DOMAIN order : paths[k] = KeyOf(ImageOf(images, order[k].uniform), order[k].tile)
    OBVIOUS
<1>5. DOMAIN order = 1 .. Len(order)
    BY <1>1, IsSeqOfItsOwn
<1> HIDE DEF paths, order
<1>6. IsSeq(paths) /\ Len(paths) = Len(order)
    BY <1>1, <1>3, MappedIs
<1>7. \A k \in 1 .. Len(order) :
         CollectTexturePaths(images)[k] = KeyOf(ImageOf(images, order[k].uniform), order[k].tile)
    BY <1>2, <1>4, <1>5
<1> QED
    BY <1>2, <1>6, <1>7 DEF order

\* What the pool holds under that key is what the program means by the tile.
LEMMA KeyOfIsTexels ==
  ASSUME NEW image, NEW tile \in TilesRead(image), NEW cap
  PROVE  DecodePoolImage(KeyOf(image, tile), cap) =
           LET tiles == ResolveUdimTiles(image)
               file  == IF Len(tiles) = 1 THEN tiles[1] ELSE tile
           IN  DecodePoolImage([path |-> <<ResolvedTexturePath(image), file>>,
                                space |-> ImageColorSpace(image)], cap)
<1> DEFINE tiles == ResolveUdimTiles(image)
           file == IF Len(tiles) = 1 THEN tiles[1] ELSE tile
<1>1. IsSeq(tiles)
    BY TilesAreSeqs
<1>2. Len(tiles) = 1 => tile = 0
  <2>1. SUFFICES ASSUME Len(tiles) = 1 PROVE tile = 0
      OBVIOUS
  <2>2. Len(tiles) < 2
      BY <2>1
  <2>3. TilesRead(image) \in {{}, {0}}
      BY <2>2 DEF TilesRead
  <2> QED
      BY <2>3
<1>3. Len(tiles) = 1 => Head(tiles) = tiles[1]
    BY <1>1, IsSeqOfItsOwn, HeadTailProperties
<1>4. SubstituteUdimTile(image, tile) = file
    BY <1>2, <1>3 DEF SubstituteUdimTile
<1> QED
    BY <1>4 DEF KeyOf

-----------------------------------------------------------------------------
(* Networks of one content have one program.                                *)

Named(image) == IF image.resolved # None THEN image.resolved ELSE image.file

Alike(a, b) ==
  /\ a.uniform = b.uniform /\ a.route = b.route
  /\ a.declared = b.declared /\ a.source = b.source /\ a.type = b.type
  /\ Named(a) = Named(b)
  /\ a.file = None => a.resolved = None
  /\ b.file = None => b.resolved = None

LEMMA AlikeReadAlike ==
  ASSUME NEW a, NEW b, Alike(a, b)
  PROVE  /\ FilenameSource(a) = None <=> FilenameSource(b) = None
         /\ ResolvedTexturePath(a) = ResolvedTexturePath(b)
         /\ ImageColorSpace(a) = ImageColorSpace(b)
         /\ ImageSlots(a) = ImageSlots(b)
         /\ TilesRead(a) = TilesRead(b)
         /\ \A tile : KeyOf(a, tile) = KeyOf(b, tile)
<1>1. a.file = None <=> b.file = None
    BY DEF Alike, Named
<1>2. FilenameSource(a) = None <=> FilenameSource(b) = None
    BY <1>1 DEF Alike, FilenameSource
<1>3. ResolvedTexturePath(a) = ResolvedTexturePath(b)
  <2>1. FilenameSource(a) # None => ResolvedTexturePath(a) = Named(a)
      BY DEF ResolvedTexturePath, Named
  <2>2. FilenameSource(b) # None => ResolvedTexturePath(b) = Named(b)
      BY DEF ResolvedTexturePath, Named
  <2>3. FilenameSource(a) = None => ResolvedTexturePath(a) = None /\ ResolvedTexturePath(b) = None
      BY <1>2 DEF ResolvedTexturePath
  <2> QED
      BY <1>2, <2>1, <2>2, <2>3 DEF Alike
<1>4. ImageColorSpace(a) = ImageColorSpace(b)
    BY DEF Alike, ImageColorSpace, Declared
<1>5. ResolveUdimTiles(a) = ResolveUdimTiles(b)
    BY <1>3 DEF ResolveUdimTiles
<1>6. ImageSlots(a) = ImageSlots(b)
  <2> DEFINE slots(u, tiles) == IF Len(tiles) < 2 THEN <<[uniform |-> u, tile |-> 0]>>
                                ELSE [i \in DOMAIN tiles |-> [uniform |-> u, tile |-> tiles[i]]]
  <2>1. FilenameSource(a) # None => ImageSlots(a) = slots(a.uniform, ResolveUdimTiles(a))
      BY DEF ImageSlots, Mapped
  <2>2. FilenameSource(b) # None => ImageSlots(b) = slots(b.uniform, ResolveUdimTiles(b))
      BY DEF ImageSlots, Mapped
  <2>3. FilenameSource(a) = None => ImageSlots(a) = <<>> /\ ImageSlots(b) = <<>>
      BY <1>2 DEF ImageSlots
  <2>4. a.uniform = b.uniform
      BY DEF Alike
  <2> HIDE DEF slots
  <2> QED
      BY <1>2, <1>5, <2>1, <2>2, <2>3, <2>4
<1>7. TilesRead(a) = TilesRead(b)
    BY <1>2, <1>5 DEF TilesRead
<1>8. \A tile : KeyOf(a, tile) = KeyOf(b, tile)
    BY <1>3, <1>4, <1>5 DEF KeyOf, SubstituteUdimTile
<1> QED
    BY <1>2, <1>3, <1>4, <1>6, <1>7, <1>8

AllAlike(xs, ys) ==
  /\ Listed(xs) /\ Listed(ys) /\ Len(xs) = Len(ys)
  /\ \A i \in 1 .. Len(xs) : Alike(xs[i], ys[i])

LEMMA AlikePrograms ==
  ASSUME NEW xs, NEW ys, AllAlike(xs, ys)
  PROVE  Program(xs) = Program(ys)
<1>1. /\ DOMAIN xs = 1 .. Len(xs) /\ DOMAIN ys = DOMAIN xs /\ IsSeq(xs) /\ IsSeq(ys)
    BY IsSeqOfItsOwn DEF AllAlike, Listed
<1>2. TextureOrder(xs) = TextureOrder(ys)
  <2>1. [k \in DOMAIN xs |-> ImageSlots(xs[k])] = [k \in DOMAIN ys |-> ImageSlots(ys[k])]
      BY <1>1, AlikeReadAlike DEF AllAlike
  <2> QED
      BY <2>1 DEF TextureOrder, Mapped
<1> DEFINE order == TextureOrder(xs)
           p == CollectTexturePaths(xs)
           q == CollectTexturePaths(ys)
<1>3. /\ IsSeq(p) /\ Len(p) = Len(order)
      /\ \A k \in 1 .. Len(order) : p[k] = KeyOf(ImageOf(xs, order[k].uniform), order[k].tile)
    BY <1>1, PathsAre
<1>4. /\ IsSeq(q) /\ Len(q) = Len(order)
      /\ \A k \in 1 .. Len(order) : q[k] = KeyOf(ImageOf(ys, order[k].uniform), order[k].tile)
    BY <1>1, <1>2, PathsAre
<1>5. ASSUME NEW k \in 1 .. Len(order) PROVE p[k] = q[k]
  <2>1. order[k] \in ToSet(order)
      BY <1>1, OrderIs, IsSeqOfItsOwn
  <2>2. PICK j \in 1 .. Len(xs) :
           order[k].uniform = xs[j].uniform /\ ImageOf(xs, order[k].uniform) = xs[j]
      BY <2>1, SampleIsOf DEF AllAlike
  <2>3. ys[j].uniform = xs[j].uniform /\ Alike(xs[j], ys[j])
      BY DEF AllAlike, Alike
  <2>4. ImageOf(ys, order[k].uniform) = ys[j]
      BY <2>2, <2>3, ImageOfIs DEF AllAlike
  <2>5. KeyOf(xs[j], order[k].tile) = KeyOf(ys[j], order[k].tile)
      BY <2>3, AlikeReadAlike
  <2> QED
      BY <1>3, <1>4, <2>2, <2>4, <2>5
<1> HIDE DEF p, q, order
<1>6. p = q
  <2>1. p = [i \in 1 .. Len(order) |-> p[i]] /\ q = [i \in 1 .. Len(order) |-> q[i]]
      BY <1>3, <1>4 DEF IsSeq
  <2> QED
      BY ONLY <1>5, <2>1
<1> QED
    BY <1>2, <1>6 DEF Program, p, q

Terminals == {"surface", "displacement", "cutout", "volume"}

LEMMA NetworkIs ==
  ASSUME NEW n \in Networks
  PROVE  /\ n # None /\ DOMAIN n = Terminals
         /\ \A t \in Terminals : Listed(n[t].images) /\ {"state", "images"} \subseteq DOMAIN n[t]
         /\ \A t \in Terminals : \A i \in 1 .. Len(n[t].images) : DOMAIN (n[t].images[i]) = ImageFields
<1>1. n # None /\ DOMAIN n = Terminals
    BY NetworksAssumption DEF Terminals
<1>2. ASSUME NEW t \in Terminals
      PROVE  /\ Listed(n[t].images) /\ {"state", "images"} \subseteq DOMAIN n[t]
             /\ \A i \in 1 .. Len(n[t].images) : DOMAIN (n[t].images[i]) = ImageFields
  <2>1. /\ {"state", "images"} \subseteq DOMAIN n[t]
        /\ n[t].images \in Seq(ToSet(n[t].images))
        /\ \A i, j \in DOMAIN n[t].images :
              n[t].images[i].uniform = n[t].images[j].uniform => i = j
        /\ \A image \in ToSet(n[t].images) :
              DOMAIN image = ImageFields /\ (image.file = None => image.resolved = None)
      BY <1>1, NetworksAssumption
  <2> DEFINE images == n[t].images
  <2>2. IsSeq(images)
      BY <2>1, SeqIsSeq
  <2> HIDE DEF images
  <2>3. DOMAIN images = 1 .. Len(images) /\ \A i \in 1 .. Len(images) : images[i] \in ToSet(images)
      BY <2>2, IsSeqOfItsOwn
  <2> QED
      BY <2>1, <2>2, <2>3 DEF images, Listed
<1> QED
    BY <1>1, <1>2

\* A key tells apart whatever a program could.
LEMMA SameContent ==
  ASSUME NEW n \in Networks, NEW o \in Networks, NetworkContentKey(n) = NetworkContentKey(o),
         NEW t \in Terminals
  PROVE  n[t].state = o[t].state /\ AllAlike(n[t].images, o[t].images)
<1> DEFINE keyed(image) == [image EXCEPT !.file = IF image.resolved # None THEN image.resolved ELSE image.file,
                                         !.resolved = None]
           list(m) == [i \in DOMAIN m[t].images |-> keyed(m[t].images[i])]
           terminal(m) == [m[t] EXCEPT !.images = list(m)]
<1>1. DOMAIN n = Terminals /\ DOMAIN o = Terminals
    BY NetworkIs
<1>2. terminal(n) = terminal(o)
  <2>1. NetworkContentKey(n)[t] = terminal(n) /\ NetworkContentKey(o)[t] = terminal(o)
      BY <1>1 DEF NetworkContentKey, Mapped
  <2> QED
      BY <2>1
<1>3. {"state", "images"} \subseteq DOMAIN n[t] /\ {"state", "images"} \subseteq DOMAIN o[t]
    BY NetworkIs
<1>4. n[t].state = o[t].state /\ list(n) = list(o)
  <2> HIDE DEF list
  <2>1. terminal(n).state = n[t].state /\ terminal(n).images = list(n)
      BY <1>3
  <2>2. terminal(o).state = o[t].state /\ terminal(o).images = list(o)
      BY <1>3
  <2> QED
      BY <1>2, <2>1, <2>2
<1> DEFINE xs == n[t].images
           ys == o[t].images
<1>5. Listed(xs) /\ Listed(ys)
    BY NetworkIs
<1>6. /\ IsSeq(xs) /\ IsSeq(ys)
      /\ \A i \in 1 .. Len(xs) : DOMAIN (xs[i]) = ImageFields /\ (xs[i].file = None => xs[i].resolved = None)
      /\ \A i \in 1 .. Len(ys) : DOMAIN (ys[i]) = ImageFields /\ (ys[i].file = None => ys[i].resolved = None)
    BY <1>5, NetworkIs DEF Listed
<1> HIDE DEF xs, ys
<1>7. /\ DOMAIN xs = 1 .. Len(xs) /\ DOMAIN ys = 1 .. Len(ys) /\ Len(xs) \in Nat /\ Len(ys) \in Nat
    BY <1>6, IsSeqOfItsOwn
<1>8. DOMAIN xs = DOMAIN ys /\ \A i \in DOMAIN xs : keyed(xs[i]) = keyed(ys[i])
  <2> HIDE DEF keyed
  <2>1. [i \in DOMAIN xs |-> keyed(xs[i])] = [i \in DOMAIN ys |-> keyed(ys[i])]
      BY <1>4 DEF xs, ys
  <2> QED
      BY ONLY <2>1
<1>9. Len(xs) = Len(ys)
  <2>1. PICK x \in Nat, y \in Nat : x = Len(xs) /\ y = Len(ys)
      BY <1>7
  <2>2. 1 .. x = 1 .. y
      BY <1>7, <1>8, <2>1
  <2>3. (x \in 1 .. x \/ x = 0) /\ (y \in 1 .. y \/ y = 0)
      OBVIOUS
  <2>4. x = y
      BY ONLY <2>2, <2>3, x \in Nat, y \in Nat
  <2> QED
      BY <2>1, <2>4
<1>10. ASSUME NEW i \in 1 .. Len(xs) PROVE Alike(xs[i], ys[i])
  <2> DEFINE a == xs[i]
             b == ys[i]
  <2>1. /\ DOMAIN a = ImageFields /\ (a.file = None => a.resolved = None)
        /\ DOMAIN b = ImageFields /\ (b.file = None => b.resolved = None)
        /\ keyed(a) = keyed(b)
      BY <1>6, <1>7, <1>8, <1>9
  <2> HIDE DEF a, b, keyed
  <2>2. /\ keyed(a).uniform = a.uniform /\ keyed(a).route = a.route /\ keyed(a).declared = a.declared
        /\ keyed(a).source = a.source /\ keyed(a).type = a.type /\ keyed(a).file = Named(a)
      BY <2>1 DEF keyed, Named, ImageFields
  <2>3. /\ keyed(b).uniform = b.uniform /\ keyed(b).route = b.route /\ keyed(b).declared = b.declared
        /\ keyed(b).source = b.source /\ keyed(b).type = b.type /\ keyed(b).file = Named(b)
      BY <2>1 DEF keyed, Named, ImageFields
  <2>4. Alike(a, b)
      BY <2>1, <2>2, <2>3 DEF Alike
  <2> QED
      BY <2>4 DEF a, b
<1>11. AllAlike(xs, ys)
    BY <1>5, <1>9, <1>10 DEF AllAlike, xs, ys
<1> QED
    BY <1>4, <1>11 DEF xs, ys

LEMMA SamePrograms ==
  ASSUME NEW n \in Networks, NEW o \in Networks, NetworkContentKey(n) = NetworkContentKey(o)
  PROVE  /\ CompileUncached(n).surface = CompileUncached(o).surface
         /\ CompileUncached(n).displace = CompileUncached(o).displace
<1>1. \A t \in Terminals : /\ n[t].state = o[t].state
                           /\ Program(n[t].images) = Program(o[t].images)
    BY SameContent, AlikePrograms
<1>2. \A t \in Terminals : Generates(n[t]) <=> Generates(o[t])
  <2>1. \A images : Program(images).samples = TextureOrder(images)
      BY DEF Program
  <2>2. \A t \in Terminals : TextureOrder(n[t].images) = TextureOrder(o[t].images)
      BY <1>1, <2>1
  <2> QED
      BY <1>1, <2>2 DEF Generates
<1>3. /\ n.surface.state = o.surface.state /\ n.volume.state = o.volume.state
      /\ Generates(n.surface) <=> Generates(o.surface)
      /\ Program(n.surface.images) = Program(o.surface.images)
    BY <1>1, <1>2 DEF Terminals
<1>4. CompileDisplacement(n) = CompileDisplacement(o)
  <2>1. Generates(n.displacement) <=> Generates(o.displacement)
      BY <1>2 DEF Terminals
  <2>2. Program(n.displacement.images) = Program(o.displacement.images)
      BY <1>1 DEF Terminals
  <2> QED
      BY <2>1, <2>2 DEF CompileDisplacement
<1> QED
    BY <1>3, <1>4 DEF CompileUncached, CompileDiffuse

-----------------------------------------------------------------------------
(* What is taken out for the library reads as it did.                       *)

LEMMA AlikeBaked ==
  ASSUME NEW xs, NEW ys, AllAlike(xs, ys), \A i \in 1 .. Len(ys) : DOMAIN (ys[i]) = ImageFields
  PROVE  /\ AllAlike(xs, Baked(ys))
         /\ \A i \in 1 .. Len(Baked(ys)) : DOMAIN (Baked(ys)[i]) = ImageFields
<1> DEFINE bake(image) == IF ResolvedTexturePath(image) = None THEN image
                          ELSE [image EXCEPT !.file = ResolvedTexturePath(image), !.resolved = None]
           zs == [i \in DOMAIN ys |-> bake(ys[i])]
<1>1. Baked(ys) = zs
    BY DEF Baked, Mapped
<1>2. IsSeq(ys) /\ DOMAIN ys = 1 .. Len(ys) /\ Listed(ys) /\ Len(xs) = Len(ys) /\ Listed(xs)
    BY IsSeqOfItsOwn DEF AllAlike, Listed
<1>3. DOMAIN zs = DOMAIN ys /\ zs = [i \in DOMAIN zs |-> zs[i]] /\ \A i \in DOMAIN ys : zs[i] = bake(ys[i])
    OBVIOUS
<1> HIDE DEF zs
<1>4. IsSeq(zs) /\ Len(zs) = Len(ys)
    BY <1>2, <1>3, MappedIs
<1>5. ASSUME NEW i \in 1 .. Len(ys)
      PROVE  /\ Alike(xs[i], zs[i]) /\ DOMAIN (zs[i]) = ImageFields /\ zs[i].uniform = ys[i].uniform
             /\ zs[i].file = None => zs[i].resolved = None
  <2> DEFINE y == ys[i]
             z == zs[i]
  <2>1. Alike(xs[i], y) /\ DOMAIN y = ImageFields /\ z = bake(y)
      BY <1>2, <1>3 DEF AllAlike
  <2> HIDE DEF y, z
  <2>2. CASE ResolvedTexturePath(y) = None
    <3>1. z = y
        BY <2>1, <2>2
    <3> QED
        BY <2>1, <3>1 DEF Alike, y, z
  <2>3. CASE ResolvedTexturePath(y) # None
    <3>1. z = [y EXCEPT !.file = ResolvedTexturePath(y), !.resolved = None]
        BY <2>1, <2>3
    <3>2. /\ DOMAIN z = ImageFields /\ z.uniform = y.uniform /\ z.route = y.route /\ z.declared = y.declared
          /\ z.source = y.source /\ z.type = y.type /\ z.file = ResolvedTexturePath(y) /\ z.resolved = None
        BY <2>1, <3>1 DEF ImageFields
    <3>3. ResolvedTexturePath(y) = Named(y)
        BY <2>3 DEF ResolvedTexturePath, Named
    <3>4. Named(z) = Named(y)
        BY <3>2, <3>3 DEF Named
    <3>5. Alike(xs[i], z)
        BY <2>1, <3>2, <3>4 DEF Alike
    <3> QED
        BY <3>2, <3>5 DEF y, z
  <2> QED
      BY <2>2, <2>3
<1>6. Listed(zs)
    BY <1>2, <1>4, <1>5 DEF Listed
<1>7. AllAlike(xs, zs)
    BY <1>2, <1>4, <1>5, <1>6 DEF AllAlike
<1> QED
    BY <1>1, <1>4, <1>5, <1>7

\* The tiles of an image are each named once, and so are the indices of a program.
LEMMA OrderApart ==
  ASSUME NEW images, Listed(images)
  PROVE  Distinct(TextureOrder(images))
<1> DEFINE parts == [k \in DOMAIN images |-> ImageSlots(images[k])]
<1>1. IsSeq(images) /\ DOMAIN images = 1 .. Len(images) /\ Len(images) \in Nat
    BY IsSeqOfItsOwn DEF Listed
<1>2. TextureOrder(images) = Concat(parts)
    BY DEF TextureOrder, Mapped
<1>3. \A k \in 1 .. Len(images) : parts[k] = ImageSlots(images[k])
    BY <1>1
<1>4. parts = [k \in 1 .. Len(images) |-> parts[k]]
    BY <1>1
<1> HIDE DEF parts
<1>5. IsSeq(parts) /\ Len(parts) = Len(images)
    BY <1>1, <1>4, ListIsSeq
<1>6. \A k \in 1 .. Len(images) :
         /\ IsSeq(parts[k])
         /\ \A x \in ToSet(parts[k]) : x.uniform = images[k].uniform
    BY <1>3, ImageSlotsAre
<1>7. ASSUME NEW image PROVE Distinct(ImageSlots(image))
  <2> DEFINE tiles == ResolveUdimTiles(image)
             slot(t) == [uniform |-> image.uniform, tile |-> t]
             slots == [i \in DOMAIN tiles |-> slot(tiles[i])]
  <2>1. CASE FilenameSource(image) = None
    <3>1. Len(ImageSlots(image)) = 0
        BY <2>1, Empty DEF ImageSlots
    <3> QED
        BY <3>1 DEF Distinct
  <2>2. CASE FilenameSource(image) # None /\ Len(tiles) < 2
    <3>1. ImageSlots(image) = <<slot(0)>>
        BY <2>2 DEF ImageSlots
    <3>2. Len(ImageSlots(image)) = 1
      <4> HIDE DEF slot
      <4> QED
          BY <3>1, One
    <3> QED
        BY <3>2 DEF Distinct
  <2>3. CASE FilenameSource(image) # None /\ ~(Len(tiles) < 2)
    <3>1. ImageSlots(image) = slots
        BY <2>3 DEF ImageSlots, Mapped
    <3>2. IsSeq(tiles) /\ DOMAIN tiles = 1 .. Len(tiles) /\ Distinct(tiles)
      <4>1. IsSeq(tiles) /\ DOMAIN tiles = 1 .. Len(tiles)
          BY TilesAreSeqs, IsSeqOfItsOwn
      <4>2. Distinct(tiles)
        <5>1. CASE ResolvedTexturePath(image) \in DOMAIN Tiles
            BY <4>1, <5>1, TilesAssumption DEF ResolveUdimTiles, Distinct
        <5>2. CASE ResolvedTexturePath(image) \notin DOMAIN Tiles
          <6>1. Len(tiles) = 0
              BY <5>2, Empty DEF ResolveUdimTiles
          <6> QED
              BY <2>3, <6>1
        <5> QED
            BY <5>1, <5>2
      <4> QED
          BY <4>1, <4>2
    <3> HIDE DEF tiles
    <3>3. DOMAIN slots = DOMAIN tiles /\ slots = [i \in DOMAIN slots |-> slots[i]]
          /\ \A i \in DOMAIN tiles : slots[i].tile = tiles[i]
        OBVIOUS
    <3> HIDE DEF slots
    <3>4. Len(slots) = Len(tiles)
        BY <3>2, <3>3, MappedIs
    <3>5. Distinct(slots)
        BY <3>2, <3>3, <3>4 DEF Distinct
    <3> QED
        BY <3>1, <3>5
  <2> QED
      BY <2>1, <2>2, <2>3
<1>8. \A k, l \in 1 .. Len(images) : k # l => Disjoint(parts[k], parts[l])
    BY <1>6 DEF Listed, Disjoint
<1> QED
    BY <1>2, <1>3, <1>5, <1>6, <1>7, <1>8, ConcatApart DEF Parts

\* An image under a prefix of its own.
Relabelled(image, index) == [image EXCEPT !.uniform = <<index, @>>]

LEMMA RelabelledReads ==
  ASSUME NEW image, DOMAIN image = ImageFields, NEW index
  PROVE  /\ Relabelled(image, index).uniform = <<index, image.uniform>>
         /\ Relabelled(image, index).file = image.file
         /\ Relabelled(image, index).resolved = image.resolved
         /\ TilesRead(Relabelled(image, index)) = TilesRead(image)
         /\ \A tile : KeyOf(Relabelled(image, index), tile) = KeyOf(image, tile)
<1> DEFINE x == Relabelled(image, index)
<1>1. /\ x.uniform = <<index, image.uniform>> /\ x.file = image.file /\ x.resolved = image.resolved
      /\ x.route = image.route /\ x.declared = image.declared /\ x.source = image.source
      /\ x.type = image.type
    BY DEF Relabelled, ImageFields
<1> HIDE DEF x
<1>2. FilenameSource(x) = FilenameSource(image)
    BY <1>1 DEF FilenameSource
<1>3. ResolvedTexturePath(x) = ResolvedTexturePath(image)
    BY <1>1, <1>2 DEF ResolvedTexturePath
<1>4. ResolveUdimTiles(x) = ResolveUdimTiles(image) /\ ImageColorSpace(x) = ImageColorSpace(image)
    BY <1>1, <1>3 DEF ResolveUdimTiles, ImageColorSpace, Declared
<1> QED
    BY <1>1, <1>2, <1>3, <1>4 DEF x, TilesRead, KeyOf, SubstituteUdimTile

-----------------------------------------------------------------------------
(* The pool, and the slots dealt out of it.                                 *)

PoolIs(p) ==
  /\ p = [sources |-> p.sources, images |-> p.images, maxEdge |-> p.maxEdge]
  /\ IsSeq(p.sources)
  /\ p.images = [i \in 1 .. Len(p.sources) |-> DecodePoolImage(p.sources[i], p.maxEdge)]

Grows(p, q) ==
  /\ Len(p.sources) <= Len(q.sources)
  /\ \A i \in 1 .. Len(p.sources) : q.sources[i] = p.sources[i]

Holds(p, slots, keys) ==
  /\ IsSeq(slots) /\ Len(slots) = Len(keys)
  /\ \A k \in 1 .. Len(keys) : slots[k] \in 1 .. Len(p.sources) /\ p.sources[slots[k]] = keys[k]

LEMMA Acquired ==
  ASSUME PoolIs(pool), NEW requests, IsSeq(requests)
  PROVE  /\ PoolIs(AcquireAll(requests)) /\ Grows(pool, AcquireAll(requests))
         /\ AcquireAll(requests).maxEdge = pool.maxEdge
         /\ ToSet(requests) \subseteq ToSet(AcquireAll(requests).sources)
         /\ requests = <<>> => AcquireAll(requests) = pool
<1> DEFINE new == Reserve(requests)
           q == AcquireAll(requests)
           I == {i \in Firsts(requests) : requests[i] \notin ToSet(pool.sources)}
           decoded(s) == [i \in 1 .. Len(s) |-> DecodePoolImage(s[i], pool.maxEdge)]
<1>1. IsSeq(new) /\ ToSet(new) = {requests[i] : i \in I \cap (1 .. Len(requests))}
  <2> HIDE DEF I
  <2>1. IsSeq(Chosen(requests, I)) /\ ToSet(Chosen(requests, I)) = {requests[i] : i \in I \cap (1 .. Len(requests))}
      BY ChosenIs
  <2> QED
      BY <2>1 DEF Reserve, I
<1>2. IsSeq(pool.sources) /\ pool.images = decoded(pool.sources)
    BY DEF PoolIs
<1>3. q.sources = pool.sources \o new /\ q.maxEdge = pool.maxEdge
      /\ q.images = pool.images \o [i \in DOMAIN new |-> DecodePoolImage(new[i], pool.maxEdge)]
      /\ q = [sources |-> q.sources, images |-> q.images, maxEdge |-> q.maxEdge]
    BY DEF AcquireAll, Mapped
<1> HIDE DEF new, q, I
<1>4. DOMAIN new = 1 .. Len(new) /\ Len(new) \in Nat /\ Len(pool.sources) \in Nat
    BY <1>1, <1>2, IsSeqOfItsOwn
<1>5. /\ IsSeq(q.sources) /\ Len(q.sources) = Len(pool.sources) + Len(new)
      /\ \A i \in 1 .. Len(pool.sources) : q.sources[i] = pool.sources[i]
      /\ \A i \in 1 .. Len(new) : q.sources[Len(pool.sources) + i] = new[i]
      /\ ToSet(q.sources) = ToSet(pool.sources) \union ToSet(new)
    BY <1>1, <1>2, <1>3, Joined
<1>6. q.images = decoded(q.sources)
  <2>1. \A s : IsSeq(s) => IsSeq(decoded(s)) /\ Len(decoded(s)) = Len(s)
                           /\ \A i \in 1 .. Len(s) : decoded(s)[i] = DecodePoolImage(s[i], pool.maxEdge)
    <3>1. SUFFICES ASSUME NEW s, IsSeq(s)
                   PROVE  /\ IsSeq(decoded(s)) /\ Len(decoded(s)) = Len(s)
                          /\ \A i \in 1 .. Len(s) : decoded(s)[i] = DecodePoolImage(s[i], pool.maxEdge)
        OBVIOUS
    <3>2. Len(s) \in Nat
        BY <3>1, IsSeqOfItsOwn
    <3>3. decoded(s) = [i \in 1 .. Len(s) |-> decoded(s)[i]]
        OBVIOUS
    <3>4. \A i \in 1 .. Len(s) : decoded(s)[i] = DecodePoolImage(s[i], pool.maxEdge)
        OBVIOUS
    <3> HIDE DEF decoded
    <3> QED
        BY <3>2, <3>3, <3>4, ListIsSeq
  <2>2. q.images = decoded(pool.sources) \o decoded(new)
      BY <1>2, <1>3, <1>4
  <2> HIDE DEF decoded
  <2> DEFINE a == decoded(pool.sources)
             b == decoded(new)
             c == decoded(q.sources)
  <2>3. IsSeq(a) /\ IsSeq(b) /\ IsSeq(c)
      BY <1>1, <1>2, <1>5, <2>1
  <2>4. /\ Len(a) = Len(pool.sources) /\ Len(b) = Len(new) /\ Len(c) = Len(q.sources)
        /\ \A i \in 1 .. Len(a) : a[i] = DecodePoolImage(pool.sources[i], pool.maxEdge)
        /\ \A i \in 1 .. Len(b) : b[i] = DecodePoolImage(new[i], pool.maxEdge)
        /\ \A i \in 1 .. Len(c) : c[i] = DecodePoolImage(q.sources[i], pool.maxEdge)
      BY <1>1, <1>2, <1>5, <2>1
  <2> HIDE DEF a, b, c
  <2>5. /\ IsSeq(a \o b) /\ Len(a \o b) = Len(a) + Len(b)
        /\ \A i \in 1 .. Len(a) : (a \o b)[i] = a[i]
        /\ \A i \in 1 .. Len(b) : (a \o b)[Len(a) + i] = b[i]
      BY <2>3, Joined
  <2>6. ASSUME NEW i \in 1 .. Len(c) PROVE (a \o b)[i] = c[i]
    <3>1. CASE i \in 1 .. Len(a)
      <4>1. q.sources[i] = pool.sources[i]
          BY <1>5, <2>4, <3>1
      <4> QED
          BY <2>4, <2>5, <2>6, <3>1, <4>1
    <3>2. CASE i \notin 1 .. Len(a)
      <4>1. PICK j \in 1 .. Len(b) : i = Len(a) + j
        <5>1. i - Len(a) \in 1 .. Len(b) /\ i = Len(a) + (i - Len(a))
            BY <1>4, <1>5, <2>4, <2>6, <3>2
        <5> QED
            BY <5>1
      <4>2. q.sources[i] = new[j]
          BY <1>5, <2>4, <4>1
      <4>3. (a \o b)[i] = b[j]
          BY <2>5, <4>1
      <4> QED
          BY <2>4, <2>6, <4>1, <4>2, <4>3
    <3> QED
        BY <3>1, <3>2
  <2>7. Len(c) = Len(a \o b)
      BY <1>5, <2>4, <2>5
  <2>8. a \o b = c
    <3>1. a \o b = [i \in 1 .. Len(c) |-> (a \o b)[i]] /\ c = [i \in 1 .. Len(c) |-> c[i]]
        BY <2>3, <2>5, <2>7 DEF IsSeq
    <3> QED
        BY ONLY <2>6, <3>1
  <2> QED
      BY <2>2, <2>8 DEF a, b, c
<1>7. PoolIs(q)
    BY <1>3, <1>5, <1>6 DEF PoolIs
<1>8. Grows(pool, q)
    BY <1>4, <1>5 DEF Grows
<1>9. ASSUME NEW x \in ToSet(requests) PROVE x \in ToSet(q.sources)
  <2>1. PICK i \in Firsts(requests) : i \in 1 .. Len(requests) /\ requests[i] = x
      BY FirstsCover
  <2>2. CASE x \in ToSet(pool.sources)
      BY <1>5, <2>2
  <2>3. CASE x \notin ToSet(pool.sources)
    <3>1. i \in I \cap (1 .. Len(requests))
        BY <2>1, <2>3 DEF I
    <3>2. x \in ToSet(new)
        BY <1>1, <2>1, <3>1
    <3> QED
        BY <1>5, <3>2
  <2> QED
      BY <2>2, <2>3
<1>10. ASSUME requests = <<>> PROVE q = pool
  <2>1. ToSet(new) = {}
      BY <1>1, <1>10
  <2>2. Len(new) = 0
    <3>1. ~(1 \in 1 .. Len(new))
        BY <1>1, <2>1, IsSeqOfItsOwn
    <3> QED
        BY <1>4, <3>1
  <2>3. Len(q.sources) = Len(pool.sources)
      BY <1>4, <1>5, <2>2
  <2>4. q.sources = pool.sources
    <3>1. q.sources = [i \in 1 .. Len(pool.sources) |-> q.sources[i]]
          /\ pool.sources = [i \in 1 .. Len(pool.sources) |-> pool.sources[i]]
        BY <1>2, <1>5, <2>3 DEF IsSeq
    <3>2. \A i \in 1 .. Len(pool.sources) : q.sources[i] = pool.sources[i]
        BY <1>5
    <3> QED
        BY ONLY <3>1, <3>2
  <2>5. q.images = pool.images
      BY <1>2, <1>6, <2>4
  <2> QED
      BY <1>3, <2>4, <2>5 DEF PoolIs
<1> QED
    BY <1>3, <1>7, <1>8, <1>9, <1>10 DEF q

LEMMA EdgeIsSet ==
  ASSUME PoolIs(pool), NEW cap
  PROVE  /\ PoolIs(SetMaxEdge(cap)) /\ SetMaxEdge(cap).sources = pool.sources
         /\ SetMaxEdge(cap).maxEdge = cap
<1>1. DOMAIN (pool.sources) = 1 .. Len(pool.sources)
    BY IsSeqOfItsOwn DEF PoolIs
<1> QED
    BY <1>1 DEF PoolIs, SetMaxEdge, Mapped

LEMMA SlotIs ==
  ASSUME NEW p, IsSeq(p.sources), NEW key \in ToSet(p.sources)
  PROVE  Slot(p, key) \in 1 .. Len(p.sources) /\ p.sources[Slot(p, key)] = key
<1> DEFINE I == {i \in 1 .. Len(p.sources) : p.sources[i] = key}
<1>1. Slot(p, key) = IF I # {} THEN Min(I) ELSE 0
    BY DEF Slot, SelectInSeq
<1>2. I # {} /\ I \in SUBSET Nat
    BY IsSeqOfItsOwn
<1>3. Min(I) \in I
  <2> HIDE DEF I
  <2> QED
      BY <1>2, MinIs
<1> QED
    BY <1>1, <1>2, <1>3

LEMMA SlotsHold ==
  ASSUME NEW p, IsSeq(p.sources), NEW requests, IsSeq(requests), ToSet(requests) \subseteq ToSet(p.sources)
  PROVE  Holds(p, Slots(p, requests), requests)
<1> DEFINE slots == [k \in DOMAIN requests |-> Slot(p, requests[k])]
<1>1. DOMAIN requests = 1 .. Len(requests) /\ \A k \in 1 .. Len(requests) : requests[k] \in ToSet(p.sources)
    BY IsSeqOfItsOwn
<1>2. Slots(p, requests) = slots
    BY DEF Slots, Mapped
<1>3. DOMAIN slots = DOMAIN requests /\ slots = [k \in DOMAIN slots |-> slots[k]]
    OBVIOUS
<1>4. \A k \in DOMAIN requests : slots[k] = Slot(p, requests[k])
    OBVIOUS
<1> HIDE DEF slots
<1>5. IsSeq(slots) /\ Len(slots) = Len(requests)
    BY <1>3, MappedIs
<1>6. \A k \in 1 .. Len(requests) :
         slots[k] \in 1 .. Len(p.sources) /\ p.sources[slots[k]] = requests[k]
    BY <1>1, <1>4, SlotIs
<1> QED
    BY <1>2, <1>5, <1>6 DEF Holds

LEMMA StillHolds ==
  ASSUME NEW p, NEW q, NEW slots, NEW keys, Holds(p, slots, keys), Grows(p, q),
         Len(p.sources) \in Nat, Len(q.sources) \in Nat
  PROVE  Holds(q, slots, keys)
<1>1. ASSUME NEW k \in 1 .. Len(keys)
      PROVE  slots[k] \in 1 .. Len(q.sources) /\ q.sources[slots[k]] = keys[k]
  <2>1. slots[k] \in 1 .. Len(p.sources) /\ p.sources[slots[k]] = keys[k]
      BY DEF Holds
  <2> QED
      BY <2>1 DEF Grows
<1> QED
    BY <1>1 DEF Holds

\* A run of the slots is dealt to a run of the keys.
LEMMA RunHolds ==
  ASSUME NEW p, NEW slots, NEW keys, Holds(p, slots, keys), NEW a \in Nat, NEW run, IsSeq(run),
         Len(keys) \in Nat, a + Len(run) <= Len(keys),
         \A i \in 1 .. Len(run) : keys[a + i] = run[i]
  PROVE  Holds(p, SubSeq(slots, a + 1, a + Len(run)), run)
<1> DEFINE n == Len(run)
           part == SubSeq(slots, a + 1, a + n)
           S == ToSet(slots)
<1>1. n \in Nat /\ a + 1 \in Int /\ a + n \in Int /\ IsSeq(slots) /\ Len(slots) = Len(keys)
    BY DEF IsSeq, Holds
<1>2. \A i \in (a + 1) .. (a + n) : slots[i] \in S
  <2>1. \A i \in (a + 1) .. (a + n) : i \in 1 .. Len(slots)
      BY <1>1
  <2> QED
      BY <1>1, <2>1, IsSeqOfItsOwn
<1> HIDE DEF S
<1>3. /\ part \in Seq(S)
      /\ Len(part) = IF a + 1 <= a + n THEN (a + n) - (a + 1) + 1 ELSE 0
      /\ \A i \in 1 .. (a + n) - (a + 1) + 1 : part[i] = slots[(a + 1) + i - 1]
    BY <1>1, <1>2, SubSeqProperties
<1>4. Len(part) = n /\ \A i \in 1 .. n : part[i] = slots[a + i]
  <2>1. (a + n) - (a + 1) + 1 = n /\ \A i \in 1 .. n : (a + 1) + i - 1 = a + i
      BY <1>1
  <2>2. Len(part) = n
      BY <1>1, <1>3
  <2> HIDE DEF part
  <2> QED
      BY <1>3, <2>1, <2>2
<1>5. IsSeq(part)
    BY <1>3, SeqIsSeq
<1>6. ASSUME NEW i \in 1 .. n PROVE part[i] \in 1 .. Len(p.sources) /\ p.sources[part[i]] = run[i]
  <2>1. a + i \in 1 .. Len(keys) /\ keys[a + i] = run[i]
      BY <1>1
  <2> QED
      BY <1>4, <2>1 DEF Holds
<1> HIDE DEF part
<1> QED
    BY <1>4, <1>5, <1>6 DEF Holds, part

Asked(c) == c.result.surface.textures \o c.result.displace.textures

\* What a batch asks for, as it stands in the concatenation of its requests.
LEMMA RequestsAre ==
  ASSUME NEW batch, IsSeq(batch),
         \A k \in 1 .. Len(batch) : /\ IsSeq(batch[k].result.surface.textures)
                                    /\ IsSeq(batch[k].result.displace.textures)
  PROVE  /\ IsSeq(Requests(batch))
         /\ batch = <<>> => Requests(batch) = <<>>
         /\ \A k \in 1 .. Len(batch) :
              LET before == Len(Concat(Mapped(LAMBDA c : c.result.surface.textures \o c.result.displace.textures,
                                              SubSeq(batch, 1, k - 1))))
              IN  /\ before \in Nat
                  /\ before + Len(Asked(batch[k])) <= Len(Requests(batch))
                  /\ \A i \in 1 .. Len(Asked(batch[k])) : Requests(batch)[before + i] = Asked(batch[k])[i]
<1> DEFINE parts == [i \in DOMAIN batch |-> Asked(batch[i])]
           before(k) == Len(Concat(Mapped(LAMBDA c : c.result.surface.textures \o c.result.displace.textures,
                                          SubSeq(batch, 1, k - 1))))
<1>1. DOMAIN batch = 1 .. Len(batch) /\ Len(batch) \in Nat
    BY IsSeqOfItsOwn
<1>2. Requests(batch) = Concat(parts)
    BY DEF Requests, Mapped, Asked
<1>3. \A k \in 1 .. Len(batch) : parts[k] = Asked(batch[k]) /\ IsSeq(parts[k])
    BY <1>1, Joined DEF Asked
<1>4. IsSeq(parts) /\ Len(parts) = Len(batch)
  <2>1. DOMAIN parts = DOMAIN batch /\ parts = [i \in DOMAIN parts |-> parts[i]]
      OBVIOUS
  <2> HIDE DEF parts
  <2> QED
      BY <2>1, MappedIs
<1> HIDE DEF parts
<1>5. /\ IsSeq(Concat(parts))
      /\ ToSet(Concat(parts)) = UNION {ToSet(parts[k]) : k \in 1 .. Len(parts)}
      /\ \A k \in 1 .. Len(parts) :
           /\ Len(Before(parts, k)) \in Nat
           /\ Len(Before(parts, k)) + Len(parts[k]) <= Len(Concat(parts))
           /\ \A i \in 1 .. Len(parts[k]) : Concat(parts)[Len(Before(parts, k)) + i] = parts[k][i]
    BY <1>3, <1>4, ConcatIs DEF Parts
<1>6. ASSUME NEW k \in 1 .. Len(batch) PROVE before(k) = Len(Before(parts, k))
  <2> DEFINE some == SubSeq(batch, 1, k - 1)
             front == SubSeq(parts, 1, k - 1)
             asked == [i \in DOMAIN some |-> Asked(some[i])]
  <2>1. k - 1 \in Nat /\ k - 1 <= Len(batch) /\ 1 \in Int /\ k - 1 \in Int
        /\ \A i \in 1 .. k - 1 : i \in 1 .. Len(batch)
      BY <1>1
  <2>2. IsSeq(some) /\ Len(some) = k - 1 /\ \A i \in 1 .. k - 1 : some[i] = batch[i]
    <3>1. \A i \in 1 .. k - 1 : batch[i] \in ToSet(batch)
        BY <2>1, IsSeqOfItsOwn
    <3>2. some \in Seq(ToSet(batch)) /\ Len(some) = (IF 1 <= k - 1 THEN k - 1 - 1 + 1 ELSE 0)
          /\ \A i \in 1 .. k - 1 - 1 + 1 : some[i] = batch[1 + i - 1]
        BY <2>1, <3>1, SubSeqProperties
    <3> HIDE DEF some
    <3> QED
        BY <2>1, <3>2, SeqIsSeq
  <2>3. IsSeq(front) /\ Len(front) = k - 1 /\ \A i \in 1 .. k - 1 : front[i] = parts[i]
    <3>1. \A i \in 1 .. k - 1 : parts[i] \in ToSet(parts)
        BY <1>4, <2>1, IsSeqOfItsOwn
    <3>2. front \in Seq(ToSet(parts)) /\ Len(front) = (IF 1 <= k - 1 THEN k - 1 - 1 + 1 ELSE 0)
          /\ \A i \in 1 .. k - 1 - 1 + 1 : front[i] = parts[1 + i - 1]
        BY <2>1, <3>1, SubSeqProperties
    <3> HIDE DEF front
    <3> QED
        BY <2>1, <3>2, SeqIsSeq
  <2>4. before(k) = Len(Concat(asked)) /\ Before(parts, k) = Concat(front)
      BY DEF Mapped, Asked, Before
  <2>5. \A i \in 1 .. k - 1 : parts[i] = Asked(batch[i])
      BY <1>3, <2>1
  <2> HIDE DEF some, front, before
  <2>6. asked = [i \in 1 .. k - 1 |-> Asked(batch[i])]
      BY <2>2, IsSeqOfItsOwn
  <2>7. front = [i \in 1 .. k - 1 |-> front[i]]
      BY <2>3 DEF IsSeq
  <2>8. \A i \in 1 .. k - 1 : front[i] = Asked(batch[i])
      BY <2>3, <2>5
  <2>9. asked = front
      BY ONLY <2>6, <2>7, <2>8
  <2> HIDE DEF asked
  <2> QED
      BY <2>4, <2>9
<1>7. ASSUME batch = <<>> PROVE Requests(batch) = <<>>
  <2>1. Len(parts) = 0
      BY <1>4, <1>7, Empty
  <2>2. PICK g : Follows(parts, Len(parts), g) /\ Concat(parts) = g[Len(parts)]
      BY <1>1, <1>4, ConcatUnfolds
  <2>3. g[0] = <<>>
      BY <1>1, <1>4, <2>2, FollowsEach
  <2> QED
      BY <1>2, <2>1, <2>2, <2>3
<1>8. ASSUME NEW k \in 1 .. Len(batch)
      PROVE  /\ before(k) \in Nat
             /\ before(k) + Len(Asked(batch[k])) <= Len(Requests(batch))
             /\ \A i \in 1 .. Len(Asked(batch[k])) : Requests(batch)[before(k) + i] = Asked(batch[k])[i]
  <2> HIDE DEF before
  <2>1. parts[k] = Asked(batch[k]) /\ before(k) = Len(Before(parts, k)) /\ k \in 1 .. Len(parts)
      BY <1>3, <1>4, <1>6
  <2> QED
      BY <1>2, <1>5, <2>1
<1>9. IsSeq(Requests(batch))
    BY <1>2, <1>5
<1> HIDE DEF before
<1>10. \A k \in 1 .. Len(batch) :
         /\ before(k) \in Nat
         /\ before(k) + Len(Asked(batch[k])) <= Len(Requests(batch))
         /\ \A i \in 1 .. Len(Asked(batch[k])) : Requests(batch)[before(k) + i] = Asked(batch[k])[i]
    BY <1>8
<1> QED
    BY <1>7, <1>9, <1>10 DEF before

\* Each material of a batch is dealt the slots of what it asked for.
LEMMA DealtHolds ==
  ASSUME NEW batch, IsSeq(batch),
         \A k \in 1 .. Len(batch) : /\ IsSeq(batch[k].result.surface.textures)
                                    /\ IsSeq(batch[k].result.displace.textures),
         NEW p, NEW slots, Holds(p, slots, Requests(batch)), NEW k \in 1 .. Len(batch)
  PROVE  LET d == Dealt(batch, k, slots)
         IN  /\ ~d.pending /\ d.key = batch[k].key /\ d.compiled = batch[k].result
             /\ Holds(p, d.slots, batch[k].result.surface.textures)
             /\ Holds(p, d.displaceSlots, batch[k].result.displace.textures)
<1> DEFINE s == batch[k].result.surface.textures
           t == batch[k].result.displace.textures
           keys == Requests(batch)
           before == Len(Concat(Mapped(LAMBDA c : c.result.surface.textures \o c.result.displace.textures,
                                       SubSeq(batch, 1, k - 1))))
<1>1. IsSeq(s) /\ IsSeq(t)
    OBVIOUS
<1>2. /\ before \in Nat /\ IsSeq(keys)
      /\ before + Len(s \o t) <= Len(keys)
      /\ \A i \in 1 .. Len(s \o t) : keys[before + i] = (s \o t)[i]
  <2>1. s \o t = Asked(batch[k])
      BY DEF Asked
  <2> HIDE DEF s, t
  <2>2. /\ before \in Nat
        /\ before + Len(Asked(batch[k])) <= Len(Requests(batch))
        /\ \A i \in 1 .. Len(Asked(batch[k])) : Requests(batch)[before + i] = Asked(batch[k])[i]
    <3>1. \A j \in 1 .. Len(batch) :
            LET b == Len(Concat(Mapped(LAMBDA c : c.result.surface.textures \o c.result.displace.textures,
                                       SubSeq(batch, 1, j - 1))))
            IN  /\ b \in Nat
                /\ b + Len(Asked(batch[j])) <= Len(Requests(batch))
                /\ \A i \in 1 .. Len(Asked(batch[j])) : Requests(batch)[b + i] = Asked(batch[j])[i]
        BY RequestsAre
    <3> QED
        BY <3>1, Zenon
  <2>3. IsSeq(Requests(batch))
      BY RequestsAre
  <2> HIDE DEF before
  <2> QED
      BY <2>1, <2>2, <2>3
<1>3. LET d == Dealt(batch, k, slots)
      IN  /\ ~d.pending /\ d.key = batch[k].key /\ d.compiled = batch[k].result
          /\ d.slots = SubSeq(slots, before + 1, before + Len(s))
          /\ d.displaceSlots = SubSeq(slots, (before + Len(s)) + 1, (before + Len(s)) + Len(t))
    BY DEF Dealt
<1> HIDE DEF s, t, keys, before
<1>4. /\ Len(s) \in Nat /\ Len(t) \in Nat /\ Len(keys) \in Nat
      /\ Len(s \o t) = Len(s) + Len(t)
      /\ \A i \in 1 .. Len(s) : (s \o t)[i] = s[i]
      /\ \A i \in 1 .. Len(t) : (s \o t)[Len(s) + i] = t[i]
    BY <1>1, <1>2, Joined DEF IsSeq
<1>5. PICK a \in Nat, m \in Nat, n \in Nat, l \in Nat :
         a = before /\ m = Len(s) /\ n = Len(t) /\ l = Len(keys)
    BY <1>2, <1>4
<1>6. a + (m + n) <= l /\ a + m <= l /\ (a + m) + n <= l /\ a + m \in Nat
  <2>1. a + (m + n) <= l
      BY <1>2, <1>4, <1>5
  <2> QED
      BY ONLY <2>1, a \in Nat, m \in Nat, n \in Nat, l \in Nat
<1>7. Holds(p, slots, keys)
    BY DEF keys
<1>8. Holds(p, SubSeq(slots, before + 1, before + Len(s)), s)
  <2>1. \A i \in 1 .. Len(s) : i \in 1 .. Len(s \o t)
      BY <1>4
  <2>2. \A i \in 1 .. Len(s) : keys[before + i] = s[i]
      BY <1>2, <1>4, <2>1
  <2>3. before + Len(s) <= Len(keys)
      BY <1>5, <1>6
  <2> QED
      BY <1>1, <1>2, <1>4, <1>7, <2>2, <2>3, RunHolds
<1>9. Holds(p, SubSeq(slots, (before + Len(s)) + 1, (before + Len(s)) + Len(t)), t)
  <2>1. ASSUME NEW i \in 1 .. Len(t) PROVE keys[(before + Len(s)) + i] = t[i]
    <3>1. Len(s) + i \in 1 .. Len(s \o t) /\ before + (Len(s) + i) = (before + Len(s)) + i
      <4>1. i \in 1 .. n
          BY <1>5
      <4>2. m + i \in 1 .. (m + n) /\ a + (m + i) = (a + m) + i
          BY ONLY <4>1, a \in Nat, m \in Nat, n \in Nat
      <4> QED
          BY <1>4, <1>5, <4>2
    <3> QED
        BY <1>2, <1>4, <3>1
  <2>2. (before + Len(s)) + Len(t) <= Len(keys) /\ before + Len(s) \in Nat
      BY <1>5, <1>6
  <2> QED
      BY <1>1, <1>4, <1>7, <2>1, <2>2, RunHolds
<1> QED
    BY <1>3, <1>8, <1>9 DEF s, t

\* A program whose textures the slots hold reads what its images mean.
LEMMA ProgramReads ==
  ASSUME NEW images, Listed(images), NEW slots, Holds(pool, slots, CollectTexturePaths(images)),
         PoolIs(pool), pool.maxEdge = HdClaudeTextureEdgeCap(quality), published.textures = pool.images
  PROVE  ReadsOwn(TextureOrder(images), slots, images)
<1> DEFINE order == TextureOrder(images)
           keys == CollectTexturePaths(images)
<1>1. /\ IsSeq(order)
      /\ ToSet(order) = UNION {{[uniform |-> i.uniform, tile |-> t] : t \in TilesRead(i)} : i \in ToSet(images)}
    BY OrderIs DEF Listed
<1>2. DOMAIN order = 1 .. Len(order)
    BY <1>1, IsSeqOfItsOwn
<1>3. /\ IsSeq(keys) /\ Len(keys) = Len(order)
      /\ \A k \in 1 .. Len(order) : keys[k] = KeyOf(ImageOf(images, order[k].uniform), order[k].tile)
    BY PathsAre DEF Listed
<1>4. ASSUME NEW k \in 1 .. Len(order)
      PROVE  published.textures[slots[k]] = Texels(ImageOf(images, order[k].uniform), order[k].tile)
  <2>1. order[k] \in ToSet(order)
      BY <1>1, IsSeqOfItsOwn
  <2>2. PICK j \in 1 .. Len(images) :
           order[k].tile \in TilesRead(images[j]) /\ ImageOf(images, order[k].uniform) = images[j]
      BY <2>1, SampleIsOf
  <2>3. slots[k] \in 1 .. Len(pool.sources) /\ pool.sources[slots[k]] = keys[k]
      BY <1>3 DEF Holds
  <2>4. published.textures[slots[k]] = DecodePoolImage(keys[k], pool.maxEdge)
      BY <2>3 DEF PoolIs
  <2>5. keys[k] = KeyOf(images[j], order[k].tile)
      BY <1>3, <2>2
  <2>6. DecodePoolImage(KeyOf(images[j], order[k].tile), HdClaudeTextureEdgeCap(quality))
          = Texels(images[j], order[k].tile)
      BY <2>2, KeyOfIsTexels DEF Texels
  <2> QED
      BY <2>2, <2>4, <2>5, <2>6
<1>5. Len(slots) = Len(order)
    BY <1>3 DEF Holds
<1> QED
    BY <1>1, <1>2, <1>4, <1>5 DEF ReadsOwn

LEMMA NothingReads ==
  ASSUME NEW slots, Holds(pool, slots, <<>>)
  PROVE  ReadsOwn(<<>>, slots, <<>>)
<1>1. Len(slots) = 0
    BY Empty DEF Holds
<1>2. ToSet(<<>>) = {} /\ DOMAIN <<>> = {}
    BY Empty
<1> QED
    BY <1>1, <1>2, Empty DEF ReadsOwn

-----------------------------------------------------------------------------
(* The invariant.                                                           *)

\* A program compiled, or found by its key, is that of a network of the key.
Made(key, result) == \E n \in Networks : key = NetworkContentKey(n) /\ result = CompileUncached(n)

Settled(p, e, n) ==
  /\ e.key = NetworkContentKey(n) /\ Made(e.key, e.compiled)
  /\ Holds(p, e.slots, e.compiled.surface.textures)
  /\ Holds(p, e.displaceSlots, e.compiled.displace.textures)

TypeInv ==
  /\ network = [m \in ToSet(Ids) |-> network[m]]
  /\ \A m \in ToSet(Ids) : network[m] = None \/ network[m] \in Networks
  /\ dirty \subseteq ToSet(Ids) \union {"dome"}
  /\ at \in {"idle", "compile", "publish", "traced"}
  /\ entry = [m \in DOMAIN entry |-> entry[m]] /\ DOMAIN entry \subseteq ToSet(Ids)
  /\ IsSeq(compiled)
  /\ PoolIs(pool)

CacheInv == \A key \in DOMAIN cache : Made(key, cache[key])

\* What Hydra has nothing to sync of, the store has as the stage has it.
EntryInv ==
  \A m \in ToSet(Ids) :
    /\ m \in dirty => network[m] # None
    /\ m \notin dirty =>
         /\ m \in DOMAIN entry <=> network[m] # None
         /\ m \in DOMAIN entry =>
              IF entry[m].pending THEN entry[m].network = network[m]
              ELSE Settled(pool, entry[m], network[m])

\* The batch is the first of what is pending.
BatchInv ==
  /\ at # "compile" => compiled = <<>>
  /\ at = "compile" =>
       /\ Len(compiled) <= Len(BoundPendingMaterials)
       /\ \A k \in 1 .. Len(compiled) :
            /\ compiled[k].id = BoundPendingMaterials[k]
            /\ compiled[k].key = NetworkContentKey(network[compiled[k].id])
            /\ Made(compiled[k].key, compiled[k].result)

PhaseInv ==
  /\ at # "idle" => dirty = {} /\ pool.maxEdge = HdClaudeTextureEdgeCap(quality)
  /\ at \in {"publish", "traced"} => \A m \in DOMAIN entry : ~entry[m].pending
  /\ at = "traced" => ~stale

DomeInv ==
  "dome" \notin dirty /\ map # None =>
    domeSlot \in 1 .. Len(pool.sources) /\ pool.sources[domeSlot] = DomeRequest(map)

\* A library is a function of what is asked, and of nothing else.
DocumentOf(members) ==
  Concat(Mapped(LAMBDA member :
                  Mapped(LAMBDA image : [image EXCEPT !.uniform = <<member.index, @>>], member.of.images),
                members))

TraversalOf(key) ==
  IF \/ \E member \in ToSet(key.cutout \o key.volume) : member.of.state = "broken"
     \/ Len(TextureOrder(DocumentOf(key.cutout \o key.volume))) > Capacity
  THEN NoTraversal
  ELSE [valid    |-> TRUE,
        cutout   |-> Mapped(LAMBDA member : member.index, key.cutout),
        volume   |-> Mapped(LAMBDA member : member.index, key.volume),
        samples  |-> TextureOrder(DocumentOf(key.cutout \o key.volume)),
        textures |-> CollectTexturePaths(DocumentOf(key.cutout \o key.volume))]

LibraryInv == library.key = <<>> \/ library.traversal = TraversalOf(library.key)

TraversalMade(table) ==
  IF Cut(table) \o Media(table) = <<>> THEN NoTraversal ELSE Traversal(table)

PublishedInv ==
  ~stale =>
    /\ published.table = Table /\ published.index = MaterialIndex
    /\ published.textures = pool.images /\ published.dome = domeSlot
    /\ published.traversal = TraversalMade(Table)
    /\ Holds(pool, published.slots, published.traversal.textures)

MaterialsInv ==
  /\ TypeInv /\ CacheInv /\ EntryInv /\ BatchInv /\ PhaseInv /\ DomeInv
  /\ LibraryInv /\ PublishedInv

-----------------------------------------------------------------------------
(* The table and its indices.                                               *)

LEMMA IdsAreSeq == IsSeq(Ids) /\ "dome" \notin ToSet(Ids)
BY IdsAssumption, SeqIsSeq

LEMMA PendingAre ==
  /\ IsSeq(BoundPendingMaterials)
  /\ ToSet(BoundPendingMaterials) = {m \in ToSet(Ids) : m \in DOMAIN entry /\ entry[m].pending}
<1> DEFINE I == {i \in DOMAIN Ids : Ids[i] \in DOMAIN entry /\ entry[Ids[i]].pending}
<1>1. DOMAIN Ids = 1 .. Len(Ids) /\ IsSeq(Ids)
    BY IdsAreSeq, IsSeqOfItsOwn
<1>2. /\ IsSeq(Chosen(Ids, I))
      /\ ToSet(Chosen(Ids, I)) = {Ids[i] : i \in I \cap (1 .. Len(Ids))}
  <2> HIDE DEF I
  <2> QED
      BY <1>1, ChosenIs
<1>3. {Ids[i] : i \in I \cap (1 .. Len(Ids))} = {m \in ToSet(Ids) : m \in DOMAIN entry /\ entry[m].pending}
    BY <1>1 DEF ToSet
<1> QED
    BY <1>2, <1>3 DEF BoundPendingMaterials

LEMMA ShownAre ==
  IsSeq(Shown) /\ ToSet(Shown) = {m \in ToSet(Ids) : m \in DOMAIN entry}
<1> DEFINE I == {i \in DOMAIN Ids : Ids[i] \in DOMAIN entry}
<1>1. DOMAIN Ids = 1 .. Len(Ids) /\ IsSeq(Ids)
    BY IdsAreSeq, IsSeqOfItsOwn
<1>2. /\ IsSeq(Chosen(Ids, I))
      /\ ToSet(Chosen(Ids, I)) = {Ids[i] : i \in I \cap (1 .. Len(Ids))}
  <2> HIDE DEF I
  <2> QED
      BY <1>1, ChosenIs
<1>3. {Ids[i] : i \in I \cap (1 .. Len(Ids))} = {m \in ToSet(Ids) : m \in DOMAIN entry}
    BY <1>1 DEF ToSet
<1> QED
    BY <1>2, <1>3 DEF Shown

LEMMA KeysAre ==
  IsSeq(Keys) /\ ToSet(Keys) = {entry[m].key : m \in ToSet(Shown)}
<1> DEFINE all == [i \in DOMAIN Shown |-> entry[Shown[i]].key]
<1>1. IsSeq(Shown) /\ DOMAIN Shown = 1 .. Len(Shown)
    BY ShownAre, IsSeqOfItsOwn
<1>2. Keys = Chosen(all, Firsts(all))
    BY DEF Keys, Mapped
<1>3. DOMAIN all = DOMAIN Shown /\ all = [i \in DOMAIN all |-> all[i]]
    OBVIOUS
<1>4. \A i \in 1 .. Len(Shown) : all[i] = entry[Shown[i]].key
    BY <1>1
<1> HIDE DEF all
<1>5. IsSeq(all) /\ Len(all) = Len(Shown) /\ DOMAIN all = 1 .. Len(Shown)
    BY <1>1, <1>3, MappedIs
<1>6. IsSeq(Keys) /\ ToSet(Keys) = {all[i] : i \in Firsts(all) \cap (1 .. Len(all))}
    BY <1>2, <1>5, ChosenIs
<1>7. {all[i] : i \in Firsts(all) \cap (1 .. Len(all))} = ToSet(all)
  <2>1. ASSUME NEW i \in 1 .. Len(all) PROVE all[i] \in ToSet(all)
      BY <1>5, IsSeqOfItsOwn
  <2>2. ASSUME NEW x \in ToSet(all) PROVE x \in {all[i] : i \in Firsts(all) \cap (1 .. Len(all))}
      BY <1>5, FirstsCover
  <2> QED
      BY <2>1, <2>2
<1>8. ToSet(all) = {entry[m].key : m \in ToSet(Shown)}
  <2>1. ToSet(all) = {all[i] : i \in 1 .. Len(Shown)}
      BY <1>5 DEF ToSet
  <2>2. ToSet(Shown) = {Shown[i] : i \in 1 .. Len(Shown)}
      BY <1>1 DEF ToSet
  <2> QED
      BY <1>4, <2>1, <2>2
<1> QED
    BY <1>6, <1>7, <1>8

\* The row at a material's index is that of a material of its key.
LEMMA RowIs ==
  ASSUME NEW m \in ToSet(Ids), m \in DOMAIN entry
  PROVE  /\ MaterialIndex[m] \in 1 .. Len(Keys) /\ Keys[MaterialIndex[m]] = entry[m].key
         /\ \E o \in ToSet(Ids) :
              /\ o \in DOMAIN entry /\ entry[o].key = entry[m].key
              /\ Table[MaterialIndex[m]] = entry[o]
<1>1. /\ IsSeq(Keys) /\ ToSet(Keys) = {entry[o].key : o \in ToSet(Shown)} /\ DOMAIN Keys = 1 .. Len(Keys)
      /\ IsSeq(Shown) /\ ToSet(Shown) = {o \in ToSet(Ids) : o \in DOMAIN entry}
    BY KeysAre, ShownAre, IsSeqOfItsOwn
<1> DEFINE I == {i \in 1 .. Len(Keys) : Keys[i] = entry[m].key}
           J == {j \in 1 .. Len(Shown) : entry[Shown[j]].key = entry[m].key}
<1>2. m \in ToSet(Shown)
    BY <1>1
<1>3. I # {} /\ I \in SUBSET Nat
  <2>1. entry[m].key \in ToSet(Keys)
      BY <1>1, <1>2
  <2>2. \E i \in 1 .. Len(Keys) : Keys[i] = entry[m].key
      BY <1>1, <2>1, IsSeqOfItsOwn
  <2>3. I \in SUBSET Nat
      OBVIOUS
  <2> QED
      BY <2>2, <2>3
<1>4. J # {} /\ J \in SUBSET Nat
  <2>1. PICK j \in 1 .. Len(Shown) : Shown[j] = m
      BY <1>1, <1>2, IsSeqOfItsOwn
  <2>2. j \in J
      BY <2>1
  <2>3. J \in SUBSET Nat
      OBVIOUS
  <2> QED
      BY <2>2, <2>3
<1>5. MaterialIndex[m] = Min(I)
  <2>1. MaterialIndex[m] = SelectInSeq(Keys, LAMBDA key : key = entry[m].key)
      BY <1>2 DEF MaterialIndex
  <2>2. SelectInSeq(Keys, LAMBDA key : key = entry[m].key) = IF I # {} THEN Min(I) ELSE 0
      BY DEF SelectInSeq
  <2> QED
      BY <1>3, <2>1, <2>2
<1>6. Min(I) \in I /\ Min(J) \in J
  <2> HIDE DEF I, J
  <2> QED
      BY <1>3, <1>4, MinIs
<1>7. MaterialIndex[m] \in 1 .. Len(Keys) /\ Keys[MaterialIndex[m]] = entry[m].key
    BY <1>5, <1>6
<1>8. Table[MaterialIndex[m]] = entry[Shown[Min(J)]]
  <2> DEFINE row(key) == entry[Shown[SelectInSeq(Shown, LAMBDA o : entry[o].key = key)]]
  <2>1. Table = [i \in DOMAIN Keys |-> row(Keys[i])]
      BY DEF Table, Mapped
  <2>2. row(entry[m].key) = entry[Shown[IF J # {} THEN Min(J) ELSE 0]]
      BY DEF SelectInSeq
  <2> HIDE DEF row
  <2>3. Table[MaterialIndex[m]] = row(entry[m].key)
      BY <1>1, <1>7, <2>1
  <2> QED
      BY <1>4, <2>2, <2>3
<1>9. /\ Shown[Min(J)] \in ToSet(Shown) /\ entry[Shown[Min(J)]].key = entry[m].key
    BY <1>1, <1>6, IsSeqOfItsOwn
<1> QED
    BY <1>1, <1>7, <1>8, <1>9

LEMMA KeysApart == Distinct(Keys)
<1> DEFINE all == [i \in DOMAIN Shown |-> entry[Shown[i]].key]
<1>1. IsSeq(Shown) /\ DOMAIN Shown = 1 .. Len(Shown)
    BY ShownAre, IsSeqOfItsOwn
<1>2. Keys = Chosen(all, Firsts(all))
    BY DEF Keys, Mapped
<1>3. DOMAIN all = DOMAIN Shown /\ all = [i \in DOMAIN all |-> all[i]]
    OBVIOUS
<1> HIDE DEF all
<1>4. IsSeq(all) /\ DOMAIN all = 1 .. Len(all) /\ Len(all) \in Nat
    BY <1>1, <1>3, MappedIs, IsSeqOfItsOwn
<1>5. \A i, j \in Firsts(all) \cap (1 .. Len(all)) : all[i] = all[j] => i = j
    BY <1>4 DEF Firsts
<1> QED
    BY <1>2, <1>4, <1>5, ChosenApart

\* A row of the table is that of a material whose index it has.
LEMMA TableIs ==
  /\ IsSeq(Table) /\ Len(Table) = Len(Keys)
  /\ \A i \in 1 .. Len(Table) :
       \E o \in ToSet(Ids) : o \in DOMAIN entry /\ MaterialIndex[o] = i
<1>1. /\ IsSeq(Keys) /\ ToSet(Keys) = {entry[o].key : o \in ToSet(Shown)} /\ DOMAIN Keys = 1 .. Len(Keys)
      /\ ToSet(Shown) = {o \in ToSet(Ids) : o \in DOMAIN entry}
    BY KeysAre, ShownAre, IsSeqOfItsOwn
<1>2. IsSeq(Table) /\ Len(Table) = Len(Keys)
  <2> DEFINE row(key) == entry[Shown[SelectInSeq(Shown, LAMBDA o : entry[o].key = key)]]
             rows == [i \in DOMAIN Keys |-> row(Keys[i])]
  <2>1. Table = rows
      BY DEF Table, Mapped
  <2> HIDE DEF row
  <2>2. DOMAIN rows = DOMAIN Keys /\ rows = [i \in DOMAIN rows |-> rows[i]]
      OBVIOUS
  <2> HIDE DEF rows
  <2> QED
      BY <1>1, <2>1, <2>2, MappedIs
<1>3. ASSUME NEW i \in 1 .. Len(Table)
      PROVE  \E o \in ToSet(Ids) : o \in DOMAIN entry /\ MaterialIndex[o] = i
  <2>1. Keys[i] \in ToSet(Keys)
      BY <1>1, <1>2, IsSeqOfItsOwn
  <2>2. PICK o \in ToSet(Ids) : o \in DOMAIN entry /\ entry[o].key = Keys[i]
      BY <1>1, <2>1
  <2>3. MaterialIndex[o] \in 1 .. Len(Keys) /\ Keys[MaterialIndex[o]] = Keys[i]
      BY <2>2, RowIs
  <2>4. MaterialIndex[o] = i
      BY <1>2, <2>3, KeysApart DEF Distinct
  <2> QED
      BY <2>2, <2>4
<1> QED
    BY <1>2, <1>3

-----------------------------------------------------------------------------
(* The library.                                                             *)

AllSettled ==
  \A m \in ToSet(Ids) :
    /\ m \in DOMAIN entry <=> network[m] # None
    /\ m \in DOMAIN entry => network[m] \in Networks /\ Settled(pool, entry[m], network[m])

LEMMA AllAreSettled ==
  ASSUME TypeInv, EntryInv, dirty = {}, \A m \in DOMAIN entry : ~entry[m].pending
  PROVE  AllSettled
BY DEF TypeInv, EntryInv, AllSettled

AskedState(m) == IF m \in CutOut THEN network[m].cutout.state ELSE network[m].volume.state

LEMMA AskersAre ==
  ASSUME AllSettled, NEW m \in ToSet(Ids)
  PROVE  /\ ~(m \in CutOut /\ m \in Fog)
         /\ m \in CutOut \/ m \in Fog => m \in DOMAIN entry
BY DEF CutOut, Fog, Generates, AllSettled

\* What a row has to ask about is what the material of its index asks about.
LEMMA RowParts ==
  ASSUME AllSettled, NEW m \in ToSet(Ids), m \in DOMAIN entry
  PROVE  LET c == Table[MaterialIndex[m]].compiled
         IN  /\ m \in CutOut <=> c.cutout # Nothing
             /\ m \in Fog <=> c.volume # Nothing
             /\ m \in CutOut => /\ c.cutout.state = AskedState(m) /\ AllAlike(ImagesAsked(m), c.cutout.images)
                                /\ \A i \in 1 .. Len(c.cutout.images) : DOMAIN (c.cutout.images[i]) = ImageFields
             /\ m \in Fog => /\ c.volume.state = AskedState(m) /\ AllAlike(ImagesAsked(m), c.volume.images)
                             /\ \A i \in 1 .. Len(c.volume.images) : DOMAIN (c.volume.images[i]) = ImageFields
<1> DEFINE c == Table[MaterialIndex[m]].compiled
           n == network[m]
<1>1. n \in Networks /\ n # None /\ entry[m].key = NetworkContentKey(n)
    BY DEF AllSettled, Settled
<1>2. PICK o \in ToSet(Ids) : o \in DOMAIN entry /\ entry[o].key = entry[m].key /\ Table[MaterialIndex[m]] = entry[o]
    BY RowIs
<1>3. Made(NetworkContentKey(n), c)
    BY <1>1, <1>2 DEF AllSettled, Settled
<1>4. PICK p \in Networks : NetworkContentKey(n) = NetworkContentKey(p) /\ c = CompileUncached(p)
    BY <1>3 DEF Made
<1>5. ASSUME NEW t \in Terminals
      PROVE  n[t].state = p[t].state /\ AllAlike(n[t].images, p[t].images)
             /\ (Generates(n[t]) <=> Generates(p[t]))
             /\ AllAlike(n[t].images, Baked(p[t].images))
             /\ \A i \in 1 .. Len(Baked(p[t].images)) : DOMAIN (Baked(p[t].images)[i]) = ImageFields
  <2>1. n[t].state = p[t].state /\ AllAlike(n[t].images, p[t].images)
      BY <1>1, <1>4, SameContent
  <2>2. TextureOrder(n[t].images) = TextureOrder(p[t].images)
      BY <2>1, AlikePrograms DEF Program
  <2>3. \A i \in 1 .. Len(p[t].images) : DOMAIN (p[t].images[i]) = ImageFields
      BY NetworkIs
  <2>4. /\ AllAlike(n[t].images, Baked(p[t].images))
        /\ \A i \in 1 .. Len(Baked(p[t].images)) : DOMAIN (Baked(p[t].images)[i]) = ImageFields
      BY <2>1, <2>3, AlikeBaked
  <2> QED
      BY <2>1, <2>2, <2>4 DEF Generates
<1>6. /\ n.surface.state = p.surface.state /\ n.cutout.state = p.cutout.state /\ n.volume.state = p.volume.state
      /\ Generates(n.surface) <=> Generates(p.surface)
      /\ AllAlike(n.cutout.images, Baked(p.cutout.images))
      /\ AllAlike(n.volume.images, Baked(p.volume.images))
      /\ \A i \in 1 .. Len(Baked(p.cutout.images)) : DOMAIN (Baked(p.cutout.images)[i]) = ImageFields
      /\ \A i \in 1 .. Len(Baked(p.volume.images)) : DOMAIN (Baked(p.volume.images)[i]) = ImageFields
    BY <1>5 DEF Terminals
<1>7. /\ {"state", "images"} \subseteq DOMAIN p.cutout /\ {"state", "images"} \subseteq DOMAIN p.volume
    BY NetworkIs DEF Terminals
<1> HIDE DEF c
<1>8. Generates(p.surface) => p.surface.state = "read"
    BY DEF Generates
<1> DEFINE cuts == p.cutout.state \in {"cut", "broken"}
           fogs == p.volume.state \in {"read", "broken"}
<1>9. /\ cuts => /\ AuthoredCutoutOpacity(p).state = p.cutout.state
                 /\ AuthoredCutoutOpacity(p).images = Baked(p.cutout.images)
                 /\ AuthoredCutoutOpacity(p) # Nothing
      /\ ~cuts => AuthoredCutoutOpacity(p) = Nothing
  <2>1. Nothing.state = "none"
      BY DEF Nothing
  <2>2. cuts => /\ AuthoredCutoutOpacity(p).state = p.cutout.state
                /\ AuthoredCutoutOpacity(p).images = Baked(p.cutout.images)
      BY <1>7 DEF AuthoredCutoutOpacity
  <2> QED
      BY <2>1, <2>2 DEF AuthoredCutoutOpacity
<1>10. /\ fogs => /\ AuthoredVolume(p).state = p.volume.state
                  /\ AuthoredVolume(p).images = Baked(p.volume.images)
                  /\ AuthoredVolume(p) # Nothing
       /\ ~fogs => AuthoredVolume(p) = Nothing
  <2>1. Nothing.state = "none"
      BY DEF Nothing
  <2>2. fogs => /\ AuthoredVolume(p).state = p.volume.state
                /\ AuthoredVolume(p).images = Baked(p.volume.images)
      BY <1>7 DEF AuthoredVolume
  <2> QED
      BY <2>1, <2>2 DEF AuthoredVolume
<1>11. /\ c.cutout = IF Generates(p.surface) THEN AuthoredCutoutOpacity(p) ELSE Nothing
       /\ c.volume = IF p.volume.state # "none" /\ p.surface.state = "none" THEN AuthoredVolume(p) ELSE Nothing
  <2>1. /\ CompileDiffuse.cutout = Nothing /\ CompileDiffuse.volume = Nothing
        /\ \A v : [CompileDiffuse EXCEPT !.volume = v].cutout = Nothing
                  /\ [CompileDiffuse EXCEPT !.volume = v].volume = v
      BY DEF CompileDiffuse
  <2>2. c = IF p.volume.state # "none" /\ p.surface.state = "none"
            THEN [CompileDiffuse EXCEPT !.volume = AuthoredVolume(p)]
            ELSE IF ~Generates(p.surface) THEN CompileDiffuse
            ELSE [surface |-> Program(p.surface.images), displace |-> CompileDisplacement(p),
                  cutout |-> AuthoredCutoutOpacity(p), volume |-> Nothing]
      BY <1>4 DEF CompileUncached
  <2> QED
      BY <1>8, <2>1, <2>2
<1>12. m \in CutOut <=> Generates(p.surface) /\ cuts
    BY <1>1, <1>6 DEF CutOut
<1>13. m \in Fog <=> p.surface.state = "none" /\ fogs
    BY <1>1, <1>6 DEF Fog
<1>14. fogs => p.volume.state # "none"
    OBVIOUS
<1> HIDE DEF cuts, fogs
<1>15. m \in CutOut <=> c.cutout # Nothing
    BY <1>9, <1>11, <1>12
<1>16. m \in Fog <=> c.volume # Nothing
    BY <1>10, <1>11, <1>13, <1>14
<1>17. ASSUME m \in CutOut
       PROVE  /\ c.cutout.state = AskedState(m) /\ AllAlike(ImagesAsked(m), c.cutout.images)
              /\ \A i \in 1 .. Len(c.cutout.images) : DOMAIN (c.cutout.images[i]) = ImageFields
  <2>1. c.cutout.state = p.cutout.state /\ c.cutout.images = Baked(p.cutout.images)
      BY <1>9, <1>11, <1>12, <1>17
  <2>2. AskedState(m) = n.cutout.state /\ ImagesAsked(m) = n.cutout.images
      BY <1>17 DEF AskedState, ImagesAsked
  <2> QED
      BY <1>6, <2>1, <2>2
<1>18. ASSUME m \in Fog
       PROVE  /\ c.volume.state = AskedState(m) /\ AllAlike(ImagesAsked(m), c.volume.images)
              /\ \A i \in 1 .. Len(c.volume.images) : DOMAIN (c.volume.images[i]) = ImageFields
  <2>1. c.volume.state = p.volume.state /\ c.volume.images = Baked(p.volume.images)
      BY <1>10, <1>11, <1>13, <1>14, <1>18
  <2>2. m \notin CutOut
      BY <1>18, AskersAre
  <2>3. AskedState(m) = n.volume.state /\ ImagesAsked(m) = n.volume.images
      BY <2>2 DEF AskedState, ImagesAsked
  <2> QED
      BY <1>6, <2>1, <2>3
<1> QED
    BY <1>15, <1>16, <1>17, <1>18 DEF c

-----------------------------------------------------------------------------
(* The invariant is enough.                                                 *)

LEMMA MadeIs ==
  ASSUME NEW n \in Networks, NEW result, Made(NetworkContentKey(n), result)
  PROVE  /\ result.surface = CompileUncached(n).surface
         /\ result.displace = CompileUncached(n).displace
<1>1. PICK o \in Networks : NetworkContentKey(n) = NetworkContentKey(o) /\ result = CompileUncached(o)
    BY DEF Made
<1> QED
    BY <1>1, SamePrograms

LEMMA ProgramsAre ==
  ASSUME NEW n \in Networks
  PROVE  /\ CompileUncached(n).surface =
              IF Generates(n.surface) THEN Program(n.surface.images) ELSE NoProgram
         /\ CompileUncached(n).displace =
              IF Generates(n.surface) /\ Generates(n.displacement) THEN Program(n.displacement.images)
              ELSE NoProgram
<1>1. Generates(n.surface) => n.surface.state # "none"
    BY DEF Generates
<1> QED
    BY <1>1 DEF CompileUncached, CompileDiffuse, CompileDisplacement

LEMMA MadeIsSeq ==
  ASSUME NEW key, NEW result, Made(key, result)
  PROVE  IsSeq(result.surface.textures) /\ IsSeq(result.displace.textures)
<1>1. PICK n \in Networks : result = CompileUncached(n)
    BY DEF Made
<1>2. Listed(n.surface.images) /\ Listed(n.displacement.images)
    BY NetworkIs DEF Terminals
<1>3. IsSeq(CollectTexturePaths(n.surface.images)) /\ IsSeq(CollectTexturePaths(n.displacement.images))
    BY <1>2, PathsAre DEF Listed
<1>4. \A images : Program(images).textures = CollectTexturePaths(images)
    BY DEF Program
<1>5. NoProgram.textures = <<>> /\ IsSeq(<<>>)
    BY Empty DEF NoProgram
<1>6. /\ result.surface = Program(n.surface.images) \/ result.surface = NoProgram
      /\ result.displace = Program(n.displacement.images) \/ result.displace = NoProgram
    BY <1>1, ProgramsAre
<1> QED
    BY <1>3, <1>4, <1>5, <1>6

LEMMA InvIsEnough ==
  ASSUME MaterialsInv
  PROVE  ReadsItsOwnImages
<1> USE DEF MaterialsInv
<1>1. SUFFICES ASSUME at = "traced" PROVE ReadsItsOwnImages!2
    BY DEF ReadsItsOwnImages
<1>2. /\ dirty = {} /\ pool.maxEdge = HdClaudeTextureEdgeCap(quality) /\ ~stale
      /\ \A m \in DOMAIN entry : ~entry[m].pending
      /\ PoolIs(pool)
    BY <1>1 DEF PhaseInv, TypeInv
<1>3. /\ published.table = Table /\ published.index = MaterialIndex
      /\ published.textures = pool.images /\ published.dome = domeSlot
    BY <1>2 DEF PublishedInv
<1>4. ASSUME NEW m \in ToSet(Ids), network[m] # None
      PROVE  LET p == published.table[published.index[m]]
                 c == p.compiled
                 n == network[m]
             IN  /\ ReadsOwn(c.surface.samples, p.slots,
                             IF Generates(n.surface) THEN n.surface.images ELSE <<>>)
                 /\ ReadsOwn(c.displace.samples, p.displaceSlots,
                             IF Generates(n.surface) /\ Generates(n.displacement)
                             THEN n.displacement.images ELSE <<>>)
  <2> DEFINE p == published.table[published.index[m]]
             c == p.compiled
             n == network[m]
  <2>1. m \in DOMAIN entry /\ n \in Networks /\ Settled(pool, entry[m], n)
      BY <1>2, <1>4 DEF EntryInv, TypeInv
  <2>2. PICK o \in ToSet(Ids) : /\ o \in DOMAIN entry /\ entry[o].key = entry[m].key
                                /\ Table[MaterialIndex[m]] = entry[o]
      BY <2>1, RowIs
  <2>3. Settled(pool, entry[o], network[o])
      BY <1>2, <2>2 DEF EntryInv
  <2>4. p = entry[o]
      BY <1>3, <2>2
  <2>5. Made(NetworkContentKey(n), c)
      BY <2>1, <2>2, <2>3, <2>4 DEF Settled
  <2>6. Holds(pool, p.slots, c.surface.textures) /\ Holds(pool, p.displaceSlots, c.displace.textures)
      BY <2>3, <2>4 DEF Settled
  <2> HIDE DEF p, c, n
  <2>7. /\ c.surface = IF Generates(n.surface) THEN Program(n.surface.images) ELSE NoProgram
        /\ c.displace = IF Generates(n.surface) /\ Generates(n.displacement)
                        THEN Program(n.displacement.images) ELSE NoProgram
      BY <2>1, <2>5, MadeIs, ProgramsAre
  <2>8. Listed(n.surface.images) /\ Listed(n.displacement.images)
      BY <2>1, NetworkIs DEF Terminals
  <2>9. ReadsOwn(c.surface.samples, p.slots, IF Generates(n.surface) THEN n.surface.images ELSE <<>>)
    <3>1. CASE Generates(n.surface)
      <4>1. c.surface.samples = TextureOrder(n.surface.images)
            /\ c.surface.textures = CollectTexturePaths(n.surface.images)
          BY <2>7, <3>1 DEF Program
      <4>2. ReadsOwn(TextureOrder(n.surface.images), p.slots, n.surface.images)
          BY <1>2, <1>3, <2>6, <2>8, <4>1, ProgramReads
      <4> QED
          BY <3>1, <4>1, <4>2
    <3>2. CASE ~Generates(n.surface)
      <4>1. c.surface.samples = <<>> /\ c.surface.textures = <<>>
          BY <2>7, <3>2 DEF NoProgram
      <4>2. ReadsOwn(<<>>, p.slots, <<>>)
          BY <2>6, <4>1, NothingReads
      <4> QED
          BY <3>2, <4>1, <4>2
    <3> QED
        BY <3>1, <3>2
  <2>10. ReadsOwn(c.displace.samples, p.displaceSlots,
                  IF Generates(n.surface) /\ Generates(n.displacement) THEN n.displacement.images ELSE <<>>)
    <3>1. CASE Generates(n.surface) /\ Generates(n.displacement)
      <4>1. c.displace.samples = TextureOrder(n.displacement.images)
            /\ c.displace.textures = CollectTexturePaths(n.displacement.images)
          BY <2>7, <3>1 DEF Program
      <4>2. ReadsOwn(TextureOrder(n.displacement.images), p.displaceSlots, n.displacement.images)
          BY <1>2, <1>3, <2>6, <2>8, <4>1, ProgramReads
      <4> QED
          BY <3>1, <4>1, <4>2
    <3>2. CASE ~(Generates(n.surface) /\ Generates(n.displacement))
      <4>1. c.displace.samples = <<>> /\ c.displace.textures = <<>>
          BY <2>7, <3>2 DEF NoProgram
      <4>2. ReadsOwn(<<>>, p.displaceSlots, <<>>)
          BY <2>6, <4>1, NothingReads
      <4> QED
          BY <3>2, <4>1, <4>2
    <3> QED
        BY <3>1, <3>2
  <2> QED
      BY <2>9, <2>10 DEF p, c, n
<1>5. ASSUME map # None
      PROVE  published.textures[published.dome] =
               DecodePoolImage(DomeRequest(map), HdClaudeTextureEdgeCap(quality))
  <2>1. domeSlot \in 1 .. Len(pool.sources) /\ pool.sources[domeSlot] = DomeRequest(map)
      BY <1>2, <1>5 DEF DomeInv
  <2> QED
      BY <1>2, <1>3, <2>1 DEF PoolIs
<1> QED
    BY <1>4, <1>5

LEMMA MembersAre ==
  ASSUME NEW part
  PROVE  /\ IsSeq(Members(Table, part))
         /\ \A x : x \in ToSet(Members(Table, part)) <=>
              \E i \in 1 .. Len(Table) : /\ Table[i].compiled[part] # Nothing
                                         /\ x = [index |-> i, of |-> Table[i].compiled[part]]
         /\ Distinct(Members(Table, part))
<1> DEFINE rows == [i \in DOMAIN Table |-> [index |-> i, of |-> Table[i].compiled[part]]]
           I == {i \in DOMAIN Table : Table[i].compiled[part] # Nothing}
<1>1. IsSeq(Table) /\ DOMAIN Table = 1 .. Len(Table)
    BY TableIs, IsSeqOfItsOwn
<1>2. Members(Table, part) = Chosen(rows, I)
    BY DEF Members
<1>3. /\ DOMAIN rows = DOMAIN Table /\ rows = [i \in DOMAIN rows |-> rows[i]]
      /\ \A i \in DOMAIN Table : rows[i] = [index |-> i, of |-> Table[i].compiled[part]]
      /\ \A i \in DOMAIN Table : rows[i].index = i
    OBVIOUS
<1> HIDE DEF rows
<1>4. IsSeq(rows) /\ Len(rows) = Len(Table)
    BY <1>1, <1>3, MappedIs
<1>5. \A i, j \in I \cap (1 .. Len(rows)) : rows[i] = rows[j] => i = j
    BY <1>1, <1>3, <1>4
<1>6. /\ IsSeq(Chosen(rows, I)) /\ ToSet(Chosen(rows, I)) = {rows[i] : i \in I \cap (1 .. Len(rows))}
      /\ Distinct(Chosen(rows, I))
  <2> HIDE DEF I
  <2> QED
      BY <1>4, <1>5, ChosenIs, ChosenApart
<1>7. ASSUME NEW x
      PROVE  x \in ToSet(Chosen(rows, I)) <=>
               \E i \in 1 .. Len(Table) : /\ Table[i].compiled[part] # Nothing
                                          /\ x = [index |-> i, of |-> Table[i].compiled[part]]
    BY <1>1, <1>3, <1>4, <1>6
<1> QED
    BY <1>2, <1>6, <1>7

MemberOf(member, m) ==
  /\ member.index = MaterialIndex[m] /\ member.of.state = AskedState(m)
  /\ AllAlike(ImagesAsked(m), member.of.images)
  /\ \A i \in 1 .. Len(member.of.images) : DOMAIN (member.of.images[i]) = ImageFields

LEMMA CutIs ==
  ASSUME AllSettled
  PROVE  /\ IsSeq(Cut(Table)) /\ Distinct(Cut(Table))
         /\ \A a, b \in ToSet(Cut(Table)) : a.index = b.index => a = b
         /\ \A member \in ToSet(Cut(Table)) : \E m \in CutOut : MemberOf(member, m)
         /\ \A m \in CutOut : \E member \in ToSet(Cut(Table)) : MemberOf(member, m)
<1>1. /\ IsSeq(Cut(Table)) /\ Distinct(Cut(Table))
      /\ \A x : x \in ToSet(Cut(Table)) <=>
           \E i \in 1 .. Len(Table) : /\ Table[i].compiled.cutout # Nothing
                                      /\ x = [index |-> i, of |-> Table[i].compiled.cutout]
    BY MembersAre DEF Cut
<1>2. ASSUME NEW member \in ToSet(Cut(Table)) PROVE \E m \in CutOut : MemberOf(member, m)
  <2>1. PICK i \in 1 .. Len(Table) : /\ Table[i].compiled.cutout # Nothing
                                     /\ member = [index |-> i, of |-> Table[i].compiled.cutout]
      BY <1>1, <1>2
  <2>2. PICK m \in ToSet(Ids) : m \in DOMAIN entry /\ MaterialIndex[m] = i
      BY TableIs
  <2>3. m \in CutOut
      BY <2>1, <2>2, RowParts
  <2>4. MemberOf(member, m)
      BY <2>1, <2>2, <2>3, RowParts DEF MemberOf
  <2> QED
      BY <2>3, <2>4
<1>3. ASSUME NEW m \in CutOut PROVE \E member \in ToSet(Cut(Table)) : MemberOf(member, m)
  <2>1. m \in ToSet(Ids) /\ m \in DOMAIN entry
      BY <1>3, AskersAre DEF CutOut
  <2> DEFINE i == MaterialIndex[m]
             member == [index |-> i, of |-> Table[i].compiled.cutout]
  <2>2. i \in 1 .. Len(Table)
      BY <2>1, RowIs, TableIs
  <2>3. Table[i].compiled.cutout # Nothing
      BY <1>3, <2>1, RowParts
  <2>4. member \in ToSet(Cut(Table))
      BY <1>1, <2>2, <2>3
  <2>5. MemberOf(member, m)
      BY <1>3, <2>1, RowParts DEF MemberOf
  <2> QED
      BY <2>4, <2>5
<1> QED
    BY <1>1, <1>2, <1>3

LEMMA MediaIs ==
  ASSUME AllSettled
  PROVE  /\ IsSeq(Media(Table)) /\ Distinct(Media(Table))
         /\ \A a, b \in ToSet(Media(Table)) : a.index = b.index => a = b
         /\ \A member \in ToSet(Media(Table)) : \E m \in Fog : MemberOf(member, m)
         /\ \A m \in Fog : \E member \in ToSet(Media(Table)) : MemberOf(member, m)
<1>1. /\ IsSeq(Media(Table)) /\ Distinct(Media(Table))
      /\ \A x : x \in ToSet(Media(Table)) <=>
           \E i \in 1 .. Len(Table) : /\ Table[i].compiled.volume # Nothing
                                      /\ x = [index |-> i, of |-> Table[i].compiled.volume]
    BY MembersAre DEF Media
<1>2. ASSUME NEW member \in ToSet(Media(Table)) PROVE \E m \in Fog : MemberOf(member, m)
  <2>1. PICK i \in 1 .. Len(Table) : /\ Table[i].compiled.volume # Nothing
                                     /\ member = [index |-> i, of |-> Table[i].compiled.volume]
      BY <1>1, <1>2
  <2>2. PICK m \in ToSet(Ids) : m \in DOMAIN entry /\ MaterialIndex[m] = i
      BY TableIs
  <2>3. m \in Fog
      BY <2>1, <2>2, RowParts
  <2>4. MemberOf(member, m)
      BY <2>1, <2>2, <2>3, RowParts DEF MemberOf
  <2> QED
      BY <2>3, <2>4
<1>3. ASSUME NEW m \in Fog PROVE \E member \in ToSet(Media(Table)) : MemberOf(member, m)
  <2>1. m \in ToSet(Ids) /\ m \in DOMAIN entry
      BY <1>3, AskersAre DEF Fog
  <2> DEFINE i == MaterialIndex[m]
             member == [index |-> i, of |-> Table[i].compiled.volume]
  <2>2. i \in 1 .. Len(Table)
      BY <2>1, RowIs, TableIs
  <2>3. Table[i].compiled.volume # Nothing
      BY <1>3, <2>1, RowParts
  <2>4. member \in ToSet(Media(Table))
      BY <1>1, <2>2, <2>3
  <2>5. MemberOf(member, m)
      BY <1>3, <2>1, RowParts DEF MemberOf
  <2> QED
      BY <2>4, <2>5
<1> QED
    BY <1>1, <1>2, <1>3

\* A document has one member of an index, each some material's, and each asker's is there.
MembersInv(all) ==
  /\ IsSeq(all)
  /\ \A i, j \in 1 .. Len(all) : all[i].index = all[j].index => i = j
  /\ \A member \in ToSet(all) : \E m \in CutOut \union Fog : MemberOf(member, m)
  /\ \A m \in CutOut \union Fog : \E member \in ToSet(all) : MemberOf(member, m)

LEMMA MembersTogether ==
  ASSUME AllSettled
  PROVE  MembersInv(Cut(Table) \o Media(Table))
<1> DEFINE s == Cut(Table)
           t == Media(Table)
<1>1. /\ IsSeq(s) /\ Distinct(s) /\ \A a, b \in ToSet(s) : a.index = b.index => a = b
      /\ \A member \in ToSet(s) : \E m \in CutOut : MemberOf(member, m)
      /\ \A m \in CutOut : \E member \in ToSet(s) : MemberOf(member, m)
    BY CutIs
<1>2. /\ IsSeq(t) /\ Distinct(t) /\ \A a, b \in ToSet(t) : a.index = b.index => a = b
      /\ \A member \in ToSet(t) : \E m \in Fog : MemberOf(member, m)
      /\ \A m \in Fog : \E member \in ToSet(t) : MemberOf(member, m)
    BY MediaIs
<1> HIDE DEF s, t
<1>3. ASSUME NEW a \in ToSet(s), NEW b \in ToSet(t), a.index = b.index PROVE FALSE
  <2>1. PICK m \in CutOut : MemberOf(a, m)
      BY <1>1
  <2>2. PICK o \in Fog : MemberOf(b, o)
      BY <1>2
  <2>3. MaterialIndex[m] = MaterialIndex[o] /\ m \in ToSet(Ids) /\ o \in ToSet(Ids)
      BY <1>3, <2>1, <2>2 DEF MemberOf, CutOut, Fog
  <2>4. m \in DOMAIN entry /\ o \in DOMAIN entry
      BY <2>3, AskersAre
  <2>5. o \in CutOut
      BY <2>3, <2>4, RowParts
  <2> QED
      BY <2>3, <2>5, AskersAre
<1>4. Disjoint(s, t)
    BY <1>3 DEF Disjoint
<1>5. /\ IsSeq(s \o t) /\ ToSet(s \o t) = ToSet(s) \union ToSet(t) /\ Distinct(s \o t)
    BY <1>1, <1>2, <1>4, Joined, JoinedApart
<1>6. \A i \in 1 .. Len(s \o t) : (s \o t)[i] \in ToSet(s \o t)
    BY <1>5, IsSeqOfItsOwn
<1> DEFINE all == s \o t
<1> HIDE DEF all
<1>7. \A a, b \in ToSet(all) : a.index = b.index => a = b
  <2>1. SUFFICES ASSUME NEW a \in ToSet(all), NEW b \in ToSet(all), a.index = b.index PROVE a = b
      OBVIOUS
  <2>2. (a \in ToSet(s) \/ a \in ToSet(t)) /\ (b \in ToSet(s) \/ b \in ToSet(t))
      BY <1>5, <2>1 DEF all
  <2> QED
      BY <1>1, <1>2, <1>3, <2>1, <2>2
<1>8. \A i, j \in 1 .. Len(all) : all[i].index = all[j].index => i = j
    BY <1>5, <1>6, <1>7 DEF all, Distinct
<1>9. \A member \in ToSet(all) : \E m \in CutOut \union Fog : MemberOf(member, m)
    BY <1>1, <1>2, <1>5 DEF all
<1>10. \A m \in CutOut \union Fog : \E member \in ToSet(all) : MemberOf(member, m)
    BY <1>1, <1>2, <1>5 DEF all
<1>11. MembersInv(all)
    BY <1>5, <1>8, <1>9, <1>10 DEF MembersInv, all
<1> QED
    BY <1>11 DEF all, s, t

\* The document has every member's images, under an index of their own.
LEMMA DocumentIs ==
  ASSUME NEW all, IsSeq(all), \A i, j \in 1 .. Len(all) : all[i].index = all[j].index => i = j,
         \A k \in 1 .. Len(all) :
           /\ Listed(all[k].of.images)
           /\ \A i \in 1 .. Len(all[k].of.images) : DOMAIN (all[k].of.images[i]) = ImageFields
  PROVE  /\ Listed(DocumentOf(all))
         /\ \A x : x \in ToSet(DocumentOf(all)) <=>
              \E k \in 1 .. Len(all) : \E j \in 1 .. Len(all[k].of.images) :
                 x = Relabelled(all[k].of.images[j], all[k].index)
<1> DEFINE images(k) == all[k].of.images
           part(k) == [j \in DOMAIN images(k) |-> Relabelled(images(k)[j], all[k].index)]
           parts == [k \in DOMAIN all |-> part(k)]
           D == DocumentOf(all)
<1>1. DOMAIN all = 1 .. Len(all) /\ Len(all) \in Nat
    BY IsSeqOfItsOwn
<1>2. D = Concat(parts)
    BY DEF DocumentOf, Mapped, Relabelled
<1>3. \A k \in 1 .. Len(all) :
        /\ IsSeq(images(k)) /\ Listed(images(k)) /\ DOMAIN images(k) = 1 .. Len(images(k))
        /\ \A i \in 1 .. Len(images(k)) : DOMAIN (images(k)[i]) = ImageFields
    BY IsSeqOfItsOwn DEF Listed
<1>4. ASSUME NEW k \in 1 .. Len(all), NEW j \in 1 .. Len(images(k))
      PROVE  /\ Relabelled(images(k)[j], all[k].index).uniform = <<all[k].index, images(k)[j].uniform>>
             /\ Relabelled(images(k)[j], all[k].index).file = None
                  => Relabelled(images(k)[j], all[k].index).resolved = None
  <2>1. DOMAIN (images(k)[j]) = ImageFields /\ (images(k)[j].file = None => images(k)[j].resolved = None)
      BY <1>3 DEF Listed
  <2> HIDE DEF images
  <2> QED
      BY <2>1, RelabelledReads
<1>5. parts = [k \in 1 .. Len(all) |-> parts[k]] /\ \A k \in 1 .. Len(all) : parts[k] = part(k)
    BY <1>1
<1> HIDE DEF parts, images
<1>6. IsSeq(parts) /\ Len(parts) = Len(all)
    BY <1>1, <1>5, ListIsSeq
<1>7. ASSUME NEW k \in 1 .. Len(all)
      PROVE  /\ IsSeq(parts[k]) /\ Len(parts[k]) = Len(images(k))
             /\ \A j \in 1 .. Len(images(k)) : parts[k][j] = Relabelled(images(k)[j], all[k].index)
             /\ Distinct(parts[k])
  <2>1. DOMAIN part(k) = DOMAIN images(k) /\ part(k) = [j \in DOMAIN part(k) |-> part(k)[j]]
        /\ \A j \in DOMAIN images(k) : part(k)[j] = Relabelled(images(k)[j], all[k].index)
      OBVIOUS
  <2> HIDE DEF part
  <2>2. IsSeq(part(k)) /\ Len(part(k)) = Len(images(k))
      BY <1>3, <2>1, MappedIs
  <2>3. \A j \in 1 .. Len(images(k)) : part(k)[j] = Relabelled(images(k)[j], all[k].index)
      BY <1>3, <2>1
  <2>4. ASSUME NEW i \in 1 .. Len(part(k)), NEW j \in 1 .. Len(part(k)), part(k)[i] = part(k)[j]
        PROVE  i = j
    <3>1. <<all[k].index, images(k)[i].uniform>> = <<all[k].index, images(k)[j].uniform>>
        BY <1>4, <2>2, <2>3, <2>4
    <3>2. images(k)[i].uniform = images(k)[j].uniform
        BY <3>1
    <3> QED
        BY <1>3, <2>2, <3>2 DEF Listed
  <2>5. Distinct(part(k))
      BY <2>4 DEF Distinct
  <2> QED
      BY <1>5, <2>2, <2>3, <2>5
<1> HIDE DEF part, D
<1>8. \A x : \A k \in 1 .. Len(all) :
        x \in ToSet(parts[k]) <=>
          \E j \in 1 .. Len(images(k)) : x = Relabelled(images(k)[j], all[k].index)
  <2> SUFFICES ASSUME NEW x, NEW k \in 1 .. Len(all)
               PROVE  x \in ToSet(parts[k]) <=>
                        \E j \in 1 .. Len(images(k)) : x = Relabelled(images(k)[j], all[k].index)
      OBVIOUS
  <2>1. DOMAIN (parts[k]) = 1 .. Len(images(k))
      BY <1>7, IsSeqOfItsOwn
  <2> QED
      BY <1>7, <2>1 DEF ToSet
<1>9. ASSUME NEW k \in 1 .. Len(all), NEW l \in 1 .. Len(all), k # l
      PROVE  Disjoint(parts[k], parts[l])
  <2>1. ASSUME NEW x \in ToSet(parts[k]), x \in ToSet(parts[l]) PROVE FALSE
    <3>1. PICK i \in 1 .. Len(images(k)) : x = Relabelled(images(k)[i], all[k].index)
        BY <1>8, <2>1
    <3>2. PICK j \in 1 .. Len(images(l)) : x = Relabelled(images(l)[j], all[l].index)
        BY <1>8, <2>1
    <3>5. x.uniform = <<all[k].index, images(k)[i].uniform>>
        BY <1>4, <3>1
    <3>6. x.uniform = <<all[l].index, images(l)[j].uniform>>
        BY <1>4, <3>2
    <3>3. <<all[k].index, images(k)[i].uniform>> = <<all[l].index, images(l)[j].uniform>>
        BY <3>5, <3>6
    <3>4. all[k].index = all[l].index
        BY <3>3
    <3> QED
        BY <1>9, <3>4
  <2> QED
      BY <2>1 DEF Disjoint
<1>10. Parts(parts)
    BY <1>6, <1>7 DEF Parts
<1>11. /\ IsSeq(D) /\ ToSet(D) = UNION {ToSet(parts[k]) : k \in 1 .. Len(all)} /\ Distinct(D)
    BY <1>2, <1>6, <1>7, <1>9, <1>10, ConcatIs, ConcatApart
<1>12. ASSUME NEW x
       PROVE  x \in ToSet(D) <=>
                \E k \in 1 .. Len(all) : \E j \in 1 .. Len(images(k)) :
                   x = Relabelled(images(k)[j], all[k].index)
    BY <1>8, <1>11
<1>13. ASSUME NEW i \in 1 .. Len(D)
       PROVE  \E k \in 1 .. Len(all) : \E j \in 1 .. Len(images(k)) :
                 /\ D[i] = Relabelled(images(k)[j], all[k].index)
                 /\ D[i].uniform = <<all[k].index, images(k)[j].uniform>>
                 /\ D[i].file = None => D[i].resolved = None
  <2>1. D[i] \in ToSet(D)
      BY <1>11, IsSeqOfItsOwn
  <2>2. PICK k \in 1 .. Len(all) :
            \E j \in 1 .. Len(images(k)) : D[i] = Relabelled(images(k)[j], all[k].index)
      BY <1>12, <2>1
  <2>3. PICK j \in 1 .. Len(images(k)) : D[i] = Relabelled(images(k)[j], all[k].index)
      BY <2>2
  <2>4. /\ D[i].uniform = <<all[k].index, images(k)[j].uniform>>
        /\ D[i].file = None => D[i].resolved = None
      BY <1>4, <2>3
  <2> QED
      BY <2>3, <2>4
<1>14. ASSUME NEW h \in 1 .. Len(D), NEW i \in 1 .. Len(D), D[h].uniform = D[i].uniform
       PROVE  h = i
  <2>1. PICK k \in 1 .. Len(all) : \E j \in 1 .. Len(images(k)) :
            /\ D[h] = Relabelled(images(k)[j], all[k].index)
            /\ D[h].uniform = <<all[k].index, images(k)[j].uniform>>
            /\ D[h].file = None => D[h].resolved = None
      BY <1>13, <1>14
  <2>7. PICK j \in 1 .. Len(images(k)) :
            /\ D[h] = Relabelled(images(k)[j], all[k].index)
            /\ D[h].uniform = <<all[k].index, images(k)[j].uniform>>
      BY <2>1
  <2>2. PICK l \in 1 .. Len(all) : \E p \in 1 .. Len(images(l)) :
            /\ D[i] = Relabelled(images(l)[p], all[l].index)
            /\ D[i].uniform = <<all[l].index, images(l)[p].uniform>>
            /\ D[i].file = None => D[i].resolved = None
      BY <1>13, <1>14
  <2>8. PICK p \in 1 .. Len(images(l)) :
            /\ D[i] = Relabelled(images(l)[p], all[l].index)
            /\ D[i].uniform = <<all[l].index, images(l)[p].uniform>>
      BY <2>2
  <2>3. all[k].index = all[l].index /\ images(k)[j].uniform = images(l)[p].uniform
    <3>1. <<all[k].index, images(k)[j].uniform>> = <<all[l].index, images(l)[p].uniform>>
        BY <1>14, <2>7, <2>8
    <3> QED
        BY ONLY <3>1
  <2>4. k = l
      BY <2>3
  <2>5. j = p
      BY <1>3, <2>3, <2>4 DEF Listed
  <2>6. D[h] = D[i]
      BY <2>7, <2>8, <2>4, <2>5
  <2> QED
      BY <1>11, <2>6 DEF Distinct
<1>15. Listed(D)
    BY <1>11, <1>13, <1>14 DEF Listed
<1> QED
    BY <1>12, <1>15 DEF D, images

-----------------------------------------------------------------------------
(* Every step keeps it.                                                     *)

LEMMA MaterialsInit ==
  ASSUME Init
  PROVE  MaterialsInv
<1> USE DEF Init
<1>1. PoolIs(pool)
  <2>1. IsSeq(<<>>) /\ Len(<<>>) = 0 /\ 1 .. 0 = {}
      BY Empty
  <2>2. <<>> = [i \in 1 .. Len(<<>>) |-> DecodePoolImage(<<>>[i], 0)]
      BY <2>1 DEF IsSeq
  <2> QED
      BY <2>1, <2>2 DEF PoolIs
<1>2. /\ IsSeq(<<>>) /\ DOMAIN <<>> = {} /\ <<>> = [m \in {} |-> entry[m]]
    BY Empty DEF IsSeq
<1>3. TypeInv
    BY <1>1, <1>2 DEF TypeInv
<1>4. CacheInv /\ EntryInv /\ BatchInv /\ PhaseInv /\ DomeInv /\ LibraryInv /\ PublishedInv
    BY <1>2 DEF CacheInv, EntryInv, BatchInv, PhaseInv, DomeInv, LibraryInv, PublishedInv
<1> QED
    BY <1>3, <1>4 DEF MaterialsInv

\* A publication that is current stays so while nothing it shows changes.
LEMMA StillPublished ==
  ASSUME PublishedInv, UNCHANGED <<entry, domeSlot, pool, published>>, ~stale' => ~stale
  PROVE  PublishedInv'
<1>1. Shown' = Shown
    BY DEF Shown
<1>2. Keys' = Keys
    BY <1>1 DEF Keys, Mapped
<1>3. Table' = Table
    BY <1>1, <1>2 DEF Table, Mapped, SelectInSeq
<1>4. MaterialIndex' = MaterialIndex
    BY <1>1, <1>2 DEF MaterialIndex, SelectInSeq
<1>5. TraversalMade(Table)' = TraversalMade(Table)
    BY <1>3
<1>6. Holds(pool, published.slots, published.traversal.textures)'
        <=> Holds(pool, published.slots, published.traversal.textures)
    BY DEF Holds
<1> QED
    BY <1>3, <1>4, <1>5, <1>6 DEF PublishedInv

LEMMA StateNetworkKeeps ==
  ASSUME MaterialsInv, NEW m \in ToSet(Ids), NEW n \in Networks \union {None}, StateNetwork(m, n)
  PROVE  MaterialsInv'
<1> USE DEF MaterialsInv
<1>1. /\ at = "idle" /\ at' = at /\ network' = [network EXCEPT ![m] = n]
      /\ UNCHANGED <<map, quality, domeSlot, compiled, cache, library, pool, published>>
      /\ IF n = None
         THEN /\ entry' = [x \in DOMAIN entry \ {m} |-> entry[x]]
              /\ stale' = (stale \/ m \in DOMAIN entry)
              /\ dirty' = dirty \ {m}
         ELSE dirty' = dirty \union {m} /\ UNCHANGED <<entry, stale>>
    BY DEF StateNetwork, Edit
<1>2. m # "dome"
    BY IdsAreSeq
<1>3. TypeInv'
    BY <1>1 DEF TypeInv
<1>4. \A x \in ToSet(Ids) : network'[x] = IF x = m THEN n ELSE network[x]
    BY <1>1 DEF TypeInv
<1>5. CacheInv'
    BY <1>1 DEF CacheInv
<1>6. BatchInv' /\ PhaseInv' /\ LibraryInv'
    BY <1>1 DEF BatchInv, PhaseInv, LibraryInv
<1>7. DomeInv'
    BY <1>1, <1>2 DEF DomeInv
<1>8. EntryInv'
  <2> SUFFICES ASSUME NEW x \in ToSet(Ids)
               PROVE  /\ x \in dirty' => network'[x] # None
                      /\ x \notin dirty' =>
                           /\ x \in DOMAIN entry' <=> network'[x] # None
                           /\ x \in DOMAIN entry' =>
                                IF entry'[x].pending THEN entry'[x].network = network'[x]
                                ELSE Settled(pool, entry'[x], network'[x])
      BY <1>1 DEF EntryInv
  <2>1. CASE n = None /\ x = m
      BY <1>1, <1>4, <2>1
  <2>2. CASE n # None /\ x = m
      BY <1>1, <1>4, <2>2
  <2>3. CASE x # m
    <3>1. /\ x \in dirty' <=> x \in dirty
          /\ x \in DOMAIN entry' <=> x \in DOMAIN entry
          /\ x \in DOMAIN entry => entry'[x] = entry[x]
          /\ network'[x] = network[x]
        BY <1>1, <1>4, <2>3
    <3> QED
        BY <3>1 DEF EntryInv
  <2> QED
      BY <2>1, <2>2, <2>3
<1>9. PublishedInv'
  <2>1. CASE n = None /\ m \notin DOMAIN entry
    <3>1. entry' = entry
      <4>1. DOMAIN entry \ {m} = DOMAIN entry
          BY <2>1
      <4> QED
          BY <1>1, <2>1, <4>1 DEF TypeInv
    <3>2. ~stale' => ~stale
      <4>1. stale' = (stale \/ m \in DOMAIN entry)
          BY <1>1, <2>1
      <4> QED
          BY <4>1, Zenon
    <3>3. UNCHANGED <<entry, domeSlot, pool, published>>
        BY <1>1, <3>1
    <3> QED
        BY <3>2, <3>3, StillPublished
  <2>2. CASE n = None /\ m \in DOMAIN entry
      BY <1>1, <2>2 DEF PublishedInv
  <2>3. CASE n # None
      BY <1>1, <2>3, StillPublished
  <2> QED
      BY <2>1, <2>2, <2>3
<1> QED
    BY <1>3, <1>5, <1>6, <1>7, <1>8, <1>9

LEMMA HostKeeps ==
  ASSUME MaterialsInv,
         \/ \E f \in Maps \union {None} : StateMap(f)
         \/ \E q \in Qualities : StateQuality(q)
  PROVE  MaterialsInv'
<1> USE DEF MaterialsInv
<1>1. /\ at = "idle" /\ UNCHANGED <<network, at, entry, domeSlot, compiled, cache, library, pool, stale, published>>
      /\ \/ map' = map /\ dirty' = dirty
         \/ dirty' = dirty \union {"dome"}
    BY DEF StateMap, StateQuality, Edit, Unsynced, store
<1>2. "dome" \notin ToSet(Ids)
    BY IdsAreSeq
<1>3. TypeInv' /\ CacheInv' /\ BatchInv' /\ PhaseInv' /\ DomeInv' /\ LibraryInv'
    BY <1>1 DEF TypeInv, CacheInv, BatchInv, PhaseInv, DomeInv, LibraryInv
<1>4. EntryInv'
  <2>1. \A x \in ToSet(Ids) : x \in dirty' <=> x \in dirty
      BY <1>1, <1>2
  <2> QED
      BY <1>1, <2>1 DEF EntryInv
<1>5. PublishedInv'
    BY <1>1, StillPublished
<1> QED
    BY <1>3, <1>4, <1>5

LEMMA SyncMaterialKeeps ==
  ASSUME MaterialsInv, NEW m \in ToSet(Ids), SyncMaterial(m)
  PROVE  MaterialsInv'
<1> USE DEF MaterialsInv
<1>1. /\ at = "idle" /\ m \in dirty /\ stale' = TRUE /\ dirty' = dirty \ {m}
      /\ entry' = [x \in DOMAIN entry \union {m} |->
                     IF x = m THEN [pending |-> TRUE, network |-> network[m]] ELSE entry[x]]
      /\ UNCHANGED <<network, map, quality, at, domeSlot, compiled, cache, library, pool, published>>
    BY DEF SyncMaterial, host
<1>2. m # "dome"
    BY IdsAreSeq
<1>3. TypeInv'
    BY <1>1 DEF TypeInv
<1>4. CacheInv' /\ BatchInv' /\ PhaseInv' /\ DomeInv' /\ LibraryInv' /\ PublishedInv'
    BY <1>1, <1>2 DEF CacheInv, BatchInv, PhaseInv, DomeInv, LibraryInv, PublishedInv
<1>5. EntryInv'
  <2> SUFFICES ASSUME NEW x \in ToSet(Ids)
               PROVE  /\ x \in dirty' => network[x] # None
                      /\ x \notin dirty' =>
                           /\ x \in DOMAIN entry' <=> network[x] # None
                           /\ x \in DOMAIN entry' =>
                                IF entry'[x].pending THEN entry'[x].network = network[x]
                                ELSE Settled(pool, entry'[x], network[x])
      BY <1>1 DEF EntryInv
  <2>1. CASE x = m
    <3>1. network[m] # None /\ m \in DOMAIN entry' /\ entry'[m] = [pending |-> TRUE, network |-> network[m]]
        BY <1>1 DEF EntryInv
    <3> QED
        BY <1>1, <2>1, <3>1
  <2>2. CASE x # m
    <3>1. /\ x \in dirty' <=> x \in dirty
          /\ x \in DOMAIN entry' <=> x \in DOMAIN entry
          /\ x \in DOMAIN entry => entry'[x] = entry[x]
        BY <1>1, <2>2
    <3> QED
        BY <3>1 DEF EntryInv
  <2> QED
      BY <2>1, <2>2
<1> QED
    BY <1>3, <1>4, <1>5

\* What is settled stays so in a pool that grew.
LEMMA StaysSettled ==
  ASSUME NEW p, NEW q, PoolIs(p), PoolIs(q), Grows(p, q), NEW e, NEW n, Settled(p, e, n)
  PROVE  Settled(q, e, n)
<1>1. Len(p.sources) \in Nat /\ Len(q.sources) \in Nat
    BY IsSeqOfItsOwn DEF PoolIs
<1> QED
    BY <1>1, StillHolds DEF Settled

LEMMA EntriesStay ==
  ASSUME EntryInv, PoolIs(pool), PoolIs(pool'), Grows(pool, pool'), UNCHANGED <<network, entry>>,
         \A m \in ToSet(Ids) : m \in dirty' <=> m \in dirty
  PROVE  EntryInv'
<1>1. \A m \in ToSet(Ids) : m \in DOMAIN entry /\ Settled(pool, entry[m], network[m])
                              => Settled(pool', entry[m], network[m])
    BY StaysSettled
<1> QED
    BY <1>1 DEF EntryInv

LEMMA SyncDomeKeeps ==
  ASSUME MaterialsInv, SyncDome
  PROVE  MaterialsInv'
<1> USE DEF MaterialsInv
<1>1. /\ at = "idle" /\ stale' = TRUE /\ dirty' = dirty \ {"dome"}
      /\ pool' = IF map = None THEN pool ELSE AcquireAll(<<DomeRequest(map)>>)
      /\ domeSlot' = IF map = None THEN None ELSE Slot(pool', DomeRequest(map))
      /\ UNCHANGED <<network, map, quality, at, entry, compiled, cache, library, published>>
    BY DEF SyncDome, host
<1>2. PoolIs(pool) /\ "dome" \notin ToSet(Ids)
    BY IdsAreSeq DEF TypeInv
<1>3. /\ PoolIs(pool') /\ Grows(pool, pool')
      /\ map # None => domeSlot' \in 1 .. Len(pool'.sources) /\ pool'.sources[domeSlot'] = DomeRequest(map)
  <2>1. CASE map = None
    <3>1. Len(pool.sources) \in Nat
        BY <1>2, IsSeqOfItsOwn DEF PoolIs
    <3> QED
        BY <1>1, <1>2, <2>1, <3>1 DEF Grows
  <2>2. CASE map # None
    <3> DEFINE requests == <<DomeRequest(map)>>
    <3>1. IsSeq(requests) /\ ToSet(requests) = {DomeRequest(map)}
        BY One
    <3> HIDE DEF requests
    <3>2. /\ PoolIs(AcquireAll(requests)) /\ Grows(pool, AcquireAll(requests))
          /\ ToSet(requests) \subseteq ToSet(AcquireAll(requests).sources)
        BY <1>2, <3>1, Acquired
    <3>3. pool' = AcquireAll(requests)
        BY <1>1, <2>2 DEF requests
    <3>4. IsSeq(pool'.sources) /\ DomeRequest(map) \in ToSet(pool'.sources)
        BY <3>1, <3>2, <3>3 DEF PoolIs
    <3>5. /\ Slot(pool', DomeRequest(map)) \in 1 .. Len(pool'.sources)
          /\ pool'.sources[Slot(pool', DomeRequest(map))] = DomeRequest(map)
        BY <3>4, SlotIs
    <3> QED
        BY <1>1, <2>2, <3>2, <3>3, <3>5
  <2> QED
      BY <2>1, <2>2
<1>4. TypeInv'
    BY <1>1, <1>3 DEF TypeInv
<1>5. CacheInv' /\ BatchInv' /\ PhaseInv' /\ LibraryInv' /\ PublishedInv'
    BY <1>1 DEF CacheInv, BatchInv, PhaseInv, LibraryInv, PublishedInv
<1>6. DomeInv'
    BY <1>1, <1>3 DEF DomeInv
<1>7. EntryInv'
    BY <1>1, <1>2, <1>3, EntriesStay
<1> QED
    BY <1>4, <1>5, <1>6, <1>7

LEMMA ApplyQualityKeeps ==
  ASSUME MaterialsInv, ApplyQuality
  PROVE  MaterialsInv'
<1> USE DEF MaterialsInv
<1> DEFINE cap == HdClaudeTextureEdgeCap(quality)
<1>1. /\ at = "idle" /\ dirty = {} /\ at' = "compile"
      /\ IF cap = pool.maxEdge THEN UNCHANGED <<pool, stale>> ELSE pool' = SetMaxEdge(cap) /\ stale' = TRUE
      /\ UNCHANGED <<network, map, quality, dirty, entry, domeSlot, compiled, cache, library, published>>
    BY DEF ApplyQuality, host, store
<1>2. PoolIs(pool) /\ Len(pool.sources) \in Nat
    BY IsSeqOfItsOwn DEF TypeInv, PoolIs
<1>3. /\ PoolIs(pool') /\ pool'.maxEdge = cap /\ pool'.sources = pool.sources /\ Grows(pool, pool')
  <2>1. CASE cap = pool.maxEdge
      BY <1>1, <1>2, <2>1 DEF Grows
  <2>2. CASE cap # pool.maxEdge
    <3> HIDE DEF cap
    <3>1. /\ PoolIs(SetMaxEdge(cap)) /\ SetMaxEdge(cap).sources = pool.sources
          /\ SetMaxEdge(cap).maxEdge = cap
        BY <1>2, EdgeIsSet
    <3>2. pool' = SetMaxEdge(cap)
        BY <1>1, <2>2
    <3> QED
        BY <1>2, <3>1, <3>2 DEF Grows
  <2> QED
      BY <2>1, <2>2
<1>4. TypeInv'
    BY <1>1, <1>3 DEF TypeInv
<1>5. CacheInv' /\ DomeInv' /\ LibraryInv'
    BY <1>1, <1>3 DEF CacheInv, DomeInv, LibraryInv
<1>6. PhaseInv'
    BY <1>1, <1>3 DEF PhaseInv
<1>7. BatchInv'
  <2>1. compiled = <<>> /\ Len(compiled) = 0
      BY <1>1, Empty DEF BatchInv
  <2>2. BoundPendingMaterials' = BoundPendingMaterials
      BY <1>1 DEF BoundPendingMaterials
  <2>3. Len(BoundPendingMaterials) \in Nat
      BY PendingAre, IsSeqOfItsOwn
  <2> QED
      BY <1>1, <2>1, <2>2, <2>3 DEF BatchInv
<1>8. EntryInv'
    BY <1>1, <1>2, <1>3, EntriesStay
<1>9. PublishedInv'
  <2>1. CASE cap = pool.maxEdge
      BY <1>1, <2>1, StillPublished
  <2>2. CASE cap # pool.maxEdge
      BY <1>1, <2>2 DEF PublishedInv
  <2> QED
      BY <2>1, <2>2
<1> QED
    BY <1>4, <1>5, <1>6, <1>7, <1>8, <1>9

LEMMA Appended ==
  ASSUME NEW s, IsSeq(s), NEW x
  PROVE  /\ IsSeq(Append(s, x)) /\ Len(Append(s, x)) = Len(s) + 1
         /\ \A i \in 1 .. Len(s) : Append(s, x)[i] = s[i]
         /\ Append(s, x)[Len(s) + 1] = x
<1> DEFINE S == ToSet(s) \union {x}
<1>1. s \in Seq(ToSet(s)) /\ ToSet(s) \subseteq S /\ Len(s) \in Nat
    BY IsSeqOfItsOwn
<1> HIDE DEF S
<1>2. s \in Seq(S)
    BY <1>1, SeqMonotonic
<1>3. x \in S
    BY DEF S
<1>4. /\ Append(s, x) \in Seq(S) /\ Len(Append(s, x)) = Len(s) + 1
      /\ \A i \in 1 .. Len(s) + 1 : Append(s, x)[i] = IF i <= Len(s) THEN s[i] ELSE x
    BY <1>1, <1>2, <1>3
<1>5. IsSeq(Append(s, x))
    BY <1>4, SeqIsSeq
<1> QED
    BY <1>1, <1>4, <1>5

LEMMA CompileKeeps ==
  ASSUME MaterialsInv, Compile
  PROVE  MaterialsInv'
<1> USE DEF MaterialsInv
<1> DEFINE m == BoundPendingMaterials[Len(compiled) + 1]
           key == NetworkContentKey(entry[m].network)
           result == IF key \in DOMAIN cache THEN cache[key] ELSE CompileUncached(entry[m].network)
           new == [id |-> m, key |-> key, result |-> result]
<1>1. /\ at = "compile" /\ Len(compiled) < Len(BoundPendingMaterials)
      /\ compiled' = Append(compiled, new)
      /\ cache' = IF key \in DOMAIN cache THEN cache
                  ELSE [k \in DOMAIN cache \union {key} |-> IF k = key THEN result ELSE cache[k]]
      /\ UNCHANGED <<network, map, quality, dirty, at, entry, domeSlot, library, pool, stale, published>>
    BY DEF Compile, host, store
<1>2. /\ IsSeq(compiled) /\ Len(compiled) \in Nat /\ IsSeq(BoundPendingMaterials)
      /\ Len(BoundPendingMaterials) \in Nat
    BY PendingAre, IsSeqOfItsOwn DEF TypeInv
<1>3. m \in ToSet(Ids) /\ m \in DOMAIN entry /\ entry[m].pending
  <2>1. Len(compiled) + 1 \in 1 .. Len(BoundPendingMaterials)
      BY <1>1, <1>2
  <2>2. m \in ToSet(BoundPendingMaterials)
      BY <1>2, <2>1, IsSeqOfItsOwn
  <2> HIDE DEF m
  <2> QED
      BY <2>2, PendingAre
<1> HIDE DEF m
<1>4. entry[m].network = network[m] /\ network[m] \in Networks
  <2>1. m \notin dirty
      BY <1>1 DEF PhaseInv
  <2> QED
      BY <1>3, <2>1 DEF EntryInv, TypeInv
<1>5. key = NetworkContentKey(network[m]) /\ Made(key, result)
  <2>1. CASE key \in DOMAIN cache
      BY <1>4, <2>1 DEF CacheInv
  <2>2. CASE key \notin DOMAIN cache
      BY <1>4, <2>2 DEF Made
  <2> QED
      BY <1>4, <2>1, <2>2
<1> HIDE DEF key, result
<1>6. CacheInv'
    BY <1>1, <1>5 DEF CacheInv
<1>7. /\ IsSeq(compiled') /\ Len(compiled') = Len(compiled) + 1
      /\ \A i \in 1 .. Len(compiled) : compiled'[i] = compiled[i]
      /\ compiled'[Len(compiled) + 1] = new
  <2> HIDE DEF new
  <2> QED
      BY <1>1, <1>2, Appended
<1>8. BatchInv'
  <2>1. BoundPendingMaterials' = BoundPendingMaterials
      BY <1>1 DEF BoundPendingMaterials
  <2>2. ASSUME NEW k \in 1 .. Len(compiled')
        PROVE  /\ compiled'[k].id = BoundPendingMaterials[k]
               /\ compiled'[k].key = NetworkContentKey(network[compiled'[k].id])
               /\ Made(compiled'[k].key, compiled'[k].result)
    <3>1. CASE k \in 1 .. Len(compiled)
        BY <1>1, <1>7, <3>1 DEF BatchInv
    <3>2. CASE k = Len(compiled) + 1
      <4>1. compiled'[k] = new
          BY <1>7, <3>2
      <4>2. new.id = m /\ new.key = key /\ new.result = result
          BY DEF new
      <4> HIDE DEF new
      <4> QED
          BY <1>5, <3>2, <4>1, <4>2 DEF m
    <3> QED
        BY <1>2, <1>7, <3>1, <3>2
  <2>3. Len(compiled') <= Len(BoundPendingMaterials)
      BY <1>1, <1>2, <1>7
  <2> HIDE DEF new
  <2> QED
      BY <1>1, <2>1, <2>2, <2>3 DEF BatchInv
<1>9. TypeInv'
    BY <1>1, <1>7 DEF TypeInv
<1>10. EntryInv' /\ PhaseInv' /\ DomeInv' /\ LibraryInv'
    BY <1>1 DEF EntryInv, PhaseInv, DomeInv, LibraryInv
<1>11. PublishedInv'
    BY <1>1, StillPublished
<1> QED
    BY <1>6, <1>8, <1>9, <1>10, <1>11

LEMMA DomeStays ==
  ASSUME DomeInv, PoolIs(pool), PoolIs(pool'), Grows(pool, pool'), UNCHANGED <<map, dirty, domeSlot>>
  PROVE  DomeInv'
<1>1. SUFFICES ASSUME "dome" \notin dirty, map # None
               PROVE  domeSlot \in 1 .. Len(pool'.sources) /\ pool'.sources[domeSlot] = DomeRequest(map)
    BY DEF DomeInv, DomeRequest
<1>2. domeSlot \in 1 .. Len(pool.sources) /\ pool.sources[domeSlot] = DomeRequest(map)
    BY <1>1 DEF DomeInv
<1>3. Len(pool.sources) \in Nat /\ Len(pool'.sources) \in Nat
    BY IsSeqOfItsOwn DEF PoolIs
<1>4. /\ Len(pool.sources) <= Len(pool'.sources)
      /\ \A i \in 1 .. Len(pool.sources) : pool'.sources[i] = pool.sources[i]
    BY DEF Grows
<1> QED
    BY <1>2, <1>3, <1>4

LEMMA AcquireTexturesKeeps ==
  ASSUME MaterialsInv, AcquireTextures
  PROVE  MaterialsInv'
<1> USE DEF MaterialsInv
<1> DEFINE requests == Requests(compiled)
           slots == Slots(pool', requests)
           at_(m) == SelectInSeq(compiled, LAMBDA c : c.id = m)
<1>1. /\ at = "compile" /\ Len(compiled) = Len(BoundPendingMaterials) /\ at' = "publish"
      /\ pool' = AcquireAll(requests)
      /\ entry' = [m \in DOMAIN entry |->
                     IF at_(m) = 0 THEN entry[m] ELSE Dealt(compiled, at_(m), slots)]
      /\ stale' = (stale \/ compiled # <<>>) /\ compiled' = <<>>
      /\ UNCHANGED <<network, map, quality, dirty, domeSlot, cache, library, published>>
    BY DEF AcquireTextures, host
<1>2. /\ IsSeq(compiled) /\ Len(compiled) \in Nat /\ PoolIs(pool) /\ IsSeq(BoundPendingMaterials)
      /\ dirty = {}
    BY <1>1, PendingAre, IsSeqOfItsOwn DEF TypeInv, PhaseInv
<1>3. \A k \in 1 .. Len(compiled) :
         /\ compiled[k].id = BoundPendingMaterials[k]
         /\ compiled[k].key = NetworkContentKey(network[compiled[k].id])
         /\ Made(compiled[k].key, compiled[k].result)
         /\ IsSeq(compiled[k].result.surface.textures)
         /\ IsSeq(compiled[k].result.displace.textures)
    BY <1>1, MadeIsSeq DEF BatchInv
<1>4. IsSeq(requests) /\ (compiled = <<>> => requests = <<>>)
    BY <1>2, <1>3, RequestsAre
<1> HIDE DEF requests, slots
<1>5. /\ PoolIs(pool') /\ Grows(pool, pool') /\ pool'.maxEdge = pool.maxEdge
      /\ ToSet(requests) \subseteq ToSet(pool'.sources)
      /\ requests = <<>> => pool' = pool
    BY <1>1, <1>2, <1>4, Acquired
<1>6. Holds(pool', slots, requests)
  <2>1. IsSeq(pool'.sources)
      BY <1>5 DEF PoolIs
  <2> QED
      BY <1>4, <1>5, <2>1, SlotsHold DEF slots
<1>7. ASSUME NEW m
      PROVE  IF \E k \in 1 .. Len(compiled) : compiled[k].id = m
             THEN at_(m) \in 1 .. Len(compiled) /\ compiled[at_(m)].id = m
             ELSE at_(m) = 0
  <2> DEFINE I == {k \in 1 .. Len(compiled) : compiled[k].id = m}
  <2>1. at_(m) = IF I # {} THEN Min(I) ELSE 0
      BY DEF SelectInSeq
  <2>2. I \in SUBSET Nat
      OBVIOUS
  <2>3. I # {} => Min(I) \in I
    <3> HIDE DEF I
    <3> QED
        BY <2>2, MinIs
  <2> HIDE DEF at_
  <2> QED
      BY <2>1, <2>3
<1> HIDE DEF at_
<1>8. ASSUME NEW m \in ToSet(Ids), m \in DOMAIN entry
      PROVE  entry'[m] = (IF entry[m].pending THEN Dealt(compiled, at_(m), slots) ELSE entry[m])
             /\ (entry[m].pending => at_(m) \in 1 .. Len(compiled) /\ compiled[at_(m)].id = m)
  <2>1. entry'[m] = IF at_(m) = 0 THEN entry[m] ELSE Dealt(compiled, at_(m), slots)
      BY <1>1, <1>8
  <2>2. CASE entry[m].pending
    <3>1. m \in ToSet(BoundPendingMaterials)
        BY <1>8, <2>2, PendingAre
    <3>2. PICK k \in 1 .. Len(BoundPendingMaterials) : BoundPendingMaterials[k] = m
        BY <1>2, <3>1, IsSeqOfItsOwn
    <3>3. compiled[k].id = m /\ k \in 1 .. Len(compiled)
        BY <1>1, <1>3, <3>2
    <3>4. at_(m) \in 1 .. Len(compiled) /\ compiled[at_(m)].id = m
        BY <1>7, <3>3
    <3>5. at_(m) # 0
        BY <3>4
    <3> QED
        BY <2>1, <2>2, <3>4, <3>5
  <2>3. CASE ~entry[m].pending
    <3>1. ASSUME NEW k \in 1 .. Len(compiled), compiled[k].id = m PROVE FALSE
      <4>1. m \in ToSet(BoundPendingMaterials)
          BY <1>1, <1>2, <1>3, <3>1, IsSeqOfItsOwn
      <4> QED
          BY <2>3, <4>1, PendingAre
    <3>2. at_(m) = 0
        BY <1>7, <3>1
    <3> QED
        BY <2>1, <2>3, <3>2
  <2> QED
      BY <2>2, <2>3
<1>9. DOMAIN entry' = DOMAIN entry /\ entry' = [m \in DOMAIN entry' |-> entry'[m]]
    BY <1>1
<1>10. ASSUME NEW m \in ToSet(Ids), m \in DOMAIN entry
       PROVE  ~entry'[m].pending /\ Settled(pool', entry'[m], network[m])
  <2>1. CASE entry[m].pending
    <3> DEFINE k == at_(m)
               d == Dealt(compiled, k, slots)
    <3>1. k \in 1 .. Len(compiled) /\ compiled[k].id = m /\ entry'[m] = d
        BY <1>8, <1>10, <2>1
    <3> HIDE DEF k
    <3>2. /\ ~d.pending /\ d.key = compiled[k].key /\ d.compiled = compiled[k].result
          /\ Holds(pool', d.slots, compiled[k].result.surface.textures)
          /\ Holds(pool', d.displaceSlots, compiled[k].result.displace.textures)
        BY <1>2, <1>3, <1>6, <3>1, DealtHolds DEF requests
    <3> HIDE DEF d
    <3> QED
        BY <1>3, <3>1, <3>2 DEF Settled
  <2>2. CASE ~entry[m].pending
    <3>1. entry'[m] = entry[m]
        BY <1>8, <1>10, <2>2
    <3>2. Settled(pool, entry[m], network[m])
        BY <1>2, <1>10, <2>2 DEF EntryInv
    <3>3. Settled(pool', entry[m], network[m])
        BY <1>2, <1>5, <3>2, StaysSettled
    <3> QED
        BY <2>2, <3>1, <3>3
  <2> QED
      BY <2>1, <2>2
<1>11. EntryInv'
    BY <1>1, <1>2, <1>9, <1>10 DEF EntryInv
<1>12. TypeInv'
    BY <1>1, <1>5, <1>9, Empty DEF TypeInv
<1>13. CacheInv' /\ BatchInv' /\ LibraryInv'
    BY <1>1 DEF CacheInv, BatchInv, LibraryInv
<1>14. PhaseInv'
  <2>1. pool'.maxEdge = HdClaudeTextureEdgeCap(quality)
      BY <1>1, <1>5 DEF PhaseInv
  <2>2. \A m \in DOMAIN entry' : ~entry'[m].pending
      BY <1>9, <1>10 DEF TypeInv
  <2> QED
      BY <1>1, <1>2, <2>1, <2>2 DEF PhaseInv
<1>15. DomeInv'
    BY <1>1, <1>2, <1>5, DomeStays
<1>16. PublishedInv'
  <2>1. CASE compiled = <<>>
    <3>1. pool' = pool
        BY <1>4, <1>5, <2>1
    <3>2. Len(compiled) = 0
        BY <2>1, Empty
    <3>3. \A m : at_(m) = 0
        BY <1>7, <3>2
    <3>4. entry' = entry
      <4>1. entry' = [m \in DOMAIN entry |-> entry[m]]
          BY <1>1, <3>3
      <4> QED
          BY <4>1 DEF TypeInv
    <3>5. ~stale' => ~stale
      <4>1. stale' = (stale \/ compiled # <<>>)
          BY <1>1
      <4> QED
          BY <4>1, Zenon
    <3>6. UNCHANGED <<entry, domeSlot, pool, published>>
        BY <1>1, <3>1, <3>4
    <3> QED
        BY <3>5, <3>6, StillPublished
  <2>2. CASE compiled # <<>>
      BY <1>1, <2>2 DEF PublishedInv
  <2> QED
      BY <2>1, <2>2
<1> QED
    BY <1>11, <1>12, <1>13, <1>14, <1>15, <1>16

\* What the library is compiled to is a function of the table, kept or not.
LEMMA LibraryIs ==
  ASSUME LibraryInv, NEW table
  PROVE  /\ CompileTraversal(table).traversal = TraversalMade(table)
         /\ LET kept == CompileTraversal(table).library
            IN  kept.key = <<>> \/ kept.traversal = TraversalOf(kept.key)
<1>1. CASE Cut(table) \o Media(table) = <<>>
    BY <1>1 DEF CompileTraversal, TraversalMade, LibraryInv
<1>2. CASE Cut(table) \o Media(table) # <<>>
  <2> DEFINE made == IF library.key = TraversalKey(table) THEN library.traversal ELSE Traversal(table)
  <2>1. /\ CompileTraversal(table).traversal = made
        /\ CompileTraversal(table).library = [key |-> TraversalKey(table), traversal |-> made]
      BY <1>2 DEF CompileTraversal
  <2>2. TraversalKey(table).cutout = Cut(table) /\ TraversalKey(table).volume = Media(table)
      BY DEF TraversalKey, Cut, Media
  <2>3. TraversalOf(TraversalKey(table)) = Traversal(table)
      BY <2>2 DEF TraversalOf, Traversal, DocumentOf, OpacityLibraryDocument
  <2>4. TraversalKey(table) # <<>>
    <3>1. "cutout" \in DOMAIN TraversalKey(table) /\ DOMAIN <<>> = {}
        BY Empty DEF TraversalKey, IsSeq
    <3> QED
        BY <3>1
  <2>5. made = Traversal(table)
      BY <2>3, <2>4 DEF LibraryInv
  <2> HIDE DEF made
  <2>6. TraversalMade(table) = Traversal(table)
      BY <1>2 DEF TraversalMade
  <2> QED
      BY <2>1, <2>3, <2>5, <2>6
<1> QED
    BY <1>1, <1>2

\* The document of a table, of which every image is some asker's.
LEMMA TableDocument ==
  ASSUME AllSettled
  PROVE  LET all == Cut(Table) \o Media(Table)
         IN  /\ MembersInv(all) /\ OpacityLibraryDocument(Table) = DocumentOf(all)
             /\ Listed(DocumentOf(all))
             /\ \A x : x \in ToSet(DocumentOf(all)) <=>
                  \E k \in 1 .. Len(all) : \E j \in 1 .. Len(all[k].of.images) :
                     x = Relabelled(all[k].of.images[j], all[k].index)
<1> DEFINE all == Cut(Table) \o Media(Table)
<1>1. MembersInv(all)
    BY MembersTogether
<1>2. OpacityLibraryDocument(Table) = DocumentOf(all)
    BY DEF OpacityLibraryDocument, DocumentOf
<1> HIDE DEF all
<1>3. /\ IsSeq(all) /\ \A i, j \in 1 .. Len(all) : all[i].index = all[j].index => i = j
    BY <1>1 DEF MembersInv
<1>4. ASSUME NEW k \in 1 .. Len(all)
      PROVE  /\ Listed(all[k].of.images)
             /\ \A i \in 1 .. Len(all[k].of.images) : DOMAIN (all[k].of.images[i]) = ImageFields
  <2>1. all[k] \in ToSet(all)
      BY <1>3, IsSeqOfItsOwn
  <2>2. PICK m \in CutOut \union Fog : MemberOf(all[k], m)
      BY <1>1, <2>1 DEF MembersInv
  <2>3. AllAlike(ImagesAsked(m), all[k].of.images)
      BY <2>2 DEF MemberOf
  <2>4. Listed(all[k].of.images)
      BY <2>3 DEF AllAlike
  <2> QED
      BY <2>2, <2>4 DEF MemberOf
<1>5. /\ Listed(DocumentOf(all))
      /\ \A x : x \in ToSet(DocumentOf(all)) <=>
           \E k \in 1 .. Len(all) : \E j \in 1 .. Len(all[k].of.images) :
              x = Relabelled(all[k].of.images[j], all[k].index)
    BY <1>3, <1>4, DocumentIs
<1> QED
    BY <1>1, <1>2, <1>5 DEF all

LEMMA MadeTextures ==
  ASSUME AllSettled
  PROVE  IsSeq(TraversalMade(Table).textures)
<1> DEFINE D == OpacityLibraryDocument(Table)
<1>1. Listed(D)
    BY TableDocument
<1>2. IsSeq(CollectTexturePaths(D))
    BY <1>1, PathsAre DEF Listed
<1> HIDE DEF D
<1>3. IsSeq(<<>>) /\ NoTraversal.textures = <<>>
    BY Empty DEF NoTraversal
<1>4. TraversalMade(Table) = NoTraversal \/ TraversalMade(Table) = Traversal(Table)
    BY DEF TraversalMade
<1>5. Traversal(Table) = NoTraversal \/ Traversal(Table).textures = CollectTexturePaths(D)
    BY DEF Traversal, D
<1> QED
    BY <1>2, <1>3, <1>4, <1>5

LEMMA PublishKeeps ==
  ASSUME MaterialsInv, Publish
  PROVE  MaterialsInv'
<1> USE DEF MaterialsInv
<1> DEFINE made == CompileTraversal(Table)
           requests == made.traversal.textures
<1>1. /\ at = "publish" /\ stale /\ stale' = FALSE /\ at' = "traced"
      /\ library' = made.library /\ pool' = AcquireAll(requests)
      /\ published' = [table |-> Table, index |-> MaterialIndex, textures |-> pool'.images, dome |-> domeSlot,
                       traversal |-> made.traversal, slots |-> Slots(pool', requests)]
      /\ UNCHANGED <<network, map, quality, dirty, entry, domeSlot, compiled, cache>>
    BY DEF Publish, host, store
<1>2. PoolIs(pool) /\ dirty = {} /\ AllSettled
    BY <1>1, AllAreSettled DEF TypeInv, PhaseInv
<1>3. /\ made.traversal = TraversalMade(Table)
      /\ made.library.key = <<>> \/ made.library.traversal = TraversalOf(made.library.key)
    BY LibraryIs
<1>4. IsSeq(requests)
    BY <1>2, <1>3, MadeTextures
<1> HIDE DEF made
<1>5. LibraryInv'
    BY <1>1, <1>3 DEF LibraryInv
<1>6. /\ published'.table = Table /\ published'.index = MaterialIndex
      /\ published'.textures = pool'.images /\ published'.dome = domeSlot
      /\ published'.traversal = TraversalMade(Table) /\ published'.traversal.textures = requests
      /\ published'.slots = Slots(pool', requests)
    BY <1>1, <1>3
<1> HIDE DEF requests
<1>7. /\ PoolIs(pool') /\ Grows(pool, pool') /\ pool'.maxEdge = pool.maxEdge
      /\ ToSet(requests) \subseteq ToSet(pool'.sources)
    BY <1>1, <1>2, <1>4, Acquired
<1>8. Holds(pool', Slots(pool', requests), requests)
  <2>1. IsSeq(pool'.sources)
      BY <1>7 DEF PoolIs
  <2> QED
      BY <1>4, <1>7, <2>1, SlotsHold
<1>9. TypeInv'
    BY <1>1, <1>7 DEF TypeInv
<1>10. CacheInv' /\ BatchInv'
    BY <1>1 DEF CacheInv, BatchInv
<1>11. PhaseInv'
    BY <1>1, <1>7 DEF PhaseInv
<1>12. DomeInv'
    BY <1>1, <1>2, <1>7, DomeStays
<1>13. EntryInv'
    BY <1>1, <1>2, <1>7, EntriesStay
<1>14. PublishedInv'
  <2>1. Shown' = Shown
      BY <1>1 DEF Shown
  <2>2. Keys' = Keys
      BY <1>1, <2>1 DEF Keys, Mapped
  <2>3. Table' = Table
      BY <1>1, <2>1, <2>2 DEF Table, Mapped, SelectInSeq
  <2>4. MaterialIndex' = MaterialIndex
      BY <1>1, <2>1, <2>2 DEF MaterialIndex, SelectInSeq
  <2>5. TraversalMade(Table)' = TraversalMade(Table)
      BY <2>3
  <2>6. Holds(pool, published.slots, published.traversal.textures)'
      BY <1>6, <1>8
  <2> QED
    <3>1. domeSlot' = domeSlot
        BY <1>1
    <3> QED
        BY <1>6, <2>3, <2>4, <2>5, <2>6, <3>1 DEF PublishedInv
<1> QED
    BY <1>5, <1>9, <1>10, <1>11, <1>12, <1>13, <1>14

LEMMA RestKeeps ==
  ASSUME MaterialsInv, KeepPublished \/ Return \/ UNCHANGED vars
  PROVE  MaterialsInv'
<1> USE DEF MaterialsInv
<1>1. UNCHANGED <<network, map, quality, dirty, entry, domeSlot, compiled, cache, library, pool, stale, published>>
    BY DEF KeepPublished, Return, vars, host, store
<1>2. \/ at' = at
      \/ at = "publish" /\ ~stale /\ at' = "traced"
      \/ at = "traced" /\ at' = "idle"
    BY DEF KeepPublished, Return, vars
<1>3. TypeInv' /\ CacheInv' /\ EntryInv' /\ DomeInv' /\ LibraryInv'
    BY <1>1, <1>2 DEF TypeInv, CacheInv, EntryInv, DomeInv, LibraryInv
<1>4. PublishedInv'
    BY <1>1, StillPublished
<1>5. PhaseInv'
    BY <1>1, <1>2 DEF PhaseInv
<1>6. BatchInv'
  <2>1. BoundPendingMaterials' = BoundPendingMaterials
      BY <1>1 DEF BoundPendingMaterials
  <2> QED
      BY <1>1, <1>2, <2>1 DEF BatchInv
<1> QED
    BY <1>3, <1>4, <1>5, <1>6

LEMMA MaterialsNext ==
  ASSUME MaterialsInv, [Next]_vars
  PROVE  MaterialsInv'
<1>1. CASE \E m \in ToSet(Ids), n \in Networks \union {None} : StateNetwork(m, n)
    BY <1>1, StateNetworkKeeps
<1>2. CASE \/ \E f \in Maps \union {None} : StateMap(f)
           \/ \E q \in Qualities : StateQuality(q)
    BY <1>2, HostKeeps
<1>3. CASE \E m \in ToSet(Ids) : SyncMaterial(m)
    BY <1>3, SyncMaterialKeeps
<1>4. CASE SyncDome
    BY <1>4, SyncDomeKeeps
<1>5. CASE ApplyQuality
    BY <1>5, ApplyQualityKeeps
<1>6. CASE Compile
    BY <1>6, CompileKeeps
<1>7. CASE AcquireTextures
    BY <1>7, AcquireTexturesKeeps
<1>8. CASE Publish
    BY <1>8, PublishKeeps
<1>9. CASE KeepPublished \/ Return \/ UNCHANGED vars
    BY <1>9, RestKeeps
<1> QED
    BY <1>1, <1>2, <1>3, <1>4, <1>5, <1>6, <1>7, <1>8, <1>9 DEF Next

-----------------------------------------------------------------------------
(* The library of a scene is of the scene's own table.                      *)

\* Materials of one index ask about images that are read alike, under one prefix.
LEMMA OneOfAnIndex ==
  ASSUME AllSettled, NEW all, MembersInv(all), NEW member \in ToSet(all),
         NEW m \in CutOut \union Fog, MaterialIndex[m] = member.index
  PROVE  MemberOf(member, m)
<1>1. PICK other \in ToSet(all) : MemberOf(other, m)
    BY DEF MembersInv
<1>2. other.index = member.index
    BY <1>1 DEF MemberOf
<1>3. IsSeq(all) /\ \A i, j \in 1 .. Len(all) : all[i].index = all[j].index => i = j
    BY DEF MembersInv
<1>4. PICK i \in 1 .. Len(all) : member = all[i]
    BY <1>3, IsSeqOfItsOwn DEF ToSet
<1>5. PICK j \in 1 .. Len(all) : other = all[j]
    BY <1>3, IsSeqOfItsOwn DEF ToSet
<1> QED
    BY <1>1, <1>2, <1>3, <1>4, <1>5

LEMMA LibraryReads ==
  ASSUME AllSettled, PoolIs(pool), pool.maxEdge = HdClaudeTextureEdgeCap(quality),
         published.textures = pool.images, published.index = MaterialIndex,
         NEW slots, Holds(pool, slots, CollectTexturePaths(OpacityLibraryDocument(Table))),
         NEW k \in 1 .. Len(TextureOrder(OpacityLibraryDocument(Table)))
  PROVE  LET sample == TextureOrder(OpacityLibraryDocument(Table))[k]
             asker  == CHOOSE m \in CutOut \union Fog : published.index[m] = sample.uniform[1]
         IN  published.textures[slots[k]] =
               Texels(ImageOf(ImagesAsked(asker), sample.uniform[2]), sample.tile)
<1> DEFINE all == Cut(Table) \o Media(Table)
           D == OpacityLibraryDocument(Table)
           order == TextureOrder(D)
           sample == order[k]
           asker == CHOOSE m \in CutOut \union Fog : published.index[m] = sample.uniform[1]
           xs == ImagesAsked(asker)
<1>1. /\ MembersInv(all) /\ Listed(D)
      /\ \A x : x \in ToSet(D) <=>
           \E p \in 1 .. Len(all) : \E j \in 1 .. Len(all[p].of.images) :
              x = Relabelled(all[p].of.images[j], all[p].index)
    BY TableDocument
<1>2. IsSeq(D) /\ IsSeq(order)
    BY <1>1, OrderIs DEF Listed
<1>3. k \in 1 .. Len(order) /\ Holds(pool, slots, CollectTexturePaths(D))
    OBVIOUS
<1> HIDE DEF all, D
<1>4. sample \in ToSet(order)
  <2> HIDE DEF order
  <2> QED
      BY <1>2, <1>3, IsSeqOfItsOwn
<1>5. PICK i \in 1 .. Len(D) : /\ sample.uniform = D[i].uniform /\ sample.tile \in TilesRead(D[i])
                               /\ ImageOf(D, sample.uniform) = D[i]
    BY <1>1, <1>4, SampleIsOf
<1>6. /\ CollectTexturePaths(D)[k] = KeyOf(ImageOf(D, sample.uniform), sample.tile)
      /\ Len(CollectTexturePaths(D)) = Len(order)
    BY <1>2, <1>3, PathsAre
<1> HIDE DEF order
<1>7. D[i] \in ToSet(D)
    BY <1>2, IsSeqOfItsOwn
<1>8. PICK p \in 1 .. Len(all) : \E j \in 1 .. Len(all[p].of.images) :
             D[i] = Relabelled(all[p].of.images[j], all[p].index)
    BY <1>1, <1>7
<1> DEFINE member == all[p]
           ys == member.of.images
<1>9. PICK j \in 1 .. Len(ys) : D[i] = Relabelled(ys[j], member.index)
    BY <1>8
<1>10. member \in ToSet(all)
    BY <1>1, IsSeqOfItsOwn DEF MembersInv
<1>11. PICK o \in CutOut \union Fog : MemberOf(member, o)
    BY <1>1, <1>10 DEF MembersInv
<1> HIDE DEF member
<1>12. DOMAIN (ys[j]) = ImageFields /\ MaterialIndex[o] = member.index
    BY <1>11 DEF MemberOf
<1> HIDE DEF ys
<1>13. /\ D[i].uniform = <<member.index, ys[j].uniform>> /\ TilesRead(D[i]) = TilesRead(ys[j])
       /\ \A tile : KeyOf(D[i], tile) = KeyOf(ys[j], tile)
    BY <1>9, <1>12, RelabelledReads
<1>14. sample.uniform[1] = member.index /\ sample.uniform[2] = ys[j].uniform
    BY <1>5, <1>13
<1> HIDE DEF sample
<1>15. asker \in CutOut \union Fog /\ MaterialIndex[asker] = member.index
    BY <1>12, <1>14
<1> HIDE DEF asker
<1>16. AllAlike(xs, ys)
    BY <1>1, <1>10, <1>15, OneOfAnIndex DEF MemberOf, ys
<1> HIDE DEF xs
<1>17. j \in 1 .. Len(xs) /\ Listed(xs) /\ Alike(xs[j], ys[j])
    BY <1>16 DEF AllAlike
<1>18. /\ xs[j].uniform = ys[j].uniform /\ TilesRead(xs[j]) = TilesRead(ys[j])
       /\ \A tile : KeyOf(xs[j], tile) = KeyOf(ys[j], tile)
    BY <1>17, AlikeReadAlike DEF Alike
<1>19. ImageOf(xs, sample.uniform[2]) = xs[j]
    BY <1>14, <1>17, <1>18, ImageOfIs
<1>20. sample.tile \in TilesRead(xs[j]) /\ CollectTexturePaths(D)[k] = KeyOf(xs[j], sample.tile)
    BY <1>5, <1>6, <1>13, <1>18
<1>21. slots[k] \in 1 .. Len(pool.sources) /\ pool.sources[slots[k]] = KeyOf(xs[j], sample.tile)
    BY <1>3, <1>6, <1>20 DEF Holds
<1>22. pool.images[slots[k]] = DecodePoolImage(KeyOf(xs[j], sample.tile), pool.maxEdge)
    BY <1>21 DEF PoolIs
<1>23. DecodePoolImage(KeyOf(xs[j], sample.tile), HdClaudeTextureEdgeCap(quality)) = Texels(xs[j], sample.tile)
    BY <1>20, KeyOfIsTexels DEF Texels
<1>24. published.textures[slots[k]] = Texels(ImageOf(xs, sample.uniform[2]), sample.tile)
    BY <1>19, <1>22, <1>23
<1> QED
    BY <1>24 DEF xs, asker, sample, order, D

\* The library samples each tile of each image that some material asks about, under its index.
LEMMA LibrarySamples ==
  ASSUME AllSettled, NEW x
  PROVE  x \in ToSet(TextureOrder(OpacityLibraryDocument(Table))) <=>
           \E m \in CutOut \union Fog : \E j \in 1 .. Len(ImagesAsked(m)) :
             \E t \in TilesRead(ImagesAsked(m)[j]) :
               x = [uniform |-> <<MaterialIndex[m], ImagesAsked(m)[j].uniform>>, tile |-> t]
<1> DEFINE all == Cut(Table) \o Media(Table)
           D == OpacityLibraryDocument(Table)
<1>1. /\ MembersInv(all) /\ Listed(D)
      /\ \A d : d \in ToSet(D) <=>
           \E p \in 1 .. Len(all) : \E j \in 1 .. Len(all[p].of.images) :
              d = Relabelled(all[p].of.images[j], all[p].index)
    BY TableDocument
<1>2. ToSet(TextureOrder(D)) = UNION {{[uniform |-> d.uniform, tile |-> t] : t \in TilesRead(d)} : d \in ToSet(D)}
    BY <1>1, OrderIs DEF Listed
<1> HIDE DEF all, D
<1>3. x \in ToSet(TextureOrder(D)) <=>
        \E d \in ToSet(D) : \E t \in TilesRead(d) : x = [uniform |-> d.uniform, tile |-> t]
    BY <1>2
<1>4. ASSUME NEW p \in 1 .. Len(all), NEW m \in CutOut \union Fog, MemberOf(all[p], m)
      PROVE  /\ Len(all[p].of.images) = Len(ImagesAsked(m))
             /\ \A j \in 1 .. Len(ImagesAsked(m)) :
                  LET d == Relabelled(all[p].of.images[j], all[p].index)
                  IN  /\ d.uniform = <<MaterialIndex[m], ImagesAsked(m)[j].uniform>>
                      /\ TilesRead(d) = TilesRead(ImagesAsked(m)[j])
  <2> DEFINE ys == all[p].of.images
             xs == ImagesAsked(m)
             d(j) == Relabelled(ys[j], all[p].index)
  <2>1. /\ AllAlike(xs, ys) /\ all[p].index = MaterialIndex[m]
        /\ \A j \in 1 .. Len(ys) : DOMAIN (ys[j]) = ImageFields
      BY <1>4 DEF MemberOf
  <2> HIDE DEF ys, xs
  <2>2. Len(xs) = Len(ys) /\ \A j \in 1 .. Len(xs) : Alike(xs[j], ys[j])
      BY <2>1 DEF AllAlike
  <2>3. ASSUME NEW j \in 1 .. Len(xs)
        PROVE  d(j).uniform = <<MaterialIndex[m], xs[j].uniform>> /\ TilesRead(d(j)) = TilesRead(xs[j])
    <3>1. DOMAIN (ys[j]) = ImageFields /\ Alike(xs[j], ys[j])
        BY <2>1, <2>2
    <3>2. d(j).uniform = <<all[p].index, ys[j].uniform>> /\ TilesRead(d(j)) = TilesRead(ys[j])
        BY <3>1, RelabelledReads
    <3>3. xs[j].uniform = ys[j].uniform /\ TilesRead(xs[j]) = TilesRead(ys[j])
        BY <3>1, AlikeReadAlike DEF Alike
    <3> QED
        BY <2>1, <3>2, <3>3
  <2> QED
      BY <2>2, <2>3 DEF xs, ys
<1>5. ASSUME x \in ToSet(TextureOrder(D))
      PROVE  \E m \in CutOut \union Fog : \E j \in 1 .. Len(ImagesAsked(m)) :
               \E t \in TilesRead(ImagesAsked(m)[j]) :
                 x = [uniform |-> <<MaterialIndex[m], ImagesAsked(m)[j].uniform>>, tile |-> t]
  <2>1. PICK d \in ToSet(D) : \E t \in TilesRead(d) : x = [uniform |-> d.uniform, tile |-> t]
      BY <1>3, <1>5
  <2>2. PICK p \in 1 .. Len(all) : \E j \in 1 .. Len(all[p].of.images) :
               d = Relabelled(all[p].of.images[j], all[p].index)
      BY <1>1, <2>1
  <2>3. all[p] \in ToSet(all)
      BY <1>1, IsSeqOfItsOwn DEF MembersInv
  <2>4. PICK m \in CutOut \union Fog : MemberOf(all[p], m)
      BY <1>1, <2>3 DEF MembersInv
  <2>5. PICK j \in 1 .. Len(ImagesAsked(m)) : d = Relabelled(all[p].of.images[j], all[p].index)
      BY <1>4, <2>2, <2>4
  <2>6. d.uniform = <<MaterialIndex[m], ImagesAsked(m)[j].uniform>> /\ TilesRead(d) = TilesRead(ImagesAsked(m)[j])
      BY <1>4, <2>4, <2>5
  <2> QED
      BY <2>1, <2>6
<1>6. ASSUME NEW m \in CutOut \union Fog, NEW j \in 1 .. Len(ImagesAsked(m)),
             NEW t \in TilesRead(ImagesAsked(m)[j]),
             x = [uniform |-> <<MaterialIndex[m], ImagesAsked(m)[j].uniform>>, tile |-> t]
      PROVE  x \in ToSet(TextureOrder(D))
  <2>1. PICK member \in ToSet(all) : MemberOf(member, m)
      BY <1>1 DEF MembersInv
  <2>2. PICK p \in 1 .. Len(all) : member = all[p]
      BY <1>1, IsSeqOfItsOwn DEF MembersInv, ToSet
  <2> DEFINE d == Relabelled(all[p].of.images[j], all[p].index)
  <2>3. /\ Len(all[p].of.images) = Len(ImagesAsked(m))
        /\ d.uniform = <<MaterialIndex[m], ImagesAsked(m)[j].uniform>>
        /\ TilesRead(d) = TilesRead(ImagesAsked(m)[j])
      BY <1>4, <2>1, <2>2
  <2>4. d \in ToSet(D)
      BY <1>1, <2>3
  <2> HIDE DEF d
  <2> QED
      BY <1>3, <1>6, <2>3, <2>4
<1>7. x \in ToSet(TextureOrder(D)) <=>
           \E m \in CutOut \union Fog : \E j \in 1 .. Len(ImagesAsked(m)) :
             \E t \in TilesRead(ImagesAsked(m)[j]) :
               x = [uniform |-> <<MaterialIndex[m], ImagesAsked(m)[j].uniform>>, tile |-> t]
    BY <1>5, <1>6
<1> QED
    BY <1>7 DEF D

\* As many samples as the materials ask for, each once.
LEMMA LibraryCounted ==
  ASSUME AllSettled, published.index = MaterialIndex
  PROVE  LibrarySize = Len(TextureOrder(OpacityLibraryDocument(Table)))
<1> DEFINE order == TextureOrder(OpacityLibraryDocument(Table))
           n == Len(order)
           S == UNION {UNION {{<<published.index[m], i.uniform, t>> : t \in TilesRead(i)} :
                              i \in ToSet(ImagesAsked(m))} : m \in CutOut \union Fog}
           triple(x) == <<x.uniform[1], x.uniform[2], x.tile>>
           f == [k \in 1 .. n |-> triple(order[k])]
<1>1. Listed(OpacityLibraryDocument(Table))
    BY TableDocument
<1>2. IsSeq(order) /\ Distinct(order)
    BY <1>1, OrderIs, OrderApart DEF Listed
<1>3. \A x : x \in ToSet(order) <=>
        \E m \in CutOut \union Fog : \E j \in 1 .. Len(ImagesAsked(m)) :
          \E t \in TilesRead(ImagesAsked(m)[j]) :
            x = [uniform |-> <<MaterialIndex[m], ImagesAsked(m)[j].uniform>>, tile |-> t]
    BY LibrarySamples
<1> HIDE DEF order
<1>4. n \in Nat /\ \A k \in 1 .. n : order[k] \in ToSet(order)
    BY <1>2, IsSeqOfItsOwn
<1>5. ASSUME NEW m \in CutOut \union Fog
      PROVE  IsSeq(ImagesAsked(m))
  <2>1. PICK member \in ToSet(Cut(Table) \o Media(Table)) : MemberOf(member, m)
      BY MembersTogether DEF MembersInv
  <2> QED
      BY <2>1 DEF MemberOf, AllAlike, Listed
<1>6. \A y : y \in S <=>
        \E m \in CutOut \union Fog : \E i \in ToSet(ImagesAsked(m)) : \E t \in TilesRead(i) :
          y = <<MaterialIndex[m], i.uniform, t>>
  <2> SUFFICES ASSUME NEW y
               PROVE  y \in S <=>
                        \E m \in CutOut \union Fog : \E i \in ToSet(ImagesAsked(m)) : \E t \in TilesRead(i) :
                          y = <<MaterialIndex[m], i.uniform, t>>
      OBVIOUS
  <2>1. y \in S <=>
          \E m \in CutOut \union Fog :
            y \in UNION {{<<published.index[m], i.uniform, t>> : t \in TilesRead(i)} : i \in ToSet(ImagesAsked(m))}
      OBVIOUS
  <2>2. \A m : y \in UNION {{<<published.index[m], i.uniform, t>> : t \in TilesRead(i)} :
                              i \in ToSet(ImagesAsked(m))} <=>
               \E i \in ToSet(ImagesAsked(m)) : \E t \in TilesRead(i) : y = <<published.index[m], i.uniform, t>>
      OBVIOUS
  <2> HIDE DEF S
  <2> QED
      BY <2>1, <2>2
<1> HIDE DEF S
<1>7. ASSUME NEW k \in 1 .. n
      PROVE  f[k] \in S /\ order[k] = [uniform |-> <<f[k][1], f[k][2]>>, tile |-> f[k][3]]
  <2>1. PICK m \in CutOut \union Fog : \E j \in 1 .. Len(ImagesAsked(m)) :
               \E t \in TilesRead(ImagesAsked(m)[j]) :
                 order[k] = [uniform |-> <<MaterialIndex[m], ImagesAsked(m)[j].uniform>>, tile |-> t]
      BY <1>3, <1>4
  <2>2. PICK j \in 1 .. Len(ImagesAsked(m)) : \E t \in TilesRead(ImagesAsked(m)[j]) :
                 order[k] = [uniform |-> <<MaterialIndex[m], ImagesAsked(m)[j].uniform>>, tile |-> t]
      BY <2>1
  <2>3. PICK t \in TilesRead(ImagesAsked(m)[j]) :
                 order[k] = [uniform |-> <<MaterialIndex[m], ImagesAsked(m)[j].uniform>>, tile |-> t]
      BY <2>2
  <2>4. f[k] = <<MaterialIndex[m], ImagesAsked(m)[j].uniform, t>>
      BY <2>3
  <2>5. ImagesAsked(m)[j] \in ToSet(ImagesAsked(m))
      BY <1>5, IsSeqOfItsOwn
  <2>6. f[k] \in S
      BY <1>6, <2>4, <2>5
  <2> HIDE DEF f
  <2> QED
      BY <2>3, <2>4, <2>6
<1>8. ASSUME NEW y \in S
      PROVE  \E k \in 1 .. n : f[k] = y
  <2>1. PICK m \in CutOut \union Fog : \E i \in ToSet(ImagesAsked(m)) : \E t \in TilesRead(i) :
          y = <<MaterialIndex[m], i.uniform, t>>
      BY <1>6
  <2>2. PICK i \in ToSet(ImagesAsked(m)) : \E t \in TilesRead(i) : y = <<MaterialIndex[m], i.uniform, t>>
      BY <2>1
  <2>3. PICK t \in TilesRead(i) : y = <<MaterialIndex[m], i.uniform, t>>
      BY <2>2
  <2>4. PICK j \in 1 .. Len(ImagesAsked(m)) : i = ImagesAsked(m)[j]
      BY <1>5, IsSeqOfItsOwn DEF ToSet
  <2> DEFINE x == [uniform |-> <<MaterialIndex[m], i.uniform>>, tile |-> t]
  <2>5. x \in ToSet(order)
      BY <1>3, <2>3, <2>4
  <2>6. PICK k \in 1 .. n : order[k] = x
      BY <1>2, <2>5, IsSeqOfItsOwn DEF ToSet
  <2>7. triple(x) = y
      BY <2>3
  <2> HIDE DEF x
  <2>8. f[k] = triple(x)
      BY <2>6
  <2> QED
      BY <2>7, <2>8
<1>9. f \in [1 .. n -> S] /\ DOMAIN f = 1 .. n
  <2>1. \A k \in 1 .. n : triple(order[k]) \in S
      BY <1>7
  <2> HIDE DEF triple
  <2> QED
      BY <2>1
<1>10. \A j, k \in 1 .. n : f[j] = f[k] => j = k
  <2> HIDE DEF f
  <2> QED
      BY <1>2, <1>7 DEF Distinct
<1> HIDE DEF f, n
<1>11. f \in Bijection(1 .. n, S)
    BY <1>8, <1>9, <1>10 DEF Bijection, Injection, Surjection, IsInjective
<1>12. Cardinality(S) = n
  <2>1. ExistsBijection(1 .. n, S)
      BY <1>11 DEF ExistsBijection
  <2> QED
      BY <1>4, <2>1, FS_CountingElements
<1> QED
    BY <1>12 DEF LibrarySize, S, n, order

LEMMA IndicesAre ==
  ASSUME NEW s, IsSeq(s)
  PROVE  ToSet(Mapped(LAMBDA member : member.index, s)) = {member.index : member \in ToSet(s)}
<1> DEFINE t == [i \in DOMAIN s |-> s[i].index]
<1>1. Mapped(LAMBDA member : member.index, s) = t
    BY DEF Mapped
<1> QED
    BY <1>1 DEF ToSet

LEMMA MembersAsked ==
  ASSUME AllSettled
  PROVE  /\ {member.index : member \in ToSet(Cut(Table))} = {MaterialIndex[m] : m \in CutOut}
         /\ {member.index : member \in ToSet(Media(Table))} = {MaterialIndex[m] : m \in Fog}
<1>1. /\ \A member \in ToSet(Cut(Table)) : \E m \in CutOut : member.index = MaterialIndex[m]
      /\ \A m \in CutOut : \E member \in ToSet(Cut(Table)) : member.index = MaterialIndex[m]
    BY CutIs DEF MemberOf
<1>2. /\ \A member \in ToSet(Media(Table)) : \E m \in Fog : member.index = MaterialIndex[m]
      /\ \A m \in Fog : \E member \in ToSet(Media(Table)) : member.index = MaterialIndex[m]
    BY MediaIs DEF MemberOf
<1> QED
    BY <1>1, <1>2

\* A library that was generated, part by part.
LEMMA LibraryParts ==
  ASSUME NEW table,
         \/ Traversal(table) # NoTraversal
         \/ /\ ~\E member \in ToSet(Cut(table) \o Media(table)) : member.of.state = "broken"
            /\ ~(Len(TextureOrder(OpacityLibraryDocument(table))) > Capacity)
  PROVE  /\ Traversal(table).valid
         /\ Traversal(table).cutout = Mapped(LAMBDA member : member.index, Cut(table))
         /\ Traversal(table).volume = Mapped(LAMBDA member : member.index, Media(table))
         /\ Traversal(table).samples = TextureOrder(OpacityLibraryDocument(table))
         /\ Traversal(table).textures = CollectTexturePaths(OpacityLibraryDocument(table))
<1> DEFINE cutout == Mapped(LAMBDA member : member.index, Cut(table))
           volume == Mapped(LAMBDA member : member.index, Media(table))
           samples == TextureOrder(OpacityLibraryDocument(table))
           textures == CollectTexturePaths(OpacityLibraryDocument(table))
<1>1. Traversal(table) = [valid |-> TRUE, cutout |-> cutout, volume |-> volume,
                          samples |-> samples, textures |-> textures]
    BY Zenon DEF Traversal
<1> HIDE DEF cutout, volume, samples, textures
<1>2. /\ Traversal(table).valid /\ Traversal(table).cutout = cutout /\ Traversal(table).volume = volume
      /\ Traversal(table).samples = samples /\ Traversal(table).textures = textures
    BY <1>1
<1> QED
    BY <1>2 DEF cutout, volume, samples, textures

\* What has no library has nothing to ask, or something that could not be generated.
LEMMA NoLibrary ==
  ASSUME AllSettled, published.index = MaterialIndex, ~TraversalMade(Table).valid
  PROVE  \/ CutOut \union Fog = {}
         \/ \E m \in CutOut : network[m].cutout.state = "broken"
         \/ \E m \in Fog : network[m].volume.state = "broken"
         \/ LibrarySize > Capacity
<1> DEFINE all == Cut(Table) \o Media(Table)
<1>1. MembersInv(all)
    BY MembersTogether
<1>2. CASE all = <<>>
  <2>1. ToSet(all) = {}
      BY <1>2, Empty
  <2> HIDE DEF all
  <2> QED
      BY <1>1, <2>1 DEF MembersInv
<1>3. CASE \E member \in ToSet(all) : member.of.state = "broken"
  <2> HIDE DEF all
  <2>1. PICK member \in ToSet(all) : member.of.state = "broken"
      BY <1>3
  <2>2. PICK m \in CutOut \union Fog : MemberOf(member, m)
      BY <1>1 DEF MembersInv
  <2>3. AskedState(m) = "broken"
      BY <2>1, <2>2 DEF MemberOf
  <2> QED
      BY <2>3 DEF AskedState
<1>4. CASE Len(TextureOrder(OpacityLibraryDocument(Table))) > Capacity
    BY <1>4, LibraryCounted
<1>5. ASSUME all # <<>>, ~\E member \in ToSet(all) : member.of.state = "broken",
             ~(Len(TextureOrder(OpacityLibraryDocument(Table))) > Capacity)
      PROVE  FALSE
  <2>1. TraversalMade(Table) = Traversal(Table)
      BY <1>5 DEF TraversalMade
  <2>2. Traversal(Table).valid
      BY <1>5, LibraryParts
  <2> QED
      BY <2>1, <2>2
<1> QED
    BY <1>2, <1>3, <1>4, <1>5

LEMMA LibraryIsEnough ==
  ASSUME MaterialsInv
  PROVE  TraversalMatchesTheTable
<1> DEFINE t == published.traversal
           D == OpacityLibraryDocument(Table)
<1>1. SUFFICES ASSUME at = "traced" PROVE TraversalMatchesTheTable
    BY DEF TraversalMatchesTheTable
<1>2. /\ dirty = {} /\ pool.maxEdge = HdClaudeTextureEdgeCap(quality) /\ ~stale
      /\ \A m \in DOMAIN entry : ~entry[m].pending
      /\ PoolIs(pool) /\ AllSettled
    BY <1>1, AllAreSettled DEF MaterialsInv, PhaseInv, TypeInv
<1>3. /\ published.index = MaterialIndex /\ published.textures = pool.images
      /\ t = TraversalMade(Table) /\ Holds(pool, published.slots, t.textures)
    BY <1>2 DEF MaterialsInv, PublishedInv
<1>4. CASE t.valid
  <2>1. /\ t.cutout = Mapped(LAMBDA member : member.index, Cut(Table))
        /\ t.volume = Mapped(LAMBDA member : member.index, Media(Table))
        /\ t.samples = TextureOrder(D) /\ t.textures = CollectTexturePaths(D)
    <3>1. t # NoTraversal
        BY <1>4 DEF NoTraversal
    <3>2. t = Traversal(Table)
        BY <1>3, <3>1 DEF TraversalMade
    <3> HIDE DEF t
    <3> QED
        BY <3>1, <3>2, LibraryParts
  <2>2. /\ ToSet(t.cutout) = {published.index[m] : m \in CutOut}
        /\ ToSet(t.volume) = {published.index[m] : m \in Fog}
    <3>1. IsSeq(Cut(Table)) /\ IsSeq(Media(Table))
        BY <1>2, CutIs, MediaIs
    <3> QED
        BY <1>2, <1>3, <2>1, <3>1, IndicesAre, MembersAsked
  <2>3. IsSeq(D)
      BY <1>2, TableDocument DEF Listed
  <2>4. Len(t.samples) = Len(published.slots) /\ DOMAIN t.samples = 1 .. Len(TextureOrder(D))
      BY <1>3, <2>1, <2>3, PathsAre, OrderIs, IsSeqOfItsOwn DEF Holds
  <2>5. ASSUME NEW k \in DOMAIN t.samples
        PROVE  LET sample == t.samples[k]
                   asker  == CHOOSE m \in CutOut \union Fog : published.index[m] = sample.uniform[1]
               IN  published.textures[published.slots[k]] =
                     Texels(ImageOf(ImagesAsked(asker), sample.uniform[2]), sample.tile)
      BY <1>2, <1>3, <2>1, <2>4, LibraryReads
  <2> HIDE DEF t, D
  <2> QED
      BY <1>4, <2>2, <2>4, <2>5 DEF TraversalMatchesTheTable, t
<1>5. CASE ~t.valid
  <2>1. \/ CutOut \union Fog = {}
        \/ \E m \in CutOut : network[m].cutout.state = "broken"
        \/ \E m \in Fog : network[m].volume.state = "broken"
        \/ LibrarySize > Capacity
      BY <1>2, <1>3, <1>5, NoLibrary
  <2> QED
      BY <1>5, <2>1 DEF TraversalMatchesTheTable
<1> QED
    BY <1>4, <1>5

-----------------------------------------------------------------------------
(* The theorems.                                                            *)

LEMMA AlwaysMaterialsInv == Spec => []MaterialsInv
<1>1. Init => MaterialsInv
    BY MaterialsInit
<1>2. MaterialsInv /\ [Next]_vars => MaterialsInv'
    BY MaterialsNext
<1> QED
    BY <1>1, <1>2, PTL DEF Spec

\* For every set of networks and of tiles, and however materials, domes and
\* qualities are stated, synced, compiled and shared by their content: whenever
\* the renderer traces, a surface and a displacement read, at every index they
\* sample, the texels their own network means, and so does the dome
\* (material_compiler.cpp 699, 1110; material.cpp 119; texture_loader.cpp 522, 629).
THEOREM ProgramsReadTheirOwn == Spec => []ReadsItsOwnImages
<1>1. MaterialsInv => ReadsItsOwnImages
    BY InvIsEnough
<1> QED
    BY <1>1, AlwaysMaterialsInv, PTL

\* The library the traversal kernels were compiled with, kept from an earlier
\* scene or made for this one, asks about exactly the materials that are cut
\* out or a fog, by the indices of the table it is published with, and reads
\* each one's own images; where there is none, the materials ask about nothing,
\* or one could not be read, or they ask for more than the pool's capacity
\* (material_compiler.cpp 1410, render_pass.cpp 958).
THEOREM TraversalIsOfTheTable == Spec => []TraversalMatchesTheTable
<1>1. MaterialsInv => TraversalMatchesTheTable
    BY LibraryIsEnough
<1> QED
    BY <1>1, AlwaysMaterialsInv, PTL

=============================================================================
