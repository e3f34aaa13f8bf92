---------------------------- MODULE SurfacesProofs ----------------------------
(***************************************************************************)
(* For texts, pushes and pages of any size: what the editor applies, and   *)
(* what the action's comment and check say.                                *)
(***************************************************************************)
EXTENDS Surfaces, Integers, WellFoundedInduction, SequenceTheorems,
        FiniteSetTheorems, TLAPS

-----------------------------------------------------------------------------
(* Induction over the natural numbers, in the form of a set.               *)
Below == {r \in Nat \X Nat : r[1] < r[2]}

LEMMA BelowFounded == IsWellFoundedOn(Below, Nat)
  BY NatLessThanWellFounded DEF Below, OpToRel

LEMMA Smallest ==
    ASSUME NEW T, T \subseteq Nat, T # {}
    PROVE  \E m \in T : \A n \in T : m <= n
  <1>1. PICK m \in T : \A n \in T : <<n, m>> \notin Below
    BY BelowFounded, WFMin
  <1>2. ASSUME NEW n \in T PROVE m <= n
    <2>1. <<n, m>> \in Nat \X Nat /\ m \in Nat /\ n \in Nat
      OBVIOUS
    <2>2. ~(n < m)
      BY <1>1, <2>1 DEF Below
    <2> QED BY <2>1, <2>2
  <1> QED BY <1>1, <1>2

LEMMA Induction ==
    ASSUME NEW T, T \subseteq Nat, 0 \in T, \A n \in T : n + 1 \in T
    PROVE  T = Nat
  <1>1. CASE Nat \ T # {}
    <2>1. PICK m \in Nat \ T : \A n \in Nat \ T : m <= n
      BY <1>1, Smallest
    <2>2. m - 1 \in Nat /\ m - 1 \notin Nat \ T
      BY <2>1
    <2>3. (m - 1) + 1 \in T
      BY <2>2
    <2> QED BY <2>1, <2>3
  <1> QED BY <1>1

(* What is computed step by step exists, and is of its kind.               *)
Steps(N, X) == [1 .. N -> [X -> X]]

LEMMA Recursion ==
    ASSUME NEW X, NEW b \in X, NEW N \in Nat, NEW G \in Steps(N, X)
    PROVE  \E f \in [0 .. N -> X] :
             f = [n \in 0 .. N |-> IF n = 0 THEN b ELSE G[n][f[n - 1]]]
  <1> DEFINE Is(f, n) == f = [i \in 0 .. n |-> IF i = 0 THEN b ELSE G[i][f[i - 1]]]
             Good(n) == n <= N => \E f \in [0 .. n -> X] : Is(f, n)
             T == {n \in Nat : Good(n)}
  <1>1. Good(0)
    <2> DEFINE h == [i \in 0 .. 0 |-> b]
    <2>1. \A i \in 0 .. 0 : i = 0
      OBVIOUS
    <2>2. h \in [0 .. 0 -> X] /\ Is(h, 0)
      BY <2>1
    <2> QED BY <2>2
  <1>2. ASSUME NEW n \in Nat, Good(n) PROVE Good(n + 1)
    <2>1. SUFFICES ASSUME n + 1 <= N PROVE \E f \in [0 .. n + 1 -> X] : Is(f, n + 1)
      OBVIOUS
    <2>2. PICK f \in [0 .. n -> X] : Is(f, n)
      BY <1>2, <2>1
    <2> DEFINE h == [i \in 0 .. n + 1 |-> IF i = n + 1 THEN G[n + 1][f[n]] ELSE f[i]]
    <2>3. n + 1 \in 1 .. N /\ G[n + 1] \in [X -> X] /\ G[n + 1][f[n]] \in X
      BY <2>1, <2>2 DEF Steps
    <2>4. h \in [0 .. n + 1 -> X]
      BY <2>2, <2>3
    <2>5. ASSUME NEW i \in 0 .. n + 1
          PROVE  h[i] = IF i = 0 THEN b ELSE G[i][h[i - 1]]
      <3>1. CASE i = n + 1
        <4>1. h[n] = f[n] /\ i - 1 = n /\ i # 0
          BY <3>1
        <4> QED BY <3>1, <4>1
      <3>2. CASE i # n + 1
        <4>1. i \in 0 .. n /\ (i # 0 => i - 1 \in 0 .. n)
          BY <3>2
        <4>2. h[i] = f[i] /\ (i # 0 => h[i - 1] = f[i - 1])
          BY <4>1
        <4>3. f[i] = IF i = 0 THEN b ELSE G[i][f[i - 1]]
          BY <2>2, <4>1
        <4> QED BY <4>2, <4>3
      <3> QED BY <3>1, <3>2
    <2>6. Is(h, n + 1)
      BY <2>5
    <2> QED BY <2>4, <2>6
  <1>3. T = Nat
    <2> HIDE DEF Good
    <2>1. 0 \in T
      BY <1>1
    <2>2. ASSUME NEW n \in T PROVE n + 1 \in T
      BY <1>2
    <2>3. T \subseteq Nat
      OBVIOUS
    <2> HIDE DEF T
    <2> QED BY <2>1, <2>2, <2>3, Induction
  <1>4. Good(N)
    BY <1>3
  <1> QED BY <1>4

Solves(f, N, b, G) == f = [n \in 0 .. N |-> IF n = 0 THEN b ELSE G[n][f[n - 1]]]

LEMMA Solvable ==
    ASSUME NEW X, NEW N \in Nat
    PROVE  \A b \in X, G \in Steps(N, X) : \E f \in [0 .. N -> X] : Solves(f, N, b, G)
  <1>1. SUFFICES ASSUME NEW b \in X, NEW G \in Steps(N, X)
                 PROVE  \E f \in [0 .. N -> X] : Solves(f, N, b, G)
    OBVIOUS
  <1> QED BY <1>1, Recursion DEF Solves

LEMMA Largest ==
    ASSUME NEW T, NEW N \in Nat, T \subseteq 0 .. N, T # {}
    PROVE  Max(T) \in T /\ \A n \in T : n <= Max(T)
  <1> DEFINE U == {n \in Nat : \E m \in T : n = N - m}
  <1>1. U # {} /\ U \subseteq Nat
    <2>1. PICK m \in T : TRUE
      OBVIOUS
    <2>2. N - m \in U
      BY <2>1
    <2> QED BY <2>2
  <1>2. PICK u \in U : \A n \in U : u <= n
    <2> HIDE DEF U
    <2> QED BY <1>1, Smallest
  <1>3. PICK m \in T : u = N - m
    BY <1>2
  <1>4. ASSUME NEW n \in T PROVE n <= m
    <2>1. N - n \in U
      OBVIOUS
    <2>2. u <= N - n
      BY <1>2, <2>1
    <2> QED BY <1>3, <2>2
  <1>5. \E x \in T : \A y \in T : x >= y
    BY <1>4
  <1> QED BY <1>5 DEF Max

LEMMA Together ==
    ASSUME NEW A \in Seq(Nat), NEW B \in Seq(Nat), NEW C \in Seq(Nat)
    PROVE  (A \o B) \o C = A \o (B \o C)
  BY ConcatAssociative

Associates(A, B, C) == (A \o B) \o C = A \o (B \o C)

LEMMA Associative ==
    \A A, B, C \in Seq(Nat) : Associates(A, B, C)
  BY Together DEF Associates

Regrouped(P, Q, U, V, Z) == (P \o Q) \o (U \o (V \o Z)) = P \o ((Q \o (U \o V)) \o Z)

LEMMA Regroup ==
    ASSUME NEW P \in Seq(Nat), NEW Q \in Seq(Nat), NEW U \in Seq(Nat),
           NEW V \in Seq(Nat), NEW Z \in Seq(Nat)
    PROVE  Regrouped(P, Q, U, V, Z)
  <1>1. U \o V \in Seq(Nat) /\ V \o Z \in Seq(Nat)
    BY ConcatProperties
  <1>2. U \o (V \o Z) \in Seq(Nat)
    BY <1>1, ConcatProperties
  <1>3. Associates(P, Q, U \o (V \o Z))
    BY <1>2, Associative, Zenon
  <1>4. Associates(U, V, Z)
    BY Associative, Zenon
  <1>5. Associates(Q, U \o V, Z)
    BY <1>1, Associative, Zenon
  <1> QED BY <1>3, <1>4, <1>5, Zenon DEF Associates, Regrouped

(* The part of a part of a text.                                           *)
LEMMA PartOfPart ==
    ASSUME NEW b \in Seq(Nat), NEW k \in 0 .. Len(b), NEW lo \in 1 .. k + 1, NEW hi \in 0 .. k,
           lo <= hi + 1
    PROVE  SubSeq(SubSeq(b, 1, k), lo, hi) = SubSeq(b, lo, hi)
  <1>1. Len(b) \in Nat /\ k \in Nat
    OBVIOUS
  <1>2. CASE hi < lo
    <2>1. lo \in Int /\ hi \in Int
      BY <1>1
    <2> QED BY <1>2, <2>1, SubSeqEmpty
  <1>3. CASE lo <= hi
    <2>1. /\ 1 \in 1 .. Len(b) /\ k \in 1 .. Len(b)
          /\ lo \in 1 .. k - 1 + 1 /\ hi \in 1 .. k - 1 + 1
          /\ 1 + lo - 1 = lo /\ 1 + hi - 1 = hi
      BY <1>1, <1>3
    <2>2. SubSeq(SubSeq(b, 1, k), lo, hi) = SubSeq(b, 1 + lo - 1, 1 + hi - 1)
      BY <2>1, SubSeqOfSubSeq
    <2> QED BY <2>1, <2>2
  <1> QED BY <1>1, <1>2, <1>3

(* Cutting a text that was put together of two.                            *)
LEMMA CutBefore ==
    ASSUME NEW A \in Seq(Nat), NEW B \in Seq(Nat), NEW m \in 0 .. Len(A)
    PROVE  SubSeq(A \o B, 1, m) = SubSeq(A, 1, m)
  <1>1. CASE m = 0
    BY <1>1, SubSeqEmpty
  <1>2. CASE m # 0
    BY <1>2, SubSeqOfConcat1
  <1> QED BY <1>1, <1>2

LEMMA CutAfter ==
    ASSUME NEW A \in Seq(Nat), NEW B \in Seq(Nat), NEW m \in 1 .. Len(A) + 1
    PROVE  SubSeq(A \o B, m, Len(A \o B)) = SubSeq(A, m, Len(A)) \o B
  <1> DEFINE D == A \o B
             L == SubSeq(D, m, Len(D))
             P == SubSeq(A, m, Len(A))
  <1>1. /\ D \in Seq(Nat) /\ Len(D) = Len(A) + Len(B)
        /\ \A i \in 1 .. Len(A) + Len(B) : D[i] = IF i <= Len(A) THEN A[i] ELSE B[i - Len(A)]
    BY ConcatProperties
  <1>2. Len(A) \in Nat /\ Len(B) \in Nat
    OBVIOUS
  <1> HIDE DEF D
  <1>3. /\ L \in Seq(Nat) /\ Len(L) = Len(D) - m + 1
        /\ \A i \in 1 .. Len(D) - m + 1 : L[i] = D[m + i - 1]
    <2>1. \A i \in m .. Len(D) : D[i] \in Nat
      BY <1>1, <1>2
    <2>2. m \in Int /\ Len(D) \in Int /\ m <= Len(D) + 1
      BY <1>1, <1>2
    <2>3. /\ L \in Seq(Nat) /\ Len(L) = IF m <= Len(D) THEN Len(D) - m + 1 ELSE 0
          /\ \A i \in 1 .. Len(D) - m + 1 : L[i] = D[m + i - 1]
      BY <2>1, <2>2, SubSeqProperties
    <2>4. (IF m <= Len(D) THEN Len(D) - m + 1 ELSE 0) = Len(D) - m + 1
      BY <2>2
    <2> HIDE DEF L
    <2> QED BY <2>3, <2>4
  <1>4. /\ P \in Seq(Nat) /\ Len(P) = Len(A) - m + 1
        /\ \A i \in 1 .. Len(A) - m + 1 : P[i] = A[m + i - 1]
    <2>1. \A i \in m .. Len(A) : A[i] \in Nat
      BY <1>2
    <2> QED BY <1>2, <2>1, SubSeqProperties
  <1> HIDE DEF L, P
  <1>5. /\ P \o B \in Seq(Nat) /\ Len(P \o B) = Len(P) + Len(B)
        /\ \A i \in 1 .. Len(P) + Len(B) : (P \o B)[i] = IF i <= Len(P) THEN P[i] ELSE B[i - Len(P)]
    BY <1>4, ConcatProperties
  <1>6. ASSUME NEW i \in 1 .. Len(L) PROVE L[i] = (P \o B)[i]
    <2> DEFINE k == m + i - 1
    <2>1. i \in 1 .. Len(D) - m + 1 /\ k \in 1 .. Len(A) + Len(B) /\ i \in 1 .. Len(P) + Len(B)
      BY <1>1, <1>2, <1>3, <1>4
    <2>2. L[i] = D[k] /\ D[k] = IF k <= Len(A) THEN A[k] ELSE B[k - Len(A)]
      BY <1>1, <1>3, <2>1
    <2>3. (P \o B)[i] = IF i <= Len(P) THEN P[i] ELSE B[i - Len(P)]
      BY <1>5, <2>1
    <2>4. CASE i <= Len(P)
      <3>1. i \in 1 .. Len(A) - m + 1 /\ k <= Len(A)
        BY <1>2, <1>4, <2>4
      <3>2. P[i] = A[k]
        BY <1>4, <3>1
      <3> QED BY <2>2, <2>3, <2>4, <3>1, <3>2
    <2>5. CASE ~(i <= Len(P))
      <3>1. ~(k <= Len(A)) /\ k - Len(A) = i - Len(P)
        BY <1>2, <1>4, <2>1, <2>5
      <3> QED BY <2>2, <2>3, <2>5, <3>1
    <2> QED BY <2>4, <2>5
  <1>7. Len(L) = Len(P \o B)
    BY <1>1, <1>2, <1>3, <1>4, <1>5
  <1>8. L = P \o B
    BY <1>3, <1>5, <1>6, <1>7, SeqEqual
  <1> QED BY <1>8 DEF L, P, D

-----------------------------------------------------------------------------
(* The verified text is put together line by line.                         *)
Piece(t, f, n) == IF t[n] \in Sites[f] THEN New[t[n]] ELSE <<t[n]>>

LEMMA PieceTyped ==
    ASSUME NEW t \in Seq(Nat), NEW f \in Func, NEW n \in DOMAIN t
    PROVE  Piece(t, f, n) \in Seq(Nat)
  <1>1. CASE t[n] \in Sites[f]
    <2>1. t[n] \in Line
      BY <1>1 DEF Line
    <2>2. New[t[n]] \in Seq(Nat \ Line)
      BY <2>1, PatchAssumption
    <2>3. New[t[n]] \in Seq(Nat)
      BY <2>2, SeqMonotonic
    <2> QED BY <1>1, <2>3 DEF Piece
  <1>2. CASE t[n] \notin Sites[f]
    <2>1. t[n] \in Nat
      OBVIOUS
    <2> QED BY <1>2, <2>1 DEF Piece
  <1> QED BY <1>1, <1>2

LEMMA RewriteSteps ==
    ASSUME NEW t \in Seq(Nat), NEW f \in Func, NEW lo \in Nat \ {0}, NEW hi \in 0 .. Len(t)
    PROVE  /\ Rewrite(t, f, lo, hi) \in Seq(Nat)
           /\ hi < lo => Rewrite(t, f, lo, hi) = <<>>
           /\ lo <= hi => Rewrite(t, f, lo, hi) = Rewrite(t, f, lo, hi - 1) \o Piece(t, f, hi)
  <1> DEFINE X == Seq(Nat)
             N == Len(t)
             u == CHOOSE u : u = [n \in 0 .. N |-> IF n < lo THEN <<>>
                                                    ELSE u[n - 1] \o Piece(t, f, n)]
             G == [n \in 1 .. N |-> [x \in X |-> IF n < lo THEN <<>> ELSE x \o Piece(t, f, n)]]
  <1>1. N \in Nat /\ DOMAIN t = 1 .. N /\ <<>> \in X
    OBVIOUS
  <1>2. ASSUME NEW n \in 1 .. N, NEW x \in X
        PROVE  (IF n < lo THEN <<>> ELSE x \o Piece(t, f, n)) \in X
    <2>1. Piece(t, f, n) \in Seq(Nat)
      BY <1>1, PieceTyped
    <2> QED BY <1>1, <2>1, ConcatProperties
  <1>3. G \in Steps(N, X)
    BY <1>2 DEF Steps
  <1> HIDE DEF G, X, N
  <1>4. PICK g \in [0 .. N -> X] : Solves(g, N, <<>>, G)
    <2>1. \A b \in X, H \in Steps(N, X) : \E g \in [0 .. N -> X] : Solves(g, N, b, H)
      BY <1>1, Solvable, Zenon
    <2> QED BY <1>1, <1>3, <2>1, Zenon
  <1>14. g = [n \in 0 .. N |-> IF n = 0 THEN <<>> ELSE G[n][g[n - 1]]]
    BY <1>4, Zenon DEF Solves
  <1> USE DEF G, X, N
  <1>5. g = [n \in 0 .. N |-> IF n < lo THEN <<>> ELSE g[n - 1] \o Piece(t, f, n)]
    <2>1. ASSUME NEW n \in 0 .. N
          PROVE  g[n] = IF n < lo THEN <<>> ELSE g[n - 1] \o Piece(t, f, n)
      <3>1. CASE n = 0
        BY <1>4, <1>14, <3>1
      <3>2. CASE n # 0
        <4>1. n \in 1 .. N /\ n - 1 \in 0 .. N /\ g[n - 1] \in X
          <5> HIDE DEF N, X, G
          <5>1. n \in 1 .. N /\ n - 1 \in 0 .. N
            BY <1>1, <3>2
          <5> QED BY <1>4, <1>14, <5>1
        <4>2. g[n] = G[n][g[n - 1]]
          BY <1>4, <1>14, <3>2
        <4> QED BY <4>1, <4>2
      <3> QED BY <3>1, <3>2
    <2> HIDE DEF X, G
    <2>2. g = [n \in 0 .. N |-> g[n]]
      BY <1>4, <1>14
    <2> QED BY <2>1, <2>2
  <1>6. u = [n \in 0 .. N |-> IF n < lo THEN <<>> ELSE u[n - 1] \o Piece(t, f, n)]
    BY <1>5
  <1>7. \A n \in 0 .. N : Rewrite(t, f, lo, n) = u[n]
    BY DEF Rewrite, Piece
  <1> HIDE DEF u, G
  <1>8. ASSUME NEW n \in Nat, n <= N => u[n] \in X, n + 1 <= N PROVE u[n + 1] \in X
    <2>1. n + 1 \in 0 .. N /\ n + 1 \in 1 .. N /\ (n + 1) - 1 = n /\ u[n] \in X
      BY <1>1, <1>8
    <2>2. u[n + 1] = IF n + 1 < lo THEN <<>> ELSE u[n] \o Piece(t, f, n + 1)
      BY <1>6, <2>1
    <2> QED BY <1>2, <2>1, <2>2
  <1>9. \A n \in 0 .. N : u[n] \in X
    <2> DEFINE T == {n \in Nat : n <= N => u[n] \in X}
    <2>1. 0 \in T
      BY <1>1, <1>6
    <2>2. \A n \in T : n + 1 \in T
      BY <1>8
    <2>3. T = Nat
      <3>1. T \subseteq Nat
        OBVIOUS
      <3> HIDE DEF T
      <3> QED BY <2>1, <2>2, <3>1, Induction
    <2> QED BY <1>1, <2>3
  <1>10. lo <= hi => hi - 1 \in 0 .. N /\ hi \in 0 .. N /\ ~(hi < lo)
    BY <1>1
  <1> QED BY <1>6, <1>7, <1>9, <1>10

(* Two parts of the verified text that meet.                               *)
LEMMA RewriteSplit ==
    ASSUME NEW t \in Seq(Nat), NEW f \in Func, NEW lo \in Nat \ {0}, NEW m \in Nat,
           NEW hi \in 0 .. Len(t), lo - 1 <= m, m <= hi
    PROVE  Rewrite(t, f, lo, hi) = Rewrite(t, f, lo, m) \o Rewrite(t, f, m + 1, hi)
  <1> DEFINE N == Len(t)
             W(a, b) == Rewrite(t, f, a, b)
             T == {n \in Nat : m + n <= N => W(lo, m + n) = W(lo, m) \o W(m + 1, m + n)}
  <1>1. N \in Nat /\ m \in 0 .. N /\ m + 1 \in Nat \ {0}
    OBVIOUS
  <1>2. ASSUME NEW a \in Nat \ {0}, NEW b \in 0 .. N
        PROVE  /\ W(a, b) \in Seq(Nat)
               /\ b < a => W(a, b) = <<>>
               /\ a <= b => W(a, b) = W(a, b - 1) \o Piece(t, f, b)
    BY RewriteSteps
  <1> HIDE DEF W
  <1>3. 0 \in T
    <2>1. m + 0 = m /\ m < m + 1
      OBVIOUS
    <2>2. W(m + 1, m) = <<>> /\ W(lo, m) \in Seq(Nat)
      BY <1>1, <1>2, <2>1
    <2>3. W(lo, m) \o <<>> = W(lo, m)
      BY <2>2, ConcatEmptySeq
    <2> QED BY <2>1, <2>2, <2>3
  <1>4. ASSUME NEW n \in T PROVE n + 1 \in T
    <2>1. SUFFICES ASSUME m + (n + 1) <= N
                   PROVE  W(lo, m + (n + 1)) = W(lo, m) \o W(m + 1, m + (n + 1))
      OBVIOUS
    <2> DEFINE b == m + (n + 1)
    <2>2. /\ b \in 0 .. N /\ b - 1 = m + n /\ m + n \in 0 .. N /\ m + n <= N
          /\ lo <= b /\ m + 1 <= b /\ b \in 1 .. N
      BY <1>1, <2>1
    <2>3. W(lo, m + n) = W(lo, m) \o W(m + 1, m + n)
      BY <2>2
    <2>4. Piece(t, f, b) \in Seq(Nat)
      <3>1. b \in DOMAIN t
        BY <2>2
      <3> QED BY <3>1, PieceTyped
    <2> HIDE DEF b
    <2>5. /\ W(lo, b) = W(lo, m + n) \o Piece(t, f, b)
          /\ W(m + 1, b) = W(m + 1, m + n) \o Piece(t, f, b)
      BY <1>1, <1>2, <2>2
    <2>6. W(lo, m) \in Seq(Nat) /\ W(m + 1, m + n) \in Seq(Nat)
      BY <1>1, <1>2, <2>2
    <2>7. (W(lo, m) \o W(m + 1, m + n)) \o Piece(t, f, b)
          = W(lo, m) \o (W(m + 1, m + n) \o Piece(t, f, b))
      BY <2>4, <2>6, Together
    <2> QED BY <2>3, <2>5, <2>7 DEF b
  <1>5. T = Nat
    <2>1. T \subseteq Nat
      OBVIOUS
    <2> HIDE DEF T
    <2> QED BY <1>3, <1>4, <2>1, Induction
  <1>6. hi - m \in T /\ m + (hi - m) = hi /\ hi <= N
    <2>1. hi - m \in Nat /\ m + (hi - m) = hi /\ hi <= N
      BY <1>1
    <2> HIDE DEF T
    <2> QED BY <1>5, <2>1
  <1> QED BY <1>6 DEF W

(* Lines that nothing replaces stay.                                       *)
LEMMA RewriteKeeps ==
    ASSUME NEW t \in Seq(Nat), NEW f \in Func, NEW lo \in Nat \ {0},
           NEW hi \in 0 .. Len(t), lo - 1 <= hi, \A n \in lo .. hi : t[n] \notin Sites[f]
    PROVE  Rewrite(t, f, lo, hi) = SubSeq(t, lo, hi)
  <1> DEFINE m == lo - 1
             T == {n \in Nat : m + n <= hi => Rewrite(t, f, lo, m + n) = SubSeq(t, lo, m + n)}
  <1>1. m \in Nat /\ m < lo /\ m + 1 = lo /\ m <= hi /\ Len(t) \in Nat /\ hi <= Len(t) /\ hi \in Nat
    OBVIOUS
  <1> HIDE DEF m
  <1>2. 0 \in T
    <2>1. m + 0 = m /\ m \in 0 .. Len(t)
      BY <1>1
    <2>2. Rewrite(t, f, lo, m) = <<>>
      BY <1>1, <2>1, RewriteSteps
    <2>3. SubSeq(t, lo, m) = <<>>
      BY <1>1, SubSeqEmpty
    <2> QED BY <2>1, <2>2, <2>3
  <1>3. ASSUME NEW n \in T PROVE n + 1 \in T
    <2>1. SUFFICES ASSUME m + (n + 1) <= hi
                   PROVE  Rewrite(t, f, lo, m + (n + 1)) = SubSeq(t, lo, m + (n + 1))
      OBVIOUS
    <2> DEFINE b == m + (n + 1)
    <2>2. /\ b \in 0 .. Len(t) /\ b - 1 = m + n /\ m + n <= hi /\ lo <= b /\ b \in lo .. hi
          /\ lo \in 1 .. Len(t) /\ b \in lo .. Len(t)
      BY <1>1, <2>1
    <2>3. Rewrite(t, f, lo, m + n) = SubSeq(t, lo, m + n)
      BY <2>2
    <2> HIDE DEF b
    <2>4. Rewrite(t, f, lo, b) = Rewrite(t, f, lo, b - 1) \o Piece(t, f, b)
      BY <2>2, RewriteSteps
    <2>5. Piece(t, f, b) = <<t[b]>>
      BY <2>2 DEF Piece
    <2>6. SubSeq(t, lo, b) = SubSeq(t, lo, b - 1) \o <<t[b]>>
      BY <2>2, SubSeqRecursiveSecond
    <2> QED BY <2>2, <2>3, <2>4, <2>5, <2>6 DEF b
  <1>4. T = Nat
    <2>1. T \subseteq Nat
      OBVIOUS
    <2> HIDE DEF T
    <2> QED BY <1>2, <1>3, <2>1, Induction
  <1>5. hi - m \in T /\ m + (hi - m) = hi /\ hi <= hi
    <2>1. hi - m \in Nat /\ m + (hi - m) = hi /\ hi <= hi
      BY <1>1
    <2> HIDE DEF T
    <2> QED BY <1>4, <2>1
  <1> QED BY <1>5

-----------------------------------------------------------------------------
(* Hunks cover what changes: each covered line that follows one that is    *)
(* not starts one, and its end is the first covered line before one that   *)
(* is not.                                                                 *)
Starts(t, f) == {h.start : h \in Hunks(t, f)}

LEMMA CoveredLines ==
    ASSUME NEW t \in Seq(Nat), NEW f \in Func
    PROVE  /\ Covered(t, f) \subseteq 1 .. Len(t) /\ Len(t) \in Nat
           /\ \A n \in DOMAIN t : t[n] \in Sites[f] => n \in Covered(t, f)
  BY PatchAssumption DEF Covered

LEMMA HunkIs ==
    ASSUME NEW t \in Seq(Nat), NEW f \in Func, NEW h \in Hunks(t, f)
    PROVE  /\ h.start \in 1 .. Len(t) /\ h.end \in 1 .. Len(t) /\ h.start <= h.end
           /\ h.start .. h.end \subseteq Covered(t, f)
           /\ h.start - 1 \notin Covered(t, f) /\ h.end + 1 \notin Covered(t, f)
           /\ h.new = Rewrite(t, f, h.start, h.end) /\ h.new \in Seq(Nat)
  <1>1. PICK r \in Spans(t, f) :
          h = [start |-> r[1], end |-> r[2], new |-> Rewrite(t, f, r[1], r[2])]
    BY DEF Hunks
  <1>2. h.start = r[1] /\ h.end = r[2] /\ h.new = Rewrite(t, f, r[1], r[2])
    BY <1>1
  <1>3. /\ r[1] \in Covered(t, f) /\ r[2] \in Covered(t, f)
        /\ r[1] .. r[2] \subseteq Covered(t, f) /\ r[1] <= r[2]
        /\ r[1] - 1 \notin Covered(t, f) /\ r[2] + 1 \notin Covered(t, f)
    BY <1>1 DEF Spans
  <1>4. r[1] \in 1 .. Len(t) /\ r[2] \in 1 .. Len(t) /\ Len(t) \in Nat
    BY <1>3, CoveredLines
  <1>5. r[1] \in Nat \ {0} /\ r[2] \in 0 .. Len(t)
    BY <1>4
  <1>6. Rewrite(t, f, r[1], r[2]) \in Seq(Nat)
    BY <1>5, RewriteSteps
  <1> QED BY <1>2, <1>3, <1>4, <1>6

LEMMA HunkStarts ==
    ASSUME NEW t \in Seq(Nat), NEW f \in Func, NEW i \in Covered(t, f),
           i - 1 \notin Covered(t, f)
    PROVE  i \in Starts(t, f)
  <1> DEFINE C == Covered(t, f)
             T == {k \in Nat : k >= i /\ k + 1 \notin C}
  <1>1. C \subseteq 1 .. Len(t) /\ Len(t) \in Nat /\ i \in C /\ i - 1 \notin C
    BY CoveredLines
  <1> HIDE DEF C
  <1>2. Len(t) \in T
    BY <1>1
  <1>3. PICK j \in T : \A k \in T : j <= k
    <2>1. T \subseteq Nat
      OBVIOUS
    <2> HIDE DEF T
    <2> QED BY <1>2, <2>1, Smallest
  <1>4. i \in Nat /\ i >= 1 /\ j \in Nat /\ j >= i /\ j + 1 \notin C
    BY <1>1, <1>3
  <1>5. ASSUME NEW k \in i .. j PROVE k \in C
    <2>1. SUFFICES ASSUME k \notin C PROVE FALSE
      OBVIOUS
    <2>2. k # i /\ k - 1 \in Nat /\ k - 1 >= i /\ (k - 1) + 1 = k
      BY <1>1, <1>4, <2>1
    <2>3. k - 1 \in T
      BY <2>1, <2>2
    <2>4. j <= k - 1
      BY <1>3, <2>3
    <2> QED BY <1>4, <2>4
  <1>6. j \in C /\ i .. j \subseteq C
    BY <1>4, <1>5
  <1>7. <<i, j>> \in Spans(t, f)
    BY <1>1, <1>4, <1>6 DEF Spans, C
  <1>8. PICK h \in Hunks(t, f) : h = [start |-> i, end |-> j, new |-> Rewrite(t, f, i, j)]
    <2>1. PICK r \in Spans(t, f) : r[1] = i /\ r[2] = j
      BY <1>7
    <2>2. [start |-> r[1], end |-> r[2], new |-> Rewrite(t, f, r[1], r[2])] \in Hunks(t, f)
      BY DEF Hunks
    <2> QED BY <2>1, <2>2
  <1>9. h.start = i
    BY <1>8
  <1> QED BY <1>9 DEF Starts

(* Lines without the start of a hunk, after a gap, are not covered.        *)
LEMMA NotCovered ==
    ASSUME NEW t \in Seq(Nat), NEW f \in Func, NEW lo \in Nat \ {0}, NEW hi \in Nat,
           lo \notin Covered(t, f) \/ lo - 1 \notin Covered(t, f),
           \A n \in lo .. hi : n \notin Starts(t, f)
    PROVE  \A n \in lo .. hi : n \notin Covered(t, f)
  <1> DEFINE C == Covered(t, f)
             T == {n \in lo .. hi : n \in C}
  <1>1. SUFFICES ASSUME T # {} PROVE FALSE
    OBVIOUS
  <1>2. PICK n \in T : \A k \in T : n <= k
    <2>1. T \subseteq Nat
      OBVIOUS
    <2> HIDE DEF T
    <2> QED BY <1>1, <2>1, Smallest
  <1>3. n \in lo .. hi /\ n \in C /\ n \notin Starts(t, f)
    BY <1>2
  <1>4. n - 1 \in C
    BY <1>3, HunkStarts
  <1>5. n # lo
    BY <1>3, <1>4
  <1>6. n - 1 \in lo .. hi /\ ~(n <= n - 1)
    BY <1>3, <1>5
  <1>7. n - 1 \in T
    BY <1>4, <1>6
  <1> QED BY <1>2, <1>6, <1>7

(* A text that can be found something in has a hunk.                       *)
LEMMA HasHunks ==
    ASSUME NEW t \in Seq(Nat), NEW f \in Findable(t)
    PROVE  f \in Func /\ Hunks(t, f) # {}
  <1>1. f \in Func /\ Sites[f] \subseteq Range(t) /\ Sites[f] # {}
    BY PatchAssumption DEF Findable
  <1>2. PICK n \in DOMAIN t : t[n] \in Sites[f]
    BY <1>1 DEF Range
  <1>3. n \in Covered(t, f) /\ Covered(t, f) \subseteq 1 .. Len(t) /\ Len(t) \in Nat
    BY <1>1, <1>2, CoveredLines
  <1>4. PICK i \in Covered(t, f) : \A k \in Covered(t, f) : i <= k
    BY <1>3, Smallest
  <1>5. i - 1 \notin Covered(t, f)
    BY <1>3, <1>4
  <1>6. i \in Starts(t, f)
    BY <1>1, <1>4, <1>5, HunkStarts
  <1> QED BY <1>1, <1>6 DEF Starts

LEMMA HunkEnds ==
    ASSUME NEW t \in Seq(Nat), NEW f \in Findable(t)
    PROVE  LET E == {h.end : h \in Hunks(t, f)} IN
           /\ LastStart(Hunks(t, f)) \in Starts(t, f)
           /\ \A n \in Starts(t, f) : n <= LastStart(Hunks(t, f))
           /\ Starts(t, f) \subseteq 1 .. Len(t)
           /\ Max(E) \in 1 .. Len(t) /\ \A h \in Hunks(t, f) : h.end <= Max(E)
  <1> DEFINE E == {h.end : h \in Hunks(t, f)}
             S == {h.start : h \in Hunks(t, f)}
  <1>1. E \subseteq 1 .. Len(t) /\ S \subseteq 1 .. Len(t) /\ Len(t) \in Nat
    BY HasHunks, HunkIs
  <1>2. E # {} /\ S # {}
    BY HasHunks
  <1>3. \A h \in Hunks(t, f) : h.end \in E
    OBVIOUS
  <1>4. S = Starts(t, f) /\ LastStart(Hunks(t, f)) = Max(S)
    BY DEF Starts, LastStart
  <1> HIDE DEF E, S
  <1>5. E \subseteq 0 .. Len(t) /\ S \subseteq 0 .. Len(t)
    BY <1>1
  <1>6. Max(E) \in E /\ Max(S) \in S /\ (\A n \in E : n <= Max(E)) /\ \A n \in S : n <= Max(S)
    BY <1>1, <1>2, <1>5, Largest
  <1> QED BY <1>1, <1>3, <1>4, <1>6 DEF E

-----------------------------------------------------------------------------
(* Applying, hunk by hunk.                                                 *)
LEMMA SpliceTyped ==
    ASSUME NEW b \in Seq(Nat), NEW h, h.start \in Nat \ {0}, h.end \in Nat, h.new \in Seq(Nat)
    PROVE  Splice(b, h) \in Seq(Nat)
  <1> DEFINE k == IF h.start - 1 < Len(b) THEN h.start - 1 ELSE Len(b)
  <1>1. Len(b) \in Nat /\ k \in Int /\ k <= Len(b) /\ h.end + 1 \in Int /\ h.end + 1 >= 1
    OBVIOUS
  <1>2. \A n \in 1 .. Len(b) : b[n] \in Nat
    OBVIOUS
  <1> HIDE DEF k
  <1>3. SubSeq(b, 1, k) \in Seq(Nat)
    BY <1>1, <1>2, SubSeqProperties
  <1>4. SubSeq(b, h.end + 1, Len(b)) \in Seq(Nat)
    <2>1. PICK m \in Int : m = h.end + 1
      BY <1>1
    <2>2. \A n \in m .. Len(b) : b[n] \in Nat
      BY <1>1, <1>2, <2>1
    <2>3. SubSeq(b, m, Len(b)) \in Seq(Nat)
      BY <1>1, <2>2, SubSeqProperties
    <2> QED BY <2>1, <2>3
  <1>5. SubSeq(b, 1, k) \o h.new \in Seq(Nat)
    BY <1>3, ConcatProperties
  <1> QED BY <1>4, <1>5, ConcatProperties DEF Splice, k

LEMMA SpliceAtTyped ==
    ASSUME NEW b \in Seq(Nat), NEW t \in Seq(Nat), NEW f \in Func, NEW n
    PROVE  SpliceAt(b, Hunks(t, f), n) \in Seq(Nat)
  <1>1. CASE \E h \in Hunks(t, f) : h.start = n
    <2>1. PICK h \in Hunks(t, f) : h = CHOOSE g \in Hunks(t, f) : g.start = n
      BY <1>1
    <2>2. h.start \in Nat \ {0} /\ h.end \in Nat /\ h.new \in Seq(Nat)
      BY HunkIs
    <2>3. Splice(b, h) \in Seq(Nat)
      BY <2>2, SpliceTyped
    <2> QED BY <1>1, <2>1, <2>3 DEF SpliceAt
  <1>2. CASE ~\E h \in Hunks(t, f) : h.start = n
    BY <1>2 DEF SpliceAt
  <1> QED BY <1>1, <1>2

Chain(b, hs, L, d) ==
    /\ d \in [0 .. L -> Seq(Nat)] /\ d[0] = b
    /\ \A n \in 1 .. L : d[n] = SpliceAt(d[n - 1], hs, L + 1 - n)
    /\ ApplyHunks(b, hs) = d[L]

LEMMA ApplySteps ==
    ASSUME NEW b \in Seq(Nat), NEW t \in Seq(Nat), NEW f \in Findable(t),
           NEW L, L = LastStart(Hunks(t, f))
    PROVE  L \in Nat /\ \E d : Chain(b, Hunks(t, f), L, d)
  <1> DEFINE X == Seq(Nat)
             hs == Hunks(t, f)
             u == CHOOSE u : u = [n \in 0 .. L |-> IF n = 0 THEN b
                                                    ELSE SpliceAt(u[n - 1], hs, L + 1 - n)]
             G == [n \in 1 .. L |-> [x \in X |-> SpliceAt(x, hs, L + 1 - n)]]
  <1>1. L \in Nat /\ f \in Func
    <2>1. L \in 1 .. Len(t)
      BY HunkEnds
    <2> QED BY <2>1, HasHunks
  <1>2. ASSUME NEW n \in 1 .. L, NEW x \in X PROVE SpliceAt(x, hs, L + 1 - n) \in X
    BY <1>1, SpliceAtTyped
  <1>3. G \in Steps(L, X)
    <2> HIDE DEF X, hs
    <2> QED BY <1>2 DEF Steps
  <1> HIDE DEF G, X
  <1>4. PICK g \in [0 .. L -> X] : Solves(g, L, b, G)
    <2>1. b \in X
      BY DEF X
    <2>2. \A a \in X, H \in Steps(L, X) : \E g \in [0 .. L -> X] : Solves(g, L, a, H)
      BY <1>1, Solvable, Zenon
    <2> QED BY <1>3, <2>1, <2>2, Zenon
  <1>14. g = [n \in 0 .. L |-> IF n = 0 THEN b ELSE G[n][g[n - 1]]]
    BY <1>4, Zenon DEF Solves
  <1> USE DEF G, X
  <1> HIDE DEF X, hs
  <1>5. g = [n \in 0 .. L |-> IF n = 0 THEN b ELSE SpliceAt(g[n - 1], hs, L + 1 - n)]
    <2>1. ASSUME NEW n \in 0 .. L
          PROVE  g[n] = IF n = 0 THEN b ELSE SpliceAt(g[n - 1], hs, L + 1 - n)
      <3>1. CASE n = 0
        BY <1>4, <1>14, <3>1
      <3>2. CASE n # 0
        <4>1. n \in 1 .. L /\ n - 1 \in 0 .. L
          BY <1>1, <3>2
        <4>2. g[n - 1] \in X
          BY <1>4, <1>14, <4>1
        <4>3. g[n] = G[n][g[n - 1]]
          BY <1>4, <1>14, <3>2
        <4> QED BY <3>2, <4>1, <4>2, <4>3
      <3> QED BY <3>1, <3>2
    <2> HIDE DEF G
    <2>2. g = [n \in 0 .. L |-> g[n]]
      BY <1>4, <1>14
    <2> QED BY <2>1, <2>2
  <1>6. u = [n \in 0 .. L |-> IF n = 0 THEN b ELSE SpliceAt(u[n - 1], hs, L + 1 - n)]
    BY <1>5
  <1>7. ApplyHunks(b, hs) = u[L]
    <2>1. L = LastStart(hs)
      BY DEF hs
    <2> QED BY <2>1 DEF ApplyHunks
  <1> HIDE DEF u, G
  <1>8. u[0] = b /\ \A n \in 1 .. L : u[n] = SpliceAt(u[n - 1], hs, L + 1 - n)
    BY <1>1, <1>6
  <1>9. ASSUME NEW n \in Nat, n <= L => u[n] \in X, n + 1 <= L PROVE u[n + 1] \in X
    <2>1. n + 1 \in 1 .. L /\ (n + 1) - 1 = n /\ u[n] \in X
      BY <1>1, <1>9
    <2>2. u[n + 1] = SpliceAt(u[n], hs, L + 1 - (n + 1))
      BY <1>8, <2>1
    <2> QED BY <1>2, <2>1, <2>2
  <1>10. \A n \in 0 .. L : u[n] \in X
    <2> DEFINE T == {n \in Nat : n <= L => u[n] \in X}
    <2>1. 0 \in T
      BY <1>8 DEF X
    <2>2. \A n \in T : n + 1 \in T
      BY <1>9
    <2>3. T = Nat
      <3>1. T \subseteq Nat
        OBVIOUS
      <3> HIDE DEF T
      <3> QED BY <2>1, <2>2, <3>1, Induction
    <2> QED BY <1>1, <2>3
  <1>11. u \in [0 .. L -> X]
    BY <1>6, <1>10
  <1>12. Chain(b, Hunks(t, f), L, u)
    BY <1>7, <1>8, <1>11 DEF hs, X, Chain
  <1> QED BY <1>1, <1>12

LEMMA ApplyTyped ==
    ASSUME NEW b \in Seq(Nat), NEW t \in Seq(Nat), NEW f \in Findable(t)
    PROVE  ApplyHunks(b, Hunks(t, f)) \in Seq(Nat)
  <1>1. PICK L : L = LastStart(Hunks(t, f))
    OBVIOUS
  <1>2. PICK d : Chain(b, Hunks(t, f), L, d)
    BY <1>1, ApplySteps
  <1>3. L \in Nat
    BY <1>1, ApplySteps
  <1> QED BY <1>2, <1>3 DEF Chain

(* Down to line E, which no hunk passes, b reads as t does.                *)
Agree(b, t, f, E) ==
    /\ E \in Nat /\ E <= Len(b) /\ E <= Len(t) /\ SubSeq(b, 1, E) = SubSeq(t, 1, E)
    /\ \A h \in Hunks(t, f) : h.end <= E

(* Nothing changes in lines i + 1 to k.                                    *)
Untouched(b, t, f, i, k) == Rewrite(t, f, i + 1, k) = SubSeq(b, i + 1, k)

(* Once the hunks from line k on are in place, the next one above leaves   *)
(* everything from its own start in place.                                 *)
Placed(b, t, f, k, end) ==
    SubSeq(b, 1, k) \o (Rewrite(t, f, k + 1, end) \o SubSeq(b, end + 1, Len(b)))

LEMMA SplicePlaces ==
    ASSUME NEW b \in Seq(Nat), NEW t \in Seq(Nat), NEW f \in Func, NEW h \in Hunks(t, f),
           NEW k \in Nat, NEW E \in Nat, h.end <= k, k <= E, Agree(b, t, f, E),
           Untouched(b, t, f, h.end, k)
    PROVE  Splice(Placed(b, t, f, k, E), h) = Placed(b, t, f, h.start - 1, E)
  <1>0. PICK s, e : s = h.start /\ e = h.end
    OBVIOUS
  <1> DEFINE W(x, y) == Rewrite(t, f, x, y)
             A == SubSeq(b, 1, k)
             R == SubSeq(b, E + 1, Len(b))
             B == W(k + 1, E) \o R
             D == A \o B
  <1>1. /\ s \in Nat \ {0} /\ e \in Nat /\ s <= e /\ e <= k /\ h.new = W(s, e)
        /\ Len(b) \in Nat /\ Len(t) \in Nat /\ k \in 0 .. Len(t) /\ E \in 0 .. Len(t)
        /\ e \in 0 .. Len(t) /\ k <= Len(b)
    <2>1. Len(b) \in Nat /\ Len(t) \in Nat /\ E <= Len(b) /\ E <= Len(t)
      BY DEF Agree
    <2>2. h.start \in 1 .. Len(t) /\ h.end \in 1 .. Len(t) /\ h.start <= h.end
          /\ h.new = Rewrite(t, f, h.start, h.end)
      BY HunkIs
    <2>3. h.new = W(s, e)
      BY <1>0, <2>2
    <2>4. s \in 1 .. Len(t) /\ e \in 1 .. Len(t) /\ s <= e /\ e <= k
      BY <1>0, <2>2
    <2> HIDE DEF W
    <2> QED BY <2>1, <2>3, <2>4
  <1>2. /\ W(s, e) \in Seq(Nat) /\ W(e + 1, k) \in Seq(Nat) /\ W(k + 1, E) \in Seq(Nat)
        /\ W(e + 1, E) \in Seq(Nat)
    <2>1. e + 1 \in Nat \ {0} /\ k + 1 \in Nat \ {0}
      BY <1>1
    <2> QED BY <1>1, <2>1, RewriteSteps
  <1>3. \A n \in 1 .. Len(b) : b[n] \in Nat
    OBVIOUS
  <1>4. A \in Seq(Nat) /\ Len(A) = k
    <2>1. \A n \in 1 .. k : b[n] \in Nat
      BY <1>1, <1>3
    <2>2. A \in Seq(Nat) /\ Len(A) = IF 1 <= k THEN k - 1 + 1 ELSE 0
      BY <2>1, SubSeqProperties
    <2> HIDE DEF A
    <2> QED BY <2>2
  <1>5. R \in Seq(Nat)
    <2>1. PICK m \in Int : m = E + 1
      OBVIOUS
    <2>2. \A n \in m .. Len(b) : b[n] \in Nat
      BY <1>1, <1>3, <2>1
    <2>3. SubSeq(b, m, Len(b)) \in Seq(Nat)
      BY <1>1, <2>2, SubSeqProperties
    <2> QED BY <2>1, <2>3
  <1>6. W(s, E) = W(s, e) \o (W(e + 1, k) \o W(k + 1, E))
    <2>1. W(s, E) = W(s, e) \o W(e + 1, E)
      <3>1. s - 1 <= e /\ e <= E
        BY <1>1
      <3> QED BY <1>1, <3>1, RewriteSplit
    <2>2. W(e + 1, E) = W(e + 1, k) \o W(k + 1, E)
      <3>1. e + 1 \in Nat \ {0} /\ (e + 1) - 1 <= k /\ k <= E
        BY <1>1
      <3>2. ASSUME NEW lo, lo \in Nat \ {0}, lo - 1 <= k
            PROVE  W(lo, E) = W(lo, k) \o W(k + 1, E)
        <4>1. k \in Nat /\ E \in 0 .. Len(t) /\ k <= E
          BY <1>1
        <4> QED BY <3>2, <4>1, RewriteSplit
      <3> QED BY <3>1, <3>2
    <2> QED BY <2>1, <2>2
  <1>7. SubSeq(A, 1, s - 1) = SubSeq(b, 1, s - 1)
    <2>1. k \in 0 .. Len(b) /\ 1 \in 1 .. k + 1 /\ s - 1 \in 0 .. k /\ 1 <= (s - 1) + 1
      BY <1>1
    <2> QED BY <2>1, PartOfPart
  <1>8. SubSeq(A, e + 1, k) = SubSeq(b, e + 1, k)
    <2>1. k \in 0 .. Len(b) /\ e + 1 \in 1 .. k + 1 /\ k \in 0 .. k /\ e + 1 <= k + 1
      BY <1>1
    <2> QED BY <2>1, PartOfPart
  <1> HIDE DEF W, A, R
  <1>9. B \in Seq(Nat)
    BY <1>2, <1>5, ConcatProperties
  <1> HIDE DEF B
  <1>10. D \in Seq(Nat) /\ Len(D) = k + Len(B) /\ Len(B) \in Nat
    <2>1. Len(B) \in Nat
      BY <1>9
    <2>2. A \o B \in Seq(Nat) /\ Len(A \o B) = Len(A) + Len(B)
      BY <1>4, <1>9, ConcatProperties
    <2> QED BY <1>4, <2>1, <2>2
  <1>11. SubSeq(D, 1, s - 1) = SubSeq(b, 1, s - 1)
    <2>1. s - 1 \in 0 .. Len(A)
      BY <1>1, <1>4
    <2> QED BY <1>4, <1>7, <1>9, <2>1, CutBefore
  <1>12. SubSeq(D, e + 1, Len(D)) = W(e + 1, k) \o B
    <2>1. e + 1 \in 1 .. Len(A) + 1
      BY <1>1, <1>4
    <2>2. SubSeq(D, e + 1, Len(D)) = SubSeq(A, e + 1, Len(A)) \o B
      BY <1>4, <1>9, <2>1, CutAfter
    <2>3. W(e + 1, k) = SubSeq(b, e + 1, k)
      BY <1>0 DEF W, Untouched
    <2> QED BY <1>4, <1>8, <2>2, <2>3
  <1>13. Splice(D, h) = (SubSeq(b, 1, s - 1) \o W(s, e)) \o (W(e + 1, k) \o B)
    <2>1. s - 1 < Len(D)
      BY <1>1, <1>10
    <2>2. Splice(D, h) = (SubSeq(D, 1, s - 1) \o W(s, e)) \o SubSeq(D, e + 1, Len(D))
      BY <1>0, <1>1, <2>1 DEF Splice
    <2> QED BY <1>11, <1>12, <2>2
  <1>14. SubSeq(b, 1, s - 1) \in Seq(Nat)
    <2>1. PICK m \in Int : m = s - 1
      BY <1>1
    <2>2. \A n \in 1 .. m : b[n] \in Nat
      BY <1>1, <1>3, <2>1
    <2>3. SubSeq(b, 1, m) \in Seq(Nat)
      BY <2>2, SubSeqProperties
    <2> QED BY <2>1, <2>3
  <1>15. (SubSeq(b, 1, s - 1) \o W(s, e)) \o (W(e + 1, k) \o (W(k + 1, E) \o R))
         = SubSeq(b, 1, s - 1) \o ((W(s, e) \o (W(e + 1, k) \o W(k + 1, E))) \o R)
    <2>1. PICK P, Q, U, V, Z : P = SubSeq(b, 1, s - 1) /\ Q = W(s, e) /\ U = W(e + 1, k)
                               /\ V = W(k + 1, E) /\ Z = R
      OBVIOUS
    <2>2. P \in Seq(Nat) /\ Q \in Seq(Nat) /\ U \in Seq(Nat) /\ V \in Seq(Nat)
          /\ Z \in Seq(Nat)
      BY <1>2, <1>5, <1>14, <2>1
    <2>3. Regrouped(P, Q, U, V, Z)
      BY <2>2, Regroup
    <2> QED BY <2>1, <2>3 DEF Regrouped
  <1>16. Placed(b, t, f, k, E) = D /\ Placed(b, t, f, s - 1, E) = SubSeq(b, 1, s - 1) \o (W(s, E) \o R)
    <2>1. (s - 1) + 1 = s
      BY <1>1
    <2> QED BY <2>1 DEF Placed, B, W, A, R
  <1> QED BY <1>0, <1>6, <1>13, <1>15, <1>16 DEF B

(* Where two texts agree, they agree in every part.                        *)
LEMMA SamePart ==
    ASSUME NEW b \in Seq(Nat), NEW t \in Seq(Nat), NEW E \in Nat, E <= Len(b), E <= Len(t),
           SubSeq(b, 1, E) = SubSeq(t, 1, E),
           NEW lo \in 1 .. E + 1, NEW hi \in 0 .. E, lo <= hi + 1
    PROVE  SubSeq(b, lo, hi) = SubSeq(t, lo, hi)
  <1>1. E \in 0 .. Len(b) /\ E \in 0 .. Len(t)
    OBVIOUS
  <1>2. SubSeq(SubSeq(b, 1, E), lo, hi) = SubSeq(b, lo, hi)
    BY <1>1, PartOfPart
  <1>3. SubSeq(SubSeq(t, 1, E), lo, hi) = SubSeq(t, lo, hi)
    BY <1>1, PartOfPart
  <1> QED BY <1>2, <1>3

(* From any line on there is a next hunk, or the last one ends.            *)
NextGap(t, f, i, E, k) ==
    /\ i <= k /\ k <= E
    /\ k = E \/ k + 1 \in Starts(t, f)
    /\ \A n \in i + 1 .. k : n \notin Starts(t, f)

LEMMA NextStart ==
    ASSUME NEW t, NEW f, NEW E \in Nat, NEW i \in 0 .. E
    PROVE  \E k \in Nat : NextGap(t, f, i, E, k)
  <1> DEFINE T == {k \in Nat : i <= k /\ (k = E \/ k + 1 \in Starts(t, f))}
  <1>1. E \in T
    OBVIOUS
  <1>2. PICK k \in T : \A n \in T : k <= n
    <2>1. T \subseteq Nat
      OBVIOUS
    <2> HIDE DEF T
    <2> QED BY <1>1, <2>1, Smallest
  <1>3. k \in Nat /\ i <= k /\ k <= E /\ (k = E \/ k + 1 \in Starts(t, f))
    BY <1>1, <1>2
  <1>4. ASSUME NEW n \in i + 1 .. k, n \in Starts(t, f) PROVE FALSE
    <2>1. n - 1 \in Nat /\ i <= n - 1 /\ (n - 1) + 1 = n /\ n - 1 < k
      BY <1>3, <1>4
    <2>2. n - 1 \in T
      BY <1>4, <2>1
    <2>3. k <= n - 1
      BY <1>2, <2>2
    <2> QED BY <1>3, <2>1, <2>3
  <1> QED BY <1>3, <1>4 DEF NextGap

(* Lines of a gap are the same before and after.                           *)
LEMMA GapKeeps ==
    ASSUME NEW b \in Seq(Nat), NEW t \in Seq(Nat), NEW f \in Func, NEW E \in Nat,
           Agree(b, t, f, E),
           NEW i \in 0 .. E, i + 1 \notin Covered(t, f) \/ i \notin Covered(t, f),
           NEW k \in Nat, NextGap(t, f, i, E, k)
    PROVE  Untouched(b, t, f, i, k)
  <1>0. E <= Len(b) /\ E <= Len(t) /\ SubSeq(b, 1, E) = SubSeq(t, 1, E)
    BY DEF Agree
  <1>1. i <= k /\ k <= E /\ \A n \in i + 1 .. k : n \notin Starts(t, f)
    BY DEF NextGap
  <1> DEFINE lo == i + 1
  <1>2. /\ lo \in Nat \ {0} /\ lo - 1 = i /\ Len(t) \in Nat /\ k \in 0 .. Len(t) /\ lo - 1 <= k
        /\ lo \in 1 .. E + 1 /\ k \in 0 .. E /\ lo <= k + 1
    BY <1>0, <1>1
  <1>3. lo \notin Covered(t, f) \/ lo - 1 \notin Covered(t, f)
    BY <1>2
  <1>4. \A n \in lo .. k : n \notin Starts(t, f)
    BY <1>1
  <1> HIDE DEF lo
  <1>5. \A n \in lo .. k : n \notin Covered(t, f)
    BY <1>2, <1>3, <1>4, NotCovered
  <1>6. \A n \in lo .. k : t[n] \notin Sites[f]
    <2>1. ASSUME NEW n \in lo .. k PROVE n \in DOMAIN t
      BY <1>2
    <2> QED BY <1>5, <2>1, CoveredLines
  <1>7. Rewrite(t, f, lo, k) = SubSeq(t, lo, k)
    BY <1>2, <1>6, RewriteKeeps
  <1>8. SubSeq(b, lo, k) = SubSeq(t, lo, k)
    BY <1>0, <1>2, SamePart
  <1> QED BY <1>7, <1>8 DEF lo, Untouched

(* One step down: what is in place below line k, before and after line s.  *)
BelowPlaced(b, t, f, E, s, x) ==
    \A k \in Nat : NextGap(t, f, s, E, k) => x = Placed(b, t, f, k, E)

LEMMA StepDown ==
    ASSUME NEW b \in Seq(Nat), NEW t \in Seq(Nat), NEW f \in Func, NEW E \in Nat,
           Agree(b, t, f, E), NEW s \in Nat \ {0}, s <= E, NEW x, BelowPlaced(b, t, f, E, s, x)
    PROVE  BelowPlaced(b, t, f, E, s - 1, SpliceAt(x, Hunks(t, f), s))
  <1> DEFINE hs == Hunks(t, f)
             y == SpliceAt(x, hs, s)
  <1>0. /\ E \in Nat /\ E <= Len(b) /\ E <= Len(t) /\ Len(t) \in Nat /\ Len(b) \in Nat
        /\ SubSeq(b, 1, E) = SubSeq(t, 1, E)
    BY DEF Agree
  <1> SUFFICES ASSUME NEW k \in Nat, NextGap(t, f, s - 1, E, k)
               PROVE  y = Placed(b, t, f, k, E)
    BY DEF BelowPlaced
  <1>1. /\ s - 1 <= k /\ k <= E /\ (k = E \/ k + 1 \in Starts(t, f))
        /\ \A n \in s .. k : n \notin Starts(t, f)
    <2>1. (s - 1) + 1 = s
      OBVIOUS
    <2> QED BY <2>1 DEF NextGap
  <1>2. CASE s \notin Starts(t, f)
    <2>1. y = x
      BY <1>2 DEF SpliceAt, Starts
    <2>2. k # s - 1
      BY <1>0, <1>1, <1>2
    <2>3. s <= k /\ s + 1 .. k \subseteq s .. k
      BY <1>1, <2>2
    <2>4. NextGap(t, f, s, E, k)
      BY <1>1, <2>3 DEF NextGap
    <2> QED BY <2>1, <2>4 DEF BelowPlaced
  <1>3. CASE s \in Starts(t, f)
    <2>1. k = s - 1
      <3>1. ~(s <= k)
        BY <1>1, <1>3
      <3> QED BY <1>1, <3>1
    <2>2. PICK h \in hs : h = CHOOSE g \in hs : g.start = s
      BY <1>3 DEF Starts
    <2>3. h.start = s /\ y = Splice(x, h)
      BY <1>3, <2>2 DEF SpliceAt, Starts
    <2>4. /\ h.end \in Nat /\ s <= h.end /\ h.end <= E /\ h.end + 1 \notin Covered(t, f)
          /\ s .. h.end \subseteq Covered(t, f)
      <3>1. h.end <= E
        BY DEF Agree
      <3>2. h.end \in 1 .. Len(t) /\ h.start <= h.end /\ h.end + 1 \notin Covered(t, f)
            /\ h.start .. h.end \subseteq Covered(t, f)
        BY HunkIs
      <3> QED BY <1>0, <2>3, <3>1, <3>2
    <2>5. PICK e : e = h.end
      OBVIOUS
    <2>6. e \in 0 .. E /\ e \in Nat
      BY <1>0, <2>4, <2>5
    <2>7. PICK m \in Nat : NextGap(t, f, e, E, m)
      BY <1>0, <2>6, NextStart
    <2>8. /\ e <= m /\ m <= E /\ (m = E \/ m + 1 \in Starts(t, f))
          /\ \A n \in e + 1 .. m : n \notin Starts(t, f)
      BY <2>7 DEF NextGap
    <2>9. ASSUME NEW n \in s + 1 .. e PROVE n \notin Starts(t, f)
      <3>1. n - 1 \in s .. h.end
        BY <2>5, <2>6, <2>9
      <3>2. n - 1 \in Covered(t, f)
        BY <2>4, <3>1
      <3>3. \A g \in hs : g.start # n
        BY <3>2, HunkIs
      <3> QED BY <3>3 DEF Starts
    <2>10. NextGap(t, f, s, E, m)
      <3>1. s <= m
        BY <2>4, <2>5, <2>8
      <3>2. ASSUME NEW n \in s + 1 .. m PROVE n \notin Starts(t, f)
        <4>1. n \in s + 1 .. e \/ n \in e + 1 .. m
          BY <2>6
        <4> QED BY <2>8, <2>9, <4>1
      <3> QED BY <2>8, <3>1, <3>2 DEF NextGap
    <2>11. x = Placed(b, t, f, m, E)
      BY <2>10 DEF BelowPlaced
    <2>12. Untouched(b, t, f, e, m)
      <3>1. e + 1 \notin Covered(t, f)
        BY <2>4, <2>5
      <3> QED BY <2>6, <2>7, <3>1, GapKeeps
    <2>13. Splice(Placed(b, t, f, m, E), h) = Placed(b, t, f, h.start - 1, E)
      BY <2>5, <2>8, <2>12, SplicePlaces
    <2> QED BY <2>1, <2>3, <2>11, <2>13
  <1> QED BY <1>2, <1>3

(* Applied from the last hunk to the first, all of them are in place.      *)
LEMMA HunksApplied ==
    ASSUME NEW b \in Seq(Nat), NEW t \in Seq(Nat), NEW f \in Findable(t),
           NEW E \in Nat, Agree(b, t, f, E)
    PROVE  ApplyHunks(b, Hunks(t, f)) = Rewrite(t, f, 1, E) \o SubSeq(b, E + 1, Len(b))
  <1> DEFINE hs == Hunks(t, f)
             R == SubSeq(b, E + 1, Len(b))
  <1>0. PICK L : L = LastStart(hs)
    OBVIOUS
  <1>1. f \in Func /\ L \in Nat /\ Len(t) \in Nat /\ Len(b) \in Nat
    BY <1>0, HasHunks, ApplySteps
  <1>2. L \in Starts(t, f) /\ \A n \in Starts(t, f) : n <= L
    BY <1>0, HunkEnds
  <1>3. /\ E <= Len(b) /\ E <= Len(t) /\ SubSeq(b, 1, E) = SubSeq(t, 1, E)
        /\ \A h \in hs : h.end <= E
    BY DEF Agree
  <1>4. L >= 1 /\ L <= E
    <2>1. PICK h \in hs : h.start = L
      BY <1>2 DEF Starts
    <2>2. h.start \in 1 .. Len(t) /\ h.end \in 1 .. Len(t) /\ h.start <= h.end /\ h.end <= E
      BY <1>1, <1>3, HunkIs
    <2> QED BY <1>1, <2>1, <2>2
  <1>5. PICK d :
             /\ d[0] = b
             /\ \A n \in 1 .. L : d[n] = SpliceAt(d[n - 1], hs, L + 1 - n)
             /\ ApplyHunks(b, hs) = d[L]
    <2>1. PICK d : Chain(b, Hunks(t, f), L, d)
      BY <1>0, ApplySteps
    <2> QED BY <2>1 DEF Chain
  <1>6. R \in Seq(Nat) /\ SubSeq(b, 1, E) \o R = b
    <2>1. 1 \in 1 .. Len(b) + 1 /\ E \in 1 - 1 .. Len(b) /\ Len(b) \in E .. Len(b)
      BY <1>1, <1>3
    <2>2. SubSeq(b, 1, E) \o R = SubSeq(b, 1, Len(b))
      BY <2>1, ConcatAdjacentSubSeq
    <2>3. PICK m \in Int : m = E + 1
      OBVIOUS
    <2>4. m >= 1 /\ \A n \in m .. Len(b) : b[n] \in Nat
      BY <1>1, <1>3, <2>3
    <2>5. SubSeq(b, m, Len(b)) \in Seq(Nat)
      BY <1>1, <2>4, SubSeqProperties
    <2> QED BY <2>2, <2>3, <2>5, SubSeqFull
  <1> HIDE DEF hs, R
  <1> DEFINE Good(n) == n <= L => BelowPlaced(b, t, f, E, L - n, d[n])
             T == {n \in Nat : Good(n)}
  <1>7. Good(0)
    <2> SUFFICES ASSUME NEW k \in Nat, NextGap(t, f, L, E, k)
                 PROVE  b = Placed(b, t, f, k, E)
      <3>1. L - 0 = L
        BY <1>1
      <3> QED BY <1>5, <3>1 DEF BelowPlaced
    <2>1. L <= k /\ (k = E \/ k + 1 \in Starts(t, f))
      BY DEF NextGap
    <2>2. k = E
      BY <1>1, <1>2, <2>1
    <2>3. Rewrite(t, f, E + 1, E) = <<>>
      <3>1. PICK lo : lo = E + 1
        OBVIOUS
      <3>2. lo \in Nat \ {0} /\ E \in 0 .. Len(t) /\ E < lo
        BY <1>1, <1>3, <3>1
      <3>3. Rewrite(t, f, lo, E) = <<>>
        BY <1>1, <3>2, RewriteSteps
      <3> QED BY <3>1, <3>3
    <2>4. <<>> \o R = R
      BY <1>6, ConcatEmptySeq
    <2> QED BY <1>6, <2>2, <2>3, <2>4 DEF Placed, R
  <1>8. ASSUME NEW n \in Nat, Good(n) PROVE Good(n + 1)
    <2> SUFFICES ASSUME n + 1 <= L
                 PROVE  BelowPlaced(b, t, f, E, L - (n + 1), d[n + 1])
      OBVIOUS
    <2>1. PICK s : s = L - n
      OBVIOUS
    <2>2. /\ s \in Nat \ {0} /\ s <= E /\ s - 1 = L - (n + 1) /\ n + 1 \in 1 .. L
          /\ L + 1 - (n + 1) = s /\ (n + 1) - 1 = n /\ n <= L
      BY <1>1, <1>2, <1>4, <2>1
    <2>3. BelowPlaced(b, t, f, E, s, d[n])
      BY <1>8, <2>1, <2>2
    <2>4. d[n + 1] = SpliceAt(d[n], hs, s)
      BY <1>5, <2>2
    <2>5. BelowPlaced(b, t, f, E, s - 1, SpliceAt(d[n], hs, s))
      BY <1>1, <2>2, <2>3, StepDown DEF hs
    <2> QED BY <2>2, <2>4, <2>5
  <1>9. T = Nat
    <2> HIDE DEF Good
    <2>1. 0 \in T
      BY <1>7
    <2>2. \A n \in T : n + 1 \in T
      BY <1>8
    <2>3. T \subseteq Nat
      OBVIOUS
    <2> HIDE DEF T
    <2> QED BY <2>1, <2>2, <2>3, Induction
  <1>10. BelowPlaced(b, t, f, E, 0, d[L])
    <2>1. Good(L)
      <3> HIDE DEF Good
      <3> QED BY <1>1, <1>9
    <2>2. L - L = 0 /\ L <= L
      BY <1>1
    <2> QED BY <2>1, <2>2
  <1>11. PICK k \in Nat : NextGap(t, f, 0, E, k)
    <2>1. 0 \in 0 .. E
      OBVIOUS
    <2> QED BY <2>1, NextStart
  <1>12. d[L] = Placed(b, t, f, k, E)
    BY <1>10, <1>11 DEF BelowPlaced
  <1>13. k <= E /\ k \in 0 .. Len(t) /\ E \in 0 .. Len(t)
    BY <1>1, <1>3, <1>11 DEF NextGap
  <1>14. Rewrite(t, f, 1, k) = SubSeq(b, 1, k)
    <2>1. 0 + 1 = 1 /\ 0 \in 0 .. E /\ E <= Len(b) /\ E <= Len(t)
      BY <1>3
    <2>2. 0 \notin Covered(t, f)
      BY <1>1, CoveredLines
    <2>3. Untouched(b, t, f, 0, k)
      BY <1>1, <1>11, <2>1, <2>2, GapKeeps
    <2> QED BY <2>1, <2>3 DEF Untouched
  <1>15. Rewrite(t, f, 1, E) = Rewrite(t, f, 1, k) \o Rewrite(t, f, k + 1, E)
    <2>1. 1 \in Nat \ {0} /\ 1 - 1 <= k
      OBVIOUS
    <2> QED BY <1>1, <1>13, <2>1, RewriteSplit
  <1>16. Rewrite(t, f, 1, k) \in Seq(Nat) /\ Rewrite(t, f, k + 1, E) \in Seq(Nat)
    <2>1. 1 \in Nat \ {0} /\ k + 1 \in Nat \ {0}
      OBVIOUS
    <2> QED BY <1>1, <1>13, <2>1, RewriteSteps
  <1>17. (Rewrite(t, f, 1, k) \o Rewrite(t, f, k + 1, E)) \o R
         = Rewrite(t, f, 1, k) \o (Rewrite(t, f, k + 1, E) \o R)
    BY <1>6, <1>16, Together
  <1> QED BY <1>5, <1>12, <1>14, <1>15, <1>17 DEF Placed, R, hs

-----------------------------------------------------------------------------
(* The editor: texts are texts, and a verdict speaks of a text.            *)
Verdict(t) == {Finding(t, f) : f \in Findable(t)}

EditorOK ==
    /\ buf \in Seq(Nat) /\ Len(buf) <= MaxLines /\ base \in Seq(Nat)
    /\ disk \in Seq(Nat) /\ Len(disk) <= MaxLines
    /\ runs \in [1 .. MaxRuns -> {None} \union Seq(Nat)]
    /\ findings \subseteq Verdict(base)
    /\ shown = None \/ \E t \in Seq(Nat) : shown \in Verdict(t)

(* The action: what a run found, and the check it ends with.               *)
Jobs == [at : {"cli", "list", "put", "suggest", "end", "done"}, found : SUBSET Func,
         reported : BOOLEAN, code : {0, 1, 2}, seen : Nat]

JobIs(j, text, c, failOn) ==
    /\ j \in Jobs /\ j.found \subseteq Findable(text)
    /\ j.at = "cli" => c = None /\ ~j.reported
    /\ j.at # "cli" =>
         IF j.reported THEN j.code = IF failOn = "any" /\ j.found # {} THEN 1 ELSE 0
         ELSE j.code \in {1, 2}
    /\ c # None => j.at = "done" /\ c = j.code
JobOK(p) == JobIs(job[p], heads[p], check[p], policy)

PushesOK ==
    /\ heads \in Seq(Seq(Nat)) /\ Len(heads) <= MaxPushes
    /\ DOMAIN job = Push /\ check \in [Push -> {None, 0, 1, 2}]
    /\ \A p \in Push : IF p <= Len(heads) THEN JobOK(p) ELSE job[p] = None /\ check[p] = None

NotesOK ==
    \A n \in notes :
        /\ n.push \in Push /\ n.push <= Len(heads) /\ job[n.push].at # "cli"
        /\ n.func \in job[n.push].found

(* The summary comment, as long as no two runs overlap.                    *)
CommentsOK ==
    /\ comments \in Seq({0} \union Push)
    /\ ~raced =>
         /\ \A p \in Push : InAction(p) => p = Len(heads)
         /\ \A p \in Push : InAction(p) /\ job[p].at = "put" =>
              IF job[p].seen = 0 THEN Marked = {} ELSE job[p].seen \in Marked
         /\ \A i \in Marked : Summaries = {i}

SurfacesInv == EditorOK /\ PushesOK /\ NotesOK /\ CommentsOK /\ open \in BOOLEAN

-----------------------------------------------------------------------------
(* A run that is under way belongs to a push.                              *)
LEMMA InActionPushed ==
    ASSUME PushesOK, NEW p \in Push, InAction(p)
    PROVE  p \in Nat /\ p >= 1 /\ Len(heads) \in Nat /\ p <= Len(heads) /\ JobOK(p)
  BY ReviewAssumption DEF PushesOK, InAction, Push

(* A step of one run.                                                      *)
LEMMA OneJob ==
    ASSUME PushesOK, NEW p \in Push, p <= Len(heads), heads' = heads, policy' = policy,
           DOMAIN job' = Push, check' \in [Push -> {None, 0, 1, 2}],
           \A q \in Push : q # p => job'[q] = job[q] /\ check'[q] = check[q],
           JobOK(p)'
    PROVE  PushesOK'
  <1>1. ASSUME NEW q \in Push, q # p, q <= Len(heads) PROVE JobOK(q)'
    BY <1>1 DEF PushesOK, JobOK
  <1> QED BY <1>1 DEF PushesOK

LEMMA PushKeepsPushes == PushesOK /\ disk \in Seq(Nat) /\ PushText(disk) => PushesOK'
  <1> SUFFICES ASSUME PushesOK, disk \in Seq(Nat), PushText(disk) PROVE PushesOK'
    OBVIOUS
  <1>0. PICK q : q = Len(heads) + 1
    OBVIOUS
  <1> DEFINE new == [at |-> "cli", found |-> {}, reported |-> FALSE, code |-> 0, seen |-> 0]
  <1>1. heads \in Seq(Seq(Nat)) /\ Len(heads) \in Nat /\ Len(heads) < MaxPushes /\ MaxPushes \in Nat
    BY ReviewAssumption DEF PushesOK, PushText
  <1>2. q \in Push /\ ~(q <= Len(heads)) /\ check[q] = None
    <2>1. q \in Push /\ ~(q <= Len(heads))
      BY <1>0, <1>1 DEF Push
    <2> QED BY <2>1 DEF PushesOK
  <1>3. /\ heads' = Append(heads, disk) /\ heads' \in Seq(Seq(Nat)) /\ Len(heads') = q
        /\ \A p \in 1 .. Len(heads) : heads'[p] = heads[p]
    BY <1>0, <1>1 DEF PushText
  <1>4. job' = [job EXCEPT ![q] = new] /\ check' = check /\ policy' = policy
    BY <1>0 DEF PushText
  <1>5. new \in Jobs
    BY DEF Jobs
  <1>6. JobOK(q)'
    <2>1. job'[q] = new
      BY <1>2, <1>4 DEF PushesOK
    <2> QED BY <1>2, <1>4, <1>5, <2>1 DEF JobOK, JobIs
  <1>7. ASSUME NEW p \in Push, p # q PROVE job'[p] = job[p] /\ check'[p] = check[p]
    BY <1>4, <1>7 DEF PushesOK
  <1>8. ASSUME NEW p \in Push, p # q, p <= Len(heads) PROVE JobOK(p)'
    <2>1. heads'[p] = heads[p]
      BY <1>0, <1>1, <1>3, <1>8, ReviewAssumption DEF Push
    <2>2. JobOK(p)
      BY <1>8 DEF PushesOK
    <2> QED BY <1>4, <1>7, <1>8, <2>1, <2>2 DEF JobOK
  <1>9. ASSUME NEW p \in Push
        PROVE  IF p <= Len(heads') THEN JobOK(p)' ELSE job'[p] = None /\ check'[p] = None
    <2>1. p \in Nat /\ q \in Nat /\ (p <= q <=> p <= Len(heads) \/ p = q)
      BY <1>0, <1>1, ReviewAssumption DEF Push
    <2>2. CASE p = q
      <3>1. p <= Len(heads')
        BY <1>3, <2>1, <2>2
      <3> QED BY <1>6, <2>2, <3>1
    <2>3. CASE p # q
      <3> QED BY <1>3, <1>7, <1>8, <2>1, <2>3 DEF PushesOK
    <2> QED BY <2>2, <2>3
  <1>10. DOMAIN job' = Push /\ check' \in [Push -> {None, 0, 1, 2}] /\ Len(heads') <= MaxPushes
    BY <1>1, <1>3, <1>4 DEF PushesOK
  <1> QED BY <1>3, <1>9, <1>10 DEF PushesOK

LEMMA CliKeepsPushes ==
    ASSUME PushesOK, NEW p \in Push, RunCli(p) PROVE PushesOK'
  <1>1. p <= Len(heads) /\ JobOK(p) /\ job[p].at = "cli" /\ check[p] = None /\ ~job[p].reported
    BY InActionPushed DEF RunCli, JobOK, JobIs
  <1>2. /\ heads' = heads /\ check' = check /\ policy' = policy
        /\ DOMAIN job = Push /\ check \in [Push -> {None, 0, 1, 2}]
    BY DEF RunCli, PushesOK
  <1>3. job[p] \in Jobs /\ job[p].found \subseteq Findable(heads[p])
    BY <1>1 DEF JobOK, JobIs
  <1>4. PICK j : /\ job' = [job EXCEPT ![p] = j]
                 /\ JobIs(j, heads[p], check[p], policy)
    <2>1. CASE \E code \in {1, 2}, at \in {"list", "end"} :
                  job' = [job EXCEPT ![p].at = at, ![p].code = code]
      <3>1. PICK code \in {1, 2}, at \in {"list", "end"} :
                  job' = [job EXCEPT ![p].at = at, ![p].code = code]
        BY <2>1
      <3> DEFINE j == [job[p] EXCEPT !.at = at, !.code = code]
      <3>2. job' = [job EXCEPT ![p] = j]
        BY <1>2, <3>1
      <3>3. j \in Jobs /\ j.at = at /\ j.code = code /\ j.found = job[p].found
            /\ j.reported = job[p].reported
        BY <1>3 DEF Jobs
      <3>4. JobIs(j, heads[p], check[p], policy)
        <4> HIDE DEF j
        <4> QED BY <1>1, <1>3, <3>3 DEF JobIs, JobOK
      <3> QED BY <3>2, <3>4
    <2>2. CASE \E acc \in SUBSET Findable(heads[p]) :
              job' = [job EXCEPT ![p].at = "list", ![p].found = acc, ![p].reported = TRUE,
                                 ![p].code = ExitCode(acc)]
      <3>1. PICK acc \in SUBSET Findable(heads[p]) :
              job' = [job EXCEPT ![p].at = "list", ![p].found = acc, ![p].reported = TRUE,
                                 ![p].code = ExitCode(acc)]
        BY <2>2
      <3>2. PICK code : code = ExitCode(acc)
        OBVIOUS
      <3> DEFINE j == [job[p] EXCEPT !.at = "list", !.found = acc, !.reported = TRUE, !.code = code]
      <3>3. job' = [job EXCEPT ![p] = j]
        BY <1>2, <3>1, <3>2
      <3>4. /\ code = IF policy = "any" /\ acc # {} THEN 1 ELSE 0
            /\ code \in {0, 1} /\ acc \subseteq Func
        BY <3>2 DEF ExitCode, Findable
      <3>5. j \in Jobs /\ j.at = "list" /\ j.code = code /\ j.found = acc /\ j.reported
        BY <1>3, <3>4 DEF Jobs
      <3>6. JobIs(j, heads[p], check[p], policy)
        <4> HIDE DEF j
        <4> QED BY <1>1, <3>4, <3>5 DEF JobIs
      <3> QED BY <3>3, <3>6
    <2> QED BY <2>1, <2>2 DEF RunCli
  <1> QED BY <1>1, <1>2, <1>4, OneJob DEF JobOK

(* Listing, writing and suggesting leave what was found, and the check.    *)
LEMMA OldestIsIn ==
    ASSUME NEW S, S \subseteq Nat, S # {}
    PROVE  Oldest(S) \in S /\ \A i \in S : Oldest(S) <= i
  BY Smallest DEF Oldest

LEMMA MarkedOnPage ==
    ASSUME comments \in Seq({0} \union Push)
    PROVE  Marked \subseteq Summaries /\ Summaries \subseteq Nat
  BY DEF Marked, Summaries

LEMMA DeliveryKeepsPushes ==
    ASSUME PushesOK, comments \in Seq({0} \union Push), NEW p \in Push,
           ListComments(p) \/ PutSummary(p) \/ Suggest(p)
    PROVE  PushesOK'
  <1>1. InAction(p) /\ job[p].at \in {"list", "put", "suggest"}
    BY DEF ListComments, PutSummary, Suggest
  <1>2. p <= Len(heads) /\ JobOK(p)
    BY <1>1, InActionPushed
  <1>3. /\ heads' = heads /\ check' = check /\ policy' = policy
        /\ DOMAIN job = Push /\ check \in [Push -> {None, 0, 1, 2}]
    BY DEF ListComments, PutSummary, Suggest, PushesOK
  <1>4. job[p] \in Jobs
    BY <1>2 DEF JobOK, JobIs
  <1>5. PICK at \in {"put", "suggest", "end"}, seen \in Nat :
            job' = [job EXCEPT ![p] = [job[p] EXCEPT !.at = at, !.seen = seen]]
    <2>1. job[p] = [job[p] EXCEPT !.seen = job[p].seen] /\ job[p].seen \in Nat
      BY <1>4 DEF Jobs
    <2>2. ASSUME NEW at \in {"put", "suggest", "end"}, job' = [job EXCEPT ![p].at = at]
          PROVE  job' = [job EXCEPT ![p] = [job[p] EXCEPT !.at = at, !.seen = job[p].seen]]
      BY <1>3, <1>4, <2>2 DEF Jobs
    <2>3. CASE ListComments(p)
      <3>1. (IF Marked = {} THEN 0 ELSE Oldest(Marked)) \in Nat
        BY MarkedOnPage, OldestIsIn
      <3>2. CASE job' = [job EXCEPT ![p].at = "put", ![p].seen = IF Marked = {} THEN 0
                                                          ELSE Oldest(Marked)]
        <4>1. PICK seen \in Nat : seen = IF Marked = {} THEN 0 ELSE Oldest(Marked)
          BY <3>1
        <4>2. job' = [job EXCEPT ![p].at = "put", ![p].seen = seen]
          BY <3>2, <4>1
        <4>3. job' = [job EXCEPT ![p] = [job[p] EXCEPT !.at = "put", !.seen = seen]]
          BY <1>3, <4>2
        <4> QED BY <4>3
      <3> QED BY <2>1, <2>2, <2>3, <3>2 DEF ListComments
    <2>4. CASE PutSummary(p)
      BY <2>1, <2>2, <2>4 DEF PutSummary
    <2>5. CASE Suggest(p)
      BY <2>1, <2>2, <2>5 DEF Suggest
    <2> QED BY <2>3, <2>4, <2>5
  <1> DEFINE j == [job[p] EXCEPT !.at = at, !.seen = seen]
  <1>6. j \in Jobs /\ j.at = at /\ j.found = job[p].found /\ j.reported = job[p].reported
        /\ j.code = job[p].code
    BY <1>4 DEF Jobs
  <1>7. JobIs(j, heads[p], check[p], policy)
    <2> HIDE DEF j
    <2> QED BY <1>1, <1>2, <1>6 DEF JobIs, JobOK
  <1>8. job'[p] = j /\ DOMAIN job' = Push /\ \A q \in Push : q # p => job'[q] = job[q]
    BY <1>3, <1>5
  <1> HIDE DEF j
  <1>9. JobOK(p)'
    BY <1>3, <1>7, <1>8 DEF JobOK
  <1> QED BY <1>2, <1>3, <1>8, <1>9, OneJob

LEMMA EndKeepsPushes ==
    ASSUME PushesOK, NEW p \in Push, End(p) PROVE PushesOK'
  <1>1. p <= Len(heads) /\ JobOK(p) /\ job[p].at = "end"
    BY InActionPushed DEF End
  <1>2. /\ heads' = heads /\ policy' = policy /\ DOMAIN job = Push
        /\ check \in [Push -> {None, 0, 1, 2}]
        /\ check' = [check EXCEPT ![p] = job[p].code]
        /\ job' = [job EXCEPT ![p].at = "done"]
    BY DEF End, PushesOK
  <1>3. job[p] \in Jobs
    BY <1>1 DEF JobOK, JobIs
  <1> DEFINE j == [job[p] EXCEPT !.at = "done"]
  <1>4. j \in Jobs /\ j.at = "done" /\ j.found = job[p].found /\ j.reported = job[p].reported
        /\ j.code = job[p].code /\ job[p].code \in {0, 1, 2}
    BY <1>3 DEF Jobs
  <1>5. /\ job'[p] = j /\ DOMAIN job' = Push /\ check'[p] = job[p].code
        /\ check' \in [Push -> {None, 0, 1, 2}]
        /\ \A q \in Push : q # p => job'[q] = job[q] /\ check'[q] = check[q]
    BY <1>2, <1>4
  <1> HIDE DEF j
  <1>6. JobIs(j, heads[p], check'[p], policy)
    BY <1>1, <1>4, <1>5 DEF JobIs, JobOK
  <1>7. JobOK(p)'
    BY <1>2, <1>5, <1>6 DEF JobOK
  <1> QED BY <1>1, <1>2, <1>5, <1>7, OneJob

-----------------------------------------------------------------------------
(* The comments, step by step.                                             *)
LEMMA OneJobKeepsComments ==
    ASSUME CommentsOK, NEW p \in Push, InAction(p),
           comments' = comments, raced' = raced, heads' = heads,
           \A q \in Push : q # p => job'[q] = job[q],
           ~raced /\ job'[p].at = "put" =>
               IF job'[p].seen = 0 THEN Marked = {} ELSE job'[p].seen \in Marked
    PROVE  CommentsOK'
  <1>1. Marked' = Marked /\ Summaries' = Summaries
    BY DEF Marked, Summaries
  <1>2. \A q \in Push : q # p => (InAction(q)' <=> InAction(q))
    BY DEF InAction
  <1> QED BY <1>1, <1>2 DEF CommentsOK

LEMMA PushKeepsComments == PushesOK /\ CommentsOK /\ PushText(disk) => CommentsOK'
  <1> SUFFICES ASSUME PushesOK, CommentsOK, PushText(disk) PROVE CommentsOK'
    OBVIOUS
  <1>0. PICK q : q = Len(heads) + 1
    OBVIOUS
  <1>1. /\ comments' = comments /\ Len(heads') = q
        /\ job' = [job EXCEPT ![q] = [at |-> "cli", found |-> {}, reported |-> FALSE,
                                      code |-> 0, seen |-> 0]]
        /\ ~raced' => ~raced /\ \A p \in Push : ~InAction(p)
    <2>1. comments' = comments /\ heads' = Append(heads, disk)
      BY DEF PushText
    <2>2. Len(heads') = q
      <3>1. heads \in Seq(Seq(Nat))
        BY DEF PushesOK
      <3> QED BY <1>0, <2>1, <3>1
    <2>3. raced' = (raced \/ \E p \in Push : InAction(p))
      BY DEF PushText
    <2>4. job' = [job EXCEPT ![q] = [at |-> "cli", found |-> {}, reported |-> FALSE,
                                    code |-> 0, seen |-> 0]]
      BY <1>0 DEF PushText
    <2> QED BY <2>1, <2>2, <2>3, <2>4
  <1>2. Marked' = Marked /\ Summaries' = Summaries
    BY <1>1 DEF Marked, Summaries
  <1>3. \A p \in Push : p # q => (InAction(p)' <=> InAction(p))
    BY <1>1 DEF InAction
  <1>4. q \in Push => job'[q].at = "cli"
    BY <1>1 DEF PushesOK
  <1> QED BY <1>1, <1>2, <1>3, <1>4 DEF CommentsOK

LEMMA RunKeepsComments ==
    ASSUME PushesOK, CommentsOK, NEW p \in Push, RunCli(p) \/ Suggest(p) \/ End(p)
    PROVE  CommentsOK'
  <1>1. InAction(p) /\ DOMAIN job = Push /\ job[p] \in Jobs
    BY InActionPushed DEF RunCli, Suggest, End, PushesOK, JobOK, JobIs
  <1>2. /\ comments' = comments /\ raced' = raced /\ heads' = heads
        /\ \A q \in Push : q # p => job'[q] = job[q]
        /\ job'[p].at # "put"
    <2>1. CASE RunCli(p)
      <3>1. comments' = comments /\ raced' = raced /\ heads' = heads
        BY <2>1 DEF RunCli
      <3>2. CASE \E code \in {1, 2}, at \in {"list", "end"} :
                    job' = [job EXCEPT ![p].at = at, ![p].code = code]
        BY <1>1, <3>1, <3>2 DEF Jobs
      <3>3. CASE \E acc \in SUBSET Findable(heads[p]) :
                    job' = [job EXCEPT ![p].at = "list", ![p].found = acc,
                                       ![p].reported = TRUE, ![p].code = ExitCode(acc)]
        <4>1. PICK acc, code :
                    job' = [job EXCEPT ![p].at = "list", ![p].found = acc,
                                       ![p].reported = TRUE, ![p].code = code]
          BY <3>3
        <4> QED BY <1>1, <3>1, <4>1 DEF Jobs
      <3> QED BY <2>1, <3>2, <3>3 DEF RunCli
    <2>2. CASE Suggest(p) \/ End(p)
      BY <1>1, <2>2 DEF Suggest, End, Jobs
    <2> QED BY <2>1, <2>2
  <1> QED BY <1>1, <1>2, OneJobKeepsComments

LEMMA ListKeepsComments ==
    ASSUME PushesOK, CommentsOK, NEW p \in Push, ListComments(p)
    PROVE  CommentsOK'
  <1>1. InAction(p) /\ DOMAIN job = Push /\ job[p] \in Jobs
    BY InActionPushed DEF ListComments, PushesOK, JobOK, JobIs
  <1>2. PICK seen : seen = IF Marked = {} THEN 0 ELSE Oldest(Marked)
    OBVIOUS
  <1>3. IF seen = 0 THEN Marked = {} ELSE seen \in Marked
    <2>1. Marked # {} => Oldest(Marked) \in Marked
      BY MarkedOnPage, OldestIsIn DEF CommentsOK
    <2>2. 0 \notin Marked
      BY DEF CommentsOK, Marked
    <2> QED BY <1>2, <2>1, <2>2
  <1>4. comments' = comments /\ raced' = raced /\ heads' = heads
    BY DEF ListComments
  <1>5. CASE job' = [job EXCEPT ![p].at = "put", ![p].seen = seen]
    <2>1. job'[p].seen = seen /\ \A q \in Push : q # p => job'[q] = job[q]
      BY <1>1, <1>5 DEF Jobs
    <2> QED BY <1>1, <1>3, <1>4, <2>1, OneJobKeepsComments
  <1>6. CASE \E at \in {"suggest", "end"} : job' = [job EXCEPT ![p].at = at]
    <2>1. job'[p].at # "put" /\ \A q \in Push : q # p => job'[q] = job[q]
      BY <1>1, <1>6 DEF Jobs
    <2> QED BY <1>1, <1>4, <2>1, OneJobKeepsComments
  <1> QED BY <1>2, <1>5, <1>6 DEF ListComments

LEMMA PutKeepsComments ==
    ASSUME PushesOK, CommentsOK, NEW p \in Push, PutSummary(p)
    PROVE  CommentsOK'
  <1>1. /\ InAction(p) /\ DOMAIN job = Push /\ job[p] \in Jobs /\ job[p].at = "put"
        /\ p \in Nat /\ p # 0
    BY InActionPushed DEF PutSummary, PushesOK, JobOK, JobIs
  <1>2. /\ raced' = raced /\ heads' = heads /\ job'[p].at = "suggest"
        /\ \A q \in Push : q # p => job'[q] = job[q]
    BY <1>1 DEF PutSummary, Jobs
  <1>3. comments \in Seq({0} \union Push) /\ Len(comments) \in Nat
    BY DEF CommentsOK
  <1>4. \A q \in Push : q # p => (InAction(q)' <=> InAction(q))
    BY <1>2 DEF InAction
  <1>5. CASE comments' = comments
    BY <1>1, <1>2, <1>5, OneJobKeepsComments
  <1>6. CASE comments' = Append(comments, p) /\ (~raced => Marked = {})
    <2>1. PICK n : n = Len(comments) + 1
      OBVIOUS
    <2>2. /\ comments' \in Seq({0} \union Push) /\ DOMAIN comments' = 1 .. n
          /\ DOMAIN comments = 1 .. Len(comments) /\ comments'[n] = p
          /\ \A i \in DOMAIN comments : comments'[i] = comments[i]
      BY <1>3, <1>6, <2>1
    <2>3. Summaries' = Summaries \union {n}
      BY <1>1, <1>3, <2>1, <2>2 DEF Summaries
    <2>4. ASSUME ~raced, NEW i \in Marked' PROVE Summaries' = {i}
      <3>1. i \in Summaries' /\ i <= PageSize
        BY <2>4 DEF Marked, Summaries
      <3>2. Summaries \subseteq 1 .. Len(comments) /\ \A k \in Summaries : ~(k <= PageSize)
        BY <1>6, <2>2, <2>4 DEF Summaries, Marked
      <3>3. i = n
        BY <2>3, <3>1, <3>2
      <3>4. \A k \in Summaries : k < n /\ k <= PageSize
        BY <1>3, <2>1, <3>1, <3>2, <3>3, ReviewAssumption
      <3> QED BY <2>3, <3>2, <3>3, <3>4
    <2>5. ASSUME ~raced, NEW q \in Push, InAction(q)'
          PROVE  q = Len(heads) /\ job'[q].at # "put"
      BY <1>1, <1>2, <1>4, <2>5 DEF CommentsOK
    <2> QED BY <1>2, <2>2, <2>4, <2>5 DEF CommentsOK
  <1>7. CASE \E i \in DOMAIN comments : 
                /\ comments' = [comments EXCEPT ![i] = p]
                /\ ~raced => i \in Marked
    <2>1. PICK i \in DOMAIN comments : /\ comments' = [comments EXCEPT ![i] = p]
                                       /\ ~raced => i \in Marked
      BY <1>7
    <2>2. comments' \in Seq({0} \union Push) /\ DOMAIN comments' = DOMAIN comments
      BY <1>3, <2>1, ExceptSeq
    <2>3. ~raced => Marked' = Marked /\ Summaries' = Summaries
      BY <1>1, <1>3, <2>1, <2>2 DEF Marked, Summaries
    <2> QED BY <1>1, <1>2, <1>4, <2>2, <2>3 DEF CommentsOK
  <1>8. raced /\ comments' \in Seq({0} \union Push) => CommentsOK'
    BY <1>2 DEF CommentsOK
  <1> QED BY <1>1, <1>5, <1>6, <1>7, <1>8 DEF PutSummary, CommentsOK

LEMMA HumanKeepsComments == CommentsOK /\ HumanComments => CommentsOK'
  <1> SUFFICES ASSUME CommentsOK, HumanComments PROVE CommentsOK'
    OBVIOUS
  <1>1. /\ comments \in Seq({0} \union Push) /\ comments' = Append(comments, 0)
        /\ job' = job /\ heads' = heads /\ raced' = raced
    BY DEF CommentsOK, HumanComments
  <1>2. PICK n : n = Len(comments) + 1
    OBVIOUS
  <1>3. /\ comments' \in Seq({0} \union Push) /\ DOMAIN comments' = DOMAIN comments \union {n}
        /\ comments'[n] = 0 /\ \A i \in DOMAIN comments : comments'[i] = comments[i]
    BY <1>1, <1>2
  <1>4. Marked' = Marked /\ Summaries' = Summaries
    BY <1>3 DEF Marked, Summaries
  <1>5. \A q \in Push : InAction(q)' <=> InAction(q)
    BY <1>1 DEF InAction
  <1> QED BY <1>1, <1>3, <1>4, <1>5 DEF CommentsOK

-----------------------------------------------------------------------------
(* Suggestions stay those of what their run found.                         *)
LEMMA OneJobKeepsNotes ==
    ASSUME PushesOK, NotesOK, NEW p \in Push, p <= Len(heads), heads' = heads,
           \A q \in Push : q # p => job'[q] = job[q],
           job[p].at # "cli" => job'[p].at # "cli" /\ job'[p].found = job[p].found,
           \A n \in notes' : n \in notes \/ /\ n.push = p /\ n.func \in job'[p].found
                                            /\ job'[p].at # "cli"
    PROVE  NotesOK'
  <1>1. ASSUME NEW n \in notes'
        PROVE  /\ n.push \in Push /\ n.push <= Len(heads') /\ job'[n.push].at # "cli"
               /\ n.func \in job'[n.push].found
    <2>1. CASE n \in notes
      <3>1. /\ n.push \in Push /\ n.push <= Len(heads) /\ job[n.push].at # "cli"
            /\ n.func \in job[n.push].found
        BY <2>1 DEF NotesOK
      <3> QED BY <3>1
    <2>2. CASE n \notin notes
      BY <1>1, <2>2
    <2> QED BY <2>1, <2>2
  <1> QED BY <1>1 DEF NotesOK

LEMMA PushKeepsNotes == PushesOK /\ NotesOK /\ PushText(disk) => NotesOK'
  <1> SUFFICES ASSUME PushesOK, NotesOK, PushText(disk) PROVE NotesOK'
    OBVIOUS
  <1>0. PICK q : q = Len(heads) + 1
    OBVIOUS
  <1>1. heads \in Seq(Seq(Nat)) /\ Len(heads) \in Nat /\ DOMAIN job = Push /\ Push \subseteq Nat
    BY DEF PushesOK, Push
  <1>2. notes' = notes /\ heads' = Append(heads, disk)
    BY DEF PushText
  <1>3. Len(heads') = q
    BY <1>0, <1>1, <1>2
  <1>4. job' = [job EXCEPT ![q] = [at |-> "cli", found |-> {}, reported |-> FALSE,
                                   code |-> 0, seen |-> 0]]
    BY <1>0 DEF PushText
  <1>5. \A p \in Push : p <= Len(heads) => p <= q /\ job'[p] = job[p]
    BY <1>0, <1>1, <1>4
  <1> QED BY <1>2, <1>3, <1>5 DEF NotesOK

LEMMA ActionKeepsNotes ==
    ASSUME PushesOK, NotesOK, comments \in Seq({0} \union Push), NEW p \in Push,
           RunCli(p) \/ ListComments(p) \/ PutSummary(p) \/ Suggest(p) \/ End(p)
    PROVE  NotesOK'
  <1>1. InAction(p) /\ heads' = heads
    BY DEF RunCli, ListComments, PutSummary, Suggest, End
  <1>2. DOMAIN job = Push /\ p <= Len(heads) /\ job[p] \in Jobs
    BY <1>1, InActionPushed DEF PushesOK, JobOK, JobIs
  <1>3. CASE RunCli(p)
    <2>1. job[p].at = "cli" /\ notes' = notes
      BY <1>3 DEF RunCli
    <2>2. \A q \in Push : q # p => job'[q] = job[q]
      BY <1>2, <1>3 DEF RunCli
    <2> QED BY <1>1, <1>2, <2>1, <2>2, OneJobKeepsNotes
  <1>4. CASE ListComments(p)
    <2>1. notes' = notes
      BY <1>4 DEF ListComments
    <2>2. PICK seen : seen = IF Marked = {} THEN 0 ELSE Oldest(Marked)
      OBVIOUS
    <2>3. /\ \A q \in Push : q # p => job'[q] = job[q]
          /\ job'[p].at # "cli" /\ job'[p].found = job[p].found
      <3>1. CASE job' = [job EXCEPT ![p].at = "put", ![p].seen = seen]
        BY <1>2, <3>1 DEF Jobs
      <3>2. CASE job' = [job EXCEPT ![p].at = "suggest"] \/ job' = [job EXCEPT ![p].at = "end"]
        BY <1>2, <3>2 DEF Jobs
      <3> QED BY <1>4, <2>2, <3>1, <3>2 DEF ListComments
    <2> QED BY <1>1, <1>2, <2>1, <2>3, OneJobKeepsNotes
  <1>5. CASE PutSummary(p) \/ End(p)
    <2>1. /\ notes' = notes
          /\ \A q \in Push : q # p => job'[q] = job[q]
          /\ job'[p].at # "cli" /\ job'[p].found = job[p].found
      BY <1>2, <1>5 DEF PutSummary, End, Jobs
    <2> QED BY <1>1, <1>2, <2>1, OneJobKeepsNotes
  <1>6. CASE Suggest(p)
    <2>1. PICK f \in SUBSET job[p].found : notes' = notes \union {[push |-> p, func |-> g] : g \in f}
      BY <1>6 DEF Suggest
    <2>2. /\ \A q \in Push : q # p => job'[q] = job[q]
          /\ job'[p].at # "cli" /\ job'[p].found = job[p].found
      BY <1>2, <1>6 DEF Suggest, Jobs
    <2>3. \A n \in notes' : n \in notes \/ /\ n.push = p /\ n.func \in job'[p].found
                                           /\ job'[p].at # "cli"
      BY <2>1, <2>2
    <2> QED BY <1>1, <1>2, <2>2, <2>3, OneJobKeepsNotes
  <1> QED BY <1>3, <1>4, <1>5, <1>6

-----------------------------------------------------------------------------
(* The editor, step by step.                                               *)
LEMMA VerdictApplies ==
    ASSUME EditorOK, NEW v \in Verdicts
    PROVE  ApplyHunks(buf, v.hunks) \in Seq(Nat)
  <1>1. PICK t \in Seq(Nat) : v \in Verdict(t)
    <2>1. CASE v \in findings
      BY <2>1 DEF EditorOK
    <2>2. CASE v \notin findings
      <3>1. shown # None /\ v = shown
        BY <2>2 DEF Verdicts
      <3> QED BY <3>1 DEF EditorOK
    <2> QED BY <2>1, <2>2
  <1>2. PICK f \in Findable(t) : v.hunks = Hunks(t, f)
    BY <1>1 DEF Verdict, Finding
  <1>3. ApplyHunks(buf, Hunks(t, f)) \in Seq(Nat)
    BY ApplyTyped DEF EditorOK
  <1> QED BY <1>2, <1>3

LEMMA ReportKeepsEditor ==
    ASSUME EditorOK, NEW r \in DOMAIN runs, ReadFile(r) \/ Report(r)
    PROVE  EditorOK'
  <1>1. /\ runs \in [1 .. MaxRuns -> {None} \union Seq(Nat)] /\ r \in 1 .. MaxRuns
        /\ runs[r] \in {None} \union Seq(Nat)
    BY DEF EditorOK
  <1>2. buf' = buf /\ disk' = disk /\ shown' = shown
    BY DEF ReadFile, Report
  <1>3. CASE ReadFile(r)
    <2>1. runs' \in [1 .. MaxRuns -> {None} \union Seq(Nat)]
      BY <1>1, <1>3 DEF ReadFile, EditorOK
    <2>2. findings' = findings /\ base' = base
      BY <1>3 DEF ReadFile
    <2> QED BY <1>2, <2>1, <2>2 DEF EditorOK, Verdict
  <1>4. CASE Report(r)
    <2>1. runs' \in [1 .. MaxRuns -> {None} \union Seq(Nat)] /\ runs[r] \in Seq(Nat)
      BY <1>1, <1>4 DEF Report
    <2>2. base' \in Seq(Nat) /\ findings' \subseteq Verdict(base')
      <3>1. CASE findings' = findings /\ base' = base
        BY <3>1 DEF EditorOK, Verdict
      <3>2. CASE \E acc \in SUBSET Findable(runs[r]) :
                    /\ findings' = {Finding(runs[r], f) : f \in acc}
                    /\ base' = runs[r]
        <4>1. PICK acc \in SUBSET Findable(runs[r]) :
                    /\ findings' = {Finding(runs[r], f) : f \in acc}
                    /\ base' = runs[r]
          BY <3>2
        <4>2. PICK t : t = runs[r]
          OBVIOUS
        <4>3. findings' = {Finding(t, f) : f \in acc} /\ acc \subseteq Findable(t) /\ base' = t
          BY <4>1, <4>2
        <4>4. findings' \subseteq Verdict(t)
          BY <4>3 DEF Verdict
        <4> QED BY <2>1, <4>2, <4>3, <4>4
      <3> QED BY <1>4, <3>1, <3>2 DEF Report
    <2> QED BY <1>2, <2>1, <2>2 DEF EditorOK
  <1> QED BY <1>3, <1>4

LEMMA TypedText ==
    ASSUME NEW b \in Seq(Nat), NEW i \in 0 .. Len(b)
    PROVE  LET c == SubSeq(b, 1, i) \o <<0>> \o SubSeq(b, i + 1, Len(b)) IN
           c \in Seq(Nat) /\ Len(c) = Len(b) + 1
  <1>1. Len(b) \in Nat /\ i \in Nat /\ \A n \in 1 .. Len(b) : b[n] \in Nat
    OBVIOUS
  <1>2. SubSeq(b, 1, i) \in Seq(Nat) /\ Len(SubSeq(b, 1, i)) = i
    <2>1. \A n \in 1 .. i : b[n] \in Nat
      BY <1>1
    <2>2. SubSeq(b, 1, i) \in Seq(Nat) /\ Len(SubSeq(b, 1, i)) = IF 1 <= i THEN i - 1 + 1 ELSE 0
      BY <2>1, SubSeqProperties
    <2> QED BY <1>1, <2>2
  <1>3. SubSeq(b, i + 1, Len(b)) \in Seq(Nat) /\ Len(SubSeq(b, i + 1, Len(b))) = Len(b) - i
    <2>1. PICK m \in Int : m = i + 1
      OBVIOUS
    <2>2. \A n \in m .. Len(b) : b[n] \in Nat
      BY <1>1, <2>1
    <2>3. SubSeq(b, m, Len(b)) \in Seq(Nat)
          /\ Len(SubSeq(b, m, Len(b))) = IF m <= Len(b) THEN Len(b) - m + 1 ELSE 0
      BY <1>1, <2>2, SubSeqProperties
    <2>4. (IF m <= Len(b) THEN Len(b) - m + 1 ELSE 0) = Len(b) - i
      BY <1>1, <2>1
    <2> QED BY <2>1, <2>3, <2>4
  <1> DEFINE A == SubSeq(b, 1, i)
             C == SubSeq(b, i + 1, Len(b))
  <1> HIDE DEF A, C
  <1>4. A \in Seq(Nat) /\ C \in Seq(Nat) /\ Len(A) = i /\ Len(C) = Len(b) - i
    BY <1>2, <1>3 DEF A, C
  <1>5. PICK B : B = A \o <<0>> /\ B \in Seq(Nat) /\ Len(B) = i + 1
    <2>1. PICK Z : Z = <<0>> /\ Z \in Seq(Nat) /\ Len(Z) = 1
      <3>1. <<0>> \in Seq(Nat) /\ Len(<<0>>) = 1
        OBVIOUS
      <3> QED BY <3>1
    <2>2. A \o Z \in Seq(Nat) /\ Len(A \o Z) = i + 1
      BY <1>4, <2>1, ConcatProperties
    <2> QED BY <2>1, <2>2
  <1>6. B \o C \in Seq(Nat) /\ Len(B \o C) = Len(B) + Len(C)
    BY <1>4, <1>5, ConcatProperties
  <1>7. Len(B \o C) = Len(b) + 1
    BY <1>1, <1>4, <1>5, <1>6
  <1> QED BY <1>5, <1>6, <1>7 DEF A, C

LEMMA EditorKeepsEditor == EditorOK /\ EditorNext => EditorOK'
  <1> SUFFICES ASSUME EditorOK, EditorNext PROVE EditorOK'
    OBVIOUS
  <1>1. CASE RunOptimize
    <2>1. runs' \in [1 .. MaxRuns -> {None} \union Seq(Nat)]
      <3>1. PICK n : runs' = [runs EXCEPT ![n] = <<>>]
        BY <1>1 DEF RunOptimize
      <3>2. <<>> \in Seq(Nat)
        OBVIOUS
      <3> QED BY <3>1, <3>2 DEF EditorOK
    <2>2. /\ buf' = buf /\ disk' = disk /\ findings' = findings /\ base' = base
          /\ shown' = shown
      BY <1>1 DEF RunOptimize
    <2> QED BY <2>1, <2>2 DEF EditorOK, Verdict
  <1>2. CASE \E r \in DOMAIN runs : ReadFile(r) \/ Report(r)
    BY <1>2, ReportKeepsEditor
  <1>3. CASE \E v \in findings : ShowProof(v)
    <2>1. PICK v \in findings : ShowProof(v)
      BY <1>3
    <2>2. v \in Verdict(base) /\ base \in Seq(Nat) /\ shown' = v
      BY <2>1 DEF ShowProof, EditorOK
    <2>3. /\ buf' = buf /\ disk' = disk /\ findings' = findings /\ base' = base
          /\ runs' = runs
      BY <2>1 DEF ShowProof
    <2> QED BY <2>2, <2>3 DEF EditorOK, Verdict
  <1>4. CASE \E v \in Verdicts : Apply(v)
    <2>1. PICK v \in Verdicts : Apply(v)
      BY <1>4
    <2>2. buf' \in Seq(Nat) /\ Len(buf') <= MaxLines
      BY <2>1, VerdictApplies DEF Apply
    <2>3. /\ disk' = disk /\ findings' \subseteq findings /\ base' = base /\ shown' = shown
          /\ runs' = runs
      BY <2>1 DEF Apply
    <2> QED BY <2>2, <2>3 DEF EditorOK, Verdict
  <1>5. CASE \E i \in 0 .. Len(buf) : Type(i)
    <2>1. PICK i \in 0 .. Len(buf) : Type(i)
      BY <1>5
    <2>2. buf \in Seq(Nat) /\ Len(buf) < MaxLines
      BY <2>1 DEF Type, EditorOK
    <2>3. buf' \in Seq(Nat) /\ Len(buf') = Len(buf) + 1
      BY <2>1, <2>2, TypedText DEF Type
    <2>4. Len(buf') <= MaxLines
      BY <2>2, <2>3, EditorAssumption
    <2>5. /\ disk' = disk /\ findings' = findings /\ base' = base /\ shown' = shown
          /\ runs' = runs
      BY <2>1 DEF Type
    <2> QED BY <2>3, <2>4, <2>5 DEF EditorOK, Verdict
  <1>6. CASE Save
    BY <1>6 DEF Save, EditorOK, Verdict
  <1> QED BY <1>1, <1>2, <1>3, <1>4, <1>5, <1>6 DEF EditorNext

LEMMA CloseKeepsEditor == EditorOK /\ CloseEditor => EditorOK'
  <1> SUFFICES ASSUME EditorOK, CloseEditor PROVE EditorOK'
    OBVIOUS
  <1>1. /\ buf' = disk /\ disk' = disk /\ findings' = {} /\ base' = Original /\ shown' = None
        /\ runs' = [r \in DOMAIN runs |-> None]
    BY DEF CloseEditor
  <1>2. runs' \in [1 .. MaxRuns -> {None} \union Seq(Nat)]
    BY <1>1 DEF EditorOK
  <1> QED BY <1>1, <1>2, EditorAssumption DEF EditorOK

-----------------------------------------------------------------------------
(* Every step of the two surfaces keeps it all.                            *)
LEMMA SurfacesInitially == Init => SurfacesInv
  <1> SUFFICES ASSUME Init PROVE SurfacesInv
    OBVIOUS
  <1>1. EditorOK
    BY EditorAssumption DEF Init, EditorInit, EditorOK
  <1>2. PushesOK
    BY ReviewAssumption DEF Init, ReviewInit, PushesOK, Push
  <1>3. NotesOK
    BY DEF Init, ReviewInit, NotesOK
  <1>4. CommentsOK
    BY <1>2 DEF Init, ReviewInit, CommentsOK, InAction, Marked
  <1> QED BY <1>1, <1>2, <1>3, <1>4 DEF Init, SurfacesInv

LEMMA StillReview ==
    ASSUME PushesOK, NotesOK, CommentsOK, reviewVars' = reviewVars
    PROVE  PushesOK' /\ NotesOK' /\ CommentsOK'
  <1>1. /\ policy' = policy /\ heads' = heads /\ job' = job /\ comments' = comments
        /\ notes' = notes /\ check' = check /\ raced' = raced
    BY DEF reviewVars
  <1>2. Marked' = Marked /\ Summaries' = Summaries
    BY <1>1 DEF Marked, Summaries
  <1>3. \A p \in Push : InAction(p)' <=> InAction(p)
    BY <1>1 DEF InAction
  <1>4. \A p \in Push : JobOK(p)' <=> JobOK(p)
    BY <1>1 DEF JobOK
  <1>5. PushesOK'
    BY <1>1, <1>4 DEF PushesOK
  <1>6. NotesOK'
    BY <1>1 DEF NotesOK
  <1>7. CommentsOK'
    BY <1>1, <1>2, <1>3 DEF CommentsOK
  <1> QED BY <1>5, <1>6, <1>7

LEMMA StillEditor ==
    ASSUME EditorOK, editorVars' = editorVars PROVE EditorOK'
  BY DEF EditorOK, editorVars, Verdict

LEMMA HumanKeepsPushes == PushesOK /\ NotesOK /\ HumanComments => PushesOK' /\ NotesOK'
  <1> SUFFICES ASSUME PushesOK, NotesOK, HumanComments PROVE PushesOK' /\ NotesOK'
    OBVIOUS
  <1>1. /\ policy' = policy /\ heads' = heads /\ job' = job /\ notes' = notes /\ check' = check
    BY DEF HumanComments
  <1>2. \A p \in Push : JobOK(p)' <=> JobOK(p)
    BY <1>1 DEF JobOK
  <1> QED BY <1>1, <1>2 DEF PushesOK, NotesOK

LEMMA ActionKeepsReview ==
    ASSUME PushesOK, NotesOK, CommentsOK, ActionNext
    PROVE  PushesOK' /\ NotesOK' /\ CommentsOK'
  <1>1. comments \in Seq({0} \union Push)
    BY DEF CommentsOK
  <1>2. CASE HumanComments
    BY <1>2, HumanKeepsPushes, HumanKeepsComments
  <1>3. ASSUME NEW p \in Push, RunCli(p) \/ ListComments(p) \/ PutSummary(p) \/ Suggest(p) \/ End(p)
        PROVE  PushesOK' /\ NotesOK' /\ CommentsOK'
    <2>1. NotesOK'
      BY <1>1, <1>3, ActionKeepsNotes
    <2>2. CASE RunCli(p)
      BY <1>3, <2>1, <2>2, CliKeepsPushes, RunKeepsComments
    <2>3. CASE ListComments(p)
      BY <1>1, <1>3, <2>1, <2>3, DeliveryKeepsPushes, ListKeepsComments
    <2>4. CASE PutSummary(p)
      BY <1>1, <1>3, <2>1, <2>4, DeliveryKeepsPushes, PutKeepsComments
    <2>5. CASE Suggest(p)
      BY <1>1, <1>3, <2>1, <2>5, DeliveryKeepsPushes, RunKeepsComments
    <2>6. CASE End(p)
      BY <1>3, <2>1, <2>6, EndKeepsPushes, RunKeepsComments
    <2> QED BY <1>3, <2>2, <2>3, <2>4, <2>5, <2>6
  <1> QED BY <1>2, <1>3 DEF ActionNext

LEMMA SurfacesStep == SurfacesInv /\ [Next]_vars => SurfacesInv'
  <1> SUFFICES ASSUME SurfacesInv, [Next]_vars PROVE SurfacesInv'
    OBVIOUS
  <1>0. EditorOK /\ PushesOK /\ NotesOK /\ CommentsOK /\ open \in BOOLEAN
    BY DEF SurfacesInv
  <1>1. CASE open /\ EditorNext /\ UNCHANGED <<reviewVars, open>>
    <2>1. EditorOK' /\ reviewVars' = reviewVars /\ open' = open
      BY <1>0, <1>1, EditorKeepsEditor
    <2> QED BY <1>0, <2>1, StillReview DEF SurfacesInv
  <1>2. CASE CloseEditor
    <2>1. EditorOK' /\ reviewVars' = reviewVars /\ open' = FALSE
      BY <1>0, <1>2, CloseKeepsEditor DEF CloseEditor
    <2> QED BY <1>0, <2>1, StillReview DEF SurfacesInv
  <1>3. CASE PushDisk
    <2>1. PushText(disk) /\ editorVars' = editorVars /\ open' = open /\ disk \in Seq(Nat)
      BY <1>0, <1>3 DEF PushDisk, EditorOK
    <2>2. EditorOK'
      BY <1>0, <2>1, StillEditor
    <2>3. PushesOK' /\ NotesOK' /\ CommentsOK'
      BY <1>0, <2>1, PushKeepsPushes, PushKeepsNotes, PushKeepsComments
    <2> QED BY <1>0, <2>1, <2>2, <2>3 DEF SurfacesInv
  <1>4. CASE ~open /\ ActionNext /\ UNCHANGED <<editorVars, open>>
    <2>1. editorVars' = editorVars /\ open' = open /\ ActionNext
      BY <1>4
    <2>2. EditorOK'
      BY <1>0, <2>1, StillEditor
    <2>3. PushesOK' /\ NotesOK' /\ CommentsOK'
      BY <1>0, <2>1, ActionKeepsReview
    <2> QED BY <1>0, <2>1, <2>2, <2>3 DEF SurfacesInv
  <1>5. CASE UNCHANGED vars
    <2>1. editorVars' = editorVars /\ reviewVars' = reviewVars /\ open' = open
      BY <1>5 DEF vars
    <2> QED BY <1>0, <2>1, StillEditor, StillReview DEF SurfacesInv
  <1> QED BY <1>1, <1>2, <1>3, <1>4, <1>5 DEF Next

LEMMA SurfacesAlways == Spec => []SurfacesInv
  BY SurfacesInitially, SurfacesStep, PTL DEF Spec

-----------------------------------------------------------------------------
(* Findings speak of the text their run read, suggestions of what the run  *)
(* of their push found (extension.ts, runOptimize; comment.py).            *)
THEOREM SurfacesTyped == Spec => []SurfacesTypeOK
  <1>1. SurfacesInv => SurfacesTypeOK
    <2> SUFFICES ASSUME SurfacesInv PROVE SurfacesTypeOK
      OBVIOUS
    <2>1. EditorTypeOK
      BY DEF SurfacesInv, EditorOK, EditorTypeOK, Verdict, Finding
    <2>2. ASSUME NEW n \in notes
          PROVE  n.func \in job[n.push].found \intersect Findable(heads[n.push])
      <3>1. n.push \in Push /\ n.push <= Len(heads) /\ n.func \in job[n.push].found
        BY DEF SurfacesInv, NotesOK
      <3>2. job[n.push].found \subseteq Findable(heads[n.push])
        BY <3>1 DEF SurfacesInv, PushesOK, JobOK, JobIs
      <3> QED BY <3>1, <3>2
    <2>3. ReviewTypeOK
      BY <2>2 DEF SurfacesInv, PushesOK, CommentsOK, ReviewTypeOK
    <2> QED BY <2>1, <2>3 DEF SurfacesTypeOK, SurfacesInv
  <1> QED BY <1>1, SurfacesAlways, PTL

(* However many pushes and comments, as long as no two runs of the action  *)
(* overlap and the first summary is on the page it lists, there is one     *)
(* (gh.py, upsert of the summary comment).                                 *)
THEOREM SummaryIsOne == Spec => []OneSummary
  <1>1. SurfacesInv => OneSummary
    <2> SUFFICES ASSUME SurfacesInv, ~raced, Summaries # {}, Oldest(Summaries) <= PageSize
                 PROVE  Summaries = {Oldest(Summaries)}
      BY DEF OneSummary
    <2>1. Summaries \subseteq Nat
      BY MarkedOnPage DEF SurfacesInv, CommentsOK
    <2>2. Oldest(Summaries) \in Summaries
      BY <2>1, OldestIsIn
    <2>3. Oldest(Summaries) \in Marked
      BY <2>2 DEF Summaries, Marked
    <2> QED BY <2>3 DEF SurfacesInv, CommentsOK
  <1> QED BY <1>1, SurfacesAlways, PTL

(* Whatever fails in the delivery of any push, its check is what fail-on   *)
(* makes of the report, and never green without one (entrypoint.py, main). *)
THEOREM CheckIsTheReport == Spec => []CheckTells
  <1>1. SurfacesInv => CheckTells
    <2> SUFFICES ASSUME SurfacesInv, NEW p \in Push, check[p] # None
                 PROVE  IF job[p].reported
                        THEN check[p] = IF policy = "any" /\ job[p].found # {} THEN 1 ELSE 0
                        ELSE check[p] # 0
      BY DEF CheckTells
    <2>1. JobOK(p)
      BY DEF SurfacesInv, PushesOK
    <2> QED BY <2>1 DEF JobOK, JobIs
  <1> QED BY <1>1, SurfacesAlways, PTL

(* Applying a finding, of however many hunks of whatever lengths, to a     *)
(* document that still is, down to the last of them, what the run read     *)
(* puts the text the gate verified there and leaves what lies below        *)
(* (core.ts, applyUdiff; panel.ts, Apply).                                 *)
THEOREM AppliedAsVerified == Spec => AppliesInPlace
  <1> DEFINE InPlace(v) ==
         LET end == Max({h.end : h \in v.hunks}) IN
         Apply(v) /\ end <= Len(buf) /\ SubSeq(buf, 1, end) = SubSeq(base, 1, end)
         => buf' = Rewrite(base, v.func, 1, end) \o SubSeq(buf, end + 1, Len(buf))
  <1>1. ASSUME SurfacesInv, NEW v \in findings PROVE InPlace(v)
    <2>1. /\ buf \in Seq(Nat) /\ base \in Seq(Nat) /\ v \in Verdict(base)
      BY <1>1 DEF SurfacesInv, EditorOK
    <2>2. PICK f \in Findable(base) : v = Finding(base, f)
      BY <2>1 DEF Verdict
    <2>3. v.func = f /\ v.hunks = Hunks(base, f)
      BY <2>2 DEF Finding
    <2>4. PICK E : E = Max({h.end : h \in Hunks(base, f)})
      OBVIOUS
    <2>5. E \in 1 .. Len(base) /\ \A h \in Hunks(base, f) : h.end <= E
      BY <2>1, <2>4, HunkEnds
    <2>6. ASSUME Apply(v), E <= Len(buf), SubSeq(buf, 1, E) = SubSeq(base, 1, E)
          PROVE  buf' = Rewrite(base, f, 1, E) \o SubSeq(buf, E + 1, Len(buf))
      <3>1. Agree(buf, base, f, E) /\ E \in Nat
        BY <2>1, <2>5, <2>6 DEF Agree
      <3>2. buf' = ApplyHunks(buf, Hunks(base, f))
        BY <2>3, <2>6 DEF Apply
      <3> QED BY <2>1, <3>1, <3>2, HunksApplied
    <2> QED BY <2>3, <2>4, <2>6
  <1>2. SurfacesInv => [\A v \in findings : InPlace(v)]_editorVars
    BY <1>1
  <1>3. AppliesInPlace <=> [][\A v \in findings : InPlace(v)]_editorVars
    BY DEF AppliesInPlace
  <1> HIDE DEF InPlace
  <1> QED BY <1>2, <1>3, SurfacesAlways, PTL
=============================================================================
