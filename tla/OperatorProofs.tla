---------------------------- MODULE OperatorProofs ----------------------------
(***************************************************************************)
(* What the operators of Identity and TaskConfig compute for data of every *)
(* size: a list of group names is read back from its CSV form as it was, a *)
(* qualified name has one cluster and one user, and Load's loops gather    *)
(* what is in the files.                                                   *)
(*                                                                         *)
(* These are statements about sequences of every length.  The induction is *)
(* on the first number at which a statement fails, which exists because <  *)
(* is well-founded on Nat (LeastNatural).                                  *)
(***************************************************************************)
EXTENDS Identity, TaskConfig, SequenceTheorems, WellFoundedInduction, TLAPS

Mark == STRING \cup {Comma, Slash}
Name == Seq(Mark)

-----------------------------------------------------------------------------
\* Least and greatest elements.

LEMMA LessIsWellFounded ==
  \E R : /\ IsWellFoundedOn(R, Nat)
         /\ \A x, y \in Nat : y < x => <<y, x>> \in R
<1> DEFINE R == OpToRel(<, Nat)
<1>1. IsWellFoundedOn(R, Nat)
  BY NatLessThanWellFounded
<1>2. \A x, y \in Nat : y < x => <<y, x>> \in R
  BY DEF OpToRel
<1> HIDE DEF R
<1> QED
  BY <1>1, <1>2, Zenon

LEMMA LeastNatural ==
  ASSUME NEW T \in SUBSET Nat, T # {}
  PROVE  \E n \in T : \A m \in T : n <= m
<1>1. PICK R : /\ IsWellFoundedOn(R, Nat)
               /\ \A x, y \in Nat : y < x => <<y, x>> \in R
  BY LessIsWellFounded
<1>2. PICK n \in T : \A y \in T : ~ (<<y, n>> \in R)
  BY <1>1, WFMin
<1>3. ASSUME NEW m \in T PROVE n <= m
  <2>1. m \in Nat /\ n \in Nat
    OBVIOUS
  <2>2. ~ (m < n)
    BY <1>1, <1>2, <2>1, Zenon
  <2> QED
    BY <2>1, <2>2
<1> QED
  BY <1>3

\* A statement of which there is no first failure holds.
LEMMA NoFirstFailure ==
  ASSUME NEW T \in SUBSET Nat, \A m \in T : m # 0 /\ m - 1 \in T
  PROVE  T = {}
<1> SUFFICES ASSUME T # {} PROVE FALSE
  OBVIOUS
<1>1. PICK m \in T : \A k \in T : m <= k
  BY LeastNatural
<1>2. m \in Nat /\ m # 0 /\ m - 1 \in T
  OBVIOUS
<1>3. ~ (m <= m - 1)
  BY <1>2
<1> QED
  BY <1>1, <1>2, <1>3

LEMMA GreatestNatural ==
  ASSUME NEW n \in Nat, NEW T \in SUBSET (0 .. n), T # {}
  PROVE  \E g \in T : \A m \in T : m <= g
<1> DEFINE U == {n - m : m \in T}
<1>1. U \in SUBSET Nat /\ U # {}
  <2>1. \A m \in T : n - m \in Nat
    OBVIOUS
  <2> QED
    BY <2>1
<1>2. PICK u \in U : \A v \in U : u <= v
  BY <1>1, LeastNatural
<1>3. PICK g \in T : u = n - g
  OBVIOUS
<1>4. ASSUME NEW m \in T PROVE m <= g
  <2>1. n - m \in U
    OBVIOUS
  <2>2. n - g <= n - m
    BY <1>2, <1>3, <2>1
  <2> QED
    BY <2>2
<1> QED
  BY <1>4

LEMMA MaxIs ==
  ASSUME NEW S \in SUBSET Int, NEW x \in S, \A y \in S : y <= x
  PROVE  Max(S) = x
<1> DEFINE m == Max(S)
<1>1. \E z \in S : \A y \in S : z >= y
  OBVIOUS
<1>2. m \in S /\ \A y \in S : m >= y
  BY <1>1, Zenon DEF Max
<1> HIDE DEF m
<1>3. m = x
  <2>1. m \in Int /\ x \in Int /\ m >= x /\ m <= x
    BY <1>2
  <2> QED
    BY <2>1
<1> QED
  BY <1>3 DEF m

LEMMA MinIs ==
  ASSUME NEW S \in SUBSET Int, NEW x \in S, \A y \in S : x <= y
  PROVE  Min(S) = x
<1> DEFINE m == Min(S)
<1>1. m \in S /\ \A y \in S : m <= y
  BY Zenon DEF Min
<1> HIDE DEF m
<1>2. m = x
  <2>1. m \in Int /\ x \in Int /\ m >= x /\ m <= x
    BY <1>1
  <2> QED
    BY <2>1
<1> QED
  BY <1>2 DEF m

-----------------------------------------------------------------------------
\* Trimmed names.

\* A name that begins and ends with ink is its own trimmed form, and the other
\* way round.
LEMMA InkAtEnds ==
  ASSUME NEW g \in Name, g # <<>>
  PROVE  Trim(g) = g <=> g[1] \notin {Space, Control} /\ g[Len(g)] \notin {Space, Control}
<1> DEFINE ink == {k \in DOMAIN g : g[k] \notin {Space, Control}}
           n == Len(g)
<1>1. /\ n \in Nat \ {0} /\ DOMAIN g = 1 .. n
      /\ \A k \in 1 .. n : g[k] \in Mark
  BY EmptySeq, LenProperties, ElementOfSeq DEF Name
<1>2. CASE ink = {}
  <2>1. Trim(g) = <<>>
    BY <1>2 DEF Trim
  <2>2. 1 \notin ink /\ 1 \in DOMAIN g
    BY <1>1, <1>2
  <2> QED
    BY <2>1, <2>2
<1>3. CASE ink # {}
  <2> HIDE DEF n
  <2>1. ink \in SUBSET Nat /\ ink \in SUBSET (0 .. n) /\ ink \subseteq 1 .. n
    BY <1>1
  <2>2. PICK a \in ink : \A k \in ink : a <= k
    BY <1>3, <2>1, LeastNatural
  <2>3. PICK b \in ink : \A k \in ink : k <= b
    BY <1>1, <1>3, <2>1, GreatestNatural
  <2>4. a \in 1 .. n /\ b \in 1 .. n /\ a <= b /\ ink \in SUBSET Int
    BY <2>1, <2>2
  <2>5. Min(ink) = a /\ Max(ink) = b
    BY <2>2, <2>3, <2>4, MinIs, MaxIs
  <2>6. Trim(g) = SubSeq(g, a, b)
    BY <1>3, <2>5 DEF Trim
  <2>7. /\ SubSeq(g, a, b) \in Seq(Mark)
        /\ Len(SubSeq(g, a, b)) = b - a + 1
        /\ \A i \in 1 .. b - a + 1 : SubSeq(g, a, b)[i] = g[a + i - 1]
    <3>1. \A i \in a .. b : g[i] \in Mark
      BY <1>1, <2>4
    <3> QED
      BY <1>1, <2>4, <3>1, SubSeqProperties
  <2>8. ASSUME Trim(g) = g PROVE a = 1 /\ b = n
    BY <1>1, <2>4, <2>6, <2>7, <2>8 DEF n
  <2>9. ASSUME a = 1, b = n PROVE Trim(g) = g
    <3>1. \A i \in 1 .. n : SubSeq(g, a, b)[i] = g[i]
      BY <1>1, <2>7, <2>9
    <3>2. Len(SubSeq(g, a, b)) = n
      BY <1>1, <2>7, <2>9
    <3> QED
      BY <2>6, <2>7, <3>1, <3>2, SeqEqual DEF n, Name
  <2>10. a = 1 /\ b = n <=> 1 \in ink /\ n \in ink
    BY <1>1, <2>2, <2>3, <2>4
  <2> QED
    BY <1>1, <2>8, <2>9, <2>10 DEF n
<1> QED
  BY <1>2, <1>3

-----------------------------------------------------------------------------
\* Csv.

\* FlattenSeq is defined by a function that holds its partial results.
IsPartial(F, seqs, n) ==
  F = [i \in 1 .. n |-> IF i = 1 THEN seqs[i] ELSE F[i - 1] \o seqs[i]]

LEMMA PartialsExist ==
  ASSUME NEW seqs, NEW n \in Nat
  PROVE  \E F : IsPartial(F, seqs, n)
<1> DEFINE P(m) == \E F : IsPartial(F, seqs, m)
           T == {m \in Nat : ~ P(m)}
<1>1. P(0)
  <2>1. IsPartial(<<>>, seqs, 0)
    BY DEF IsPartial
  <2> QED
    BY <2>1
<1>2. ASSUME NEW m \in Nat, P(m) PROVE P(m + 1)
  <2>1. PICK F : F = [i \in 1 .. m |-> IF i = 1 THEN seqs[i] ELSE F[i - 1] \o seqs[i]]
    BY <1>2 DEF IsPartial
  <2> DEFINE G == [i \in 1 .. m + 1 |->
                     IF i <= m THEN F[i] ELSE IF i = 1 THEN seqs[i] ELSE F[i - 1] \o seqs[i]]
  <2>2. ASSUME NEW i \in 1 .. m + 1
        PROVE  G[i] = IF i = 1 THEN seqs[i] ELSE G[i - 1] \o seqs[i]
    <3>1. i = 1 \/ (i - 1 \in 1 .. m + 1 /\ i - 1 <= m)
      OBVIOUS
    <3>2. i <= m => i \in 1 .. m
      OBVIOUS
    <3>3. i <= m => F[i] = IF i = 1 THEN seqs[i] ELSE F[i - 1] \o seqs[i]
      BY <2>1, <3>2
    <3>4. i = 1 \/ G[i - 1] = F[i - 1]
      BY <3>1
    <3>5. G[i] = IF i <= m THEN F[i] ELSE IF i = 1 THEN seqs[i] ELSE F[i - 1] \o seqs[i]
      OBVIOUS
    <3> HIDE DEF G
    <3> QED
      BY <3>3, <3>4, <3>5
  <2>3. IsPartial(G, seqs, m + 1)
    BY <2>2 DEF IsPartial
  <2> QED
    BY <2>3
<1>3. T = {}
  <2> HIDE DEF P
  <2>1. ASSUME NEW m \in T PROVE m # 0 /\ m - 1 \in T
    <3>1. m \in Nat /\ ~ P(m)
      OBVIOUS
    <3>2. m # 0
      BY <1>1, <3>1
    <3>3. m - 1 \in Nat /\ (m - 1) + 1 = m
      BY <3>1, <3>2
    <3>4. ~ P(m - 1)
      BY <1>2, <3>1, <3>3
    <3> QED
      BY <3>2, <3>3, <3>4
  <2>2. T \in SUBSET Nat
    OBVIOUS
  <2> HIDE DEF T
  <2> QED
    BY <2>1, <2>2, NoFirstFailure
<1> QED
  BY <1>3

LEMMA Flattened ==
  ASSUME NEW seqs, Len(seqs) \in Nat \ {0}
  PROVE  \E F : IsPartial(F, seqs, Len(seqs)) /\ FlattenSeq(seqs) = F[Len(seqs)]
<1> DEFINE G == CHOOSE F : IsPartial(F, seqs, Len(seqs))
<1>1. IsPartial(G, seqs, Len(seqs))
  BY PartialsExist, Zenon
<1>2. FlattenSeq(seqs) = G[Len(seqs)]
  BY DEF FlattenSeq, IsPartial
<1> QED
  BY <1>1, <1>2

\* s is the first n names of gs with commas between them; the j-th ends at e[j].
Joined(gs, n, e, s) ==
  /\ e \in [0 .. n -> Int] /\ e[0] = -1
  /\ s \in Name /\ Len(s) = e[n]
  /\ \A j \in 1 .. n : e[j] = e[j - 1] + 1 + Len(gs[j])
  /\ \A j \in 1 .. n : \A q \in 1 .. Len(gs[j]) : s[e[j - 1] + 1 + q] = gs[j][q]
  /\ \A j \in 2 .. n : s[e[j - 1] + 1] = Comma
  /\ \A i, j \in 0 .. n : i <= j => e[i] <= e[j]

LEMMA JoinOne ==
  ASSUME NEW gs, NEW n \in Nat \ {0}, NEW e, NEW s, Joined(gs, n, e, s),
         \A j \in 1 .. n + 1 : gs[j] \in Name
  PROVE  \E f : Joined(gs, n + 1, f, s \o (<<Comma>> \o gs[n + 1]))
<1> DEFINE g == gs[n + 1]
           c == <<Comma>> \o g
           t == s \o c
           f == [j \in 0 .. n + 1 |-> IF j <= n THEN e[j] ELSE e[n] + 1 + Len(g)]
<1>1. /\ g \in Seq(Mark) /\ s \in Seq(Mark)
      /\ Len(s) \in Nat /\ \A j \in 1 .. n + 1 : Len(gs[j]) \in Nat
  BY LenProperties DEF Name, Joined
<1>2. Len(g) \in Nat
  BY <1>1
<1>3. <<Comma>> \in Seq(Mark) /\ Len(<<Comma>>) = 1 /\ <<Comma>>[1] = Comma
  <2>1. Comma \in Mark
    BY DEF Mark
  <2> QED
    BY <2>1
<1>4. /\ c \in Seq(Mark) /\ Len(c) = 1 + Len(g) /\ c[1] = Comma
      /\ \A q \in 1 .. Len(g) : c[1 + q] = g[q]
  <2> HIDE DEF g
  <2>1. /\ c \in Seq(Mark) /\ Len(c) = Len(<<Comma>>) + Len(g)
        /\ \A i \in 1 .. Len(<<Comma>>) + Len(g) :
             c[i] = IF i <= Len(<<Comma>>) THEN <<Comma>>[i] ELSE g[i - Len(<<Comma>>)]
    BY <1>1, <1>3, ConcatProperties
  <2> HIDE DEF c
  <2>2. \A q \in 1 .. Len(g) : c[1 + q] = g[q]
    BY <1>2, <1>3, <2>1
  <2> QED
    BY <1>2, <1>3, <2>1, <2>2
<1> HIDE DEF c, g
<1>5. /\ t \in Seq(Mark) /\ Len(t) = Len(s) + Len(c)
      /\ \A p \in 1 .. Len(s) : t[p] = s[p]
      /\ \A p \in 1 .. Len(c) : t[Len(s) + p] = c[p]
  <2>1. /\ s \o c \in Seq(Mark) /\ Len(s \o c) = Len(s) + Len(c)
        /\ \A i \in 1 .. Len(s) + Len(c) :
             (s \o c)[i] = IF i <= Len(s) THEN s[i] ELSE c[i - Len(s)]
    BY <1>1, <1>4, ConcatProperties
  <2>2. Len(c) \in Nat /\ Len(s) \in Nat
    BY <1>1, <1>2, <1>4
  <2>3. ASSUME NEW p \in 1 .. Len(s) PROVE (s \o c)[p] = s[p]
    BY <2>1, <2>2
  <2>4. ASSUME NEW p \in 1 .. Len(c) PROVE (s \o c)[Len(s) + p] = c[p]
    <3>1. /\ Len(s) + p \in 1 .. Len(s) + Len(c) /\ ~ (Len(s) + p <= Len(s))
          /\ (Len(s) + p) - Len(s) = p
      BY <2>2
    <3> QED
      BY <2>1, <3>1
  <2> QED
    BY <2>1, <2>3, <2>4
<1>6. Joined(gs, n, e, s)
  OBVIOUS
<1>7. /\ \A j \in 0 .. n : e[j] \in Int /\ e[j] <= e[n] /\ e[0] <= e[j]
      /\ e[0] = -1 /\ Len(s) = e[n]
  BY <1>6 DEF Joined
<1>8. /\ \A j \in 0 .. n : f[j] = e[j]
      /\ f[n + 1] = e[n] + 1 + Len(g)
  OBVIOUS
<1>9. f \in [0 .. n + 1 -> Int] /\ f[0] = -1
  BY <1>2, <1>7
<1> HIDE DEF f, t
<1>10. t \in Name /\ Len(t) = f[n + 1]
  BY <1>1, <1>2, <1>4, <1>5, <1>7, <1>8 DEF Name
<1>11. ASSUME NEW j \in 1 .. n
       PROVE  /\ e[j] = e[j - 1] + 1 + Len(gs[j])
              /\ \A q \in 1 .. Len(gs[j]) : s[e[j - 1] + 1 + q] = gs[j][q]
              /\ j > 1 => s[e[j - 1] + 1] = Comma
  <2>1. j > 1 => j \in 2 .. n
    OBVIOUS
  <2>2. e[j] = e[j - 1] + 1 + Len(gs[j])
    BY <1>6, Zenon DEF Joined
  <2>3. \A q \in 1 .. Len(gs[j]) : s[e[j - 1] + 1 + q] = gs[j][q]
    BY <1>6, Zenon DEF Joined
  <2>4. j > 1 => s[e[j - 1] + 1] = Comma
    BY <1>6, <2>1, Zenon DEF Joined
  <2> QED
    BY <2>2, <2>3, <2>4
<1>12. ASSUME NEW j \in 1 .. n + 1
       PROVE  f[j] = f[j - 1] + 1 + Len(gs[j])
  <2>1. CASE j = n + 1
    BY <1>8, <2>1 DEF g
  <2>2. CASE j \in 1 .. n
    BY <1>8, <1>11, <2>2
  <2> QED
    BY <2>1, <2>2
<1>13. ASSUME NEW j \in 1 .. n, NEW q \in 0 .. Len(gs[j]), j > 1 \/ q > 0
       PROVE  t[f[j - 1] + 1 + q] = s[e[j - 1] + 1 + q]
  <2>1. /\ j - 1 \in 0 .. n /\ j \in 0 .. n /\ Len(gs[j]) \in Nat
        /\ e[j] = e[j - 1] + 1 + Len(gs[j])
    BY <1>1, <1>11
  <2>2. /\ e[j - 1] \in Int /\ e[j] \in Int /\ e[j] <= e[n] /\ e[n] = Len(s)
        /\ -1 <= e[j - 1] /\ f[j - 1] = e[j - 1]
    BY <1>7, <1>8, <2>1
  <2>3. j > 1 => e[j - 1] >= 0
    <3> SUFFICES ASSUME j > 1 PROVE e[j - 1] >= 0
      OBVIOUS
    <3>1. j - 1 \in 1 .. n /\ j - 2 \in 0 .. n /\ (j - 1) - 1 = j - 2
      OBVIOUS
    <3>2. /\ e[j - 1] = e[j - 2] + 1 + Len(gs[j - 1]) /\ Len(gs[j - 1]) \in Nat
          /\ -1 <= e[j - 2] /\ e[j - 2] \in Int
      BY <1>1, <1>7, <1>11, <3>1
    <3> QED
      BY <3>2
  <2>4. e[j - 1] + 1 + q \in 1 .. Len(s)
    <3> DEFINE a == e[j - 1]
               l == Len(gs[j])
               z == Len(s)
    <3>1. /\ a \in Int /\ l \in Nat /\ z \in Nat /\ a + 1 + l <= z /\ -1 <= a
          /\ q \in Nat /\ q <= l /\ (a >= 0 \/ q > 0)
      BY <1>1, <1>13, <2>1, <2>2, <2>3
    <3> HIDE DEF a, l, z
    <3>2. a + 1 + q \in 1 .. z
      BY <3>1
    <3> QED
      BY <3>2 DEF a, z
  <2> QED
    BY <1>5, <2>2, <2>4
<1>14. ASSUME NEW j \in 1 .. n + 1, NEW q \in 1 .. Len(gs[j])
       PROVE  t[f[j - 1] + 1 + q] = gs[j][q]
  <2>1. CASE j = n + 1
    <3>1. gs[j] = g /\ q \in 1 .. Len(g)
      BY <2>1 DEF g
    <3>2. f[j - 1] = Len(s)
      BY <1>7, <1>8, <2>1
    <3>3. 1 + q \in 1 .. Len(c) /\ Len(s) + 1 + q = Len(s) + (1 + q)
      <4> DEFINE l == Len(g)
                 z == Len(s)
      <4>1. l \in Nat /\ z \in Nat /\ Len(c) = 1 + l /\ q \in 1 .. l
        BY <1>1, <1>2, <1>4, <3>1
      <4> HIDE DEF l, z
      <4>2. 1 + q \in 1 .. 1 + l /\ z + 1 + q = z + (1 + q)
        BY <4>1
      <4> QED
        BY <4>1, <4>2 DEF z
    <3> QED
      BY <1>4, <1>5, <3>1, <3>2, <3>3
  <2>2. CASE j \in 1 .. n
    <3>1. q \in 0 .. Len(gs[j]) /\ q > 0
      BY <1>1
    <3> QED
      BY <1>11, <1>13, <2>2, <3>1
  <2> QED
    BY <2>1, <2>2
<1>15. ASSUME NEW j \in 2 .. n + 1
       PROVE  t[f[j - 1] + 1] = Comma
  <2>1. CASE j = n + 1
    <3>1. f[j - 1] = Len(s) /\ 1 \in 1 .. Len(c)
      BY <1>2, <1>4, <1>7, <1>8, <2>1
    <3> QED
      BY <1>4, <1>5, <3>1
  <2>2. CASE j \in 1 .. n
    <3>1. 0 \in 0 .. Len(gs[j]) /\ j > 1
      BY <1>1
    <3>2. t[f[j - 1] + 1 + 0] = s[e[j - 1] + 1 + 0] /\ s[e[j - 1] + 1] = Comma
      BY <1>11, <1>13, <2>2, <3>1
    <3>3. f[j - 1] + 1 + 0 = f[j - 1] + 1 /\ e[j - 1] + 1 + 0 = e[j - 1] + 1
      BY <1>7, <1>8, <2>2
    <3> QED
      BY <3>2, <3>3
  <2> QED
    BY <2>1, <2>2
<1>16. ASSUME NEW i \in 0 .. n + 1, NEW j \in 0 .. n + 1, i <= j
       PROVE  f[i] <= f[j]
  <2>1. CASE j \in 0 .. n
    <3>1. i \in 0 .. n
      BY <1>16, <2>1
    <3>2. e[i] <= e[j]
      BY <1>6, <1>16, <2>1, <3>1 DEF Joined
    <3> QED
      BY <1>8, <2>1, <3>1, <3>2
  <2>2. CASE j = n + 1 /\ i \in 0 .. n
    BY <1>2, <1>7, <1>8, <2>2
  <2>3. CASE j = n + 1 /\ i = n + 1
    BY <1>2, <1>7, <1>8, <2>3
  <2> QED
    BY <2>1, <2>2, <2>3
<1>17. Joined(gs, n + 1, f, t)
  BY <1>9, <1>10, <1>12, <1>14, <1>15, <1>16 DEF Joined
<1> QED
  BY <1>17 DEF t, c, g

\* What a sequence of its own elements is.
LEMMA OwnElements ==
  ASSUME NEW n \in Nat, NEW f, f = [k \in 1 .. n |-> f[k]]
  PROVE  f \in Seq({f[k] : k \in DOMAIN f}) /\ Len(f) = n
<1>1. f \in Seq({f[k] : k \in DOMAIN f})
  OBVIOUS
<1>2. DOMAIN f = 1 .. n /\ DOMAIN f = 1 .. Len(f) /\ Len(f) \in Nat
  BY <1>1, LenProperties
<1> QED
  BY <1>1, <1>2

LEMMA CsvJoined ==
  ASSUME NEW gs \in Seq(Name), gs # <<>>
  PROVE  \E e : Joined(gs, Len(gs), e, Csv(gs))
<1> DEFINE n == Len(gs)
           seqs == [k \in DOMAIN gs |-> IF k = 1 THEN gs[k] ELSE <<Comma>> \o gs[k]]
<1>1. /\ n \in Nat \ {0} /\ DOMAIN gs = 1 .. n
      /\ \A k \in 1 .. n : gs[k] \in Name
  BY EmptySeq, LenProperties, ElementOfSeq
<1>2. Len(seqs) = n
  <2>1. seqs = [k \in 1 .. n |-> seqs[k]]
    BY <1>1
  <2> HIDE DEF seqs, n
  <2> QED
    BY <1>1, <2>1, OwnElements
<1>3. PICK F : IsPartial(F, seqs, n) /\ Csv(gs) = F[n]
  <2>1. Csv(gs) = FlattenSeq(seqs)
    BY DEF Csv
  <2> HIDE DEF seqs, n
  <2> QED
    BY <1>1, <1>2, <2>1, Flattened
<1>4. /\ F[1] = gs[1]
      /\ \A k \in 2 .. n : F[k] = F[k - 1] \o (<<Comma>> \o gs[k])
  <2> HIDE DEF n
  <2>1. 1 \in 1 .. n /\ \A k \in 2 .. n : k \in 1 .. n /\ k # 1
    BY <1>1
  <2> QED
    BY <1>1, <1>3, <2>1 DEF IsPartial
<1> HIDE DEF n, seqs
<1> DEFINE P(m) == \E e : Joined(gs, m, e, F[m])
           T == {m \in Nat : m \in 1 .. n /\ ~ P(m)}
<1>5. P(1)
  <2> DEFINE e == [j \in 0 .. 1 |-> IF j = 0 THEN -1 ELSE Len(gs[1])]
  <2>1. gs[1] \in Name /\ Len(gs[1]) \in Nat
    BY <1>1, LenProperties DEF Name
  <2>2. e \in [0 .. 1 -> Int] /\ e[0] = -1 /\ e[1] = Len(gs[1]) /\ 1 - 1 = 0
    BY <2>1
  <2> HIDE DEF e
  <2>3. \A q \in 1 .. Len(gs[1]) : -1 + 1 + q = q
    BY <2>1
  <2>4. \A i, j \in 0 .. 1 : i <= j => e[i] <= e[j]
    BY <2>1, <2>2
  <2>5. /\ \A j \in 1 .. 1 : e[j] = e[j - 1] + 1 + Len(gs[j])
        /\ \A j \in 1 .. 1 : \A q \in 1 .. Len(gs[j]) : gs[1][e[j - 1] + 1 + q] = gs[j][q]
        /\ \A j \in 2 .. 1 : gs[1][e[j - 1] + 1] = Comma
    BY <2>1, <2>2, <2>3
  <2>6. Joined(gs, 1, e, gs[1])
    BY <2>1, <2>2, <2>4, <2>5 DEF Joined
  <2> QED
    BY <1>4, <2>6
<1>6. ASSUME NEW m \in 1 .. n, m # 1, P(m - 1) PROVE P(m)
  <2>1. PICK e : Joined(gs, m - 1, e, F[m - 1])
    BY <1>6
  <2>2. /\ m - 1 \in Nat \ {0} /\ (m - 1) + 1 = m /\ m \in 2 .. n
        /\ \A j \in 1 .. m : gs[j] \in Name
    BY <1>1, <1>6
  <2>3. \E f : Joined(gs, m, f, F[m - 1] \o (<<Comma>> \o gs[m]))
    BY <2>1, <2>2, JoinOne
  <2> QED
    BY <1>4, <2>2, <2>3
<1>7. T = {}
  <2> HIDE DEF P
  <2>1. ASSUME NEW m \in T PROVE m # 0 /\ m - 1 \in T
    <3>1. m \in 1 .. n /\ ~ P(m)
      OBVIOUS
    <3>2. m # 1
      BY <1>5, <3>1
    <3>3. m - 1 \in 1 .. n /\ m - 1 \in Nat /\ m # 0
      BY <1>1, <3>1, <3>2
    <3>4. ~ P(m - 1)
      BY <1>6, <3>1, <3>2
    <3> QED
      BY <3>3, <3>4
  <2>2. T \in SUBSET Nat
    OBVIOUS
  <2> HIDE DEF T
  <2> QED
    BY <2>1, <2>2, NoFirstFailure
<1>8. P(n)
  <2> HIDE DEF P
  <2>1. n \in 1 .. n /\ n \in Nat
    BY <1>1
  <2> QED
    BY <1>7, <2>1
<1> QED
  BY <1>3, <1>8 DEF n

\* Every place of s is one of a name or the comma before it.
LEMMA Located ==
  ASSUME NEW gs, NEW n \in Nat \ {0}, NEW e, NEW s, Joined(gs, n, e, s), NEW p \in 1 .. Len(s)
  PROVE  \E j \in 1 .. n : e[j - 1] + 1 <= p /\ p <= e[j]
<1>1. e \in [0 .. n -> Int] /\ e[0] = -1 /\ Len(s) = e[n]
  BY DEF Joined
<1> DEFINE T == {j \in 1 .. n : p <= e[j]}
<1>2. n \in T /\ T \in SUBSET Nat
  BY <1>1
<1>3. PICK j \in T : \A k \in T : j <= k
  BY <1>2, LeastNatural
<1>4. j \in 1 .. n /\ p <= e[j]
  OBVIOUS
<1>5. e[j - 1] + 1 <= p
  <2>1. CASE j = 1
    BY <1>1, <2>1
  <2>2. CASE j # 1
    <3>1. j - 1 \in 1 .. n /\ ~ (j <= j - 1)
      BY <1>4, <2>2
    <3>2. ~ (p <= e[j - 1])
      BY <1>3, <3>1
    <3>3. e[j - 1] \in Int /\ p \in Int
      BY <1>1, <3>1
    <3> QED
      BY <3>2, <3>3
  <2> QED
    BY <2>1, <2>2
<1> QED
  BY <1>4, <1>5

-----------------------------------------------------------------------------
\* SplitGroups.

CutsOf(h)      == {k \in DOMAIN h : h[k] = Comma}
CutBefore(h, b) == Max({0} \cup {k \in CutsOf(h) : k < b})
PartsOf(h) ==
  {SubSeq(h, CutBefore(h, b) + 1, b - 1) : b \in CutsOf(h) \cup {Len(h) + 1}}

LEMMA SplitInParts ==
  ASSUME NEW h
  PROVE  SplitGroups(h) = {Trim(g) : g \in PartsOf(h)} \ {<<>>}
BY DEF SplitGroups, CutsOf, CutBefore, PartsOf

LEMMA CsvOfNone == Csv(<<>>) = <<>>
<1> DEFINE seqs == [k \in {} |-> IF k = 1 THEN <<>>[k] ELSE <<Comma>> \o <<>>[k]]
<1>1. seqs = <<>> /\ Len(<<>>) = 0 /\ DOMAIN <<>> = {}
  OBVIOUS
<1> QED
  BY <1>1 DEF Csv, FlattenSeq

LEMMA EmptyList == SplitGroups(Csv(<<>>)) = {}
<1> DEFINE h == Csv(<<>>)
<1>1. Len(<<>>) = 0 /\ DOMAIN <<>> = {}
  OBVIOUS
<1>2. h = <<>>
  BY CsvOfNone
<1> HIDE DEF h
<1>3. CutsOf(h) = {} /\ Len(h) + 1 = 1
  BY <1>1, <1>2 DEF CutsOf
<1>4. CutBefore(h, 1) = 0
  <2>1. {0} \cup {k \in CutsOf(h) : k < 1} = {0}
    BY <1>3
  <2>2. Max({0}) = 0
    BY MaxIs
  <2> QED
    BY <2>1, <2>2 DEF CutBefore
<1>5. SubSeq(h, CutBefore(h, 1) + 1, 1 - 1) = <<>>
  BY <1>4, SubSeqEmpty
<1>6. PartsOf(h) = {<<>>}
  BY <1>3, <1>5 DEF PartsOf
<1>7. Trim(<<>>) = <<>>
  BY <1>1 DEF Trim
<1> QED
  BY <1>6, <1>7, SplitInParts DEF h

\* Where the commas of joined names are.
LEMMA JoinedCuts ==
  ASSUME NEW gs, NEW n \in Nat \ {0}, NEW e, NEW s, Joined(gs, n, e, s),
         \A j \in 1 .. n : gs[j] \in Name /\ GroupName(gs[j])
  PROVE  CutsOf(s) = {e[j - 1] + 1 : j \in 2 .. n}
<1>1. /\ e \in [0 .. n -> Int] /\ e[0] = -1 /\ Len(s) = e[n] /\ DOMAIN s = 1 .. Len(s)
      /\ \A i, j \in 0 .. n : i <= j => e[i] <= e[j]
      /\ \A j \in 2 .. n : s[e[j - 1] + 1] = Comma
  BY LenProperties DEF Joined, Name
<1>2. ASSUME NEW j \in 1 .. n
      PROVE  /\ Len(gs[j]) \in Nat /\ e[j] = e[j - 1] + 1 + Len(gs[j])
             /\ j - 1 \in 0 .. n /\ e[j - 1] \in Int /\ e[j] \in Int
             /\ \A q \in 1 .. Len(gs[j]) : s[e[j - 1] + 1 + q] = gs[j][q]
  BY <1>1, LenProperties DEF Joined, Name
<1>3. ASSUME NEW j \in 2 .. n PROVE e[j - 1] + 1 \in CutsOf(s)
  <2>1. j - 1 \in 1 .. n /\ j \in 0 .. n /\ j \in 1 .. n /\ n \in 0 .. n /\ 0 \in 0 .. n
    OBVIOUS
  <2>2. /\ e[j - 1] = e[(j - 1) - 1] + 1 + Len(gs[j - 1]) /\ e[0] <= e[(j - 1) - 1]
        /\ e[(j - 1) - 1] \in Int /\ Len(gs[j - 1]) \in Nat
        /\ e[j] <= e[n] /\ e[j] = e[j - 1] + 1 + Len(gs[j]) /\ Len(gs[j]) \in Nat
        /\ e[j - 1] \in Int /\ e[j] \in Int
    BY <1>1, <1>2, <2>1
  <2>3. e[j - 1] + 1 >= 1 /\ e[j - 1] + 1 <= e[n] /\ e[n] \in Int
    <3> DEFINE x == e[j - 1]
               y == e[(j - 1) - 1]
               z == e[j]
               L == Len(gs[j - 1])
               M == Len(gs[j])
    <3>1. /\ x \in Int /\ y \in Int /\ z \in Int /\ e[n] \in Int /\ L \in Nat /\ M \in Nat
          /\ x = y + 1 + L /\ z = x + 1 + M /\ -1 <= y /\ z <= e[n]
      BY <1>1, <2>1, <2>2
    <3> HIDE DEF x, y, z, L, M
    <3>2. x + 1 >= 1 /\ x + 1 <= e[n]
      BY <3>1
    <3> QED
      BY <3>1, <3>2 DEF x
  <2>4. e[j - 1] + 1 \in 1 .. Len(s)
    BY <1>1, <2>2, <2>3
  <2> QED
    BY <1>1, <2>4 DEF CutsOf
<1>4. ASSUME NEW p \in CutsOf(s) PROVE \E j \in 2 .. n : p = e[j - 1] + 1
  <2>1. p \in 1 .. Len(s) /\ s[p] = Comma
    BY <1>1 DEF CutsOf
  <2>2. PICK j \in 1 .. n : e[j - 1] + 1 <= p /\ p <= e[j]
    BY <2>1, Located
  <2>3. ASSUME p # e[j - 1] + 1 PROVE FALSE
    <3> DEFINE L == Len(gs[j])
               b == e[j - 1]
    <3>0. L \in Nat /\ b \in Int /\ e[j] = b + 1 + L /\ p \in Int /\ b + 1 <= p /\ p <= e[j]
      BY <1>2, <2>1, <2>2
    <3> HIDE DEF L, b
    <3>1. p - b - 1 \in 1 .. L /\ b + 1 + (p - b - 1) = p
      BY <3>0, <2>3 DEF b
    <3> USE DEF L, b
    <3>2. gs[j][p - e[j - 1] - 1] = Comma
      BY <1>2, <2>1, <3>1
    <3>3. DOMAIN gs[j] = 1 .. Len(gs[j])
      BY LenProperties DEF Name
    <3> QED
      BY <3>1, <3>2, <3>3 DEF GroupName, Has
  <2>4. j # 1
    BY <1>1, <2>1, <2>3
  <2> QED
    BY <2>2, <2>3, <2>4
<1> QED
  BY <1>3, <1>4

\* The part that ends where the j-th name does is that name.
LEMMA JoinedPart ==
  ASSUME NEW gs, NEW n \in Nat \ {0}, NEW e, NEW s, Joined(gs, n, e, s),
         \A j \in 1 .. n : gs[j] \in Name /\ GroupName(gs[j]),
         NEW j \in 1 .. n
  PROVE  SubSeq(s, CutBefore(s, e[j] + 1) + 1, (e[j] + 1) - 1) = gs[j]
<1>1. /\ e \in [0 .. n -> Int] /\ e[0] = -1 /\ Len(s) = e[n] /\ s \in Seq(Mark)
      /\ \A i, k \in 0 .. n : i <= k => e[i] <= e[k]
  BY DEF Joined, Name
<1>2. /\ Len(gs[j]) \in Nat /\ e[j] = e[j - 1] + 1 + Len(gs[j]) /\ gs[j] \in Seq(Mark)
      /\ j - 1 \in 0 .. n /\ e[j - 1] \in Int /\ e[j] \in Int /\ j \in 0 .. n
      /\ \A q \in 1 .. Len(gs[j]) : s[e[j - 1] + 1 + q] = gs[j][q]
      /\ -1 <= e[j - 1] /\ e[j] <= Len(s)
  BY <1>1, LenProperties DEF Joined, Name
<1> DEFINE C == {0} \cup {k \in CutsOf(s) : k < e[j] + 1}
           a == e[j - 1] + 1
<1>3. CutsOf(s) = {e[i - 1] + 1 : i \in 2 .. n}
  BY JoinedCuts
<1>4. a \in C
  <2>1. CASE j = 1
    BY <1>1, <2>1
  <2>2. CASE j # 1
    <3>1. j \in 2 .. n /\ a < e[j] + 1
      BY <1>2, <2>2
    <3> QED
      BY <1>3, <3>1
  <2> QED
    BY <2>1, <2>2
<1>5. C \in SUBSET Int
  <2>1. \A i \in 2 .. n : e[i - 1] + 1 \in Int
    BY <1>1
  <2> QED
    BY <1>3, <2>1
<1>6. ASSUME NEW k \in C PROVE k <= a
  <2>1. CASE k = 0
    BY <1>2, <2>1
  <2>2. CASE k # 0
    <3>1. PICK i \in 2 .. n : k = e[i - 1] + 1 /\ k < e[j] + 1
      BY <1>3, <2>2
    <3>2. i - 1 \in 0 .. n /\ e[i - 1] \in Int /\ e[i - 1] < e[j]
      BY <1>1, <1>2, <3>1
    <3>3. ~ (j <= i - 1)
      <4>1. j <= i - 1 => e[j] <= e[i - 1]
        BY <1>1, <1>2, <3>2
      <4> QED
        BY <1>2, <3>2, <4>1
    <3>4. i - 1 <= j - 1
      BY <3>3
    <3>5. e[i - 1] <= e[j - 1]
      BY <1>1, <1>2, <3>2, <3>4
    <3> QED
      BY <1>2, <3>1, <3>2, <3>5
  <2> QED
    BY <2>1, <2>2
<1>7. CutBefore(s, e[j] + 1) = a
  <2> HIDE DEF a
  <2>1. C \in SUBSET Int /\ a \in C /\ \A k \in C : k <= a
    BY <1>4, <1>5, <1>6
  <2>2. CutBefore(s, e[j] + 1) = Max(C)
    BY DEF CutBefore
  <2> HIDE DEF C
  <2> QED
    BY <2>1, <2>2, MaxIs
<1> DEFINE u == SubSeq(s, a + 1, e[j])
<1>8. /\ u \in Seq(Mark) /\ Len(u) = Len(gs[j])
      /\ \A q \in 1 .. Len(gs[j]) : u[q] = gs[j][q]
  <2>1. \A p \in a + 1 .. e[j] : s[p] \in Mark
    <3>1. \A p \in a + 1 .. e[j] : p \in 1 .. Len(s)
      BY <1>1, <1>2
    <3> QED
      BY <1>1, <3>1, ElementOfSeq
  <2>2. a + 1 \in Int /\ e[j] \in Int
    BY <1>2
  <2>3. /\ u \in Seq(Mark)
        /\ Len(u) = IF a + 1 <= e[j] THEN e[j] - (a + 1) + 1 ELSE 0
        /\ \A i \in 1 .. e[j] - (a + 1) + 1 : u[i] = s[(a + 1) + i - 1]
    BY <2>1, <2>2, SubSeqProperties
  <2> HIDE DEF u
  <2> DEFINE L == Len(gs[j])
  <2>4. e[j] - (a + 1) + 1 = L /\ L \in Nat /\ (a + 1 <= e[j] <=> L >= 1)
    <3>1. L \in Nat /\ e[j] = e[j - 1] + 1 + L /\ e[j - 1] \in Int
      BY <1>2
    <3> HIDE DEF L
    <3> QED
      BY <3>1
  <2>5. \A i \in 1 .. Len(gs[j]) : (a + 1) + i - 1 = e[j - 1] + 1 + i
    BY <1>2
  <2>6. Len(u) = L
    <3> HIDE DEF L, a
    <3> QED
      BY <2>3, <2>4
  <2>7. \A q \in 1 .. Len(gs[j]) : u[q] = gs[j][q]
    BY <1>2, <2>3, <2>4, <2>5
  <2> QED
    BY <2>3, <2>6, <2>7
<1>9. u = gs[j]
  <2> HIDE DEF u
  <2> QED
    BY <1>2, <1>8, SeqEqual
<1>10. (e[j] + 1) - 1 = e[j]
  BY <1>2
<1> QED
  BY <1>7, <1>9, <1>10

\* "Groups are later joined with commas" (review): a list of names that the
\* review of a token lets through is read back from its CSV form as it was, by
\* the code that authorizes and by whoever splits AQSH_GROUPS at its commas.
THEOREM GroupsReadBack ==
  ASSUME NEW gs \in Seq(Name), \A k \in DOMAIN gs : GroupName(gs[k])
  PROVE  SplitGroups(Csv(gs)) = {gs[k] : k \in DOMAIN gs}
<1>1. CASE gs = <<>>
  <2>1. DOMAIN gs = {}
    BY <1>1
  <2> QED
    BY <1>1, <2>1, EmptyList
<1>2. CASE gs # <<>>
  <2> DEFINE n == Len(gs)
             s == Csv(gs)
  <2>1. /\ n \in Nat \ {0} /\ DOMAIN gs = 1 .. n
        /\ \A j \in 1 .. n : gs[j] \in Name /\ GroupName(gs[j])
    BY <1>2, EmptySeq, LenProperties, ElementOfSeq
  <2>2. PICK e : Joined(gs, n, e, s)
    BY <1>2, CsvJoined
  <2> HIDE DEF n, s
  <2>3. Len(s) = e[n] /\ e \in [0 .. n -> Int]
    BY <2>2 DEF Joined
  <2>4. CutsOf(s) \cup {Len(s) + 1} = {e[j] + 1 : j \in 1 .. n}
    <3>1. CutsOf(s) = {e[j - 1] + 1 : j \in 2 .. n}
      BY <2>1, <2>2, JoinedCuts
    <3>2. ASSUME NEW j \in 1 .. n PROVE e[j] + 1 \in CutsOf(s) \cup {Len(s) + 1}
      <4>1. CASE j = n
        BY <2>3, <4>1
      <4>2. CASE j # n
        <5>1. j + 1 \in 2 .. n /\ (j + 1) - 1 = j
          BY <2>1, <4>2
        <5>2. e[(j + 1) - 1] + 1 \in CutsOf(s)
          BY <3>1, <5>1
        <5> QED
          BY <5>1, <5>2
      <4> QED
        BY <4>1, <4>2
    <3>3. \A j \in 2 .. n : j - 1 \in 1 .. n
      BY <2>1
    <3>4. n \in 1 .. n
      BY <2>1
    <3> QED
      BY <2>3, <3>1, <3>2, <3>3, <3>4
  <2>5. \A j \in 1 .. n : SubSeq(s, CutBefore(s, e[j] + 1) + 1, (e[j] + 1) - 1) = gs[j]
    BY <2>1, <2>2, JoinedPart
  <2>6. PartsOf(s) = {gs[j] : j \in 1 .. n}
    <3>1. ASSUME NEW j \in 1 .. n PROVE gs[j] \in PartsOf(s)
      <4>1. e[j] + 1 \in CutsOf(s) \cup {Len(s) + 1}
        BY <2>4
      <4> QED
        BY <2>5, <4>1, Zenon DEF PartsOf
    <3>2. ASSUME NEW part \in PartsOf(s) PROVE part \in {gs[j] : j \in 1 .. n}
      <4>1. PICK b \in CutsOf(s) \cup {Len(s) + 1} :
              part = SubSeq(s, CutBefore(s, b) + 1, b - 1)
        BY DEF PartsOf
      <4>2. PICK j \in 1 .. n : b = e[j] + 1
        BY <2>4
      <4>3. part = gs[j]
        BY <2>5, <4>1, <4>2, Zenon
      <4> QED
        BY <4>3
    <3> QED
      BY <3>1, <3>2
  <2>7. \A j \in 1 .. n : Trim(gs[j]) = gs[j] /\ gs[j] # <<>>
    BY <2>1 DEF GroupName
  <2> QED
    BY <2>1, <2>6, <2>7, SplitInParts DEF s
<1> QED
  BY <1>1, <1>2

-----------------------------------------------------------------------------
\* Qualified names.

\* A name qualified by a cluster is "c/u": c's marks, a slash and u's.
LEMMA Qualified ==
  ASSUME NEW c \in Name, NEW u \in Name
  PROVE  LET q == (c \o <<Slash>>) \o u
         IN /\ q \in Name /\ Len(q) = Len(c) + 1 + Len(u)
            /\ \A k \in 1 .. Len(c) : q[k] = c[k]
            /\ q[Len(c) + 1] = Slash
            /\ \A k \in 1 .. Len(u) : q[Len(c) + 1 + k] = u[k]
<1> DEFINE p == c \o <<Slash>>
           q == p \o u
<1>1. /\ c \in Seq(Mark) /\ u \in Seq(Mark) /\ Len(c) \in Nat /\ Len(u) \in Nat
      /\ <<Slash>> \in Seq(Mark) /\ Len(<<Slash>>) = 1 /\ <<Slash>>[1] = Slash
  <2>1. Slash \in Mark
    BY DEF Mark
  <2> QED
    BY <2>1, LenProperties DEF Name
<1>2. /\ p \in Seq(Mark) /\ Len(p) = Len(c) + 1 /\ p[Len(c) + 1] = Slash
      /\ \A k \in 1 .. Len(c) : p[k] = c[k]
  <2>1. /\ p \in Seq(Mark) /\ Len(p) = Len(c) + Len(<<Slash>>)
        /\ \A i \in 1 .. Len(c) + Len(<<Slash>>) :
             p[i] = IF i <= Len(c) THEN c[i] ELSE <<Slash>>[i - Len(c)]
    BY <1>1, ConcatProperties
  <2> HIDE DEF p
  <2>2. \A k \in 1 .. Len(c) : p[k] = c[k]
    BY <1>1, <2>1
  <2>3. p[Len(c) + 1] = Slash
    <3>1. /\ Len(c) + 1 \in 1 .. Len(c) + Len(<<Slash>>) /\ ~ (Len(c) + 1 <= Len(c))
          /\ (Len(c) + 1) - Len(c) = 1
      BY <1>1
    <3> QED
      BY <1>1, <2>1, <3>1
  <2> QED
    BY <1>1, <2>1, <2>2, <2>3
<1> HIDE DEF p
<1>3. /\ q \in Seq(Mark) /\ Len(q) = Len(p) + Len(u)
      /\ \A i \in 1 .. Len(p) + Len(u) : q[i] = IF i <= Len(p) THEN p[i] ELSE u[i - Len(p)]
  <2>1. /\ p \o u \in Seq(Mark) /\ Len(p \o u) = Len(p) + Len(u)
        /\ \A i \in 1 .. Len(p) + Len(u) :
             (p \o u)[i] = IF i <= Len(p) THEN p[i] ELSE u[i - Len(p)]
    <3>1. p \in Seq(Mark) /\ u \in Seq(Mark)
      BY <1>1, <1>2
    <3> QED
      BY <3>1, ConcatProperties
  <2> QED
    BY <2>1
<1> HIDE DEF q
<1>4. q \in Name /\ Len(q) = Len(c) + 1 + Len(u)
  BY <1>2, <1>3 DEF Name
<1>5. \A k \in 1 .. Len(c) + 1 : q[k] = p[k]
  BY <1>1, <1>2, <1>3
<1>6. ASSUME NEW k \in 1 .. Len(u) PROVE q[Len(c) + 1 + k] = u[k]
  <2>1. /\ Len(c) + 1 + k \in 1 .. Len(p) + Len(u) /\ ~ (Len(c) + 1 + k <= Len(p))
        /\ (Len(c) + 1 + k) - Len(p) = k
    BY <1>1, <1>2
  <2> QED
    BY <1>3, <2>1
<1>7. /\ \A k \in 1 .. Len(c) : q[k] = c[k]
      /\ q[Len(c) + 1] = Slash
  BY <1>1, <1>2, <1>5
<1> QED
  BY <1>4, <1>6, <1>7 DEF q, p

\* "Cluster names exclude / so that they are one segment" (validClusterName):
\* of two qualified names that are spelled alike, cluster and user are the same.
THEOREM OneClusterOneUser ==
  ASSUME NEW c \in Name, NEW d \in Name, NEW u \in Name, NEW v \in Name,
         ~ Has(c, {Slash}), ~ Has(d, {Slash}),
         (c \o <<Slash>>) \o u = (d \o <<Slash>>) \o v
  PROVE  c = d /\ u = v
<1> DEFINE q == (c \o <<Slash>>) \o u
<1>1. /\ Len(c) \in Nat /\ Len(d) \in Nat /\ Len(u) \in Nat /\ Len(v) \in Nat
      /\ DOMAIN c = 1 .. Len(c) /\ DOMAIN d = 1 .. Len(d)
  BY LenProperties DEF Name
<1>2. /\ Len(q) = Len(c) + 1 + Len(u)
      /\ \A k \in 1 .. Len(c) : q[k] = c[k]
      /\ q[Len(c) + 1] = Slash
      /\ \A k \in 1 .. Len(u) : q[Len(c) + 1 + k] = u[k]
  BY Qualified
<1>3. /\ Len(q) = Len(d) + 1 + Len(v)
      /\ \A k \in 1 .. Len(d) : q[k] = d[k]
      /\ q[Len(d) + 1] = Slash
      /\ \A k \in 1 .. Len(v) : q[Len(d) + 1 + k] = v[k]
  <2>1. q = (d \o <<Slash>>) \o v
    OBVIOUS
  <2> HIDE DEF q
  <2> QED
    BY <2>1, Qualified
<1> HIDE DEF q
<1>4. ~ (Len(c) < Len(d))
  <2> SUFFICES ASSUME Len(c) < Len(d) PROVE FALSE
    OBVIOUS
  <2>1. Len(c) + 1 \in 1 .. Len(d)
    BY <1>1
  <2> QED
    BY <1>1, <1>2, <1>3, <2>1 DEF Has
<1>5. ~ (Len(d) < Len(c))
  <2> SUFFICES ASSUME Len(d) < Len(c) PROVE FALSE
    OBVIOUS
  <2>1. Len(d) + 1 \in 1 .. Len(c)
    BY <1>1
  <2> QED
    BY <1>1, <1>2, <1>3, <2>1 DEF Has
<1>6. Len(c) = Len(d) /\ Len(u) = Len(v)
  <2>1. Len(c) = Len(d)
    <3>1. Len(c) \in Nat /\ Len(d) \in Nat
      BY <1>1
    <3> QED
      BY <1>4, <1>5, <3>1
  <2>2. Len(c) + 1 + Len(u) = Len(c) + 1 + Len(v)
    BY <1>2, <1>3, <2>1
  <2> QED
    BY <1>1, <2>1, <2>2
<1>7. /\ \A k \in 1 .. Len(c) : c[k] = d[k]
      /\ \A k \in 1 .. Len(u) : u[k] = v[k]
  BY <1>1, <1>2, <1>3, <1>6
<1> QED
  BY <1>6, <1>7, SeqEqual DEF Name

\* A group's name stays one when it is qualified.
LEMMA QualifiedGroup ==
  ASSUME NEW c \in Name, NEW g \in Name, ClusterName(c), GroupName(g)
  PROVE  (c \o <<Slash>>) \o g \in Name /\ GroupName((c \o <<Slash>>) \o g)
<1> DEFINE q == (c \o <<Slash>>) \o g
<1>1. /\ q \in Name /\ Len(q) = Len(c) + 1 + Len(g)
      /\ \A k \in 1 .. Len(c) : q[k] = c[k]
      /\ q[Len(c) + 1] = Slash
      /\ \A k \in 1 .. Len(g) : q[Len(c) + 1 + k] = g[k]
  BY Qualified
<1>2. /\ Len(c) \in Nat \ {0} /\ Len(g) \in Nat \ {0}
      /\ DOMAIN c = 1 .. Len(c) /\ DOMAIN g = 1 .. Len(g)
  BY LenProperties, EmptySeq DEF Name, ClusterName, GroupName
<1>3. /\ \A k \in 1 .. Len(c) : c[k] \notin {Comma, Slash, Space, Control}
      /\ \A k \in 1 .. Len(g) : g[k] \notin {Comma, Control}
      /\ g[Len(g)] \notin {Space, Control}
  BY <1>2, InkAtEnds DEF ClusterName, GroupName, Has
<1> HIDE DEF q
<1>4. q # <<>> /\ DOMAIN q = 1 .. Len(q)
  <2>1. Len(q) # 0
    BY <1>1, <1>2
  <2> QED
    BY <1>1, <2>1, LenProperties DEF Name
<1>5. ASSUME NEW k \in 1 .. Len(q) PROVE q[k] \notin {Comma, Control}
  <2>1. CASE k <= Len(c)
    BY <1>1, <1>2, <1>3, <2>1
  <2>2. CASE k = Len(c) + 1
    BY <1>1, <2>2 DEF Slash, Comma, Control
  <2>3. CASE k > Len(c) + 1
    <3>1. k - Len(c) - 1 \in 1 .. Len(g) /\ Len(c) + 1 + (k - Len(c) - 1) = k
      BY <1>1, <1>2, <2>3
    <3> QED
      BY <1>1, <1>3, <3>1
  <2> QED
    BY <1>1, <1>2, <2>1, <2>2, <2>3
<1>6. q[1] \notin {Space, Control} /\ q[Len(q)] \notin {Space, Control}
  <2>1. 1 \in 1 .. Len(c) /\ Len(g) \in 1 .. Len(g) /\ Len(q) = Len(c) + 1 + Len(g)
    BY <1>1, <1>2
  <2> QED
    BY <1>1, <1>3, <2>1
<1>7. Trim(q) = q
  BY <1>1, <1>4, <1>6, InkAtEnds
<1> QED
  BY <1>1, <1>4, <1>5, <1>7 DEF GroupName, Has, q

-----------------------------------------------------------------------------
\* Load.

\* What sequences have when they are put together.
LEMMA ConcatElements ==
  ASSUME NEW S, NEW a \in Seq(S), NEW b \in Seq(S)
  PROVE  a \o b \in Seq(S) /\ ToSet(a \o b) = ToSet(a) \cup ToSet(b)
<1> DEFINE c == a \o b
           m == Len(a)
           n == Len(b)
<1>1. /\ m \in Nat /\ n \in Nat /\ DOMAIN a = 1 .. m /\ DOMAIN b = 1 .. n
      /\ c \in Seq(S) /\ Len(c) = m + n /\ DOMAIN c = 1 .. m + n
  <2>1. c \in Seq(S) /\ Len(c) = m + n
    BY ConcatProperties
  <2> QED
    BY <2>1, LenProperties
<1>2. \A i \in 1 .. m + n : c[i] = IF i <= m THEN a[i] ELSE b[i - m]
  BY ConcatProperties
<1> HIDE DEF c, m, n
<1>3. ASSUME NEW i \in 1 .. m PROVE c[i] = a[i] /\ i \in 1 .. m + n
  BY <1>1, <1>2
<1>4. ASSUME NEW i \in 1 .. n PROVE c[m + i] = b[i] /\ m + i \in 1 .. m + n
  <2>1. m + i \in 1 .. m + n /\ ~ (m + i <= m) /\ (m + i) - m = i
    BY <1>1
  <2> QED
    BY <1>2, <2>1
<1>5. ASSUME NEW i \in 1 .. m + n
      PROVE  (i \in 1 .. m /\ c[i] = a[i]) \/ (i - m \in 1 .. n /\ c[i] = b[i - m])
  <2>1. i <= m => i \in 1 .. m
    BY <1>1
  <2>2. ~ (i <= m) => i - m \in 1 .. n
    BY <1>1
  <2> QED
    BY <1>2, <2>1, <2>2
<1>6. ToSet(c) = ToSet(a) \cup ToSet(b)
  <2>1. ASSUME NEW x \in ToSet(c) PROVE x \in ToSet(a) \cup ToSet(b)
    <3>1. PICK i \in 1 .. m + n : x = c[i]
      BY <1>1 DEF ToSet
    <3> QED
      BY <1>1, <1>5, <3>1 DEF ToSet
  <2>2. ASSUME NEW x \in ToSet(a) PROVE x \in ToSet(c)
    BY <1>1, <1>3 DEF ToSet
  <2>3. ASSUME NEW x \in ToSet(b) PROVE x \in ToSet(c)
    BY <1>1, <1>4 DEF ToSet
  <2> QED
    BY <2>1, <2>2, <2>3
<1> QED
  BY <1>1, <1>6 DEF c

\* A property of the numbers up to n that every one hands to the next.
LEMMA UpTo ==
  ASSUME NEW n \in Nat, NEW T \in SUBSET (0 .. n), 0 \in T,
         \A m \in T : m < n => m + 1 \in T
  PROVE  T = 0 .. n
<1> DEFINE U == (0 .. n) \ T
<1>1. ASSUME NEW m \in U PROVE m # 0 /\ m - 1 \in U
  <2>1. m \in Nat /\ m <= n /\ m # 0 /\ m \notin T
    OBVIOUS
  <2>2. m - 1 \in 0 .. n /\ m - 1 < n /\ (m - 1) + 1 = m
    BY <2>1
  <2> QED
    BY <2>1, <2>2
<1>2. U \in SUBSET Nat
  OBVIOUS
<1>3. U = {}
  <2> HIDE DEF U
  <2> QED
    BY <1>1, <1>2, NoFirstFailure
<1> QED
  BY <1>3

LEMMA FlattenedElements ==
  ASSUME NEW S, NEW ss \in Seq(Seq(S))
  PROVE  /\ FlattenSeq(ss) \in Seq(S)
         /\ ToSet(FlattenSeq(ss)) = UNION {ToSet(ss[p]) : p \in DOMAIN ss}
<1> DEFINE n == Len(ss)
<1>1. n \in Nat /\ DOMAIN ss = 1 .. n /\ \A p \in 1 .. n : ss[p] \in Seq(S)
  BY LenProperties
<1>2. CASE n = 0
  <2>1. ss = <<>> /\ DOMAIN ss = {}
    BY <1>1, <1>2, EmptySeq
  <2>2. FlattenSeq(ss) = <<>>
    BY <1>2, <2>1 DEF FlattenSeq
  <2>3. ToSet(<<>>) = {} /\ <<>> \in Seq(S)
    BY DEF ToSet
  <2> QED
    BY <2>1, <2>2, <2>3
<1>3. CASE n # 0
  <2>1. PICK F : IsPartial(F, ss, n) /\ FlattenSeq(ss) = F[n]
    BY <1>1, <1>3, Flattened
  <2>2. \A i \in 1 .. n : F[i] = IF i = 1 THEN ss[i] ELSE F[i - 1] \o ss[i]
    BY <2>1 DEF IsPartial
  <2> DEFINE Q(m) == F[m] \in Seq(S) /\ ToSet(F[m]) = UNION {ToSet(ss[p]) : p \in 1 .. m}
             T == {m \in 0 .. n : m # 0 => Q(m)}
  <2>3. Q(1)
    <3>1. F[1] = ss[1] /\ 1 \in 1 .. n
      BY <1>1, <1>3, <2>2
    <3>2. UNION {ToSet(ss[p]) : p \in 1 .. 1} = ToSet(ss[1])
      OBVIOUS
    <3> QED
      BY <1>1, <3>1, <3>2
  <2>4. ASSUME NEW m \in 1 .. n, m < n, Q(m) PROVE Q(m + 1)
    <3>1. m + 1 \in 1 .. n /\ m + 1 # 1 /\ (m + 1) - 1 = m
      BY <1>1, <2>4
    <3>2. F[m + 1] = F[m] \o ss[m + 1] /\ ss[m + 1] \in Seq(S)
      BY <1>1, <2>2, <3>1
    <3>3. F[m + 1] \in Seq(S) /\ ToSet(F[m + 1]) = ToSet(F[m]) \cup ToSet(ss[m + 1])
      BY <2>4, <3>2, ConcatElements
    <3>4. 1 .. m + 1 = (1 .. m) \cup {m + 1}
      BY <1>1
    <3>5. UNION {ToSet(ss[p]) : p \in 1 .. m + 1}
            = (UNION {ToSet(ss[p]) : p \in 1 .. m}) \cup ToSet(ss[m + 1])
      <4> DEFINE A == 1 .. m
                 B == 1 .. m + 1
      <4>1. B = A \cup {m + 1}
        BY <3>4
      <4> HIDE DEF A, B
      <4>2. UNION {ToSet(ss[p]) : p \in B} =
               (UNION {ToSet(ss[p]) : p \in A}) \cup ToSet(ss[m + 1])
        BY <4>1
      <4> QED
        BY <4>2 DEF A, B
    <3> QED
      BY <2>4, <3>3, <3>5
  <2>5. Q(n)
    <3>1. T \in SUBSET (0 .. n) /\ 0 \in T
      BY <1>1
    <3>2. ASSUME NEW m \in T, m < n PROVE m + 1 \in T
      <4>1. m \in 0 .. n /\ m + 1 \in 0 .. n /\ (m = 0 \/ m \in 1 .. n) /\ (m # 0 => Q(m))
        BY <1>1, <3>2
      <4>2. Q(m + 1)
        <5>1. CASE m = 0
          <6>1. m + 1 = 1
            BY <5>1
          <6> HIDE DEF Q
          <6> QED
            BY <2>3, <6>1
        <5>2. CASE m # 0
          <6> HIDE DEF Q
          <6> QED
            BY <2>4, <3>2, <4>1, <5>2
        <5> QED
          BY <5>1, <5>2
      <4> HIDE DEF Q
      <4> QED
        BY <4>1, <4>2
    <3>3. T = 0 .. n
      <4> HIDE DEF T
      <4> QED
        BY <1>1, <3>1, <3>2, UpTo
    <3>4. n \in T
      <4> HIDE DEF T, n
      <4> QED
        BY <1>1, <3>3
    <3> HIDE DEF Q, n
    <3> QED
      BY <1>3, <3>4
  <2> QED
    BY <1>1, <2>1, <2>5
<1> QED
  BY <1>2, <1>3

TasksOf(dir, f) == DOMAIN dir.files[f].tasks

\* With the main file, the files of L make a configuration.
Fit(dir, L) ==
  /\ MainAlone(dir).ok
  /\ \A f \in L : LET file == dir.files[f]
                  IN /\ file.ok /\ file.include = <<>> /\ file.defaults = NoDefaults
                     /\ ValidInputs(file.tasks)
  /\ \A f, g \in L \cup {dir.main} : f # g => TasksOf(dir, f) \cap TasksOf(dir, g) = {}

\* What the inner loop has got after the files of L.
Gathered(dir, acc, L) ==
  /\ acc = [ok |-> acc.ok, loaded |-> L, tasks |-> acc.tasks]
  /\ DOMAIN acc.tasks = UNION {TasksOf(dir, f) : f \in L \cup {dir.main}}
  /\ acc.ok <=> Fit(dir, L)
  /\ acc.ok => \A f \in L \cup {dir.main} : \A name \in TasksOf(dir, f) :
                 acc.tasks[name] = dir.files[f].tasks[name]

LEMMA MainGathered == \A dir : Gathered(dir, MainAlone(dir), {})
<1> TAKE dir
<1>1. MainAlone(dir).loaded = {} /\ MainAlone(dir).tasks = Main(dir).tasks
  BY DEF MainAlone
<1>2. MainAlone(dir) = [ok |-> MainAlone(dir).ok, loaded |-> {}, tasks |-> MainAlone(dir).tasks]
  BY DEF MainAlone
<1>3. {} \cup {dir.main} = {dir.main}
  OBVIOUS
<1> QED
  BY <1>1, <1>2, <1>3 DEF Gathered, Fit, TasksOf, Main

\* One turn.
LEMMA IncludeGathers ==
  ASSUME NEW dir, NEW acc, NEW L, NEW f, Gathered(dir, acc, L), Main(dir).include # <<>>
  PROVE  Gathered(dir, Include(dir, acc, f), L \cup {f})
<1> DEFINE file == dir.files[f]
           M == L \cup {f}
           good == /\ file.ok /\ file.include = <<>> /\ file.defaults = NoDefaults
                   /\ ValidInputs(file.tasks)
           new == Include(dir, acc, f)
           apart == DOMAIN file.tasks \cap DOMAIN acc.tasks = {}
<1>0. acc.loaded = L
  BY DEF Gathered
<1>1. CASE f \in L
  <2>1. new = acc /\ M = L
    BY <1>0, <1>1 DEF Include
  <2> HIDE DEF new, M
  <2> QED
    BY <2>1 DEF new, M
<1>2. CASE f \notin L
  <2>1. /\ new = [ok |-> new.ok, loaded |-> M, tasks |-> Over(file.tasks, acc.tasks)]
        /\ new.ok <=> acc.ok /\ good /\ apart
    <3>1. acc = [ok |-> acc.ok, loaded |-> L, tasks |-> acc.tasks]
      BY DEF Gathered
    <3>2. /\ new.ok <=> acc.ok /\ good /\ apart
          /\ new.loaded = M /\ new.tasks = Over(file.tasks, acc.tasks)
          /\ DOMAIN new = {"ok", "loaded", "tasks"}
          /\ new = [x \in {"ok", "loaded", "tasks"} |-> new[x]]
      BY <1>0, <1>2, <3>1 DEF Include
    <3> HIDE DEF new, M, good, apart
    <3> QED
      BY <3>2
  <2>2. /\ DOMAIN Over(file.tasks, acc.tasks) = DOMAIN file.tasks \cup DOMAIN acc.tasks
        /\ \A name \in DOMAIN file.tasks : Over(file.tasks, acc.tasks)[name] = file.tasks[name]
        /\ \A name \in DOMAIN acc.tasks \ DOMAIN file.tasks :
             Over(file.tasks, acc.tasks)[name] = acc.tasks[name]
    BY DEF Over
  <2>3. DOMAIN new.tasks = UNION {TasksOf(dir, g) : g \in M \cup {dir.main}}
    <3>1. DOMAIN new.tasks = DOMAIN file.tasks \cup DOMAIN acc.tasks
      BY <2>1, <2>2
    <3>2. DOMAIN file.tasks = TasksOf(dir, f)
      BY DEF TasksOf
    <3>3. DOMAIN acc.tasks = UNION {TasksOf(dir, g) : g \in L \cup {dir.main}}
      BY DEF Gathered
    <3> HIDE DEF new, file
    <3> QED
      BY <3>1, <3>2, <3>3
  <2>4. acc.ok /\ good /\ apart <=> Fit(dir, M)
    <3>1. CASE f = dir.main
      BY <3>1 DEF Fit, Main
    <3>2. CASE f # dir.main
      <4>1. apart <=> \A g \in L \cup {dir.main} : TasksOf(dir, f) \cap TasksOf(dir, g) = {}
        <5>1. DOMAIN acc.tasks = UNION {TasksOf(dir, g) : g \in L \cup {dir.main}}
          BY DEF Gathered
        <5>2. DOMAIN file.tasks = TasksOf(dir, f)
          BY DEF TasksOf
        <5> HIDE DEF file
        <5> QED
          BY <5>1, <5>2
      <4>2. acc.ok <=> Fit(dir, L)
        BY DEF Gathered
      <4>3. f \notin L \cup {dir.main} /\ M \cup {dir.main} = (L \cup {dir.main}) \cup {f}
        BY <1>2, <3>2
      <4>4. Fit(dir, M) <=>
              /\ Fit(dir, L) /\ good
              /\ \A g \in L \cup {dir.main} : TasksOf(dir, f) \cap TasksOf(dir, g) = {}
        <5> DEFINE R(g, h) == TasksOf(dir, g) \cap TasksOf(dir, h) = {}
                   G(g) == LET x == dir.files[g]
                           IN /\ x.ok /\ x.include = <<>> /\ x.defaults = NoDefaults
                              /\ ValidInputs(x.tasks)
        <5>1. \A K : Fit(dir, K) <=> /\ MainAlone(dir).ok
                                     /\ \A g \in K : G(g)
                                     /\ \A g, h \in K \cup {dir.main} : g # h => R(g, h)
          BY DEF Fit
        <5>2. (good <=> G(f)) /\ (\A g, h : R(g, h) <=> R(h, g))
          OBVIOUS
        <5> HIDE DEF R, G, good, file
        <5>3. (\A g \in M : G(g)) <=> (\A g \in L : G(g)) /\ G(f)
          OBVIOUS
        <5>4. (\A g, h \in M \cup {dir.main} : g # h => R(g, h))
                <=> /\ \A g, h \in L \cup {dir.main} : g # h => R(g, h)
                    /\ \A g \in L \cup {dir.main} : R(f, g)
          BY <4>3, <5>2
        <5>5. (\A g \in L \cup {dir.main} : R(f, g)) <=>
                \A g \in L \cup {dir.main} : TasksOf(dir, f) \cap TasksOf(dir, g) = {}
          BY DEF R
        <5> HIDE DEF M
        <5> QED
          BY <5>1, <5>2, <5>3, <5>4, <5>5
      <4> HIDE DEF good, apart, M
      <4> QED
        BY <4>1, <4>2, <4>4
    <3> QED
      BY <3>1, <3>2
  <2>5. ASSUME new.ok, NEW g \in M \cup {dir.main}, NEW name \in TasksOf(dir, g)
        PROVE  new.tasks[name] = dir.files[g].tasks[name]
    <3>1. acc.ok /\ apart /\ new.tasks = Over(file.tasks, acc.tasks)
      BY <2>1, <2>5
    <3>2. CASE g = f
      BY <2>2, <2>5, <3>1, <3>2 DEF TasksOf
    <3>3. CASE g \in L \cup {dir.main}
      <4>1. name \in DOMAIN acc.tasks /\ acc.tasks[name] = dir.files[g].tasks[name]
        BY <2>5, <3>1, <3>3 DEF Gathered
      <4>2. name \notin DOMAIN file.tasks
        BY <3>1, <4>1
      <4> QED
        BY <2>2, <3>1, <4>1, <4>2
    <3> QED
      BY <3>2, <3>3
  <2> HIDE DEF new, M, good, apart
  <2>6. /\ new = [ok |-> new.ok, loaded |-> M, tasks |-> new.tasks]
        /\ new.ok <=> Fit(dir, M)
    BY <2>1, <2>4
  <2>7. Gathered(dir, new, M)
    BY <2>3, <2>5, <2>6 DEF Gathered
  <2> QED
    BY <2>7 DEF new, M
<1> QED
  BY <1>1, <1>2

\* The turns of the inner loop, up to the n-th.
IsTurns(T, dir, n) ==
  T = [m \in 0 .. n |-> IF m = 0 THEN MainAlone(dir)
                                 ELSE Include(dir, T[m - 1], Matches(dir)[m])]

LEMMA TurnsExist ==
  ASSUME NEW dir, NEW n \in Nat
  PROVE  \E T : IsTurns(T, dir, n)
<1> DEFINE P(m) == \E T : IsTurns(T, dir, m)
           found == Matches(dir)
           U == {m \in 0 .. n : P(m)}
<1>1. P(0)
  <2>1. IsTurns([m \in 0 .. 0 |-> MainAlone(dir)], dir, 0)
    BY DEF IsTurns
  <2> QED
    BY <2>1
<1>2. ASSUME NEW k \in Nat, P(k) PROVE P(k + 1)
  <2>1. PICK T : T = [m \in 0 .. k |-> IF m = 0 THEN MainAlone(dir)
                                                ELSE Include(dir, T[m - 1], found[m])]
    BY <1>2 DEF IsTurns
  <2> DEFINE G == [m \in 0 .. k + 1 |-> IF m <= k THEN T[m] ELSE Include(dir, T[k], found[m])]
  <2>2. ASSUME NEW m \in 0 .. k + 1
        PROVE  G[m] = IF m = 0 THEN MainAlone(dir) ELSE Include(dir, G[m - 1], found[m])
    <3>1. m = 0 \/ (m - 1 \in 0 .. k + 1 /\ m - 1 <= k)
      OBVIOUS
    <3>2. m <= k => m \in 0 .. k
      OBVIOUS
    <3>3. ~ (m <= k) => m - 1 = k /\ m # 0
      OBVIOUS
    <3>4. m <= k => T[m] = IF m = 0 THEN MainAlone(dir) ELSE Include(dir, T[m - 1], found[m])
      <4> HIDE DEF found
      <4> QED
        BY <2>1, <3>2
    <3>5. m = 0 \/ G[m - 1] = T[m - 1]
      BY <3>1
    <3>6. G[m] = IF m <= k THEN T[m] ELSE Include(dir, T[k], found[m])
      OBVIOUS
    <3> HIDE DEF G, found
    <3> QED
      BY <3>3, <3>4, <3>5, <3>6
  <2>3. IsTurns(G, dir, k + 1)
    BY <2>2 DEF IsTurns
  <2> QED
    BY <2>3
<1>3. U = 0 .. n
  <2>1. U \in SUBSET (0 .. n) /\ 0 \in U
    BY <1>1
  <2>2. ASSUME NEW m \in U, m < n PROVE m + 1 \in U
    <3>1. m \in Nat /\ P(m) /\ m + 1 \in 0 .. n
      BY <2>2
    <3> HIDE DEF P
    <3> QED
      BY <1>2, <3>1
  <2> HIDE DEF U
  <2> QED
    BY <2>1, <2>2, UpTo
<1>4. n \in U
  <2> HIDE DEF U
  <2> QED
    BY <1>3
<1> QED
  BY <1>4

LEMMA LoadsByTurns ==
  ASSUME NEW dir, Len(Matches(dir)) \in Nat
  PROVE  LET n == Len(Matches(dir))
         IN \E T : /\ IsTurns(T, dir, n)
                   /\ Load(dir) = [ok |-> T[n].ok,
                                   conf |-> [defaults |-> Main(dir).defaults,
                                             tasks |-> T[n].tasks]]
<1> DEFINE n == Len(Matches(dir))
           G == CHOOSE T : IsTurns(T, dir, n)
<1>1. IsTurns(G, dir, n)
  BY TurnsExist, Zenon
<1>2. Load(dir) = [ok |-> G[n].ok,
                   conf |-> [defaults |-> Main(dir).defaults, tasks |-> G[n].tasks]]
  BY Zenon DEF Load, IsTurns
<1> QED
  BY <1>1, <1>2

LEMMA TurnsGather ==
  ASSUME NEW dir, NEW n \in Nat, NEW T, IsTurns(T, dir, n),
         n # 0 => Main(dir).include # <<>>
  PROVE  Gathered(dir, T[n], {Matches(dir)[j] : j \in 1 .. n})
<1> DEFINE found == Matches(dir)
           L(m) == {found[j] : j \in 1 .. m}
           U == {m \in 0 .. n : Gathered(dir, T[m], L(m))}
<1> HIDE DEF found
<1>1. \A m \in 0 .. n : T[m] = IF m = 0 THEN MainAlone(dir) ELSE Include(dir, T[m - 1], found[m])
  BY DEF IsTurns, found
<1>2. 0 \in U
  <2>1. L(0) = {} /\ T[0] = MainAlone(dir) /\ 0 \in 0 .. n
    BY <1>1
  <2> HIDE DEF L
  <2> QED
    BY <2>1, MainGathered
<1>3. ASSUME NEW m \in U, m < n PROVE m + 1 \in U
  <2>1. m \in Nat /\ m + 1 \in 0 .. n /\ m + 1 # 0 /\ (m + 1) - 1 = m /\ n # 0
    BY <1>3
  <2>2. T[m + 1] = Include(dir, T[m], found[m + 1])
    BY <1>1, <2>1
  <2>3. L(m + 1) = L(m) \cup {found[m + 1]}
    <3>1. 1 .. m + 1 = (1 .. m) \cup {m + 1}
      BY <2>1
    <3> QED
      BY <3>1
  <2>4. Gathered(dir, T[m], L(m))
    OBVIOUS
  <2> HIDE DEF L
  <2>5. Gathered(dir, T[m + 1], L(m + 1))
    BY <2>1, <2>2, <2>3, <2>4, IncludeGathers
  <2> QED
    BY <2>1, <2>5
<1>4. U = 0 .. n
  <2>1. U \in SUBSET (0 .. n)
    OBVIOUS
  <2> HIDE DEF U
  <2> QED
    BY <1>2, <1>3, <2>1, UpTo
<1>5. n \in U
  <2> HIDE DEF U
  <2> QED
    BY <1>4
<1> QED
  BY <1>5 DEF found

\* The files that are included.
Included(dir) == UNION {ToSet(Main(dir).include[p].matches) : p \in DOMAIN Main(dir).include}

LEMMA MatchesIncluded ==
  ASSUME NEW dir, NEW Files, Main(dir).include \in Seq([local : BOOLEAN, matches : Seq(Files)])
  PROVE  /\ Len(Matches(dir)) \in Nat
         /\ Len(Matches(dir)) # 0 => Main(dir).include # <<>>
         /\ {Matches(dir)[j] : j \in 1 .. Len(Matches(dir))} = Included(dir)
<1> DEFINE include == Main(dir).include
           ss == [p \in DOMAIN include |-> include[p].matches]
<1>1. ss \in Seq(Seq(Files)) /\ DOMAIN ss = DOMAIN include /\ Matches(dir) = FlattenSeq(ss)
  <2>1. /\ Len(include) \in Nat /\ DOMAIN include = 1 .. Len(include)
        /\ \A p \in 1 .. Len(include) : include[p] \in [local : BOOLEAN, matches : Seq(Files)]
    BY LenProperties
  <2>2. Matches(dir) = FlattenSeq(ss)
    BY DEF Matches
  <2> HIDE DEF include
  <2> QED
    BY <2>1, <2>2
<1> HIDE DEF ss
<1>2. /\ Matches(dir) \in Seq(Files)
      /\ ToSet(Matches(dir)) = UNION {ToSet(ss[p]) : p \in DOMAIN ss}
  BY <1>1, FlattenedElements
<1>3. UNION {ToSet(ss[p]) : p \in DOMAIN ss} = Included(dir)
  BY <1>1 DEF ss, Included
<1>4. Len(Matches(dir)) \in Nat /\ DOMAIN Matches(dir) = 1 .. Len(Matches(dir))
  BY <1>2, LenProperties
<1>5. ASSUME include = <<>> PROVE Len(Matches(dir)) = 0
  <2>1. DOMAIN ss = {}
    BY <1>1, <1>5
  <2>2. ToSet(Matches(dir)) = {}
    BY <1>2, <2>1
  <2>3. DOMAIN Matches(dir) = {}
    BY <2>2 DEF ToSet
  <2> QED
    BY <1>4, <2>3
<1> QED
  BY <1>2, <1>3, <1>4, <1>5 DEF ToSet

\* Load (tasks.go) takes every task of the main file and of the files that its
\* patterns find as its one file has it, in whatever order and how often they
\* are found; and it does so if and only if nothing is at fault with a pattern,
\* a file or two of the files.
THEOREM LoadsEveryFile ==
  ASSUME NEW dir, NEW Files, Main(dir).include \in Seq([local : BOOLEAN, matches : Seq(Files)])
  PROVE  LET parts == Included(dir) \cup {dir.main}
             result == Load(dir)
         IN /\ result = [ok |-> result.ok,
                         conf |-> [defaults |-> Main(dir).defaults,
                                   tasks |-> result.conf.tasks]]
            /\ result.ok <=> Fit(dir, Included(dir))
            /\ DOMAIN result.conf.tasks = UNION {TasksOf(dir, f) : f \in parts}
            /\ result.ok => \A f \in parts : \A name \in TasksOf(dir, f) :
                              result.conf.tasks[name] = dir.files[f].tasks[name]
<1> DEFINE n == Len(Matches(dir))
<1>1. /\ n \in Nat /\ (n # 0 => Main(dir).include # <<>>)
      /\ {Matches(dir)[j] : j \in 1 .. n} = Included(dir)
  BY MatchesIncluded
<1>2. PICK T : /\ IsTurns(T, dir, n)
               /\ Load(dir) = [ok |-> T[n].ok,
                               conf |-> [defaults |-> Main(dir).defaults,
                                         tasks |-> T[n].tasks]]
  BY <1>1, LoadsByTurns
<1>3. Gathered(dir, T[n], Included(dir))
  BY <1>1, <1>2, TurnsGather
<1>4. /\ Load(dir).ok = T[n].ok /\ Load(dir).conf.tasks = T[n].tasks
      /\ Load(dir) = [ok |-> Load(dir).ok,
                      conf |-> [defaults |-> Main(dir).defaults,
                                tasks |-> Load(dir).conf.tasks]]
  <2> DEFINE v == [ok |-> T[n].ok,
                   conf |-> [defaults |-> Main(dir).defaults, tasks |-> T[n].tasks]]
  <2>1. v.ok = T[n].ok /\ v.conf.tasks = T[n].tasks
    OBVIOUS
  <2> QED
    BY <1>2, <2>1
<1> HIDE DEF n
<1> QED
  BY <1>3, <1>4 DEF Gathered

===============================================================================
