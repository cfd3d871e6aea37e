-------------------------------- MODULE AirProofs ------------------------------
(***************************************************************************)
(* Proofs about Air, for any calls, any voice and any number of            *)
(* superframes.  With fades of up to eight bits the Full LC of a header or *)
(* terminator is read right or warned about, the embedded LC is read       *)
(* right, and the display never shows a character that is not the alias's; *)
(* with fades of up to 33 no slot type or EMB is mistaken for another; and *)
(* one of up to five leaves the voice what its Golay words correct.        *)
(*                                                                         *)
(* A word is a set of positions, so a code's linearity is about symmetric  *)
(* differences of sets: the syndrome of a damaged word is the syndrome of  *)
(* its damage.  The first sections prove what the model's recursive        *)
(* functions compute, then the codes one by one, then how interleaving     *)
(* spreads a run of adjacent bits over them; the specification's           *)
(* invariants come last.                                                   *)
(***************************************************************************)
EXTENDS Air, FiniteSetTheorems, SequenceTheorems, WellFoundedInduction, TLAPS

Below == {p \in Nat \X Nat : p[1] < p[2]}

LEMMA Least ==
  ASSUME NEW T, T \subseteq Nat, T # {}
  PROVE  \E n \in T : \A m \in T : n <= m
<1>1. IsWellFoundedOn(Below, Nat)
  BY NatLessThanWellFounded DEF OpToRel, Below
<1>2. PICK n \in T : \A m \in T : ~(<< m, n >> \in Below)
  BY <1>1, WFMin, Zenon
<1>3. ASSUME NEW m \in T PROVE n <= m
  <2>1. m \in Nat /\ n \in Nat /\ << m, n >> \notin Below BY <1>2
  <2> QED BY <2>1 DEF Below
<1> QED BY <1>3

LEMMA Induct ==
  ASSUME NEW T, T \subseteq Nat, 0 \in T, \A n \in T : n + 1 \in T
  PROVE  T = Nat
<1>1. SUFFICES ASSUME Nat \ T # {} PROVE FALSE OBVIOUS
<1>2. PICK n \in Nat \ T : \A m \in Nat \ T : n <= m
  BY <1>1, Least
<1>3. n # 0 /\ n - 1 \in Nat BY <1>2
<1>4. n - 1 \in T BY <1>2, <1>3
<1> QED BY <1>2, <1>3, <1>4

\* Up to a bound.
LEMMA InductTo ==
  ASSUME NEW w \in Nat, NEW T, T \subseteq 0 .. w, 0 \in T,
         \A n \in T : n < w => n + 1 \in T
  PROVE  T = 0 .. w
<1> DEFINE U == T \cup {n \in Nat : n > w}
<1>0. \A n \in T : n \in Nat /\ n <= w OBVIOUS
<1>1. U \subseteq Nat /\ 0 \in U BY <1>0
<1>2. ASSUME NEW n \in U PROVE n + 1 \in U
  <2>1. CASE n \in T /\ n < w BY <2>1
  <2>2. CASE n \in T /\ n = w BY <2>2
  <2>3. CASE n \in Nat /\ n > w BY <2>3
  <2> QED BY <2>1, <2>2, <2>3
<1>3. U = Nat
  <2> HIDE DEF U
  <2> QED BY <1>1, <1>2, Induct
<1>4. ASSUME NEW n \in 0 .. w PROVE n \in T BY <1>3
<1> QED BY <1>4

\* f is the function given by its first value and its steps.
Recurs(f, w, S, a, G) ==
  f \in [0 .. w -> S] /\ f[0] = a /\ \A n \in 1 .. w : f[n] = G[n][f[n - 1]]

\* There is one.
LEMMA Recursion ==
  ASSUME NEW w \in Nat, NEW S, NEW a \in S, NEW G \in [1 .. w -> [S -> S]]
  PROVE  \E f : Recurs(f, w, S, a, G)
<1> DEFINE Upto(m) == \E f \in [0 .. m -> S] :
             f[0] = a /\ \A n \in 1 .. m : f[n] = G[n][f[n - 1]]
           T == {m \in 0 .. w : Upto(m)}
<1>1. 0 \in T
  <2> DEFINE f == [i \in 0 .. 0 |-> a]
  <2>1. f \in [0 .. 0 -> S] OBVIOUS
  <2>2. f[0] = a OBVIOUS
  <2>3. \A n \in 1 .. 0 : f[n] = G[n][f[n - 1]] OBVIOUS
  <2>4. Upto(0)
    <3> HIDE DEF f
    <3> QED BY <2>1, <2>2, <2>3
  <2> QED BY <2>4
<1>2. ASSUME NEW m \in T, m < w PROVE m + 1 \in T
  <2>1. PICK f \in [0 .. m -> S] : f[0] = a /\ \A n \in 1 .. m : f[n] = G[n][f[n - 1]]
    OBVIOUS
  <2> DEFINE g == [i \in 0 .. m + 1 |-> IF i = m + 1 THEN G[m + 1][f[m]] ELSE f[i]]
  <2>2. m \in Nat /\ m + 1 \in 1 .. w /\ m \in 0 .. m BY <1>2
  <2>3. f[m] \in S /\ G[m + 1][f[m]] \in S BY <2>1, <2>2
  <2>4. g \in [0 .. m + 1 -> S]
    <3>1. ASSUME NEW i \in 0 .. m + 1 PROVE g[i] \in S BY <2>2, <2>3
    <3> QED BY <3>1
  <2>5. g[0] = a BY <2>1, <2>2
  <2>6. ASSUME NEW n \in 1 .. m + 1 PROVE g[n] = G[n][g[n - 1]]
    <3>1. CASE n = m + 1 BY <3>1, <2>2
    <3>2. CASE n # m + 1
      <4>1. n \in 1 .. m /\ n - 1 \in 0 .. m + 1 /\ n - 1 # m + 1 /\ n \in 0 .. m + 1 BY <3>2, <2>2
      <4>2. g[n] = f[n] /\ g[n - 1] = f[n - 1] BY <4>1, <3>2
      <4> QED BY <4>1, <4>2, <2>1
    <3> QED BY <3>1, <3>2
  <2>7. Upto(m + 1)
    <3> HIDE DEF g
    <3> QED BY <2>4, <2>5, <2>6
  <2>8. m + 1 \in 0 .. w BY <2>2
  <2> HIDE DEF Upto
  <2> QED BY <2>7, <2>8
<1>3. T = 0 .. w
  <2>1. T \subseteq 0 .. w OBVIOUS
  <2> HIDE DEF T
  <2> QED BY <1>1, <1>2, <2>1, InductTo
<1>4. w \in T
  <2> HIDE DEF T
  <2> QED BY <1>3
<1> QED BY <1>4 DEF Recurs

\* Two functions with the same first value and the same step are equal.
LEMMA SameRecursion ==
  ASSUME NEW w \in Nat, NEW f, NEW g, f[0] = g[0],
         \A n \in 1 .. w : f[n - 1] = g[n - 1] => f[n] = g[n]
  PROVE  \A n \in 0 .. w : f[n] = g[n]
<1> DEFINE T == {n \in 0 .. w : f[n] = g[n]}
<1>1. T \subseteq 0 .. w /\ 0 \in T OBVIOUS
<1>2. ASSUME NEW n \in T, n < w PROVE n + 1 \in T
  <2>1. n + 1 \in 1 .. w /\ (n + 1) - 1 = n BY <1>2
  <2> QED BY <2>1
<1>3. T = 0 .. w
  <2> HIDE DEF T
  <2> QED BY <1>1, <1>2, InductTo
<1> QED BY <1>3

--------------------------------------------------------------------------------
BitAt(W, p) == IF p \in W THEN 1 ELSE 0

\* v is the number under construction, bit by bit.
Reads(v, W, at, width) ==
  /\ v \in [0 .. width -> Nat]
  /\ v[0] = 0
  /\ \A n \in 1 .. width : v[n] = 2 * v[n - 1] + BitAt(W, at + n - 1)

LEMMA NumberIs ==
  ASSUME NEW W, NEW at \in Nat, NEW width \in Nat, NEW v, Reads(v, W, at, width)
  PROVE  Number(W, at, width) = v[width]
<1> DEFINE Step(f) == [n \in 0 .. width |-> IF n = 0 THEN 0
                ELSE 2 * f[n - 1] + (IF at + n - 1 \in W THEN 1 ELSE 0)]
           g == CHOOSE f : f = Step(f)
<1>1. Number(W, at, width) = g[width] BY DEF Number
<1>2. v = Step(v)
  <2>1. v = [n \in 0 .. width |-> v[n]] BY DEF Reads
  <2>2. ASSUME NEW n \in 0 .. width
        PROVE  v[n] = IF n = 0 THEN 0
                ELSE 2 * v[n - 1] + (IF at + n - 1 \in W THEN 1 ELSE 0)
    <3>1. CASE n = 0 BY <3>1 DEF Reads
    <3>2. CASE n # 0
      <4>1. n \in 1 .. width BY <3>2
      <4> QED BY <4>1, <3>2 DEF Reads, BitAt
    <3> QED BY <3>1, <3>2
  <2> QED BY <2>1, <2>2, Zenon
<1>3. g = Step(g)
  <2> HIDE DEF Step
  <2> QED BY <1>2
<1>4. ASSUME NEW n \in 0 .. width
      PROVE  g[n] = IF n = 0 THEN 0
                ELSE 2 * g[n - 1] + (IF at + n - 1 \in W THEN 1 ELSE 0)
  <2>1. g[n] = Step(g)[n]
    <3> HIDE DEF Step, g
    <3> QED BY <1>3, Zenon
  <2> HIDE DEF g
  <2> QED BY <2>1
<1> HIDE DEF g, Step
<1>5. g[0] = v[0]
  <2>1. 0 \in 0 .. width OBVIOUS
  <2> QED BY <2>1, <1>4 DEF Reads
<1>6. ASSUME NEW n \in 1 .. width, g[n - 1] = v[n - 1] PROVE g[n] = v[n]
  <2>1. n \in 0 .. width /\ n # 0 OBVIOUS
  <2> QED BY <2>1, <1>4, <1>6 DEF Reads, BitAt
<1>7. \A n \in 0 .. width : g[n] = v[n]
  BY <1>5, <1>6, SameRecursion
<1> QED BY <1>1, <1>7

LEMMA NumberReads ==
  ASSUME NEW W, NEW at \in Nat, NEW width \in Nat
  PROVE  \E v : Reads(v, W, at, width) /\ Number(W, at, width) = v[width]
<1> DEFINE Twice(n) == [x \in Nat |-> 2 * x + BitAt(W, at + n - 1)]
           G == [n \in 1 .. width |-> Twice(n)]
<1>1. ASSUME NEW n \in 1 .. width PROVE Twice(n) \in [Nat -> Nat] BY DEF BitAt
<1>2. G \in [1 .. width -> [Nat -> Nat]]
  <2> HIDE DEF Twice
  <2> QED BY <1>1
<1>3. PICK v : Recurs(v, width, Nat, 0, G)
  <2> HIDE DEF G
  <2>1. \A a \in Nat : \E f : Recurs(f, width, Nat, a, G) BY <1>2, Recursion
  <2> QED BY <2>1
<1>4. ASSUME NEW n \in 1 .. width
      PROVE  v[n] = 2 * v[n - 1] + BitAt(W, at + n - 1)
  <2>1. v[n - 1] \in Nat BY <1>3 DEF Recurs
  <2>2. v[n] = Twice(n)[v[n - 1]] BY <1>3 DEF Recurs
  <2> QED BY <2>1, <2>2
<1>5. Reads(v, W, at, width) BY <1>3, <1>4 DEF Reads, Recurs
<1> QED BY <1>5, NumberIs

\* A number is a natural.
LEMMA NumberNat ==
  ASSUME NEW W, NEW at \in Nat, NEW width \in Nat
  PROVE  Number(W, at, width) \in Nat
<1>1. PICK v : Reads(v, W, at, width) /\ Number(W, at, width) = v[width] BY NumberReads
<1> QED BY <1>1 DEF Reads

\* It depends on its own field only.
LEMMA NumberLocal ==
  ASSUME NEW W, NEW V, NEW at \in Nat, NEW width \in Nat,
         \A p \in at .. at + width - 1 : p \in W <=> p \in V
  PROVE  Number(W, at, width) = Number(V, at, width)
<1>1. PICK v : Reads(v, W, at, width) /\ Number(W, at, width) = v[width] BY NumberReads
<1>2. Reads(v, V, at, width)
  <2>1. ASSUME NEW n \in 1 .. width PROVE v[n] = 2 * v[n - 1] + BitAt(V, at + n - 1)
    <3>1. at + n - 1 \in at .. at + width - 1 OBVIOUS
    <3>2. BitAt(W, at + n - 1) = BitAt(V, at + n - 1) BY <3>1 DEF BitAt
    <3> QED BY <1>1, <3>2 DEF Reads
  <2> QED BY <1>1, <2>1 DEF Reads
<1>3. Number(V, at, width) = v[width] BY <1>2, NumberIs
<1> QED BY <1>1, <1>3

\* Powers of two up to the widest field.
LEMMA Powers ==
  /\ 2 ^ 0 = 1
  /\ 2 ^ 1 = 2
  /\ 2 ^ 2 = 4
  /\ 2 ^ 3 = 8
  /\ 2 ^ 4 = 16
  /\ 2 ^ 5 = 32
  /\ 2 ^ 6 = 64
  /\ 2 ^ 7 = 128
  /\ 2 ^ 8 = 256
  /\ 2 ^ 9 = 512
  /\ 2 ^ 10 = 1024
  /\ 2 ^ 11 = 2048
  /\ 2 ^ 12 = 4096
  /\ 2 ^ 13 = 8192
  /\ 2 ^ 14 = 16384
  /\ 2 ^ 15 = 32768
  /\ 2 ^ 16 = 65536
  /\ 2 ^ 17 = 131072
  /\ 2 ^ 18 = 262144
  /\ 2 ^ 19 = 524288
  /\ 2 ^ 20 = 1048576
  /\ 2 ^ 21 = 2097152
  /\ 2 ^ 22 = 4194304
  /\ 2 ^ 23 = 8388608
  /\ 2 ^ 24 = 16777216
OBVIOUS

LEMMA PowersPositive == \A k \in 0 .. 24 : 2 ^ k \in Nat /\ 2 ^ k > 0
<1> SUFFICES ASSUME NEW k \in 0 .. 24 PROVE 2 ^ k \in Nat /\ 2 ^ k > 0 OBVIOUS
<1>1. CASE k = 0 BY <1>1, Powers
<1>2. CASE k = 1 BY <1>2, Powers
<1>3. CASE k = 2 BY <1>3, Powers
<1>4. CASE k = 3 BY <1>4, Powers
<1>5. CASE k = 4 BY <1>5, Powers
<1>6. CASE k = 5 BY <1>6, Powers
<1>7. CASE k = 6 BY <1>7, Powers
<1>8. CASE k = 7 BY <1>8, Powers
<1>9. CASE k = 8 BY <1>9, Powers
<1>10. CASE k = 9 BY <1>10, Powers
<1>11. CASE k = 10 BY <1>11, Powers
<1>12. CASE k = 11 BY <1>12, Powers
<1>13. CASE k = 12 BY <1>13, Powers
<1>14. CASE k = 13 BY <1>14, Powers
<1>15. CASE k = 14 BY <1>15, Powers
<1>16. CASE k = 15 BY <1>16, Powers
<1>17. CASE k = 16 BY <1>17, Powers
<1>18. CASE k = 17 BY <1>18, Powers
<1>19. CASE k = 18 BY <1>19, Powers
<1>20. CASE k = 19 BY <1>20, Powers
<1>21. CASE k = 20 BY <1>21, Powers
<1>22. CASE k = 21 BY <1>22, Powers
<1>23. CASE k = 22 BY <1>23, Powers
<1>24. CASE k = 23 BY <1>24, Powers
<1>25. CASE k = 24 BY <1>25, Powers
<1> QED BY <1>1, <1>2, <1>3, <1>4, <1>5, <1>6, <1>7, <1>8, <1>9, <1>10, <1>11, <1>12, <1>13, <1>14, <1>15, <1>16, <1>17, <1>18, <1>19, <1>20, <1>21, <1>22, <1>23, <1>24, <1>25

\* A bit of n is what halving its higher bits leaves.
LEMMA Halving ==
  ASSUME NEW n \in Nat, NEW k \in 0 .. 23
  PROVE  n \div 2 ^ k = 2 * (n \div 2 ^ (k + 1)) + ((n \div 2 ^ k) % 2)
<1>1. CASE k = 0
  <2>1. 2 ^ k = 1 /\ 2 ^ (k + 1) = 2 BY <1>1, Powers
  <2>2. n \div 1 = 2 * (n \div 2) + ((n \div 1) % 2) BY SMT
  <2> QED BY <2>1, <2>2
<1>2. CASE k = 1
  <2>1. 2 ^ k = 2 /\ 2 ^ (k + 1) = 4 BY <1>2, Powers
  <2>2. n \div 2 = 2 * (n \div 4) + ((n \div 2) % 2) BY SMT
  <2> QED BY <2>1, <2>2
<1>3. CASE k = 2
  <2>1. 2 ^ k = 4 /\ 2 ^ (k + 1) = 8 BY <1>3, Powers
  <2>2. n \div 4 = 2 * (n \div 8) + ((n \div 4) % 2) BY SMT
  <2> QED BY <2>1, <2>2
<1>4. CASE k = 3
  <2>1. 2 ^ k = 8 /\ 2 ^ (k + 1) = 16 BY <1>4, Powers
  <2>2. n \div 8 = 2 * (n \div 16) + ((n \div 8) % 2) BY SMT
  <2> QED BY <2>1, <2>2
<1>5. CASE k = 4
  <2>1. 2 ^ k = 16 /\ 2 ^ (k + 1) = 32 BY <1>5, Powers
  <2>2. n \div 16 = 2 * (n \div 32) + ((n \div 16) % 2) BY SMT
  <2> QED BY <2>1, <2>2
<1>6. CASE k = 5
  <2>1. 2 ^ k = 32 /\ 2 ^ (k + 1) = 64 BY <1>6, Powers
  <2>2. n \div 32 = 2 * (n \div 64) + ((n \div 32) % 2) BY SMT
  <2> QED BY <2>1, <2>2
<1>7. CASE k = 6
  <2>1. 2 ^ k = 64 /\ 2 ^ (k + 1) = 128 BY <1>7, Powers
  <2>2. n \div 64 = 2 * (n \div 128) + ((n \div 64) % 2) BY SMT
  <2> QED BY <2>1, <2>2
<1>8. CASE k = 7
  <2>1. 2 ^ k = 128 /\ 2 ^ (k + 1) = 256 BY <1>8, Powers
  <2>2. n \div 128 = 2 * (n \div 256) + ((n \div 128) % 2) BY SMT
  <2> QED BY <2>1, <2>2
<1>9. CASE k = 8
  <2>1. 2 ^ k = 256 /\ 2 ^ (k + 1) = 512 BY <1>9, Powers
  <2>2. n \div 256 = 2 * (n \div 512) + ((n \div 256) % 2) BY SMT
  <2> QED BY <2>1, <2>2
<1>10. CASE k = 9
  <2>1. 2 ^ k = 512 /\ 2 ^ (k + 1) = 1024 BY <1>10, Powers
  <2>2. n \div 512 = 2 * (n \div 1024) + ((n \div 512) % 2) BY SMT
  <2> QED BY <2>1, <2>2
<1>11. CASE k = 10
  <2>1. 2 ^ k = 1024 /\ 2 ^ (k + 1) = 2048 BY <1>11, Powers
  <2>2. n \div 1024 = 2 * (n \div 2048) + ((n \div 1024) % 2) BY SMT
  <2> QED BY <2>1, <2>2
<1>12. CASE k = 11
  <2>1. 2 ^ k = 2048 /\ 2 ^ (k + 1) = 4096 BY <1>12, Powers
  <2>2. n \div 2048 = 2 * (n \div 4096) + ((n \div 2048) % 2) BY SMT
  <2> QED BY <2>1, <2>2
<1>13. CASE k = 12
  <2>1. 2 ^ k = 4096 /\ 2 ^ (k + 1) = 8192 BY <1>13, Powers
  <2>2. n \div 4096 = 2 * (n \div 8192) + ((n \div 4096) % 2) BY SMT
  <2> QED BY <2>1, <2>2
<1>14. CASE k = 13
  <2>1. 2 ^ k = 8192 /\ 2 ^ (k + 1) = 16384 BY <1>14, Powers
  <2>2. n \div 8192 = 2 * (n \div 16384) + ((n \div 8192) % 2) BY SMT
  <2> QED BY <2>1, <2>2
<1>15. CASE k = 14
  <2>1. 2 ^ k = 16384 /\ 2 ^ (k + 1) = 32768 BY <1>15, Powers
  <2>2. n \div 16384 = 2 * (n \div 32768) + ((n \div 16384) % 2) BY SMT
  <2> QED BY <2>1, <2>2
<1>16. CASE k = 15
  <2>1. 2 ^ k = 32768 /\ 2 ^ (k + 1) = 65536 BY <1>16, Powers
  <2>2. n \div 32768 = 2 * (n \div 65536) + ((n \div 32768) % 2) BY SMT
  <2> QED BY <2>1, <2>2
<1>17. CASE k = 16
  <2>1. 2 ^ k = 65536 /\ 2 ^ (k + 1) = 131072 BY <1>17, Powers
  <2>2. n \div 65536 = 2 * (n \div 131072) + ((n \div 65536) % 2) BY SMT
  <2> QED BY <2>1, <2>2
<1>18. CASE k = 17
  <2>1. 2 ^ k = 131072 /\ 2 ^ (k + 1) = 262144 BY <1>18, Powers
  <2>2. n \div 131072 = 2 * (n \div 262144) + ((n \div 131072) % 2) BY SMT
  <2> QED BY <2>1, <2>2
<1>19. CASE k = 18
  <2>1. 2 ^ k = 262144 /\ 2 ^ (k + 1) = 524288 BY <1>19, Powers
  <2>2. n \div 262144 = 2 * (n \div 524288) + ((n \div 262144) % 2) BY SMT
  <2> QED BY <2>1, <2>2
<1>20. CASE k = 19
  <2>1. 2 ^ k = 524288 /\ 2 ^ (k + 1) = 1048576 BY <1>20, Powers
  <2>2. n \div 524288 = 2 * (n \div 1048576) + ((n \div 524288) % 2) BY SMT
  <2> QED BY <2>1, <2>2
<1>21. CASE k = 20
  <2>1. 2 ^ k = 1048576 /\ 2 ^ (k + 1) = 2097152 BY <1>21, Powers
  <2>2. n \div 1048576 = 2 * (n \div 2097152) + ((n \div 1048576) % 2) BY SMT
  <2> QED BY <2>1, <2>2
<1>22. CASE k = 21
  <2>1. 2 ^ k = 2097152 /\ 2 ^ (k + 1) = 4194304 BY <1>22, Powers
  <2>2. n \div 2097152 = 2 * (n \div 4194304) + ((n \div 2097152) % 2) BY SMT
  <2> QED BY <2>1, <2>2
<1>23. CASE k = 22
  <2>1. 2 ^ k = 4194304 /\ 2 ^ (k + 1) = 8388608 BY <1>23, Powers
  <2>2. n \div 4194304 = 2 * (n \div 8388608) + ((n \div 4194304) % 2) BY SMT
  <2> QED BY <2>1, <2>2
<1>24. CASE k = 23
  <2>1. 2 ^ k = 8388608 /\ 2 ^ (k + 1) = 16777216 BY <1>24, Powers
  <2>2. n \div 8388608 = 2 * (n \div 16777216) + ((n \div 8388608) % 2) BY SMT
  <2> QED BY <2>1, <2>2
<1> QED BY <1>1, <1>2, <1>3, <1>4, <1>5, <1>6, <1>7, <1>8, <1>9, <1>10, <1>11, <1>12, <1>13, <1>14, <1>15, <1>16, <1>17, <1>18, <1>19, <1>20, <1>21, <1>22, <1>23, <1>24

\* Below its power of two, a number has no more bits.
LEMMA NoMoreBits ==
  ASSUME NEW k \in 1 .. 24, NEW n \in Nat, n < 2 ^ k
  PROVE  n \div 2 ^ k = 0
<1>1. CASE k = 1
  <2>1. 2 ^ k = 2 BY <1>1, Powers
  <2>2. n < 2 BY <2>1
  <2>3. n \div 2 = 0 BY <2>2, SMT
  <2> QED BY <2>1, <2>3
<1>2. CASE k = 2
  <2>1. 2 ^ k = 4 BY <1>2, Powers
  <2>2. n < 4 BY <2>1
  <2>3. n \div 4 = 0 BY <2>2, SMT
  <2> QED BY <2>1, <2>3
<1>3. CASE k = 3
  <2>1. 2 ^ k = 8 BY <1>3, Powers
  <2>2. n < 8 BY <2>1
  <2>3. n \div 8 = 0 BY <2>2, SMT
  <2> QED BY <2>1, <2>3
<1>4. CASE k = 4
  <2>1. 2 ^ k = 16 BY <1>4, Powers
  <2>2. n < 16 BY <2>1
  <2>3. n \div 16 = 0 BY <2>2, SMT
  <2> QED BY <2>1, <2>3
<1>5. CASE k = 5
  <2>1. 2 ^ k = 32 BY <1>5, Powers
  <2>2. n < 32 BY <2>1
  <2>3. n \div 32 = 0 BY <2>2, SMT
  <2> QED BY <2>1, <2>3
<1>6. CASE k = 6
  <2>1. 2 ^ k = 64 BY <1>6, Powers
  <2>2. n < 64 BY <2>1
  <2>3. n \div 64 = 0 BY <2>2, SMT
  <2> QED BY <2>1, <2>3
<1>7. CASE k = 7
  <2>1. 2 ^ k = 128 BY <1>7, Powers
  <2>2. n < 128 BY <2>1
  <2>3. n \div 128 = 0 BY <2>2, SMT
  <2> QED BY <2>1, <2>3
<1>8. CASE k = 8
  <2>1. 2 ^ k = 256 BY <1>8, Powers
  <2>2. n < 256 BY <2>1
  <2>3. n \div 256 = 0 BY <2>2, SMT
  <2> QED BY <2>1, <2>3
<1>9. CASE k = 9
  <2>1. 2 ^ k = 512 BY <1>9, Powers
  <2>2. n < 512 BY <2>1
  <2>3. n \div 512 = 0 BY <2>2, SMT
  <2> QED BY <2>1, <2>3
<1>10. CASE k = 10
  <2>1. 2 ^ k = 1024 BY <1>10, Powers
  <2>2. n < 1024 BY <2>1
  <2>3. n \div 1024 = 0 BY <2>2, SMT
  <2> QED BY <2>1, <2>3
<1>11. CASE k = 11
  <2>1. 2 ^ k = 2048 BY <1>11, Powers
  <2>2. n < 2048 BY <2>1
  <2>3. n \div 2048 = 0 BY <2>2, SMT
  <2> QED BY <2>1, <2>3
<1>12. CASE k = 12
  <2>1. 2 ^ k = 4096 BY <1>12, Powers
  <2>2. n < 4096 BY <2>1
  <2>3. n \div 4096 = 0 BY <2>2, SMT
  <2> QED BY <2>1, <2>3
<1>13. CASE k = 13
  <2>1. 2 ^ k = 8192 BY <1>13, Powers
  <2>2. n < 8192 BY <2>1
  <2>3. n \div 8192 = 0 BY <2>2, SMT
  <2> QED BY <2>1, <2>3
<1>14. CASE k = 14
  <2>1. 2 ^ k = 16384 BY <1>14, Powers
  <2>2. n < 16384 BY <2>1
  <2>3. n \div 16384 = 0 BY <2>2, SMT
  <2> QED BY <2>1, <2>3
<1>15. CASE k = 15
  <2>1. 2 ^ k = 32768 BY <1>15, Powers
  <2>2. n < 32768 BY <2>1
  <2>3. n \div 32768 = 0 BY <2>2, SMT
  <2> QED BY <2>1, <2>3
<1>16. CASE k = 16
  <2>1. 2 ^ k = 65536 BY <1>16, Powers
  <2>2. n < 65536 BY <2>1
  <2>3. n \div 65536 = 0 BY <2>2, SMT
  <2> QED BY <2>1, <2>3
<1>17. CASE k = 17
  <2>1. 2 ^ k = 131072 BY <1>17, Powers
  <2>2. n < 131072 BY <2>1
  <2>3. n \div 131072 = 0 BY <2>2, SMT
  <2> QED BY <2>1, <2>3
<1>18. CASE k = 18
  <2>1. 2 ^ k = 262144 BY <1>18, Powers
  <2>2. n < 262144 BY <2>1
  <2>3. n \div 262144 = 0 BY <2>2, SMT
  <2> QED BY <2>1, <2>3
<1>19. CASE k = 19
  <2>1. 2 ^ k = 524288 BY <1>19, Powers
  <2>2. n < 524288 BY <2>1
  <2>3. n \div 524288 = 0 BY <2>2, SMT
  <2> QED BY <2>1, <2>3
<1>20. CASE k = 20
  <2>1. 2 ^ k = 1048576 BY <1>20, Powers
  <2>2. n < 1048576 BY <2>1
  <2>3. n \div 1048576 = 0 BY <2>2, SMT
  <2> QED BY <2>1, <2>3
<1>21. CASE k = 21
  <2>1. 2 ^ k = 2097152 BY <1>21, Powers
  <2>2. n < 2097152 BY <2>1
  <2>3. n \div 2097152 = 0 BY <2>2, SMT
  <2> QED BY <2>1, <2>3
<1>22. CASE k = 22
  <2>1. 2 ^ k = 4194304 BY <1>22, Powers
  <2>2. n < 4194304 BY <2>1
  <2>3. n \div 4194304 = 0 BY <2>2, SMT
  <2> QED BY <2>1, <2>3
<1>23. CASE k = 23
  <2>1. 2 ^ k = 8388608 BY <1>23, Powers
  <2>2. n < 8388608 BY <2>1
  <2>3. n \div 8388608 = 0 BY <2>2, SMT
  <2> QED BY <2>1, <2>3
<1>24. CASE k = 24
  <2>1. 2 ^ k = 16777216 BY <1>24, Powers
  <2>2. n < 16777216 BY <2>1
  <2>3. n \div 16777216 = 0 BY <2>2, SMT
  <2> QED BY <2>1, <2>3
<1> QED BY <1>1, <1>2, <1>3, <1>4, <1>5, <1>6, <1>7, <1>8, <1>9, <1>10, <1>11, <1>12, <1>13, <1>14, <1>15, <1>16, <1>17, <1>18, <1>19, <1>20, <1>21, <1>22, <1>23, <1>24

\* The bit of a field at one of its places.
LEMMA FieldBit ==
  ASSUME NEW n \in Nat, NEW at \in Nat, NEW width \in Nat, NEW m \in 1 .. width
  PROVE  at + m - 1 \in Field(n, at, width) <=> (n \div 2 ^ (width - m)) % 2 = 1
<1>1. m - 1 \in 0 .. width - 1 /\ width - 1 - (m - 1) = width - m OBVIOUS
<1>2. ASSUME NEW j \in 0 .. width - 1, at + m - 1 = at + j PROVE j = m - 1 BY <1>2
<1>3. Field(n, at, width) =
        {at + j : j \in {i \in 0 .. width - 1 : (n \div 2 ^ (width - 1 - i)) % 2 = 1}}
  BY DEF Field
<1>4. ASSUME (n \div 2 ^ (width - m)) % 2 = 1 PROVE at + m - 1 \in Field(n, at, width)
  <2>1. m - 1 \in {i \in 0 .. width - 1 : (n \div 2 ^ (width - 1 - i)) % 2 = 1}
    BY <1>1, <1>4, Zenon
  <2>2. at + m - 1 = at + (m - 1) OBVIOUS
  <2> QED BY <2>1, <2>2, <1>3, Zenon
<1>5. ASSUME at + m - 1 \in Field(n, at, width) PROVE (n \div 2 ^ (width - m)) % 2 = 1
  <2>1. PICK j \in {i \in 0 .. width - 1 : (n \div 2 ^ (width - 1 - i)) % 2 = 1} :
          at + m - 1 = at + j
    BY <1>5, <1>3, Zenon
  <2>2. j = m - 1 BY <2>1, <1>2
  <2> QED BY <2>1, <2>2, <1>1, Zenon
<1> QED BY <1>4, <1>5

LEMMA FieldWithin ==
  ASSUME NEW n, NEW at \in Nat, NEW width \in Nat
  PROVE  Field(n, at, width) \subseteq at .. at + width - 1
BY DEF Field

\* What a field says is the number it was written with, whatever lies around it.
LEMMA NumberOfField ==
  ASSUME NEW W, NEW at \in Nat, NEW width \in 1 .. 24, NEW n \in Nat, n < 2 ^ width,
         \A p \in at .. at + width - 1 : p \in W <=> p \in Field(n, at, width)
  PROVE  Number(W, at, width) = n
<1> DEFINE v == [m \in 0 .. width |-> n \div 2 ^ (width - m)]
<1>1. n \in Nat /\ n \div 2 ^ width = 0 BY NoMoreBits
<1>2. \A k \in 0 .. 24 : 2 ^ k \in Nat /\ 2 ^ k > 0 BY PowersPositive
<1>3. ASSUME NEW m \in 0 .. width PROVE n \div 2 ^ (width - m) \in Nat
  <2>1. width - m \in 0 .. 24 OBVIOUS
  <2>2. 2 ^ (width - m) \in Nat /\ 2 ^ (width - m) > 0 BY <2>1, <1>2
  <2> DEFINE p == 2 ^ (width - m)
  <2> HIDE DEF p
  <2>3. p \in Nat /\ p > 0 BY <2>2 DEF p
  <2>4. n \div p \in Nat BY <2>3, <1>1
  <2> QED BY <2>4 DEF p
<1>4. v \in [0 .. width -> Nat] BY <1>3
<1>5. v[0] = 0
  <2>1. 0 \in 0 .. width /\ width - 0 = width OBVIOUS
  <2> QED BY <2>1, <1>1
<1>6. ASSUME NEW m \in 1 .. width PROVE v[m] = 2 * v[m - 1] + BitAt(W, at + m - 1)
  <2>1. width - m \in 0 .. 23 /\ width - (m - 1) = (width - m) + 1 /\ m - 1 \in 0 .. width
        /\ m \in 0 .. width
    OBVIOUS
  <2>2. n \div 2 ^ (width - m) = 2 * (n \div 2 ^ ((width - m) + 1)) + ((n \div 2 ^ (width - m)) % 2)
    BY <2>1, <1>1, Halving
  <2>3. v[m] = n \div 2 ^ (width - m) BY <2>1
  <2>4. v[m - 1] = n \div 2 ^ ((width - m) + 1) BY <2>1
  <2>5. at + m - 1 \in at .. at + width - 1 OBVIOUS
  <2>6. at + m - 1 \in W <=> (n \div 2 ^ (width - m)) % 2 = 1
    <3>1. at + m - 1 \in W <=> at + m - 1 \in Field(n, at, width) BY <2>5
    <3>2. at + m - 1 \in Field(n, at, width) <=> (n \div 2 ^ (width - m)) % 2 = 1
      <4>1. width \in Nat OBVIOUS
      <4> QED BY <4>1, FieldBit
    <3> QED BY <3>1, <3>2, Zenon
  <2>7. v[m] \in Nat /\ v[m - 1] \in Nat BY <2>1, <2>3, <2>4, <1>4
  <2> HIDE DEF v
  <2>10. at + m - 1 \in W <=> v[m] % 2 = 1 BY <2>3, <2>6
  <2>8. v[m] = 2 * v[m - 1] + (v[m] % 2) BY <2>2, <2>3, <2>4
  <2>9. v[m] % 2 = 0 \/ v[m] % 2 = 1 BY <2>7
  <2> QED BY <2>10, <2>7, <2>8, <2>9 DEF BitAt
<1>7. Reads(v, W, at, width)
  <2> HIDE DEF v
  <2> QED BY <1>4, <1>5, <1>6 DEF Reads
<1>8. Number(W, at, width) = v[width]
  <2> HIDE DEF v
  <2> QED BY <1>7, NumberIs
<1>9. v[width] = n \div 2 ^ 0
  <2>1. width \in 0 .. width /\ width - width = 0 OBVIOUS
  <2> QED BY <2>1
<1>10. n \div 2 ^ 0 = n BY <1>1, Powers
<1> QED BY <1>8, <1>9, <1>10

--------------------------------------------------------------------------------
(* Parity. *)

LEMMA DisjointSum ==
  ASSUME NEW A, NEW B, IsFiniteSet(A), IsFiniteSet(B), A \cap B = {}
  PROVE  IsFiniteSet(A \cup B) /\ Cardinality(A \cup B) = Cardinality(A) + Cardinality(B)
<1>1. /\ IsFiniteSet(A \cup B)
      /\ Cardinality(A \cup B) = Cardinality(A) + Cardinality(B) - Cardinality(A \cap B)
  BY FS_Union
<1>2. Cardinality(A) \in Nat /\ Cardinality(B) \in Nat /\ Cardinality(A \cap B) = 0
  BY FS_CardinalityType, FS_EmptySet
<1> QED BY <1>1, <1>2

LEMMA OddSum ==
  ASSUME NEW A, NEW B, IsFiniteSet(A), IsFiniteSet(B)
  PROVE  IsFiniteSet(SymDiff(A, B)) /\ (Odd(SymDiff(A, B)) <=> ~(Odd(A) <=> Odd(B)))
<1> DEFINE X == A \ B
           Y == B \ A
           Z == A \cap B
<1>1. IsFiniteSet(X) /\ IsFiniteSet(Y) /\ IsFiniteSet(Z)
  BY FS_Subset
<1>2. A = X \cup Z /\ B = Y \cup Z /\ SymDiff(A, B) = X \cup Y BY DEF SymDiff
<1>3. X \cap Z = {} /\ Y \cap Z = {} /\ X \cap Y = {} OBVIOUS
<1> HIDE DEF X, Y, Z
<1>4. Cardinality(A) = Cardinality(X) + Cardinality(Z) BY <1>1, <1>2, <1>3, DisjointSum
<1>5. Cardinality(B) = Cardinality(Y) + Cardinality(Z) BY <1>1, <1>2, <1>3, DisjointSum
<1>6. IsFiniteSet(X \cup Y) /\ Cardinality(X \cup Y) = Cardinality(X) + Cardinality(Y)
  BY <1>1, <1>3, DisjointSum
<1>7. Cardinality(X) \in Nat /\ Cardinality(Y) \in Nat /\ Cardinality(Z) \in Nat
  BY <1>1, FS_CardinalityType
<1>8. (Cardinality(X) + Cardinality(Y)) % 2 = 1 <=>
        ~((Cardinality(X) + Cardinality(Z)) % 2 = 1 <=>
          (Cardinality(Y) + Cardinality(Z)) % 2 = 1)
  BY <1>7, SMT
<1> QED BY <1>2, <1>4, <1>5, <1>6, <1>8 DEF Odd

LEMMA OddNone == ~Odd({})
BY FS_EmptySet DEF Odd

LEMMA OddOne == ASSUME NEW x PROVE Odd({x})
BY FS_Singleton DEF Odd

LEMMA SymDiffMember ==
  ASSUME NEW A, NEW B, NEW x PROVE x \in SymDiff(A, B) <=> ~(x \in A <=> x \in B)
BY DEF SymDiff

\* A code whose checks read the data only.
IsCode(code) ==
  /\ code.k \in Nat
  /\ code.checks \in Seq(SUBSET Nat)
  /\ \A c \in DOMAIN code.checks : code.checks[c] \subseteq 0 .. code.k - 1

LEMMA Codes15 ==
  /\ Hamming_15_11.k = 11 /\ Len(Hamming_15_11.checks) = 4
  /\ Hamming_15_11.checks[1] = {0, 1, 2, 3, 5, 7, 8}
  /\ Hamming_15_11.checks[2] = {1, 2, 3, 4, 6, 8, 9}
  /\ Hamming_15_11.checks[3] = {2, 3, 4, 5, 7, 9, 10}
  /\ Hamming_15_11.checks[4] = {0, 1, 2, 4, 6, 7, 10}
  /\ Hamming_15_11.checks \in Seq(SUBSET Nat)
BY DEF Hamming_15_11

LEMMA Codes13 ==
  /\ Hamming_13_9.k = 9 /\ Len(Hamming_13_9.checks) = 4
  /\ Hamming_13_9.checks[1] = {0, 1, 3, 5, 6}
  /\ Hamming_13_9.checks[2] = {0, 1, 2, 4, 6, 7}
  /\ Hamming_13_9.checks[3] = {0, 1, 2, 3, 5, 7, 8}
  /\ Hamming_13_9.checks[4] = {0, 2, 4, 5, 8}
  /\ Hamming_13_9.checks \in Seq(SUBSET Nat)
BY DEF Hamming_13_9

LEMMA Codes16 ==
  /\ Hamming_16_11.k = 11 /\ Len(Hamming_16_11.checks) = 5
  /\ Hamming_16_11.checks[1] = {0, 1, 2, 3, 5, 7, 8}
  /\ Hamming_16_11.checks[2] = {1, 2, 3, 4, 6, 8, 9}
  /\ Hamming_16_11.checks[3] = {2, 3, 4, 5, 7, 9, 10}
  /\ Hamming_16_11.checks[4] = {0, 1, 2, 4, 6, 7, 10}
  /\ Hamming_16_11.checks[5] = {0, 2, 5, 6, 8, 9, 10}
  /\ Hamming_16_11.checks \in Seq(SUBSET Nat)
<1> DEFINE last == << {0, 2, 5, 6, 8, 9, 10} >>
           s == Hamming_15_11.checks
<1>1. Hamming_16_11.k = 11 /\ Hamming_16_11.checks = s \o last BY DEF Hamming_16_11
<1>2. last \in Seq(SUBSET Nat) /\ Len(last) = 1 /\ last[1] = {0, 2, 5, 6, 8, 9, 10} OBVIOUS
<1>3. s \in Seq(SUBSET Nat) /\ Len(s) = 4 BY Codes15
<1> HIDE DEF s, last
<1> DEFINE W == SUBSET Nat
<1>7. s \in Seq(W) /\ last \in Seq(W) BY <1>2, <1>3
<1> HIDE DEF W
<1>8. /\ s \o last \in Seq(W) /\ Len(s \o last) = Len(s) + Len(last)
      /\ \A i \in 1 .. Len(s) + Len(last) : (s \o last)[i] =
                     IF i <= Len(s) THEN s[i] ELSE last[i - Len(s)]
  BY <1>7, ConcatProperties
<1>4. s \o last \in Seq(SUBSET Nat) /\ Len(s \o last) = 5 BY <1>2, <1>3, <1>8 DEF W
<1>5. \A i \in 1 .. 4 : (s \o last)[i] = s[i] BY <1>2, <1>3, <1>8
<1>6. (s \o last)[5] = last[1] BY <1>2, <1>3, <1>8
<1> QED BY <1>1, <1>2, <1>4, <1>5, <1>6, Codes15 DEF s

LEMMA AreCodes == IsCode(Hamming_15_11) /\ IsCode(Hamming_13_9) /\ IsCode(Hamming_16_11)
<1>1. IsCode(Hamming_15_11) BY Codes15 DEF IsCode
<1>2. IsCode(Hamming_13_9) BY Codes13 DEF IsCode
<1>3. IsCode(Hamming_16_11) BY Codes16 DEF IsCode
<1> QED BY <1>1, <1>2, <1>3

LEMMA FailingMember ==
  ASSUME NEW code, NEW V, NEW c
  PROVE  c \in Failing(code, V) <=>
           /\ c \in DOMAIN code.checks
           /\ ~(code.k + c - 1 \in V <=> Odd(V \cap code.checks[c]))
BY DEF Failing, Odd

\* Checks add up.
LEMMA FailingSum ==
  ASSUME NEW code, NEW V, NEW E, IsFiniteSet(V), IsFiniteSet(E)
  PROVE  Failing(code, SymDiff(V, E)) = SymDiff(Failing(code, V), Failing(code, E))
<1>1. ASSUME NEW c
      PROVE  c \in Failing(code, SymDiff(V, E)) <=>
               ~(c \in Failing(code, V) <=> c \in Failing(code, E))
  <2> DEFINE K == code.checks[c]
             p == code.k + c - 1
             A == V \cap K
             B == E \cap K
  <2>1. IsFiniteSet(A) /\ IsFiniteSet(B) BY FS_Subset
  <2>2. SymDiff(V, E) \cap K = SymDiff(A, B) BY DEF SymDiff
  <2>4. p \in SymDiff(V, E) <=> ~(p \in V <=> p \in E) BY SymDiffMember
  <2>5. /\ c \in Failing(code, V) <=> c \in DOMAIN code.checks /\ ~(p \in V <=> Odd(A))
        /\ c \in Failing(code, E) <=> c \in DOMAIN code.checks /\ ~(p \in E <=> Odd(B))
        /\ c \in Failing(code, SymDiff(V, E)) <=>
             c \in DOMAIN code.checks /\ ~(p \in SymDiff(V, E) <=> Odd(SymDiff(V, E) \cap K))
    BY FailingMember
  <2> HIDE DEF K, p, A, B
  <2>3. Odd(SymDiff(A, B)) <=> ~(Odd(A) <=> Odd(B)) BY <2>1, OddSum
  <2> QED BY <2>2, <2>3, <2>4, <2>5
<1>2. ASSUME NEW c
      PROVE  c \in Failing(code, SymDiff(V, E)) <=>
               c \in SymDiff(Failing(code, V), Failing(code, E))
  BY <1>1, SymDiffMember
<1> QED BY <1>2

LEMMA WithinFinite ==
  ASSUME NEW n \in Nat, NEW V, V \subseteq 0 .. n PROVE IsFiniteSet(V)
<1>1. \A a, b \in Int : IsFiniteSet(a .. b) BY FS_Interval
<1>2. IsFiniteSet(0 .. n) BY <1>1
<1> QED BY <1>2, FS_Subset

\* What the encoder sends passes every check.
LEMMA EncodedPasses ==
  ASSUME NEW code, IsCode(code), NEW D, D \subseteq 0 .. code.k - 1
  PROVE  Failing(code, HammingEncode(code, D)) = {}
<1> DEFINE H == HammingEncode(code, D)
<1>1. code.k \in Nat /\ \A i \in DOMAIN code.checks : i \in Nat /\ i >= 1
  BY DEF IsCode
<1>2. ASSUME NEW c \in DOMAIN code.checks
      PROVE  code.k + c - 1 \in H <=> Odd(H \cap code.checks[c])
  <2>1. c \in Nat /\ c >= 1 BY <1>1
  <2>2. code.checks[c] \subseteq 0 .. code.k - 1 BY DEF IsCode
  <2>3. \A i \in {j \in DOMAIN code.checks : Odd(D \cap code.checks[j])} :
          code.k + i - 1 \notin code.checks[c]
    BY <1>1, <2>2
  <2>4. H \cap code.checks[c] = D \cap code.checks[c]
    BY <2>3 DEF HammingEncode
  <2>5. code.k + c - 1 \notin D BY <1>1, <2>1
  <2>6. \A i \in DOMAIN code.checks : code.k + i - 1 = code.k + c - 1 => i = c
    BY <1>1, <2>1
  <2>7. code.k + c - 1 \in H <=> Odd(D \cap code.checks[c])
    BY <2>5, <2>6, Zenon DEF HammingEncode
  <2> QED BY <2>4, <2>7
<1> HIDE DEF H
<1>3. \A c : c \notin Failing(code, H) BY <1>2, FailingMember
<1> QED BY <1>3 DEF H

\* So what the syndrome says of a word received is what it says of the damage.
LEMMA SyndromeOfDamage ==
  ASSUME NEW code, IsCode(code), NEW D, D \subseteq 0 .. code.k - 1,
         IsFiniteSet(HammingEncode(code, D)), NEW E, IsFiniteSet(E)
  PROVE  Syndrome(code, SymDiff(HammingEncode(code, D), E)) = Syndrome(code, E)
<1> DEFINE H == HammingEncode(code, D)
<1>1. Failing(code, SymDiff(H, E)) = SymDiff(Failing(code, H), Failing(code, E))
  BY FailingSum
<1>2. Failing(code, H) = {} BY EncodedPasses
<1>3. SymDiff({}, Failing(code, E)) = Failing(code, E) BY DEF SymDiff
<1>4. Failing(code, SymDiff(H, E)) = Failing(code, E) BY <1>1, <1>2, <1>3
<1> QED BY <1>4 DEF Syndrome

LEMMA SymDiffSame == \A A : SymDiff(A, A) = {} BY DEF SymDiff
LEMMA SymDiffNone == \A A : SymDiff(A, {}) = A /\ SymDiff({}, A) = A BY DEF SymDiff
LEMMA SymDiffAssoc == \A A, B, C : SymDiff(SymDiff(A, B), C) = SymDiff(A, SymDiff(B, C))
BY DEF SymDiff
LEMMA SymDiffComm == \A A, B : SymDiff(A, B) = SymDiff(B, A) BY DEF SymDiff

\* The corrector does to a word what it does to the damage.
LEMMA CorrectOfDamage ==
  ASSUME NEW code, IsCode(code), NEW D, D \subseteq 0 .. code.k - 1,
         IsFiniteSet(HammingEncode(code, D)), HammingEncode(code, D) \subseteq Nat,
         NEW E, E \subseteq Nat, IsFiniteSet(E)
  PROVE  /\ HammingCorrect(code, E) = HammingError =>
              HammingCorrect(code, SymDiff(HammingEncode(code, D), E)) = HammingError
         /\ HammingCorrect(code, E) # HammingError =>
              /\ HammingCorrect(code, SymDiff(HammingEncode(code, D), E)) =
                   SymDiff(HammingEncode(code, D), HammingCorrect(code, E))
              /\ HammingCorrect(code, SymDiff(HammingEncode(code, D), E)) # HammingError
<1> DEFINE H == HammingEncode(code, D)
           s == Syndrome(code, E)
           X == SymDiff(H, E)
<1>1. Syndrome(code, X) = s BY SyndromeOfDamage
<1>2. None \notin H /\ None \notin E BY DEF None
<1> HIDE DEF H, s
<1>3. CASE s = 0
  <2>1. HammingCorrect(code, X) = X /\ HammingCorrect(code, E) = E
    BY <1>1, <1>3 DEF HammingCorrect, s
  <2>2. X # HammingError /\ E # HammingError BY <1>2 DEF HammingError, SymDiff
  <2> QED BY <2>1, <2>2 DEF H
<1>4. CASE s # 0 /\ code.pos[s] # None
  <2>1. HammingCorrect(code, X) = SymDiff(X, {code.pos[s]})
    BY <1>1, <1>4 DEF HammingCorrect
  <2>2. HammingCorrect(code, E) = SymDiff(E, {code.pos[s]}) BY <1>4 DEF HammingCorrect, s
  <2>3. SymDiff(X, {code.pos[s]}) # HammingError /\ SymDiff(E, {code.pos[s]}) # HammingError
    BY <1>2, <1>4 DEF HammingError, SymDiff
  <2> QED BY <2>1, <2>2, <2>3, SymDiffAssoc DEF H
<1>5. CASE s # 0 /\ code.pos[s] = None
  <2>1. HammingCorrect(code, X) = HammingError /\ HammingCorrect(code, E) = HammingError
    BY <1>1, <1>5 DEF HammingCorrect, s
  <2> QED BY <2>1 DEF H
<1> QED BY <1>3, <1>4, <1>5

LEMMA NumberOfFour ==
  ASSUME NEW W
  PROVE  Number(W, 0, 4) = 8 * BitAt(W, 0) + 4 * BitAt(W, 1) + 2 * BitAt(W, 2) + BitAt(W, 3)
<1>1. PICK v : Reads(v, W, 0, 4) /\ Number(W, 0, 4) = v[4]
  <2>1. \A at \in Nat, width \in Nat : \E v : Reads(v, W, at, width) /\ Number(W, at, width) = v[width]
    BY NumberReads
  <2> QED BY <2>1
<1>2. \A n \in 1 .. 4 : v[n] = 2 * v[n - 1] + BitAt(W, 0 + n - 1) BY <1>1 DEF Reads
<1>3. v[0] = 0 BY <1>1 DEF Reads
<1>4. \A p : BitAt(W, p) \in Nat BY DEF BitAt
<1>5. /\ v[1] = 2 * v[0] + BitAt(W, 0)
      /\ v[2] = 2 * v[1] + BitAt(W, 1)
      /\ v[3] = 2 * v[2] + BitAt(W, 2)
      /\ v[4] = 2 * v[3] + BitAt(W, 3)
  BY <1>2
<1> QED BY <1>1, <1>3, <1>4, <1>5

LEMMA NumberOfFive ==
  ASSUME NEW W
  PROVE  Number(W, 0, 5) = 16 * BitAt(W, 0) + 8 * BitAt(W, 1) + 4 * BitAt(W, 2) + 2 * BitAt(W, 3) + BitAt(W, 4)
<1>1. PICK v : Reads(v, W, 0, 5) /\ Number(W, 0, 5) = v[5]
  <2>1. \A at \in Nat, width \in Nat : \E v : Reads(v, W, at, width) /\ Number(W, at, width) = v[width]
    BY NumberReads
  <2> QED BY <2>1
<1>2. \A n \in 1 .. 5 : v[n] = 2 * v[n - 1] + BitAt(W, 0 + n - 1) BY <1>1 DEF Reads
<1>3. v[0] = 0 BY <1>1 DEF Reads
<1>4. \A p : BitAt(W, p) \in Nat BY DEF BitAt
<1>5. /\ v[1] = 2 * v[0] + BitAt(W, 0)
      /\ v[2] = 2 * v[1] + BitAt(W, 1)
      /\ v[3] = 2 * v[2] + BitAt(W, 2)
      /\ v[4] = 2 * v[3] + BitAt(W, 3)
      /\ v[5] = 2 * v[4] + BitAt(W, 4)
  BY <1>2
<1> QED BY <1>1, <1>3, <1>4, <1>5

Fails(code, E, c) == IF c \in Failing(code, E) THEN 1 ELSE 0

LEMMA SyndromeOfFour ==
  ASSUME NEW code, code.checks \in Seq(SUBSET Nat), Len(code.checks) = 4, NEW E
  PROVE  Syndrome(code, E) = 8 * Fails(code, E, 4) + 4 * Fails(code, E, 3) + 2 * Fails(code, E, 2) + Fails(code, E, 1)
<1> DEFINE F == Failing(code, E)
           S == {4 - c : c \in F}
<1>1. Syndrome(code, E) = Number(S, 0, 4) BY DEF Syndrome
<1>2. \A c \in F : c \in 1 .. 4 BY DEF Failing
<1>3. ASSUME NEW c \in 1 .. 4 PROVE 4 - c \in S <=> c \in F
  <2> HIDE DEF F
  <2> QED BY <1>2
<1> HIDE DEF S, F
<1>4. \A c \in 1 .. 4 : BitAt(S, 4 - c) = Fails(code, E, c) BY <1>3 DEF BitAt, Fails, F
<1>5. BitAt(S, 3) = Fails(code, E, 1) /\ BitAt(S, 2) = Fails(code, E, 2) /\ BitAt(S, 1) = Fails(code, E, 3) /\ BitAt(S, 0) = Fails(code, E, 4)
  BY <1>4
<1> QED BY <1>1, <1>5, NumberOfFour

LEMMA SyndromeOfFive ==
  ASSUME NEW code, code.checks \in Seq(SUBSET Nat), Len(code.checks) = 5, NEW E
  PROVE  Syndrome(code, E) = 16 * Fails(code, E, 5) + 8 * Fails(code, E, 4) + 4 * Fails(code, E, 3) + 2 * Fails(code, E, 2) + Fails(code, E, 1)
<1> DEFINE F == Failing(code, E)
           S == {5 - c : c \in F}
<1>1. Syndrome(code, E) = Number(S, 0, 5) BY DEF Syndrome
<1>2. \A c \in F : c \in 1 .. 5 BY DEF Failing
<1>3. ASSUME NEW c \in 1 .. 5 PROVE 5 - c \in S <=> c \in F
  <2> HIDE DEF F
  <2> QED BY <1>2
<1> HIDE DEF S, F
<1>4. \A c \in 1 .. 5 : BitAt(S, 5 - c) = Fails(code, E, c) BY <1>3 DEF BitAt, Fails, F
<1>5. BitAt(S, 4) = Fails(code, E, 1) /\ BitAt(S, 3) = Fails(code, E, 2) /\ BitAt(S, 2) = Fails(code, E, 3) /\ BitAt(S, 1) = Fails(code, E, 4) /\ BitAt(S, 0) = Fails(code, E, 5)
  BY <1>4
<1> QED BY <1>1, <1>5, NumberOfFive

\* What one wrong bit fails: its own check bit, or the checks that read it.
LEMMA FailingOne ==
  ASSUME NEW code, NEW e, NEW c
  PROVE  c \in Failing(code, {e}) <=>
           /\ c \in DOMAIN code.checks
           /\ ~(code.k + c - 1 = e <=> e \in code.checks[c])
<1>1. CASE e \in code.checks[c]
  <2>1. {e} \cap code.checks[c] = {e} BY <1>1
  <2>2. Odd({e} \cap code.checks[c]) BY <2>1, OddOne
  <2> QED BY <1>1, <2>2, FailingMember
<1>2. CASE e \notin code.checks[c]
  <2>1. {e} \cap code.checks[c] = {} BY <1>2
  <2>2. ~Odd({e} \cap code.checks[c]) BY <2>1, OddNone
  <2> QED BY <1>2, <2>2, FailingMember
<1> QED BY <1>1, <1>2

LEMMA CorrectNone ==
  ASSUME NEW code, IsCode(code), Len(code.checks) \in {4, 5}
  PROVE  HammingCorrect(code, {}) = {}
<1>1. \A c : c \notin Failing(code, {})
  <2>1. ASSUME NEW c PROVE c \notin Failing(code, {})
    <3>1. {} \cap code.checks[c] = {} OBVIOUS
    <3>2. ~Odd({} \cap code.checks[c]) BY <3>1, OddNone
    <3> QED BY <3>2, FailingMember
  <2> QED BY <2>1
<1>2. \A c : Fails(code, {}, c) = 0 BY <1>1 DEF Fails
<1>3. CASE Len(code.checks) = 4
  <2>1. Syndrome(code, {}) = 0 BY <1>2, <1>3, SyndromeOfFour DEF IsCode
  <2> QED BY <2>1 DEF HammingCorrect
<1>4. CASE Len(code.checks) = 5
  <2>1. Syndrome(code, {}) = 0 BY <1>2, <1>4, SyndromeOfFive DEF IsCode
  <2> QED BY <2>1 DEF HammingCorrect
<1> QED BY <1>3, <1>4

LEMMA CorrectOne15 ==
  ASSUME NEW e \in 0 .. 14 PROVE HammingCorrect(Hamming_15_11, {e}) = {}
<1> DEFINE F(c) == Fails(Hamming_15_11, {e}, c)
<1>1. ASSUME NEW c \in 1 .. 4
      PROVE  F(c) = IF 11 + c - 1 = e <=> e \in Hamming_15_11.checks[c] THEN 0 ELSE 1
  <2>1. DOMAIN Hamming_15_11.checks = 1 .. 4 /\ Hamming_15_11.k = 11 BY Codes15
  <2>3. c \in Failing(Hamming_15_11, {e}) <=>
          /\ c \in DOMAIN Hamming_15_11.checks
          /\ ~(Hamming_15_11.k + c - 1 = e <=> e \in Hamming_15_11.checks[c])
    BY FailingOne
  <2>2. c \in Failing(Hamming_15_11, {e}) <=> ~(11 + c - 1 = e <=> e \in Hamming_15_11.checks[c])
    BY <2>1, <2>3
  <2> QED BY <2>2 DEF Fails
<1>2. Syndrome(Hamming_15_11, {e}) = 8 * F(4) + 4 * F(3) + 2 * F(2) + F(1)
  BY Codes15, SyndromeOfFour
<1> HIDE DEF F
<1>3. /\ F(1) = IF 11 = e <=> e \in {0, 1, 2, 3, 5, 7, 8} THEN 0 ELSE 1
      /\ F(2) = IF 12 = e <=> e \in {1, 2, 3, 4, 6, 8, 9} THEN 0 ELSE 1
      /\ F(3) = IF 13 = e <=> e \in {2, 3, 4, 5, 7, 9, 10} THEN 0 ELSE 1
      /\ F(4) = IF 14 = e <=> e \in {0, 1, 2, 4, 6, 7, 10} THEN 0 ELSE 1
  <2>1. F(1) = IF 11 = e <=> e \in Hamming_15_11.checks[1] THEN 0 ELSE 1 BY <1>1
  <2>2. F(2) = IF 12 = e <=> e \in Hamming_15_11.checks[2] THEN 0 ELSE 1 BY <1>1
  <2>3. F(3) = IF 13 = e <=> e \in Hamming_15_11.checks[3] THEN 0 ELSE 1 BY <1>1
  <2>4. F(4) = IF 14 = e <=> e \in Hamming_15_11.checks[4] THEN 0 ELSE 1 BY <1>1
  <2> QED BY <2>1, <2>2, <2>3, <2>4, Codes15
<1>10. CASE e = 0
  <2>1. F(1) = 1 /\ F(2) = 0 /\ F(3) = 0 /\ F(4) = 1 BY <1>3, <1>10
  <2>2. Syndrome(Hamming_15_11, {e}) = 9 BY <1>2, <2>1
  <2>3. Hamming_15_11.pos[9] = e BY <1>10 DEF Hamming_15_11
  <2> QED BY <2>2, <2>3, <1>10, SymDiffSame DEF HammingCorrect, None
<1>11. CASE e = 1
  <2>1. F(1) = 1 /\ F(2) = 1 /\ F(3) = 0 /\ F(4) = 1 BY <1>3, <1>11
  <2>2. Syndrome(Hamming_15_11, {e}) = 11 BY <1>2, <2>1
  <2>3. Hamming_15_11.pos[11] = e BY <1>11 DEF Hamming_15_11
  <2> QED BY <2>2, <2>3, <1>11, SymDiffSame DEF HammingCorrect, None
<1>12. CASE e = 2
  <2>1. F(1) = 1 /\ F(2) = 1 /\ F(3) = 1 /\ F(4) = 1 BY <1>3, <1>12
  <2>2. Syndrome(Hamming_15_11, {e}) = 15 BY <1>2, <2>1
  <2>3. Hamming_15_11.pos[15] = e BY <1>12 DEF Hamming_15_11
  <2> QED BY <2>2, <2>3, <1>12, SymDiffSame DEF HammingCorrect, None
<1>13. CASE e = 3
  <2>1. F(1) = 1 /\ F(2) = 1 /\ F(3) = 1 /\ F(4) = 0 BY <1>3, <1>13
  <2>2. Syndrome(Hamming_15_11, {e}) = 7 BY <1>2, <2>1
  <2>3. Hamming_15_11.pos[7] = e BY <1>13 DEF Hamming_15_11
  <2> QED BY <2>2, <2>3, <1>13, SymDiffSame DEF HammingCorrect, None
<1>14. CASE e = 4
  <2>1. F(1) = 0 /\ F(2) = 1 /\ F(3) = 1 /\ F(4) = 1 BY <1>3, <1>14
  <2>2. Syndrome(Hamming_15_11, {e}) = 14 BY <1>2, <2>1
  <2>3. Hamming_15_11.pos[14] = e BY <1>14 DEF Hamming_15_11
  <2> QED BY <2>2, <2>3, <1>14, SymDiffSame DEF HammingCorrect, None
<1>15. CASE e = 5
  <2>1. F(1) = 1 /\ F(2) = 0 /\ F(3) = 1 /\ F(4) = 0 BY <1>3, <1>15
  <2>2. Syndrome(Hamming_15_11, {e}) = 5 BY <1>2, <2>1
  <2>3. Hamming_15_11.pos[5] = e BY <1>15 DEF Hamming_15_11
  <2> QED BY <2>2, <2>3, <1>15, SymDiffSame DEF HammingCorrect, None
<1>16. CASE e = 6
  <2>1. F(1) = 0 /\ F(2) = 1 /\ F(3) = 0 /\ F(4) = 1 BY <1>3, <1>16
  <2>2. Syndrome(Hamming_15_11, {e}) = 10 BY <1>2, <2>1
  <2>3. Hamming_15_11.pos[10] = e BY <1>16 DEF Hamming_15_11
  <2> QED BY <2>2, <2>3, <1>16, SymDiffSame DEF HammingCorrect, None
<1>17. CASE e = 7
  <2>1. F(1) = 1 /\ F(2) = 0 /\ F(3) = 1 /\ F(4) = 1 BY <1>3, <1>17
  <2>2. Syndrome(Hamming_15_11, {e}) = 13 BY <1>2, <2>1
  <2>3. Hamming_15_11.pos[13] = e BY <1>17 DEF Hamming_15_11
  <2> QED BY <2>2, <2>3, <1>17, SymDiffSame DEF HammingCorrect, None
<1>18. CASE e = 8
  <2>1. F(1) = 1 /\ F(2) = 1 /\ F(3) = 0 /\ F(4) = 0 BY <1>3, <1>18
  <2>2. Syndrome(Hamming_15_11, {e}) = 3 BY <1>2, <2>1
  <2>3. Hamming_15_11.pos[3] = e BY <1>18 DEF Hamming_15_11
  <2> QED BY <2>2, <2>3, <1>18, SymDiffSame DEF HammingCorrect, None
<1>19. CASE e = 9
  <2>1. F(1) = 0 /\ F(2) = 1 /\ F(3) = 1 /\ F(4) = 0 BY <1>3, <1>19
  <2>2. Syndrome(Hamming_15_11, {e}) = 6 BY <1>2, <2>1
  <2>3. Hamming_15_11.pos[6] = e BY <1>19 DEF Hamming_15_11
  <2> QED BY <2>2, <2>3, <1>19, SymDiffSame DEF HammingCorrect, None
<1>20. CASE e = 10
  <2>1. F(1) = 0 /\ F(2) = 0 /\ F(3) = 1 /\ F(4) = 1 BY <1>3, <1>20
  <2>2. Syndrome(Hamming_15_11, {e}) = 12 BY <1>2, <2>1
  <2>3. Hamming_15_11.pos[12] = e BY <1>20 DEF Hamming_15_11
  <2> QED BY <2>2, <2>3, <1>20, SymDiffSame DEF HammingCorrect, None
<1>21. CASE e = 11
  <2>1. F(1) = 1 /\ F(2) = 0 /\ F(3) = 0 /\ F(4) = 0 BY <1>3, <1>21
  <2>2. Syndrome(Hamming_15_11, {e}) = 1 BY <1>2, <2>1
  <2>3. Hamming_15_11.pos[1] = e BY <1>21 DEF Hamming_15_11
  <2> QED BY <2>2, <2>3, <1>21, SymDiffSame DEF HammingCorrect, None
<1>22. CASE e = 12
  <2>1. F(1) = 0 /\ F(2) = 1 /\ F(3) = 0 /\ F(4) = 0 BY <1>3, <1>22
  <2>2. Syndrome(Hamming_15_11, {e}) = 2 BY <1>2, <2>1
  <2>3. Hamming_15_11.pos[2] = e BY <1>22 DEF Hamming_15_11
  <2> QED BY <2>2, <2>3, <1>22, SymDiffSame DEF HammingCorrect, None
<1>23. CASE e = 13
  <2>1. F(1) = 0 /\ F(2) = 0 /\ F(3) = 1 /\ F(4) = 0 BY <1>3, <1>23
  <2>2. Syndrome(Hamming_15_11, {e}) = 4 BY <1>2, <2>1
  <2>3. Hamming_15_11.pos[4] = e BY <1>23 DEF Hamming_15_11
  <2> QED BY <2>2, <2>3, <1>23, SymDiffSame DEF HammingCorrect, None
<1>24. CASE e = 14
  <2>1. F(1) = 0 /\ F(2) = 0 /\ F(3) = 0 /\ F(4) = 1 BY <1>3, <1>24
  <2>2. Syndrome(Hamming_15_11, {e}) = 8 BY <1>2, <2>1
  <2>3. Hamming_15_11.pos[8] = e BY <1>24 DEF Hamming_15_11
  <2> QED BY <2>2, <2>3, <1>24, SymDiffSame DEF HammingCorrect, None
<1> QED BY <1>10, <1>11, <1>12, <1>13, <1>14, <1>15, <1>16, <1>17, <1>18, <1>19, <1>20, <1>21, <1>22, <1>23, <1>24

LEMMA CorrectOne13 ==
  ASSUME NEW e \in 0 .. 12 PROVE HammingCorrect(Hamming_13_9, {e}) = {}
<1> DEFINE F(c) == Fails(Hamming_13_9, {e}, c)
<1>1. ASSUME NEW c \in 1 .. 4
      PROVE  F(c) = IF 9 + c - 1 = e <=> e \in Hamming_13_9.checks[c] THEN 0 ELSE 1
  <2>1. DOMAIN Hamming_13_9.checks = 1 .. 4 /\ Hamming_13_9.k = 9 BY Codes13
  <2>3. c \in Failing(Hamming_13_9, {e}) <=>
          /\ c \in DOMAIN Hamming_13_9.checks
          /\ ~(Hamming_13_9.k + c - 1 = e <=> e \in Hamming_13_9.checks[c])
    BY FailingOne
  <2>2. c \in Failing(Hamming_13_9, {e}) <=> ~(9 + c - 1 = e <=> e \in Hamming_13_9.checks[c])
    BY <2>1, <2>3
  <2> QED BY <2>2 DEF Fails
<1>2. Syndrome(Hamming_13_9, {e}) = 8 * F(4) + 4 * F(3) + 2 * F(2) + F(1)
  BY Codes13, SyndromeOfFour
<1> HIDE DEF F
<1>3. /\ F(1) = IF 9 = e <=> e \in {0, 1, 3, 5, 6} THEN 0 ELSE 1
      /\ F(2) = IF 10 = e <=> e \in {0, 1, 2, 4, 6, 7} THEN 0 ELSE 1
      /\ F(3) = IF 11 = e <=> e \in {0, 1, 2, 3, 5, 7, 8} THEN 0 ELSE 1
      /\ F(4) = IF 12 = e <=> e \in {0, 2, 4, 5, 8} THEN 0 ELSE 1
  <2>1. F(1) = IF 9 = e <=> e \in Hamming_13_9.checks[1] THEN 0 ELSE 1 BY <1>1
  <2>2. F(2) = IF 10 = e <=> e \in Hamming_13_9.checks[2] THEN 0 ELSE 1 BY <1>1
  <2>3. F(3) = IF 11 = e <=> e \in Hamming_13_9.checks[3] THEN 0 ELSE 1 BY <1>1
  <2>4. F(4) = IF 12 = e <=> e \in Hamming_13_9.checks[4] THEN 0 ELSE 1 BY <1>1
  <2> QED BY <2>1, <2>2, <2>3, <2>4, Codes13
<1>10. CASE e = 0
  <2>1. F(1) = 1 /\ F(2) = 1 /\ F(3) = 1 /\ F(4) = 1 BY <1>3, <1>10
  <2>2. Syndrome(Hamming_13_9, {e}) = 15 BY <1>2, <2>1
  <2>3. Hamming_13_9.pos[15] = e BY <1>10 DEF Hamming_13_9
  <2> QED BY <2>2, <2>3, <1>10, SymDiffSame DEF HammingCorrect, None
<1>11. CASE e = 1
  <2>1. F(1) = 1 /\ F(2) = 1 /\ F(3) = 1 /\ F(4) = 0 BY <1>3, <1>11
  <2>2. Syndrome(Hamming_13_9, {e}) = 7 BY <1>2, <2>1
  <2>3. Hamming_13_9.pos[7] = e BY <1>11 DEF Hamming_13_9
  <2> QED BY <2>2, <2>3, <1>11, SymDiffSame DEF HammingCorrect, None
<1>12. CASE e = 2
  <2>1. F(1) = 0 /\ F(2) = 1 /\ F(3) = 1 /\ F(4) = 1 BY <1>3, <1>12
  <2>2. Syndrome(Hamming_13_9, {e}) = 14 BY <1>2, <2>1
  <2>3. Hamming_13_9.pos[14] = e BY <1>12 DEF Hamming_13_9
  <2> QED BY <2>2, <2>3, <1>12, SymDiffSame DEF HammingCorrect, None
<1>13. CASE e = 3
  <2>1. F(1) = 1 /\ F(2) = 0 /\ F(3) = 1 /\ F(4) = 0 BY <1>3, <1>13
  <2>2. Syndrome(Hamming_13_9, {e}) = 5 BY <1>2, <2>1
  <2>3. Hamming_13_9.pos[5] = e BY <1>13 DEF Hamming_13_9
  <2> QED BY <2>2, <2>3, <1>13, SymDiffSame DEF HammingCorrect, None
<1>14. CASE e = 4
  <2>1. F(1) = 0 /\ F(2) = 1 /\ F(3) = 0 /\ F(4) = 1 BY <1>3, <1>14
  <2>2. Syndrome(Hamming_13_9, {e}) = 10 BY <1>2, <2>1
  <2>3. Hamming_13_9.pos[10] = e BY <1>14 DEF Hamming_13_9
  <2> QED BY <2>2, <2>3, <1>14, SymDiffSame DEF HammingCorrect, None
<1>15. CASE e = 5
  <2>1. F(1) = 1 /\ F(2) = 0 /\ F(3) = 1 /\ F(4) = 1 BY <1>3, <1>15
  <2>2. Syndrome(Hamming_13_9, {e}) = 13 BY <1>2, <2>1
  <2>3. Hamming_13_9.pos[13] = e BY <1>15 DEF Hamming_13_9
  <2> QED BY <2>2, <2>3, <1>15, SymDiffSame DEF HammingCorrect, None
<1>16. CASE e = 6
  <2>1. F(1) = 1 /\ F(2) = 1 /\ F(3) = 0 /\ F(4) = 0 BY <1>3, <1>16
  <2>2. Syndrome(Hamming_13_9, {e}) = 3 BY <1>2, <2>1
  <2>3. Hamming_13_9.pos[3] = e BY <1>16 DEF Hamming_13_9
  <2> QED BY <2>2, <2>3, <1>16, SymDiffSame DEF HammingCorrect, None
<1>17. CASE e = 7
  <2>1. F(1) = 0 /\ F(2) = 1 /\ F(3) = 1 /\ F(4) = 0 BY <1>3, <1>17
  <2>2. Syndrome(Hamming_13_9, {e}) = 6 BY <1>2, <2>1
  <2>3. Hamming_13_9.pos[6] = e BY <1>17 DEF Hamming_13_9
  <2> QED BY <2>2, <2>3, <1>17, SymDiffSame DEF HammingCorrect, None
<1>18. CASE e = 8
  <2>1. F(1) = 0 /\ F(2) = 0 /\ F(3) = 1 /\ F(4) = 1 BY <1>3, <1>18
  <2>2. Syndrome(Hamming_13_9, {e}) = 12 BY <1>2, <2>1
  <2>3. Hamming_13_9.pos[12] = e BY <1>18 DEF Hamming_13_9
  <2> QED BY <2>2, <2>3, <1>18, SymDiffSame DEF HammingCorrect, None
<1>19. CASE e = 9
  <2>1. F(1) = 1 /\ F(2) = 0 /\ F(3) = 0 /\ F(4) = 0 BY <1>3, <1>19
  <2>2. Syndrome(Hamming_13_9, {e}) = 1 BY <1>2, <2>1
  <2>3. Hamming_13_9.pos[1] = e BY <1>19 DEF Hamming_13_9
  <2> QED BY <2>2, <2>3, <1>19, SymDiffSame DEF HammingCorrect, None
<1>20. CASE e = 10
  <2>1. F(1) = 0 /\ F(2) = 1 /\ F(3) = 0 /\ F(4) = 0 BY <1>3, <1>20
  <2>2. Syndrome(Hamming_13_9, {e}) = 2 BY <1>2, <2>1
  <2>3. Hamming_13_9.pos[2] = e BY <1>20 DEF Hamming_13_9
  <2> QED BY <2>2, <2>3, <1>20, SymDiffSame DEF HammingCorrect, None
<1>21. CASE e = 11
  <2>1. F(1) = 0 /\ F(2) = 0 /\ F(3) = 1 /\ F(4) = 0 BY <1>3, <1>21
  <2>2. Syndrome(Hamming_13_9, {e}) = 4 BY <1>2, <2>1
  <2>3. Hamming_13_9.pos[4] = e BY <1>21 DEF Hamming_13_9
  <2> QED BY <2>2, <2>3, <1>21, SymDiffSame DEF HammingCorrect, None
<1>22. CASE e = 12
  <2>1. F(1) = 0 /\ F(2) = 0 /\ F(3) = 0 /\ F(4) = 1 BY <1>3, <1>22
  <2>2. Syndrome(Hamming_13_9, {e}) = 8 BY <1>2, <2>1
  <2>3. Hamming_13_9.pos[8] = e BY <1>22 DEF Hamming_13_9
  <2> QED BY <2>2, <2>3, <1>22, SymDiffSame DEF HammingCorrect, None
<1> QED BY <1>10, <1>11, <1>12, <1>13, <1>14, <1>15, <1>16, <1>17, <1>18, <1>19, <1>20, <1>21, <1>22

LEMMA CorrectOne16 ==
  ASSUME NEW e \in 0 .. 15 PROVE HammingCorrect(Hamming_16_11, {e}) = {}
<1> DEFINE F(c) == Fails(Hamming_16_11, {e}, c)
<1>1. ASSUME NEW c \in 1 .. 5
      PROVE  F(c) = IF 11 + c - 1 = e <=> e \in Hamming_16_11.checks[c] THEN 0 ELSE 1
  <2>1. DOMAIN Hamming_16_11.checks = 1 .. 5 /\ Hamming_16_11.k = 11 BY Codes16
  <2>3. c \in Failing(Hamming_16_11, {e}) <=>
          /\ c \in DOMAIN Hamming_16_11.checks
          /\ ~(Hamming_16_11.k + c - 1 = e <=> e \in Hamming_16_11.checks[c])
    BY FailingOne
  <2>2. c \in Failing(Hamming_16_11, {e}) <=> ~(11 + c - 1 = e <=> e \in Hamming_16_11.checks[c])
    BY <2>1, <2>3
  <2> QED BY <2>2 DEF Fails
<1>2. Syndrome(Hamming_16_11, {e}) = 16 * F(5) + 8 * F(4) + 4 * F(3) + 2 * F(2) + F(1)
  BY Codes16, SyndromeOfFive
<1> HIDE DEF F
<1>3. /\ F(1) = IF 11 = e <=> e \in {0, 1, 2, 3, 5, 7, 8} THEN 0 ELSE 1
      /\ F(2) = IF 12 = e <=> e \in {1, 2, 3, 4, 6, 8, 9} THEN 0 ELSE 1
      /\ F(3) = IF 13 = e <=> e \in {2, 3, 4, 5, 7, 9, 10} THEN 0 ELSE 1
      /\ F(4) = IF 14 = e <=> e \in {0, 1, 2, 4, 6, 7, 10} THEN 0 ELSE 1
      /\ F(5) = IF 15 = e <=> e \in {0, 2, 5, 6, 8, 9, 10} THEN 0 ELSE 1
  <2>1. F(1) = IF 11 = e <=> e \in Hamming_16_11.checks[1] THEN 0 ELSE 1 BY <1>1
  <2>2. F(2) = IF 12 = e <=> e \in Hamming_16_11.checks[2] THEN 0 ELSE 1 BY <1>1
  <2>3. F(3) = IF 13 = e <=> e \in Hamming_16_11.checks[3] THEN 0 ELSE 1 BY <1>1
  <2>4. F(4) = IF 14 = e <=> e \in Hamming_16_11.checks[4] THEN 0 ELSE 1 BY <1>1
  <2>5. F(5) = IF 15 = e <=> e \in Hamming_16_11.checks[5] THEN 0 ELSE 1 BY <1>1
  <2> QED BY <2>1, <2>2, <2>3, <2>4, <2>5, Codes16
<1>10. CASE e = 0
  <2>1. F(1) = 1 /\ F(2) = 0 /\ F(3) = 0 /\ F(4) = 1 /\ F(5) = 1 BY <1>3, <1>10
  <2>2. Syndrome(Hamming_16_11, {e}) = 25 BY <1>2, <2>1
  <2>3. Hamming_16_11.pos[25] = e BY <1>10 DEF Hamming_16_11
  <2> QED BY <2>2, <2>3, <1>10, SymDiffSame DEF HammingCorrect, None
<1>11. CASE e = 1
  <2>1. F(1) = 1 /\ F(2) = 1 /\ F(3) = 0 /\ F(4) = 1 /\ F(5) = 0 BY <1>3, <1>11
  <2>2. Syndrome(Hamming_16_11, {e}) = 11 BY <1>2, <2>1
  <2>3. Hamming_16_11.pos[11] = e BY <1>11 DEF Hamming_16_11
  <2> QED BY <2>2, <2>3, <1>11, SymDiffSame DEF HammingCorrect, None
<1>12. CASE e = 2
  <2>1. F(1) = 1 /\ F(2) = 1 /\ F(3) = 1 /\ F(4) = 1 /\ F(5) = 1 BY <1>3, <1>12
  <2>2. Syndrome(Hamming_16_11, {e}) = 31 BY <1>2, <2>1
  <2>3. Hamming_16_11.pos[31] = e BY <1>12 DEF Hamming_16_11
  <2> QED BY <2>2, <2>3, <1>12, SymDiffSame DEF HammingCorrect, None
<1>13. CASE e = 3
  <2>1. F(1) = 1 /\ F(2) = 1 /\ F(3) = 1 /\ F(4) = 0 /\ F(5) = 0 BY <1>3, <1>13
  <2>2. Syndrome(Hamming_16_11, {e}) = 7 BY <1>2, <2>1
  <2>3. Hamming_16_11.pos[7] = e BY <1>13 DEF Hamming_16_11
  <2> QED BY <2>2, <2>3, <1>13, SymDiffSame DEF HammingCorrect, None
<1>14. CASE e = 4
  <2>1. F(1) = 0 /\ F(2) = 1 /\ F(3) = 1 /\ F(4) = 1 /\ F(5) = 0 BY <1>3, <1>14
  <2>2. Syndrome(Hamming_16_11, {e}) = 14 BY <1>2, <2>1
  <2>3. Hamming_16_11.pos[14] = e BY <1>14 DEF Hamming_16_11
  <2> QED BY <2>2, <2>3, <1>14, SymDiffSame DEF HammingCorrect, None
<1>15. CASE e = 5
  <2>1. F(1) = 1 /\ F(2) = 0 /\ F(3) = 1 /\ F(4) = 0 /\ F(5) = 1 BY <1>3, <1>15
  <2>2. Syndrome(Hamming_16_11, {e}) = 21 BY <1>2, <2>1
  <2>3. Hamming_16_11.pos[21] = e BY <1>15 DEF Hamming_16_11
  <2> QED BY <2>2, <2>3, <1>15, SymDiffSame DEF HammingCorrect, None
<1>16. CASE e = 6
  <2>1. F(1) = 0 /\ F(2) = 1 /\ F(3) = 0 /\ F(4) = 1 /\ F(5) = 1 BY <1>3, <1>16
  <2>2. Syndrome(Hamming_16_11, {e}) = 26 BY <1>2, <2>1
  <2>3. Hamming_16_11.pos[26] = e BY <1>16 DEF Hamming_16_11
  <2> QED BY <2>2, <2>3, <1>16, SymDiffSame DEF HammingCorrect, None
<1>17. CASE e = 7
  <2>1. F(1) = 1 /\ F(2) = 0 /\ F(3) = 1 /\ F(4) = 1 /\ F(5) = 0 BY <1>3, <1>17
  <2>2. Syndrome(Hamming_16_11, {e}) = 13 BY <1>2, <2>1
  <2>3. Hamming_16_11.pos[13] = e BY <1>17 DEF Hamming_16_11
  <2> QED BY <2>2, <2>3, <1>17, SymDiffSame DEF HammingCorrect, None
<1>18. CASE e = 8
  <2>1. F(1) = 1 /\ F(2) = 1 /\ F(3) = 0 /\ F(4) = 0 /\ F(5) = 1 BY <1>3, <1>18
  <2>2. Syndrome(Hamming_16_11, {e}) = 19 BY <1>2, <2>1
  <2>3. Hamming_16_11.pos[19] = e BY <1>18 DEF Hamming_16_11
  <2> QED BY <2>2, <2>3, <1>18, SymDiffSame DEF HammingCorrect, None
<1>19. CASE e = 9
  <2>1. F(1) = 0 /\ F(2) = 1 /\ F(3) = 1 /\ F(4) = 0 /\ F(5) = 1 BY <1>3, <1>19
  <2>2. Syndrome(Hamming_16_11, {e}) = 22 BY <1>2, <2>1
  <2>3. Hamming_16_11.pos[22] = e BY <1>19 DEF Hamming_16_11
  <2> QED BY <2>2, <2>3, <1>19, SymDiffSame DEF HammingCorrect, None
<1>20. CASE e = 10
  <2>1. F(1) = 0 /\ F(2) = 0 /\ F(3) = 1 /\ F(4) = 1 /\ F(5) = 1 BY <1>3, <1>20
  <2>2. Syndrome(Hamming_16_11, {e}) = 28 BY <1>2, <2>1
  <2>3. Hamming_16_11.pos[28] = e BY <1>20 DEF Hamming_16_11
  <2> QED BY <2>2, <2>3, <1>20, SymDiffSame DEF HammingCorrect, None
<1>21. CASE e = 11
  <2>1. F(1) = 1 /\ F(2) = 0 /\ F(3) = 0 /\ F(4) = 0 /\ F(5) = 0 BY <1>3, <1>21
  <2>2. Syndrome(Hamming_16_11, {e}) = 1 BY <1>2, <2>1
  <2>3. Hamming_16_11.pos[1] = e BY <1>21 DEF Hamming_16_11
  <2> QED BY <2>2, <2>3, <1>21, SymDiffSame DEF HammingCorrect, None
<1>22. CASE e = 12
  <2>1. F(1) = 0 /\ F(2) = 1 /\ F(3) = 0 /\ F(4) = 0 /\ F(5) = 0 BY <1>3, <1>22
  <2>2. Syndrome(Hamming_16_11, {e}) = 2 BY <1>2, <2>1
  <2>3. Hamming_16_11.pos[2] = e BY <1>22 DEF Hamming_16_11
  <2> QED BY <2>2, <2>3, <1>22, SymDiffSame DEF HammingCorrect, None
<1>23. CASE e = 13
  <2>1. F(1) = 0 /\ F(2) = 0 /\ F(3) = 1 /\ F(4) = 0 /\ F(5) = 0 BY <1>3, <1>23
  <2>2. Syndrome(Hamming_16_11, {e}) = 4 BY <1>2, <2>1
  <2>3. Hamming_16_11.pos[4] = e BY <1>23 DEF Hamming_16_11
  <2> QED BY <2>2, <2>3, <1>23, SymDiffSame DEF HammingCorrect, None
<1>24. CASE e = 14
  <2>1. F(1) = 0 /\ F(2) = 0 /\ F(3) = 0 /\ F(4) = 1 /\ F(5) = 0 BY <1>3, <1>24
  <2>2. Syndrome(Hamming_16_11, {e}) = 8 BY <1>2, <2>1
  <2>3. Hamming_16_11.pos[8] = e BY <1>24 DEF Hamming_16_11
  <2> QED BY <2>2, <2>3, <1>24, SymDiffSame DEF HammingCorrect, None
<1>25. CASE e = 15
  <2>1. F(1) = 0 /\ F(2) = 0 /\ F(3) = 0 /\ F(4) = 0 /\ F(5) = 1 BY <1>3, <1>25
  <2>2. Syndrome(Hamming_16_11, {e}) = 16 BY <1>2, <2>1
  <2>3. Hamming_16_11.pos[16] = e BY <1>25 DEF Hamming_16_11
  <2> QED BY <2>2, <2>3, <1>25, SymDiffSame DEF HammingCorrect, None
<1> QED BY <1>10, <1>11, <1>12, <1>13, <1>14, <1>15, <1>16, <1>17, <1>18, <1>19, <1>20, <1>21, <1>22, <1>23, <1>24, <1>25

LEMMA HammingWithin ==
  ASSUME NEW code, IsCode(code), NEW n \in Nat, code.k + Len(code.checks) = n + 1,
         NEW D, D \subseteq 0 .. code.k - 1
  PROVE  /\ HammingEncode(code, D) \subseteq 0 .. n
         /\ IsFiniteSet(HammingEncode(code, D))
         /\ HammingEncode(code, D) \cap 0 .. code.k - 1 = D
<1>1. code.k \in Nat /\ \A i \in DOMAIN code.checks : i \in Nat /\ i >= 1 /\ i <= Len(code.checks)
  BY DEF IsCode
<1>2. \A i \in DOMAIN code.checks : code.k + i - 1 \in 0 .. n /\ code.k + i - 1 \notin 0 .. code.k - 1
  BY <1>1
<1>3. D \subseteq 0 .. n BY <1>1
<1>4. HammingEncode(code, D) \subseteq 0 .. n BY <1>2, <1>3 DEF HammingEncode
<1>5. HammingEncode(code, D) \cap 0 .. code.k - 1 = D BY <1>2 DEF HammingEncode
<1> QED BY <1>4, <1>5, WithinFinite

\* At most one wrong bit is put right, whatever the word (the three Hamming codes).
LEMMA CorrectsOne16 ==
  ASSUME NEW D, D \subseteq 0 .. 10, NEW e, NEW E, E \subseteq {e}, E \subseteq 0 .. 15
  PROVE  /\ HammingCorrect(Hamming_16_11, SymDiff(HammingEncode(Hamming_16_11, D), E)) =
              HammingEncode(Hamming_16_11, D)
         /\ HammingEncode(Hamming_16_11, D) # HammingError
         /\ HammingEncode(Hamming_16_11, D) \subseteq 0 .. 15
         /\ HammingEncode(Hamming_16_11, D) \cap 0 .. 10 = D
<1> DEFINE code == Hamming_16_11
           H == HammingEncode(code, D)
<1>1. IsCode(code) /\ code.k = 11 /\ Len(code.checks) = 5 BY AreCodes, Codes16
<1>2. /\ H \subseteq 0 .. 15 /\ IsFiniteSet(H) /\ H \cap 0 .. 10 = D
  <2> HIDE DEF code
  <2>1. D \subseteq 0 .. code.k - 1 /\ 0 .. code.k - 1 = 0 .. 10 BY <1>1
  <2>2. \A n \in Nat : code.k + Len(code.checks) = n + 1 =>
          /\ HammingEncode(code, D) \subseteq 0 .. n
          /\ IsFiniteSet(HammingEncode(code, D))
          /\ HammingEncode(code, D) \cap 0 .. code.k - 1 = D
    BY <1>1, <2>1, HammingWithin
  <2>3. code.k + Len(code.checks) = 15 + 1 BY <1>1
  <2> QED BY <2>1, <2>2, <2>3
<1>3. E = {} \/ \E x \in 0 .. 15 : E = {x} OBVIOUS
<1>4. HammingCorrect(code, E) = {}
  <2>1. CASE E = {} BY <2>1, <1>1, CorrectNone
  <2>2. CASE \E x \in 0 .. 15 : E = {x} BY <2>2, CorrectOne16
  <2> QED BY <1>3, <2>1, <2>2
<1>5. IsFiniteSet(E) /\ E \subseteq Nat /\ H \subseteq Nat
  <2>1. \A n \in Nat : E \subseteq 0 .. n => IsFiniteSet(E) BY WithinFinite
  <2> HIDE DEF H
  <2> QED BY <1>2, <2>1
<1>6. {} # HammingError BY DEF HammingError
<1> HIDE DEF code, H
<1>10. D \subseteq 0 .. code.k - 1 BY <1>1
<1>7. /\ HammingCorrect(code, SymDiff(H, E)) = SymDiff(H, {})
  BY <1>1, <1>2, <1>4, <1>5, <1>6, <1>10, CorrectOfDamage DEF H
<1>8. SymDiff(H, {}) = H BY SymDiffNone
<1>9. H # HammingError BY <1>5 DEF HammingError, None
<1> QED BY <1>2, <1>7, <1>8, <1>9 DEF H, code

--------------------------------------------------------------------------------
LEMMA SliceMember ==
  ASSUME NEW W, NEW at \in Nat, NEW n \in Nat, NEW i
  PROVE  i \in Slice(W, at, n) <=> i \in 0 .. n - 1 /\ at + i \in W
<1>1. ASSUME i \in Slice(W, at, n) PROVE i \in 0 .. n - 1 /\ at + i \in W
  <2>1. PICK p \in W \cap (at .. at + n - 1) : i = p - at BY <1>1 DEF Slice
  <2>2. p \in Int /\ at + (p - at) = p BY <2>1
  <2> QED BY <2>1, <2>2
<1>2. ASSUME i \in 0 .. n - 1, at + i \in W PROVE i \in Slice(W, at, n)
  <2>1. at + i \in W \cap (at .. at + n - 1) /\ (at + i) - at = i BY <1>2
  <2> QED BY <2>1, Zenon DEF Slice
<1> QED BY <1>1, <1>2

LEMMA PlaceMember ==
  ASSUME NEW W, W \subseteq Int, NEW at \in Int, NEW p \in Int
  PROVE  p \in Place(W, at) <=> p - at \in W
<1>1. ASSUME p \in Place(W, at) PROVE p - at \in W
  <2>1. PICK w \in W : p = at + w BY <1>1 DEF Place
  <2> QED BY <2>1
<1>2. ASSUME p - at \in W PROVE p \in Place(W, at)
  <2>1. p = at + (p - at) OBVIOUS
  <2> QED BY <1>2, <2>1, Zenon DEF Place
<1> QED BY <1>1, <1>2

LEMMA PlaceInt ==
  ASSUME NEW W, W \subseteq Int, NEW at \in Int PROVE Place(W, at) \subseteq Int
BY DEF Place

LEMMA CrcRange == ASSUME NEW lc PROVE Crc5(lc) \in 0 .. 30
<1> DEFINE Part(n) == Number(lc, 8 * (n - 1), 8)
           Step(f) == [n \in 0 .. 9 |-> IF n = 0 THEN 0 ELSE f[n - 1] + Part(n)]
           sum == CHOOSE f : f = Step(f)
           Add(n) == [x \in Nat |-> x + Part(n)]
           G == [n \in 1 .. 9 |-> Add(n)]
<1>1. Crc5(lc) = sum[9] % 31 BY DEF Crc5
<1>2. ASSUME NEW n \in 1 .. 9 PROVE Part(n) \in Nat
  <2>1. 8 * (n - 1) \in Nat OBVIOUS
  <2>2. \A at \in Nat, width \in Nat : Number(lc, at, width) \in Nat BY NumberNat
  <2> QED BY <2>1, <2>2
<1> HIDE DEF Part
<1>3. G \in [1 .. 9 -> [Nat -> Nat]]
  <2>1. ASSUME NEW n \in 1 .. 9 PROVE Add(n) \in [Nat -> Nat] BY <1>2
  <2> HIDE DEF Add
  <2> QED BY <2>1
<1>4. PICK v : Recurs(v, 9, Nat, 0, G)
  <2> HIDE DEF G
  <2>1. \A w \in Nat, a \in Nat : G \in [1 .. w -> [Nat -> Nat]] => \E f : Recurs(f, w, Nat, a, G)
    BY Recursion
  <2> QED BY <1>3, <2>1
<1>5. v = Step(v)
  <2>1. ASSUME NEW n \in 0 .. 9 PROVE v[n] = IF n = 0 THEN 0 ELSE v[n - 1] + Part(n)
    <3>1. CASE n = 0 BY <3>1, <1>4 DEF Recurs
    <3>2. CASE n # 0
      <4>1. n \in 1 .. 9 /\ n - 1 \in 0 .. 9 BY <3>2
      <4>2. v[n] = Add(n)[v[n - 1]] /\ v[n - 1] \in Nat BY <4>1, <1>4 DEF Recurs
      <4> QED BY <4>2, <3>2
    <3> QED BY <3>1, <3>2
  <2>2. v = [n \in 0 .. 9 |-> v[n]] BY <1>4 DEF Recurs
  <2> QED BY <2>1, <2>2, Zenon
<1>6. sum = Step(sum)
  <2> HIDE DEF Step
  <2> QED BY <1>5
<1>7. ASSUME NEW n \in 0 .. 9 PROVE sum[n] = IF n = 0 THEN 0 ELSE sum[n - 1] + Part(n)
  <2>1. sum[n] = Step(sum)[n]
    <3> HIDE DEF Step, sum
    <3> QED BY <1>6, Zenon
  <2> HIDE DEF sum
  <2> QED BY <2>1
<1> HIDE DEF sum, Step
<1>8. sum[0] = v[0] BY <1>4, <1>7 DEF Recurs
<1>9. ASSUME NEW n \in 1 .. 9, sum[n - 1] = v[n - 1] PROVE sum[n] = v[n]
  <2>1. v[n] = v[n - 1] + Part(n)
    <3>1. v[n] = Add(n)[v[n - 1]] /\ v[n - 1] \in Nat BY <1>4 DEF Recurs
    <3> QED BY <3>1
  <2> QED BY <2>1, <1>7, <1>9
<1>10. \A n \in 0 .. 9 : sum[n] = v[n]
  <2>1. \A w \in Nat : (\A n \in 1 .. w : sum[n - 1] = v[n - 1] => sum[n] = v[n]) =>
           \A n \in 0 .. w : sum[n] = v[n]
    BY <1>8, SameRecursion
  <2> QED BY <2>1, <1>9
<1>11. sum[9] \in Nat BY <1>4, <1>10 DEF Recurs
<1> QED BY <1>1, <1>11

\* The row of the matrix with its check bits.
CodedRow(lc, r) == HammingEncode(Hamming_16_11, LcRow(lc, Crc5(lc), r))

LEMMA LcRowMember ==
  ASSUME NEW lc, NEW crc, NEW r \in 0 .. 6, NEW i \in 0 .. 10
  PROVE  /\ r < 2 => (i \in LcRow(lc, crc, r) <=> 11 * r + i \in lc)
         /\ r >= 2 /\ i < 10 => (i \in LcRow(lc, crc, r) <=> 22 + 10 * (r - 2) + i \in lc)
         /\ r >= 2 => (10 \in LcRow(lc, crc, r) <=> r - 2 \in Field(crc, 0, 5))
<1>1. CASE r < 2
  <2>1. LcRow(lc, crc, r) = Slice(lc, 11 * r, 11) BY <1>1 DEF LcRow
  <2>2. 11 * r \in Nat OBVIOUS
  <2>3. \A at \in Nat, n \in Nat : i \in Slice(lc, at, n) <=> i \in 0 .. n - 1 /\ at + i \in lc
    BY SliceMember
  <2>4. i \in Slice(lc, 11 * r, 11) <=> i \in 0 .. 11 - 1 /\ 11 * r + i \in lc
    BY <2>2, <2>3
  <2> QED BY <1>1, <2>1, <2>4
<1>2. CASE r >= 2
  <2> DEFINE S == Slice(lc, 22 + 10 * (r - 2), 10)
  <2>1. LcRow(lc, crc, r) = S \cup IF r - 2 \in Field(crc, 0, 5) THEN {10} ELSE {}
    BY <1>2 DEF LcRow
  <2>2. 22 + 10 * (r - 2) \in Nat BY <1>2
  <2>3. \A at \in Nat, n \in Nat : \A j : j \in Slice(lc, at, n) <=> j \in 0 .. n - 1 /\ at + j \in lc
    BY SliceMember
  <2>4. \A j : j \in S <=> j \in 0 .. 10 - 1 /\ 22 + 10 * (r - 2) + j \in lc
    BY <2>2, <2>3
  <2> HIDE DEF S
  <2>5. 10 \notin S BY <2>4
  <2> QED BY <1>2, <2>1, <2>4, <2>5
<1> QED BY <1>1, <1>2

LEMMA LcRowWithin ==
  ASSUME NEW lc, NEW crc, NEW r \in 0 .. 6 PROVE LcRow(lc, crc, r) \subseteq 0 .. 10
<1>1. \A at \in Nat, n \in Nat : \A j : j \in Slice(lc, at, n) <=> j \in 0 .. n - 1 /\ at + j \in lc
  BY SliceMember
<1>2. CASE r < 2
  <2>1. LcRow(lc, crc, r) = Slice(lc, 11 * r, 11) /\ 11 * r \in Nat BY <1>2 DEF LcRow
  <2>2. \A j : j \in Slice(lc, 11 * r, 11) => j \in 0 .. 11 - 1 BY <2>1, <1>1
  <2> QED BY <2>1, <2>2
<1>3. CASE r >= 2
  <2> DEFINE S == Slice(lc, 22 + 10 * (r - 2), 10)
  <2>1. LcRow(lc, crc, r) = S \cup IF r - 2 \in Field(crc, 0, 5) THEN {10} ELSE {}
    BY <1>3 DEF LcRow
  <2>2. 22 + 10 * (r - 2) \in Nat BY <1>3
  <2>3. \A j : j \in S => j \in 0 .. 10 - 1 BY <2>2, <1>1
  <2> HIDE DEF S
  <2> QED BY <2>1, <2>3
<1> QED BY <1>2, <1>3

LEMMA CodedRowWithin ==
  ASSUME NEW lc, NEW r \in 0 .. 6
  PROVE  CodedRow(lc, r) \subseteq 0 .. 15 /\ CodedRow(lc, r) \cap 0 .. 10 = LcRow(lc, Crc5(lc), r)
<1>1. LcRow(lc, Crc5(lc), r) \subseteq 0 .. 10 BY LcRowWithin
<1> DEFINE D == LcRow(lc, Crc5(lc), r)
<1>2. \A E : E \subseteq {0} /\ E \subseteq 0 .. 15 =>
         /\ HammingEncode(Hamming_16_11, D) \subseteq 0 .. 15
         /\ HammingEncode(Hamming_16_11, D) \cap 0 .. 10 = D
  <2> HIDE DEF D
  <2> QED BY <1>1, CorrectsOne16 DEF D
<1>3. /\ HammingEncode(Hamming_16_11, D) \subseteq 0 .. 15
      /\ HammingEncode(Hamming_16_11, D) \cap 0 .. 10 = D
  <2> HIDE DEF D
  <2>1. PICK E : E = {} OBVIOUS
  <2>2. E \subseteq {0} /\ E \subseteq 0 .. 15 BY <2>1
  <2> QED BY <2>2, <1>2
<1> QED BY <1>3 DEF CodedRow

\* Where a row lies in the raw bits.
LEMMA RawRow ==
  ASSUME NEW lc, NEW r \in 0 .. 6, NEW c \in 0 .. 15
  PROVE  RawPosition(r, c) \in EncodeRaw(lc) <=> c \in CodedRow(lc, r)
<1> DEFINE R(q) == {RawPosition(q, d) : d \in HammingEncode(Hamming_16_11, LcRow(lc, Crc5(lc), q))}
           rows == UNION {R(q) : q \in 0 .. 6}
           Column8(d) == {RawPosition(q, d) : q \in 0 .. 6}
           last == {RawPosition(7, d) : d \in {i \in 0 .. 15 : Odd(rows \cap Column8(i))}}
<1>1. EncodeRaw(lc) = rows \cup last BY DEF EncodeRaw
<1>2. RawPosition(r, c) = 8 * c + r BY DEF RawPosition
<1>3. RawPosition(r, c) \notin last
  <2>1. ASSUME NEW d \in 0 .. 15 PROVE RawPosition(7, d) # RawPosition(r, c) BY DEF RawPosition
  <2> QED BY <2>1
<1>4. ASSUME c \in CodedRow(lc, r) PROVE RawPosition(r, c) \in rows
  <2>1. RawPosition(r, c) \in R(r) BY <1>4, Zenon DEF CodedRow
  <2> HIDE DEF R
  <2> QED BY <2>1
<1>5. ASSUME RawPosition(r, c) \in rows PROVE c \in CodedRow(lc, r)
  <2>1. PICK q \in 0 .. 6 : RawPosition(r, c) \in R(q) BY <1>5, Zenon
  <2>2. PICK d \in CodedRow(lc, q) : RawPosition(r, c) = RawPosition(q, d)
    BY <2>1, Zenon DEF CodedRow
  <2>3. d \in 0 .. 15 BY <2>2, CodedRowWithin
  <2>4. q = r /\ d = c BY <2>2, <2>3 DEF RawPosition
  <2> QED BY <2>2, <2>4
<1> HIDE DEF rows, last
<1> QED BY <1>1, <1>3, <1>4, <1>5

LEMMA RawWithin == ASSUME NEW lc PROVE EncodeRaw(lc) \subseteq 0 .. 127
<1> DEFINE R(q) == {RawPosition(q, d) : d \in HammingEncode(Hamming_16_11, LcRow(lc, Crc5(lc), q))}
           rows == UNION {R(q) : q \in 0 .. 6}
           Column8(d) == {RawPosition(q, d) : q \in 0 .. 6}
           last == {RawPosition(7, d) : d \in {i \in 0 .. 15 : Odd(rows \cap Column8(i))}}
<1>1. EncodeRaw(lc) = rows \cup last BY DEF EncodeRaw
<1>2. \A q \in 0 .. 7, d \in 0 .. 15 : RawPosition(q, d) \in 0 .. 127 BY DEF RawPosition
<1>3. ASSUME NEW q \in 0 .. 6 PROVE R(q) \subseteq 0 .. 127
  <2>1. \A d \in HammingEncode(Hamming_16_11, LcRow(lc, Crc5(lc), q)) : d \in 0 .. 15
    BY CodedRowWithin DEF CodedRow
  <2> QED BY <1>2, <2>1
<1>4. last \subseteq 0 .. 127
  <2>1. ASSUME NEW p \in last PROVE p \in 0 .. 127
    <3>1. PICK d \in 0 .. 15 : p = RawPosition(7, d) BY <2>1
    <3>2. 7 \in 0 .. 7 OBVIOUS
    <3> QED BY <3>1, <3>2, <1>2
  <2> QED BY <2>1
<1> HIDE DEF R, last
<1>5. rows \subseteq 0 .. 127 BY <1>3
<1> QED BY <1>1, <1>4, <1>5

\* At most one wrong bit in each row costs nothing.
LEMMA DecodesDamage ==
  ASSUME NEW lc, lc \subseteq 0 .. 71, NEW E, E \subseteq 0 .. 127,
         \A r \in 0 .. 6 : \E e : \A c \in 0 .. 15 : RawPosition(r, c) \in E => c = e
  PROVE  DecodeRaw(SymDiff(EncodeRaw(lc), E)) = lc
<1> DEFINE raw == SymDiff(EncodeRaw(lc), E)
           rows == [r \in 0 .. 6 |->
             HammingCorrect(Hamming_16_11, {c \in 0 .. 15 : RawPosition(r, c) \in raw})]
           Part(r) == IF r < 2 THEN Place(rows[r] \cap 0 .. 10, 11 * r)
                      ELSE Place(rows[r] \cap 0 .. 9, 22 + 10 * (r - 2))
           got == UNION {Part(r) : r \in 0 .. 6}
           crc == {r - 2 : r \in {q \in 2 .. 6 : 10 \in rows[q]}}
<1>1. DecodeRaw(raw) = IF (\E r \in 0 .. 6 : rows[r] = HammingError) \/ Number(crc, 0, 5) # Crc5(got)
                       THEN DecodeError ELSE got
  BY Zenon DEF DecodeRaw
<1>2. ASSUME NEW r \in 0 .. 6 PROVE rows[r] = CodedRow(lc, r) /\ rows[r] # HammingError
  <2> DEFINE H == CodedRow(lc, r)
             D == {c \in 0 .. 15 : RawPosition(r, c) \in E}
  <2>1. H \subseteq 0 .. 15 BY CodedRowWithin
  <2>2. {c \in 0 .. 15 : RawPosition(r, c) \in raw} = SymDiff(H, D)
    <3>1. ASSUME NEW c \in 0 .. 15
          PROVE  RawPosition(r, c) \in raw <=> c \in SymDiff(H, D)
      <4>1. RawPosition(r, c) \in raw <=>
              ~(RawPosition(r, c) \in EncodeRaw(lc) <=> RawPosition(r, c) \in E)
        BY SymDiffMember
      <4>2. c \in SymDiff(H, D) <=> ~(c \in H <=> c \in D) BY SymDiffMember
      <4> QED BY <4>1, <4>2, RawRow
    <3>2. SymDiff(H, D) \subseteq 0 .. 15 BY <2>1 DEF SymDiff
    <3> HIDE DEF raw, H, D
    <3> QED BY <3>1, <3>2
  <2>3. PICK e : D \subseteq {e} OBVIOUS
  <2>4. LcRow(lc, Crc5(lc), r) \subseteq 0 .. 10 BY LcRowWithin
  <2>5. D \subseteq 0 .. 15 OBVIOUS
  <2> HIDE DEF raw, D
  <2>6. HammingCorrect(Hamming_16_11, SymDiff(H, D)) = H /\ H # HammingError
    BY <2>3, <2>4, <2>5, CorrectsOne16 DEF CodedRow
  <2> QED BY <2>2, <2>6
<1> HIDE DEF rows
<1>3. ASSUME NEW r \in 0 .. 6
      PROVE  Part(r) = IF r < 2 THEN lc \cap (11 * r .. 11 * r + 10)
                       ELSE lc \cap (22 + 10 * (r - 2) .. 22 + 10 * (r - 2) + 9)
  <2>1. rows[r] \cap 0 .. 10 = LcRow(lc, Crc5(lc), r) BY <1>2, CodedRowWithin
  <2>2. CASE r < 2
    <3> DEFINE S == rows[r] \cap 0 .. 10
               at == 11 * r
    <3>1. \A i \in 0 .. 10 : i \in S <=> at + i \in lc BY <2>1, <2>2, LcRowMember
    <3>2. S \subseteq Int OBVIOUS
    <3>6. at \in Int OBVIOUS
    <3> HIDE DEF S, at
    <3>3. ASSUME NEW p \in Int PROVE p \in Place(S, at) <=> p \in lc /\ p \in at .. at + 10
      <4>1. p \in Place(S, at) <=> p - at \in S BY <3>2, <3>6, PlaceMember
      <4>2. p - at \in S => p - at \in 0 .. 10 BY DEF S
      <4>3. at + (p - at) = p BY <3>6
      <4> QED BY <4>1, <4>2, <4>3, <3>1, <3>6
    <3>4. Place(S, at) \subseteq Int BY <3>2, <3>6, PlaceInt
    <3>5. Place(S, at) = lc \cap (at .. at + 10) BY <3>3, <3>4, <3>6
    <3> QED BY <3>5, <2>2 DEF S, at
  <2>3. CASE r >= 2
    <3> DEFINE S == rows[r] \cap 0 .. 9
               at == 22 + 10 * (r - 2)
    <3>1. \A i \in 0 .. 9 : i \in S <=> at + i \in lc BY <2>1, <2>3, LcRowMember
    <3>2. S \subseteq Int OBVIOUS
    <3>6. at \in Int OBVIOUS
    <3> HIDE DEF S, at
    <3>3. ASSUME NEW p \in Int PROVE p \in Place(S, at) <=> p \in lc /\ p \in at .. at + 9
      <4>1. p \in Place(S, at) <=> p - at \in S BY <3>2, <3>6, PlaceMember
      <4>2. p - at \in S => p - at \in 0 .. 9 BY DEF S
      <4>3. at + (p - at) = p BY <3>6
      <4> QED BY <4>1, <4>2, <4>3, <3>1, <3>6
    <3>4. Place(S, at) \subseteq Int BY <3>2, <3>6, PlaceInt
    <3>5. Place(S, at) = lc \cap (at .. at + 9) BY <3>3, <3>4, <3>6
    <3>7. ~(r < 2) BY <2>3
    <3> QED BY <3>5, <3>7, Zenon DEF S, at
  <2> QED BY <2>2, <2>3
<1>4. got = lc
  <2> HIDE DEF Part
  <2>1. \A p \in 0 .. 71 : \E r \in 0 .. 6 :
          IF r < 2 THEN p \in 11 * r .. 11 * r + 10
                   ELSE p \in 22 + 10 * (r - 2) .. 22 + 10 * (r - 2) + 9
    <3> SUFFICES ASSUME NEW p \in 0 .. 71
                 PROVE  \E r \in 0 .. 6 :
                          IF r < 2 THEN p \in 11 * r .. 11 * r + 10
                          ELSE p \in 22 + 10 * (r - 2) .. 22 + 10 * (r - 2) + 9
      OBVIOUS
    <3>1. CASE p \in 0 .. 10 BY <3>1, 0 \in 0 .. 6
    <3>2. CASE p \in 11 .. 21 BY <3>2, 1 \in 0 .. 6
    <3>3. CASE p \in 22 .. 31 BY <3>3, 2 \in 0 .. 6
    <3>4. CASE p \in 32 .. 41 BY <3>4, 3 \in 0 .. 6
    <3>5. CASE p \in 42 .. 51 BY <3>5, 4 \in 0 .. 6
    <3>6. CASE p \in 52 .. 61 BY <3>6, 5 \in 0 .. 6
    <3>7. CASE p \in 62 .. 71 BY <3>7, 6 \in 0 .. 6
    <3> QED BY <3>1, <3>2, <3>3, <3>4, <3>5, <3>6, <3>7
  <2>2. ASSUME NEW p \in lc PROVE p \in got
    <3>1. PICK r \in 0 .. 6 :
          IF r < 2 THEN p \in 11 * r .. 11 * r + 10
                   ELSE p \in 22 + 10 * (r - 2) .. 22 + 10 * (r - 2) + 9
      BY <2>1
    <3>2. p \in Part(r) BY <3>1, <1>3
    <3> QED BY <3>2
  <2>3. ASSUME NEW p \in got PROVE p \in lc
    <3>1. PICK r \in 0 .. 6 : p \in Part(r) OBVIOUS
    <3> QED BY <3>1, <1>3
  <2> QED BY <2>2, <2>3
<1>5. Number(crc, 0, 5) = Crc5(lc)
  <2> DEFINE F == Field(Crc5(lc), 0, 5)
  <2>1. ASSUME NEW q \in 2 .. 6 PROVE 10 \in rows[q] <=> q - 2 \in F
    <3>1. q \in 0 .. 6 /\ q >= 2 OBVIOUS
    <3>2. rows[q] \cap 0 .. 10 = LcRow(lc, Crc5(lc), q) BY <1>2, CodedRowWithin, <3>1
    <3>3. 10 \in LcRow(lc, Crc5(lc), q) <=> q - 2 \in F
      <4>1. \A i \in 0 .. 10 : 10 \in LcRow(lc, Crc5(lc), q) <=> q - 2 \in F
        BY <3>1, LcRowMember
      <4> QED BY <4>1
    <3> QED BY <3>2, <3>3
  <2> HIDE DEF F
  <2>2. \A p \in 0 .. 4 : p \in crc <=> p \in F
    <3>1. ASSUME NEW p \in 0 .. 4 PROVE p \in crc <=> p \in F
      <4>1. p + 2 \in 2 .. 6 /\ (p + 2) - 2 = p OBVIOUS
      <4>2. ASSUME p \in F PROVE p \in crc
        <5>1. 10 \in rows[p + 2] BY <2>1, <4>1, <4>2
        <5> QED BY <4>1, <5>1
      <4>3. ASSUME p \in crc PROVE p \in F
        <5>1. PICK q \in 2 .. 6 : 10 \in rows[q] /\ p = q - 2 BY <4>3
        <5> QED BY <5>1, <2>1
      <4> QED BY <4>2, <4>3
    <3> QED BY <3>1
  <2> HIDE DEF crc
  <2>3. Crc5(lc) \in Nat /\ Crc5(lc) < 2 ^ 5 BY CrcRange, Powers
  <2> DEFINE at == 0
             width == 5
  <2>4. at \in Nat /\ width \in 1 .. 24 /\ Crc5(lc) < 2 ^ width BY <2>3
  <2>5. \A p \in at .. at + width - 1 : p \in crc <=> p \in Field(Crc5(lc), at, width)
    BY <2>2 DEF F
  <2>6. Number(crc, at, width) = Crc5(lc)
    <3> HIDE DEF at, width
    <3> QED BY <2>3, <2>4, <2>5, NumberOfField
  <2> QED BY <2>6
<1> HIDE DEF got, crc
<1> QED BY <1>1, <1>2, <1>4, <1>5

LEMMA SpanWithin ==
  ASSUME NEW rows, NEW n \in Int, NEW D, \A d \in D : rows[d + 1] \subseteq 0 .. n
  PROVE  Span(rows, D) \subseteq 0 .. n
BY DEF Span

LEMMA QrWithin == ASSUME NEW D, D \subseteq 0 .. 6 PROVE QrEncode(D) \subseteq 0 .. 15
<1>1. ASSUME NEW d \in 0 .. 6 PROVE QrRows[d + 1] \subseteq 0 .. 15
  <2>1. d \in {0, 1, 2, 3, 4, 5, 6} OBVIOUS
  <2>2. /\ QrRows[1] \subseteq 0 .. 15 /\ QrRows[2] \subseteq 0 .. 15
        /\ QrRows[3] \subseteq 0 .. 15 /\ QrRows[4] \subseteq 0 .. 15
        /\ QrRows[5] \subseteq 0 .. 15 /\ QrRows[6] \subseteq 0 .. 15
        /\ QrRows[7] \subseteq 0 .. 15
    BY DEF QrRows
  <2>3. CASE d = 0 BY <2>2, <2>3
  <2>4. CASE d = 1 BY <2>2, <2>4
  <2>5. CASE d = 2 BY <2>2, <2>5
  <2>6. CASE d = 3 BY <2>2, <2>6
  <2>7. CASE d = 4 BY <2>2, <2>7
  <2>8. CASE d = 5 BY <2>2, <2>8
  <2>9. CASE d = 6 BY <2>2, <2>9
  <2> QED BY <2>1, <2>3, <2>4, <2>5, <2>6, <2>7, <2>8, <2>9
<1>2. \A d \in D : QrRows[d + 1] \subseteq 0 .. 15 BY <1>1
<1>3. Span(QrRows, D) \subseteq 0 .. 15
  <2>1. PICK n \in Int : n = 15 OBVIOUS
  <2>2. \A d \in D : QrRows[d + 1] \subseteq 0 .. n BY <1>2, <2>1
  <2>3. Span(QrRows, D) \subseteq 0 .. n BY <2>2, SpanWithin
  <2> QED BY <2>1, <2>3
<1> QED BY <1>3 DEF QrEncode

LEMMA EmbInfoWithin ==
  ASSUME NEW colour, NEW lcss PROVE EmbInfo(colour, lcss) \subseteq 0 .. 6
<1>1. \A at \in Nat, width \in Nat : \A n : Field(n, at, width) \subseteq at .. at + width - 1
  BY FieldWithin
<1>2. Field(colour, 0, 4) \subseteq 0 .. 0 + 4 - 1 BY <1>1
<1>3. Field(lcss, 5, 2) \subseteq 5 .. 5 + 2 - 1 BY <1>1
<1> QED BY <1>2, <1>3 DEF EmbInfo

\* The sections of a voice burst's middle.
LEMMA SectionMember ==
  ASSUME NEW colour, NEW lcss, NEW fragment, fragment \subseteq 0 .. 31
  PROVE  /\ EmbSection(colour, lcss, fragment) \subseteq 0 .. 47
         /\ \A j \in 0 .. 7 : j \in EmbSection(colour, lcss, fragment) <=>
                                j \in QrEncode(EmbInfo(colour, lcss))
         /\ \A j \in 0 .. 31 : 8 + j \in EmbSection(colour, lcss, fragment) <=> j \in fragment
         /\ \A j \in 0 .. 7 : 40 + j \in EmbSection(colour, lcss, fragment) <=>
                                8 + j \in QrEncode(EmbInfo(colour, lcss))
<1> DEFINE emb == QrEncode(EmbInfo(colour, lcss))
           A == emb \cap 0 .. 7
           B == Place(fragment, 8)
           T == Slice(emb, 8, 8)
           C == Place(T, 40)
           S == EmbSection(colour, lcss, fragment)
<1>1. S = A \cup B \cup C BY DEF EmbSection
<1>2. emb \subseteq 0 .. 15 BY EmbInfoWithin, QrWithin
<1>3. \A i : i \in T <=> i \in 0 .. 8 - 1 /\ 8 + i \in emb
  <2>1. \A at \in Nat, n \in Nat : \A i : i \in Slice(emb, at, n) <=> i \in 0 .. n - 1 /\ at + i \in emb
    BY SliceMember
  <2> QED BY <2>1
<1> HIDE DEF emb, T
<1>4. \A p \in Int : p \in B <=> p - 8 \in fragment
  <2>1. fragment \subseteq Int OBVIOUS
  <2> QED BY <2>1 DEF Place
<1>5. \A p \in Int : p \in C <=> p - 40 \in T
  <2>1. T \subseteq Int BY <1>3
  <2>2. \A at \in Int, p \in Int : p \in Place(T, at) <=> p - at \in T
    BY <2>1, PlaceMember
  <2> QED BY <2>2
<1>6. B \subseteq Int /\ C \subseteq Int
  <2>1. T \subseteq Int /\ fragment \subseteq Int BY <1>3
  <2>2. \A at \in Int : Place(T, at) \subseteq Int /\ Place(fragment, at) \subseteq Int
    BY <2>1, PlaceInt
  <2> QED BY <2>2
<1> HIDE DEF B, C, S
<1>7. S \subseteq 0 .. 47
  <2>1. ASSUME NEW p \in S PROVE p \in 0 .. 47
    <3>1. CASE p \in A BY <3>1
    <3>2. CASE p \in B
      <4>1. p \in Int /\ p - 8 \in 0 .. 31 BY <3>2, <1>4, <1>6
      <4> QED BY <4>1
    <3>3. CASE p \in C
      <4>1. p \in Int /\ p - 40 \in 0 .. 7 BY <3>3, <1>5, <1>6, <1>3
      <4> QED BY <4>1
    <3> QED BY <1>1, <2>1, <3>1, <3>2, <3>3
  <2> QED BY <2>1
<1>8. ASSUME NEW j \in 0 .. 7 PROVE j \in S <=> j \in emb
  <2>1. j \notin B /\ j \notin C
    <3>1. j - 8 \notin 0 .. 31 /\ j - 40 \notin 0 .. 7 OBVIOUS
    <3> QED BY <3>1, <1>3, <1>4, <1>5
  <2> QED BY <2>1, <1>1
<1>9. ASSUME NEW j \in 0 .. 31 PROVE 8 + j \in S <=> j \in fragment
  <2>1. 8 + j \notin A OBVIOUS
  <2>2. 8 + j \notin C
    <3>1. (8 + j) - 40 \notin 0 .. 7 OBVIOUS
    <3> QED BY <3>1, <1>3, <1>5
  <2>3. 8 + j \in B <=> j \in fragment
    <3>1. (8 + j) - 8 = j OBVIOUS
    <3> QED BY <3>1, <1>4
  <2> QED BY <2>1, <2>2, <2>3, <1>1
<1>10. ASSUME NEW j \in 0 .. 7 PROVE 40 + j \in S <=> 8 + j \in emb
  <2>1. 40 + j \notin A OBVIOUS
  <2>2. 40 + j \notin B
    <3>1. (40 + j) - 8 \notin 0 .. 31 OBVIOUS
    <3> QED BY <3>1, <1>4
  <2>3. 40 + j \in C <=> 8 + j \in emb
    <3>1. (40 + j) - 40 = j OBVIOUS
    <3> QED BY <3>1, <1>5, <1>3
  <2> QED BY <2>1, <2>2, <2>3, <1>1
<1> QED BY <1>7, <1>8, <1>9, <1>10 DEF S, emb

\* The cuts of a voice burst.
LEMMA BurstMember ==
  ASSUME NEW ambe, NEW middle, middle \subseteq 0 .. 47,
         \A i \in 1 .. 3 : ambe[i] \subseteq 0 .. 71
  PROVE  /\ \A j \in 0 .. 71 : j \in AssembleBurst(ambe, middle) <=> j \in ambe[1]
         /\ \A j \in 0 .. 35 : 72 + j \in AssembleBurst(ambe, middle) <=> j \in ambe[2]
         /\ \A j \in 0 .. 47 : 108 + j \in AssembleBurst(ambe, middle) <=> j \in middle
         /\ \A j \in 0 .. 35 : 156 + j \in AssembleBurst(ambe, middle) <=> 36 + j \in ambe[2]
         /\ \A j \in 0 .. 71 : 192 + j \in AssembleBurst(ambe, middle) <=> j \in ambe[3]
<1> DEFINE M == AssembleBurst(ambe, middle)
           A == ambe[1]
           B1 == ambe[2] \cap 0 .. 35
           T == Slice(ambe[2], 36, 36)
           B == Place(B1, 72)
           C == Place(middle, 108)
           D == Place(T, 156)
           E == Place(ambe[3], 192)
<1>1. \A p : p \in M <=> p \in A \/ p \in B \/ p \in C \/ p \in D \/ p \in E
  BY DEF AssembleBurst
<1>2. A \subseteq 0 .. 71 /\ ambe[2] \subseteq 0 .. 71 /\ ambe[3] \subseteq 0 .. 71 OBVIOUS
<1>3. \A i : i \in T <=> i \in 0 .. 36 - 1 /\ 36 + i \in ambe[2]
  <2>1. \A at \in Nat, n \in Nat : \A i :
          i \in Slice(ambe[2], at, n) <=> i \in 0 .. n - 1 /\ at + i \in ambe[2]
    BY SliceMember
  <2> QED BY <2>1
<1>4. T \subseteq Int /\ B1 \subseteq Int /\ middle \subseteq Int /\ ambe[3] \subseteq Int
  <2>1. T \subseteq Int
    <3> HIDE DEF T
    <3> QED BY <1>3
  <2> QED BY <2>1, <1>2
<1>5. /\ \A p \in Int : p \in B <=> p - 72 \in B1
      /\ \A p \in Int : p \in C <=> p - 108 \in middle
      /\ \A p \in Int : p \in D <=> p - 156 \in T
      /\ \A p \in Int : p \in E <=> p - 192 \in ambe[3]
  <2> HIDE DEF B1, T
  <2>1. \A p \in Int : p \in B <=> p - 72 \in B1 BY <1>4 DEF Place
  <2>2. \A p \in Int : p \in C <=> p - 108 \in middle BY <1>4 DEF Place
  <2>3. \A p \in Int : p \in D <=> p - 156 \in T BY <1>4 DEF Place
  <2>4. \A p \in Int : p \in E <=> p - 192 \in ambe[3] BY <1>4 DEF Place
  <2> QED BY <2>1, <2>2, <2>3, <2>4
<1>6. \A p \in Int :
        /\ p \in B <=> p - 72 \in ambe[2] /\ p - 72 \in 0 .. 35
        /\ p \in C <=> p - 108 \in middle /\ p - 108 \in 0 .. 47
        /\ p \in D <=> p - 156 \in 0 .. 35 /\ 36 + (p - 156) \in ambe[2]
        /\ p \in E <=> p - 192 \in ambe[3] /\ p - 192 \in 0 .. 71
  <2> SUFFICES ASSUME NEW p \in Int
               PROVE  /\ p \in B <=> p - 72 \in ambe[2] /\ p - 72 \in 0 .. 35
                      /\ p \in C <=> p - 108 \in middle /\ p - 108 \in 0 .. 47
                      /\ p \in D <=> p - 156 \in 0 .. 35 /\ 36 + (p - 156) \in ambe[2]
                      /\ p \in E <=> p - 192 \in ambe[3] /\ p - 192 \in 0 .. 71
    OBVIOUS
  <2>5. p - 72 \in B1 <=> p - 72 \in ambe[2] /\ p - 72 \in 0 .. 35 OBVIOUS
  <2> HIDE DEF B, C, D, E, T, B1
  <2>1. p \in B <=> p - 72 \in B1 BY <1>5
  <2>2. p \in C <=> p - 108 \in middle BY <1>5
  <2>3. p \in D <=> p - 156 \in T BY <1>5
  <2>4. p \in E <=> p - 192 \in ambe[3] BY <1>5
  <2> QED BY <2>1, <2>2, <2>3, <2>4, <2>5, <1>2, <1>3
<1> HIDE DEF A, B, C, D, E, M, B1, T
<1>7. \A p \in Int : p \in A => p \in 0 .. 71 BY <1>2
<1>8. ASSUME NEW j \in 0 .. 71 PROVE j \in M <=> j \in A
  <2>1. j \notin B /\ j \notin C /\ j \notin D /\ j \notin E BY <1>6
  <2> QED BY <2>1, <1>1
<1>9. ASSUME NEW j \in 0 .. 35 PROVE 72 + j \in M <=> j \in ambe[2]
  <2> DEFINE p == 72 + j
  <2>1. p \in Int /\ p - 72 = j OBVIOUS
  <2>2. p \notin A /\ p \notin C /\ p \notin D /\ p \notin E BY <1>6, <1>7
  <2>3. p \in B <=> j \in ambe[2] BY <2>1, <1>6
  <2> HIDE DEF p
  <2>4. p \in M <=> j \in ambe[2] BY <2>2, <2>3, <1>1
  <2> QED BY <2>4 DEF p
<1>10. ASSUME NEW j \in 0 .. 47 PROVE 108 + j \in M <=> j \in middle
  <2> DEFINE p == 108 + j
  <2>1. p \in Int /\ p - 108 = j OBVIOUS
  <2>2. p \notin A /\ p \notin B /\ p \notin D /\ p \notin E BY <1>6, <1>7
  <2>3. p \in C <=> j \in middle BY <2>1, <1>6
  <2> HIDE DEF p
  <2>4. p \in M <=> j \in middle BY <2>2, <2>3, <1>1
  <2> QED BY <2>4 DEF p
<1>11. ASSUME NEW j \in 0 .. 35 PROVE 156 + j \in M <=> 36 + j \in ambe[2]
  <2> DEFINE p == 156 + j
  <2>1. p \in Int /\ p - 156 = j OBVIOUS
  <2>2. p \notin A /\ p \notin B /\ p \notin C /\ p \notin E BY <1>6, <1>7
  <2>3. p \in D <=> 36 + j \in ambe[2] BY <2>1, <1>6
  <2> HIDE DEF p
  <2>4. p \in M <=> 36 + j \in ambe[2] BY <2>2, <2>3, <1>1
  <2> QED BY <2>4 DEF p
<1>12. ASSUME NEW j \in 0 .. 71 PROVE 192 + j \in M <=> j \in ambe[3]
  <2> DEFINE p == 192 + j
  <2>1. p \in Int /\ p - 192 = j OBVIOUS
  <2>2. p \notin A /\ p \notin B /\ p \notin C /\ p \notin D BY <1>6, <1>7
  <2>3. p \in E <=> j \in ambe[3] BY <2>1, <1>6
  <2> HIDE DEF p
  <2>4. p \in M <=> j \in ambe[3] BY <2>2, <2>3, <1>1
  <2> QED BY <2>4 DEF p
<1> QED BY <1>8, <1>9, <1>10, <1>11, <1>12 DEF A, M

LEMMA FieldOfZero ==
  ASSUME NEW at \in Nat, NEW width \in 1 .. 24 PROVE Field(0, at, width) = {}
<1>1. \A k \in 0 .. 24 : 0 \div 2 ^ k = 0
  <2> SUFFICES ASSUME NEW k \in 0 .. 24 PROVE 0 \div 2 ^ k = 0 OBVIOUS
  <2>1. CASE k = 0 BY <2>1, Powers
  <2>2. CASE k # 0
    <3>1. k \in 1 .. 24 BY <2>2
    <3>2. 0 < 2 ^ k BY PowersPositive
    <3>3. \A n \in Nat : n < 2 ^ k => n \div 2 ^ k = 0 BY <3>1, NoMoreBits
    <3>4. PICK n \in Nat : n = 0 OBVIOUS
    <3> QED BY <3>2, <3>3, <3>4
  <2> QED BY <2>1, <2>2
<1>2. ASSUME NEW i \in 0 .. width - 1 PROVE (0 \div 2 ^ (width - 1 - i)) % 2 # 1
  <2>1. width - 1 - i \in 0 .. 24 OBVIOUS
  <2>2. 0 \div 2 ^ (width - 1 - i) = 0 BY <2>1, <1>1
  <2>3. 0 % 2 # 1 OBVIOUS
  <2> QED BY <2>2, <2>3, Zenon
<1>3. {i \in 0 .. width - 1 : (0 \div 2 ^ (width - 1 - i)) % 2 = 1} = {} BY <1>2
<1> QED BY <1>3, Zenon DEF Field

\* A field nothing was written in reads 0.
LEMMA NumberOfNone ==
  ASSUME NEW W, NEW at \in Nat, NEW width \in 1 .. 24,
         \A p \in at .. at + width - 1 : p \notin W
  PROVE  Number(W, at, width) = 0
<1>1. PICK n \in Nat : n = 0 OBVIOUS
<1>2. Field(n, at, width) = {} BY <1>1, FieldOfZero
<1>3. n < 2 ^ width
  <2>1. width \in 0 .. 24 OBVIOUS
  <2> QED BY <1>1, <2>1, PowersPositive
<1>4. \A p \in at .. at + width - 1 : p \in W <=> p \in Field(n, at, width) BY <1>2
<1>5. Number(W, at, width) = n BY <1>3, <1>4, NumberOfField
<1> QED BY <1>1, <1>5

\* Packed characters: each in seven bits of its own.
\* Fields of seven bits do not overlap.
LEMMA SameSeven ==
  ASSUME NEW at \in Nat, NEW i \in Nat, NEW k \in Nat, NEW j \in 0 .. 6,
         at + 7 * (i - 1) + j \in at + 7 * (k - 1) .. at + 7 * (k - 1) + 6
  PROVE  k = i
OBVIOUS

LEMMA PackMember ==
  ASSUME NEW chars, NEW at \in Nat, NEW i \in Nat \ {0}, NEW j \in 0 .. 6,
         chars \in Seq(Nat)
  PROVE  at + 7 * (i - 1) + j \in PackChars(chars, at) <=>
           /\ i <= Len(chars)
           /\ at + 7 * (i - 1) + j \in Field(chars[i], at + 7 * (i - 1), 7)
<1> DEFINE place(k) == at + 7 * (k - 1)
           F(k) == Field(chars[k], place(k), 7)
           p == at + 7 * (i - 1) + j
<1>1. PackChars(chars, at) = UNION {F(k) : k \in DOMAIN chars} BY DEF PackChars
<1>2. \A k \in DOMAIN chars : k \in Nat /\ k >= 1 /\ k <= Len(chars) OBVIOUS
<1>3. ASSUME NEW k \in Nat \ {0} PROVE F(k) \subseteq place(k) .. place(k) + 6
  <2>1. place(k) \in Nat OBVIOUS
  <2>2. \A a \in Nat, w \in Nat : \A n : Field(n, a, w) \subseteq a .. a + w - 1 BY FieldWithin
  <2>3. F(k) \subseteq place(k) .. place(k) + 7 - 1
    <3> HIDE DEF place
    <3> QED BY <2>1, <2>2
  <2>4. place(k) + 7 - 1 = place(k) + 6 OBVIOUS
  <2> QED BY <2>3, <2>4
<1>4. ASSUME p \in PackChars(chars, at) PROVE i \in DOMAIN chars /\ p \in F(i)
  <2>1. PICK k \in DOMAIN chars : p \in F(k) BY <1>1, <1>4
  <2>2. k \in Nat \ {0} BY <1>2
  <2>3. p \in place(k) .. place(k) + 6 BY <2>1, <2>2, <1>3
  <2>4. k = i BY <2>2, <2>3, SameSeven
  <2> QED BY <2>1, <2>4
<1>5. ASSUME i <= Len(chars), p \in F(i) PROVE p \in PackChars(chars, at)
  <2>1. i \in DOMAIN chars BY <1>5
  <2> HIDE DEF F
  <2> QED BY <1>1, <1>5, <2>1
<1>6. i \in DOMAIN chars => i <= Len(chars) BY <1>2
<1> HIDE DEF F
<1>7. p \in PackChars(chars, at) <=> i <= Len(chars) /\ p \in F(i) BY <1>4, <1>5, <1>6
<1> QED BY <1>7 DEF F

LEMMA PackWithin ==
  ASSUME NEW chars, NEW at \in Nat, chars \in Seq(Nat), NEW n \in Nat, Len(chars) <= n
  PROVE  PackChars(chars, at) \subseteq at .. at + 7 * n - 1
<1> DEFINE place(k) == at + 7 * (k - 1)
           F(k) == Field(chars[k], place(k), 7)
<1>1. PackChars(chars, at) = UNION {F(k) : k \in DOMAIN chars} BY DEF PackChars
<1>2. \A k \in DOMAIN chars : k \in Nat /\ k >= 1 /\ k <= n OBVIOUS
<1>3. ASSUME NEW k \in DOMAIN chars PROVE F(k) \subseteq at .. at + 7 * n - 1
  <2>1. place(k) \in Nat BY <1>2
  <2>2. \A a \in Nat, w \in Nat : \A m : Field(m, a, w) \subseteq a .. a + w - 1 BY FieldWithin
  <2>3. F(k) \subseteq place(k) .. place(k) + 7 - 1
    <3> HIDE DEF place
    <3> QED BY <2>1, <2>2
  <2>4. place(k) >= at /\ place(k) + 7 - 1 <= at + 7 * n - 1 BY <1>2
  <2>5. at + 7 * n - 1 \in Int /\ place(k) + 7 - 1 \in Int BY <2>1
  <2> HIDE DEF place, F
  <2> QED BY <2>1, <2>3, <2>4, <2>5
<1> HIDE DEF F
<1> QED BY <1>1, <1>3

\* Read back where they were written, they are the same; behind the last there is nothing.
LEMMA PackedChar ==
  ASSUME NEW chars, NEW at \in Nat, NEW i \in Nat \ {0}, chars \in Seq(Nat),
         \A k \in DOMAIN chars : chars[k] < 128, NEW W,
         \A p \in at + 7 * (i - 1) .. at + 7 * (i - 1) + 6 : p \in W <=> p \in PackChars(chars, at)
  PROVE  Number(W, at + 7 * (i - 1), 7) = IF i <= Len(chars) THEN chars[i] ELSE 0
<1> DEFINE q == at + 7 * (i - 1)
<1>1. PICK w \in 1 .. 24 : w = 7 OBVIOUS
<1>2. q \in Nat /\ q + w - 1 = q + 6 BY <1>1
<1>3. ASSUME NEW p \in q .. q + w - 1
      PROVE  p \in W <=> i <= Len(chars) /\ p \in Field(chars[i], q, 7)
  <2>1. p \in q .. q + 6 BY <1>2
  <2>2. PICK j \in 0 .. 6 : p = q + j
    <3>1. p - q \in 0 .. 6 /\ p = q + (p - q) BY <2>1, <1>2
    <3> QED BY <3>1
  <2>3. p \in PackChars(chars, at) <=> i <= Len(chars) /\ p \in Field(chars[i], q, 7)
    BY <2>2, PackMember
  <2> QED BY <2>1, <2>3
<1> HIDE DEF q
<1>4. CASE i <= Len(chars)
  <2>1. i \in DOMAIN chars BY <1>4
  <2>2. chars[i] \in Nat /\ chars[i] < 128 BY <2>1
  <2>3. chars[i] < 2 ^ w BY <1>1, <2>2, Powers
  <2>4. \A p \in q .. q + w - 1 : p \in W <=> p \in Field(chars[i], q, w)
    BY <1>1, <1>3, <1>4
  <2>5. Number(W, q, w) = chars[i] BY <1>2, <2>2, <2>3, <2>4, NumberOfField
  <2> QED BY <2>5, <1>1, <1>4 DEF q
<1>5. CASE ~(i <= Len(chars))
  <2>1. \A p \in q .. q + w - 1 : p \notin W BY <1>3, <1>5
  <2>2. Number(W, q, w) = 0 BY <1>2, <2>1, NumberOfNone
  <2> QED BY <2>2, <1>1, <1>5 DEF q
<1> QED BY <1>4, <1>5

\* The character a display should show at place i.
AliasAt(alias, i) == IF i <= Len(alias) THEN alias[i] ELSE 0

Sendable(alias) ==
  alias \in Seq(Nat) /\ Len(alias) <= 31 /\ \A i \in DOMAIN alias : alias[i] < 128

LEMMA Cut ==
  ASSUME NEW text \in Seq(Nat), NEW m \in Nat \ {0}, NEW n \in Nat, n <= Len(text), m <= n + 1
  PROVE  /\ SubSeq(text, m, n) \in Seq(Nat)
         /\ Len(SubSeq(text, m, n)) = n - m + 1
         /\ \A i \in 1 .. n - m + 1 : SubSeq(text, m, n)[i] = text[m + i - 1]
BY SubSeqProperties

\* Three fields that do not meet, and the packed characters behind them.
LEMMA HeaderReads ==
  ASSUME NEW total, NEW head \in Seq(Nat), Len(head) <= 7, \A k \in DOMAIN head : head[k] < 128
  PROVE  /\ AliasHeader(total, head) \subseteq 0 .. 71
         /\ Number(AliasHeader(total, head), 2, 6) = 4
         /\ \A i \in 1 .. 7 : Number(AliasHeader(total, head), 23 + 7 * (i - 1), 7) =
                                IF i <= Len(head) THEN head[i] ELSE 0
<1> DEFINE L == AliasHeader(total, head)
           F1 == Field(4, 2, 6)
           F2 == Field(total, 18, 5)
           P == PackChars(head, 23)
<1>1. L = F1 \cup F2 \cup P BY DEF AliasHeader
<1>2. F1 \subseteq 2 .. 7 /\ F2 \subseteq 18 .. 22
  <2>1. PICK a \in Nat, v \in Nat, b \in Nat, w \in Nat : a = 2 /\ v = 6 /\ b = 18 /\ w = 5 OBVIOUS
  <2>2. Field(4, a, v) \subseteq a .. a + v - 1 BY FieldWithin
  <2>3. Field(total, b, w) \subseteq b .. b + w - 1 BY FieldWithin
  <2>4. F1 = Field(4, a, v) /\ F2 = Field(total, b, w) BY <2>1
  <2>5. a + v - 1 = 7 /\ b + w - 1 = 22 BY <2>1
  <2> HIDE DEF F1, F2
  <2> QED BY <2>1, <2>2, <2>3, <2>4, <2>5
<1>3. P \subseteq 23 .. 71
  <2>1. PICK at \in Nat, n \in Nat : at = 23 /\ n = 7 OBVIOUS
  <2>2. PackChars(head, at) \subseteq at .. at + 7 * n - 1 BY <2>1, PackWithin
  <2>3. at + 7 * n - 1 = 71 BY <2>1
  <2> QED BY <2>1, <2>2, <2>3
<1> HIDE DEF F1, F2, P, L
<1>4. L \subseteq 0 .. 71
  <2>1. F1 \subseteq 0 .. 71 /\ F2 \subseteq 0 .. 71 /\ P \subseteq 0 .. 71
    <3>1. ASSUME NEW p \in F1 PROVE p \in 0 .. 71
      <4>1. p \in 2 .. 7 BY <1>2
      <4> QED BY <4>1
    <3>2. ASSUME NEW p \in F2 PROVE p \in 0 .. 71
      <4>1. p \in 18 .. 22 BY <1>2
      <4> QED BY <4>1
    <3>3. ASSUME NEW p \in P PROVE p \in 0 .. 71
      <4>1. p \in 23 .. 71 BY <1>3
      <4> QED BY <4>1
    <3> QED BY <3>1, <3>2, <3>3
  <2> QED BY <2>1, <1>1
<1>5. Number(L, 2, 6) = 4
  <2>1. PICK at \in Nat, width \in 1 .. 24, n \in Nat : at = 2 /\ width = 6 /\ n = 4 OBVIOUS
  <2>2. n < 2 ^ width BY <2>1, Powers
  <2>3. \A p \in at .. at + width - 1 : p \in L <=> p \in Field(n, at, width)
    BY <1>1, <1>2, <1>3, <2>1 DEF F1
  <2>4. Number(L, at, width) = n BY <2>2, <2>3, NumberOfField
  <2> QED BY <2>1, <2>4
<1>6. ASSUME NEW i \in 1 .. 7
      PROVE  Number(L, 23 + 7 * (i - 1), 7) = IF i <= Len(head) THEN head[i] ELSE 0
  <2>1. PICK at \in Nat : at = 23 OBVIOUS
  <2>2. \A p \in at + 7 * (i - 1) .. at + 7 * (i - 1) + 6 : p \in L <=> p \in PackChars(head, at)
    BY <1>1, <1>2, <2>1 DEF P
  <2>3. i \in Nat \ {0} OBVIOUS
  <2>4. Number(L, at + 7 * (i - 1), 7) = IF i <= Len(head) THEN head[i] ELSE 0
    BY <2>2, <2>3, PackedChar
  <2> QED BY <2>1, <2>4
<1> QED BY <1>4, <1>5, <1>6 DEF L

LEMMA BlockReads ==
  ASSUME NEW n \in 1 .. 3, NEW chunk \in Seq(Nat), Len(chunk) <= 8,
         \A k \in DOMAIN chunk : chunk[k] < 128
  PROVE  /\ AliasBlock(n, chunk) \subseteq 0 .. 71
         /\ Number(AliasBlock(n, chunk), 2, 6) = 4 + n
         /\ \A i \in 1 .. 8 : Number(AliasBlock(n, chunk), 16 + 7 * (i - 1), 7) =
                                IF i <= Len(chunk) THEN chunk[i] ELSE 0
<1> DEFINE L == AliasBlock(n, chunk)
           F1 == Field(4 + n, 2, 6)
           P == PackChars(chunk, 16)
<1>1. L = F1 \cup P BY DEF AliasBlock
<1>2. F1 \subseteq 2 .. 7
  <2>1. \A m, at \in Nat, width \in Nat : Field(m, at, width) \subseteq at .. at + width - 1
    BY FieldWithin
  <2>2. F1 \subseteq 2 .. 2 + 6 - 1 BY <2>1, SMTT(30)
  <2> HIDE DEF F1
  <2> QED BY <2>2
<1>3. P \subseteq 16 .. 71
  <2>1. PICK at \in Nat, m \in Nat : at = 16 /\ m = 8 OBVIOUS
  <2>2. PackChars(chunk, at) \subseteq at .. at + 7 * m - 1 BY <2>1, PackWithin
  <2>3. at + 7 * m - 1 = 71 BY <2>1
  <2> QED BY <2>1, <2>2, <2>3
<1> HIDE DEF F1, P, L
<1>4. L \subseteq 0 .. 71 BY <1>1, <1>2, <1>3
<1>5. Number(L, 2, 6) = 4 + n
  <2>1. PICK at \in Nat, width \in 1 .. 24, m \in Nat : at = 2 /\ width = 6 /\ m = 4 + n OBVIOUS
  <2>2. m < 2 ^ width BY <2>1, Powers
  <2>3. \A p \in at .. at + width - 1 : p \in L <=> p \in Field(m, at, width)
    BY <1>1, <1>2, <1>3, <2>1 DEF F1
  <2>4. Number(L, at, width) = m BY <2>2, <2>3, NumberOfField
  <2> QED BY <2>1, <2>4
<1>6. ASSUME NEW i \in 1 .. 8
      PROVE  Number(L, 16 + 7 * (i - 1), 7) = IF i <= Len(chunk) THEN chunk[i] ELSE 0
  <2>1. PICK at \in Nat : at = 16 OBVIOUS
  <2>2. \A p \in at + 7 * (i - 1) .. at + 7 * (i - 1) + 6 : p \in L <=> p \in PackChars(chunk, at)
    BY <1>1, <1>2, <2>1 DEF P
  <2>3. i \in Nat \ {0} OBVIOUS
  <2>4. Number(L, at + 7 * (i - 1), 7) = IF i <= Len(chunk) THEN chunk[i] ELSE 0
    BY <2>2, <2>3, PackedChar
  <2> QED BY <2>1, <2>4
<1> QED BY <1>4, <1>5, <1>6 DEF L

\* The header and the block i of an alias.
HeadLc(alias) == AliasHeader(Len(alias), SubSeq(alias, 1, IF Len(alias) < 7 THEN Len(alias) ELSE 7))
BlockLc(alias, i) ==
  AliasBlock(i, SubSeq(alias, 8 * i, IF 8 * i + 7 < Len(alias) THEN 8 * i + 7 ELSE Len(alias)))

LEMMA HeadReads ==
  ASSUME NEW alias, Sendable(alias)
  PROVE  /\ HeadLc(alias) \subseteq 0 .. 71
         /\ Number(HeadLc(alias), 2, 6) = 4
         /\ \A i \in 1 .. 7 : Number(HeadLc(alias), 23 + 7 * (i - 1), 7) = AliasAt(alias, i)
<1> DEFINE m == IF Len(alias) < 7 THEN Len(alias) ELSE 7
           head == SubSeq(alias, 1, m)
<1>1. alias \in Seq(Nat) /\ Len(alias) \in Nat BY DEF Sendable
<1>2. m \in Nat /\ m <= Len(alias) /\ m <= 7 /\ 1 <= m + 1 BY <1>1
<1> HIDE DEF m
<1>3. /\ head \in Seq(Nat) /\ Len(head) = m
      /\ \A i \in 1 .. m : head[i] = alias[i]
  <2>1. PICK a \in Nat \ {0} : a = 1 OBVIOUS
  <2>2. /\ SubSeq(alias, a, m) \in Seq(Nat)
        /\ Len(SubSeq(alias, a, m)) = m - a + 1
        /\ \A i \in 1 .. m - a + 1 : SubSeq(alias, a, m)[i] = alias[a + i - 1]
    BY <1>1, <1>2, <2>1, Cut
  <2>3. m - a + 1 = m /\ \A i \in Int : a + i - 1 = i BY <1>2, <2>1
  <2> QED BY <2>1, <2>2, <2>3
<1> HIDE DEF head
<1>4. \A k \in DOMAIN head : head[k] < 128
  <2>1. ASSUME NEW k \in DOMAIN head PROVE head[k] < 128
    <3>1. k \in 1 .. m /\ k \in DOMAIN alias BY <1>1, <1>2, <1>3
    <3> QED BY <3>1, <1>3 DEF Sendable
  <2> QED BY <2>1
<1>5. HeadLc(alias) = AliasHeader(Len(alias), head) BY DEF HeadLc, head, m
<1>6. /\ AliasHeader(Len(alias), head) \subseteq 0 .. 71
      /\ Number(AliasHeader(Len(alias), head), 2, 6) = 4
      /\ \A i \in 1 .. 7 : Number(AliasHeader(Len(alias), head), 23 + 7 * (i - 1), 7) =
                                IF i <= Len(head) THEN head[i] ELSE 0
  BY <1>2, <1>3, <1>4, HeaderReads
<1>7. ASSUME NEW i \in 1 .. 7 PROVE (IF i <= Len(head) THEN head[i] ELSE 0) = AliasAt(alias, i)
  <2>1. i <= m <=> i <= Len(alias) BY <1>1 DEF m
  <2> QED BY <2>1, <1>2, <1>3 DEF AliasAt
<1> QED BY <1>5, <1>6, <1>7

LEMMA BlockLcReads ==
  ASSUME NEW alias, Sendable(alias), NEW n \in 1 .. Len(alias) \div 8
  PROVE  /\ n \in 1 .. 3
         /\ BlockLc(alias, n) \subseteq 0 .. 71
         /\ Number(BlockLc(alias, n), 2, 6) = 4 + n
         /\ \A i \in 1 .. 8 : Number(BlockLc(alias, n), 16 + 7 * (i - 1), 7) =
                                AliasAt(alias, 8 * n + i - 1)
<1> DEFINE m == IF 8 * n + 7 < Len(alias) THEN 8 * n + 7 ELSE Len(alias)
           a == 8 * n
           chunk == SubSeq(alias, a, m)
<1>1. alias \in Seq(Nat) /\ Len(alias) \in Nat /\ Len(alias) <= 31 BY DEF Sendable
<1>8. n \in 1 .. 3 /\ a <= Len(alias)
  <2>1. n * 8 <= Len(alias) BY <1>1
  <2> QED BY <2>1, <1>1
<1>2. m \in Nat /\ m <= Len(alias) /\ m <= a + 7 /\ a <= m + 1 /\ a \in Nat \ {0} BY <1>1, <1>8
<1>9. m - a + 1 <= 8 /\ m - a + 1 \in Nat BY <1>1, <1>8
<1> HIDE DEF m, a
<1>3. /\ chunk \in Seq(Nat) /\ Len(chunk) = m - a + 1
      /\ \A i \in 1 .. m - a + 1 : chunk[i] = alias[a + i - 1]
  BY <1>1, <1>2, Cut
<1> HIDE DEF chunk
<1>4. \A k \in DOMAIN chunk : chunk[k] < 128
  <2>1. ASSUME NEW k \in DOMAIN chunk PROVE chunk[k] < 128
    <3>1. k \in 1 .. m - a + 1 BY <1>3
    <3>2. a + k - 1 \in DOMAIN alias BY <3>1, <1>1, <1>2
    <3> QED BY <3>1, <3>2, <1>3 DEF Sendable
  <2> QED BY <2>1
<1>5. BlockLc(alias, n) = AliasBlock(n, chunk) BY DEF BlockLc, chunk, m, a
<1>6. /\ AliasBlock(n, chunk) \subseteq 0 .. 71
      /\ Number(AliasBlock(n, chunk), 2, 6) = 4 + n
      /\ \A i \in 1 .. 8 : Number(AliasBlock(n, chunk), 16 + 7 * (i - 1), 7) =
                                IF i <= Len(chunk) THEN chunk[i] ELSE 0
  BY <1>3, <1>4, <1>8, <1>9, BlockReads
<1>7. ASSUME NEW i \in 1 .. 8
      PROVE  (IF i <= Len(chunk) THEN chunk[i] ELSE 0) = AliasAt(alias, 8 * n + i - 1)
  <2>1. i <= m - a + 1 <=> a + i - 1 <= Len(alias) BY <1>1 DEF m, a
  <2> QED BY <2>1, <1>3, <1>9 DEF AliasAt, a
<1> QED BY <1>5, <1>6, <1>7, <1>8

LEMMA BodyReads ==
  ASSUME NEW group, NEW dst, NEW src
  PROVE  /\ LcBody(group, dst, src) \subseteq 0 .. 71
         /\ Number(LcBody(group, dst, src), 2, 6) \in {0, 3}
<1> DEFINE L == LcBody(group, dst, src)
           F1 == IF group THEN {} ELSE {6, 7}
           F2 == Field(dst, 24, 24)
           F3 == Field(src, 48, 24)
<1>1. L = F1 \cup F2 \cup F3 BY DEF LcBody
<1>2. F2 \subseteq 24 .. 47 /\ F3 \subseteq 48 .. 71
  <2>1. PICK a \in Nat, b \in Nat, w \in Nat : a = 24 /\ b = 48 /\ w = 24 OBVIOUS
  <2>2. Field(dst, a, w) \subseteq a .. a + w - 1 BY FieldWithin
  <2>3. Field(src, b, w) \subseteq b .. b + w - 1 BY FieldWithin
  <2>4. F2 = Field(dst, a, w) /\ F3 = Field(src, b, w) BY <2>1
  <2>5. a + w - 1 = 47 /\ b + w - 1 = 71 BY <2>1
  <2> HIDE DEF F2, F3
  <2> QED BY <2>1, <2>2, <2>3, <2>4, <2>5
<1>3. F1 = {} \/ F1 = {6, 7} OBVIOUS
<1> HIDE DEF F1, F2, F3, L
<1>4. L \subseteq 0 .. 71
  <2>1. F1 \subseteq 0 .. 71 BY <1>3
  <2>2. ASSUME NEW p \in F2 PROVE p \in 0 .. 71
    <3>1. p \in 24 .. 47 BY <1>2
    <3> QED BY <3>1
  <2>3. ASSUME NEW p \in F3 PROVE p \in 0 .. 71
    <3>1. p \in 48 .. 71 BY <1>2
    <3> QED BY <3>1
  <2> QED BY <1>1, <2>1, <2>2, <2>3
<1>5. \A p \in 2 .. 7 : p \in L <=> p \in F1
  <2>1. \A p \in 2 .. 7 : p \notin F2 /\ p \notin F3 BY <1>2
  <2> QED BY <1>1, <2>1
<1>6. CASE F1 = {}
  <2>1. PICK at \in Nat, width \in 1 .. 24 : at = 2 /\ width = 6 OBVIOUS
  <2>2. \A p \in at .. at + width - 1 : p \notin L BY <1>5, <1>6, <2>1
  <2>3. Number(L, at, width) = 0 BY <2>2, NumberOfNone
  <2>4. Number(L, 2, 6) \in {0, 3} BY <2>1, <2>3
  <2> QED BY <1>4, <2>4 DEF L
<1>7. CASE F1 = {6, 7}
  <2>1. PICK at \in Nat, width \in 1 .. 24, n \in Nat : at = 2 /\ width = 6 /\ n = 3 OBVIOUS
  <2>2. n < 2 ^ width BY <2>1, Powers
  <2>3. ASSUME NEW p \in at .. at + width - 1 PROVE p \in L <=> p \in Field(n, at, width)
    <3>1. p - 1 \in 1 .. 6 /\ 2 + (p - 1) - 1 = p /\ width \in Nat BY <2>1
    <3>2. p \in Field(n, at, width) <=> (n \div 2 ^ (width - (p - 1))) % 2 = 1
      <4> DEFINE m == p - 1
      <4>1. m \in 1 .. width /\ at + m - 1 = p BY <2>1
      <4> HIDE DEF m
      <4>2. at + m - 1 \in Field(n, at, width) <=> (n \div 2 ^ (width - m)) % 2 = 1
        BY <3>1, <4>1, FieldBit
      <4> QED BY <4>1, <4>2 DEF m
    <3>3. p \in 2 .. 7 /\ width - (p - 1) = 7 - p BY <2>1
    <3>4. p \in L <=> p \in {6, 7} BY <3>3, <1>5, <1>7
    <3>5. CASE p = 7
      <4>1. 2 ^ (7 - p) = 1 BY <3>5, Powers
      <4> QED BY <4>1, <3>2, <3>3, <3>4, <3>5, <2>1
    <3>6. CASE p = 6
      <4>1. 2 ^ (7 - p) = 2 BY <3>6, Powers
      <4> QED BY <4>1, <3>2, <3>3, <3>4, <3>6, <2>1
    <3>7. CASE p \in 2 .. 5
      <4>1. 2 ^ (7 - p) \in {4, 8, 16, 32}
        <5>1. p = 2 => 7 - p = 5 OBVIOUS
        <5>2. p = 3 => 7 - p = 4 OBVIOUS
        <5>3. p = 4 => 7 - p = 3 OBVIOUS
        <5>4. p = 5 => 7 - p = 2 OBVIOUS
        <5>5. 7 - p = 5 \/ 7 - p = 4 \/ 7 - p = 3 \/ 7 - p = 2 BY <3>7
        <5> DEFINE e == 7 - p
        <5>6. e = 5 \/ e = 4 \/ e = 3 \/ e = 2 BY <5>5
        <5> HIDE DEF e
        <5>7. 2 ^ 5 = 32 /\ 2 ^ 4 = 16 /\ 2 ^ 3 = 8 /\ 2 ^ 2 = 4 BY Powers
        <5>8. e = 5 => 2 ^ e = 32 BY <5>7
        <5>9. e = 4 => 2 ^ e = 16 BY <5>7
        <5>10. e = 3 => 2 ^ e = 8 BY <5>7
        <5>11. e = 2 => 2 ^ e = 4 BY <5>7
        <5>12. 2 ^ e \in {4, 8, 16, 32} BY <5>6, <5>8, <5>9, <5>10, <5>11
        <5> QED BY <5>12 DEF e
      <4>2. (n \div 2 ^ (7 - p)) % 2 = 0
        <5> DEFINE q == 2 ^ (7 - p)
        <5>1. q = 4 \/ q = 8 \/ q = 16 \/ q = 32 BY <4>1
        <5> HIDE DEF q
        <5>2. (3 \div q) % 2 = 0
          <6>1. (3 \div 4) % 2 = 0 OBVIOUS
          <6>2. (3 \div 8) % 2 = 0 OBVIOUS
          <6>3. (3 \div 16) % 2 = 0 OBVIOUS
          <6>4. (3 \div 32) % 2 = 0 OBVIOUS
          <6> QED BY <5>1, <6>1, <6>2, <6>3, <6>4
        <5> QED BY <5>2, <2>1 DEF q
      <4> QED BY <4>2, <3>2, <3>3, <3>4, <3>7
    <3> QED BY <3>3, <3>5, <3>6, <3>7
  <2>4. Number(L, at, width) = n BY <2>2, <2>3, NumberOfField
  <2>5. Number(L, 2, 6) \in {0, 3} BY <2>1, <2>4
  <2> QED BY <1>4, <2>5 DEF L
<1> QED BY <1>3, <1>4, <1>6, <1>7 DEF L

\* The rotation: the voice LC, the alias header and its blocks, or the voice LC alone.
Turns(alias) == IF Len(alias) = 0 THEN 1 ELSE 2 + (Len(alias) \div 8)

LEMMA RotationIs ==
  ASSUME NEW lc, NEW alias, Sendable(alias)
  PROVE  /\ Len(LcRotation(lc, alias)) = Turns(alias)
         /\ LcRotation(lc, alias)[1] = lc
         /\ Turns(alias) >= 2 => LcRotation(lc, alias)[2] = HeadLc(alias)
         /\ \A k \in 3 .. Turns(alias) : LcRotation(lc, alias)[k] = BlockLc(alias, k - 2)
         /\ Turns(alias) \in 1 .. 5
<1> DEFINE n == Len(alias)
           blocks == [i \in 1 .. n \div 8 |-> BlockLc(alias, i)]
           rot == LcRotation(lc, alias)
<1>1. /\ n \in Nat /\ n <= 31 /\ alias \in Seq(Nat)
      /\ \A i \in 1 .. n : alias[i] \in Nat /\ alias[i] < 128
  BY DEF Sendable
<1>2. \A i \in 1 .. n : ~(alias[i] > 127) BY <1>1
<1>3. Turns(alias) \in 1 .. 5
  <2>1. n \div 8 \in 0 .. 3 BY <1>1
  <2> QED BY <2>1 DEF Turns
<1>4. CASE n = 0
  <2>1. AliasLcs(alias) = << >> BY <1>4 DEF AliasLcs
  <2>2. rot = << lc >> \o << >> BY <2>1 DEF LcRotation
  <2>3. rot = << lc >> BY <2>2
  <2>4. Turns(alias) = 1 BY <1>4 DEF Turns
  <2> QED BY <2>3, <2>4
<1>5. CASE n # 0
  <2>1. AliasLcs(alias) = << HeadLc(alias) >> \o blocks
    BY <1>1, <1>2, <1>5 DEF AliasLcs, MAX_ALIAS_CHARS, HeadLc, BlockLc
  <2> DEFINE h == HeadLc(alias)
             S == {lc, h} \cup {BlockLc(alias, i) : i \in 1 .. n \div 8}
             d == n \div 8
  <2>2. d \in Nat /\ Turns(alias) = 2 + d BY <1>1, <1>5 DEF Turns
  <2>3. << lc >> \in Seq(S) /\ << h >> \in Seq(S) /\ Len(<< lc >>) = 1 /\ Len(<< h >>) = 1
        /\ << lc >>[1] = lc /\ << h >>[1] = h
    <3>1. lc \in S /\ h \in S OBVIOUS
    <3> HIDE DEF S, h
    <3> QED BY <3>1
  <2>4. blocks \in Seq(S) /\ Len(blocks) = d /\ \A i \in 1 .. d : blocks[i] = BlockLc(alias, i)
    <3>1. \A i \in 1 .. d : BlockLc(alias, i) \in S OBVIOUS
    <3> HIDE DEF S
    <3> QED BY <3>1, <2>2
  <2> HIDE DEF S, h, blocks, d
  <2>5. /\ << h >> \o blocks \in Seq(S)
        /\ Len(<< h >> \o blocks) = 1 + d
        /\ \A i \in 1 .. 1 + d : (<< h >> \o blocks)[i] = IF i <= 1 THEN << h >>[i] ELSE blocks[i - 1]
    BY <2>3, <2>4, ConcatProperties
  <2> DEFINE tail == << h >> \o blocks
  <2>6. rot = << lc >> \o tail BY <2>1 DEF LcRotation, h
  <2> HIDE DEF tail
  <2>7. /\ Len(<< lc >> \o tail) = 1 + (1 + d)
        /\ \A i \in 1 .. 1 + (1 + d) : (<< lc >> \o tail)[i] = IF i <= 1 THEN << lc >>[i] ELSE tail[i - 1]
    BY <2>3, <2>5, ConcatProperties DEF tail
  <2> HIDE DEF rot
  <2>8. Len(rot) = 2 + d /\ rot[1] = lc BY <2>2, <2>3, <2>6, <2>7
  <2>9. rot[2] = h BY <2>2, <2>3, <2>5, <2>6, <2>7 DEF tail
  <2>10. ASSUME NEW k \in 3 .. 2 + d PROVE rot[k] = BlockLc(alias, k - 2)
    <3>1. k \in 1 .. 1 + (1 + d) /\ k - 1 \in 1 .. 1 + d /\ ~(k <= 1) /\ ~(k - 1 <= 1)
          /\ (k - 1) - 1 = k - 2 /\ k - 2 \in 1 .. d
      BY <2>2
    <3>2. rot[k] = tail[k - 1] BY <3>1, <2>6, <2>7
    <3>3. tail[k - 1] = blocks[(k - 1) - 1] BY <3>1, <2>5 DEF tail
    <3> QED BY <3>1, <3>2, <3>3, <2>4
  <2> QED BY <2>2, <2>8, <2>9, <2>10, <1>3 DEF rot, h
<1> QED BY <1>4, <1>5

\* The places of the display that a turn of the rotation writes.
Writes(k) == IF k = 1 THEN {} ELSE IF k = 2 THEN 1 .. 7 ELSE 8 * (k - 2) .. 8 * (k - 2) + 7

LEMMA TurnWithin ==
  ASSUME NEW lc, lc \subseteq 0 .. 71, NEW alias, Sendable(alias), NEW k \in 1 .. Turns(alias)
  PROVE  LcRotation(lc, alias)[k] \subseteq 0 .. 71
<1>1. CASE k = 1
  <2>1. LcRotation(lc, alias)[1] = lc BY RotationIs
  <2> QED BY <1>1, <2>1
<1>2. CASE k = 2
  <2>1. LcRotation(lc, alias)[2] = HeadLc(alias) BY <1>2, RotationIs
  <2> QED BY <1>2, <2>1, HeadReads
<1>3. CASE k \in 3 .. Turns(alias)
  <2>1. LcRotation(lc, alias)[k] = BlockLc(alias, k - 2) BY <1>3, RotationIs
  <2>2. k - 2 \in 1 .. Len(alias) \div 8 BY <1>3 DEF Turns, Sendable
  <2>3. \A n \in 1 .. Len(alias) \div 8 : BlockLc(alias, n) \subseteq 0 .. 71 BY BlockLcReads
  <2> QED BY <2>1, <2>2, <2>3
<1>4. Turns(alias) \in Nat BY RotationIs
<1> QED BY <1>1, <1>2, <1>3, <1>4

\* What the display is once a turn has been heard.
After(alias, k) ==
  IF k = 1 THEN display
  ELSE [i \in DOMAIN display |-> IF i \in Writes(k) THEN AliasAt(alias, i) ELSE display[i]]

LEMMA TurnWritten ==
  ASSUME NEW group, NEW dst, NEW src, NEW alias, Sendable(alias), NEW k \in 1 .. Turns(alias)
  PROVE  Written(LcRotation(LcBody(group, dst, src), alias)[k]) = After(alias, k)
<1> USE DEF After
<1> DEFINE lc == LcBody(group, dst, src)
           L == LcRotation(lc, alias)[k]
<1>1. Turns(alias) \in Nat BY RotationIs
<1>2. lc \subseteq 0 .. 71 BY BodyReads
<1>3. L # DecodeError
  <2>1. L \subseteq 0 .. 71 BY <1>2, TurnWithin
  <2> QED BY <2>1 DEF DecodeError, None
<1>4. CASE k = 1
  <2>1. L = lc BY <1>4, RotationIs
  <2>2. Number(L, 2, 6) \in {0, 3} BY <2>1, BodyReads
  <2> HIDE DEF L
  <2>3. Number(L, 2, 6) \notin 4 .. 7 BY <2>2
  <2>4. Written(L) = display BY <2>3 DEF Written
  <2> QED BY <1>4, <2>4 DEF L
<1>5. CASE k = 2
  <2>1. L = HeadLc(alias) BY <1>5, RotationIs
  <2>2. Number(L, 2, 6) = 4 BY <2>1, HeadReads
  <2>3. \A i \in 1 .. 7 : Number(L, 23 + 7 * (i - 1), 7) = AliasAt(alias, i) BY <2>1, HeadReads
  <2> HIDE DEF L
  <2>4. Written(L) = [i \in DOMAIN display |-> IF i \in 1 .. 1 + 7 - 1
                        THEN Number(L, 23 + 7 * (i - 1), 7) ELSE display[i]]
    BY <1>3, <2>2 DEF Written
  <2>5. ASSUME NEW i \in DOMAIN display
        PROVE  (IF i \in 1 .. 1 + 7 - 1 THEN Number(L, 23 + 7 * (i - 1), 7) ELSE display[i]) =
                 IF i \in Writes(k) THEN AliasAt(alias, i) ELSE display[i]
    BY <1>5, <2>3 DEF Writes
  <2> QED BY <1>5, <2>4, <2>5 DEF L
<1>6. CASE k \in 3 .. Turns(alias)
  <2> DEFINE n == k - 2
             first == 8 * n
  <2>1. L = BlockLc(alias, n) BY <1>6, RotationIs
  <2>2. n \in 1 .. Len(alias) \div 8 BY <1>6 DEF Turns, Sendable
  <2>3. n \in 1 .. 3 /\ Number(L, 2, 6) = 4 + n BY <2>1, <2>2, BlockLcReads
  <2>4. \A i \in 1 .. 8 : Number(L, 16 + 7 * (i - 1), 7) = AliasAt(alias, 8 * n + i - 1)
    BY <2>1, <2>2, BlockLcReads, ZenonT(60)
  <2> HIDE DEF L, n
  <2>5. 4 + n \in 4 .. 7 /\ 4 + n # 4 /\ 8 * ((4 + n) - 4) = first BY <2>3
  <2>6. Written(L) = [i \in DOMAIN display |-> IF i \in first .. first + 8 - 1
                        THEN Number(L, 16 + 7 * (i - first), 7) ELSE display[i]]
    BY <1>3, <2>3, <2>5 DEF Written
  <2>7. ASSUME NEW i \in DOMAIN display
        PROVE  (IF i \in first .. first + 8 - 1 THEN Number(L, 16 + 7 * (i - first), 7) ELSE display[i]) =
                 IF i \in Writes(k) THEN AliasAt(alias, i) ELSE display[i]
    <3>1. Writes(k) = first .. first + 8 - 1 BY <1>6, <2>3 DEF Writes, n
    <3>2. ASSUME i \in first .. first + 8 - 1
          PROVE  Number(L, 16 + 7 * (i - first), 7) = AliasAt(alias, i)
      <4> DEFINE j == i - first + 1
      <4>1. j \in 1 .. 8 /\ j - 1 = i - first /\ 8 * n + j - 1 = i BY <3>2, <2>3
      <4> HIDE DEF j, first
      <4>2. Number(L, 16 + 7 * (j - 1), 7) = AliasAt(alias, 8 * n + j - 1) BY <4>1, <2>4
      <4> QED BY <4>1, <4>2
    <3> QED BY <3>1, <3>2
  <2> HIDE DEF first
  <2>8. k # 1 BY <1>6, <1>1
  <2> QED BY <2>6, <2>7, <2>8 DEF L
<1> QED BY <1>1, <1>4, <1>5, <1>6

--------------------------------------------------------------------------------
(* What the radio hears of a superframe. *)

LEMMA FragmentMember ==
  ASSUME NEW lc, NEW n \in 0 .. 3
  PROVE  /\ Fragments(lc)[n] \subseteq 0 .. 31
         /\ \A j \in 0 .. 31 : j \in Fragments(lc)[n] <=> 32 * n + j \in EncodeRaw(lc)
<1>1. Fragments(lc)[n] = Slice(EncodeRaw(lc), 32 * n, 32) BY DEF Fragments
<1>2. PICK w \in Nat : w = 32 OBVIOUS
<1>3. \A i : i \in Slice(EncodeRaw(lc), 32 * n, w) <=> i \in 0 .. w - 1 /\ 32 * n + i \in EncodeRaw(lc)
  BY SliceMember
<1> QED BY <1>1, <1>2, <1>3

LEMMA MiddleWithin ==
  ASSUME NEW f, NEW v \in 0 .. 5, NEW colour, \A n \in 0 .. 3 : f[n] \subseteq 0 .. 31
  PROVE  Middle(f, v, colour) \subseteq 0 .. 47
<1>1. CASE v = 0
  <2>1. PICK a \in Nat, b \in Nat, w \in Nat : a = 0 /\ b = 24 /\ w = 24 OBVIOUS
  <2>2. \A n : Field(n, a, w) \subseteq a .. a + w - 1 BY FieldWithin
  <2>3. \A n : Field(n, b, w) \subseteq b .. b + w - 1 BY FieldWithin
  <2>4. a + w - 1 = 23 /\ b + w - 1 = 47 BY <2>1
  <2> DEFINE F1 == Field(7692247, 0, 24)
             F2 == Field(14644727, 24, 24)
  <2>5. F1 \subseteq 0 .. 23 BY <2>1, <2>2, <2>4
  <2>6. F2 \subseteq 24 .. 47 BY <2>1, <2>3, <2>4
  <2>7. Middle(f, v, colour) = F1 \cup F2 BY <1>1 DEF Middle, BS_VOICE_SYNC
  <2> HIDE DEF F1, F2
  <2> QED BY <2>5, <2>6, <2>7
<1>2. CASE v \in 1 .. 4
  <2>1. f[v - 1] \subseteq 0 .. 31 BY <1>2
  <2>2. Middle(f, v, colour) = EmbSection(colour, Lcss(v - 1), f[v - 1]) BY <1>2 DEF Middle
  <2> QED BY <2>1, <2>2, SectionMember
<1>3. CASE v = 5
  <2>1. PICK e, l : e = {} /\ l = 0 OBVIOUS
  <2>2. e \subseteq 0 .. 31 BY <2>1
  <2>3. Middle(f, v, colour) = EmbSection(colour, l, e) BY <1>3, <2>1 DEF Middle
  <2>4. EmbSection(colour, l, e) \subseteq 0 .. 47 BY <2>2, SectionMember
  <2> QED BY <2>3, <2>4
<1> QED BY <1>1, <1>2, <1>3

LEMMA AmbeWithin == \A i \in 1 .. 3 : Ambe[i] \subseteq 0 .. 71
BY DEF Ambe, EncodeFrame, ChannelEncode, InterleaveRows

\* The middle of each burst of a superframe.
LEMMA SuperframeMember ==
  ASSUME NEW c, NEW n, NEW b \in 1 .. 6, NEW j \in 0 .. 47
  PROVE  /\ Middle(Fragments(SentLc(c, n)), b - 1, c.colour) \subseteq 0 .. 47
         /\ 108 + j \in Superframe(c, n)[b] <=>
              j \in Middle(Fragments(SentLc(c, n)), b - 1, c.colour)
<1> DEFINE F == Fragments(SentLc(c, n))
           M == Middle(F, b - 1, c.colour)
<1>1. M \subseteq 0 .. 47
  <2>1. \A k \in 0 .. 3 : F[k] \subseteq 0 .. 31 BY FragmentMember
  <2>2. b - 1 \in 0 .. 5 OBVIOUS
  <2> HIDE DEF F
  <2> QED BY <2>1, <2>2, MiddleWithin
<1>2. Superframe(c, n)[b] = AssembleBurst(Ambe, M) BY DEF Superframe
<1> HIDE DEF M
<1>3. \A k \in 0 .. 47 : 108 + k \in AssembleBurst(Ambe, M) <=> k \in M
  BY <1>1, AmbeWithin, BurstMember, ZenonT(60)
<1> QED BY <1>1, <1>2, <1>3 DEF M

\* The raw LC bits in it.
LEMMA SuperframeRaw ==
  ASSUME NEW c, NEW n, NEW b \in 2 .. 5, NEW j \in 0 .. 31
  PROVE  116 + j \in Superframe(c, n)[b] <=> 32 * (b - 2) + j \in EncodeRaw(SentLc(c, n))
<1> DEFINE F == Fragments(SentLc(c, n))
           k == b - 2
<1>1. k \in 0 .. 3 /\ b - 1 = k + 1 /\ b - 1 \in 1 .. 4 /\ (b - 1) - 1 = k OBVIOUS
<1>2. Middle(F, b - 1, c.colour) = EmbSection(c.colour, Lcss(k), F[k]) BY <1>1 DEF Middle
<1>3. F[k] \subseteq 0 .. 31 /\ (j \in F[k] <=> 32 * k + j \in EncodeRaw(SentLc(c, n)))
  BY <1>1, FragmentMember
<1>4. 8 + j \in EmbSection(c.colour, Lcss(k), F[k]) <=> j \in F[k] BY <1>3, SectionMember
<1>5. 8 + j \in 0 .. 47 /\ 108 + (8 + j) = 116 + j /\ b \in 1 .. 6 OBVIOUS
<1>6. 108 + (8 + j) \in Superframe(c, n)[b] <=> 8 + j \in Middle(F, b - 1, c.colour)
  BY <1>5, SuperframeMember
<1> QED BY <1>2, <1>3, <1>4, <1>5, <1>6

\* A fade: a run of adjacent bits of one burst.
FadeShape == fade.burst \in 1 .. 6 /\ fade.at \in Nat /\ fade.len \in Nat

LEMMA HeardMember ==
  ASSUME NEW b, NEW p \in Int, FadeShape
  PROVE  p \in Heard(b) <=>
           ~(p \in bursts[b] <=> b = fade.burst /\ fade.at <= p /\ p < fade.at + fade.len)
<1> DEFINE run == fade.at .. fade.at + fade.len - 1
<1>1. p \in run <=> fade.at <= p /\ p < fade.at + fade.len BY DEF FadeShape
<1> HIDE DEF run
<1>2. CASE b = fade.burst
  <2>1. Heard(b) = SymDiff(bursts[b], run) BY <1>2 DEF Heard, run
  <2> QED BY <1>1, <1>2, <2>1 DEF SymDiff
<1>3. CASE b # fade.burst BY <1>3 DEF Heard
<1> QED BY <1>2, <1>3

\* The damage to the raw LC.
Damage ==
  {p \in 0 .. 127 : /\ p \div 32 + 2 = fade.burst
                    /\ fade.at <= 116 + (p % 32) /\ 116 + (p % 32) < fade.at + fade.len}

HeardRaw == UNION {Place(EmbedBits(ExtractSync(Heard(b))), 32 * (b - 2)) : b \in 2 .. 5}

LEMMA EmbeddedMember ==
  ASSUME NEW burst, NEW j
  PROVE  j \in EmbedBits(ExtractSync(burst)) <=> j \in 0 .. 31 /\ 116 + j \in burst
<1>1. PICK a \in Nat, w \in Nat, x \in Nat, y \in Nat : a = 8 /\ w = 32 /\ x = 108 /\ y = 48 OBVIOUS
<1>2. j \in Slice(ExtractSync(burst), a, w) <=> j \in 0 .. w - 1 /\ a + j \in ExtractSync(burst)
  BY SliceMember
<1>3. a + j \in Slice(burst, x, y) <=> a + j \in 0 .. y - 1 /\ x + (a + j) \in burst BY SliceMember
<1>4. j \in 0 .. w - 1 => a + j \in 0 .. y - 1 /\ x + (a + j) = 116 + j BY <1>1
<1> QED BY <1>1, <1>2, <1>3, <1>4 DEF EmbedBits, ExtractSync

LEMMA HeardRawIs ==
  ASSUME NEW c, NEW n, bursts = Superframe(c, n), FadeShape
  PROVE  HeardRaw = SymDiff(EncodeRaw(SentLc(c, n)), Damage)
<1> DEFINE R == EncodeRaw(SentLc(c, n))
<1>1. ASSUME NEW p \in 0 .. 127
      PROVE  p \in HeardRaw <=> ~(p \in R <=> p \in Damage)
  <2> DEFINE b == p \div 32 + 2
             j == p % 32
  <2>1. b \in 2 .. 5 /\ j \in 0 .. 31 /\ p = 32 * (b - 2) + j OBVIOUS
  <2>2. p \in Damage <=> b = fade.burst /\ fade.at <= 116 + j /\ 116 + j < fade.at + fade.len
    <3>1. \A x \in 0 .. 127 : x \in Damage <=> /\ x \div 32 + 2 = fade.burst
                                               /\ fade.at <= 116 + (x % 32)
                                               /\ 116 + (x % 32) < fade.at + fade.len
      BY DEF Damage
    <3>2. p \in Damage <=> /\ p \div 32 + 2 = fade.burst
                           /\ fade.at <= 116 + (p % 32)
                           /\ 116 + (p % 32) < fade.at + fade.len
      BY <3>1, Zenon
    <3> QED BY <3>2, Zenon
  <2>3. p \in Place(EmbedBits(ExtractSync(Heard(b))), 32 * (b - 2)) <=> 116 + j \in Heard(b)
    <3> DEFINE X == EmbedBits(ExtractSync(Heard(b)))
               at == 32 * (b - 2)
    <3>1. X \subseteq Int BY EmbeddedMember
    <3>2. at \in Int /\ p - at = j BY <2>1
    <3>3. j \in X <=> 116 + j \in Heard(b) BY <2>1, EmbeddedMember
    <3> HIDE DEF X, at, b, j
    <3>5. p \in Int OBVIOUS
    <3>4. p \in Place(X, at) <=> p - at \in X BY <3>1, <3>2, <3>5, PlaceMember
    <3> QED BY <3>2, <3>3, <3>4 DEF X, at
  <2>4. ASSUME NEW d \in 2 .. 5, p \in Place(EmbedBits(ExtractSync(Heard(d))), 32 * (d - 2))
        PROVE  d = b
    <3> DEFINE X == EmbedBits(ExtractSync(Heard(d)))
               at == 32 * (d - 2)
    <3>1. X \subseteq Int BY EmbeddedMember
    <3>2. at \in Int OBVIOUS
    <3>3. p - at \in X BY <3>1, <3>2, <2>4, PlaceMember
    <3>4. p - at \in 0 .. 31 BY <3>3, EmbeddedMember
    <3> QED BY <3>4
  <2> HIDE DEF b, j
  <2>5. p \in HeardRaw <=> 116 + j \in Heard(b) BY <2>1, <2>3, <2>4 DEF HeardRaw
  <2>6. 116 + j \in Superframe(c, n)[b] <=> p \in R BY <2>1, SuperframeRaw
  <2>7. 116 + j \in Heard(b) <=>
          ~(116 + j \in bursts[b] <=> b = fade.burst /\ fade.at <= 116 + j /\ 116 + j < fade.at + fade.len)
    <3>1. 116 + j \in Int BY <2>1
    <3> QED BY <3>1, HeardMember
  <2> QED BY <2>2, <2>5, <2>6, <2>7
<1>2. ASSUME NEW p, p \in HeardRaw PROVE p \in 0 .. 127
  <2>1. PICK d \in 2 .. 5 : p \in Place(EmbedBits(ExtractSync(Heard(d))), 32 * (d - 2))
    BY <1>2 DEF HeardRaw
  <2> DEFINE X == EmbedBits(ExtractSync(Heard(d)))
             at == 32 * (d - 2)
  <2>2. \A i \in X : i \in 0 .. 31 BY EmbeddedMember
  <2>3. at \in Int /\ at \in 0 .. 96 OBVIOUS
  <2> HIDE DEF X, at
  <2>4. PICK i \in X : p = at + i BY <2>1 DEF Place, X, at
  <2> QED BY <2>2, <2>3, <2>4
<1>3. R \subseteq 0 .. 127 BY RawWithin
<1>4. Damage \subseteq 0 .. 127 BY DEF Damage
<1> HIDE DEF R
<1>5. ASSUME NEW p PROVE p \in HeardRaw <=> p \in SymDiff(R, Damage)
  <2>1. p \in SymDiff(R, Damage) <=> ~(p \in R <=> p \in Damage) BY SymDiffMember
  <2> QED BY <2>1, <1>1, <1>2, <1>3, <1>4
<1> QED BY <1>5 DEF R

\* The column order puts eight bits in a row into eight rows.
LEMMA RowsHitOnce ==
  ASSUME FadeShape, fade.len <= 8, NEW r \in 0 .. 6
  PROVE  \E e : \A c \in 0 .. 15 : RawPosition(r, c) \in Damage => c = e
<1>1. ASSUME NEW c \in 0 .. 15, NEW d \in 0 .. 15,
             RawPosition(r, c) \in Damage, RawPosition(r, d) \in Damage
      PROVE  c = d
  <2> DEFINE p == 8 * c + r
             q == 8 * d + r
  <2>1. p \in 0 .. 127 /\ q \in 0 .. 127 OBVIOUS
  <2>2. /\ p \div 32 + 2 = fade.burst /\ q \div 32 + 2 = fade.burst
        /\ fade.at <= 116 + (p % 32) /\ 116 + (p % 32) < fade.at + fade.len
        /\ fade.at <= 116 + (q % 32) /\ 116 + (q % 32) < fade.at + fade.len
    BY <1>1 DEF Damage, RawPosition
  <2>3. p = 32 * (p \div 32) + (p % 32) /\ q = 32 * (q \div 32) + (q % 32)
    <3>1. ASSUME NEW x \in Nat PROVE x = 32 * (x \div 32) + (x % 32) BY SMT
    <3> HIDE DEF p, q
    <3>2. p \in Nat /\ q \in Nat BY <2>1
    <3> QED BY <3>1, <3>2
  <2>4. p \div 32 = q \div 32
    <3>1. p \div 32 \in Int /\ q \div 32 \in Int BY <2>1
    <3> QED BY <3>1, <2>2
  <2>5. p - q = (p % 32) - (q % 32)
    <3> DEFINE x == p \div 32
               y == q \div 32
               u == p % 32
               v == q % 32
    <3>1. x \in Int /\ u \in Int /\ v \in Int /\ p \in Int /\ q \in Int BY <2>1
    <3>2. p = 32 * x + u /\ q = 32 * y + v /\ x = y BY <2>3, <2>4
    <3> HIDE DEF p, q, x, y, u, v
    <3>3. p - q = u - v BY <3>1, <3>2
    <3> QED BY <3>3 DEF u, v
  <2>6. p - q < 8 /\ q - p < 8
    <3> DEFINE u == p % 32
               v == q % 32
    <3>1. u \in Int /\ v \in Int /\ p \in Int /\ q \in Int BY <2>1
    <3>2. /\ fade.at <= 116 + u /\ 116 + u < fade.at + fade.len
          /\ fade.at <= 116 + v /\ 116 + v < fade.at + fade.len
      BY <2>2
    <3>3. p - q = u - v BY <2>5
    <3> HIDE DEF p, q, u, v
    <3> QED BY <3>1, <3>2, <3>3 DEF FadeShape
  <2>7. p - q = 8 * (c - d) OBVIOUS
  <2> HIDE DEF p, q
  <2> QED BY <2>6, <2>7, <2>1
<1>2. CASE \E c \in 0 .. 15 : RawPosition(r, c) \in Damage
  <2>1. PICK e \in 0 .. 15 : RawPosition(r, e) \in Damage BY <1>2
  <2> QED BY <2>1, <1>1
<1>3. CASE ~\E c \in 0 .. 15 : RawPosition(r, c) \in Damage BY <1>3
<1> QED BY <1>2, <1>3

--------------------------------------------------------------------------------
(* The specification's state. *)

Bursts(u) == IF IsVoice(u) THEN 1 .. 6 ELSE {1}

AirType ==
  /\ call \in Calls
  /\ unit \in 0 .. Terminator
  /\ bursts = UnitBursts(call, unit)
  /\ fade \in [burst : Nat, at : Nat, len : Nat]
  /\ fade.burst \in Bursts(unit)
  /\ fade.len <= MaxFade
  /\ fade.len > 0 => fade.at \in Reach(fade.burst) /\ fade.at + fade.len - 1 \in Reach(fade.burst)

LEMMA UnitDomain ==
  ASSUME NEW c, NEW u PROVE DOMAIN UnitBursts(c, u) = Bursts(u)
<1>1. CASE IsVoice(u)
  <2>1. UnitBursts(c, u) = Superframe(c, u) BY <1>1 DEF UnitBursts
  <2>2. DOMAIN Superframe(c, u) = 1 .. 6 BY DEF Superframe
  <2> QED BY <1>1, <2>1, <2>2 DEF Bursts
<1>2. CASE ~IsVoice(u)
  <2>1. UnitBursts(c, u) = << ControlBurst(c, u = Terminator) >> BY <1>2 DEF UnitBursts
  <2> DEFINE B == ControlBurst(c, u = Terminator)
  <2> HIDE DEF B
  <2>2. DOMAIN << B >> = {1} OBVIOUS
  <2> QED BY <1>2, <2>1, <2>2 DEF Bursts, B
<1> QED BY <1>1, <1>2

LEMMA ReachInt == \A b : \A p \in Reach(b) : p \in 0 .. 263
<1>1. ASSUME NEW b, NEW p \in Reach(b) PROVE p \in 0 .. 263
  <2>1. CASE b = 1 BY <1>1, <2>1 DEF Reach, BurstBits
  <2>2. CASE b # 1 BY <1>1, <2>2 DEF Reach
  <2> QED BY <2>1, <2>2
<1> QED BY <1>1

LEMMA NoFadeFits == ASSUME NEW u PROVE NoFade \in [burst : Nat, at : Nat, len : Nat]
                                    /\ NoFade.burst \in Bursts(u) /\ NoFade.len = 0
BY DEF NoFade, Bursts

LEMMA TypeInit == Init => AirType
<1> SUFFICES ASSUME Init PROVE AirType OBVIOUS
<1>1. Superframes \in Nat /\ MaxFade \in Nat BY AirAssumption
<1>2. unit \in 0 .. Terminator BY <1>1 DEF Init, Terminator
<1> QED BY <1>1, <1>2, NoFadeFits DEF Init, AirType

LEMMA TypeStep == AirType /\ [Next]_vars => AirType'
<1> SUFFICES ASSUME AirType, [Next]_vars PROVE AirType' OBVIOUS
<1>1. Superframes \in Nat /\ MaxFade \in Nat \ {0} BY AirAssumption
<1>2. CASE Send
  <2>1. unit' \in 0 .. Terminator BY <1>1, <1>2 DEF Send, AirType, Terminator
  <2>2. call' = call /\ unit' = unit + 1 /\ bursts' = UnitBursts(call, unit + 1) /\ fade' = NoFade
    BY <1>2 DEF Send
  <2> QED BY <2>1, <2>2, <1>1, NoFadeFits DEF AirType, Bursts, IsVoice
<1>3. CASE Strike
  <2>10. PICK b \in DOMAIN bursts : \E p \in Reach(b) : fade' = [burst |-> b, at |-> p, len |-> 1]
    BY <1>3 DEF Strike
  <2>1. PICK p \in Reach(b) : fade' = [burst |-> b, at |-> p, len |-> 1]
    BY <2>10
  <2>2. b \in Bursts(unit) BY <2>1, UnitDomain DEF AirType
  <2>3. b \in Nat BY <2>2 DEF Bursts
  <2>4. p \in Nat BY ReachInt
  <2>5. fade'.burst = b /\ fade'.at = p /\ fade'.len = 1 BY <2>1
  <2>6. fade' \in [burst : Nat, at : Nat, len : Nat] BY <2>1, <2>3, <2>4
  <2>7. p + 1 - 1 = p BY <2>4
  <2>8. call' = call /\ unit' = unit /\ bursts' = bursts BY <1>3 DEF Strike
  <2>9. fade'.len <= MaxFade BY <1>1, <2>5
  <2> QED BY <2>2, <2>5, <2>6, <2>7, <2>8, <2>9 DEF AirType, Bursts, IsVoice, Reach
<1>4. CASE Spread
  <2>1. /\ fade.len \in 1 .. MaxFade - 1 /\ fade.at + fade.len \in Reach(fade.burst)
        /\ fade' = [fade EXCEPT !.len = @ + 1]
        /\ call' = call /\ unit' = unit /\ bursts' = bursts
    BY <1>4 DEF Spread
  <2>2. fade'.burst = fade.burst /\ fade'.at = fade.at /\ fade'.len = fade.len + 1
        /\ fade' \in [burst : Nat, at : Nat, len : Nat]
    BY <2>1 DEF AirType
  <2>3. fade.len + 1 <= MaxFade /\ fade.len > 0 BY <1>1, <2>1
  <2>4. fade.at + (fade.len + 1) - 1 = fade.at + fade.len BY DEF AirType
  <2> QED BY <2>1, <2>2, <2>3, <2>4 DEF AirType, Bursts, IsVoice, Reach
<1>5. CASE UNCHANGED vars
  BY <1>5 DEF vars, AirType, Bursts, IsVoice, Reach
<1> QED BY <1>2, <1>3, <1>4, <1>5 DEF Next

\* The bursts on the air are those of the call's unit, and a fade stays in its burst and
\* within MaxFade bits.
THEOREM AirTypeHolds == Spec => []AirType
<1>1. Init => AirType BY TypeInit
<1>2. AirType /\ [Next]_vars => AirType' BY TypeStep
<1> QED BY <1>1, <1>2, PTL DEF Spec

--------------------------------------------------------------------------------
(* The embedded LC. *)

\* An alias the encoder refuses is not sent at all.
LEMMA NotSendable ==
  ASSUME NEW alias \in Seq(Nat), ~Sendable(alias), NEW lc
  PROVE  LcRotation(lc, alias) = << lc >>
<1>1. Len(alias) > 31 \/ \E i \in 1 .. Len(alias) : ~(alias[i] < 128) BY DEF Sendable
<1>2. Len(alias) > MAX_ALIAS_CHARS \/ \E i \in 1 .. Len(alias) : alias[i] > 127
  BY <1>1 DEF MAX_ALIAS_CHARS
<1>3. AliasLcs(alias) = << >> BY <1>2 DEF AliasLcs
<1>4. LcRotation(lc, alias) = << lc >> \o << >> BY <1>3 DEF LcRotation
<1> QED BY <1>4

LEMMA SentWithin ==
  ASSUME NEW c, c.alias \in Seq(Nat), NEW n \in Nat \ {0}
  PROVE  SentLc(c, n) \subseteq 0 .. 71
<1> DEFINE lc == LcBody(c.group, c.dst, c.src)
           rot == LcRotation(lc, c.alias)
<1>1. SentLc(c, n) = rot[((n - 1) % Len(rot)) + 1] BY DEF SentLc, RotationLc
<1>2. lc \subseteq 0 .. 71 BY BodyReads
<1>3. CASE Sendable(c.alias)
  <2>1. Len(rot) = Turns(c.alias) /\ Turns(c.alias) \in 1 .. 5 BY <1>3, RotationIs
  <2>2. ((n - 1) % Turns(c.alias)) + 1 \in 1 .. Turns(c.alias) BY <2>1
  <2> DEFINE k == ((n - 1) % Turns(c.alias)) + 1
  <2>3. k \in 1 .. Turns(c.alias) BY <2>2
  <2>4. SentLc(c, n) = rot[k] BY <1>1, <2>1
  <2> HIDE DEF k, lc
  <2>5. rot[k] \subseteq 0 .. 71 BY <1>2, <1>3, <2>3, TurnWithin
  <2> QED BY <2>4, <2>5
<1>4. CASE ~Sendable(c.alias)
  <2>1. rot = << lc >> BY <1>4, NotSendable
  <2> HIDE DEF lc, rot
  <2>2. Len(rot) = 1 /\ rot[1] = lc BY <2>1
  <2>3. ((n - 1) % 1) + 1 = 1 OBVIOUS
  <2> QED BY <1>1, <1>2, <2>2, <2>3
<1> QED BY <1>3, <1>4

\* What the radio decodes from a superframe with a fade of up to eight bits.
LEMMA HeardLcIs ==
  ASSUME AirType, IsVoice(unit), fade.len <= 8
  PROVE  HeardLc = SentLc(call, unit)
<1>1. bursts = Superframe(call, unit) BY DEF AirType, UnitBursts
<1>2. FadeShape BY DEF AirType, FadeShape, Bursts
<1>3. unit \in Nat \ {0} BY AirAssumption DEF IsVoice
<1>4. call.alias \in Seq(Nat) BY AirAssumption DEF AirType
<1>5. SentLc(call, unit) \subseteq 0 .. 71 BY <1>3, <1>4, SentWithin
<1>6. HeardRaw = SymDiff(EncodeRaw(SentLc(call, unit)), Damage) BY <1>1, <1>2, HeardRawIs
<1>7. \A r \in 0 .. 6 : \E e : \A c \in 0 .. 15 : RawPosition(r, c) \in Damage => c = e
  BY <1>2, RowsHitOnce
<1>8. Damage \subseteq 0 .. 127 BY DEF Damage
<1>9. DecodeRaw(HeardRaw) = SentLc(call, unit) BY <1>5, <1>6, <1>7, <1>8, DecodesDamage
<1> QED BY <1>9 DEF HeardLc, HeardRaw

LEMMA EmbeddedOfType ==
  ASSUME AirType, MaxFade <= 8 PROVE EmbeddedSurvives
<1>1. ASSUME IsVoice(unit) PROVE HeardLc = SentLc(call, unit)
  <2>1. fade.len <= 8 BY AirAssumption DEF AirType
  <2> QED BY <1>1, <2>1, HeardLcIs
<1> QED BY <1>1 DEF EmbeddedSurvives

\* The embedded LC of every superframe is heard as it was sent, through a fade of up to
\* eight bits (encode_raw, build_fragments, decode_raw).
THEOREM EmbeddedHolds == ASSUME MaxFade <= 8 PROVE Spec => []EmbeddedSurvives
<1>1. AirType => EmbeddedSurvives BY EmbeddedOfType
<1>2. Spec => []AirType BY AirTypeHolds
<1> QED BY <1>1, <1>2, PTL

--------------------------------------------------------------------------------
(* The display. *)

\* What it shows is right, and every turn of the rotation that went by is on it.
DisplayRight ==
  /\ display \in [1 .. 31 -> Nat \cup {None}]
  /\ \A i \in 1 .. 31 : display[i] \in {None, AliasAt(call.alias, i)}
  /\ \A k \in 1 .. Turns(call.alias) :
       k < unit => \A i \in Writes(k) \cap 1 .. 31 : display[i] = AliasAt(call.alias, i)

\* The aliases are ones the encoder accepts, and the calls last a turn of the rotation.
AliasesSent == \A c \in Calls : Sendable(c.alias) /\ Turns(c.alias) <= Superframes

LEMMA AliasAtNat == ASSUME NEW alias \in Seq(Nat), NEW i \in Nat \ {0} PROVE AliasAt(alias, i) \in Nat
BY DEF AliasAt

LEMMA DisplayInit == ASSUME AliasesSent PROVE Init => DisplayRight
<1> SUFFICES ASSUME Init PROVE DisplayRight OBVIOUS
<1>1. display = [i \in 1 .. 31 |-> None] /\ unit = 0 BY DEF Init, Blank, MAX_ALIAS_CHARS
<1>2. ~(\E k \in 1 .. Turns(call.alias) : k < unit)
  <2>1. Sendable(call.alias) BY DEF Init, AliasesSent
  <2>2. Turns(call.alias) \in Nat BY <2>1, RotationIs
  <2> QED BY <1>1, <2>2
<1> QED BY <1>1, <1>2 DEF DisplayRight

LEMMA SmallMod ==
  ASSUME NEW t \in 1 .. 5, NEW m \in 0 .. t - 1 PROVE m % t = m
<1>1. CASE t = 1 BY <1>1
<1>2. CASE t = 2 BY <1>2
<1>3. CASE t = 3 BY <1>3
<1>4. CASE t = 4 BY <1>4
<1>5. CASE t = 5 BY <1>5
<1> QED BY <1>1, <1>2, <1>3, <1>4, <1>5

LEMMA DisplaySend ==
  ASSUME AliasesSent, MaxFade <= 8, AirType, DisplayRight, Send
  PROVE  DisplayRight'
<1> DEFINE alias == call.alias
           T == Turns(alias)
<1>1. call' = call /\ unit' = unit + 1 BY DEF Send
<1>2. Sendable(alias) /\ T \in 1 .. 5 /\ unit \in Nat /\ alias \in Seq(Nat)
  <2>1. Sendable(alias) /\ alias \in Seq(Nat) BY AirAssumption DEF AirType, AliasesSent
  <2>2. unit \in Nat BY AirAssumption DEF AirType, Terminator
  <2> QED BY <2>1, <2>2, RotationIs
<1>3. CASE ~IsVoice(unit)
  <2>1. display' = display BY <1>3 DEF Send
  <2>2. \A k \in 1 .. T : ~(k < unit + 1)
    <3>1. unit = 0 BY <1>3, AirAssumption DEF Send, AirType, IsVoice, Terminator
    <3> QED BY <3>1, <1>2
  <2> QED BY <1>1, <2>1, <2>2 DEF DisplayRight
<1>4. CASE IsVoice(unit)
  <2> DEFINE k == ((unit - 1) % T) + 1
             lc == LcBody(call.group, call.dst, call.src)
  <2>1. unit \in Nat \ {0} BY <1>2, <1>4, AirAssumption DEF IsVoice
  <2>2. k \in 1 .. T BY <1>2, <2>1
  <2>3. display' = Written(HeardLc) BY <1>4 DEF Send
  <2>4. HeardLc = SentLc(call, unit)
    <3>1. fade.len <= 8 BY AirAssumption DEF AirType
    <3> QED BY <3>1, <1>4, HeardLcIs
  <2>5. SentLc(call, unit) = LcRotation(lc, alias)[k]
    <3>1. Len(LcRotation(lc, alias)) = T BY <1>2, RotationIs
    <3> QED BY <3>1 DEF SentLc, RotationLc
  <2> HIDE DEF k, lc
  <2>6. Written(LcRotation(lc, alias)[k]) = After(alias, k)
    BY <1>2, <2>2, TurnWritten DEF lc
  <2>7. DOMAIN display = 1 .. 31 /\ display \in [1 .. 31 -> Nat \cup {None}] BY DEF DisplayRight
  <2>8. display' = [i \in 1 .. 31 |-> IF i \in Writes(k) THEN AliasAt(alias, i) ELSE display[i]]
    <3>1. CASE k = 1
      <4>1. display' = display BY <3>1, <2>3, <2>4, <2>5, <2>6 DEF After
      <4>2. \A i \in 1 .. 31 : i \notin Writes(k) BY <3>1 DEF Writes
      <4> QED BY <4>1, <4>2, <2>7
    <3>2. CASE k # 1 BY <3>2, <2>3, <2>4, <2>5, <2>6, <2>7 DEF After
    <3> QED BY <3>1, <3>2
  <2>9. \A i \in 1 .. 31 : AliasAt(alias, i) \in Nat BY <1>2, AliasAtNat
  <2> HIDE DEF T
  <2>10. display' \in [1 .. 31 -> Nat \cup {None}] BY <2>7, <2>8, <2>9
  <2>11. \A i \in 1 .. 31 : display'[i] \in {None, AliasAt(alias, i)}
    BY <2>8 DEF DisplayRight
  <2>12. ASSUME NEW m \in 1 .. T, m < unit + 1, NEW i \in Writes(m) \cap 1 .. 31
         PROVE  display'[i] = AliasAt(alias, i)
    <3>1. CASE i \in Writes(k) BY <3>1, <2>8
    <3>2. CASE i \notin Writes(k)
      <4>1. display'[i] = display[i] BY <3>2, <2>8
      <4>2. m # unit
        <5>1. ASSUME m = unit PROVE k = m
          <6>1. unit - 1 \in 0 .. T - 1 BY <5>1, <1>2, <2>1 DEF T
          <6>2. (unit - 1) % T = unit - 1 BY <6>1, <1>2, SmallMod DEF T
          <6> QED BY <5>1, <6>2, <2>1 DEF k
        <5> QED BY <5>1, <3>2, <2>12
      <4>3. m < unit BY <4>2, <2>12, <2>1, <1>2 DEF T
      <4> QED BY <4>1, <4>3, <2>12 DEF DisplayRight, T
    <3> QED BY <3>1, <3>2
  <2> QED BY <1>1, <2>10, <2>11, <2>12 DEF DisplayRight, T
<1> QED BY <1>3, <1>4

LEMMA DisplayStep ==
  ASSUME AliasesSent, MaxFade <= 8 PROVE AirType /\ DisplayRight /\ [Next]_vars => DisplayRight'
<1> SUFFICES ASSUME AirType, DisplayRight, [Next]_vars PROVE DisplayRight' OBVIOUS
<1>1. CASE Send BY <1>1, DisplaySend
<1>2. CASE Strike \/ Spread \/ UNCHANGED vars
  <2>1. display' = display /\ call' = call /\ unit' = unit BY <1>2 DEF Strike, Spread, vars
  <2> QED BY <2>1 DEF DisplayRight
<1> QED BY <1>1, <1>2 DEF Next

LEMMA DisplayOfInv ==
  ASSUME AliasesSent, AirType, DisplayRight PROVE AliasNeverGarbled
<1> DEFINE alias == call.alias
           Right(i) == IF i <= Len(call.alias) THEN call.alias[i] ELSE 0
<1>1. Sendable(alias) /\ alias \in Seq(Nat) /\ Turns(alias) <= Superframes
      /\ Len(alias) \in Nat /\ Len(alias) <= 31 /\ DOMAIN alias = 1 .. Len(alias)
  BY AirAssumption DEF AirType, AliasesSent, Sendable
<1>2. \A i : Right(i) = AliasAt(alias, i) BY DEF AliasAt
<1>3. DOMAIN display = 1 .. 31 BY DEF DisplayRight
<1>4. ASSUME unit = Terminator, NEW i \in DOMAIN alias PROVE display[i] = AliasAt(alias, i)
  <2>1. Turns(alias) \in 1 .. 5 /\ Superframes \in Nat BY <1>1, RotationIs, AirAssumption
  <2>2. \A k \in 1 .. Turns(alias) : k < unit BY <1>1, <1>4, <2>1 DEF Terminator
  <2> DEFINE n == Len(alias)
  <2>7. i \in 1 .. n /\ n \in Nat /\ n <= 31 BY <1>1, <1>4
  <2> HIDE DEF n
  <2>3. i \in 1 .. 31 /\ n > 0 BY <2>7
  <2>4. Len(alias) # 0 /\ Turns(alias) = 2 + (Len(alias) \div 8)
    <3>1. n # 0 BY <2>3, <2>7
    <3>2. Len(alias) # 0 BY <3>1 DEF n
    <3> QED BY <3>2 DEF Turns
  <2>5. CASE i <= 7
    <3>1. PICK k : k = 2 OBVIOUS
    <3>2. k \in 1 .. Turns(alias)
      <4>1. n \div 8 >= 0 /\ n \div 8 \in Int BY <2>7
      <4> DEFINE d == n \div 8
      <4>2. Turns(alias) = 2 + d /\ d >= 0 /\ d \in Int BY <4>1, <2>4 DEF n
      <4> HIDE DEF d
      <4> QED BY <3>1, <4>2
    <3>3. i \in Writes(k) BY <3>1, <2>3, <2>5 DEF Writes
    <3> QED BY <3>2, <3>3, <2>2, <2>3 DEF DisplayRight
  <2>6. CASE i > 7
    <3> DEFINE q == i \div 8
               k == q + 2
    <3>1. q \in Nat /\ q >= 1 /\ 8 * q <= i /\ i <= 8 * q + 7 BY <2>3, <2>6
    <3> DEFINE d == n \div 8
    <3>2. q <= d BY <2>7
    <3>3. d \in Nat BY <2>7
    <3>9. Turns(alias) = 2 + d BY <2>4 DEF n
    <3> HIDE DEF d
    <3>4. k \in 1 .. Turns(alias)
      <4> HIDE DEF q
      <4> QED BY <3>1, <3>2, <3>3, <3>9
    <3> HIDE DEF q
    <3>5. k # 1 /\ k # 2 /\ k - 2 = q BY <3>1
    <3>6. i \in 8 * q .. 8 * q + 7 BY <3>1, <2>3
    <3> HIDE DEF k
    <3>7. i \in Writes(k) BY <3>5, <3>6 DEF Writes
    <3> QED BY <3>4, <3>7, <2>2, <2>3 DEF DisplayRight
  <2> QED BY <2>3, <2>5, <2>6
<1>5. \A i \in DOMAIN display : display[i] \in {None, Right(i)} BY <1>2, <1>3 DEF DisplayRight
<1>6. unit = Terminator => \A i \in DOMAIN call.alias : display[i] = Right(i) BY <1>2, <1>4
<1> QED BY <1>5, <1>6 DEF AliasNeverGarbled

\* A radio never shows a character that is not the alias's, and has the whole alias once
\* the rotation has gone round, for aliases the encoder accepts in calls long enough to
\* send them (encode_talker_alias_lcs, build_voice_burst).
THEOREM AliasRight ==
  ASSUME MaxFade <= 8, AliasesSent PROVE Spec => []AliasNeverGarbled
<1>1. Init => DisplayRight BY DisplayInit
<1>2. AirType /\ DisplayRight /\ [Next]_vars => DisplayRight' BY DisplayStep
<1>3. AirType /\ DisplayRight => AliasNeverGarbled BY DisplayOfInv
<1>4. Spec => []AirType BY AirTypeHolds
<1> QED BY <1>1, <1>2, <1>3, <1>4, PTL DEF Spec

--------------------------------------------------------------------------------
(* The words of a linear code: which data bits a bit of the word is the parity of. *)

Check(rows, p) == {d \in 0 .. Len(rows) - 1 : p \in rows[d + 1]}

LEMMA SpanMember ==
  ASSUME NEW rows, Len(rows) \in Nat, NEW D, D \subseteq 0 .. Len(rows) - 1, NEW p
  PROVE  p \in Span(rows, D) <=> Odd(D \cap Check(rows, p))
<1> DEFINE C == {d \in D : p \in rows[d + 1]}
<1>1. C = D \cap Check(rows, p) BY DEF Check
<1>2. p \in Span(rows, D) <=> p \in UNION {rows[d + 1] : d \in D} /\ Odd(C) BY DEF Span
<1>3. Odd(C) => C # {} BY OddNone
<1>4. C # {} => p \in UNION {rows[d + 1] : d \in D} OBVIOUS
<1> QED BY <1>1, <1>2, <1>3, <1>4

LEMMA SpanSum ==
  ASSUME NEW rows, Len(rows) \in Nat, NEW A, A \subseteq 0 .. Len(rows) - 1,
         NEW B, B \subseteq 0 .. Len(rows) - 1
  PROVE  Span(rows, SymDiff(A, B)) = SymDiff(Span(rows, A), Span(rows, B))
<1> DEFINE n == Len(rows)
<1>1. SymDiff(A, B) \subseteq 0 .. n - 1 BY DEF SymDiff
<1>2. n \in Nat OBVIOUS
<1>3. ASSUME NEW p PROVE p \in Span(rows, SymDiff(A, B)) <=> p \in SymDiff(Span(rows, A), Span(rows, B))
  <2> DEFINE K == Check(rows, p)
  <2>1. SymDiff(A, B) \cap K = SymDiff(A \cap K, B \cap K) BY DEF SymDiff
  <2>2. IsFiniteSet(A \cap K) /\ IsFiniteSet(B \cap K)
    <3>1. A \cap K \subseteq 0 .. n /\ B \cap K \subseteq 0 .. n
      <4>1. 0 .. n - 1 \subseteq 0 .. n BY <1>2
      <4> QED BY <4>1
    <3> QED BY <3>1, WithinFinite
  <2>3. Odd(SymDiff(A \cap K, B \cap K)) <=> ~(Odd(A \cap K) <=> Odd(B \cap K)) BY <2>2, OddSum
  <2>4. /\ p \in Span(rows, SymDiff(A, B)) <=> Odd(SymDiff(A, B) \cap K)
        /\ p \in Span(rows, A) <=> Odd(A \cap K)
        /\ p \in Span(rows, B) <=> Odd(B \cap K)
    BY <1>1, <1>2, SpanMember
  <2>5. p \in SymDiff(Span(rows, A), Span(rows, B)) <=> ~(p \in Span(rows, A) <=> p \in Span(rows, B))
    BY SymDiffMember
  <2> QED BY <2>1, <2>3, <2>4, <2>5
<1> QED BY <1>3

\* Two checks that pass make a third that does.
LEMMA PassSum ==
  ASSUME NEW D, IsFiniteSet(D), NEW A, NEW B, ~Odd(D \cap A), ~Odd(D \cap B)
  PROVE  ~Odd(D \cap SymDiff(A, B))
<1>1. D \cap SymDiff(A, B) = SymDiff(D \cap A, D \cap B) BY DEF SymDiff
<1>2. IsFiniteSet(D \cap A) /\ IsFiniteSet(D \cap B)
  <2>1. D \cap A \subseteq D /\ D \cap B \subseteq D OBVIOUS
  <2> QED BY <2>1, FS_Subset
<1>3. Odd(SymDiff(D \cap A, D \cap B)) <=> ~(Odd(D \cap A) <=> Odd(D \cap B)) BY <1>2, OddSum
<1> QED BY <1>1, <1>3

LEMMA PassOne == ASSUME NEW D, NEW i, ~Odd(D \cap {i}) PROVE i \notin D
<1>1. i \in D => D \cap {i} = {i} OBVIOUS
<1> QED BY <1>1, OddOne

LEMMA QrRowsAre ==
  /\ Len(QrRows) = 7
  /\ QrRows[1] = {0, 6, 8, 9, 10, 11, 13, 14}
  /\ QrRows[2] = {1, 7, 9, 10, 11, 12, 14, 15}
  /\ QrRows[3] = {2, 7, 8, 10, 11, 13, 14, 15}
  /\ QrRows[4] = {3, 7, 8, 9, 10, 14}
  /\ QrRows[5] = {4, 7, 8, 9, 12, 15}
  /\ QrRows[6] = {5, 8, 9, 10, 13, 15}
  /\ QrRows[7] = {6, 9, 10, 11, 14, 15}
BY DEF QrRows

LEMMA QrChecks ==
  /\ Check(QrRows, 0) = {0}
  /\ Check(QrRows, 1) = {1}
  /\ Check(QrRows, 2) = {2}
  /\ Check(QrRows, 3) = {3}
  /\ Check(QrRows, 4) = {4}
  /\ Check(QrRows, 5) = {5}
  /\ Check(QrRows, 6) = {0, 6}
  /\ Check(QrRows, 8) = {0, 2, 3, 4, 5}
  /\ Check(QrRows, 9) = {0, 1, 3, 4, 5, 6}
  /\ Check(QrRows, 10) = {0, 1, 2, 3, 5, 6}
  /\ Check(QrRows, 11) = {0, 1, 2, 6}
  /\ Check(QrRows, 12) = {1, 4}
  /\ Check(QrRows, 13) = {0, 2, 5}
  /\ Check(QrRows, 14) = {0, 1, 2, 3, 6}
  /\ Check(QrRows, 15) = {1, 2, 4, 5, 6}
<1>1. Check(QrRows, 0) = {0} BY QrRowsAre DEF Check
<1>2. Check(QrRows, 1) = {1} BY QrRowsAre DEF Check
<1>3. Check(QrRows, 2) = {2} BY QrRowsAre DEF Check
<1>4. Check(QrRows, 3) = {3} BY QrRowsAre DEF Check
<1>5. Check(QrRows, 4) = {4} BY QrRowsAre DEF Check
<1>6. Check(QrRows, 5) = {5} BY QrRowsAre DEF Check
<1>7. Check(QrRows, 6) = {0, 6} BY QrRowsAre DEF Check
<1>8. Check(QrRows, 8) = {0, 2, 3, 4, 5} BY QrRowsAre DEF Check
<1>9. Check(QrRows, 9) = {0, 1, 3, 4, 5, 6} BY QrRowsAre DEF Check
<1>10. Check(QrRows, 10) = {0, 1, 2, 3, 5, 6} BY QrRowsAre DEF Check
<1>11. Check(QrRows, 11) = {0, 1, 2, 6} BY QrRowsAre DEF Check
<1>12. Check(QrRows, 12) = {1, 4} BY QrRowsAre DEF Check
<1>13. Check(QrRows, 13) = {0, 2, 5} BY QrRowsAre DEF Check
<1>14. Check(QrRows, 14) = {0, 1, 2, 3, 6} BY QrRowsAre DEF Check
<1>15. Check(QrRows, 15) = {1, 2, 4, 5, 6} BY QrRowsAre DEF Check
<1> QED BY <1>1, <1>2, <1>3, <1>4, <1>5, <1>6, <1>7, <1>8, <1>9, <1>10, <1>11, <1>12, <1>13, <1>14, <1>15

\* The check bits in the second half of a word of the code say which word it is.
LEMMA QrBehind ==
  ASSUME NEW X, X \subseteq 0 .. 6, \A p \in 8 .. 15 : p \notin Span(QrRows, X)
  PROVE  X = {}
<1>1. IsFiniteSet(X) BY WithinFinite
<1>2. \A p : p \in Span(QrRows, X) <=> Odd(X \cap Check(QrRows, p))
  <2>1. Len(QrRows) \in Nat /\ 0 .. Len(QrRows) - 1 = 0 .. 6 BY QrRowsAre
  <2> QED BY <2>1, SpanMember
<1>3. ASSUME NEW p \in {8, 9, 10, 11, 12, 13, 14, 15} PROVE ~Odd(X \cap Check(QrRows, p)) BY <1>2
<1>4. ~Odd(X \cap {0, 2, 3, 4, 5}) BY <1>3, QrChecks, Zenon
<1>5. ~Odd(X \cap {0, 1, 3, 4, 5, 6}) BY <1>3, QrChecks, Zenon
<1>6. ~Odd(X \cap {0, 1, 2, 3, 5, 6}) BY <1>3, QrChecks, Zenon
<1>7. ~Odd(X \cap {0, 1, 2, 6}) BY <1>3, QrChecks, Zenon
<1>8. ~Odd(X \cap {1, 4}) BY <1>3, QrChecks, Zenon
<1>9. ~Odd(X \cap {0, 2, 5}) BY <1>3, QrChecks, Zenon
<1>10. ~Odd(X \cap {0, 1, 2, 3, 6}) BY <1>3, QrChecks, Zenon
<1>11. ~Odd(X \cap {1, 2, 4, 5, 6}) BY <1>3, QrChecks, Zenon
<1>12. 0 \notin X
  <2>1. SymDiff({0, 2, 3, 4, 5}, {0, 1, 3, 4, 5, 6}) = {1, 2, 6} BY DEF SymDiff
  <2>2. ~Odd(X \cap {1, 2, 6}) BY <1>1, <1>4, <1>5, <2>1, PassSum
  <2>3. SymDiff({1, 2, 6}, {0, 1, 2, 6}) = {0} BY DEF SymDiff
  <2>4. ~Odd(X \cap {0}) BY <1>1, <2>2, <1>7, <2>3, PassSum
  <2> QED BY <2>4, PassOne
<1>13. 1 \notin X
  <2>1. SymDiff({0, 2, 3, 4, 5}, {0, 1, 2, 6}) = {1, 3, 4, 5, 6} BY DEF SymDiff
  <2>2. ~Odd(X \cap {1, 3, 4, 5, 6}) BY <1>1, <1>4, <1>7, <2>1, PassSum
  <2>3. SymDiff({1, 3, 4, 5, 6}, {1, 4}) = {3, 5, 6} BY DEF SymDiff
  <2>4. ~Odd(X \cap {3, 5, 6}) BY <1>1, <2>2, <1>8, <2>3, PassSum
  <2>5. SymDiff({3, 5, 6}, {0, 2, 5}) = {0, 2, 3, 6} BY DEF SymDiff
  <2>6. ~Odd(X \cap {0, 2, 3, 6}) BY <1>1, <2>4, <1>9, <2>5, PassSum
  <2>7. SymDiff({0, 2, 3, 6}, {0, 1, 2, 3, 6}) = {1} BY DEF SymDiff
  <2>8. ~Odd(X \cap {1}) BY <1>1, <2>6, <1>10, <2>7, PassSum
  <2> QED BY <2>8, PassOne
<1>14. 2 \notin X
  <2>1. SymDiff({0, 2, 3, 4, 5}, {0, 1, 2, 3, 6}) = {1, 4, 5, 6} BY DEF SymDiff
  <2>2. ~Odd(X \cap {1, 4, 5, 6}) BY <1>1, <1>4, <1>10, <2>1, PassSum
  <2>3. SymDiff({1, 4, 5, 6}, {1, 2, 4, 5, 6}) = {2} BY DEF SymDiff
  <2>4. ~Odd(X \cap {2}) BY <1>1, <2>2, <1>11, <2>3, PassSum
  <2> QED BY <2>4, PassOne
<1>15. 3 \notin X
  <2>1. SymDiff({0, 1, 2, 6}, {0, 1, 2, 3, 6}) = {3} BY DEF SymDiff
  <2>2. ~Odd(X \cap {3}) BY <1>1, <1>7, <1>10, <2>1, PassSum
  <2> QED BY <2>2, PassOne
<1>16. 4 \notin X
  <2>1. SymDiff({0, 2, 3, 4, 5}, {0, 1, 2, 6}) = {1, 3, 4, 5, 6} BY DEF SymDiff
  <2>2. ~Odd(X \cap {1, 3, 4, 5, 6}) BY <1>1, <1>4, <1>7, <2>1, PassSum
  <2>3. SymDiff({1, 3, 4, 5, 6}, {0, 2, 5}) = {0, 1, 2, 3, 4, 6} BY DEF SymDiff
  <2>4. ~Odd(X \cap {0, 1, 2, 3, 4, 6}) BY <1>1, <2>2, <1>9, <2>3, PassSum
  <2>5. SymDiff({0, 1, 2, 3, 4, 6}, {0, 1, 2, 3, 6}) = {4} BY DEF SymDiff
  <2>6. ~Odd(X \cap {4}) BY <1>1, <2>4, <1>10, <2>5, PassSum
  <2> QED BY <2>6, PassOne
<1>17. 5 \notin X
  <2>1. SymDiff({0, 1, 2, 3, 5, 6}, {0, 1, 2, 3, 6}) = {5} BY DEF SymDiff
  <2>2. ~Odd(X \cap {5}) BY <1>1, <1>6, <1>10, <2>1, PassSum
  <2> QED BY <2>2, PassOne
<1>18. 6 \notin X
  <2>1. SymDiff({0, 2, 3, 4, 5}, {0, 1, 2, 3, 5, 6}) = {1, 4, 6} BY DEF SymDiff
  <2>2. ~Odd(X \cap {1, 4, 6}) BY <1>1, <1>4, <1>6, <2>1, PassSum
  <2>3. SymDiff({1, 4, 6}, {1, 4}) = {6} BY DEF SymDiff
  <2>4. ~Odd(X \cap {6}) BY <1>1, <2>2, <1>8, <2>3, PassSum
  <2> QED BY <2>4, PassOne
<1> QED BY <1>12, <1>13, <1>14, <1>15, <1>16, <1>17, <1>18

\* So do the bits in its first half.
LEMMA QrFront ==
  ASSUME NEW X, X \subseteq 0 .. 6, \A p \in 0 .. 6 : p \notin Span(QrRows, X)
  PROVE  X = {}
<1>1. IsFiniteSet(X) BY WithinFinite
<1>2. \A p : p \in Span(QrRows, X) <=> Odd(X \cap Check(QrRows, p))
  <2>1. Len(QrRows) \in Nat /\ 0 .. Len(QrRows) - 1 = 0 .. 6 BY QrRowsAre
  <2> QED BY <2>1, SpanMember
<1>3. ASSUME NEW p \in {0, 1, 2, 3, 4, 5, 6} PROVE ~Odd(X \cap Check(QrRows, p)) BY <1>2
<1>4. ~Odd(X \cap {0}) BY <1>3, QrChecks, Zenon
<1>5. ~Odd(X \cap {1}) BY <1>3, QrChecks, Zenon
<1>6. ~Odd(X \cap {2}) BY <1>3, QrChecks, Zenon
<1>7. ~Odd(X \cap {3}) BY <1>3, QrChecks, Zenon
<1>8. ~Odd(X \cap {4}) BY <1>3, QrChecks, Zenon
<1>9. ~Odd(X \cap {5}) BY <1>3, QrChecks, Zenon
<1>10. ~Odd(X \cap {0, 6}) BY <1>3, QrChecks, Zenon
<1>11. 0 \notin X BY <1>4, PassOne
<1>12. 1 \notin X BY <1>5, PassOne
<1>13. 2 \notin X BY <1>6, PassOne
<1>14. 3 \notin X BY <1>7, PassOne
<1>15. 4 \notin X BY <1>8, PassOne
<1>16. 5 \notin X BY <1>9, PassOne
<1>17. 6 \notin X
  <2>1. SymDiff({0}, {0, 6}) = {6} BY DEF SymDiff
  <2>2. ~Odd(X \cap {6}) BY <1>1, <1>4, <1>10, <2>1, PassSum
  <2> QED BY <2>2, PassOne
<1> QED BY <1>11, <1>12, <1>13, <1>14, <1>15, <1>16, <1>17

LEMMA GolayRowsAre ==
  /\ Len(GolayRows) = 8
  /\ GolayRows[1] = {0, 10, 11, 12, 13, 15, 16, 18}
  /\ GolayRows[2] = {1, 8, 9, 11, 12, 15, 16, 19}
  /\ GolayRows[3] = {2, 9, 10, 12, 13, 16, 17, 19}
  /\ GolayRows[4] = {3, 10, 11, 13, 14, 17, 18, 19}
  /\ GolayRows[5] = {4, 8, 9, 11, 12, 13, 17, 18}
  /\ GolayRows[6] = {5, 8, 10, 12, 15, 17, 18, 19}
  /\ GolayRows[7] = {6, 8, 11, 14, 15, 16, 17, 18}
  /\ GolayRows[8] = {7, 8, 12, 13, 14, 16, 18, 19}
BY DEF GolayRows

LEMMA GolayChecks ==
  /\ Check(GolayRows, 0) = {0}
  /\ Check(GolayRows, 1) = {1}
  /\ Check(GolayRows, 2) = {2}
  /\ Check(GolayRows, 3) = {3}
  /\ Check(GolayRows, 4) = {4}
  /\ Check(GolayRows, 5) = {5}
  /\ Check(GolayRows, 6) = {6}
  /\ Check(GolayRows, 7) = {7}
  /\ Check(GolayRows, 10) = {0, 2, 3, 5}
  /\ Check(GolayRows, 11) = {0, 1, 3, 4, 6}
  /\ Check(GolayRows, 12) = {0, 1, 2, 4, 5, 7}
  /\ Check(GolayRows, 13) = {0, 2, 3, 4, 7}
  /\ Check(GolayRows, 14) = {3, 6, 7}
  /\ Check(GolayRows, 15) = {0, 1, 5, 6}
  /\ Check(GolayRows, 16) = {0, 1, 2, 6, 7}
  /\ Check(GolayRows, 17) = {2, 3, 4, 5, 6}
  /\ Check(GolayRows, 18) = {0, 3, 4, 5, 6, 7}
  /\ Check(GolayRows, 19) = {1, 2, 3, 5, 7}
<1>1. Check(GolayRows, 0) = {0} BY GolayRowsAre DEF Check
<1>2. Check(GolayRows, 1) = {1} BY GolayRowsAre DEF Check
<1>3. Check(GolayRows, 2) = {2} BY GolayRowsAre DEF Check
<1>4. Check(GolayRows, 3) = {3} BY GolayRowsAre DEF Check
<1>5. Check(GolayRows, 4) = {4} BY GolayRowsAre DEF Check
<1>6. Check(GolayRows, 5) = {5} BY GolayRowsAre DEF Check
<1>7. Check(GolayRows, 6) = {6} BY GolayRowsAre DEF Check
<1>8. Check(GolayRows, 7) = {7} BY GolayRowsAre DEF Check
<1>9. Check(GolayRows, 10) = {0, 2, 3, 5} BY GolayRowsAre DEF Check
<1>10. Check(GolayRows, 11) = {0, 1, 3, 4, 6} BY GolayRowsAre DEF Check
<1>11. Check(GolayRows, 12) = {0, 1, 2, 4, 5, 7} BY GolayRowsAre DEF Check
<1>12. Check(GolayRows, 13) = {0, 2, 3, 4, 7} BY GolayRowsAre DEF Check
<1>13. Check(GolayRows, 14) = {3, 6, 7} BY GolayRowsAre DEF Check
<1>14. Check(GolayRows, 15) = {0, 1, 5, 6} BY GolayRowsAre DEF Check
<1>15. Check(GolayRows, 16) = {0, 1, 2, 6, 7} BY GolayRowsAre DEF Check
<1>16. Check(GolayRows, 17) = {2, 3, 4, 5, 6} BY GolayRowsAre DEF Check
<1>17. Check(GolayRows, 18) = {0, 3, 4, 5, 6, 7} BY GolayRowsAre DEF Check
<1>18. Check(GolayRows, 19) = {1, 2, 3, 5, 7} BY GolayRowsAre DEF Check
<1> QED BY <1>1, <1>2, <1>3, <1>4, <1>5, <1>6, <1>7, <1>8, <1>9, <1>10, <1>11, <1>12, <1>13, <1>14, <1>15, <1>16, <1>17, <1>18

\* The check bits in the second half of a word of the code say which word it is.
LEMMA GolayBehind ==
  ASSUME NEW X, X \subseteq 0 .. 7, \A p \in 10 .. 19 : p \notin Span(GolayRows, X)
  PROVE  X = {}
<1>1. IsFiniteSet(X) BY WithinFinite
<1>2. \A p : p \in Span(GolayRows, X) <=> Odd(X \cap Check(GolayRows, p))
  <2>1. Len(GolayRows) \in Nat /\ 0 .. Len(GolayRows) - 1 = 0 .. 7 BY GolayRowsAre
  <2> QED BY <2>1, SpanMember
<1>3. ASSUME NEW p \in {10, 11, 12, 13, 14, 15, 16, 17, 18, 19} PROVE ~Odd(X \cap Check(GolayRows, p)) BY <1>2
<1>4. ~Odd(X \cap {0, 2, 3, 5}) BY <1>3, GolayChecks, Zenon
<1>5. ~Odd(X \cap {0, 1, 3, 4, 6}) BY <1>3, GolayChecks, Zenon
<1>6. ~Odd(X \cap {0, 1, 2, 4, 5, 7}) BY <1>3, GolayChecks, Zenon
<1>7. ~Odd(X \cap {0, 2, 3, 4, 7}) BY <1>3, GolayChecks, Zenon
<1>8. ~Odd(X \cap {3, 6, 7}) BY <1>3, GolayChecks, Zenon
<1>9. ~Odd(X \cap {0, 1, 5, 6}) BY <1>3, GolayChecks, Zenon
<1>10. ~Odd(X \cap {0, 1, 2, 6, 7}) BY <1>3, GolayChecks, Zenon
<1>11. ~Odd(X \cap {2, 3, 4, 5, 6}) BY <1>3, GolayChecks, Zenon
<1>12. ~Odd(X \cap {0, 3, 4, 5, 6, 7}) BY <1>3, GolayChecks, Zenon
<1>13. ~Odd(X \cap {1, 2, 3, 5, 7}) BY <1>3, GolayChecks, Zenon
<1>14. 0 \notin X
  <2>1. SymDiff({0, 1, 3, 4, 6}, {0, 2, 3, 4, 7}) = {1, 2, 6, 7} BY DEF SymDiff
  <2>2. ~Odd(X \cap {1, 2, 6, 7}) BY <1>1, <1>5, <1>7, <2>1, PassSum
  <2>3. SymDiff({1, 2, 6, 7}, {0, 1, 2, 6, 7}) = {0} BY DEF SymDiff
  <2>4. ~Odd(X \cap {0}) BY <1>1, <2>2, <1>10, <2>3, PassSum
  <2> QED BY <2>4, PassOne
<1>15. 1 \notin X
  <2>1. SymDiff({0, 2, 3, 4, 7}, {3, 6, 7}) = {0, 2, 4, 6} BY DEF SymDiff
  <2>2. ~Odd(X \cap {0, 2, 4, 6}) BY <1>1, <1>7, <1>8, <2>1, PassSum
  <2>3. SymDiff({0, 2, 4, 6}, {0, 3, 4, 5, 6, 7}) = {2, 3, 5, 7} BY DEF SymDiff
  <2>4. ~Odd(X \cap {2, 3, 5, 7}) BY <1>1, <2>2, <1>12, <2>3, PassSum
  <2>5. SymDiff({2, 3, 5, 7}, {1, 2, 3, 5, 7}) = {1} BY DEF SymDiff
  <2>6. ~Odd(X \cap {1}) BY <1>1, <2>4, <1>13, <2>5, PassSum
  <2> QED BY <2>6, PassOne
<1>16. 2 \notin X
  <2>1. SymDiff({0, 2, 3, 5}, {0, 2, 3, 4, 7}) = {4, 5, 7} BY DEF SymDiff
  <2>2. ~Odd(X \cap {4, 5, 7}) BY <1>1, <1>4, <1>7, <2>1, PassSum
  <2>3. SymDiff({4, 5, 7}, {3, 6, 7}) = {3, 4, 5, 6} BY DEF SymDiff
  <2>4. ~Odd(X \cap {3, 4, 5, 6}) BY <1>1, <2>2, <1>8, <2>3, PassSum
  <2>5. SymDiff({3, 4, 5, 6}, {2, 3, 4, 5, 6}) = {2} BY DEF SymDiff
  <2>6. ~Odd(X \cap {2}) BY <1>1, <2>4, <1>11, <2>5, PassSum
  <2> QED BY <2>6, PassOne
<1>17. 3 \notin X
  <2>1. SymDiff({0, 2, 3, 5}, {0, 1, 2, 4, 5, 7}) = {1, 3, 4, 7} BY DEF SymDiff
  <2>2. ~Odd(X \cap {1, 3, 4, 7}) BY <1>1, <1>4, <1>6, <2>1, PassSum
  <2>3. SymDiff({1, 3, 4, 7}, {0, 2, 3, 4, 7}) = {0, 1, 2} BY DEF SymDiff
  <2>4. ~Odd(X \cap {0, 1, 2}) BY <1>1, <2>2, <1>7, <2>3, PassSum
  <2>5. SymDiff({0, 1, 2}, {3, 6, 7}) = {0, 1, 2, 3, 6, 7} BY DEF SymDiff
  <2>6. ~Odd(X \cap {0, 1, 2, 3, 6, 7}) BY <1>1, <2>4, <1>8, <2>5, PassSum
  <2>7. SymDiff({0, 1, 2, 3, 6, 7}, {0, 1, 2, 6, 7}) = {3} BY DEF SymDiff
  <2>8. ~Odd(X \cap {3}) BY <1>1, <2>6, <1>10, <2>7, PassSum
  <2> QED BY <2>8, PassOne
<1>18. 4 \notin X
  <2>1. SymDiff({0, 2, 3, 5}, {0, 1, 3, 4, 6}) = {1, 2, 4, 5, 6} BY DEF SymDiff
  <2>2. ~Odd(X \cap {1, 2, 4, 5, 6}) BY <1>1, <1>4, <1>5, <2>1, PassSum
  <2>3. SymDiff({1, 2, 4, 5, 6}, {3, 6, 7}) = {1, 2, 3, 4, 5, 7} BY DEF SymDiff
  <2>4. ~Odd(X \cap {1, 2, 3, 4, 5, 7}) BY <1>1, <2>2, <1>8, <2>3, PassSum
  <2>5. SymDiff({1, 2, 3, 4, 5, 7}, {1, 2, 3, 5, 7}) = {4} BY DEF SymDiff
  <2>6. ~Odd(X \cap {4}) BY <1>1, <2>4, <1>13, <2>5, PassSum
  <2> QED BY <2>6, PassOne
<1>19. 5 \notin X
  <2>1. SymDiff({0, 2, 3, 5}, {0, 1, 3, 4, 6}) = {1, 2, 4, 5, 6} BY DEF SymDiff
  <2>2. ~Odd(X \cap {1, 2, 4, 5, 6}) BY <1>1, <1>4, <1>5, <2>1, PassSum
  <2>3. SymDiff({1, 2, 4, 5, 6}, {0, 1, 2, 4, 5, 7}) = {0, 6, 7} BY DEF SymDiff
  <2>4. ~Odd(X \cap {0, 6, 7}) BY <1>1, <2>2, <1>6, <2>3, PassSum
  <2>5. SymDiff({0, 6, 7}, {0, 2, 3, 4, 7}) = {2, 3, 4, 6} BY DEF SymDiff
  <2>6. ~Odd(X \cap {2, 3, 4, 6}) BY <1>1, <2>4, <1>7, <2>5, PassSum
  <2>7. SymDiff({2, 3, 4, 6}, {2, 3, 4, 5, 6}) = {5} BY DEF SymDiff
  <2>8. ~Odd(X \cap {5}) BY <1>1, <2>6, <1>11, <2>7, PassSum
  <2> QED BY <2>8, PassOne
<1>20. 6 \notin X
  <2>1. SymDiff({0, 2, 3, 5}, {0, 1, 3, 4, 6}) = {1, 2, 4, 5, 6} BY DEF SymDiff
  <2>2. ~Odd(X \cap {1, 2, 4, 5, 6}) BY <1>1, <1>4, <1>5, <2>1, PassSum
  <2>3. SymDiff({1, 2, 4, 5, 6}, {0, 2, 3, 4, 7}) = {0, 1, 3, 5, 6, 7} BY DEF SymDiff
  <2>4. ~Odd(X \cap {0, 1, 3, 5, 6, 7}) BY <1>1, <2>2, <1>7, <2>3, PassSum
  <2>5. SymDiff({0, 1, 3, 5, 6, 7}, {3, 6, 7}) = {0, 1, 5} BY DEF SymDiff
  <2>6. ~Odd(X \cap {0, 1, 5}) BY <1>1, <2>4, <1>8, <2>5, PassSum
  <2>7. SymDiff({0, 1, 5}, {0, 1, 5, 6}) = {6} BY DEF SymDiff
  <2>8. ~Odd(X \cap {6}) BY <1>1, <2>6, <1>9, <2>7, PassSum
  <2> QED BY <2>8, PassOne
<1>21. 7 \notin X
  <2>1. SymDiff({0, 2, 3, 5}, {0, 1, 3, 4, 6}) = {1, 2, 4, 5, 6} BY DEF SymDiff
  <2>2. ~Odd(X \cap {1, 2, 4, 5, 6}) BY <1>1, <1>4, <1>5, <2>1, PassSum
  <2>3. SymDiff({1, 2, 4, 5, 6}, {3, 6, 7}) = {1, 2, 3, 4, 5, 7} BY DEF SymDiff
  <2>4. ~Odd(X \cap {1, 2, 3, 4, 5, 7}) BY <1>1, <2>2, <1>8, <2>3, PassSum
  <2>5. SymDiff({1, 2, 3, 4, 5, 7}, {0, 1, 2, 6, 7}) = {0, 3, 4, 5, 6} BY DEF SymDiff
  <2>6. ~Odd(X \cap {0, 3, 4, 5, 6}) BY <1>1, <2>4, <1>10, <2>5, PassSum
  <2>7. SymDiff({0, 3, 4, 5, 6}, {0, 3, 4, 5, 6, 7}) = {7} BY DEF SymDiff
  <2>8. ~Odd(X \cap {7}) BY <1>1, <2>6, <1>12, <2>7, PassSum
  <2> QED BY <2>8, PassOne
<1> QED BY <1>14, <1>15, <1>16, <1>17, <1>18, <1>19, <1>20, <1>21

\* So do the bits in its first half.
LEMMA GolayFront ==
  ASSUME NEW X, X \subseteq 0 .. 7, \A p \in 0 .. 7 : p \notin Span(GolayRows, X)
  PROVE  X = {}
<1>1. IsFiniteSet(X) BY WithinFinite
<1>2. \A p : p \in Span(GolayRows, X) <=> Odd(X \cap Check(GolayRows, p))
  <2>1. Len(GolayRows) \in Nat /\ 0 .. Len(GolayRows) - 1 = 0 .. 7 BY GolayRowsAre
  <2> QED BY <2>1, SpanMember
<1>3. ASSUME NEW p \in {0, 1, 2, 3, 4, 5, 6, 7} PROVE ~Odd(X \cap Check(GolayRows, p)) BY <1>2
<1>4. ~Odd(X \cap {0}) BY <1>3, GolayChecks, Zenon
<1>5. ~Odd(X \cap {1}) BY <1>3, GolayChecks, Zenon
<1>6. ~Odd(X \cap {2}) BY <1>3, GolayChecks, Zenon
<1>7. ~Odd(X \cap {3}) BY <1>3, GolayChecks, Zenon
<1>8. ~Odd(X \cap {4}) BY <1>3, GolayChecks, Zenon
<1>9. ~Odd(X \cap {5}) BY <1>3, GolayChecks, Zenon
<1>10. ~Odd(X \cap {6}) BY <1>3, GolayChecks, Zenon
<1>11. ~Odd(X \cap {7}) BY <1>3, GolayChecks, Zenon
<1>12. 0 \notin X BY <1>4, PassOne
<1>13. 1 \notin X BY <1>5, PassOne
<1>14. 2 \notin X BY <1>6, PassOne
<1>15. 3 \notin X BY <1>7, PassOne
<1>16. 4 \notin X BY <1>8, PassOne
<1>17. 5 \notin X BY <1>9, PassOne
<1>18. 6 \notin X BY <1>10, PassOne
<1>19. 7 \notin X BY <1>11, PassOne
<1> QED BY <1>12, <1>13, <1>14, <1>15, <1>16, <1>17, <1>18, <1>19

--------------------------------------------------------------------------------
(* What is heard of the labels. *)

LEMMA DataSyncWithin == BS_DATA_SYNC \subseteq 0 .. 47
<1>1. PICK a \in Nat, b \in Nat, w \in Nat : a = 0 /\ b = 24 /\ w = 24 OBVIOUS
<1>2. \A n : Field(n, a, w) \subseteq a .. a + w - 1 BY FieldWithin
<1>3. \A n : Field(n, b, w) \subseteq b .. b + w - 1 BY FieldWithin
<1>4. a + w - 1 = 23 /\ b + w - 1 = 47 BY <1>1
<1> DEFINE F1 == Field(14677373, 0, 24)
           F2 == Field(7724893, 24, 24)
<1>5. F1 \subseteq 0 .. 23 BY <1>1, <1>2, <1>4
<1>6. F2 \subseteq 24 .. 47 BY <1>1, <1>3, <1>4
<1>7. BS_DATA_SYNC = F1 \cup F2 BY DEF BS_DATA_SYNC
<1> HIDE DEF F1, F2
<1> QED BY <1>5, <1>6, <1>7

\* The cuts of a data burst.
LEMMA DataMember ==
  ASSUME NEW lc, NEW dtype, NEW colour
  PROVE  /\ \A j \in 0 .. 97 : j \in DataBurst(lc, dtype, colour) <=> j \in BptcEncode(lc)
         /\ \A j \in 0 .. 9 : 98 + j \in DataBurst(lc, dtype, colour) <=> j \in SlotType(dtype, colour)
         /\ \A j \in 0 .. 9 : 156 + j \in DataBurst(lc, dtype, colour) <=> 10 + j \in SlotType(dtype, colour)
         /\ \A j \in 0 .. 97 : 166 + j \in DataBurst(lc, dtype, colour) <=> 98 + j \in BptcEncode(lc)
<1> DEFINE M == DataBurst(lc, dtype, colour)
           air == BptcEncode(lc)
           slot == SlotType(dtype, colour)
           A == air \cap 0 .. 97
           S1 == Slice(slot, 0, 10)
           S2 == Slice(slot, 10, 10)
           S3 == Slice(air, 98, 98)
           B == Place(S1, 98)
           C == Place(BS_DATA_SYNC, 108)
           D == Place(S2, 156)
           E == Place(S3, 166)
<1>1. \A p : p \in M <=> p \in A \/ p \in B \/ p \in C \/ p \in D \/ p \in E
  BY DEF DataBurst
<1> HIDE DEF air, slot
<1>3. \A i : /\ i \in S1 <=> i \in 0 .. 9 /\ i \in slot
             /\ i \in S2 <=> i \in 0 .. 9 /\ 10 + i \in slot
             /\ i \in S3 <=> i \in 0 .. 97 /\ 98 + i \in air
  <2>1. PICK a \in Nat, b \in Nat, c \in Nat : a = 0 /\ b = 10 /\ c = 98 OBVIOUS
  <2>2. \A i : i \in Slice(slot, a, b) <=> i \in 0 .. b - 1 /\ a + i \in slot BY SliceMember
  <2>3. \A i : i \in Slice(slot, b, b) <=> i \in 0 .. b - 1 /\ b + i \in slot BY SliceMember
  <2>4. \A i : i \in Slice(air, c, c) <=> i \in 0 .. c - 1 /\ c + i \in air BY SliceMember
  <2>5. \A i \in 0 .. 9 : a + i = i BY <2>1
  <2>6. b - 1 = 9 /\ c - 1 = 97 BY <2>1
  <2> QED BY <2>1, <2>2, <2>3, <2>4, <2>5, <2>6
<1> HIDE DEF S1, S2, S3
<1>4. S1 \subseteq Int /\ S2 \subseteq Int /\ S3 \subseteq Int /\ BS_DATA_SYNC \subseteq Int
  <2>1. \A i \in BS_DATA_SYNC : i \in 0 .. 47 BY DataSyncWithin
  <2> QED BY <2>1, <1>3
<1>5. \A p \in Int : /\ p \in B <=> p - 98 \in S1
                     /\ p \in C <=> p - 108 \in BS_DATA_SYNC
                     /\ p \in D <=> p - 156 \in S2
                     /\ p \in E <=> p - 166 \in S3
  <2>1. \A p \in Int : p \in B <=> p - 98 \in S1 BY <1>4 DEF Place
  <2>2. \A p \in Int : p \in C <=> p - 108 \in BS_DATA_SYNC BY <1>4 DEF Place
  <2>3. \A p \in Int : p \in D <=> p - 156 \in S2 BY <1>4 DEF Place
  <2>4. \A p \in Int : p \in E <=> p - 166 \in S3 BY <1>4 DEF Place
  <2> QED BY <2>1, <2>2, <2>3, <2>4
<1> HIDE DEF B, C, D, E, M
<1>6. \A p \in Int : /\ p \in B <=> p - 98 \in 0 .. 9 /\ p - 98 \in slot
                     /\ p \in C => p - 108 \in 0 .. 47
                     /\ p \in D <=> p - 156 \in 0 .. 9 /\ 10 + (p - 156) \in slot
                     /\ p \in E <=> p - 166 \in 0 .. 97 /\ 98 + (p - 166) \in air
  BY <1>3, <1>5, DataSyncWithin, ZenonT(60)
<1>7. \A p \in Int : p \in A => p \in 0 .. 97 OBVIOUS
<1>8. ASSUME NEW j \in 0 .. 97 PROVE j \in M <=> j \in air
  <2>1. j \notin B /\ j \notin C /\ j \notin D /\ j \notin E BY <1>6
  <2> QED BY <2>1, <1>1
<1> HIDE DEF A
<1>9. ASSUME NEW j \in 0 .. 9 PROVE 98 + j \in M <=> j \in slot
  <2> DEFINE p == 98 + j
  <2>1. p \in Int /\ p - 98 = j OBVIOUS
  <2>2. p \notin A /\ p \notin C /\ p \notin D /\ p \notin E BY <1>6, <1>7
  <2>3. p \in B <=> j \in slot BY <2>1, <1>6
  <2> HIDE DEF p
  <2>4. p \in M <=> j \in slot BY <2>2, <2>3, <1>1
  <2> QED BY <2>4 DEF p
<1>10. ASSUME NEW j \in 0 .. 9 PROVE 156 + j \in M <=> 10 + j \in slot
  <2> DEFINE p == 156 + j
  <2>1. p \in Int /\ p - 156 = j OBVIOUS
  <2>2. p \notin A /\ p \notin B /\ p \notin C /\ p \notin E BY <1>6, <1>7
  <2>3. p \in D <=> 10 + j \in slot BY <2>1, <1>6
  <2> HIDE DEF p
  <2>4. p \in M <=> 10 + j \in slot BY <2>2, <2>3, <1>1
  <2> QED BY <2>4 DEF p
<1>11. ASSUME NEW j \in 0 .. 97 PROVE 166 + j \in M <=> 98 + j \in air
  <2> DEFINE p == 166 + j
  <2>1. p \in Int /\ p - 166 = j OBVIOUS
  <2>2. p \notin A /\ p \notin B /\ p \notin C /\ p \notin D BY <1>6, <1>7
  <2>3. p \in E <=> 98 + j \in air BY <2>1, <1>6
  <2> HIDE DEF p
  <2>4. p \in M <=> 98 + j \in air BY <2>2, <2>3, <1>1
  <2> QED BY <2>4 DEF p
<1> QED BY <1>8, <1>9, <1>10, <1>11 DEF M, air, slot

\* The bits of a burst a label is read from.
LEMMA EmbBitsMember ==
  ASSUME NEW burst, NEW j
  PROVE  j \in EmbBits(ExtractSync(burst)) <=>
           \/ j \in 0 .. 7 /\ 108 + j \in burst
           \/ j \in 8 .. 15 /\ 140 + j \in burst
<1> DEFINE sync == ExtractSync(burst)
           T == Slice(sync, 40, 8)
           P == Place(T, 8)
<1>1. \A i : i \in sync <=> i \in 0 .. 47 /\ 108 + i \in burst
  <2>1. PICK a \in Nat, n \in Nat : a = 108 /\ n = 48 OBVIOUS
  <2>2. \A i : i \in Slice(burst, a, n) <=> i \in 0 .. n - 1 /\ a + i \in burst BY SliceMember
  <2> QED BY <2>1, <2>2 DEF ExtractSync
<1> HIDE DEF sync
<1>2. \A i : i \in T <=> i \in 0 .. 7 /\ 40 + i \in sync
  <2>1. PICK a \in Nat, n \in Nat : a = 40 /\ n = 8 OBVIOUS
  <2>2. \A i : i \in Slice(sync, a, n) <=> i \in 0 .. n - 1 /\ a + i \in sync BY SliceMember
  <2>3. n - 1 = 7 BY <2>1
  <2> QED BY <2>1, <2>2, <2>3
<1> HIDE DEF T
<1>3. T \subseteq Int BY <1>2
<1>4. P \subseteq Int /\ \A p \in Int : p \in P <=> p - 8 \in T BY <1>3 DEF Place
<1> HIDE DEF P
<1>5. EmbBits(ExtractSync(burst)) = (sync \cap 0 .. 7) \cup P BY DEF EmbBits, sync, T, P
<1>6. ASSUME NEW p \in Int PROVE p \in P <=> p \in 8 .. 15 /\ 140 + p \in burst
  <2>1. p \in P <=> p - 8 \in 0 .. 7 /\ 40 + (p - 8) \in sync BY <1>2, <1>4
  <2>2. p - 8 \in 0 .. 7 <=> p \in 8 .. 15 OBVIOUS
  <2>3. p \in 8 .. 15 => 40 + (p - 8) \in 0 .. 47 /\ 108 + (40 + (p - 8)) = 140 + p OBVIOUS
  <2> QED BY <2>1, <2>2, <2>3, <1>1
<1>7. j \in P <=> j \in 8 .. 15 /\ 140 + j \in burst
  <2>1. CASE j \in Int BY <2>1, <1>6
  <2>2. j \in P => j \in Int BY <1>4
  <2>3. j \in 8 .. 15 => j \in Int OBVIOUS
  <2> QED BY <2>1, <2>2, <2>3
<1>8. j \in 0 .. 7 => j \in 0 .. 47 OBVIOUS
<1> QED BY <1>1, <1>5, <1>7, <1>8

LEMMA SlotBitsMember ==
  ASSUME NEW burst, NEW j
  PROVE  j \in SlotTypeBits(burst) <=>
           \/ j \in 0 .. 9 /\ 98 + j \in burst
           \/ j \in 10 .. 19 /\ 146 + j \in burst
<1> DEFINE S == Slice(burst, 98, 10)
           T == Slice(burst, 156, 10)
           P == Place(T, 10)
<1>1. PICK a \in Nat, b \in Nat, n \in Nat : a = 98 /\ b = 156 /\ n = 10 OBVIOUS
<1>2. n - 1 = 9 BY <1>1
<1>3. \A i : i \in S <=> i \in 0 .. 9 /\ 98 + i \in burst
  <2>1. \A i : i \in Slice(burst, a, n) <=> i \in 0 .. n - 1 /\ a + i \in burst BY SliceMember
  <2> QED BY <1>1, <1>2, <2>1
<1>4. \A i : i \in T <=> i \in 0 .. 9 /\ 156 + i \in burst
  <2>1. \A i : i \in Slice(burst, b, n) <=> i \in 0 .. n - 1 /\ b + i \in burst BY SliceMember
  <2> QED BY <1>1, <1>2, <2>1
<1> HIDE DEF S, T
<1>5. T \subseteq Int BY <1>4
<1>6. P \subseteq Int /\ \A p \in Int : p \in P <=> p - 10 \in T BY <1>5 DEF Place
<1> HIDE DEF P
<1>7. SlotTypeBits(burst) = S \cup P BY DEF SlotTypeBits, S, T, P
<1>8. ASSUME NEW p \in Int PROVE p \in P <=> p \in 10 .. 19 /\ 146 + p \in burst
  <2>1. p \in P <=> p - 10 \in 0 .. 9 /\ 156 + (p - 10) \in burst BY <1>4, <1>6
  <2>2. p - 10 \in 0 .. 9 <=> p \in 10 .. 19 OBVIOUS
  <2>3. 156 + (p - 10) = 146 + p OBVIOUS
  <2> QED BY <2>1, <2>2, <2>3
<1>9. j \in P <=> j \in 10 .. 19 /\ 146 + j \in burst
  <2>1. CASE j \in Int BY <2>1, <1>8
  <2>2. j \in P => j \in Int BY <1>6
  <2>3. j \in 10 .. 19 => j \in Int OBVIOUS
  <2> QED BY <2>1, <2>2, <2>3
<1> QED BY <1>3, <1>7, <1>9

\* A word of either code whose damage lies in one half is no other word of it.
LEMMA QrUnmistaken ==
  ASSUME NEW I, I \subseteq 0 .. 6, NEW D, D \subseteq 0 .. 6,
         NEW E, E \subseteq 0 .. 7 \/ E \subseteq 8 .. 15, QrEncode(D) = SymDiff(QrEncode(I), E)
  PROVE  D = I
<1> DEFINE X == SymDiff(D, I)
<1>1. X \subseteq 0 .. 6 BY DEF SymDiff
<1>2. Span(QrRows, X) = SymDiff(Span(QrRows, D), Span(QrRows, I))
  <2>1. Len(QrRows) \in Nat /\ Len(QrRows) - 1 = 6 BY QrRowsAre
  <2>2. D \subseteq 0 .. Len(QrRows) - 1 /\ I \subseteq 0 .. Len(QrRows) - 1 BY <2>1
  <2> QED BY <2>1, <2>2, SpanSum
<1>3. Span(QrRows, X) = E
  <2>1. \A A, B : SymDiff(SymDiff(A, B), A) = B BY DEF SymDiff
  <2> QED BY <1>2, <2>1 DEF QrEncode
<1> HIDE DEF X
<1>4. X = {}
  <2>1. CASE E \subseteq 0 .. 7
    <3>1. \A p \in 8 .. 15 : p \notin Span(QrRows, X) BY <1>3, <2>1
    <3> QED BY <3>1, <1>1, QrBehind
  <2>2. CASE E \subseteq 8 .. 15
    <3>1. \A p \in 0 .. 6 : p \notin Span(QrRows, X) BY <1>3, <2>2
    <3> QED BY <3>1, <1>1, QrFront
  <2> QED BY <2>1, <2>2
<1> QED BY <1>4 DEF X, SymDiff

LEMMA GolayUnmistaken ==
  ASSUME NEW I, I \subseteq 0 .. 7, NEW D, D \subseteq 0 .. 7,
         NEW E, E \subseteq 0 .. 9 \/ E \subseteq 10 .. 19, GolayEncode(D) = SymDiff(GolayEncode(I), E)
  PROVE  D = I
<1> DEFINE X == SymDiff(D, I)
<1>1. X \subseteq 0 .. 7 BY DEF SymDiff
<1>2. Span(GolayRows, X) = SymDiff(Span(GolayRows, D), Span(GolayRows, I))
  <2>1. Len(GolayRows) \in Nat /\ Len(GolayRows) - 1 = 7 BY GolayRowsAre
  <2>2. D \subseteq 0 .. Len(GolayRows) - 1 /\ I \subseteq 0 .. Len(GolayRows) - 1 BY <2>1
  <2> QED BY <2>1, <2>2, SpanSum
<1>3. Span(GolayRows, X) = E
  <2>1. \A A, B : SymDiff(SymDiff(A, B), A) = B BY DEF SymDiff
  <2> QED BY <1>2, <2>1 DEF GolayEncode
<1> HIDE DEF X
<1>4. X = {}
  <2>1. CASE E \subseteq 0 .. 9
    <3>1. \A p \in 10 .. 19 : p \notin Span(GolayRows, X) BY <1>3, <2>1
    <3> QED BY <3>1, <1>1, GolayBehind
  <2>2. CASE E \subseteq 10 .. 19
    <3>1. \A p \in 0 .. 7 : p \notin Span(GolayRows, X) BY <1>3, <2>2
    <3> QED BY <3>1, <1>1, GolayFront
  <2> QED BY <2>1, <2>2
<1> QED BY <1>4 DEF X, SymDiff

LEMMA GolayWithin == ASSUME NEW D, D \subseteq 0 .. 7 PROVE GolayEncode(D) \subseteq 0 .. 19
<1>1. PICK n \in Int : n = 19 OBVIOUS
<1>2. \A d \in D : GolayRows[d + 1] \subseteq 0 .. n
  <2> SUFFICES ASSUME NEW d \in D PROVE GolayRows[d + 1] \subseteq 0 .. n OBVIOUS
  <2>1. d = 0 \/ d = 1 \/ d = 2 \/ d = 3 \/ d = 4 \/ d = 5 \/ d = 6 \/ d = 7 OBVIOUS
  <2> QED BY <1>1, <2>1, GolayRowsAre
<1>3. Span(GolayRows, D) \subseteq 0 .. n BY <1>2, SpanWithin
<1> QED BY <1>1, <1>3 DEF GolayEncode

\* So an EMB word that is accepted is the one sent.
LEMMA EmbUnmistaken ==
  ASSUME AirType, IsVoice(unit), MaxFade <= 33, NEW b \in 2 .. 6
  PROVE  QrDecode(EmbBits(ExtractSync(Heard(b)))) \in
           {EmbInfo(call.colour, IF b = 6 THEN 0 ELSE Lcss(b - 2)), LookupDecodeError}
<1> DEFINE I == EmbInfo(call.colour, IF b = 6 THEN 0 ELSE Lcss(b - 2))
           W == EmbBits(ExtractSync(Heard(b)))
           E == SymDiff(QrEncode(I), W)
           Q == QrEncode(I)
<1>1. I \subseteq 0 .. 6 BY EmbInfoWithin
<1>2. Q \subseteq 0 .. 15 BY <1>1, QrWithin
<1>3. bursts = Superframe(call, unit) BY DEF AirType, UnitBursts
<1>4. FadeShape /\ fade.len <= 33
  <2>1. FadeShape BY DEF AirType, FadeShape, Bursts
  <2>2. fade.len <= 33 BY AirAssumption DEF AirType
  <2> QED BY <2>1, <2>2
<1> DEFINE F == Fragments(SentLc(call, unit))
           M == Middle(F, b - 1, call.colour)
<1>5. /\ \A j \in 0 .. 7 : j \in M <=> j \in Q
      /\ \A j \in 0 .. 7 : 40 + j \in M <=> 8 + j \in Q
  <2>1. CASE b = 6
    <3>1. PICK e, l : e = {} /\ l = 0 OBVIOUS
    <3>2. e \subseteq 0 .. 31 BY <3>1
    <3>3. M = EmbSection(call.colour, l, e) BY <2>1, <3>1 DEF Middle
    <3>4. I = EmbInfo(call.colour, l) BY <2>1, <3>1
    <3> HIDE DEF M, I
    <3> QED BY <3>2, <3>3, <3>4, SectionMember
  <2>2. CASE b \in 2 .. 5
    <3> DEFINE k == b - 2
    <3>1. k \in 0 .. 3 /\ b - 1 \in 1 .. 4 /\ (b - 1) - 1 = k /\ b # 6 BY <2>2
    <3>2. M = EmbSection(call.colour, Lcss(k), F[k]) BY <3>1 DEF Middle
    <3>3. I = EmbInfo(call.colour, Lcss(k)) BY <3>1
    <3>4. F[k] \subseteq 0 .. 31 BY <3>1, FragmentMember
    <3> HIDE DEF M, I, F, k
    <3> QED BY <3>2, <3>3, <3>4, SectionMember
  <2> QED BY <2>1, <2>2
<1> HIDE DEF I
<1>6. \A j \in 0 .. 47 : 108 + j \in bursts[b] <=> j \in M
  <2>1. b \in 1 .. 6 OBVIOUS
  <2> QED BY <1>3, <2>1, SuperframeMember
<1> HIDE DEF M, F, Q
<1>7. ASSUME NEW j \in 0 .. 7
      PROVE  j \in W <=> ~(j \in Q <=> b = fade.burst /\ fade.at <= 108 + j /\ 108 + j < fade.at + fade.len)
  <2>1. j \in W <=> 108 + j \in Heard(b)
    <3>1. j \notin 8 .. 15 OBVIOUS
    <3> QED BY <3>1, EmbBitsMember
  <2>2. 108 + j \in bursts[b] <=> j \in Q
    <3>1. j \in 0 .. 47 OBVIOUS
    <3> QED BY <3>1, <1>5, <1>6
  <2>3. 108 + j \in Int OBVIOUS
  <2> QED BY <2>1, <2>2, <2>3, <1>4, HeardMember
<1>8. ASSUME NEW j \in 8 .. 15
      PROVE  j \in W <=> ~(j \in Q <=> b = fade.burst /\ fade.at <= 140 + j /\ 140 + j < fade.at + fade.len)
  <2>1. j \in W <=> 140 + j \in Heard(b)
    <3>1. j \notin 0 .. 7 OBVIOUS
    <3> QED BY <3>1, EmbBitsMember
  <2>2. 140 + j \in bursts[b] <=> j \in Q
    <3> DEFINE i == j - 8
    <3>1. i \in 0 .. 7 /\ 8 + i = j /\ 40 + i \in 0 .. 47 /\ 108 + (40 + i) = 140 + j OBVIOUS
    <3> HIDE DEF i
    <3>2. 40 + i \in M <=> 8 + i \in Q BY <3>1, <1>5
    <3>3. 108 + (40 + i) \in bursts[b] <=> 40 + i \in M BY <3>1, <1>6
    <3> QED BY <3>1, <3>2, <3>3
  <2>3. 140 + j \in Int OBVIOUS
  <2> QED BY <2>1, <2>2, <2>3, <1>4, HeardMember
<1>9. W \subseteq 0 .. 15
  <2>1. ASSUME NEW j \in W PROVE j \in 0 .. 15
    <3>1. j \in 0 .. 7 \/ j \in 8 .. 15 BY EmbBitsMember
    <3> QED BY <3>1
  <2> QED BY <2>1
<1> HIDE DEF W
<1>10. \A j : j \in E <=> ~(j \in Q <=> j \in W) BY SymDiffMember DEF Q
<1>11. E \subseteq 0 .. 15 BY <1>2, <1>9, <1>10
<1> HIDE DEF E
<1>12. E \subseteq 0 .. 7 \/ E \subseteq 8 .. 15
  <2>1. ASSUME NEW i \in E, NEW j \in E, i \in 0 .. 7, j \in 8 .. 15 PROVE FALSE
    <3>1. fade.at <= 108 + i BY <2>1, <1>7, <1>10
    <3>2. 140 + j < fade.at + fade.len BY <2>1, <1>8, <1>10
    <3> QED BY <3>1, <3>2, <2>1, <1>4 DEF FadeShape
  <2>2. \A j \in E : j \in 0 .. 7 \/ j \in 8 .. 15 BY <1>11
  <2> QED BY <2>1, <2>2
<1>13. W = SymDiff(QrEncode(I), E) BY DEF E, SymDiff
<1>14. ASSUME NEW D \in SUBSET (0 .. 6), QrEncode(D) = W PROVE D = I
  <2>1. D \subseteq 0 .. 6 OBVIOUS
  <2> QED BY <2>1, <1>1, <1>12, <1>13, <1>14, QrUnmistaken
<1>15. QrDecode(W) \in {I, LookupDecodeError}
  <2>1. DOMAIN QrWords = SUBSET (0 .. 6) /\ \A D \in SUBSET (0 .. 6) : QrWords[D] = QrEncode(D)
    BY DEF QrWords
  <2>2. CASE \E D \in DOMAIN QrWords : QrWords[D] = W
    <3>1. QrDecode(W) = CHOOSE D \in DOMAIN QrWords : QrWords[D] = W BY <2>2 DEF QrDecode
    <3> DEFINE d == CHOOSE D \in DOMAIN QrWords : QrWords[D] = W
    <3>2. d \in DOMAIN QrWords /\ QrWords[d] = W BY <2>2
    <3> HIDE DEF d
    <3>3. d = I BY <3>2, <2>1, <1>14
    <3> QED BY <3>1, <3>3 DEF d
  <2>3. CASE ~\E D \in DOMAIN QrWords : QrWords[D] = W
    <3>1. QrDecode(W) = LookupDecodeError BY <2>3 DEF QrDecode
    <3> QED BY <3>1
  <2> QED BY <2>2, <2>3
<1> QED BY <1>15 DEF I, W

\* And a slot type.
LEMMA SlotUnmistaken ==
  ASSUME AirType, ~IsVoice(unit), MaxFade <= 49
  PROVE  GolayDecode(SlotTypeBits(Heard(1))) \in
           {Field(call.colour, 0, 4) \cup Field(DataType(unit = Terminator), 4, 4), LookupDecodeError}
<1> DEFINE dtype == DataType(unit = Terminator)
           I == Field(call.colour, 0, 4) \cup Field(dtype, 4, 4)
           W == SlotTypeBits(Heard(1))
           Q == GolayEncode(I)
           E == SymDiff(Q, W)
           B == bursts[1]
           lc == VoiceLc(call.group, call.dst, call.src, unit = Terminator)
<1>1. I \subseteq 0 .. 7
  <2>1. PICK a \in Nat, v \in Nat : a = 0 /\ v = 4 OBVIOUS
  <2>2. Field(call.colour, a, v) \subseteq a .. a + v - 1 BY FieldWithin
  <2>3. Field(dtype, v, v) \subseteq v .. v + v - 1 BY FieldWithin
  <2>4. a + v - 1 = 3 /\ v + v - 1 = 7 BY <2>1
  <2> HIDE DEF dtype
  <2> QED BY <2>1, <2>2, <2>3, <2>4
<1>2. Q \subseteq 0 .. 19 BY <1>1, GolayWithin
<1>3. B = DataBurst(lc, dtype, call.colour)
  <2>1. UnitBursts(call, unit) = << ControlBurst(call, unit = Terminator) >> BY DEF UnitBursts
  <2> DEFINE C == ControlBurst(call, unit = Terminator)
  <2>2. C = DataBurst(lc, dtype, call.colour) BY DEF ControlBurst
  <2> HIDE DEF C
  <2>3. << C >>[1] = C OBVIOUS
  <2>4. bursts = << C >> BY <2>1 DEF AirType, C
  <2> QED BY <2>2, <2>3, <2>4
<1>4. FadeShape /\ fade.len <= 49
  <2>1. FadeShape BY DEF AirType, FadeShape, Bursts
  <2>2. fade.len <= 49 BY AirAssumption DEF AirType
  <2> QED BY <2>1, <2>2
<1>5. Q = SlotType(dtype, call.colour) BY DEF SlotType
<1> HIDE DEF dtype, lc, B, I, Q
<1>6. /\ \A j \in 0 .. 9 : 98 + j \in B <=> j \in Q
      /\ \A j \in 0 .. 9 : 156 + j \in B <=> 10 + j \in Q
  BY <1>3, <1>5, DataMember
<1>20. \A p \in Int : p \in Heard(1) <=>
           ~(p \in B <=> 1 = fade.burst /\ fade.at <= p /\ p < fade.at + fade.len)
  <2>1. PICK b : b = 1 OBVIOUS
  <2>2. \A p \in Int : p \in Heard(b) <=>
           ~(p \in bursts[b] <=> b = fade.burst /\ fade.at <= p /\ p < fade.at + fade.len)
    BY <1>4, HeardMember
  <2> QED BY <2>1, <2>2 DEF B
<1>7. ASSUME NEW j \in 0 .. 9, ~(j \in W <=> j \in Q) PROVE fade.at <= 98 + j
  <2>1. j \in W <=> 98 + j \in Heard(1)
    <3>1. j \notin 10 .. 19 OBVIOUS
    <3> QED BY <3>1, SlotBitsMember
  <2>2. 98 + j \in Int OBVIOUS
  <2> QED BY <2>1, <2>2, <1>6, <1>7, <1>20
<1>8. ASSUME NEW j \in 10 .. 19, ~(j \in W <=> j \in Q) PROVE 146 + j < fade.at + fade.len
  <2>1. j \in W <=> 146 + j \in Heard(1)
    <3>1. j \notin 0 .. 9 OBVIOUS
    <3> QED BY <3>1, SlotBitsMember
  <2>2. 146 + j \in B <=> j \in Q
    <3> DEFINE i == j - 10
    <3>1. i \in 0 .. 9 /\ 10 + i = j /\ 156 + i = 146 + j OBVIOUS
    <3> HIDE DEF i
    <3>2. 156 + i \in B <=> 10 + i \in Q BY <3>1, <1>6
    <3> QED BY <3>1, <3>2
  <2>3. 146 + j \in Int OBVIOUS
  <2> QED BY <2>1, <2>2, <2>3, <1>8, <1>20
<1>9. W \subseteq 0 .. 19
  <2>1. ASSUME NEW j \in W PROVE j \in 0 .. 19
    <3>1. j \in 0 .. 9 \/ j \in 10 .. 19 BY SlotBitsMember
    <3> QED BY <3>1
  <2> QED BY <2>1
<1> HIDE DEF W
<1>10. \A j : j \in E <=> ~(j \in Q <=> j \in W) BY SymDiffMember
<1>11. E \subseteq 0 .. 19 BY <1>2, <1>9, <1>10
<1>13. W = SymDiff(Q, E) BY DEF SymDiff
<1> HIDE DEF E
<1>12. E \subseteq 0 .. 9 \/ E \subseteq 10 .. 19
  <2>1. ASSUME NEW i \in E, NEW j \in E, i \in 0 .. 9, j \in 10 .. 19 PROVE FALSE
    <3>1. fade.at <= 98 + i BY <2>1, <1>7, <1>10
    <3>2. 146 + j < fade.at + fade.len BY <2>1, <1>8, <1>10
    <3> QED BY <3>1, <3>2, <2>1, <1>4 DEF FadeShape
  <2>2. \A j \in E : j \in 0 .. 9 \/ j \in 10 .. 19 BY <1>11
  <2> QED BY <2>1, <2>2
<1>14. ASSUME NEW D, D \subseteq 0 .. 7, GolayEncode(D) = W PROVE D = I
  BY <1>1, <1>12, <1>13, <1>14, GolayUnmistaken DEF Q
<1>15. GolayDecode(W) \in {I, LookupDecodeError}
  <2> DEFINE D == W \cap 0 .. 7
  <2>1. GolayDecode(W) = IF GolayEncode(D) = W THEN D ELSE LookupDecodeError BY DEF GolayDecode
  <2>2. GolayEncode(D) = W => D = I
    <3>1. D \subseteq 0 .. 7 OBVIOUS
    <3> HIDE DEF D
    <3> QED BY <3>1, <1>14
  <2> QED BY <2>1, <2>2
<1> QED BY <1>15 DEF I, W, dtype

LEMMA LabelsOfType == ASSUME AirType, MaxFade <= 33 PROVE LabelsNeverMisread
<1>1. MaxFade <= 49 BY AirAssumption
<1>2. CASE IsVoice(unit) BY <1>2, EmbUnmistaken DEF LabelsNeverMisread
<1>3. CASE ~IsVoice(unit) BY <1>1, <1>3, SlotUnmistaken DEF LabelsNeverMisread
<1> QED BY <1>2, <1>3

\* No slot type or EMB is taken for another, in fades of up to 33 bits: one that lies in
\* one half of a label leaves the other, which tells the words apart (golay_20_8_decode,
\* qr_16_7_decode).
THEOREM LabelsHold == ASSUME MaxFade <= 33 PROVE Spec => []LabelsNeverMisread
<1>1. AirType => LabelsNeverMisread BY LabelsOfType
<1>2. Spec => []AirType BY AirTypeHolds
<1> QED BY <1>1, <1>2, PTL

--------------------------------------------------------------------------------
(* The rows of a voice frame on the air. *)

\* Bit 4 h + s goes to this row and column.
LEMMA PlaceAt ==
  ASSUME NEW h \in 0 .. 17
  PROVE  /\ Place72[4 * h] = << 0, 23 - h >>
         /\ Place72[4 * h + 1] = IF h < 6 THEN << 0, 5 - h >> ELSE << 1, 28 - h >>
         /\ Place72[4 * h + 2] = IF h < 11 THEN << 1, 10 - h >> ELSE << 2, 21 - h >>
         /\ Place72[4 * h + 3] = IF h < 4 THEN << 2, 3 - h >> ELSE << 3, 17 - h >>
<1>1. ASSUME NEW p \in 0 .. 71, p = 4 * h
      PROVE  Place72[p] = << 0, 23 - h >>
  <2>1. p % 2 = 0 /\ (p \div 2) % 2 = 0 /\ (p \div 2) \div 2 = h BY <1>1
  <2> QED BY <2>1 DEF Place72
<1>2. ASSUME NEW p \in 0 .. 71, p = 4 * h + 1
      PROVE  Place72[p] = IF h < 6 THEN << 0, 5 - h >> ELSE << 1, 28 - h >>
  <2>1. p % 2 = 1 /\ (p \div 2) % 2 = 0 /\ (p \div 2) \div 2 = h /\ (p \div 2 < 12 <=> h < 6) BY <1>2
  <2> QED BY <2>1 DEF Place72
<1>3. ASSUME NEW p \in 0 .. 71, p = 4 * h + 2
      PROVE  Place72[p] = IF h < 11 THEN << 1, 10 - h >> ELSE << 2, 21 - h >>
  <2>1. p % 2 = 0 /\ (p \div 2) % 2 = 1 /\ (p \div 2) \div 2 = h /\ (p \div 2 < 22 <=> h < 11) BY <1>3
  <2> QED BY <2>1 DEF Place72
<1>4. ASSUME NEW p \in 0 .. 71, p = 4 * h + 3
      PROVE  Place72[p] = IF h < 4 THEN << 2, 3 - h >> ELSE << 3, 17 - h >>
  <2>1. p % 2 = 1 /\ (p \div 2) % 2 = 1 /\ (p \div 2) \div 2 = h /\ (p \div 2 < 8 <=> h < 4) BY <1>4
  <2> QED BY <2>1 DEF Place72
<1>5. 4 * h \in 0 .. 71 /\ 4 * h + 1 \in 0 .. 71 /\ 4 * h + 2 \in 0 .. 71 /\ 4 * h + 3 \in 0 .. 71
  OBVIOUS
<1> QED BY <1>1, <1>2, <1>3, <1>4, <1>5

RowOf(p) == Place72[p][1]
ColumnOf(p) == Place72[p][2]

\* The same, in the four residues.
LEMMA RowAt ==
  ASSUME NEW p \in 0 .. 71
  PROVE  \E h \in 0 .. 17 :
           \/ p = 4 * h /\ RowOf(p) = 0 /\ ColumnOf(p) = 23 - h
           \/ p = 4 * h + 1 /\ h < 6 /\ RowOf(p) = 0 /\ ColumnOf(p) = 5 - h
           \/ p = 4 * h + 1 /\ h >= 6 /\ RowOf(p) = 1 /\ ColumnOf(p) = 28 - h
           \/ p = 4 * h + 2 /\ h < 11 /\ RowOf(p) = 1 /\ ColumnOf(p) = 10 - h
           \/ p = 4 * h + 2 /\ h >= 11 /\ RowOf(p) = 2 /\ ColumnOf(p) = 21 - h
           \/ p = 4 * h + 3 /\ h < 4 /\ RowOf(p) = 2 /\ ColumnOf(p) = 3 - h
           \/ p = 4 * h + 3 /\ h >= 4 /\ RowOf(p) = 3 /\ ColumnOf(p) = 17 - h
<1> DEFINE h == p \div 4
<1>1. h \in 0 .. 17 /\ (p = 4 * h \/ p = 4 * h + 1 \/ p = 4 * h + 2 \/ p = 4 * h + 3) OBVIOUS
<1> HIDE DEF h
<1>2. \A a, b : << a, b >>[1] = a /\ << a, b >>[2] = b OBVIOUS
<1>3. /\ Place72[4 * h] = << 0, 23 - h >>
      /\ Place72[4 * h + 1] = IF h < 6 THEN << 0, 5 - h >> ELSE << 1, 28 - h >>
      /\ Place72[4 * h + 2] = IF h < 11 THEN << 1, 10 - h >> ELSE << 2, 21 - h >>
      /\ Place72[4 * h + 3] = IF h < 4 THEN << 2, 3 - h >> ELSE << 3, 17 - h >>
  BY <1>1, PlaceAt
<1>4. CASE p = 4 * h BY <1>1, <1>2, <1>3, <1>4 DEF RowOf, ColumnOf
<1>5. CASE p = 4 * h + 1
  <2>1. CASE h < 6 BY <1>1, <1>2, <1>3, <1>5, <2>1 DEF RowOf, ColumnOf
  <2>2. CASE h >= 6 BY <1>1, <1>2, <1>3, <1>5, <2>2 DEF RowOf, ColumnOf
  <2> QED BY <1>1, <2>1, <2>2
<1>6. CASE p = 4 * h + 2
  <2>1. CASE h < 11 BY <1>1, <1>2, <1>3, <1>6, <2>1 DEF RowOf, ColumnOf
  <2>2. CASE h >= 11 BY <1>1, <1>2, <1>3, <1>6, <2>2 DEF RowOf, ColumnOf
  <2> QED BY <1>1, <2>1, <2>2
<1>7. CASE p = 4 * h + 3
  <2>1. CASE h < 4 BY <1>1, <1>2, <1>3, <1>7, <2>1 DEF RowOf, ColumnOf
  <2>2. CASE h >= 4 BY <1>1, <1>2, <1>3, <1>7, <2>2 DEF RowOf, ColumnOf
  <2> QED BY <1>1, <2>1, <2>2
<1> QED BY <1>1, <1>4, <1>5, <1>6, <1>7

\* No two bits go to the same place.
LEMMA PlaceInjective ==
  ASSUME NEW p \in 0 .. 71, NEW q \in 0 .. 71, RowOf(p) = RowOf(q), ColumnOf(p) = ColumnOf(q)
  PROVE  p = q
<1>1. \A x \in 0 .. 71 : \E h \in 0 .. 17 :
           \/ x = 4 * h /\ RowOf(x) = 0 /\ ColumnOf(x) = 23 - h
           \/ x = 4 * h + 1 /\ h < 6 /\ RowOf(x) = 0 /\ ColumnOf(x) = 5 - h
           \/ x = 4 * h + 1 /\ h >= 6 /\ RowOf(x) = 1 /\ ColumnOf(x) = 28 - h
           \/ x = 4 * h + 2 /\ h < 11 /\ RowOf(x) = 1 /\ ColumnOf(x) = 10 - h
           \/ x = 4 * h + 2 /\ h >= 11 /\ RowOf(x) = 2 /\ ColumnOf(x) = 21 - h
           \/ x = 4 * h + 3 /\ h < 4 /\ RowOf(x) = 2 /\ ColumnOf(x) = 3 - h
           \/ x = 4 * h + 3 /\ h >= 4 /\ RowOf(x) = 3 /\ ColumnOf(x) = 17 - h
  BY RowAt
<1> QED BY <1>1


\* Where row r's column c lies on the air.
Spot(r, c) ==
  IF r = 0 THEN IF c >= 6 THEN 4 * (23 - c) ELSE 4 * (5 - c) + 1
  ELSE IF r = 1 THEN IF c >= 11 THEN 4 * (28 - c) + 1 ELSE 4 * (10 - c) + 2
  ELSE IF r = 2 THEN IF c >= 4 THEN 4 * (21 - c) + 2 ELSE 4 * (3 - c) + 3
  ELSE 4 * (17 - c) + 3

Width(r) == IF r = 0 THEN 23 ELSE IF r = 1 THEN 22 ELSE IF r = 2 THEN 10 ELSE 13

LEMMA SpotIs ==
  ASSUME NEW r \in 0 .. 3, NEW c \in 0 .. Width(r)
  PROVE  Spot(r, c) \in 0 .. 71 /\ RowOf(Spot(r, c)) = r /\ ColumnOf(Spot(r, c)) = c
<1> DEFINE p == Spot(r, c)
<1>1. p \in 0 .. 71 BY DEF Spot, Width
<1>2. PICK h \in 0 .. 17 :
           \/ p = 4 * h /\ RowOf(p) = 0 /\ ColumnOf(p) = 23 - h
           \/ p = 4 * h + 1 /\ h < 6 /\ RowOf(p) = 0 /\ ColumnOf(p) = 5 - h
           \/ p = 4 * h + 1 /\ h >= 6 /\ RowOf(p) = 1 /\ ColumnOf(p) = 28 - h
           \/ p = 4 * h + 2 /\ h < 11 /\ RowOf(p) = 1 /\ ColumnOf(p) = 10 - h
           \/ p = 4 * h + 2 /\ h >= 11 /\ RowOf(p) = 2 /\ ColumnOf(p) = 21 - h
           \/ p = 4 * h + 3 /\ h < 4 /\ RowOf(p) = 2 /\ ColumnOf(p) = 3 - h
           \/ p = 4 * h + 3 /\ h >= 4 /\ RowOf(p) = 3 /\ ColumnOf(p) = 17 - h
  <2> HIDE DEF p
  <2> QED BY <1>1, RowAt
<1>3. /\ r = 0 /\ c >= 6 => p = 4 * (23 - c)
      /\ r = 0 /\ c < 6 => p = 4 * (5 - c) + 1
      /\ r = 1 /\ c >= 11 => p = 4 * (28 - c) + 1
      /\ r = 1 /\ c < 11 => p = 4 * (10 - c) + 2
      /\ r = 2 /\ c >= 4 => p = 4 * (21 - c) + 2
      /\ r = 2 /\ c < 4 => p = 4 * (3 - c) + 3
      /\ r = 3 => p = 4 * (17 - c) + 3
  BY DEF Spot, Width
<1>4. c \in Int /\ c >= 0 /\ c <= Width(r) BY DEF Width
<1> HIDE DEF p
<1>5. r = 0 => RowOf(p) = r /\ ColumnOf(p) = c BY <1>1, <1>2, <1>3, <1>4 DEF Width
<1>6. r = 1 => RowOf(p) = r /\ ColumnOf(p) = c BY <1>1, <1>2, <1>3, <1>4 DEF Width
<1>7. r = 2 => RowOf(p) = r /\ ColumnOf(p) = c BY <1>1, <1>2, <1>3, <1>4 DEF Width
<1>8. r = 3 => RowOf(p) = r /\ ColumnOf(p) = c BY <1>1, <1>2, <1>3, <1>4 DEF Width
<1>9. RowOf(p) = r /\ ColumnOf(p) = c BY <1>5, <1>6, <1>7, <1>8
<1> QED BY <1>1, <1>9 DEF p

LEMMA SpotOf ==
  ASSUME NEW p \in 0 .. 71
  PROVE  /\ RowOf(p) \in 0 .. 3 /\ ColumnOf(p) \in 0 .. Width(RowOf(p))
         /\ Spot(RowOf(p), ColumnOf(p)) = p
<1>1. PICK h \in 0 .. 17 :
           \/ p = 4 * h /\ RowOf(p) = 0 /\ ColumnOf(p) = 23 - h
           \/ p = 4 * h + 1 /\ h < 6 /\ RowOf(p) = 0 /\ ColumnOf(p) = 5 - h
           \/ p = 4 * h + 1 /\ h >= 6 /\ RowOf(p) = 1 /\ ColumnOf(p) = 28 - h
           \/ p = 4 * h + 2 /\ h < 11 /\ RowOf(p) = 1 /\ ColumnOf(p) = 10 - h
           \/ p = 4 * h + 2 /\ h >= 11 /\ RowOf(p) = 2 /\ ColumnOf(p) = 21 - h
           \/ p = 4 * h + 3 /\ h < 4 /\ RowOf(p) = 2 /\ ColumnOf(p) = 3 - h
           \/ p = 4 * h + 3 /\ h >= 4 /\ RowOf(p) = 3 /\ ColumnOf(p) = 17 - h
  BY RowAt
<1>2. RowOf(p) \in 0 .. 3 /\ ColumnOf(p) \in 0 .. Width(RowOf(p)) BY <1>1 DEF Width
<1>3. RowOf(Spot(RowOf(p), ColumnOf(p))) = RowOf(p) /\ ColumnOf(Spot(RowOf(p), ColumnOf(p))) = ColumnOf(p)
      /\ Spot(RowOf(p), ColumnOf(p)) \in 0 .. 71
  BY <1>2, SpotIs
<1> QED BY <1>2, <1>3, PlaceInjective

\* A row, from the bits on the air; a bit, from the rows.
LEMMA RowMember ==
  ASSUME NEW coded, coded \subseteq 0 .. 71, NEW r \in 0 .. 3
  PROVE  /\ DeinterleaveRows(coded)[r] \subseteq 0 .. Width(r)
         /\ \A c \in 0 .. Width(r) : c \in DeinterleaveRows(coded)[r] <=> Spot(r, c) \in coded
<1> DEFINE R == {Place72[p][2] : p \in {q \in coded : Place72[q][1] = r}}
<1>1. DeinterleaveRows(coded)[r] = R BY DEF DeinterleaveRows
<1>2. ASSUME NEW c \in R PROVE c \in 0 .. Width(r) /\ Spot(r, c) \in coded
  <2>1. PICK p \in coded : RowOf(p) = r /\ c = ColumnOf(p) BY <1>2 DEF RowOf, ColumnOf
  <2>2. p \in 0 .. 71 OBVIOUS
  <2> QED BY <2>1, <2>2, SpotOf
<1>3. ASSUME NEW c \in 0 .. Width(r), Spot(r, c) \in coded PROVE c \in R
  <2>1. RowOf(Spot(r, c)) = r /\ ColumnOf(Spot(r, c)) = c BY SpotIs
  <2> QED BY <1>3, <2>1 DEF RowOf, ColumnOf
<1> HIDE DEF R
<1> QED BY <1>1, <1>2, <1>3

LEMMA InterleaveMember ==
  ASSUME NEW rows, NEW r \in 0 .. 3, NEW c \in 0 .. Width(r)
  PROVE  Spot(r, c) \in InterleaveRows(rows) <=> c \in rows[r]
<1> DEFINE p == Spot(r, c)
<1>1. p \in 0 .. 71 /\ Place72[p][1] = r /\ Place72[p][2] = c BY SpotIs DEF RowOf, ColumnOf
<1> HIDE DEF p
<1>2. p \in InterleaveRows(rows) <=> Place72[p][2] \in rows[Place72[p][1]]
  BY <1>1 DEF InterleaveRows
<1> QED BY <1>1, <1>2 DEF p

\* Damage to the bits is damage to the rows.
LEMMA RowDamage ==
  ASSUME NEW X, X \subseteq 0 .. 71, NEW H, H \subseteq 0 .. 71, NEW r \in 0 .. 3
  PROVE  DeinterleaveRows(SymDiff(X, H))[r] = SymDiff(DeinterleaveRows(X)[r], DeinterleaveRows(H)[r])
<1> DEFINE A == DeinterleaveRows(SymDiff(X, H))[r]
           B == DeinterleaveRows(X)[r]
           C == DeinterleaveRows(H)[r]
<1>1. SymDiff(X, H) \subseteq 0 .. 71 BY DEF SymDiff
<1>2. /\ A \subseteq 0 .. Width(r) /\ B \subseteq 0 .. Width(r) /\ C \subseteq 0 .. Width(r)
      /\ \A c \in 0 .. Width(r) : c \in A <=> Spot(r, c) \in SymDiff(X, H)
      /\ \A c \in 0 .. Width(r) : c \in B <=> Spot(r, c) \in X
      /\ \A c \in 0 .. Width(r) : c \in C <=> Spot(r, c) \in H
  BY <1>1, RowMember
<1> HIDE DEF A, B, C
<1>3. ASSUME NEW c PROVE c \in A <=> c \in SymDiff(B, C)
  <2>1. c \in SymDiff(B, C) <=> ~(c \in B <=> c \in C) BY SymDiffMember
  <2>2. CASE c \in 0 .. Width(r)
    <3>1. Spot(r, c) \in SymDiff(X, H) <=> ~(Spot(r, c) \in X <=> Spot(r, c) \in H) BY SymDiffMember
    <3> QED BY <1>2, <2>1, <2>2, <3>1
  <2>3. CASE c \notin 0 .. Width(r) BY <1>2, <2>1, <2>3
  <2> QED BY <2>2, <2>3
<1> QED BY <1>3 DEF A, B, C

LEMMA RowsBack ==
  ASSUME NEW rows, NEW r \in 0 .. 3, rows[r] \subseteq 0 .. Width(r)
  PROVE  DeinterleaveRows(InterleaveRows(rows))[r] = rows[r]
<1>1. InterleaveRows(rows) \subseteq 0 .. 71 BY DEF InterleaveRows
<1>2. DeinterleaveRows(InterleaveRows(rows))[r] \subseteq 0 .. Width(r)
  BY <1>1, RowMember
<1>3. \A c \in 0 .. Width(r) : c \in DeinterleaveRows(InterleaveRows(rows))[r] <=> c \in rows[r]
  BY <1>1, RowMember, InterleaveMember
<1> QED BY <1>2, <1>3

--------------------------------------------------------------------------------
(* The Golay words of a voice frame. *)

\* The remainder of x^11, and what one more factor x makes of a remainder.
FirstRemainder == {0, 2, 4, 5, 6, 10}
Raised(s) == {k + 1 : k \in s}
NextRemainder(s) ==
  IF 11 \in Raised(s) THEN SymDiff(Raised(s) \ {11}, FirstRemainder) ELSE Raised(s)

LEMMA NextWithin ==
  ASSUME NEW s \in SUBSET (0 .. 10) PROVE NextRemainder(s) \in SUBSET (0 .. 10)
<1>1. \A k \in Raised(s) : k \in 1 .. 11 BY DEF Raised
<1>2. \A k \in FirstRemainder : k \in 0 .. 10 BY DEF FirstRemainder
<1>3. ASSUME NEW k \in NextRemainder(s) PROVE k \in 0 .. 10
  <2>1. CASE 11 \in Raised(s)
    <3>1. k \in Raised(s) \ {11} \/ k \in FirstRemainder BY <2>1, SymDiffMember DEF NextRemainder
    <3> QED BY <3>1, <1>1, <1>2
  <2>2. CASE 11 \notin Raised(s)
    <3>1. k \in Raised(s) /\ k # 11 BY <2>2 DEF NextRemainder
    <3> QED BY <3>1, <1>1
  <2> QED BY <2>1, <2>2
<1> QED BY <1>3

LEMMA RemaindersAre == GolayRemainders \in [1 .. 12 -> SUBSET (0 .. 10)]
<1> DEFINE Step(f) == [i \in 1 .. 12 |-> IF i = 1 THEN FirstRemainder ELSE NextRemainder(f[i - 1])]
           g == CHOOSE f : f = Step(f)
           S == SUBSET (0 .. 10)
           One == [s \in S |-> NextRemainder(s)]
           G == [n \in 1 .. 11 |-> One]
<1>1. GolayRemainders = g BY DEF GolayRemainders, FirstRemainder, NextRemainder, Raised
<1>2. FirstRemainder \in S BY DEF FirstRemainder
<1>3. G \in [1 .. 11 -> [S -> S]]
  <2>1. One \in [S -> S] BY NextWithin
  <2> HIDE DEF One, S
  <2> QED BY <2>1
<1>4. PICK w \in Nat : w = 11 OBVIOUS
<1>5. PICK v : Recurs(v, w, S, FirstRemainder, G)
  <2>1. G \in [1 .. w -> [S -> S]] BY <1>3, <1>4
  <2> HIDE DEF G, S
  <2> QED BY <2>1, <1>2, <1>4, Recursion
<1>6. \A n \in 1 .. 11 : v[n] = NextRemainder(v[n - 1])
  <2>1. ASSUME NEW n \in 1 .. 11 PROVE v[n] = NextRemainder(v[n - 1])
    <3>1. v[n] = G[n][v[n - 1]] /\ v[n - 1] \in S BY <1>4, <1>5 DEF Recurs
    <3> HIDE DEF S
    <3> QED BY <3>1
  <2> QED BY <2>1
<1>7. v[0] = FirstRemainder BY <1>5 DEF Recurs
<1> DEFINE u == [i \in 1 .. 12 |-> v[i - 1]]
<1>8. u = Step(u)
  <2>1. ASSUME NEW i \in 1 .. 12
        PROVE  v[i - 1] = IF i = 1 THEN FirstRemainder ELSE NextRemainder(u[i - 1])
    <3>1. CASE i = 1 BY <3>1, <1>7
    <3>2. CASE i # 1
      <4>1. i - 1 \in 1 .. 12 /\ i - 1 \in 1 .. 11 BY <3>2
      <4>2. u[i - 1] = v[(i - 1) - 1] BY <4>1
      <4> QED BY <3>2, <4>1, <4>2, <1>6
    <3> QED BY <3>1, <3>2
  <2> QED BY <2>1, Zenon
<1>9. g = Step(g)
  <2> HIDE DEF Step, u
  <2> QED BY <1>8
<1> HIDE DEF g, u
<1> DEFINE T == {n \in 0 .. 11 : g[n + 1] \in S}
<1>10. \A i \in 1 .. 12 : g[i] = IF i = 1 THEN FirstRemainder ELSE NextRemainder(g[i - 1])
  <2>1. ASSUME NEW i \in 1 .. 12
        PROVE  g[i] = IF i = 1 THEN FirstRemainder ELSE NextRemainder(g[i - 1])
    <3>1. g[i] = Step(g)[i]
      <4> HIDE DEF Step
      <4> QED BY <1>9, Zenon
    <3> QED BY <3>1
  <2> QED BY <2>1
<1>11. 0 \in T
  <2>1. g[1] = FirstRemainder BY <1>10
  <2>2. 0 + 1 = 1 /\ 0 \in 0 .. 11 OBVIOUS
  <2> HIDE DEF S
  <2> QED BY <2>1, <2>2, <1>2
<1>12. ASSUME NEW n \in T, n < 11 PROVE n + 1 \in T
  <2>1. n + 1 \in 0 .. 11 /\ (n + 1) + 1 \in 1 .. 12 /\ (n + 1) + 1 # 1 /\ ((n + 1) + 1) - 1 = n + 1
    BY <1>12
  <2>2. g[(n + 1) + 1] = NextRemainder(g[n + 1]) BY <2>1, <1>10
  <2>3. g[(n + 1) + 1] \in S BY <2>2, NextWithin
  <2> QED BY <2>1, <2>3
<1>13. T = 0 .. w
  <2>1. T \subseteq 0 .. w BY <1>4
  <2>2. \A n \in T : n < w => n + 1 \in T BY <1>12, <1>4
  <2> HIDE DEF T
  <2> QED BY <1>11, <2>1, <2>2, InductTo
<1>14. ASSUME NEW i \in 1 .. 12 PROVE g[i] \subseteq 0 .. 10
  <2>1. i - 1 \in 0 .. 11 /\ (i - 1) + 1 = i OBVIOUS
  <2>2. w = 11 BY <1>4
  <2> HIDE DEF T
  <2>3. i - 1 \in T BY ONLY <2>1, <2>2, <1>13
  <2>4. \A n \in T : g[n + 1] \subseteq 0 .. 10 BY DEF T
  <2>5. g[(i - 1) + 1] \subseteq 0 .. 10 BY ONLY <2>3, <2>4
  <2> QED BY ONLY <2>1, <2>5
<1>15. g = [i \in 1 .. 12 |-> g[i]]
  <2>1. \A f : Step(f) = [i \in 1 .. 12 |-> Step(f)[i]] OBVIOUS
  <2> HIDE DEF Step
  <2> QED BY <1>9, <2>1, Zenon
<1> QED BY <1>1, <1>14, <1>15

LEMMA RemaindersWithin == \A i \in 1 .. 12 : GolayRemainders[i] \subseteq 0 .. 10
BY RemaindersAre

LEMMA GolayWords ==
  ASSUME NEW data, data \subseteq 0 .. 11
  PROVE  /\ Golay_23_12(data) \subseteq 0 .. 22
         /\ \A d \in 0 .. 11 : 11 + d \in Golay_23_12(data) <=> d \in data
         /\ Golay_24_12(data) \subseteq 0 .. 23
         /\ \A d \in 0 .. 11 : 12 + d \in Golay_24_12(data) <=> d \in data
<1> DEFINE P == Span(GolayRemainders, data)
           W == Golay_23_12(data)
           X == Golay_24_12(data)
<1>1. P \subseteq 0 .. 10
  <2>1. \A d \in data : GolayRemainders[d + 1] \subseteq 0 .. 10
    <3>1. ASSUME NEW d \in data PROVE GolayRemainders[d + 1] \subseteq 0 .. 10
      <4>1. d + 1 \in 1 .. 12 OBVIOUS
      <4> QED BY <4>1, RemaindersWithin
    <3> QED BY <3>1
  <2>2. PICK n \in Int : n = 10 OBVIOUS
  <2>3. P \subseteq 0 .. n BY <2>1, <2>2, SpanWithin
  <2> QED BY <2>2, <2>3
<1>2. W = {11 + d : d \in data} \cup P BY DEF Golay_23_12
<1>3. X = {c + 1 : c \in W} \cup IF Odd(W) THEN {0} ELSE {} BY DEF Golay_24_12
<1> HIDE DEF P, W, X
<1>4. \A c \in W : c \in 0 .. 22
  <2>1. ASSUME NEW c \in W PROVE c \in 0 .. 22
    <3>1. CASE c \in P
      <4>1. c \in 0 .. 10 BY <3>1, <1>1
      <4> QED BY <4>1
    <3>2. CASE c \notin P
      <4>1. PICK d \in data : c = 11 + d BY <3>2, <1>2
      <4>2. d \in 0 .. 11 OBVIOUS
      <4> QED BY <4>1, <4>2
    <3> QED BY <3>1, <3>2
  <2> QED BY <2>1
<1>5. \A d \in 0 .. 11 : 11 + d \in W <=> d \in data BY <1>1, <1>2
<1>6. \A c \in X : c \in 0 .. 23 BY <1>3, <1>4
<1>7. \A d \in 0 .. 11 : 12 + d \in X <=> 11 + d \in W BY <1>3, <1>4
<1> QED BY <1>4, <1>5, <1>6, <1>7 DEF W, X

--------------------------------------------------------------------------------
(* A source bit from the codec to the air and back. *)

LEMMA ChipValues ==
  ASSUME NEW i \in 0 .. 48
  PROVE  /\ i <= 12 => MBELIB_TO_CHIP[i] = 3 * i
         /\ i \in 13 .. 17 => MBELIB_TO_CHIP[i] = 2 * i + 13
         /\ i \in 18 .. 30 => MBELIB_TO_CHIP[i] = 3 * (i - 18) + 1
         /\ i \in 31 .. 35 => MBELIB_TO_CHIP[i] = 2 * (i - 31) + 40
         /\ i >= 36 => MBELIB_TO_CHIP[i] = 3 * (i - 36) + 2
BY DEF MBELIB_TO_CHIP

\* The order of the chip is a permutation.
LEMMA ChipInjective ==
  ASSUME NEW i \in 0 .. 48, NEW j \in 0 .. 48, MBELIB_TO_CHIP[i] = MBELIB_TO_CHIP[j]
  PROVE  i = j
<1>1. \A k \in 0 .. 48 :
         \/ k <= 12 /\ MBELIB_TO_CHIP[k] = 3 * k
         \/ k >= 13 /\ k <= 17 /\ MBELIB_TO_CHIP[k] = 2 * k + 13
         \/ k >= 18 /\ k <= 30 /\ MBELIB_TO_CHIP[k] = 3 * (k - 18) + 1
         \/ k >= 31 /\ k <= 35 /\ MBELIB_TO_CHIP[k] = 2 * (k - 31) + 40
         \/ k >= 36 /\ MBELIB_TO_CHIP[k] = 3 * (k - 36) + 2
  BY ChipValues
<1> QED BY <1>1

LEMMA ChipBack == ASSUME NEW S, S \subseteq 0 .. 48 PROVE ToMbelib(ToChip(S)) = S
<1>1. ASSUME NEW i \in 0 .. 48 PROVE i \in ToMbelib(ToChip(S)) <=> i \in S
  <2>1. i \in ToMbelib(ToChip(S)) <=> \E j \in S : MBELIB_TO_CHIP[i] = MBELIB_TO_CHIP[j]
    BY DEF ToMbelib, ToChip
  <2> QED BY <2>1, ChipInjective
<1>2. ToMbelib(ToChip(S)) \subseteq 0 .. 48 BY DEF ToMbelib
<1> QED BY <1>1, <1>2

\* The row and the column of a source bit, and where they lie on the air.
RowOfBit(i) == IF i < 12 THEN 0 ELSE IF i < 24 THEN 1 ELSE IF i < 35 THEN 2 ELSE 3
ColumnOfBit(i) == IF i < 12 THEN 23 - i ELSE IF i < 35 THEN 34 - i ELSE 48 - i
Lies(i) == Spot(RowOfBit(i), ColumnOfBit(i))

LEMMA BitOnRow ==
  ASSUME NEW i \in 0 .. 48
  PROVE  RowOfBit(i) \in 0 .. 3 /\ ColumnOfBit(i) \in 0 .. Width(RowOfBit(i))
<1>1. CASE i < 12 BY <1>1 DEF RowOfBit, ColumnOfBit, Width
<1>2. CASE i >= 12 /\ i < 24 BY <1>2 DEF RowOfBit, ColumnOfBit, Width
<1>3. CASE i >= 24 /\ i < 35 BY <1>3 DEF RowOfBit, ColumnOfBit, Width
<1>4. CASE i >= 35 BY <1>4 DEF RowOfBit, ColumnOfBit, Width
<1> QED BY <1>1, <1>2, <1>3, <1>4

LEMMA LiesApart ==
  ASSUME NEW i \in 0 .. 48, NEW j \in 0 .. 48, Lies(i) = Lies(j)
  PROVE  i = j
<1>1. RowOfBit(i) = RowOfBit(j) /\ ColumnOfBit(i) = ColumnOfBit(j)
  <2>1. ASSUME NEW k \in 0 .. 48
        PROVE  RowOf(Lies(k)) = RowOfBit(k) /\ ColumnOf(Lies(k)) = ColumnOfBit(k)
    BY BitOnRow, SpotIs DEF Lies
  <2> QED BY <2>1
<1>2. CASE i < 12 BY <1>1, <1>2 DEF RowOfBit, ColumnOfBit
<1>3. CASE i >= 12 /\ i < 24 BY <1>1, <1>3 DEF RowOfBit, ColumnOfBit
<1>4. CASE i >= 24 /\ i < 35 BY <1>1, <1>4 DEF RowOfBit, ColumnOfBit
<1>5. CASE i >= 35 BY <1>1, <1>5 DEF RowOfBit, ColumnOfBit
<1> QED BY <1>2, <1>3, <1>4, <1>5

\* Whitening the data columns is whitening them all, cut off.
LEMMA ShorterPn ==
  ASSUME NEW seed, NEW k \in 0 .. 11
  PROVE  k \in Pn(seed, 12) <=> k \in Pn(seed, 23)
BY DEF Pn

\* Whether the whitening inverts source bit i.
Inverts(seed, i) == i >= 12 /\ i < 24 /\ i - 12 \in Pn(seed, 12)
Seed(source) == {11 - j : j \in source \cap 0 .. 11}

LEMMA DecodedBit ==
  ASSUME NEW coded, coded \subseteq 0 .. 71, NEW i \in 0 .. 48
  PROVE  /\ ToMbelib(ChannelDecode(coded)) \subseteq 0 .. 48
         /\ i \in ToMbelib(ChannelDecode(coded)) <=>
              ~(Lies(i) \in coded <=> Inverts(Row0Seed(DeinterleaveRows(coded)), i))
<1> DEFINE rows == DeinterleaveRows(coded)
           seed == Row0Seed(rows)
           white == {22 - k : k \in Pn(seed, 12)}
           S0 == {23 - c : c \in rows[0] \cap 12 .. 23}
           S1 == {34 - c : c \in SymDiff(rows[1], white) \cap 11 .. 22}
           S2 == {34 - c : c \in rows[2]}
           S3 == {48 - c : c \in rows[3]}
           S == UNION {S0, S1, S2, S3}
<1>1. ChannelDecode(coded) = ToChip(S) BY DEF ChannelDecode
<1>2. /\ \A c \in rows[0] : c \in 0 .. 23
      /\ \A c \in rows[1] : c \in 0 .. 22
      /\ \A c \in rows[2] : c \in 0 .. 10
      /\ \A c \in rows[3] : c \in 0 .. 13
      /\ \A c \in 0 .. 23 : c \in rows[0] <=> Spot(0, c) \in coded
      /\ \A c \in 0 .. 22 : c \in rows[1] <=> Spot(1, c) \in coded
      /\ \A c \in 0 .. 10 : c \in rows[2] <=> Spot(2, c) \in coded
      /\ \A c \in 0 .. 13 : c \in rows[3] <=> Spot(3, c) \in coded
  <2>1. \A r \in 0 .. 3 : /\ \A c \in rows[r] : c \in 0 .. Width(r)
                          /\ \A c \in 0 .. Width(r) : c \in rows[r] <=> Spot(r, c) \in coded
    BY RowMember
  <2>2. Width(0) = 23 /\ Width(1) = 22 /\ Width(2) = 10 /\ Width(3) = 13 BY DEF Width
  <2> HIDE DEF rows
  <2>3. /\ \A c \in rows[0] : c \in 0 .. Width(0)
        /\ \A c \in 0 .. Width(0) : c \in rows[0] <=> Spot(0, c) \in coded
    <3>1. PICK r \in 0 .. 3 : r = 0 OBVIOUS
    <3>2. /\ \A c \in rows[r] : c \in 0 .. Width(r)
          /\ \A c \in 0 .. Width(r) : c \in rows[r] <=> Spot(r, c) \in coded
      BY <2>1
    <3> QED BY <3>1, <3>2
  <2>4. /\ \A c \in rows[1] : c \in 0 .. Width(1)
        /\ \A c \in 0 .. Width(1) : c \in rows[1] <=> Spot(1, c) \in coded
    <3>1. PICK r \in 0 .. 3 : r = 1 OBVIOUS
    <3>2. /\ \A c \in rows[r] : c \in 0 .. Width(r)
          /\ \A c \in 0 .. Width(r) : c \in rows[r] <=> Spot(r, c) \in coded
      BY <2>1
    <3> QED BY <3>1, <3>2
  <2>5. /\ \A c \in rows[2] : c \in 0 .. Width(2)
        /\ \A c \in 0 .. Width(2) : c \in rows[2] <=> Spot(2, c) \in coded
    <3>1. PICK r \in 0 .. 3 : r = 2 OBVIOUS
    <3>2. /\ \A c \in rows[r] : c \in 0 .. Width(r)
          /\ \A c \in 0 .. Width(r) : c \in rows[r] <=> Spot(r, c) \in coded
      BY <2>1
    <3> QED BY <3>1, <3>2
  <2>6. /\ \A c \in rows[3] : c \in 0 .. Width(3)
        /\ \A c \in 0 .. Width(3) : c \in rows[3] <=> Spot(3, c) \in coded
    <3>1. PICK r \in 0 .. 3 : r = 3 OBVIOUS
    <3>2. /\ \A c \in rows[r] : c \in 0 .. Width(r)
          /\ \A c \in 0 .. Width(r) : c \in rows[r] <=> Spot(r, c) \in coded
      BY <2>1
    <3> QED BY <3>1, <3>2
  <2> QED BY <2>2, <2>3, <2>4, <2>5, <2>6
<1>3. \A c : c \in SymDiff(rows[1], white) <=> ~(c \in rows[1] <=> c \in white)
  BY SymDiffMember
<1>4. \A c \in Int : c \in white <=> 22 - c \in Pn(seed, 12)
  <2>1. \A k \in Pn(seed, 12) : k \in Int BY DEF Pn
  <2> HIDE DEF seed
  <2> QED BY <2>1
<1> HIDE DEF rows, seed, white
<1>5. /\ \A k \in S0 : k \in 0 .. 11 /\ 23 - k \in rows[0]
      /\ \A k \in 0 .. 11 : 23 - k \in rows[0] => k \in S0
  BY <1>2
<1> DEFINE D == SymDiff(rows[1], white)
<1> HIDE DEF D
<1>6. /\ \A k \in S1 : k \in 12 .. 23 /\ 34 - k \in D
      /\ \A k \in 12 .. 23 : 34 - k \in D => k \in S1
  <2>1. S1 = {34 - c : c \in D \cap 11 .. 22} BY DEF D
  <2> HIDE DEF S1
  <2> QED BY <2>1
<1>7. /\ \A k \in S2 : k \in 24 .. 34 /\ 34 - k \in rows[2]
      /\ \A k \in 24 .. 34 : 34 - k \in rows[2] => k \in S2
  BY <1>2
<1>8. /\ \A k \in S3 : k \in 35 .. 48 /\ 48 - k \in rows[3]
      /\ \A k \in 35 .. 48 : 48 - k \in rows[3] => k \in S3
  BY <1>2
<1>9. \A k : k \in S <=> k \in S0 \/ k \in S1 \/ k \in S2 \/ k \in S3 OBVIOUS
<1> HIDE DEF S0, S1, S2, S3, S
<1>10. S \subseteq 0 .. 48
  <2>1. ASSUME NEW k \in S PROVE k \in 0 .. 48
    <3>1. k \in 0 .. 11 \/ k \in 12 .. 23 \/ k \in 24 .. 34 \/ k \in 35 .. 48
      BY <1>5, <1>6, <1>7, <1>8, <1>9
    <3> QED BY <3>1
  <2> QED BY <2>1
<1>11. ToMbelib(ChannelDecode(coded)) = S BY <1>1, <1>10, ChipBack
<1>12. CASE i < 12
  <2>1. i \in S <=> 23 - i \in rows[0] BY <1>5, <1>6, <1>7, <1>8, <1>9, <1>12
  <2>2. Lies(i) = Spot(0, 23 - i) /\ 23 - i \in 0 .. 23 BY <1>12 DEF Lies, RowOfBit, ColumnOfBit
  <2>3. i \in S <=> Lies(i) \in coded BY <2>1, <2>2, <1>2
  <2>4. ~Inverts(seed, i) BY <1>12 DEF Inverts
  <2> QED BY <2>3, <2>4, <1>10, <1>11 DEF seed, rows
<1>13. CASE i >= 12 /\ i < 24
  <2>1. i \in S <=> 34 - i \in D BY <1>5, <1>6, <1>7, <1>8, <1>9, <1>13
  <2>2. Lies(i) = Spot(1, 34 - i) /\ 34 - i \in 0 .. 22 BY <1>13 DEF Lies, RowOfBit, ColumnOfBit
  <2>3. 34 - i \in white <=> Inverts(seed, i)
    <3>1. 22 - (34 - i) = i - 12 /\ 34 - i \in Int OBVIOUS
    <3> QED BY <3>1, <1>4, <1>13 DEF Inverts
  <2>4. 34 - i \in D <=> ~(34 - i \in rows[1] <=> 34 - i \in white) BY <1>3 DEF D
  <2>5. 34 - i \in rows[1] <=> Lies(i) \in coded BY <2>2, <1>2
  <2> QED BY <2>1, <2>3, <2>4, <2>5, <1>10, <1>11 DEF seed, rows
<1>14. CASE i >= 24 /\ i < 35
  <2>1. i \in S <=> 34 - i \in rows[2] BY <1>5, <1>6, <1>7, <1>8, <1>9, <1>14
  <2>2. Lies(i) = Spot(2, 34 - i) /\ 34 - i \in 0 .. 10 BY <1>14 DEF Lies, RowOfBit, ColumnOfBit
  <2>3. i \in S <=> Lies(i) \in coded BY <2>1, <2>2, <1>2
  <2>4. ~Inverts(seed, i) BY <1>14 DEF Inverts
  <2> QED BY <2>3, <2>4, <1>10, <1>11 DEF seed, rows
<1>15. CASE i >= 35
  <2>1. i \in S <=> 48 - i \in rows[3] BY <1>5, <1>6, <1>7, <1>8, <1>9, <1>15
  <2>2. Lies(i) = Spot(3, 48 - i) /\ 48 - i \in 0 .. 13 BY <1>15 DEF Lies, RowOfBit, ColumnOfBit
  <2>3. i \in S <=> Lies(i) \in coded BY <2>1, <2>2, <1>2
  <2>4. ~Inverts(seed, i) BY <1>15 DEF Inverts
  <2> QED BY <2>3, <2>4, <1>10, <1>11 DEF seed, rows
<1> QED BY <1>12, <1>13, <1>14, <1>15

\* The rows a frame is encoded in, and what goes on the air.
FirstWord(source) == Golay_24_12(Seed(source))
SecondData(source) == {23 - j : j \in source \cap 12 .. 23}
SecondWord(source) == Golay_23_12(SecondData(source))

LEMMA EncodedRows ==
  ASSUME NEW source, source \subseteq 0 .. 48
  PROVE  LET F == ChannelEncode(ToChip(source)) IN
         /\ F \subseteq 0 .. 71
         /\ DeinterleaveRows(F)[0] = FirstWord(source)
         /\ DeinterleaveRows(F)[1] = SymDiff(SecondWord(source), Whitening(Seed(source)))
         /\ DeinterleaveRows(F)[2] = {34 - i : i \in source \cap 24 .. 34}
         /\ DeinterleaveRows(F)[3] = {48 - i : i \in source \cap 35 .. 48}
<1> DEFINE F == ChannelEncode(ToChip(source))
           R0 == FirstWord(source)
           R1 == SymDiff(SecondWord(source), Whitening(Seed(source)))
           R2 == {34 - i : i \in source \cap 24 .. 34}
           R3 == {48 - i : i \in source \cap 35 .. 48}
           rows == [r \in 0 .. 3 |-> CASE r = 0 -> R0 [] r = 1 -> R1 [] r = 2 -> R2 [] r = 3 -> R3]
<1>1. F = InterleaveRows(rows)
  <2> DEFINE raw == ToChip(source)
             S == ToMbelib(raw)
  <2>1. S = source BY ChipBack
  <2>2. ChannelEncode(raw) = InterleaveRows([r \in 0 .. 3 |->
          CASE r = 0 -> FirstWord(S)
            [] r = 1 -> SymDiff(SecondWord(S), Whitening(Seed(S)))
            [] r = 2 -> {34 - i : i \in S \cap 24 .. 34}
            [] r = 3 -> {48 - i : i \in S \cap 35 .. 48}])
    <3> HIDE DEF raw
    <3> QED BY Zenon DEF ChannelEncode, FirstWord, SecondWord, SecondData, Seed
  <2> HIDE DEF S
  <2> QED BY <2>1, <2>2
<1>2. R0 \subseteq 0 .. 23
  <2>1. Seed(source) \subseteq 0 .. 11 BY DEF Seed
  <2> QED BY <2>1, GolayWords DEF FirstWord
<1>3. R1 \subseteq 0 .. 22
  <2>1. SecondData(source) \subseteq 0 .. 11 BY DEF SecondData
  <2>2. SecondWord(source) \subseteq 0 .. 22 BY <2>1, GolayWords DEF SecondWord
  <2>3. \A k \in Pn(Seed(source), 23) : k \in 0 .. 22 BY DEF Pn
  <2>4. \A c \in Whitening(Seed(source)) : c \in 0 .. 22 BY <2>3 DEF Whitening
  <2>5. ASSUME NEW c \in R1 PROVE c \in 0 .. 22
    <3>1. c \in SecondWord(source) \/ c \in Whitening(Seed(source)) BY SymDiffMember
    <3> QED BY <3>1, <2>2, <2>4
  <2> QED BY <2>5
<1>4. R2 \subseteq 0 .. 10 /\ R3 \subseteq 0 .. 13 OBVIOUS
<1> HIDE DEF R0, R1, R2, R3
<1>5. rows[0] = R0 /\ rows[1] = R1 /\ rows[2] = R2 /\ rows[3] = R3 OBVIOUS
<1> HIDE DEF rows
<1>6. Width(0) = 23 /\ Width(1) = 22 /\ Width(2) = 10 /\ Width(3) = 13 BY DEF Width
<1>7. \A r \in {0, 1, 2, 3} : rows[r] \subseteq 0 .. Width(r) BY <1>2, <1>3, <1>4, <1>5, <1>6
<1>8. ASSUME NEW r \in {0, 1, 2, 3} PROVE DeinterleaveRows(F)[r] = rows[r]
  <2>1. r \in 0 .. 3 OBVIOUS
  <2>2. rows[r] \subseteq 0 .. Width(r) BY <1>7
  <2> QED BY <1>1, <2>1, <2>2, RowsBack
<1>9. F \subseteq 0 .. 71 BY <1>1 DEF InterleaveRows
<1> HIDE DEF F
<1>10. /\ DeinterleaveRows(F)[0] = rows[0] /\ DeinterleaveRows(F)[1] = rows[1]
       /\ DeinterleaveRows(F)[2] = rows[2] /\ DeinterleaveRows(F)[3] = rows[3]
  BY <1>8, Zenon
<1> QED BY <1>5, <1>9, <1>10 DEF F, R0, R1, R2, R3

\* The first row carries the seed.
LEMMA SeedCarried ==
  ASSUME NEW source, source \subseteq 0 .. 48
  PROVE  Row0Seed(DeinterleaveRows(ChannelEncode(ToChip(source)))) = Seed(source)
<1> DEFINE rows == DeinterleaveRows(ChannelEncode(ToChip(source)))
           seed == Seed(source)
<1>1. rows[0] = Golay_24_12(seed) BY EncodedRows DEF FirstWord
<1>2. seed \subseteq 0 .. 11 BY DEF Seed
<1>3. Row0Seed(rows) = {c - 12 : c \in rows[0] \cap 12 .. 23} BY DEF Row0Seed
<1> HIDE DEF rows, seed
<1>4. \A d \in 0 .. 11 : 12 + d \in rows[0] <=> d \in seed
  <2>1. \A d \in 0 .. 11 : 12 + d \in Golay_24_12(seed) <=> d \in seed BY <1>2, GolayWords
  <2> QED BY <1>1, <2>1
<1>5. ASSUME NEW d PROVE d \in Row0Seed(rows) <=> d \in seed
  <2>1. ASSUME d \in Row0Seed(rows) PROVE d \in seed
    <3>1. PICK c \in 12 .. 23 : c \in rows[0] /\ d = c - 12 BY <2>1, <1>3
    <3>2. d \in 0 .. 11 /\ 12 + d = c BY <3>1
    <3> QED BY <3>1, <3>2, <1>4
  <2>2. ASSUME d \in seed PROVE d \in Row0Seed(rows)
    <3>1. d \in 0 .. 11 BY <2>2, <1>2
    <3>2. 12 + d \in rows[0] /\ 12 + d \in 12 .. 23 /\ (12 + d) - 12 = d BY <3>1, <2>2, <1>4
    <3> QED BY <3>2, <1>3
  <2> QED BY <2>1, <2>2
<1> QED BY <1>5 DEF rows, seed

\* Nothing damaged, nothing lost.
LEMMA DecodeBack ==
  ASSUME NEW source, source \subseteq 0 .. 48
  PROVE  ToMbelib(ChannelDecode(ChannelEncode(ToChip(source)))) = source
<1> DEFINE F == ChannelEncode(ToChip(source))
           rows == DeinterleaveRows(F)
           seed == Seed(source)
           back == ToMbelib(ChannelDecode(F))
<1>1. F \subseteq 0 .. 71 BY EncodedRows
<1>2. Row0Seed(rows) = seed BY SeedCarried
<1>3. /\ rows[0] = FirstWord(source)
      /\ rows[1] = SymDiff(SecondWord(source), Whitening(seed))
      /\ rows[2] = {34 - i : i \in source \cap 24 .. 34}
      /\ rows[3] = {48 - i : i \in source \cap 35 .. 48}
  BY EncodedRows
<1> HIDE DEF F
<1>4. \A i \in 0 .. 48 : back \subseteq 0 .. 48 /\ (i \in back <=> ~(Lies(i) \in F <=> Inverts(seed, i)))
  BY <1>1, <1>2, DecodedBit
<1>5. \A i \in 0 .. 48 : Lies(i) \in F <=> ColumnOfBit(i) \in rows[RowOfBit(i)]
  <2>1. ASSUME NEW i \in 0 .. 48 PROVE Lies(i) \in F <=> ColumnOfBit(i) \in rows[RowOfBit(i)]
    BY <1>1, BitOnRow, RowMember DEF Lies
  <2> QED BY <2>1
<1> HIDE DEF rows, seed, back
<1>6. ASSUME NEW i \in 0 .. 48 PROVE i \in back <=> i \in source
  <2>1. CASE i < 12
    <3>1. RowOfBit(i) = 0 /\ ColumnOfBit(i) = 23 - i BY <2>1 DEF RowOfBit, ColumnOfBit
    <3>2. \A d \in 0 .. 11 : 12 + d \in FirstWord(source) <=> d \in Seed(source)
      <4>1. Seed(source) \subseteq 0 .. 11 BY DEF Seed
      <4> QED BY <4>1, GolayWords DEF FirstWord
    <3>3. 11 - i \in 0 .. 11 /\ 12 + (11 - i) = 23 - i BY <2>1
    <3>4. 23 - i \in FirstWord(source) <=> 11 - i \in Seed(source) BY <3>2, <3>3
    <3>5. 11 - i \in Seed(source) <=> i \in source BY <2>1 DEF Seed
    <3>6. ~Inverts(seed, i) BY <2>1 DEF Inverts
    <3> QED BY <3>1, <3>4, <3>5, <3>6, <1>3, <1>4, <1>5
  <2>2. CASE i >= 12 /\ i < 24
    <3>1. RowOfBit(i) = 1 /\ ColumnOfBit(i) = 34 - i BY <2>2 DEF RowOfBit, ColumnOfBit
    <3>2. \A d \in 0 .. 11 : 11 + d \in SecondWord(source) <=> d \in SecondData(source)
      <4>1. SecondData(source) \subseteq 0 .. 11 BY DEF SecondData
      <4> QED BY <4>1, GolayWords DEF SecondWord
    <3>3. 23 - i \in 0 .. 11 /\ 11 + (23 - i) = 34 - i BY <2>2
    <3>4. 34 - i \in SecondWord(source) <=> 23 - i \in SecondData(source) BY <3>2, <3>3
    <3>5. 23 - i \in SecondData(source) <=> i \in source BY <2>2 DEF SecondData
    <3>6. 34 - i \in Whitening(seed) <=> i - 12 \in Pn(seed, 23)
      <4>1. \A k \in Pn(seed, 23) : k \in Int BY DEF Pn
      <4> QED BY <4>1 DEF Whitening
    <3>7. i - 12 \in Pn(seed, 23) <=> Inverts(seed, i)
      <4>1. i - 12 \in 0 .. 11 BY <2>2
      <4> QED BY <4>1, <2>2, ShorterPn DEF Inverts
    <3>8. 34 - i \in rows[1] <=> ~(34 - i \in SecondWord(source) <=> 34 - i \in Whitening(seed))
      BY <1>3, SymDiffMember
    <3> QED BY <3>1, <3>4, <3>5, <3>6, <3>7, <3>8, <1>4, <1>5
  <2>3. CASE i >= 24 /\ i < 35
    <3>1. RowOfBit(i) = 2 /\ ColumnOfBit(i) = 34 - i BY <2>3 DEF RowOfBit, ColumnOfBit
    <3>2. 34 - i \in rows[2] <=> i \in source BY <1>3, <2>3
    <3>3. ~Inverts(seed, i) BY <2>3 DEF Inverts
    <3> QED BY <3>1, <3>2, <3>3, <1>4, <1>5
  <2>4. CASE i >= 35
    <3>1. RowOfBit(i) = 3 /\ ColumnOfBit(i) = 48 - i BY <2>4 DEF RowOfBit, ColumnOfBit
    <3>2. 48 - i \in rows[3] <=> i \in source BY <1>3, <2>4
    <3>3. ~Inverts(seed, i) BY <2>4 DEF Inverts
    <3> QED BY <3>1, <3>2, <3>3, <1>4, <1>5
  <2> QED BY <2>1, <2>2, <2>3, <2>4
<1>7. back \subseteq 0 .. 48
  <2>1. 0 \in 0 .. 48 OBVIOUS
  <2> QED BY <2>1, <1>4
<1>8. back = source BY <1>6, <1>7
<1> QED BY <1>8 DEF back, F

\* The bits a decoder gets wrong from a damaged frame are damaged ones, except where the
\* whitening is another's.
LEMMA WrongBits ==
  ASSUME NEW source, source \subseteq 0 .. 48, NEW H, H \subseteq 0 .. 71, NEW i \in 0 .. 48
  PROVE  LET frame == SymDiff(ChannelEncode(ToChip(source)), H)
             wrong == SymDiff(source, ToMbelib(ChannelDecode(frame)))
         IN  /\ wrong \subseteq 0 .. 48
             /\ i \in wrong =>
                  \/ Lies(i) \in H
                  \/ i \in 12 .. 23 /\ Row0Seed(DeinterleaveRows(frame)) # Seed(source)
<1> DEFINE F == ChannelEncode(ToChip(source))
           frame == SymDiff(F, H)
           seed == Seed(source)
           heard == Row0Seed(DeinterleaveRows(frame))
           back == ToMbelib(ChannelDecode(frame))
           wrong == SymDiff(source, back)
<1>1. F \subseteq 0 .. 71 BY EncodedRows
<1>2. i \in source <=> ~(Lies(i) \in F <=> Inverts(seed, i))
  <2>1. i \in ToMbelib(ChannelDecode(F)) <=>
          ~(Lies(i) \in F <=> Inverts(Row0Seed(DeinterleaveRows(F)), i))
    BY <1>1, DecodedBit
  <2> QED BY <2>1, DecodeBack, SeedCarried, ZenonT(60)
<1> HIDE DEF F
<1>3. frame \subseteq 0 .. 71 BY <1>1 DEF SymDiff
<1>4. Lies(i) \in frame <=> ~(Lies(i) \in F <=> Lies(i) \in H) BY SymDiffMember
<1> HIDE DEF frame
<1>5. back \subseteq 0 .. 48 /\ (i \in back <=> ~(Lies(i) \in frame <=> Inverts(heard, i)))
  BY <1>3, DecodedBit
<1> HIDE DEF back, heard, seed
<1>6. wrong \subseteq 0 .. 48
  <2>1. \A k : k \in wrong => k \in source \/ k \in back BY SymDiffMember
  <2> HIDE DEF wrong
  <2> QED BY <2>1, <1>5
<1>7. i \in wrong <=> ~(i \in source <=> i \in back) BY SymDiffMember
<1>8. ~(i \in 12 .. 23) => ~Inverts(seed, i) /\ ~Inverts(heard, i) BY DEF Inverts
<1> HIDE DEF wrong
<1>9. i \in wrong => Lies(i) \in H \/ (i \in 12 .. 23 /\ heard # seed)
  BY <1>2, <1>4, <1>5, <1>7, <1>8
<1> QED BY <1>6, <1>9 DEF wrong, back, heard, frame, seed, F

--------------------------------------------------------------------------------
(* How many bits of a row a short fade can hit. *)

LEMMA AtMostThree ==
  ASSUME NEW S, NEW x, NEW y, NEW z, S \subseteq {x, y, z}
  PROVE  IsFiniteSet(S) /\ Cardinality(S) <= 3
<1> DEFINE A == {x}
           B == A \cup {y}
           C == B \cup {z}
<1>1. IsFiniteSet(A) /\ Cardinality(A) = 1 BY FS_Singleton
<1> HIDE DEF A
<1>2. IsFiniteSet(B) /\ Cardinality(B) \in {1, 2} BY <1>1, FS_AddElement
<1> HIDE DEF B
<1>3. IsFiniteSet(C) /\ Cardinality(C) \in {1, 2, 3} BY <1>2, FS_AddElement
<1>4. S \in SUBSET C BY DEF A, B
<1> HIDE DEF C
<1>5. IsFiniteSet(S) /\ Cardinality(S) <= Cardinality(C) BY <1>3, <1>4, FS_Subset
<1>6. Cardinality(S) \in Nat BY <1>5, FS_CardinalityType
<1> QED BY <1>3, <1>5, <1>6

\* Of five bits in a row, at most three are in two of the four residues.
Covers(q, a, x, y, z) ==
  \A p \in q .. q + 4 : p % 4 = a \/ p % 4 = a + 1 => p \in {x, y, z}

LEMMA TwoResidues ==
  ASSUME NEW q \in Int, NEW a \in {0, 1}
  PROVE  \E x, y, z : Covers(q, a, x, y, z)
<1> DEFINE s == (q - a) % 4
<1>1. s \in 0 .. 3 /\ q % 4 \in 0 .. 3 OBVIOUS
<1>2. \A p \in q .. q + 4 : p = q \/ p = q + 1 \/ p = q + 2 \/ p = q + 3 \/ p = q + 4 OBVIOUS
<1>3. CASE s = 0
  <2>1. Covers(q, a, q, q + 1, q + 4) BY <1>2, <1>3 DEF Covers
  <2> QED BY <2>1
<1>4. CASE s = 1
  <2>1. Covers(q, a, q, q + 3, q + 4) BY <1>2, <1>4 DEF Covers
  <2> QED BY <2>1
<1>5. CASE s = 2
  <2>1. Covers(q, a, q + 2, q + 3, q + 3) BY <1>2, <1>5 DEF Covers
  <2> QED BY <2>1
<1>6. CASE s = 3
  <2>1. Covers(q, a, q + 1, q + 2, q + 2) BY <1>2, <1>6 DEF Covers
  <2> QED BY <2>1
<1> QED BY <1>1, <1>3, <1>4, <1>5, <1>6

LEMMA RowResidues ==
  ASSUME NEW p \in 0 .. 71, NEW r \in {0, 1}, RowOf(p) = r
  PROVE  p % 4 = r \/ p % 4 = r + 1
<1>1. PICK h \in 0 .. 17 :
           \/ p = 4 * h /\ RowOf(p) = 0 /\ ColumnOf(p) = 23 - h
           \/ p = 4 * h + 1 /\ h < 6 /\ RowOf(p) = 0 /\ ColumnOf(p) = 5 - h
           \/ p = 4 * h + 1 /\ h >= 6 /\ RowOf(p) = 1 /\ ColumnOf(p) = 28 - h
           \/ p = 4 * h + 2 /\ h < 11 /\ RowOf(p) = 1 /\ ColumnOf(p) = 10 - h
           \/ p = 4 * h + 2 /\ h >= 11 /\ RowOf(p) = 2 /\ ColumnOf(p) = 21 - h
           \/ p = 4 * h + 3 /\ h < 4 /\ RowOf(p) = 2 /\ ColumnOf(p) = 3 - h
           \/ p = 4 * h + 3 /\ h >= 4 /\ RowOf(p) = 3 /\ ColumnOf(p) = 17 - h
  BY RowAt
<1> QED BY <1>1

LEMMA RowHits ==
  ASSUME NEW H, H \subseteq 0 .. 71, NEW q \in Int, H \subseteq q .. q + 4, NEW r \in {0, 1}
  PROVE  Cardinality(DeinterleaveRows(H)[r]) <= 3
<1> DEFINE R == DeinterleaveRows(H)[r]
<1>1. PICK x, y, z : Covers(q, r, x, y, z) BY TwoResidues
<1>2. R \subseteq 0 .. Width(r) /\ \A c \in 0 .. Width(r) : c \in R <=> Spot(r, c) \in H
  <2>1. r \in 0 .. 3 OBVIOUS
  <2> QED BY <2>1, RowMember
<1> HIDE DEF R
<1>3. ASSUME NEW c \in R PROVE c \in {ColumnOf(x), ColumnOf(y), ColumnOf(z)}
  <2> DEFINE p == Spot(r, c)
  <2>1. c \in 0 .. Width(r) /\ p \in H BY <1>2
  <2>2. r \in 0 .. 3 OBVIOUS
  <2>3. p \in 0 .. 71 /\ RowOf(p) = r /\ ColumnOf(p) = c BY <2>1, <2>2, SpotIs
  <2> HIDE DEF p
  <2>4. p \in {x, y, z} BY <1>1, <2>1, <2>3, RowResidues DEF Covers
  <2> QED BY <2>3, <2>4
<1>4. R \subseteq {ColumnOf(x), ColumnOf(y), ColumnOf(z)} BY <1>3
<1> QED BY <1>4, AtMostThree DEF R

\* No more source bits are wrong than bits were hit, and those under a wrong whitening.
LEMMA FewWrong ==
  ASSUME NEW source, source \subseteq 0 .. 48, NEW H, H \subseteq 0 .. 71
  PROVE  LET frame == SymDiff(ChannelEncode(ToChip(source)), H)
             wrong == SymDiff(source, ToMbelib(ChannelDecode(frame)))
         IN  Cardinality(wrong) <=
               Cardinality(H) + IF Row0Seed(DeinterleaveRows(frame)) = Seed(source) THEN 0 ELSE 12
<1> DEFINE frame == SymDiff(ChannelEncode(ToChip(source)), H)
           wrong == SymDiff(source, ToMbelib(ChannelDecode(frame)))
           same == Row0Seed(DeinterleaveRows(frame)) = Seed(source)
<1>1. \A i \in 0 .. 48 : /\ wrong \subseteq 0 .. 48
                         /\ i \in wrong => Lies(i) \in H \/ (i \in 12 .. 23 /\ ~same)
  BY WrongBits, Zenon
<1> HIDE DEF wrong, same
<1>2. wrong \subseteq 0 .. 48
  <2>1. 0 \in 0 .. 48 OBVIOUS
  <2> QED BY <2>1, <1>1
<1> DEFINE A == {i \in wrong : Lies(i) \in H}
           f == [i \in A |-> Lies(i)]
           B == 12 .. 23
<1>3. IsFiniteSet(H)
  <2>1. PICK a \in Int, b \in Int : a = 0 /\ b = 71 OBVIOUS
  <2>2. IsFiniteSet(a .. b) BY FS_Interval
  <2> QED BY <2>1, <2>2, FS_Subset
<1>4. f \in Injection(A, H)
  <2>1. f \in [A -> H] OBVIOUS
  <2>2. \A i, j \in A : f[i] = f[j] => i = j BY <1>2, LiesApart
  <2> HIDE DEF f, A
  <2> QED BY <2>1, <2>2 DEF Injection, IsInjective
<1>5. IsFiniteSet(A) /\ Cardinality(A) <= Cardinality(H)
  <2> HIDE DEF f, A
  <2> QED BY <1>3, <1>4, FS_Injection
<1>6. IsFiniteSet(B) /\ Cardinality(B) = 12
  <2>1. PICK a \in Int, b \in Int : a = 12 /\ b = 23 OBVIOUS
  <2>2. IsFiniteSet(a .. b) /\ Cardinality(a .. b) = IF a > b THEN 0 ELSE b - a + 1
    BY FS_Interval
  <2> QED BY <2>1, <2>2
<1>7. Cardinality(A) \in Nat /\ Cardinality(H) \in Nat BY <1>3, <1>5, FS_CardinalityType
<1>8. CASE same
  <2>1. wrong = A BY <1>1, <1>2, <1>8
  <2> QED BY <2>1, <1>5, <1>7, <1>8 DEF wrong, same
<1>9. CASE ~same
  <2>1. wrong \in SUBSET (A \cup B) BY <1>1, <1>2
  <2> HIDE DEF A, B
  <2>2. /\ IsFiniteSet(A \cup B)
        /\ Cardinality(A \cup B) = Cardinality(A) + Cardinality(B) - Cardinality(A \cap B)
    BY <1>5, <1>6, FS_Union
  <2>3. IsFiniteSet(A \cap B) BY <1>5, FS_Subset
  <2>4. Cardinality(A \cap B) \in Nat BY <2>3, FS_CardinalityType
  <2>5. IsFiniteSet(wrong) /\ Cardinality(wrong) <= Cardinality(A \cup B) BY <2>1, <2>2, FS_Subset
  <2>6. Cardinality(wrong) \in Nat BY <2>5, FS_CardinalityType
  <2>7. Cardinality(wrong) <= Cardinality(H) + 12 BY <1>5, <1>6, <1>7, <2>2, <2>4, <2>5, <2>6
  <2> QED BY <2>7, <1>9 DEF wrong, same
<1> QED BY <1>8, <1>9 DEF wrong, same

--------------------------------------------------------------------------------
(* The nine indices in the source bits. *)

LEMMA Field1 ==
  /\ Fields[1] \in Seq(Nat) /\ Len(Fields[1]) = 7
  /\ \A b \in 1 .. 7 : Fields[1][b] = IF b <= 4 THEN b - 1 ELSE b + 32
<1> DEFINE F == << 0, 1, 2, 3, 37, 38, 39 >>
<1>1. Fields[1] = F BY DEF Fields
<1>2. F \in Seq(Nat) /\ Len(F) = 7 OBVIOUS
<1>3. /\ F[1] = 0
      /\ F[2] = 1
      /\ F[3] = 2
      /\ F[4] = 3
      /\ F[5] = 37
      /\ F[6] = 38
      /\ F[7] = 39
  OBVIOUS
<1> HIDE DEF F
<1>4. ASSUME NEW b \in 1 .. 7 PROVE F[b] = IF b <= 4 THEN b - 1 ELSE b + 32
  <2>1. b = 1 \/ b = 2 \/ b = 3 \/ b = 4 \/ b = 5 \/ b = 6 \/ b = 7 OBVIOUS
  <2> QED BY <2>1, <1>3
<1> QED BY <1>1, <1>2, <1>4

LEMMA Field2 ==
  /\ Fields[2] \in Seq(Nat) /\ Len(Fields[2]) = 5
  /\ \A b \in 1 .. 5 : Fields[2][b] = IF b <= 4 THEN b + 3 ELSE b + 30
<1> DEFINE F == << 4, 5, 6, 7, 35 >>
<1>1. Fields[2] = F BY DEF Fields
<1>2. F \in Seq(Nat) /\ Len(F) = 5 OBVIOUS
<1>3. /\ F[1] = 4
      /\ F[2] = 5
      /\ F[3] = 6
      /\ F[4] = 7
      /\ F[5] = 35
  OBVIOUS
<1> HIDE DEF F
<1>4. ASSUME NEW b \in 1 .. 5 PROVE F[b] = IF b <= 4 THEN b + 3 ELSE b + 30
  <2>1. b = 1 \/ b = 2 \/ b = 3 \/ b = 4 \/ b = 5 OBVIOUS
  <2> QED BY <2>1, <1>3
<1> QED BY <1>1, <1>2, <1>4

LEMMA Field3 ==
  /\ Fields[3] \in Seq(Nat) /\ Len(Fields[3]) = 5
  /\ \A b \in 1 .. 5 : Fields[3][b] = IF b <= 4 THEN b + 7 ELSE b + 31
<1> DEFINE F == << 8, 9, 10, 11, 36 >>
<1>1. Fields[3] = F BY DEF Fields
<1>2. F \in Seq(Nat) /\ Len(F) = 5 OBVIOUS
<1>3. /\ F[1] = 8
      /\ F[2] = 9
      /\ F[3] = 10
      /\ F[4] = 11
      /\ F[5] = 36
  OBVIOUS
<1> HIDE DEF F
<1>4. ASSUME NEW b \in 1 .. 5 PROVE F[b] = IF b <= 4 THEN b + 7 ELSE b + 31
  <2>1. b = 1 \/ b = 2 \/ b = 3 \/ b = 4 \/ b = 5 OBVIOUS
  <2> QED BY <2>1, <1>3
<1> QED BY <1>1, <1>2, <1>4

LEMMA Field4 ==
  /\ Fields[4] \in Seq(Nat) /\ Len(Fields[4]) = 9
  /\ \A b \in 1 .. 9 : Fields[4][b] = IF b <= 8 THEN b + 11 ELSE b + 31
<1> DEFINE F == << 12, 13, 14, 15, 16, 17, 18, 19, 40 >>
<1>1. Fields[4] = F BY DEF Fields
<1>2. F \in Seq(Nat) /\ Len(F) = 9 OBVIOUS
<1>3. /\ F[1] = 12
      /\ F[2] = 13
      /\ F[3] = 14
      /\ F[4] = 15
      /\ F[5] = 16
      /\ F[6] = 17
      /\ F[7] = 18
      /\ F[8] = 19
      /\ F[9] = 40
  OBVIOUS
<1> HIDE DEF F
<1>4. ASSUME NEW b \in 1 .. 9 PROVE F[b] = IF b <= 8 THEN b + 11 ELSE b + 31
  <2>1. b = 1 \/ b = 2 \/ b = 3 \/ b = 4 \/ b = 5 \/ b = 6 \/ b = 7 \/ b = 8 \/ b = 9 OBVIOUS
  <2> QED BY <2>1, <1>3
<1> QED BY <1>1, <1>2, <1>4

LEMMA Field5 ==
  /\ Fields[5] \in Seq(Nat) /\ Len(Fields[5]) = 7
  /\ \A b \in 1 .. 7 : Fields[5][b] = IF b <= 4 THEN b + 19 ELSE b + 36
<1> DEFINE F == << 20, 21, 22, 23, 41, 42, 43 >>
<1>1. Fields[5] = F BY DEF Fields
<1>2. F \in Seq(Nat) /\ Len(F) = 7 OBVIOUS
<1>3. /\ F[1] = 20
      /\ F[2] = 21
      /\ F[3] = 22
      /\ F[4] = 23
      /\ F[5] = 41
      /\ F[6] = 42
      /\ F[7] = 43
  OBVIOUS
<1> HIDE DEF F
<1>4. ASSUME NEW b \in 1 .. 7 PROVE F[b] = IF b <= 4 THEN b + 19 ELSE b + 36
  <2>1. b = 1 \/ b = 2 \/ b = 3 \/ b = 4 \/ b = 5 \/ b = 6 \/ b = 7 OBVIOUS
  <2> QED BY <2>1, <1>3
<1> QED BY <1>1, <1>2, <1>4

LEMMA Field6 ==
  /\ Fields[6] \in Seq(Nat) /\ Len(Fields[6]) = 5
  /\ \A b \in 1 .. 5 : Fields[6][b] = IF b <= 4 THEN b + 23 ELSE b + 39
<1> DEFINE F == << 24, 25, 26, 27, 44 >>
<1>1. Fields[6] = F BY DEF Fields
<1>2. F \in Seq(Nat) /\ Len(F) = 5 OBVIOUS
<1>3. /\ F[1] = 24
      /\ F[2] = 25
      /\ F[3] = 26
      /\ F[4] = 27
      /\ F[5] = 44
  OBVIOUS
<1> HIDE DEF F
<1>4. ASSUME NEW b \in 1 .. 5 PROVE F[b] = IF b <= 4 THEN b + 23 ELSE b + 39
  <2>1. b = 1 \/ b = 2 \/ b = 3 \/ b = 4 \/ b = 5 OBVIOUS
  <2> QED BY <2>1, <1>3
<1> QED BY <1>1, <1>2, <1>4

LEMMA Field7 ==
  /\ Fields[7] \in Seq(Nat) /\ Len(Fields[7]) = 4
  /\ \A b \in 1 .. 4 : Fields[7][b] = IF b <= 3 THEN b + 27 ELSE b + 41
<1> DEFINE F == << 28, 29, 30, 45 >>
<1>1. Fields[7] = F BY DEF Fields
<1>2. F \in Seq(Nat) /\ Len(F) = 4 OBVIOUS
<1>3. /\ F[1] = 28
      /\ F[2] = 29
      /\ F[3] = 30
      /\ F[4] = 45
  OBVIOUS
<1> HIDE DEF F
<1>4. ASSUME NEW b \in 1 .. 4 PROVE F[b] = IF b <= 3 THEN b + 27 ELSE b + 41
  <2>1. b = 1 \/ b = 2 \/ b = 3 \/ b = 4 OBVIOUS
  <2> QED BY <2>1, <1>3
<1> QED BY <1>1, <1>2, <1>4

LEMMA Field8 ==
  /\ Fields[8] \in Seq(Nat) /\ Len(Fields[8]) = 4
  /\ \A b \in 1 .. 4 : Fields[8][b] = IF b <= 3 THEN b + 30 ELSE b + 42
<1> DEFINE F == << 31, 32, 33, 46 >>
<1>1. Fields[8] = F BY DEF Fields
<1>2. F \in Seq(Nat) /\ Len(F) = 4 OBVIOUS
<1>3. /\ F[1] = 31
      /\ F[2] = 32
      /\ F[3] = 33
      /\ F[4] = 46
  OBVIOUS
<1> HIDE DEF F
<1>4. ASSUME NEW b \in 1 .. 4 PROVE F[b] = IF b <= 3 THEN b + 30 ELSE b + 42
  <2>1. b = 1 \/ b = 2 \/ b = 3 \/ b = 4 OBVIOUS
  <2> QED BY <2>1, <1>3
<1> QED BY <1>1, <1>2, <1>4

LEMMA Field9 ==
  /\ Fields[9] \in Seq(Nat) /\ Len(Fields[9]) = 3
  /\ \A b \in 1 .. 3 : Fields[9][b] = IF b <= 1 THEN b + 33 ELSE b + 45
<1> DEFINE F == << 34, 47, 48 >>
<1>1. Fields[9] = F BY DEF Fields
<1>2. F \in Seq(Nat) /\ Len(F) = 3 OBVIOUS
<1>3. /\ F[1] = 34
      /\ F[2] = 47
      /\ F[3] = 48
  OBVIOUS
<1> HIDE DEF F
<1>4. ASSUME NEW b \in 1 .. 3 PROVE F[b] = IF b <= 1 THEN b + 33 ELSE b + 45
  <2>1. b = 1 \/ b = 2 \/ b = 3 OBVIOUS
  <2> QED BY <2>1, <1>3
<1> QED BY <1>1, <1>2, <1>4

\* The index a source bit belongs to.
Owner(k) ==
  IF k <= 3 THEN 1
  ELSE IF k <= 7 THEN 2
  ELSE IF k <= 11 THEN 3
  ELSE IF k <= 19 THEN 4
  ELSE IF k <= 23 THEN 5
  ELSE IF k <= 27 THEN 6
  ELSE IF k <= 30 THEN 7
  ELSE IF k <= 33 THEN 8
  ELSE IF k <= 34 THEN 9
  ELSE IF k <= 35 THEN 2
  ELSE IF k <= 36 THEN 3
  ELSE IF k <= 39 THEN 1
  ELSE IF k <= 40 THEN 4
  ELSE IF k <= 43 THEN 5
  ELSE IF k <= 44 THEN 6
  ELSE IF k <= 45 THEN 7
  ELSE IF k <= 46 THEN 8
  ELSE 9

\* What is to know of index f.
WellPlaced(f) ==
  /\ Fields[f] \in Seq(Nat) /\ Len(Fields[f]) \in 1 .. 24
  /\ \A b \in 1 .. Len(Fields[f]) : Fields[f][b] \in 0 .. 48 /\ Owner(Fields[f][b]) = f
  /\ \A b, c \in 1 .. Len(Fields[f]) : Fields[f][b] = Fields[f][c] => b = c

LEMMA FieldsPlaced == DOMAIN Fields = 1 .. 9 /\ \A f \in 1 .. 9 : WellPlaced(f)
<1>1. WellPlaced(1)
  <2> DEFINE F == Fields[1]
  <2>1. F \in Seq(Nat) /\ Len(F) = 7 BY Field1
  <2>2. \A b \in 1 .. 7 : F[b] = IF b <= 4 THEN b - 1 ELSE b + 32 BY Field1
  <2> HIDE DEF F
  <2>3. \A b \in 1 .. 7 : F[b] \in 0 .. 48 /\ Owner(F[b]) = 1 BY <2>2 DEF Owner
  <2>4. \A b, c \in 1 .. 7 : F[b] = F[c] => b = c BY <2>2
  <2>5. Len(F) \in 1 .. 24 BY <2>1
  <2>6. /\ \A b \in 1 .. Len(F) : F[b] \in 0 .. 48 /\ Owner(F[b]) = 1
        /\ \A b, c \in 1 .. Len(F) : F[b] = F[c] => b = c
    BY <2>1, <2>3, <2>4
  <2> QED BY <2>1, <2>5, <2>6, Zenon DEF WellPlaced, F
<1>2. WellPlaced(2)
  <2> DEFINE F == Fields[2]
  <2>1. F \in Seq(Nat) /\ Len(F) = 5 BY Field2
  <2>2. \A b \in 1 .. 5 : F[b] = IF b <= 4 THEN b + 3 ELSE b + 30 BY Field2
  <2> HIDE DEF F
  <2>3. \A b \in 1 .. 5 : F[b] \in 0 .. 48 /\ Owner(F[b]) = 2 BY <2>2 DEF Owner
  <2>4. \A b, c \in 1 .. 5 : F[b] = F[c] => b = c BY <2>2
  <2>5. Len(F) \in 1 .. 24 BY <2>1
  <2>6. /\ \A b \in 1 .. Len(F) : F[b] \in 0 .. 48 /\ Owner(F[b]) = 2
        /\ \A b, c \in 1 .. Len(F) : F[b] = F[c] => b = c
    BY <2>1, <2>3, <2>4
  <2> QED BY <2>1, <2>5, <2>6, Zenon DEF WellPlaced, F
<1>3. WellPlaced(3)
  <2> DEFINE F == Fields[3]
  <2>1. F \in Seq(Nat) /\ Len(F) = 5 BY Field3
  <2>2. \A b \in 1 .. 5 : F[b] = IF b <= 4 THEN b + 7 ELSE b + 31 BY Field3
  <2> HIDE DEF F
  <2>3. \A b \in 1 .. 5 : F[b] \in 0 .. 48 /\ Owner(F[b]) = 3 BY <2>2 DEF Owner
  <2>4. \A b, c \in 1 .. 5 : F[b] = F[c] => b = c BY <2>2
  <2>5. Len(F) \in 1 .. 24 BY <2>1
  <2>6. /\ \A b \in 1 .. Len(F) : F[b] \in 0 .. 48 /\ Owner(F[b]) = 3
        /\ \A b, c \in 1 .. Len(F) : F[b] = F[c] => b = c
    BY <2>1, <2>3, <2>4
  <2> QED BY <2>1, <2>5, <2>6, Zenon DEF WellPlaced, F
<1>4. WellPlaced(4)
  <2> DEFINE F == Fields[4]
  <2>1. F \in Seq(Nat) /\ Len(F) = 9 BY Field4
  <2>2. \A b \in 1 .. 9 : F[b] = IF b <= 8 THEN b + 11 ELSE b + 31 BY Field4
  <2> HIDE DEF F
  <2>3. \A b \in 1 .. 9 : F[b] \in 0 .. 48 /\ Owner(F[b]) = 4 BY <2>2 DEF Owner
  <2>4. \A b, c \in 1 .. 9 : F[b] = F[c] => b = c BY <2>2
  <2>5. Len(F) \in 1 .. 24 BY <2>1
  <2>6. /\ \A b \in 1 .. Len(F) : F[b] \in 0 .. 48 /\ Owner(F[b]) = 4
        /\ \A b, c \in 1 .. Len(F) : F[b] = F[c] => b = c
    BY <2>1, <2>3, <2>4
  <2> QED BY <2>1, <2>5, <2>6, Zenon DEF WellPlaced, F
<1>5. WellPlaced(5)
  <2> DEFINE F == Fields[5]
  <2>1. F \in Seq(Nat) /\ Len(F) = 7 BY Field5
  <2>2. \A b \in 1 .. 7 : F[b] = IF b <= 4 THEN b + 19 ELSE b + 36 BY Field5
  <2> HIDE DEF F
  <2>3. \A b \in 1 .. 7 : F[b] \in 0 .. 48 /\ Owner(F[b]) = 5 BY <2>2 DEF Owner
  <2>4. \A b, c \in 1 .. 7 : F[b] = F[c] => b = c BY <2>2
  <2>5. Len(F) \in 1 .. 24 BY <2>1
  <2>6. /\ \A b \in 1 .. Len(F) : F[b] \in 0 .. 48 /\ Owner(F[b]) = 5
        /\ \A b, c \in 1 .. Len(F) : F[b] = F[c] => b = c
    BY <2>1, <2>3, <2>4
  <2> QED BY <2>1, <2>5, <2>6, Zenon DEF WellPlaced, F
<1>6. WellPlaced(6)
  <2> DEFINE F == Fields[6]
  <2>1. F \in Seq(Nat) /\ Len(F) = 5 BY Field6
  <2>2. \A b \in 1 .. 5 : F[b] = IF b <= 4 THEN b + 23 ELSE b + 39 BY Field6
  <2> HIDE DEF F
  <2>3. \A b \in 1 .. 5 : F[b] \in 0 .. 48 /\ Owner(F[b]) = 6 BY <2>2 DEF Owner
  <2>4. \A b, c \in 1 .. 5 : F[b] = F[c] => b = c BY <2>2
  <2>5. Len(F) \in 1 .. 24 BY <2>1
  <2>6. /\ \A b \in 1 .. Len(F) : F[b] \in 0 .. 48 /\ Owner(F[b]) = 6
        /\ \A b, c \in 1 .. Len(F) : F[b] = F[c] => b = c
    BY <2>1, <2>3, <2>4
  <2> QED BY <2>1, <2>5, <2>6, Zenon DEF WellPlaced, F
<1>7. WellPlaced(7)
  <2> DEFINE F == Fields[7]
  <2>1. F \in Seq(Nat) /\ Len(F) = 4 BY Field7
  <2>2. \A b \in 1 .. 4 : F[b] = IF b <= 3 THEN b + 27 ELSE b + 41 BY Field7
  <2> HIDE DEF F
  <2>3. \A b \in 1 .. 4 : F[b] \in 0 .. 48 /\ Owner(F[b]) = 7 BY <2>2 DEF Owner
  <2>4. \A b, c \in 1 .. 4 : F[b] = F[c] => b = c BY <2>2
  <2>5. Len(F) \in 1 .. 24 BY <2>1
  <2>6. /\ \A b \in 1 .. Len(F) : F[b] \in 0 .. 48 /\ Owner(F[b]) = 7
        /\ \A b, c \in 1 .. Len(F) : F[b] = F[c] => b = c
    BY <2>1, <2>3, <2>4
  <2> QED BY <2>1, <2>5, <2>6, Zenon DEF WellPlaced, F
<1>8. WellPlaced(8)
  <2> DEFINE F == Fields[8]
  <2>1. F \in Seq(Nat) /\ Len(F) = 4 BY Field8
  <2>2. \A b \in 1 .. 4 : F[b] = IF b <= 3 THEN b + 30 ELSE b + 42 BY Field8
  <2> HIDE DEF F
  <2>3. \A b \in 1 .. 4 : F[b] \in 0 .. 48 /\ Owner(F[b]) = 8 BY <2>2 DEF Owner
  <2>4. \A b, c \in 1 .. 4 : F[b] = F[c] => b = c BY <2>2
  <2>5. Len(F) \in 1 .. 24 BY <2>1
  <2>6. /\ \A b \in 1 .. Len(F) : F[b] \in 0 .. 48 /\ Owner(F[b]) = 8
        /\ \A b, c \in 1 .. Len(F) : F[b] = F[c] => b = c
    BY <2>1, <2>3, <2>4
  <2> QED BY <2>1, <2>5, <2>6, Zenon DEF WellPlaced, F
<1>9. WellPlaced(9)
  <2> DEFINE F == Fields[9]
  <2>1. F \in Seq(Nat) /\ Len(F) = 3 BY Field9
  <2>2. \A b \in 1 .. 3 : F[b] = IF b <= 1 THEN b + 33 ELSE b + 45 BY Field9
  <2> HIDE DEF F
  <2>3. \A b \in 1 .. 3 : F[b] \in 0 .. 48 /\ Owner(F[b]) = 9 BY <2>2 DEF Owner
  <2>4. \A b, c \in 1 .. 3 : F[b] = F[c] => b = c BY <2>2
  <2>5. Len(F) \in 1 .. 24 BY <2>1
  <2>6. /\ \A b \in 1 .. Len(F) : F[b] \in 0 .. 48 /\ Owner(F[b]) = 9
        /\ \A b, c \in 1 .. Len(F) : F[b] = F[c] => b = c
    BY <2>1, <2>3, <2>4
  <2> QED BY <2>1, <2>5, <2>6, Zenon DEF WellPlaced, F
<1>10. DOMAIN Fields = 1 .. 9 BY DEF Fields
<1>11. \A f \in 1 .. 9 : f \in {1, 2, 3, 4, 5, 6, 7, 8, 9} OBVIOUS
<1>12. \A f \in {1, 2, 3, 4, 5, 6, 7, 8, 9} : WellPlaced(f)
  BY <1>1, <1>2, <1>3, <1>4, <1>5, <1>6, <1>7, <1>8, <1>9, Zenon
<1> QED BY <1>10, <1>11, <1>12, Zenon

LEMMA ScatterMember ==
  ASSUME NEW vq
  PROVE  /\ Scatter(vq) \subseteq 0 .. 48
         /\ \A f \in 1 .. 9 : \A b \in 1 .. Len(Fields[f]) :
              Fields[f][b] \in Scatter(vq) <=> b - 1 \in Field(vq[f], 0, Len(Fields[f]))
<1> DEFINE S(f) == {Fields[f][b + 1] : b \in Field(vq[f], 0, Len(Fields[f]))}
<1>1. Scatter(vq) = UNION {S(f) : f \in 1 .. 9} BY FieldsPlaced DEF Scatter
<1>2. ASSUME NEW f \in 1 .. 9 PROVE WellPlaced(f) BY FieldsPlaced
<1>3. ASSUME NEW f \in 1 .. 9, NEW k \in Field(vq[f], 0, Len(Fields[f]))
      PROVE  k + 1 \in 1 .. Len(Fields[f]) /\ (k + 1) - 1 = k
  <2>1. PICK at \in Nat : at = 0 OBVIOUS
  <2>2. Len(Fields[f]) \in Nat BY <1>2 DEF WellPlaced
  <2>3. k \in at .. at + Len(Fields[f]) - 1 BY <2>1, <2>2, FieldWithin
  <2> QED BY <2>1, <2>2, <2>3
<1>4. ASSUME NEW f \in 1 .. 9, NEW p \in S(f)
      PROVE  p \in 0 .. 48 /\ Owner(p) = f
  <2>1. PICK k \in Field(vq[f], 0, Len(Fields[f])) : p = Fields[f][k + 1] OBVIOUS
  <2>2. k + 1 \in 1 .. Len(Fields[f]) BY <1>3
  <2> QED BY <2>1, <2>2, <1>2 DEF WellPlaced
<1>5. ASSUME NEW f \in 1 .. 9, NEW b \in 1 .. Len(Fields[f])
      PROVE  Fields[f][b] \in Scatter(vq) <=> b - 1 \in Field(vq[f], 0, Len(Fields[f]))
  <2> DEFINE p == Fields[f][b]
  <2>1. Owner(p) = f BY <1>2 DEF WellPlaced
  <2>2. p \in Scatter(vq) <=> p \in S(f)
    <3> HIDE DEF p, S
    <3> QED BY <1>1, <1>4, <2>1
  <2>3. ASSUME p \in S(f) PROVE b - 1 \in Field(vq[f], 0, Len(Fields[f]))
    <3>1. PICK k \in Field(vq[f], 0, Len(Fields[f])) : p = Fields[f][k + 1] BY <2>3
    <3>2. k + 1 \in 1 .. Len(Fields[f]) /\ (k + 1) - 1 = k BY <1>3
    <3>3. k + 1 = b BY <3>1, <3>2, <1>2 DEF WellPlaced
    <3> QED BY <3>2, <3>3
  <2>4. ASSUME b - 1 \in Field(vq[f], 0, Len(Fields[f])) PROVE p \in S(f)
    <3>1. (b - 1) + 1 = b
      <4>1. Len(Fields[f]) \in Nat BY <1>2 DEF WellPlaced
      <4> QED BY <4>1
    <3> QED BY <2>4, <3>1
  <2> QED BY <2>2, <2>3, <2>4
<1>6. Scatter(vq) \subseteq 0 .. 48
  <2> HIDE DEF S
  <2> QED BY <1>1, <1>4
<1> QED BY <1>5, <1>6

\* Indices that fit their fields are read back.
LEMMA IndicesBack ==
  ASSUME NEW vq \in [DOMAIN Fields -> Nat],
         \A f \in DOMAIN Fields : vq[f] < 2 ^ Len(Fields[f])
  PROVE  [f \in DOMAIN Fields |->
            Number({b - 1 : b \in {i \in DOMAIN Fields[f] : Fields[f][i] \in Scatter(vq)}},
                   0, Len(Fields[f]))] = vq
<1> DEFINE G(f) == {b - 1 : b \in {i \in DOMAIN Fields[f] : Fields[f][i] \in Scatter(vq)}}
<1>1. ASSUME NEW f \in DOMAIN Fields PROVE Number(G(f), 0, Len(Fields[f])) = vq[f]
  <2> DEFINE n == Len(Fields[f])
  <2>1. f \in 1 .. 9 /\ WellPlaced(f) BY FieldsPlaced
  <2>2. n \in 1 .. 24 /\ DOMAIN Fields[f] = 1 .. n BY <2>1 DEF WellPlaced
  <2>3. \A b \in 1 .. n : Fields[f][b] \in Scatter(vq) <=> b - 1 \in Field(vq[f], 0, n)
    BY <2>1, ScatterMember
  <2> HIDE DEF n
  <2>4. G(f) = {b - 1 : b \in {i \in 1 .. n : Fields[f][i] \in Scatter(vq)}} BY <2>2
  <2>5. \A p \in 0 .. 0 + n - 1 : p \in G(f) <=> p \in Field(vq[f], 0, n)
    <3>1. ASSUME NEW p \in 0 .. 0 + n - 1 PROVE p \in G(f) <=> p \in Field(vq[f], 0, n)
      <4> DEFINE b == p + 1
      <4>4. n \in Int
        <5>1. n \in 1 .. 24 BY ONLY <2>2
        <5> QED BY ONLY <5>1
      <4>5. 0 + n - 1 = n - 1 BY <4>4
      <4>6. p \in Int /\ 0 <= p /\ p <= n - 1 BY <4>4, <4>5
      <4>1. b \in 1 .. n /\ b - 1 = p BY <4>4, <4>6
      <4>2. p \in G(f) <=> Fields[f][b] \in Scatter(vq)
        <5> HIDE DEF b, G
        <5>1. \A i \in 1 .. n : i - 1 = b - 1 => i = b BY <4>1
        <5> QED BY <2>4, <4>1, <5>1
      <4>3. Fields[f][b] \in Scatter(vq) <=> b - 1 \in Field(vq[f], 0, n) BY <2>3, <4>1
      <4> HIDE DEF b, G
      <4> QED BY <4>1, <4>2, <4>3
    <3> QED BY <3>1
  <2>6. vq[f] \in Nat /\ vq[f] < 2 ^ n BY DEF n
  <2>7. PICK at \in Nat : at = 0 OBVIOUS
  <2> HIDE DEF G
  <2>8. Number(G(f), at, n) = vq[f] BY <2>2, <2>5, <2>6, <2>7, NumberOfField
  <2> QED BY <2>7, <2>8 DEF n
<1> HIDE DEF G
<1>2. [f \in DOMAIN Fields |-> Number(G(f), 0, Len(Fields[f]))] = vq BY <1>1
<1> QED BY <1>2 DEF G

--------------------------------------------------------------------------------
(* The voice. *)

\* Where bit j of frame i lies in a burst, and the bits of it a fade hits.
AirBit(i, j) == IF i = 1 THEN j ELSE IF i = 3 THEN 192 + j ELSE IF j < 36 THEN 72 + j ELSE 120 + j
Hit(i) == {j \in 0 .. 71 : fade.at <= AirBit(i, j) /\ AirBit(i, j) < fade.at + fade.len}

LEMMA AssembledAmbe ==
  ASSUME NEW middle, middle \subseteq 0 .. 47, NEW i \in 1 .. 3, NEW j \in 0 .. 71
  PROVE  AirBit(i, j) \in AssembleBurst(Ambe, middle) <=> j \in Ambe[i]
<1> DEFINE X == AssembleBurst(Ambe, middle)
<1>1. /\ \A k \in 0 .. 71 : k \in X <=> k \in Ambe[1]
      /\ \A k \in 0 .. 35 : 72 + k \in X <=> k \in Ambe[2]
      /\ \A k \in 0 .. 35 : 156 + k \in X <=> 36 + k \in Ambe[2]
      /\ \A k \in 0 .. 71 : 192 + k \in X <=> k \in Ambe[3]
  BY AmbeWithin, BurstMember, ZenonT(60)
<1> HIDE DEF X
<1>2. ASSUME i = 1 PROVE AirBit(i, j) \in X <=> j \in Ambe[i]
  <2>1. AirBit(i, j) = j BY <1>2 DEF AirBit
  <2> QED BY <2>1, <1>1, <1>2
<1>3. ASSUME i = 2 PROVE AirBit(i, j) \in X <=> j \in Ambe[i]
  <2>1. ASSUME j < 36 PROVE AirBit(i, j) \in X <=> j \in Ambe[i]
    <3>1. j \in 0 .. 35 /\ AirBit(i, j) = 72 + j BY <1>3, <2>1 DEF AirBit
    <3> QED BY <3>1, <1>1, <1>3
  <2>2. ASSUME j >= 36 PROVE AirBit(i, j) \in X <=> j \in Ambe[i]
    <3> DEFINE k == j - 36
    <3>1. k \in 0 .. 35 /\ AirBit(i, j) = 156 + k /\ 36 + k = j
      BY <1>3, <2>2 DEF AirBit
    <3> HIDE DEF k
    <3>2. 156 + k \in X <=> 36 + k \in Ambe[2] BY <3>1, <1>1
    <3> QED BY <3>1, <3>2, <1>3
  <2> QED BY <2>1, <2>2
<1>4. ASSUME i = 3 PROVE AirBit(i, j) \in X <=> j \in Ambe[i]
  <2>1. AirBit(i, j) = 192 + j BY <1>4 DEF AirBit
  <2> QED BY <2>1, <1>1, <1>4
<1> QED BY <1>2, <1>3, <1>4 DEF X

LEMMA ExtractedAmbe ==
  ASSUME NEW X, NEW i \in 1 .. 3
  PROVE  /\ ExtractAmbe(X)[i] \subseteq 0 .. 71
         /\ \A j \in 0 .. 71 : j \in ExtractAmbe(X)[i] <=> AirBit(i, j) \in X
<1> DEFINE A == X \cap 0 .. 71
           B1 == Slice(X, 72, 36)
           B2 == Slice(X, 156, 36)
           B == B1 \cup Place(B2, 36)
           C == Slice(X, 192, 72)
<1>1. ExtractAmbe(X) = << A, B, C >> BY DEF ExtractAmbe
<1>2. /\ \A j : j \in B1 <=> j \in 0 .. 35 /\ 72 + j \in X
      /\ \A j : j \in B2 <=> j \in 0 .. 35 /\ 156 + j \in X
      /\ \A j : j \in C <=> j \in 0 .. 71 /\ 192 + j \in X
  <2>1. ASSUME NEW at \in Nat, NEW n \in Nat, NEW j PROVE j \in Slice(X, at, n) <=> j \in 0 .. n - 1 /\ at + j \in X
    BY SliceMember
  <2>2. PICK a \in Nat, b \in Nat, c \in Nat, m \in Nat, n \in Nat :
          a = 72 /\ b = 156 /\ c = 192 /\ m = 36 /\ n = 72
    OBVIOUS
  <2>3. m - 1 = 35 /\ n - 1 = 71 BY <2>2
  <2>4. \A j : j \in Slice(X, a, m) <=> j \in 0 .. m - 1 /\ a + j \in X BY <2>1
  <2>5. \A j : j \in Slice(X, b, m) <=> j \in 0 .. m - 1 /\ b + j \in X BY <2>1
  <2>6. \A j : j \in Slice(X, c, n) <=> j \in 0 .. n - 1 /\ c + j \in X BY <2>1
  <2> QED BY <2>2, <2>3, <2>4, <2>5, <2>6
<1> HIDE DEF B1, B2, C
<1>3. \A j \in Int : j \in Place(B2, 36) <=> j - 36 \in B2
  BY <1>2 DEF Place
<1>4. /\ B \subseteq 0 .. 71
      /\ \A j \in 0 .. 71 : j \in B <=> IF j < 36 THEN 72 + j \in X ELSE 120 + j \in X
  <2>1. ASSUME NEW j \in B PROVE j \in 0 .. 71
    <3>1. CASE j \in B1
      <4>1. j \in 0 .. 35 BY <3>1, <1>2
      <4> QED BY <4>1
    <3>2. CASE j \notin B1
      <4>1. PICK k \in B2 : j = 36 + k BY <3>2 DEF Place
      <4>2. k \in 0 .. 35 BY <1>2
      <4> QED BY <4>1, <4>2
    <3> QED BY <3>1, <3>2
  <2>2. ASSUME NEW j \in 0 .. 71
        PROVE  j \in B <=> IF j < 36 THEN 72 + j \in X ELSE 120 + j \in X
    <3>1. CASE j < 36
      <4>1. j \in 0 .. 35 /\ ~(j - 36 \in 0 .. 35) BY <3>1
      <4>3. j \in B1 <=> 72 + j \in X BY <4>1, <1>2
      <4>4. j \in Place(B2, 36) <=> j - 36 \in B2 BY <1>3
      <4>5. j - 36 \notin B2 BY <4>1, <1>2
      <4>2. j \in B <=> 72 + j \in X BY <4>3, <4>4, <4>5
      <4> QED BY <4>2, <3>1
    <3>2. CASE ~(j < 36)
      <4>1. j - 36 \in 0 .. 35 /\ ~(j \in 0 .. 35) /\ 156 + (j - 36) = 120 + j BY <3>2
      <4>3. j \notin B1 BY <4>1, <1>2
      <4>4. j \in Place(B2, 36) <=> j - 36 \in B2 BY <1>3
      <4>5. j - 36 \in B2 <=> 156 + (j - 36) \in X BY <4>1, <1>2
      <4>2. j \in B <=> 156 + (j - 36) \in X BY <4>3, <4>4, <4>5
      <4> QED BY <4>1, <4>2, <3>2
    <3> QED BY <3>1, <3>2
  <2> HIDE DEF B
  <2> QED BY <2>1, <2>2
<1> HIDE DEF B
<1>5. CASE i = 1
  <2>1. ExtractAmbe(X)[i] = A BY <1>1, <1>5
  <2> QED BY <2>1, <1>5 DEF AirBit
<1>6. CASE i = 2
  <2>1. ExtractAmbe(X)[i] = B BY <1>1, <1>6
  <2> QED BY <2>1, <1>4, <1>6 DEF AirBit
<1>7. CASE i = 3
  <2>1. ExtractAmbe(X)[i] = C BY <1>1, <1>7
  <2> QED BY <2>1, <1>2, <1>7 DEF AirBit
<1> QED BY <1>5, <1>6, <1>7

\* The frames as heard are those sent, but for the bits hit.
LEMMA HeardFrame ==
  ASSUME AirType, IsVoice(unit), NEW i \in 1 .. 3
  PROVE  /\ Hit(i) \subseteq 0 .. 71
         /\ ExtractAmbe(Heard(fade.burst))[i] = SymDiff(Ambe[i], Hit(i))
<1> DEFINE b == fade.burst
           M == Middle(Fragments(SentLc(call, unit)), b - 1, call.colour)
           frame == ExtractAmbe(Heard(b))[i]
<1>1. b \in 1 .. 6 /\ FadeShape
  BY DEF AirType, Bursts, FadeShape
<1>2. bursts[b] = AssembleBurst(Ambe, M)
  <2>1. bursts = Superframe(call, unit) BY DEF AirType, UnitBursts
  <2> HIDE DEF b
  <2> QED BY <1>1, <2>1 DEF Superframe, b
<1>3. M \subseteq 0 .. 47
  <2>1. PICK j \in 0 .. 47 : j = 0 OBVIOUS
  <2> QED BY <1>1, <2>1, SuperframeMember
<1> HIDE DEF b, M
<1>4. ASSUME NEW j \in 0 .. 71 PROVE j \in frame <=> j \in SymDiff(Ambe[i], Hit(i))
  <2> DEFINE p == AirBit(i, j)
  <2>1. p \in Int BY DEF AirBit
  <2>2. j \in frame <=> p \in Heard(b) BY ExtractedAmbe
  <2>3. p \in bursts[b] <=> j \in Ambe[i] BY <1>2, <1>3, AssembledAmbe
  <2>4. p \in Heard(b) <=>
          ~(p \in bursts[b] <=> b = fade.burst /\ fade.at <= p /\ p < fade.at + fade.len)
    <3> HIDE DEF p
    <3> QED BY <1>1, <2>1, HeardMember
  <2>5. j \in Hit(i) <=> fade.at <= p /\ p < fade.at + fade.len BY DEF Hit
  <2>6. j \in SymDiff(Ambe[i], Hit(i)) <=> ~(j \in Ambe[i] <=> j \in Hit(i)) BY SymDiffMember
  <2> HIDE DEF p, frame
  <2> QED BY <2>2, <2>3, <2>4, <2>5, <2>6 DEF b
<1>5. frame \subseteq 0 .. 71 BY ExtractedAmbe
<1>6. Hit(i) \subseteq 0 .. 71 BY DEF Hit
<1>7. ASSUME NEW j \in SymDiff(Ambe[i], Hit(i)) PROVE j \in 0 .. 71
  <2>1. j \in Ambe[i] \/ j \in Hit(i) BY SymDiffMember
  <2> QED BY <2>1, <1>6, AmbeWithin
<1> HIDE DEF frame
<1>8. frame = SymDiff(Ambe[i], Hit(i)) BY <1>4, <1>5, <1>7
<1> QED BY <1>6, <1>8 DEF frame, b

\* A short fade hits adjacent bits of a frame.
LEMMA HitShort ==
  ASSUME FadeShape, fade.len <= 5, NEW i \in 1 .. 3
  PROVE  \E q \in Int : Hit(i) \subseteq q .. q + 4
<1>1. fade.at \in Nat /\ fade.len \in Nat BY DEF FadeShape
<1>2. \A j \in Hit(i) : j \in 0 .. 71 /\ fade.at <= AirBit(i, j) /\ AirBit(i, j) < fade.at + fade.len
  BY DEF Hit
<1>3. CASE i = 1
  <2>1. \A j \in Hit(i) : j \in fade.at .. fade.at + 4 BY <1>1, <1>2, <1>3 DEF AirBit
  <2> QED BY <1>1, <2>1
<1>4. CASE i = 3
  <2> DEFINE q == fade.at - 192
  <2>1. \A j \in Hit(i) : j \in q .. q + 4 BY <1>1, <1>2, <1>4 DEF AirBit
  <2>2. q \in Int BY <1>1
  <2> QED BY <2>1, <2>2
<1>5. CASE i = 2
  <2>1. \A j \in 0 .. 71 : AirBit(i, j) = IF j < 36 THEN 72 + j ELSE 120 + j BY <1>5 DEF AirBit
  <2>2. CASE fade.at < 120
    <3> DEFINE q == fade.at - 72
    <3>1. \A j \in Hit(i) : j \in q .. q + 4 BY <1>1, <1>2, <2>1, <2>2
    <3>2. q \in Int BY <1>1
    <3> QED BY <3>1, <3>2
  <2>3. CASE fade.at >= 120
    <3> DEFINE q == fade.at - 120
    <3>1. \A j \in Hit(i) : j \in q .. q + 4 BY <1>1, <1>2, <2>1, <2>3
    <3>2. q \in Int BY <1>1
    <3> QED BY <3>1, <3>2
  <2> QED BY <1>1, <2>2, <2>3
<1> QED BY <1>3, <1>4, <1>5

LEMMA VoiceSource ==
  ASSUME NEW i \in 1 .. 3
  PROVE  /\ Voice[i] \in [DOMAIN Fields -> Nat]
         /\ \A f \in DOMAIN Fields : Voice[i][f] < 2 ^ Len(Fields[f])
         /\ Scatter(Voice[i]) \subseteq 0 .. 48
         /\ Ambe[i] = ChannelEncode(ToChip(Scatter(Voice[i])))
         /\ Said[i].source = Scatter(Voice[i])
         /\ Said[i].seed = Seed(Scatter(Voice[i]))
         /\ Said[i].first = FirstWord(Scatter(Voice[i]))
         /\ Said[i].second = SecondWord(Scatter(Voice[i]))
         /\ Said[i].inverted = Whitening(Seed(Scatter(Voice[i])))
<1>1. /\ Voice[i] \in [DOMAIN Fields -> Nat]
      /\ \A f \in DOMAIN Fields : Voice[i][f] < 2 ^ Len(Fields[f])
  BY AirAssumption
<1>2. Scatter(Voice[i]) \subseteq 0 .. 48 BY ScatterMember
<1>3. Ambe[i] = ChannelEncode(ToChip(Scatter(Voice[i]))) BY DEF Ambe, EncodeFrame
<1> DEFINE source == Scatter(Voice[i])
           seed == {11 - j : j \in source \cap 0 .. 11}
           first == Golay_24_12(seed)
           second == Golay_23_12({23 - j : j \in source \cap 12 .. 23})
           inverted == {22 - j : j \in Pn(seed, 23)}
<1>4. Said[i] = [source |-> source, seed |-> seed, first |-> first, second |-> second,
                 inverted |-> inverted]
  BY DEF Said
<1> HIDE DEF source
<1>5. /\ seed = Seed(source) /\ first = FirstWord(source) /\ second = SecondWord(source)
      /\ inverted = Whitening(Seed(source))
  BY Zenon DEF Seed, FirstWord, SecondWord, SecondData, Whitening
<1> HIDE DEF seed, first, second, inverted
<1>6. /\ Said[i].source = source /\ Said[i].seed = seed /\ Said[i].first = first
      /\ Said[i].second = second /\ Said[i].inverted = inverted
  BY <1>4
<1> QED BY <1>1, <1>2, <1>3, <1>5, <1>6 DEF source

LEMMA Untangle ==
  ASSUME NEW A, NEW B, NEW H
  PROVE  /\ SymDiff(SymDiff(A, H), A) = H
         /\ SymDiff(SymDiff(SymDiff(A, B), H), B) = SymDiff(A, H)
BY DEF SymDiff

LEMMA VoiceOfType == AirType => VoiceSurvives
<1> SUFFICES ASSUME AirType, IsVoice(unit), NEW i \in 1 .. 3
             PROVE  LET frame == ExtractAmbe(Heard(fade.burst))[i]
                        hit == SymDiff(frame, Ambe[i])
                        rows == DeinterleaveRows(frame)
                        clear == SymDiff(rows[1], Said[i].inverted)
                        wrong == SymDiff(Said[i].source, ToMbelib(ChannelDecode(frame)))
                    IN  /\ fade = NoFade => FrameToVq(frame) = Voice[i]
                        /\ hit # {} /\ fade.len <= 5 =>
                             /\ Cardinality(SymDiff(rows[0], Said[i].first)) <= 3
                             /\ Cardinality(SymDiff(clear, Said[i].second)) <= 3
                        /\ hit # {} =>
                             Cardinality(wrong) <=
                               Cardinality(hit) + IF Row0Seed(rows) = Said[i].seed THEN 0 ELSE 12
  BY Zenon DEF VoiceSurvives
<1> DEFINE frame == ExtractAmbe(Heard(fade.burst))[i]
           hit == SymDiff(frame, Ambe[i])
           rows == DeinterleaveRows(frame)
           source == Scatter(Voice[i])
           seed == Seed(source)
           clear == SymDiff(rows[1], Said[i].inverted)
           wrong == SymDiff(Said[i].source, ToMbelib(ChannelDecode(frame)))
           F == ChannelEncode(ToChip(source))
           H == Hit(i)
<1>1. H \subseteq 0 .. 71 /\ frame = SymDiff(F, H) BY HeardFrame, VoiceSource
<1>2. source \subseteq 0 .. 48 BY VoiceSource
<1>3. hit = H
  <2>1. Ambe[i] = F BY VoiceSource
  <2> HIDE DEF frame, F, H
  <2> QED BY <1>1, <2>1, Untangle
<1>4. /\ Said[i].source = source /\ Said[i].seed = seed /\ Said[i].first = FirstWord(source)
      /\ Said[i].second = SecondWord(source) /\ Said[i].inverted = Whitening(seed)
  BY VoiceSource
<1>5. F \subseteq 0 .. 71 /\ DeinterleaveRows(F)[0] = FirstWord(source)
      /\ DeinterleaveRows(F)[1] = SymDiff(SecondWord(source), Whitening(seed))
  BY <1>2, EncodedRows
<1>6. ASSUME fade = NoFade PROVE FrameToVq(frame) = Voice[i]
  <2>1. H = {}
    <3>1. fade.at \in Nat /\ fade.len = 0 BY <1>6 DEF NoFade
    <3>2. \A j \in 0 .. 71 : AirBit(i, j) \in Int BY DEF AirBit
    <3> QED BY <3>1, <3>2 DEF Hit
  <2>2. frame = F
    <3> HIDE DEF frame, F, H
    <3> QED BY <1>1, <2>1, SymDiffNone
  <2>3. ToMbelib(ChannelDecode(frame)) = source
    <3> HIDE DEF source, frame
    <3> QED BY <1>2, <2>2, DecodeBack
  <2> DEFINE back == ToMbelib(ChannelDecode(frame))
  <2>4. FrameToVq(frame) =
          [f \in DOMAIN Fields |->
             Number({b - 1 : b \in {k \in DOMAIN Fields[f] : Fields[f][k] \in back}},
                    0, Len(Fields[f]))]
    <3> HIDE DEF frame
    <3> QED BY DEF FrameToVq
  <2>5. [f \in DOMAIN Fields |->
             Number({b - 1 : b \in {k \in DOMAIN Fields[f] : Fields[f][k] \in source}},
                    0, Len(Fields[f]))] = Voice[i]
    BY VoiceSource, IndicesBack
  <2> HIDE DEF frame, back, source
  <2>6. back = source BY <2>3 DEF back
  <2> QED BY <2>4, <2>5, <2>6
<1>7. ASSUME fade.len <= 5
      PROVE  /\ Cardinality(SymDiff(rows[0], Said[i].first)) <= 3
             /\ Cardinality(SymDiff(clear, Said[i].second)) <= 3
  <2>1. FadeShape BY DEF AirType, Bursts, FadeShape
  <2>2. PICK q \in Int : H \subseteq q .. q + 4 BY <1>7, <2>1, HitShort
  <2> HIDE DEF H, F, frame
  <2>3. rows[0] = SymDiff(DeinterleaveRows(F)[0], DeinterleaveRows(H)[0])
    <3>1. 0 \in 0 .. 3 OBVIOUS
    <3> QED BY <1>1, <1>5, <3>1, RowDamage, Zenon
  <2>4. rows[1] = SymDiff(DeinterleaveRows(F)[1], DeinterleaveRows(H)[1])
    <3>1. PICK r \in 0 .. 3 : r = 1 OBVIOUS
    <3>2. rows[r] = SymDiff(DeinterleaveRows(F)[r], DeinterleaveRows(H)[r])
      BY <1>1, <1>5, RowDamage, Zenon
    <3> QED BY <3>1, <3>2
  <2> HIDE DEF rows, source, seed
  <2>5. SymDiff(rows[0], Said[i].first) = DeinterleaveRows(H)[0] BY <1>4, <1>5, <2>3, Untangle
  <2>6. SymDiff(clear, Said[i].second) = DeinterleaveRows(H)[1]
    <3> DEFINE A == SecondWord(source)
               B == Whitening(seed)
               D == DeinterleaveRows(H)[1]
    <3>1. rows[1] = SymDiff(SymDiff(A, B), D) /\ Said[i].inverted = B /\ Said[i].second = A
      BY <1>4, <1>5, <2>4
    <3> HIDE DEF A, B, D
    <3>2. SymDiff(SymDiff(SymDiff(A, B), D), B) = SymDiff(A, D) BY Untangle
    <3>3. SymDiff(SymDiff(A, D), A) = D BY Untangle
    <3> QED BY <3>1, <3>2, <3>3 DEF D
  <2> HIDE DEF clear
  <2>7. \A r \in {0, 1} : Cardinality(DeinterleaveRows(H)[r]) <= 3 BY <1>1, <2>2, RowHits
  <2>8. Cardinality(DeinterleaveRows(H)[0]) <= 3 /\ Cardinality(DeinterleaveRows(H)[1]) <= 3
    BY <2>7, Zenon
  <2> QED BY <2>5, <2>6, <2>8
<1>8. Cardinality(wrong) <= Cardinality(hit) + IF Row0Seed(rows) = Said[i].seed THEN 0 ELSE 12
  <2> DEFINE frame2 == SymDiff(F, H)
             wrong2 == SymDiff(source, ToMbelib(ChannelDecode(frame2)))
  <2>1. Cardinality(wrong2) <=
          Cardinality(H) + IF Row0Seed(DeinterleaveRows(frame2)) = seed THEN 0 ELSE 12
    BY <1>1, <1>2, FewWrong, Zenon
  <2>2. frame2 = frame BY <1>1
  <2> HIDE DEF frame, frame2, H, hit, source, seed
  <2>3. wrong2 = wrong /\ DeinterleaveRows(frame2) = rows BY <1>4, <2>2
  <2> HIDE DEF wrong, wrong2, rows
  <2> QED BY <1>3, <1>4, <2>1, <2>3, Zenon
<1> HIDE DEF frame, hit, rows, clear, wrong
<1> QED BY <1>6, <1>7, <1>8 DEF frame, hit, rows, clear, wrong

\* The voice: what a fade does to a frame stays what the Golay code corrects, and the
\* bridge's decoder, which corrects nothing, makes no more of it than is on the air.
THEOREM VoiceHolds == Spec => []VoiceSurvives
<1>1. Spec => []AirType BY AirTypeHolds
<1>2. AirType => VoiceSurvives BY VoiceOfType
<1> QED BY <1>1, <1>2, PTL

--------------------------------------------------------------------------------
(* The matrix of the product code: rows and columns of single-error-correcting words. *)

Cell(r, i) == 15 * r + 1 + i

LEMMA CellOf ==
  ASSUME NEW p \in 1 .. 195
  PROVE  \E r \in 0 .. 12, i \in 0 .. 14 : p = Cell(r, i)
<1> DEFINE r == (p - 1) \div 15
           i == (p - 1) % 15
<1>1. p - 1 = 15 * r + i /\ r \in 0 .. 12 /\ i \in 0 .. 14 BY SMT
<1> HIDE DEF r, i
<1>2. p = Cell(r, i) BY <1>1 DEF Cell
<1> QED BY <1>1, <1>2, Zenon

LEMMA SameCell ==
  ASSUME NEW r \in Int, NEW i \in 0 .. 14, NEW s \in Int, NEW j \in 0 .. 14, Cell(r, i) = Cell(s, j)
  PROVE  r = s /\ i = j
BY DEF Cell

LEMMA CellRange ==
  ASSUME NEW r \in 0 .. 12, NEW i \in 0 .. 14
  PROVE  /\ Cell(r, i) \in 1 .. 195
         /\ r <= 8 <=> Cell(r, i) \in 1 .. 135
         /\ r > 8 <=> Cell(r, i) \in 136 .. 195
BY DEF Cell

LEMMA RowIs ==
  ASSUME NEW r \in 0 .. 12
  PROVE  /\ DOMAIN Row(r) = 0 .. 14
         /\ \A i \in 0 .. 14 : Row(r)[i] = Cell(r, i)
BY DEF Row, Cell

LEMMA ColumnIs ==
  ASSUME NEW c \in 0 .. 14
  PROVE  /\ DOMAIN Column(c) = 0 .. 12
         /\ \A k \in 0 .. 12 : Column(c)[k] = Cell(k, c)
BY DEF Column, Cell

LEMMA RowPick ==
  ASSUME NEW W, NEW r \in 0 .. 12, NEW i
  PROVE  i \in Pick(W, Row(r)) <=> i \in 0 .. 14 /\ Cell(r, i) \in W
BY RowIs DEF Pick

LEMMA ColumnPick ==
  ASSUME NEW W, NEW c \in 0 .. 14, NEW k
  PROVE  k \in Pick(W, Column(c)) <=> k \in 0 .. 12 /\ Cell(k, c) \in W
BY ColumnIs DEF Pick

\* The matrix some rows make up.
LEMMA RowsMember ==
  ASSUME NEW words, DOMAIN words = 0 .. 8, \A r \in 0 .. 8 : words[r] \subseteq 0 .. 14
  PROVE  /\ Rows(words) \subseteq 1 .. 135
         /\ \A r \in 0 .. 12 : \A i \in 0 .. 14 :
              Cell(r, i) \in Rows(words) <=> r \in 0 .. 8 /\ i \in words[r]
<1>1. ASSUME NEW p \in Rows(words)
      PROVE  \E s \in 0 .. 8 : \E j \in 0 .. 14 : j \in words[s] /\ p = Cell(s, j)
  <2>1. PICK s \in 0 .. 8 : p \in {Row(s)[j] : j \in words[s]} BY <1>1 DEF Rows
  <2>2. PICK j \in words[s] : p = Row(s)[j] BY <2>1
  <2>3. j \in 0 .. 14 /\ s \in 0 .. 12 BY <2>2
  <2>4. p = Cell(s, j) BY <2>2, <2>3, RowIs
  <2> QED BY <2>2, <2>3, <2>4
<1>2. ASSUME NEW p \in Rows(words) PROVE p \in 1 .. 135
  <2>1. PICK s \in 0 .. 8 : \E j \in 0 .. 14 : j \in words[s] /\ p = Cell(s, j) BY <1>1
  <2>2. PICK j \in 0 .. 14 : j \in words[s] /\ p = Cell(s, j) BY <2>1
  <2> QED BY <2>2 DEF Cell
<1>3. ASSUME NEW r \in 0 .. 12, NEW i \in 0 .. 14, Cell(r, i) \in Rows(words)
      PROVE  r \in 0 .. 8 /\ i \in words[r]
  <2>1. PICK s \in 0 .. 8 : \E j \in 0 .. 14 : j \in words[s] /\ Cell(r, i) = Cell(s, j)
    BY <1>1, <1>3
  <2>2. PICK j \in 0 .. 14 : j \in words[s] /\ Cell(r, i) = Cell(s, j) BY <2>1
  <2>3. r \in Int /\ s \in Int OBVIOUS
  <2>4. r = s /\ i = j BY <2>2, <2>3, SameCell
  <2> QED BY <2>2, <2>4
<1>4. ASSUME NEW r \in 0 .. 8, NEW i \in words[r] PROVE Cell(r, i) \in Rows(words)
  <2>1. i \in 0 .. 14 /\ r \in 0 .. 12 BY <1>4
  <2>2. Cell(r, i) = Row(r)[i] BY <2>1, RowIs
  <2>3. Cell(r, i) \in {Row(r)[j] : j \in words[r]} BY <2>2
  <2> QED BY <2>3 DEF Rows
<1> QED BY <1>2, <1>3, <1>4

LEMMA ColumnsMember ==
  ASSUME NEW words, DOMAIN words = 0 .. 14, \A c \in 0 .. 14 : words[c] \subseteq 0 .. 12
  PROVE  /\ Columns(words) \subseteq 1 .. 195
         /\ \A k \in 0 .. 12 : \A c \in 0 .. 14 : Cell(k, c) \in Columns(words) <=> k \in words[c]
<1>1. ASSUME NEW p \in Columns(words)
      PROVE  \E d \in 0 .. 14 : \E j \in 0 .. 12 : j \in words[d] /\ p = Cell(j, d)
  <2>1. PICK d \in 0 .. 14 : p \in {Column(d)[j] : j \in words[d]} BY <1>1 DEF Columns
  <2>2. PICK j \in words[d] : p = Column(d)[j] BY <2>1
  <2>3. j \in 0 .. 12 BY <2>2
  <2>4. p = Cell(j, d) BY <2>2, <2>3, ColumnIs
  <2> QED BY <2>2, <2>3, <2>4
<1>2. ASSUME NEW p \in Columns(words) PROVE p \in 1 .. 195
  <2>1. PICK d \in 0 .. 14 : \E j \in 0 .. 12 : j \in words[d] /\ p = Cell(j, d) BY <1>1
  <2>2. PICK j \in 0 .. 12 : j \in words[d] /\ p = Cell(j, d) BY <2>1
  <2> QED BY <2>2 DEF Cell
<1>3. ASSUME NEW k \in 0 .. 12, NEW c \in 0 .. 14, Cell(k, c) \in Columns(words)
      PROVE  k \in words[c]
  <2>1. PICK d \in 0 .. 14 : \E j \in 0 .. 12 : j \in words[d] /\ Cell(k, c) = Cell(j, d)
    BY <1>1, <1>3
  <2>2. PICK j \in 0 .. 12 : j \in words[d] /\ Cell(k, c) = Cell(j, d) BY <2>1
  <2>3. k \in Int /\ j \in Int OBVIOUS
  <2>4. k = j /\ c = d BY <2>2, <2>3, SameCell
  <2> QED BY <2>2, <2>4
<1>4. ASSUME NEW c \in 0 .. 14, NEW k \in words[c] PROVE Cell(k, c) \in Columns(words)
  <2>1. k \in 0 .. 12 BY <1>4
  <2>2. Cell(k, c) = Column(c)[k] BY <2>1, ColumnIs
  <2>3. Cell(k, c) \in {Column(c)[j] : j \in words[c]} BY <2>2
  <2> QED BY <2>3 DEF Columns
<1> QED BY <1>2, <1>3, <1>4

\* Two sets of cells are the same if they agree cell by cell.
LEMMA SameCells ==
  ASSUME NEW A, A \subseteq 1 .. 195, NEW B, B \subseteq 1 .. 195,
         \A r \in 0 .. 12 : \A i \in 0 .. 14 : Cell(r, i) \in A <=> Cell(r, i) \in B
  PROVE  A = B
<1>1. ASSUME NEW p \in 1 .. 195 PROVE p \in A <=> p \in B
  <2>1. PICK r \in 0 .. 12, i \in 0 .. 14 : p = Cell(r, i) BY CellOf
  <2> QED BY <2>1
<1> QED BY <1>1

--------------------------------------------------------------------------------
(* What the encoder sends. *)

DataCells(D) == {DataPositions[i] : i \in D}
RowWord(D, r) == HammingEncode(Hamming_15_11, Pick(DataCells(D), Row(r)))
CodedRows(D) == Rows([r \in 0 .. 8 |-> RowWord(D, r)])
ColumnWord(D, c) == HammingEncode(Hamming_13_9, Pick(CodedRows(D), Column(c)))
Matrix(D) == Columns([c \in 0 .. 14 |-> ColumnWord(D, c)])

LEMMA EncodesMatrix == ASSUME NEW D PROVE BptcEncode(D) = {AirPosition[p] : p \in Matrix(D)}
BY DEF BptcEncode, Matrix, ColumnWord, CodedRows, RowWord, DataCells

\* The cell of data bit i.
DataRow(i) == IF i < 8 THEN 0 ELSE 1 + ((i - 8) \div 11)
DataColumn(i) == IF i < 8 THEN 3 + i ELSE (i - 8) % 11

LEMMA DataCell ==
  ASSUME NEW i \in 0 .. 95
  PROVE  /\ DataPositions[i] = Cell(DataRow(i), DataColumn(i))
         /\ DataRow(i) \in 0 .. 8 /\ DataColumn(i) \in 0 .. 10
<1>1. DataPositions[i] = IF i < 8 THEN 4 + i ELSE 16 + 15 * ((i - 8) \div 11) + ((i - 8) % 11)
  BY DEF DataPositions
<1>2. CASE i < 8 BY <1>1, <1>2 DEF Cell, DataRow, DataColumn
<1>3. CASE ~(i < 8)
  <2> DEFINE q == (i - 8) \div 11
             m == (i - 8) % 11
  <2>1. q \in 0 .. 7 /\ m \in 0 .. 10 BY <1>3, SMT
  <2>2. DataPositions[i] = 16 + 15 * q + m /\ DataRow(i) = 1 + q /\ DataColumn(i) = m
    BY <1>1, <1>3 DEF DataRow, DataColumn
  <2> HIDE DEF q, m
  <2> QED BY <2>1, <2>2 DEF Cell
<1> QED BY <1>2, <1>3

LEMMA DataApart ==
  ASSUME NEW i \in 0 .. 95, NEW j \in 0 .. 95, DataPositions[i] = DataPositions[j]
  PROVE  i = j
<1>1. DataRow(i) = DataRow(j) /\ DataColumn(i) = DataColumn(j)
  <2>1. /\ Cell(DataRow(i), DataColumn(i)) = Cell(DataRow(j), DataColumn(j))
        /\ DataRow(i) \in 0 .. 8 /\ DataColumn(i) \in 0 .. 10
        /\ DataRow(j) \in 0 .. 8 /\ DataColumn(j) \in 0 .. 10
    BY DataCell
  <2> QED BY <2>1 DEF Cell
<1>2. ASSUME NEW k \in 0 .. 95
      PROVE  /\ k < 8 => DataRow(k) = 0 /\ DataColumn(k) = 3 + k
             /\ ~(k < 8) => DataRow(k) >= 1 /\ k - 8 = 11 * (DataRow(k) - 1) + DataColumn(k)
  <2>1. CASE k < 8 BY <2>1 DEF DataRow, DataColumn
  <2>2. CASE ~(k < 8)
    <3>1. DataRow(k) = 1 + ((k - 8) \div 11) /\ DataColumn(k) = (k - 8) % 11
      BY <2>2 DEF DataRow, DataColumn
    <3>2. (k - 8) \div 11 >= 0 /\ k - 8 = 11 * ((k - 8) \div 11) + ((k - 8) % 11)
      BY <2>2, SMT
    <3>3. (k - 8) \div 11 \in Int /\ ((k - 8) % 11) \in Int BY SMT
    <3> QED BY <3>1, <3>2, <3>3, <2>2
  <2> QED BY <2>1, <2>2
<1>3. DataRow(i) \in Int /\ DataColumn(i) \in Int BY DataCell
<1> QED BY <1>1, <1>2, <1>3

LEMMA SyndromeRange ==
  ASSUME NEW code, code.checks \in Seq(SUBSET Nat), Len(code.checks) = 4, NEW E
  PROVE  Syndrome(code, E) \in 0 .. 15
<1>1. \A c \in 1 .. 4 : Fails(code, E, c) \in 0 .. 1 BY DEF Fails
<1>2. /\ Fails(code, E, 1) \in 0 .. 1 /\ Fails(code, E, 2) \in 0 .. 1
      /\ Fails(code, E, 3) \in 0 .. 1 /\ Fails(code, E, 4) \in 0 .. 1
  BY <1>1
<1> QED BY <1>2, SyndromeOfFour

\* Every syndrome of the rows names a bit; two of the columns' name none.
LEMMA Places15 == \A s \in 1 .. 15 : Hamming_15_11.pos[s] \in 0 .. 14
BY DEF Hamming_15_11

LEMMA Places13 == \A s \in 1 .. 15 : Hamming_13_9.pos[s] \in (0 .. 12) \cup {None}
BY DEF Hamming_13_9, None

LEMMA Corrected15 ==
  ASSUME NEW E, E \subseteq 0 .. 14
  PROVE  HammingCorrect(Hamming_15_11, E) \subseteq 0 .. 14 /\ HammingCorrect(Hamming_15_11, E) # HammingError
<1> DEFINE code == Hamming_15_11
           s == Syndrome(code, E)
<1>1. s \in 0 .. 15 BY Codes15, SyndromeRange
<1>2. s # 0 => code.pos[s] \in 0 .. 14 BY <1>1, Places15
<1>3. HammingCorrect(code, E) =
        IF s = 0 THEN E ELSE IF code.pos[s] = None THEN HammingError ELSE SymDiff(E, {code.pos[s]})
  BY DEF HammingCorrect
<1> HIDE DEF code, s
<1>4. HammingCorrect(code, E) \subseteq 0 .. 14
  <2>1. CASE s = 0 BY <2>1, <1>3
  <2>2. CASE s # 0
    <3>1. HammingCorrect(code, E) = SymDiff(E, {code.pos[s]}) BY <2>2, <1>2, <1>3 DEF None
    <3> QED BY <3>1, <2>2, <1>2 DEF SymDiff
  <2> QED BY <2>1, <2>2
<1>5. HammingCorrect(code, E) # HammingError BY <1>4 DEF HammingError, None
<1> QED BY <1>4, <1>5 DEF code

LEMMA Corrected13 ==
  ASSUME NEW E, E \subseteq 0 .. 12, HammingCorrect(Hamming_13_9, E) # HammingError
  PROVE  HammingCorrect(Hamming_13_9, E) \subseteq 0 .. 12
<1> DEFINE code == Hamming_13_9
           s == Syndrome(code, E)
<1>1. s \in 0 .. 15 BY Codes13, SyndromeRange
<1>2. s # 0 => code.pos[s] \in (0 .. 12) \cup {None} BY <1>1, Places13
<1>3. HammingCorrect(code, E) =
        IF s = 0 THEN E ELSE IF code.pos[s] = None THEN HammingError ELSE SymDiff(E, {code.pos[s]})
  BY DEF HammingCorrect
<1>0. HammingCorrect(code, E) # HammingError OBVIOUS
<1> HIDE DEF code, s
<1>4. CASE s = 0 BY <1>4, <1>3 DEF code
<1>5. CASE s # 0
  <2>1. code.pos[s] # None BY <1>0, <1>3, <1>5
  <2>2. HammingCorrect(code, E) = SymDiff(E, {code.pos[s]}) BY <1>3, <1>5, <2>1
  <2>3. code.pos[s] \in 0 .. 12 BY <1>2, <1>5, <2>1
  <2>4. HammingCorrect(code, E) \subseteq 0 .. 12 BY <2>2, <2>3 DEF SymDiff
  <2> QED BY <2>4 DEF code
<1> QED BY <1>4, <1>5

LEMMA Words15 ==
  ASSUME NEW D, D \subseteq 0 .. 10
  PROVE  /\ HammingEncode(Hamming_15_11, D) \subseteq 0 .. 14
         /\ IsFiniteSet(HammingEncode(Hamming_15_11, D))
         /\ HammingEncode(Hamming_15_11, D) \cap 0 .. 10 = D
<1>1. IsCode(Hamming_15_11) /\ Hamming_15_11.k = 11 /\ Len(Hamming_15_11.checks) = 4
  BY AreCodes, Codes15
<1> DEFINE code == Hamming_15_11
<1> HIDE DEF code
<1>2. D \subseteq 0 .. code.k - 1 /\ 0 .. code.k - 1 = 0 .. 10 BY <1>1 DEF code
<1>3. \A n \in Nat : code.k + Len(code.checks) = n + 1 =>
        /\ HammingEncode(code, D) \subseteq 0 .. n
        /\ IsFiniteSet(HammingEncode(code, D))
        /\ HammingEncode(code, D) \cap 0 .. code.k - 1 = D
  BY <1>1, <1>2, HammingWithin DEF code
<1>4. code.k + Len(code.checks) = 14 + 1 BY <1>1 DEF code
<1> QED BY <1>2, <1>3, <1>4 DEF code

LEMMA Words13 ==
  ASSUME NEW D, D \subseteq 0 .. 8
  PROVE  /\ HammingEncode(Hamming_13_9, D) \subseteq 0 .. 12
         /\ IsFiniteSet(HammingEncode(Hamming_13_9, D))
         /\ HammingEncode(Hamming_13_9, D) \cap 0 .. 8 = D
<1>1. IsCode(Hamming_13_9) /\ Hamming_13_9.k = 9 /\ Len(Hamming_13_9.checks) = 4
  BY AreCodes, Codes13
<1> DEFINE code == Hamming_13_9
<1> HIDE DEF code
<1>2. D \subseteq 0 .. code.k - 1 /\ 0 .. code.k - 1 = 0 .. 8 BY <1>1 DEF code
<1>3. \A n \in Nat : code.k + Len(code.checks) = n + 1 =>
        /\ HammingEncode(code, D) \subseteq 0 .. n
        /\ IsFiniteSet(HammingEncode(code, D))
        /\ HammingEncode(code, D) \cap 0 .. code.k - 1 = D
  BY <1>1, <1>2, HammingWithin DEF code
<1>4. code.k + Len(code.checks) = 12 + 1 BY <1>1 DEF code
<1> QED BY <1>2, <1>3, <1>4 DEF code

\* Damage to a row of the matrix, and to a column.
LEMMA DamagedRow ==
  ASSUME NEW D, D \subseteq 0 .. 10, NEW E, E \subseteq 0 .. 14
  PROVE  HammingCorrect(Hamming_15_11, SymDiff(HammingEncode(Hamming_15_11, D), E)) =
           SymDiff(HammingEncode(Hamming_15_11, D), HammingCorrect(Hamming_15_11, E))
<1> DEFINE code == Hamming_15_11
<1>1. IsCode(code) /\ code.k = 11 BY AreCodes, Codes15
<1>2. /\ HammingEncode(code, D) \subseteq 0 .. 14 /\ IsFiniteSet(HammingEncode(code, D))
      /\ HammingCorrect(code, E) # HammingError
  BY Words15, Corrected15
<1>3. IsFiniteSet(E) /\ E \subseteq Nat
  <2>1. \A n \in Nat : E \subseteq 0 .. n => IsFiniteSet(E) BY WithinFinite
  <2> QED BY <2>1
<1> HIDE DEF code
<1>4. D \subseteq 0 .. code.k - 1 /\ HammingEncode(code, D) \subseteq Nat BY <1>1, <1>2
<1>5. HammingCorrect(code, SymDiff(HammingEncode(code, D), E)) =
        SymDiff(HammingEncode(code, D), HammingCorrect(code, E))
  BY <1>1, <1>2, <1>3, <1>4, CorrectOfDamage
<1> QED BY <1>5 DEF code

LEMMA DamagedColumn ==
  ASSUME NEW D, D \subseteq 0 .. 8, NEW E, E \subseteq 0 .. 12
  PROVE  /\ HammingCorrect(Hamming_13_9, SymDiff(HammingEncode(Hamming_13_9, D), E)) = HammingError <=>
              HammingCorrect(Hamming_13_9, E) = HammingError
         /\ HammingCorrect(Hamming_13_9, E) # HammingError =>
              HammingCorrect(Hamming_13_9, SymDiff(HammingEncode(Hamming_13_9, D), E)) =
                SymDiff(HammingEncode(Hamming_13_9, D), HammingCorrect(Hamming_13_9, E))
<1> DEFINE code == Hamming_13_9
<1>1. IsCode(code) /\ code.k = 9 BY AreCodes, Codes13
<1>2. HammingEncode(code, D) \subseteq 0 .. 12 /\ IsFiniteSet(HammingEncode(code, D)) BY Words13
<1>3. IsFiniteSet(E) /\ E \subseteq Nat
  <2>1. \A n \in Nat : E \subseteq 0 .. n => IsFiniteSet(E) BY WithinFinite
  <2> QED BY <2>1
<1> HIDE DEF code
<1>4. D \subseteq 0 .. code.k - 1 /\ HammingEncode(code, D) \subseteq Nat BY <1>1, <1>2
<1>5. /\ HammingCorrect(code, E) = HammingError =>
           HammingCorrect(code, SymDiff(HammingEncode(code, D), E)) = HammingError
      /\ HammingCorrect(code, E) # HammingError =>
           /\ HammingCorrect(code, SymDiff(HammingEncode(code, D), E)) =
                SymDiff(HammingEncode(code, D), HammingCorrect(code, E))
           /\ HammingCorrect(code, SymDiff(HammingEncode(code, D), E)) # HammingError
  BY <1>1, <1>2, <1>3, <1>4, CorrectOfDamage
<1> QED BY <1>5 DEF code

--------------------------------------------------------------------------------
\* The rows and the columns of what is sent.
LEMMA MatrixIs ==
  ASSUME NEW D, D \subseteq 0 .. 95
  PROVE  /\ Matrix(D) \subseteq 1 .. 195
         /\ \A r \in 0 .. 8 : Pick(DataCells(D), Row(r)) \subseteq 0 .. 10
         /\ \A c \in 0 .. 14 : Pick(CodedRows(D), Column(c)) \subseteq 0 .. 8
         /\ \A r \in 0 .. 8 : \A i \in 0 .. 14 : Cell(r, i) \in Matrix(D) <=> i \in RowWord(D, r)
         /\ \A k \in 0 .. 12 : \A c \in 0 .. 14 : Cell(k, c) \in Matrix(D) <=> k \in ColumnWord(D, c)
<1>1. ASSUME NEW r \in 0 .. 8, NEW i \in Pick(DataCells(D), Row(r)) PROVE i \in 0 .. 10
  <2>1. r \in 0 .. 12 OBVIOUS
  <2>2. i \in 0 .. 14 /\ Cell(r, i) \in DataCells(D) BY <2>1, RowPick
  <2>3. PICK j \in D : Cell(r, i) = DataPositions[j] BY <2>2 DEF DataCells
  <2>4. j \in 0 .. 95 OBVIOUS
  <2>5. Cell(r, i) = Cell(DataRow(j), DataColumn(j)) /\ DataRow(j) \in 0 .. 8 /\ DataColumn(j) \in 0 .. 10
    BY <2>3, <2>4, DataCell
  <2> QED BY <2>2, <2>5 DEF Cell
<1>2. ASSUME NEW r \in 0 .. 8 PROVE RowWord(D, r) \subseteq 0 .. 14
  BY <1>1, Words15 DEF RowWord
<1> DEFINE rows == [r \in 0 .. 8 |-> RowWord(D, r)]
           columns == [c \in 0 .. 14 |-> ColumnWord(D, c)]
<1>3. /\ CodedRows(D) \subseteq 1 .. 135
      /\ \A r \in 0 .. 12 : \A i \in 0 .. 14 :
           Cell(r, i) \in CodedRows(D) <=> r \in 0 .. 8 /\ i \in RowWord(D, r)
  <2>1. CodedRows(D) = Rows(rows) /\ DOMAIN rows = 0 .. 8 /\ \A r \in 0 .. 8 : rows[r] = RowWord(D, r)
    BY DEF CodedRows
  <2> HIDE DEF rows
  <2> QED BY <1>2, <2>1, RowsMember
<1>4. ASSUME NEW c \in 0 .. 14, NEW k \in Pick(CodedRows(D), Column(c)) PROVE k \in 0 .. 8
  <2>1. k \in 0 .. 12 /\ Cell(k, c) \in CodedRows(D) BY ColumnPick
  <2> QED BY <2>1, <1>3
<1>5. ASSUME NEW c \in 0 .. 14
      PROVE  /\ ColumnWord(D, c) \subseteq 0 .. 12
             /\ ColumnWord(D, c) \cap 0 .. 8 = Pick(CodedRows(D), Column(c))
  BY <1>4, Words13 DEF ColumnWord
<1>6. /\ Matrix(D) \subseteq 1 .. 195
      /\ \A k \in 0 .. 12 : \A c \in 0 .. 14 : Cell(k, c) \in Matrix(D) <=> k \in ColumnWord(D, c)
  <2>1. Matrix(D) = Columns(columns) /\ DOMAIN columns = 0 .. 14 /\ \A c \in 0 .. 14 : columns[c] = ColumnWord(D, c)
    BY DEF Matrix
  <2> HIDE DEF columns
  <2> QED BY <1>5, <2>1, ColumnsMember
<1>7. ASSUME NEW r \in 0 .. 8, NEW i \in 0 .. 14
      PROVE  Cell(r, i) \in Matrix(D) <=> i \in RowWord(D, r)
  <2>1. r \in 0 .. 12 OBVIOUS
  <2>2. Cell(r, i) \in Matrix(D) <=> r \in ColumnWord(D, i) BY <2>1, <1>6
  <2>3. r \in ColumnWord(D, i) <=> r \in Pick(CodedRows(D), Column(i)) BY <1>5
  <2>4. r \in Pick(CodedRows(D), Column(i)) <=> Cell(r, i) \in CodedRows(D) BY <2>1, ColumnPick
  <2> QED BY <2>1, <2>2, <2>3, <2>4, <1>3
<1> QED BY <1>1, <1>4, <1>6, <1>7

\* The data is found where it was put.
LEMMA DataBack ==
  ASSUME NEW D, D \subseteq 0 .. 95 PROVE Pick(Matrix(D), DataPositions) = D
<1>1. ASSUME NEW i \in 0 .. 95 PROVE DataPositions[i] \in Matrix(D) <=> i \in D
  <2> DEFINE r == DataRow(i)
             j == DataColumn(i)
  <2>1. DataPositions[i] = Cell(r, j) /\ r \in 0 .. 8 /\ j \in 0 .. 10 BY DataCell
  <2> HIDE DEF r, j
  <2>2. Cell(r, j) \in Matrix(D) <=> j \in RowWord(D, r)
    <3>1. \A q \in 0 .. 8 : \A m \in 0 .. 14 : Cell(q, m) \in Matrix(D) <=> m \in RowWord(D, q)
      BY MatrixIs
    <3>2. j \in 0 .. 14 BY <2>1
    <3> QED BY <3>1, <3>2, <2>1
  <2>3. RowWord(D, r) \cap 0 .. 10 = Pick(DataCells(D), Row(r))
    BY <2>1, MatrixIs, Words15 DEF RowWord
  <2>4. j \in Pick(DataCells(D), Row(r)) <=> Cell(r, j) \in DataCells(D) BY <2>1, RowPick
  <2>5. DataPositions[i] \in DataCells(D) <=> i \in D
    <3>1. i \in D => DataPositions[i] \in DataCells(D) BY DEF DataCells
    <3>2. ASSUME DataPositions[i] \in DataCells(D) PROVE i \in D
      <4>1. PICK m \in D : DataPositions[i] = DataPositions[m] BY <3>2 DEF DataCells
      <4>2. m \in 0 .. 95 OBVIOUS
      <4>3. i = m BY <4>1, <4>2, DataApart
      <4> QED BY <4>3
    <3> QED BY <3>1, <3>2
  <2> QED BY <2>1, <2>2, <2>3, <2>4, <2>5
<1>2. DOMAIN DataPositions = 0 .. 95 BY DEF DataPositions
<1> QED BY <1>1, <1>2 DEF Pick

\* Interleaving loses no bit.
LEMMA AirApart ==
  ASSUME NEW p \in 0 .. 195, NEW q \in 0 .. 195, AirPosition[p] = AirPosition[q]
  PROVE  p = q
<1>1. AirPosition[p] = (p * 181) % 196 /\ AirPosition[q] = (q * 181) % 196 BY DEF AirPosition
<1>2. ASSUME NEW n \in 0 .. 195
      PROVE  \E m \in Int : n * 181 = 196 * m + ((n * 181) % 196)
  <2>1. n * 181 = 196 * ((n * 181) \div 196) + ((n * 181) % 196) /\ (n * 181) \div 196 \in Int BY SMT
  <2> QED BY <2>1
<1>3. PICK a \in Int : p * 181 = 196 * a + ((p * 181) % 196) BY <1>2, ZenonT(60)
<1>4. PICK b \in Int : q * 181 = 196 * b + ((q * 181) % 196) BY <1>2, ZenonT(60)
<1>5. p * 181 - 196 * a = q * 181 - 196 * b
  <2> DEFINE x == (p * 181) % 196
             y == (q * 181) % 196
  <2>1. x = y BY <1>1
  <2>2. x \in Int /\ y \in Int BY SMT
  <2>3. p * 181 = 196 * a + x /\ q * 181 = 196 * b + y BY <1>3, <1>4
  <2> HIDE DEF x, y
  <2> QED BY <2>1, <2>2, <2>3
<1>6. p - q = 196 * (13 * (a - b) - 12 * (p - q)) BY <1>5
<1>7. ASSUME NEW k \in Int, p - q = 196 * k PROVE k = 0 BY <1>7
<1>8. 13 * (a - b) - 12 * (p - q) \in Int OBVIOUS
<1> QED BY <1>6, <1>7, <1>8

LEMMA ReceivedSum ==
  ASSUME NEW D, D \subseteq 0 .. 95, NEW e
  PROVE  /\ Received(SymDiff(BptcEncode(D), e)) = SymDiff(Matrix(D), Received(e))
         /\ Received(e) \subseteq 0 .. 195
<1>1. Matrix(D) \subseteq 1 .. 195 BY MatrixIs, ZenonT(60)
<1>2. BptcEncode(D) = {AirPosition[p] : p \in Matrix(D)} BY EncodesMatrix
<1>3. ASSUME NEW p \in 0 .. 195 PROVE AirPosition[p] \in BptcEncode(D) <=> p \in Matrix(D)
  <2>1. p \in Matrix(D) => AirPosition[p] \in BptcEncode(D) BY <1>2
  <2>2. ASSUME AirPosition[p] \in BptcEncode(D) PROVE p \in Matrix(D)
    <3>1. PICK q \in Matrix(D) : AirPosition[p] = AirPosition[q] BY <1>2, <2>2
    <3>2. q \in 0 .. 195 BY <1>1
    <3>3. p = q BY <3>1, <3>2, AirApart
    <3> QED BY <3>3
  <2> QED BY <2>1, <2>2
<1>4. ASSUME NEW p \in 0 .. 195
      PROVE  p \in Received(SymDiff(BptcEncode(D), e)) <=> p \in SymDiff(Matrix(D), Received(e))
  <2>1. p \in Received(SymDiff(BptcEncode(D), e)) <=> AirPosition[p] \in SymDiff(BptcEncode(D), e)
    BY DEF Received
  <2>2. p \in Received(e) <=> AirPosition[p] \in e BY DEF Received
  <2> QED BY <1>3, <2>1, <2>2, SymDiffMember
<1>5. Received(e) \subseteq 0 .. 195 /\ Received(SymDiff(BptcEncode(D), e)) \subseteq 0 .. 195
  BY DEF Received
<1>6. SymDiff(Matrix(D), Received(e)) \subseteq 0 .. 195 BY <1>1, <1>5 DEF SymDiff
<1> QED BY <1>4, <1>5, <1>6

\* The matrix with its rows corrected, cell by cell.
LEMMA CorrectedRow ==
  ASSUME NEW M, M \subseteq 0 .. 195
  PROVE  /\ CorrectRows(M) \subseteq 1 .. 195
         /\ \A r \in 0 .. 12 : \A i \in 0 .. 14 : Cell(r, i) \in CorrectRows(M) <=>
              IF r <= 8 THEN i \in HammingCorrect(Hamming_15_11, Pick(M, Row(r))) ELSE Cell(r, i) \in M
<1> DEFINE words == [r \in 0 .. 8 |-> HammingCorrect(Hamming_15_11, Pick(M, Row(r)))]
<1>1. CorrectRows(M) = Rows(words) \cup (M \cap 136 .. 195) BY DEF CorrectRows
<1>2. ASSUME NEW r \in 0 .. 8
      PROVE  words[r] = HammingCorrect(Hamming_15_11, Pick(M, Row(r))) /\ words[r] \subseteq 0 .. 14
  <2>1. Pick(M, Row(r)) \subseteq 0 .. 14
    <3>1. r \in 0 .. 12 OBVIOUS
    <3> QED BY <3>1, RowPick
  <2> QED BY <2>1, Corrected15
<1>3. DOMAIN words = 0 .. 8 OBVIOUS
<1> HIDE DEF words
<1>4. /\ Rows(words) \subseteq 1 .. 135
      /\ \A r \in 0 .. 12 : \A i \in 0 .. 14 : Cell(r, i) \in Rows(words) <=> r \in 0 .. 8 /\ i \in words[r]
  BY <1>2, <1>3, RowsMember
<1>5. CorrectRows(M) \subseteq 1 .. 195 BY <1>1, <1>4
<1>6. ASSUME NEW r \in 0 .. 12, NEW i \in 0 .. 14
      PROVE  Cell(r, i) \in CorrectRows(M) <=>
               IF r <= 8 THEN i \in HammingCorrect(Hamming_15_11, Pick(M, Row(r))) ELSE Cell(r, i) \in M
  <2>1. /\ r <= 8 <=> Cell(r, i) \in 1 .. 135
        /\ r > 8 <=> Cell(r, i) \in 136 .. 195
    BY CellRange, ZenonT(60)
  <2>2. CASE r <= 8
    <3>1. r \in 0 .. 8 /\ Cell(r, i) \notin 136 .. 195 BY <2>1, <2>2
    <3> QED BY <3>1, <2>2, <1>1, <1>2, <1>4
  <2>3. CASE ~(r <= 8)
    <3>1. r \notin 0 .. 8 /\ Cell(r, i) \in 136 .. 195 BY <2>1, <2>3
    <3> QED BY <3>1, <2>3, <1>1, <1>4
  <2> QED BY <2>2, <2>3
<1> QED BY <1>5, <1>6

LEMMA RowsOfDamage ==
  ASSUME NEW D, D \subseteq 0 .. 95, NEW E, E \subseteq 0 .. 195
  PROVE  CorrectRows(SymDiff(Matrix(D), E)) = SymDiff(Matrix(D), CorrectRows(E))
<1> DEFINE S == SymDiff(Matrix(D), E)
<1>1. Matrix(D) \subseteq 1 .. 195 BY MatrixIs, ZenonT(60)
<1>2. S \subseteq 0 .. 195
  <2>1. \A p : p \in S => p \in Matrix(D) \/ p \in E BY SymDiffMember
  <2>2. \A p \in 1 .. 195 : p \in 0 .. 195 OBVIOUS
  <2> HIDE DEF S
  <2> QED BY <2>1, <2>2, <1>1, ZenonT(60)
<1>3. CorrectRows(S) \subseteq 1 .. 195 /\ CorrectRows(E) \subseteq 1 .. 195
  <2>1. \A M \in SUBSET (0 .. 195) : CorrectRows(M) \subseteq 1 .. 195 BY CorrectedRow, ZenonT(60)
  <2>2. S \in SUBSET (0 .. 195) /\ E \in SUBSET (0 .. 195) BY <1>2
  <2> HIDE DEF S
  <2> QED BY <2>1, <2>2
<1>4. SymDiff(Matrix(D), CorrectRows(E)) \subseteq 1 .. 195 BY <1>1, <1>3 DEF SymDiff
<1>5. ASSUME NEW r \in 0 .. 12, NEW i \in 0 .. 14
      PROVE  Cell(r, i) \in CorrectRows(S) <=> Cell(r, i) \in SymDiff(Matrix(D), CorrectRows(E))
  <2>1. /\ Cell(r, i) \in CorrectRows(S) <=>
             IF r <= 8 THEN i \in HammingCorrect(Hamming_15_11, Pick(S, Row(r))) ELSE Cell(r, i) \in S
        /\ Cell(r, i) \in CorrectRows(E) <=>
             IF r <= 8 THEN i \in HammingCorrect(Hamming_15_11, Pick(E, Row(r))) ELSE Cell(r, i) \in E
    BY <1>2, CorrectedRow
  <2>2. CASE ~(r <= 8) BY <2>1, <2>2, SymDiffMember
  <2>3. CASE r <= 8
    <3> DEFINE H == HammingEncode(Hamming_15_11, Pick(DataCells(D), Row(r)))
               F == Pick(E, Row(r))
    <3>1. r \in 0 .. 8 BY <2>3
    <3>2. Pick(DataCells(D), Row(r)) \subseteq 0 .. 10 BY <3>1, MatrixIs
    <3>3. \A j \in 0 .. 14 : Cell(r, j) \in Matrix(D) <=> j \in H
      <4>1. \A q \in 0 .. 8 : \A m \in 0 .. 14 : Cell(q, m) \in Matrix(D) <=> m \in RowWord(D, q)
        BY MatrixIs
      <4> QED BY <4>1, <3>1 DEF RowWord
    <3>4. F \subseteq 0 .. 14 BY RowPick
    <3>5. H \subseteq 0 .. 14 BY <3>2, Words15
    <3>6. Pick(S, Row(r)) = SymDiff(H, F)
      <4>1. ASSUME NEW j \in 0 .. 14 PROVE j \in Pick(S, Row(r)) <=> j \in SymDiff(H, F)
        <5>1. j \in Pick(S, Row(r)) <=> Cell(r, j) \in S BY RowPick
        <5>2. j \in F <=> Cell(r, j) \in E BY RowPick
        <5>3. Cell(r, j) \in Matrix(D) <=> j \in H BY <3>3
        <5>4. Cell(r, j) \in S <=> ~(Cell(r, j) \in Matrix(D) <=> Cell(r, j) \in E) BY SymDiffMember
        <5>5. j \in SymDiff(H, F) <=> ~(j \in H <=> j \in F) BY SymDiffMember
        <5> HIDE DEF S, H, F
        <5> QED BY <5>1, <5>2, <5>3, <5>4, <5>5
      <4>2. Pick(S, Row(r)) \subseteq 0 .. 14 BY RowPick
      <4>3. SymDiff(H, F) \subseteq 0 .. 14
        <5> HIDE DEF H, F
        <5> QED BY <3>4, <3>5 DEF SymDiff
      <4> HIDE DEF S, H, F
      <4> QED BY <4>1, <4>2, <4>3
    <3>7. HammingCorrect(Hamming_15_11, SymDiff(H, F)) = SymDiff(H, HammingCorrect(Hamming_15_11, F))
      BY <3>2, <3>4, DamagedRow
    <3>8. i \in SymDiff(H, HammingCorrect(Hamming_15_11, F)) <=>
            ~(i \in H <=> i \in HammingCorrect(Hamming_15_11, F))
      BY SymDiffMember
    <3>9. Cell(r, i) \in SymDiff(Matrix(D), CorrectRows(E)) <=>
            ~(Cell(r, i) \in Matrix(D) <=> Cell(r, i) \in CorrectRows(E))
      BY SymDiffMember
    <3>10. Cell(r, i) \in Matrix(D) <=> i \in H BY <3>3
    <3> HIDE DEF S, H
    <3> QED BY <2>1, <2>3, <3>6, <3>7, <3>8, <3>9, <3>10
  <2> QED BY <2>2, <2>3
<1> HIDE DEF S
<1> QED BY <1>3, <1>4, <1>5, SameCells DEF S

\* The columns of a matrix, corrected, when none of them fails.
Fails13(M, c) == HammingCorrect(Hamming_13_9, Pick(M, Column(c))) = HammingError
CorrectedColumns(M) == Columns([c \in 0 .. 14 |-> HammingCorrect(Hamming_13_9, Pick(M, Column(c)))])

LEMMA CorrectColumnsIs ==
  ASSUME NEW M
  PROVE  CorrectColumns(M) = IF \E c \in 0 .. 14 : Fails13(M, c) THEN Uncorrectable
                             ELSE Pick(CorrectedColumns(M), DataPositions)
<1>1. ASSUME NEW c \in 0 .. 14
      PROVE  [d \in 0 .. 14 |-> HammingCorrect(Hamming_13_9, Pick(M, Column(d)))][c] =
               HammingCorrect(Hamming_13_9, Pick(M, Column(c)))
  OBVIOUS
<1> QED BY <1>1, Zenon DEF CorrectColumns, Fails13, CorrectedColumns

LEMMA DataWithin ==
  ASSUME NEW W
  PROVE  Pick(W, DataPositions) \subseteq 0 .. 95 /\ Pick(W, DataPositions) # Uncorrectable
<1>1. Pick(W, DataPositions) \subseteq 0 .. 95 BY DEF Pick, DataPositions
<1>2. -1 \notin 0 .. 95 OBVIOUS
<1> QED BY <1>1, <1>2 DEF Uncorrectable, None

LEMMA CorrectedColumn ==
  ASSUME NEW M, \A c \in 0 .. 14 : ~Fails13(M, c)
  PROVE  /\ CorrectedColumns(M) \subseteq 1 .. 195
         /\ \A k \in 0 .. 12 : \A c \in 0 .. 14 : Cell(k, c) \in CorrectedColumns(M) <=>
              k \in HammingCorrect(Hamming_13_9, Pick(M, Column(c)))
<1> DEFINE words == [c \in 0 .. 14 |-> HammingCorrect(Hamming_13_9, Pick(M, Column(c)))]
<1>1. CorrectedColumns(M) = Columns(words) BY DEF CorrectedColumns
<1>2. ASSUME NEW c \in 0 .. 14
      PROVE  /\ words[c] = HammingCorrect(Hamming_13_9, Pick(M, Column(c)))
             /\ words[c] \subseteq 0 .. 12
  <2>1. Pick(M, Column(c)) \subseteq 0 .. 12 BY ColumnPick
  <2>2. HammingCorrect(Hamming_13_9, Pick(M, Column(c))) # HammingError BY DEF Fails13
  <2> QED BY <2>1, <2>2, Corrected13
<1>3. DOMAIN words = 0 .. 14 OBVIOUS
<1> HIDE DEF words
<1>4. /\ Columns(words) \subseteq 1 .. 195
      /\ \A k \in 0 .. 12 : \A c \in 0 .. 14 : Cell(k, c) \in Columns(words) <=> k \in words[c]
  BY <1>2, <1>3, ColumnsMember
<1> QED BY <1>1, <1>2, <1>4

LEMMA PickSum ==
  ASSUME NEW A, NEW B, NEW line
  PROVE  Pick(SymDiff(A, B), line) = SymDiff(Pick(A, line), Pick(B, line))
<1>1. ASSUME NEW i PROVE i \in Pick(SymDiff(A, B), line) <=> i \in SymDiff(Pick(A, line), Pick(B, line))
  <2>1. \A W : i \in Pick(W, line) <=> i \in DOMAIN line /\ line[i] \in W BY DEF Pick
  <2> QED BY <2>1, SymDiffMember
<1> QED BY <1>1

LEMMA ColumnsOfDamage ==
  ASSUME NEW D, D \subseteq 0 .. 95, NEW F, F \subseteq 1 .. 195
  PROVE  CorrectColumns(SymDiff(Matrix(D), F)) =
           IF CorrectColumns(F) = Uncorrectable THEN Uncorrectable ELSE SymDiff(D, CorrectColumns(F))
<1> DEFINE S == SymDiff(Matrix(D), F)
<1>1. Matrix(D) \subseteq 1 .. 195 BY MatrixIs, ZenonT(60)
<1>2. ASSUME NEW c \in 0 .. 14
      PROVE  /\ Fails13(S, c) <=> Fails13(F, c)
             /\ ~Fails13(F, c) => HammingCorrect(Hamming_13_9, Pick(S, Column(c))) =
                  SymDiff(ColumnWord(D, c), HammingCorrect(Hamming_13_9, Pick(F, Column(c))))
  <2> DEFINE H == HammingEncode(Hamming_13_9, Pick(CodedRows(D), Column(c)))
             G == Pick(F, Column(c))
  <2>1. Pick(CodedRows(D), Column(c)) \subseteq 0 .. 8 BY MatrixIs
  <2>2. G \subseteq 0 .. 12 BY ColumnPick
  <2>3. Pick(Matrix(D), Column(c)) = H
    <3>1. \A k \in 0 .. 12 : Cell(k, c) \in Matrix(D) <=> k \in H BY MatrixIs DEF ColumnWord
    <3>2. H \subseteq 0 .. 12 BY <2>1, Words13
    <3>3. \A k : k \in Pick(Matrix(D), Column(c)) <=> k \in 0 .. 12 /\ Cell(k, c) \in Matrix(D)
      BY ColumnPick
    <3> HIDE DEF H
    <3> QED BY <3>1, <3>2, <3>3, ZenonT(60)
  <2>4. Pick(S, Column(c)) = SymDiff(H, G) BY <2>3, PickSum
  <2>5. /\ HammingCorrect(Hamming_13_9, SymDiff(H, G)) = HammingError <=>
             HammingCorrect(Hamming_13_9, G) = HammingError
        /\ HammingCorrect(Hamming_13_9, G) # HammingError =>
             HammingCorrect(Hamming_13_9, SymDiff(H, G)) = SymDiff(H, HammingCorrect(Hamming_13_9, G))
    BY <2>1, <2>2, DamagedColumn
  <2>6. H = ColumnWord(D, c) BY DEF ColumnWord
  <2> HIDE DEF S, H
  <2> QED BY <2>4, <2>5, <2>6 DEF Fails13
<1>3. CASE \E c \in 0 .. 14 : Fails13(F, c)
  <2>1. \E c \in 0 .. 14 : Fails13(S, c)
    <3> HIDE DEF S
    <3> QED BY <1>2, <1>3
  <2> QED BY <2>1, <1>3, CorrectColumnsIs
<1>4. CASE \A c \in 0 .. 14 : ~Fails13(F, c)
  <2>1. \A c \in 0 .. 14 : ~Fails13(S, c)
    <3> HIDE DEF S
    <3> QED BY <1>2, <1>4
  <2>2. /\ CorrectColumns(S) = Pick(CorrectedColumns(S), DataPositions)
        /\ CorrectColumns(F) = Pick(CorrectedColumns(F), DataPositions)
    <3>1. ~(\E c \in 0 .. 14 : Fails13(S, c)) /\ ~(\E c \in 0 .. 14 : Fails13(F, c)) BY <2>1, <1>4
    <3> HIDE DEF S
    <3> QED BY <3>1, CorrectColumnsIs
  <2>3. CorrectedColumns(S) = SymDiff(Matrix(D), CorrectedColumns(F))
    <3>1. CorrectedColumns(S) \subseteq 1 .. 195 /\ CorrectedColumns(F) \subseteq 1 .. 195
      <4> HIDE DEF S
      <4> QED BY <2>1, <1>4, CorrectedColumn
    <3>2. SymDiff(Matrix(D), CorrectedColumns(F)) \subseteq 1 .. 195 BY <3>1, <1>1 DEF SymDiff
    <3>3. ASSUME NEW k \in 0 .. 12, NEW c \in 0 .. 14
          PROVE  Cell(k, c) \in CorrectedColumns(S) <=> Cell(k, c) \in SymDiff(Matrix(D), CorrectedColumns(F))
      <4> DEFINE X == HammingCorrect(Hamming_13_9, Pick(F, Column(c)))
                 H == ColumnWord(D, c)
      <4>1. Cell(k, c) \in CorrectedColumns(S) <=> k \in HammingCorrect(Hamming_13_9, Pick(S, Column(c)))
        <5> HIDE DEF S
        <5> QED BY <2>1, CorrectedColumn
      <4>2. Cell(k, c) \in CorrectedColumns(F) <=> k \in X BY <1>4, CorrectedColumn
      <4>3. HammingCorrect(Hamming_13_9, Pick(S, Column(c))) = SymDiff(H, X) BY <1>2, <1>4
      <4>4. Cell(k, c) \in Matrix(D) <=> k \in H BY MatrixIs
      <4>5. k \in SymDiff(H, X) <=> ~(k \in H <=> k \in X) BY SymDiffMember
      <4>6. Cell(k, c) \in SymDiff(Matrix(D), CorrectedColumns(F)) <=>
              ~(Cell(k, c) \in Matrix(D) <=> Cell(k, c) \in CorrectedColumns(F))
        BY SymDiffMember
      <4> HIDE DEF S, X, H
      <4> QED BY <4>1, <4>2, <4>3, <4>4, <4>5, <4>6
    <3> HIDE DEF S
    <3> QED BY <3>1, <3>2, <3>3, SameCells
  <2>4. CorrectColumns(S) = SymDiff(D, CorrectColumns(F))
    <3>1. Pick(CorrectedColumns(S), DataPositions) =
            SymDiff(Pick(Matrix(D), DataPositions), Pick(CorrectedColumns(F), DataPositions))
      BY <2>3, PickSum
    <3> HIDE DEF S
    <3> QED BY <3>1, <2>2, DataBack
  <2>5. CorrectColumns(F) # Uncorrectable BY <2>2, DataWithin
  <2> QED BY <2>4, <2>5
<1> QED BY <1>3, <1>4

\* The decoder does to a word of the product code what it does to the damage.
LEMMA BptcOfDamage ==
  ASSUME NEW D, D \subseteq 0 .. 95, NEW e
  PROVE  LET left == CorrectColumns(CorrectRows(Received(e)))
         IN  /\ BptcDecode(SymDiff(BptcEncode(D), e)) =
                  IF left = Uncorrectable THEN Uncorrectable ELSE SymDiff(D, left)
             /\ left # Uncorrectable => left \subseteq 0 .. 95
<1> DEFINE E == Received(e)
           F == CorrectRows(E)
<1>1. Received(SymDiff(BptcEncode(D), e)) = SymDiff(Matrix(D), E) /\ E \subseteq 0 .. 195
  BY ReceivedSum, ZenonT(60)
<1>2. CorrectRows(SymDiff(Matrix(D), E)) = SymDiff(Matrix(D), F) /\ F \subseteq 1 .. 195
  <2> HIDE DEF E
  <2> QED BY <1>1, RowsOfDamage, CorrectedRow, ZenonT(60)
<1>3. BptcDecode(SymDiff(BptcEncode(D), e)) = CorrectColumns(SymDiff(Matrix(D), F))
  BY <1>1, <1>2 DEF BptcDecode
<1>4. CorrectColumns(SymDiff(Matrix(D), F)) =
        IF CorrectColumns(F) = Uncorrectable THEN Uncorrectable ELSE SymDiff(D, CorrectColumns(F))
  <2> HIDE DEF F
  <2> QED BY <1>2, ColumnsOfDamage
<1>5. CorrectColumns(F) # Uncorrectable => CorrectColumns(F) \subseteq 0 .. 95
  <2> HIDE DEF F
  <2> QED BY CorrectColumnsIs, DataWithin
<1> QED BY <1>3, <1>4, <1>5

--------------------------------------------------------------------------------
(* The Reed-Solomon code: what a syndrome is, and that it is linear. *)

Up(x, i) == gmult(x, EXP[i])

\* What TLC finds of the tables.
LEMMA Tables ==
  ASSUME NEW b \in Byte, NEW i \in 1 .. 3
  PROVE  /\ Up(b, i) = Span(Multiples(EXP[i]), b)
         /\ Up(b, i) \in Byte /\ gmult(POLY[i], b) \in Byte
         /\ Up(Up(Up(b, i), i), i) =
              SymDiff(Up(Up(gmult(POLY[3], b), i), i),
                      SymDiff(Up(gmult(POLY[2], b), i), gmult(POLY[1], b)))
BY FieldTables, Zenon DEF Up

LEMMA ByteSum == \A a \in Byte, b \in Byte : SymDiff(a, b) \in Byte
BY DEF Byte, SymDiff

LEMMA UpSum ==
  ASSUME NEW a \in Byte, NEW b \in Byte, NEW i \in 1 .. 3
  PROVE  Up(SymDiff(a, b), i) = SymDiff(Up(a, i), Up(b, i))
<1> DEFINE rows == Multiples(EXP[i])
<1>1. Len(rows) = 8 BY DEF Multiples
<1>2. a \subseteq 0 .. Len(rows) - 1 /\ b \subseteq 0 .. Len(rows) - 1 /\ Len(rows) \in Nat
  BY <1>1 DEF Byte
<1>3. Span(rows, SymDiff(a, b)) = SymDiff(Span(rows, a), Span(rows, b))
  <2> HIDE DEF rows
  <2> QED BY <1>2, SpanSum
<1>4. Up(SymDiff(a, b), i) = Span(rows, SymDiff(a, b)) BY ByteSum, Tables
<1>5. Up(a, i) = Span(rows, a) /\ Up(b, i) = Span(rows, b) BY Tables
<1> QED BY <1>3, <1>4, <1>5

\* v is the value of the word at alpha^i, byte by byte.
Evaluates(v, cw, i, n) ==
  /\ v \in [0 .. n -> Byte]
  /\ v[0] = {}
  /\ \A j \in 1 .. n : v[j] = SymDiff(Up(v[j - 1], i), cw[j])

LEMMA SyndromeIs ==
  ASSUME NEW cw, NEW n \in Nat, Len(cw) = n, NEW i \in 1 .. 3, NEW v, Evaluates(v, cw, i, n)
  PROVE  RsSyndromes(cw)[i] = v[n]
<1> DEFINE Step(f) == [j \in 0 .. Len(cw) |->
             IF j = 0 THEN {} ELSE SymDiff(gmult(f[j - 1], EXP[i]), cw[j])]
           g == CHOOSE f : f = Step(f)
<1>1. RsSyndromes(cw)[i] = g[Len(cw)] BY DEF RsSyndromes
<1>2. v = Step(v)
  <2>1. v = [j \in 0 .. n |-> v[j]] BY DEF Evaluates
  <2>2. ASSUME NEW j \in 0 .. n
        PROVE  v[j] = IF j = 0 THEN {} ELSE SymDiff(gmult(v[j - 1], EXP[i]), cw[j])
    <3>1. CASE j = 0 BY <3>1 DEF Evaluates
    <3>2. CASE j # 0
      <4>1. j \in 1 .. n BY <3>2
      <4> QED BY <4>1, <3>2 DEF Evaluates, Up
    <3> QED BY <3>1, <3>2
  <2> QED BY <2>1, <2>2, Zenon
<1>3. g = Step(g)
  <2> HIDE DEF Step
  <2> QED BY <1>2
<1>4. ASSUME NEW j \in 0 .. n
      PROVE  g[j] = IF j = 0 THEN {} ELSE SymDiff(gmult(g[j - 1], EXP[i]), cw[j])
  <2>1. g[j] = Step(g)[j]
    <3> HIDE DEF Step, g
    <3> QED BY <1>3, Zenon
  <2> HIDE DEF g
  <2> QED BY <2>1
<1> HIDE DEF g, Step
<1>5. g[0] = v[0]
  <2>1. 0 \in 0 .. n OBVIOUS
  <2> QED BY <2>1, <1>4 DEF Evaluates
<1>6. ASSUME NEW j \in 1 .. n, g[j - 1] = v[j - 1] PROVE g[j] = v[j]
  <2>1. j \in 0 .. n /\ j # 0 OBVIOUS
  <2>2. v[j] = SymDiff(Up(v[j - 1], i), cw[j]) BY DEF Evaluates
  <2>3. g[j] = SymDiff(gmult(g[j - 1], EXP[i]), cw[j]) BY <2>1, <1>4
  <2> QED BY <2>2, <2>3, <1>6 DEF Up
<1>7. \A j \in 0 .. n : g[j] = v[j]
  <2>1. \A j \in 1 .. n : g[j - 1] = v[j - 1] => g[j] = v[j] BY <1>6
  <2> QED BY ONLY <1>5, <2>1, n \in Nat, SameRecursion
<1> QED BY <1>1, <1>7

LEMMA SyndromeEvaluates ==
  ASSUME NEW cw, NEW n \in Nat, Len(cw) = n, \A j \in 1 .. n : cw[j] \in Byte, NEW i \in 1 .. 3
  PROVE  \E v : Evaluates(v, cw, i, n) /\ RsSyndromes(cw)[i] = v[n]
<1> DEFINE Next1(j) == [x \in Byte |-> SymDiff(Up(x, i), cw[j])]
           G == [j \in 1 .. n |-> Next1(j)]
<1>1. ASSUME NEW j \in 1 .. n PROVE Next1(j) \in [Byte -> Byte]
  <2>1. ASSUME NEW x \in Byte PROVE SymDiff(Up(x, i), cw[j]) \in Byte BY Tables, ByteSum
  <2> QED BY <2>1
<1>2. G \in [1 .. n -> [Byte -> Byte]]
  <2> HIDE DEF Next1
  <2> QED BY <1>1
<1>3. PICK v : Recurs(v, n, Byte, {}, G)
  <2>1. {} \in Byte BY DEF Byte
  <2> HIDE DEF G
  <2> QED BY <1>2, <2>1, Recursion
<1>4. ASSUME NEW j \in 1 .. n PROVE v[j] = SymDiff(Up(v[j - 1], i), cw[j])
  <2>1. v[j - 1] \in Byte BY <1>3 DEF Recurs
  <2>2. v[j] = Next1(j)[v[j - 1]] BY <1>3 DEF Recurs
  <2> QED BY <2>1, <2>2
<1>5. Evaluates(v, cw, i, n) BY <1>3, <1>4 DEF Evaluates, Recurs
<1> QED BY <1>5, SyndromeIs

\* The syndromes of damage to a codeword are the damage's.
LEMMA SyndromesSum ==
  ASSUME NEW cw, NEW e, NEW d, NEW n \in Nat, Len(cw) = n, Len(e) = n, Len(d) = n,
         \A j \in 1 .. n : cw[j] \in Byte /\ e[j] \in Byte /\ d[j] = SymDiff(cw[j], e[j]),
         NEW i \in 1 .. 3
  PROVE  RsSyndromes(d)[i] = SymDiff(RsSyndromes(cw)[i], RsSyndromes(e)[i])
<1>1. PICK v : Evaluates(v, cw, i, n) /\ RsSyndromes(cw)[i] = v[n] BY SyndromeEvaluates
<1>2. PICK w : Evaluates(w, e, i, n) /\ RsSyndromes(e)[i] = w[n] BY SyndromeEvaluates
<1> DEFINE u == [j \in 0 .. n |-> SymDiff(v[j], w[j])]
<1>3. \A j \in 0 .. n : v[j] \in Byte /\ w[j] \in Byte BY <1>1, <1>2 DEF Evaluates
<1>4. u \in [0 .. n -> Byte] BY <1>3, ByteSum
<1>5. u[0] = {}
  <2>1. v[0] = {} /\ w[0] = {} /\ 0 \in 0 .. n BY <1>1, <1>2 DEF Evaluates
  <2> QED BY <2>1, SymDiffNone
<1>6. ASSUME NEW j \in 1 .. n PROVE u[j] = SymDiff(Up(u[j - 1], i), d[j])
  <2>1. j \in 0 .. n /\ j - 1 \in 0 .. n OBVIOUS
  <2>2. u[j] = SymDiff(v[j], w[j]) /\ u[j - 1] = SymDiff(v[j - 1], w[j - 1]) BY <2>1
  <2>3. /\ v[j] = SymDiff(Up(v[j - 1], i), cw[j])
        /\ w[j] = SymDiff(Up(w[j - 1], i), e[j])
    BY <1>1, <1>2 DEF Evaluates
  <2>4. Up(SymDiff(v[j - 1], w[j - 1]), i) = SymDiff(Up(v[j - 1], i), Up(w[j - 1], i))
    BY <2>1, <1>3, UpSum
  <2>5. d[j] = SymDiff(cw[j], e[j]) OBVIOUS
  <2>6. \A A, B, X, Y : SymDiff(SymDiff(A, X), SymDiff(B, Y)) = SymDiff(SymDiff(A, B), SymDiff(X, Y))
    BY DEF SymDiff
  <2> HIDE DEF u
  <2> QED BY <2>2, <2>3, <2>4, <2>5, <2>6
<1>7. Evaluates(u, d, i, n)
  <2> HIDE DEF u
  <2> QED BY <1>4, <1>5, <1>6 DEF Evaluates
<1>8. RsSyndromes(d)[i] = u[n]
  <2> HIDE DEF u
  <2> QED BY <1>7, SyndromeIs
<1>9. u[n] = SymDiff(v[n], w[n]) OBVIOUS
<1> QED BY <1>1, <1>2, <1>8, <1>9

\* The parity register takes one byte.
Triples == Byte \X Byte \X Byte
Shifted(p, byte) ==
  << gmult(POLY[1], SymDiff(byte, p[3])),
     SymDiff(p[1], gmult(POLY[2], SymDiff(byte, p[3]))),
     SymDiff(p[2], gmult(POLY[3], SymDiff(byte, p[3]))) >>

\* r is the register, byte by byte.
Registers(r, data, n) ==
  /\ r \in [0 .. n -> Triples]
  /\ r[0] = << {}, {}, {} >>
  /\ \A j \in 1 .. n : r[j] = Shifted(r[j - 1], data[j])

LEMMA ShiftedTriple ==
  ASSUME NEW p \in Triples, NEW byte \in Byte PROVE Shifted(p, byte) \in Triples
<1>1. p[1] \in Byte /\ p[2] \in Byte /\ p[3] \in Byte BY DEF Triples
<1> DEFINE d == SymDiff(byte, p[3])
<1>2. d \in Byte BY <1>1, ByteSum
<1>3. \A i \in 1 .. 3 : gmult(POLY[i], d) \in Byte
  <2> HIDE DEF d
  <2> QED BY <1>2, Tables
<1>4. gmult(POLY[1], d) \in Byte /\ gmult(POLY[2], d) \in Byte /\ gmult(POLY[3], d) \in Byte
  <2> HIDE DEF d
  <2> QED BY <1>3
<1>5. SymDiff(p[1], gmult(POLY[2], d)) \in Byte /\ SymDiff(p[2], gmult(POLY[3], d)) \in Byte
  <2> HIDE DEF d
  <2> QED BY <1>1, <1>4, ByteSum
<1>6. Shifted(p, byte) = << gmult(POLY[1], d), SymDiff(p[1], gmult(POLY[2], d)),
                            SymDiff(p[2], gmult(POLY[3], d)) >>
  BY DEF Shifted
<1> HIDE DEF d
<1> QED BY <1>4, <1>5, <1>6 DEF Triples

LEMMA ParityIs ==
  ASSUME NEW data, NEW n \in Nat, Len(data) = n, NEW r, Registers(r, data, n)
  PROVE  RsParity(data) = r[n]
<1> DEFINE Step(f) == [j \in 0 .. Len(data) |->
             IF j = 0 THEN << {}, {}, {} >> ELSE Shifted(f[j - 1], data[j])]
           g == CHOOSE f : f = Step(f)
<1>1. RsParity(data) = g[Len(data)] BY DEF RsParity, Shifted
<1>2. r = Step(r)
  <2>1. r = [j \in 0 .. n |-> r[j]] BY DEF Registers
  <2>2. ASSUME NEW j \in 0 .. n
        PROVE  r[j] = IF j = 0 THEN << {}, {}, {} >> ELSE Shifted(r[j - 1], data[j])
    <3>1. CASE j = 0 BY <3>1 DEF Registers
    <3>2. CASE j # 0
      <4>1. j \in 1 .. n BY <3>2
      <4> QED BY <4>1, <3>2 DEF Registers
    <3> QED BY <3>1, <3>2
  <2> QED BY <2>1, <2>2, Zenon
<1>3. g = Step(g)
  <2> HIDE DEF Step
  <2> QED BY <1>2
<1>4. ASSUME NEW j \in 0 .. n
      PROVE  g[j] = IF j = 0 THEN << {}, {}, {} >> ELSE Shifted(g[j - 1], data[j])
  <2>1. g[j] = Step(g)[j]
    <3> HIDE DEF Step, g
    <3> QED BY <1>3, Zenon
  <2> HIDE DEF g
  <2> QED BY <2>1
<1> HIDE DEF g, Step
<1>5. g[0] = r[0]
  <2>1. 0 \in 0 .. n OBVIOUS
  <2> QED BY <2>1, <1>4 DEF Registers
<1>6. ASSUME NEW j \in 1 .. n, g[j - 1] = r[j - 1] PROVE g[j] = r[j]
  <2>1. j \in 0 .. n /\ j # 0 OBVIOUS
  <2>2. r[j] = Shifted(r[j - 1], data[j]) BY DEF Registers
  <2>3. g[j] = Shifted(g[j - 1], data[j]) BY <2>1, <1>4
  <2> QED BY <2>2, <2>3, <1>6
<1>7. \A j \in 0 .. n : g[j] = r[j]
  <2>1. \A j \in 1 .. n : g[j - 1] = r[j - 1] => g[j] = r[j] BY <1>6
  <2> QED BY ONLY <1>5, <2>1, n \in Nat, SameRecursion
<1> QED BY <1>1, <1>7

LEMMA ParityRegisters ==
  ASSUME NEW data, NEW n \in Nat, Len(data) = n, \A j \in 1 .. n : data[j] \in Byte
  PROVE  \E r : Registers(r, data, n) /\ RsParity(data) = r[n]
<1> DEFINE Next1(j) == [p \in Triples |-> Shifted(p, data[j])]
           G == [j \in 1 .. n |-> Next1(j)]
<1>1. ASSUME NEW j \in 1 .. n PROVE Next1(j) \in [Triples -> Triples]
  <2>1. ASSUME NEW p \in Triples PROVE Shifted(p, data[j]) \in Triples BY ShiftedTriple
  <2> QED BY <2>1
<1>2. G \in [1 .. n -> [Triples -> Triples]]
  <2> HIDE DEF Next1
  <2> QED BY <1>1
<1>3. PICK r : Recurs(r, n, Triples, << {}, {}, {} >>, G)
  <2>1. << {}, {}, {} >> \in Triples BY DEF Byte, Triples
  <2> HIDE DEF G
  <2> QED BY <1>2, <2>1, Recursion
<1>4. ASSUME NEW j \in 1 .. n PROVE r[j] = Shifted(r[j - 1], data[j])
  <2>1. r[j - 1] \in Triples BY <1>3 DEF Recurs
  <2>2. r[j] = Next1(j)[r[j - 1]] BY <1>3 DEF Recurs
  <2> QED BY <2>1, <2>2
<1>5. Registers(r, data, n) BY <1>3, <1>4 DEF Registers, Recurs
<1> QED BY <1>5, ParityIs

--------------------------------------------------------------------------------
\* The register follows the value of the data at a root, three bytes on.
Follows(v, p, i) == Up(Up(Up(v, i), i), i) = SymDiff(Up(Up(p[3], i), i), SymDiff(Up(p[2], i), p[1]))

LEMMA FollowsStep ==
  ASSUME NEW v \in Byte, NEW p \in Triples, NEW byte \in Byte, NEW i \in 1 .. 3, Follows(v, p, i)
  PROVE  Follows(SymDiff(Up(v, i), byte), Shifted(p, byte), i)
<1> DEFINE d == SymDiff(byte, p[3])
           a == gmult(POLY[1], d)
           b == gmult(POLY[2], d)
           c == gmult(POLY[3], d)
           q == p[1]
           s == p[2]
           t == p[3]
<1>1. q \in Byte /\ s \in Byte /\ t \in Byte BY DEF Triples
<1>2. d \in Byte BY <1>1, ByteSum
<1>3. a \in Byte /\ b \in Byte /\ c \in Byte
  <2>1. \A k \in 1 .. 3 : gmult(POLY[k], d) \in Byte
    <3> HIDE DEF d
    <3> QED BY <1>2, Tables
  <2> HIDE DEF d
  <2> QED BY <2>1
<1>4. Up(Up(Up(d, i), i), i) = SymDiff(Up(Up(c, i), i), SymDiff(Up(b, i), a))
  <2> HIDE DEF d
  <2> QED BY <1>2, Tables
<1>5. /\ Shifted(p, byte)[1] = a
      /\ Shifted(p, byte)[2] = SymDiff(q, b)
      /\ Shifted(p, byte)[3] = SymDiff(s, c)
  BY DEF Shifted
<1>6. Up(Up(Up(v, i), i), i) = SymDiff(Up(Up(t, i), i), SymDiff(Up(s, i), q)) BY DEF Follows
<1>7. byte = SymDiff(d, t)
  <2>1. \A X, Y : SymDiff(SymDiff(X, Y), Y) = X BY DEF SymDiff
  <2> QED BY <2>1
<1> HIDE DEF d, a, b, c, q, s, t
<1>8. \A x \in Byte : Up(x, i) \in Byte BY Tables
<1>9. \A x \in Byte, y \in Byte : Up(SymDiff(x, y), i) = SymDiff(Up(x, i), Up(y, i)) BY UpSum
\* The value three bytes on ...
<1> DEFINE U(x) == Up(x, i)
<1>10. U(U(U(SymDiff(U(v), byte)))) = SymDiff(U(U(U(U(v)))), U(U(U(byte))))
  <2>1. U(v) \in Byte /\ U(U(v)) \in Byte /\ U(U(U(v))) \in Byte BY <1>8
  <2>2. U(byte) \in Byte /\ U(U(byte)) \in Byte BY <1>8
  <2>3. U(SymDiff(U(v), byte)) = SymDiff(U(U(v)), U(byte)) BY <2>1, <1>9
  <2>4. U(SymDiff(U(U(v)), U(byte))) = SymDiff(U(U(U(v))), U(U(byte))) BY <2>1, <2>2, <1>9
  <2>5. U(SymDiff(U(U(U(v))), U(U(byte)))) = SymDiff(U(U(U(U(v)))), U(U(U(byte)))) BY <2>1, <2>2, <1>9
  <2> HIDE DEF U
  <2> QED BY <2>3, <2>4, <2>5
<1>11. U(U(U(U(v)))) = SymDiff(U(U(U(t))), SymDiff(U(U(s)), U(q)))
  <2>1. U(t) \in Byte /\ U(U(t)) \in Byte /\ U(s) \in Byte BY <1>1, <1>8
  <2>2. SymDiff(U(s), q) \in Byte BY <2>1, <1>1, ByteSum
  <2>3. U(SymDiff(U(U(t)), SymDiff(U(s), q))) = SymDiff(U(U(U(t))), U(SymDiff(U(s), q)))
    BY <2>1, <2>2, <1>9
  <2>4. U(SymDiff(U(s), q)) = SymDiff(U(U(s)), U(q)) BY <2>1, <1>1, <1>9
  <2>5. U(U(U(v))) = SymDiff(U(U(t)), SymDiff(U(s), q)) BY <1>6
  <2> HIDE DEF U
  <2> QED BY <2>3, <2>4, <2>5
<1>12. U(U(U(byte))) = SymDiff(U(U(U(d))), U(U(U(t))))
  <2>1. U(d) \in Byte /\ U(U(d)) \in Byte /\ U(t) \in Byte /\ U(U(t)) \in Byte BY <1>1, <1>2, <1>8
  <2>2. U(SymDiff(d, t)) = SymDiff(U(d), U(t)) BY <1>1, <1>2, <1>9
  <2>3. U(SymDiff(U(d), U(t))) = SymDiff(U(U(d)), U(U(t))) BY <2>1, <1>9
  <2>4. U(SymDiff(U(U(d)), U(U(t)))) = SymDiff(U(U(U(d))), U(U(U(t)))) BY <2>1, <1>9
  <2> HIDE DEF U
  <2> QED BY <1>7, <2>2, <2>3, <2>4
\* ... and the register's.
<1>13. U(U(SymDiff(s, c))) = SymDiff(U(U(s)), U(U(c)))
  <2>1. U(s) \in Byte /\ U(c) \in Byte BY <1>1, <1>3, <1>8
  <2>2. U(SymDiff(s, c)) = SymDiff(U(s), U(c)) BY <1>1, <1>3, <1>9
  <2>3. U(SymDiff(U(s), U(c))) = SymDiff(U(U(s)), U(U(c))) BY <2>1, <1>9
  <2> HIDE DEF U
  <2> QED BY <2>2, <2>3
<1>14. U(SymDiff(q, b)) = SymDiff(U(q), U(b)) BY <1>1, <1>3, <1>9
<1>15. U(U(U(d))) = SymDiff(U(U(c)), SymDiff(U(b), a)) BY <1>4
<1>16. \A A, B, C, T, X, Y :
         SymDiff(SymDiff(T, SymDiff(X, Y)), SymDiff(SymDiff(A, SymDiff(B, C)), T)) =
         SymDiff(SymDiff(X, A), SymDiff(SymDiff(Y, B), C))
  BY DEF SymDiff
<1>17. U(U(U(SymDiff(U(v), byte)))) =
         SymDiff(U(U(SymDiff(s, c))), SymDiff(U(SymDiff(q, b)), a))
  <2> HIDE DEF U
  <2> QED BY <1>10, <1>11, <1>12, <1>13, <1>14, <1>15, <1>16
<1> QED BY <1>5, <1>17 DEF Follows

LEMMA UpNone == ASSUME NEW i PROVE Up({}, i) = {} BY DEF Up, gmult

\* What the encoder sends has no syndrome.
LEMMA CodewordSyndromes ==
  ASSUME NEW data, Len(data) = 9, \A j \in 1 .. 9 : data[j] \in Byte, NEW cw, Len(cw) = 12,
         \A j \in 1 .. 9 : cw[j] = data[j], \A j \in 1 .. 3 : cw[9 + j] = RsParity(data)[4 - j],
         NEW i \in 1 .. 3
  PROVE  RsParity(data) \in Triples /\ RsSyndromes(cw)[i] = {}
<1>1. PICK r : Registers(r, data, 9) /\ RsParity(data) = r[9]
  <2>1. \A n \in Nat : Len(data) = n /\ (\A j \in 1 .. n : data[j] \in Byte) =>
          \E r : Registers(r, data, n) /\ RsParity(data) = r[n]
    BY ParityRegisters, ZenonT(60)
  <2> QED BY <2>1
<1>2. \A j \in 0 .. 9 : r[j] \in Triples BY <1>1 DEF Registers
<1>3. RsParity(data) \in Triples BY <1>1, <1>2
<1> DEFINE p == RsParity(data)
<1>4. p[1] \in Byte /\ p[2] \in Byte /\ p[3] \in Byte BY <1>3 DEF Triples
<1>5. cw[10] = p[3] /\ cw[11] = p[2] /\ cw[12] = p[1]
  <2>1. \A j \in 1 .. 3 : cw[9 + j] = p[4 - j] OBVIOUS
  <2> HIDE DEF p
  <2> QED BY <2>1
<1> HIDE DEF p
<1>6. \A j \in 1 .. 12 : cw[j] \in Byte
  <2>1. \A j \in 1 .. 9 : cw[j] \in Byte OBVIOUS
  <2>2. \A j \in 1 .. 12 : j \in 1 .. 9 \/ j = 10 \/ j = 11 \/ j = 12 OBVIOUS
  <2> QED BY <2>1, <2>2, <1>4, <1>5
<1>7. PICK v : Evaluates(v, cw, i, 12) /\ RsSyndromes(cw)[i] = v[12]
  <2>1. PICK n \in Nat : n = 12 OBVIOUS
  <2>2. \E v : Evaluates(v, cw, i, n) /\ RsSyndromes(cw)[i] = v[n]
    <3>1. Len(cw) = n /\ \A j \in 1 .. n : cw[j] \in Byte BY <1>6, <2>1
    <3> QED BY ONLY <3>1, n \in Nat, i \in 1 .. 3, SyndromeEvaluates
  <2> QED BY <2>1, <2>2
<1>8. \A j \in 0 .. 12 : v[j] \in Byte BY <1>7 DEF Evaluates
<1> DEFINE T == {j \in 0 .. 9 : Follows(v[j], r[j], i)}
<1>9. 0 \in T
  <2>1. v[0] = {} /\ r[0] = << {}, {}, {} >> BY <1>1, <1>7 DEF Registers, Evaluates
  <2>2. Follows(v[0], r[0], i) BY <2>1, UpNone, SymDiffNone DEF Follows
  <2> QED BY <2>2
<1>10. ASSUME NEW j \in T, j < 9 PROVE j + 1 \in T
  <2>1. j \in 0 .. 12 /\ j \in 0 .. 9 /\ j + 1 \in 1 .. 9 /\ j + 1 \in 1 .. 12 /\ (j + 1) - 1 = j
    BY <1>10
  <2>2. v[j + 1] = SymDiff(Up(v[j], i), data[j + 1])
    <3>1. v[j + 1] = SymDiff(Up(v[(j + 1) - 1], i), cw[j + 1]) BY <1>7, <2>1 DEF Evaluates
    <3> QED BY <3>1, <2>1
  <2>3. r[j + 1] = Shifted(r[j], data[j + 1])
    <3>1. r[j + 1] = Shifted(r[(j + 1) - 1], data[j + 1]) BY <1>1, <2>1 DEF Registers
    <3> QED BY <3>1, <2>1
  <2>4. Follows(v[j], r[j], i) OBVIOUS
  <2>5. v[j] \in Byte /\ r[j] \in Triples /\ data[j + 1] \in Byte BY <2>1, <1>2, <1>8
  <2>6. Follows(v[j + 1], r[j + 1], i) BY <2>2, <2>3, <2>4, <2>5, FollowsStep
  <2> QED BY <2>1, <2>6
<1>11. T = 0 .. 9
  <2>1. T \subseteq 0 .. 9 OBVIOUS
  <2>2. \A w \in Nat : T \subseteq 0 .. w /\ (\A n \in T : n < w => n + 1 \in T) => T = 0 .. w
    <3> HIDE DEF T
    <3> QED BY <1>9, InductTo
  <2> HIDE DEF T
  <2> QED BY <2>1, <2>2, <1>10
<1>12. Follows(v[9], p, i)
  <2>1. 9 \in T
    <3> HIDE DEF T
    <3> QED BY <1>11
  <2> QED BY <2>1, <1>1 DEF p
<1> HIDE DEF T
<1> DEFINE U(x) == Up(x, i)
<1>13. U(U(U(v[9]))) = SymDiff(U(U(p[3])), SymDiff(U(p[2]), p[1])) BY <1>12 DEF Follows
<1>14. v[10] = SymDiff(U(v[9]), p[3]) /\ v[11] = SymDiff(U(v[10]), p[2]) /\ v[12] = SymDiff(U(v[11]), p[1])
  <2>1. \A j \in 1 .. 12 : v[j] = SymDiff(U(v[j - 1]), cw[j]) BY <1>7 DEF Evaluates
  <2> HIDE DEF U
  <2> QED BY <2>1, <1>5
<1>15. \A x \in Byte : U(x) \in Byte BY Tables
<1>16. \A x \in Byte, y \in Byte : U(SymDiff(x, y)) = SymDiff(U(x), U(y)) BY UpSum
<1> HIDE DEF U
<1>17. U(v[10]) = SymDiff(U(U(v[9])), U(p[3]))
  <2>1. v[9] \in Byte BY <1>8
  <2> QED BY <2>1, <1>4, <1>14, <1>15, <1>16
<1>18. U(v[11]) = SymDiff(SymDiff(U(U(U(v[9]))), U(U(p[3]))), U(p[2]))
  <2>1. v[9] \in Byte /\ v[10] \in Byte BY <1>8
  <2>2. U(v[10]) \in Byte /\ U(U(v[9])) \in Byte /\ U(p[3]) \in Byte BY <2>1, <1>4, <1>15
  <2>3. U(SymDiff(U(v[10]), p[2])) = SymDiff(U(U(v[10])), U(p[2])) BY <2>2, <1>4, <1>16
  <2>4. U(SymDiff(U(U(v[9])), U(p[3]))) = SymDiff(U(U(U(v[9]))), U(U(p[3]))) BY <2>2, <1>16
  <2> QED BY <2>3, <2>4, <1>14, <1>17
<1>19. v[12] = {}
  <2>1. \A A, B, C : SymDiff(SymDiff(SymDiff(SymDiff(A, SymDiff(B, C)), A), B), C) = {} BY DEF SymDiff
  <2> QED BY <2>1, <1>13, <1>14, <1>18
<1> QED BY <1>3, <1>7, <1>19 DEF p

--------------------------------------------------------------------------------
LEMMA ExpRange == ASSUME NEW n \in 0 .. 510 PROVE EXP[n] \in Byte /\ EXP[n] # {}
BY FieldTables

LEMMA LogRange == ASSUME NEW b \in Byte, b # {} PROVE LOG[b] \in 0 .. 254
BY FieldTables

LEMMA Quotient ==
  ASSUME NEW a \in Byte, NEW b \in Byte, b # {}
  PROVE  gdiv(a, b) \in Byte /\ (a # {} => gdiv(a, b) # {})
<1>1. CASE a = {} BY <1>1 DEF gdiv, Byte
<1>2. CASE a # {}
  <2>1. LOG[a] \in 0 .. 254 /\ LOG[b] \in 0 .. 254 BY <1>2, LogRange
  <2>2. LOG[a] + 255 - LOG[b] \in 0 .. 510
    <3>1. \A x \in 0 .. 254, y \in 0 .. 254 : x + 255 - y \in 0 .. 510 OBVIOUS
    <3> QED BY <2>1, <3>1, ZenonT(60)
  <2>3. gdiv(a, b) = EXP[LOG[a] + 255 - LOG[b]] BY <1>2 DEF gdiv
  <2> QED BY <2>2, <2>3, ExpRange, ZenonT(60)
<1> QED BY <1>1, <1>2

\* The repair does to a word what it does to the damage.
LEMMA RepairOfDamage ==
  ASSUME NEW cw, NEW d, NEW e, DOMAIN d = 1 .. 12, DOMAIN e = 1 .. 12,
         \A j \in 1 .. 12 : cw[j] \in Byte /\ e[j] \in Byte /\ d[j] = SymDiff(cw[j], e[j]),
         NEW s, \A j \in 1 .. 3 : s[j] \in Byte
  PROVE  /\ RsRepair(d, s).ok = RsRepair(e, s).ok
         /\ RsRepair(d, s).ok \in BOOLEAN
         /\ DOMAIN RsRepair(d, s).word = 1 .. 12
         /\ \A j \in 1 .. 12 : /\ RsRepair(d, s).word[j] \in Byte
                               /\ RsRepair(e, s).ok =>
                                    RsRepair(d, s).word[j] = SymDiff(cw[j], RsRepair(e, s).word[j])
<1> DEFINE none == s = << {}, {}, {} >>
           lost == s[1] = {} \/ s[2] = {} \/ gmult(s[1], s[3]) # gmult(s[2], s[2]) \/ RsPlace(s) >= 12
           at == 12 - RsPlace(s)
           by == gdiv(s[1], EXP[RsPlace(s)])
           Fixed(w) == [w EXCEPT ![at] = SymDiff(@, by)]
<1>1. \A w : RsRepair(w, s) = IF none THEN [ok |-> TRUE, word |-> w]
                              ELSE IF lost THEN [ok |-> FALSE, word |-> w]
                              ELSE [ok |-> TRUE, word |-> Fixed(w)]
  BY DEF RsRepair
<1>2. \A j \in 1 .. 12 : d[j] \in Byte BY ByteSum
<1>3. CASE none
  <2> HIDE DEF none, lost, Fixed
  <2>1. RsRepair(d, s) = [ok |-> TRUE, word |-> d] /\ RsRepair(e, s) = [ok |-> TRUE, word |-> e]
    BY <1>1, <1>3, Zenon
  <2> QED BY <2>1, <1>2
<1>4. CASE ~none /\ lost
  <2> HIDE DEF none, lost, Fixed
  <2>1. RsRepair(d, s) = [ok |-> FALSE, word |-> d] /\ RsRepair(e, s) = [ok |-> FALSE, word |-> e]
    BY <1>1, <1>4, Zenon
  <2> QED BY <2>1, <1>2
<1>5. CASE ~none /\ ~lost
  <2>1. s[1] \in Byte /\ s[2] \in Byte /\ s[1] # {} /\ s[2] # {} BY <1>5
  <2>2. RsPlace(s) \in 0 .. 254
    <3>1. gdiv(s[2], s[1]) \in Byte /\ gdiv(s[2], s[1]) # {} BY <2>1, Quotient
    <3> QED BY <3>1, LogRange DEF RsPlace
  <2>3. by \in Byte
    <3>1. EXP[RsPlace(s)] \in Byte /\ EXP[RsPlace(s)] # {} 
      <4>1. PICK n \in 0 .. 254 : n = RsPlace(s) BY <2>2
      <4>2. n \in 0 .. 510 OBVIOUS
      <4>3. EXP[n] \in Byte /\ EXP[n] # {} BY ONLY <4>2, ExpRange
      <4> QED BY <4>1, <4>3
    <3> QED BY <3>1, <2>1, Quotient
  <2>4. /\ RsRepair(d, s) = [ok |-> TRUE, word |-> Fixed(d)]
        /\ RsRepair(e, s) = [ok |-> TRUE, word |-> Fixed(e)]
    <3> HIDE DEF none, lost, Fixed
    <3> QED BY <1>1, <1>5
  <2> HIDE DEF none, lost, at, by
  <2>5. DOMAIN Fixed(d) = 1 .. 12 OBVIOUS
  <2>6. ASSUME NEW j \in 1 .. 12
        PROVE  Fixed(d)[j] \in Byte /\ Fixed(d)[j] = SymDiff(cw[j], Fixed(e)[j])
    <3>1. CASE j = at
      <4>1. Fixed(d)[j] = SymDiff(d[j], by) /\ Fixed(e)[j] = SymDiff(e[j], by) BY <3>1
      <4>2. d[j] = SymDiff(cw[j], e[j]) /\ d[j] \in Byte BY <1>2
      <4>3. SymDiff(d[j], by) \in Byte BY <4>2, <2>3, ByteSum, Zenon
      <4>4. SymDiff(SymDiff(cw[j], e[j]), by) = SymDiff(cw[j], SymDiff(e[j], by)) BY DEF SymDiff
      <4> HIDE DEF Fixed
      <4> QED BY <4>1, <4>2, <4>3, <4>4
    <3>2. CASE j # at BY <3>2, <1>2
    <3> QED BY <3>1, <3>2
  <2> HIDE DEF Fixed
  <2> QED BY <2>4, <2>5, <2>6
<1> QED BY <1>3, <1>4, <1>5

--------------------------------------------------------------------------------
(* Bytes and bits. *)

\* Bit b of byte i of a word, in the order of transmission.
BitOf(i, b) == 8 * (i - 1) + 7 - b

LEMMA BitOfApart ==
  ASSUME NEW i \in Nat, NEW j \in Nat, NEW b \in 0 .. 7, NEW c \in 0 .. 7, BitOf(i, b) = BitOf(j, c)
  PROVE  i = j /\ b = c
BY DEF BitOf

\* Every position of a field of whole bytes is some bit of one of them.
LEMMA BitOfSome ==
  ASSUME NEW m \in Nat, NEW n \in Nat, NEW p \in 8 * m .. 8 * n - 1
  PROVE  \E i \in m + 1 .. n : \E b \in 0 .. 7 : p = BitOf(i, b)
<1>1. PICK i \in m + 1 .. n : 8 * (i - 1) <= p /\ p < 8 * i
  <2>1. PICK q \in Nat, r \in 0 .. 7 : p = 8 * q + r
    <3>1. p \in Nat OBVIOUS
    <3>2. p = 8 * (p \div 8) + (p % 8) /\ p % 8 \in 0 .. 7 /\ p \div 8 \in Nat BY <3>1
    <3> QED BY <3>2
  <2>2. q + 1 \in m + 1 .. n /\ 8 * ((q + 1) - 1) <= p /\ p < 8 * (q + 1) BY <2>1
  <2> QED BY <2>2
<1>2. 7 - (p - 8 * (i - 1)) \in 0 .. 7 BY <1>1
<1>3. p = BitOf(i, 7 - (p - 8 * (i - 1))) BY <1>1 DEF BitOf
<1> QED BY <1>2, <1>3

LEMMA BytesAre ==
  ASSUME NEW W, NEW n \in Nat
  PROVE  /\ DOMAIN Bytes(W, n) = 1 .. n /\ Len(Bytes(W, n)) = n
         /\ \A i \in 1 .. n : /\ Bytes(W, n)[i] \in Byte
                              /\ \A b \in 0 .. 7 : b \in Bytes(W, n)[i] <=> BitOf(i, b) \in W
<1>1. DOMAIN Bytes(W, n) = 1 .. n BY DEF Bytes
<1>2. Len(Bytes(W, n)) = n BY DEF Bytes
<1>3. ASSUME NEW i \in 1 .. n
      PROVE  /\ Bytes(W, n)[i] \in Byte
             /\ \A b \in 0 .. 7 : b \in Bytes(W, n)[i] <=> BitOf(i, b) \in W
  <2> DEFINE S == Slice(W, 8 * (i - 1), 8)
  <2>1. \A j : j \in S <=> j \in 0 .. 7 /\ 8 * (i - 1) + j \in W
    <3>1. PICK a \in Nat, k \in Nat : a = 8 * (i - 1) /\ k = 8 OBVIOUS
    <3>2. \A j : j \in Slice(W, a, k) <=> j \in 0 .. k - 1 /\ a + j \in W BY SliceMember
    <3>3. k - 1 = 7 BY <3>1
    <3> QED BY <3>1, <3>2, <3>3
  <2>2. Bytes(W, n)[i] = {7 - j : j \in S} BY DEF Bytes
  <2> HIDE DEF S
  <2>3. Bytes(W, n)[i] \in Byte
    <3>1. ASSUME NEW j \in S PROVE 7 - j \in 0 .. 7 BY <2>1
    <3> QED BY <3>1, <2>2 DEF Byte
  <2>4. ASSUME NEW b \in 0 .. 7 PROVE b \in Bytes(W, n)[i] <=> BitOf(i, b) \in W
    <3>1. b \in {7 - j : j \in S} <=> 7 - b \in S
      <4>1. \A j \in S : j \in Int BY <2>1
      <4>2. ASSUME NEW j \in S, b = 7 - j PROVE 7 - b \in S
        <5>1. 7 - b = j BY <4>1, <4>2
        <5> QED BY <5>1
      <4>3. 7 - (7 - b) = b OBVIOUS
      <4> QED BY <4>2, <4>3
    <3>2. 7 - b \in 0 .. 7 /\ 8 * (i - 1) + (7 - b) = BitOf(i, b) BY DEF BitOf
    <3> QED BY <2>1, <2>2, <3>1, <3>2
  <2> QED BY <2>3, <2>4
<1> QED BY <1>1, <1>2, <1>3

\* A byte is known by its bits.
LEMMA SameByte ==
  ASSUME NEW x \in Byte, NEW y \in Byte, \A b \in 0 .. 7 : b \in x <=> b \in y PROVE x = y
BY DEF Byte

LEMMA BytesSum ==
  ASSUME NEW A, NEW B, NEW n \in Nat, NEW i \in 1 .. n
  PROVE  Bytes(SymDiff(A, B), n)[i] = SymDiff(Bytes(A, n)[i], Bytes(B, n)[i])
<1> DEFINE x == Bytes(SymDiff(A, B), n)[i]
           a == Bytes(A, n)[i]
           b == Bytes(B, n)[i]
<1>1. x \in Byte /\ \A k \in 0 .. 7 : k \in x <=> BitOf(i, k) \in SymDiff(A, B) BY BytesAre
<1>2. a \in Byte /\ \A k \in 0 .. 7 : k \in a <=> BitOf(i, k) \in A BY BytesAre
<1>3. b \in Byte /\ \A k \in 0 .. 7 : k \in b <=> BitOf(i, k) \in B BY BytesAre
<1> HIDE DEF x, a, b
<1>4. \A k \in 0 .. 7 : k \in x <=> k \in SymDiff(a, b) BY <1>1, <1>2, <1>3, SymDiffMember
<1>5. SymDiff(a, b) \in Byte BY <1>2, <1>3, ByteSum
<1>6. x = SymDiff(a, b) BY <1>1, <1>4, <1>5, SameByte
<1> QED BY <1>6 DEF x, a, b

LEMMA BitsMember ==
  ASSUME NEW n \in Nat, NEW bytes, DOMAIN bytes = 1 .. n, \A i \in 1 .. n : bytes[i] \in Byte
  PROVE  /\ \A i \in 1 .. n : \A b \in 0 .. 7 : BitOf(i, b) \in Bits(bytes) <=> b \in bytes[i]
         /\ Bits(bytes) \subseteq 0 .. 8 * n - 1
<1>1. \A p : p \in Bits(bytes) <=> \E i \in 1 .. n : \E b \in bytes[i] : p = BitOf(i, b)
  BY DEF Bits, BitOf
<1>2. \A i \in 1 .. n : \A b \in bytes[i] : b \in 0 .. 7 BY DEF Byte
<1>3. ASSUME NEW i \in 1 .. n, NEW b \in 0 .. 7, BitOf(i, b) \in Bits(bytes) PROVE b \in bytes[i]
  <2>1. PICK j \in 1 .. n : \E c \in bytes[j] : BitOf(i, b) = BitOf(j, c) BY <1>1, <1>3
  <2>2. PICK c \in bytes[j] : BitOf(i, b) = BitOf(j, c) BY <2>1
  <2>3. c \in 0 .. 7 BY <1>2
  <2>4. i = j /\ b = c BY <2>2, <2>3, BitOfApart
  <2> QED BY <2>4
<1>4. ASSUME NEW i \in 1 .. n, NEW b \in 0 .. 7, b \in bytes[i] PROVE BitOf(i, b) \in Bits(bytes)
  BY <1>1, <1>4
<1>5. ASSUME NEW p \in Bits(bytes) PROVE p \in 0 .. 8 * n - 1
  <2>1. PICK i \in 1 .. n : \E b \in bytes[i] : p = BitOf(i, b) BY <1>1
  <2>2. PICK b \in bytes[i] : p = BitOf(i, b) BY <2>1
  <2>3. b \in 0 .. 7 BY <1>2
  <2> QED BY <2>2, <2>3 DEF BitOf
<1> QED BY <1>3, <1>4, <1>5

LEMMA ByteOfByte == ASSUME NEW n PROVE ByteOf(n) \in Byte BY DEF ByteOf, Byte

LEMMA MaskByte == ASSUME NEW terminator PROVE Mask(terminator) \in Byte
<1>1. \A n : ByteOf(n) \in Byte BY ByteOfByte
<1> QED BY <1>1 DEF Mask

LEMMA ParityBytes ==
  ASSUME NEW data, Len(data) = 9, \A j \in 1 .. 9 : data[j] \in Byte
  PROVE  \A j \in 1 .. 3 : RsParity(data)[j] \in Byte
<1> DEFINE cw == [j \in 1 .. 12 |-> IF j <= 9 THEN data[j] ELSE RsParity(data)[13 - j]]
<1>1. Len(cw) = 12 OBVIOUS
<1>2. \A j \in 1 .. 9 : cw[j] = data[j] OBVIOUS
<1>3. ASSUME NEW j \in 1 .. 3 PROVE cw[9 + j] = RsParity(data)[4 - j]
  <2>1. 9 + j \in 1 .. 12 /\ ~(9 + j <= 9) /\ 13 - (9 + j) = 4 - j OBVIOUS
  <2> QED BY <2>1
<1> HIDE DEF cw
<1>4. PICK i \in 1 .. 3 : i = 1 OBVIOUS
<1>5. RsParity(data) \in Triples BY <1>1, <1>2, <1>3, <1>4, CodewordSyndromes
<1> HIDE DEF cw
<1>6. ASSUME NEW p \in Triples PROVE \A j \in 1 .. 3 : p[j] \in Byte BY DEF Triples
<1> QED BY <1>5, <1>6

LEMMA MaskOff == \A a, b : SymDiff(SymDiff(a, b), b) = a BY DEF SymDiff

\* The word a control burst carries, read as bytes with the mask off the parity: the nine
\* bytes of the body and the parity of these.
LEMMA VoiceWord ==
  ASSUME NEW group, NEW dst, NEW src, NEW terminator
  PROVE  LET V == VoiceLc(group, dst, src, terminator)
             data == Bytes(LcBody(group, dst, src), 9)
             cw == Unmasked(Bytes(V, 12), terminator)
         IN  /\ V \subseteq 0 .. 95
             /\ Len(cw) = 12
             /\ \A j \in 1 .. 12 : cw[j] \in Byte
             /\ \A j \in 1 .. 9 : cw[j] = data[j]
             /\ \A j \in 1 .. 3 : cw[9 + j] = RsParity(data)[4 - j]
<1> DEFINE body == LcBody(group, dst, src)
           data == Bytes(body, 9)
           mask == Mask(terminator)
           fec == RsFec(data, mask)
           F == Bits(fec)
           V == VoiceLc(group, dst, src, terminator)
           w == Bytes(V, 12)
           cw == Unmasked(w, terminator)
<1>1. body \subseteq 0 .. 71 BY BodyReads
<1>2. V = body \cup Place(F, 72) BY DEF VoiceLc
<1>3. cw = [i \in 1 .. 12 |-> IF i > 9 THEN SymDiff(w[i], mask) ELSE w[i]] BY DEF Unmasked
<1>4. mask \in Byte BY MaskByte
<1> HIDE DEF mask, body, V
<1>5. /\ Len(data) = 9
      /\ \A i \in 1 .. 9 : /\ data[i] \in Byte
                           /\ \A b \in 0 .. 7 : b \in data[i] <=> BitOf(i, b) \in body
  <2>1. PICK n \in Nat : n = 9 OBVIOUS
  <2>2. /\ Len(Bytes(body, n)) = n
        /\ \A i \in 1 .. n : /\ Bytes(body, n)[i] \in Byte
                             /\ \A b \in 0 .. 7 : b \in Bytes(body, n)[i] <=> BitOf(i, b) \in body
    BY BytesAre
  <2> QED BY <2>1, <2>2
<1>6. \A i \in 1 .. 12 : /\ w[i] \in Byte
                         /\ \A b \in 0 .. 7 : b \in w[i] <=> BitOf(i, b) \in V
  <2>1. PICK n \in Nat : n = 12 OBVIOUS
  <2>2. \A i \in 1 .. n : /\ Bytes(V, n)[i] \in Byte
                          /\ \A b \in 0 .. 7 : b \in Bytes(V, n)[i] <=> BitOf(i, b) \in V
    BY BytesAre
  <2> QED BY <2>1, <2>2
<1> HIDE DEF data, w
<1> DEFINE p == RsParity(data)
<1>7. \A j \in 1 .. 3 : p[j] \in Byte BY <1>5, ParityBytes
<1>8. fec = [i \in 1 .. 3 |-> SymDiff(p[4 - i], mask)] BY DEF RsFec
<1> HIDE DEF p, fec
<1>9. \A i \in 1 .. 3 : fec[i] = SymDiff(p[4 - i], mask) /\ fec[i] \in Byte
  <2>1. ASSUME NEW i \in 1 .. 3 PROVE fec[i] = SymDiff(p[4 - i], mask) /\ fec[i] \in Byte
    <3>1. 4 - i \in 1 .. 3 OBVIOUS
    <3>2. fec[i] = SymDiff(p[4 - i], mask) BY <1>8
    <3> QED BY <3>1, <3>2, <1>4, <1>7, ByteSum
  <2> QED BY <2>1
<1>10. /\ \A i \in 1 .. 3 : \A b \in 0 .. 7 : BitOf(i, b) \in F <=> b \in fec[i]
       /\ F \subseteq 0 .. 23
  <2>1. PICK n \in Nat : n = 3 OBVIOUS
  <2>2. DOMAIN fec = 1 .. n BY <1>8, <2>1
  <2>3. \A i \in 1 .. n : fec[i] \in Byte BY <1>9, <2>1
  <2>4. /\ \A i \in 1 .. n : \A b \in 0 .. 7 : BitOf(i, b) \in Bits(fec) <=> b \in fec[i]
        /\ Bits(fec) \subseteq 0 .. 8 * n - 1
    BY <2>2, <2>3, BitsMember
  <2>5. 8 * n - 1 = 23 BY <2>1
  <2> QED BY <2>1, <2>4, <2>5
<1> HIDE DEF F
<1> DEFINE P == Place(F, 72)
<1>11. \A q : q \in P <=> q \in Int /\ q - 72 \in F
  <2>1. \A f \in F : f \in Int BY <1>10
  <2> QED BY <2>1 DEF Place
<1>12. P \subseteq 72 .. 95 BY <1>10, <1>11
<1> HIDE DEF P
<1>13. V \subseteq 0 .. 95
  <2>1. ASSUME NEW q \in V PROVE q \in 0 .. 95
    <3>1. q \in body \/ q \in P BY <1>2 DEF P
    <3>2. q \in body => q \in 0 .. 71 BY <1>1
    <3>3. q \in P => q \in 72 .. 95 BY <1>12
    <3> QED BY <3>1, <3>2, <3>3
  <2> QED BY <2>1
<1>14. ASSUME NEW j \in 1 .. 9 PROVE w[j] = data[j]
  <2>1. ASSUME NEW b \in 0 .. 7 PROVE BitOf(j, b) \in V <=> BitOf(j, b) \in body
    <3>1. BitOf(j, b) \notin 72 .. 95 BY DEF BitOf
    <3>2. BitOf(j, b) \notin P BY <3>1, <1>12
    <3> QED BY <3>2, <1>2 DEF P
  <2>2. j \in 1 .. 12 OBVIOUS
  <2>3. w[j] \in Byte /\ \A b \in 0 .. 7 : b \in w[j] <=> BitOf(j, b) \in V BY <2>2, <1>6
  <2>4. data[j] \in Byte /\ \A b \in 0 .. 7 : b \in data[j] <=> BitOf(j, b) \in body BY <1>5
  <2>5. \A b \in 0 .. 7 : b \in w[j] <=> b \in data[j] BY <2>1, <2>3, <2>4
  <2> QED BY <2>3, <2>4, <2>5, SameByte
<1>15. ASSUME NEW j \in 1 .. 3 PROVE w[9 + j] = fec[j]
  <2>1. ASSUME NEW b \in 0 .. 7 PROVE BitOf(9 + j, b) \in V <=> BitOf(j, b) \in F
    <3>1. BitOf(9 + j, b) \in Int /\ BitOf(9 + j, b) \notin 0 .. 71
          /\ BitOf(9 + j, b) - 72 = BitOf(j, b) BY DEF BitOf
    <3>2. BitOf(9 + j, b) \notin body BY <3>1, <1>1
    <3>3. BitOf(9 + j, b) \in P <=> BitOf(j, b) \in F BY <3>1, <1>11
    <3> QED BY <3>2, <3>3, <1>2 DEF P
  <2>2. 9 + j \in 1 .. 12 OBVIOUS
  <2>3. w[9 + j] \in Byte /\ \A b \in 0 .. 7 : b \in w[9 + j] <=> BitOf(9 + j, b) \in V BY <2>2, <1>6
  <2>4. fec[j] \in Byte /\ \A b \in 0 .. 7 : BitOf(j, b) \in F <=> b \in fec[j] BY <1>9, <1>10
  <2>5. \A b \in 0 .. 7 : b \in w[9 + j] <=> b \in fec[j] BY <2>1, <2>3, <2>4
  <2> QED BY <2>3, <2>4, <2>5, SameByte
<1>16. Len(cw) = 12 BY <1>3
<1>17. ASSUME NEW j \in 1 .. 12 PROVE cw[j] \in Byte
  <2>1. cw[j] = IF j > 9 THEN SymDiff(w[j], mask) ELSE w[j] BY <1>3
  <2> HIDE DEF cw
  <2> QED BY <2>1, <1>4, <1>6, ByteSum
<1>18. ASSUME NEW j \in 1 .. 9 PROVE cw[j] = data[j]
  <2>1. cw[j] = w[j] BY <1>3
  <2> HIDE DEF cw
  <2> QED BY <2>1, <1>14
<1>19. ASSUME NEW j \in 1 .. 3 PROVE cw[9 + j] = p[4 - j]
  <2>1. cw[9 + j] = SymDiff(w[9 + j], mask)
    <3>1. 9 + j \in 1 .. 12 /\ 9 + j > 9 OBVIOUS
    <3> QED BY <3>1, <1>3
  <2> HIDE DEF cw
  <2>2. w[9 + j] = SymDiff(p[4 - j], mask) BY <1>9, <1>15
  <2> QED BY <2>1, <2>2, MaskOff
<1> HIDE DEF cw
<1>20. /\ V \subseteq 0 .. 95
       /\ Len(cw) = 12
       /\ \A j \in 1 .. 12 : cw[j] \in Byte
       /\ \A j \in 1 .. 9 : cw[j] = data[j]
       /\ \A j \in 1 .. 3 : cw[9 + j] = p[4 - j]
  BY <1>13, <1>16, <1>17, <1>18, <1>19
<1> QED BY <1>20 DEF V, cw, data, p, body, w

\* The word as heard is the word as sent and, byte by byte, what is left of the damage.
LEMMA HeardWord ==
  ASSUME NEW V, NEW left, NEW terminator, NEW i \in 1 .. 12
  PROVE  Unmasked(Bytes(SymDiff(V, left), 12), terminator)[i] =
           SymDiff(Unmasked(Bytes(V, 12), terminator)[i], Bytes(left, 12)[i])
<1> DEFINE w == Bytes(SymDiff(V, left), 12)
           v == Bytes(V, 12)
           l == Bytes(left, 12)
<1>1. w[i] = SymDiff(v[i], l[i])
  <2>1. PICK n \in Nat : n = 12 OBVIOUS
  <2>2. i \in 1 .. n BY <2>1
  <2>3. Bytes(SymDiff(V, left), n)[i] = SymDiff(Bytes(V, n)[i], Bytes(left, n)[i]) BY <2>2, BytesSum
  <2> QED BY <2>1, <2>3
<1> HIDE DEF w, v, l
<1>2. \A x : Unmasked(x, terminator)[i] = IF i > 9 THEN SymDiff(x[i], Mask(terminator)) ELSE x[i]
  BY DEF Unmasked
<1>3. \A a, b, c : SymDiff(SymDiff(a, b), c) = SymDiff(SymDiff(a, c), b) BY DEF SymDiff
<1>4. CASE i > 9
  <2>1. Unmasked(w, terminator)[i] = SymDiff(w[i], Mask(terminator)) BY <1>2, <1>4
  <2>2. Unmasked(v, terminator)[i] = SymDiff(v[i], Mask(terminator)) BY <1>2, <1>4
  <2>3. SymDiff(SymDiff(v[i], l[i]), Mask(terminator)) = SymDiff(SymDiff(v[i], Mask(terminator)), l[i])
    BY <1>3
  <2>4. Unmasked(w, terminator)[i] = SymDiff(Unmasked(v, terminator)[i], l[i])
    BY <1>1, <2>1, <2>2, <2>3
  <2> QED BY <2>4 DEF w, v, l
<1>5. CASE ~(i > 9)
  <2>1. Unmasked(w, terminator)[i] = SymDiff(Unmasked(v, terminator)[i], l[i]) BY <1>1, <1>2, <1>5
  <2> QED BY <2>1 DEF w, v, l
<1> QED BY <1>4, <1>5

\* So it is corrected as the damage alone would be.
LEMMA CorrectionOfDamage ==
  ASSUME NEW data, Len(data) = 9, \A j \in 1 .. 9 : data[j] \in Byte,
         NEW cw, Len(cw) = 12, \A j \in 1 .. 12 : cw[j] \in Byte,
         \A j \in 1 .. 9 : cw[j] = data[j], \A j \in 1 .. 3 : cw[9 + j] = RsParity(data)[4 - j],
         NEW e, DOMAIN e = 1 .. 12, Len(e) = 12, \A j \in 1 .. 12 : e[j] \in Byte,
         NEW d, DOMAIN d = 1 .. 12, Len(d) = 12, \A j \in 1 .. 12 : d[j] = SymDiff(cw[j], e[j])
  PROVE  /\ RsCorrect(d).ok = RsCorrect(e).ok
         /\ RsCorrect(d).ok \in BOOLEAN
         /\ DOMAIN RsCorrect(d).word = 1 .. 12
         /\ \A j \in 1 .. 12 : /\ RsCorrect(d).word[j] \in Byte
                               /\ RsCorrect(e).ok =>
                                    RsCorrect(d).word[j] = SymDiff(cw[j], RsCorrect(e).word[j])
<1> DEFINE s == RsSyndromes(e)
<1>1. \A i \in 1 .. 3 : RsSyndromes(cw)[i] = {} BY CodewordSyndromes
<1>2. \A j \in 1 .. 12 : d[j] \in Byte BY ByteSum
<1>3. \A i \in 1 .. 3 : RsSyndromes(d)[i] = SymDiff(RsSyndromes(cw)[i], s[i])
  <2>1. PICK n \in Nat : n = 12 OBVIOUS
  <2>2. Len(cw) = n /\ Len(e) = n /\ Len(d) = n BY <2>1
  <2>3. \A j \in 1 .. n : cw[j] \in Byte /\ e[j] \in Byte /\ d[j] = SymDiff(cw[j], e[j]) BY <2>1
  <2>4. ASSUME NEW i \in 1 .. 3
        PROVE  RsSyndromes(d)[i] = SymDiff(RsSyndromes(cw)[i], RsSyndromes(e)[i])
    BY ONLY <2>2, <2>3, n \in Nat, i \in 1 .. 3, SyndromesSum, SMTT(30)
  <2> QED BY <2>4
<1>4. \A x : SymDiff({}, x) = x BY DEF SymDiff
<1>5. RsSyndromes(d) = s
  <2>1. \A i \in 1 .. 3 : RsSyndromes(d)[i] = s[i] BY <1>1, <1>3, <1>4, SMTT(30)
  <2>2. RsSyndromes(d) = [i \in 1 .. 3 |-> RsSyndromes(d)[i]] BY DEF RsSyndromes
  <2>3. s = [i \in 1 .. 3 |-> s[i]] BY DEF RsSyndromes
  <2> HIDE DEF s
  <2> QED BY <2>1, <2>2, <2>3
<1>6. \A j \in 1 .. 3 : s[j] \in Byte
  <2> SUFFICES ASSUME NEW j \in 1 .. 3 PROVE s[j] \in Byte OBVIOUS
  <2>1. PICK n \in Nat : n = 12 OBVIOUS
  <2>2. Len(e) = n /\ \A k \in 1 .. n : e[k] \in Byte BY <2>1
  <2>3. PICK v : Evaluates(v, e, j, n) /\ RsSyndromes(e)[j] = v[n]
    BY ONLY <2>2, n \in Nat, j \in 1 .. 3, SyndromeEvaluates
  <2>4. v[n] \in Byte BY <2>3 DEF Evaluates
  <2> QED BY <2>3, <2>4
<1>7. RsCorrect(d) = RsRepair(d, s) /\ RsCorrect(e) = RsRepair(e, s) BY <1>5 DEF RsCorrect
<1> HIDE DEF s
<1>8. /\ RsRepair(d, s).ok = RsRepair(e, s).ok
      /\ RsRepair(d, s).ok \in BOOLEAN
      /\ DOMAIN RsRepair(d, s).word = 1 .. 12
      /\ \A j \in 1 .. 12 : /\ RsRepair(d, s).word[j] \in Byte
                            /\ RsRepair(e, s).ok =>
                                 RsRepair(d, s).word[j] = SymDiff(cw[j], RsRepair(e, s).word[j])
  BY <1>6, RepairOfDamage, SMTT(30)
<1> QED BY <1>7, <1>8

\* Bytes spell a body; a body holds an address; a corrected word keeps the three bytes
\* from m.
Spells(data, body) == \A i \in 1 .. 9 : \A b \in 0 .. 7 : b \in data[i] <=> BitOf(i, b) \in body
Holds(body, id, at) == \A p \in at .. at + 23 : p \in body <=> p \in Field(id, at, 24)
Keeps(word, data, m) ==
  /\ DOMAIN word = 1 .. 12 /\ \A i \in 1 .. 12 : word[i] \in Byte
  /\ \A i \in m + 1 .. m + 3 : word[i] = data[i]

\* So it is read there.
LEMMA FieldOfBytes ==
  ASSUME NEW body, NEW data, Spells(data, body), NEW m \in Nat, m <= 6,
         NEW word, Keeps(word, data, m), NEW id \in Nat, id < 2 ^ 24, Holds(body, id, 8 * m)
  PROVE  Number(Bits(word), 8 * m, 24) = id
<1>1. \A i \in 1 .. 12 : \A b \in 0 .. 7 : BitOf(i, b) \in Bits(word) <=> b \in word[i]
  <2>1. PICK n \in Nat : n = 12 OBVIOUS
  <2>2. DOMAIN word = 1 .. n /\ \A i \in 1 .. n : word[i] \in Byte BY <2>1 DEF Keeps
  <2>3. \A i \in 1 .. n : \A b \in 0 .. 7 : BitOf(i, b) \in Bits(word) <=> b \in word[i]
    BY <2>2, BitsMember
  <2> QED BY <2>1, <2>3
<1>2. ASSUME NEW p \in 8 * m .. 8 * m + 23 PROVE p \in Bits(word) <=> p \in body
  <2>1. PICK k \in Nat : k = m + 3 OBVIOUS
  <2>2. m \in Nat /\ p \in 8 * m .. 8 * k - 1 BY <2>1
  <2>3. PICK i \in m + 1 .. k : \E b \in 0 .. 7 : p = BitOf(i, b) BY <2>2, BitOfSome
  <2>4. PICK b \in 0 .. 7 : p = BitOf(i, b) BY <2>3
  <2>5. i \in 1 .. 9 /\ i \in 1 .. 12 /\ i \in m + 1 .. m + 3 BY <2>1
  <2>6. p \in Bits(word) <=> b \in word[i] BY <2>4, <2>5, <1>1
  <2>7. p \in body <=> b \in data[i] BY <2>4, <2>5 DEF Spells
  <2>8. word[i] = data[i] BY <2>5 DEF Keeps
  <2> QED BY <2>6, <2>7, <2>8
<1>3. PICK at \in Nat, width \in 1 .. 24 : at = 8 * m /\ width = 24 OBVIOUS
<1>4. \A p \in at .. at + width - 1 : p \in Bits(word) <=> p \in Field(id, at, width)
  BY <1>2, <1>3 DEF Holds
<1>5. id < 2 ^ width BY <1>3
<1>6. Number(Bits(word), at, width) = id BY <1>4, <1>5, NumberOfField
<1> QED BY <1>3, <1>6

\* The addresses lie in bytes of their own.
LEMMA BodyFields ==
  ASSUME NEW group, NEW dst, NEW src
  PROVE  /\ \A p \in 24 .. 47 : p \in LcBody(group, dst, src) <=> p \in Field(dst, 24, 24)
         /\ \A p \in 48 .. 71 : p \in LcBody(group, dst, src) <=> p \in Field(src, 48, 24)
<1> DEFINE F1 == IF group THEN {} ELSE {6, 7}
           F2 == Field(dst, 24, 24)
           F3 == Field(src, 48, 24)
<1>1. LcBody(group, dst, src) = F1 \cup F2 \cup F3 BY DEF LcBody
<1>2. F1 \subseteq 6 .. 7 OBVIOUS
<1>3. F2 \subseteq 24 .. 47 /\ F3 \subseteq 48 .. 71
  <2>1. PICK a \in Nat, b \in Nat, w \in Nat : a = 24 /\ b = 48 /\ w = 24 OBVIOUS
  <2>2. Field(dst, a, w) \subseteq a .. a + w - 1 BY FieldWithin
  <2>3. Field(src, b, w) \subseteq b .. b + w - 1 BY FieldWithin
  <2>4. a + w - 1 = 47 /\ b + w - 1 = 71 BY <2>1
  <2> QED BY <2>1, <2>2, <2>3, <2>4
<1> HIDE DEF F1, F2, F3
<1>4. \A p \in 24 .. 47 : p \notin F1 /\ p \notin F3 BY <1>2, <1>3
<1>5. \A p \in 48 .. 71 : p \notin F1 /\ p \notin F2 BY <1>2, <1>3
<1>6. \A p \in 24 .. 47 : p \in LcBody(group, dst, src) <=> p \in F2 BY <1>1, <1>4
<1>7. \A p \in 48 .. 71 : p \in LcBody(group, dst, src) <=> p \in F3 BY <1>1, <1>5
<1> QED BY <1>6, <1>7 DEF F2, F3

\* What a control burst says when its data bits come with damage, in terms of what is left
\* of the damage when it is corrected on its own.
LEMMA LcOfDamage ==
  ASSUME NEW group, NEW dst \in Nat, dst < 2 ^ 24, NEW src \in Nat, src < 2 ^ 24,
         NEW terminator, NEW e
  PROVE  LET left == CorrectColumns(CorrectRows(Received(e)))
             fixed == RsCorrect(Bytes(left, 12))
             heard == BptcDecode(SymDiff(BptcEncode(VoiceLc(group, dst, src, terminator)), e))
             lc == DecodedLc(RsCorrect(Unmasked(Bytes(heard, 12), terminator)))
         IN  /\ left = Uncorrectable => heard = Uncorrectable
             /\ left # Uncorrectable =>
                  /\ heard # Uncorrectable
                  /\ lc.ok = fixed.ok /\ lc.ok \in BOOLEAN
                  /\ lc.dst \in Nat /\ lc.src \in Nat
                  /\ fixed.ok /\ (\A i \in 4 .. 9 : fixed.word[i] = {}) =>
                       lc.dst = dst /\ lc.src = src
<1> DEFINE V == VoiceLc(group, dst, src, terminator)
           body == LcBody(group, dst, src)
           data == Bytes(body, 9)
           cw == Unmasked(Bytes(V, 12), terminator)
           left == CorrectColumns(CorrectRows(Received(e)))
           l == Bytes(left, 12)
           fixed == RsCorrect(l)
           heard == BptcDecode(SymDiff(BptcEncode(V), e))
           d == Unmasked(Bytes(heard, 12), terminator)
           right == RsCorrect(d)
           lc == DecodedLc(right)
<1>1. /\ V \subseteq 0 .. 95
      /\ Len(cw) = 12
      /\ \A j \in 1 .. 12 : cw[j] \in Byte
      /\ \A j \in 1 .. 9 : cw[j] = data[j]
      /\ \A j \in 1 .. 3 : cw[9 + j] = RsParity(data)[4 - j]
  BY VoiceWord
<1>2. /\ \A p \in 24 .. 47 : p \in body <=> p \in Field(dst, 24, 24)
      /\ \A p \in 48 .. 71 : p \in body <=> p \in Field(src, 48, 24)
  BY BodyFields
<1> HIDE DEF V, body, cw
<1>3. /\ heard = IF left = Uncorrectable THEN Uncorrectable ELSE SymDiff(V, left)
      /\ left # Uncorrectable => left \subseteq 0 .. 95
  BY <1>1, BptcOfDamage
<1> HIDE DEF left, heard
<1>4. left = Uncorrectable => heard = Uncorrectable BY <1>3
<1>5. Len(data) = 9 /\ \A i \in 1 .. 9 : /\ data[i] \in Byte
                                         /\ \A b \in 0 .. 7 : b \in data[i] <=> BitOf(i, b) \in body
  <2>1. PICK n \in Nat : n = 9 OBVIOUS
  <2>2. /\ Len(Bytes(body, n)) = n
        /\ \A i \in 1 .. n : /\ Bytes(body, n)[i] \in Byte
                             /\ \A b \in 0 .. 7 : b \in Bytes(body, n)[i] <=> BitOf(i, b) \in body
    BY BytesAre
  <2> QED BY <2>1, <2>2
<1> HIDE DEF data
<1>6. \A X : DOMAIN Bytes(X, 12) = 1 .. 12 /\ Len(Bytes(X, 12)) = 12
             /\ \A i \in 1 .. 12 : Bytes(X, 12)[i] \in Byte
  <2>1. PICK n \in Nat : n = 12 OBVIOUS
  <2>2. \A X : DOMAIN Bytes(X, n) = 1 .. n /\ Len(Bytes(X, n)) = n
               /\ \A i \in 1 .. n : Bytes(X, n)[i] \in Byte
    BY BytesAre
  <2> QED BY <2>1, <2>2
<1>7. DOMAIN l = 1 .. 12 /\ Len(l) = 12 /\ \A i \in 1 .. 12 : l[i] \in Byte BY <1>6
<1>8. DOMAIN d = 1 .. 12 /\ Len(d) = 12 BY DEF Unmasked
<1> SUFFICES ASSUME left # Uncorrectable
             PROVE  /\ heard # Uncorrectable
                    /\ lc.ok = fixed.ok /\ lc.ok \in BOOLEAN
                    /\ lc.dst \in Nat /\ lc.src \in Nat
                    /\ fixed.ok /\ (\A i \in 4 .. 9 : fixed.word[i] = {}) =>
                         lc.dst = dst /\ lc.src = src
  <2> HIDE DEF lc, fixed
  <2>1. \/ left = Uncorrectable
        \/ /\ heard # Uncorrectable
           /\ lc.ok = fixed.ok /\ lc.ok \in BOOLEAN
           /\ lc.dst \in Nat /\ lc.src \in Nat
           /\ fixed.ok /\ (\A i \in 4 .. 9 : fixed.word[i] = {}) =>
                lc.dst = dst /\ lc.src = src
    OBVIOUS
  <2>2. /\ left = Uncorrectable => heard = Uncorrectable
        /\ left # Uncorrectable =>
             /\ heard # Uncorrectable
             /\ lc.ok = fixed.ok /\ lc.ok \in BOOLEAN
             /\ lc.dst \in Nat /\ lc.src \in Nat
             /\ fixed.ok /\ (\A i \in 4 .. 9 : fixed.word[i] = {}) =>
                  lc.dst = dst /\ lc.src = src
    BY <1>4, <2>1
  <2> QED BY <2>2 DEF lc, fixed, right, d, l, left, heard, V
<1>9. heard = SymDiff(V, left) BY <1>3
<1>10. heard # Uncorrectable
  <2>1. None \notin 0 .. 95 BY DEF None
  <2>2. None \notin V /\ None \notin left BY <2>1, <1>1, <1>3
  <2>3. None \notin heard BY <2>2, <1>9, SymDiffMember
  <2> QED BY <2>3 DEF Uncorrectable
<1>11. ASSUME NEW j \in 1 .. 12 PROVE d[j] = SymDiff(cw[j], l[j])
  <2>1. Unmasked(Bytes(SymDiff(V, left), 12), terminator)[j] =
          SymDiff(Unmasked(Bytes(V, 12), terminator)[j], Bytes(left, 12)[j])
    BY HeardWord
  <2> QED BY <2>1, <1>9 DEF cw
<1> HIDE DEF d, l
<1> HIDE DEF right, fixed
<1>12. /\ right.ok = fixed.ok
       /\ right.ok \in BOOLEAN
       /\ DOMAIN right.word = 1 .. 12
  <2>1. \A j \in 1 .. 9 : data[j] \in Byte BY <1>5
  <2> QED BY <2>1, <1>1, <1>5, <1>7, <1>8, <1>11, CorrectionOfDamage DEF right, fixed
<1>17. \A j \in 1 .. 12 : /\ right.word[j] \in Byte
                          /\ fixed.ok => right.word[j] = SymDiff(cw[j], fixed.word[j])
  <2>1. \A j \in 1 .. 9 : data[j] \in Byte BY <1>5
  <2> QED BY <2>1, <1>1, <1>5, <1>7, <1>8, <1>11, CorrectionOfDamage DEF right, fixed
<1> DEFINE W == Bits(right.word)
<1>13. lc.ok = right.ok /\ lc.dst = Number(W, 24, 24) /\ lc.src = Number(W, 48, 24)
  BY DEF DecodedLc, LcFields
<1> HIDE DEF lc, W
<1>14. lc.dst \in Nat /\ lc.src \in Nat
  <2>1. PICK a \in Nat, b \in Nat : a = 24 /\ b = 48 OBVIOUS
  <2>2. Number(W, a, a) \in Nat /\ Number(W, b, a) \in Nat BY NumberNat
  <2> QED BY <2>1, <2>2, <1>13
<1>15. ASSUME fixed.ok, \A i \in 4 .. 9 : fixed.word[i] = {} PROVE lc.dst = dst /\ lc.src = src
  <2>1. \A i \in 4 .. 9 : right.word[i] = data[i]
    <3> SUFFICES ASSUME NEW i \in 4 .. 9 PROVE right.word[i] = data[i] OBVIOUS
    <3>1. i \in 1 .. 12 /\ i \in 1 .. 9 OBVIOUS
    <3>2. right.word[i] = SymDiff(cw[i], fixed.word[i]) BY <3>1, <1>17, <1>15, Zenon
    <3>4. fixed.word[i] = {} BY <1>15
    <3>3. \A x : SymDiff(x, {}) = x BY DEF SymDiff
    <3> QED BY <3>1, <3>2, <3>3, <3>4, <1>1
  <2>2. Spells(data, body) BY <1>5 DEF Spells
  <2>3. DOMAIN right.word = 1 .. 12 /\ \A i \in 1 .. 12 : right.word[i] \in Byte BY <1>12, <1>17
  <2>4. Number(W, 24, 24) = dst
    <3>1. PICK m \in Nat : m = 3 OBVIOUS
    <3>2. 8 * m = 24 /\ m <= 6 BY <3>1
    <3>3. Keeps(right.word, data, m) BY <2>1, <2>3, <3>1 DEF Keeps
    <3>4. Holds(body, dst, 8 * m)
      <4>1. \A p \in 8 * m .. 8 * m + 23 : p \in body <=> p \in Field(dst, 8 * m, 24) BY <1>2, <3>2
      <4> QED BY <4>1 DEF Holds
    <3>5. Number(Bits(right.word), 8 * m, 24) = dst BY <2>2, <3>2, <3>3, <3>4, FieldOfBytes
    <3> QED BY <3>2, <3>5 DEF W
  <2>5. Number(W, 48, 24) = src
    <3>1. PICK m \in Nat : m = 6 OBVIOUS
    <3>2. 8 * m = 48 /\ m <= 6 BY <3>1
    <3>3. Keeps(right.word, data, m) BY <2>1, <2>3, <3>1 DEF Keeps
    <3>4. Holds(body, src, 8 * m)
      <4>1. \A p \in 8 * m .. 8 * m + 23 : p \in body <=> p \in Field(src, 8 * m, 24) BY <1>2, <3>2
      <4> QED BY <4>1 DEF Holds
    <3>5. Number(Bits(right.word), 8 * m, 24) = src BY <2>2, <3>2, <3>3, <3>4, FieldOfBytes
    <3> QED BY <3>2, <3>5 DEF W
  <2> QED BY <2>4, <2>5, <1>13
<1> QED BY <1>10, <1>12, <1>13, <1>14, <1>15

\* The data bits of a burst.
LEMMA InfoMember ==
  ASSUME NEW burst
  PROVE  /\ InfoBits(burst) \subseteq 0 .. 195
         /\ \A j \in 0 .. 97 : j \in InfoBits(burst) <=> j \in burst
         /\ \A j \in 98 .. 195 : j \in InfoBits(burst) <=> 68 + j \in burst
<1> DEFINE S == Slice(burst, 166, 98)
           P == Place(S, 98)
           I == InfoBits(burst)
<1>1. I = (burst \cap 0 .. 97) \cup P BY DEF InfoBits
<1>2. \A i : i \in S <=> i \in 0 .. 97 /\ 166 + i \in burst
  <2>1. PICK a \in Nat, n \in Nat : a = 166 /\ n = 98 OBVIOUS
  <2>2. \A i : i \in Slice(burst, a, n) <=> i \in 0 .. n - 1 /\ a + i \in burst BY SliceMember
  <2>3. n - 1 = 97 BY <2>1
  <2> QED BY <2>1, <2>2, <2>3
<1> HIDE DEF S
<1>3. \A p : p \in P <=> p \in Int /\ p - 98 \in S
  <2>1. \A i \in S : i \in Int BY <1>2
  <2> QED BY <2>1 DEF Place
<1> HIDE DEF P, I
<1>4. \A p \in P : p \in 98 .. 195 BY <1>2, <1>3
<1>5. I \subseteq 0 .. 195
  <2>1. ASSUME NEW p \in I PROVE p \in 0 .. 195
    <3>1. p \in 0 .. 97 \/ p \in P BY <1>1
    <3>2. p \in 0 .. 97 => p \in 0 .. 195 OBVIOUS
    <3>3. p \in 98 .. 195 => p \in 0 .. 195 OBVIOUS
    <3> QED BY <3>1, <3>2, <3>3, <1>4
  <2> QED BY <2>1
<1>6. ASSUME NEW j \in 0 .. 97 PROVE j \in I <=> j \in burst
  <2>1. j \notin 98 .. 195 OBVIOUS
  <2>2. j \notin P BY <2>1, <1>4
  <2> QED BY <2>2, <1>1
<1>7. ASSUME NEW j \in 98 .. 195 PROVE j \in I <=> 68 + j \in burst
  <2>1. j \notin 0 .. 97 /\ j \in Int /\ j - 98 \in 0 .. 97 /\ 166 + (j - 98) = 68 + j OBVIOUS
  <2>2. j \in P <=> 68 + j \in burst BY <2>1, <1>2, <1>3
  <2> QED BY <2>1, <2>2, <1>1
<1> QED BY <1>5, <1>6, <1>7 DEF I

LEMMA EncodedWithin == ASSUME NEW D, D \subseteq 0 .. 95 PROVE BptcEncode(D) \subseteq 0 .. 195
<1>1. Matrix(D) \subseteq 1 .. 195 BY MatrixIs, ZenonT(60)
<1>2. BptcEncode(D) = {AirPosition[p] : p \in Matrix(D)} BY EncodesMatrix
<1>3. ASSUME NEW p \in 1 .. 195 PROVE AirPosition[p] \in 0 .. 195
  <2>1. p \in 0 .. 195 OBVIOUS
  <2>2. AirPosition[p] = (p * 181) % 196 BY <2>1 DEF AirPosition
  <2>3. (p * 181) % 196 \in 0 .. 195 BY SMT
  <2> QED BY <2>2, <2>3
<1>4. ASSUME NEW q \in BptcEncode(D) PROVE q \in 0 .. 195
  <2>1. PICK p \in Matrix(D) : q = AirPosition[p] BY <1>2
  <2>2. p \in 1 .. 195 BY <1>1
  <2> QED BY <2>1, <2>2, <1>3, ZenonT(60)
<1> QED BY <1>4

\* A header or terminator on the air.
ControlLc == VoiceLc(call.group, call.dst, call.src, unit = Terminator)
Run == fade.at .. fade.at + fade.len - 1

LEMMA ControlBits ==
  ASSUME AirType, ~IsVoice(unit)
  PROVE  InfoBits(Heard(1)) = SymDiff(BptcEncode(ControlLc), InfoBits(Run))
<1> DEFINE dtype == DataType(unit = Terminator)
           B == bursts[1]
           H == Heard(1)
           X == BptcEncode(ControlLc)
<1>1. B = DataBurst(ControlLc, dtype, call.colour)
  <2>1. UnitBursts(call, unit) = << ControlBurst(call, unit = Terminator) >> BY DEF UnitBursts
  <2> DEFINE C == ControlBurst(call, unit = Terminator)
  <2>2. C = DataBurst(ControlLc, dtype, call.colour) BY DEF ControlBurst, ControlLc
  <2> HIDE DEF C
  <2>3. << C >>[1] = C OBVIOUS
  <2>4. bursts = << C >> BY <2>1 DEF AirType, C
  <2> QED BY <2>2, <2>3, <2>4
<1>2. FadeShape /\ fade.burst = 1 BY DEF AirType, FadeShape, Bursts
<1> HIDE DEF dtype, B
<1>3. /\ \A j \in 0 .. 97 : j \in B <=> j \in X
      /\ \A j \in 0 .. 97 : 166 + j \in B <=> 98 + j \in X
  BY <1>1, DataMember
<1>4. X \subseteq 0 .. 195
  <2>1. ControlLc \subseteq 0 .. 95 BY VoiceWord DEF ControlLc
  <2> QED BY <2>1, EncodedWithin, ZenonT(60)
<1> HIDE DEF X
<1>5. \A p \in Int : p \in H <=> ~(p \in B <=> p \in Run)
  <2> SUFFICES ASSUME NEW p \in Int PROVE p \in H <=> ~(p \in B <=> p \in Run) OBVIOUS
  <2>1. PICK b : b = 1 OBVIOUS
  <2>2. p \in Heard(b) <=>
           ~(p \in bursts[b] <=> b = fade.burst /\ fade.at <= p /\ p < fade.at + fade.len)
    BY <1>2, HeardMember
  <2>3. p \in Run <=> fade.at <= p /\ p < fade.at + fade.len BY <1>2 DEF Run, FadeShape
  <2> QED BY <1>2, <2>1, <2>2, <2>3 DEF B
<1> HIDE DEF H
<1> DEFINE I == InfoBits(H)
           J == InfoBits(Run)
<1>6. /\ I \subseteq 0 .. 195
      /\ \A j \in 0 .. 97 : j \in I <=> j \in H
      /\ \A j \in 98 .. 195 : j \in I <=> 68 + j \in H
  BY InfoMember
<1>7. /\ J \subseteq 0 .. 195
      /\ \A j \in 0 .. 97 : j \in J <=> j \in Run
      /\ \A j \in 98 .. 195 : j \in J <=> 68 + j \in Run
  BY InfoMember
<1> HIDE DEF I, J
<1>8. ASSUME NEW j \in 0 .. 195 PROVE j \in I <=> ~(j \in X <=> j \in J)
  <2>1. CASE j \in 0 .. 97
    <3>1. j \in Int OBVIOUS
    <3> QED BY <2>1, <3>1, <1>3, <1>5, <1>6, <1>7
  <2>2. CASE j \in 98 .. 195
    <3>1. j - 98 \in 0 .. 97 /\ 166 + (j - 98) = 68 + j /\ 98 + (j - 98) = j /\ 68 + j \in Int
      BY <2>2
    <3>2. 68 + j \in B <=> j \in X BY <3>1, <1>3
    <3> QED BY <2>2, <3>1, <3>2, <1>5, <1>6, <1>7
  <2> QED BY <2>1, <2>2
<1>9. \A j : j \in I <=> ~(j \in X <=> j \in J) BY <1>4, <1>6, <1>7, <1>8
<1>10. I = SymDiff(X, J) BY <1>9, SymDiffMember
<1> QED BY <1>10 DEF I, J, H, X

\* What is left of a fade of up to eight bits.
LEMMA LeftOfFade ==
  ASSUME AirType, ~IsVoice(unit), MaxFade <= 8
  PROVE  LET left == CorrectColumns(CorrectRows(Received(InfoBits(Run))))
             fixed == RsCorrect(Bytes(left, 12))
         IN  IF left # Uncorrectable /\ fixed.ok
             THEN \A i \in 4 .. 9 : fixed.word[i] = {} ELSE fade.len > 4
<1>1. fade.burst = 1 /\ fade.at \in Nat /\ fade.len \in Nat BY DEF AirType, Bursts
<1>2. fade.len \in 0 .. 8
  <2>1. fade.len <= MaxFade BY DEF AirType
  <2>2. MaxFade \in Nat BY AirAssumption
  <2>3. fade.len <= 8
    <3>1. ASSUME NEW n \in Nat, NEW m \in Nat, n <= m, m <= 8 PROVE n <= 8 BY <3>1
    <3> QED BY <1>1, <2>1, <2>2, <3>1
  <2> QED BY <1>1, <2>3
<1>3. PICK at \in 0 .. BurstBits - 1 : Run = at .. at + fade.len - 1
  <2>1. CASE fade.len = 0
    <3>1. Run = {} BY <2>1, <1>1 DEF Run
    <3>2. 0 .. 0 + fade.len - 1 = {} BY <2>1
    <3>3. 0 \in 0 .. BurstBits - 1 BY DEF BurstBits
    <3> QED BY <3>1, <3>2, <3>3
  <2>2. CASE fade.len > 0
    <3>1. fade.at \in Reach(fade.burst) BY <2>2 DEF AirType
    <3>2. fade.at \in 0 .. BurstBits - 1 BY <1>1, <3>1 DEF Reach
    <3> QED BY <3>2 DEF Run
  <2> QED BY <1>1, <2>1, <2>2
<1> DEFINE left == Left(at, fade.len)
           fixed == RsCorrect(Bytes(left, 12))
<1>4. IF left # Uncorrectable /\ fixed.ok
      THEN \A i \in 4 .. 9 : fixed.word[i] = {} ELSE fade.len > 4
  BY <1>2, FadesNoticed
<1>5. left = CorrectColumns(CorrectRows(Received(InfoBits(Run)))) BY <1>3 DEF Left
<1> HIDE DEF left
<1> QED BY <1>4, <1>5

\* What the check of a control burst's LC warns of.
LEMMA FullLcOfType == ASSUME AirType, MaxFade <= 8 PROVE FullLcSurvives
<1> SUFFICES ASSUME ~IsVoice(unit)
             PROVE  LET warnings == CheckVoiceLc(DecodeVoiceLc(Heard(1), unit = Terminator),
                                                 call.dst, call.src)
                    IN  /\ fade.len <= 4 => warnings = {}
                        /\ "mismatch" \in warnings => "parity" \in warnings
  BY DEF FullLcSurvives
<1> DEFINE terminator == unit = Terminator
           e == InfoBits(Run)
           left == CorrectColumns(CorrectRows(Received(e)))
           fixed == RsCorrect(Bytes(left, 12))
           heard == BptcDecode(SymDiff(BptcEncode(ControlLc), e))
           right == DecodedLc(RsCorrect(Unmasked(Bytes(heard, 12), terminator)))
           lc == DecodeVoiceLc(Heard(1), terminator)
           warnings == CheckVoiceLc(lc, call.dst, call.src)
<1>1. call.dst \in Nat /\ call.dst < 2 ^ 24 /\ call.src \in Nat /\ call.src < 2 ^ 24
  <2>1. call \in Calls BY DEF AirType
  <2> QED BY <2>1, AirAssumption
<1>2. /\ left = Uncorrectable => heard = Uncorrectable
      /\ left # Uncorrectable =>
           /\ heard # Uncorrectable
           /\ right.ok = fixed.ok /\ right.ok \in BOOLEAN
           /\ right.dst \in Nat /\ right.src \in Nat
           /\ fixed.ok /\ (\A i \in 4 .. 9 : fixed.word[i] = {}) =>
                right.dst = call.dst /\ right.src = call.src
  BY <1>1, LcOfDamage DEF ControlLc
<1>3. IF left # Uncorrectable /\ fixed.ok
      THEN \A i \in 4 .. 9 : fixed.word[i] = {} ELSE fade.len > 4
  BY LeftOfFade
<1>4. fade.len \in Nat BY DEF AirType
<1>5. InfoBits(Heard(1)) = SymDiff(BptcEncode(ControlLc), e) BY ControlBits
<1>6. lc = IF heard = Uncorrectable THEN NoLc ELSE right BY <1>5 DEF DecodeVoiceLc
<1>7. warnings = IF lc = NoLc THEN {"uncorrectable"}
                 ELSE (IF lc.ok THEN {} ELSE {"parity"}) \cup
                      (IF lc.dst # call.dst \/ lc.src # call.src THEN {"mismatch"} ELSE {})
  BY DEF CheckVoiceLc
<1> HIDE DEF e, left, fixed, heard, right, lc, warnings
<1>8. ASSUME left # Uncorrectable PROVE lc = right /\ lc # NoLc
  <2>1. lc = right /\ right.dst \in Nat BY <1>2, <1>6, <1>8
  <2>2. NoLc.dst = None /\ None \notin Nat BY DEF NoLc, None
  <2> QED BY <2>1, <2>2
<1>9. CASE left = Uncorrectable
  <2>1. fade.len > 4 BY <1>3, <1>9
  <2>2. warnings = {"uncorrectable"} BY <1>2, <1>6, <1>7, <1>9
  <2>3. ~(fade.len <= 4) BY <2>1, <1>4
  <2>4. "mismatch" \notin warnings BY <2>2
  <2> QED BY <2>3, <2>4 DEF warnings, lc
<1>10. CASE left # Uncorrectable /\ fixed.ok
  <2>1. right.dst = call.dst /\ right.src = call.src BY <1>2, <1>3, <1>10
  <2>2. right.ok BY <1>2, <1>10
  <2>3. warnings = {} BY <2>1, <2>2, <1>7, <1>8, <1>10
  <2>4. "mismatch" \notin warnings BY <2>3
  <2> QED BY <2>3, <2>4 DEF warnings, lc
<1>11. CASE left # Uncorrectable /\ ~fixed.ok
  <2>1. fade.len > 4 BY <1>3, <1>11
  <2>2. ~right.ok BY <1>2, <1>11
  <2>3. "parity" \in warnings BY <2>2, <1>7, <1>8, <1>11
  <2>4. ~(fade.len <= 4) BY <2>1, <1>4
  <2> QED BY <2>3, <2>4 DEF warnings, lc
<1> QED BY <1>9, <1>10, <1>11

\* However a fade of up to eight bits strikes a header or terminator, the radio reads the
\* LC that was sent or is warned that it did not; one of up to four bits costs nothing
\* (bptc_decode_correct, rs_12_9_correct, decode_voice_lc_burst, check_voice_lc).
THEOREM FullLcHolds == ASSUME MaxFade <= 8 PROVE Spec => []FullLcSurvives
<1>1. Spec => []AirType BY AirTypeHolds
<1>2. AirType => FullLcSurvives BY FullLcOfType
<1> QED BY <1>1, <1>2, PTL

--------------------------------------------------------------------------------
(* The first word of a voice frame is told from any other. *)

LEMMA RemaindersLen == Len(GolayRemainders) = 12
<1>1. GolayRemainders \in [1 .. 12 -> SUBSET (0 .. 10)] BY RemaindersAre
<1>2. PICK n \in Nat : n = 12 OBVIOUS
<1>3. GolayRemainders \in Seq(SUBSET (0 .. 10)) BY <1>1, <1>2, SeqDef
<1>4. DOMAIN GolayRemainders = 1 .. 12 BY <1>1
<1> QED BY <1>3, <1>4, LenProperties

\* Both Golay codes are linear.
LEMMA GolaySum ==
  ASSUME NEW A, A \subseteq 0 .. 11, NEW B, B \subseteq 0 .. 11
  PROVE  Golay_24_12(SymDiff(A, B)) = SymDiff(Golay_24_12(A), Golay_24_12(B))
<1> DEFINE C == SymDiff(A, B)
           Placed(D) == {11 + d : d \in D}
           P(D) == Span(GolayRemainders, D)
           W(D) == Golay_23_12(D)
           On(D) == {c + 1 : c \in W(D)}
           Last(D) == IF Odd(W(D)) THEN {0} ELSE {}
<1>1. C \subseteq 0 .. 11 BY DEF SymDiff
<1>2. P(C) = SymDiff(P(A), P(B))
  <2>1. Len(GolayRemainders) = 12 /\ 12 - 1 = 11 BY RemaindersLen
  <2>2. /\ Len(GolayRemainders) \in Nat
        /\ A \subseteq 0 .. Len(GolayRemainders) - 1 /\ B \subseteq 0 .. Len(GolayRemainders) - 1
    BY <2>1
  <2>3. Span(GolayRemainders, SymDiff(A, B)) =
          SymDiff(Span(GolayRemainders, A), Span(GolayRemainders, B))
    BY <2>2, SpanSum, Zenon
  <2> QED BY <2>3
<1>3. \A D \in SUBSET (0 .. 11) : P(D) \subseteq 0 .. 10
  <2>1. ASSUME NEW D \in SUBSET (0 .. 11) PROVE P(D) \subseteq 0 .. 10
    <3>1. \A d \in D : GolayRemainders[d + 1] \subseteq 0 .. 10
      <4>1. ASSUME NEW d \in D PROVE GolayRemainders[d + 1] \subseteq 0 .. 10
        <5>1. d + 1 \in 1 .. 12 OBVIOUS
        <5> QED BY <5>1, RemaindersWithin
      <4> QED BY <4>1
    <3>2. PICK n \in Int : n = 10 OBVIOUS
    <3>3. P(D) \subseteq 0 .. n BY <3>1, <3>2, SpanWithin
    <3> QED BY <3>2, <3>3
  <2> QED BY <2>1
<1>4. W(C) = SymDiff(W(A), W(B))
  <2>1. W(C) = Placed(C) \cup P(C) /\ W(A) = Placed(A) \cup P(A) /\ W(B) = Placed(B) \cup P(B)
    BY DEF Golay_23_12
  <2>2. P(A) \subseteq 0 .. 10 /\ P(B) \subseteq 0 .. 10 BY <1>3
  <2>3. Placed(C) = SymDiff(Placed(A), Placed(B)) BY DEF SymDiff
  <2>4. \A D \in {A, B} : \A c \in Placed(D) : c > 10 OBVIOUS
  <2>5. \A c \in 0 .. 10 : ~(c > 10) OBVIOUS
  <2> HIDE DEF Placed, P, W, C
  <2>6. Placed(A) \cap P(B) = {} /\ Placed(B) \cap P(A) = {} /\ Placed(A) \cap P(A) = {} /\ Placed(B) \cap P(B) = {}
    BY <2>2, <2>4, <2>5
  <2> QED BY <2>1, <2>3, <2>6, <1>2 DEF SymDiff
<1>5. W(A) \subseteq 0 .. 22 /\ W(B) \subseteq 0 .. 22 BY GolayWords
<1>6. Odd(W(C)) <=> ~(Odd(W(A)) <=> Odd(W(B)))
  <2>1. PICK n \in Nat : n = 22 OBVIOUS
  <2>2. IsFiniteSet(W(A)) /\ IsFiniteSet(W(B)) BY <2>1, <1>5, WithinFinite
  <2> HIDE DEF W, C
  <2> QED BY <1>4, <2>2, OddSum
<1>7. \A D : Golay_24_12(D) = On(D) \cup Last(D) BY DEF Golay_24_12
<1>8. On(C) = SymDiff(On(A), On(B))
  <2> HIDE DEF W, C
  <2>1. \A c \in W(A) \cup W(B) : c \in Int BY <1>5
  <2> QED BY <1>4, <2>1 DEF SymDiff
<1>9. \A D \in {A, B} : \A c \in On(D) : c # 0
  <2> HIDE DEF W
  <2>1. \A D \in {A, B} : \A c \in W(D) : c + 1 # 0 BY <1>5
  <2> QED BY <2>1
<1>10. Last(C) = SymDiff(Last(A), Last(B))
  <2> HIDE DEF W, C
  <2> QED BY <1>6 DEF SymDiff
<1>11. \A D \in {A, B} : Last(D) \subseteq {0} OBVIOUS
<1> HIDE DEF On, Last, C
<1>12. Golay_24_12(C) = On(C) \cup Last(C) /\ Golay_24_12(A) = On(A) \cup Last(A)
       /\ Golay_24_12(B) = On(B) \cup Last(B)
  BY <1>7
<1>13. On(A) \cap Last(B) = {} /\ On(B) \cap Last(A) = {} /\ On(A) \cap Last(A) = {} /\ On(B) \cap Last(B) = {}
  BY <1>9, <1>11
<1>14. Golay_24_12(C) = SymDiff(Golay_24_12(A), Golay_24_12(B))
  BY <1>8, <1>10, <1>12, <1>13 DEF SymDiff
<1> QED BY <1>14 DEF C

\* A word within three bits of one of the code is more than three from the others.
LEMMA GolayNearest ==
  ASSUME NEW A, A \subseteq 0 .. 11, NEW B, B \subseteq 0 .. 11, A # B,
         NEW row, row \subseteq 0 .. 23,
         Cardinality(SymDiff(row, Golay_24_12(A))) <= 3
  PROVE  Cardinality(SymDiff(row, Golay_24_12(B))) > Cardinality(SymDiff(row, Golay_24_12(A)))
<1> DEFINE GA == Golay_24_12(A)
           GB == Golay_24_12(B)
           X == SymDiff(row, GA)
           Y == SymDiff(row, GB)
<1>1. GA \subseteq 0 .. 23 /\ GB \subseteq 0 .. 23 BY GolayWords
<1>2. SymDiff(A, B) \in SUBSET (0 .. 11) /\ SymDiff(A, B) # {} BY DEF SymDiff
<1>3. Cardinality(SymDiff(GA, GB)) >= 8 BY <1>2, GolaySum, GolayDistance
<1> HIDE DEF GA, GB
<1>4. X \subseteq 0 .. 23 /\ Y \subseteq 0 .. 23 /\ SymDiff(GA, GB) = SymDiff(X, Y)
  BY <1>1 DEF SymDiff
<1>5. SymDiff(X, Y) \in SUBSET (X \cup Y) BY DEF SymDiff
<1>6. PICK n \in Nat : n = 23 OBVIOUS
<1>7. IsFiniteSet(X) /\ IsFiniteSet(Y)
  <2> HIDE DEF X, Y
  <2> QED BY <1>4, <1>6, WithinFinite
<1>8. Cardinality(X) <= 3 BY DEF GA
<1> HIDE DEF X, Y
<1>9. /\ IsFiniteSet(X \cup Y)
      /\ Cardinality(X \cup Y) = Cardinality(X) + Cardinality(Y) - Cardinality(X \cap Y)
  BY <1>7, FS_Union
<1>10. IsFiniteSet(SymDiff(X, Y)) /\ Cardinality(SymDiff(X, Y)) <= Cardinality(X \cup Y)
  BY <1>5, <1>9, FS_Subset
<1>11. IsFiniteSet(X \cap Y) BY <1>7, FS_Subset
<1>12. /\ Cardinality(X) \in Nat /\ Cardinality(Y) \in Nat /\ Cardinality(X \cap Y) \in Nat
       /\ Cardinality(SymDiff(X, Y)) \in Nat
  BY <1>7, <1>10, <1>11, FS_CardinalityType
<1>13. Cardinality(SymDiff(X, Y)) >= 8 BY <1>3, <1>4
<1>14. Cardinality(Y) > Cardinality(X) BY <1>8, <1>9, <1>10, <1>12, <1>13
<1> QED BY <1>14 DEF X, Y, GA, GB

\* The first word of each frame a fade of up to five bits may have struck is nearer to the
\* word sent than to that of any other seed.
SeedTold ==
  IsVoice(unit) /\ fade.len <= 5 =>
    \A i \in 1 .. 3 :
      LET row == DeinterleaveRows(ExtractAmbe(Heard(fade.burst))[i])[0]
      IN  \A seed \in SUBSET (0 .. 11) :
            seed # Said[i].seed =>
              Cardinality(SymDiff(row, Golay_24_12(seed))) > Cardinality(SymDiff(row, Said[i].first))

LEMMA SeedToldOfType == AirType => SeedTold
<1> SUFFICES ASSUME AirType, IsVoice(unit), fade.len <= 5, NEW i \in 1 .. 3,
                    NEW other \in SUBSET (0 .. 11), other # Said[i].seed
             PROVE  LET row == DeinterleaveRows(ExtractAmbe(Heard(fade.burst))[i])[0]
                    IN  Cardinality(SymDiff(row, Golay_24_12(other)))
                          > Cardinality(SymDiff(row, Said[i].first))
  BY DEF SeedTold
<1> DEFINE frame == ExtractAmbe(Heard(fade.burst))[i]
           row == DeinterleaveRows(frame)[0]
           seed == Said[i].seed
           source == Scatter(Voice[i])
           F == ChannelEncode(ToChip(source))
<1>1. /\ source \subseteq 0 .. 48 /\ Ambe[i] = F /\ seed = Seed(source)
      /\ Said[i].first = FirstWord(source)
  BY VoiceSource
<1>2. Hit(i) \subseteq 0 .. 71 /\ frame = SymDiff(Ambe[i], Hit(i)) BY HeardFrame
<1>3. F \subseteq 0 .. 71 /\ DeinterleaveRows(F)[0] = FirstWord(source) BY <1>1, EncodedRows
<1>4. seed \subseteq 0 .. 11
  <2>1. \A j \in 0 .. 11 : 11 - j \in 0 .. 11 OBVIOUS
  <2> HIDE DEF source
  <2> QED BY <1>1, <2>1 DEF Seed
<1>5. Said[i].first = Golay_24_12(seed) BY <1>1 DEF FirstWord
<1>6. other # seed OBVIOUS
<1> HIDE DEF source, seed, F, frame
<1>7. row = SymDiff(FirstWord(source), DeinterleaveRows(Hit(i))[0])
  <2>1. 0 \in 0 .. 3 OBVIOUS
  <2>2. DeinterleaveRows(SymDiff(F, Hit(i)))[0] =
          SymDiff(DeinterleaveRows(F)[0], DeinterleaveRows(Hit(i))[0])
    BY <1>2, <1>3, <2>1, RowDamage, Zenon
  <2>3. frame = SymDiff(F, Hit(i)) BY <1>1, <1>2
  <2> QED BY <1>3, <2>2, <2>3
<1>8. SymDiff(row, Said[i].first) = DeinterleaveRows(Hit(i))[0]
  <2> HIDE DEF row
  <2> QED BY <1>1, <1>7, Untangle
<1>9. Cardinality(SymDiff(row, Said[i].first)) <= 3
  <2>1. FadeShape BY DEF AirType, Bursts, FadeShape
  <2>2. PICK q \in Int : Hit(i) \subseteq q .. q + 4 BY <2>1, HitShort
  <2>3. \A r \in {0, 1} : Cardinality(DeinterleaveRows(Hit(i))[r]) <= 3 BY <1>2, <2>2, RowHits
  <2>4. Cardinality(DeinterleaveRows(Hit(i))[0]) <= 3 BY <2>3, Zenon
  <2> HIDE DEF row
  <2> QED BY <1>8, <2>4
<1>10. row \subseteq 0 .. 23
  <2>1. Golay_24_12(seed) \subseteq 0 .. 23 BY <1>4, GolayWords
  <2>2. DeinterleaveRows(Hit(i))[0] \subseteq 0 .. 23
    <3>1. 0 \in 0 .. 3 /\ Width(0) = 23 BY DEF Width
    <3>2. DeinterleaveRows(Hit(i))[0] \subseteq 0 .. Width(0) BY <1>2, <3>1, RowMember, Zenon
    <3> QED BY <3>1, <3>2
  <2> HIDE DEF row
  <2> QED BY <1>1, <1>5, <1>7, <2>1, <2>2 DEF SymDiff
<1> HIDE DEF row
<1>11. Cardinality(SymDiff(row, Golay_24_12(other))) > Cardinality(SymDiff(row, Golay_24_12(seed)))
  <2>1. Cardinality(SymDiff(row, Golay_24_12(seed))) <= 3 BY <1>5, <1>9
  <2>2. other \subseteq 0 .. 11 OBVIOUS
  <2> QED BY <1>4, <1>10, <1>6, <2>1, <2>2, GolayNearest, Zenon
<1>12. Cardinality(SymDiff(row, Golay_24_12(other))) > Cardinality(SymDiff(row, Said[i].first))
  BY <1>5, <1>11
<1> QED BY <1>12, Zenon DEF row, frame

\* So a radio that takes the nearest word has the seed of every frame, and with it the
\* whitening of the second word, through a fade of up to five bits (channel_encode).
THEOREM SeedHeard == Spec => []SeedTold
<1>1. Spec => []AirType BY AirTypeHolds
<1>2. AirType => SeedTold BY SeedToldOfType
<1> QED BY <1>1, <1>2, PTL

\* LC and voice of every call survive a fade of up to eight bits.
THEOREM CallHolds == ASSUME MaxFade <= 8 PROVE Spec => []CallSurvives
<1>1. Spec => []FullLcSurvives BY FullLcHolds
<1>2. Spec => []EmbeddedSurvives BY EmbeddedHolds
<1>3. Spec => []VoiceSurvives BY VoiceHolds
<1>4. FullLcSurvives /\ EmbeddedSurvives /\ VoiceSurvives => CallSurvives BY DEF CallSurvives
<1> QED BY <1>1, <1>2, <1>3, <1>4, PTL
================================================================================
