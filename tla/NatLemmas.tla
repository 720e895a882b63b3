----------------------------- MODULE NatLemmas ------------------------------
(***************************************************************************)
(* Facts about naturals that the proofs about scans and recursive          *)
(* functions share.  Induction is stated over a set, so that the provers   *)
(* can use it: what is proved by induction is first made a set of naturals.*)
(***************************************************************************)
EXTENDS Integers, WellFoundedInduction, TLAPS

\* A non-empty set of naturals has a least element.
LEMMA LeastNat ==
  ASSUME NEW T \in SUBSET Nat, T # {}
  PROVE  \E x \in T : \A y \in T : x <= y
<1> DEFINE R == {ss \in Nat \X Nat : ss[1] < ss[2]}
<1>1. OpToRel(<, Nat) = R
  BY DEF OpToRel
<1>2. IsWellFoundedOn(R, Nat)
  BY <1>1, NatLessThanWellFounded
<1>3. PICK x \in T : \A y \in T : ~(<<y, x>> \in R)
  <2> HIDE DEF R
  <2> QED BY <1>2, WFMin
<1>4. ASSUME NEW y \in T PROVE x <= y
  <2>1. x \in Nat /\ y \in Nat /\ <<y, x>> \notin R
    BY <1>3
  <2>2. ~(y < x)
    BY <2>1
  <2> QED BY <2>1, <2>2
<1> QED BY <1>4

\* A set that has 0 and, with a natural, its successor, has them all.
LEMMA SetInduction ==
  ASSUME NEW T, 0 \in T, \A n \in Nat : n \in T => n + 1 \in T
  PROVE  \A n \in Nat : n \in T
<1> SUFFICES ASSUME NEW z \in Nat, z \notin T PROVE FALSE
  OBVIOUS
<1>1. PICK x \in Nat \ T : \A y \in Nat \ T : x <= y
  BY LeastNat
<1>2. x # 0 /\ x - 1 \in Nat
  BY <1>1
<1>3. x - 1 \in T
  BY <1>1, <1>2
<1> QED BY <1>1, <1>2, <1>3

\* The same up to N.
LEMMA UpTo ==
  ASSUME NEW N \in Nat, NEW T, 0 \in T, \A n \in 0..(N-1) : n \in T => n + 1 \in T
  PROVE  \A n \in 0..N : n \in T
<1> DEFINE U == {n \in Nat : n <= N => n \in T}
<1>1. 0 \in U
  OBVIOUS
<1>2. ASSUME NEW n \in Nat, n \in U PROVE n + 1 \in U
  BY <1>2
<1>3. \A n \in Nat : n \in U
  <2> HIDE DEF U
  <2> QED BY <1>1, <1>2, SetInduction
<1> QED BY <1>3

\* A walk from 1 to N that may not enter T has a place to stop: the end, or the
\* last place before T.
LEMMA FirstBreak ==
  ASSUME NEW N \in Nat, N >= 1, NEW T \in SUBSET (2..N)
  PROVE  \E n \in 1..N : (\A j \in 2..n : j \notin T) /\ (n < N => n + 1 \in T)
<1>1. CASE T = {}
  BY <1>1
<1>2. CASE T # {}
  <2>1. PICK m \in T : \A y \in T : m <= y
    BY <1>2, LeastNat
  <2>2. m - 1 \in 1..N /\ (m - 1) + 1 \in T /\ \A j \in 2..(m - 1) : j \notin T
    BY <2>1
  <2> QED BY <2>2
<1> QED BY <1>1, <1>2

\* f starts with b and follows step.
Follows(f, N, S, b, step) ==
  /\ f \in [0..N -> S] /\ f[0] = b
  /\ \A n \in 1..N : f[n] = step[<<n, f[n-1]>>]

\* A recursion over 0..N whose steps stay in S has a solution.
LEMMA Recursion ==
  ASSUME NEW N \in Nat, NEW S, NEW b \in S, NEW step \in [(1..N) \X S -> S]
  PROVE  \E f : Follows(f, N, S, b, step)
<1> DEFINE F(f, m) == f[0] = b /\ \A n \in 1..m : f[n] = step[<<n, f[n-1]>>]
           T == {m \in Nat : \E f \in [0..m -> S] : F(f, m)}
<1>1. 0 \in T
  <2>1. [n \in 0..0 |-> b] \in [0..0 -> S] /\ F([n \in 0..0 |-> b], 0)
    OBVIOUS
  <2> QED BY <2>1
<1>2. ASSUME NEW m \in 0..(N-1), m \in T PROVE m + 1 \in T
  <2>1. PICK f \in [0..m -> S] : F(f, m)
    BY <1>2
  <2> DEFINE g == [n \in 0..(m+1) |-> IF n = m + 1 THEN step[<<m + 1, f[m]>>] ELSE f[n]]
  <2>2. m + 1 \in 1..N /\ f[m] \in S
    BY <2>1
  <2>3. step[<<m + 1, f[m]>>] \in S
    BY <2>2
  <2>4. g \in [0..(m+1) -> S]
    BY <2>1, <2>3
  <2>5. ASSUME NEW n \in 1..(m+1) PROVE g[n] = step[<<n, g[n-1]>>]
    <3>1. CASE n = m + 1
      <4>1. g[m+1] = step[<<m + 1, f[m]>>] /\ g[m] = f[m]
        OBVIOUS
      <4>2. n - 1 = m
        BY <3>1
      <4> HIDE DEF g
      <4> QED BY <3>1, <4>1, <4>2
    <3>2. CASE n # m + 1
      BY <2>1, <3>2
    <3> QED BY <3>1, <3>2
  <2>6. g[0] = b
    BY <2>1
  <2>7. F(g, m + 1)
    BY <2>5, <2>6
  <2> HIDE DEF g, F
  <2> QED BY <2>4, <2>7
<1>3. \A m \in 0..N : m \in T
  <2> HIDE DEF T
  <2> QED BY <1>1, <1>2, UpTo
<1>4. PICK f \in [0..N -> S] : F(f, N)
  BY <1>3
<1> QED BY <1>4 DEF Follows

LEMMA FollowsStep ==
  ASSUME NEW N \in Nat, NEW S, NEW b, NEW step, NEW f, Follows(f, N, S, b, step),
         NEW n \in 1..N
  PROVE  f[n] = step[<<n, f[n-1]>>] /\ f[n-1] \in S
<1>1. n - 1 \in 0..N
  OBVIOUS
<1> QED BY <1>1 DEF Follows

\* What holds at 0 and is kept by each step holds up to N.
LEMMA RecursionKeeps ==
  ASSUME NEW N \in Nat, NEW P, NEW f, f[0] \in P,
         \A n \in 1..N : f[n-1] \in P => f[n] \in P
  PROVE  \A n \in 0..N : f[n] \in P
<1> DEFINE T == {n \in Nat : f[n] \in P}
<1>1. 0 \in T
  OBVIOUS
<1>2. ASSUME NEW n \in 0..(N-1), n \in T PROVE n + 1 \in T
  <2>1. n + 1 \in 1..N /\ (n + 1) - 1 = n
    OBVIOUS
  <2>2. f[(n + 1) - 1] \in P
    BY <1>2, <2>1
  <2>3. f[n + 1] \in P
    BY <2>1, <2>2
  <2> QED BY <2>3
<1>3. \A n \in 0..N : n \in T
  <2> HIDE DEF T
  <2> QED BY <1>1, <1>2, UpTo
<1> QED BY <1>3
=============================================================================
