--------------------------- MODULE NumberTheorems ---------------------------
(***************************************************************************)
(* Facts about numbers and sequences that several proofs need: induction,  *)
(* definition by recursion, quotients and rests, and what is appended.     *)
(***************************************************************************)
EXTENDS Integers, Sequences, WellFoundedInduction, TLAPS

(* A set of numbers has a least one. *)
LEMMA LeastNumber ==
  ASSUME NEW T, T \subseteq Nat, T # {}
  PROVE  \E n \in T : \A m \in T : n <= m
<1> DEFINE R == OpToRel(<, Nat)
<1>1. IsWellFoundedOn(R, Nat)
  BY NatLessThanWellFounded
<1>2. PICK n \in T : \A m \in T : ~(<<m, n>> \in R)
  <2> HIDE DEF R
  <2> QED BY <1>1, WFMin
<1>3. ASSUME NEW m \in T, m < n PROVE FALSE
  <2>1. <<m, n>> \in R
    BY <1>3 DEF OpToRel
  <2> QED BY <1>2, <2>1
<1> QED BY <1>3

(* Induction over the natural numbers. *)
LEMMA Induction ==
  ASSUME NEW T, 0 \in T, \A n \in Nat : n \in T => n + 1 \in T
  PROVE  Nat \subseteq T
<1> SUFFICES ASSUME Nat \ T # {} PROVE FALSE
  OBVIOUS
<1>1. PICK n \in Nat \ T : \A m \in Nat \ T : n <= m
  BY LeastNumber
<1>2. n - 1 \in Nat /\ n - 1 \notin T
  BY <1>1
<1> QED BY <1>1, <1>2

(* A function on 0 .. N can be defined by its first value and a step, F[n], from each
   number to the next. *)
Iterates(f, N, V, a, F) ==
  f \in [0 .. N -> V] /\ f[0] = a /\ \A n \in 1 .. N : f[n] = F[n][f[n - 1]]

LEMMA Recursion ==
  ASSUME NEW N \in Nat, NEW V, NEW a \in V, NEW F \in [1 .. N -> [V -> V]]
  PROVE  \E f : Iterates(f, N, V, a, F)
<1> USE DEF Iterates
<1> DEFINE Sol(f, m) == Iterates(f, m, V, a, F)
           T == {m \in Nat : m <= N => \E f : Sol(f, m)}
<1>1. 0 \in T
  <2> DEFINE f == [n \in 0 .. 0 |-> a]
  <2>1. Sol(f, 0)
    OBVIOUS
  <2> HIDE DEF f
  <2> QED BY <2>1
<1>2. ASSUME NEW m \in Nat, m \in T PROVE m + 1 \in T
  <2> SUFFICES ASSUME m + 1 <= N PROVE \E f : Sol(f, m + 1)
    OBVIOUS
  <2>1. PICK f : Sol(f, m)
    BY <1>2
  <2> DEFINE g == [n \in 0 .. m + 1 |-> IF n = m + 1 THEN F[m + 1][f[m]] ELSE f[n]]
  <2>2. F[m + 1][f[m]] \in V
    <3>1. f[m] \in V /\ F[m + 1] \in [V -> V]
      BY <2>1
    <3> QED BY <3>1
  <2>3. g \in [0 .. m + 1 -> V] /\ g[0] = a
    BY <2>1, <2>2
  <2>4. ASSUME NEW n \in 1 .. m + 1 PROVE g[n] = F[n][g[n - 1]]
    <3>1. n - 1 \in 0 .. m /\ g[n - 1] = f[n - 1]
      OBVIOUS
    <3>2. n # m + 1 => g[n] = f[n] /\ n \in 1 .. m
      OBVIOUS
    <3>3. n = m + 1 => g[n] = F[m + 1][f[m]] /\ n - 1 = m
      OBVIOUS
    <3> HIDE DEF g
    <3> QED BY <2>1, <3>1, <3>2, <3>3
  <2> HIDE DEF g
  <2> QED BY <2>3, <2>4
<1>3. N \in T
  <2> HIDE DEF T
  <2> QED BY <1>1, <1>2, Induction
<1> QED BY <1>3

-----------------------------------------------------------------------------
(* The quotient and the rest of a number of blocks of B and a rest. *)
LEMMA DivMod ==
  ASSUME NEW B \in Nat \ {0}, NEW q \in Nat, NEW r \in 0 .. B - 1
  PROVE  (q * B + r) \div B = q /\ (q * B + r) % B = r
OBVIOUS

LEMMA DivModNat ==
  ASSUME NEW B \in Nat \ {0}, NEW x \in Nat
  PROVE  x \div B \in Nat /\ x % B \in 0 .. B - 1 /\ x = (x \div B) * B + (x % B)
OBVIOUS

LEMMA FewerBlocks ==
  ASSUME NEW B \in Nat \ {0}, NEW p \in Nat, NEW q \in Nat, p * B < q * B
  PROVE  p < q
OBVIOUS

(* What is appended follows. *)
LEMMA Appended ==
  ASSUME NEW S, NEW p \in Seq(S), NEW q \in Seq(S)
  PROVE  /\ p \o q \in Seq(S) /\ Len(p \o q) = Len(p) + Len(q)
         /\ \A k \in 1 .. Len(p) : (p \o q)[k] = p[k]
         /\ \A k \in 1 .. Len(q) : (p \o q)[Len(p) + k] = q[k]
OBVIOUS
=============================================================================
