-------------------------------- MODULE Loops --------------------------------
(***************************************************************************)
(* Induction over what a loop computes.  A loop of the model is a function *)
(* at[n \in 0..N] that gives the state before it for n = 0 and Step of     *)
(* at[n - 1] after its n-th turn, with parameters x that stay.  An         *)
(* instance of this module for the Step of a loop and a claim Good, of the *)
(* state after n turns, gives the theorem that Good holds at the end if it *)
(* holds at the beginning and every turn keeps it.                         *)
(***************************************************************************)
EXTENDS Integers, TLAPS, WellFoundedInduction

CONSTANTS Step(_, _, _), Good(_, _, _)

At(w, x, N) ==
  LET at[n \in 0..N] == IF n = 0 THEN w ELSE Step(at[n - 1], n, x) IN at[N]

\* The natural numbers are the only set of them that has 0 and the successor of
\* each of its members: there is no least number outside it.
LEMMA SetInduction ==
  ASSUME NEW S \in SUBSET Nat, 0 \in S, \A n \in S : n + 1 \in S
  PROVE  S = Nat
<1> DEFINE R == OpToRel(<, Nat)
           T == Nat \ S
<1>1. IsWellFoundedOn(R, Nat)
  BY NatLessThanWellFounded
<1>2. SUFFICES ASSUME T # {} PROVE FALSE
  OBVIOUS
<1>3. PICK x \in T : \A y \in T : ~ (<<y, x>> \in R)
  <2> HIDE DEF R, T
  <2> T \subseteq Nat BY DEF T
  <2> QED BY <1>1, <1>2, WFMin
<1>4. x # 0 /\ x \in Nat OBVIOUS
<1>5. x - 1 \in T BY <1>4
<1>6. <<x - 1, x>> \in R BY <1>4 DEF OpToRel
<1> QED BY <1>3, <1>5, <1>6

\* What holds before a loop and is kept by each of its turns holds after it.
LEMMA Kept ==
  ASSUME NEW w, NEW x, NEW N \in Nat, Good(w, 0, x),
         \A v : \A n \in 1..N : Good(v, n - 1, x) => Good(Step(v, n, x), n, x)
  PROVE  Good(At(w, x, N), N, x)
<1> DEFINE Is(f, k) == f = [n \in 0..k |-> IF n = 0 THEN w ELSE Step(f[n - 1], n, x)]
           Has == {k \in Nat : \E f : Is(f, k)}
           at == CHOOSE f : Is(f, N)
           Fine == {k \in Nat : k <= N => Good(at[k], k, x)}
<1>1. 0 \in Has
  <2> Is([n \in 0..0 |-> w], 0) OBVIOUS
  <2> QED OBVIOUS
<1>2. ASSUME NEW k \in Has PROVE k + 1 \in Has
  <2>1. PICK f : Is(f, k) OBVIOUS
  <2> DEFINE g == [n \in 0..(k + 1) |-> IF n = k + 1 THEN Step(f[k], k + 1, x) ELSE f[n]]
  <2>2. Is(g, k + 1) BY <2>1
  <2>3. k + 1 \in Nat OBVIOUS
  <2> HIDE DEF g, Is
  <2> QED BY <2>2, <2>3
<1>3. Has = Nat
  <2> HIDE DEF Has
  <2> Has \in SUBSET Nat BY DEF Has
  <2> QED BY <1>1, <1>2, SetInduction
<1>4. Is(at, N) BY <1>3
<1>5. At(w, x, N) = at[N] BY DEF At
<1> HIDE DEF at, Is, Has
<1>6. 0 \in Fine BY <1>4 DEF Is
<1>7. ASSUME NEW k \in Fine PROVE k + 1 \in Fine
  <2>1. SUFFICES ASSUME k + 1 <= N PROVE Good(at[k + 1], k + 1, x) OBVIOUS
  <2>2. Good(at[k], k, x) BY <2>1
  <2>3. k + 1 \in 1..N /\ (k + 1) - 1 = k BY <2>1
  <2>4. Good(Step(at[k], k + 1, x), k + 1, x) BY <2>2, <2>3
  <2> QED BY <1>4, <2>3, <2>4 DEF Is
<1>8. Fine = Nat
  <2> HIDE DEF Fine
  <2> Fine \in SUBSET Nat BY DEF Fine
  <2> QED BY <1>6, <1>7, SetInduction
<1> QED BY <1>8, <1>5
=============================================================================
