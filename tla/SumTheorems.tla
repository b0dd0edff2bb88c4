----------------------------- MODULE SumTheorems ---------------------------
(***************************************************************************)
(* The laws of SumOver, proved from the definition of the community        *)
(* modules' fold.  The induction goes over the subsets of the finite set,  *)
(* well-founded by strict inclusion.                                       *)
(***************************************************************************)
EXTENDS Sums, FiniteSetTheorems, WellFoundedInduction, TLAPS

(* Induction over the subsets of a finite set, with the property given as  *)
(* the set of those that have it.                                          *)
LEMMA SubsetInduction ==
  ASSUME NEW S, IsFiniteSet(S), NEW A,
         \A T \in SUBSET S : (\A U \in SUBSET T : U # T => U \in A) => T \in A
  PROVE  \A T \in SUBSET S : T \in A
<1> DEFINE B == {T \in SUBSET S : T \notin A}
<1> SUFFICES ASSUME B # {} PROVE FALSE
  OBVIOUS
<1>1. IsWellFoundedOn(StrictSubsetOrdering(S), SUBSET S)
  <2>1. FiniteSubsetsOf(S) = SUBSET S
    BY FS_FiniteSubsetsOfFinite
  <2>2. IsWellFoundedOn(StrictSubsetOrdering(S), FiniteSubsetsOf(S))
    BY FS_StrictSubsetOrderingWellFounded
  <2> QED BY <2>1, <2>2
<1>2. PICK T \in B : \A U \in B : <<U, T>> \notin StrictSubsetOrdering(S)
  <2>1. B \subseteq SUBSET S
    OBVIOUS
  <2> HIDE DEF B
  <2> QED BY <1>1, <2>1, WFMin
<1>3. \A U \in SUBSET T : U # T => U \in A
  BY <1>2 DEF StrictSubsetOrdering
<1> QED BY <1>2, <1>3

-----------------------------------------------------------------------------
(* The fold behind SumOver: a function on the subsets that takes out one   *)
(* chosen element at a time.                                               *)
Chosen(s) == CHOOSE x \in s : TRUE

LEMMA ChosenIsIn == \A s : s # {} => Chosen(s) \in s
BY DEF Chosen

Term(g, q, s) == IF s = {} THEN 0 ELSE q[Chosen(s)] + g[s \ {Chosen(s)}]
Adds(g, q, S) == g = [s \in SUBSET S |-> Term(g, q, s)]

(* SumOver is the value of such a function.                                *)
LEMMA SumIsFold ==
  ASSUME NEW q, NEW S
  PROVE  SumOver(q, S) = (CHOOSE g : Adds(g, q, S))[S]
BY DEF SumOver, MapThenSumSet, MapThenFoldSet, Adds, Term, Chosen

(* Two of them agree where both are defined.                               *)
LEMMA AddsAgree ==
  ASSUME NEW q, NEW S, IsFiniteSet(S), NEW T, NEW g, NEW h, Adds(g, q, S), Adds(h, q, T)
  PROVE  \A s \in SUBSET S : s \in SUBSET T => g[s] = h[s]
<1> DEFINE A == {s \in SUBSET S : s \in SUBSET T => g[s] = h[s]}
<1>1. ASSUME NEW s \in SUBSET S, \A u \in SUBSET s : u # s => u \in A
      PROVE  s \in A
  <2> SUFFICES ASSUME s \in SUBSET T PROVE g[s] = h[s]
    OBVIOUS
  <2>1. g[s] = Term(g, q, s) /\ h[s] = Term(h, q, s)
    BY DEF Adds
  <2>2. CASE s = {}
    BY <2>1, <2>2 DEF Term
  <2>3. CASE s # {}
    <3> DEFINE u == s \ {Chosen(s)}
    <3>1. u \in SUBSET s /\ u # s
      BY <2>3, ChosenIsIn
    <3>2. g[u] = h[u]
      BY <1>1, <3>1
    <3> QED BY <2>1, <2>3, <3>2 DEF Term
  <2> QED BY <2>2, <2>3
<1>2. \A s \in SUBSET S : s \in A
  <2> HIDE DEF A
  <2> QED BY <1>1, SubsetInduction
<1> QED BY <1>2

(* There is one on every finite set.                                       *)
LEMMA AddsExist ==
  ASSUME NEW q, NEW S, IsFiniteSet(S)
  PROVE  \E g : Adds(g, q, S)
<1> DEFINE A == {T \in SUBSET S : \E g : Adds(g, q, T)}
<1>1. ASSUME NEW T \in SUBSET S, \A U \in SUBSET T : U # T => U \in A
      PROVE  T \in A
  <2> DEFINE F(s) == CHOOSE h : Adds(h, q, s)
             g == [s \in SUBSET T |-> IF s = {} THEN 0
                     ELSE q[Chosen(s)] + F(s \ {Chosen(s)})[s \ {Chosen(s)}]]
  <2>1. \A U \in SUBSET T : U # T => Adds(F(U), q, U)
    BY <1>1
  <2>2. ASSUME NEW s \in SUBSET T, s # {}
        PROVE  g[s \ {Chosen(s)}] = F(s \ {Chosen(s)})[s \ {Chosen(s)}]
    <3> DEFINE u == s \ {Chosen(s)}
    <3>1. u \in SUBSET T /\ u # T
      BY <2>2, ChosenIsIn
    <3>2. Adds(F(u), q, u)
      BY <2>1, <3>1
    <3>3. F(u)[u] = Term(F(u), q, u)
      BY <3>2 DEF Adds
    <3>4. CASE u = {}
      BY <3>1, <3>3, <3>4 DEF Term
    <3>5. CASE u # {}
      <4> DEFINE v == u \ {Chosen(u)}
      <4>1. v \in SUBSET T /\ v # T /\ v \in SUBSET u /\ v \in SUBSET v
        BY <3>1, <3>5, ChosenIsIn
      <4>2. Adds(F(v), q, v)
        BY <2>1, <4>1
      <4>3. IsFiniteSet(v)
        BY <4>1, FS_Subset
      <4>4. F(v)[v] = F(u)[v]
        <5>1. v \in SUBSET v /\ v \in SUBSET u
          BY <4>1
        <5> HIDE DEF F, g, u, v
        <5> QED BY <3>2, <4>2, <4>3, <5>1, AddsAgree
      <4>5. g[u] = q[Chosen(u)] + F(v)[v]
        BY <3>1, <3>5
      <4> QED BY <3>3, <3>5, <4>4, <4>5 DEF Term
    <3> QED BY <3>4, <3>5
  <2>3. \A s \in SUBSET T : g[s] = Term(g, q, s)
    <3> SUFFICES ASSUME NEW s \in SUBSET T PROVE g[s] = Term(g, q, s)
      OBVIOUS
    <3>1. CASE s = {}
      BY <3>1 DEF Term
    <3>2. CASE s # {}
      <4>1. g[s] = q[Chosen(s)] + F(s \ {Chosen(s)})[s \ {Chosen(s)}]
        BY <3>2
      <4>2. g[s \ {Chosen(s)}] = F(s \ {Chosen(s)})[s \ {Chosen(s)}]
        BY <3>2, <2>2
      <4> HIDE DEF g
      <4> QED BY <3>2, <4>1, <4>2 DEF Term
    <3> QED BY <3>1, <3>2
  <2>4. Adds(g, q, T)
    <3>1. g = [s \in SUBSET T |-> g[s]]
      OBVIOUS
    <3> HIDE DEF g
    <3> QED BY <2>3, <3>1 DEF Adds
  <2> QED BY <2>4
<1>2. \A T \in SUBSET S : T \in A
  <2> HIDE DEF A
  <2> QED BY <1>1, SubsetInduction
<1> QED BY <1>2

-----------------------------------------------------------------------------
(* The laws.                                                               *)
LEMMA SumEmpty == \A q : SumOver(q, {}) = 0
<1> TAKE q
<1>1. PICK g : Adds(g, q, {})
  BY AddsExist, FS_EmptySet
<1>2. Adds(CHOOSE h : Adds(h, q, {}), q, {})
  BY <1>1
<1> QED BY <1>2, SumIsFold DEF Adds, Term

(* A sum is its chosen term and the sum of the others.                     *)
LEMMA SumUnfold ==
  ASSUME NEW q, NEW S, IsFiniteSet(S), S # {}
  PROVE  SumOver(q, S) = q[Chosen(S)] + SumOver(q, S \ {Chosen(S)})
<1> DEFINE T == S \ {Chosen(S)}
           F(s) == CHOOSE h : Adds(h, q, s)
<1>1. IsFiniteSet(T) /\ T \in SUBSET S /\ T \in SUBSET T
  BY FS_Subset
<1>2. Adds(F(S), q, S) /\ Adds(F(T), q, T)
  BY <1>1, AddsExist
<1>3. F(T)[T] = F(S)[T]
  BY <1>1, <1>2, AddsAgree
<1>4. F(S)[S] = Term(F(S), q, S)
  BY <1>2 DEF Adds
<1> QED BY <1>3, <1>4, SumIsFold DEF Term


LEMMA SumType ==
  ASSUME NEW q, NEW S, IsFiniteSet(S), \A x \in S : q[x] \in Int
  PROVE  SumOver(q, S) \in Int
<1> DEFINE A == {T \in SUBSET S : SumOver(q, T) \in Int}
<1>1. ASSUME NEW T \in SUBSET S, \A U \in SUBSET T : U # T => U \in A
      PROVE  T \in A
  <2>1. CASE T = {}
    BY <2>1, SumEmpty
  <2>2. CASE T # {}
    <3>1. Chosen(T) \in T /\ SumOver(q, T \ {Chosen(T)}) \in Int
      BY <1>1, <2>2, ChosenIsIn
    <3> QED BY <2>2, <3>1, SumUnfold, FS_Subset
  <2> QED BY <2>1, <2>2
<1>2. \A T \in SUBSET S : T \in A
  <2> HIDE DEF A
  <2> QED BY <1>1, SubsetInduction
<1> QED BY <1>2

LEMMA SumNat ==
  ASSUME NEW q, NEW S, IsFiniteSet(S), \A x \in S : q[x] \in Nat
  PROVE  SumOver(q, S) \in Nat
<1> DEFINE A == {T \in SUBSET S : SumOver(q, T) \in Nat}
<1>1. ASSUME NEW T \in SUBSET S, \A U \in SUBSET T : U # T => U \in A
      PROVE  T \in A
  <2>1. CASE T = {}
    BY <2>1, SumEmpty
  <2>2. CASE T # {}
    <3>1. Chosen(T) \in T /\ SumOver(q, T \ {Chosen(T)}) \in Nat
      BY <1>1, <2>2, ChosenIsIn
    <3> QED BY <2>2, <3>1, SumUnfold, FS_Subset
  <2> QED BY <2>1, <2>2
<1>2. \A T \in SUBSET S : T \in A
  <2> HIDE DEF A
  <2> QED BY <1>1, SubsetInduction
<1> QED BY <1>2

(* Whichever term is taken out.                                            *)
LEMMA SumRemove ==
  ASSUME NEW q, NEW S, IsFiniteSet(S), \A x \in S : q[x] \in Int
  PROVE  \A x \in S : SumOver(q, S) = SumOver(q, S \ {x}) + q[x]
<1> DEFINE A == {T \in SUBSET S : \A x \in T : SumOver(q, T) = SumOver(q, T \ {x}) + q[x]}
<1>1. ASSUME NEW T \in SUBSET S, \A U \in SUBSET T : U # T => U \in A
      PROVE  T \in A
  <2> SUFFICES ASSUME NEW x \in T PROVE SumOver(q, T) = SumOver(q, T \ {x}) + q[x]
    OBVIOUS
  <2> DEFINE y == Chosen(T)
             U == T \ {x, y}
  <2>1. y \in T /\ IsFiniteSet(T) /\ q[y] \in Int /\ q[x] \in Int
    BY ChosenIsIn, FS_Subset
  <2>2. SumOver(q, T) = q[y] + SumOver(q, T \ {y})
    BY SumUnfold, <2>1
  <2>6. SumOver(q, T \ {x}) \in Int /\ SumOver(q, U) \in Int
    BY SumType, FS_Subset, <2>1
  <2>3. CASE x = y
    BY <2>1, <2>2, <2>3, <2>6
  <2>4. CASE x # y
    <3>1. T \ {y} \in A /\ T \ {x} \in A
      BY <1>1, <2>1
    <3>2. x \in T \ {y} /\ y \in T \ {x} /\ (T \ {y}) \ {x} = U /\ (T \ {x}) \ {y} = U
      BY <2>1, <2>4
    <3> HIDE DEF y, U
    <3>3. SumOver(q, T \ {y}) = SumOver(q, U) + q[x] /\ SumOver(q, T \ {x}) = SumOver(q, U) + q[y]
      BY <3>1, <3>2
    <3> QED BY <2>1, <2>2, <2>6, <3>3
  <2> QED BY <2>3, <2>4
<1>2. \A T \in SUBSET S : T \in A
  <2> HIDE DEF A
  <2> QED BY <1>1, SubsetInduction
<1>3. S \in A
  BY <1>2
<1> QED BY <1>3

LEMMA SumEqual ==
  ASSUME NEW p, NEW q, NEW S, IsFiniteSet(S), \A x \in S : p[x] = q[x]
  PROVE  SumOver(p, S) = SumOver(q, S)
<1> DEFINE A == {T \in SUBSET S : SumOver(p, T) = SumOver(q, T)}
<1>1. ASSUME NEW T \in SUBSET S, \A U \in SUBSET T : U # T => U \in A
      PROVE  T \in A
  <2>1. CASE T = {}
    BY <2>1, SumEmpty
  <2>2. CASE T # {}
    <3>1. Chosen(T) \in T /\ SumOver(p, T \ {Chosen(T)}) = SumOver(q, T \ {Chosen(T)})
      BY <1>1, <2>2, ChosenIsIn
    <3>2. IsFiniteSet(T) /\ p[Chosen(T)] = q[Chosen(T)]
      BY <3>1, FS_Subset
    <3>3. /\ SumOver(p, T) = p[Chosen(T)] + SumOver(p, T \ {Chosen(T)})
          /\ SumOver(q, T) = q[Chosen(T)] + SumOver(q, T \ {Chosen(T)})
      BY <2>2, <3>2, SumUnfold
    <3> QED BY <3>1, <3>2, <3>3
  <2> QED BY <2>1, <2>2
<1>2. \A T \in SUBSET S : T \in A
  <2> HIDE DEF A
  <2> QED BY <1>1, SubsetInduction
<1> QED BY <1>2

LEMMA SumAdd ==
  ASSUME NEW q, NEW S, IsFiniteSet(S), NEW x, x \notin S, \A y \in S \cup {x} : q[y] \in Int
  PROVE  SumOver(q, S \cup {x}) = SumOver(q, S) + q[x]
<1>1. IsFiniteSet(S \cup {x})
  BY FS_AddElement
<1>2. (S \cup {x}) \ {x} = S
  OBVIOUS
<1> QED BY <1>1, <1>2, SumRemove

(* Only one term is another.                                               *)
LEMMA SumChange ==
  ASSUME NEW p, NEW q, NEW S, IsFiniteSet(S), NEW x \in S,
         \A y \in S : p[y] \in Int /\ q[y] \in Int,
         \A y \in S \ {x} : p[y] = q[y]
  PROVE  SumOver(q, S) = SumOver(p, S) - p[x] + q[x]
<1>1. IsFiniteSet(S \ {x})
  BY FS_Subset
<1>2. SumOver(p, S \ {x}) = SumOver(q, S \ {x}) /\ SumOver(p, S \ {x}) \in Int
  BY <1>1, SumEqual, SumType
<1>3. SumOver(p, S) = SumOver(p, S \ {x}) + p[x]
  BY SumRemove
<1>4. SumOver(q, S) = SumOver(q, S \ {x}) + q[x]
  BY SumRemove
<1> QED BY <1>2, <1>3, <1>4

(* Term by term no larger.                                                 *)
LEMMA SumUpTo ==
  ASSUME NEW p, NEW q, NEW S, IsFiniteSet(S),
         \A x \in S : p[x] \in Int /\ q[x] \in Int /\ p[x] <= q[x]
  PROVE  SumOver(p, S) <= SumOver(q, S)
<1> DEFINE A == {T \in SUBSET S : SumOver(p, T) <= SumOver(q, T)}
<1>1. ASSUME NEW T \in SUBSET S, \A U \in SUBSET T : U # T => U \in A
      PROVE  T \in A
  <2>1. CASE T = {}
    BY <2>1, SumEmpty
  <2>2. CASE T # {}
    <3> DEFINE x == Chosen(T)
    <3>1. x \in T /\ SumOver(p, T \ {x}) <= SumOver(q, T \ {x})
      BY <1>1, <2>2, ChosenIsIn
    <3>2. IsFiniteSet(T) /\ IsFiniteSet(T \ {x})
      BY FS_Subset
    <3>3. SumOver(p, T \ {x}) \in Int /\ SumOver(q, T \ {x}) \in Int
      BY <3>2, SumType
    <3>4. /\ SumOver(p, T) = p[x] + SumOver(p, T \ {x})
          /\ SumOver(q, T) = q[x] + SumOver(q, T \ {x})
      BY <2>2, <3>2, SumUnfold
    <3>5. p[x] \in Int /\ q[x] \in Int /\ p[x] <= q[x]
      BY <3>1
    <3> QED BY <3>1, <3>3, <3>4, <3>5
  <2> QED BY <2>1, <2>2
<1>2. \A T \in SUBSET S : T \in A
  <2> HIDE DEF A
  <2> QED BY <1>1, SubsetInduction
<1> QED BY <1>2

(* A part of the terms adds up to no more than all of them.                *)
LEMMA SumSubset ==
  ASSUME NEW q, NEW S, IsFiniteSet(S), \A x \in S : q[x] \in Nat, NEW T \in SUBSET S
  PROVE  SumOver(q, T) <= SumOver(q, S)
<1> DEFINE A == {U \in SUBSET S : \A V \in SUBSET U : SumOver(q, V) <= SumOver(q, U)}
<1>1. ASSUME NEW U \in SUBSET S, \A W \in SUBSET U : W # U => W \in A
      PROVE  U \in A
  <2> SUFFICES ASSUME NEW V \in SUBSET U PROVE SumOver(q, V) <= SumOver(q, U)
    OBVIOUS
  <2>1. IsFiniteSet(U) /\ IsFiniteSet(V)
    BY FS_Subset
  <2>2. SumOver(q, U) \in Nat /\ SumOver(q, V) \in Nat
    BY <2>1, SumNat
  <2>3. CASE V = U
    BY <2>2, <2>3
  <2>4. CASE V # U
    <3>1. PICK x \in U : x \notin V
      BY <2>4
    <3> DEFINE W == U \ {x}
    <3>2. W \in A /\ V \in SUBSET W /\ IsFiniteSet(W)
      BY <1>1, <2>1, <3>1, FS_Subset
    <3>3. SumOver(q, V) <= SumOver(q, W)
      BY <3>2
    <3>4. SumOver(q, W) \in Nat /\ q[x] \in Nat
      BY <3>2, SumNat
    <3>5. SumOver(q, U) = SumOver(q, W) + q[x]
      BY <2>1, SumRemove
    <3> HIDE DEF W
    <3> QED BY <2>2, <3>3, <3>4, <3>5
  <2> QED BY <2>3, <2>4
<1>2. S \in A
  <2>1. \A U \in SUBSET S : U \in A
    <3> HIDE DEF A
    <3> QED BY <1>1, SubsetInduction
  <2> QED BY <2>1
<1> QED BY <1>2

(* The sum of two sums.                                                    *)
LEMMA SumTogether ==
  ASSUME NEW p, NEW q, NEW r, NEW S, IsFiniteSet(S),
         \A x \in S : p[x] \in Int /\ q[x] \in Int /\ r[x] = p[x] + q[x]
  PROVE  SumOver(r, S) = SumOver(p, S) + SumOver(q, S)
<1> DEFINE A == {T \in SUBSET S : SumOver(r, T) = SumOver(p, T) + SumOver(q, T)}
<1>1. ASSUME NEW T \in SUBSET S, \A U \in SUBSET T : U # T => U \in A
      PROVE  T \in A
  <2>1. CASE T = {}
    BY <2>1, SumEmpty
  <2>2. CASE T # {}
    <3> DEFINE x == Chosen(T)
    <3>1. x \in T /\ SumOver(r, T \ {x}) = SumOver(p, T \ {x}) + SumOver(q, T \ {x})
      BY <1>1, <2>2, ChosenIsIn
    <3>2. IsFiniteSet(T) /\ IsFiniteSet(T \ {x})
      BY FS_Subset
    <3>3. SumOver(p, T \ {x}) \in Int /\ SumOver(q, T \ {x}) \in Int
      BY <3>2, SumType
    <3>4. /\ SumOver(p, T) = p[x] + SumOver(p, T \ {x})
          /\ SumOver(q, T) = q[x] + SumOver(q, T \ {x})
          /\ SumOver(r, T) = r[x] + SumOver(r, T \ {x})
      BY <2>2, <3>2, SumUnfold
    <3>5. p[x] \in Int /\ q[x] \in Int /\ r[x] = p[x] + q[x]
      BY <3>1
    <3> QED BY <3>1, <3>3, <3>4, <3>5
  <2> QED BY <2>1, <2>2
<1>2. \A T \in SUBSET S : T \in A
  <2> HIDE DEF A
  <2> QED BY <1>1, SubsetInduction
<1> QED BY <1>2
=============================================================================
