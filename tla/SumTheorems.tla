----------------------------- MODULE SumTheorems -----------------------------
(***************************************************************************)
(* What the sums of this project compute.  SumFunctionOnSet(f, S) of the   *)
(* community modules is a recursive function over the subsets of S that    *)
(* takes out an arbitrary element at a time; here it is shown to be an     *)
(* integer, to grow by f[x] when x joins S, to depend on f only as far as  *)
(* S goes, and to grow with S and with f.  Induction is done on sets: a    *)
(* set of counterexamples that is not empty has a minimal element.  Last,  *)
(* the elements of a finite, totally ordered set have the ranks 0, 1, 2... *)
(***************************************************************************)
EXTENDS Orders, Functions, FiniteSetTheorems, WellFoundedInduction, TLAPS

Picked(s) == CHOOSE x \in s : TRUE

(* One unfolding of the recursion, and the functions that satisfy it.      *)
SumStep(f, h, s) == IF s = {} THEN 0 ELSE f[Picked(s)] + h[s \ {Picked(s)}]

Sums(f, S) == {h \in [SUBSET S -> Int] : \A s \in SUBSET S : h[s] = SumStep(f, h, s)}

(* The recursion in the form of SumStep.                                   *)
LEMMA SumUnfolds ==
    ASSUME NEW f, NEW S
    PROVE  SumFunctionOnSet(f, S)
             = (CHOOSE h : h = [s \in SUBSET S |-> SumStep(f, h, s)])[S]
BY DEF SumFunctionOnSet, FoldFunctionOnSet, MapThenFoldSet, SumStep, Picked

LEMMA PickedInSet == ASSUME NEW s, s # {} PROVE Picked(s) \in s
BY DEF Picked

(* A non-empty family of subsets of a finite set has a minimal member.     *)
LEMMA MinimalSubset ==
    ASSUME NEW I, IsFiniteSet(I), NEW T \in SUBSET SUBSET I, T # {}
    PROVE  \E s \in T : \A t \in T : ~(t \subseteq s /\ t # s)
<1>1. IsWellFoundedOn(StrictSubsetOrdering(I), FiniteSubsetsOf(I))
  BY FS_StrictSubsetOrderingWellFounded
<1>2. T \subseteq FiniteSubsetsOf(I)
  BY FS_Subset DEF FiniteSubsetsOf
<1>3. PICK s \in T : \A t \in T : ~(<<t, s>> \in StrictSubsetOrdering(I))
  BY <1>1, <1>2, WFMin
<1> QED BY <1>3 DEF StrictSubsetOrdering

(* A non-empty finite set of integers has a smallest element.             *)
LEMMA LeastMember ==
    ASSUME NEW S, IsFiniteSet(S), S \in SUBSET Int, S # {}
    PROVE  \E u \in S : \A v \in S : u <= v
<1> DEFINE Below(u) == {v \in S : v < u}
           T == {Below(u) : u \in S}
<1>1. \A u \in S : Below(u) \in SUBSET S
  OBVIOUS
<1>2. T \in SUBSET SUBSET S
  BY <1>1
<1>3. T # {}
  OBVIOUS
<1>a. IsFiniteSet(S)
  OBVIOUS
<1>4. PICK s \in T : \A t \in T : ~(t \subseteq s /\ t # s)
  <2> HIDE DEF T
  <2> QED BY ONLY <1>a, <1>2, <1>3, MinimalSubset
<1>5. PICK u \in S : s = Below(u)
  OBVIOUS
<1>6. ASSUME NEW v \in S, v < u PROVE FALSE
  <2>1. u \in Int /\ v \in Int
    OBVIOUS
  <2>2. \A w \in S : w < v => w < u
    BY <1>6, <2>1
  <2>3. Below(v) \subseteq Below(u)
    BY <2>2
  <2>4. v \in Below(u) /\ ~(v \in Below(v))
    BY <1>6, <2>1
  <2>5. Below(v) \in T
    OBVIOUS
  <2> HIDE DEF Below, T
  <2> QED BY <1>4, <1>5, <2>3, <2>4, <2>5
<1>7. \A v \in S : u <= v
  BY <1>6
<1> QED BY <1>7

(* A non-empty finite set of integers has a greatest element.             *)
LEMMA GreatestMember ==
    ASSUME NEW S, IsFiniteSet(S), S \in SUBSET Int, S # {}
    PROVE  \E u \in S : \A v \in S : v <= u
<1> DEFINE Above(u) == {v \in S : v > u}
           T == {Above(u) : u \in S}
<1>1. \A u \in S : Above(u) \in SUBSET S
  OBVIOUS
<1>2. T \in SUBSET SUBSET S
  BY <1>1
<1>3. T # {}
  OBVIOUS
<1>a. IsFiniteSet(S)
  OBVIOUS
<1>4. PICK s \in T : \A t \in T : ~(t \subseteq s /\ t # s)
  <2> HIDE DEF T
  <2> QED BY ONLY <1>a, <1>2, <1>3, MinimalSubset
<1>5. PICK u \in S : s = Above(u)
  OBVIOUS
<1>6. ASSUME NEW v \in S, v > u PROVE FALSE
  <2>1. u \in Int /\ v \in Int
    OBVIOUS
  <2>2. \A w \in S : w > v => w > u
    BY <1>6, <2>1
  <2>3. Above(v) \subseteq Above(u)
    BY <2>2
  <2>4. v \in Above(u) /\ ~(v \in Above(v))
    BY <1>6, <2>1
  <2>5. Above(v) \in T
    OBVIOUS
  <2> HIDE DEF Above, T
  <2> QED BY <1>4, <1>5, <2>3, <2>4, <2>5
<1>7. \A v \in S : v <= u
  BY <1>6
<1> QED BY <1>7

(* At most one function satisfies the recursion.                           *)
LEMMA SumsUnique ==
    ASSUME NEW I, IsFiniteSet(I), NEW f, NEW g \in Sums(f, I), NEW h \in Sums(f, I)
    PROVE  g = h
<1> DEFINE T == {t \in SUBSET I : g[t] # h[t]}
<1>1. SUFFICES ASSUME T # {} PROVE FALSE
  BY DEF Sums
<1>2. T \in SUBSET SUBSET I
  OBVIOUS
<1>3. PICK s \in T : \A t \in T : ~(t \subseteq s /\ t # s)
  <2> HIDE DEF T
  <2> QED BY <1>1, <1>2, MinimalSubset
<1>4. s # {}
  BY <1>3 DEF Sums, SumStep
<1>5. Picked(s) \in s
  BY <1>4, PickedInSet
<1>6. g[s \ {Picked(s)}] = h[s \ {Picked(s)}]
  BY <1>3, <1>5
<1> QED BY <1>3, <1>4, <1>6 DEF Sums, SumStep

(* It satisfies it on every smaller set too.                               *)
LEMMA SumsRestrict ==
    ASSUME NEW I, NEW f, NEW g \in Sums(f, I), NEW s \in SUBSET I
    PROVE  [t \in SUBSET s |-> g[t]] \in Sums(f, s)
<1> DEFINE r == [t \in SUBSET s |-> g[t]]
<1>1. r \in [SUBSET s -> Int]
  BY DEF Sums
<1>2. ASSUME NEW t \in SUBSET s PROVE r[t] = SumStep(f, r, t)
  <2>1. g[t] = SumStep(f, g, t) BY DEF Sums
  <2>2. t \ {Picked(t)} \in SUBSET s OBVIOUS
  <2> QED BY <2>1, <2>2 DEF SumStep
<1> QED BY <1>1, <1>2 DEF Sums

(* Some function satisfies it: on a minimal set without one, the functions *)
(* of the smaller sets could be put together.                              *)
LEMMA SumsExist ==
    ASSUME NEW I, IsFiniteSet(I), NEW f \in [I -> Int]
    PROVE  Sums(f, I) # {}
<1> DEFINE T == {s \in SUBSET I : Sums(f, s) = {}}
<1>1. SUFFICES ASSUME T # {} PROVE FALSE
  OBVIOUS
<1>a. T \in SUBSET SUBSET I
  OBVIOUS
<1>2. PICK s \in T : \A t \in T : ~(t \subseteq s /\ t # s)
  <2> HIDE DEF T
  <2> QED BY <1>1, <1>a, MinimalSubset
<1> DEFINE G(t) == CHOOSE g \in Sums(f, t) : TRUE
           rest(t) == t \ {Picked(t)}
           h == [t \in SUBSET s |->
                   IF t = {} THEN 0 ELSE f[Picked(t)] + G(rest(t))[rest(t)]]
<1>3. ASSUME NEW t \in SUBSET s, t # s PROVE G(t) \in Sums(f, t)
  BY <1>2, <1>3
<1>4. ASSUME NEW t \in SUBSET s, t # {}
      PROVE  /\ Picked(t) \in t /\ f[Picked(t)] \in Int
             /\ G(rest(t)) \in Sums(f, rest(t))
             /\ G(rest(t))[rest(t)] \in Int
  <2>1. Picked(t) \in t BY <1>4, PickedInSet
  <2>2. rest(t) \in SUBSET s /\ rest(t) # s
    BY <2>1
  <2>3. G(rest(t)) \in Sums(f, rest(t)) BY <2>2, <1>3
  <2> HIDE DEF G
  <2>4. G(rest(t))[rest(t)] \in Int BY <2>3 DEF Sums
  <2> QED BY <2>1, <2>3, <2>4
<1> HIDE DEF G
<1>5. h \in [SUBSET s -> Int]
  BY <1>4
<1>6. ASSUME NEW t \in SUBSET s, t # {}, t # s PROVE h[t] = G(t)[t]
  <2> DEFINE u == rest(t)
  <2>1. G(t) \in Sums(f, t) BY <1>3, <1>6
  <2>2. u \in SUBSET t OBVIOUS
  <2>3. [v \in SUBSET u |-> G(t)[v]] \in Sums(f, u)
    BY <2>1, <2>2, SumsRestrict
  <2>4. G(u) \in Sums(f, u) BY <1>4, <1>6
  <2>5. IsFiniteSet(u) BY <1>6, FS_Subset
  <2> HIDE DEF u
  <2>6. G(u) = [v \in SUBSET u |-> G(t)[v]]
    BY <2>3, <2>4, <2>5, SumsUnique
  <2>7. G(u)[u] = G(t)[u] BY <2>6
  <2>8. G(t)[t] = f[Picked(t)] + G(t)[u] BY <2>1, <1>6 DEF Sums, SumStep, u
  <2> QED BY <2>7, <2>8, <1>6 DEF u
<1>7. ASSUME NEW t \in SUBSET s PROVE h[t] = SumStep(f, h, t)
  <2>1. CASE t = {} BY <2>1 DEF SumStep
  <2>2. CASE t # {}
    <3> DEFINE u == rest(t)
    <3>1. u \in SUBSET s /\ u # s BY <1>4, <2>2
    <3>2. CASE u = {}
      <4>1. G(u) \in Sums(f, u) BY <1>4, <2>2
      <4>2. G(u)[u] = 0 BY <4>1, <3>2 DEF Sums, SumStep
      <4>3. h[u] = 0 BY <3>1, <3>2
      <4> QED BY <4>2, <4>3, <2>2 DEF SumStep
    <3>3. CASE u # {}
      <4>1. h[u] = G(u)[u] BY <3>1, <3>3, <1>6
      <4> QED BY <4>1, <2>2 DEF SumStep
    <3> QED BY <3>2, <3>3
  <2> QED BY <2>1, <2>2
<1>8. h \in Sums(f, s) BY <1>5, <1>7 DEF Sums
<1> QED BY <1>2, <1>8

(* So SumFunctionOnSet is the value of the one function that does.         *)
LEMMA SumIsValue ==
    ASSUME NEW I, IsFiniteSet(I), NEW f, \A x \in I : f[x] \in Int
    PROVE  \E h \in Sums(f, I) : SumFunctionOnSet(f, I) = h[I]
<1> DEFINE e == [x \in I |-> f[x]]
<1>1. PICK h \in Sums(e, I) : TRUE
  BY SumsExist
<1>2. \A s \in SUBSET I : SumStep(e, h, s) = SumStep(f, h, s)
  BY PickedInSet DEF SumStep
<1>3. h \in Sums(f, I)
  BY <1>1, <1>2 DEF Sums
<1>4. h = [s \in SUBSET I |-> SumStep(f, h, s)]
  BY <1>3 DEF Sums
<1> DEFINE g == CHOOSE g : g = [s \in SUBSET I |-> SumStep(f, g, s)]
<1>5. g = [s \in SUBSET I |-> SumStep(f, g, s)]
  BY <1>4
<1>6. SumFunctionOnSet(f, I) = g[I]
  BY SumUnfolds
<1> HIDE DEF g
<1>7. ASSUME NEW s \in SUBSET I, g[s] # h[s] PROVE FALSE
  <2> DEFINE T == {t \in SUBSET I : g[t] # h[t]}
  <2>1. T \in SUBSET SUBSET I /\ T # {} BY <1>7
  <2>2. PICK m \in T : \A t \in T : ~(t \subseteq m /\ t # m)
    <3> HIDE DEF T
    <3> QED BY <2>1, MinimalSubset
  <2>3. g[m] = SumStep(f, g, m) /\ h[m] = SumStep(f, h, m) BY <1>5, <1>4
  <2>4. m # {} BY <2>2, <2>3 DEF SumStep
  <2>5. g[m \ {Picked(m)}] = h[m \ {Picked(m)}] BY <2>2, <2>4, PickedInSet
  <2> QED BY <2>2, <2>3, <2>4, <2>5 DEF SumStep
<1> QED BY <1>3, <1>6, <1>7

-----------------------------------------------------------------------------
(* The sum over no element is 0.                                           *)
THEOREM SumEmpty == ASSUME NEW f PROVE SumFunctionOnSet(f, {}) = 0
<1>1. IsFiniteSet({}) BY FS_EmptySet
<1>2. PICK h \in Sums(f, {}) : SumFunctionOnSet(f, {}) = h[{}]
  BY <1>1, SumIsValue
<1> QED BY <1>2 DEF Sums, SumStep

(* A finite sum of integers is an integer.                                 *)
THEOREM SumIsInt ==
    ASSUME NEW S, IsFiniteSet(S), NEW f, \A x \in S : f[x] \in Int
    PROVE  SumFunctionOnSet(f, S) \in Int
<1>1. PICK h \in Sums(f, S) : SumFunctionOnSet(f, S) = h[S]
  BY SumIsValue
<1> QED BY <1>1 DEF Sums

(* A finite sum of natural numbers is one.                                 *)
THEOREM SumIsNat ==
    ASSUME NEW S, IsFiniteSet(S), NEW f, \A x \in S : f[x] \in Nat
    PROVE  SumFunctionOnSet(f, S) \in Nat
<1>1. PICK h \in Sums(f, S) : SumFunctionOnSet(f, S) = h[S]
  BY SumIsValue
<1> DEFINE T == {t \in SUBSET S : h[t] \notin Nat}
<1>2. SUFFICES ASSUME T # {} PROVE FALSE
  BY <1>1
<1>3. T \in SUBSET SUBSET S
  OBVIOUS
<1>4. PICK m \in T : \A t \in T : ~(t \subseteq m /\ t # m)
  <2> HIDE DEF T
  <2> QED BY <1>2, <1>3, MinimalSubset
<1>5. h[m] = SumStep(f, h, m)
  BY <1>1, <1>4 DEF Sums
<1>6. m # {}
  BY <1>4, <1>5 DEF SumStep
<1>7. Picked(m) \in m /\ h[m \ {Picked(m)}] \in Nat
  BY <1>4, <1>6, PickedInSet
<1> QED BY <1>4, <1>5, <1>6, <1>7 DEF SumStep

(* Whichever element is taken out first, the sum is its value and the sum  *)
(* of the rest: the order that CHOOSE fixes does not matter.               *)
LEMMA TakeOut ==
    ASSUME NEW I, IsFiniteSet(I), NEW f, \A x \in I : f[x] \in Int,
           NEW h \in Sums(f, I), NEW s \in SUBSET I, NEW x \in s
    PROVE  h[s] = f[x] + h[s \ {x}]
<1> DEFINE Bad(t) == \E y \in t : h[t] # f[y] + h[t \ {y}]
           T == {t \in SUBSET I : Bad(t)}
<1>1. SUFFICES ASSUME T # {} PROVE FALSE
  OBVIOUS
<1>2. T \in SUBSET SUBSET I
  OBVIOUS
<1>3. PICK m \in T : \A t \in T : ~(t \subseteq m /\ t # m)
  <2> HIDE DEF T
  <2> QED BY <1>1, <1>2, MinimalSubset
<1>4. PICK y \in m : h[m] # f[y] + h[m \ {y}]
  BY <1>3
<1> DEFINE p == Picked(m)
<1>5. p \in m /\ m \in SUBSET I
  BY <1>3, <1>4, PickedInSet
<1>6. h[m] = f[p] + h[m \ {p}]
  BY <1>4, <1>5 DEF Sums, SumStep
<1>7. p # y
  BY <1>4, <1>6
<1> HIDE DEF p
<1>8. h[m \ {p}] = f[y] + h[(m \ {p}) \ {y}]
  <2>1. m \ {p} \in SUBSET I /\ m \ {p} \subseteq m /\ m \ {p} # m
    BY <1>5
  <2>2. ~Bad(m \ {p}) BY <1>3, <2>1
  <2> QED BY <2>2, <1>4, <1>7
<1>9. h[m \ {y}] = f[p] + h[(m \ {p}) \ {y}]
  <2>1. m \ {y} \in SUBSET I /\ m \ {y} \subseteq m /\ m \ {y} # m
    BY <1>4, <1>5
  <2>2. ~Bad(m \ {y}) BY <1>3, <2>1
  <2>3. h[m \ {y}] = f[p] + h[(m \ {y}) \ {p}] BY <2>2, <1>5, <1>7
  <2>4. (m \ {y}) \ {p} = (m \ {p}) \ {y} OBVIOUS
  <2> QED BY <2>3, <2>4
<1>10. PICK c \in Int : c = h[(m \ {p}) \ {y}]
  BY <1>5 DEF Sums
<1>11. f[p] \in Int /\ f[y] \in Int
  BY <1>4, <1>5
<1>12. h[m] = f[p] + (f[y] + c)
  BY <1>6, <1>8, <1>10
<1>13. h[m] = f[y] + (f[p] + c)
  BY <1>10, <1>11, <1>12
<1> QED BY <1>4, <1>9, <1>10, <1>13

(* Sums of functions that agree on S are equal.                            *)
THEOREM SumCongruence ==
    ASSUME NEW S, IsFiniteSet(S), NEW f, NEW g,
           \A x \in S : f[x] \in Int /\ g[x] = f[x]
    PROVE  SumFunctionOnSet(g, S) = SumFunctionOnSet(f, S)
<1>1. PICK h \in Sums(f, S) : SumFunctionOnSet(f, S) = h[S]
  BY SumIsValue
<1>2. PICK k \in Sums(g, S) : SumFunctionOnSet(g, S) = k[S]
  BY SumIsValue
<1>3. \A s \in SUBSET S : SumStep(f, k, s) = SumStep(g, k, s)
  BY PickedInSet DEF SumStep
<1>4. k \in Sums(f, S)
  BY <1>2, <1>3 DEF Sums
<1> QED BY <1>1, <1>2, <1>4, SumsUnique

(* An element that joins the set adds its value.                           *)
THEOREM SumAdd ==
    ASSUME NEW S, IsFiniteSet(S), NEW x, x \notin S, NEW f,
           \A y \in S \cup {x} : f[y] \in Int
    PROVE  SumFunctionOnSet(f, S \cup {x}) = f[x] + SumFunctionOnSet(f, S)
<1> DEFINE I == S \cup {x}
<1>1. IsFiniteSet(I)
  BY FS_AddElement
<1>2. PICK h \in Sums(f, I) : SumFunctionOnSet(f, I) = h[I]
  BY <1>1, SumIsValue
<1>3. h[I] = f[x] + h[I \ {x}]
  <2> HIDE DEF I
  <2>1. I \in SUBSET I /\ x \in I BY DEF I
  <2>2. \A y \in I : f[y] \in Int BY DEF I
  <2> QED BY <1>1, <2>1, <2>2, TakeOut
<1>4. I \ {x} = S
  OBVIOUS
<1>5. [t \in SUBSET S |-> h[t]] \in Sums(f, S)
  <2>1. S \in SUBSET I OBVIOUS
  <2> HIDE DEF I
  <2> QED BY <1>2, <2>1, SumsRestrict
<1>6. PICK k \in Sums(f, S) : SumFunctionOnSet(f, S) = k[S]
  BY SumIsValue
<1>7. k[S] = h[S]
  <2>1. k = [t \in SUBSET S |-> h[t]] BY <1>5, <1>6, SumsUnique
  <2> QED BY <2>1
<1> QED BY <1>2, <1>3, <1>4, <1>6, <1>7

(* An element that leaves the set takes its value with it.                 *)
THEOREM SumWithout ==
    ASSUME NEW S, IsFiniteSet(S), NEW x \in S, NEW f, \A y \in S : f[y] \in Int
    PROVE  SumFunctionOnSet(f, S) = f[x] + SumFunctionOnSet(f, S \ {x})
<1> DEFINE R == S \ {x}
<1>1. IsFiniteSet(R) /\ x \notin R /\ R \cup {x} = S
  BY FS_Subset
<1> HIDE DEF R
<1>2. SumFunctionOnSet(f, R \cup {x}) = f[x] + SumFunctionOnSet(f, R)
  BY <1>1, SumAdd
<1> QED BY <1>1, <1>2 DEF R

(* A sum of natural numbers grows with the set, and only by what is not    *)
(* zero.                                                                   *)
THEOREM SumGrows ==
    ASSUME NEW S, IsFiniteSet(S), NEW T \in SUBSET S, NEW f, \A x \in S : f[x] \in Nat
    PROVE  /\ SumFunctionOnSet(f, T) <= SumFunctionOnSet(f, S)
           /\ (\A x \in S \ T : f[x] = 0) =>
                 SumFunctionOnSet(f, S) = SumFunctionOnSet(f, T)
<1> DEFINE Sum(U)   == SumFunctionOnSet(f, U)
           Right(U) == /\ Sum(T) <= Sum(U)
                       /\ (\A x \in U \ T : f[x] = 0) => Sum(U) = Sum(T)
           Wrong    == {U \in SUBSET S : T \subseteq U /\ ~Right(U)}
<1>1. SUFFICES ASSUME Wrong # {} PROVE FALSE
  OBVIOUS
<1>2. Wrong \in SUBSET SUBSET S
  OBVIOUS
<1>3. PICK U \in Wrong : \A V \in Wrong : ~(V \subseteq U /\ V # U)
  <2> HIDE DEF Wrong
  <2> QED BY <1>1, <1>2, MinimalSubset
<1>4. IsFiniteSet(U) /\ U \in SUBSET S /\ T \subseteq U /\ ~Right(U)
  BY <1>3, FS_Subset
<1>5. Sum(T) \in Nat /\ IsFiniteSet(T)
  <2>1. IsFiniteSet(T)
    BY FS_Subset
  <2> QED BY <2>1, SumIsNat
<1>6. U # T
  <2> SUFFICES ASSUME U = T PROVE Right(U)
    BY <1>4
  <2> QED BY <1>5
<1>7. PICK x \in U : x \notin T
  BY <1>4, <1>6
<1> DEFINE V == U \ {x}
<1>8. V \in SUBSET S /\ T \subseteq V /\ V \subseteq U /\ V # U /\ IsFiniteSet(V)
  BY <1>4, <1>7, FS_Subset
<1>9. Right(V)
  BY <1>3, <1>8
<1>10. Sum(U) = f[x] + Sum(V) /\ f[x] \in Nat
  <2>1. \A y \in U : f[y] \in Int
    BY <1>4
  <2> QED BY <1>4, <1>7, <2>1, SumWithout
<1>11. Sum(V) \in Nat
  <2>1. \A y \in V : f[y] \in Nat
    BY <1>8
  <2> HIDE DEF V
  <2> QED BY <1>8, <2>1, SumIsNat
<1>12. Right(U)
  <2>1. \A y \in V \ T : y \in U \ T
    BY <1>8
  <2>2. x \in U \ T
    BY <1>7
  <2> HIDE DEF V, Sum
  <2> QED BY <1>5, <1>9, <1>10, <1>11, <2>1, <2>2
<1> QED BY <1>4, <1>12

(* A sum of zeros.                                                         *)
THEOREM SumOfZeros ==
    ASSUME NEW S, IsFiniteSet(S), NEW f, \A x \in S : f[x] = 0
    PROVE  SumFunctionOnSet(f, S) = 0
<1>1. SumFunctionOnSet(f, S) = SumFunctionOnSet(f, {})
  <2>1. {} \in SUBSET S /\ \A x \in S : f[x] \in Nat
    OBVIOUS
  <2> QED BY <2>1, SumGrows
<1> QED BY <1>1, SumEmpty

(* What is added to one value is added to the sums that count it.          *)
THEOREM SumRaised ==
    ASSUME NEW S, IsFiniteSet(S), NEW f, NEW g, NEW x, NEW k \in Int,
           \A y \in S : f[y] \in Int /\ (y # x => g[y] = f[y]),
           x \in S => g[x] = f[x] + k
    PROVE  SumFunctionOnSet(g, S)
             = SumFunctionOnSet(f, S) + (IF x \in S THEN k ELSE 0)
<1>1. SumFunctionOnSet(f, S) \in Int
  BY SumIsInt
<1>2. CASE x \notin S
  <2>1. SumFunctionOnSet(g, S) = SumFunctionOnSet(f, S)
    BY <1>2, SumCongruence
  <2> QED BY <1>1, <1>2, <2>1
<1>3. CASE x \in S
  <2> DEFINE R == S \ {x}
  <2>1. IsFiniteSet(R) /\ \A y \in R : f[y] \in Int /\ g[y] = f[y]
    BY FS_Subset
  <2>2. SumFunctionOnSet(f, S) = f[x] + SumFunctionOnSet(f, R)
    BY <1>3, SumWithout
  <2>3. \A y \in S : g[y] \in Int
    BY <1>3
  <2>4. SumFunctionOnSet(g, S) = g[x] + SumFunctionOnSet(g, R)
    BY <1>3, <2>3, SumWithout
  <2> HIDE DEF R
  <2>5. SumFunctionOnSet(g, R) = SumFunctionOnSet(f, R) /\ SumFunctionOnSet(f, R) \in Int
    BY <2>1, SumCongruence, SumIsInt
  <2> QED BY <1>3, <2>2, <2>4, <2>5
<1> QED BY <1>2, <1>3

(* A sum does not depend on what its terms are filed under.                *)
THEOREM SumReindexed ==
    ASSUME NEW S, IsFiniteSet(S), NEW e, NEW f, NEW g,
           \A x, y \in S : e[x] = e[y] => x = y,
           \A x \in S : f[x] \in Int /\ g[e[x]] = f[x]
    PROVE  /\ IsFiniteSet({e[x] : x \in S})
           /\ SumFunctionOnSet(g, {e[x] : x \in S}) = SumFunctionOnSet(f, S)
<1> DEFINE Image(U) == {e[x] : x \in U}
           Right(U) == /\ IsFiniteSet(Image(U))
                       /\ SumFunctionOnSet(g, Image(U)) = SumFunctionOnSet(f, U)
           Wrong    == {U \in SUBSET S : ~Right(U)}
<1>1. SUFFICES ASSUME Wrong # {} PROVE FALSE
  OBVIOUS
<1>2. Wrong \in SUBSET SUBSET S
  OBVIOUS
<1>3. PICK U \in Wrong : \A V \in Wrong : ~(V \subseteq U /\ V # U)
  <2> HIDE DEF Wrong
  <2> QED BY <1>1, <1>2, MinimalSubset
<1>4. U \in SUBSET S /\ ~Right(U) /\ IsFiniteSet(U)
  BY <1>3, FS_Subset
<1>5. U # {}
  <2> SUFFICES ASSUME U = {} PROVE Right(U)
    BY <1>4
  <2>1. Image(U) = {}
    OBVIOUS
  <2> QED BY <2>1, SumEmpty, FS_EmptySet
<1>6. PICK x \in U : TRUE
  BY <1>5
<1> DEFINE V == U \ {x}
<1>7. V \in SUBSET S /\ V \subseteq U /\ V # U /\ IsFiniteSet(V)
  BY <1>4, <1>6, FS_Subset
<1>8. Right(V)
  BY <1>3, <1>7
<1>9. Image(U) = Image(V) \cup {e[x]} /\ e[x] \notin Image(V)
  BY <1>4, <1>6
<1>10. \A y \in Image(V) \cup {e[x]} : g[y] \in Int
  BY <1>4, <1>6
<1>11. SumFunctionOnSet(f, U) = f[x] + SumFunctionOnSet(f, V)
  <2>1. \A y \in U : f[y] \in Int
    BY <1>4
  <2> QED BY <1>4, <1>6, <2>1, SumWithout
<1>12. /\ IsFiniteSet(Image(U))
       /\ SumFunctionOnSet(g, Image(U)) = g[e[x]] + SumFunctionOnSet(g, Image(V))
  <2>1. IsFiniteSet(Image(V))
    BY <1>8
  <2> DEFINE T == Image(V)
             y == e[x]
  <2>2. IsFiniteSet(T) /\ y \notin T /\ \A z \in T \cup {y} : g[z] \in Int
    BY <2>1, <1>9, <1>10
  <2>3. Image(U) = T \cup {y}
    BY <1>9
  <2> HIDE DEF Image, T, y
  <2>4. SumFunctionOnSet(g, T \cup {y}) = g[y] + SumFunctionOnSet(g, T)
    BY <2>2, SumAdd
  <2>5. IsFiniteSet(T \cup {y})
    BY <2>2, FS_AddElement
  <2> QED BY <2>3, <2>4, <2>5 DEF T, y
<1>13. g[e[x]] = f[x]
  BY <1>4, <1>6
<1> HIDE DEF V, Image
<1> QED BY <1>4, <1>8, <1>11, <1>12, <1>13

(* The sum of a single term.                                               *)
THEOREM SumSingle ==
    ASSUME NEW x, NEW f, f[x] \in Int
    PROVE  SumFunctionOnSet(f, {x}) = f[x]
<1>1. SumFunctionOnSet(f, {} \cup {x}) = f[x] + SumFunctionOnSet(f, {})
  BY SumAdd, FS_EmptySet
<1> QED BY <1>1, SumEmpty

-----------------------------------------------------------------------------
(* Induction on a finite set, for a family of its subsets.                 *)
LEMMA GrowingSets ==
    ASSUME NEW S, IsFiniteSet(S), NEW Good,
           {} \in Good,
           \A T \in SUBSET S : \A x \in S \ T : T \in Good => T \cup {x} \in Good
    PROVE  S \in Good
<1> DEFINE Bad == {T \in SUBSET S : T \notin Good}
<1>1. SUFFICES ASSUME S \notin Good PROVE FALSE
  OBVIOUS
<1>2. Bad \in SUBSET SUBSET S /\ Bad # {}
  BY <1>1
<1>3. PICK T \in Bad : \A U \in Bad : ~(U \subseteq T /\ U # T)
  <2> HIDE DEF Bad
  <2> QED BY <1>2, MinimalSubset
<1>4. PICK x \in T : TRUE
  BY <1>3
<1>5. T \ {x} \in SUBSET S /\ T \ {x} \subseteq T /\ T \ {x} # T /\ x \in S \ (T \ {x})
  BY <1>3, <1>4
<1>6. T \ {x} \in Good
  BY <1>3, <1>5
<1>7. (T \ {x}) \cup {x} = T
  BY <1>4
<1> QED BY <1>3, <1>5, <1>6, <1>7

(* The sum of sums is the sum of the values added pairwise, with factors.  *)
THEOREM SumLinear ==
    ASSUME NEW S, IsFiniteSet(S), NEW f, NEW g, NEW h, NEW a \in Int, NEW b \in Int,
           \A x \in S : f[x] \in Int /\ g[x] \in Int /\ h[x] = a * f[x] + b * g[x]
    PROVE  SumFunctionOnSet(h, S)
             = a * SumFunctionOnSet(f, S) + b * SumFunctionOnSet(g, S)
<1> DEFINE Sum(k, T) == SumFunctionOnSet(k, T)
           Good == {T \in SUBSET S : Sum(h, T) = a * Sum(f, T) + b * Sum(g, T)}
<1>1. {} \in Good
  BY SumEmpty
<1>2. ASSUME NEW T \in SUBSET S, NEW x \in S \ T, T \in Good PROVE T \cup {x} \in Good
  <2>1. IsFiniteSet(T) /\ x \notin T /\ T \cup {x} \in SUBSET S
    BY FS_Subset
  <2>2. f[x] \in Int /\ g[x] \in Int /\ h[x] \in Int /\ h[x] = a * f[x] + b * g[x]
    OBVIOUS
  <2>3. \A y \in T \cup {x} : f[y] \in Int /\ g[y] \in Int /\ h[y] \in Int
    OBVIOUS
  <2>4. Sum(f, T) \in Int /\ Sum(g, T) \in Int
    BY <2>1, <2>3, SumIsInt
  <2>5. /\ Sum(f, T \cup {x}) = f[x] + Sum(f, T)
        /\ Sum(g, T \cup {x}) = g[x] + Sum(g, T)
        /\ Sum(h, T \cup {x}) = h[x] + Sum(h, T)
    BY <2>1, <2>3, SumAdd
  <2>6. Sum(h, T) = a * Sum(f, T) + b * Sum(g, T)
    BY <1>2
  <2> HIDE DEF Sum
  <2>7. h[x] + Sum(h, T) = a * (f[x] + Sum(f, T)) + b * (g[x] + Sum(g, T))
    BY <2>2, <2>4, <2>6
  <2> QED BY <2>1, <2>5, <2>7
<1> HIDE DEF Good
<1>3. S \in Good
  BY <1>1, <1>2, GrowingSets
<1> QED BY <1>3 DEF Good

(* A smaller value everywhere makes a smaller sum.                         *)
THEOREM SumMonotone ==
    ASSUME NEW S, IsFiniteSet(S), NEW f, NEW g,
           \A x \in S : f[x] \in Int /\ g[x] \in Int /\ f[x] <= g[x]
    PROVE  SumFunctionOnSet(f, S) <= SumFunctionOnSet(g, S)
<1> DEFINE d == [x \in S |-> g[x] - f[x]]
<1>1. \A x \in S : d[x] \in Nat /\ d[x] = 1 * g[x] + (-1) * f[x]
  OBVIOUS
<1>2. SumFunctionOnSet(d, S) \in Nat
  BY <1>1, SumIsNat
<1>3. SumFunctionOnSet(d, S)
        = 1 * SumFunctionOnSet(g, S) + (-1) * SumFunctionOnSet(f, S)
  <2> HIDE DEF d
  <2> QED BY <1>1, SumLinear
<1>4. SumFunctionOnSet(f, S) \in Int /\ SumFunctionOnSet(g, S) \in Int
  BY SumIsInt
<1> HIDE DEF d
<1> QED BY <1>2, <1>3, <1>4

(* Ones and zeros add up to the number of ones.                            *)
THEOREM SumOfOnes ==
    ASSUME NEW S, IsFiniteSet(S), NEW f, \A x \in S : f[x] \in {0, 1}
    PROVE  SumFunctionOnSet(f, S) = Cardinality({x \in S : f[x] = 1})
<1> DEFINE Ones(T) == {x \in T : f[x] = 1}
           Good == {T \in SUBSET S : SumFunctionOnSet(f, T) = Cardinality(Ones(T))}
<1>1. {} \in Good
  BY SumEmpty, FS_EmptySet
<1>2. ASSUME NEW T \in SUBSET S, NEW x \in S \ T, T \in Good PROVE T \cup {x} \in Good
  <2>1. IsFiniteSet(T) /\ x \notin T /\ \A y \in T \cup {x} : f[y] \in Int
    BY FS_Subset
  <2>2. SumFunctionOnSet(f, T \cup {x}) = f[x] + SumFunctionOnSet(f, T)
    BY <2>1, SumAdd
  <2>3. IsFiniteSet(Ones(T)) /\ x \notin Ones(T)
    BY <2>1, FS_Subset
  <2>4. Cardinality(Ones(T)) \in Nat
    BY <2>3, FS_CardinalityType
  <2>5. Cardinality(Ones(T) \cup {x}) = Cardinality(Ones(T)) + 1
    BY <2>3, FS_AddElement
  <2>6. Ones(T \cup {x}) = IF f[x] = 1 THEN Ones(T) \cup {x} ELSE Ones(T)
    BY <2>1
  <2>7. SumFunctionOnSet(f, T) = Cardinality(Ones(T))
    BY <1>2
  <2> HIDE DEF Ones
  <2>8. SumFunctionOnSet(f, T \cup {x}) = Cardinality(Ones(T \cup {x}))
    BY <2>2, <2>4, <2>5, <2>6, <2>7
  <2> QED BY <2>8
<1> HIDE DEF Good
<1>3. S \in Good
  BY <1>1, <1>2, GrowingSets
<1> QED BY <1>3 DEF Good

(* A strict total order of a finite set, given by the set Earlier[i] of    *)
(* the elements before i.                                                  *)
StrictOrder(R, Earlier) ==
    /\ IsFiniteSet(R) /\ Earlier \in [R -> SUBSET R]
    /\ \A i \in R : i \notin Earlier[i]
    /\ \A i \in R : \A j \in Earlier[i] : Earlier[j] \subseteq Earlier[i]
    /\ \A i, j \in R : i = j \/ i \in Earlier[j] \/ j \in Earlier[i]

(* How many there are before an element is its place: 0, 1, 2...           *)
THEOREM PlacesInOrder ==
    ASSUME NEW R, NEW Earlier, StrictOrder(R, Earlier)
    PROVE  /\ Cardinality(R) \in Nat
           /\ \A i \in R : Cardinality(Earlier[i]) \in 0 .. Cardinality(R) - 1
           /\ \A i, j \in R :
                 j \in Earlier[i] <=> Cardinality(Earlier[j]) < Cardinality(Earlier[i])
           /\ \A i, j \in R : Cardinality(Earlier[i]) = Cardinality(Earlier[j]) => i = j
           /\ \A m \in 0 .. Cardinality(R) - 1 : \E i \in R : Cardinality(Earlier[i]) = m
<1> USE DEF StrictOrder
<1> DEFINE n == Cardinality(R)
           rank == [i \in R |-> Cardinality(Earlier[i])]
<1>1. n \in Nat
  BY FS_CardinalityType
<1>2. \A i \in R : IsFiniteSet(Earlier[i]) /\ rank[i] \in Nat
  BY FS_Subset, FS_CardinalityType
<1>3. ASSUME NEW i \in R, NEW j \in Earlier[i] PROVE rank[j] < rank[i]
  <2>1. IsFiniteSet(Earlier[i]) /\ Earlier[j] \in SUBSET Earlier[i] /\ j \in R
    BY <1>2
  <2>2. Earlier[j] # Earlier[i]
    BY <2>1
  <2>3. Cardinality(Earlier[j]) <= Cardinality(Earlier[i])
        /\ Cardinality(Earlier[j]) # Cardinality(Earlier[i])
    BY <2>1, <2>2, FS_Subset
  <2>4. rank[i] = Cardinality(Earlier[i]) /\ rank[j] = Cardinality(Earlier[j])
    BY <2>1
  <2>5. rank[i] \in Nat /\ rank[j] \in Nat
    BY <1>2, <2>1
  <2> HIDE DEF rank
  <2> QED BY <2>3, <2>4, <2>5
<1>4. \A i \in R : rank[i] \in 0 .. n - 1
  <2> TAKE i \in R
  <2>1. Earlier[i] \in SUBSET R /\ Earlier[i] # R
    OBVIOUS
  <2>2. Cardinality(Earlier[i]) <= n /\ Cardinality(Earlier[i]) # n
    BY <2>1, FS_Subset
  <2>3. rank[i] = Cardinality(Earlier[i]) /\ rank[i] \in Nat
    BY <1>2
  <2> HIDE DEF rank, n
  <2> QED BY <1>1, <2>2, <2>3
<1>5. \A i, j \in R : j \in Earlier[i] <=> rank[j] < rank[i]
  <2> TAKE i, j \in R
  <2>1. rank[i] \in Nat /\ rank[j] \in Nat /\ (i = j => rank[i] = rank[j])
    BY <1>2
  <2>2. i = j \/ i \in Earlier[j] \/ j \in Earlier[i]
    OBVIOUS
  <2>3. (i \in Earlier[j] => rank[i] < rank[j]) /\ (j \in Earlier[i] => rank[j] < rank[i])
    BY <1>3
  <2>4. i = j => j \notin Earlier[i]
    OBVIOUS
  <2> HIDE DEF rank
  <2> QED BY <2>1, <2>2, <2>3, <2>4
<1>6. \A i, j \in R : rank[i] = rank[j] => i = j
  <2> TAKE i, j \in R
  <2>1. rank[i] \in Nat /\ rank[j] \in Nat
    BY <1>2
  <2>2. i = j \/ i \in Earlier[j] \/ j \in Earlier[i]
    OBVIOUS
  <2>3. i = j \/ rank[i] < rank[j] \/ rank[j] < rank[i]
    BY <1>5, <2>2
  <2> HIDE DEF rank
  <2> QED BY <2>1, <2>3
<1>7. IsFiniteSet(0 .. n - 1) /\ Cardinality(0 .. n - 1) = n
  <2> HIDE DEF n
  <2>1. 0 \in Int /\ n - 1 \in Int
    BY <1>1
  <2>2. IsFiniteSet(0 .. n - 1) /\ Cardinality(0 .. n - 1) = IF 0 > n - 1 THEN 0 ELSE (n - 1) - 0 + 1
    BY <2>1, FS_Interval
  <2> QED BY <1>1, <2>2
<1>8. \A m \in 0 .. n - 1 : \E i \in R : rank[i] = m
  <2>1. rank \in Injection(R, 0 .. n - 1)
    BY <1>4, <1>6 DEF Injection, IsInjective
  <2> HIDE DEF rank
  <2>2. rank \in Surjection(R, 0 .. n - 1)
    BY <1>7, <2>1, FS_Injection
  <2> QED BY <2>2 DEF Surjection
<1>9. \A i \in R : rank[i] = Cardinality(Earlier[i])
  OBVIOUS
<1> HIDE DEF rank
<1> QED BY <1>1, <1>4, <1>5, <1>6, <1>8, <1>9

(* Exactly k elements have fewer than k before them.                       *)
THEOREM FirstOfRank ==
    ASSUME NEW R, NEW Earlier, StrictOrder(R, Earlier), NEW k \in 0 .. Cardinality(R)
    PROVE  Cardinality({i \in R : Cardinality(Earlier[i]) < k}) = k
<1> DEFINE n == Cardinality(R)
           First == {i \in R : Cardinality(Earlier[i]) < k}
           place == [i \in First |-> Cardinality(Earlier[i])]
<1>1. n \in Nat /\ k \in 0 .. n /\ IsFiniteSet(R)
  BY PlacesInOrder DEF StrictOrder
<1>2. /\ \A i \in R : Cardinality(Earlier[i]) \in 0 .. n - 1
      /\ \A i, j \in R : Cardinality(Earlier[i]) = Cardinality(Earlier[j]) => i = j
      /\ \A m \in 0 .. n - 1 : \E i \in R : Cardinality(Earlier[i]) = m
  BY PlacesInOrder
<1>3. IsFiniteSet(0 .. k - 1) /\ Cardinality(0 .. k - 1) = k
  <2>1. k \in Nat /\ k - 1 \in Int
    BY <1>1
  <2>2. IsFiniteSet(0 .. k - 1) /\ Cardinality(0 .. k - 1) = IF 0 > k - 1 THEN 0 ELSE (k - 1) - 0 + 1
    BY <2>1, FS_Interval
  <2> QED BY <2>1, <2>2
<1>4. \A i \in First : place[i] \in 0 .. k - 1
  <2> TAKE i \in First
  <2>1. place[i] \in 0 .. n - 1 /\ place[i] < k
    BY <1>2
  <2> HIDE DEF First, place, n
  <2> QED BY <1>1, <2>1
<1>5. \A i, j \in First : place[i] = place[j] => i = j
  BY <1>2
<1>6. \A m \in 0 .. k - 1 : \E i \in First : place[i] = m
  <2> TAKE m \in 0 .. k - 1
  <2>1. m \in 0 .. n - 1 /\ m < k
    <3> HIDE DEF n
    <3> QED BY <1>1
  <2>2. PICK i \in R : Cardinality(Earlier[i]) = m
    BY <1>2, <2>1
  <2>3. i \in First
    BY <2>1, <2>2
  <2> QED BY <2>2, <2>3
<1>7. place \in Injection(First, 0 .. k - 1) /\ place \in Surjection(First, 0 .. k - 1)
  <2>1. place \in [First -> 0 .. k - 1]
    BY <1>4
  <2> HIDE DEF First, place
  <2> QED BY <1>5, <1>6, <2>1 DEF Injection, Surjection, IsInjective
<1>8. IsFiniteSet(First)
  BY <1>1, FS_Subset
<1> HIDE DEF First, place
<1>9. Cardinality(First) = Cardinality(0 .. k - 1)
  BY <1>3, <1>7, FS_Injection
<1> QED BY <1>3, <1>9 DEF First

(* What is ranked stands in the order, each element once.                  *)
THEOREM RankedFacts ==
    ASSUME NEW R, NEW Earlier, StrictOrder(R, Earlier)
    PROVE  LET s == Ranked(R, Earlier)
               n == Cardinality(R)
           IN  /\ n \in Nat /\ DOMAIN s = 1 .. n /\ s \in [1 .. n -> R] /\ s \in Seq(R) /\ Len(s) = n
               /\ \A x \in R : Cardinality(Earlier[x]) + 1 \in 1 .. n
                               /\ s[Cardinality(Earlier[x]) + 1] = x
               /\ \A i \in 1 .. n : Cardinality(Earlier[s[i]]) = i - 1
               /\ \A i, j \in 1 .. n : s[i] \in Earlier[s[j]] <=> i < j
               /\ \A i, j \in 1 .. n : s[i] = s[j] => i = j
<1> DEFINE s == Ranked(R, Earlier)
           n == Cardinality(R)
<1>1. n \in Nat
  BY PlacesInOrder
<1>2. s = [i \in 1 .. n |-> CHOOSE x \in R : Cardinality(Earlier[x]) = i - 1]
  BY DEF Ranked
<1>3. ASSUME NEW i \in 1 .. n PROVE s[i] \in R /\ Cardinality(Earlier[s[i]]) = i - 1
  <2>1. i - 1 \in 0 .. n - 1
    <3> HIDE DEF n
    <3> QED BY <1>1
  <2>2. \E x \in R : Cardinality(Earlier[x]) = i - 1
    BY <2>1, PlacesInOrder
  <2>3. s[i] = CHOOSE x \in R : Cardinality(Earlier[x]) = i - 1
    BY <1>2
  <2> QED BY <2>2, <2>3
<1>4. DOMAIN s = 1 .. n /\ s \in [1 .. n -> R]
  <2> HIDE DEF s, n
  <2> QED BY <1>2, <1>3
<1>5. s \in Seq(R) /\ Len(s) = n
  <2> HIDE DEF s, n
  <2> QED BY <1>1, <1>4
<1>6. ASSUME NEW x \in R
      PROVE  Cardinality(Earlier[x]) + 1 \in 1 .. n /\ s[Cardinality(Earlier[x]) + 1] = x
  <2>1. Cardinality(Earlier[x]) \in 0 .. n - 1
    BY PlacesInOrder
  <2>2. PICK i \in 1 .. n : i = Cardinality(Earlier[x]) + 1
    <3> HIDE DEF n
    <3> QED BY <1>1, <2>1
  <2>3. s[i] \in R /\ Cardinality(Earlier[s[i]]) = Cardinality(Earlier[x])
    <3>1. s[i] \in R /\ Cardinality(Earlier[s[i]]) = i - 1
      BY <1>3
    <3>2. i - 1 = Cardinality(Earlier[x])
      <4> HIDE DEF n
      <4> QED BY <2>1, <2>2, <1>1
    <3> HIDE DEF s
    <3> QED BY <3>1, <3>2
  <2>4. s[i] = x
    <3> HIDE DEF s
    <3> QED BY <2>3, PlacesInOrder
  <2> QED BY <2>2, <2>4
<1>7. \A i, j \in 1 .. n : s[i] \in Earlier[s[j]] <=> i < j
  <2> TAKE i, j \in 1 .. n
  <2>1. /\ s[i] \in R /\ Cardinality(Earlier[s[i]]) = i - 1
        /\ s[j] \in R /\ Cardinality(Earlier[s[j]]) = j - 1
    BY <1>3
  <2> HIDE DEF s, n
  <2>2. s[i] \in Earlier[s[j]] <=> i - 1 < j - 1
    BY <2>1, PlacesInOrder
  <2> QED BY <2>2, <1>1
<1>8. \A i, j \in 1 .. n : s[i] = s[j] => i = j
  <2> TAKE i, j \in 1 .. n
  <2>1. Cardinality(Earlier[s[i]]) = i - 1 /\ Cardinality(Earlier[s[j]]) = j - 1
    BY <1>3
  <2> HIDE DEF s, n
  <2> QED BY <1>1, <2>1
<1> HIDE DEF s, n
<1> QED BY <1>1, <1>3, <1>4, <1>5, <1>6, <1>7, <1>8 DEF s, n
=============================================================================
