--------------------------- MODULE AcquirerProofs ---------------------------
(***************************************************************************)
(* Theorems about the acquirer on its own, and about the gate of           *)
(* enrollment in front of it: money is conserved, a captured charge is     *)
(* never credited beyond its amount, a mistyped card number is never       *)
(* valid, and a frame that lies apart is never the reference.              *)
(*                                                                         *)
(* Balances, checksums and distances are sums over sets of any size.  The  *)
(* first section proves by induction what a sum is.                        *)
(***************************************************************************)
EXTENDS EnrollmentGate, FiniteSetTheorems, TLAPS

-----------------------------------------------------------------------------
(***************************************************************************)
(* Induction, over a set of numbers instead of a predicate.  Were n        *)
(* missing from C, then for every missing number up to n the one before it *)
(* would be missing too: counting down maps these finitely many numbers,   *)
(* one to one, into themselves without n, against the pigeonhole           *)
(* principle.                                                              *)
(***************************************************************************)
LEMMA SetInduction ==
  ASSUME NEW C, 0 \in C, \A k \in Nat : k \in C => k + 1 \in C
  PROVE  Nat \subseteq C
<1> SUFFICES ASSUME NEW n \in Nat, n \notin C PROVE FALSE
  OBVIOUS
<1> DEFINE D == {k \in 0..n : k \notin C}
           E == D \ {n}
           before == [k \in D |-> k - 1]
<1>1. IsFiniteSet(D)
  <2>1. IsFiniteSet(0..n)
    BY FS_Interval
  <2>2. D \in SUBSET (0..n)
    OBVIOUS
  <2> HIDE DEF D
  <2> QED
    BY <2>1, <2>2, FS_Subset
<1>2. n \in D
  OBVIOUS
<1>3. before \in [D -> E]
  <2> SUFFICES ASSUME NEW k \in D PROVE k - 1 \in E
    OBVIOUS
  <2>1. k # 0 /\ k \in 1..n
    OBVIOUS
  <2>2. k - 1 \notin C
    <3> SUFFICES ASSUME k - 1 \in C PROVE FALSE
      OBVIOUS
    <3> k - 1 \in Nat /\ (k - 1) + 1 = k
      BY <2>1
    <3> QED
      OBVIOUS
  <2> QED
    BY <2>1, <2>2
<1>4. \E x, y \in D : x # y /\ before[x] = before[y]
  <2> HIDE DEF D, before
  <2>1. Cardinality(D) \in Nat
    BY <1>1, FS_CardinalityType
  <2>2. /\ IsFiniteSet(D \ {n})
        /\ Cardinality(D \ {n}) =
             IF n \in D THEN Cardinality(D) - 1 ELSE Cardinality(D)
    BY <1>1, FS_RemoveElement
  <2>3. IsFiniteSet(E) /\ Cardinality(E) < Cardinality(D)
    BY <1>2, <2>1, <2>2
  <2> HIDE DEF E
  <2> QED
    BY <1>1, <2>3, <1>3, FS_PigeonHole
<1> QED
  BY <1>4

\* The same over the subsets of a finite set, each from those one smaller.
LEMMA SubsetInduction ==
  ASSUME NEW S, IsFiniteSet(S), NEW F, {} \in F,
         \A T \in SUBSET S : T # {} /\ (\A x \in T : T \ {x} \in F) => T \in F
  PROVE  SUBSET S \subseteq F
<1> DEFINE C == {n \in Nat : \A T \in SUBSET S : Cardinality(T) = n => T \in F}
<1>1. 0 \in C
  <2> SUFFICES ASSUME NEW T \in SUBSET S, Cardinality(T) = 0 PROVE T \in F
    OBVIOUS
  <2>1. IsFiniteSet(T)
    BY FS_Subset
  <2> QED
    BY <2>1, FS_EmptySet
<1>2. ASSUME NEW n \in Nat, n \in C PROVE n + 1 \in C
  <2> SUFFICES ASSUME NEW T \in SUBSET S, Cardinality(T) = n + 1 PROVE T \in F
    OBVIOUS
  <2>1. IsFiniteSet(T)
    BY FS_Subset
  <2>2. T # {}
    <3> SUFFICES ASSUME T = {} PROVE FALSE
      OBVIOUS
    <3>1. Cardinality(T) = 0
      BY FS_EmptySet
    <3> QED
      BY <3>1
  <2>3. ASSUME NEW x \in T PROVE T \ {x} \in F
    <3>1. Cardinality(T \ {x}) = IF x \in T THEN Cardinality(T) - 1
                                 ELSE Cardinality(T)
      BY <2>1, FS_RemoveElement
    <3>2. Cardinality(T \ {x}) = n
      BY <3>1
    <3> QED
      BY <1>2, <3>2
  <2> QED
    BY <2>2, <2>3
<1>3. Nat \subseteq C
  <2> HIDE DEF C
  <2> QED
    BY <1>1, <1>2, SetInduction
<1> SUFFICES ASSUME NEW T \in SUBSET S PROVE T \in F
  OBVIOUS
<1>4. IsFiniteSet(T)
  BY FS_Subset
<1>5. Cardinality(T) \in Nat
  BY <1>4, FS_CardinalityType
<1> QED
  BY <1>3, <1>5

(***************************************************************************)
(* Sums.  SumFunctionOnSet takes elements out of the set one by one, in    *)
(* an order that CHOOSE fixes; Sums is the function on all subsets that it *)
(* steps through.                                                          *)
(***************************************************************************)
Picked(s) == CHOOSE x \in s : TRUE

SumEquation(g, f, s) ==
  g[s] = IF s = {} THEN 0 ELSE f[Picked(s)] + g[s \ {Picked(s)}]

SumsUp(g, f, S) ==
  g = [s \in SUBSET S |->
         IF s = {} THEN 0 ELSE f[Picked(s)] + g[s \ {Picked(s)}]]

Sums(f, S) == CHOOSE g : SumsUp(g, f, S)

LEMMA SumIsLastOfSums ==
  ASSUME NEW f, NEW S
  PROVE  SumFunctionOnSet(f, S) = Sums(f, S)[S]
BY DEF SumFunctionOnSet, FoldFunctionOnSet, MapThenFoldSet, Sums, SumsUp, Picked

LEMMA PickedIn ==
  ASSUME NEW s, s # {}
  PROVE  Picked(s) \in s
BY DEF Picked

\* It exists: it is built up by the number of elements.
LEMMA SumsExist ==
  ASSUME NEW S, IsFiniteSet(S), NEW f, \A x \in S : f[x] \in Int
  PROVE  \E g \in [SUBSET S -> Int] : SumsUp(g, f, S)
<1> DEFINE C == {n \in Nat : \E g \in [SUBSET S -> Int] :
                    \A s \in SUBSET S :
                      Cardinality(s) <= n => SumEquation(g, f, s)}
<1>0. \A s \in SUBSET S : IsFiniteSet(s) /\ Cardinality(s) \in Nat
  BY FS_Subset, FS_CardinalityType
<1>1. 0 \in C
  <2> DEFINE g == [s \in SUBSET S |-> 0]
  <2>1. ASSUME NEW s \in SUBSET S, Cardinality(s) <= 0
        PROVE  SumEquation(g, f, s)
    <3>1. Cardinality(s) = 0
      BY <1>0, <2>1
    <3>2. s = {}
      BY <1>0, <3>1, FS_EmptySet
    <3> QED
      BY <3>2 DEF SumEquation
  <2>2. g \in [SUBSET S -> Int]
    OBVIOUS
  <2> QED
    BY <2>1, <2>2
<1>2. ASSUME NEW n \in Nat, n \in C PROVE n + 1 \in C
  <2>1. PICK g \in [SUBSET S -> Int] :
          \A s \in SUBSET S : Cardinality(s) <= n => SumEquation(g, f, s)
    BY <1>2
  <2> DEFINE h == [s \in SUBSET S |->
                     IF Cardinality(s) <= n THEN g[s]
                     ELSE IF s = {} THEN 0
                     ELSE f[Picked(s)] + g[s \ {Picked(s)}]]
  <2>2. h \in [SUBSET S -> Int]
    <3> SUFFICES ASSUME NEW s \in SUBSET S, s # {}
                 PROVE  f[Picked(s)] + g[s \ {Picked(s)}] \in Int
      OBVIOUS
    <3>1. Picked(s) \in S
      BY PickedIn
    <3>2. s \ {Picked(s)} \in SUBSET S
      OBVIOUS
    <3> QED
      BY <3>1, <3>2
  <2>3. ASSUME NEW s \in SUBSET S, Cardinality(s) <= n + 1
        PROVE  SumEquation(h, f, s)
    <3>1. CASE s = {}
      <4>1. Cardinality(s) <= n
        BY <3>1, FS_EmptySet
      <4>2. h[s] = g[s] /\ SumEquation(g, f, s)
        BY <2>1, <4>1
      <4> QED
        BY <3>1, <4>2 DEF SumEquation
    <3>2. CASE s # {}
      <4> DEFINE r == s \ {Picked(s)}
      <4>1. Picked(s) \in s
        BY <3>2, PickedIn
      <4>2. Cardinality(r) = IF Picked(s) \in s THEN Cardinality(s) - 1
                             ELSE Cardinality(s)
        BY <1>0, FS_RemoveElement
      <4>3. r \in SUBSET S /\ Cardinality(r) <= n /\ Cardinality(s) \in Nat
        BY <1>0, <2>3, <4>1, <4>2
      <4>4. h[r] = g[r]
        BY <4>3
      <4>5. CASE Cardinality(s) <= n
        <5>1. h[s] = g[s] /\ SumEquation(g, f, s)
          BY <2>1, <4>5
        <5> QED
          BY <3>2, <4>4, <5>1 DEF SumEquation
      <4>6. CASE ~(Cardinality(s) <= n)
        <5>1. h[s] = f[Picked(s)] + g[r]
          BY <3>2, <4>6
        <5> QED
          BY <3>2, <4>4, <5>1 DEF SumEquation
      <4> QED
        BY <4>5, <4>6
    <3> QED
      BY <3>1, <3>2
  <2> HIDE DEF h
  <2> QED
    BY <2>2, <2>3
<1>3. Nat \subseteq C
  <2> HIDE DEF C
  <2> QED
    BY <1>1, <1>2, SetInduction
<1>4. Cardinality(S) \in C
  BY <1>0, <1>3
<1>5. PICK g \in [SUBSET S -> Int] :
        \A s \in SUBSET S :
          Cardinality(s) <= Cardinality(S) => SumEquation(g, f, s)
  BY <1>4
<1>6. \A s \in SUBSET S : Cardinality(s) <= Cardinality(S)
  BY FS_Subset
<1>7. \A s \in SUBSET S : SumEquation(g, f, s)
  BY <1>5, <1>6
<1>8. SumsUp(g, f, S)
  <2> DEFINE h == [s \in SUBSET S |->
         IF s = {} THEN 0 ELSE f[Picked(s)] + g[s \ {Picked(s)}]]
  <2>1. \A s \in SUBSET S : g[s] = h[s]
    BY <1>7 DEF SumEquation
  <2>2. g = h
    BY <2>1
  <2> QED
    BY <2>2 DEF SumsUp
<1> QED
  BY <1>8

\* So it satisfies its equation, and its values are numbers.
LEMMA SumsFacts ==
  ASSUME NEW S, IsFiniteSet(S), NEW f, \A x \in S : f[x] \in Int
  PROVE  \A s \in SUBSET S :
           /\ Sums(f, S)[s] \in Int
           /\ s = {} => Sums(f, S)[s] = 0
           /\ s # {} => /\ Picked(s) \in s
                        /\ Sums(f, S)[s] =
                             f[Picked(s)] + Sums(f, S)[s \ {Picked(s)}]
<1>1. \E g : SumsUp(g, f, S)
  BY SumsExist
<1>2. SumsUp(Sums(f, S), f, S)
  BY <1>1 DEF Sums
<1> DEFINE g == Sums(f, S)
<1>3. ASSUME NEW s \in SUBSET S
      PROVE  /\ s = {} => g[s] = 0
             /\ s # {} => g[s] = f[Picked(s)] + g[s \ {Picked(s)}]
  BY <1>2 DEF SumsUp
<1> HIDE DEF g
<1> DEFINE F == {s \in SUBSET S : g[s] \in Int}
<1>4. {} \in F
  <2>1. {} \in SUBSET S
    OBVIOUS
  <2>2. g[{}] = 0
    BY <1>3, <2>1
  <2> QED
    BY <2>1, <2>2
<1>5. ASSUME NEW s \in SUBSET S, s # {}, \A x \in s : s \ {x} \in F
      PROVE  s \in F
  <2>1. Picked(s) \in s
    BY <1>5, PickedIn
  <2>2. g[s \ {Picked(s)}] \in Int /\ f[Picked(s)] \in Int
    BY <1>5, <2>1
  <2>3. g[s] = f[Picked(s)] + g[s \ {Picked(s)}]
    BY <1>3, <1>5
  <2>4. g[s] \in Int
    BY <2>2, <2>3
  <2> QED
    BY <2>4
<1>6. SUBSET S \subseteq F
  <2> HIDE DEF F
  <2> QED
    BY <1>4, <1>5, SubsetInduction
<1> QED
  BY <1>3, <1>6, PickedIn DEF g

\* It depends on the terms of a set, not on what the set is a subset of.
LEMMA SumsAgree ==
  ASSUME NEW S, IsFiniteSet(S), NEW f, \A x \in S : f[x] \in Int,
         NEW U, IsFiniteSet(U), NEW k, \A x \in U : k[x] \in Int,
         NEW T, T \in SUBSET S, T \in SUBSET U, \A x \in T : f[x] = k[x]
  PROVE  Sums(f, S)[T] = Sums(k, U)[T]
<1> DEFINE g == Sums(f, S)
           h == Sums(k, U)
           F == {s \in SUBSET T : g[s] = h[s]}
<1>1. \A s \in SUBSET S :
        /\ s = {} => g[s] = 0
        /\ s # {} => Picked(s) \in s /\ g[s] = f[Picked(s)] + g[s \ {Picked(s)}]
  BY SumsFacts
<1>2. \A s \in SUBSET U :
        /\ s = {} => h[s] = 0
        /\ s # {} => Picked(s) \in s /\ h[s] = k[Picked(s)] + h[s \ {Picked(s)}]
  BY SumsFacts
<1> HIDE DEF g, h
<1>3. {} \in F
  <2>1. {} \in SUBSET S /\ {} \in SUBSET U /\ {} \in SUBSET T
    OBVIOUS
  <2>2. g[{}] = 0 /\ h[{}] = 0
    BY <1>1, <1>2, <2>1
  <2> QED
    BY <2>1, <2>2
<1>4. ASSUME NEW s \in SUBSET T, s # {}, \A x \in s : s \ {x} \in F
      PROVE  s \in F
  <2>1. s \in SUBSET S /\ s \in SUBSET U
    OBVIOUS
  <2>2. /\ Picked(s) \in s
        /\ g[s] = f[Picked(s)] + g[s \ {Picked(s)}]
        /\ h[s] = k[Picked(s)] + h[s \ {Picked(s)}]
    BY <1>1, <1>2, <1>4, <2>1
  <2>3. g[s \ {Picked(s)}] = h[s \ {Picked(s)}]
    BY <1>4, <2>2
  <2>4. f[Picked(s)] = k[Picked(s)]
    BY <2>2
  <2> QED
    BY <2>2, <2>3, <2>4
<1>5. IsFiniteSet(T)
  BY FS_Subset
<1>6. SUBSET T \subseteq F
  <2> HIDE DEF F
  <2> QED
    BY <1>3, <1>4, <1>5, SubsetInduction
<1>7. T \in F
  BY <1>6
<1> QED
  BY <1>7 DEF g, h

LEMMA SumOfSubset ==
  ASSUME NEW S, IsFiniteSet(S), NEW f, \A x \in S : f[x] \in Int,
         NEW T \in SUBSET S
  PROVE  Sums(f, S)[T] = SumFunctionOnSet(f, T)
<1>1. IsFiniteSet(T)
  BY FS_Subset
<1>2. \A x \in T : f[x] \in Int
  OBVIOUS
<1>3. T \in SUBSET T
  OBVIOUS
<1>4. Sums(f, S)[T] = Sums(f, T)[T]
  BY <1>1, <1>2, <1>3, SumsAgree
<1> QED
  BY <1>4, SumIsLastOfSums

\* Functions that agree on a set have the same sum over it.
LEMMA SumOfSame ==
  ASSUME NEW S, IsFiniteSet(S), NEW f, NEW k,
         \A x \in S : f[x] \in Int /\ f[x] = k[x]
  PROVE  SumFunctionOnSet(f, S) = SumFunctionOnSet(k, S)
<1>1. /\ S \in SUBSET S
      /\ \A x \in S : f[x] \in Int
      /\ \A x \in S : k[x] \in Int
  OBVIOUS
<1>2. Sums(f, S)[S] = Sums(k, S)[S]
  BY <1>1, SumsAgree
<1> QED
  BY <1>2, SumIsLastOfSums

LEMMA SumOfNone ==
  ASSUME NEW f
  PROVE  SumFunctionOnSet(f, {}) = 0
<1>1. IsFiniteSet({}) /\ {} \in SUBSET {}
  BY FS_EmptySet
<1>2. Sums(f, {})[{}] = 0
  BY <1>1, SumsFacts
<1> QED
  BY <1>2, SumIsLastOfSums

LEMMA SumIsInt ==
  ASSUME NEW S, IsFiniteSet(S), NEW f, \A x \in S : f[x] \in Int
  PROVE  SumFunctionOnSet(f, S) \in Int
<1>1. S \in SUBSET S
  OBVIOUS
<1>2. Sums(f, S)[S] \in Int
  BY <1>1, SumsFacts
<1> QED
  BY <1>2, SumIsLastOfSums

\* Any element, not only the picked one, can be taken out of a sum.
LEMMA SumWithout ==
  ASSUME NEW S, IsFiniteSet(S), NEW f, \A x \in S : f[x] \in Int,
         NEW y \in S
  PROVE  SumFunctionOnSet(f, S) = f[y] + SumFunctionOnSet(f, S \ {y})
<1> DEFINE g == Sums(f, S)
           F == {s \in SUBSET S : \A x \in s : g[s] = f[x] + g[s \ {x}]}
<1>1. \A s \in SUBSET S :
        /\ g[s] \in Int
        /\ s # {} => Picked(s) \in s /\ g[s] = f[Picked(s)] + g[s \ {Picked(s)}]
  BY SumsFacts
<1> HIDE DEF g
<1>2. {} \in F
  OBVIOUS
<1>3. ASSUME NEW s \in SUBSET S, s # {}, \A x \in s : s \ {x} \in F
      PROVE  s \in F
  <2> SUFFICES ASSUME NEW x \in s PROVE g[s] = f[x] + g[s \ {x}]
    OBVIOUS
  <2> DEFINE p == Picked(s)
             r == (s \ {x}) \ {p}
  <2>1. p \in s /\ g[s] = f[p] + g[s \ {p}]
    BY <1>1, <1>3
  <2> HIDE DEF p
  <2>2. CASE x = p
    BY <2>1, <2>2
  <2>3. CASE x # p
    <3>1. p \in s \ {x} /\ x \in s \ {p} /\ r = (s \ {p}) \ {x}
      BY <2>1, <2>3
    <3>2. g[s \ {x}] = f[p] + g[r]
      <4>1. s \ {x} \in F
        BY <1>3
      <4> QED
        BY <3>1, <4>1
    <3>3. g[s \ {p}] = f[x] + g[r]
      <4>1. s \ {p} \in F
        BY <1>3, <2>1
      <4>2. g[s \ {p}] = f[x] + g[(s \ {p}) \ {x}]
        BY <3>1, <4>1
      <4> QED
        BY <3>1, <4>2
    <3>4. f[p] \in Int /\ f[x] \in Int /\ g[r] \in Int
      <4>1. r \in SUBSET S
        OBVIOUS
      <4> QED
        BY <1>1, <2>1, <4>1
    <3> HIDE DEF r
    <3> QED
      BY <2>1, <3>2, <3>3, <3>4
  <2> QED
    BY <2>2, <2>3
<1>4. SUBSET S \subseteq F
  <2> HIDE DEF F
  <2> QED
    BY <1>2, <1>3, SubsetInduction
<1>5. S \in F
  BY <1>4
<1>6. g[S] = f[y] + g[S \ {y}]
  BY <1>5
<1>7. g[S \ {y}] = SumFunctionOnSet(f, S \ {y})
  <2>1. S \ {y} \in SUBSET S
    OBVIOUS
  <2> QED
    BY <2>1, SumOfSubset DEF g
<1> QED
  BY <1>6, <1>7, SumIsLastOfSums DEF g

\* Larger terms have a larger sum.
LEMMA SumGrows ==
  ASSUME NEW S, IsFiniteSet(S), NEW f, NEW k,
         \A x \in S : f[x] \in Int /\ k[x] \in Int /\ f[x] < k[x]
  PROVE  /\ SumFunctionOnSet(f, S) <= SumFunctionOnSet(k, S)
         /\ S # {} => SumFunctionOnSet(f, S) < SumFunctionOnSet(k, S)
<1> DEFINE F == {s \in SUBSET S :
                   /\ SumFunctionOnSet(f, s) <= SumFunctionOnSet(k, s)
                   /\ s # {} => SumFunctionOnSet(f, s) < SumFunctionOnSet(k, s)}
<1>1. {} \in F
  BY SumOfNone
<1>2. ASSUME NEW s \in SUBSET S, s # {}, \A x \in s : s \ {x} \in F
      PROVE  s \in F
  <2> PICK x \in s : TRUE
    BY <1>2
  <2>1. IsFiniteSet(s) /\ IsFiniteSet(s \ {x})
    BY FS_Subset
  <2>2. \A z \in s : f[z] \in Int /\ k[z] \in Int
    OBVIOUS
  <2>3. /\ SumFunctionOnSet(f, s) = f[x] + SumFunctionOnSet(f, s \ {x})
        /\ SumFunctionOnSet(k, s) = k[x] + SumFunctionOnSet(k, s \ {x})
    BY <2>1, <2>2, SumWithout
  <2>4. /\ SumFunctionOnSet(f, s \ {x}) \in Int
        /\ SumFunctionOnSet(k, s \ {x}) \in Int
    BY <2>1, <2>2, SumIsInt
  <2>5. SumFunctionOnSet(f, s \ {x}) <= SumFunctionOnSet(k, s \ {x})
    BY <1>2
  <2>6. f[x] < k[x] /\ f[x] \in Int /\ k[x] \in Int
    OBVIOUS
  <2> QED
    BY <2>3, <2>4, <2>5, <2>6
<1>3. SUBSET S \subseteq F
  <2> HIDE DEF F
  <2> QED
    BY <1>1, <1>2, SubsetInduction
<1>4. S \in F
  BY <1>3
<1> QED
  BY <1>4

-----------------------------------------------------------------------------
(***************************************************************************)
(* The acquirer on its own, called in any order by any client.  What it    *)
(* refunds never exceeds the charge, and what it captured stays approved.  *)
(***************************************************************************)
RefundsFit(t) ==
  /\ transactions[t].captured => transactions[t].status = "approved"
  /\ transactions[t].status = "approved" =>
       /\ statement[t].credited <= transactions[t].refunded
       /\ transactions[t].refunded <= statement[t].charged
       /\ transactions[t].amount <= statement[t].charged

GatewayInv == GatewayTypeOK /\ \A t \in Txns : RefundsFit(t)

LEMMA GatewayInvInit ==
  ASSUME GatewayInit
  PROVE  GatewayInv
BY GatewayAssumption
   DEF GatewayInit, GatewayInv, GatewayTypeOK, RefundsFit, NoTransaction,
       NoEntry, Transaction, Entry, Answer

LEMMA CreditFields ==
  ASSUME GatewayTypeOK, NEW t \in Txns, NEW amount \in Nat, Credit(t, amount)
  PROVE  /\ balance' \in [Tokens -> Nat] /\ statement' \in [Txns -> Entry]
         /\ statement'[t].charged = statement[t].charged
         /\ statement'[t].credited \in {statement[t].credited,
                                        statement[t].credited + amount}
         /\ \A u \in Txns \ {t} : statement'[u] = statement[u]
<1>1. statement[t] \in Entry /\ transactions[t] \in Transaction
  BY DEF GatewayTypeOK
<1>2. CASE transactions[t].token \in accounts
  <2> DEFINE entry == [statement[t] EXCEPT !.credited = @ + amount]
             onto == transactions[t].token
  <2>1. statement' = [statement EXCEPT ![t] = entry]
    BY <1>2 DEF Credit, GatewayTypeOK
  <2>2. /\ entry \in Entry /\ entry.charged = statement[t].charged
        /\ entry.credited = statement[t].credited + amount
    BY <1>1 DEF Entry
  <2>3. /\ balance' = [balance EXCEPT ![onto] = @ + amount]
        /\ onto \in Tokens /\ balance[onto] + amount \in Nat
    BY <1>2 DEF Credit, GatewayTypeOK
  <2> HIDE DEF entry, onto
  <2> QED
    BY <2>1, <2>2, <2>3 DEF GatewayTypeOK
<1>3. CASE transactions[t].token \notin accounts
  BY <1>3 DEF Credit, GatewayTypeOK
<1> QED
  BY <1>2, <1>3

LEMMA OrAllType ==
  ASSUME GatewayTypeOK, NEW t \in Txns, NEW amount \in Amounts \cup {0}
  PROVE  OrAll(amount, t) \in Nat
BY GatewayAssumption DEF OrAll, GatewayTypeOK, Transaction

\* A step on one transaction keeps the others.
LEMMA OneTransaction ==
  ASSUME GatewayInv, GatewayTypeOK', NEW t \in Txns, RefundsFit(t)',
         \A u \in Txns \ {t} : /\ transactions'[u] = transactions[u]
                               /\ statement'[u] = statement[u]
  PROVE  GatewayInv'
<1>1. ASSUME NEW u \in Txns \ {t} PROVE RefundsFit(u)'
  BY DEF GatewayInv, RefundsFit
<1> QED
  BY <1>1 DEF GatewayInv

\* A captured transaction is credited at most its charge by any call.
Bounded(t) ==
  transactions[t].captured => statement'[t].credited <= statement[t].charged

LEMMA StatementKept ==
  ASSUME GatewayInv, NEW t \in Txns, statement'[t] = statement[t]
  PROVE  Bounded(t)
BY DEF GatewayInv, GatewayTypeOK, RefundsFit, Bounded, Transaction, Entry

LEMMA GatewayAuthorizes ==
  ASSUME GatewayInv, NEW request \in Request, NEW t \in Txns,
         Authorize(request, t)
  PROVE  GatewayInv' /\ \A u \in Txns : Bounded(u)
<1>1. GatewayTypeOK /\ request.amount \in Nat \ {0} /\ request.key \in Keys
      /\ request.token \in Tokens
  BY GatewayAssumption DEF GatewayInv, Request
<1>2. CASE AnswerFromCache(request)
  BY <1>2, StatementKept
     DEF AnswerFromCache, gatewayVars, GatewayInv, GatewayTypeOK, RefundsFit
<1>3. CASE Decline(request)
  <2> DEFINE answer == [approved |-> FALSE, txn |-> None,
                        amount |-> request.amount]
  <2>1. /\ idempotency' = [idempotency EXCEPT ![request.key] = answer]
        /\ UNCHANGED <<accounts, balance, transactions, statement>>
    BY <1>3 DEF Decline
  <2>2. answer \in Answer
    BY <1>1 DEF Answer
  <2> HIDE DEF answer
  <2> QED
    BY <1>1, <2>1, <2>2, StatementKept
       DEF GatewayInv, GatewayTypeOK, RefundsFit
<1>4. CASE Approve(request, t)
  <2> DEFINE answer == [approved |-> TRUE, txn |-> t, amount |-> request.amount]
             new == [status |-> "approved", token |-> request.token,
                     amount |-> request.amount, captured |-> FALSE,
                     refunded |-> 0]
             entry == [charged |-> request.amount, credited |-> 0,
                       key |-> request.key]
  <2>1. /\ idempotency' = [idempotency EXCEPT ![request.key] = answer]
        /\ transactions' = [transactions EXCEPT ![t] = new]
        /\ statement' = [statement EXCEPT ![t] = entry]
        /\ balance' = [balance EXCEPT ![request.token] = @ - request.amount]
        /\ balance[request.token] >= request.amount
        /\ UNCHANGED accounts
    BY <1>4 DEF Approve, Approves, ChargeCard
  <2>2. /\ answer \in Answer /\ new \in Transaction /\ entry \in Entry
        /\ new.status = "approved" /\ ~new.captured /\ new.refunded = 0
        /\ new.amount = request.amount
        /\ entry.credited = 0 /\ entry.charged = request.amount
    BY <1>1 DEF Answer, Transaction, Entry
  <2>3. balance' \in [Tokens -> Nat]
    <3>1. balance[request.token] - request.amount \in Nat
      BY <1>1, <2>1 DEF GatewayTypeOK
    <3> QED
      BY <1>1, <2>1, <3>1 DEF GatewayTypeOK
  <2> HIDE DEF answer, new, entry
  <2>4. GatewayTypeOK'
    BY <1>1, <2>1, <2>2, <2>3 DEF GatewayTypeOK
  <2>5. /\ transactions'[t] = new /\ statement'[t] = entry
        /\ \A u \in Txns \ {t} : /\ transactions'[u] = transactions[u]
                                 /\ statement'[u] = statement[u]
    BY <1>1, <2>1 DEF GatewayTypeOK
  <2>6. RefundsFit(t)'
    BY <1>1, <2>2, <2>5 DEF RefundsFit
  <2>7. Bounded(t)
    BY <1>1, <2>2, <2>5 DEF Bounded, GatewayTypeOK, Entry
  <2> QED
    BY <2>4, <2>5, <2>6, <2>7, OneTransaction, StatementKept
<1> QED
  BY <1>2, <1>3, <1>4 DEF Authorize

LEMMA GatewayCaptures ==
  ASSUME GatewayInv, NEW t \in Txns, NEW amount \in Amounts \cup {0},
         Capture(t, amount)
  PROVE  GatewayInv' /\ \A u \in Txns : Bounded(u)
<1> DEFINE new == [transactions[t] EXCEPT !.amount = OrAll(amount, t),
                                          !.captured = TRUE]
<1>1. /\ GatewayTypeOK /\ OrAll(amount, t) \in Nat
      /\ transactions[t] \in Transaction
  BY OrAllType DEF GatewayInv, GatewayTypeOK
<1>2. /\ new \in Transaction /\ new.status = transactions[t].status
      /\ new.refunded = transactions[t].refunded
      /\ new.amount = OrAll(amount, t)
  BY <1>1 DEF Transaction
<1>3. /\ transactions' = [transactions EXCEPT ![t] = new]
      /\ transactions[t].status = "approved"
      /\ OrAll(amount, t) <= transactions[t].amount
      /\ UNCHANGED <<accounts, balance, idempotency, statement>>
  BY <1>1 DEF Capture, GatewayTypeOK
<1> HIDE DEF new
<1>4. GatewayTypeOK'
  BY <1>1, <1>2, <1>3 DEF GatewayTypeOK
<1>5. /\ transactions'[t] = new
      /\ \A u \in Txns \ {t} : transactions'[u] = transactions[u]
  BY <1>1, <1>3 DEF GatewayTypeOK
<1>6. RefundsFit(t)'
  BY <1>1, <1>2, <1>3, <1>5 DEF GatewayInv, GatewayTypeOK, RefundsFit,
                                Transaction, Entry
<1> QED
  BY <1>3, <1>4, <1>5, <1>6, OneTransaction, StatementKept

LEMMA GatewayRefunds ==
  ASSUME GatewayInv, NEW t \in Txns, NEW amount \in Amounts \cup {0},
         GatewayRefund(t, amount)
  PROVE  GatewayInv' /\ \A u \in Txns : Bounded(u)
<1> PICK sum \in Nat : sum = OrAll(amount, t)
  BY OrAllType DEF GatewayInv
<1> DEFINE new == [transactions[t] EXCEPT !.refunded = @ + sum]
<1>1. GatewayTypeOK /\ transactions[t] \in Transaction /\ statement[t] \in Entry
  BY DEF GatewayInv, GatewayTypeOK
<1>2. /\ new \in Transaction /\ new.status = transactions[t].status
      /\ new.captured = transactions[t].captured
      /\ new.amount = transactions[t].amount
      /\ new.refunded = transactions[t].refunded + sum
  BY <1>1 DEF Transaction
<1>3. /\ transactions' = [transactions EXCEPT ![t] = new]
      /\ transactions[t].status = "approved"
      /\ sum <= transactions[t].amount - transactions[t].refunded
      /\ Credit(t, sum)
      /\ UNCHANGED <<accounts, idempotency>>
  BY <1>1 DEF GatewayRefund, Refundable, GatewayTypeOK
<1>4. /\ balance' \in [Tokens -> Nat] /\ statement' \in [Txns -> Entry]
      /\ statement'[t].charged = statement[t].charged
      /\ statement'[t].credited \in {statement[t].credited,
                                     statement[t].credited + sum}
      /\ \A u \in Txns \ {t} : statement'[u] = statement[u]
  BY <1>1, <1>3, CreditFields
<1> HIDE DEF new
<1>5. GatewayTypeOK'
  BY <1>1, <1>2, <1>3, <1>4 DEF GatewayTypeOK
<1>6. /\ transactions'[t] = new
      /\ \A u \in Txns \ {t} : transactions'[u] = transactions[u]
  BY <1>1, <1>3 DEF GatewayTypeOK
<1>7. /\ statement[t].credited <= transactions[t].refunded
      /\ transactions[t].refunded <= statement[t].charged
      /\ transactions[t].amount <= statement[t].charged
  BY <1>3 DEF GatewayInv, RefundsFit
<1>8. /\ statement[t].credited \in Nat /\ statement[t].charged \in Nat
      /\ transactions[t].refunded \in Nat /\ transactions[t].amount \in Nat
  BY <1>1 DEF Transaction, Entry
<1>9. /\ statement'[t].credited <= new.refunded
      /\ new.refunded <= statement[t].charged
      /\ statement'[t].credited <= statement[t].charged
  BY <1>2, <1>3, <1>4, <1>7, <1>8
<1>10. RefundsFit(t)'
  BY <1>2, <1>3, <1>4, <1>6, <1>7, <1>9 DEF RefundsFit
<1> QED
  BY <1>4, <1>5, <1>6, <1>9, <1>10, OneTransaction, StatementKept DEF Bounded

LEMMA GatewayVoids ==
  ASSUME GatewayInv, NEW t \in Txns, GatewayVoid(t)
  PROVE  GatewayInv' /\ \A u \in Txns : Bounded(u)
<1> DEFINE new == [transactions[t] EXCEPT !.status = "voided", !.amount = 0]
<1>1. /\ GatewayTypeOK /\ transactions[t] \in Transaction
      /\ transactions[t].amount \in Nat
  BY DEF GatewayInv, GatewayTypeOK, Transaction
<1>2. /\ new \in Transaction /\ new.status = "voided"
      /\ new.captured = transactions[t].captured
  BY <1>1 DEF Transaction
<1>3. /\ transactions' = [transactions EXCEPT ![t] = new]
      /\ ~transactions[t].captured
      /\ Credit(t, transactions[t].amount)
      /\ UNCHANGED <<accounts, idempotency>>
  BY <1>1 DEF GatewayVoid, Voidable, GatewayTypeOK
<1>4. /\ balance' \in [Tokens -> Nat] /\ statement' \in [Txns -> Entry]
      /\ \A u \in Txns \ {t} : statement'[u] = statement[u]
  BY <1>1, <1>3, CreditFields
<1> HIDE DEF new
<1>5. GatewayTypeOK'
  BY <1>1, <1>2, <1>3, <1>4 DEF GatewayTypeOK
<1>6. /\ transactions'[t] = new
      /\ \A u \in Txns \ {t} : transactions'[u] = transactions[u]
  BY <1>1, <1>3 DEF GatewayTypeOK
<1>7. RefundsFit(t)'
  BY <1>2, <1>3, <1>6 DEF RefundsFit
<1> QED
  BY <1>3, <1>4, <1>5, <1>6, <1>7, OneTransaction, StatementKept DEF Bounded

LEMMA GatewayInvStep ==
  ASSUME GatewayInv, [GatewayNext]_gatewayVars
  PROVE  GatewayInv' /\ \A t \in Txns : Bounded(t)
<1>1. CASE UNCHANGED gatewayVars
  BY <1>1, StatementKept
     DEF gatewayVars, GatewayInv, GatewayTypeOK, RefundsFit
<1>2. ASSUME NEW token \in Tokens, Tokenize(token)
      PROVE  GatewayInv' /\ \A t \in Txns : Bounded(t)
  <2>1. balance' \in [Tokens -> Nat] /\ accounts' \subseteq Tokens
    BY <1>2, GatewayAssumption DEF Tokenize, GatewayInv, GatewayTypeOK
  <2> QED
    BY <1>2, <2>1, StatementKept
       DEF Tokenize, GatewayInv, GatewayTypeOK, RefundsFit
<1> QED
  BY <1>1, <1>2, GatewayAuthorizes, GatewayCaptures, GatewayRefunds,
     GatewayVoids DEF GatewayNext

(***************************************************************************)
(* A captured transaction is never credited beyond its charge, in whatever *)
(* order a client captures, refunds and voids (nexi_mock.py).              *)
(***************************************************************************)
THEOREM CapturesBoundCredits == GatewaySpec => CapturedNeverOverCredited
<1>1. GatewayInit => GatewayInv
  BY GatewayInvInit
<1>2. GatewayInv /\ [GatewayNext]_gatewayVars => GatewayInv'
  BY GatewayInvStep
<1>3. GatewayInv /\ [GatewayNext]_gatewayVars =>
        [\A t \in Txns :
           transactions[t].captured =>
             statement'[t].credited <= statement[t].charged]_gatewayVars
  BY GatewayInvStep DEF Bounded
<1> QED
  BY <1>1, <1>2, <1>3, PTL DEF GatewaySpec, CapturedNeverOverCredited

-----------------------------------------------------------------------------
(***************************************************************************)
(* Money.  A transaction belongs to a card from its charge on, and a card  *)
(* has an account from then on; so a new account finds nothing spent, a    *)
(* charge adds a term to the sum over its card, and a credit changes one.  *)
(***************************************************************************)
Net == [t \in Txns |-> statement[t].charged - statement[t].credited]
Of(token) == {t \in Txns : transactions[t].token = token}

MoneyInv ==
  /\ GatewayInv
  /\ \A t \in Txns :
       /\ transactions[t].token \in accounts \cup {None}
       /\ statement[t] = NoEntry => transactions[t].token = None
  /\ \A token \in Tokens : IsFiniteSet(Of(token))
  /\ MoneyConserved

LEMMA NetType ==
  ASSUME GatewayTypeOK
  PROVE  \A t \in Txns : Net[t] \in Int
BY DEF GatewayTypeOK, Net, Entry

LEMMA SpentIsSum ==
  ASSUME NEW token
  PROVE  /\ Spent(token) = SumFunctionOnSet(Net, Of(token))
         /\ Spent(token)' = SumFunctionOnSet(Net', Of(token)')
BY DEF Spent, Net, Of

LEMMA MoneyInit ==
  ASSUME GatewayInit
  PROVE  MoneyInv
<1>1. \A token \in Tokens : Of(token) = {}
  BY GatewayAssumption DEF GatewayInit, Of, NoTransaction
<1>2. \A token \in Tokens : IsFiniteSet(Of(token))
  BY <1>1, FS_EmptySet
<1>3. /\ \A t \in Txns : transactions[t].token = None
      /\ MoneyConserved
  BY DEF GatewayInit, NoTransaction, MoneyConserved
<1> QED
  BY <1>2, <1>3, GatewayInvInit DEF MoneyInv

\* A card none of whose transactions, and none of whose balance, changed.
LEMMA SpentStays ==
  ASSUME MoneyInv, GatewayTypeOK', NEW token \in Tokens,
         Of(token)' = Of(token),
         \A t \in Of(token) : statement'[t] = statement[t]
  PROVE  Spent(token)' = Spent(token)
<1>1. IsFiniteSet(Of(token)) /\ Of(token) \subseteq Txns
  BY DEF MoneyInv, Of
<1>2. \A t \in Of(token) : Net[t] \in Int /\ Net[t] = Net'[t]
  BY <1>1, NetType DEF MoneyInv, GatewayInv, Net
<1>3. SumFunctionOnSet(Net, Of(token)) = SumFunctionOnSet(Net', Of(token))
  BY <1>1, <1>2, SumOfSame
<1> QED
  BY <1>3, SpentIsSum

\* One transaction comes to a card, or changes: its term is all that does.
LEMMA SpentOn ==
  ASSUME MoneyInv, GatewayTypeOK', NEW token \in Tokens, NEW t \in Txns,
         Of(token)' = Of(token) \cup {t},
         \A u \in Of(token) \ {t} : statement'[u] = statement[u]
  PROVE  /\ IsFiniteSet(Of(token)')
         /\ Spent(token)' - Spent(token) =
              Net'[t] - (IF t \in Of(token) THEN Net[t] ELSE 0)
<1> DEFINE rest == Of(token) \ {t}
           others == SumFunctionOnSet(Net, rest)
<1>1. IsFiniteSet(Of(token)) /\ Of(token) \subseteq Txns
  BY DEF MoneyInv, Of
<1>2. IsFiniteSet(rest) /\ IsFiniteSet(Of(token)')
  BY <1>1, FS_RemoveElement, FS_AddElement
<1>3. /\ \A u \in Txns : Net[u] \in Int /\ Net'[u] \in Int
      /\ \A u \in rest : Net[u] = Net'[u]
  <2>1. \A u \in Txns : Net'[u] \in Int
    BY DEF GatewayTypeOK, Net, Entry
  <2> QED
    BY <1>1, <2>1, NetType DEF MoneyInv, GatewayInv, Net
<1>4. SumFunctionOnSet(Net', rest) = others
  BY <1>1, <1>2, <1>3, SumOfSame
<1>5. Spent(token)' = Net'[t] + others
  <2>1. t \in Of(token)' /\ Of(token)' \ {t} = rest
    OBVIOUS
  <2>2. \A u \in Of(token)' : Net'[u] \in Int
    BY <1>1, <1>3
  <2>3. SumFunctionOnSet(Net', Of(token)') =
          Net'[t] + SumFunctionOnSet(Net', Of(token)' \ {t})
    BY <1>2, <2>1, <2>2, SumWithout
  <2> QED
    BY <1>4, <2>1, <2>3, SpentIsSum
<1>6. Spent(token) = (IF t \in Of(token) THEN Net[t] ELSE 0) + others
  <2>1. CASE t \in Of(token)
    <3>1. SumFunctionOnSet(Net, Of(token)) = Net[t] + others
      BY <1>1, <1>3, <2>1, SumWithout
    <3> QED
      BY <2>1, <3>1, SpentIsSum
  <2>2. CASE t \notin Of(token)
    <3>1. rest = Of(token) /\ others \in Int
      BY <1>1, <1>3, <2>2, SumIsInt
    <3> QED
      BY <2>2, <3>1, SpentIsSum
  <2> QED
    BY <2>1, <2>2
<1>7. others \in Int
  BY <1>1, <1>2, <1>3, SumIsInt
<1> HIDE DEF others, rest
<1> QED
  BY <1>2, <1>3, <1>5, <1>6, <1>7

LEMMA SpentType ==
  ASSUME MoneyInv, NEW token \in Tokens
  PROVE  Spent(token) \in Int
<1>1. IsFiniteSet(Of(token)) /\ \A t \in Of(token) : Net[t] \in Int
  BY NetType DEF MoneyInv, GatewayInv, Of
<1> QED
  BY <1>1, SumIsInt, SpentIsSum

\* A step that moves no money.
LEMMA MoneyStill ==
  ASSUME MoneyInv, GatewayInv',
         UNCHANGED <<accounts, balance, statement>>,
         \A t \in Txns : transactions'[t].token = transactions[t].token
  PROVE  MoneyInv'
<1>1. ASSUME NEW token \in Tokens
      PROVE  Of(token)' = Of(token) /\ Spent(token)' = Spent(token)
  <2>1. Of(token)' = Of(token)
    BY DEF Of
  <2> QED
    BY <2>1, SpentStays DEF GatewayInv
<1>2. accounts \subseteq Tokens
  BY DEF MoneyInv, GatewayInv, GatewayTypeOK
<1>3. MoneyConserved'
  BY <1>1, <1>2 DEF MoneyInv, MoneyConserved
<1> QED
  BY <1>1, <1>3 DEF MoneyInv

LEMMA MoneyTokenize ==
  ASSUME MoneyInv, GatewayInv', NEW token \in Tokens, Tokenize(token)
  PROVE  MoneyInv'
<1>1. /\ token \notin accounts /\ accounts' = accounts \cup {token}
      /\ balance' = [balance EXCEPT ![token] = StartBalance]
      /\ UNCHANGED <<transactions, statement>>
  BY DEF Tokenize
<1>2. accounts \subseteq Tokens /\ balance \in [Tokens -> Nat]
  BY DEF MoneyInv, GatewayInv, GatewayTypeOK
<1>3. ASSUME NEW k \in Tokens
      PROVE  Of(k)' = Of(k) /\ Spent(k)' = Spent(k)
  <2>1. Of(k)' = Of(k)
    BY <1>1 DEF Of
  <2> QED
    BY <1>1, <2>1, SpentStays DEF GatewayInv
<1>4. Spent(token)' = 0
  <2>1. Of(token) = {}
    BY <1>1, GatewayAssumption DEF MoneyInv, Of
  <2> QED
    BY <1>3, <2>1, SpentIsSum, SumOfNone
<1>5. MoneyConserved'
  <2> SUFFICES ASSUME NEW k \in accounts'
               PROVE  balance'[k] = StartBalance - Spent(k)'
    BY DEF MoneyConserved
  <2>1. CASE k = token
    BY <1>1, <1>2, <1>4, <2>1, GatewayAssumption
  <2>2. CASE k # token
    BY <1>1, <1>2, <1>3, <2>2 DEF MoneyInv, MoneyConserved
  <2> QED
    BY <2>1, <2>2
<1> QED
  BY <1>1, <1>3, <1>5 DEF MoneyInv

LEMMA MoneyApprove ==
  ASSUME MoneyInv, GatewayInv', NEW request \in Request, NEW t \in Txns,
         Approve(request, t)
  PROVE  MoneyInv'
<1> DEFINE k == request.token
           amount == request.amount
<1>1. /\ GatewayTypeOK /\ k \in Tokens /\ amount \in Nat \ {0}
      /\ request.key \in Keys
  BY GatewayAssumption DEF MoneyInv, GatewayInv, Request
<1>2. /\ statement[t] = NoEntry /\ k \in accounts
      /\ balance' = [balance EXCEPT ![k] = @ - amount]
      /\ statement' = [statement EXCEPT ![t] =
                         [charged |-> amount, credited |-> 0,
                          key |-> request.key]]
      /\ \A u \in Txns : transactions'[u].token =
                           IF u = t THEN k ELSE transactions[u].token
      /\ UNCHANGED accounts
  BY <1>1 DEF Approve, Approves, ChargeCard, GatewayTypeOK
<1>3. transactions[t].token = None /\ None \notin Tokens
  BY <1>2, GatewayAssumption DEF MoneyInv
<1> HIDE DEF k, amount
<1>4. /\ statement'[t].charged = amount /\ statement'[t].credited = 0
      /\ statement'[t] # NoEntry
      /\ \A u \in Txns \ {t} : statement'[u] = statement[u]
  BY <1>1, <1>2 DEF GatewayTypeOK, NoEntry
<1>5. /\ Of(k)' = Of(k) \cup {t} /\ t \notin Of(k)
      /\ \A other \in Tokens \ {k} :
           Of(other)' = Of(other) /\ t \notin Of(other)
  BY <1>1, <1>2, <1>3 DEF Of
<1>6. IsFiniteSet(Of(k)') /\ Spent(k)' = Spent(k) + amount
  <2>1. \A u \in Of(k) \ {t} : statement'[u] = statement[u]
    BY <1>4 DEF Of
  <2>2. /\ IsFiniteSet(Of(k)')
        /\ Spent(k)' - Spent(k) =
             Net'[t] - (IF t \in Of(k) THEN Net[t] ELSE 0)
    BY <1>1, <1>5, <2>1, SpentOn DEF GatewayInv
  <2>3. Net'[t] = amount
    BY <1>1, <1>4 DEF Net
  <2>4. Spent(k)' \in Int
    <3>1. \A u \in Of(k)' : Net'[u] \in Int
      BY DEF GatewayInv, GatewayTypeOK, Net, Of, Entry
    <3> QED
      BY <2>2, <3>1, SumIsInt, SpentIsSum
  <2> QED
    BY <1>1, <1>5, <2>2, <2>3, <2>4, SpentType
<1>7. ASSUME NEW other \in Tokens \ {k}
      PROVE  Of(other)' = Of(other) /\ Spent(other)' = Spent(other)
  <2>1. \A u \in Of(other) : statement'[u] = statement[u]
    BY <1>4, <1>5 DEF Of
  <2> QED
    BY <1>5, <2>1, SpentStays DEF GatewayInv
<1>8. MoneyConserved'
  <2> SUFFICES ASSUME NEW token \in accounts'
               PROVE  balance'[token] = StartBalance - Spent(token)'
    BY DEF MoneyConserved
  <2>1. token \in accounts /\ token \in Tokens
    BY <1>1, <1>2 DEF GatewayTypeOK
  <2>2. balance[token] = StartBalance - Spent(token)
    BY <2>1 DEF MoneyInv, MoneyConserved
  <2>3. CASE token = k
    <3>1. balance'[token] = balance[token] - amount
      BY <1>1, <1>2, <2>1, <2>3 DEF GatewayTypeOK
    <3> QED
      BY <1>1, <1>6, <2>1, <2>2, <2>3, <3>1, SpentType, GatewayAssumption
  <2>4. CASE token # k
    BY <1>1, <1>2, <1>7, <2>1, <2>2, <2>4 DEF GatewayTypeOK
  <2> QED
    BY <2>3, <2>4
<1>9. \A token \in Tokens : IsFiniteSet(Of(token)')
  BY <1>6, <1>7 DEF MoneyInv
<1>10. \A u \in Txns :
         /\ transactions'[u].token \in accounts' \cup {None}
         /\ statement'[u] = NoEntry => transactions'[u].token = None
  BY <1>2, <1>4 DEF MoneyInv
<1> QED
  BY <1>8, <1>9, <1>10 DEF MoneyInv

\* A credit reaches the card if the card has an account, and then it has one.
LEMMA MoneyCredit ==
  ASSUME MoneyInv, GatewayInv', NEW t \in Txns, NEW amount \in Nat,
         Credit(t, amount), UNCHANGED accounts,
         \A u \in Txns : transactions'[u].token = transactions[u].token
  PROVE  MoneyInv'
<1>1. GatewayTypeOK /\ accounts \subseteq Tokens
  BY DEF MoneyInv, GatewayInv, GatewayTypeOK
<1>2. CASE transactions[t].token \notin accounts
  <2>1. UNCHANGED <<balance, statement>>
    BY <1>2 DEF Credit
  <2> QED
    BY <2>1, MoneyStill
<1>3. CASE transactions[t].token \in accounts
  <2> PICK k \in Tokens : k = transactions[t].token
    BY <1>1, <1>3
  <2>1. /\ balance' = [balance EXCEPT ![k] = @ + amount]
        /\ statement' = [statement EXCEPT ![t].credited = @ + amount]
    BY <1>3 DEF Credit
  <2>2. /\ statement[t] \in Entry /\ k \in Tokens
        /\ statement'[t].charged = statement[t].charged
        /\ statement'[t].credited = statement[t].credited + amount
        /\ statement[t] # NoEntry
        /\ \A u \in Txns \ {t} : statement'[u] = statement[u]
    <3>1. statement[t] # NoEntry
      BY <1>1, <1>3, GatewayAssumption DEF MoneyInv
    <3> QED
      BY <1>1, <1>3, <2>1, <3>1 DEF GatewayTypeOK, Entry
  <2>3. /\ t \in Of(k)
        /\ \A token \in Tokens : Of(token)' = Of(token)
        /\ \A token \in Tokens \ {k} : t \notin Of(token)
    BY DEF Of
  <2>4. statement'[t] # NoEntry
    <3> SUFFICES ASSUME statement'[t] = NoEntry PROVE FALSE
      OBVIOUS
    <3>1. statement[t].charged = 0 /\ statement'[t].key = None
      BY <2>2 DEF NoEntry
    <3>2. statement[t].credited \in Nat /\ statement[t].credited + amount = 0
      BY <2>2 DEF NoEntry, Entry
    <3>3. statement'[t].key = statement[t].key
      BY <1>1, <2>1 DEF GatewayTypeOK, Entry
    <3>4. statement[t] = NoEntry
      BY <2>2, <3>1, <3>2, <3>3 DEF Entry, NoEntry
    <3> QED
      BY <2>2, <3>4
  <2>5. Spent(k)' = Spent(k) - amount
    <3>1. Of(k)' = Of(k) \cup {t}
      BY <2>3
    <3>2. \A u \in Of(k) \ {t} : statement'[u] = statement[u]
      BY <2>2 DEF Of
    <3>3. /\ IsFiniteSet(Of(k)')
          /\ Spent(k)' - Spent(k) =
               Net'[t] - (IF t \in Of(k) THEN Net[t] ELSE 0)
      BY <2>2, <3>1, <3>2, SpentOn DEF GatewayInv
    <3>4. /\ Net'[t] = Net[t] - amount /\ Net[t] \in Int
      BY <2>2 DEF Net, Entry
    <3>5. Spent(k)' \in Int
      <4>1. \A u \in Of(k)' : Net'[u] \in Int
        BY DEF GatewayInv, GatewayTypeOK, Net, Of, Entry
      <4> QED
        BY <3>3, <4>1, SumIsInt, SpentIsSum
    <3> QED
      BY <2>2, <2>3, <3>3, <3>4, <3>5, SpentType
  <2>6. ASSUME NEW other \in Tokens \ {k}
        PROVE  Spent(other)' = Spent(other)
    <3>1. \A u \in Of(other) : statement'[u] = statement[u]
      BY <2>2, <2>3 DEF Of
    <3> QED
      BY <2>3, <3>1, SpentStays DEF GatewayInv
  <2>7. MoneyConserved'
    <3> SUFFICES ASSUME NEW token \in accounts'
                 PROVE  balance'[token] = StartBalance - Spent(token)'
      BY DEF MoneyConserved
    <3>1. token \in accounts /\ token \in Tokens
      BY <1>1
    <3>2. balance[token] = StartBalance - Spent(token)
      BY <3>1 DEF MoneyInv, MoneyConserved
    <3>3. CASE token = k
      <4>1. balance'[token] = balance[token] + amount
        BY <1>1, <2>1, <3>1, <3>3 DEF GatewayTypeOK
      <4> QED
        BY <2>5, <3>1, <3>2, <3>3, <4>1, SpentType, GatewayAssumption
    <3>4. CASE token # k
      BY <1>1, <2>1, <2>6, <3>1, <3>2, <3>4 DEF GatewayTypeOK
    <3> QED
      BY <3>3, <3>4
  <2> QED
    BY <2>2, <2>3, <2>4, <2>7 DEF MoneyInv
<1> QED
  BY <1>2, <1>3

LEMMA MoneyStep ==
  ASSUME MoneyInv, [GatewayNext]_gatewayVars
  PROVE  MoneyInv'
<1>1. GatewayInv' /\ GatewayTypeOK
  BY GatewayInvStep DEF MoneyInv, GatewayInv
<1>2. CASE UNCHANGED gatewayVars
  BY <1>1, <1>2, MoneyStill DEF gatewayVars
<1>3. ASSUME NEW token \in Tokens, Tokenize(token) PROVE MoneyInv'
  BY <1>1, <1>3, MoneyTokenize
<1>4. ASSUME NEW request \in Request, NEW t \in Txns, Authorize(request, t)
      PROVE  MoneyInv'
  <2>1. CASE AnswerFromCache(request)
    BY <1>1, <2>1, MoneyStill DEF AnswerFromCache, gatewayVars
  <2>2. CASE Decline(request)
    BY <1>1, <2>2, MoneyStill DEF Decline
  <2>3. CASE Approve(request, t)
    BY <1>1, <2>3, MoneyApprove
  <2> QED
    BY <1>4, <2>1, <2>2, <2>3 DEF Authorize
<1>5. ASSUME NEW t \in Txns, NEW amount \in Amounts \cup {0}, Capture(t, amount)
      PROVE  MoneyInv'
  <2>1. \A u \in Txns : transactions'[u].token = transactions[u].token
    BY <1>1, <1>5 DEF Capture, GatewayTypeOK, Transaction
  <2> QED
    BY <1>1, <1>5, <2>1, MoneyStill DEF Capture
<1>6. ASSUME NEW t \in Txns, NEW amount \in Amounts \cup {0},
             GatewayRefund(t, amount)
      PROVE  MoneyInv'
  <2>1. \A u \in Txns : transactions'[u].token = transactions[u].token
    BY <1>1, <1>6 DEF GatewayRefund, GatewayTypeOK, Transaction
  <2>2. OrAll(amount, t) \in Nat
    BY <1>1, OrAllType
  <2> QED
    BY <1>1, <1>6, <2>1, <2>2, MoneyCredit DEF GatewayRefund
<1>7. ASSUME NEW t \in Txns, GatewayVoid(t) PROVE MoneyInv'
  <2>1. \A u \in Txns : transactions'[u].token = transactions[u].token
    BY <1>1, <1>7 DEF GatewayVoid, GatewayTypeOK, Transaction
  <2>2. transactions[t].amount \in Nat
    BY <1>1 DEF GatewayTypeOK, Transaction
  <2> QED
    BY <1>1, <1>7, <2>1, <2>2, MoneyCredit DEF GatewayVoid
<1> QED
  BY <1>2, <1>3, <1>4, <1>5, <1>6, <1>7 DEF GatewayNext

LEMMA GateSteps ==
  ASSUME [GateNext]_gateVars
  PROVE  /\ [GatewayNext]_gatewayVars
         /\ attempt' \in Attempts \cup {attempt, None}
BY DEF GateNext, gateVars, Submit, Refuse, Enroll, GatewayNext

(***************************************************************************)
(* No call of the acquirer creates or destroys money, for any number of    *)
(* cards and transactions and in whatever order a client captures,         *)
(* refunds and voids (nexi_mock.py) ...                                    *)
(***************************************************************************)
THEOREM AcquirerKeepsMoney == GatewaySpec => []MoneyConserved
<1>1. GatewayInit => MoneyInv
  BY MoneyInit
<1>2. MoneyInv /\ [GatewayNext]_gatewayVars => MoneyInv'
  BY MoneyStep
<1>3. MoneyInv => MoneyConserved
  BY DEF MoneyInv
<1> QED
  BY <1>1, <1>2, <1>3, PTL DEF GatewaySpec

(***************************************************************************)
(* ... nor does an enrollment, which opens the account (enrollment.py).    *)
(***************************************************************************)
THEOREM MoneyIsKept == GateSpec => []MoneyConserved
<1>1. GateInit => MoneyInv
  BY MoneyInit DEF GateInit
<1>2. MoneyInv /\ [GateNext]_gateVars => MoneyInv'
  BY MoneyStep, GateSteps
<1>3. MoneyInv => MoneyConserved
  BY DEF MoneyInv
<1> QED
  BY <1>1, <1>2, <1>3, PTL DEF GateSpec

-----------------------------------------------------------------------------
(***************************************************************************)
(* The card number.  A digit adds a term of at most 9 to the checksum, so  *)
(* a slip that changes the checksum by less than 10 is noticed.            *)
(***************************************************************************)

LEMMA DigitsAreNear ==
  ASSUME NEW d \in Digit, NEW e \in Digit
  PROVE  d \in Int /\ d - e \in (-9)..9
BY DEF Digit

\* Doubling keeps digits apart, and swaps with itself only for 0 and 9.
LEMMA DoublingDigits ==
  /\ \A d \in Digit : /\ Doubled(d) \in Digit
                      /\ Doubled(d) = ((2 * d) \div 10) + ((2 * d) % 10)
  /\ \A d, e \in Digit : Doubled(d) = Doubled(e) => d = e
  /\ \A d, e \in Digit :
       d # e /\ {d, e} # {0, 9} =>
         /\ Doubled(e) + d # Doubled(d) + e
         /\ (Doubled(e) + d) - (Doubled(d) + e) \in (-9)..9
<1>1. \A d \in Digit : d < 5 => /\ Doubled(d) = 2 * d
                                /\ (2 * d) \div 10 = 0 /\ (2 * d) % 10 = 2 * d
  BY DEF Digit, Doubled
<1>2. \A d \in Digit : d > 4 => /\ Doubled(d) = 2 * d - 9
                                /\ (2 * d) \div 10 = 1
                                /\ (2 * d) % 10 = 2 * d - 10
  BY DEF Digit, Doubled
<1>3. \A d \in Digit : /\ Doubled(d) \in Digit
                       /\ Doubled(d) = ((2 * d) \div 10) + ((2 * d) % 10)
  BY <1>1, <1>2 DEF Digit
<1>4. \A d, e \in Digit : Doubled(d) = Doubled(e) => d = e
  BY <1>1, <1>2 DEF Digit
<1>5. ASSUME NEW d \in Digit, NEW e \in Digit, d # e, {d, e} # {0, 9}
      PROVE  /\ Doubled(e) + d # Doubled(d) + e
             /\ (Doubled(e) + d) - (Doubled(d) + e) \in (-9)..9
  BY <1>1, <1>2, <1>5 DEF Digit
<1> QED
  BY <1>3, <1>4, <1>5

LEMMA TermsType ==
  ASSUME NEW number \in Seq(Digit)
  PROVE  /\ DOMAIN Terms(number) = 1..Len(number)
         /\ IsFiniteSet(1..Len(number))
         /\ \A i \in 1..Len(number) : Terms(number)[i] \in Digit
         /\ Checksum(number) = SumFunctionOnSet(Terms(number), 1..Len(number))
         /\ Checksum(number) \in Int
<1>1. /\ DOMAIN number = 1..Len(number)
      /\ \A i \in 1..Len(number) : number[i] \in Digit
  OBVIOUS
<1>2. /\ DOMAIN Terms(number) = 1..Len(number)
      /\ \A i \in 1..Len(number) : Terms(number)[i] \in Digit
  BY <1>1, DoublingDigits DEF Terms
<1>3. IsFiniteSet(1..Len(number))
  BY FS_Interval
<1>4. Checksum(number) = SumFunctionOnSet(Terms(number), 1..Len(number))
  BY <1>2 DEF Checksum, SumFunction
<1>5. \A i \in 1..Len(number) : Terms(number)[i] \in Int
  BY <1>2 DEF Digit
<1> QED
  BY <1>2, <1>3, <1>4, <1>5, SumIsInt

\* The same digits count double, from the left and from the right.
LEMMA TermFromRight ==
  ASSUME NEW number \in Seq(Digit), NEW k \in 1..Len(number)
  PROVE  /\ Len(number) + 1 - k \in 1..Len(number)
         /\ Terms(number)[Len(number) + 1 - k] = StandardTerm(number, k)
<1> DEFINE n == Len(number)
           i == n + 1 - k
<1>1. i \in DOMAIN number /\ number[i] \in Digit /\ n \in Nat /\ k \in Nat
  OBVIOUS
<1>2. IsDoubled(number, i) <=> k % 2 = 0
  <2>1. i - 1 = n - k
    BY <1>1
  <2>2. (n - k) % 2 = n % 2 <=> k % 2 = 0
    BY <1>1
  <2> QED
    BY <2>1, <2>2 DEF IsDoubled
<1>3. k % 2 = 0 \/ k % 2 = 1
  BY <1>1
<1>4. StandardTerm(number, k) = IF k % 2 = 1 THEN number[i]
                                ELSE Doubled(number[i])
  BY <1>1, DoublingDigits DEF StandardTerm, FromRight
<1>5. Terms(number)[i] = IF IsDoubled(number, i) THEN Doubled(number[i])
                         ELSE number[i]
  BY <1>1 DEF Terms
<1> QED
  BY <1>1, <1>2, <1>3, <1>4, <1>5

CountsUp(upTo, number) ==
  upTo = [k \in 0..Len(number) |->
            IF k = 0 THEN 0 ELSE upTo[k - 1] + StandardTerm(number, k)]

LEMMA StandardCounts ==
  ASSUME NEW number
  PROVE  Standard(number) <=>
           (CHOOSE upTo : CountsUp(upTo, number))[Len(number)] % 10 = 0
BY DEF Standard, CountsUp

\* The last k digits: their terms are what counting from the right adds up.
LEMMA SumFromRight ==
  ASSUME NEW number \in Seq(Digit)
  PROVE  (CHOOSE upTo : CountsUp(upTo, number))[Len(number)] = Checksum(number)
<1> DEFINE n == Len(number)
           last(k) == (n + 1 - k)..n
           sum(k) == SumFunctionOnSet(Terms(number), last(k))
           sums == [k \in 0..n |-> sum(k)]
           counted == CHOOSE upTo : CountsUp(upTo, number)
<1>1. n \in Nat
  OBVIOUS
<1>2. sum(0) = 0
  <2>1. last(0) = {}
    BY <1>1
  <2> QED
    BY <2>1, SumOfNone
<1>3. ASSUME NEW k \in 1..n PROVE sum(k) = sum(k - 1) + StandardTerm(number, k)
  <2> DEFINE i == n + 1 - k
  <2>1. /\ i \in last(k) /\ last(k) \ {i} = last(k - 1)
        /\ last(k) \subseteq 1..n /\ IsFiniteSet(last(k))
    <3>1. i \in Int /\ n \in Int /\ 1 <= i /\ i <= n /\ n + 1 - (k - 1) = i + 1
      BY <1>1
    <3>2. last(k - 1) = (i + 1)..n
      BY <3>1
    <3> HIDE DEF i
    <3>3. i \in i..n /\ (i..n) \ {i} = (i + 1)..n /\ i..n \subseteq 1..n
      BY <3>1
    <3> QED
      BY <3>1, <3>2, <3>3, FS_Interval DEF i
  <2>2. \A j \in last(k) : Terms(number)[j] \in Int
    BY <2>1, TermsType DEF Digit
  <2>3. sum(k) = Terms(number)[i] + sum(k - 1)
    <3> HIDE DEF i
    <3>1. SumFunctionOnSet(Terms(number), last(k)) =
            Terms(number)[i] + SumFunctionOnSet(Terms(number), last(k) \ {i})
      BY <2>1, <2>2, SumWithout
    <3> QED
      BY <2>1, <3>1
  <2>4. Terms(number)[i] = StandardTerm(number, k)
    BY TermFromRight
  <2>5. Terms(number)[i] \in Int /\ sum(k - 1) \in Int
    <3>1. /\ IsFiniteSet(last(k - 1))
          /\ \A j \in last(k - 1) : Terms(number)[j] \in Int
      BY <2>1, <2>2, FS_RemoveElement
    <3>2. sum(k - 1) \in Int
      BY <3>1, SumIsInt
    <3> QED
      BY <2>1, <2>2, <3>2
  <2> HIDE DEF sum, i
  <2> QED
    BY <2>3, <2>4, <2>5
<1> HIDE DEF sum
<1>4. CountsUp(sums, number)
  <2>1. \A k \in 0..n : sums[k] = IF k = 0 THEN 0
                                  ELSE sums[k - 1] + StandardTerm(number, k)
    BY <1>1, <1>2, <1>3
  <2> QED
    BY <2>1 DEF CountsUp
<1>5. CountsUp(counted, number)
  BY <1>4
<1> HIDE DEF counted
<1> DEFINE C == {k \in Nat : k <= n => counted[k] = sum(k)}
<1>6. 0 \in C
  BY <1>1, <1>2, <1>5 DEF CountsUp
<1>7. ASSUME NEW k \in Nat, k \in C PROVE k + 1 \in C
  <2> SUFFICES ASSUME k + 1 <= n PROVE counted[k + 1] = sum(k + 1)
    OBVIOUS
  <2>1. k + 1 \in 1..n /\ (k + 1) - 1 = k /\ counted[k] = sum(k)
    BY <1>1, <1>7
  <2>2. counted[k + 1] = counted[k] + StandardTerm(number, k + 1)
    BY <1>5, <2>1 DEF CountsUp
  <2>3. sum(k + 1) = sum(k) + StandardTerm(number, k + 1)
    BY <1>3, <2>1
  <2> QED
    BY <2>1, <2>2, <2>3
<1>8. n \in C
  <2> HIDE DEF C
  <2> QED
    BY <1>1, <1>6, <1>7, SetInduction
<1>9. counted[n] = sum(n)
  BY <1>8
<1>10. sum(n) = Checksum(number)
  <2>1. last(n) = 1..n
    BY <1>1
  <2> QED
    BY <2>1, TermsType DEF sum
<1> QED
  BY <1>9, <1>10 DEF counted

LEMMA CheckIsStandard ==
  ASSUME NEW number \in Seq(Digit)
  PROVE  Standard(number) <=> Checksum(number) % 10 = 0
BY StandardCounts, SumFromRight

LEMMA SmallChangeShows ==
  ASSUME NEW before \in Int, NEW after \in Int, NEW others \in Int,
         after # before, after - before \in (-9)..9,
         (before + others) % 10 = 0
  PROVE  (after + others) % 10 # 0
<1> DEFINE a == before + others
           b == after + others
<1>1. a \in Int /\ b \in Int /\ a % 10 = 0 /\ b # a /\ -9 <= b - a /\ b - a <= 9
  OBVIOUS
<1> HIDE DEF a, b
<1>2. b % 10 # 0
  BY <1>1
<1> QED
  BY <1>2 DEF b

LEMMA ParityAlternates ==
  ASSUME NEW i \in Int, NEW n \in Int
  PROVE  (i - 1) % 2 = n % 2 <=> i % 2 # n % 2
<1>1. (i - 1) % 2 = 1 - (i % 2) /\ i % 2 \in {0, 1} /\ n % 2 \in {0, 1}
  OBVIOUS
<1> QED
  BY <1>1

LEMMA MistypedIsInvalid ==
  ASSUME NEW number \in Seq(Digit), Checksum(number) % 10 = 0,
         NEW typo \in Mistyped(number)
  PROVE  Checksum(typo) % 10 # 0
<1> DEFINE n == Len(number)
<1>1. PICK i \in 1..n, d \in Digit :
        typo = [number EXCEPT ![i] = d] /\ typo # number
  BY DEF Mistyped
<1>2. /\ typo \in Seq(Digit) /\ Len(typo) = n
      /\ typo[i] = d /\ \A j \in (1..n) \ {i} : typo[j] = number[j]
      /\ number[i] \in Digit /\ number[i] # d
  BY <1>1
<1> DEFINE f == Terms(number)
           g == Terms(typo)
           others == SumFunctionOnSet(f, (1..n) \ {i})
<1>3. \A j \in (1..n) \ {i} : g[j] = f[j]
  BY <1>2 DEF Terms, IsDoubled
<1>4. /\ f[i] \in Digit /\ g[i] \in Digit /\ f[i] # g[i]
  <2>1. f[i] # g[i]
    BY <1>2, DoublingDigits DEF Terms, IsDoubled
  <2> QED
    BY <1>2, <2>1, TermsType
<1>5. /\ IsFiniteSet(1..n) /\ IsFiniteSet((1..n) \ {i})
      /\ \A j \in 1..n : f[j] \in Int /\ g[j] \in Int
  BY <1>2, TermsType, FS_RemoveElement DEF Digit
<1> HIDE DEF f, g
<1>6. Checksum(number) = f[i] + others
  <2>1. Checksum(number) = SumFunctionOnSet(f, 1..n)
    BY TermsType DEF f
  <2> QED
    BY <1>5, <2>1, SumWithout
<1>7. Checksum(typo) = g[i] + others
  <2>1. Checksum(typo) = SumFunctionOnSet(g, 1..n)
    BY <1>2, TermsType DEF g
  <2>2. SumFunctionOnSet(g, (1..n) \ {i}) = others
    BY <1>3, <1>5, SumOfSame
  <2> QED
    BY <1>5, <2>1, <2>2, SumWithout
<1>8. others \in Int
  BY <1>5, SumIsInt
<1> HIDE DEF others
<1>9. f[i] \in Int /\ g[i] \in Int /\ g[i] - f[i] \in (-9)..9
  BY <1>4, DigitsAreNear
<1>10. (f[i] + others) % 10 = 0
  BY <1>6
<1>11. (g[i] + others) % 10 # 0
  BY <1>4, <1>8, <1>9, <1>10, SmallChangeShows
<1> QED
  BY <1>7, <1>11

LEMMA TransposedIsInvalid ==
  ASSUME NEW number \in Seq(Digit), Checksum(number) % 10 = 0,
         NEW typo \in Transposed(number)
  PROVE  Checksum(typo) % 10 # 0
<1> DEFINE n == Len(number)
<1>1. PICK i \in 1..(n - 1) :
        /\ typo = [number EXCEPT ![i] = number[i + 1], ![i + 1] = number[i]]
        /\ number[i] # number[i + 1] /\ {number[i], number[i + 1]} # {0, 9}
  BY DEF Transposed
<1> DEFINE rest == ((1..n) \ {i}) \ {i + 1}
<1>2. /\ i \in 1..n /\ i + 1 \in 1..n /\ i # i + 1
      /\ number[i] \in Digit /\ number[i + 1] \in Digit
      /\ typo \in Seq(Digit) /\ Len(typo) = n
      /\ typo[i] = number[i + 1] /\ typo[i + 1] = number[i]
      /\ \A j \in rest : typo[j] = number[j] /\ j \in 1..n
  <2>1. i \in 1..n /\ i + 1 \in 1..n /\ i # i + 1
    OBVIOUS
  <2>2. number[i] \in Digit /\ number[i + 1] \in Digit
    BY <2>1
  <2> HIDE DEF n
  <2> QED
    BY <1>1, <2>1, <2>2 DEF n
<1>d. DOMAIN typo = 1..n /\ DOMAIN number = 1..n
  BY <1>2
<1> DEFINE f == Terms(number)
           g == Terms(typo)
           others == SumFunctionOnSet(f, rest)
<1>3. \A j \in rest : g[j] = f[j]
  BY <1>2, <1>d DEF Terms, IsDoubled
<1>4. IsDoubled(number, i) <=> ~IsDoubled(number, i + 1)
  <2>1. i \in Int /\ (i + 1) - 1 = i /\ Len(number) \in Int
    OBVIOUS
  <2>2. (i - 1) % 2 = Len(number) % 2 <=> i % 2 # Len(number) % 2
    BY <2>1, ParityAlternates
  <2> QED
    BY <2>1, <2>2 DEF IsDoubled
<1>5. /\ g[i] + g[i + 1] # f[i] + f[i + 1]
      /\ (g[i] + g[i + 1]) - (f[i] + f[i + 1]) \in (-9)..9
  <2> DEFINE d == number[i]
             e == number[i + 1]
  <2>1. \A j \in 1..n : IsDoubled(typo, j) <=> IsDoubled(number, j)
    BY <1>2 DEF IsDoubled
  <2>2. /\ d \in Digit /\ e \in Digit /\ d # e
        /\ {d, e} # {0, 9} /\ {e, d} # {0, 9}
    BY <1>1, <1>2
  <2>3. CASE IsDoubled(number, i)
    <3>1. f[i] = Doubled(d) /\ f[i + 1] = e /\ g[i] = Doubled(e) /\ g[i + 1] = d
      BY <1>2, <1>4, <2>1, <2>3 DEF Terms
    <3> HIDE DEF d, e, f, g
    <3>2. /\ Doubled(e) + d # Doubled(d) + e
          /\ (Doubled(e) + d) - (Doubled(d) + e) \in (-9)..9
      BY <2>2, DoublingDigits
    <3> QED
      BY <3>1, <3>2
  <2>4. CASE ~IsDoubled(number, i)
    <3>1. f[i] = d /\ f[i + 1] = Doubled(e) /\ g[i] = e /\ g[i + 1] = Doubled(d)
      BY <1>2, <1>4, <2>1, <2>4 DEF Terms
    <3> HIDE DEF d, e, f, g
    <3>2. /\ Doubled(d) + e # Doubled(e) + d
          /\ (Doubled(d) + e) - (Doubled(e) + d) \in (-9)..9
      BY <2>2, DoublingDigits
    <3>3. d \in Int /\ e \in Int /\ Doubled(d) \in Int /\ Doubled(e) \in Int
      BY <2>2, DoublingDigits, DigitsAreNear
    <3>4. Doubled(d) + e = e + Doubled(d) /\ Doubled(e) + d = d + Doubled(e)
      BY <3>3
    <3> QED
      BY <3>1, <3>2, <3>4
  <2> QED
    BY <2>3, <2>4
<1>6. /\ IsFiniteSet(1..n) /\ IsFiniteSet((1..n) \ {i}) /\ IsFiniteSet(rest)
      /\ \A j \in 1..n : f[j] \in Int /\ g[j] \in Int
  <2>1. IsFiniteSet(1..n) /\ IsFiniteSet((1..n) \ {i}) /\ IsFiniteSet(rest)
    BY <1>2, TermsType, FS_RemoveElement
  <2>2. \A j \in 1..n : f[j] \in Int
    BY TermsType DEF Digit
  <2>3. \A j \in 1..n : g[j] \in Int
    BY <1>2, TermsType DEF Digit
  <2> QED
    BY <2>1, <2>2, <2>3
<1>7. i + 1 \in (1..n) \ {i}
  BY <1>2
<1> HIDE DEF f, g
<1>8. Checksum(number) = f[i] + (f[i + 1] + others)
  <2>1. Checksum(number) = SumFunctionOnSet(f, 1..n)
    BY TermsType DEF f
  <2>2. SumFunctionOnSet(f, 1..n) = f[i] + SumFunctionOnSet(f, (1..n) \ {i})
    BY <1>2, <1>6, SumWithout
  <2>3. SumFunctionOnSet(f, (1..n) \ {i}) = f[i + 1] + others
    BY <1>6, <1>7, SumWithout
  <2> QED
    BY <2>1, <2>2, <2>3
<1>9. Checksum(typo) = g[i] + (g[i + 1] + others)
  <2>1. Checksum(typo) = SumFunctionOnSet(g, 1..n)
    BY <1>2, TermsType DEF g
  <2>2. SumFunctionOnSet(g, 1..n) = g[i] + SumFunctionOnSet(g, (1..n) \ {i})
    BY <1>2, <1>6, SumWithout
  <2>3. SumFunctionOnSet(g, (1..n) \ {i}) = g[i + 1] + SumFunctionOnSet(g, rest)
    BY <1>6, <1>7, SumWithout
  <2>4. SumFunctionOnSet(g, rest) = others
    BY <1>3, <1>6, SumOfSame
  <2> QED
    BY <2>1, <2>2, <2>3, <2>4
<1>10. others \in Int
  <2>1. \A j \in rest : f[j] \in Int
    BY <1>2, <1>6
  <2> QED
    BY <1>6, <2>1, SumIsInt
<1>11. f[i] \in Int /\ f[i + 1] \in Int /\ g[i] \in Int /\ g[i + 1] \in Int
  BY <1>2, <1>6
<1> HIDE DEF others
<1>12. /\ Checksum(number) = (f[i] + f[i + 1]) + others
       /\ Checksum(typo) = (g[i] + g[i + 1]) + others
  BY <1>8, <1>9, <1>10, <1>11
<1>13. f[i] + f[i + 1] \in Int /\ g[i] + g[i + 1] \in Int
  BY <1>11
<1>14. ((f[i] + f[i + 1]) + others) % 10 = 0
  BY <1>12
<1>15. ((g[i] + g[i + 1]) + others) % 10 # 0
  BY <1>5, <1>10, <1>13, <1>14, SmallChangeShows
<1> QED
  BY <1>12, <1>15

LEMMA GateKeepsAttempts ==
  /\ GateInit => attempt \in Attempts \cup {None}
  /\ attempt \in Attempts \cup {None} /\ [GateNext]_gateVars =>
       attempt' \in Attempts \cup {None}
BY GateSteps DEF GateInit

LEMMA TyposShow ==
  ASSUME attempt \in Attempts \cup {None}
  PROVE  LuhnCatchesTypos
<1> SUFFICES ASSUME attempt # None PROVE LuhnCatchesTypos
  BY DEF LuhnCatchesTypos
<1> DEFINE number == attempt.number
<1>1. number \in Seq(Digit) /\ Len(number) \in Nat
  <2>1. number \in Seq(Digit)
    BY GateAssumption, Zenon
  <2> HIDE DEF number
  <2> QED
    BY <2>1
<1> HIDE DEF number
<1>2. LuhnValid(number) <=> Len(number) > 11 /\ Standard(number)
  BY <1>1, CheckIsStandard DEF LuhnValid
<1>3. ASSUME LuhnValid(number),
             NEW typo \in Mistyped(number) \cup Transposed(number)
      PROVE  ~LuhnValid(typo)
  BY <1>1, <1>3, MistypedIsInvalid, TransposedIsInvalid DEF LuhnValid
<1> QED
  BY <1>2, <1>3 DEF LuhnCatchesTypos, number

(***************************************************************************)
(* The card number check is the standard one, and one wrong digit or two   *)
(* swapped neighbours make every valid number invalid, for numbers of any  *)
(* length (luhn_valid, gateway.py).                                        *)
(***************************************************************************)
THEOREM TyposAreCaught == GateSpec => []LuhnCatchesTypos
<1>1. GateInit => attempt \in Attempts \cup {None}
  BY GateKeepsAttempts
<1>2. attempt \in Attempts \cup {None} /\ [GateNext]_gateVars =>
        (attempt \in Attempts \cup {None})'
  BY GateKeepsAttempts
<1>3. attempt \in Attempts \cup {None} => LuhnCatchesTypos
  BY TyposShow
<1> QED
  BY <1>1, <1>2, <1>3, PTL DEF GateSpec

-----------------------------------------------------------------------------
(***************************************************************************)
(* The reference frame.  A frame that lies apart is farther from every     *)
(* other frame than a good one is, and just as far from the good one as    *)
(* the good one is from it: so the good one has the smaller total.         *)
(***************************************************************************)
Row(a, i) == [j \in Samples(a) |-> a.distance[i, j]]
Apart(a, i, j) == a.distance[i, j]

LEMMA LeastExists ==
  ASSUME NEW S, IsFiniteSet(S), S \subseteq Int, S # {},
         NEW f, \A x \in S : f[x] \in Int
  PROVE  \E x \in S : \A y \in S : f[x] < f[y] \/ (f[x] = f[y] /\ x <= y)
<1> DEFINE Least(x, T) == \A y \in T : f[x] < f[y] \/ (f[x] = f[y] /\ x <= y)
           F == {T \in SUBSET S : T # {} => \E x \in T : Least(x, T)}
<1>1. {} \in F
  OBVIOUS
<1>2. ASSUME NEW T \in SUBSET S, T # {}, \A x \in T : T \ {x} \in F
      PROVE  T \in F
  <2>1. PICK x \in T : TRUE
    BY <1>2
  <2>2. T \ {x} # {} => \E z \in T \ {x} : Least(z, T \ {x})
    BY <1>2
  <2>3. \A y \in T : y \in Int /\ f[y] \in Int
    OBVIOUS
  <2>4. CASE T \ {x} = {}
    <3>1. \A y \in T : y = x
      BY <2>4
    <3>2. Least(x, T)
      BY <2>3, <3>1
    <3> QED
      BY <3>2
  <2>5. CASE T \ {x} # {}
    <3>1. PICK z \in T \ {x} : Least(z, T \ {x})
      BY <2>2, <2>5
    <3>2. CASE f[z] < f[x] \/ (f[z] = f[x] /\ z <= x)
      <4>1. Least(z, T)
        BY <3>1, <3>2
      <4> QED
        BY <4>1
    <3>3. CASE ~(f[z] < f[x] \/ (f[z] = f[x] /\ z <= x))
      <4>1. f[x] < f[z] \/ (f[x] = f[z] /\ x < z)
        BY <2>3, <3>3
      <4>2. ASSUME NEW y \in T PROVE f[x] < f[y] \/ (f[x] = f[y] /\ x <= y)
        <5>1. CASE y = x
          BY <2>3, <5>1
        <5>2. CASE y # x
          <6>1. f[z] < f[y] \/ (f[z] = f[y] /\ z <= y)
            BY <3>1, <5>2
          <6>2. /\ f[x] \in Int /\ f[y] \in Int /\ f[z] \in Int
                /\ x \in Int /\ y \in Int /\ z \in Int
            BY <2>3
          <6> QED
            BY <4>1, <6>1, <6>2
        <5> QED
          BY <5>1, <5>2
      <4> QED
        BY <4>2
    <3> QED
      BY <3>2, <3>3
  <2> QED
    BY <2>4, <2>5
<1>3. SUBSET S \subseteq F
  <2> HIDE DEF F
  <2> QED
    BY <1>1, <1>2, SubsetInduction
<1>4. S \in F
  BY <1>3
<1> QED
  BY <1>4

LEMMA SamplesType ==
  ASSUME NEW a \in Attempts
  PROVE  /\ IsFiniteSet(Samples(a)) /\ Samples(a) \subseteq Int
         /\ a.count > 2 => {1, 2, 3} \subseteq Samples(a)
<1> DEFINE n == a.count
<1>1. n \in Nat
  BY GateAssumption, Zenon
<1> HIDE DEF n
<1>2. IsFiniteSet(1..n) /\ 1..n \subseteq Int
  BY <1>1, FS_Interval
<1>3. n > 2 => {1, 2, 3} \subseteq 1..n
  BY <1>1
<1> QED
  BY <1>2, <1>3 DEF Samples, n

\* How far two samples lie apart, read from the rows.
LEMMA RowEntry ==
  ASSUME NEW a \in Attempts, NEW i \in Samples(a), NEW j \in Samples(a)
  PROVE  /\ Row(a, i)[j] = Apart(a, i, j)
         /\ Row(a, i)[j] \in Nat
         /\ Row(a, i)[j] = Row(a, j)[i]
         /\ Row(a, i)[i] = 0
<1>1. /\ a.distance[i, j] \in Nat
      /\ a.distance[i, j] = a.distance[j, i]
      /\ a.distance[i, i] = 0
  BY GateAssumption, Zenon DEF Samples
<1>2. /\ Row(a, i)[j] = a.distance[i, j]
      /\ Row(a, j)[i] = a.distance[j, i]
      /\ Row(a, i)[i] = a.distance[i, i]
  BY Zenon DEF Row
<1> QED
  BY <1>1, <1>2, Zenon DEF Apart

LEMMA RowType ==
  ASSUME NEW a \in Attempts, NEW i \in Samples(a)
  PROVE  /\ \A j \in Samples(a) : Row(a, i)[j] \in Int
         /\ Total(a, i) = SumFunctionOnSet(Row(a, i), Samples(a))
         /\ Total(a, i) \in Int
<1>1. \A j \in Samples(a) : Row(a, i)[j] \in Int
  BY RowEntry
<1>2. Total(a, i) = SumFunctionOnSet(Row(a, i), Samples(a))
  <2>1. DOMAIN Row(a, i) = Samples(a)
    BY DEF Row
  <2> QED
    BY <2>1 DEF Total, SumFunction, Row
<1> QED
  BY <1>1, <1>2, SamplesType, SumIsInt

\* argmin finds one: the reference is a sample of least total.
LEMMA ReferenceIsMedoid ==
  ASSUME NEW a \in Attempts, Samples(a) # {}
  PROVE  /\ Reference(a) \in Samples(a)
         /\ \A j \in Samples(a) : Total(a, Reference(a)) <= Total(a, j)
<1> DEFINE f == [i \in Samples(a) |-> Total(a, i)]
<1>2. IsFiniteSet(Samples(a)) /\ Samples(a) \subseteq Int
  BY SamplesType
<1>3. \A j \in Samples(a) : f[j] \in Int
  BY RowType
<1>4. \E x \in Samples(a) : \A y \in Samples(a) :
        f[x] < f[y] \/ (f[x] = f[y] /\ x <= y)
  <2> HIDE DEF f
  <2> QED
    BY <1>2, <1>3, LeastExists
<1>5. \E x \in Samples(a) : \A y \in Samples(a) :
        \/ Total(a, x) < Total(a, y)
        \/ Total(a, x) = Total(a, y) /\ x <= y
  BY <1>4
<1>6. /\ Reference(a) \in Samples(a)
      /\ \A y \in Samples(a) :
           \/ Total(a, Reference(a)) < Total(a, y)
           \/ Total(a, Reference(a)) = Total(a, y) /\ Reference(a) <= y
  BY <1>5 DEF Reference
<1> QED
  BY <1>6, RowType

LEMMA OutlierLiesFarther ==
  ASSUME NEW a \in Attempts, a.count > 2,
         NEW bad \in Samples(a), NEW radius \in Nat, Outlier(a, bad, radius),
         NEW good \in Samples(a) \ {bad}
  PROVE  Total(a, good) < Total(a, bad)
<1> DEFINE S == Samples(a)
           rest == (S \ {good}) \ {bad}
           f == Row(a, good)
           g == Row(a, bad)
           others(row) == SumFunctionOnSet(row, rest)
<1>1. rest # {}
  BY SamplesType
<1>2. bad \in S /\ good \in S /\ good # bad
  OBVIOUS
<1>3. IsFiniteSet(S) /\ IsFiniteSet(S \ {good}) /\ IsFiniteSet(rest)
  BY SamplesType, FS_RemoveElement
<1>4. \A j \in S : f[j] \in Int /\ g[j] \in Int
  BY RowType
<1>5. f[good] = 0 /\ g[bad] = 0 /\ f[bad] = g[good]
  BY RowEntry
<1>6. ASSUME NEW j \in rest PROVE f[j] < g[j]
  <2>1. Apart(a, good, j) <= radius /\ Apart(a, j, bad) > radius
    <3>1. good \in S \ {bad} /\ j \in S \ {bad}
      OBVIOUS
    <3> QED
      BY <3>1, Zenon DEF Outlier, Apart
  <2>2. f[j] = Apart(a, good, j) /\ f[j] \in Nat
    BY RowEntry
  <2>3. g[j] = Apart(a, j, bad) /\ g[j] \in Nat
    <3>1. g[j] = Row(a, j)[bad] /\ g[j] \in Nat
      BY RowEntry
    <3> QED
      BY <3>1, RowEntry
  <2> QED
    BY <2>1, <2>2, <2>3
<1>7. others(f) < others(g)
  <2> HIDE DEF f, g
  <2>1. \A j \in rest : f[j] \in Int /\ g[j] \in Int /\ f[j] < g[j]
    BY <1>4, <1>6
  <2> HIDE DEF rest
  <2> QED
    BY <1>1, <1>3, <2>1, SumGrows
<1>8. ASSUME NEW row, \A j \in S : row[j] \in Int
      PROVE  /\ SumFunctionOnSet(row, S) = row[good] + (row[bad] + others(row))
             /\ others(row) \in Int
  <2>1. SumFunctionOnSet(row, S) =
          row[good] + SumFunctionOnSet(row, S \ {good})
    BY <1>3, <1>8, SumWithout
  <2>2. SumFunctionOnSet(row, S \ {good}) = row[bad] + others(row)
    BY <1>3, <1>8, SumWithout
  <2>3. others(row) \in Int
    BY <1>3, <1>8, SumIsInt
  <2> QED
    BY <2>1, <2>2, <2>3
<1>9. /\ Total(a, good) = f[good] + (f[bad] + others(f)) /\ others(f) \in Int
      /\ Total(a, bad) = g[good] + (g[bad] + others(g)) /\ others(g) \in Int
  <2>1. /\ Total(a, good) = SumFunctionOnSet(f, S)
        /\ Total(a, bad) = SumFunctionOnSet(g, S)
    BY RowType
  <2> HIDE DEF f, g, others, S
  <2> QED
    BY <1>4, <1>8, <2>1
<1>10. f[bad] \in Int
  BY <1>2, <1>4
<1> HIDE DEF f, g, others
<1> QED
  BY <1>5, <1>7, <1>9, <1>10

LEMMA OutlierIsNotTheReference ==
  ASSUME NEW a \in Attempts, a.count > 2,
         NEW bad \in Samples(a), NEW radius \in Nat, Outlier(a, bad, radius)
  PROVE  Reference(a) # bad
<1>1. PICK good \in Samples(a) \ {bad} : TRUE
  BY SamplesType
<1>2. Total(a, good) < Total(a, bad)
  BY OutlierLiesFarther
<1>3. Total(a, Reference(a)) <= Total(a, good)
  BY ReferenceIsMedoid
<1>4. Total(a, good) \in Int /\ Total(a, bad) \in Int
  BY RowType
<1> QED
  BY <1>2, <1>3, <1>4

(***************************************************************************)
(* Of three or more samples, one that is farther from all the others than  *)
(* they are from each other is never stored as the customer's palm, for    *)
(* any distances (_select_reference, enrollment.py).                       *)
(***************************************************************************)
THEOREM BadFramesAreNeverStored == GateSpec => []NoBadFrameIsStored
<1>1. GateInit => attempt \in Attempts \cup {None}
  BY GateKeepsAttempts
<1>2. attempt \in Attempts \cup {None} /\ [GateNext]_gateVars =>
        (attempt \in Attempts \cup {None})'
  BY GateKeepsAttempts
<1>3. attempt \in Attempts \cup {None} => NoBadFrameIsStored
  <2> SUFFICES ASSUME attempt \in Attempts, attempt.count > 2,
                      NEW bad \in Samples(attempt),
                      NEW radius \in 0..ConsistencyMax,
                      Outlier(attempt, bad, radius)
               PROVE  Reference(attempt) # bad
    BY DEF NoBadFrameIsStored
  <2>1. radius \in Nat
    <3>1. ConsistencyMax \in Nat
      BY GateAssumption, Zenon
    <3> QED
      BY <3>1
  <2> QED
    BY <2>1, OutlierIsNotTheReference
<1> QED
  BY <1>1, <1>2, <1>3, PTL DEF GateSpec

=============================================================================
