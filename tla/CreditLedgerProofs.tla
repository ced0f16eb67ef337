-------------------------- MODULE CreditLedgerProofs --------------------------
(***************************************************************************)
(* Proofs about the credit ledger's operations for every value of its      *)
(* constants: what each of them does to the types and to the sum of a      *)
(* user's rows.  The modules that call the operations build on them.       *)
(*                                                                         *)
(* The first part is about sums in general: the library's sum picks the    *)
(* elements of a finite set one after the other, and what it returns does  *)
(* not depend on the order.  The induction is over the finite subsets of a *)
(* set: among those for which a fact fails there would be a smallest one.  *)
(***************************************************************************)
EXTENDS CreditLedger, FiniteSetTheorems, TLAPS

-----------------------------------------------------------------------------
(* Sums over finite sets.                                                  *)

\* Among subsets of a finite set there are smallest ones: what every induction below uses.
LEMMA SmallestSubset ==
  ASSUME NEW S, IsFiniteSet(S), NEW C \in SUBSET SUBSET S, C # {}
  PROVE  \E T \in C : \A U \in C : U \subseteq T => U = T
<1>1. IsWellFoundedOn(StrictSubsetOrdering(S), FiniteSubsetsOf(S))
  BY FS_StrictSubsetOrderingWellFounded
<1>2. C \subseteq FiniteSubsetsOf(S)
  BY FS_FiniteSubsetsOfFinite
<1>3. \E T \in C : \A U \in C : ~ (<<U, T>> \in StrictSubsetOrdering(S))
  BY <1>1, <1>2, WFMin
<1> QED
  BY <1>3 DEF StrictSubsetOrdering

Picked(s) == CHOOSE x \in s : TRUE

\* What the library's sum iterates, for the function f over the subsets of S.
SumStep(f, it, s) == IF s = {} THEN 0 ELSE f[Picked(s)] + it[s \ {Picked(s)}]
Iterates(it, f, S) == it = [s \in SUBSET S |-> SumStep(f, it, s)]

LEMMA PickedFact == ASSUME NEW s, s # {} PROVE Picked(s) \in s
  BY DEF Picked

LEMMA IteratesAgree ==
  ASSUME NEW f, NEW S, NEW T, IsFiniteSet(S), NEW g, NEW h, Iterates(g, f, S), Iterates(h, f, T),
         NEW U \in SUBSET (S \cap T)
  PROVE  g[U] = h[U]
<1> DEFINE C == {s \in SUBSET (S \cap T) : g[s] # h[s]}
<1>1. SUFFICES ASSUME C # {} PROVE FALSE
  OBVIOUS
<1>2. IsFiniteSet(S \cap T)
  BY FS_Subset
<1>3. PICK s \in C : \A V \in C : V \subseteq s => V = s
  <2>1. C \in SUBSET SUBSET (S \cap T)
    OBVIOUS
  <2> HIDE DEF C
  <2> QED
    BY <1>1, <1>2, <2>1, SmallestSubset
<1>4. g[s] = SumStep(f, g, s) /\ h[s] = SumStep(f, h, s)
  BY DEF Iterates
<1>5. s # {}
  BY <1>4 DEF SumStep
<1>6. Picked(s) \in s /\ s \ {Picked(s)} \in SUBSET (S \cap T)
  BY <1>5, PickedFact
<1>7. g[s \ {Picked(s)}] = h[s \ {Picked(s)}]
  BY <1>3, <1>6
<1> QED
  BY <1>4, <1>7 DEF SumStep

LEMMA IteratesExists ==
  ASSUME NEW f, NEW S, IsFiniteSet(S)
  PROVE  \E it : Iterates(it, f, S)
<1> DEFINE C == {T \in SUBSET S : ~ \E it : Iterates(it, f, T)}
<1>1. SUFFICES ASSUME C # {} PROVE FALSE
  OBVIOUS
<1>2. PICK T \in C : \A U \in C : U \subseteq T => U = T
  <2>1. C \in SUBSET SUBSET S
    OBVIOUS
  <2> HIDE DEF C
  <2> QED
    BY <1>1, <2>1, SmallestSubset
<1> DEFINE G(U) == CHOOSE it : Iterates(it, f, U)
           h == [s \in SUBSET T |-> IF s = {} THEN 0
                                    ELSE f[Picked(s)] + G(s \ {Picked(s)})[s \ {Picked(s)}]]
<1>3. ASSUME NEW U \in SUBSET T, U # T PROVE Iterates(G(U), f, U)
  <2>1. \E it : Iterates(it, f, U)
    BY <1>2, <1>3
  <2> QED
    BY <2>1
<1>4. ASSUME NEW s \in SUBSET T PROVE h[s] = SumStep(f, h, s)
  <2>1. CASE s = {}
    BY <2>1 DEF SumStep
  <2>2. CASE s # {}
    <3> DEFINE U == s \ {Picked(s)}
    <3>1. U \in SUBSET T /\ U # T /\ IsFiniteSet(U)
      BY <2>2, PickedFact, FS_Subset
    <3>2. Iterates(G(U), f, U)
      BY <1>3, <3>1
    <3>3. h[U] = G(U)[U]
      <4>1. G(U)[U] = SumStep(f, G(U), U)
        <5> HIDE DEF G
        <5> QED
          BY <3>2 DEF Iterates
      <4>2. CASE U = {}
        BY <4>1, <4>2 DEF SumStep
      <4>3. CASE U # {}
        <5> DEFINE V == U \ {Picked(U)}
        <5>1. V \in SUBSET U /\ V # T /\ V \in SUBSET T
          BY <3>1, <4>3, PickedFact
        <5>2. Iterates(G(V), f, V)
          BY <1>3, <5>1
        <5>3. G(U)[V] = G(V)[V]
          <6> HIDE DEF G, V, U
          <6>1. V \in SUBSET (U \cap V)
            BY <5>1
          <6> QED
            BY <3>1, <3>2, <5>2, <6>1, IteratesAgree
        <5>4. h[U] = f[Picked(U)] + G(V)[V]
          BY <3>1, <4>3
        <5> HIDE DEF G, h
        <5> QED
          BY <4>1, <4>3, <5>3, <5>4 DEF SumStep
      <4> QED
        BY <4>2, <4>3
    <3>4. h[s] = f[Picked(s)] + G(U)[U]
      BY <2>2
    <3> HIDE DEF G, h
    <3> QED
      BY <2>2, <3>3, <3>4 DEF SumStep
  <2> QED
    BY <2>1, <2>2
<1>5. Iterates(h, f, T)
  <2>1. h = [s \in SUBSET T |-> h[s]]
    OBVIOUS
  <2> HIDE DEF h
  <2> QED
    BY <1>4, <2>1 DEF Iterates
<1> QED
  BY <1>2, <1>5

\* The library's sum is what such an iteration ends with.
LEMMA SumIterates ==
  ASSUME NEW f, NEW S, IsFiniteSet(S)
  PROVE  \E it : Iterates(it, f, S) /\ SumFunctionOnSet(f, S) = it[S]
<1> DEFINE it == CHOOSE g : Iterates(g, f, S)
<1>1. Iterates(it, f, S)
  BY IteratesExists
<1>2. SumFunctionOnSet(f, S) = it[S]
  BY DEF SumFunctionOnSet, FoldFunctionOnSet, MapThenFoldSet, Iterates, SumStep, Picked
<1> QED
  BY <1>1, <1>2

LEMMA SumOfNone == ASSUME NEW f PROVE SumFunctionOnSet(f, {}) = 0
<1>1. PICK it : Iterates(it, f, {}) /\ SumFunctionOnSet(f, {}) = it[{}]
  BY SumIterates, FS_EmptySet
<1> QED
  BY <1>1 DEF Iterates, SumStep

\* Taking any element off takes its value off, whatever order the iteration has.
LEMMA IterateTakesOff ==
  ASSUME NEW f, NEW S, IsFiniteSet(S), \A x \in S : f[x] \in Int, NEW it, Iterates(it, f, S),
         NEW s \in SUBSET S
  PROVE  it[s] \in Int /\ \A x \in s : it[s] = f[x] + it[s \ {x}]
<1> DEFINE Good(t) == it[t] \in Int /\ \A x \in t : it[t] = f[x] + it[t \ {x}]
           C == {t \in SUBSET S : ~Good(t)}
<1>1. SUFFICES ASSUME C # {} PROVE FALSE
  OBVIOUS
<1>2. PICK t \in C : \A U \in C : U \subseteq t => U = t
  <2>1. C \in SUBSET SUBSET S
    OBVIOUS
  <2> HIDE DEF C
  <2> QED
    BY <1>1, <2>1, SmallestSubset
<1>3. it[t] = SumStep(f, it, t)
  BY DEF Iterates
<1>4. t # {}
  <2>1. ASSUME t = {} PROVE Good(t)
    BY <1>3, <2>1 DEF SumStep
  <2> QED
    BY <2>1
<1> DEFINE y == Picked(t)
           r == t \ {y}
<1>5. y \in t /\ it[t] = f[y] + it[r] /\ f[y] \in Int
  BY <1>3, <1>4, PickedFact DEF SumStep
<1>6. \A U \in SUBSET t : U # t => Good(U)
  BY <1>2
<1>7. Good(r)
  BY <1>5, <1>6
<1>8. ASSUME NEW x \in t PROVE it[t] = f[x] + it[t \ {x}]
  <2>1. CASE x = y
    BY <1>5, <2>1
  <2>2. CASE x # y
    <3> DEFINE u == t \ {x}
               v == r \ {x}
    <3>1. it[r] = f[x] + it[v]
      BY <1>7, <2>2
    <3>2. Good(u)
      BY <1>6
    <3>3. u \ {y} = v /\ y \in u
      BY <1>5, <2>2
    <3>4. it[u] = f[y] + it[v]
      BY <3>2, <3>3
    <3>5. Good(v)
      BY <1>6, <2>2
    <3>6. it[v] \in Int /\ f[x] \in Int /\ f[y] \in Int
      BY <1>5, <3>5
    <3> HIDE DEF u, v, r, y
    <3> QED
      BY <1>5, <3>1, <3>4, <3>6 DEF u
  <2> QED
    BY <2>1, <2>2
<1>9. it[t] \in Int
  BY <1>5, <1>7
<1> QED
  BY <1>2, <1>8, <1>9

LEMMA SumWithout ==
  ASSUME NEW f, NEW S, IsFiniteSet(S), \A x \in S : f[x] \in Int
  PROVE  /\ SumFunctionOnSet(f, S) \in Int
         /\ \A x \in S : SumFunctionOnSet(f, S) = f[x] + SumFunctionOnSet(f, S \ {x})
<1>1. PICK it : Iterates(it, f, S) /\ SumFunctionOnSet(f, S) = it[S]
  BY SumIterates
<1>2. it[S] \in Int /\ \A x \in S : it[S] = f[x] + it[S \ {x}]
  BY <1>1, IterateTakesOff
<1>3. ASSUME NEW x \in S PROVE SumFunctionOnSet(f, S \ {x}) = it[S \ {x}]
  <2> DEFINE R == S \ {x}
  <2>1. IsFiniteSet(R) /\ R \in SUBSET (S \cap R)
    BY FS_Subset
  <2>2. PICK g : Iterates(g, f, R) /\ SumFunctionOnSet(f, R) = g[R]
    BY <2>1, SumIterates
  <2> HIDE DEF R
  <2>3. g[R] = it[R]
    BY <1>1, <2>1, <2>2, IteratesAgree
  <2> QED
    BY <2>2, <2>3 DEF R
<1> QED
  BY <1>1, <1>2, <1>3

LEMMA SumWith ==
  ASSUME NEW f, NEW S, IsFiniteSet(S), NEW x, x \notin S, \A y \in S \cup {x} : f[y] \in Int
  PROVE  SumFunctionOnSet(f, S \cup {x}) = SumFunctionOnSet(f, S) + f[x]
<1> DEFINE R == S \cup {x}
<1>1. IsFiniteSet(R) /\ x \in R /\ R \ {x} = S
  BY FS_AddElement
<1>2. SumFunctionOnSet(f, R) = f[x] + SumFunctionOnSet(f, R \ {x})
  <2> HIDE DEF R
  <2>1. \A y \in R : f[y] \in Int
    BY DEF R
  <2> QED
    BY <1>1, <2>1, SumWithout
<1>3. SumFunctionOnSet(f, S) \in Int /\ f[x] \in Int
  BY SumWithout
<1>4. SumFunctionOnSet(f, R) = f[x] + SumFunctionOnSet(f, S)
  BY <1>1, <1>2
<1> QED
  BY <1>3, <1>4

\* More elements, whose values are given, change the sum by the sum of theirs.
LEMMA SumOfUnion ==
  ASSUME NEW f, NEW S, NEW T, IsFiniteSet(S), IsFiniteSet(T), S \cap T = {},
         \A x \in S \cup T : f[x] \in Int
  PROVE  SumFunctionOnSet(f, S \cup T) = SumFunctionOnSet(f, S) + SumFunctionOnSet(f, T)
<1> DEFINE Good(t) == SumFunctionOnSet(f, S \cup t)
                        = SumFunctionOnSet(f, S) + SumFunctionOnSet(f, t)
           C == {t \in SUBSET T : ~Good(t)}
<1>1. SUFFICES ASSUME C # {} PROVE FALSE
  OBVIOUS
<1>2. PICK t \in C : \A U \in C : U \subseteq t => U = t
  <2>1. C \in SUBSET SUBSET T
    OBVIOUS
  <2> HIDE DEF C
  <2> QED
    BY <1>1, <2>1, SmallestSubset
<1>3. IsFiniteSet(t) /\ t \subseteq T
  BY FS_Subset
<1>4. t # {}
  <2>1. SumFunctionOnSet(f, S) \in Int
    BY SumWithout
  <2>2. ASSUME t = {} PROVE Good(t)
    <3>1. S \cup t = S
      BY <2>2
    <3>2. SumFunctionOnSet(f, t) = 0
      BY <2>2, SumOfNone
    <3> HIDE DEF C
    <3>3. SumFunctionOnSet(f, S \cup t) = SumFunctionOnSet(f, S)
      BY <3>1
    <3> QED
      BY <2>1, <3>2, <3>3
  <2> HIDE DEF Good
  <2> QED
    BY <2>2
<1>5. PICK x \in t : TRUE
  BY <1>4
<1> DEFINE u == t \ {x}
<1>6. Good(u)
  BY <1>2
<1>7. IsFiniteSet(u) /\ x \notin u /\ u \cup {x} = t /\ \A y \in t : f[y] \in Int
  BY <1>3, FS_Subset
<1>8. SumFunctionOnSet(f, t) = SumFunctionOnSet(f, u) + f[x]
  <2> HIDE DEF u
  <2> QED
    BY <1>7, SumWith
<1> DEFINE v == S \cup u
<1>9. IsFiniteSet(v) /\ x \notin v /\ v \cup {x} = S \cup t /\ \A y \in v \cup {x} : f[y] \in Int
  <2>1. IsFiniteSet(v)
    BY <1>7, FS_Union
  <2> QED
    BY <1>3, <1>7, <2>1
<1>10. SumFunctionOnSet(f, S \cup t) = SumFunctionOnSet(f, v) + f[x]
  <2> HIDE DEF v
  <2> QED
    BY <1>9, SumWith
<1>11. f[x] \in Int /\ SumFunctionOnSet(f, S) \in Int /\ SumFunctionOnSet(f, u) \in Int
  <2>1. \A y \in u : f[y] \in Int
    BY <1>7
  <2> HIDE DEF u
  <2> QED
    BY <1>7, <2>1, SumWithout
<1> HIDE DEF u
<1>12. Good(t)
  BY <1>6, <1>8, <1>10, <1>11
<1> QED
  BY <1>2, <1>12

\* A sum of natural numbers is one.
LEMMA SumOfNaturals ==
  ASSUME NEW f, NEW S, IsFiniteSet(S), \A x \in S : f[x] \in Nat
  PROVE  SumFunctionOnSet(f, S) \in Nat
<1> DEFINE C == {t \in SUBSET S : SumFunctionOnSet(f, t) \notin Nat}
<1>1. SUFFICES ASSUME C # {} PROVE FALSE
  OBVIOUS
<1>2. PICK t \in C : \A U \in C : U \subseteq t => U = t
  <2>1. C \in SUBSET SUBSET S
    OBVIOUS
  <2> HIDE DEF C
  <2> QED
    BY <1>1, <2>1, SmallestSubset
<1>3. PICK x \in t : TRUE
  BY SumOfNone
<1>4. IsFiniteSet(t) /\ \A y \in t : f[y] \in Int
  BY FS_Subset
<1>5. SumFunctionOnSet(f, t \ {x}) \in Nat /\ f[x] \in Nat
  BY <1>2
<1>6. SumFunctionOnSet(f, t) = f[x] + SumFunctionOnSet(f, t \ {x})
  <2> HIDE DEF C
  <2> QED
    BY <1>4, SumWithout
<1>7. SumFunctionOnSet(f, t) \in Nat
  BY <1>5, <1>6
<1> QED
  BY <1>7

LEMMA SumOfZeros ==
  ASSUME NEW f, NEW S, IsFiniteSet(S), \A x \in S : f[x] = 0
  PROVE  SumFunctionOnSet(f, S) = 0
<1> DEFINE C == {t \in SUBSET S : SumFunctionOnSet(f, t) # 0}
<1>1. SUFFICES ASSUME C # {} PROVE FALSE
  OBVIOUS
<1>2. PICK t \in C : \A U \in C : U \subseteq t => U = t
  <2>1. C \in SUBSET SUBSET S
    OBVIOUS
  <2> HIDE DEF C
  <2> QED
    BY <1>1, <2>1, SmallestSubset
<1>3. PICK x \in t : TRUE
  BY SumOfNone
<1>4. IsFiniteSet(t) /\ \A y \in t : f[y] \in Int
  BY FS_Subset
<1>5. SumFunctionOnSet(f, t \ {x}) = 0
  BY <1>2
<1>6. SumFunctionOnSet(f, t) = f[x] + SumFunctionOnSet(f, t \ {x})
  <2> HIDE DEF C
  <2> QED
    BY <1>4, SumWithout
<1>7. f[x] = 0
  OBVIOUS
<1>8. SumFunctionOnSet(f, t) = 0
  BY <1>5, <1>6, <1>7
<1> QED
  BY <1>8

-----------------------------------------------------------------------------
(* The types of the ledger.                                                *)

LEMMA DebitType ==
  ASSUME LedgerTypeOK, NEW u \in Users, NEW k \in Keys, NEW amount \in Nat, Debit(u, k, amount)
  PROVE  LedgerTypeOK' /\ lockedBy' = lockedBy
<1>1. balance' \in [Users -> Nat]
  BY DEF LedgerTypeOK, Debit, DebitRejected
<1>2. held' \in [Users -> Nat]
  BY DEF LedgerTypeOK, Debit, ClampedSub
<1>3. txns' \subseteq Txn
  <2>1. Row(u, "debit", k, -amount) \in Txn
    BY DEF Row, Txn, TxnType
  <2> QED
    BY <2>1 DEF LedgerTypeOK, Debit
<1> QED
  BY <1>1, <1>2, <1>3 DEF LedgerTypeOK, Debit

LEMMA RefundType ==
  ASSUME LedgerTypeOK, NEW u \in Users, NEW k \in Keys, NEW amount \in Nat,
         RefundHold(u, k, amount)
  PROVE  LedgerTypeOK' /\ lockedBy' = lockedBy
<1>1. held' \in [Users -> Nat]
  BY DEF LedgerTypeOK, RefundHold, ClampedSub
<1>2. txns' \subseteq Txn
  <2>1. Row(u, "refund", k, 0) \in Txn
    BY DEF Row, Txn, TxnType
  <2> QED
    BY <2>1 DEF LedgerTypeOK, RefundHold
<1> QED
  BY <1>1, <1>2 DEF LedgerTypeOK, RefundHold

LEMMA CommitHoldsType ==
  ASSUME LedgerTypeOK, NEW u \in Users, NEW tx, NEW K \in SUBSET Keys, NEW total \in Nat,
         CommitHolds(u, tx, K, total)
  PROVE  LedgerTypeOK' /\ Unlock(u, tx)
<1>1. held' \in [Users -> Nat]
  BY DEF LedgerTypeOK, CommitHolds
<1>2. txns' \subseteq Txn
  <2>1. \A k \in K : Row(u, "hold", k, 0) \in Txn
    BY DEF Row, Txn, TxnType
  <2> QED
    BY <2>1 DEF LedgerTypeOK, CommitHolds
<1> QED
  BY <1>1, <1>2 DEF LedgerTypeOK, CommitHolds

LEMMA GrantType ==
  ASSUME LedgerTypeOK, NEW u \in Users, NEW tx, NEW k \in Keys, NEW amount \in Nat,
         NEW seen \in Nat, CommitGrant(u, tx, k, amount, seen)
  PROVE  LedgerTypeOK' /\ Unlock(u, tx)
<1>1. balance' \in [Users -> Nat] /\ held' \in [Users -> Nat]
  BY DEF LedgerTypeOK, CommitGrant
<1>2. txns' \subseteq Txn
  <2>1. Row(u, "grant", k, amount) \in Txn
    BY DEF Row, Txn, TxnType
  <2> QED
    BY <2>1 DEF LedgerTypeOK, CommitGrant
<1> QED
  BY <1>1, <1>2 DEF LedgerTypeOK, CommitGrant

LEMMA DeductedFact ==
  ASSUME NEW amount \in Nat, NEW allow \in BOOLEAN, NEW seen \in Nat
  PROVE  /\ Deducted(amount, allow, seen) \in Nat
         /\ ClampedSub(seen, Deducted(amount, allow, seen)) \in Nat
         /\ ClampedSub(seen, Deducted(amount, allow, seen)) >= seen - Deducted(amount, allow, seen)
  BY DEF Deducted, ClampedSub

LEMMA ReversalType ==
  ASSUME LedgerTypeOK, NEW u \in Users, NEW tx, NEW k \in Keys, NEW amount \in Nat,
         NEW allow \in BOOLEAN, NEW seen \in Nat, CommitReversal(u, tx, k, amount, allow, seen)
  PROVE  LedgerTypeOK' /\ Unlock(u, tx)
<1> DEFINE d == Deducted(amount, allow, seen)
<1>1. d \in Nat /\ ClampedSub(seen, d) \in Nat
  BY DeductedFact
<1>2. /\ balance' = [balance EXCEPT ![u] = ClampedSub(seen, d)] /\ held' = held
      /\ txns' = txns \cup {Row(u, "reversal", k, -d)} /\ Unlock(u, tx)
  BY DEF CommitReversal
<1> HIDE DEF d
<1>3. Row(u, "reversal", k, -d) \in Txn
  BY <1>1 DEF Row, Txn, TxnType
<1> QED
  BY <1>1, <1>2, <1>3 DEF LedgerTypeOK

-----------------------------------------------------------------------------
(* The sum of a user's rows.                                               *)

AmountOf == [t \in Txn |-> t.amount]

\* Every user has finitely many rows; nothing is assumed of how many users there are.
LedgerFinite == \A u \in Users : IsFiniteSet(RowsOf(u))

LEMMA LedgerSumType ==
  ASSUME LedgerTypeOK, LedgerFinite, NEW u \in Users
  PROVE  /\ LedgerSum(u) = SumFunctionOnSet(AmountOf, RowsOf(u))
         /\ LedgerSum(u) \in Int
         /\ \A t \in RowsOf(u) : AmountOf[t] = t.amount /\ AmountOf[t] \in Int
<1>1. LedgerSum(u) = SumFunctionOnSet(AmountOf, RowsOf(u))
  BY DEF LedgerSum, AmountOf
<1>2. \A t \in Txn : AmountOf[t] = t.amount /\ AmountOf[t] \in Int
  BY DEF AmountOf, Txn
<1>3. RowsOf(u) \subseteq Txn /\ IsFiniteSet(RowsOf(u))
  BY DEF RowsOf, LedgerTypeOK, LedgerFinite
<1>4. SumFunctionOnSet(AmountOf, RowsOf(u)) \in Int
  BY <1>2, <1>3, SumWithout
<1> QED
  BY <1>1, <1>2, <1>3, <1>4

LEMMA LedgerSumSame ==
  ASSUME txns' = txns
  PROVE  (LedgerFinite => LedgerFinite') /\ \A u : LedgerSum(u)' = LedgerSum(u)
  BY DEF LedgerFinite, RowsOf, LedgerSum

\* One more row under a key of its own changes the sum of its user by its amount.
LEMMA PostSum ==
  ASSUME LedgerTypeOK, LedgerFinite, NEW u \in Users, NEW type \in TxnType, NEW k \in Keys,
         NEW n \in Int, ~Posted(u, type, k), txns' = txns \cup {Row(u, type, k, n)}
  PROVE  /\ LedgerFinite'
         /\ \A v \in Users : LedgerSum(v)' = LedgerSum(v) + (IF v = u THEN n ELSE 0)
<1> DEFINE r == Row(u, type, k, n)
<1>1. r \in Txn /\ r.user = u /\ r.amount = n /\ r \notin txns
  BY DEF Row, Txn, Posted
<1>2. ASSUME NEW v \in Users
      PROVE  RowsOf(v)' = IF v = u THEN RowsOf(v) \cup {r} ELSE RowsOf(v)
  BY <1>1 DEF RowsOf
<1>3. LedgerFinite'
  BY <1>2, FS_AddElement DEF LedgerFinite
<1>4. ASSUME NEW v \in Users
      PROVE  LedgerSum(v)' = LedgerSum(v) + (IF v = u THEN n ELSE 0)
  <2> DEFINE R == RowsOf(v)
  <2>1. LedgerSum(v)' = SumFunctionOnSet(AmountOf, R')
    BY DEF LedgerSum, AmountOf
  <2>2. /\ LedgerSum(v) = SumFunctionOnSet(AmountOf, R) /\ LedgerSum(v) \in Int
        /\ \A t \in R : AmountOf[t] \in Int
    BY LedgerSumType
  <2>3. CASE v = u
    <3>1. IsFiniteSet(R) /\ r \notin R /\ AmountOf[r] = n
      BY <1>1 DEF LedgerFinite, RowsOf, AmountOf
    <3> HIDE DEF R, r
    <3>2. \A t \in R \cup {r} : AmountOf[t] \in Int
      BY <2>2, <3>1
    <3>3. SumFunctionOnSet(AmountOf, R \cup {r}) = SumFunctionOnSet(AmountOf, R) + n
      BY <3>1, <3>2, SumWith
    <3>4. R' = R \cup {r}
      BY <1>2, <2>3 DEF R
    <3> QED
      BY <2>1, <2>2, <2>3, <3>3, <3>4
  <2>4. CASE v # u
    <3>1. R' = R
      BY <1>2, <2>4
    <3> HIDE DEF R
    <3> QED
      BY <2>1, <2>2, <2>4, <3>1
  <2> QED
    BY <2>3, <2>4
<1> QED
  BY <1>3, <1>4

\* Rows without an amount change no sum, new or not.
LEMMA ZeroRowsSum ==
  ASSUME LedgerTypeOK, LedgerFinite, NEW Z \in SUBSET Txn, IsFiniteSet(Z),
         \A z \in Z : z.amount = 0, txns' = txns \cup Z
  PROVE  LedgerFinite' /\ \A v \in Users : LedgerSum(v)' = LedgerSum(v)
<1>1. ASSUME NEW v \in Users
      PROVE  IsFiniteSet(RowsOf(v)') /\ LedgerSum(v)' = LedgerSum(v)
  <2> DEFINE R == RowsOf(v)
             N == {z \in Z : z.user = v} \ R
  <2>1. R' = R \cup N /\ R \cap N = {}
    BY DEF RowsOf
  <2>2. IsFiniteSet(R) /\ IsFiniteSet(N)
    BY FS_Subset DEF LedgerFinite
  <2>3. \A t \in N : AmountOf[t] = 0
    BY DEF AmountOf
  <2>4. /\ LedgerSum(v) = SumFunctionOnSet(AmountOf, R) /\ LedgerSum(v) \in Int
        /\ \A t \in R : AmountOf[t] \in Int
    BY LedgerSumType
  <2>5. LedgerSum(v)' = SumFunctionOnSet(AmountOf, R')
    BY DEF LedgerSum, AmountOf
  <2> HIDE DEF R, N
  <2>6. SumFunctionOnSet(AmountOf, N) = 0
    BY <2>2, <2>3, SumOfZeros
  <2>7. \A t \in R \cup N : AmountOf[t] \in Int
    BY <2>3, <2>4
  <2>8. SumFunctionOnSet(AmountOf, R \cup N) = SumFunctionOnSet(AmountOf, R) + 0
    BY <2>1, <2>2, <2>6, <2>7, SumOfUnion
  <2>9. IsFiniteSet(R \cup N)
    BY <2>2, FS_Union
  <2> QED
    BY <2>1, <2>4, <2>5, <2>8, <2>9 DEF R
<1> QED
  BY <1>1 DEF LedgerFinite

LEMMA DebitSum ==
  ASSUME LedgerTypeOK, LedgerFinite, NEW u \in Users, NEW k \in Keys, NEW amount \in Nat,
         Debit(u, k, amount)
  PROVE  /\ LedgerFinite'
         /\ \A v \in Users : LedgerSum(v)' = LedgerSum(v) - (IF v = u THEN amount ELSE 0)
<1> DEFINE n == -amount
<1>1. n \in Int /\ "debit" \in TxnType /\ ~Posted(u, "debit", k)
      /\ txns' = txns \cup {Row(u, "debit", k, n)}
  BY DEF Debit, DebitRejected, TxnType
<1>2. \A v \in Users : LedgerSum(v) \in Int
  BY LedgerSumType
<1>3. LedgerFinite' /\ \A v \in Users : LedgerSum(v)' = LedgerSum(v) + (IF v = u THEN n ELSE 0)
  <2> HIDE DEF n
  <2> QED
    BY <1>1, PostSum
<1> QED
  BY <1>2, <1>3

LEMMA RefundSum ==
  ASSUME LedgerTypeOK, LedgerFinite, NEW u \in Users, NEW k \in Keys, NEW amount \in Nat,
         RefundHold(u, k, amount)
  PROVE  LedgerFinite' /\ \A v \in Users : LedgerSum(v)' = LedgerSum(v)
<1>1. 0 \in Int /\ "refund" \in TxnType /\ ~Posted(u, "refund", k)
      /\ txns' = txns \cup {Row(u, "refund", k, 0)}
  BY DEF RefundHold, RefundRejected, TxnType
<1>2. \A v \in Users : LedgerSum(v) \in Int
  BY LedgerSumType
<1>3. LedgerFinite' /\ \A v \in Users : LedgerSum(v)' = LedgerSum(v) + (IF v = u THEN 0 ELSE 0)
  BY <1>1, PostSum
<1> QED
  BY <1>2, <1>3

LEMMA CommitHoldsSum ==
  ASSUME LedgerTypeOK, LedgerFinite, NEW u \in Users, NEW tx, NEW K \in SUBSET Keys,
         IsFiniteSet(K), NEW total, CommitHolds(u, tx, K, total)
  PROVE  LedgerFinite' /\ \A v \in Users : LedgerSum(v)' = LedgerSum(v)
<1> DEFINE Z == {Row(u, "hold", k, 0) : k \in K}
<1>1. Z \in SUBSET Txn /\ \A z \in Z : z.amount = 0
  BY DEF Row, Txn, TxnType
<1>2. IsFiniteSet(Z)
  <2> DEFINE f == [k \in K |-> Row(u, "hold", k, 0)]
  <2>1. f \in Surjection(K, Z)
    BY DEF Surjection
  <2> QED
    BY <2>1, FS_Surjection
<1>3. txns' = txns \cup Z
  BY DEF CommitHolds
<1> HIDE DEF Z
<1> QED
  BY <1>1, <1>2, <1>3, ZeroRowsSum

LEMMA GrantSum ==
  ASSUME LedgerTypeOK, LedgerFinite, NEW u \in Users, NEW tx, NEW k \in Keys,
         NEW amount \in Nat, NEW seen, ~Posted(u, "grant", k),
         CommitGrant(u, tx, k, amount, seen)
  PROVE  /\ LedgerFinite'
         /\ \A v \in Users : LedgerSum(v)' = LedgerSum(v) + (IF v = u THEN amount ELSE 0)
<1>1. amount \in Int /\ "grant" \in TxnType /\ txns' = txns \cup {Row(u, "grant", k, amount)}
  BY DEF CommitGrant, TxnType
<1> QED
  BY <1>1, PostSum

\* The ledger of u is lowered by some amount, the balance that was seen by no more.
LowersBoth(u, seen) ==
    \E d \in Nat :
      /\ \A v \in Users : LedgerSum(v)' = LedgerSum(v) - (IF v = u THEN d ELSE 0)
      /\ balance'[u] >= seen - d
      /\ \A v \in Users \ {u} : balance'[v] = balance[v]

\* The ledger says by how much a reversal lowers it, the balance never falls by more.
LEMMA ReversalSum ==
  ASSUME LedgerTypeOK, LedgerFinite, NEW u \in Users, NEW tx, NEW k \in Keys,
         NEW amount \in Nat, NEW allow \in BOOLEAN, NEW seen \in Nat,
         ~Posted(u, "reversal", k), CommitReversal(u, tx, k, amount, allow, seen)
  PROVE  LedgerFinite' /\ LowersBoth(u, seen)
<1> DEFINE d == Deducted(amount, allow, seen)
           n == -d
<1>1. d \in Nat /\ ClampedSub(seen, d) >= seen - d
  BY DeductedFact
<1>2. /\ balance' = [balance EXCEPT ![u] = ClampedSub(seen, d)]
      /\ txns' = txns \cup {Row(u, "reversal", k, n)}
  BY DEF CommitReversal
<1> HIDE DEF d
<1>3. n \in Int /\ "reversal" \in TxnType
  BY <1>1 DEF TxnType
<1>4. LedgerFinite' /\ \A v \in Users : LedgerSum(v)' = LedgerSum(v) + (IF v = u THEN n ELSE 0)
  <2> HIDE DEF n
  <2> QED
    BY <1>2, <1>3, PostSum
<1>5. \A v \in Users : LedgerSum(v) \in Int
  BY LedgerSumType
<1>6. \A v \in Users : LedgerSum(v)' = LedgerSum(v) - (IF v = u THEN d ELSE 0)
  BY <1>1, <1>4, <1>5
<1>7. balance'[u] >= seen - d /\ \A v \in Users \ {u} : balance'[v] = balance[v]
  BY <1>1, <1>2 DEF LedgerTypeOK
<1> QED
  BY <1>1, <1>4, <1>6, <1>7 DEF LowersBoth

\* Before anything happens, the balance is the opening grant.
LEMMA LedgerSumInit ==
  ASSUME LedgerInit, LedgerTypeOK
  PROVE  LedgerFinite /\ \A u \in Users : LedgerSum(u) = balance[u]
<1>1. ASSUME NEW u \in Users
      PROVE  IsFiniteSet(RowsOf(u)) /\ SumFunctionOnSet(AmountOf, RowsOf(u)) = balance[u]
  <2> DEFINE n == InitialBalance[u]
             r == Row(u, "grant", Opening, n)
  <2>1. n \in Nat /\ balance[u] = n
    BY LedgerAssumption DEF LedgerInit
  <2>2. CASE n = 0
    <3>1. RowsOf(u) = {}
      BY <2>2 DEF LedgerInit, RowsOf, Row
    <3> QED
      BY <2>1, <2>2, <3>1, FS_EmptySet, SumOfNone
  <2>3. CASE n > 0
    <3>1. RowsOf(u) = {r} /\ r \in Txn /\ r.amount = n
      BY <2>1, <2>3 DEF LedgerInit, RowsOf, Row, Txn, TxnType
    <3>2. AmountOf[r] = n
      BY <3>1 DEF AmountOf
    <3>3. IsFiniteSet({}) /\ IsFiniteSet({r}) /\ SumFunctionOnSet(AmountOf, {}) = 0
      BY FS_EmptySet, FS_Singleton, SumOfNone
    <3> HIDE DEF r, n
    <3>4. SumFunctionOnSet(AmountOf, {} \cup {r}) = SumFunctionOnSet(AmountOf, {}) + AmountOf[r]
      BY <2>1, <3>2, <3>3, SumWith
    <3>5. {} \cup {r} = {r}
      OBVIOUS
    <3> QED
      BY <2>1, <3>1, <3>2, <3>3, <3>4, <3>5
  <2> QED
    BY <2>1, <2>2, <2>3
<1>2. LedgerFinite
  BY <1>1 DEF LedgerFinite
<1> QED
  BY <1>1, <1>2, LedgerSumType
=============================================================================
