------------------------ MODULE EvidencePipelineProofs ------------------------
(***************************************************************************)
(* Proofs about EvidencePipeline, for any mapping, any keys and titles,    *)
(* any number of search terms and extended sources, and any timeouts.      *)
(***************************************************************************)
EXTENDS EvidencePipeline, FiniteSetTheorems, SequenceTheorems,
        WellFoundedInduction, TLAPS

Item  == UNION {ItemsOf(s) : s \in Sources}
Packs == Seq(Item)

-----------------------------------------------------------------------------
(* Sets of indexes.                                                        *)

\* A set of naturals has a least one.
LEMMA LeastNatural ==
    ASSUME NEW T, T \subseteq Nat, T # {}
    PROVE  \E x \in T : \A y \in T : x <= y
<1>1. \E x \in T : \A y \in T : <<y, x>> \notin OpToRel(<, Nat)
  BY WFMin, NatLessThanWellFounded
<1>2. PICK x \in T : \A y \in T : <<y, x>> \notin OpToRel(<, Nat)
  BY <1>1
<1>3. \A y \in T : ~(y < x)
  BY <1>2 DEF OpToRel
<1>4. \A y \in T : x <= y
  BY <1>3
<1>5. QED
  BY <1>4

Below(indexes, i) == {j \in indexes : j < i}

\* Every index of a set has its rank, and every rank its index.
LEMMA NthIsBijective ==
    ASSUME NEW n \in Nat, NEW I \in SUBSET (1..n)
    PROVE  /\ Cardinality(I) \in Nat
           /\ \A k \in 1..Cardinality(I) : Nth(I)[k] \in I
           /\ \A k, m \in 1..Cardinality(I) : k # m => Nth(I)[k] # Nth(I)[m]
           /\ \A i \in I : \E k \in 1..Cardinality(I) : Nth(I)[k] = i
<1> DEFINE rank == [i \in I |-> Cardinality(Below(I, i)) + 1]
<1>1. IsFiniteSet(I) /\ Cardinality(I) \in Nat
  <2>1. 1 \in Int /\ n \in Int
    OBVIOUS
  <2>2. IsFiniteSet(1..n)
    BY <2>1, FS_Interval
  <2>3. IsFiniteSet(I)
    BY <2>2, FS_Subset
  <2>4. QED
    BY <2>3, FS_CardinalityType
<1>2. \A i \in I : IsFiniteSet(Below(I, i)) /\ Cardinality(Below(I, i)) \in Nat
  <2>1. \A i \in I : Below(I, i) \subseteq I
    BY DEF Below
  <2>2. QED
    BY <1>1, <2>1, FS_Subset, FS_CardinalityType
<1>3. ASSUME NEW i \in I, NEW j \in I, i < j
      PROVE  Cardinality(Below(I, i)) + 1 <= Cardinality(Below(I, j))
  <2>1. i \notin Below(I, i) /\ Below(I, i) \cup {i} \subseteq Below(I, j)
    <3>1. \A k \in I : k \in Nat
      OBVIOUS
    <3>2. i \in Nat /\ j \in Nat /\ i \in I
      BY <3>1
    <3>3. i \notin Below(I, i) /\ i \in Below(I, j)
      BY <1>3, <3>2 DEF Below
    <3>4. \A k \in Below(I, i) : k \in Below(I, j)
      BY <1>3, <3>1, <3>2 DEF Below
    <3>5. QED
      BY <3>3, <3>4
  <2>2. Cardinality(Below(I, i) \cup {i}) = Cardinality(Below(I, i)) + 1
    BY <1>2, <2>1, FS_AddElement
  <2>3. Cardinality(Below(I, i) \cup {i}) <= Cardinality(Below(I, j))
    BY <1>2, <2>1, FS_Subset
  <2>4. QED
    BY <2>2, <2>3
<1>4. \A i \in I : rank[i] \in 1..Cardinality(I)
  <2> SUFFICES ASSUME NEW i \in I PROVE rank[i] \in 1..Cardinality(I)
    OBVIOUS
  <2>1. i \notin Below(I, i) /\ Below(I, i) \cup {i} \subseteq I
    BY DEF Below
  <2>2. Cardinality(Below(I, i) \cup {i}) = Cardinality(Below(I, i)) + 1
    BY <1>2, <2>1, FS_AddElement
  <2>3. Cardinality(Below(I, i) \cup {i}) <= Cardinality(I)
    BY <1>1, <2>1, FS_Subset
  <2>4. QED
    BY <1>1, <1>2, <2>2, <2>3
<1>5. \A i, j \in I : i # j => rank[i] # rank[j]
  <2> SUFFICES ASSUME NEW i \in I, NEW j \in I, i # j PROVE rank[i] # rank[j]
    OBVIOUS
  <2>1. i < j \/ j < i
    OBVIOUS
  <2>2. QED
    BY <1>2, <1>3, <2>1
<1>6. rank \in Injection(I, 1..Cardinality(I))
  <2>1. rank \in [I -> 1..Cardinality(I)]
    BY <1>4
  <2>2. IsInjective(rank)
    BY <1>5 DEF IsInjective
  <2>3. QED
    BY <2>1, <2>2 DEF Injection
<1>7. IsFiniteSet(1..Cardinality(I)) /\ Cardinality(1..Cardinality(I)) = Cardinality(I)
  <2>1. 1 \in Int /\ Cardinality(I) \in Int
    BY <1>1
  <2>2. QED
    BY <1>1, <2>1, FS_Interval
<1>8. rank \in Surjection(I, 1..Cardinality(I))
  BY <1>6, <1>7, FS_Injection
<1>9. \A k \in 1..Cardinality(I) : \E i \in I : rank[i] = k
  BY <1>8 DEF Surjection
<1>10. ASSUME NEW k \in 1..Cardinality(I)
       PROVE  Nth(I)[k] \in I /\ rank[Nth(I)[k]] = k
  <2>1. Nth(I)[k] = CHOOSE i \in I : Cardinality(Below(I, i)) = k - 1
    BY DEF Nth, Below
  <2>2. \E i \in I : Cardinality(Below(I, i)) = k - 1
    <3>1. PICK i \in I : rank[i] = k
      BY <1>9
    <3>2. QED
      BY <1>2, <3>1
  <2>3. Nth(I)[k] \in I /\ Cardinality(Below(I, Nth(I)[k])) = k - 1
    BY <2>1, <2>2
  <2>4. QED
    BY <2>3
<1>11. \A i \in I : Nth(I)[rank[i]] = i
  BY <1>4, <1>5, <1>10
<1> HIDE DEF rank
<1>12. \A i \in I : \E k \in 1..Cardinality(I) : Nth(I)[k] = i
  BY <1>4, <1>11
<1>13. QED
  BY <1>1, <1>10, <1>12

-----------------------------------------------------------------------------
(* Packs.                                                                  *)

\* A pack is a finite sequence of items.
LEMMA PackItems ==
    ASSUME NEW e \in Packs
    PROVE  /\ Len(e) \in Nat /\ DOMAIN e = 1..Len(e)
           /\ \A i \in DOMAIN e : e[i] \in Item
BY DEF Packs

\* Every item has a source, and every source a rank.
LEMMA SourceOfItem ==
    ASSUME NEW x \in Item
    PROVE  x.source \in Sources /\ Priority[x.source] \in 1..3
<1>1. x.source \in Sources
  BY DEF Item, ItemsOf, Sources
<1>2. QED
  BY <1>1 DEF Sources, Priority

\* The items at a set of indexes are those items, each once.
LEMMA AtIndexes ==
    ASSUME NEW e \in Packs, NEW I \in SUBSET (DOMAIN e)
    PROVE  /\ At(e, I) \in Packs
           /\ \A n \in DOMAIN At(e, I) : Nth(I)[n] \in I /\ At(e, I)[n] = e[Nth(I)[n]]
           /\ \A m, n \in DOMAIN At(e, I) : m # n => Nth(I)[m] # Nth(I)[n]
           /\ \A i \in I : \E n \in DOMAIN At(e, I) : Nth(I)[n] = i
<1>1. Len(e) \in Nat /\ DOMAIN e = 1..Len(e) /\ \A i \in DOMAIN e : e[i] \in Item
  BY PackItems
<1> DEFINE N == Cardinality(I)
           order == Nth(I)
<1>2. /\ N \in Nat
      /\ \A k \in 1..N : order[k] \in I
      /\ \A k, m \in 1..N : k # m => order[k] # order[m]
      /\ \A i \in I : \E k \in 1..N : order[k] = i
  BY <1>1, NthIsBijective
<1>3. At(e, I) = [k \in 1..N |-> e[order[k]]]
  BY DEF At
<1> HIDE DEF N, order
<1>4. DOMAIN At(e, I) = 1..N /\ \A k \in 1..N : At(e, I)[k] = e[order[k]]
  BY <1>3
<1>5. At(e, I) \in Packs
  <2>1. \A k \in 1..N : e[order[k]] \in Item
    BY <1>1, <1>2
  <2>2. QED
    BY <1>2, <1>3, <2>1 DEF Packs
<1>6. QED
  BY <1>2, <1>4, <1>5 DEF order

\* Among some items there is a best one, the first of the best.
LEMMA BestItem ==
    ASSUME NEW e \in Packs, NEW same \in SUBSET (DOMAIN e), same # {}
    PROVE  \E i \in same : \A j \in same :
                \/ Better(e[i], e[j])
                \/ ~Better(e[j], e[i]) /\ i <= j
<1> DEFINE worth(i) == Priority[e[i].source]
           level(v) == {i \in same : worth(i) = v}
<1>1. \A i \in same : i \in Nat /\ worth(i) \in 1..3
  BY PackItems, SourceOfItem
<1>2. PICK v \in 1..3 : level(v) # {} /\ \A w \in 1..3 : w > v => level(w) = {}
  <2>1. level(1) # {} \/ level(2) # {} \/ level(3) # {}
    BY <1>1
  <2>2. QED
    BY <2>1
<1>3. PICK i \in level(v) : \A j \in level(v) : i <= j
  <2>1. level(v) \subseteq Nat
    BY <1>1
  <2>2. QED
    BY <1>2, <2>1, LeastNatural
<1>4. ASSUME NEW j \in same
      PROVE  Better(e[i], e[j]) \/ (~Better(e[j], e[i]) /\ i <= j)
  <2>1. worth(i) = v /\ worth(j) \in 1..3
    BY <1>1
  <2>2. CASE worth(j) = v
    <3>1. i <= j
      BY <1>3, <2>2
    <3>2. QED
      BY <2>1, <2>2, <3>1 DEF Better
  <2>3. CASE worth(j) > v
    BY <1>2, <2>1, <2>3
  <2>4. CASE worth(j) < v
    BY <2>1, <2>4 DEF Better
  <2>5. QED
    BY <2>1, <2>2, <2>3, <2>4
<1>5. QED
  BY <1>4

\* _deduplicate keeps, of the items of a key, one of the highest rank.
LEMMA KeptIsBest ==
    ASSUME NEW e \in Packs, NEW i \in DOMAIN e
    PROVE  \E w \in DOMAIN e :
              /\ Kept(e, e[i].key) = e[w] /\ e[w].key = e[i].key
              /\ \A j \in DOMAIN e : e[j].key = e[i].key =>
                    Priority[e[w].source] >= Priority[e[j].source]
<1> DEFINE same == {j \in DOMAIN e : e[j].key = e[i].key}
           best(w) == \A j \in same : \/ Better(e[w], e[j])
                                      \/ ~Better(e[j], e[w]) /\ w <= j
           w == CHOOSE x \in same : best(x)
<1>1. \E x \in same : best(x)
  BY BestItem
<1>2. w \in same /\ best(w)
  BY <1>1
<1>3. Kept(e, e[i].key) = e[w]
  BY DEF Kept
<1> HIDE DEF w
<1>4. ASSUME NEW j \in same PROVE Priority[e[w].source] >= Priority[e[j].source]
  <2>1. Priority[e[w].source] \in 1..3 /\ Priority[e[j].source] \in 1..3
    BY <1>2, PackItems, SourceOfItem
  <2>2. QED
    BY <1>2, <2>1 DEF Better
<1>5. QED
  BY <1>2, <1>3, <1>4

-----------------------------------------------------------------------------
(* Node 9.                                                                 *)
Heads(e) == {i \in DOMAIN e : \A j \in 1..(i - 1) : e[j].key # e[i].key}

\* Of the items with one key the best is left, and it alone.
LEMMA OnePerKey ==
    ASSUME NEW e \in Packs
    PROVE  /\ ByKey(e) \in Packs
           /\ \A n \in DOMAIN ByKey(e) : \E w \in DOMAIN e :
                 /\ ByKey(e)[n] = e[w]
                 /\ \A j \in DOMAIN e : e[j].key = e[w].key =>
                       Priority[e[w].source] >= Priority[e[j].source]
           /\ \A m, n \in DOMAIN ByKey(e) : m # n => ByKey(e)[m].key # ByKey(e)[n].key
           /\ \A i \in DOMAIN e : \E n \in DOMAIN ByKey(e) : ByKey(e)[n].key = e[i].key
<1> DEFINE heads == At(e, Heads(e))
           at == Nth(Heads(e))
<1>1. Heads(e) \in SUBSET (DOMAIN e)
  BY DEF Heads
<1>2. /\ heads \in Packs
      /\ \A n \in DOMAIN heads : at[n] \in Heads(e) /\ heads[n] = e[at[n]]
      /\ \A m, n \in DOMAIN heads : m # n => at[m] # at[n]
      /\ \A i \in Heads(e) : \E n \in DOMAIN heads : at[n] = i
  BY <1>1, AtIndexes
<1>3. ByKey(e) = [n \in DOMAIN heads |-> Kept(e, heads[n].key)]
  BY DEF ByKey, Heads
<1> HIDE DEF heads, at
<1>4. ASSUME NEW n \in DOMAIN heads
      PROVE  \E w \in DOMAIN e :
                /\ ByKey(e)[n] = e[w] /\ e[w].key = e[at[n]].key
                /\ \A j \in DOMAIN e : e[j].key = e[w].key =>
                      Priority[e[w].source] >= Priority[e[j].source]
  <2>1. at[n] \in DOMAIN e /\ heads[n] = e[at[n]]
    BY <1>1, <1>2
  <2>2. PICK w \in DOMAIN e :
           /\ Kept(e, e[at[n]].key) = e[w] /\ e[w].key = e[at[n]].key
           /\ \A j \in DOMAIN e : e[j].key = e[at[n]].key =>
                 Priority[e[w].source] >= Priority[e[j].source]
    BY <2>1, KeptIsBest
  <2>3. ByKey(e)[n] = e[w]
    BY <1>3, <2>1, <2>2
  <2>4. QED
    BY <2>2, <2>3
<1>5. DOMAIN ByKey(e) = DOMAIN heads
  BY <1>3
<1>6. ByKey(e) \in Packs
  <2>1. Len(heads) \in Nat /\ DOMAIN heads = 1..Len(heads)
    BY <1>2, PackItems
  <2>2. \A n \in 1..Len(heads) : ByKey(e)[n] \in Item
    BY <1>4, <2>1, PackItems
  <2>3. ByKey(e) = [n \in 1..Len(heads) |-> ByKey(e)[n]]
    BY <1>3, <2>1
  <2>4. QED
    BY <2>1, <2>2, <2>3, IsASeq DEF Packs
<1>7. ASSUME NEW m \in DOMAIN heads, NEW n \in DOMAIN heads, m # n
      PROVE  ByKey(e)[m].key # ByKey(e)[n].key
  <2>1. /\ at[m] \in Heads(e) /\ at[n] \in Heads(e) /\ at[m] # at[n]
        /\ ByKey(e)[m].key = e[at[m]].key /\ ByKey(e)[n].key = e[at[n]].key
    BY <1>2, <1>4, <1>7
  <2>2. at[m] \in Nat \ {0} /\ at[n] \in Nat \ {0}
    BY <1>1, <2>1, PackItems
  <2>3. CASE at[m] < at[n]
    BY <2>1, <2>2, <2>3 DEF Heads
  <2>4. CASE at[n] < at[m]
    BY <2>1, <2>2, <2>4 DEF Heads
  <2>5. QED
    BY <2>1, <2>2, <2>3, <2>4
<1>8. ASSUME NEW i \in DOMAIN e
      PROVE  \E n \in DOMAIN heads : ByKey(e)[n].key = e[i].key
  <2> DEFINE same == {j \in DOMAIN e : e[j].key = e[i].key}
  <2>1. DOMAIN e \subseteq Nat \ {0}
    BY PackItems
  <2>2. PICK h \in same : \A j \in same : h <= j
    <3>1. same \subseteq Nat /\ i \in same
      BY <2>1
    <3>2. QED
      BY <3>1, LeastNatural
  <2>3. h \in Heads(e)
    <3>1. \A j \in 1..(h - 1) : j \in DOMAIN e /\ ~(h <= j)
      BY <2>2, PackItems
    <3>2. QED
      BY <2>2, <3>1 DEF Heads
  <2>4. PICK n \in DOMAIN heads : at[n] = h
    BY <1>2, <2>3
  <2>5. ByKey(e)[n].key = e[h].key
    BY <1>4, <2>4
  <2>6. QED
    BY <2>2, <2>5
<1>9. QED
  BY <1>4, <1>5, <1>6, <1>7, <1>8

FirstOfTitle(b) ==
    {i \in DOMAIN b :
        \/ b[i].title = NoTitle
        \/ \A j \in 1..(i - 1) :
             <<b[j].source, b[j].title>> # <<b[i].source, b[i].title>>}

\* Of the items of a source with one title the first is left.
LEMMA OnePerTitle ==
    ASSUME NEW b \in Packs
    PROVE  /\ ByTitle(b) \in Packs
           /\ \A n \in DOMAIN ByTitle(b) :
                 Nth(FirstOfTitle(b))[n] \in DOMAIN b
                 /\ ByTitle(b)[n] = b[Nth(FirstOfTitle(b))[n]]
           /\ \A m, n \in DOMAIN ByTitle(b) : m # n =>
                 Nth(FirstOfTitle(b))[m] # Nth(FirstOfTitle(b))[n]
           /\ \A i \in DOMAIN b : \E n \in DOMAIN ByTitle(b) :
                 \/ ByTitle(b)[n] = b[i]
                 \/ /\ ByTitle(b)[n].source = b[i].source
                    /\ ByTitle(b)[n].title = b[i].title
                    /\ b[i].title # NoTitle
<1> DEFINE J == FirstOfTitle(b)
<1>1. J \in SUBSET (DOMAIN b)
  BY DEF FirstOfTitle
<1>2. ByTitle(b) = At(b, J)
  BY DEF ByTitle, FirstOfTitle
<1>3. /\ At(b, J) \in Packs
      /\ \A n \in DOMAIN At(b, J) : Nth(J)[n] \in J /\ At(b, J)[n] = b[Nth(J)[n]]
      /\ \A m, n \in DOMAIN At(b, J) : m # n => Nth(J)[m] # Nth(J)[n]
      /\ \A i \in J : \E n \in DOMAIN At(b, J) : Nth(J)[n] = i
  BY <1>1, AtIndexes
<1>4. ASSUME NEW i \in DOMAIN b
      PROVE  \E n \in DOMAIN ByTitle(b) :
                 \/ ByTitle(b)[n] = b[i]
                 \/ /\ ByTitle(b)[n].source = b[i].source
                    /\ ByTitle(b)[n].title = b[i].title
                    /\ b[i].title # NoTitle
  <2>1. CASE i \in J
    <3>1. PICK n \in DOMAIN At(b, J) : Nth(J)[n] = i
      BY <1>3, <2>1
    <3>2. At(b, J)[n] = b[i]
      BY <1>3, <3>1
    <3>3. QED
      BY <1>2, <3>2
  <2>2. CASE i \notin J
    <3> DEFINE same == {j \in DOMAIN b : b[j].source = b[i].source /\ b[j].title = b[i].title}
    <3>1. b[i].title # NoTitle
      BY <2>2 DEF FirstOfTitle
    <3>2. PICK h \in same : \A j \in same : h <= j
      <4>1. same \subseteq Nat /\ i \in same
        BY PackItems
      <4>2. QED
        BY <4>1, LeastNatural
    <3>3. h \in J
      <4>1. \A j \in 1..(h - 1) : j \in DOMAIN b /\ ~(h <= j)
        BY <3>2, PackItems
      <4>2. \A j \in 1..(h - 1) : j \notin same
        BY <3>2, <4>1
      <4>3. \A j \in 1..(h - 1) :
               <<b[j].source, b[j].title>> # <<b[h].source, b[h].title>>
        BY <3>2, <4>1, <4>2
      <4>4. QED
        BY <3>2, <4>3 DEF FirstOfTitle
    <3>4. PICK n \in DOMAIN At(b, J) : Nth(J)[n] = h
      BY <1>3, <3>3
    <3>5. At(b, J)[n] = b[h]
      BY <1>3, <3>4
    <3>6. QED
      BY <1>2, <3>1, <3>2, <3>5
  <2>3. QED
    BY <2>1, <2>2
<1>5. QED
  BY <1>1, <1>2, <1>3, <1>4

-----------------------------------------------------------------------------
(* The time of node 8.                                                     *)
TimeInv == round \in Nat \ {0} /\ left \in 0..Budget /\ RetryFits

\* What the assumption says of the time-outs.
LEMMA Times ==
    /\ Budget \in Nat \ {0} /\ ProjectCap \in Nat /\ CostCap \in Nat
    /\ ExtendedCap \in Nat /\ Backoff \in Nat /\ Margin \in Nat
BY PipelineAssumption DEF PipelineAssumption

\* What a read may take is never more than is left.
LEMMA TookFits ==
    ASSUME left \in 0..Budget, NEW cap \in Nat
    PROVE  /\ Within(cap) \in 0..left
           /\ \A d \in Took(cap) : left - d \in 0..Budget
<1>1. Within(cap) \in 0..left
  BY Times DEF Within
<1>2. QED
  BY <1>1, Times DEF Took

\* A node that hands over, and one that ends, starts its successor afresh.
LEMMA FreshTime ==
    ASSUME round' = 1, left' \in 0..Budget
    PROVE  TimeInv'
BY DEF TimeInv, RetryFits

\* The cost summary hands over with a fresh first try, or ends.
LEMMA AfterCostTime ==
    ASSUME NEW pack, NEW rest \in 0..Budget, NEW cost, AfterCost(pack, rest, cost)
    PROVE  TimeInv'
BY Times, FreshTime DEF AfterCost, Proceed, Complete, Conclude

\* So does each read of the extended data.
LEMMA NextExtendedTime ==
    ASSUME TimeInv, pc = "odoo_extended", NEW pack, NEW rest \in 0..Budget,
           NEW status, NextExtended(pack, rest, status)
    PROVE  TimeInv'
<1>1. CASE round' = 1 /\ left' = Budget
  BY <1>1, Times, FreshTime
<1>2. CASE round' = round + 1 /\ left' = rest /\ pc' = pc
  BY <1>2 DEF TimeInv, RetryFits
<1>3. QED
  BY <1>1, <1>2 DEF NextExtended, Complete, Conclude

\* The report starts with the whole budget.
LEMMA InitTime == Init => TimeInv
BY Times DEF Init, TimeInv, RetryFits

\* Every step keeps the time left, and a retry within it.
LEMMA NextTime == TimeInv /\ [Next]_vars => TimeInv'
<1> SUFFICES ASSUME TimeInv, [Next]_vars PROVE TimeInv'
  OBVIOUS
<1> USE Times
<1>1. CASE Authorize \/ Refuse \/ Plan \/ PlanRaises \/ OwnCloud \/ Normalize
             \/ Sufficiency \/ NotNeeded \/ Stop \/ Refetch \/ ModelRaises
  <2>1. UNCHANGED <<round, left>> /\ pc' \notin {"odoo", "odoo_cost"}
    BY <1>1 DEF Authorize, Refuse, Plan, PlanRaises, OwnCloud, Normalize, Sufficiency,
                NotNeeded, Stop, Refetch, ModelRaises, Planning, gathered, odoo
  <2>2. QED
    BY <2>1 DEF TimeInv, RetryFits
<1>2. CASE SharePointNextTerm
  BY <1>2 DEF SharePointNextTerm, odoo, TimeInv, RetryFits
<1>3. CASE SharePointFinds \/ SharePointFails \/ EmailSkipped \/ EmailFinds
             \/ EmailFails \/ OdooDenied
  <2>1. round' = 1 /\ left' = left
    BY <1>3 DEF SharePointFinds, SharePointFails, EmailSkipped, EmailFinds, EmailFails,
                OdooDenied, Gather, odoo
  <2>2. QED
    BY <2>1, FreshTime DEF TimeInv
<1>4. CASE ProjectAnswers
  <2>1. PICK d \in Took(ProjectCap), items \in Results("odoo") :
          IF project.analytic
          THEN Proceed("odoo_cost", evidence \o items, left - d)
          ELSE AfterCost(evidence \o items, left - d, "no_verified_analytic_account")
    BY <1>4 DEF ProjectAnswers
  <2>2. left - d \in 0..Budget
    BY TookFits DEF TimeInv
  <2>3. CASE project.analytic
    BY <2>1, <2>2, <2>3, FreshTime DEF Proceed
  <2>4. CASE ~project.analytic
    BY <2>1, <2>2, <2>4, AfterCostTime
  <2>5. QED
    BY <2>3, <2>4
<1>5. CASE ProjectFails
  <2>1. PICK d \in Took(ProjectCap) :
          IF Retry(ProjectCap, left - d)
          THEN round' = 2 /\ left' = left - d - Backoff /\ pc' = pc
          ELSE Conclude(evidence, Entry(Enabled("odoo"), TRUE, "error", 0))
    BY <1>5 DEF ProjectFails
  <2>2. left - d \in 0..Budget /\ pc = "odoo"
    BY <1>5, TookFits DEF TimeInv, ProjectFails
  <2>3. CASE Retry(ProjectCap, left - d)
    <3>1. left' \in 0..Budget /\ left' >= ProjectCap + Margin
      BY <2>1, <2>2, <2>3 DEF Retry
    <3>2. QED
      BY <2>1, <2>2, <2>3, <3>1 DEF TimeInv, RetryFits
  <2>4. CASE ~Retry(ProjectCap, left - d)
    BY <2>1, <2>4, FreshTime DEF Conclude
  <2>5. QED
    BY <2>3, <2>4
<1>6. CASE ProjectTimesOut
  BY <1>6, FreshTime DEF ProjectTimesOut, Conclude
<1>7. CASE CostAnswers
  <2>1. PICK d \in Took(CostCap), items \in Results("odoo") :
          AfterCost(evidence \o items, left - d, "unset")
    BY <1>7 DEF CostAnswers
  <2>2. left - d \in 0..Budget
    BY TookFits DEF TimeInv
  <2>3. QED
    BY <2>1, <2>2, AfterCostTime
<1>8. CASE CostFails
  <2>1. PICK d \in Took(CostCap) :
          IF Retry(CostCap, left - d)
          THEN round' = 2 /\ left' = left - d - Backoff /\ pc' = pc
          ELSE AfterCost(evidence, left - d, "error")
    BY <1>8 DEF CostFails
  <2>2. left - d \in 0..Budget /\ pc = "odoo_cost"
    BY <1>8, TookFits DEF TimeInv, CostFails
  <2>3. CASE Retry(CostCap, left - d)
    <3>1. left' \in 0..Budget /\ left' >= CostCap + Margin
      BY <2>1, <2>2, <2>3 DEF Retry
    <3>2. QED
      BY <2>1, <2>2, <2>3, <3>1 DEF TimeInv, RetryFits
  <2>4. CASE ~Retry(CostCap, left - d)
    BY <2>1, <2>2, <2>4, AfterCostTime
  <2>5. QED
    BY <2>3, <2>4
<1>9. CASE CostTimesOut
  <2>1. left - Within(CostCap) \in 0..Budget
    BY TookFits DEF TimeInv
  <2>2. QED
    BY <1>9, <2>1, AfterCostTime DEF CostTimesOut
<1>10. CASE ExtendedAnswers
  <2>1. PICK d \in Took(ExtendedCap), items \in Results("odoo") :
          NextExtended(evidence \o items, left - d, SoFar)
    BY <1>10 DEF ExtendedAnswers
  <2>2. left - d \in 0..Budget
    BY TookFits DEF TimeInv
  <2>3. QED
    BY <1>10, <2>1, <2>2, NextExtendedTime DEF ExtendedAnswers
<1>11. CASE ExtendedFails
  <2>1. PICK d \in Took(ExtendedCap) : NextExtended(evidence, left - d, SoFar)
    BY <1>11 DEF ExtendedFails
  <2>2. left - d \in 0..Budget
    BY TookFits DEF TimeInv
  <2>3. QED
    BY <1>11, <2>1, <2>2, NextExtendedTime DEF ExtendedFails
<1>12. CASE ExtendedTimesOut
  <2>1. left - Within(ExtendedCap) \in 0..Budget
    BY TookFits DEF TimeInv
  <2>2. QED
    BY <1>12, <2>1, NextExtendedTime DEF ExtendedTimesOut
<1>13. CASE UNCHANGED vars
  BY <1>13 DEF vars, odoo, TimeInv, RetryFits
<1>14. QED
  BY <1>1, <1>2, <1>3, <1>4, <1>5, <1>6, <1>7, <1>8, <1>9, <1>10, <1>11, <1>12, <1>13
     DEF Next

\* A repeated Odoo read has its whole timeout and the margin before it, for
\* any budget, timeouts and back-off (_read_odoo_with_retry).
THEOREM RetriesFit == Spec => []RetryFits
<1>1. TimeInv => RetryFits
  BY DEF TimeInv
<1>2. QED
  BY InitTime, NextTime, <1>1, PTL DEF Spec

-----------------------------------------------------------------------------
(* What a search adds to a pack.                                           *)
Of(e, s) == {i \in DOMAIN e : e[i].source = s}

\* The items of a source can be counted.
LEMMA CountType ==
    ASSUME NEW e \in Packs, NEW s
    PROVE  IsFiniteSet(Of(e, s)) /\ Cardinality(Of(e, s)) \in Nat
<1>1. Len(e) \in Int /\ 1 \in Int /\ DOMAIN e = 1..Len(e)
  BY PackItems
<1>2. IsFiniteSet(DOMAIN e)
  BY <1>1, FS_Interval
<1>3. Of(e, s) \in SUBSET (DOMAIN e)
  BY DEF Of
<1>4. IsFiniteSet(Of(e, s))
  BY <1>2, <1>3, FS_Subset
<1>5. QED
  BY <1>4, FS_CardinalityType

\* Appending an item adds one to its source and nothing to the others.
LEMMA GrowByOne ==
    ASSUME NEW e \in Packs, NEW x \in Item
    PROVE  /\ e \o <<x>> \in Packs /\ Len(e \o <<x>>) = Len(e) + 1
           /\ \A i \in DOMAIN e : i \in DOMAIN (e \o <<x>>) /\ (e \o <<x>>)[i] = e[i]
           /\ \A s : s # x.source => Of(e \o <<x>>, s) = Of(e, s)
           /\ Cardinality(Of(e \o <<x>>, x.source)) = Cardinality(Of(e, x.source)) + 1
<1> DEFINE f == e \o <<x>>
<1>1. /\ Len(e) \in Nat /\ DOMAIN e = 1..Len(e)
      /\ <<x>> \in Packs /\ Len(<<x>>) = 1 /\ <<x>>[1] = x
  BY PackItems DEF Packs
<1>2. /\ f \in Packs /\ Len(f) = Len(e) + 1
      /\ \A i \in 1..(Len(e) + 1) : f[i] = IF i <= Len(e) THEN e[i] ELSE <<x>>[i - Len(e)]
  BY <1>1, ConcatProperties DEF Packs
<1>3. DOMAIN f = 1..(Len(e) + 1)
  BY <1>2, PackItems
<1> HIDE DEF f
<1>4. \A i \in 1..Len(e) : f[i] = e[i]
  BY <1>1, <1>2
<1>5. f[Len(e) + 1] = x
  BY <1>1, <1>2
<1>6. \A s : s # x.source => Of(f, s) = Of(e, s)
  BY <1>1, <1>3, <1>4, <1>5 DEF Of
<1>7. Of(f, x.source) = Of(e, x.source) \cup {Len(e) + 1}
  BY <1>1, <1>3, <1>4, <1>5 DEF Of
<1>8. Len(e) + 1 \notin Of(e, x.source)
  BY <1>1 DEF Of
<1>9. Cardinality(Of(f, x.source)) = Cardinality(Of(e, x.source)) + 1
  BY <1>7, <1>8, CountType, FS_AddElement
<1>10. QED
  BY <1>1, <1>2, <1>3, <1>4, <1>6, <1>9 DEF f

\* The items of one source, as many as a node may add at once.
LEMMA Grow ==
    ASSUME NEW e \in Packs, NEW src \in Sources, NEW items \in Pairs(src)
    PROVE  /\ e \o items \in Packs /\ Len(items) \in Nat
           /\ Len(e \o items) = Len(e) + Len(items)
           /\ \A i \in DOMAIN e : i \in DOMAIN (e \o items) /\ (e \o items)[i] = e[i]
           /\ \A s : s # src => Of(e \o items, s) = Of(e, s)
           /\ Cardinality(Of(e \o items, src)) = Cardinality(Of(e, src)) + Len(items)
<1>1. \A x \in ItemsOf(src) : x \in Item /\ x.source = src
  BY DEF Item, ItemsOf
<1>2. CASE items = <<>>
  <2>1. e \o items = e /\ Len(items) = 0
    BY <1>2, ConcatEmptySeq DEF Packs
  <2>2. Len(e) \in Nat /\ Cardinality(Of(e, src)) \in Nat
    BY PackItems, CountType
  <2>3. QED
    BY <2>1, <2>2
<1>3. ASSUME NEW x \in ItemsOf(src), items = <<x>>
      PROVE  /\ e \o items \in Packs /\ Len(items) = 1
             /\ Len(e \o items) = Len(e) + 1
             /\ \A i \in DOMAIN e : i \in DOMAIN (e \o items) /\ (e \o items)[i] = e[i]
             /\ \A s : s # src => Of(e \o items, s) = Of(e, s)
             /\ Cardinality(Of(e \o items, src)) = Cardinality(Of(e, src)) + 1
  BY <1>1, <1>3, GrowByOne
<1>4. ASSUME NEW x \in ItemsOf(src), NEW y \in ItemsOf(src), items = <<x, y>>
      PROVE  /\ e \o items \in Packs /\ Len(items) = 2
             /\ Len(e \o items) = Len(e) + 2
             /\ \A i \in DOMAIN e : i \in DOMAIN (e \o items) /\ (e \o items)[i] = e[i]
             /\ \A s : s # src => Of(e \o items, s) = Of(e, s)
             /\ Cardinality(Of(e \o items, src)) = Cardinality(Of(e, src)) + 2
  <2>1. e \in Seq(Item) /\ <<x>> \in Seq(Item) /\ <<y>> \in Seq(Item)
    BY <1>1 DEF Packs
  <2>2. <<x, y>> = <<x>> \o <<y>>
    <3>1. Append(<<x>>, y) = <<x>> \o <<y>>
      BY <1>1, <2>1, AppendIsConcat
    <3>2. Append(<<x>>, y) = <<x, y>>
      <4> DEFINE z == Append(<<x>>, y)
      <4>1. /\ z \in Seq(Item) /\ Len(z) = Len(<<x>>) + 1
            /\ \A i \in 1..Len(<<x>>) : z[i] = <<x>>[i]
            /\ z[Len(<<x>>) + 1] = y
        BY <1>1, <2>1, AppendProperties
      <4> HIDE DEF z
      <4>2. Len(<<x>>) = 1 /\ <<x>>[1] = x
        OBVIOUS
      <4>3. Len(z) = 2 /\ z[1] = x /\ z[2] = y
        BY <4>1, <4>2
      <4>4. <<x, y>> \in Seq(Item) /\ Len(<<x, y>>) = 2
        BY <1>1
      <4>5. \A i \in 1..2 : z[i] = <<x, y>>[i]
        BY <4>3
      <4>6. z = <<x, y>>
        BY <4>1, <4>3, <4>4, <4>5, SeqEqual
      <4>7. QED
        BY <4>6 DEF z
    <3>3. QED
      BY <3>1, <3>2
  <2>3. (e \o <<x>>) \o <<y>> = e \o (<<x>> \o <<y>>)
    BY <2>1, ConcatAssociative
  <2>4. e \o items = (e \o <<x>>) \o <<y>>
    BY <1>4, <2>2, <2>3
  <2> DEFINE f == e \o <<x>>
  <2>5. /\ f \in Packs /\ Len(f) = Len(e) + 1
        /\ \A i \in DOMAIN e : i \in DOMAIN f /\ f[i] = e[i]
        /\ \A s : s # src => Of(f, s) = Of(e, s)
        /\ Cardinality(Of(f, src)) = Cardinality(Of(e, src)) + 1
    BY <1>1, GrowByOne
  <2> HIDE DEF f
  <2>6. /\ f \o <<y>> \in Packs /\ Len(f \o <<y>>) = Len(f) + 1
        /\ \A i \in DOMAIN f : i \in DOMAIN (f \o <<y>>) /\ (f \o <<y>>)[i] = f[i]
        /\ \A s : s # src => Of(f \o <<y>>, s) = Of(f, s)
        /\ Cardinality(Of(f \o <<y>>, src)) = Cardinality(Of(f, src)) + 1
    BY <1>1, <2>5, GrowByOne
  <2>7. Len(items) = 2 /\ Len(e) \in Nat /\ Cardinality(Of(e, src)) \in Nat
    BY <1>4, PackItems, CountType
  <2>8. e \o items = f \o <<y>>
    BY <2>4 DEF f
  <2>9. QED
    BY <2>5, <2>6, <2>7, <2>8
<1>5. \/ items = <<>>
      \/ \E x \in ItemsOf(src) : items = <<x>>
      \/ \E x, y \in ItemsOf(src) : items = <<x, y>>
  BY DEF Pairs, Results
<1>6. QED
  BY <1>2, <1>3, <1>4, <1>5

-----------------------------------------------------------------------------
(* What is known of the pack and of coverage at each step.                 *)
Early   == {"auth", "intent", "scope", "plan", "sharepoint", "owncloud", "email"}
Untried == Early \ {"owncloud", "email"}

PackTyped ==
    /\ evidence \in Packs /\ DOMAIN coverage = ProjectSources
    /\ pc \in Early \cup OdooSteps \cup Gathered \cup {"raised"}

\* Who was let in, and whose mail is read.
MailAllowed == ListedCaller \/ ByGroup

Admitted ==
    /\ pc = "auth" => evidence = <<>>
    /\ evidence # <<>> => Authorized
    /\ pc \notin {"auth", "raised"} =>
          Authorized /\ allowed_mailboxes = AllowedMailboxes(project)
    /\ Of(evidence, "email") # {} => MailAllowed

\* A node that has not run has added nothing and recorded nothing.
Staged ==
    /\ pc \in Untried => Of(evidence, "sharepoint") = {}
    /\ pc \in Early => Of(evidence, "email") = {}
    /\ pc \in Early \cup {"odoo"} => Of(evidence, "odoo") = {}
    /\ pc \in Early \cup OdooSteps => coverage["odoo"] = NotRecorded
    /\ correction = "retried" => pc = "draft"

Told(entry) ==
    entry.enabled => entry.attempted \/ entry.status \in {"blocked", "rbac_denied"}

Denied ==
    correction # "retried" =>
        \A s \in ProjectSources :
            coverage[s].status = "rbac_denied" => Of(evidence, s) = {}

Counted ==
    /\ pc \in Early \cup OdooSteps \cup {"normalize"} =>
          \A s \in {"sharepoint", "email"} :
              coverage[s].evidence_count = Cardinality(Of(evidence, s))
    /\ pc = "normalize" =>
          coverage["odoo"].evidence_count = Cardinality(Of(evidence, "odoo"))

PackInv ==
    /\ PackTyped /\ Admitted /\ Staged /\ Denied /\ Counted
    /\ \A s \in ProjectSources : Told(coverage[s])
    /\ RefusedGivesNothing

\* The caller and the project stay what they are.
SameCaller == UNCHANGED <<project, role, query>>

\* What the caller may see does not change while the caller does not.
LEMMA SameAdmission ==
    ASSUME SameCaller
    PROVE  /\ Authorized' = Authorized /\ MailAllowed' = MailAllowed
           /\ AllowedMailboxes(project)' = AllowedMailboxes(project)
BY DEF SameCaller, Authorized, MayGenerate, MailAllowed, ListedCaller, ByGroup,
       MayReadOwnMailbox, Enabled, AllowedMailboxes, GroupMail

\* Before self-correction a refused source gives nothing.
LEMMA DeniedSuffices ==
    ASSUME Denied, correction # "retried"
    PROVE  RefusedGivesNothing
BY DEF Denied, RefusedGivesNothing, Of

\* An empty pack satisfies the invariant.
LEMMA InitPack == Init => PackInv
<1> SUFFICES ASSUME Init PROVE PackInv
  OBVIOUS
<1>1. evidence = <<>> /\ evidence \in Packs /\ DOMAIN evidence = {}
  BY DEF Init, Packs
<1>2. \A s : Of(evidence, s) = {}
  BY <1>1 DEF Of
<1>3. \A s \in ProjectSources : coverage[s] = NotRecorded
  BY DEF Init
<1>4. NotRecorded.evidence_count = 0 /\ Told(NotRecorded)
  BY DEF NotRecorded, Entry, Told
<1>5. Cardinality({}) = 0
  BY FS_EmptySet
<1>6. PackTyped /\ Admitted
  BY <1>1, <1>2 DEF Init, PackTyped, Admitted, Early
<1>7. Staged
  BY <1>2, <1>3 DEF Init, Staged, ProjectSources
<1>8. Denied /\ correction # "retried"
  BY <1>2 DEF Init, Denied
<1>9. Counted
  BY <1>2, <1>3, <1>4, <1>5 DEF Init, Counted, ProjectSources
<1>10. \A s \in ProjectSources : Told(coverage[s])
  BY <1>3, <1>4
<1>11. QED
  BY <1>6, <1>7, <1>8, <1>9, <1>10, DeniedSuffices DEF PackInv

-----------------------------------------------------------------------------
\* A step that reads nothing leads from a node to a later one.
LEMMA IdleKeeps ==
    ASSUME PackInv, SameCaller, UNCHANGED <<coverage, evidence>>,
           correction # "retried", correction' # "retried",
           pc' \in Early \cup OdooSteps \cup Gathered \cup {"raised"}, pc' # "auth",
           pc' \in Untried => pc \in Untried,
           pc' \in Early => pc \in Early,
           pc' \in Early \cup {"odoo"} => pc \in Early \cup {"odoo"},
           pc' \in Early \cup OdooSteps => pc \in Early \cup OdooSteps,
           pc' # "normalize",
           pc' # "raised" =>
              Authorized /\ allowed_mailboxes' = AllowedMailboxes(project)
    PROVE  PackInv'
<1>1. PackTyped'
  BY DEF PackInv, PackTyped
<1>2. Admitted'
  BY SameAdmission DEF PackInv, Admitted, Of
<1>3. Staged'
  BY DEF PackInv, Staged, Of
<1>4. Denied'
  BY DEF PackInv, Denied, Of
<1>5. Counted'
  BY DEF PackInv, Counted, Of
<1>6. (\A s \in ProjectSources : Told(coverage[s]))'
  BY DEF PackInv, Told
<1>7. RefusedGivesNothing'
  BY <1>4 DEF Denied, RefusedGivesNothing, Of
<1>8. QED
  BY <1>1, <1>2, <1>3, <1>4, <1>5, <1>6, <1>7 DEF PackInv

\* The nodes that gather nothing keep it.
LEMMA IdleActionsKeep ==
    ASSUME PackInv,
           \/ Authorize \/ Refuse \/ Plan \/ PlanRaises \/ SharePointNextTerm
           \/ Sufficiency \/ NotNeeded \/ Stop \/ ModelRaises
    PROVE  PackInv'
<1> USE DEF Early, Untried, OdooSteps, Gathered
<1>1. CASE Authorize
  <2>1. correction # "retried"
    BY <1>1 DEF PackInv, Staged, Authorize
  <2>2. QED
    BY <1>1, <2>1, IdleKeeps DEF Authorize, SameCaller, gathered, after
<1>2. CASE Refuse
  <2>1. correction # "retried"
    BY <1>2 DEF PackInv, Staged, Refuse
  <2>2. QED
    BY <1>2, <2>1, IdleKeeps DEF Refuse, SameCaller, inputs, gathered, after
<1>3. CASE Plan
  <2>1. pc \in {"intent", "scope", "plan"} /\ pc' \in {"scope", "plan", "sharepoint"}
    BY <1>3 DEF Plan, Planning
  <2>2. correction # "retried"
        /\ Authorized /\ allowed_mailboxes = AllowedMailboxes(project)
    BY <2>1 DEF PackInv, Staged, Admitted
  <2>3. QED
    BY <1>3, <2>1, <2>2, IdleKeeps DEF Plan, SameCaller, inputs, gathered, after
<1>4. CASE PlanRaises
  <2>1. pc \in {"intent", "scope", "plan"}
    BY <1>4 DEF PlanRaises, Planning
  <2>2. correction # "retried"
    BY <2>1 DEF PackInv, Staged
  <2>3. QED
    BY <1>4, <2>1, <2>2, IdleKeeps DEF PlanRaises, SameCaller, inputs, gathered, after
<1>5. CASE SharePointNextTerm
  <2>1. pc = "sharepoint" /\ pc' = pc
    BY <1>5 DEF SharePointNextTerm
  <2>2. correction # "retried"
        /\ Authorized /\ allowed_mailboxes = AllowedMailboxes(project)
    BY <2>1 DEF PackInv, Staged, Admitted
  <2>3. QED
    BY <1>5, <2>1, <2>2, IdleKeeps DEF SharePointNextTerm, SameCaller, inputs, after
<1>6. CASE Sufficiency
  <2>1. pc = "sufficiency" /\ pc' = "self_correct"
    BY <1>6 DEF Sufficiency
  <2>2. correction # "retried"
        /\ Authorized /\ allowed_mailboxes = AllowedMailboxes(project)
    BY <2>1 DEF PackInv, Staged, Admitted
  <2>3. QED
    BY <1>6, <2>1, <2>2, IdleKeeps DEF Sufficiency, SameCaller, inputs
<1>7. CASE NotNeeded \/ Stop
  <2>1. pc = "self_correct" /\ pc' = "draft" /\ correction' # "retried"
    BY <1>7 DEF NotNeeded, Stop
  <2>2. correction # "retried"
        /\ Authorized /\ allowed_mailboxes = AllowedMailboxes(project)
    BY <2>1 DEF PackInv, Staged, Admitted
  <2>3. QED
    BY <1>7, <2>1, <2>2, IdleKeeps DEF NotNeeded, Stop, SameCaller, inputs
<1>8. CASE ModelRaises
  <2>1. pc = "self_correct" /\ pc' = "raised"
    BY <1>8 DEF ModelRaises
  <2>2. correction # "retried"
    BY <2>1 DEF PackInv, Staged
  <2>3. QED
    BY <1>8, <2>1, <2>2, IdleKeeps DEF ModelRaises, SameCaller, inputs, after
<1>9. QED
  BY <1>1, <1>2, <1>3, <1>4, <1>5, <1>6, <1>7, <1>8

-----------------------------------------------------------------------------
\* The node of source s has its pack and its entry.
LEMMA Recorded ==
    ASSUME PackInv, SameCaller, UNCHANGED <<allowed_mailboxes, correction>>,
           NEW s \in ProjectSources, NEW entry,
           evidence' \in Packs,
           \A q : q # s => Of(evidence', q) = Of(evidence, q),
           coverage' = [coverage EXCEPT ![s] = entry],
           entry.evidence_count = Cardinality(Of(evidence', s)),
           entry.status = "rbac_denied" => Of(evidence', s) = {},
           Told(entry),
           Of(evidence', "email") # {} => MailAllowed,
           \/ s = "sharepoint" /\ pc = "sharepoint" /\ pc' = "owncloud"
           \/ s = "email" /\ pc = "email" /\ pc' = "odoo"
           \/ s = "odoo" /\ pc \in OdooSteps /\ pc' = "normalize"
    PROVE  PackInv'
<1> USE DEF Early, Untried, OdooSteps, Gathered
<1>1. correction # "retried" /\ correction' # "retried"
  BY DEF PackInv, Staged
<1>2. Authorized /\ allowed_mailboxes = AllowedMailboxes(project)
  BY DEF PackInv, Admitted
<1>3. DOMAIN coverage = ProjectSources /\ DOMAIN coverage' = ProjectSources
  BY DEF PackInv, PackTyped
<1>4. /\ coverage'[s] = entry
      /\ \A q \in ProjectSources : q # s => coverage'[q] = coverage[q]
  BY <1>3
<1>5. PackTyped'
  BY <1>3 DEF PackTyped
<1>6. Admitted'
  <2>1. pc' \notin {"auth", "raised"}
    OBVIOUS
  <2>2. Authorized' /\ (allowed_mailboxes = AllowedMailboxes(project))'
    BY <1>2, SameAdmission
  <2>3. (Of(evidence, "email") # {} => MailAllowed)'
    BY SameAdmission DEF Of
  <2>4. QED
    BY <2>1, <2>2, <2>3 DEF Admitted
<1>7. Staged'
  BY <1>1, <1>4 DEF PackInv, Staged, Of, ProjectSources
<1>8. Denied'
  BY <1>1, <1>4 DEF PackInv, Denied, Of
<1>9. Counted'
  <2>1. CASE s = "sharepoint"
    BY <1>4, <2>1 DEF PackInv, Counted, Of, ProjectSources
  <2>2. CASE s = "email"
    BY <1>4, <2>2 DEF PackInv, Counted, Of, ProjectSources
  <2>3. CASE s = "odoo"
    BY <1>4, <2>3 DEF PackInv, Counted, Of, ProjectSources
  <2>4. QED
    BY <2>1, <2>2, <2>3 DEF ProjectSources
<1>10. (\A q \in ProjectSources : Told(coverage[q]))'
  BY <1>4 DEF PackInv, Told
<1>11. RefusedGivesNothing'
  BY <1>1, <1>8 DEF Denied, RefusedGivesNothing, Of
<1>12. QED
  BY <1>5, <1>6, <1>7, <1>8, <1>9, <1>10, <1>11 DEF PackInv

\* Node 8 goes on reading.
LEMMA ReadsOn ==
    ASSUME PackInv, SameCaller, UNCHANGED <<allowed_mailboxes, correction, coverage>>,
           pc \in OdooSteps, pc' \in OdooSteps,
           evidence' \in Packs,
           \A q : q # "odoo" => Of(evidence', q) = Of(evidence, q),
           pc' = "odoo" => pc = "odoo" /\ evidence' = evidence
    PROVE  PackInv'
<1> USE DEF Early, Untried, OdooSteps, Gathered
<1>1. correction # "retried" /\ correction' # "retried"
  BY DEF PackInv, Staged
<1>2. Authorized /\ allowed_mailboxes = AllowedMailboxes(project)
  BY DEF PackInv, Admitted
<1>3. coverage["odoo"].status # "rbac_denied"
  BY DEF PackInv, Staged, NotRecorded, Entry
<1>4. PackTyped'
  BY DEF PackInv, PackTyped
<1>5. Admitted'
  <2>1. Authorized' /\ (allowed_mailboxes = AllowedMailboxes(project))'
    BY <1>2, SameAdmission
  <2>2. (Of(evidence, "email") # {} => MailAllowed)'
    BY SameAdmission DEF Of, PackInv, Admitted
  <2>3. QED
    BY <2>1, <2>2 DEF Admitted
<1>6. Staged'
  BY <1>1 DEF PackInv, Staged, Of
<1>7. Denied'
  BY <1>1, <1>3 DEF PackInv, Denied, Of
<1>8. Counted'
  BY DEF PackInv, Counted, Of
<1>9. (\A q \in ProjectSources : Told(coverage[q]))'
  BY DEF PackInv, Told
<1>10. RefusedGivesNothing'
  BY <1>1, <1>7 DEF Denied, RefusedGivesNothing, Of
<1>11. QED
  BY <1>4, <1>5, <1>6, <1>7, <1>8, <1>9, <1>10 DEF PackInv

-----------------------------------------------------------------------------
(* Nodes 5 to 7.                                                           *)

\* A SharePoint or mail search that reports what it appends keeps it.
LEMMA SearchKeeps ==
    ASSUME PackInv, SameCaller, UNCHANGED <<allowed_mailboxes, correction>>,
           NEW s \in {"sharepoint", "email"}, NEW items \in Pairs(s),
           NEW entry, NEW next, Gather(s, items, entry, next),
           entry.evidence_count = Len(items),
           entry.status = "rbac_denied" => items = <<>>,
           Told(entry),
           s = "email" => (items # <<>> => MailAllowed),
           \/ s = "sharepoint" /\ pc = "sharepoint" /\ next = "owncloud"
           \/ s = "email" /\ pc = "email" /\ next = "odoo"
    PROVE  PackInv'
<1>1. evidence \in Packs /\ Of(evidence, s) = {}
  BY DEF PackInv, PackTyped, Staged, Untried, Early
<1>2. /\ evidence' = evidence \o items /\ pc' = next
      /\ coverage' = [coverage EXCEPT ![s] = entry]
  BY DEF Gather
<1>3. s \in Sources /\ s \in ProjectSources
  BY DEF Sources, ProjectSources
<1>4. /\ evidence \o items \in Packs /\ Len(items) \in Nat
      /\ \A q : q # s => Of(evidence \o items, q) = Of(evidence, q)
      /\ Cardinality(Of(evidence \o items, s)) = Cardinality(Of(evidence, s)) + Len(items)
  BY <1>1, <1>3, Grow
<1>5. Cardinality(Of(evidence', s)) = Len(items)
  BY <1>1, <1>2, <1>4, FS_EmptySet
<1>6. items = <<>> => Of(evidence', s) = {}
  <2> SUFFICES ASSUME items = <<>> PROVE Of(evidence', s) = {}
    OBVIOUS
  <2>1. evidence' = evidence
    BY <1>1, <1>2, ConcatEmptySeq DEF Packs
  <2>2. QED
    BY <1>1, <2>1
<1>7. Of(evidence', "email") # {} => MailAllowed
  <2>1. CASE s = "email"
    BY <1>6, <2>1
  <2>2. CASE s # "email"
    BY <1>2, <1>4, <2>2 DEF PackInv, Admitted
  <2>3. QED
    BY <2>1, <2>2
<1>8. QED
  BY <1>2, <1>3, <1>4, <1>5, <1>6, <1>7, Recorded

\* Nodes 5 and 7, found, failed or skipped.
LEMMA SearchesKeep ==
    ASSUME PackInv,
           \/ SharePointFinds \/ SharePointFails
           \/ EmailSkipped \/ EmailFinds \/ EmailFails
    PROVE  PackInv'
<1>1. \A s : <<>> \in Pairs(s) /\ Results(s) \subseteq Pairs(s)
  BY DEF Pairs, Results
<1>2. Len(<<>>) = 0
  BY DEF Packs
<1>3. \A enabled, count : /\ Answered(enabled, count).evidence_count = count
                          /\ Answered(enabled, count).status # "rbac_denied"
                          /\ Told(Answered(enabled, count))
  BY DEF Answered, Entry, Told
<1>4. \A enabled : LET entry == Entry(enabled, TRUE, "error", 0)
                   IN  /\ entry.evidence_count = 0 /\ Told(entry)
                       /\ entry.status # "rbac_denied"
  BY DEF Entry, Told
<1>5. CASE SharePointFinds
  <2>1. PICK items \in Pairs("sharepoint") :
          Gather("sharepoint", items,
                 Answered(Enabled("sharepoint"), Len(items)), "owncloud")
    BY <1>5 DEF SharePointFinds
  <2>2. SameCaller /\ UNCHANGED <<allowed_mailboxes, correction>> /\ pc = "sharepoint"
    BY <1>5 DEF SharePointFinds, inputs, after, SameCaller
  <2>3. QED
    BY <1>3, <2>1, <2>2, SearchKeeps
<1>6. CASE SharePointFails
  <2>1. Gather("sharepoint", <<>>,
               Entry(Enabled("sharepoint"), TRUE, "error", 0), "owncloud")
    BY <1>6 DEF SharePointFails
  <2>2. SameCaller /\ UNCHANGED <<allowed_mailboxes, correction>> /\ pc = "sharepoint"
    BY <1>6 DEF SharePointFails, inputs, after, SameCaller
  <2>3. QED
    BY <1>1, <1>2, <1>4, <2>1, <2>2, SearchKeeps
<1>7. CASE EmailSkipped
  <2>1. Gather("email", <<>>, Skipped(Enabled("email"), EmailSkip), "odoo")
    BY <1>7 DEF EmailSkipped
  <2>2. SameCaller /\ UNCHANGED <<allowed_mailboxes, correction>> /\ pc = "email"
    BY <1>7 DEF EmailSkipped, inputs, after, SameCaller
  <2>3. Told(Skipped(Enabled("email"), EmailSkip))
    BY <1>7 DEF EmailSkipped, EmailSkip, Searched, Skipped, Entry, Told
  <2>4. Skipped(Enabled("email"), EmailSkip).evidence_count = 0
    BY DEF Skipped, Entry
  <2>5. QED
    BY <1>1, <1>2, <2>1, <2>2, <2>3, <2>4, SearchKeeps
<1>8. ASSUME Searched, pc = "email" PROVE MailAllowed
  <2>1. allowed_mailboxes = AllowedMailboxes(project)
    BY <1>8 DEF PackInv, Admitted
  <2>2. CASE ByGroup
    BY <2>2 DEF MailAllowed
  <2>3. CASE EmailSkip = "search"
    <3>1. MayReadOwnMailbox(role) /\ "caller" \in allowed_mailboxes
      BY <2>3 DEF EmailSkip
    <3>2. "caller" \in project.shared
      BY <2>1, <3>1 DEF AllowedMailboxes
    <3>3. QED
      BY <3>1, <3>2 DEF MailAllowed, ListedCaller
  <2>4. QED
    BY <1>8, <2>2, <2>3 DEF Searched
<1>9. CASE EmailFinds
  <2>1. PICK items \in Results("email") :
          Gather("email", items, Answered(Enabled("email"), Len(items)), "odoo")
    BY <1>9 DEF EmailFinds
  <2>2. SameCaller /\ UNCHANGED <<allowed_mailboxes, correction>> /\ pc = "email" /\ Searched
    BY <1>9 DEF EmailFinds, inputs, after, SameCaller
  <2>3. QED
    BY <1>1, <1>3, <1>8, <2>1, <2>2, SearchKeeps
<1>10. CASE EmailFails
  <2>1. Gather("email", <<>>, Entry(Enabled("email"), TRUE, "error", 0), "odoo")
    BY <1>10 DEF EmailFails
  <2>2. SameCaller /\ UNCHANGED <<allowed_mailboxes, correction>> /\ pc = "email"
    BY <1>10 DEF EmailFails, inputs, after, SameCaller
  <2>3. QED
    BY <1>1, <1>2, <1>4, <2>1, <2>2, SearchKeeps
<1>11. QED
  BY <1>5, <1>6, <1>7, <1>9, <1>10

\* Node 6, which finds nothing.
LEMMA OwnCloudKeeps ==
    ASSUME PackInv, OwnCloud
    PROVE  PackInv'
<1> USE DEF Early, Untried, OdooSteps, Gathered
<1>1. PICK items \in Results("owncloud") : evidence' = evidence \o items
  BY DEF OwnCloud
<1>2. pc = "owncloud" /\ pc' = "email" /\ UNCHANGED <<inputs, coverage, after>>
  BY DEF OwnCloud
<1>3. /\ UNCHANGED <<coverage, correction, allowed_mailboxes>> /\ SameCaller
  BY <1>2 DEF inputs, after, SameCaller
<1>4. /\ evidence' \in Packs
      /\ \A s \in ProjectSources : Of(evidence', s) = Of(evidence, s)
  <2>1. evidence \in Packs /\ "owncloud" \in Sources /\ items \in Pairs("owncloud")
    BY DEF PackInv, PackTyped, Sources, Pairs
  <2>2. /\ evidence \o items \in Packs
        /\ \A q : q # "owncloud" => Of(evidence \o items, q) = Of(evidence, q)
    BY <2>1, Grow
  <2>3. QED
    BY <1>1, <2>2 DEF ProjectSources
<1>5. correction # "retried" /\ Authorized /\ allowed_mailboxes = AllowedMailboxes(project)
  BY <1>2 DEF PackInv, Staged, Admitted
<1>6. PackTyped'
  BY <1>2, <1>3, <1>4 DEF PackInv, PackTyped
<1>7. Admitted'
  <2>1. Authorized' /\ (allowed_mailboxes = AllowedMailboxes(project))'
    BY <1>3, <1>5, SameAdmission
  <2>2. (Of(evidence, "email") # {} => MailAllowed)'
    BY <1>3, <1>4, SameAdmission DEF Of, PackInv, Admitted, ProjectSources
  <2>3. QED
    BY <1>2, <2>1, <2>2 DEF Admitted
<1>8. Staged'
  BY <1>2, <1>3, <1>4, <1>5 DEF PackInv, Staged, Of, ProjectSources
<1>9. Denied'
  BY <1>3, <1>4, <1>5 DEF PackInv, Denied, Of
<1>10. Counted'
  BY <1>2, <1>3, <1>4 DEF PackInv, Counted, Of, ProjectSources
<1>11. (\A q \in ProjectSources : Told(coverage[q]))'
  BY <1>3 DEF PackInv, Told
<1>12. RefusedGivesNothing'
  BY <1>3, <1>5, <1>9 DEF Denied, RefusedGivesNothing, Of
<1>13. QED
  BY <1>6, <1>7, <1>8, <1>9, <1>10, <1>11, <1>12 DEF PackInv

-----------------------------------------------------------------------------
(* Node 8.                                                                 *)
\* A pack node 8 has made of the pack it found.
OdooPack(pack) ==
    pack \in Packs /\ \A q : q # "odoo" => Of(pack, q) = Of(evidence, q)

\* What node 8 has gathered so far, and with one more answer.
LEMMA OdooPacks ==
    ASSUME PackInv
    PROVE  /\ OdooPack(evidence)
           /\ \A items \in Results("odoo") : OdooPack(evidence \o items)
<1>1. evidence \in Packs /\ "odoo" \in Sources /\ Results("odoo") \subseteq Pairs("odoo")
  BY DEF PackInv, PackTyped, Sources, Pairs
<1>2. ASSUME NEW items \in Results("odoo") PROVE OdooPack(evidence \o items)
  <2>1. /\ evidence \o items \in Packs
        /\ \A q : q # "odoo" => Of(evidence \o items, q) = Of(evidence, q)
    BY <1>1, Grow
  <2>2. QED
    BY <2>1 DEF OdooPack
<1>3. QED
  BY <1>1, <1>2 DEF OdooPack

InOdoo == pc \in OdooSteps /\ UNCHANGED <<inputs, after>>

\* Node 8 ends with an entry that is true of its pack.
LEMMA ConcludeKeeps ==
    ASSUME PackInv, InOdoo, NEW pack, OdooPack(pack), NEW entry, Conclude(pack, entry),
           entry.evidence_count = Cardinality(Of(pack, "odoo")),
           entry.status = "rbac_denied" => Of(pack, "odoo") = {},
           Told(entry)
    PROVE  PackInv'
<1>1. SameCaller /\ UNCHANGED <<allowed_mailboxes, correction>>
  BY DEF InOdoo, inputs, after, SameCaller
<1>2. /\ evidence' = pack /\ pc' = "normalize"
      /\ coverage' = [coverage EXCEPT !["odoo"] = entry]
  BY DEF Conclude
<1>3. /\ evidence' \in Packs
      /\ \A q : q # "odoo" => Of(evidence', q) = Of(evidence, q)
  BY <1>2 DEF OdooPack
<1>4. Of(evidence', "email") # {} => MailAllowed
  BY <1>3 DEF PackInv, Admitted
<1>5. "odoo" \in ProjectSources /\ pc \in OdooSteps
  BY DEF ProjectSources, InOdoo
<1>6. QED
  BY <1>1, <1>2, <1>3, <1>4, <1>5, Recorded

\* Node 8 ends complete or empty.
LEMMA CompleteKeeps ==
    ASSUME PackInv, InOdoo, NEW pack, OdooPack(pack), Complete(pack)
    PROVE  PackInv'
<1> DEFINE entry == Answered(Enabled("odoo"), Cardinality(OdooItems(pack)))
<1>1. OdooItems(pack) = Of(pack, "odoo")
  BY DEF OdooItems, Of
<1>2. /\ entry.evidence_count = Cardinality(Of(pack, "odoo"))
      /\ entry.status # "rbac_denied" /\ Told(entry)
  BY <1>1 DEF Answered, Entry, Told
<1>3. Conclude(pack, entry)
  BY DEF Complete
<1> HIDE DEF entry
<1>4. QED
  BY <1>2, <1>3, ConcludeKeeps

\* Node 8 goes on to its next read.
LEMMA ProceedKeeps ==
    ASSUME PackInv, InOdoo, NEW pack, OdooPack(pack), NEW next, NEW rest,
           next \in {"odoo_cost", "odoo_extended"}, Proceed(next, pack, rest)
    PROVE  PackInv'
<1>1. SameCaller /\ UNCHANGED <<allowed_mailboxes, correction>> /\ pc \in OdooSteps
  BY DEF InOdoo, inputs, after, SameCaller
<1>2. evidence' = pack /\ pc' = next /\ UNCHANGED coverage
  BY DEF Proceed
<1>3. /\ evidence' \in Packs
      /\ \A q : q # "odoo" => Of(evidence', q) = Of(evidence, q)
  BY <1>2 DEF OdooPack
<1>4. pc' \in OdooSteps /\ pc' # "odoo"
  BY <1>2 DEF OdooSteps
<1>5. QED
  BY <1>1, <1>2, <1>3, <1>4, ReadsOn

\* Whatever follows the cost summary.
LEMMA AfterCostKeeps ==
    ASSUME PackInv, InOdoo, NEW pack, OdooPack(pack), NEW rest, NEW cost,
           AfterCost(pack, rest, cost)
    PROVE  PackInv'
<1>1. Proceed("odoo_extended", pack, rest) \/ Complete(pack)
  BY DEF AfterCost
<1>2. QED
  BY <1>1, CompleteKeeps, ProceedKeeps

\* Whatever follows a read of the extended data.
LEMMA NextExtendedKeeps ==
    ASSUME PackInv, InOdoo, NEW pack, OdooPack(pack), NEW rest, NEW status,
           pc = "odoo_extended", NextExtended(pack, rest, status)
    PROVE  PackInv'
<1>1. Complete(pack) \/ (evidence' = pack /\ UNCHANGED <<pc, coverage>>)
  BY DEF NextExtended
<1>2. CASE Complete(pack)
  BY <1>2, CompleteKeeps
<1>3. CASE evidence' = pack /\ UNCHANGED <<pc, coverage>>
  <2>1. SameCaller /\ UNCHANGED <<allowed_mailboxes, correction>>
    BY DEF InOdoo, inputs, after, SameCaller
  <2>2. /\ evidence' \in Packs
        /\ \A q : q # "odoo" => Of(evidence', q) = Of(evidence, q)
    BY <1>3 DEF OdooPack
  <2>3. pc' = pc /\ pc \in OdooSteps /\ pc # "odoo"
    BY <1>3 DEF OdooSteps
  <2>4. QED
    BY <1>3, <2>1, <2>2, <2>3, ReadsOn
<1>4. QED
  BY <1>1, <1>2, <1>3

\* The read is repeated.
LEMMA RepeatKeeps ==
    ASSUME PackInv, InOdoo, UNCHANGED <<pc, coverage, evidence>>
    PROVE  PackInv'
<1>1. SameCaller /\ UNCHANGED <<allowed_mailboxes, correction>> /\ pc \in OdooSteps
  BY DEF InOdoo, inputs, after, SameCaller
<1>2. evidence \in Packs
  BY DEF PackInv, PackTyped
<1>3. QED
  BY <1>1, <1>2, ReadsOn

\* The project record could not be read, or not be asked for.
LEMMA UnreadKeeps ==
    ASSUME PackInv, InOdoo, pc = "odoo", NEW entry, Conclude(evidence, entry),
           entry.evidence_count = 0, Told(entry)
    PROVE  PackInv'
<1>1. Of(evidence, "odoo") = {}
  BY DEF PackInv, Staged
<1>2. Cardinality(Of(evidence, "odoo")) = 0
  BY <1>1, FS_EmptySet
<1>3. OdooPack(evidence)
  BY OdooPacks
<1>4. QED
  BY <1>1, <1>2, <1>3, ConcludeKeeps

\* Node 8, whatever each of its reads does.
LEMMA OdooActionsKeep ==
    ASSUME PackInv,
           \/ OdooDenied
           \/ ProjectAnswers \/ ProjectFails \/ ProjectTimesOut
           \/ CostAnswers \/ CostFails \/ CostTimesOut
           \/ ExtendedAnswers \/ ExtendedFails \/ ExtendedTimesOut
    PROVE  PackInv'
<1>1. OdooPack(evidence) /\ \A items \in Results("odoo") : OdooPack(evidence \o items)
  BY OdooPacks
<1>2. \A status : status \in {"error", "timeout"} =>
          LET entry == Entry(Enabled("odoo"), TRUE, status, 0)
          IN  entry.evidence_count = 0 /\ Told(entry)
  BY DEF Entry, Told
<1>3. CASE OdooDenied
  <2> DEFINE entry == Skipped(Enabled("odoo"), "rbac_denied")
  <2>1. /\ pc = "odoo" /\ UNCHANGED <<inputs, odoo, after>>
        /\ Gather("odoo", <<>>, entry, "normalize")
    BY <1>3 DEF OdooDenied
  <2>2. entry.evidence_count = 0 /\ Told(entry)
    BY DEF Skipped, Entry, Told
  <2> HIDE DEF entry
  <2>3. SameCaller /\ UNCHANGED <<allowed_mailboxes, correction>>
    BY <2>1 DEF inputs, after, SameCaller
  <2>4. evidence' = evidence /\ Of(evidence', "odoo") = {}
    BY <2>1, ConcatEmptySeq DEF Gather, PackInv, PackTyped, Packs, Staged
  <2>5. entry.evidence_count = Cardinality(Of(evidence', "odoo"))
    BY <2>2, <2>4, FS_EmptySet
  <2>6. evidence' \in Packs /\ (Of(evidence', "email") # {} => MailAllowed)
    BY <2>4 DEF PackInv, PackTyped, Admitted
  <2>7. /\ coverage' = [coverage EXCEPT !["odoo"] = entry] /\ pc' = "normalize"
        /\ pc \in OdooSteps /\ "odoo" \in ProjectSources
    BY <2>1 DEF Gather, OdooSteps, ProjectSources
  <2>8. \A q : q # "odoo" => Of(evidence', q) = Of(evidence, q)
    BY <2>4
  <2>9. QED
    BY <2>2, <2>3, <2>4, <2>5, <2>6, <2>7, <2>8, Recorded
<1>4. CASE ProjectAnswers
  <2>1. PICK d \in Took(ProjectCap), items \in Results("odoo") :
          \/ Proceed("odoo_cost", evidence \o items, left - d)
          \/ AfterCost(evidence \o items, left - d, "no_verified_analytic_account")
    BY <1>4 DEF ProjectAnswers
  <2>2. InOdoo
    BY <1>4 DEF ProjectAnswers, InOdoo, OdooSteps
  <2>3. QED
    BY <1>1, <2>1, <2>2, ProceedKeeps, AfterCostKeeps
<1>5. CASE ProjectFails
  <2>1. \/ UNCHANGED <<pc, coverage, evidence>>
        \/ Conclude(evidence, Entry(Enabled("odoo"), TRUE, "error", 0))
    BY <1>5 DEF ProjectFails
  <2>2. InOdoo /\ pc = "odoo"
    BY <1>5 DEF ProjectFails, InOdoo, OdooSteps
  <2>3. QED
    BY <1>2, <2>1, <2>2, RepeatKeeps, UnreadKeeps
<1>6. CASE ProjectTimesOut
  <2>1. Conclude(evidence, Entry(Enabled("odoo"), TRUE, "timeout", 0))
    BY <1>6 DEF ProjectTimesOut
  <2>2. InOdoo /\ pc = "odoo"
    BY <1>6 DEF ProjectTimesOut, InOdoo, OdooSteps
  <2>3. QED
    BY <1>2, <2>1, <2>2, UnreadKeeps
<1>7. CASE CostAnswers
  <2>1. PICK d \in Took(CostCap), items \in Results("odoo") :
          AfterCost(evidence \o items, left - d, "unset")
    BY <1>7 DEF CostAnswers
  <2>2. InOdoo
    BY <1>7 DEF CostAnswers, InOdoo, OdooSteps
  <2>3. QED
    BY <1>1, <2>1, <2>2, AfterCostKeeps
<1>8. CASE CostFails
  <2>1. PICK d \in Took(CostCap) :
          UNCHANGED <<pc, coverage, evidence>> \/ AfterCost(evidence, left - d, "error")
    BY <1>8 DEF CostFails
  <2>2. InOdoo
    BY <1>8 DEF CostFails, InOdoo, OdooSteps
  <2>3. QED
    BY <1>1, <2>1, <2>2, RepeatKeeps, AfterCostKeeps
<1>9. CASE CostTimesOut
  <2>1. InOdoo
    BY <1>9 DEF CostTimesOut, InOdoo, OdooSteps
  <2>2. QED
    BY <1>1, <1>9, <2>1, AfterCostKeeps DEF CostTimesOut
<1>10. CASE ExtendedAnswers
  <2>1. PICK d \in Took(ExtendedCap), items \in Results("odoo") :
          NextExtended(evidence \o items, left - d, SoFar)
    BY <1>10 DEF ExtendedAnswers
  <2>2. InOdoo /\ pc = "odoo_extended"
    BY <1>10 DEF ExtendedAnswers, InOdoo, OdooSteps
  <2>3. QED
    BY <1>1, <2>1, <2>2, NextExtendedKeeps
<1>11. CASE ExtendedFails
  <2>1. PICK d \in Took(ExtendedCap) : NextExtended(evidence, left - d, SoFar)
    BY <1>11 DEF ExtendedFails
  <2>2. InOdoo /\ pc = "odoo_extended"
    BY <1>11 DEF ExtendedFails, InOdoo, OdooSteps
  <2>3. QED
    BY <1>1, <2>1, <2>2, NextExtendedKeeps
<1>12. CASE ExtendedTimesOut
  <2>1. InOdoo /\ pc = "odoo_extended"
    BY <1>12 DEF ExtendedTimesOut, InOdoo, OdooSteps
  <2>2. QED
    BY <1>1, <1>12, <2>1, NextExtendedKeeps DEF ExtendedTimesOut
<1>13. QED
  BY <1>3, <1>4, <1>5, <1>6, <1>7, <1>8, <1>9, <1>10, <1>11, <1>12

-----------------------------------------------------------------------------
(* Nodes 9 and 11.                                                         *)
\* Deduplication adds nothing, and gives no source items it did not have.
LEMMA DeduplicatedIsPart ==
    ASSUME NEW e \in Packs
    PROVE  /\ Deduplicated(e) \in Packs
           /\ \A n \in DOMAIN Deduplicated(e) : \E w \in DOMAIN e :
                 Deduplicated(e)[n] = e[w]
<1> DEFINE b == ByKey(e)
<1>1. b \in Packs /\ \A n \in DOMAIN b : \E w \in DOMAIN e : b[n] = e[w]
  BY OnePerKey
<1> HIDE DEF b
<1>2. /\ ByTitle(b) \in Packs
      /\ \A n \in DOMAIN ByTitle(b) : \E m \in DOMAIN b : ByTitle(b)[n] = b[m]
  BY <1>1, OnePerTitle
<1>3. Deduplicated(e) = ByTitle(b)
  BY DEF Deduplicated, b
<1>4. QED
  BY <1>1, <1>2, <1>3

\* Node 9 keeps it.
LEMMA NormalizeKeepsPack ==
    ASSUME PackInv, Normalize
    PROVE  PackInv'
<1> USE DEF Early, Untried, OdooSteps, Gathered
<1>1. /\ pc = "normalize" /\ pc' = "sufficiency" /\ evidence' = Deduplicated(evidence)
      /\ UNCHANGED <<inputs, coverage, after>>
  BY DEF Normalize
<1>2. SameCaller /\ UNCHANGED <<coverage, allowed_mailboxes, correction>>
  BY <1>1 DEF inputs, after, SameCaller
<1>3. evidence \in Packs
  BY DEF PackInv, PackTyped
<1>4. /\ evidence' \in Packs
      /\ \A n \in DOMAIN evidence' : \E w \in DOMAIN evidence : evidence'[n] = evidence[w]
  BY <1>1, <1>3, DeduplicatedIsPart
<1>5. \A s : Of(evidence', s) # {} => Of(evidence, s) # {}
  BY <1>4 DEF Of
<1>6. correction # "retried" /\ Authorized /\ allowed_mailboxes = AllowedMailboxes(project)
  BY <1>1 DEF PackInv, Staged, Admitted
<1>7. PackTyped'
  BY <1>1, <1>2, <1>4 DEF PackInv, PackTyped
<1>8. Admitted'
  <2>1. Authorized' /\ (allowed_mailboxes = AllowedMailboxes(project))'
    BY <1>2, <1>6, SameAdmission
  <2>2. Of(evidence', "email") # {} => MailAllowed'
    BY <1>2, <1>5, SameAdmission DEF PackInv, Admitted
  <2>3. (Of(evidence, "email") # {} => MailAllowed)'
    BY <2>2 DEF Of
  <2>4. QED
    BY <1>1, <2>1, <2>3 DEF Admitted
<1>9. Staged'
  BY <1>1, <1>2, <1>6 DEF Staged
<1>10. Denied'
  <2>1. \A s \in ProjectSources :
           coverage'[s].status = "rbac_denied" => Of(evidence', s) = {}
    BY <1>2, <1>5, <1>6 DEF PackInv, Denied
  <2>2. QED
    BY <2>1 DEF Denied, Of
<1>11. Counted'
  BY <1>1 DEF Counted
<1>12. (\A q \in ProjectSources : Told(coverage[q]))'
  BY <1>2 DEF PackInv, Told
<1>13. RefusedGivesNothing'
  BY <1>2, <1>6, <1>10 DEF Denied, RefusedGivesNothing, Of
<1>14. QED
  BY <1>7, <1>8, <1>9, <1>10, <1>11, <1>12, <1>13 DEF PackInv

\* Self-correction asks again and keeps it.
LEMMA RefetchKeeps ==
    ASSUME PackInv, Refetch
    PROVE  PackInv'
<1> USE DEF Early, Untried, OdooSteps, Gathered
<1>1. PICK documents \in Results("sharepoint"), records \in Results("odoo") :
         /\ evidence' = evidence \o documents \o records
         /\ added' = Len(documents) + Len(records)
  BY DEF Refetch
<1>2. /\ pc = "self_correct" /\ pc' = "draft" /\ correction' = "retried"
      /\ SameCaller /\ UNCHANGED <<coverage, allowed_mailboxes>>
  BY DEF Refetch, inputs, SameCaller
<1>3. /\ evidence \in Packs /\ "sharepoint" \in Sources /\ "odoo" \in Sources
      /\ documents \in Pairs("sharepoint") /\ records \in Pairs("odoo")
  BY DEF PackInv, PackTyped, Sources, Pairs
<1> DEFINE f == evidence \o documents
<1>4. /\ f \in Packs /\ Len(documents) \in Nat
      /\ Len(f) = Len(evidence) + Len(documents)
      /\ \A i \in DOMAIN evidence : f[i] = evidence[i]
      /\ Of(f, "email") = Of(evidence, "email")
  BY <1>3, Grow
<1> HIDE DEF f
<1>5. /\ f \o records \in Packs /\ Len(records) \in Nat
      /\ Len(f \o records) = Len(f) + Len(records)
      /\ \A i \in DOMAIN f : (f \o records)[i] = f[i]
      /\ Of(f \o records, "email") = Of(f, "email")
  BY <1>3, <1>4, Grow
<1>6. evidence' = f \o records
  BY <1>1 DEF f
<1>7. Len(evidence) \in Nat /\ DOMAIN evidence = 1..Len(evidence)
      /\ DOMAIN f = 1..Len(f) /\ DOMAIN evidence' = 1..Len(evidence')
  BY <1>3, <1>4, <1>5, <1>6, PackItems
<1>8. Len(evidence') - added' = Len(evidence)
  BY <1>1, <1>4, <1>5, <1>6, <1>7
<1>9. \A i \in DOMAIN evidence : i \in DOMAIN f /\ evidence'[i] = evidence[i]
  BY <1>4, <1>5, <1>6, <1>7
<1>10. Authorized /\ allowed_mailboxes = AllowedMailboxes(project)
       /\ correction # "retried"
  BY <1>2 DEF PackInv, Staged, Admitted
<1>11. PackTyped'
  BY <1>2, <1>5, <1>6 DEF PackInv, PackTyped
<1>12. Admitted'
  <2>1. Authorized' /\ (allowed_mailboxes = AllowedMailboxes(project))'
    BY <1>2, <1>10, SameAdmission
  <2>2. Of(evidence', "email") # {} => MailAllowed'
    BY <1>2, <1>4, <1>5, <1>6, SameAdmission DEF PackInv, Admitted
  <2>3. (Of(evidence, "email") # {} => MailAllowed)'
    BY <2>2 DEF Of
  <2>4. QED
    BY <1>2, <2>1, <2>3 DEF Admitted
<1>13. Staged'
  BY <1>2 DEF Staged
<1>14. Denied'
  BY <1>2 DEF Denied
<1>15. Counted'
  BY <1>2 DEF Counted
<1>16. (\A q \in ProjectSources : Told(coverage[q]))'
  BY <1>2 DEF PackInv, Told
<1>17. RefusedGivesNothing'
  <2> SUFFICES ASSUME NEW s \in ProjectSources, coverage'[s].status = "rbac_denied",
                      NEW i \in DOMAIN evidence', evidence'[i].source = s
               PROVE  i > Len(evidence') - added'
    BY <1>2 DEF RefusedGivesNothing
  <2>1. Of(evidence, s) = {}
    BY <1>2, <1>10 DEF PackInv, Denied
  <2>2. i \notin DOMAIN evidence
    BY <1>9, <2>1 DEF Of
  <2>3. QED
    BY <1>7, <1>8, <2>2
<1>18. QED
  BY <1>11, <1>12, <1>13, <1>14, <1>15, <1>16, <1>17 DEF PackInv

\* Every step keeps it.
LEMMA NextPack ==
    ASSUME PackInv, [Next]_vars
    PROVE  PackInv'
<1>1. CASE UNCHANGED vars
  BY <1>1 DEF vars, inputs, after, PackInv, PackTyped, Admitted, Staged, Denied, Counted,
       RefusedGivesNothing, Of, Authorized, MailAllowed, ListedCaller, ByGroup, Enabled, Told
<1>2. CASE Next
  BY <1>2, IdleActionsKeep, SearchesKeep, OwnCloudKeeps, OdooActionsKeep,
     NormalizeKeepsPack, RefetchKeeps DEF Next
<1>3. QED
  BY <1>1, <1>2

\* It holds in every state.
LEMMA PackInvariant == Spec => []PackInv
BY InitPack, NextPack, PTL DEF Spec

-----------------------------------------------------------------------------
\* When the four nodes are done every enabled source was asked or its refusal
\* is on record, and coverage counts what is in the pack (coverage.record).
THEOREM CoverageAlwaysTrue == Spec => []CoverageIsTrue
<1>1. ASSUME PackInv PROVE CoverageIsTrue
  <2>1. NotAttempted(coverage) = {}
    BY <1>1 DEF PackInv, Told, NotAttempted, EnabledIn
  <2>2. ASSUME pc = "normalize", NEW s \in ProjectSources
        PROVE  coverage[s].evidence_count = CountOf(s)
    <3>1. CountOf(s) = Cardinality(Of(evidence, s))
      BY DEF CountOf, Of
    <3>2. QED
      BY <1>1, <2>2, <3>1 DEF PackInv, Counted, ProjectSources
  <2>3. QED
    BY <2>1, <2>2 DEF CoverageIsTrue
<1>2. QED
  BY PackInvariant, <1>1, PTL

\* A refused source gives no evidence but what self-correction adds (nodes 7,
\* 8 and 11).
THEOREM RefusedSourcesGiveNothing == Spec => []RefusedGivesNothing
<1>1. PackInv => RefusedGivesNothing
  BY DEF PackInv
<1>2. QED
  BY PackInvariant, <1>1, PTL

\* Only a caller node 1 lets in has evidence, and mail is the group's or that
\* of a listed caller (node_01_auth, node_07_email).
THEOREM OnlyTheAllowedIsRead == Spec => []OnlyAllowedIsRead
<1>1. ASSUME PackInv PROVE OnlyAllowedIsRead
  <2>1. CountOf("email") > 0 => Of(evidence, "email") # {}
    <3>1. CountOf("email") = Cardinality(Of(evidence, "email"))
      BY DEF CountOf, Of
    <3>2. Of(evidence, "email") = {} => Cardinality(Of(evidence, "email")) = 0
      BY FS_EmptySet
    <3>3. QED
      BY <3>1, <3>2
  <2>2. QED
    BY <1>1, <2>1
       DEF PackInv, Admitted, Authorized, MailAllowed, ByGroup, OnlyAllowedIsRead
<1>2. QED
  BY PackInvariant, <1>1, PTL

\* What NormalizeKeepsBest says of the pack before and after.
KeepsBest(before, then) ==
    /\ \A i \in DOMAIN before : \E w \in DOMAIN before, n \in DOMAIN then :
        /\ before[w].key = before[i].key
        /\ Priority[before[w].source] >= Priority[before[i].source]
        /\ \/ then[n] = before[w]
           \/ /\ then[n].source = before[w].source
              /\ then[n].title = before[w].title
              /\ then[n].title # NoTitle
    /\ \A m, n \in DOMAIN then : m # n => then[m].key # then[n].key

\* Node 9's two passes keep, between them, the best of every twin.
LEMMA DeduplicatedKeepsBest ==
    ASSUME NEW e \in Packs
    PROVE  KeepsBest(e, Deduplicated(e))
<1> DEFINE b == ByKey(e)
           t == ByTitle(b)
           at == Nth(FirstOfTitle(b))
<1>1. /\ b \in Packs
      /\ \A n \in DOMAIN b : \E w \in DOMAIN e :
            /\ b[n] = e[w]
            /\ \A j \in DOMAIN e : e[j].key = e[w].key =>
                  Priority[e[w].source] >= Priority[e[j].source]
      /\ \A m, n \in DOMAIN b : m # n => b[m].key # b[n].key
      /\ \A i \in DOMAIN e : \E n \in DOMAIN b : b[n].key = e[i].key
  BY OnePerKey
<1>2. Deduplicated(e) = t
  BY DEF Deduplicated
<1> HIDE DEF b
<1>3. /\ \A n \in DOMAIN t : at[n] \in DOMAIN b /\ t[n] = b[at[n]]
      /\ \A m, n \in DOMAIN t : m # n => at[m] # at[n]
      /\ \A i \in DOMAIN b : \E n \in DOMAIN t :
            \/ t[n] = b[i]
            \/ /\ t[n].source = b[i].source /\ t[n].title = b[i].title
               /\ b[i].title # NoTitle
  BY <1>1, OnePerTitle
<1> HIDE DEF t, at
<1>4. ASSUME NEW i \in DOMAIN e
      PROVE  \E w \in DOMAIN e, n \in DOMAIN t :
                /\ e[w].key = e[i].key
                /\ Priority[e[w].source] >= Priority[e[i].source]
                /\ \/ t[n] = e[w]
                   \/ /\ t[n].source = e[w].source
                      /\ t[n].title = e[w].title
                      /\ t[n].title # NoTitle
  <2>1. PICK k \in DOMAIN b : b[k].key = e[i].key
    BY <1>1
  <2>2. PICK w \in DOMAIN e :
           /\ b[k] = e[w]
           /\ \A j \in DOMAIN e : e[j].key = e[w].key =>
                 Priority[e[w].source] >= Priority[e[j].source]
    BY <1>1
  <2>3. PICK n \in DOMAIN t :
           \/ t[n] = b[k]
           \/ /\ t[n].source = b[k].source /\ t[n].title = b[k].title
              /\ b[k].title # NoTitle
    BY <1>3
  <2>4. e[w].key = e[i].key
    BY <2>1, <2>2
  <2>5. Priority[e[w].source] >= Priority[e[i].source]
    BY <2>2, <2>4
  <2>6. QED
    BY <2>2, <2>3, <2>4, <2>5
<1>5. ASSUME NEW m \in DOMAIN t, NEW n \in DOMAIN t, m # n
      PROVE  t[m].key # t[n].key
  BY <1>1, <1>3, <1>5
<1>6. QED
  BY <1>2, <1>4, <1>5 DEF KeepsBest

\* At node 9 nothing else can happen.
LEMMA OnlyNormalize ==
    ASSUME Next, pc = "normalize"
    PROVE  Normalize
<1>1. ~(Authorize \/ Refuse \/ Plan \/ PlanRaises \/ OwnCloud)
  BY DEF Authorize, Refuse, Plan, PlanRaises, OwnCloud, Planning
<1>2. ~(SharePointFinds \/ SharePointNextTerm \/ SharePointFails)
  BY DEF SharePointFinds, SharePointNextTerm, SharePointFails
<1>3. ~(EmailSkipped \/ EmailFinds \/ EmailFails \/ OdooDenied)
  BY DEF EmailSkipped, EmailFinds, EmailFails, OdooDenied
<1>4. ~(ProjectAnswers \/ ProjectFails \/ ProjectTimesOut)
  BY DEF ProjectAnswers, ProjectFails, ProjectTimesOut
<1>5. ~(CostAnswers \/ CostFails \/ CostTimesOut)
  BY DEF CostAnswers, CostFails, CostTimesOut
<1>6. ~(ExtendedAnswers \/ ExtendedFails \/ ExtendedTimesOut)
  BY DEF ExtendedAnswers, ExtendedFails, ExtendedTimesOut
<1>7. ~(Sufficiency \/ NotNeeded \/ Stop \/ Refetch \/ ModelRaises)
  BY DEF Sufficiency, NotNeeded, Stop, Refetch, ModelRaises
<1>8. QED
  BY <1>1, <1>2, <1>3, <1>4, <1>5, <1>6, <1>7 DEF Next

\* What node 9 removes has a better or equal twin that stays, and no two items
\* that stay share a key, for every pack (node_09_normalize).
THEOREM NormalizingKeepsBest == Spec => NormalizeKeepsBest
<1> DEFINE Kept9 == pc = "normalize" => KeepsBest(evidence, evidence')
<1>1. ASSUME PackInv, Next PROVE Kept9
  BY <1>1, OnlyNormalize, DeduplicatedKeepsBest DEF Normalize, PackInv, PackTyped
<1>2. ASSUME PackInv, [Next]_vars PROVE [Kept9]_vars
  BY <1>1, <1>2
<1>3. [][Kept9]_vars <=> NormalizeKeepsBest
  BY DEF KeepsBest, NormalizeKeepsBest
<1>4. QED
  BY InitPack, NextPack, <1>2, <1>3, PTL DEF Spec
=============================================================================
