-------------------------------- MODULE Sums --------------------------------
(***************************************************************************)
(* Sums of a function over a finite set, as SumFunctionOnSet computes them: *)
(* recursively, in the order CHOOSE picks.  What the other modules need is *)
(* that the order does not matter and that a sum follows its terms.        *)
(***************************************************************************)
EXTENDS Functions, FiniteSets, FiniteSetTheorems, WellFoundedInduction, TLAPS

Pick(s) == CHOOSE x \in s : TRUE

(* g is the table of the partial sums of f on the subsets of S.            *)
IsTable(g, f, S) ==
  g = [s \in SUBSET S |-> IF s = {} THEN 0 ELSE f[Pick(s)] + g[s \ {Pick(s)}]]

(* The sum is the last entry of the table.                                 *)
LEMMA SumIsChosen ==
  ASSUME NEW f, NEW S
  PROVE  SumFunctionOnSet(f, S) = (CHOOSE g : IsTable(g, f, S))[S]
BY DEF SumFunctionOnSet, FoldFunctionOnSet, MapThenFoldSet, IsTable, Pick

(* A nonempty set of subsets of a finite set has a minimal member.         *)
LEMMA MinimalSubset ==
  ASSUME NEW S, IsFiniteSet(S), NEW T \in SUBSET (SUBSET S), T # {}
  PROVE  \E s \in T : \A t \in T : ~(t \subseteq s /\ t # s)
<1>1. T \subseteq FiniteSubsetsOf(S)
  BY FS_Subset DEF FiniteSubsetsOf
<1>2. PICK s \in T : \A t \in T : <<t, s>> \notin StrictSubsetOrdering(S)
  BY <1>1, FS_StrictSubsetOrderingWellFounded, WFMin
<1>3. QED
  BY <1>2 DEF StrictSubsetOrdering

(* Of a nonempty set the recursion takes a member.                         *)
LEMMA PickIn ==
  ASSUME NEW s, s # {}
  PROVE  Pick(s) \in s
BY DEF Pick

(* A function has one table on a finite set.                               *)
LEMMA TableUnique ==
  ASSUME NEW f, NEW S, IsFiniteSet(S), NEW g, NEW h, IsTable(g, f, S), IsTable(h, f, S)
  PROVE  g = h
<1> DEFINE T == {s \in SUBSET S : g[s] # h[s]}
<1>0. T \in SUBSET (SUBSET S)
  OBVIOUS
<1>1. ASSUME T # {} PROVE FALSE
  <2>1. PICK s \in T : \A t \in T : ~(t \subseteq s /\ t # s)
    <3> HIDE DEF T
    <3>1. QED
      BY <1>0, <1>1, MinimalSubset
  <2>2. g[s] = IF s = {} THEN 0 ELSE f[Pick(s)] + g[s \ {Pick(s)}]
    BY DEF IsTable
  <2>3. h[s] = IF s = {} THEN 0 ELSE f[Pick(s)] + h[s \ {Pick(s)}]
    BY DEF IsTable
  <2>4. s # {} /\ g[s \ {Pick(s)}] # h[s \ {Pick(s)}]
    BY <2>2, <2>3
  <2>5. s \ {Pick(s)} \in T
    BY <2>4
  <2>6. Pick(s) \in s
    BY <2>4, PickIn
  <2>7. QED
    BY <2>1, <2>5, <2>6
<1>2. \A s \in SUBSET S : g[s] = h[s]
  BY <1>1
<1>3. DOMAIN g = SUBSET S /\ DOMAIN h = SUBSET S
  BY DEF IsTable
<1>4. g = [s \in SUBSET S |-> g[s]] /\ h = [s \in SUBSET S |-> h[s]]
  BY DEF IsTable
<1>5. QED
  BY <1>2, <1>4

(* The table of a set holds those of its subsets.                          *)
LEMMA TableRestricts ==
  ASSUME NEW f, NEW S, NEW g, IsTable(g, f, S), NEW U \in SUBSET S
  PROVE  IsTable([s \in SUBSET U |-> g[s]], f, U)
<1> DEFINE h == [s \in SUBSET U |-> g[s]]
           body(s) == IF s = {} THEN 0 ELSE f[Pick(s)] + h[s \ {Pick(s)}]
<1>1. ASSUME NEW s \in SUBSET U
      PROVE  h[s] = body(s)
  <2>1. s \in SUBSET S /\ s \ {Pick(s)} \in SUBSET U
    OBVIOUS
  <2>2. g[s] = IF s = {} THEN 0 ELSE f[Pick(s)] + g[s \ {Pick(s)}]
    BY <2>1 DEF IsTable
  <2>3. QED
    BY <2>1, <2>2
<1>2. h = [s \in SUBSET U |-> h[s]]
  OBVIOUS
<1>3. [s \in SUBSET U |-> h[s]] = [s \in SUBSET U |-> body(s)]
  BY <1>1
<1>4. QED
  BY <1>2, <1>3 DEF IsTable

(* Where there is a table, the sum is its last entry.                      *)
LEMMA SumOfTable ==
  ASSUME NEW f, NEW S, IsFiniteSet(S), NEW g, IsTable(g, f, S), NEW U \in SUBSET S
  PROVE  SumFunctionOnSet(f, U) = g[U]
<1> DEFINE h == [s \in SUBSET U |-> g[s]]
<1>1. IsTable(h, f, U) /\ IsFiniteSet(U)
  <2>1. IsFiniteSet(U)
    BY FS_Subset
  <2>2. QED
    BY <2>1, TableRestricts
<1>2. IsTable(CHOOSE t : IsTable(t, f, U), f, U)
  BY <1>1
<1>3. h = CHOOSE t : IsTable(t, f, U)
  <2> HIDE DEF h
  <2>1. QED
    BY <1>1, <1>2, TableUnique
<1>4. QED
  BY <1>3, SumIsChosen

(* Every finite set has a table.                                           *)
LEMMA TableExists ==
  ASSUME NEW f, NEW S, IsFiniteSet(S)
  PROVE  \E g : IsTable(g, f, S)
<1> DEFINE T == {U \in SUBSET S : ~\E g : IsTable(g, f, U)}
<1>0. T \in SUBSET (SUBSET S)
  OBVIOUS
<1>1. ASSUME T # {} PROVE FALSE
  <2>1. PICK U \in T : \A t \in T : ~(t \subseteq U /\ t # U)
    <3> HIDE DEF T
    <3>1. QED
      BY <1>0, <1>1, MinimalSubset
  <2>2. IsFiniteSet(U) /\ U \in SUBSET S
    BY FS_Subset
  <2> DEFINE body(s) == IF s = {} THEN 0 ELSE f[Pick(s)] + SumFunctionOnSet(f, s \ {Pick(s)})
             g == [s \in SUBSET U |-> body(s)]
             next(s) == IF s = {} THEN 0 ELSE f[Pick(s)] + g[s \ {Pick(s)}]
  <2>3. ASSUME NEW s \in SUBSET U, s # U
        PROVE  SumFunctionOnSet(f, s) = body(s)
    <3>1. IsFiniteSet(s) /\ s \in SUBSET S
      BY <2>2, FS_Subset
    <3>2. PICK h : IsTable(h, f, s)
      BY <2>1, <2>3, <3>1
    <3>3. h[s] = IF s = {} THEN 0 ELSE f[Pick(s)] + h[s \ {Pick(s)}]
      BY <3>2 DEF IsTable
    <3>4. SumFunctionOnSet(f, s) = h[s]
      BY <3>1, <3>2, SumOfTable
    <3>5. s \ {Pick(s)} \in SUBSET s
      OBVIOUS
    <3>6. SumFunctionOnSet(f, s \ {Pick(s)}) = h[s \ {Pick(s)}]
      BY <3>1, <3>2, <3>5, SumOfTable
    <3>7. QED
      BY <3>3, <3>4, <3>6
  <2>4. ASSUME NEW s \in SUBSET U
        PROVE  body(s) = next(s)
    <3>1. CASE s = {}
      BY <3>1
    <3>2. CASE s # {}
      <4>1. Pick(s) \in s
        BY <3>2, PickIn
      <4>2. s \ {Pick(s)} \in SUBSET U /\ s \ {Pick(s)} # U
        BY <4>1
      <4>3. g[s \ {Pick(s)}] = SumFunctionOnSet(f, s \ {Pick(s)})
        BY <2>3, <4>2
      <4>4. QED
        BY <3>2, <4>3
    <3>3. QED
      BY <3>1, <3>2
  <2>5. g = [s \in SUBSET U |-> next(s)]
    BY <2>4
  <2>6. IsTable(g, f, U)
    BY <2>5 DEF IsTable
  <2>7. QED
    BY <2>6
<1>2. QED
  BY <1>1

-----------------------------------------------------------------------------
(* What the sums are.                                                      *)

(* One turn of the recursion.                                              *)
LEMMA SumTurn ==
  ASSUME NEW f, NEW S, IsFiniteSet(S)
  PROVE  SumFunctionOnSet(f, S) =
           IF S = {} THEN 0 ELSE f[Pick(S)] + SumFunctionOnSet(f, S \ {Pick(S)})
<1>1. PICK g : IsTable(g, f, S)
  BY TableExists
<1>2. g[S] = IF S = {} THEN 0 ELSE f[Pick(S)] + g[S \ {Pick(S)}]
  BY <1>1 DEF IsTable
<1>3. S \ {Pick(S)} \in SUBSET S
  OBVIOUS
<1>4. QED
  BY <1>1, <1>2, <1>3, SumOfTable

(* An empty sum is zero.                                                   *)
LEMMA SumEmpty == ASSUME NEW f PROVE SumFunctionOnSet(f, {}) = 0
BY SumTurn, FS_EmptySet

(* A sum of zeros is zero.                                                 *)
LEMMA SumZero ==
  ASSUME NEW f, NEW S, IsFiniteSet(S), \A x \in S : f[x] = 0
  PROVE  SumFunctionOnSet(f, S) = 0
<1> DEFINE T == {U \in SUBSET S : SumFunctionOnSet(f, U) # 0}
<1>0. T \in SUBSET (SUBSET S)
  OBVIOUS
<1>1. ASSUME T # {} PROVE FALSE
  <2>1. PICK U \in T : \A t \in T : ~(t \subseteq U /\ t # U)
    <3> HIDE DEF T
    <3>1. QED
      BY <1>0, <1>1, MinimalSubset
  <2>2. IsFiniteSet(U) /\ U \in SUBSET S
    BY FS_Subset
  <2>3. U # {}
    BY SumEmpty
  <2>4. Pick(U) \in U /\ f[Pick(U)] = 0
    BY <2>2, <2>3, PickIn
  <2>5. U \ {Pick(U)} \notin T /\ U \ {Pick(U)} \in SUBSET S
    BY <2>1, <2>2, <2>4
  <2>6. SumFunctionOnSet(f, U) = f[Pick(U)] + SumFunctionOnSet(f, U \ {Pick(U)})
    BY <2>2, <2>3, SumTurn
  <2>7. SumFunctionOnSet(f, U) = 0
    BY <2>4, <2>5, <2>6
  <2>8. QED
    BY <2>7
<1>2. QED
  BY <1>1

(* A sum of integers is an integer.                                        *)
LEMMA SumType ==
  ASSUME NEW f, NEW S, IsFiniteSet(S), \A x \in S : f[x] \in Int
  PROVE  SumFunctionOnSet(f, S) \in Int
<1> DEFINE T == {U \in SUBSET S : SumFunctionOnSet(f, U) \notin Int}
<1>0. T \in SUBSET (SUBSET S)
  OBVIOUS
<1>1. ASSUME T # {} PROVE FALSE
  <2>1. PICK U \in T : \A t \in T : ~(t \subseteq U /\ t # U)
    <3> HIDE DEF T
    <3>1. QED
      BY <1>0, <1>1, MinimalSubset
  <2>2. IsFiniteSet(U) /\ U \in SUBSET S
    BY FS_Subset
  <2>3. U # {}
    BY SumEmpty
  <2>4. Pick(U) \in U /\ f[Pick(U)] \in Int
    BY <2>2, <2>3, PickIn
  <2>5. SumFunctionOnSet(f, U \ {Pick(U)}) \in Int
    BY <2>1, <2>2, <2>4
  <2>6. SumFunctionOnSet(f, U) = f[Pick(U)] + SumFunctionOnSet(f, U \ {Pick(U)})
    BY <2>2, <2>3, SumTurn
  <2>7. QED
    BY <2>4, <2>5, <2>6
<1>2. QED
  BY <1>1

(* Any term can be taken out first.                                        *)
LEMMA SumRemove ==
  ASSUME NEW f, NEW S, IsFiniteSet(S), \A x \in S : f[x] \in Int, NEW x \in S
  PROVE  SumFunctionOnSet(f, S) = f[x] + SumFunctionOnSet(f, S \ {x})
<1> DEFINE Fails(U) == \E y \in U : SumFunctionOnSet(f, U) # f[y] + SumFunctionOnSet(f, U \ {y})
           T == {U \in SUBSET S : Fails(U)}
<1>0. T \in SUBSET (SUBSET S)
  OBVIOUS
<1>1. ASSUME T # {} PROVE FALSE
  <2>1. PICK U \in T : \A t \in T : ~(t \subseteq U /\ t # U)
    <3> HIDE DEF T
    <3>1. QED
      BY <1>0, <1>1, MinimalSubset
  <2>2. IsFiniteSet(U) /\ U \in SUBSET S
    BY FS_Subset
  <2>3. PICK y \in U : SumFunctionOnSet(f, U) # f[y] + SumFunctionOnSet(f, U \ {y})
    OBVIOUS
  <2> DEFINE p == Pick(U)
  <2>4. p \in U
    BY <2>3, PickIn
  <2>5. SumFunctionOnSet(f, U) = f[p] + SumFunctionOnSet(f, U \ {p})
    BY <2>2, <2>3, SumTurn
  <2>6. p # y
    BY <2>3, <2>5
  <2> HIDE DEF p
  <2>7. U \ {p} \notin T /\ U \ {p} \in SUBSET S /\ U \ {y} \in SUBSET S /\ U \ {y} \notin T
    BY <2>1, <2>2, <2>4, <2>3
  <2>8. SumFunctionOnSet(f, U \ {p}) = f[y] + SumFunctionOnSet(f, (U \ {p}) \ {y})
    BY <2>3, <2>6, <2>7
  <2>9. SumFunctionOnSet(f, U \ {y}) = f[p] + SumFunctionOnSet(f, (U \ {y}) \ {p})
    BY <2>4, <2>6, <2>7
  <2>10. (U \ {p}) \ {y} = (U \ {y}) \ {p}
    OBVIOUS
  <2>11. SumFunctionOnSet(f, (U \ {y}) \ {p}) \in Int
    <3>1. IsFiniteSet((U \ {y}) \ {p})
      BY <2>2, FS_RemoveElement
    <3>2. QED
      BY <2>2, <3>1, SumType
  <2>12. f[p] \in Int /\ f[y] \in Int
    BY <2>2, <2>3, <2>4
  <2> DEFINE rest == SumFunctionOnSet(f, (U \ {y}) \ {p})
  <2>13. SumFunctionOnSet(f, U \ {p}) = f[y] + rest /\ SumFunctionOnSet(f, U \ {y}) = f[p] + rest
    BY <2>8, <2>9, <2>10
  <2>14. rest \in Int
    BY <2>11
  <2>15. f[p] + (f[y] + rest) = f[y] + (f[p] + rest)
    <3> HIDE DEF rest
    <3>1. QED
      BY <2>12, <2>14
  <2>16. QED
    BY <2>3, <2>5, <2>13, <2>15
<1>2. QED
  BY <1>1

(* A sum depends on the values of its terms alone.                         *)
LEMMA SumCongruent ==
  ASSUME NEW f, NEW g, NEW S, IsFiniteSet(S), \A x \in S : f[x] = g[x]
  PROVE  SumFunctionOnSet(f, S) = SumFunctionOnSet(g, S)
<1> DEFINE T == {U \in SUBSET S : SumFunctionOnSet(f, U) # SumFunctionOnSet(g, U)}
<1>0. T \in SUBSET (SUBSET S)
  OBVIOUS
<1>1. ASSUME T # {} PROVE FALSE
  <2>1. PICK U \in T : \A t \in T : ~(t \subseteq U /\ t # U)
    <3> HIDE DEF T
    <3>1. QED
      BY <1>0, <1>1, MinimalSubset
  <2>2. IsFiniteSet(U) /\ U \in SUBSET S
    BY FS_Subset
  <2>3. U # {}
    BY SumEmpty
  <2>4. Pick(U) \in U
    BY <2>3, PickIn
  <2>5. U \ {Pick(U)} \notin T /\ U \ {Pick(U)} \in SUBSET S
    BY <2>1, <2>2, <2>4
  <2>6. QED
    BY <2>2, <2>3, <2>4, <2>5, SumTurn
<1>2. QED
  BY <1>1

(* Terms that are no larger have a sum that is no larger.                  *)
LEMMA SumMonotone ==
  ASSUME NEW f, NEW g, NEW S, IsFiniteSet(S),
         \A x \in S : f[x] \in Int /\ g[x] \in Int /\ f[x] <= g[x]
  PROVE  SumFunctionOnSet(f, S) <= SumFunctionOnSet(g, S)
<1> DEFINE T == {U \in SUBSET S : ~(SumFunctionOnSet(f, U) <= SumFunctionOnSet(g, U))}
<1>0. T \in SUBSET (SUBSET S)
  OBVIOUS
<1>1. ASSUME T # {} PROVE FALSE
  <2>1. PICK U \in T : \A t \in T : ~(t \subseteq U /\ t # U)
    <3> HIDE DEF T
    <3>1. QED
      BY <1>0, <1>1, MinimalSubset
  <2>2. IsFiniteSet(U) /\ U \in SUBSET S
    BY FS_Subset
  <2>3. U # {}
    <3>1. SumFunctionOnSet(f, {}) = 0 /\ SumFunctionOnSet(g, {}) = 0
      BY SumEmpty
    <3>2. {} \notin T
      BY <3>1
    <3> HIDE DEF T
    <3>3. QED
      BY <2>1, <3>2
  <2> DEFINE x == Pick(U)
             V == U \ {x}
  <2>4. x \in U
    BY <2>3, PickIn
  <2>5. SumFunctionOnSet(f, U) = f[x] + SumFunctionOnSet(f, V)
    BY <2>2, <2>3, SumTurn
  <2>6. SumFunctionOnSet(g, U) = g[x] + SumFunctionOnSet(g, V)
    BY <2>2, <2>3, SumTurn
  <2>7. V \in SUBSET S /\ IsFiniteSet(V) /\ V \notin T
    BY <2>1, <2>2, <2>4, FS_Subset
  <2>8. SumFunctionOnSet(f, V) \in Int /\ SumFunctionOnSet(g, V) \in Int
    BY <2>7, SumType
  <2>9. SumFunctionOnSet(f, V) <= SumFunctionOnSet(g, V)
    BY <2>7
  <2>10. f[x] \in Int /\ g[x] \in Int /\ f[x] <= g[x]
    BY <2>2, <2>4
  <2> HIDE DEF x, V
  <2>11. SumFunctionOnSet(f, U) <= SumFunctionOnSet(g, U)
    BY <2>5, <2>6, <2>8, <2>9, <2>10
  <2>12. QED
    BY <2>1, <2>11
<1>2. QED
  BY <1>1

(* When one term changes, the sum changes by as much.                      *)
LEMMA SumUpdate ==
  ASSUME NEW f, NEW g, NEW S, IsFiniteSet(S), NEW x \in S,
         \A y \in S : f[y] \in Int /\ g[y] \in Int,
         \A y \in S \ {x} : f[y] = g[y]
  PROVE  SumFunctionOnSet(g, S) = SumFunctionOnSet(f, S) + g[x] - f[x]
<1>1. IsFiniteSet(S \ {x})
  BY FS_RemoveElement
<1>2. SumFunctionOnSet(f, S \ {x}) = SumFunctionOnSet(g, S \ {x})
  BY <1>1, SumCongruent
<1>3. SumFunctionOnSet(f, S \ {x}) \in Int
  BY <1>1, SumType
<1>4. QED
  BY <1>2, <1>3, SumRemove

(* A set that gains a member gains its term.                               *)
LEMMA SumAdd ==
  ASSUME NEW f, NEW S, IsFiniteSet(S), NEW x, x \notin S,
         f[x] \in Int, \A y \in S : f[y] \in Int
  PROVE  SumFunctionOnSet(f, S \cup {x}) = SumFunctionOnSet(f, S) + f[x]
<1>1. IsFiniteSet(S \cup {x}) /\ (S \cup {x}) \ {x} = S
  BY FS_AddElement
<1>2. SumFunctionOnSet(f, S) \in Int
  BY SumType
<1>3. SumFunctionOnSet(f, S \cup {x}) = f[x] + SumFunctionOnSet(f, (S \cup {x}) \ {x})
  <2>1. x \in S \cup {x} /\ \A y \in S \cup {x} : f[y] \in Int
    OBVIOUS
  <2>2. QED
    BY <1>1, <2>1, SumRemove
<1>4. SumFunctionOnSet(f, S \cup {x}) = f[x] + SumFunctionOnSet(f, S)
  BY <1>1, <1>3
<1>5. QED
  BY <1>2, <1>4

(* The sum over two sets with nothing in common is that of their sums.      *)
LEMMA SumUnion ==
  ASSUME NEW f, NEW S, NEW R, IsFiniteSet(S), IsFiniteSet(R), S \cap R = {},
         \A x \in S \cup R : f[x] \in Int
  PROVE  SumFunctionOnSet(f, S \cup R) = SumFunctionOnSet(f, S) + SumFunctionOnSet(f, R)
<1> DEFINE Fails(U) == SumFunctionOnSet(f, S \cup U) # SumFunctionOnSet(f, S) + SumFunctionOnSet(f, U)
           T == {U \in SUBSET R : Fails(U)}
<1>0. T \in SUBSET (SUBSET R)
  OBVIOUS
<1>1. ASSUME T # {} PROVE FALSE
  <2>1. PICK U \in T : \A t \in T : ~(t \subseteq U /\ t # U)
    <3> HIDE DEF T
    <3>1. QED
      BY <1>0, <1>1, MinimalSubset
  <2>2. U \in SUBSET R /\ IsFiniteSet(U) /\ IsFiniteSet(S \cup U) /\ Fails(U)
    BY FS_Subset, FS_Union
  <2>3. SumFunctionOnSet(f, S) \in Int /\ SumFunctionOnSet(f, U) \in Int
    BY <2>2, SumType
  <2>4. CASE U = {}
    <3>1. S \cup U = S /\ SumFunctionOnSet(f, U) = 0
      BY <2>4, SumEmpty
    <3> DEFINE s == SumFunctionOnSet(f, S)
    <3>2. s \in Int /\ SumFunctionOnSet(f, S \cup U) = s
      BY <2>3, <3>1
    <3>3. SumFunctionOnSet(f, S \cup U) # s + 0
      BY <2>2, <3>1
    <3> HIDE DEF s
    <3>4. QED
      BY <3>2, <3>3
  <2>5. CASE U # {}
    <3>1. PICK x \in U : TRUE
      BY <2>5
    <3>2. U \ {x} \in SUBSET R /\ ~Fails(U \ {x}) /\ IsFiniteSet(U \ {x})
      <4>1. U \ {x} \in SUBSET R /\ U \ {x} \subseteq U /\ U \ {x} # U
        BY <2>2, <3>1
      <4>2. ~Fails(U \ {x})
        <5> HIDE DEF Fails
        <5>1. QED
          BY <2>1, <4>1
      <4>3. IsFiniteSet(U \ {x})
        BY <2>2, FS_RemoveElement
      <4>4. QED
        BY <4>1, <4>2, <4>3
    <3>3. (S \cup U) \ {x} = S \cup (U \ {x})
      BY <2>2
    <3>4. SumFunctionOnSet(f, S \cup U) = f[x] + SumFunctionOnSet(f, (S \cup U) \ {x})
      <4>1. x \in S \cup U /\ \A y \in S \cup U : f[y] \in Int
        BY <2>2
      <4>2. QED
        BY <2>2, <4>1, SumRemove
    <3>5. SumFunctionOnSet(f, U) = f[x] + SumFunctionOnSet(f, U \ {x})
      <4>1. \A y \in U : f[y] \in Int
        BY <2>2
      <4>2. QED
        BY <2>2, <4>1, SumRemove
    <3>6. SumFunctionOnSet(f, U \ {x}) \in Int /\ f[x] \in Int
      <4>1. \A y \in U \ {x} : f[y] \in Int
        BY <2>2
      <4>2. QED
        BY <2>2, <3>2, <4>1, SumType
    <3> DEFINE s == SumFunctionOnSet(f, S)
               r == SumFunctionOnSet(f, U \ {x})
    <3>7. SumFunctionOnSet(f, S \cup U) = f[x] + (s + r)
      BY <3>2, <3>3, <3>4
    <3>8. SumFunctionOnSet(f, S \cup U) # s + (f[x] + r)
      BY <2>2, <3>5
    <3>9. s \in Int /\ r \in Int
      BY <2>3, <3>6
    <3> HIDE DEF s, r
    <3>10. QED
      BY <3>6, <3>7, <3>8, <3>9
  <2>6. QED
    BY <2>4, <2>5
<1>2. ~Fails(R)
  BY <1>1
<1>3. QED
  BY <1>2

(* A sum of natural numbers is one ...                                      *)
LEMMA SumNat ==
  ASSUME NEW f, NEW S, IsFiniteSet(S), \A x \in S : f[x] \in Nat
  PROVE  SumFunctionOnSet(f, S) \in Nat
<1> DEFINE z == [x \in S |-> 0]
<1>1. SumFunctionOnSet(z, S) = 0
  BY SumZero
<1>2. SumFunctionOnSet(z, S) <= SumFunctionOnSet(f, S)
  <2>1. \A x \in S : f[x] \in Int /\ z[x] \in Int /\ z[x] <= f[x]
    OBVIOUS
  <2> HIDE DEF z
  <2>2. QED
    BY <2>1, SumMonotone
<1>3. SumFunctionOnSet(f, S) \in Int
  BY SumType
<1>4. QED
  BY <1>1, <1>2, <1>3

(* ... and part of it is not more, where the terms are the same.            *)
LEMMA SumSubset ==
  ASSUME NEW f, NEW g, NEW S, NEW U \in SUBSET S, IsFiniteSet(S),
         \A x \in S : f[x] \in Nat, \A x \in U : g[x] = f[x]
  PROVE  SumFunctionOnSet(g, U) <= SumFunctionOnSet(f, S)
<1>1. IsFiniteSet(U) /\ IsFiniteSet(S \ U) /\ U \cup (S \ U) = S /\ U \cap (S \ U) = {}
  BY FS_Subset
<1>2. SumFunctionOnSet(f, S) = SumFunctionOnSet(f, U) + SumFunctionOnSet(f, S \ U)
  <2>1. SumFunctionOnSet(f, U \cup (S \ U)) = SumFunctionOnSet(f, U) + SumFunctionOnSet(f, S \ U)
    <3>1. \A x \in U \cup (S \ U) : f[x] \in Int
      OBVIOUS
    <3>2. QED
      BY <1>1, <3>1, SumUnion
  <2>2. QED
    BY <1>1, <2>1
<1>3. SumFunctionOnSet(f, U) \in Nat /\ SumFunctionOnSet(f, S \ U) \in Nat
  BY <1>1, SumNat
<1>4. SumFunctionOnSet(g, U) = SumFunctionOnSet(f, U)
  BY <1>1, SumCongruent
<1>5. QED
  BY <1>2, <1>3, <1>4

(* No term is more than the sum of natural numbers.                         *)
LEMMA SumTerm ==
  ASSUME NEW f, NEW S, IsFiniteSet(S), \A x \in S : f[x] \in Nat, NEW x \in S
  PROVE  f[x] <= SumFunctionOnSet(f, S)
<1>1. SumFunctionOnSet(f, S) = f[x] + SumFunctionOnSet(f, S \ {x})
  BY SumRemove
<1>2. SumFunctionOnSet(f, S \ {x}) \in Nat
  BY FS_RemoveElement, SumNat
<1>3. QED
  BY <1>1, <1>2

(* The members of S of one key, and of the keys in G.                       *)
OfKey(S, key, g) == {x \in S : key[x] = g}
OfKeys(S, key, G) == {x \in S : key[x] \in G}

(* What is summed up group by group is the sum over all that is in a group. *)
LEMMA SumOfGroups ==
  ASSUME NEW f, NEW S, IsFiniteSet(S), \A x \in S : f[x] \in Int,
         NEW key, NEW G, IsFiniteSet(G), NEW h,
         \A g \in G : h[g] = SumFunctionOnSet(f, OfKey(S, key, g))
  PROVE  SumFunctionOnSet(h, G) = SumFunctionOnSet(f, OfKeys(S, key, G))
<1> USE DEF OfKey, OfKeys
<1> DEFINE Of(U) == {x \in S : key[x] \in U}
           Fails(U) == SumFunctionOnSet(h, U) # SumFunctionOnSet(f, Of(U))
           T == {U \in SUBSET G : Fails(U)}
<1>0. T \in SUBSET (SUBSET G)
  OBVIOUS
<1>1. ASSUME T # {} PROVE FALSE
  <2>1. PICK U \in T : \A t \in T : ~(t \subseteq U /\ t # U)
    <3> HIDE DEF T
    <3>1. QED
      BY <1>0, <1>1, MinimalSubset
  <2>2. U \in SUBSET G /\ IsFiniteSet(U) /\ Fails(U)
    BY FS_Subset
  <2>3. CASE U = {}
    <3>1. Of(U) = {} /\ SumFunctionOnSet(h, U) = 0 /\ SumFunctionOnSet(f, {}) = 0
      BY <2>3, SumEmpty
    <3>2. QED
      BY <2>2, <3>1
  <2>4. CASE U # {}
    <3>1. PICK g \in U : TRUE
      BY <2>4
    <3>2. ~Fails(U \ {g})
      BY <2>1, <2>2
    <3> DEFINE part == {x \in S : key[x] = g}
    <3>3. part \cup Of(U \ {g}) = Of(U) /\ part \cap Of(U \ {g}) = {}
      OBVIOUS
    <3>4. IsFiniteSet(part) /\ IsFiniteSet(Of(U \ {g}))
      BY FS_Subset
    <3>5. h[g] = SumFunctionOnSet(f, part) /\ h[g] \in Int
      <4>1. SumFunctionOnSet(f, part) \in Int
        BY <3>4, SumType
      <4>2. QED
        BY <2>2, <4>1
    <3>6. \A y \in U : h[y] \in Int
      <4>1. ASSUME NEW y \in U PROVE h[y] \in Int
        <5>1. IsFiniteSet({x \in S : key[x] = y})
          BY FS_Subset
        <5>2. SumFunctionOnSet(f, {x \in S : key[x] = y}) \in Int
          BY <5>1, SumType
        <5>3. QED
          BY <2>2, <5>2
      <4>2. QED
        BY <4>1
    <3>7. SumFunctionOnSet(h, U) = h[g] + SumFunctionOnSet(h, U \ {g})
      BY <2>2, <3>6, SumRemove
    <3>8. SumFunctionOnSet(f, part \cup Of(U \ {g})) =
            SumFunctionOnSet(f, part) + SumFunctionOnSet(f, Of(U \ {g}))
      <4>1. \A x \in part \cup Of(U \ {g}) : f[x] \in Int
        OBVIOUS
      <4> HIDE DEF part, Of
      <4>2. QED
        BY <3>3, <3>4, <4>1, SumUnion
    <3> HIDE DEF part, Of
    <3>9. SumFunctionOnSet(f, Of(U)) = SumFunctionOnSet(h, U)
      BY <3>2, <3>3, <3>5, <3>7, <3>8
    <3>10. QED
      BY <2>2, <3>9
  <2>5. QED
    BY <2>3, <2>4
<1>2. ~Fails(G)
  BY <1>1
<1>3. QED
  BY <1>2

(* Counting is summing ones.                                                *)
LEMMA SumOfOnes ==
  ASSUME NEW f, NEW S, IsFiniteSet(S), \A x \in S : f[x] = 1
  PROVE  SumFunctionOnSet(f, S) = Cardinality(S)
<1> DEFINE Fails(U) == SumFunctionOnSet(f, U) # Cardinality(U)
           T == {U \in SUBSET S : Fails(U)}
<1>0. T \in SUBSET (SUBSET S)
  OBVIOUS
<1>1. ASSUME T # {} PROVE FALSE
  <2>1. PICK U \in T : \A t \in T : ~(t \subseteq U /\ t # U)
    <3> HIDE DEF T
    <3>1. QED
      BY <1>0, <1>1, MinimalSubset
  <2>2. U \in SUBSET S /\ IsFiniteSet(U) /\ Fails(U)
    BY FS_Subset
  <2>3. U # {}
    BY <2>2, SumEmpty, FS_EmptySet
  <2>4. PICK x \in U : TRUE
    BY <2>3
  <2>5. ~Fails(U \ {x})
    BY <2>1, <2>2
  <2>6. SumFunctionOnSet(f, U) = 1 + SumFunctionOnSet(f, U \ {x})
    <3>1. \A y \in U : f[y] \in Int
      BY <2>2
    <3>2. f[x] = 1
      BY <2>2, <2>4
    <3>3. QED
      BY <2>2, <3>1, <3>2, SumRemove
  <2>7. Cardinality(U) = 1 + Cardinality(U \ {x})
    <3>1. Cardinality(U \ {x}) = Cardinality(U) - 1
      BY <2>2, FS_RemoveElement
    <3>2. Cardinality(U) \in Nat
      BY <2>2, FS_CardinalityType
    <3>3. QED
      BY <3>1, <3>2
  <2>8. QED
    BY <2>2, <2>5, <2>6, <2>7
<1>2. ~Fails(S)
  BY <1>1
<1>3. QED
  BY <1>2

=============================================================================
