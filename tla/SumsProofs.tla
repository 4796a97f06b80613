----------------------------- MODULE SumsProofs -----------------------------
(***************************************************************************)
(* Sums over what a container changes while they are taken.  The sizes     *)
(* that ParseSmaps exposes for a path, and the sizes of the files that     *)
(* collectFileMetrics adds up, lie between those of what was left alone    *)
(* and those of all there was: SmapsInv and FileSumsInv are inductive.     *)
(*                                                                         *)
(* Both rest on counting.  A sum over a finite set is a fold, of which the *)
(* provers see the recursion only; it is shown to be the cardinality of a  *)
(* finite set, and the facts about sums are then facts about sets.         *)
(***************************************************************************)
EXTENDS Smaps, FileSums, FiniteSetTheorems, WellFoundedInduction, TLAPS

-----------------------------------------------------------------------------
(***************************************************************************)
(* Sums over finite sets.                                                  *)
(***************************************************************************)
(* A sum of numbers counts pairs of an argument and a positive number up to*)
(* the value there.                                                        *)
Units(f, S) == {u \in S \X (Nat \ {0}) : u[2] <= f[u[1]]}

(* One argument more: as many more units as the function has there.        *)
LEMMA UnitsInsert ==
  ASSUME NEW S, IsFiniteSet(S), NEW f, \A y \in S : f[y] \in Nat, NEW x \in S,
         IsFiniteSet(Units(f, S \ {x}))
  PROVE  /\ IsFiniteSet(Units(f, S))
         /\ Cardinality(Units(f, S)) = f[x] + Cardinality(Units(f, S \ {x}))
<1> DEFINE new == {x} \X (1..f[x])
           old == Units(f, S \ {x})
<1>1. f[x] \in Nat
  OBVIOUS
<1>2. IsFiniteSet(1..f[x]) /\ Cardinality(1..f[x]) = f[x]
  BY <1>1, FS_Interval
<1>3. IsFiniteSet({x}) /\ Cardinality({x}) = 1
  BY FS_Singleton
<1>4. IsFiniteSet(new) /\ Cardinality(new) = f[x]
  <2>1. IsFiniteSet(new) /\ Cardinality(new) = Cardinality({x}) * Cardinality(1..f[x])
    BY <1>2, <1>3, FS_Product
  <2> QED
    BY <1>1, <1>2, <1>3, <2>1
<1>5. Units(f, S) = new \cup old
  BY <1>1 DEF Units
<1>6. new \cap old = {}
  BY DEF Units
<1>7. Cardinality(new \cap old) = 0
  BY <1>6, FS_EmptySet
<1>8. Cardinality(old) \in Nat
  BY FS_CardinalityType
<1> HIDE DEF new, old
<1>9. IsFiniteSet(new \cup old) /\ Cardinality(new \cup old) = f[x] + Cardinality(old) - 0
  BY <1>1, <1>4, <1>7, FS_Union DEF old
<1> QED
  BY <1>1, <1>5, <1>8, <1>9 DEF old

(* The recursion by which the library folds a function over a set.         *)
Solves(g, f, S) ==
  g = [s \in SUBSET S |->
         IF s = {} THEN 0 ELSE f[CHOOSE x \in s : TRUE] + g[s \ {CHOOSE x \in s : TRUE}]]

(* The sum is the value of a solution of the recursion, if there is one.   *)
LEMMA Unfold ==
  ASSUME NEW S, NEW f
  PROVE  \E g : /\ (\E h : Solves(h, f, S)) => Solves(g, f, S)
                /\ SumFunctionOnSet(f, S) = g[S]
<1> DEFINE g == CHOOSE g : Solves(g, f, S)
<1>1. (\E h : Solves(h, f, S)) => Solves(g, f, S)
  OBVIOUS
<1>2. SumFunctionOnSet(f, S) = g[S]
  BY DEF SumFunctionOnSet, FoldFunctionOnSet, MapThenFoldSet, Solves
<1> QED
  BY <1>1, <1>2

(* There are finitely many units of a finite set.                          *)
LEMMA UnitsFinite ==
  ASSUME NEW S, IsFiniteSet(S), NEW f, \A y \in S : f[y] \in Nat
  PROVE  IsFiniteSet(Units(f, S)) /\ Cardinality(Units(f, S)) \in Nat
<1> DEFINE of == [x \in S |-> {x} \X (1..f[x])]
           T == {of[x] : x \in S}
<1>1. of \in Surjection(S, T)
  BY DEF Surjection
<1>2. IsFiniteSet(T)
  BY <1>1, FS_Surjection
<1>3. ASSUME NEW x \in S
      PROVE  IsFiniteSet(of[x])
  <2>1. f[x] \in Nat
    OBVIOUS
  <2>2. IsFiniteSet(1..f[x])
    BY <2>1, FS_Interval
  <2>3. IsFiniteSet({x})
    BY FS_Singleton
  <2> QED
    BY <2>2, <2>3, FS_Product
<1>4. \A t \in T : IsFiniteSet(t)
  BY <1>3
<1>5. IsFiniteSet(UNION T)
  <2> HIDE DEF T
  <2> QED
    BY <1>2, <1>4, FS_UNION
<1>6. Units(f, S) \in SUBSET UNION T
  BY DEF Units
<1>7. IsFiniteSet(Units(f, S))
  BY <1>5, <1>6, FS_Subset
<1> QED
  BY <1>7, FS_CardinalityType

(* Their number solves the recursion.                                      *)
LEMMA UnitsSolve ==
  ASSUME NEW S, IsFiniteSet(S), NEW f, \A y \in S : f[y] \in Nat
  PROVE  Solves([s \in SUBSET S |-> Cardinality(Units(f, s))], f, S)
<1>1. ASSUME NEW s \in SUBSET S
      PROVE  Cardinality(Units(f, s)) =
               IF s = {} THEN 0
               ELSE f[CHOOSE x \in s : TRUE] + Cardinality(Units(f, s \ {CHOOSE x \in s : TRUE}))
  <2>1. CASE s = {}
    <3>1. Units(f, s) = {}
      BY <2>1 DEF Units
    <3> QED
      BY <2>1, <3>1, FS_EmptySet
  <2>2. CASE s # {}
    <3> DEFINE x == CHOOSE x \in s : TRUE
    <3>1. x \in s
      BY <2>2
    <3>2. IsFiniteSet(s) /\ IsFiniteSet(s \ {x})
      BY FS_Subset
    <3> HIDE DEF x
    <3>3. IsFiniteSet(Units(f, s \ {x}))
      BY <3>2, UnitsFinite
    <3>4. Cardinality(Units(f, s)) = f[x] + Cardinality(Units(f, s \ {x}))
      BY <3>1, <3>2, <3>3, UnitsInsert
    <3> QED
      BY <2>2, <3>4 DEF x
  <2> QED
    BY <2>1, <2>2
<1> QED
  BY <1>1 DEF Solves

(* Any two solutions agree: of the subsets on which they differ, a least one*)
(* would leave one that is smaller.                                        *)
LEMMA SolvesOnce ==
  ASSUME NEW S, IsFiniteSet(S), NEW f, NEW g, NEW h, Solves(g, f, S), Solves(h, f, S)
  PROVE  g[S] = h[S]
<1> DEFINE Bad == {s \in SUBSET S : g[s] # h[s]}
<1>1. IsWellFoundedOn(StrictSubsetOrdering(S), FiniteSubsetsOf(S))
  BY FS_StrictSubsetOrderingWellFounded
<1>2. Bad \subseteq FiniteSubsetsOf(S)
  BY FS_FiniteSubsetsOfFinite
<1>3. ASSUME Bad # {}
      PROVE  FALSE
  <2>1. PICK s \in Bad : \A t \in Bad : <<t, s>> \notin StrictSubsetOrdering(S)
    <3> HIDE DEF Bad
    <3> QED
      BY <1>1, <1>2, <1>3, WFMin
  <2>2. s # {} /\ s \in SUBSET S
    BY DEF Solves
  <2> DEFINE x == CHOOSE x \in s : TRUE
  <2>3. x \in s
    BY <2>2
  <2>4. g[s] = f[x] + g[s \ {x}] /\ h[s] = f[x] + h[s \ {x}]
    BY <2>2 DEF Solves
  <2> HIDE DEF x
  <2>5. s \ {x} \in Bad
    BY <2>1, <2>2, <2>4
  <2>6. <<s \ {x}, s>> \in StrictSubsetOrdering(S)
    BY <2>2, <2>3 DEF StrictSubsetOrdering
  <2> QED
    BY <2>1, <2>5, <2>6
<1> QED
  BY <1>3

(* A sum is the number of its units.                                       *)
LEMMA SumIsUnits ==
  ASSUME NEW S, IsFiniteSet(S), NEW f, \A y \in S : f[y] \in Nat
  PROVE  SumFunctionOnSet(f, S) = Cardinality(Units(f, S))
<1> DEFINE h == [s \in SUBSET S |-> Cardinality(Units(f, s))]
<1>1. Solves(h, f, S)
  BY UnitsSolve
<1>2. h[S] = Cardinality(Units(f, S))
  OBVIOUS
<1> HIDE DEF h
<1>3. PICK g : Solves(g, f, S) /\ SumFunctionOnSet(f, S) = g[S]
  BY <1>1, Unfold
<1>4. g[S] = h[S]
  BY <1>1, <1>3, SolvesOnce
<1> QED
  BY <1>2, <1>3, <1>4

(* Sums of natural numbers are natural numbers.                            *)
LEMMA SumType ==
  ASSUME NEW S, IsFiniteSet(S), NEW f, \A y \in S : f[y] \in Nat
  PROVE  SumFunctionOnSet(f, S) \in Nat
BY SumIsUnits, UnitsFinite

(* An argument is added to the set.                                        *)
LEMMA SumInsert ==
  ASSUME NEW S, IsFiniteSet(S), NEW x, x \notin S,
         NEW f, \A y \in S \cup {x} : f[y] \in Nat
  PROVE  SumFunctionOnSet(f, S \cup {x}) = f[x] + SumFunctionOnSet(f, S)
<1> DEFINE T == S \cup {x}
<1>1. IsFiniteSet(T)
  BY FS_AddElement
<1>2. T \ {x} = S /\ x \in T /\ \A y \in T : f[y] \in Nat
  OBVIOUS
<1> HIDE DEF T
<1>3. IsFiniteSet(Units(f, T \ {x}))
  BY <1>2, UnitsFinite
<1>4. Cardinality(Units(f, T)) = f[x] + Cardinality(Units(f, S))
  BY <1>1, <1>2, <1>3, UnitsInsert
<1> QED
  BY <1>1, <1>2, <1>4, SumIsUnits DEF T

(* A sum grows with its terms.                                             *)
LEMMA SumMonotone ==
  ASSUME NEW S, IsFiniteSet(S), NEW f, NEW g,
         \A y \in S : f[y] \in Nat /\ g[y] \in Nat /\ f[y] <= g[y]
  PROVE  SumFunctionOnSet(f, S) <= SumFunctionOnSet(g, S)
<1>1. Units(f, S) \in SUBSET Units(g, S)
  BY DEF Units
<1>2. Cardinality(Units(f, S)) <= Cardinality(Units(g, S))
  BY <1>1, UnitsFinite, FS_Subset
<1> QED
  BY <1>2, SumIsUnits

(* Nothing is added.                                                       *)
LEMMA SumOfZeros ==
  ASSUME NEW S, IsFiniteSet(S), NEW f, \A y \in S : f[y] = 0
  PROVE  SumFunctionOnSet(f, S) = 0
<1>1. Units(f, S) = {}
  BY DEF Units
<1> QED
  BY <1>1, SumIsUnits, FS_EmptySet

(* A sum over two sets that have nothing in common.                        *)
LEMMA SumUnion ==
  ASSUME NEW S, IsFiniteSet(S), NEW T, IsFiniteSet(T), S \cap T = {},
         NEW f, \A y \in S \cup T : f[y] \in Nat
  PROVE  SumFunctionOnSet(f, S \cup T) = SumFunctionOnSet(f, S) + SumFunctionOnSet(f, T)
<1>1. IsFiniteSet(S \cup T)
  BY FS_Union
<1>2. /\ Units(f, S \cup T) = Units(f, S) \cup Units(f, T)
      /\ Units(f, S) \cap Units(f, T) = {}
  BY DEF Units
<1>3. /\ IsFiniteSet(Units(f, S)) /\ Cardinality(Units(f, S)) \in Nat
      /\ IsFiniteSet(Units(f, T)) /\ Cardinality(Units(f, T)) \in Nat
  BY UnitsFinite
<1>4. Cardinality(Units(f, S \cup T)) = Cardinality(Units(f, S)) + Cardinality(Units(f, T)) - 0
  <2> DEFINE A == Units(f, S)
             B == Units(f, T)
  <2>1. A \cap B = {} /\ Cardinality(A \cap B) = 0 /\ IsFiniteSet(A) /\ IsFiniteSet(B)
    BY <1>2, <1>3, FS_EmptySet
  <2> HIDE DEF A, B
  <2>2. Cardinality(A \cup B) = Cardinality(A) + Cardinality(B) - 0
    BY <2>1, FS_Union
  <2> QED
    BY <1>2, <2>2 DEF A, B
<1>5. Cardinality(Units(f, S \cup T)) = Cardinality(Units(f, S)) + Cardinality(Units(f, T))
  BY <1>3, <1>4
<1>6. /\ SumFunctionOnSet(f, S \cup T) = Cardinality(Units(f, S \cup T))
      /\ SumFunctionOnSet(f, S) = Cardinality(Units(f, S))
      /\ SumFunctionOnSet(f, T) = Cardinality(Units(f, T))
  BY <1>1, SumIsUnits
<1> QED
  BY <1>5, <1>6

(* The sum of the sums of the rows is the sum of the table: of the sets of *)
(* rows for which it is not, a least one would leave a smaller one.        *)
LEMMA SumOfRows ==
  ASSUME NEW X, IsFiniteSet(X), NEW Y, IsFiniteSet(Y), NEW Z, Z = X \X Y,
         NEW f, NEW g, NEW h,
         \A x \in X : /\ h[x] = SumFunctionOnSet(f[x], Y)
                     /\ \A y \in Y : f[x][y] \in Nat /\ g[<<x, y>>] = f[x][y]
  PROVE  SumFunctionOnSet(h, X) = SumFunctionOnSet(g, Z)
<1> DEFINE Bad == {s \in SUBSET X : SumFunctionOnSet(h, s) # SumFunctionOnSet(g, s \X Y)}
<1>1. IsWellFoundedOn(StrictSubsetOrdering(X), FiniteSubsetsOf(X))
  BY FS_StrictSubsetOrderingWellFounded
<1>2. Bad \subseteq FiniteSubsetsOf(X)
  BY FS_FiniteSubsetsOfFinite
<1>3. ASSUME NEW x \in X
      PROVE  h[x] \in Nat /\ SumFunctionOnSet(g, {x} \X Y) = h[x]
  <2> DEFINE row == f[x]
             R == {x} \X Y
             U == Units(row, Y)
             V == Units(g, R)
             move == [u \in U |-> <<<<x, u[1]>>, u[2]>>]
  <2>1. /\ h[x] = SumFunctionOnSet(row, Y)
        /\ \A y \in Y : row[y] \in Nat
        /\ \A y \in Y : g[<<x, y>>] = row[y]
    OBVIOUS
  <2>2. IsFiniteSet(R) /\ \A at \in R : g[at] \in Nat
    <3>1. IsFiniteSet({x})
      BY FS_Singleton
    <3>2. IsFiniteSet(R)
      BY <3>1, FS_Product
    <3>3. \A at \in R : \E y \in Y : at = <<x, y>>
      OBVIOUS
    <3> HIDE DEF R, row
    <3> QED
      BY <2>1, <3>2, <3>3
  <2>3. move \in Bijection(U, V)
    <3>1. \A u \in U : move[u] \in V
      BY <2>1 DEF Units
    <3>2. \A u, v \in U : move[u] = move[v] => u = v
      BY DEF Units
    <3>3. \A v \in V : \E u \in U : move[u] = v
      <4> SUFFICES ASSUME NEW v \in V PROVE \E u \in U : move[u] = v
        OBVIOUS
      <4>1. PICK y \in Y, k \in Nat \ {0} : v = <<<<x, y>>, k>> /\ k <= row[y]
        BY <2>1 DEF Units
      <4>2. <<y, k>> \in U
        BY <4>1 DEF Units
      <4> QED
        BY <4>1, <4>2
    <3> HIDE DEF U, V
    <3> QED
      BY <3>1, <3>2, <3>3 DEF Bijection, Injection, Surjection, IsInjective
  <2> HIDE DEF move, R, row
  <2>4. IsFiniteSet(U) /\ Cardinality(U) \in Nat
    BY <2>1, UnitsFinite
  <2>5. Cardinality(V) = Cardinality(U)
    <3> HIDE DEF U, V
    <3> QED
      BY <2>3, <2>4, FS_Bijection DEF ExistsBijection
  <2>6. SumFunctionOnSet(row, Y) = Cardinality(U) /\ SumFunctionOnSet(g, R) = Cardinality(V)
    BY <2>1, <2>2, SumIsUnits
  <2> QED
    BY <2>1, <2>4, <2>5, <2>6 DEF R
<1>4. ASSUME Bad # {}
      PROVE  FALSE
  <2>1. PICK s \in Bad : \A t \in Bad : <<t, s>> \notin StrictSubsetOrdering(X)
    <3> HIDE DEF Bad
    <3> QED
      BY <1>1, <1>2, <1>4, WFMin
  <2>2. s \in SUBSET X /\ SumFunctionOnSet(h, s) # SumFunctionOnSet(g, s \X Y)
    OBVIOUS
  <2>3. s # {}
    <3>1. SumFunctionOnSet(h, {}) = 0 /\ SumFunctionOnSet(g, {}) = 0
      BY SumOfZeros, FS_EmptySet
    <3>2. {} \X Y = {}
      OBVIOUS
    <3> QED
      BY <2>2, <3>1, <3>2
  <2>4. PICK x \in s : TRUE
    BY <2>3
  <2> DEFINE t == s \ {x}
  <2>5. t \notin Bad
    <3>1. <<t, s>> \in StrictSubsetOrdering(X)
      BY <2>2, <2>4 DEF StrictSubsetOrdering
    <3> HIDE DEF Bad, t
    <3> QED
      BY <2>1, <3>1
  <2>6. IsFiniteSet(t) /\ x \notin t /\ s = t \cup {x} /\ t \in SUBSET X
    BY <2>2, <2>4, FS_Subset
  <2>7. SumFunctionOnSet(h, t) = SumFunctionOnSet(g, t \X Y)
    BY <2>5, <2>6
  <2> HIDE DEF Bad, t
  <2>8. SumFunctionOnSet(h, s) = h[x] + SumFunctionOnSet(h, t)
    <3>1. \A z \in t \cup {x} : h[z] \in Nat
      BY <1>3, <2>2, <2>6
    <3> QED
      BY <2>6, <3>1, SumInsert
  <2>9. SumFunctionOnSet(g, {x} \X Y) = h[x]
    BY <1>3, <2>2, <2>4
  <2>10. SumFunctionOnSet(g, s \X Y) = SumFunctionOnSet(g, {x} \X Y) + SumFunctionOnSet(g, t \X Y)
    <3> DEFINE R == {x} \X Y
               Q == t \X Y
    <3>1. s \X Y = ({x} \X Y) \cup (t \X Y) /\ ({x} \X Y) \cap (t \X Y) = {}
      BY <2>6
    <3>2. IsFiniteSet({x} \X Y) /\ IsFiniteSet(t \X Y)
      BY <2>6, FS_Product, FS_Singleton
    <3>3. \A at \in ({x} \X Y) \cup (t \X Y) : g[at] \in Nat
      BY <2>2, <2>4, <2>6
    <3>4. s \X Y = R \cup Q /\ R \cap Q = {} /\ IsFiniteSet(R) /\ IsFiniteSet(Q)
      BY <3>1, <3>2
    <3> HIDE DEF R, Q
    <3>5. SumFunctionOnSet(g, R \cup Q) = SumFunctionOnSet(g, R) + SumFunctionOnSet(g, Q)
      BY <3>3, <3>4, SumUnion DEF R, Q
    <3> QED
      BY <3>4, <3>5 DEF R, Q
  <2> QED
    BY <2>2, <2>7, <2>8, <2>9, <2>10
<1>5. X \notin Bad
  BY <1>4
<1> QED
  BY <1>5

-----------------------------------------------------------------------------
(***************************************************************************)
(* ParseSmaps.                                                             *)
(***************************************************************************)
(* The mappings of one path are finitely many, at an address each.         *)
LEMMA OfPathFinite ==
  ASSUME NEW S \in SUBSET (Addresses \X Paths), NEW p
  PROVE  IsFiniteSet(OfPath(S, p)) /\ Cardinality(OfPath(S, p)) \in Nat
<1>1. MaxAddress \in Nat
  BY SmapsAssumption DEF SmapsAssumption
<1>2. IsFiniteSet(Addresses)
  BY <1>1, FS_Interval DEF Addresses
<1>3. IsFiniteSet({p})
  BY FS_Singleton
<1>4. IsFiniteSet(Addresses \X {p})
  BY <1>2, <1>3, FS_Product
<1>5. OfPath(S, p) \in SUBSET (Addresses \X {p})
  BY DEF OfPath
<1>6. IsFiniteSet(OfPath(S, p))
  BY <1>4, <1>5, FS_Subset
<1> QED
  BY <1>6, FS_CardinalityType

(* The path of a mapping is one of Paths; what is mapped is at an address. *)
LEMMA PathsTyped ==
  ASSUME SmapsTypeOK
  PROVE  /\ \A m \in Mappings : Path(m) \in Paths
         /\ MappedPaths(memory) \subseteq Addresses \X Paths
         /\ \A a \in Addresses :
              memory[a] # Nothing => /\ memory[a] \in Mappings
                                     /\ <<a, Path(memory[a])>> \in MappedPaths(memory)
<1>1. \A m \in Mappings : Path(m) \in Paths
  BY DEF Mappings, Path, Paths
<1>2. \A a \in Addresses : memory[a] \in Mappings \cup {Nothing}
  BY DEF SmapsTypeOK
<1> QED
  BY <1>1, <1>2 DEF MappedPaths

(* What a mapping of a page does to the other mappings.                    *)
LEMMA RemapKeeps ==
  ASSUME SmapsTypeOK, NEW a \in Addresses, NEW m \in Mappings \cup {Nothing},
         Remap(a, m)
  PROVE  /\ memory' \in [Addresses -> Mappings \cup {Nothing}]
         /\ \A k \in MappedPaths(memory) : k[1] # a => k \in MappedPaths(memory')
<1>1. memory' = [memory EXCEPT ![a] = m]
  BY DEF Remap
<1>2. memory' \in [Addresses -> Mappings \cup {Nothing}]
  BY <1>1 DEF SmapsTypeOK
<1>3. \A b \in Addresses : b # a => memory'[b] = memory[b]
  BY <1>1 DEF SmapsTypeOK
<1> QED
  BY <1>2, <1>3 DEF MappedPaths

-----------------------------------------------------------------------------
(* A mapping is read: its entry counts one more, the others what they did. *)
LEMMA ReadCounts ==
  ASSUME SmapsInv, ReadMapping
  PROVE  /\ SmapsTypeOK'
         /\ EntriesCount'
         /\ \E a \in Addresses :
              /\ a > offset /\ opened
              /\ offset' = a
              /\ memory[a] # Nothing
              /\ \A b \in Addresses : b > offset /\ b < a => memory[b] = Nothing
              /\ counted' = counted \cup {<<a, Path(memory[a])>>}
<1>0. SmapsTypeOK /\ EntriesCount
  BY DEF SmapsInv
<1>1. PICK a \in NextMapping :
        /\ offset' = a
        /\ aggregatedSmaps' = Add(memory[a])
        /\ counted' = counted \cup {<<a, Path(memory[a])>>}
  BY DEF ReadMapping
<1>2. /\ a \in Addresses /\ a > offset /\ opened
      /\ memory[a] # Nothing
      /\ \A b \in Addresses : b > offset /\ b < a => memory[b] = Nothing
  BY DEF NextMapping
<1> DEFINE m == memory[a]
           q == Path(m)
           e == Entry(m)
<1>3. m \in Mappings /\ q \in Paths /\ <<a, q>> \in Addresses \X Paths
  BY <1>0, <1>2, PathsTyped
<1>4. a \in Nat /\ offset \in Nat /\ a \in 0..MaxAddress
  BY <1>0, <1>2, SmapsAssumption DEF SmapsAssumption, SmapsTypeOK, Addresses
<1>5. e \in SmapsMapping
  <2>1. CASE q \in DOMAIN aggregatedSmaps
    BY <1>0, <2>1 DEF Entry, SmapsTypeOK
  <2>2. CASE q \notin DOMAIN aggregatedSmaps
    BY <1>3, <2>2 DEF Entry, SmapsMapping, Mappings
  <2> QED
    BY <2>1, <2>2
<1> DEFINE new == [Perms |-> e.Perms, Size |-> e.Size + 1,
                   KernelPageSize |-> e.KernelPageSize + 1]
<1>6. new \in SmapsMapping /\ new.Size = e.Size + 1
  <2>1. \A x \in SmapsMapping :
          /\ x.Perms \in Permissions /\ x.Size \in Nat /\ x.KernelPageSize \in Nat
    BY DEF SmapsMapping
  <2>2. e.Perms \in Permissions /\ e.Size + 1 \in Nat /\ e.KernelPageSize + 1 \in Nat
    <3> HIDE DEF e
    <3> QED
      BY <1>5, <2>1
  <2> HIDE DEF e
  <2> QED
    BY <2>2 DEF SmapsMapping
<1>7. /\ DOMAIN aggregatedSmaps' = DOMAIN aggregatedSmaps \cup {q}
      /\ aggregatedSmaps' =
           [p \in DOMAIN aggregatedSmaps \cup {q} |->
              IF p = q THEN new ELSE aggregatedSmaps[p]]
  BY <1>1 DEF Add
<1>8. SmapsTypeOK'
  <2>1. UNCHANGED <<process, memory, opened, kept, had, spc>>
    BY DEF ReadMapping
  <2>2. aggregatedSmaps' \in [DOMAIN aggregatedSmaps' -> SmapsMapping]
    <3> HIDE DEF new, q
    <3> QED
      BY <1>0, <1>6, <1>7 DEF SmapsTypeOK
  <2>3. DOMAIN aggregatedSmaps' \subseteq Paths
    BY <1>0, <1>3, <1>7 DEF SmapsTypeOK
  <2>4. counted' \subseteq Addresses \X Paths
    BY <1>0, <1>1, <1>3 DEF SmapsTypeOK
  <2> QED
    BY <1>0, <1>1, <1>4, <2>1, <2>2, <2>3, <2>4 DEF SmapsTypeOK
<1>9. EntriesCount'
  <2>1. \A c \in counted' : c[1] <= offset' /\ c[2] \in DOMAIN aggregatedSmaps'
    <3>1. \A c \in counted : c[1] \in Nat
      BY <1>0 DEF SmapsTypeOK, Addresses
    <3> QED
      BY <1>0, <1>1, <1>2, <1>4, <1>7, <3>1 DEF EntriesCount
  <2>2. ASSUME NEW p \in DOMAIN aggregatedSmaps, p # q
        PROVE  aggregatedSmaps'[p].Size = Cardinality(OfPath(counted', p))
    <3>1. OfPath(counted', p) = OfPath(counted, p)
      BY <1>1, <2>2 DEF OfPath
    <3> QED
      BY <1>0, <1>7, <2>2, <3>1 DEF EntriesCount
  <2>3. aggregatedSmaps'[q].Size = Cardinality(OfPath(counted', q))
    <3>1. OfPath(counted', q) = OfPath(counted, q) \cup {<<a, q>>}
      BY <1>1 DEF OfPath
    <3>2. <<a, q>> \notin OfPath(counted, q)
      BY <1>0, <1>2, <1>4 DEF EntriesCount, OfPath
    <3>3. IsFiniteSet(OfPath(counted, q)) /\ Cardinality(OfPath(counted, q)) \in Nat
      BY <1>0, OfPathFinite DEF SmapsTypeOK
    <3>4. Cardinality(OfPath(counted', q)) = Cardinality(OfPath(counted, q)) + 1
      BY <3>1, <3>2, <3>3, FS_AddElement
    <3>5. e.Size = Cardinality(OfPath(counted, q))
      <4>1. CASE q \in DOMAIN aggregatedSmaps
        BY <1>0, <4>1 DEF Entry, EntriesCount
      <4>2. CASE q \notin DOMAIN aggregatedSmaps
        <5>1. OfPath(counted, q) = {}
          BY <1>0, <4>2 DEF EntriesCount, OfPath
        <5> QED
          BY <4>2, <5>1, FS_EmptySet DEF Entry
      <4> QED
        BY <4>1, <4>2
    <3>6. aggregatedSmaps'[q] = new
      BY <1>7
    <3> QED
      BY <1>6, <3>4, <3>5, <3>6
  <2> QED
    BY <1>7, <2>1, <2>2, <2>3 DEF EntriesCount
<1> QED
  BY <1>1, <1>2, <1>8, <1>9

-----------------------------------------------------------------------------
(* The initial states.                                                     *)
LEMMA SmapsInvInit == SmapsInit => SmapsInv
<1> SUFFICES ASSUME SmapsInit PROVE SmapsInv
  OBVIOUS
<1>1. SmapsTypeOK
  <2>1. aggregatedSmaps \in [{} -> SmapsMapping] /\ DOMAIN aggregatedSmaps = {}
    BY DEF SmapsInit
  <2>2. 0 \in 0..MaxAddress
    BY SmapsAssumption DEF SmapsAssumption
  <2> QED
    BY <2>1, <2>2 DEF SmapsInit, SmapsTypeOK
<1> QED
  BY <1>1 DEF SmapsInit, SmapsInv, EntriesCount, UntouchedCounted, CountedHad

(* Every step.                                                             *)
LEMMA SmapsInvNext == SmapsInv /\ [SmapsNext]_smapsVars => SmapsInv'
<1> SUFFICES ASSUME SmapsInv, [SmapsNext]_smapsVars PROVE SmapsInv'
  OBVIOUS
<1>0. /\ SmapsTypeOK /\ EntriesCount /\ UntouchedCounted /\ CountedHad
      /\ spc = "parsed" => offset = MaxAddress
  BY DEF SmapsInv
<1>1. ASSUME NEW a \in Addresses, NEW m \in Mappings \cup {Nothing}, Remap(a, m)
      PROVE  SmapsInv'
  <2>1. UNCHANGED <<process, opened, spc, offset, aggregatedSmaps, counted>>
    BY <1>1 DEF Remap, fileVars
  <2>2. kept' \subseteq kept /\ had' = had \cup MappedPaths(memory')
    BY <1>1 DEF Remap
  <2>3. \A k \in kept' : k \in kept /\ k[1] # a
    BY <1>1 DEF Remap
  <2>4. /\ memory' \in [Addresses -> Mappings \cup {Nothing}]
        /\ \A k \in MappedPaths(memory) : k[1] # a => k \in MappedPaths(memory')
    BY <1>0, <1>1, RemapKeeps
  <2>5. MappedPaths(memory') \subseteq Addresses \X Paths
    BY <2>4 DEF MappedPaths, Mappings, Path, Paths
  <2>6. SmapsTypeOK'
    BY <1>0, <2>1, <2>2, <2>4, <2>5 DEF SmapsTypeOK
  <2>7. EntriesCount'
    BY <1>0, <2>1 DEF EntriesCount, OfPath
  <2>8. UntouchedCounted'
    BY <1>0, <2>1, <2>3, <2>4 DEF UntouchedCounted
  <2>9. CountedHad'
    BY <1>0, <2>1, <2>2 DEF CountedHad
  <2> QED
    BY <1>0, <2>1, <2>6, <2>7, <2>8, <2>9 DEF SmapsInv
<1>2. CASE Execve \/ ExitProcess
  <2>1. opened' = FALSE /\ UNCHANGED <<kept, had, spc, offset, aggregatedSmaps, counted>>
    BY <1>2 DEF Execve, ExitProcess, fileVars
  <2>2. SmapsTypeOK'
    BY <1>0, <1>2 DEF Execve, ExitProcess, fileVars, SmapsTypeOK
  <2> QED
    BY <1>0, <2>1, <2>2
    DEF SmapsInv, EntriesCount, OfPath, UntouchedCounted, CountedHad
<1>3. CASE Reap \/ OpenFails \/ ScanError
  <2>1. UNCHANGED <<memory, opened, kept, had, offset, aggregatedSmaps, counted>>
    BY <1>3 DEF Reap, OpenFails, ScanError, fileVars
  <2>2. spc' = spc \/ spc' = "failed"
    BY <1>3 DEF Reap, OpenFails, ScanError, fileVars
  <2>3. SmapsTypeOK'
    BY <1>0, <1>3 DEF Reap, OpenFails, ScanError, fileVars, SmapsTypeOK
  <2> QED
    BY <1>0, <2>1, <2>2, <2>3
    DEF SmapsInv, EntriesCount, OfPath, UntouchedCounted, CountedHad, MappedPaths
<1>4. CASE Open
  <2>1. /\ kept' = MappedPaths(memory) /\ had' = MappedPaths(memory)
        /\ offset' = 0 /\ counted' = {} /\ memory' = memory /\ spc' = "read"
        /\ DOMAIN aggregatedSmaps' = {}
    BY <1>4 DEF Open
  <2>2. MappedPaths(memory) \subseteq Addresses \X Paths
    BY <1>0, PathsTyped
  <2>3. SmapsTypeOK'
    BY <1>0, <1>4, <2>2, SmapsAssumption DEF Open, SmapsTypeOK, SmapsAssumption
  <2>4. EntriesCount'
    BY <2>1 DEF EntriesCount
  <2>5. UntouchedCounted'
    <3>1. \A k \in MappedPaths(memory) : ~(k[1] <= 0)
      BY <2>2 DEF Addresses
    <3>2. MappedPaths(memory') = MappedPaths(memory)
      BY <2>1 DEF MappedPaths
    <3> QED
      BY <2>1, <3>1, <3>2 DEF UntouchedCounted
  <2>6. CountedHad'
    BY <2>1 DEF CountedHad, MappedPaths
  <2> QED
    BY <2>1, <2>3, <2>4, <2>5, <2>6 DEF SmapsInv
<1>5. CASE ReadMapping
  <2>1. PICK a \in Addresses :
          /\ a > offset /\ opened
          /\ offset' = a
          /\ memory[a] # Nothing
          /\ \A b \in Addresses : b > offset /\ b < a => memory[b] = Nothing
          /\ counted' = counted \cup {<<a, Path(memory[a])>>}
    BY <1>5, ReadCounts
  <2>2. UNCHANGED <<process, memory, opened, kept, had, spc>> /\ spc = "read"
    BY <1>5 DEF ReadMapping
  <2>3. <<a, Path(memory[a])>> \in MappedPaths(memory)
    BY <1>0, <2>1, PathsTyped
  <2>4. UntouchedCounted'
    <3> SUFFICES ASSUME NEW k \in kept, k[1] <= a, k \notin counted
                 PROVE  k = <<a, Path(memory[a])>>
      BY <1>0, <2>1, <2>2 DEF UntouchedCounted, MappedPaths
    <3>1. k \in MappedPaths(memory) /\ ~(k[1] <= offset)
      BY <1>0, <2>1, <2>2 DEF UntouchedCounted
    <3>2. PICK b \in Addresses : memory[b] # Nothing /\ k = <<b, Path(memory[b])>>
      BY <3>1 DEF MappedPaths
    <3>3. a \in Nat /\ b \in Nat /\ offset \in Nat
      BY <1>0, SmapsAssumption DEF SmapsTypeOK, Addresses, SmapsAssumption
    <3>4. b > offset /\ b <= a
      BY <3>1, <3>2, <3>3
    <3>5. b = a
      BY <2>1, <3>2, <3>3, <3>4
    <3> QED
      BY <3>2, <3>5
  <2>5. CountedHad'
    BY <1>0, <2>1, <2>2, <2>3 DEF CountedHad, MappedPaths
  <2> QED
    BY <1>5, <2>2, <2>4, <2>5, ReadCounts DEF SmapsInv
<1>6. CASE EndOfFile
  <2>1. /\ UNCHANGED <<process, memory, opened, kept, had, aggregatedSmaps, counted>>
        /\ spc = "read" /\ spc' = "parsed" /\ offset' = MaxAddress /\ NextMapping = {}
    BY <1>6 DEF EndOfFile
  <2>2. SmapsTypeOK'
    BY <1>0, <2>1, SmapsAssumption DEF SmapsTypeOK, SmapsAssumption
  <2>3. EntriesCount'
    <3>1. \A c \in counted : c[1] <= MaxAddress
      BY <1>0 DEF SmapsTypeOK, Addresses
    <3> QED
      BY <1>0, <2>1, <3>1 DEF EntriesCount, OfPath
  <2>4. UntouchedCounted'
    <3> SUFFICES ASSUME opened, NEW k \in kept PROVE k[1] <= offset
      BY <1>0, <2>1 DEF UntouchedCounted, MappedPaths
    <3> SUFFICES ASSUME ~(k[1] <= offset) PROVE FALSE
      OBVIOUS
    <3>1. k \in MappedPaths(memory)
      BY <1>0, <2>1 DEF UntouchedCounted
    <3> DEFINE Ahead == {b \in Addresses : b > offset /\ memory[b] # Nothing}
    <3>2. PICK b \in Addresses : memory[b] # Nothing /\ k = <<b, Path(memory[b])>>
      BY <3>1 DEF MappedPaths
    <3>3. b \in Nat /\ offset \in Nat /\ Addresses \subseteq Nat
      BY <1>0, SmapsAssumption DEF SmapsTypeOK, Addresses, SmapsAssumption
    <3>4. b \in Ahead
      BY <3>2, <3>3
    <3>5. PICK a \in Ahead : \A x \in Ahead : ~(x < a)
      <4>1. Ahead \subseteq Nat /\ Ahead # {}
        BY <3>3, <3>4
      <4>2. PICK a \in Ahead : \A x \in Ahead : <<x, a>> \notin OpToRel(<, Nat)
        BY <4>1, NatLessThanWellFounded, WFMin
      <4> QED
        BY <4>1, <4>2 DEF OpToRel
    <3>6. a \in NextMapping
      BY <3>3, <3>5 DEF NextMapping
    <3> QED
      BY <2>1, <3>6
  <2>5. CountedHad'
    BY <1>0, <2>1 DEF CountedHad, MappedPaths
  <2> QED
    BY <2>1, <2>2, <2>3, <2>4, <2>5 DEF SmapsInv
<1>7. CASE UNCHANGED smapsVars
  BY <1>0, <1>7
  DEF smapsVars, SmapsInv, SmapsTypeOK, EntriesCount, OfPath, UntouchedCounted,
      CountedHad, MappedPaths
<1> QED
  BY <1>1, <1>2, <1>3, <1>4, <1>5, <1>6, <1>7 DEF SmapsNext, ProcessStep, ParseStep

-----------------------------------------------------------------------------
(* ParseSmaps counts every mapping it reads once, in the entry of its path,*)
(* and passes over none that stays (smaps.go:63-151).                      *)
THEOREM SmapsInvariant == SmapsSpec => []SmapsInv
<1> QED
  BY SmapsInvInit, SmapsInvNext, PTL DEF SmapsSpec

(* The size exposed for a path lies between that of the mappings nobody    *)
(* touched and that of all there were, however the process maps and unmaps *)
(* memory meanwhile (smaps.go:58-164).                                     *)
THEOREM SumsCorrect == SmapsSpec => []SumsBetween
<1>1. SmapsInv => SumsBetween
  <2> SUFFICES ASSUME SmapsInv, spc = "parsed", NEW p \in Paths
               PROVE  /\ SizeOf(p) <= Cardinality(OfPath(had, p))
                      /\ opened => Cardinality(OfPath(kept, p)) <= SizeOf(p)
    BY DEF SumsBetween
  <2>1. SmapsTypeOK /\ EntriesCount /\ UntouchedCounted /\ CountedHad /\ offset = MaxAddress
    BY DEF SmapsInv
  <2>2. SizeOf(p) = Cardinality(OfPath(counted, p))
    <3>1. CASE p \in DOMAIN aggregatedSmaps
      BY <2>1, <3>1 DEF SizeOf, EntriesCount
    <3>2. CASE p \notin DOMAIN aggregatedSmaps
      <4>1. OfPath(counted, p) = {}
        BY <2>1, <3>2 DEF EntriesCount, OfPath
      <4> QED
        BY <3>2, <4>1, FS_EmptySet DEF SizeOf
    <3> QED
      BY <3>1, <3>2
  <2>3. Cardinality(OfPath(counted, p)) <= Cardinality(OfPath(had, p))
    <3>1. IsFiniteSet(OfPath(had, p))
      BY <2>1, OfPathFinite DEF SmapsTypeOK
    <3>2. OfPath(counted, p) \in SUBSET OfPath(had, p)
      BY <2>1 DEF CountedHad, OfPath
    <3> QED
      BY <3>1, <3>2, FS_Subset
  <2>4. ASSUME opened
        PROVE  Cardinality(OfPath(kept, p)) <= Cardinality(OfPath(counted, p))
    <3>1. IsFiniteSet(OfPath(counted, p))
      BY <2>1, OfPathFinite DEF SmapsTypeOK
    <3>2. \A k \in kept : k[1] <= offset
      BY <2>1 DEF SmapsTypeOK, Addresses
    <3>3. OfPath(kept, p) \in SUBSET OfPath(counted, p)
      BY <2>1, <2>4, <3>2 DEF UntouchedCounted, OfPath
    <3> QED
      BY <3>1, <3>3, FS_Subset
  <2> QED
    BY <2>2, <2>3, <2>4
<1> QED
  BY <1>1, SmapsInvariant, PTL

-----------------------------------------------------------------------------
(***************************************************************************)
(* collectFileMetrics.                                                     *)
(***************************************************************************)
(* The initial states.                                                     *)
LEMMA FileSumsInitial == FileSumsInit => FileSumsInv
BY FileSumsAssumption DEF FileSumsAssumption, FileSumsInit, Entries, FileSumsInv, FileSumsTypeOK

(* What a name adds is a size.                                             *)
LEMMA AddsTyped ==
  ASSUME FileSumsTypeOK, NEW n \in FileNames
  PROVE  Adds(n) \in 0..MaxSize /\ Adds(n) \in Nat
BY FileSumsAssumption DEF FileSumsAssumption, FileSumsTypeOK, Adds

(* There are finitely many names.                                          *)
LEMMA NamesFinite ==
  ASSUME NEW D
  PROVE  IsFiniteSet(FileNames \ D) /\ IsFiniteSet(FileNames)
BY FileSumsAssumption, FS_Difference DEF FileSumsAssumption

(* A change of the container: the bounds may only widen.                   *)
LEMMA ChangeKeeps ==
  ASSUME FileSumsInv, Changed,
         entry' \in [FileNames -> Files \cup {None}], size' \in [Files -> 0..MaxSize]
  PROVE  FileSumsInv'
<1>1. FileSumsTypeOK
  BY DEF FileSumsInv
<1>2. \A n \in FileNames : Adds(n)' \in 0..MaxSize
  BY FileSumsAssumption DEF FileSumsAssumption, Adds
<1>3. \A n \in FileNames :
        /\ low[n] \in Nat /\ high[n] \in Nat /\ low[n] \in 0..MaxSize /\ high[n] \in 0..MaxSize
        /\ low'[n] = IF Adds(n)' < low[n] THEN Adds(n)' ELSE low[n]
        /\ high'[n] = IF Adds(n)' > high[n] THEN Adds(n)' ELSE high[n]
  BY <1>1, FileSumsAssumption DEF FileSumsAssumption, FileSumsTypeOK, Changed
<1>4. \A n \in FileNames :
        /\ low'[n] \in 0..MaxSize /\ high'[n] \in 0..MaxSize
        /\ low'[n] <= low[n] /\ high[n] <= high'[n]
        /\ low'[n] <= Adds(n)' /\ Adds(n)' <= high'[n]
  BY <1>2, <1>3, FileSumsAssumption DEF FileSumsAssumption
<1>5. low' \in [FileNames -> 0..MaxSize] /\ high' \in [FileNames -> 0..MaxSize]
  BY <1>4 DEF Changed
<1>6. FileSumsTypeOK'
  BY <1>1, <1>5, FileSumsAssumption DEF FileSumsAssumption, FileSumsTypeOK, Changed, sumVars
<1>7. ASSUME fpc' = "lstat"
      PROVE  /\ SumFunctionOnSet(low', FileNames \ matches') <= totalSize'
             /\ totalSize' <= SumFunctionOnSet(high', FileNames \ matches')
  <2> DEFINE D == FileNames \ matches
  <2>1. UNCHANGED <<fpc, matches, totalSize>>
    BY DEF Changed, sumVars
  <2>2. /\ SumFunctionOnSet(low, D) <= totalSize
        /\ totalSize <= SumFunctionOnSet(high, D)
    BY <1>7, <2>1 DEF FileSumsInv
  <2>3. IsFiniteSet(D)
    BY NamesFinite
  <2>4. \A n \in D : /\ low[n] \in Nat /\ high[n] \in Nat
                     /\ low'[n] \in Nat /\ high'[n] \in Nat
                     /\ low'[n] <= low[n] /\ high[n] <= high'[n]
    BY <1>3, <1>4
  <2> HIDE DEF D
  <2>5. /\ SumFunctionOnSet(low', D) <= SumFunctionOnSet(low, D)
        /\ SumFunctionOnSet(high, D) <= SumFunctionOnSet(high', D)
    BY <2>3, <2>4, SumMonotone
  <2>6. /\ SumFunctionOnSet(low', D) \in Nat /\ SumFunctionOnSet(low, D) \in Nat
        /\ SumFunctionOnSet(high', D) \in Nat /\ SumFunctionOnSet(high, D) \in Nat
    BY <2>3, <2>4, SumType
  <2>7. totalSize \in Nat
    BY <1>1 DEF FileSumsTypeOK
  <2> QED
    BY <2>1, <2>2, <2>5, <2>6, <2>7 DEF D
<1> QED
  BY <1>4, <1>6, <1>7 DEF FileSumsInv

(* Every change of the container is one of ChangeKeeps.                    *)
LEMMA ContainerKeeps ==
  ASSUME FileSumsInv, ContainerStep
  PROVE  FileSumsInv'
<1>1. FileSumsTypeOK
  BY DEF FileSumsInv
<1>2. ASSUME NEW f \in Files, NEW s \in 0..MaxSize, Resize(f, s)
      PROVE  FileSumsInv'
  BY <1>1, <1>2, ChangeKeeps DEF Resize, FileSumsTypeOK
<1>3. ASSUME NEW m \in FileNames, NEW n \in FileNames, Rename(m, n)
      PROVE  FileSumsInv'
  BY <1>1, <1>3, ChangeKeeps DEF Rename, FileSumsTypeOK
<1>4. ASSUME NEW n \in FileNames, NEW f \in Files, Create(n, f)
      PROVE  FileSumsInv'
  <2>1. 0 \in 0..MaxSize
    BY FileSumsAssumption DEF FileSumsAssumption
  <2> QED
    BY <1>1, <1>4, <2>1, ChangeKeeps DEF Create, FileSumsTypeOK
<1>5. ASSUME NEW n \in FileNames, Unlink(n)
      PROVE  FileSumsInv'
  BY <1>1, <1>5, ChangeKeeps DEF Unlink, FileSumsTypeOK
<1> QED
  BY <1>2, <1>3, <1>4, <1>5 DEF ContainerStep

(* Names without a file add nothing, and the others are still to come.     *)
LEMMA GlobKeeps ==
  ASSUME FileSumsInv, Glob
  PROVE  FileSumsInv'
<1>1. FileSumsTypeOK
  BY DEF FileSumsInv
<1>2. \A n \in FileNames : Adds(n) \in 0..MaxSize /\ Adds(n) \in Nat /\ Adds(n)' = Adds(n)
  BY <1>1, AddsTyped DEF Glob, Adds
<1>3. low' = [n \in FileNames |-> Adds(n)] /\ high' = [n \in FileNames |-> Adds(n)]
  BY DEF Glob
<1>4. FileSumsTypeOK'
  <2>1. low' \in [FileNames -> 0..MaxSize] /\ high' \in [FileNames -> 0..MaxSize]
    BY <1>2, <1>3
  <2> QED
    BY <1>1, <2>1, FileSumsAssumption DEF FileSumsAssumption, FileSumsTypeOK, Glob
<1>5. \A n \in FileNames : low'[n] <= Adds(n)' /\ Adds(n)' <= high'[n]
  BY <1>2, <1>3
<1> DEFINE D == FileNames \ matches'
<1>6. \A n \in D : low'[n] = 0 /\ high'[n] = 0
  BY <1>3, FileSumsAssumption DEF FileSumsAssumption, Glob, Adds
<1>7. SumFunctionOnSet(low', D) = 0 /\ SumFunctionOnSet(high', D) = 0
  <2>1. IsFiniteSet(D)
    BY NamesFinite
  <2> HIDE DEF D
  <2> QED
    BY <1>6, <2>1, SumOfZeros
<1>8. totalSize' = 0
  BY DEF Glob
<1> QED
  BY <1>4, <1>5, <1>7, <1>8 DEF FileSumsInv

(* A name is examined: what it adds is within its bounds.                  *)
LEMMA LstatKeeps ==
  ASSUME FileSumsInv, Lstat
  PROVE  FileSumsInv'
<1>1. FileSumsTypeOK /\ fpc = "lstat"
  BY DEF FileSumsInv, Lstat
<1>2. PICK n \in matches :
        /\ matches' = matches \ {n}
        /\ totalSize' = totalSize + Adds(n)
        /\ summed' = IF entry[n] \in Files \ Directories
                     THEN summed \cup {<<n, entry[n]>>} ELSE summed
  BY DEF Lstat
<1>3. n \in FileNames
  BY <1>1, <1>2 DEF FileSumsTypeOK
<1>4. UNCHANGED <<entry, size, changes, fpc, low, high>>
  BY DEF Lstat, containerVars
<1>5. \A m \in FileNames : /\ Adds(m)' = Adds(m)
                           /\ Adds(m) \in Nat
                           /\ low[m] <= Adds(m) /\ Adds(m) <= high[m]
                           /\ low[m] \in Nat /\ high[m] \in Nat
  <2>1. \A m \in FileNames : Adds(m) \in Nat /\ low[m] \in Nat /\ high[m] \in Nat
    BY <1>1, AddsTyped, FileSumsAssumption DEF FileSumsAssumption, FileSumsTypeOK
  <2> QED
    BY <1>1, <1>4, <2>1 DEF FileSumsInv, Adds
<1>6. FileSumsTypeOK'
  <2>1. totalSize' \in Nat
    BY <1>1, <1>2, <1>3, <1>5 DEF FileSumsTypeOK
  <2>2. summed' \subseteq FileNames \X Files
    BY <1>1, <1>2, <1>3 DEF FileSumsTypeOK
  <2> QED
    BY <1>1, <1>2, <1>4, <2>1, <2>2 DEF FileSumsTypeOK
<1> DEFINE D == FileNames \ matches
<1>7. FileNames \ matches' = D \cup {n} /\ n \notin D
  BY <1>1, <1>2, <1>3
<1>8. IsFiniteSet(D)
  BY NamesFinite
<1>9. \A m \in D \cup {n} : low[m] \in Nat /\ high[m] \in Nat
  BY <1>3, <1>5
<1>10. /\ SumFunctionOnSet(low, D) <= totalSize
       /\ totalSize <= SumFunctionOnSet(high, D)
       /\ totalSize \in Nat
  BY <1>1 DEF FileSumsInv, FileSumsTypeOK
<1> HIDE DEF D
<1>11. /\ SumFunctionOnSet(low, D) \in Nat
       /\ SumFunctionOnSet(high, D) \in Nat
       /\ SumFunctionOnSet(low, D \cup {n}) = low[n] + SumFunctionOnSet(low, D)
       /\ SumFunctionOnSet(high, D \cup {n}) = high[n] + SumFunctionOnSet(high, D)
  BY <1>7, <1>8, <1>9, SumInsert, SumType
<1>12. /\ SumFunctionOnSet(low, D \cup {n}) <= totalSize'
       /\ totalSize' <= SumFunctionOnSet(high, D \cup {n})
  BY <1>2, <1>3, <1>5, <1>10, <1>11
<1> QED
  BY <1>1, <1>4, <1>5, <1>6, <1>7, <1>12 DEF FileSumsInv

(* What was added lies within the bounds of the names examined, whatever   *)
(* the container does between two calls of Lstat (collector.go:305-346).   *)
THEOREM FileSumsInvariant == FileSumsSpec => []FileSumsInv
<1>1. FileSumsInv /\ [FileSumsNext]_fvars => FileSumsInv'
  <2> SUFFICES ASSUME FileSumsInv, [FileSumsNext]_fvars
               PROVE  FileSumsInv'
    OBVIOUS
  <2>1. CASE ContainerStep
    BY <2>1, ContainerKeeps
  <2>2. CASE Glob
    BY <2>2, GlobKeeps
  <2>3. CASE Lstat
    BY <2>3, LstatKeeps
  <2>4. CASE SendSum
    BY <2>4 DEF SendSum, containerVars, FileSumsInv, FileSumsTypeOK
  <2>5. CASE UNCHANGED fvars
    BY <2>5 DEF fvars, containerVars, sumVars, FileSumsInv, FileSumsTypeOK, Adds
  <2> QED
    BY <2>1, <2>2, <2>3, <2>4, <2>5 DEF FileSumsNext, CollectStep
<1> QED
  BY <1>1, FileSumsInitial, PTL DEF FileSumsSpec

(* The sum sent lies between the sums of the least and of the greatest sizes*)
(* under each name since Glob (collector.go:312-337).                      *)
THEOREM FileSumsCorrect == FileSumsSpec => []SumWithinBounds
<1>1. FileSumsInv => SumWithinBounds
  <2>1. FileNames \ {} = FileNames
    OBVIOUS
  <2> QED
    BY <2>1 DEF FileSumsInv, SumWithinBounds, Total
<1> QED
  BY <1>1, FileSumsInvariant, PTL
=============================================================================
