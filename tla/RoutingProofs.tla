---------------------------- MODULE RoutingProofs -----------------------------
(***************************************************************************)
(* Proofs about Routing.  An acyclic family of sets is well founded, so    *)
(* every operator that is a recursive function over its groups satisfies   *)
(* its equation, and what a group inherits from its members holds of all.  *)
(* IInv is the inductive invariant of the phases; Composition adds what    *)
(* the refusals and the pins need of the expanded sets.                    *)
(***************************************************************************)
EXTENDS Routing, FiniteSetTheorems, SequenceTheorems, WellFoundedInduction, TLAPS

(* What is used of numbers: least elements *)

\* A set of numbers that is not empty has a least one.
LEMMA LeastNumber ==
  ASSUME NEW T \in SUBSET Nat, T # {}
  PROVE  \E x \in T : \A y \in T : x <= y
<1> DEFINE R == {ss \in Nat \X Nat : ss[1] < ss[2]}
<1>1. IsWellFoundedOn(R, Nat)
  BY NatLessThanWellFounded DEF OpToRel
<1>2. \A x, y \in Nat : <<y, x>> \in R <=> y < x
  OBVIOUS
<1> HIDE DEF R
<1>3. PICK x \in T : \A y \in T : ~(<<y, x>> \in R)
  BY <1>1, WFMin
<1>4. \A y \in T : ~(y < x)
  BY <1>2, <1>3
<1> QED BY <1>4

\* Induction, as a fact about a set: the library's states it of a predicate.
LEMMA SetInduction ==
  ASSUME NEW S, 0 \in S, \A n \in Nat : n \in S => n + 1 \in S
  PROVE  \A n \in Nat : n \in S
<1> SUFFICES ASSUME Nat \ S # {} PROVE FALSE
  OBVIOUS
<1>1. PICK x \in Nat \ S : \A y \in Nat \ S : x <= y
  BY LeastNumber
<1>2. x # 0 /\ x - 1 \in Nat
  BY <1>1
<1>3. x - 1 \in S
  BY <1>1, <1>2
<1> QED BY <1>1, <1>2, <1>3

\* The greatest of some numbers up to n.
LEMMA GreatestBelow ==
  ASSUME NEW n \in Nat, NEW T \in SUBSET (1 .. n), T # {}
  PROVE  Max(T) \in T /\ \A x \in T : x <= Max(T)
<1> DEFINE U == {n - x : x \in T}
<1>1. U \in SUBSET Nat /\ U # {}
  <2>1. \A x \in T : n - x \in Nat
    OBVIOUS
  <2> QED BY <2>1
<1> HIDE DEF U
<1>2. PICK u \in U : \A v \in U : u <= v
  BY <1>1, LeastNumber
<1>3. PICK y \in T : u = n - y
  BY <1>2 DEF U
<1>4. \A x \in T : y >= x
  <2> TAKE x \in T
  <2>1. u <= n - x
    BY <1>2 DEF U
  <2> QED BY <1>3, <2>1
<1>5. Max(T) \in T /\ \A x \in T : Max(T) >= x
  BY <1>4 DEF Max
<1> QED BY <1>5

-----------------------------------------------------------------------------
(* Recursion over the groups of an acyclic family of sets *)

\* References lead from higher to lower.
Descends(sets, rank) ==
  \A s \in DOMAIN sets : \A i \in DOMAIN sets[s] : \A t \in sets[s][i].refs \cap DOMAIN sets :
    rank[t] < rank[s]

Sound(sets) ==
  /\ IsFiniteSet(DOMAIN sets)
  /\ \E rank \in [DOMAIN sets -> Nat] : Descends(sets, rank)
  /\ \A s \in DOMAIN sets : Expression(sets[s])

\* Among any groups there is one that is made of none of them.
Founded(sets) ==
  \A S \in SUBSET Places(sets) : S # {} => \E p \in S : Under(sets, p) \cap S = {}

LEMMA PlaceIs ==
  ASSUME NEW sets, NEW p
  PROVE  p \in Places(sets) <=> \E s \in DOMAIN sets : \E i \in DOMAIN sets[s] : p = <<s, i>>
BY DEF Places

LEMMA Lengths ==
  ASSUME NEW e, Expression(e)
  PROVE  /\ e \in Seq(Group) /\ Len(e) \in Nat /\ DOMAIN e = 1 .. Len(e)
         /\ e # Nothing => Len(e) \in DOMAIN e
         /\ \A i \in DOMAIN e : e[i] \in Group
<1>1. e \in Seq(Group)
  BY DEF Expression
<1>2. Len(e) \in Nat /\ DOMAIN e = 1 .. Len(e)
  BY <1>1, LenProperties
<1>3. e # Nothing => Len(e) # 0
  BY <1>1, EmptySeq DEF Nothing
<1>4. \A i \in DOMAIN e : e[i] \in Group
  BY <1>1, <1>2, ElementOfSeq
<1> QED BY <1>1, <1>2, <1>3, <1>4

LEMMA UnderIs ==
  ASSUME NEW sets, NEW s, NEW i
  PROVE  /\ At(sets, <<s, i>>) = sets[s][i]
         /\ Under(sets, <<s, i>>) =
              {<<s, j>> : j \in sets[s][i].parts} \cup
              {Root(sets, t) : t \in {t \in sets[s][i].refs \cap DOMAIN sets : sets[t] # Nothing}}
BY DEF At, Under

LEMMA UnderWithin ==
  ASSUME NEW sets, Sound(sets), NEW p \in Places(sets)
  PROVE  Under(sets, p) \subseteq Places(sets)
<1>0. PICK s \in DOMAIN sets : \E i \in DOMAIN sets[s] : p = <<s, i>>
  BY PlaceIs
<1>1. PICK i \in DOMAIN sets[s] : p = <<s, i>>
  BY <1>0
<1>2. Expression(sets[s])
  BY DEF Sound
<1>3. DOMAIN sets[s] = 1 .. Len(sets[s]) /\ Len(sets[s]) \in Nat
  BY <1>2, Lengths
<1>4. \A j \in sets[s][i].parts : j \in DOMAIN sets[s]
  BY <1>2, <1>3 DEF Expression
<1>5. \A t \in DOMAIN sets : sets[t] # Nothing => Len(sets[t]) \in DOMAIN sets[t]
  BY Lengths DEF Sound
<1> QED BY <1>1, <1>4, <1>5, UnderIs, PlaceIs DEF Root

LEMMA Grounded ==
  ASSUME NEW sets, Sound(sets)
  PROVE  Founded(sets)
<1> SUFFICES ASSUME NEW S \in SUBSET Places(sets), S # {}
             PROVE  \E p \in S : Under(sets, p) \cap S = {}
  BY DEF Founded
<1> DEFINE D == DOMAIN sets
<1>1. PICK rank \in [D -> Nat] :
        \A s \in D : \A i \in DOMAIN sets[s] : \A t \in sets[s][i].refs \cap D : rank[t] < rank[s]
  BY DEF Sound, Descends
<1>3. \A s \in D : rank[s] \in Nat
  BY <1>1
<1> DEFINE Here == {s \in D : \E i \in DOMAIN sets[s] : <<s, i>> \in S}
           Ranks == {rank[s] : s \in Here}
<1>4. Here # {} /\ Here \subseteq D
  BY PlaceIs
<1>5. Ranks \in SUBSET Nat /\ Ranks # {}
  BY <1>3, <1>4
<1>6. PICK low \in Ranks : \A r \in Ranks : low <= r
  BY <1>5, LeastNumber
<1>7. PICK s \in Here : rank[s] = low
  BY <1>6
<1>8. \A t \in Here : ~(rank[t] < rank[s])
  <2>1. \A t \in Here : low <= rank[t]
    BY <1>6
  <2>2. \A t \in Here : rank[t] \in Nat
    BY <1>3, <1>4
  <2>3. low \in Nat
    BY <1>5
  <2> HIDE DEF Here, Ranks
  <2> QED BY <1>7, <2>1, <2>2, <2>3
<1> DEFINE Mine == {i \in DOMAIN sets[s] : <<s, i>> \in S}
<1>9. s \in D /\ Mine # {}
  BY <1>7
<1>10. Expression(sets[s])
  BY <1>9 DEF Sound
<1>11. Mine \in SUBSET Nat
  BY <1>10, Lengths
<1>12. PICK i \in Mine : \A j \in Mine : i <= j
  BY <1>9, <1>11, LeastNumber
<1>13. <<s, i>> \in S /\ i \in DOMAIN sets[s]
  BY <1>12
<1>14. \A j \in sets[s][i].parts : <<s, j>> \notin S
  <2> TAKE j \in sets[s][i].parts
  <2>1. j \in Nat /\ j < i /\ j \in DOMAIN sets[s]
    BY <1>10, <1>11, <1>12, <1>13, Lengths DEF Expression
  <2> QED BY <1>11, <1>12, <2>1
<1>15. \A t \in sets[s][i].refs \cap D : <<t, Len(sets[t])>> \notin S
  <2> TAKE t \in sets[s][i].refs \cap D
  <2>1. rank[t] < rank[s]
    BY <1>1, <1>9, <1>13
  <2>2. t \notin Here
    BY <1>8, <2>1
  <2>3. <<t, Len(sets[t])>> \in Places(sets) => Len(sets[t]) \in DOMAIN sets[t]
    BY PlaceIs
  <2> QED BY <2>2, <2>3
<1>16. Under(sets, <<s, i>>) \cap S = {}
  <2> SUFFICES ASSUME NEW q \in Under(sets, <<s, i>>), q \in S PROVE FALSE
    OBVIOUS
  <2>1. (\E j \in sets[s][i].parts : q = <<s, j>>)
        \/ \E t \in sets[s][i].refs \cap D : q = <<t, Len(sets[t])>>
    BY UnderIs DEF Root
  <2> QED BY <1>14, <1>15, <2>1
<1> QED BY <1>13, <1>16

\* What holds of a group when it holds of what the group is made of, holds of
\* every group.
LEMMA Upwards ==
  ASSUME NEW sets, Sound(sets), NEW G,
         \A p \in Places(sets) : Under(sets, p) \subseteq G => p \in G
  PROVE  Places(sets) \subseteq G
<1> DEFINE S == Places(sets) \ G
<1> SUFFICES ASSUME S # {} PROVE FALSE
  OBVIOUS
<1>1. PICK p \in S : Under(sets, p) \cap S = {}
  BY Grounded DEF Founded
<1>2. Under(sets, p) \subseteq G
  BY <1>1, UnderWithin
<1> QED BY <1>1, <1>2

LEMMA PlacesFinite ==
  ASSUME NEW sets, Sound(sets)
  PROVE  IsFiniteSet(Places(sets))
<1> DEFINE F == {{s} \X DOMAIN sets[s] : s \in DOMAIN sets}
<1>1. IsFiniteSet(F)
  <2> DEFINE f == [s \in DOMAIN sets |-> {s} \X DOMAIN sets[s]]
  <2>1. f \in Surjection(DOMAIN sets, F)
    BY DEF Surjection
  <2> QED BY <2>1, FS_Surjection DEF Sound
<1>2. \A T \in F : IsFiniteSet(T)
  <2> TAKE T \in F
  <2>1. PICK s \in DOMAIN sets : T = {s} \X DOMAIN sets[s]
    OBVIOUS
  <2>2. IsFiniteSet({s}) /\ IsFiniteSet(DOMAIN sets[s])
    <3>1. Expression(sets[s])
      BY DEF Sound
    <3>2. Len(sets[s]) \in Nat /\ DOMAIN sets[s] = 1 .. Len(sets[s])
      BY <3>1, Lengths
    <3>3. IsFiniteSet(1 .. Len(sets[s]))
      <4>1. 1 \in Int /\ Len(sets[s]) \in Int
        BY <3>2
      <4> QED BY <4>1, FS_Interval
    <3>4. IsFiniteSet({s})
      BY FS_Singleton
    <3> QED BY <3>2, <3>3, <3>4
  <2> QED BY <2>1, <2>2, FS_Product
<1>3. Places(sets) = UNION F
  BY DEF Places
<1> HIDE DEF F
<1> QED BY <1>1, <1>2, <1>3, FS_UNION

\* A value of a group that depends on the values of what it is made of only.
Local(sets, V, step) ==
  \A p \in Places(sets) : \A f, g \in [Places(sets) -> V] :
    (\A q \in Under(sets, p) : f[q] = g[q]) => step[p][f] = step[p][g]

Solves(sets, f, A, step) ==
  \A p \in A : Under(sets, p) \subseteq A /\ f[p] = step[p][f]

\* Such a recursion has a solution.
LEMMA Recursion ==
  ASSUME NEW sets, Sound(sets), NEW V, V # {},
         NEW step \in [Places(sets) -> [[Places(sets) -> V] -> V]], Local(sets, V, step)
  PROVE  \E f : f = [p \in Places(sets) |-> step[p][f]] /\ f \in [Places(sets) -> V]
<1> DEFINE P == Places(sets)
           Left(n) == \E A \in SUBSET P : \E f \in [P -> V] :
                        Solves(sets, f, A, step) /\ Cardinality(P \ A) = n
           N == {n \in Nat : Left(n)}
<1>1. IsFiniteSet(P)
  BY PlacesFinite
<1>2. \A A \in SUBSET P : IsFiniteSet(P \ A) /\ Cardinality(P \ A) \in Nat
  <2> TAKE A \in SUBSET P
  <2>1. IsFiniteSet(P \ A)
    BY <1>1, FS_Subset
  <2> QED BY <2>1, FS_CardinalityType
<1>3. N # {}
  <2>1. PICK v \in V : TRUE
    OBVIOUS
  <2>2. [p \in P |-> v] \in [P -> V] /\ Solves(sets, [p \in P |-> v], {}, step)
    BY DEF Solves
  <2>3. Left(Cardinality(P \ {}))
    BY <2>2
  <2> QED BY <1>2, <2>3
<1>4. PICK n \in N : \A k \in N : n <= k
  <2>1. N \in SUBSET Nat
    OBVIOUS
  <2> HIDE DEF N
  <2> QED BY <1>3, <2>1, LeastNumber
<1>5. PICK A \in SUBSET P, f \in [P -> V] : Solves(sets, f, A, step) /\ Cardinality(P \ A) = n
  BY <1>4
<1>6. A = P
  <2> DEFINE S == P \ A
  <2> SUFFICES ASSUME S # {} PROVE FALSE
    OBVIOUS
  <2>1. PICK p \in S : Under(sets, p) \cap S = {}
    BY Grounded DEF Founded
  <2>2. Under(sets, p) \subseteq A /\ p \in P /\ p \notin A
    BY <2>1, UnderWithin
  <2> DEFINE v == step[p][f]
             g == [f EXCEPT ![p] = v]
             B == A \cup {p}
  <2>3. v \in V
    BY <1>5, <2>2
  <2>4. g \in [P -> V] /\ g[p] = v /\ \A q \in A : g[q] = f[q]
    BY <2>2, <2>3
  <2> HIDE DEF g, v
  <2>5. \A q \in B : Under(sets, q) \subseteq A
    BY <1>5, <2>2 DEF Solves
  <2>6. \A q \in B : step[q][g] = step[q][f]
    <3> TAKE q \in B
    <3>1. q \in P
      BY <2>2
    <3>2. \A r \in Under(sets, q) : g[r] = f[r]
      BY <2>4, <2>5
    <3>3. f \in [P -> V] /\ g \in [P -> V]
      BY <1>5, <2>4
    <3> QED BY <3>1, <3>2, <3>3 DEF Local
  <2>7. Solves(sets, g, B, step)
    BY <1>5, <2>2, <2>4, <2>5, <2>6 DEF Solves, v
  <2>8. Cardinality(P \ B) = n - 1
    <3>1. P \ B = S \ {p}
      OBVIOUS
    <3>2. IsFiniteSet(S) /\ Cardinality(S) = n
      BY <1>2, <1>5
    <3>3. p \in S
      BY <2>1
    <3> HIDE DEF S, B
    <3> QED BY <3>1, <3>2, <3>3, FS_RemoveElement
  <2>9. Cardinality(P \ B) \in N
    <3>1. B \in SUBSET P
      BY <2>2
    <3> HIDE DEF B
    <3>2. PICK c : c = Cardinality(P \ B)
      OBVIOUS
    <3>3. c \in Nat
      BY <1>2, <3>1, <3>2
    <3>4. Left(c)
      BY <2>4, <2>7, <3>1, <3>2
    <3> HIDE DEF Left
    <3> QED BY <3>2, <3>3, <3>4
  <2>10. n \in Nat
    OBVIOUS
  <2>11. n <= Cardinality(P \ B)
    <3> HIDE DEF N, B
    <3> QED BY <1>4, <2>9
  <2> QED BY <2>8, <2>10, <2>11
<1>7. f = [p \in P |-> step[p][f]]
  BY <1>5, <1>6 DEF Solves
<1> QED BY <1>5, <1>7

\* The leaves of a group, the remains of one, as their equations.
LEMMA LeavesEq ==
  ASSUME NEW sets, Sound(sets)
  PROVE  /\ DOMAIN LeavesAt(sets) = Places(sets)
         /\ \A p \in Places(sets) : LeavesAt(sets)[p] =
              Names(sets, p) \cup UNION {LeavesAt(sets)[q] : q \in Under(sets, p)}
<1> DEFINE P == Places(sets)
           V == SUBSET UNION {Names(sets, p) : p \in P}
           step == [p \in P |-> [f \in [P -> V] |-> Names(sets, p) \cup UNION {f[q] : q \in Under(sets, p)}]]
<1>1. V # {}
  OBVIOUS
<1>2. \A p \in P : \A f \in [P -> V] : Names(sets, p) \cup UNION {f[q] : q \in Under(sets, p)} \in V
  <2> SUFFICES ASSUME NEW p \in P, NEW f \in [P -> V]
               PROVE  Names(sets, p) \cup UNION {f[q] : q \in Under(sets, p)} \in V
    OBVIOUS
  <2>1. \A q \in Under(sets, p) : f[q] \in V
    BY UnderWithin
  <2>2. Names(sets, p) \in V
    OBVIOUS
  <2> QED BY <2>1, <2>2
<1>3. step \in [P -> [[P -> V] -> V]]
  <2> HIDE DEF V
  <2> QED BY <1>2
<1>4. Local(sets, V, step)
  <2> SUFFICES ASSUME NEW p \in P, NEW f \in [P -> V], NEW g \in [P -> V],
                      \A q \in Under(sets, p) : f[q] = g[q]
               PROVE  step[p][f] = step[p][g]
    BY DEF Local
  <2>1. {f[q] : q \in Under(sets, p)} = {g[q] : q \in Under(sets, p)}
    OBVIOUS
  <2> HIDE DEF V
  <2> QED BY <2>1
<1>5. PICK f : f = [p \in P |-> step[p][f]] /\ f \in [P -> V]
  <2> HIDE DEF V, step
  <2> QED BY <1>1, <1>3, <1>4, Recursion
<1>6. f = [p \in P |-> Names(sets, p) \cup UNION {f[q] : q \in Under(sets, p)}]
  <2> HIDE DEF V
  <2> QED BY <1>5
<1>7. \E at : at = [p \in P |-> Names(sets, p) \cup UNION {at[q] : q \in Under(sets, p)}]
  BY <1>6
<1>8. LeavesAt(sets) = [p \in P |-> Names(sets, p) \cup UNION {LeavesAt(sets)[q] : q \in Under(sets, p)}]
  BY <1>7 DEF LeavesAt
<1> HIDE DEF V, step
<1> QED BY <1>8

LEMMA RemainsEq ==
  ASSUME NEW sets, Sound(sets), NEW drops
  PROVE  \A p \in Places(sets) : Remains(sets, drops)[p] <=>
           \/ At(sets, p).names \ drops # {} \/ At(sets, p).refs \ DOMAIN sets # {}
           \/ \E q \in Under(sets, p) : Remains(sets, drops)[q]
<1> DEFINE P == Places(sets)
           V == BOOLEAN
           Own(p) == At(sets, p).names \ drops # {} \/ At(sets, p).refs \ DOMAIN sets # {}
           step == [p \in P |-> [f \in [P -> V] |-> Own(p) \/ \E q \in Under(sets, p) : f[q]]]
<1>1. V # {}
  OBVIOUS
<1>2. \A p \in P : \A f \in [P -> V] : (Own(p) \/ \E q \in Under(sets, p) : f[q]) \in V
  OBVIOUS
<1>3. step \in [P -> [[P -> V] -> V]]
  <2> HIDE DEF Own
  <2> QED BY <1>2
<1>4. Local(sets, V, step)
  <2> SUFFICES ASSUME NEW p \in P, NEW f \in [P -> V], NEW g \in [P -> V],
                      \A q \in Under(sets, p) : f[q] = g[q]
               PROVE  step[p][f] = step[p][g]
    BY DEF Local
  <2>1. (\E q \in Under(sets, p) : f[q]) <=> \E q \in Under(sets, p) : g[q]
    OBVIOUS
  <2>2. step[p][f] = (Own(p) \/ \E q \in Under(sets, p) : f[q])
    OBVIOUS
  <2>3. step[p][g] = (Own(p) \/ \E q \in Under(sets, p) : g[q])
    OBVIOUS
  <2> HIDE DEF V, Own, step
  <2> QED BY <2>1, <2>2, <2>3
<1>5. PICK f : f = [p \in P |-> step[p][f]] /\ f \in [P -> V]
  <2> HIDE DEF V, step
  <2> QED BY <1>1, <1>3, <1>4, Recursion
<1>6. f = [p \in P |-> Own(p) \/ \E q \in Under(sets, p) : f[q]]
  <2> HIDE DEF Own
  <2> QED BY <1>5
<1>7. f = [p \in P |-> \/ At(sets, p).names \ drops # {} \/ At(sets, p).refs \ DOMAIN sets # {}
                      \/ \E q \in Under(sets, p) : f[q]]
  BY <1>6
<1>8. \E at : at = [p \in P |-> \/ At(sets, p).names \ drops # {} \/ At(sets, p).refs \ DOMAIN sets # {}
                              \/ \E q \in Under(sets, p) : at[q]]
  BY <1>7
<1>9. Remains(sets, drops) =
        [p \in P |-> \/ At(sets, p).names \ drops # {} \/ At(sets, p).refs \ DOMAIN sets # {}
                    \/ \E q \in Under(sets, p) : Remains(sets, drops)[q]]
  BY <1>8 DEF Remains
<1> HIDE DEF V, step, Own
<1> QED BY <1>9

\* The options of a group, from those of what it is made of.
Mixed(sets, p, of) ==
  IF At(sets, p).op = "and"
  THEN LET offers == UNION {{q} \X of[q] : q \in Under(sets, p)} IN
       IF offers = {} THEN {} ELSE Combined(offers)
  ELSE {{n} : n \in Names(sets, p)} \cup UNION {of[q] : q \in Under(sets, p)}

LEMMA CombinedIs ==
  ASSUME NEW offers
  PROVE  \A o : o \in Combined(offers) <=>
           \E c \in [{x[1] : x \in offers} -> {x[2] : x \in offers}] :
             /\ \A q \in {x[1] : x \in offers} : <<q, c[q]>> \in offers
             /\ o = UNION {c[q] : q \in {x[1] : x \in offers}}
BY DEF Combined

LEMMA CombinedWithin ==
  ASSUME NEW offers, NEW U, \A x \in offers : x[2] \in SUBSET U
  PROVE  \A o \in Combined(offers) : o \in SUBSET U
<1> SUFFICES ASSUME NEW o \in Combined(offers) PROVE o \in SUBSET U
  OBVIOUS
<1> DEFINE M == {x[1] : x \in offers}
<1>1. PICK c \in [M -> {x[2] : x \in offers}] : o = UNION {c[q] : q \in M}
  BY DEF Combined
<1>2. \A q \in M : c[q] \in {x[2] : x \in offers}
  OBVIOUS
<1>3. \A q \in M : c[q] \in SUBSET U
  BY <1>2
<1> QED BY <1>1, <1>3

LEMMA MixedWithin ==
  ASSUME NEW sets, Sound(sets), NEW U, UNION {Names(sets, p) : p \in Places(sets)} \subseteq U,
         NEW p \in Places(sets), NEW f \in [Places(sets) -> SUBSET SUBSET U]
  PROVE  Mixed(sets, p, f) \in SUBSET SUBSET U
<1>1. \A q \in Under(sets, p) : f[q] \in SUBSET SUBSET U
  BY UnderWithin
<1> DEFINE offers == UNION {{q} \X f[q] : q \in Under(sets, p)}
<1>2. CASE At(sets, p).op = "and"
  <2>1. CASE offers = {}
    BY <1>2, <2>1 DEF Mixed
  <2>2. CASE offers # {}
    <3>1. \A x \in offers : x[2] \in SUBSET U
      BY <1>1
    <3> HIDE DEF offers
    <3>2. \A o \in Combined(offers) : o \in SUBSET U
      BY <3>1, CombinedWithin
    <3>3. Mixed(sets, p, f) = Combined(offers)
      BY <1>2, <2>2 DEF Mixed, offers
    <3> QED BY <3>2, <3>3
  <2> QED BY <2>1, <2>2
<1>3. CASE At(sets, p).op # "and"
  BY <1>1, <1>3 DEF Mixed
<1> QED BY <1>2, <1>3

LEMMA OptionsEq ==
  ASSUME NEW sets, Sound(sets)
  PROVE  /\ DOMAIN OptionsAt(sets) = Places(sets)
         /\ \A p \in Places(sets) : OptionsAt(sets)[p] = Mixed(sets, p, OptionsAt(sets))
<1> DEFINE P == Places(sets)
           U == UNION {Names(sets, p) : p \in P}
           V == SUBSET SUBSET U
           step == [p \in P |-> [f \in [P -> V] |-> Mixed(sets, p, f)]]
<1>1. V # {}
  OBVIOUS
<1>2. \A p \in P : \A f \in [P -> V] : Mixed(sets, p, f) \in V
  <2>1. UNION {Names(sets, p) : p \in P} \subseteq U
    OBVIOUS
  <2> HIDE DEF U
  <2> QED BY <2>1, MixedWithin
<1>3. step \in [P -> [[P -> V] -> V]]
  <2> HIDE DEF V
  <2> QED BY <1>2
<1>4. Local(sets, V, step)
  <2> SUFFICES ASSUME NEW p \in P, NEW f \in [P -> V], NEW g \in [P -> V],
                      \A q \in Under(sets, p) : f[q] = g[q]
               PROVE  step[p][f] = step[p][g]
    BY DEF Local
  <2>1. {f[q] : q \in Under(sets, p)} = {g[q] : q \in Under(sets, p)}
    OBVIOUS
  <2>2. {{q} \X f[q] : q \in Under(sets, p)} = {{q} \X g[q] : q \in Under(sets, p)}
    OBVIOUS
  <2>3. Mixed(sets, p, f) = Mixed(sets, p, g)
    BY <2>1, <2>2 DEF Mixed
  <2> HIDE DEF V
  <2> QED BY <2>3
<1>5. PICK f : f = [p \in P |-> step[p][f]] /\ f \in [P -> V]
  <2> HIDE DEF V, step
  <2> QED BY <1>1, <1>3, <1>4, Recursion
<1>6. f = [p \in P |-> Mixed(sets, p, f)]
  <2> HIDE DEF V
  <2> QED BY <1>5
<1>7. \E at : at = [p \in P |-> Mixed(sets, p, at)]
  BY <1>6
<1>8. OptionsAt(sets) = [p \in P |-> Mixed(sets, p, OptionsAt(sets))]
  BY <1>7 DEF OptionsAt, Mixed
<1> HIDE DEF V, step
<1> QED BY <1>8

-----------------------------------------------------------------------------
(* Edits leave sound expressions *)

Refs(e) == UNION {e[i].refs : i \in DOMAIN e}

\* The expressions that refer to nothing an expression does not refer to.
Like(e) == {x \in Seq(Group) : Expression(x) /\ Refs(x) \subseteq Refs(e)}

LEMMA RefsIs ==
  ASSUME NEW x
  PROVE  \A t : t \in Refs(x) <=> \E i \in DOMAIN x : t \in x[i].refs
BY DEF Refs

LEMMA SoundOfAcyclic ==
  ASSUME NEW sets, IsFiniteSet(DOMAIN sets), Acyclic(sets), \A s \in DOMAIN sets : Expression(sets[s])
  PROVE  Sound(sets)
<1>1. Cardinality(DOMAIN sets) \in Nat
  BY FS_CardinalityType
<1>2. PICK rank \in [DOMAIN sets -> 0 .. Cardinality(DOMAIN sets)] : Descends(sets, rank)
  BY DEF Acyclic, Descends
<1>3. rank \in [DOMAIN sets -> Nat]
  BY <1>1
<1> QED BY <1>2, <1>3 DEF Sound

LEMMA SoundLike ==
  ASSUME NEW sets, Sound(sets), NEW edited, DOMAIN edited \subseteq DOMAIN sets,
         \A s \in DOMAIN edited : edited[s] \in Like(sets[s])
  PROVE  Sound(edited)
<1>1. PICK rank \in [DOMAIN sets -> Nat] : Descends(sets, rank)
  BY DEF Sound
<1> DEFINE low == [s \in DOMAIN edited |-> rank[s]]
<1>2. low \in [DOMAIN edited -> Nat]
  OBVIOUS
<1>3. Descends(edited, low)
  <2> SUFFICES ASSUME NEW s \in DOMAIN edited, NEW i \in DOMAIN edited[s],
                      NEW t \in edited[s][i].refs \cap DOMAIN edited
               PROVE  low[t] < low[s]
    BY DEF Descends
  <2>1. t \in Refs(sets[s])
    BY DEF Like, Refs
  <2>2. PICK j \in DOMAIN sets[s] : t \in sets[s][j].refs
    BY <2>1 DEF Refs
  <2> QED BY <1>1, <2>2 DEF Descends
<1>4. IsFiniteSet(DOMAIN edited)
  BY FS_Subset DEF Sound
<1>5. \A s \in DOMAIN edited : Expression(edited[s])
  BY DEF Like
<1> QED BY <1>2, <1>3, <1>4, <1>5 DEF Sound

LEMMA SubstitutedLike ==
  ASSUME NEW e, Expression(e), NEW n, NEW names \in SUBSET Name
  PROVE  Substituted(e, n, names) \in Like(e)
<1>0. PICK x : x = Substituted(e, n, names)
  OBVIOUS
<1>1. DOMAIN x = DOMAIN e /\ \A i \in DOMAIN e : x[i] = IF e[i] = Leaf(n) THEN AnyOf(names) ELSE e[i]
  BY <1>0 DEF Substituted
<1>2. e \in Seq(Group) /\ Len(e) \in Nat /\ DOMAIN e = 1 .. Len(e) /\ \A i \in DOMAIN e : e[i] \in Group
  BY Lengths
<1>3. AnyOf(names) \in Group
  BY DEF AnyOf, Group
<1>4. \A i \in DOMAIN e : x[i] \in Group
  BY <1>1, <1>2, <1>3
<1>5. x \in Seq(Group)
  <2>1. x = [i \in 1 .. Len(e) |-> x[i]]
    BY <1>0, <1>2 DEF Substituted
  <2> QED BY <1>2, <1>4, <2>1, IsASeq
<1>6. \A i \in DOMAIN x : x[i].refs \subseteq e[i].refs
  BY <1>1 DEF AnyOf
<1>7. Expression(x)
  <2> SUFFICES ASSUME NEW i \in DOMAIN x
               PROVE  /\ x[i].parts \subseteq 1 .. (i - 1)
                      /\ x[i].op = "and" => x[i].names = {} /\ x[i].refs = {}
                      /\ \A s, t \in x[i].refs : s = t
    BY <1>5 DEF Expression
  <2>1. CASE x[i] = e[i]
    BY <1>1, <2>1 DEF Expression
  <2>2. CASE x[i] = AnyOf(names)
    BY <2>2 DEF AnyOf
  <2> QED BY <1>1, <2>1, <2>2
<1>8. Refs(x) \subseteq Refs(e)
  <2>1. \A i \in DOMAIN x : i \in DOMAIN e /\ x[i].refs \subseteq e[i].refs
    BY <1>1, <1>6
  <2> SUFFICES ASSUME NEW t \in Refs(x) PROVE t \in Refs(e)
    OBVIOUS
  <2>2. PICK i \in DOMAIN x : t \in x[i].refs
    BY RefsIs
  <2> QED BY <2>1, <2>2, RefsIs
<1> QED BY <1>0, <1>5, <1>7, <1>8 DEF Like

LEMMA PrunedIs ==
  ASSUME NEW sets, Sound(sets), NEW s \in DOMAIN sets, NEW drops, Survives(s, sets, drops)
  PROVE  /\ DOMAIN Pruned(s, sets, drops) = DOMAIN sets[s] /\ Len(Pruned(s, sets, drops)) = Len(sets[s])
         /\ Pruned(s, sets, drops) \in Seq(Group) /\ Pruned(s, sets, drops) # Nothing
         /\ \A i \in DOMAIN sets[s] : Remains(sets, drops)[<<s, i>>] =>
              /\ Pruned(s, sets, drops)[i].op = sets[s][i].op
              /\ Pruned(s, sets, drops)[i].refs = sets[s][i].refs
              /\ Pruned(s, sets, drops)[i].names = sets[s][i].names \ drops
              /\ Pruned(s, sets, drops)[i].parts = {j \in sets[s][i].parts : Remains(sets, drops)[<<s, j>>]}
         /\ \A i \in DOMAIN sets[s] : ~Remains(sets, drops)[<<s, i>>] => Pruned(s, sets, drops)[i] = AnyOf({})
<1> DEFINE x == Pruned(s, sets, drops)
           kept(i) == Remains(sets, drops)[<<s, i>>]
           e == sets[s]
<1>1. x = [i \in DOMAIN e |-> IF kept(i) THEN [e[i] EXCEPT !.names = @ \ drops, !.parts = {j \in @ : kept(j)}]
                              ELSE AnyOf({})]
  BY DEF Pruned
<1>2. e \in Seq(Group) /\ Len(e) \in Nat /\ DOMAIN e = 1 .. Len(e) /\ \A i \in DOMAIN e : e[i] \in Group
  BY Lengths DEF Sound
<1>3. AnyOf({}) \in Group
  BY DEF AnyOf, Group
<1> HIDE DEF kept
<1>4. \A i \in DOMAIN e : kept(i) =>
        /\ x[i] \in Group /\ x[i].op = e[i].op /\ x[i].refs = e[i].refs /\ x[i].names = e[i].names \ drops
        /\ x[i].parts = {j \in e[i].parts : kept(j)}
  <2> SUFFICES ASSUME NEW i \in DOMAIN e, kept(i)
               PROVE  /\ x[i] \in Group /\ x[i].op = e[i].op /\ x[i].refs = e[i].refs
                      /\ x[i].names = e[i].names \ drops /\ x[i].parts = {j \in e[i].parts : kept(j)}
    OBVIOUS
  <2>1. x[i] = [e[i] EXCEPT !.names = @ \ drops, !.parts = {j \in @ : kept(j)}]
    BY <1>1
  <2>2. e[i] \in Group
    BY <1>2
  <2> HIDE DEF x, e
  <2> QED BY <2>1, <2>2 DEF Group
<1>5. \A i \in DOMAIN e : ~kept(i) => x[i] = AnyOf({})
  BY <1>1
<1>6. DOMAIN x = DOMAIN e
  BY <1>1
<1>7. x \in Seq(Group) /\ Len(x) = Len(e)
  <2>1. \A i \in 1 .. Len(e) : x[i] \in Group
    BY <1>2, <1>3, <1>4, <1>5
  <2>2. x = [i \in 1 .. Len(e) |-> x[i]]
    BY <1>1, <1>2
  <2> HIDE DEF x
  <2> QED BY <1>2, <2>1, <2>2, IsASeq, LenProperties
<1>8. x # Nothing
  <2>1. Len(e) # 0
    BY Lengths, <1>2 DEF Survives, Sound
  <2> HIDE DEF x
  <2> QED BY <1>7, <2>1 DEF Nothing
<1> HIDE DEF x, e
<1> QED BY <1>4, <1>5, <1>6, <1>7, <1>8 DEF x, e, kept

LEMMA PrunedLike ==
  ASSUME NEW sets, Sound(sets), NEW s \in DOMAIN sets, NEW drops
  PROVE  Pruned(s, sets, drops) \in Like(sets[s])
<1> DEFINE x == Pruned(s, sets, drops)
           e == sets[s]
<1>1. CASE ~Survives(s, sets, drops)
  <2>1. x = <<>>
    BY <1>1 DEF Pruned, Nothing
  <2> QED BY <2>1 DEF Like, Expression, Refs
<1>2. CASE Survives(s, sets, drops)
  <2>1. x \in Seq(Group) /\ DOMAIN x = DOMAIN e
    BY <1>2, PrunedIs
  <2>2. Expression(e)
    BY DEF Sound
  <2>3. \A i \in DOMAIN e : x[i] = AnyOf({}) \/
          (x[i].op = e[i].op /\ x[i].refs = e[i].refs /\ x[i].names \subseteq e[i].names /\ x[i].parts \subseteq e[i].parts)
    <3> TAKE i \in DOMAIN e
    <3>1. CASE ~Remains(sets, drops)[<<s, i>>]
      BY <1>2, <3>1, PrunedIs
    <3>2. CASE Remains(sets, drops)[<<s, i>>]
      <4>1. /\ x[i].op = e[i].op /\ x[i].refs = e[i].refs /\ x[i].names = e[i].names \ drops
            /\ x[i].parts = {j \in e[i].parts : Remains(sets, drops)[<<s, j>>]}
        BY <1>2, <3>2, PrunedIs
      <4> HIDE DEF x, e
      <4> QED BY <4>1
    <3> QED BY <3>1, <3>2
  <2>4. \A i \in DOMAIN e : x[i].refs \subseteq e[i].refs
    BY <2>3 DEF AnyOf
  <2> HIDE DEF x, e
  <2>5. Expression(x)
    <3> SUFFICES ASSUME NEW i \in DOMAIN x
                 PROVE  /\ x[i].parts \subseteq 1 .. (i - 1)
                        /\ x[i].op = "and" => x[i].names = {} /\ x[i].refs = {}
                        /\ \A r, t \in x[i].refs : r = t
      BY <2>1 DEF Expression
    <3>1. CASE x[i] = AnyOf({})
      BY <3>1 DEF AnyOf
    <3>2. CASE x[i] # AnyOf({})
      BY <2>1, <2>2, <2>3, <3>2 DEF Expression
    <3> QED BY <3>1, <3>2
  <2> QED BY <2>1, <2>4, <2>5 DEF Like, Refs, x, e
<1> QED BY <1>1, <1>2

\* The two ways a term is appended, group by group.
Joined(e, n, x) ==
  /\ Len(x) = Len(e) + 2 /\ x[Len(e) + 1] = Leaf(n) /\ x[Len(e) + 2] = Together({Len(e), Len(e) + 1})
  /\ \A i \in 1 .. Len(e) : x[i] = e[i]

JoinedLast(e, n, x, last) ==
  /\ e[Len(e)].op = "or" /\ last \in e[Len(e)].parts
  /\ Len(x) = Len(e) + 2 /\ x[Len(e)] = Leaf(n) /\ x[Len(e) + 1] = Together({last, Len(e)})
  /\ x[Len(e) + 2] = Alternatives((e[Len(e)].parts \ {last}) \cup {Len(e) + 1})
  /\ \A i \in 1 .. Len(e) - 1 : x[i] = e[i]

\* A sequence of k elements put after another.
After(e, g, x, k) ==
  /\ Len(x) = Len(e) + k
  /\ \A i \in 1 .. Len(e) : x[i] = e[i]
  /\ \A i \in 1 .. k : x[Len(e) + i] = g[i]

LEMMA ConcatAfter ==
  ASSUME NEW T, NEW e \in Seq(T), NEW g \in Seq(T)
  PROVE  e \o g \in Seq(T) /\ After(e, g, e \o g, Len(g))
<1>1. PICK x : x = e \o g
  OBVIOUS
<1>2. PICK l, k \in Nat : l = Len(e) /\ k = Len(g)
  BY LenProperties
<1>3. /\ x \in Seq(T) /\ Len(x) = l + k
      /\ \A i \in 1 .. l + k : x[i] = IF i <= l THEN e[i] ELSE g[i - l]
  BY <1>1, <1>2, ConcatProperties
<1>4. \A i \in 1 .. l : x[i] = e[i]
  <2> TAKE i \in 1 .. l
  <2>1. i \in 1 .. l + k /\ i <= l
    BY <1>2
  <2> QED BY <1>3, <2>1
<1>5. \A i \in 1 .. k : x[l + i] = g[i]
  <2> TAKE i \in 1 .. k
  <2>1. PICK j : j = l + i
    OBVIOUS
  <2>2. j \in 1 .. l + k /\ ~(j <= l) /\ j - l = i
    BY <1>2, <2>1
  <2> QED BY <1>3, <2>1, <2>2
<1> QED BY <1>1, <1>2, <1>3, <1>4, <1>5 DEF After

LEMMA FrontIs ==
  ASSUME NEW T, NEW e \in Seq(T), Len(e) # 0
  PROVE  /\ Front(e) \in Seq(T) /\ Len(Front(e)) = Len(e) - 1
         /\ \A i \in 1 .. Len(e) - 1 : Front(e)[i] = e[i]
<1>1. PICK m \in Nat : Len(e) = m + 1
  <2>1. Len(e) \in Nat
    BY LenProperties
  <2>2. Len(e) - 1 \in Nat
    BY <2>1
  <2> QED BY <2>1, <2>2
<1>2. Front(e) = SubSeq(e, 1, m)
  BY <1>1 DEF Front
<1>3. \A i \in 1 .. m : e[i] \in T
  BY <1>1, ElementOfSeq
<1>4. PICK f : f = SubSeq(e, 1, m)
  OBVIOUS
<1>5. f \in Seq(T) /\ Len(f) = (IF 1 <= m THEN m - 1 + 1 ELSE 0) /\ \A i \in 1 .. m - 1 + 1 : f[i] = e[1 + i - 1]
  <2>1. 1 \in Int /\ m \in Int
    OBVIOUS
  <2> QED BY <1>3, <1>4, <2>1, SubSeqProperties
<1>6. Len(f) = m
  BY <1>5
<1>7. \A i \in 1 .. m : f[i] = e[i]
  <2> TAKE i \in 1 .. m
  <2>1. i \in 1 .. m - 1 + 1 /\ 1 + i - 1 = i
    OBVIOUS
  <2>2. f[i] = e[1 + i - 1]
    BY <1>5, <2>1
  <2> QED BY <2>1, <2>2
<1>8. Len(e) - 1 = m
  BY <1>1
<1> QED BY <1>2, <1>4, <1>5, <1>6, <1>7, <1>8

LEMMA ExtendedIs ==
  ASSUME NEW e, Expression(e), e # Nothing, NEW n \in Name
  PROVE  /\ Extended(e, n) \in Seq(Group)
         /\ Joined(e, n, Extended(e, n)) \/ \E last : JoinedLast(e, n, Extended(e, n), last)
<1>1. PICK L \in Nat : L = Len(e) /\ L # 0
  BY Lengths
<1>2. e \in Seq(Group) /\ DOMAIN e = 1 .. L /\ \A i \in 1 .. L : e[i] \in Group
  BY <1>1, Lengths
<1>3. PICK leaf \in Group : leaf = Leaf(n)
  BY DEF Leaf, AnyOf, Group
<1>4. \A S \in SUBSET Nat : Together(S) \in Group /\ Alternatives(S) \in Group
  BY DEF Together, Alternatives, Group
<1>5. e[L].parts \subseteq 1 .. (L - 1) /\ e[L].parts \in SUBSET Nat
  <2>1. L \in DOMAIN e
    BY <1>1, <1>2
  <2>2. e[L].parts \subseteq 1 .. (L - 1)
    BY <2>1 DEF Expression
  <2> QED BY <1>1, <2>2
<1>6. PICK x : x = Extended(e, n)
  OBVIOUS
<1>7. CASE e[L].op = "or" /\ e[L].parts # {}
  <2>1. PICK last : last = Max(e[L].parts)
    OBVIOUS
  <2>2. last \in e[L].parts /\ last \in Nat
    <3>1. L - 1 \in Nat
      BY <1>1
    <3>2. last \in e[L].parts
      BY <1>5, <1>7, <2>1, <3>1, GreatestBelow
    <3> QED BY <1>5, <3>2
  <2>3. PICK a, b : a = Together({last, L}) /\ b = Alternatives((e[L].parts \ {last}) \cup {L + 1})
    OBVIOUS
  <2>4. a \in Group /\ b \in Group
    <3>1. {last, L} \in SUBSET Nat /\ (e[L].parts \ {last}) \cup {L + 1} \in SUBSET Nat
      BY <1>1, <1>5, <2>2
    <3> QED BY <1>4, <2>3, <3>1
  <2>5. PICK g : g = <<leaf, a, b>>
    OBVIOUS
  <2>6. g \in Seq(Group) /\ Len(g) = 3 /\ g[1] = leaf /\ g[2] = a /\ g[3] = b
    BY <2>4, <2>5
  <2>7. PICK f : f = Front(e)
    OBVIOUS
  <2>8. f \in Seq(Group) /\ Len(f) = L - 1 /\ \A i \in 1 .. L - 1 : f[i] = e[i]
    BY <1>1, <1>2, <2>7, FrontIs
  <2>9. x = f \o g
    BY <1>1, <1>3, <1>6, <1>7, <2>1, <2>3, <2>5, <2>7 DEF Extended
  <2>10. x \in Seq(Group) /\ After(f, g, x, 3)
    BY <2>6, <2>8, <2>9, ConcatAfter
  <2>11. Len(f) + 1 = L /\ Len(f) + 2 = L + 1 /\ Len(f) + 3 = L + 2 /\ 1 \in 1 .. 3 /\ 2 \in 1 .. 3 /\ 3 \in 1 .. 3
    BY <1>1, <2>8
  <2>12. /\ Len(x) = L + 2 /\ x[L] = leaf /\ x[L + 1] = a /\ x[L + 2] = b
         /\ \A i \in 1 .. L - 1 : x[i] = e[i]
    BY <2>6, <2>8, <2>10, <2>11 DEF After
  <2> QED BY <1>1, <1>3, <1>6, <1>7, <2>2, <2>3, <2>10, <2>12 DEF JoinedLast
<1>8. CASE ~(e[L].op = "or" /\ e[L].parts # {})
  <2>1. PICK b : b = Together({L, L + 1})
    OBVIOUS
  <2>2. b \in Group
    <3>1. {L, L + 1} \in SUBSET Nat
      BY <1>1
    <3> QED BY <1>4, <2>1, <3>1
  <2>3. PICK g : g = <<leaf, b>>
    OBVIOUS
  <2>4. g \in Seq(Group) /\ Len(g) = 2 /\ g[1] = leaf /\ g[2] = b
    BY <2>2, <2>3
  <2>5. x = e \o g
    BY <1>1, <1>3, <1>6, <1>8, <2>1, <2>3 DEF Extended
  <2>6. x \in Seq(Group) /\ After(e, g, x, 2)
    BY <1>2, <2>4, <2>5, ConcatAfter
  <2>7. Len(x) = L + 2 /\ x[L + 1] = leaf /\ x[L + 2] = b /\ \A i \in 1 .. L : x[i] = e[i]
    <3>1. 1 \in 1 .. 2 /\ 2 \in 1 .. 2
      OBVIOUS
    <3> QED BY <1>1, <2>4, <2>6, <3>1 DEF After
  <2> QED BY <1>1, <1>3, <1>6, <2>1, <2>6, <2>7 DEF Joined
<1> QED BY <1>7, <1>8

LEMMA ExtendedLike ==
  ASSUME NEW e, Expression(e), e # Nothing, NEW n \in Name
  PROVE  Extended(e, n) \in Like(e) /\ Extended(e, n) # Nothing
<1>0. PICK x, L : x = Extended(e, n) /\ L = Len(e)
  OBVIOUS
<1>1. L \in Nat /\ L # 0 /\ DOMAIN e = 1 .. L
  BY <1>0, Lengths
<1>2. x \in Seq(Group) /\ (Joined(e, n, x) \/ \E last : JoinedLast(e, n, x, last))
  BY <1>0, ExtendedIs
<1>3. Len(x) = L + 2 /\ DOMAIN x = 1 .. L + 2
  BY <1>0, <1>1, <1>2, LenProperties DEF Joined, JoinedLast
<1> DEFINE Fine(i) == /\ x[i].parts \subseteq 1 .. (i - 1)
                      /\ x[i].op = "and" => x[i].names = {} /\ x[i].refs = {}
                      /\ \A r, t \in x[i].refs : r = t
                      /\ x[i].refs \subseteq Refs(e)
<1>4. \A i \in DOMAIN x : Fine(i)
  <2> SUFFICES ASSUME NEW i \in DOMAIN x
               PROVE  /\ x[i].parts \subseteq 1 .. (i - 1)
                      /\ x[i].op = "and" => x[i].names = {} /\ x[i].refs = {}
                      /\ \A r, t \in x[i].refs : r = t
                      /\ x[i].refs \subseteq Refs(e)
    OBVIOUS
  <2>1. CASE i \in DOMAIN e /\ x[i] = e[i]
    BY <2>1 DEF Expression, Refs
  <2>2. CASE x[i] = Leaf(n)
    BY <2>2 DEF Leaf, AnyOf
  <2>3. CASE Joined(e, n, x) /\ i = L + 2
    BY <1>0, <1>1, <2>3 DEF Joined, Together
  <2>4. CASE \E last : JoinedLast(e, n, x, last) /\ i \in {L + 1, L + 2}
    <3>1. PICK last : JoinedLast(e, n, x, last)
      BY <2>4
    <3>2. e[L].parts \subseteq 1 .. (L - 1) /\ last \in e[L].parts
      BY <1>0, <1>1, <3>1 DEF Expression, JoinedLast
    <3>3. last \in 1 .. L
      BY <1>0, <1>1, <3>2
    <3>4. CASE i = L + 1
      BY <1>0, <1>1, <3>1, <3>3, <3>4 DEF JoinedLast, Together
    <3>5. CASE i = L + 2
      <4>1. x[i] = Alternatives((e[L].parts \ {last}) \cup {L + 1})
        BY <1>0, <3>1, <3>5 DEF JoinedLast
      <4>2. (e[L].parts \ {last}) \cup {L + 1} \subseteq 1 .. (i - 1)
        BY <1>0, <1>1, <3>2, <3>5
      <4> QED BY <4>1, <4>2 DEF Alternatives
    <3> QED BY <2>4, <3>4, <3>5
  <2>5. i \in 1 .. L + 2
    BY <1>3
  <2>6. CASE Joined(e, n, x)
    <3>1. i \in 1 .. L \/ i = L + 1 \/ i = L + 2
      BY <1>0, <1>1, <2>5
    <3> QED BY <1>0, <1>1, <2>1, <2>2, <2>3, <2>6, <3>1 DEF Joined
  <2>7. CASE \E last : JoinedLast(e, n, x, last)
    <3>1. i \in 1 .. L - 1 \/ i = L \/ i \in {L + 1, L + 2}
      BY <1>0, <1>1, <2>5
    <3>2. 1 .. L - 1 \subseteq DOMAIN e
      BY <1>1
    <3> QED BY <1>0, <1>1, <2>1, <2>2, <2>4, <2>7, <3>1, <3>2 DEF JoinedLast
  <2>8. Joined(e, n, x) \/ \E last : JoinedLast(e, n, x, last)
    BY <1>2
  <2> QED BY ONLY <2>6, <2>7, <2>8
<1>5. Expression(x)
  <2> SUFFICES ASSUME NEW i \in DOMAIN x
               PROVE  /\ x[i].parts \subseteq 1 .. (i - 1)
                      /\ x[i].op = "and" => x[i].names = {} /\ x[i].refs = {}
                      /\ \A r, t \in x[i].refs : r = t
    BY <1>2 DEF Expression
  <2>1. Fine(i)
    BY <1>4
  <2> QED BY <2>1
<1>6. Refs(x) \subseteq Refs(e)
  <2> SUFFICES ASSUME NEW t \in Refs(x) PROVE t \in Refs(e)
    OBVIOUS
  <2>1. PICK i \in DOMAIN x : t \in x[i].refs
    BY RefsIs
  <2>2. x[i].refs \subseteq Refs(e)
    BY <1>4
  <2> QED BY ONLY <2>1, <2>2
<1>7. x # Nothing
  <2>1. Len(x) # 0
    BY <1>1, <1>3
  <2> QED BY <2>1 DEF Nothing
<1> QED BY <1>0, <1>2, <1>5, <1>6, <1>7 DEF Like

-----------------------------------------------------------------------------
(* Recursion over an initial segment of the numbers *)

Iterates(f, n, a, step) == f = [k \in 0 .. n |-> IF k = 0 THEN a ELSE step[k][f[k - 1]]]

LEMMA Iteration ==
  ASSUME NEW V, NEW n \in Nat, NEW a \in V, NEW step \in [1 .. n -> [V -> V]]
  PROVE  \E f \in [0 .. n -> V] : Iterates(f, n, a, step)
<1> DEFINE Upto(m, f) == f \in [0 .. m -> V] /\ f[0] = a /\ \A k \in 1 .. m : f[k] = step[k][f[k - 1]]
           N == {m \in Nat : m <= n => \E f : Upto(m, f)}
<1>1. 0 \in N
  <2> DEFINE f == [k \in 0 .. 0 |-> a]
  <2>1. Upto(0, f)
    OBVIOUS
  <2> QED BY <2>1
<1>2. \A m \in Nat : m \in N => m + 1 \in N
  <2> SUFFICES ASSUME NEW m \in Nat, m \in N, m + 1 <= n PROVE \E f : Upto(m + 1, f)
    OBVIOUS
  <2>1. m <= n
    OBVIOUS
  <2>2. PICK f : Upto(m, f)
    BY <2>1
  <2>3. PICK v : v = step[m + 1][f[m]]
    OBVIOUS
  <2>4. v \in V
    <3>1. m + 1 \in 1 .. n /\ m \in 0 .. m
      OBVIOUS
    <3>2. f[m] \in V
      BY <2>2, <3>1
    <3> QED BY <2>3, <3>1, <3>2
  <2>5. PICK g : g = [k \in 0 .. m + 1 |-> IF k = m + 1 THEN v ELSE f[k]]
    OBVIOUS
  <2>6. \A k \in 0 .. m + 1 : k # m + 1 => k \in 0 .. m
    OBVIOUS
  <2>7. g \in [0 .. m + 1 -> V]
    BY <2>2, <2>4, <2>5, <2>6
  <2>8. \A k \in 0 .. m : g[k] = f[k]
    BY <2>5
  <2>9. g[m + 1] = v
    BY <2>5
  <2>10. \A k \in 1 .. m + 1 : g[k] = step[k][g[k - 1]]
    <3> TAKE k \in 1 .. m + 1
    <3>1. k - 1 \in 0 .. m
      OBVIOUS
    <3>2. CASE k = m + 1
      <4>1. k - 1 = m
        BY <3>2
      <4> QED BY <2>3, <2>8, <2>9, <3>1, <3>2, <4>1
    <3>3. CASE k # m + 1
      <4>1. k \in 1 .. m /\ k \in 0 .. m
        BY <3>3
      <4> QED BY <2>2, <2>8, <3>1, <4>1
    <3> QED BY <3>2, <3>3
  <2>11. g[0] = a
    <3>1. 0 \in 0 .. m
      OBVIOUS
    <3> QED BY <2>2, <2>8, <3>1
  <2> QED BY <2>7, <2>10, <2>11
<1> HIDE DEF N
<1>3. n \in N
  BY <1>1, <1>2, SetInduction
<1>4. PICK f : Upto(n, f)
  BY <1>3 DEF N
<1>5. f = [k \in 0 .. n |-> IF k = 0 THEN a ELSE step[k][f[k - 1]]]
  <2>1. f = [k \in 0 .. n |-> f[k]]
    BY <1>4
  <2>2. \A k \in 0 .. n : f[k] = IF k = 0 THEN a ELSE step[k][f[k - 1]]
    <3> TAKE k \in 0 .. n
    <3>1. k # 0 => k \in 1 .. n
      OBVIOUS
    <3> QED BY <1>4, <3>1
  <2> QED BY <2>1, <2>2
<1> QED BY <1>4, <1>5 DEF Iterates

\* What holds at the start and of every step from it, holds at the end.
LEMMA Along ==
  ASSUME NEW n \in Nat, NEW f, NEW V, f[0] \in V, \A k \in 1 .. n : f[k - 1] \in V => f[k] \in V
  PROVE  f[n] \in V
<1> DEFINE N == {m \in Nat : m <= n => f[m] \in V}
<1>1. 0 \in N
  OBVIOUS
<1>2. \A m \in Nat : m \in N => m + 1 \in N
  <2> SUFFICES ASSUME NEW m \in Nat, m \in N, m + 1 <= n PROVE f[m + 1] \in V
    OBVIOUS
  <2>1. m + 1 \in 1 .. n /\ m + 1 - 1 = m /\ m <= n
    OBVIOUS
  <2>2. f[m] \in V
    BY <2>1
  <2> QED BY <2>1, <2>2
<1> HIDE DEF N
<1>3. n \in N
  BY <1>1, <1>2, SetInduction
<1> QED BY <1>3 DEF N

LEMMA OnlyIs ==
  ASSUME NEW X, NEW list \in Seq(X), NEW S
  PROVE  /\ Only(list, S) \in Seq(X) /\ Len(Only(list, S)) <= Len(list)
         /\ ToSet(Only(list, S)) = ToSet(list) \cap S
<1>1. PICK n \in Nat : n = Len(list)
  BY LenProperties
<1>2. \A k \in 1 .. n : list[k] \in X
  BY <1>1, ElementOfSeq
<1> DEFINE V == Seq(X)
           Next1(k, r) == IF list[k] \in S THEN Append(r, list[k]) ELSE r
           step == [k \in 1 .. n |-> [r \in V |-> Next1(k, r)]]
<1>3. \A k \in 1 .. n : \A r \in V : Next1(k, r) \in V
  <2> TAKE k \in 1 .. n
  <2> TAKE r \in V
  <2>1. list[k] \in X
    BY <1>2
  <2>2. Append(r, list[k]) \in V
    BY <2>1, AppendProperties
  <2> QED BY <2>2
<1>4. step \in [1 .. n -> [V -> V]]
  <2> HIDE DEF V, Next1
  <2> QED BY <1>3
<1>5. <<>> \in V
  BY EmptySeq
<1>6. PICK f \in [0 .. n -> V] : Iterates(f, n, <<>>, step)
  <2> HIDE DEF V, step
  <2> QED BY <1>4, <1>5, Iteration
<1>7. \A k \in 1 .. n : k - 1 \in 0 .. n /\ f[k - 1] \in V /\ step[k][f[k - 1]] = Next1(k, f[k - 1])
  <2> TAKE k \in 1 .. n
  <2>1. k - 1 \in 0 .. n
    OBVIOUS
  <2>2. f[k - 1] \in V
    BY <1>6, <2>1
  <2> HIDE DEF V, Next1
  <2> QED BY <2>1, <2>2
<1>8. f = [k \in 0 .. n |-> IF k = 0 THEN <<>>
                            ELSE IF list[k] \in S THEN Append(f[k - 1], list[k]) ELSE f[k - 1]]
  <2>1. \A k \in 0 .. n : f[k] = IF k = 0 THEN <<>> ELSE IF list[k] \in S THEN Append(f[k - 1], list[k]) ELSE f[k - 1]
    <3> TAKE k \in 0 .. n
    <3>1. k # 0 => k \in 1 .. n
      OBVIOUS
    <3>2. f[k] = IF k = 0 THEN <<>> ELSE step[k][f[k - 1]]
      <4> HIDE DEF step
      <4> QED BY <1>6 DEF Iterates
    <3> HIDE DEF step
    <3> QED BY <1>7, <3>1, <3>2
  <2>2. f = [k \in 0 .. n |-> f[k]]
    BY <1>6
  <2> QED BY <2>1, <2>2
<1> HIDE DEF V, step
<1>9. PICK g : g = CHOOSE h : h = [k \in 0 .. n |-> IF k = 0 THEN <<>>
                            ELSE IF list[k] \in S THEN Append(h[k - 1], list[k]) ELSE h[k - 1]]
  OBVIOUS
<1>10. g = [k \in 0 .. n |-> IF k = 0 THEN <<>>
                            ELSE IF list[k] \in S THEN Append(g[k - 1], list[k]) ELSE g[k - 1]]
  BY <1>8, <1>9
<1>11. Only(list, S) = g[n]
  BY <1>1, <1>9 DEF Only
<1>12. g[0] = <<>> /\ \A k \in 1 .. n : g[k] = IF list[k] \in S THEN Append(g[k - 1], list[k]) ELSE g[k - 1]
  <2>1. 0 \in 0 .. n /\ \A k \in 1 .. n : k \in 0 .. n /\ k # 0
    OBVIOUS
  <2> QED BY <1>10, <2>1
<1> DEFINE Good(k) == g[k] \in Seq(X) /\ Len(g[k]) <= k /\ ToSet(g[k]) = {list[j] : j \in 1 .. k} \cap S
           N == {m \in Nat : m <= n => Good(m)}
<1>13. 0 \in N
  <2>1. g[0] \in Seq(X) /\ Len(g[0]) = 0 /\ ToSet(g[0]) = {}
    BY <1>12, EmptySeq DEF ToSet
  <2> QED BY <2>1
<1>14. \A m \in Nat : m \in N => m + 1 \in N
  <2> HIDE DEF Good
  <2> SUFFICES ASSUME NEW m \in Nat, m \in N, m + 1 <= n PROVE Good(m + 1)
    OBVIOUS
  <2>1. Good(m)
    OBVIOUS
  <2> HIDE DEF N
  <2> USE DEF Good
  <2>2. m + 1 \in 1 .. n /\ m + 1 - 1 = m
    OBVIOUS
  <2>3. PICK r, v : r = g[m] /\ v = list[m + 1]
    OBVIOUS
  <2>4. g[m + 1] = IF v \in S THEN Append(r, v) ELSE r
    BY <1>12, <2>2, <2>3
  <2>5. {list[j] : j \in 1 .. m + 1} = {list[j] : j \in 1 .. m} \cup {v}
    <3>1. 1 .. m + 1 = 1 .. m \cup {m + 1}
      OBVIOUS
    <3> QED BY <2>3, <3>1
  <2>6. v \in X
    BY <1>2, <2>2, <2>3
  <2>7. r \in Seq(X) /\ Len(r) <= m /\ ToSet(r) = {list[j] : j \in 1 .. m} \cap S /\ Len(r) \in Nat
    BY <2>1, <2>3, LenProperties
  <2>8. CASE v \in S
    <3>1. PICK w : w = Append(r, v)
      OBVIOUS
    <3>2. w \in Seq(X) /\ Len(w) = Len(r) + 1 /\ (\A i \in 1 .. Len(r) : w[i] = r[i]) /\ w[Len(r) + 1] = v
      BY <2>6, <2>7, <3>1, AppendProperties
    <3>3. ToSet(w) = ToSet(r) \cup {v}
      <4>1. DOMAIN w = 1 .. Len(r) + 1 /\ DOMAIN r = 1 .. Len(r)
        BY <2>7, <3>2, LenProperties
      <4>2. 1 .. Len(r) + 1 = 1 .. Len(r) \cup {Len(r) + 1}
        BY <2>7
      <4> QED BY <3>2, <4>1, <4>2 DEF ToSet
    <3>4. Len(w) <= m + 1
      BY <2>7, <3>2
    <3>5. ToSet(w) = {list[j] : j \in 1 .. m + 1} \cap S
      BY <2>5, <2>7, <2>8, <3>3
    <3> QED BY <2>4, <2>8, <3>1, <3>2, <3>4, <3>5
  <2>9. CASE v \notin S
    <3>1. ToSet(r) = {list[j] : j \in 1 .. m + 1} \cap S
      BY <2>5, <2>7, <2>9
    <3> QED BY <2>4, <2>7, <2>9, <3>1
  <2> QED BY <2>8, <2>9
<1> HIDE DEF N, Good
<1>15. n \in N
  BY <1>13, <1>14, SetInduction
<1>16. Good(n)
  BY <1>15 DEF N
<1>17. ToSet(list) = {list[j] : j \in 1 .. n}
  <2>1. DOMAIN list = 1 .. n
    BY <1>1, LenProperties
  <2> QED BY <2>1 DEF ToSet
<1> QED BY <1>1, <1>11, <1>16, <1>17 DEF Good

\* A set of expressions that every pin leaves is not left by the pins.
Steady(V, s) ==
  \A k \in DOMAIN PinNames : \A e \in V : Joins(s, e, PinNames[k]) => Extended(e, PinNames[k]) \in V

LEMMA PinnedIn ==
  ASSUME NEW s, NEW V, Filled(s) \in V, Steady(V, s), NEW X, PinNames \in Seq(X)
  PROVE  Pinned(s) \in V
<1>1. PICK n \in Nat : n = Len(PinNames)
  BY LenProperties
<1>2. DOMAIN PinNames = 1 .. n
  BY <1>1, LenProperties
<1> DEFINE Next1(k, e) == IF Joins(s, e, PinNames[k]) THEN Extended(e, PinNames[k]) ELSE e
           step == [k \in 1 .. n |-> [e \in V |-> Next1(k, e)]]
<1>3. \A k \in 1 .. n : \A e \in V : Next1(k, e) \in V
  BY <1>2 DEF Steady
<1>4. step \in [1 .. n -> [V -> V]]
  <2> HIDE DEF Next1
  <2> QED BY <1>3
<1>5. PICK f \in [0 .. n -> V] : Iterates(f, n, Filled(s), step)
  <2> HIDE DEF step
  <2> QED BY <1>4, Iteration
<1>6. \A k \in 1 .. n : k - 1 \in 0 .. n /\ f[k - 1] \in V /\ step[k][f[k - 1]] = Next1(k, f[k - 1])
  <2> TAKE k \in 1 .. n
  <2>1. k - 1 \in 0 .. n
    OBVIOUS
  <2>2. f[k - 1] \in V
    BY <1>5, <2>1
  <2> HIDE DEF Next1
  <2> QED BY <2>1, <2>2
<1> HIDE DEF step
<1>7. f = [k \in 0 .. n |-> IF k = 0 THEN Filled(s) ELSE Next1(k, f[k - 1])]
  <2>1. \A k \in 0 .. n : f[k] = IF k = 0 THEN Filled(s) ELSE Next1(k, f[k - 1])
    <3> TAKE k \in 0 .. n
    <3>1. k # 0 => k \in 1 .. n
      OBVIOUS
    <3> HIDE DEF Next1
    <3>2. f[k] = IF k = 0 THEN Filled(s) ELSE step[k][f[k - 1]]
      BY <1>5 DEF Iterates
    <3> QED BY <1>6, <3>1, <3>2
  <2>2. f = [k \in 0 .. n |-> f[k]]
    BY <1>5
  <2> HIDE DEF Next1
  <2> QED BY <2>1, <2>2
<1>8. PICK g : g = CHOOSE h : h = [k \in 0 .. n |-> IF k = 0 THEN Filled(s) ELSE Next1(k, h[k - 1])]
  OBVIOUS
<1>9. g = [k \in 0 .. n |-> IF k = 0 THEN Filled(s) ELSE Next1(k, g[k - 1])]
  <2> HIDE DEF Next1
  <2> QED BY <1>7, <1>8
<1>10. Pinned(s) = g[n]
  BY <1>1, <1>8 DEF Pinned
<1> HIDE DEF Next1
<1>11. g[0] \in V
  <2>1. 0 \in 0 .. n
    OBVIOUS
  <2> QED BY <1>9, <2>1
<1>12. \A k \in 1 .. n : g[k - 1] \in V => g[k] \in V
  <2> SUFFICES ASSUME NEW k \in 1 .. n, g[k - 1] \in V PROVE g[k] \in V
    OBVIOUS
  <2>1. k \in 0 .. n /\ k # 0
    OBVIOUS
  <2> QED BY <1>3, <1>9, <2>1
<1>13. g[n] \in V
  BY <1>11, <1>12, Along
<1> QED BY <1>10, <1>13

-----------------------------------------------------------------------------
(* The configured sets *)

LEMMA ConfiguredSound ==
  ASSUME in \in Instances
  PROVE  /\ Sound(Sets) /\ Apart(in)
         /\ \A s \in SetNames : Written(Sets[s]) /\ Expression(Sets[s]) /\ Sets[s] # Nothing
<1>1. Instance(in)
  BY RoutingAssumption
<1>2. /\ in.sets \in Seq([name : STRING, expr : Seq(Group)]) /\ Acyclic(Sets) /\ Apart(in)
      /\ \A s \in SetNames : Written(Sets[s])
  BY <1>1 DEF Instance, Sets, SetNames
<1>3. IsFiniteSet(SetNames)
  <2>1. SetNames = {in.sets[k].name : k \in DOMAIN in.sets}
    BY DEF SetNames, Sets, Configured
  <2> DEFINE f == [k \in DOMAIN in.sets |-> in.sets[k].name]
  <2>2. f \in Surjection(DOMAIN in.sets, SetNames)
    BY <2>1 DEF Surjection
  <2>3. DOMAIN in.sets = 1 .. Len(in.sets) /\ Len(in.sets) \in Nat
    BY <1>2, LenProperties
  <2>4. IsFiniteSet(DOMAIN in.sets)
    <3>1. 1 \in Int /\ Len(in.sets) \in Int
      BY <2>3
    <3> QED BY <2>3, <3>1, FS_Interval
  <2> HIDE DEF f
  <2> QED BY <2>2, <2>4, FS_Surjection
<1>4. \A s \in SetNames : Expression(Sets[s]) /\ Sets[s] # Nothing
  BY <1>2 DEF Written
<1>5. Sound(Sets)
  BY <1>2, <1>3, <1>4, SoundOfAcyclic DEF SetNames
<1> QED BY <1>2, <1>4, <1>5

\* What a group of a configured set is.
LEMMA Kinds ==
  ASSUME in \in Instances, NEW s \in SetNames, NEW i \in DOMAIN Sets[s]
  PROVE  /\ Sets[s][i] \in Group /\ i \in Nat /\ Sets[s][i].parts \subseteq DOMAIN Sets[s]
         /\ \A j \in Sets[s][i].parts : j \in Nat /\ j < i
         /\ \/ \E n \in Name : Sets[s][i] = Leaf(n)
            \/ \E t \in STRING \ {s} : Sets[s][i] = Reference(t)
            \/ Sets[s][i].names = {} /\ Sets[s][i].refs = {} /\ Sets[s][i].parts # {}
         /\ \/ \A j \in Sets[s][i].parts : Sets[s][j] # Leaf(COLOAD)
            \/ Sets[s][i].op = "and" /\ \E j \in Sets[s][i].parts : Sets[s][j] # Leaf(COLOAD)
         /\ i = Len(Sets[s]) => Sets[s][i] # Leaf(COLOAD)
<1>1. PICK e : e = Sets[s]
  OBVIOUS
<1>2. Written(e) /\ Expression(e) /\ Sound(Sets)
  BY <1>1, ConfiguredSound
<1>3. e[i] \in Group /\ DOMAIN e = 1 .. Len(e) /\ Len(e) \in Nat
  BY <1>1, <1>2, Lengths
<1>4. i \in Nat /\ e[i].parts \subseteq 1 .. (i - 1)
  BY <1>1, <1>2, <1>3 DEF Expression
<1>5. e[i].parts \subseteq DOMAIN e /\ \A j \in e[i].parts : j \in Nat /\ j < i
  BY <1>1, <1>3, <1>4
<1>6. s \notin e[i].refs
  <2>1. PICK rank \in [SetNames -> Nat] : Descends(Sets, rank)
    BY <1>2 DEF Sound, SetNames
  <2>2. rank[s] \in Nat
    BY <2>1
  <2>3. \A t \in e[i].refs \cap SetNames : rank[t] < rank[s]
    BY <1>1, <2>1 DEF Descends, SetNames
  <2> QED BY <2>2, <2>3
<1>7. e[i].names \subseteq Name /\ e[i].refs \subseteq STRING
  BY <1>3 DEF Group
<1> QED BY <1>1, <1>2, <1>3, <1>4, <1>5, <1>6, <1>7 DEF Written

\* What the expansion starts from: chat entries, and lists of them.
Ready ==
  /\ in \in Instances
  /\ entries # <<>> /\ entries \in Seq(ToSet(in.chats)) /\ Len(entries) <= Len(in.chats)
  /\ lists \in [SetNames -> SUBSET ChatVars]

LEMMA ChatVarsAre ==
  ASSUME in \in Instances, entries \in Seq(ToSet(in.chats)), Len(entries) <= Len(in.chats)
  PROVE  /\ ChatVars \subseteq ChatNames(in) /\ ChatNames(in) \subseteq Name
         /\ entries # <<>> => ChatVars # {}
<1>1. in.chats \in Seq([var : Name, stem : STRING])
  BY RoutingAssumption DEF Instance
<1>2. PICK n, m \in Nat : n = Len(entries) /\ m = Len(in.chats)
  BY <1>1, LenProperties
<1>3. DOMAIN entries = 1 .. n /\ DOMAIN in.chats = 1 .. m /\ n <= m
  BY <1>1, <1>2, LenProperties
<1>4. \A i \in DOMAIN in.chats : in.chats[i].var \in Name
  <2> TAKE i \in DOMAIN in.chats
  <2>1. in.chats[i] \in [var : Name, stem : STRING]
    BY <1>1, <1>2, <1>3, ElementOfSeq
  <2> QED BY <2>1
<1>5. DOMAIN entries \subseteq DOMAIN in.chats
  BY <1>2, <1>3
<1>6. entries # <<>> => 1 \in DOMAIN entries
  <2>1. entries # <<>> => n # 0
    BY <1>2, EmptySeq
  <2> QED BY <1>2, <1>3, <2>1
<1> QED BY <1>4, <1>5, <1>6 DEF ChatVars, ChatNames

LEMMA ColoadVarsAre == ColoadVars \subseteq {"s2t", "s2t2"}
BY DEF ColoadVars, ColoadVar

\* A set's expression with its placeholders filled, group by group.
LEMMA FilledIs ==
  ASSUME Ready, NEW s \in SetNames
  PROVE  /\ Filled(s) \in Like(Sets[s]) /\ Filled(s) # Nothing
         /\ DOMAIN Filled(s) = DOMAIN Sets[s] /\ Len(Filled(s)) = Len(Sets[s])
         /\ \A i \in DOMAIN Sets[s] :
              /\ Sets[s][i] = Leaf(CHAT) => Filled(s)[i] = AnyOf(ChatOf(s))
              /\ Sets[s][i] = Leaf(COLOAD) => Filled(s)[i] = AnyOf(ColoadVars)
              /\ Sets[s][i] \notin {Leaf(CHAT), Leaf(COLOAD)} =>
                   /\ Filled(s)[i].op = Sets[s][i].op
                   /\ Filled(s)[i].names = Sets[s][i].names
                   /\ Filled(s)[i].refs = Sets[s][i].refs
                   /\ Filled(s)[i].parts =
                        {j \in Sets[s][i].parts : ColoadVars # {} \/ Sets[s][j] # Leaf(COLOAD)}
<1>1. PICK e, x, w : e = Sets[s] /\ x = Filled(s) /\ w = Substituted(e, CHAT, ChatOf(s))
  OBVIOUS
<1>2. /\ Expression(e) /\ e # Nothing /\ e \in Seq(Group) /\ Len(e) \in Nat
      /\ DOMAIN e = 1 .. Len(e) /\ \A i \in DOMAIN e : e[i] \in Group
  BY <1>1, ConfiguredSound, Lengths DEF Ready
<1>3. ChatOf(s) # {} /\ ChatOf(s) \subseteq ChatVars /\ ChatVars \subseteq Name /\ ChatVars \subseteq ChatNames(in)
  BY ChatVarsAre DEF Ready, ChatOf
<1>4. CHAT # COLOAD /\ COLOAD \notin ChatNames(in)
  BY ConfiguredSound DEF Ready, Apart
<1>5. /\ DOMAIN w = DOMAIN e
      /\ \A i \in DOMAIN e : w[i] = IF e[i] = Leaf(CHAT) THEN AnyOf(ChatOf(s)) ELSE e[i]
  BY <1>1 DEF Substituted
<1>6. w \in Like(e)
  <2>1. ChatOf(s) \in SUBSET Name
    BY <1>3
  <2> QED BY <1>1, <1>2, <2>1, SubstitutedLike
<1>7. \A m, n : Leaf(m) = Leaf(n) <=> m = n
  BY DEF Leaf, AnyOf
<1>8. \A i \in DOMAIN e : w[i] = Leaf(COLOAD) <=> e[i] = Leaf(COLOAD)
  <2> TAKE i \in DOMAIN e
  <2>1. CASE e[i] = Leaf(CHAT)
    <3>1. w[i] = AnyOf(ChatOf(s)) /\ e[i] # Leaf(COLOAD)
      BY <1>4, <1>5, <1>7, <2>1
    <3>2. ChatOf(s) # {COLOAD}
      BY <1>3, <1>4
    <3> QED BY <3>1, <3>2 DEF Leaf, AnyOf
  <2>2. CASE e[i] # Leaf(CHAT)
    BY <1>5, <2>2
  <2> QED BY <2>1, <2>2
<1>9. \A i \in DOMAIN e : /\ e[i] = Leaf(CHAT) => w[i] = AnyOf(ChatOf(s))
                          /\ e[i] # Leaf(CHAT) => w[i] = e[i]
  BY <1>5
<1>10. CASE ColoadVars # {}
  <2>1. x = Substituted(w, COLOAD, ColoadVars)
    BY <1>1, <1>10 DEF Filled
  <2>2. ColoadVars \in SUBSET Name
    BY ColoadVarsAre, NameAssumption
  <2>3. Expression(w)
    BY <1>6 DEF Like
  <2>4. x \in Like(w)
    BY <2>1, <2>2, <2>3, SubstitutedLike
  <2>5. x \in Like(e)
    BY <1>6, <2>4 DEF Like
  <2>6. /\ DOMAIN x = DOMAIN e
        /\ \A i \in DOMAIN e : x[i] = IF w[i] = Leaf(COLOAD) THEN AnyOf(ColoadVars) ELSE w[i]
    BY <1>5, <2>1 DEF Substituted
  <2>7. Len(x) = Len(e) /\ x # Nothing
    <3>1. x \in Seq(Group)
      BY <2>5 DEF Like
    <3>2. DOMAIN x = 1 .. Len(x) /\ Len(x) \in Nat
      BY <3>1, LenProperties
    <3>3. Len(x) = Len(e)
      BY <1>2, <2>6, <3>2
    <3>4. Len(e) # 0
      BY <1>2, EmptySeq DEF Nothing
    <3> QED BY <3>3, <3>4 DEF Nothing
  <2>8. \A i \in DOMAIN e :
          /\ e[i] = Leaf(CHAT) => x[i] = AnyOf(ChatOf(s))
          /\ e[i] = Leaf(COLOAD) => x[i] = AnyOf(ColoadVars)
          /\ e[i] \notin {Leaf(CHAT), Leaf(COLOAD)} => x[i] = e[i]
    BY <1>4, <1>7, <1>8, <1>9, <2>6
  <2>9. \A i \in DOMAIN e : {j \in e[i].parts : ColoadVars # {} \/ e[j] # Leaf(COLOAD)} = e[i].parts
    BY <1>10
  <2> QED BY <1>1, <2>5, <2>6, <2>7, <2>8, <2>9
<1>11. CASE ColoadVars = {}
  <2>1. PICK alone : alone = [t \in {s} |-> w]
    OBVIOUS
  <2>2. DOMAIN alone = {s} /\ alone[s] = w
    BY <2>1
  <2>3. x = Pruned(s, alone, {COLOAD})
    BY <1>1, <1>11, <2>1 DEF Filled
  <2>4. Sound(alone)
    <3>1. Sound(Sets)
      BY ConfiguredSound DEF Ready
    <3>2. DOMAIN alone \subseteq DOMAIN Sets
      BY <2>2 DEF SetNames
    <3>3. \A t \in DOMAIN alone : alone[t] \in Like(Sets[t])
      BY <1>1, <1>6, <2>2
    <3> QED BY <3>1, <3>2, <3>3, SoundLike
  <2> DEFINE left(i) == Remains(alone, {COLOAD})[<<s, i>>]
  <2>5. Places(alone) = {<<s, i>> : i \in DOMAIN e}
    BY <1>5, <2>2 DEF Places
  <2>6. \A i \in DOMAIN e : At(alone, <<s, i>>) = w[i]
    BY <2>2 DEF At
  <2>7. \A i \in DOMAIN e : e[i] = Leaf(COLOAD) => ~left(i)
    <3> SUFFICES ASSUME NEW i \in DOMAIN e, e[i] = Leaf(COLOAD) PROVE ~left(i)
      OBVIOUS
    <3>1. w[i] = Leaf(COLOAD)
      BY <1>8
    <3>2. w[i].names = {COLOAD} /\ w[i].refs = {} /\ w[i].parts = {}
      BY <3>1 DEF Leaf, AnyOf
    <3>3. Under(alone, <<s, i>>) = {}
      BY <2>6, <3>2 DEF Under
    <3>4. <<s, i>> \in Places(alone)
      BY <2>5
    <3> QED BY <2>4, <2>6, <3>2, <3>3, <3>4, RemainsEq
  <2> DEFINE G == {p \in Places(alone) : \A i \in DOMAIN e : p = <<s, i>> /\ e[i] # Leaf(COLOAD) => left(i)}
  <2>8. \A p \in Places(alone) : Under(alone, p) \subseteq G => p \in G
    <3> SUFFICES ASSUME NEW i \in DOMAIN e, Under(alone, <<s, i>>) \subseteq G, e[i] # Leaf(COLOAD)
                 PROVE  left(i)
      BY <2>5
    <3>1. <<s, i>> \in Places(alone)
      BY <2>5
    <3>2. (w[i].names \ {COLOAD} # {} \/ w[i].refs \ {s} # {} \/ \E q \in Under(alone, <<s, i>>) : Remains(alone, {COLOAD})[q])
          => left(i)
      BY <2>2, <2>4, <2>6, <3>1, RemainsEq
    <3> HIDE DEF left
    <3>3. CASE e[i] = Leaf(CHAT)
      <4>1. w[i].names = ChatOf(s)
        BY <1>9, <3>3 DEF AnyOf
      <4> QED BY <1>3, <1>4, <3>2, <4>1
    <3>4. CASE e[i] # Leaf(CHAT)
      <4>1. w[i] = e[i]
        BY <1>9, <3>4
      <4>2. \/ \E n \in Name : e[i] = Leaf(n)
            \/ \E t \in STRING \ {s} : e[i] = Reference(t)
            \/ e[i].parts # {}
        BY <1>1, Kinds DEF Ready
      <4>3. CASE \E n \in Name : e[i] = Leaf(n)
        <5>1. PICK n : e[i] = Leaf(n)
          BY <4>3
        <5>2. w[i].names = {n} /\ n # COLOAD
          BY <1>7, <4>1, <5>1 DEF Leaf, AnyOf
        <5> QED BY <3>2, <5>2
      <4>4. CASE \E t \in STRING \ {s} : e[i] = Reference(t)
        <5>1. PICK t : t # s /\ e[i] = Reference(t)
          BY <4>4
        <5>2. w[i].refs = {t}
          BY <4>1, <5>1 DEF Reference
        <5> QED BY <3>2, <5>1, <5>2
      <4>5. CASE e[i].parts # {}
        <5>1. PICK j \in e[i].parts : e[j] # Leaf(COLOAD)
          BY <1>1, <4>5, Kinds DEF Ready
        <5>2. j \in DOMAIN e
          BY <1>1, <5>1, Kinds DEF Ready
        <5>3. <<s, j>> \in Under(alone, <<s, i>>)
          BY <2>6, <4>1, <5>1 DEF Under
        <5>4. left(j)
          BY <5>1, <5>2, <5>3
        <5> QED BY <3>2, <5>3, <5>4 DEF left
      <4> QED BY <4>2, <4>3, <4>4, <4>5
    <3> QED BY <3>3, <3>4
  <2>9. \A i \in DOMAIN e : left(i) <=> e[i] # Leaf(COLOAD)
    <3> HIDE DEF left
    <3>1. Places(alone) \subseteq G
      <4> HIDE DEF G
      <4> QED BY <2>4, <2>8, Upwards
    <3> QED BY <2>5, <2>7, <3>1
  <2>10. Survives(s, alone, {COLOAD})
    <3>1. Len(w) = Len(e) /\ Len(e) \in DOMAIN e /\ w # Nothing
      <4>1. w \in Seq(Group)
        BY <1>6 DEF Like
      <4>2. DOMAIN w = 1 .. Len(w) /\ Len(w) \in Nat
        BY <4>1, LenProperties
      <4>3. Len(w) = Len(e)
        BY <1>2, <1>5, <4>2
      <4>4. Len(e) # 0
        BY <1>2, EmptySeq DEF Nothing
      <4> QED BY <1>2, <4>3, <4>4 DEF Nothing
    <3>2. e[Len(e)] # Leaf(COLOAD)
      BY <1>1, <3>1, Kinds DEF Ready
    <3> QED BY <2>2, <2>9, <3>1, <3>2 DEF Survives, Root
  <2>11. x \in Like(e)
    <3>1. x \in Like(w)
      BY <2>2, <2>3, <2>4, PrunedLike
    <3> QED BY <1>6, <3>1 DEF Like
  <2>12. /\ DOMAIN x = DOMAIN w /\ Len(x) = Len(w) /\ x # Nothing
         /\ \A i \in DOMAIN w : left(i) =>
              /\ x[i].op = w[i].op /\ x[i].refs = w[i].refs /\ x[i].names = w[i].names \ {COLOAD}
              /\ x[i].parts = {j \in w[i].parts : left(j)}
         /\ \A i \in DOMAIN w : ~left(i) => x[i] = AnyOf({})
    <3> HIDE DEF left
    <3>1. s \in DOMAIN alone
      BY <2>2
    <3> USE DEF left
    <3>2. /\ DOMAIN x = DOMAIN alone[s] /\ Len(x) = Len(alone[s]) /\ x # Nothing
          /\ \A i \in DOMAIN alone[s] : left(i) =>
               /\ x[i].op = alone[s][i].op /\ x[i].refs = alone[s][i].refs
               /\ x[i].names = alone[s][i].names \ {COLOAD}
               /\ x[i].parts = {j \in alone[s][i].parts : left(j)}
          /\ \A i \in DOMAIN alone[s] : ~left(i) => x[i] = AnyOf({})
      <4> HIDE DEF left
      <4>1. PICK d : d = {COLOAD}
        OBVIOUS
      <4>2. Survives(s, alone, d) /\ x = Pruned(s, alone, d) /\ \A i : left(i) <=> Remains(alone, d)[<<s, i>>]
        BY <2>3, <2>10, <4>1 DEF left
      <4>3. /\ DOMAIN x = DOMAIN alone[s] /\ Len(x) = Len(alone[s]) /\ x # Nothing
            /\ \A i \in DOMAIN alone[s] : Remains(alone, d)[<<s, i>>] =>
                 /\ x[i].op = alone[s][i].op /\ x[i].refs = alone[s][i].refs
                 /\ x[i].names = alone[s][i].names \ d
                 /\ x[i].parts = {j \in alone[s][i].parts : Remains(alone, d)[<<s, j>>]}
            /\ \A i \in DOMAIN alone[s] : ~Remains(alone, d)[<<s, i>>] => x[i] = AnyOf({})
        BY <2>4, <3>1, <4>2, PrunedIs
      <4> QED BY <4>1, <4>2, <4>3
    <3> HIDE DEF left
    <3> QED BY <2>2, <3>2
  <2>13. Len(w) = Len(e)
    <3>1. w \in Seq(Group)
      BY <1>6 DEF Like
    <3> QED BY <1>2, <1>5, <3>1, LenProperties
  <2> HIDE DEF left
  <2>14. \A i \in DOMAIN e : e[i] = Leaf(CHAT) => x[i] = AnyOf(ChatOf(s))
    <3> SUFFICES ASSUME NEW i \in DOMAIN e, e[i] = Leaf(CHAT) PROVE x[i] = AnyOf(ChatOf(s))
      OBVIOUS
    <3>1. w[i] = AnyOf(ChatOf(s)) /\ left(i)
      BY <1>4, <1>7, <1>9, <2>9
    <3>2. w[i].op = "or" /\ w[i].refs = {} /\ w[i].names = ChatOf(s) /\ w[i].parts = {}
      BY <3>1 DEF AnyOf
    <3>3. x[i].op = "or" /\ x[i].refs = {} /\ x[i].names = ChatOf(s) /\ x[i].parts = {}
      <4>1. /\ x[i].op = w[i].op /\ x[i].refs = w[i].refs /\ x[i].names = w[i].names \ {COLOAD}
            /\ x[i].parts = {j \in w[i].parts : left(j)}
        BY <1>5, <2>12, <3>1
      <4>2. COLOAD \notin ChatOf(s)
        BY <1>3, <1>4
      <4> QED BY <3>2, <4>1, <4>2
    <3>4. x[i] \in Group
      BY <1>2, <1>5, <2>11, <2>12, Lengths DEF Like
    <3> QED BY <3>3, <3>4 DEF AnyOf, Group
  <2>15. \A i \in DOMAIN e : e[i] = Leaf(COLOAD) => x[i] = AnyOf(ColoadVars)
    BY <1>5, <1>11, <2>9, <2>12
  <2>16. \A i \in DOMAIN e : e[i] \notin {Leaf(CHAT), Leaf(COLOAD)} =>
           /\ x[i].op = e[i].op /\ x[i].names = e[i].names /\ x[i].refs = e[i].refs
           /\ x[i].parts = {j \in e[i].parts : ColoadVars # {} \/ e[j] # Leaf(COLOAD)}
    <3> SUFFICES ASSUME NEW i \in DOMAIN e, e[i] \notin {Leaf(CHAT), Leaf(COLOAD)}
                 PROVE  /\ x[i].op = e[i].op /\ x[i].names = e[i].names /\ x[i].refs = e[i].refs
                        /\ x[i].parts = {j \in e[i].parts : ColoadVars # {} \/ e[j] # Leaf(COLOAD)}
      OBVIOUS
    <3>1. w[i] = e[i] /\ left(i) /\ i \in DOMAIN w
      BY <1>5, <1>9, <2>9
    <3>2. e[i].parts \subseteq DOMAIN e
      BY <1>1, Kinds DEF Ready
    <3>3. COLOAD \notin e[i].names
      <4>1. \/ \E n \in Name : e[i] = Leaf(n)
            \/ \E t \in STRING \ {s} : e[i] = Reference(t)
            \/ e[i].names = {}
        BY <1>1, Kinds DEF Ready
      <4> QED BY <1>7, <4>1 DEF Leaf, AnyOf, Reference
    <3>4. /\ x[i].op = e[i].op /\ x[i].refs = e[i].refs /\ x[i].names = e[i].names \ {COLOAD}
          /\ x[i].parts = {j \in e[i].parts : left(j)}
      BY <2>12, <3>1
    <3>5. {j \in e[i].parts : left(j)} = {j \in e[i].parts : ColoadVars # {} \/ e[j] # Leaf(COLOAD)}
      BY <1>11, <2>9, <3>2
    <3> QED BY <3>3, <3>4, <3>5
  <2> QED BY <1>1, <1>5, <2>11, <2>12, <2>13, <2>14, <2>15, <2>16
<1> QED BY <1>10, <1>11

-----------------------------------------------------------------------------
(* The fleet's categories *)

LEMMA OwnElements ==
  ASSUME NEW T, NEW s \in Seq(T)
  PROVE  s \in Seq(ToSet(s)) /\ ToSet(s) \subseteq T
<1>1. Len(s) \in Nat /\ DOMAIN s = 1 .. Len(s)
  BY LenProperties
<1>2. \A i \in 1 .. Len(s) : s[i] \in ToSet(s) /\ s[i] \in T
  BY <1>1, ElementOfSeq DEF ToSet
<1>3. s = [i \in 1 .. Len(s) |-> s[i]]
  BY <1>1
<1>4. s \in Seq(ToSet(s))
  BY <1>1, <1>2, <1>3, IsASeq
<1>5. ToSet(s) \subseteq T
  BY <1>1, <1>2 DEF ToSet
<1> QED BY <1>4, <1>5

LEMMA BoundIs ==
  ASSUME in \in Instances
  PROVE  /\ Bound \in Seq(ToSet(Specs)) /\ Len(Bound) \in Nat
         /\ ToSet(Bound) = {spec \in ToSet(Specs) : Selected(spec.role, spec.selector) # None}
         /\ \A spec \in ToSet(Specs) : spec.name \in Name /\ spec.name \in CategoryNames(in)
<1>1. in.specs \in Seq([name : Name, role : STRING, selector : {None} \cup SUBSET STRING])
  BY RoutingAssumption DEF Instance
<1>2. Specs \in Seq(ToSet(Specs)) /\ \A spec \in ToSet(Specs) : spec.name \in Name /\ spec.name \in CategoryNames(in)
  <2>1. CASE in.specs = <<>>
    <3>1. PICK a, b : a = [name |-> "emb", role |-> "embeddings", selector |-> None]
                      /\ b = [name |-> "rnk", role |-> "rerank", selector |-> None]
      OBVIOUS
    <3>2. Specs = <<a, b>>
      BY <2>1, <3>1 DEF Specs, Default
    <3>3. Specs \in Seq({a, b})
      BY <3>2
    <3>4. Specs \in Seq(ToSet(Specs)) /\ ToSet(Specs) \subseteq {a, b}
      BY <3>3, OwnElements
    <3>5. a.name = "emb" /\ b.name = "rnk"
      BY <3>1
    <3>6. \A spec \in {a, b} : spec.name \in Name /\ spec.name \in CategoryNames(in)
      BY <3>5, NameAssumption DEF CategoryNames, Pair
    <3> QED BY <3>4, <3>6
  <2>2. CASE in.specs # <<>>
    <3>1. Specs = in.specs
      BY <2>2 DEF Specs
    <3>2. Specs \in Seq(ToSet(Specs))
      BY <1>1, <3>1, OwnElements
    <3>3. \A k \in DOMAIN in.specs : in.specs[k].name \in Name
      <4> TAKE k \in DOMAIN in.specs
      <4>1. DOMAIN in.specs = 1 .. Len(in.specs)
        BY <1>1, LenProperties
      <4>2. in.specs[k] \in [name : Name, role : STRING, selector : {None} \cup SUBSET STRING]
        BY <1>1, <4>1, ElementOfSeq
      <4> QED BY <4>2
    <3> QED BY <3>1, <3>2, <3>3 DEF ToSet, CategoryNames
  <2> QED BY <2>1, <2>2
<1>3. PICK X, S, list : X = ToSet(Specs) /\ list = Specs /\ S = {spec \in ToSet(Specs) : Selected(spec.role, spec.selector) # None}
  OBVIOUS
<1>4. Only(list, S) \in Seq(X) /\ ToSet(Only(list, S)) = ToSet(list) \cap S
  BY <1>2, <1>3, OnlyIs
<1>5. Bound = Only(list, S)
  BY <1>3 DEF Bound
<1>6. Bound \in Seq(X) /\ ToSet(Bound) = S
  BY <1>3, <1>4, <1>5
<1>7. Len(Bound) \in Nat
  BY <1>6, LenProperties
<1> QED BY <1>2, <1>3, <1>6, <1>7

LEMMA OrderIs ==
  ASSUME in \in Instances
  PROVE  /\ Order \in Seq(Name) /\ ToSet(Order) \subseteq CategoryNames(in)
         /\ ToSet(Order) = {Bound[i].name : i \in DOMAIN Bound} \cup Pair
<1>1. PICK names : names = [i \in DOMAIN Bound |-> Bound[i].name]
  OBVIOUS
<1>2. /\ Bound \in Seq(ToSet(Specs)) /\ Len(Bound) \in Nat
      /\ \A spec \in ToSet(Specs) : spec.name \in Name /\ spec.name \in CategoryNames(in)
  BY BoundIs
<1>3. DOMAIN Bound = 1 .. Len(Bound) /\ \A i \in 1 .. Len(Bound) : Bound[i] \in ToSet(Specs)
  BY <1>2, LenProperties, ElementOfSeq
<1>4. names \in Seq(Name) /\ ToSet(names) = {Bound[i].name : i \in DOMAIN Bound}
  <2>1. \A i \in 1 .. Len(Bound) : names[i] \in Name
    BY <1>1, <1>2, <1>3
  <2>2. names = [i \in 1 .. Len(Bound) |-> names[i]]
    BY <1>1, <1>3
  <2>3. names \in Seq(Name)
    BY <1>2, <2>1, <2>2, IsASeq
  <2>4. DOMAIN names = DOMAIN Bound
    BY <1>1
  <2> QED BY <1>1, <2>3, <2>4 DEF ToSet
<1>5. PICK rest, missing : missing = Pair \ ToSet(names) /\ rest = Only(<<"emb", "rnk">>, missing)
  OBVIOUS
<1>6. rest \in Seq(Name) /\ ToSet(rest) = Pair \ ToSet(names)
  <2>1. PICK both : both = <<"emb", "rnk">>
    OBVIOUS
  <2>2. both \in Seq(Name) /\ ToSet(both) = Pair
    <3>1. "emb" \in Name /\ "rnk" \in Name
      BY NameAssumption
    <3>2. DOMAIN both = {1, 2} /\ both[1] = "emb" /\ both[2] = "rnk"
      BY <2>1
    <3> QED BY <2>1, <3>1, <3>2 DEF ToSet, Pair
  <2>3. rest = Only(both, missing)
    BY <1>5, <2>1
  <2>4. rest \in Seq(Name) /\ ToSet(rest) = ToSet(both) \cap missing
    BY <2>2, <2>3, OnlyIs
  <2> QED BY <1>5, <2>2, <2>4
<1>7. Order = names \o rest
  BY <1>1, <1>5 DEF Order
<1>8. Order \in Seq(Name) /\ ToSet(Order) = ToSet(names) \cup ToSet(rest)
  <2>1. Order \in Seq(Name) /\ After(names, rest, Order, Len(rest))
    BY <1>4, <1>6, <1>7, ConcatAfter
  <2>2. PICK l, k \in Nat : l = Len(names) /\ k = Len(rest)
    BY <1>4, <1>6, LenProperties
  <2>3. DOMAIN names = 1 .. l /\ DOMAIN rest = 1 .. k /\ DOMAIN Order = 1 .. l + k
    BY <1>4, <1>6, <2>1, <2>2, LenProperties DEF After
  <2>4. (\A i \in 1 .. l : Order[i] = names[i]) /\ \A i \in 1 .. k : Order[l + i] = rest[i]
    BY <2>1, <2>2 DEF After
  <2>5. \A i \in 1 .. l + k : i \in 1 .. l \/ \E j \in 1 .. k : i = l + j
    <3> TAKE i \in 1 .. l + k
    <3>1. i \in 1 .. l \/ (i - l \in 1 .. k /\ i = l + (i - l))
      BY <2>2
    <3> QED BY <3>1
  <2>6. (\A i \in 1 .. l : i \in 1 .. l + k) /\ \A i \in 1 .. k : l + i \in 1 .. l + k
    BY <2>2
  <2>7. ToSet(Order) \subseteq ToSet(names) \cup ToSet(rest)
    <3> SUFFICES ASSUME NEW v \in ToSet(Order) PROVE v \in ToSet(names) \cup ToSet(rest)
      OBVIOUS
    <3>1. PICK i \in 1 .. l + k : v = Order[i]
      BY <2>3 DEF ToSet
    <3>2. CASE i \in 1 .. l
      BY <2>3, <2>4, <3>1, <3>2 DEF ToSet
    <3>3. CASE \E j \in 1 .. k : i = l + j
      BY <2>3, <2>4, <3>1, <3>3 DEF ToSet
    <3> QED BY <2>5, <3>2, <3>3
  <2>8. ToSet(names) \subseteq ToSet(Order) /\ ToSet(rest) \subseteq ToSet(Order)
    BY <2>3, <2>4, <2>6 DEF ToSet
  <2> QED BY <2>1, <2>7, <2>8
<1>9. ToSet(Order) = ToSet(names) \cup Pair
  BY <1>6, <1>8
<1>10. Pair \subseteq CategoryNames(in) /\ ToSet(names) \subseteq CategoryNames(in)
  BY <1>2, <1>3, <1>4 DEF CategoryNames
<1> QED BY <1>4, <1>8, <1>9, <1>10

LEMMA PinNamesAre ==
  ASSUME in \in Instances
  PROVE  /\ PinNames \in Seq(Name)
         /\ \A k \in DOMAIN PinNames : PinNames[k] \in Name /\ PinNames[k] \in DOMAIN categories
<1>1. PICK S : S = {n \in DOMAIN categories : categories[n].cpu /\ n = Canonical(RoleOf(n))}
  OBVIOUS
<1>2. PinNames = Only(Sorted, S)
  BY <1>1 DEF PinNames
<1>3. PinNames \in Seq(Name) /\ ToSet(PinNames) \subseteq S
  BY <1>2, SortedAssumption, OnlyIs
<1>4. \A k \in DOMAIN PinNames : PinNames[k] \in ToSet(PinNames) /\ PinNames[k] \in Name
  BY <1>3, OwnElements, LenProperties, ElementOfSeq DEF ToSet
<1> QED BY <1>1, <1>3, <1>4

LEMMA LeastIn ==
  ASSUME NEW pool, pool # {}, \A m \in pool : m.cost \in Nat
  PROVE  Least(pool, LAMBDA m : m.cost) \in pool
<1>1. {m.cost : m \in pool} \in SUBSET Nat /\ {m.cost : m \in pool} # {}
  OBVIOUS
<1>2. PICK c \in {m.cost : m \in pool} : \A d \in {m.cost : m \in pool} : c <= d
  BY <1>1, LeastNumber
<1>3. \E m \in pool : \A n \in pool : m.cost <= n.cost
  BY <1>2
<1> QED BY <1>3 DEF Least

LEMMA SmallestIn ==
  ASSUME NEW pool, pool # {}, \A m \in pool : m.size \in Nat
  PROVE  Least(pool, LAMBDA m : m.size) \in pool
<1>1. {m.size : m \in pool} \in SUBSET Nat /\ {m.size : m \in pool} # {}
  OBVIOUS
<1>2. PICK c \in {m.size : m \in pool} : \A d \in {m.size : m \in pool} : c <= d
  BY <1>1, LeastNumber
<1>3. \E m \in pool : \A n \in pool : m.size <= n.size
  BY <1>2
<1> QED BY <1>3 DEF Least

\* A role's model is one of the fleet's.
LEMMA SelectedIn ==
  ASSUME in \in Instances, NEW role, NEW selector, Of(role) # {}, ~Ambiguous(role, selector)
  PROVE  Selected(role, selector) \in in.models
<1>1. in.models \subseteq ModelRecord
  BY RoutingAssumption DEF Instance
<1>2. Of(role) \subseteq in.models
  BY DEF Of
<1>3. CASE selector # None
  <2>1. Cardinality(Matches(role, selector)) = 1
    BY <1>3 DEF Ambiguous
  <2>2. Matches(role, selector) # {}
    BY <2>1, FS_EmptySet
  <2>3. Selected(role, selector) \in Matches(role, selector)
    BY <1>3, <2>2 DEF Selected
  <2> QED BY <1>2, <2>3 DEF Matches
<1>4. CASE selector = None
  <2> DEFINE onCpu == {m \in Of(role) : m.cpu}
             pool == IF onCpu # {} THEN onCpu ELSE Of(role)
             priced == {m \in pool : m.cost # None}
  <2>1. pool # {} /\ pool \subseteq Of(role)
    OBVIOUS
  <2>2. \A m \in pool : m.size \in Nat /\ m.cost \in Nat \cup {None}
    BY <1>1, <1>2, <2>1 DEF ModelRecord
  <2>3. Selected(role, selector) = IF priced # {} THEN Least(priced, LAMBDA m : m.cost) ELSE Least(pool, LAMBDA m : m.size)
    BY <1>4 DEF Selected
  <2> HIDE DEF pool
  <2>4. \A m \in priced : m.cost \in Nat
    BY <2>2
  <2>5. priced \subseteq pool
    OBVIOUS
  <2> HIDE DEF priced
  <2>6. priced # {} => Least(priced, LAMBDA m : m.cost) \in priced
    BY <2>4, LeastIn
  <2>7. Least(pool, LAMBDA m : m.size) \in pool
    BY <2>1, <2>2, SmallestIn
  <2> QED BY <1>2, <2>1, <2>3, <2>5, <2>6, <2>7
<1> QED BY <1>3, <1>4

LEMMA CategoriesAre ==
  ASSUME in \in Instances, ~Refusing, Of("embeddings") # {}, Of("rerank") # {}
  PROVE  /\ Pair \subseteq DOMAIN Categories /\ DOMAIN Categories \subseteq CategoryNames(in)
         /\ \A n \in DOMAIN Categories : Categories[n] \in ModelRecord
<1>1. DOMAIN Categories = ToSet(Order)
  BY DEF Categories
<1>2. ToSet(Order) \subseteq CategoryNames(in) /\ ToSet(Order) = {Bound[i].name : i \in DOMAIN Bound} \cup Pair
  BY OrderIs
<1>3. \A n \in ToSet(Order) : Categories[n] \in in.models
  <2> SUFFICES ASSUME NEW n \in ToSet(Order) PROVE Categories[n] \in in.models
    OBVIOUS
  <2>1. CASE \E i \in DOMAIN Bound : Bound[i].name = n
    <3>1. PICK spec : spec = CHOOSE s \in ToSet(Bound) : s.name = n
      OBVIOUS
    <3>2. \E s \in ToSet(Bound) : s.name = n
      BY <2>1 DEF ToSet
    <3>3. spec \in ToSet(Bound)
      BY <3>1, <3>2
    <3>4. Categories[n] = Selected(spec.role, spec.selector)
      BY <2>1, <3>1 DEF Categories
    <3>5. spec \in ToSet(Specs) /\ Selected(spec.role, spec.selector) # None
      BY <3>3, BoundIs
    <3>6. Of(spec.role) # {}
      BY <3>5 DEF Selected
    <3>7. ~Ambiguous(spec.role, spec.selector)
      BY <3>5 DEF Refusing, ToSet
    <3> QED BY <3>4, <3>6, <3>7, SelectedIn
  <2>2. CASE ~\E i \in DOMAIN Bound : Bound[i].name = n
    <3>1. Categories[n] = IF n = "emb" THEN Selected("embeddings", in.embed) ELSE Selected("rerank", in.rerank)
      BY <2>2 DEF Categories
    <3>2. ~Ambiguous("embeddings", in.embed) /\ ~Ambiguous("rerank", in.rerank)
      BY DEF Refusing
    <3>3. Selected("embeddings", in.embed) \in in.models /\ Selected("rerank", in.rerank) \in in.models
      BY <3>2, SelectedIn
    <3> QED BY <3>1, <3>3
  <2> QED BY <2>1, <2>2
<1>4. in.models \subseteq ModelRecord
  BY RoutingAssumption DEF Instance
<1> QED BY <1>1, <1>2, <1>3, <1>4

-----------------------------------------------------------------------------
(* What a run goes through *)

Prepared(ps) ==
  /\ \A n \in Pair : n \in DOMAIN ps
  /\ DOMAIN ps \subseteq CategoryNames(in)
  /\ \A n \in DOMAIN ps : ps[n] \in ModelRecord

\* Compositions that fit lose nothing.
Spared(gone) ==
  /\ gone \subseteq DOMAIN categories
  /\ \A s \in ChatSets \ Fails : Leaves(s, Sets) \cap gone = {}

Charged(paid) ==
  paid = {n \in Pair : categories[n].cpu} \cup {n \in Fixed : categories[n].cpu /\ n \notin refused}

Planned(list) ==
  list \in Seq(ToSet(in.chats)) /\ Len(list) <= Len(in.chats)

\* What is spelled in an expanded set: what was configured, and names that
\* are bound.
Mentioned(e) == UNION {e[i].names : i \in DOMAIN e}

Spellings(s) ==
  ChatVars \cup ColoadVars \cup DOMAIN categories \cup (Mentioned(Sets[s]) \ {CHAT, COLOAD})

\* And a name or a reference is a group of its own.
Spelled(e, s) ==
  \A i \in DOMAIN e :
    /\ e[i].names \subseteq Spellings(s)
    /\ e[i].refs # {} => e[i].names = {} /\ e[i].parts = {}
    /\ e[i].names # {} => e[i].parts = {}

Expanded(x) ==
  /\ DOMAIN x = SetNames
  /\ \A s \in SetNames : x[s] \in Like(Sets[s]) /\ x[s] # Nothing /\ Spelled(x[s], s)

Finished(f) ==
  f = IF refused = {} THEN expanded ELSE [s \in Survivors |-> Pruned(s, expanded, refused)]

IInv ==
  /\ in \in Instances
  /\ pc \in {"detect", "judge", "commit", "plan", "vars", "lists", "expand", "drop", "done", "fatal", "no matrix"}
  /\ pc \in {"judge", "commit", "plan", "vars", "lists", "expand", "drop", "done"} => Prepared(categories)
  /\ pc \in {"commit", "plan", "vars", "lists", "expand", "drop", "done"} => Spared(refused)
  /\ pc \in {"plan", "vars", "lists", "expand", "drop", "done"} => Charged(ledger)
  /\ pc \in {"vars", "lists", "expand", "drop", "done"} => Planned(entries)
  /\ pc \in {"lists", "expand", "drop", "done"} =>
       entries # <<>> /\ DOMAIN vars_ = ChatVars \cup CategoryVars \cup ColoadVars
  /\ pc \in {"expand", "drop", "done"} => lists \in [SetNames -> SUBSET ChatVars]
  /\ pc \in {"drop", "done"} => Expanded(expanded)
  /\ pc = "done" => Finished(final)

\* What names an edit leaves is what it found, and the term it added.
LEMMA ExtendedSpelled ==
  ASSUME NEW e, Expression(e), e # Nothing, NEW n \in Name, NEW s, Spelled(e, s), n \in Spellings(s)
  PROVE  Spelled(Extended(e, n), s)
<1>1. PICK x, L : x = Extended(e, n) /\ L = Len(e)
  OBVIOUS
<1>2. L \in Nat /\ L # 0 /\ DOMAIN e = 1 .. L
  BY <1>1, Lengths
<1>3. x \in Seq(Group) /\ (Joined(e, n, x) \/ \E last : JoinedLast(e, n, x, last))
  BY <1>1, ExtendedIs
<1>4. Len(x) = L + 2 /\ DOMAIN x = 1 .. L + 2
  BY <1>1, <1>2, <1>3, LenProperties DEF Joined, JoinedLast
<1> DEFINE Good(g) == /\ g.names \subseteq Spellings(s) /\ (g.refs # {} => g.names = {} /\ g.parts = {})
                      /\ (g.names # {} => g.parts = {})
<1>5. Good(Leaf(n)) /\ \A S : Good(Together(S)) /\ Good(Alternatives(S))
  BY DEF Leaf, AnyOf, Together, Alternatives
<1>6. \A i \in DOMAIN e : Good(e[i])
  BY DEF Spelled
<1> HIDE DEF Good
<1>7. \A i \in DOMAIN x : Good(x[i])
  <2> SUFFICES ASSUME NEW i \in DOMAIN x PROVE Good(x[i])
    OBVIOUS
  <2>1. CASE Joined(e, n, x)
    <3>1. i \in 1 .. L \/ i = L + 1 \/ i = L + 2
      BY <1>2, <1>4
    <3> QED BY <1>1, <1>2, <1>5, <1>6, <2>1, <3>1 DEF Joined
  <2>2. CASE \E last : JoinedLast(e, n, x, last)
    <3>1. i \in 1 .. L - 1 \/ i = L \/ i = L + 1 \/ i = L + 2
      BY <1>2, <1>4
    <3>2. 1 .. L - 1 \subseteq DOMAIN e
      BY <1>2
    <3> QED BY <1>1, <1>5, <1>6, <2>2, <3>1, <3>2 DEF JoinedLast
  <2> QED BY <1>3, <2>1, <2>2
<1> QED BY <1>1, <1>7 DEF Spelled, Good

LEMMA GroupsAre ==
  /\ \A X : AnyOf(X).op = "or" /\ AnyOf(X).names = X /\ AnyOf(X).refs = {} /\ AnyOf(X).parts = {}
  /\ \A n : Leaf(n).op = "or" /\ Leaf(n).names = {n} /\ Leaf(n).refs = {} /\ Leaf(n).parts = {}
  /\ \A t : Reference(t).op = "or" /\ Reference(t).names = {} /\ Reference(t).refs = {t} /\ Reference(t).parts = {}
  /\ \A S : Together(S).op = "and" /\ Together(S).names = {} /\ Together(S).refs = {} /\ Together(S).parts = S
  /\ \A S : Alternatives(S).op = "or" /\ Alternatives(S).names = {} /\ Alternatives(S).refs = {} /\ Alternatives(S).parts = S
BY DEF AnyOf, Leaf, Reference, Together, Alternatives

LEMMA FilledSpelled ==
  ASSUME Ready, NEW s \in SetNames
  PROVE  Spelled(Filled(s), s)
<1> SUFFICES ASSUME NEW i \in DOMAIN Sets[s]
             PROVE  /\ Filled(s)[i].names \subseteq Spellings(s)
                    /\ Filled(s)[i].refs # {} => Filled(s)[i].names = {} /\ Filled(s)[i].parts = {}
                    /\ Filled(s)[i].names # {} => Filled(s)[i].parts = {}
  BY FilledIs DEF Spelled
<1>1. ChatOf(s) \subseteq ChatVars
  BY DEF Ready, ChatOf
<1>2. CASE Sets[s][i] = Leaf(CHAT)
  <2>1. Filled(s)[i] = AnyOf(ChatOf(s))
    BY <1>2, FilledIs
  <2>2. Filled(s)[i].names = ChatOf(s) /\ Filled(s)[i].refs = {} /\ Filled(s)[i].parts = {}
    BY <2>1, GroupsAre
  <2> QED BY <1>1, <2>2 DEF Spellings
<1>3. CASE Sets[s][i] = Leaf(COLOAD)
  <2>1. Filled(s)[i] = AnyOf(ColoadVars)
    BY <1>3, FilledIs
  <2>2. Filled(s)[i].names = ColoadVars /\ Filled(s)[i].refs = {} /\ Filled(s)[i].parts = {}
    BY <2>1, GroupsAre
  <2> QED BY <2>2 DEF Spellings
<1>4. CASE Sets[s][i] \notin {Leaf(CHAT), Leaf(COLOAD)}
  <2>1. /\ Filled(s)[i].names = Sets[s][i].names /\ Filled(s)[i].refs = Sets[s][i].refs
        /\ Filled(s)[i].parts \subseteq Sets[s][i].parts
    BY <1>4, FilledIs
  <2>2. \/ \E n \in Name : Sets[s][i] = Leaf(n)
        \/ \E t \in STRING \ {s} : Sets[s][i] = Reference(t)
        \/ Sets[s][i].names = {} /\ Sets[s][i].refs = {}
    BY Kinds DEF Ready
  <2>3. /\ Sets[s][i].names \cap {CHAT, COLOAD} = {}
        /\ Sets[s][i].refs # {} => Sets[s][i].names = {} /\ Sets[s][i].parts = {}
        /\ Sets[s][i].names # {} => Sets[s][i].parts = {}
    <3>1. CASE \E n \in Name : Sets[s][i] = Leaf(n)
      <4>1. PICK n : Sets[s][i] = Leaf(n)
        BY <3>1
      <4>2. n \notin {CHAT, COLOAD}
        BY <1>4, <4>1
      <4>3. Sets[s][i].names = {n} /\ Sets[s][i].refs = {} /\ Sets[s][i].parts = {}
        BY <4>1, GroupsAre
      <4> QED BY <4>2, <4>3
    <3>2. CASE \E t \in STRING \ {s} : Sets[s][i] = Reference(t)
      <4>1. PICK t : Sets[s][i] = Reference(t)
        BY <3>2
      <4>2. Sets[s][i].names = {} /\ Sets[s][i].parts = {}
        BY <4>1, GroupsAre
      <4> QED BY <4>2
    <3>3. CASE Sets[s][i].names = {} /\ Sets[s][i].refs = {}
      BY <3>3
    <3> QED BY <2>2, <3>1, <3>2, <3>3
  <2>4. \A n \in Sets[s][i].names : n \in Spellings(s)
    <3> TAKE n \in Sets[s][i].names
    <3>1. n \notin {CHAT, COLOAD}
      BY <2>3
    <3>2. n \in Mentioned(Sets[s])
      BY DEF Mentioned
    <3> QED BY ONLY <3>1, <3>2 DEF Spellings
  <2> QED BY <2>1, <2>3, <2>4
<1> QED BY <1>2, <1>3, <1>4

\* What the pins do to a set.
LEMMA PinnedIs ==
  ASSUME Ready, NEW s \in SetNames
  PROVE  Pinned(s) \in Like(Sets[s]) /\ Pinned(s) # Nothing /\ Spelled(Pinned(s), s)
<1> DEFINE V == {e \in Like(Sets[s]) : e # Nothing /\ Spelled(e, s)}
<1>1. Filled(s) \in V
  BY FilledIs, FilledSpelled
<1>2. PinNames \in Seq(Name) /\ \A k \in DOMAIN PinNames : PinNames[k] \in Name /\ PinNames[k] \in DOMAIN categories
  BY PinNamesAre DEF Ready
<1>3. Steady(V, s)
  <2> SUFFICES ASSUME NEW k \in DOMAIN PinNames, NEW e \in V
               PROVE  Extended(e, PinNames[k]) \in V
    BY DEF Steady
  <2>1. PICK n : n = PinNames[k] /\ n \in Name /\ n \in Spellings(s)
    BY <1>2 DEF Spellings
  <2>2. Expression(e) /\ e # Nothing /\ Spelled(e, s) /\ Refs(e) \subseteq Refs(Sets[s])
    BY DEF Like
  <2>3. Extended(e, n) \in Like(e) /\ Extended(e, n) # Nothing
    BY <2>1, <2>2, ExtendedLike
  <2>4. Spelled(Extended(e, n), s)
    BY <2>1, <2>2, ExtendedSpelled
  <2>5. Extended(e, n) \in Like(Sets[s])
    BY <2>2, <2>3 DEF Like
  <2> QED BY <2>1, <2>3, <2>4, <2>5
<1> HIDE DEF V
<1>4. Pinned(s) \in V
  BY <1>1, <1>2, <1>3, PinnedIn
<1> QED BY <1>4 DEF V

\* What stays with the fleet, the categories, the refusals and the entries.
LEMMA FleetFrame ==
  ASSUME in' = in
  PROVE  Sets' = Sets /\ SetNames' = SetNames /\ ChatSets' = ChatSets
BY DEF Sets, SetNames, ChatSets, HasChatSlot

LEMMA CategoriesFrame ==
  ASSUME in' = in, categories' = categories
  PROVE  PairModels' = PairModels /\ Fixed' = Fixed /\ Judged' = Judged
<1>1. PairModels' = PairModels
  BY DEF PairModels
<1>2. Fixed' = Fixed
  BY <1>1 DEF Fixed
<1> QED BY <1>1, <1>2 DEF Judged

LEMMA FailsFrame ==
  ASSUME in' = in, categories' = categories
  PROVE  Fails' = Fails
<1>1. Sets' = Sets /\ ChatSets' = ChatSets /\ PairModels' = PairModels /\ Judged' = Judged
  BY FleetFrame, CategoriesFrame
<1>2. Available' = Available
  BY <1>1 DEF Available
<1>3. \A s : Members(s)' = Members(s)
  BY <1>1 DEF Members
<1>4. \A names : Ram(names)' = Ram(names)
  BY DEF Ram
<1> QED BY <1>1, <1>2, <1>3, <1>4 DEF Fails

LEMMA VarsFrame ==
  ASSUME in' = in, categories' = categories, refused' = refused, entries' = entries
  PROVE  ChatVars' = ChatVars /\ CategoryVars' = CategoryVars /\ ColoadVars' = ColoadVars
<1>1. ChatVars' = ChatVars
  BY DEF ChatVars
<1>2. CategoryVars' = CategoryVars
  BY DEF CategoryVars, Emits
<1> QED BY <1>1, <1>2 DEF ColoadVars, ColoadVar

LEMMA ExpandedFrame ==
  ASSUME in' = in, categories' = categories, refused' = refused, entries' = entries, NEW x, Expanded(x)
  PROVE  Expanded(x)'
<1>1. PICK f : f = x
  OBVIOUS
<1>2. Sets' = Sets /\ SetNames' = SetNames /\ ChatVars' = ChatVars /\ ColoadVars' = ColoadVars
  BY FleetFrame, VarsFrame
<1>3. \A s : Spellings(s)' = Spellings(s)
  BY <1>2 DEF Spellings
<1> QED BY <1>1, <1>2, <1>3 DEF Expanded, Spelled

LEMMA RefusalsSpare == Spared(Refusals)
<1>1. Refusals \subseteq DOMAIN categories
  BY DEF Refusals, Judged, Fixed
<1>2. \A s \in ChatSets \ Fails : Leaves(s, Sets) \cap Refusals = {}
  <2> SUFFICES ASSUME NEW s \in ChatSets, s \notin Fails, NEW n \in Refusals, n \in Leaves(s, Sets)
               PROVE  FALSE
    OBVIOUS
  <2>1. in.pool # 0 /\ SetNames # {} /\ Fails # {}
    BY DEF Refusals, ChatSets
  <2>2. n \in Judged /\ LET named == {t \in ChatSets : n \in Members(t)} IN
                         IF named # {} THEN named \subseteq Fails ELSE categories[n].ram > Available
    BY <2>1 DEF Refusals
  <2>3. s \in {t \in ChatSets : n \in Members(t)}
    BY <2>2 DEF Members
  <2> QED BY <2>2, <2>3
<1> QED BY <1>1, <1>2 DEF Spared

LEMMA InitInv == Init => IInv
BY DEF Init, IInv

LEMMA DetectInv ==
  ASSUME IInv, Detect
  PROVE  IInv'
<1>1. pc = "detect" /\ pc' = "judge" /\ in' = in /\ in \in Instances /\ categories' = Categories
  BY DEF IInv, Detect
<1>2. Prepared(categories)'
  <2>1. PICK c : c = Categories
    OBVIOUS
  <2>2. Pair \subseteq DOMAIN c /\ DOMAIN c \subseteq CategoryNames(in) /\ \A n \in DOMAIN c : c[n] \in ModelRecord
    BY <1>1, <2>1, CategoriesAre DEF Detect
  <2> QED BY <1>1, <2>1, <2>2 DEF Prepared
<1> QED BY <1>1, <1>2 DEF IInv

LEMMA DisabledInv ==
  ASSUME IInv, Disabled
  PROVE  IInv'
BY DEF IInv, Disabled

LEMMA JudgeInv ==
  ASSUME IInv, Judge
  PROVE  IInv'
<1>1. /\ pc = "judge" /\ pc' = "commit" /\ in' = in /\ in \in Instances /\ categories' = categories
      /\ refused' = Refusals /\ Prepared(categories)
  BY DEF IInv, Judge
<1>2. Prepared(categories)'
  BY <1>1 DEF Prepared
<1>3. Spared(refused)'
  <2>1. PICK f : f = Refusals
    OBVIOUS
  <2>2. Spared(f)
    BY <2>1, RefusalsSpare
  <2>3. Sets' = Sets /\ ChatSets' = ChatSets /\ Fails' = Fails
    BY <1>1, FleetFrame, FailsFrame
  <2> QED BY <1>1, <2>1, <2>2, <2>3 DEF Spared
<1> QED BY <1>1, <1>2, <1>3 DEF IInv

LEMMA CommitInv ==
  ASSUME IInv, Commit
  PROVE  IInv'
<1>1. /\ pc = "commit" /\ pc' = "plan" /\ in' = in /\ in \in Instances /\ categories' = categories
      /\ refused' = refused /\ Prepared(categories) /\ Spared(refused)
  BY DEF IInv, Commit
<1>2. Sets' = Sets /\ ChatSets' = ChatSets /\ Fails' = Fails /\ Fixed' = Fixed
  BY <1>1, FleetFrame, FailsFrame, CategoriesFrame
<1>3. Prepared(categories)' /\ Spared(refused)'
  BY <1>1, <1>2 DEF Prepared, Spared
<1>4. Charged(ledger)'
  BY <1>1, <1>2 DEF Charged, Commit
<1> QED BY <1>1, <1>3, <1>4 DEF IInv

LEMMA PlanInv ==
  ASSUME IInv, Plan
  PROVE  IInv'
<1>1. /\ pc = "plan" /\ pc' = "vars" /\ in' = in /\ in \in Instances /\ categories' = categories
      /\ refused' = refused /\ ledger' = ledger /\ Prepared(categories) /\ Spared(refused) /\ Charged(ledger)
  BY DEF IInv, Plan
<1>2. Sets' = Sets /\ ChatSets' = ChatSets /\ Fails' = Fails /\ Fixed' = Fixed
  BY <1>1, FleetFrame, FailsFrame, CategoriesFrame
<1>3. Prepared(categories)' /\ Spared(refused)' /\ Charged(ledger)'
  BY <1>1, <1>2 DEF Prepared, Spared, Charged
<1>4. Planned(entries)'
  <2>1. PICK emitted : entries' = Only(in.chats, emitted)
    BY DEF Plan
  <2>2. in.chats \in Seq([var : Name, stem : STRING])
    BY <1>1, RoutingAssumption DEF Instance
  <2>3. in.chats \in Seq(ToSet(in.chats))
    BY <2>2, OwnElements
  <2>4. entries' \in Seq(ToSet(in.chats)) /\ Len(entries') <= Len(in.chats)
    BY <2>1, <2>3, OnlyIs
  <2> QED BY <1>1, <2>4 DEF Planned
<1> QED BY <1>1, <1>3, <1>4 DEF IInv

\* What every later step leaves alone.
Past ==
  /\ in \in Instances /\ Prepared(categories) /\ Spared(refused) /\ Charged(ledger) /\ Planned(entries)

LEMMA PastFrame ==
  ASSUME Past, in' = in, categories' = categories, refused' = refused, ledger' = ledger, entries' = entries
  PROVE  Past'
<1>1. Sets' = Sets /\ ChatSets' = ChatSets /\ Fails' = Fails /\ Fixed' = Fixed
  BY FleetFrame, FailsFrame, CategoriesFrame
<1> QED BY <1>1 DEF Past, Prepared, Spared, Charged, Planned

LEMMA BuildVarsInv ==
  ASSUME IInv, BuildVars
  PROVE  IInv'
<1>1. /\ pc = "vars" /\ pc' = (IF entries = <<>> THEN "no matrix" ELSE "lists")
      /\ in' = in /\ categories' = categories /\ refused' = refused /\ ledger' = ledger /\ entries' = entries /\ Past
  BY DEF IInv, BuildVars, Past
<1>2. Past' /\ ChatVars' = ChatVars /\ CategoryVars' = CategoryVars /\ ColoadVars' = ColoadVars
  BY <1>1, PastFrame, VarsFrame
<1>3. DOMAIN vars_' = ChatVars \cup CategoryVars \cup ColoadVars
  BY DEF BuildVars
<1>4. pc' = "lists" => entries' # <<>> /\ (DOMAIN vars_ = ChatVars \cup CategoryVars \cup ColoadVars)'
  BY <1>1, <1>2, <1>3
<1>5. pc' \in {"lists", "no matrix"}
  BY <1>1
<1> QED BY <1>2, <1>4, <1>5 DEF IInv, Past

LEMMA ChatListsInv ==
  ASSUME IInv, ChatLists
  PROVE  IInv'
<1>1. /\ pc = "lists" /\ pc' = "expand" /\ entries # <<>> /\ DOMAIN vars_ = ChatVars \cup CategoryVars \cup ColoadVars
      /\ in' = in /\ categories' = categories /\ refused' = refused /\ ledger' = ledger /\ entries' = entries
      /\ vars_' = vars_ /\ Past
  BY DEF IInv, ChatLists, Past
<1>2. /\ Past' /\ ChatVars' = ChatVars /\ CategoryVars' = CategoryVars /\ ColoadVars' = ColoadVars
      /\ SetNames' = SetNames
  BY <1>1, PastFrame, VarsFrame, FleetFrame
<1>3. lists' \in [SetNames -> SUBSET ChatVars]
  BY DEF ChatLists
<1>4. (lists \in [SetNames -> SUBSET ChatVars])'
  BY <1>2, <1>3
<1> QED BY <1>1, <1>2, <1>4 DEF IInv, Past

LEMMA ExpandInv ==
  ASSUME IInv, Expand
  PROVE  IInv'
<1>1. /\ pc = "expand" /\ pc' = "drop" /\ entries # <<>> /\ DOMAIN vars_ = ChatVars \cup CategoryVars \cup ColoadVars
      /\ in' = in /\ categories' = categories /\ refused' = refused /\ ledger' = ledger /\ entries' = entries
      /\ vars_' = vars_ /\ lists' = lists /\ lists \in [SetNames -> SUBSET ChatVars] /\ Past
  BY DEF IInv, Expand, Past
<1>2. /\ Past' /\ ChatVars' = ChatVars /\ CategoryVars' = CategoryVars /\ ColoadVars' = ColoadVars
      /\ SetNames' = SetNames
  BY <1>1, PastFrame, VarsFrame, FleetFrame
<1>3. Ready
  BY <1>1 DEF Ready, Past, Planned
<1>4. PICK x : x = [s \in SetNames |-> Pinned(s)]
  OBVIOUS
<1>5. Expanded(x)
  BY <1>3, <1>4, PinnedIs DEF Expanded
<1>6. expanded' = x
  BY <1>4 DEF Expand
<1>7. Expanded(x)'
  BY <1>1, <1>5, ExpandedFrame
<1>8. Expanded(expanded)'
  BY <1>6, <1>7 DEF Expanded
<1> QED BY <1>1, <1>2, <1>8 DEF IInv, Past

LEMMA DropInv ==
  ASSUME IInv, Drop
  PROVE  IInv'
<1>1. /\ pc = "drop" /\ pc' = "done" /\ entries # <<>> /\ DOMAIN vars_ = ChatVars \cup CategoryVars \cup ColoadVars
      /\ in' = in /\ categories' = categories /\ refused' = refused /\ ledger' = ledger /\ entries' = entries
      /\ vars_' = vars_ /\ lists' = lists /\ lists \in [SetNames -> SUBSET ChatVars]
      /\ expanded' = expanded /\ Expanded(expanded) /\ Past
  BY DEF IInv, Drop, Past
<1>2. /\ Past' /\ ChatVars' = ChatVars /\ CategoryVars' = CategoryVars /\ ColoadVars' = ColoadVars
      /\ SetNames' = SetNames
  BY <1>1, PastFrame, VarsFrame, FleetFrame
<1>3. Expanded(expanded)'
  <2>1. PICK x : x = expanded
    OBVIOUS
  <2>2. Expanded(x)'
    BY <1>1, <2>1, ExpandedFrame
  <2> QED BY <1>1, <2>1, <2>2 DEF Expanded
<1>4. Survivors' = Survivors
  BY <1>1, <1>2 DEF Survivors
<1>5. Finished(final)'
  BY <1>1, <1>4 DEF Finished, Drop
<1> QED BY <1>1, <1>2, <1>3, <1>5 DEF IInv, Past

LEMMA StutterInv ==
  ASSUME IInv, UNCHANGED vars
  PROVE  IInv'
<1>1. /\ in' = in /\ pc' = pc /\ categories' = categories /\ refused' = refused /\ ledger' = ledger /\ entries' = entries
      /\ vars_' = vars_ /\ lists' = lists /\ expanded' = expanded /\ final' = final
  BY DEF vars
<1>2. Sets' = Sets /\ SetNames' = SetNames /\ ChatSets' = ChatSets /\ Fails' = Fails /\ Fixed' = Fixed
  BY <1>1, FleetFrame, FailsFrame, CategoriesFrame
<1>3. ChatVars' = ChatVars /\ CategoryVars' = CategoryVars /\ ColoadVars' = ColoadVars
  BY <1>1, VarsFrame
<1>4. Prepared(categories) => Prepared(categories)'
  BY <1>1 DEF Prepared
<1>5. Spared(refused) => Spared(refused)'
  BY <1>1, <1>2 DEF Spared
<1>6. Charged(ledger) => Charged(ledger)'
  BY <1>1, <1>2 DEF Charged
<1>7. Planned(entries) => Planned(entries)'
  BY <1>1 DEF Planned
<1>8. Expanded(expanded) => Expanded(expanded)'
  <2> SUFFICES ASSUME Expanded(expanded) PROVE Expanded(expanded)'
    OBVIOUS
  <2>1. PICK x : x = expanded
    OBVIOUS
  <2>2. Expanded(x)'
    BY <1>1, <2>1, ExpandedFrame
  <2> QED BY <1>1, <2>1, <2>2 DEF Expanded
<1>9. Survivors' = Survivors
  BY <1>1, <1>2 DEF Survivors
<1>10. Finished(final) => Finished(final)'
  BY <1>1, <1>9 DEF Finished
<1> QED BY <1>1, <1>2, <1>3, <1>4, <1>5, <1>6, <1>7, <1>8, <1>10 DEF IInv

\* The inductive invariant.
THEOREM RoutingInv == Spec => []IInv
<1>1. Init => IInv
  BY InitInv
<1>2. IInv /\ [Next]_vars => IInv'
  <2> SUFFICES ASSUME IInv, [Next]_vars PROVE IInv'
    OBVIOUS
  <2>1. CASE UNCHANGED vars
    BY <2>1, StutterInv
  <2>2. CASE Detect \/ Disabled
    BY <2>2, DetectInv, DisabledInv
  <2>3. CASE Judge \/ Commit
    BY <2>3, JudgeInv, CommitInv
  <2>4. CASE Plan \/ BuildVars
    BY <2>4, PlanInv, BuildVarsInv
  <2>5. CASE ChatLists \/ Expand
    BY <2>5, ChatListsInv, ExpandInv
  <2>6. CASE Drop
    BY <2>6, DropInv
  <2> QED BY <2>1, <2>2, <2>3, <2>4, <2>5, <2>6 DEF Next
<1> QED BY <1>1, <1>2, PTL DEF Spec

-----------------------------------------------------------------------------
(* What a set names *)

LEMMA RootIs ==
  ASSUME NEW sets, Sound(sets), NEW s \in DOMAIN sets, sets[s] # Nothing
  PROVE  /\ Root(sets, s) \in Places(sets) /\ Root(sets, s) = <<s, Len(sets[s])>>
         /\ Len(sets[s]) \in DOMAIN sets[s]
<1>1. Expression(sets[s])
  BY DEF Sound
<1>2. Len(sets[s]) \in DOMAIN sets[s]
  BY <1>1, Lengths
<1> QED BY <1>2, PlaceIs DEF Root

\* A leaf is named by some group.
LEMMA LeavesNamed ==
  ASSUME NEW sets, Sound(sets), NEW s \in DOMAIN sets, NEW n \in Leaves(s, sets)
  PROVE  \E p \in Places(sets) : n \in Names(sets, p)
<1> DEFINE U == UNION {Names(sets, p) : p \in Places(sets)}
           G == {p \in Places(sets) : LeavesAt(sets)[p] \subseteq U}
<1>1. \A p \in Places(sets) : Under(sets, p) \subseteq G => p \in G
  <2> SUFFICES ASSUME NEW p \in Places(sets), Under(sets, p) \subseteq G
               PROVE  LeavesAt(sets)[p] \subseteq U
    OBVIOUS
  <2>1. LeavesAt(sets)[p] = Names(sets, p) \cup UNION {LeavesAt(sets)[q] : q \in Under(sets, p)}
    BY LeavesEq
  <2>2. Names(sets, p) \subseteq U
    OBVIOUS
  <2>3. \A q \in Under(sets, p) : LeavesAt(sets)[q] \subseteq U
    OBVIOUS
  <2> HIDE DEF U, G
  <2> QED BY <2>1, <2>2, <2>3
<1> HIDE DEF G
<1>2. Places(sets) \subseteq G
  BY <1>1, Upwards
<1>3. sets[s] # Nothing /\ n \in LeavesAt(sets)[Root(sets, s)]
  BY DEF Leaves
<1>4. LeavesAt(sets)[Root(sets, s)] \subseteq U
  BY <1>2, <1>3, RootIs DEF G
<1> QED BY <1>3, <1>4

\* A set's final expression, when something was refused.
LEMMA PruningIs ==
  ASSUME Expanded(expanded), Sound(Sets), Finished(final), refused # {}
  PROVE  /\ Sound(expanded) /\ Sound(final) /\ DOMAIN final = Survivors /\ Survivors \subseteq SetNames
         /\ \A s \in Survivors : Survives(s, expanded, refused) /\ final[s] = Pruned(s, expanded, refused)
<1>1. Sound(expanded)
  <2>1. DOMAIN expanded = DOMAIN Sets /\ \A s \in DOMAIN expanded : expanded[s] \in Like(Sets[s])
    BY DEF Expanded, SetNames
  <2> QED BY <2>1, SoundLike
<1>2. /\ DOMAIN final = Survivors /\ Survivors \subseteq SetNames
      /\ \A s \in Survivors : Survives(s, expanded, refused) /\ final[s] = Pruned(s, expanded, refused)
  BY DEF Finished, Survivors
<1>3. Sound(final)
  <2>1. DOMAIN final \subseteq DOMAIN expanded
    BY <1>2 DEF Expanded
  <2>2. \A s \in DOMAIN final : final[s] \in Like(expanded[s])
    BY <1>1, <1>2, <2>1, PrunedLike
  <2> QED BY <1>1, <2>1, <2>2, SoundLike
<1> QED BY <1>1, <1>2, <1>3

\* What its groups name was not refused.
LEMMA PrunedNames ==
  ASSUME Expanded(expanded), Sound(Sets), Finished(final), refused # {},
         NEW p \in Places(final)
  PROVE  /\ p \in Places(expanded) /\ At(final, p).names \subseteq At(expanded, p).names \ refused
         /\ At(final, p).refs \subseteq At(expanded, p).refs
         /\ At(final, p).refs # {} => Remains(expanded, refused)[p]
<1>0. PICK s \in DOMAIN final : \E i \in DOMAIN final[s] : p = <<s, i>>
  BY PlaceIs
<1>1. PICK i \in DOMAIN final[s] : p = <<s, i>>
  BY <1>0
<1>2. /\ Sound(expanded) /\ s \in SetNames /\ Survives(s, expanded, refused)
      /\ final[s] = Pruned(s, expanded, refused) /\ s \in DOMAIN expanded
  BY PruningIs DEF Expanded
<1>3. i \in DOMAIN expanded[s] /\ p \in Places(expanded)
  BY <1>1, <1>2, PrunedIs, PlaceIs
<1>4. At(final, p) = final[s][i] /\ At(expanded, p) = expanded[s][i]
  BY <1>1 DEF At
<1>5. CASE Remains(expanded, refused)[p]
  <2>1. final[s][i].names = expanded[s][i].names \ refused /\ final[s][i].refs = expanded[s][i].refs
    BY <1>1, <1>2, <1>3, <1>5, PrunedIs
  <2> QED BY <1>3, <1>4, <1>5, <2>1
<1>6. CASE ~Remains(expanded, refused)[p]
  <2>1. final[s][i] = AnyOf({})
    BY <1>1, <1>2, <1>3, <1>6, PrunedIs
  <2>2. final[s][i].names = {} /\ final[s][i].refs = {}
    BY <2>1, GroupsAre
  <2> QED BY <1>3, <1>4, <2>2
<1> QED BY <1>5, <1>6

\* What a reference to no set stands for is no category.
LEMMA TokensApart ==
  ASSUME in \in Instances, Prepared(categories), Expanded(expanded), NEW s \in SetNames,
         NEW i \in DOMAIN expanded[s], NEW t \in expanded[s][i].refs
  PROVE  "+" \o t \notin DOMAIN categories
<1>1. t \in Refs(expanded[s])
  BY RefsIs
<1>2. t \in Refs(Sets[s])
  BY <1>1 DEF Expanded, Like
<1>3. PICK k \in DOMAIN Sets[s] : t \in Sets[s][k].refs
  BY <1>2, RefsIs
<1>4. "+" \o t \notin CategoryNames(in)
  BY <1>3, ConfiguredSound DEF Apart, Sets, SetNames
<1> QED BY <1>4 DEF Prepared

\* No refused category is left in a set.
LEMMA RefusedGone ==
  ASSUME IInv, Done, NEW s \in DOMAIN final, NEW n \in Leaves(s, final)
  PROVE  n \notin refused
<1>1. /\ in \in Instances /\ Prepared(categories) /\ Spared(refused) /\ Expanded(expanded) /\ Finished(final)
      /\ refused \subseteq DOMAIN categories
  BY DEF IInv, Done, Spared
<1>2. Sound(Sets)
  BY <1>1, ConfiguredSound
<1> SUFFICES ASSUME refused # {} PROVE n \notin refused
  OBVIOUS
<1>3. Sound(final)
  BY <1>1, <1>2, PruningIs
<1>4. PICK p \in Places(final) : n \in Names(final, p)
  BY <1>3, LeavesNamed
<1>5. /\ p \in Places(expanded) /\ At(final, p).names \subseteq At(expanded, p).names \ refused
      /\ At(final, p).refs \subseteq At(expanded, p).refs
  BY <1>1, <1>2, PrunedNames
<1>6. CASE n \in At(final, p).names
  BY <1>5, <1>6
<1>7. CASE \E t \in At(final, p).refs : n = "+" \o t
  <2>1. PICK t \in At(final, p).refs : n = "+" \o t
    BY <1>7
  <2>2. PICK r \in DOMAIN expanded : \E i \in DOMAIN expanded[r] : p = <<r, i>>
    BY <1>5, PlaceIs
  <2>3. PICK i \in DOMAIN expanded[r] : p = <<r, i>>
    BY <2>2
  <2>4. t \in expanded[r][i].refs /\ r \in SetNames
    BY <1>1, <1>5, <2>1, <2>2, <2>3 DEF At, Expanded
  <2>5. "+" \o t \notin DOMAIN categories
    BY <1>1, <2>3, <2>4, TokensApart
  <2> QED BY <1>1, <2>1, <2>5
<1> QED BY <1>4, <1>6, <1>7 DEF Names

LEMMA PinsPaid == IInv => PinsCommitted
<1> SUFFICES ASSUME IInv, Done, NEW s \in DOMAIN final, NEW n \in Leaves(s, final),
                    n \in DOMAIN categories, categories[n].cpu
             PROVE  n \in ledger \/ \E k \in ledger : categories[k] = categories[n]
  BY DEF PinsCommitted
<1>1. Prepared(categories) /\ Charged(ledger)
  BY DEF IInv, Done
<1>2. n \notin refused
  BY RefusedGone
<1>3. CASE n \in Fixed
  BY <1>1, <1>2, <1>3 DEF Charged
<1>4. CASE n \notin Fixed
  <2>1. PICK k \in Pair : categories[k] = categories[n]
    BY <1>4 DEF Fixed, PairModels
  <2>2. k \in ledger
    BY <1>1, <2>1 DEF Charged, Prepared
  <2> QED BY <2>1, <2>2
<1> QED BY <1>3, <1>4

\* Every helper a set may hold was charged: what the host pool refused is in
\* none (expand_matrix_sets, drop_unbound_set_entries).
THEOREM PinsAreCharged == Spec => []PinsCommitted
BY RoutingInv, PinsPaid, PTL

\* A set that is left names only variables.
LEMMA NamesBound ==
  ASSUME IInv, Done, WellNamed,
         \A m, k \in DOMAIN categories : m # k => categories[m].stem # categories[k].stem,
         NEW p \in Places(final)
  PROVE  Names(final, p) \subseteq DOMAIN vars_
<1>1. /\ in \in Instances /\ Prepared(categories) /\ Spared(refused) /\ Expanded(expanded) /\ Finished(final)
      /\ refused \subseteq DOMAIN categories /\ DOMAIN vars_ = ChatVars \cup CategoryVars \cup ColoadVars
  BY DEF IInv, Done, Spared
<1>2. Sound(Sets) /\ DOMAIN expanded = SetNames
  BY <1>1, ConfiguredSound DEF Expanded
<1>3. \A n \in DOMAIN categories : n \notin refused => n \in DOMAIN vars_
  BY <1>1 DEF CategoryVars, Emits
<1>4. \A r \in SetNames : \A i \in DOMAIN expanded[r] :
        /\ \A n \in expanded[r][i].names : n \notin refused => n \in DOMAIN vars_
        /\ expanded[r][i].refs \subseteq SetNames
  <2> TAKE r \in SetNames
  <2> TAKE i \in DOMAIN expanded[r]
  <2>1. Mentioned(Sets[r]) \subseteq {CHAT, COLOAD} \cup DOMAIN categories \cup ChatVars
    BY DEF WellNamed, Mentioned
  <2>2. Spellings(r) \subseteq ChatVars \cup ColoadVars \cup DOMAIN categories
    BY <2>1 DEF Spellings
  <2>3. expanded[r][i].names \subseteq Spellings(r)
    BY <1>1 DEF Expanded, Spelled
  <2>4. \A t \in expanded[r][i].refs : t \in SetNames
    <3> TAKE t \in expanded[r][i].refs
    <3>1. t \in Refs(expanded[r])
      BY RefsIs
    <3>2. t \in Refs(Sets[r])
      BY <1>1, <3>1 DEF Expanded, Like
    <3>3. PICK k \in DOMAIN Sets[r] : t \in Sets[r][k].refs
      BY <3>2, RefsIs
    <3> QED BY <3>3 DEF WellNamed
  <2>5. \A n \in expanded[r][i].names : n \notin refused => n \in DOMAIN vars_
    BY <1>1, <1>3, <2>2, <2>3
  <2> QED BY <2>4, <2>5
<1>5. CASE refused = {}
  <2>1. final = expanded
    BY <1>1, <1>5 DEF Finished
  <2>2. PICK r \in SetNames : \E i \in DOMAIN expanded[r] : p = <<r, i>>
    BY <1>2, <2>1, PlaceIs
  <2>3. PICK i \in DOMAIN expanded[r] : p = <<r, i>>
    BY <2>2
  <2>4. At(final, p) = expanded[r][i] /\ DOMAIN final = SetNames
    BY <1>2, <2>1, <2>3 DEF At
  <2>5. expanded[r][i].refs \subseteq SetNames /\ expanded[r][i].names \subseteq DOMAIN vars_
    BY <1>4, <1>5
  <2>6. At(final, p).refs \ DOMAIN final = {}
    BY <2>4, <2>5
  <2> QED BY <2>4, <2>5, <2>6 DEF Names
<1>6. CASE refused # {}
  <2>1. /\ p \in Places(expanded) /\ At(final, p).names \subseteq At(expanded, p).names \ refused
        /\ At(final, p).refs \subseteq At(expanded, p).refs
        /\ At(final, p).refs # {} => Remains(expanded, refused)[p]
    BY <1>1, <1>2, <1>6, PrunedNames
  <2>2. Sound(expanded) /\ DOMAIN final = Survivors
    BY <1>1, <1>2, <1>6, PruningIs
  <2>3. PICK r \in SetNames : \E i \in DOMAIN expanded[r] : p = <<r, i>>
    BY <1>2, <2>1, PlaceIs
  <2>4. PICK i \in DOMAIN expanded[r] : p = <<r, i>>
    BY <2>3
  <2>5. At(expanded, p) = expanded[r][i]
    BY <2>4 DEF At
  <2>6. At(final, p).names \subseteq DOMAIN vars_
    BY <1>4, <2>1, <2>5
  <2>7. \A t \in At(final, p).refs : t \in DOMAIN final
    <3> TAKE t \in At(final, p).refs
    <3>1. Remains(expanded, refused)[p] /\ t \in expanded[r][i].refs /\ t \in SetNames
      BY <1>4, <2>1, <2>5
    <3>2. expanded[r][i].names = {} /\ expanded[r][i].parts = {}
      BY <1>1, <2>4, <3>1 DEF Expanded, Spelled
    <3>3. expanded[r][i].refs \ DOMAIN expanded = {}
      BY <1>2, <1>4
    <3>4. PICK q \in Under(expanded, p) : Remains(expanded, refused)[q]
      BY <2>1, <2>2, <2>5, <3>1, <3>2, <3>3, RemainsEq
    <3>5. PICK u \in expanded[r][i].refs \cap DOMAIN expanded : q = Root(expanded, u) /\ expanded[u] # Nothing
      <4>1. Under(expanded, p) = {<<r, j>> : j \in expanded[r][i].parts} \cup
              {Root(expanded, v) : v \in {v \in expanded[r][i].refs \cap DOMAIN expanded : expanded[v] # Nothing}}
        BY <2>4, UnderIs
      <4> QED BY <3>2, <3>4, <4>1
    <3>6. u = t
      BY <2>2, <2>4, <3>1, <1>2 DEF Sound, Expression
    <3>7. Survives(t, expanded, refused)
      BY <3>4, <3>5, <3>6 DEF Survives
    <3> QED BY <2>2, <3>1, <3>7 DEF Survivors
  <2>8. At(final, p).refs \ DOMAIN final = {}
    BY <2>7
  <2> QED BY <2>6, <2>8 DEF Names
<1> QED BY <1>5, <1>6

LEMMA AllBound == IInv => NoDanglingLeaf
<1> SUFFICES ASSUME IInv, Done, WellNamed,
                    \A m, k \in DOMAIN categories : m # k => categories[m].stem # categories[k].stem,
                    NEW s \in DOMAIN final, NEW n \in Leaves(s, final)
             PROVE  n \in DOMAIN vars_
  BY DEF NoDanglingLeaf
<1>1. Sound(final)
  <2>1. in \in Instances /\ Expanded(expanded) /\ Finished(final)
    BY DEF IInv, Done
  <2>2. Sound(Sets)
    BY <2>1, ConfiguredSound
  <2>3. CASE refused # {}
    BY <2>1, <2>2, <2>3, PruningIs
  <2>4. CASE refused = {}
    <3>1. final = expanded
      BY <2>1, <2>4 DEF Finished
    <3>2. DOMAIN final = DOMAIN Sets /\ \A r \in DOMAIN final : final[r] \in Like(Sets[r])
      BY <2>1, <3>1 DEF Expanded, SetNames
    <3> QED BY <2>2, <3>2, SoundLike
  <2> QED BY <2>3, <2>4
<1>2. PICK p \in Places(final) : n \in Names(final, p)
  BY <1>1, LeavesNamed
<1> QED BY <1>2, NamesBound

\* For any sets, refusals and references: as long as no two categories are
\* bound to one model, whatever a set names is a variable
\* (drop_unbound_set_entries, expand_matrix_sets).
THEOREM LeavesAreBound == Spec => []NoDanglingLeaf
BY RoutingInv, AllBound, PTL

-----------------------------------------------------------------------------
(* Sums over finite sets *)

\* What holds of a set when it holds of the set without any of its elements,
\* holds of every subset of a finite set.
LEMMA SubsetInduction ==
  ASSUME NEW S, IsFiniteSet(S), NEW G,
         \A s \in SUBSET S : (\A y \in s : s \ {y} \in G) => s \in G
  PROVE  SUBSET S \subseteq G
<1> DEFINE B == (SUBSET S) \ G
           N == {n \in Nat : \E s \in B : Cardinality(s) = n}
<1> SUFFICES ASSUME B # {} PROVE FALSE
  OBVIOUS
<1>1. \A s \in SUBSET S : IsFiniteSet(s) /\ Cardinality(s) \in Nat
  BY FS_Subset, FS_CardinalityType
<1>2. N # {}
  BY <1>1
<1>3. PICK n \in N : \A k \in N : n <= k
  <2> N \in SUBSET Nat
    OBVIOUS
  <2> HIDE DEF N
  <2> QED BY <1>2, LeastNumber
<1>4. PICK s \in B : Cardinality(s) = n
  BY <1>3
<1>5. \A y \in s : s \ {y} \in G
  <2> SUFFICES ASSUME NEW y \in s, s \ {y} \notin G PROVE FALSE
    OBVIOUS
  <2>1. PICK t : t = s \ {y}
    OBVIOUS
  <2>2. t \in B /\ t \in SUBSET S
    BY <2>1
  <2>3. Cardinality(t) = n - 1
    BY <1>1, <1>4, <2>1, FS_RemoveElement
  <2>4. Cardinality(t) \in N
    BY <1>1, <2>2
  <2>5. n \in Nat
    OBVIOUS
  <2>6. n <= Cardinality(t)
    <3> HIDE DEF N
    <3> QED BY <1>3, <2>4
  <2> HIDE DEF N, B
  <2> QED BY ONLY <2>3, <2>5, <2>6
<1> QED BY <1>4, <1>5

\* A finite set of numbers has a greatest.
LEMMA Greatest ==
  ASSUME NEW S \in SUBSET Nat, IsFiniteSet(S), S # {}
  PROVE  Max(S) \in S /\ \A x \in S : x <= Max(S)
<1> DEFINE G == {s \in SUBSET S : s = {} \/ \E m \in s : \A x \in s : x <= m}
<1>1. \A s \in SUBSET S : (\A y \in s : s \ {y} \in G) => s \in G
  <2> SUFFICES ASSUME NEW s \in SUBSET S, \A y \in s : s \ {y} \in G, s # {}
               PROVE  \E m \in s : \A x \in s : x <= m
    OBVIOUS
  <2>1. PICK y \in s : TRUE
    OBVIOUS
  <2>2. PICK t : t = s \ {y}
    OBVIOUS
  <2>3. t = {} \/ \E m \in t : \A x \in t : x <= m
    BY <2>2
  <2> HIDE DEF G
  <2>4. CASE t = {}
    BY <2>2, <2>4
  <2>5. CASE \E m \in t : \A x \in t : x <= m
    <3>1. PICK m \in t : \A x \in t : x <= m
      BY <2>5
    <3>2. m \in Nat /\ y \in Nat /\ \A x \in s : x \in Nat /\ (x = y \/ x \in t)
      BY <2>2, <3>1
    <3>3. CASE y <= m
      BY <2>2, <3>1, <3>2, <3>3
    <3>4. CASE m <= y
      <4>1. \A x \in s : x <= y
        BY <3>1, <3>2, <3>4
      <4> QED BY <4>1
    <3> QED BY <3>2, <3>3, <3>4
  <2> QED BY <2>3, <2>4, <2>5
<1>2. S \in G
  <2> HIDE DEF G
  <2> QED BY <1>1, SubsetInduction
<1>3. PICK m \in S : \A x \in S : m >= x
  <2>1. PICK m \in S : \A x \in S : x <= m
    BY <1>2
  <2> QED BY <2>1
<1>4. Max(S) \in S /\ \A x \in S : Max(S) >= x
  BY <1>3 DEF Max
<1> QED BY <1>4

One(s) == CHOOSE x \in s : TRUE

LEMMA OneIn == \A s : s # {} => One(s) \in s
BY DEF One

\* The sums of the subsets of a set, one element after another.
Sums(S, f, it) ==
  it = [s \in SUBSET S |-> IF s = {} THEN 0 ELSE f[One(s)] + it[s \ {One(s)}]]

LEMMA SumIs ==
  ASSUME NEW S, NEW f
  PROVE  SumFunctionOnSet(f, S) = (CHOOSE it : Sums(S, f, it))[S]
BY DEF SumFunctionOnSet, FoldFunctionOnSet, MapThenFoldSet, Sums, One

\* Every set of elements has one that needs none of them.
Wellmade(P, under) ==
  /\ under \in [P -> SUBSET P]
  /\ \A S \in SUBSET P : S # {} => \E p \in S : under[p] \cap S = {}

LocalOn(P, under, V, step) ==
  \A p \in P : \A f, g \in [P -> V] : (\A q \in under[p] : f[q] = g[q]) => step[p][f] = step[p][g]

SolvesOn(P, under, f, A, step) == \A p \in A : under[p] \subseteq A /\ f[p] = step[p][f]

Fixes(f, P, step) == f = [p \in P |-> step[p][f]]

LEMMA FiniteRecursion ==
  ASSUME NEW P, IsFiniteSet(P), NEW under, Wellmade(P, under), NEW V, V # {},
         NEW step \in [P -> [[P -> V] -> V]], LocalOn(P, under, V, step)
  PROVE  \E f \in [P -> V] : Fixes(f, P, step)
<1> DEFINE Solved(A) == \E f \in [P -> V] : SolvesOn(P, under, f, A, step)
           G == {s \in SUBSET P : \A A \in SUBSET P : s = P \ A /\ Solved(A) => Solved(P)}
<1>1. \A s \in SUBSET P : (\A y \in s : s \ {y} \in G) => s \in G
  <2> SUFFICES ASSUME NEW s \in SUBSET P, \A y \in s : s \ {y} \in G,
                      NEW A \in SUBSET P, s = P \ A, Solved(A)
               PROVE  Solved(P)
    OBVIOUS
  <2>1. CASE s = {}
    <3>1. A = P
      BY <2>1
    <3> QED BY <3>1
  <2>2. CASE s # {}
    <3>1. PICK f \in [P -> V] : SolvesOn(P, under, f, A, step)
      OBVIOUS
    <3>2. PICK p \in s : under[p] \cap s = {}
      BY <2>2 DEF Wellmade
    <3>3. under[p] \subseteq A /\ p \in P /\ p \notin A
      BY <3>2 DEF Wellmade
    <3>4. PICK v : v = step[p][f]
      OBVIOUS
    <3>5. v \in V
      BY <3>1, <3>3, <3>4
    <3>6. PICK g : g = [f EXCEPT ![p] = v]
      OBVIOUS
    <3>7. g \in [P -> V] /\ g[p] = v /\ \A q \in A : g[q] = f[q]
      BY <3>1, <3>3, <3>5, <3>6
    <3>8. PICK B : B = A \cup {p}
      OBVIOUS
    <3>9. \A q \in B : under[q] \subseteq A /\ q \in P
      BY <3>1, <3>3, <3>8 DEF SolvesOn
    <3>10. \A q \in B : step[q][g] = step[q][f]
      <4> TAKE q \in B
      <4>1. q \in P /\ \A r \in under[q] : g[r] = f[r]
        BY <3>7, <3>9
      <4>2. f \in [P -> V] /\ g \in [P -> V]
        BY <3>1, <3>7
      <4> HIDE DEF G, Solved
      <4> QED BY <4>1, <4>2 DEF LocalOn
    <3>11. SolvesOn(P, under, g, B, step)
      BY <3>1, <3>4, <3>7, <3>8, <3>9, <3>10 DEF SolvesOn
    <3>12. Solved(B)
      BY <3>7, <3>11
    <3>13. s \ {p} = P \ B /\ B \in SUBSET P
      BY <3>3, <3>8
    <3>14. s \ {p} \in G
      BY <3>2
    <3> HIDE DEF Solved
    <3> QED BY <3>12, <3>13, <3>14
  <2> QED BY <2>1, <2>2
<1>2. P \in G
  <2> HIDE DEF G
  <2> QED BY <1>1, SubsetInduction
<1>3. Solved({})
  <2>1. PICK v \in V : TRUE
    OBVIOUS
  <2>2. PICK f : f = [p \in P |-> v]
    OBVIOUS
  <2>3. f \in [P -> V] /\ SolvesOn(P, under, f, {}, step)
    BY <2>2 DEF SolvesOn
  <2> QED BY <2>3
<1>4. Solved(P)
  <2>1. P = P \ {} /\ {} \in SUBSET P
    OBVIOUS
  <2> HIDE DEF Solved
  <2> QED BY <1>2, <1>3, <2>1
<1>5. PICK f \in [P -> V] : SolvesOn(P, under, f, P, step)
  BY <1>4
<1>6. Fixes(f, P, step)
  BY <1>5 DEF SolvesOn, Fixes
<1> QED BY <1>5, <1>6

Counts(f, S) == IsFiniteSet(S) /\ \A x \in S : f[x] \in Nat

LEMMA SumsExist ==
  ASSUME NEW S, NEW f, Counts(f, S)
  PROVE  \E it \in [SUBSET S -> Nat] : Sums(S, f, it)
<1> DEFINE P == SUBSET S
           Val(s, g) == IF s = {} THEN 0 ELSE f[One(s)] + g[s \ {One(s)}]
           under == [s \in P |-> IF s = {} THEN {} ELSE {s \ {One(s)}}]
           step == [s \in P |-> [g \in [P -> Nat] |-> Val(s, g)]]
<1>0. IsFiniteSet(S) /\ \A x \in S : f[x] \in Nat
  BY DEF Counts
<1>1. IsFiniteSet(P)
  BY <1>0, FS_SUBSET
<1>2. \A s \in P : s # {} => One(s) \in s /\ s \ {One(s)} \in P
  BY OneIn
<1>3. Wellmade(P, under)
  <2>1. under \in [P -> SUBSET P]
    BY <1>2
  <2>2. ASSUME NEW T \in SUBSET P, T # {} PROVE \E s \in T : under[s] \cap T = {}
    <3> DEFINE N == {n \in Nat : \E s \in T : Cardinality(s) = n}
    <3>1. \A s \in P : IsFiniteSet(s) /\ Cardinality(s) \in Nat
      BY <1>0, FS_Subset, FS_CardinalityType
    <3>2. N # {}
      BY <2>2, <3>1
    <3>3. N \in SUBSET Nat
      OBVIOUS
    <3>4. PICK n \in N : \A k \in N : n <= k
      <4> HIDE DEF N
      <4> QED BY <3>2, <3>3, LeastNumber
    <3>5. PICK s \in T : Cardinality(s) = n
      BY <3>4
    <3>6. ASSUME s # {}, s \ {One(s)} \in T PROVE FALSE
      <4>1. One(s) \in s
        BY <3>6, OneIn
      <4>2. PICK t : t = s \ {One(s)}
        OBVIOUS
      <4>3. Cardinality(t) = n - 1
        BY <3>1, <3>5, <4>1, <4>2, FS_RemoveElement
      <4>4. Cardinality(t) \in N
        BY <3>1, <3>6, <4>2
      <4>5. n \in Nat
        OBVIOUS
      <4> HIDE DEF N
      <4> QED BY <3>4, <4>3, <4>4, <4>5
    <3>7. under[s] = IF s = {} THEN {} ELSE {s \ {One(s)}}
      OBVIOUS
    <3> HIDE DEF under
    <3> QED BY <3>6, <3>7
  <2> HIDE DEF under
  <2> QED BY <2>1, <2>2 DEF Wellmade
<1>4. \A s \in P : \A g \in [P -> Nat] : Val(s, g) \in Nat
  BY <1>0, <1>2
<1>5. step \in [P -> [[P -> Nat] -> Nat]]
  <2> HIDE DEF Val
  <2> QED BY <1>4
<1>6. LocalOn(P, under, Nat, step)
  <2> SUFFICES ASSUME NEW s \in P, NEW g \in [P -> Nat], NEW h \in [P -> Nat],
                      \A q \in under[s] : g[q] = h[q]
               PROVE  step[s][g] = step[s][h]
    BY DEF LocalOn
  <2>1. s # {} => g[s \ {One(s)}] = h[s \ {One(s)}]
    OBVIOUS
  <2>2. Val(s, g) = Val(s, h)
    BY <2>1
  <2> QED BY <2>2
<1>7. PICK it \in [P -> Nat] : Fixes(it, P, step)
  <2>1. Nat # {}
    OBVIOUS
  <2> HIDE DEF P, step, under
  <2> QED BY ONLY <1>1, <1>3, <1>5, <1>6, <2>1, FiniteRecursion
<1>8. it = [s \in P |-> Val(s, it)]
  <2> HIDE DEF Val
  <2> QED BY <1>7 DEF Fixes
<1> QED BY <1>7, <1>8 DEF Sums

\* One table has the sums of all subsets.
Table(it, S, f) ==
  /\ it \in [SUBSET S -> Nat]
  /\ \A T \in SUBSET S :
       /\ SumFunctionOnSet(f, T) = it[T]
       /\ it[T] = IF T = {} THEN 0 ELSE f[One(T)] + it[T \ {One(T)}]

LEMMA SumTable ==
  ASSUME NEW S, NEW f, Counts(f, S)
  PROVE  \E it : Table(it, S, f)
<1>1. PICK it \in [SUBSET S -> Nat] : Sums(S, f, it)
  BY SumsExist
<1>2. \A T \in SUBSET S : it[T] = IF T = {} THEN 0 ELSE f[One(T)] + it[T \ {One(T)}]
  BY <1>1 DEF Sums
<1>3. ASSUME NEW T \in SUBSET S PROVE SumFunctionOnSet(f, T) = it[T]
  <2>1. IsFiniteSet(T) /\ Counts(f, T)
    BY FS_Subset DEF Counts
  <2>2. PICK c : c = CHOOSE jt : Sums(T, f, jt)
    OBVIOUS
  <2>3. Sums(T, f, c)
    BY <2>1, <2>2, SumsExist
  <2>4. \A u \in SUBSET T : c[u] = IF u = {} THEN 0 ELSE f[One(u)] + c[u \ {One(u)}]
    BY <2>3 DEF Sums
  <2> DEFINE G == {u \in SUBSET T : c[u] = it[u]}
  <2>5. \A u \in SUBSET T : (\A y \in u : u \ {y} \in G) => u \in G
    <3> SUFFICES ASSUME NEW u \in SUBSET T, \A y \in u : u \ {y} \in G PROVE c[u] = it[u]
      OBVIOUS
    <3>1. CASE u = {}
      BY <1>2, <2>4, <3>1
    <3>2. CASE u # {}
      <4>1. PICK y : y = One(u) /\ y \in u
        BY <3>2, OneIn
      <4>2. c[u \ {y}] = it[u \ {y}]
        BY <4>1
      <4>3. c[u] = f[y] + c[u \ {y}] /\ it[u] = f[y] + it[u \ {y}]
        BY <1>2, <2>4, <3>2, <4>1
      <4> QED BY <4>2, <4>3
    <3> QED BY <3>1, <3>2
  <2> HIDE DEF G
  <2>6. T \in G
    BY <2>1, <2>5, SubsetInduction
  <2>7. c[T] = it[T]
    BY <2>6 DEF G
  <2> QED BY <2>2, <2>7, SumIs
<1> QED BY <1>2, <1>3 DEF Table

LEMMA SumBasics ==
  ASSUME NEW S, NEW f, Counts(f, S)
  PROVE  /\ SumFunctionOnSet(f, {}) = 0
         /\ \A T \in SUBSET S : SumFunctionOnSet(f, T) \in Nat
         /\ \A T \in SUBSET S : T # {} =>
              SumFunctionOnSet(f, T) = f[One(T)] + SumFunctionOnSet(f, T \ {One(T)})
<1>1. PICK it : Table(it, S, f)
  BY SumTable
<1>2. {} \in SUBSET S /\ \A T \in SUBSET S : T \ {One(T)} \in SUBSET S
  OBVIOUS
<1> QED BY <1>1, <1>2 DEF Table

\* The order in which elements are added makes no difference.
LEMMA SumAdd ==
  ASSUME NEW S, NEW f, Counts(f, S), NEW T \in SUBSET S, NEW x \in S \ T
  PROVE  SumFunctionOnSet(f, T \cup {x}) = f[x] + SumFunctionOnSet(f, T)
<1>0. IsFiniteSet(S) /\ \A y \in S : f[y] \in Nat
  BY DEF Counts
<1> DEFINE total(s) == SumFunctionOnSet(f, s)
           G == {s \in SUBSET S : \A y \in S \ s : total(s \cup {y}) = f[y] + total(s)}
<1>1. \A s \in SUBSET S : total(s) \in Nat /\ (s # {} => total(s) = f[One(s)] + total(s \ {One(s)}))
  BY SumBasics
<1> HIDE DEF total
<1>2. \A s \in SUBSET S : (\A y \in s : s \ {y} \in G) => s \in G
  <2> SUFFICES ASSUME NEW s \in SUBSET S, \A y \in s : s \ {y} \in G, NEW y \in S \ s
               PROVE  total(s \cup {y}) = f[y] + total(s)
    OBVIOUS
  <2>1. PICK u, z : u = s \cup {y} /\ z = One(u)
    OBVIOUS
  <2>2. u \in SUBSET S /\ z \in u /\ total(u) = f[z] + total(u \ {z})
    BY <1>1, <2>1, OneIn
  <2>3. CASE z = y
    <3>1. u \ {z} = s
      BY <2>1, <2>3
    <3> QED BY <2>1, <2>2, <2>3, <3>1
  <2>4. CASE z # y
    <3>1. PICK v : v = s \ {z}
      OBVIOUS
    <3>2. z \in s /\ v \in G /\ u \ {z} = v \cup {y} /\ s = v \cup {z} /\ y \in S \ v /\ z \in S \ v
      BY <2>1, <2>2, <2>4, <3>1
    <3>3. total(v \cup {y}) = f[y] + total(v) /\ total(v \cup {z}) = f[z] + total(v)
      BY <3>2
    <3>4. f[y] \in Nat /\ f[z] \in Nat /\ total(v) \in Nat
      BY <1>0, <1>1, <3>2
    <3>5. total(u) = f[z] + total(v \cup {y}) /\ total(s) = f[z] + total(v)
      BY <2>2, <3>2, <3>3
    <3>6. total(u) = f[y] + total(s)
      BY ONLY <3>3, <3>4, <3>5
    <3> QED BY <2>1, <3>6
  <2> QED BY <2>3, <2>4
<1>3. T \in G
  <2> HIDE DEF G
  <2> QED BY <1>0, <1>2, SubsetInduction
<1> QED BY <1>3 DEF total

LEMMA SumAgree ==
  ASSUME NEW S, NEW f, NEW g, Counts(f, S), \A x \in S : f[x] = g[x]
  PROVE  SumFunctionOnSet(f, S) = SumFunctionOnSet(g, S)
<1>0. IsFiniteSet(S) /\ Counts(g, S)
  BY DEF Counts
<1> DEFINE G == {s \in SUBSET S : SumFunctionOnSet(f, s) = SumFunctionOnSet(g, s)}
<1>1. \A s \in SUBSET S : (\A y \in s : s \ {y} \in G) => s \in G
  <2> SUFFICES ASSUME NEW s \in SUBSET S, \A y \in s : s \ {y} \in G
               PROVE  SumFunctionOnSet(f, s) = SumFunctionOnSet(g, s)
    OBVIOUS
  <2>1. CASE s = {}
    BY <1>0, <2>1, SumBasics
  <2>2. CASE s # {}
    <3>1. PICK y : y = One(s) /\ y \in s
      BY <2>2, OneIn
    <3>2. SumFunctionOnSet(f, s \ {y}) = SumFunctionOnSet(g, s \ {y})
      BY <3>1
    <3>3. SumFunctionOnSet(f, s) = f[y] + SumFunctionOnSet(f, s \ {y})
      BY <2>2, <3>1, SumBasics
    <3>4. SumFunctionOnSet(g, s) = g[y] + SumFunctionOnSet(g, s \ {y})
      BY <1>0, <2>2, <3>1, SumBasics
    <3> QED BY <3>1, <3>2, <3>3, <3>4
  <2> QED BY <2>1, <2>2
<1> HIDE DEF G
<1>2. S \in G
  BY <1>0, <1>1, SubsetInduction
<1> QED BY <1>2 DEF G

\* A sum over a union is no more than the two sums.
LEMMA SumUnion ==
  ASSUME NEW S, NEW f, Counts(f, S), NEW A \in SUBSET S, NEW B \in SUBSET S
  PROVE  /\ SumFunctionOnSet(f, A) <= SumFunctionOnSet(f, A \cup B)
         /\ SumFunctionOnSet(f, A \cup B) <= SumFunctionOnSet(f, A) + SumFunctionOnSet(f, B)
<1>0. IsFiniteSet(S) /\ \A y \in S : f[y] \in Nat
  BY DEF Counts
<1> DEFINE total(s) == SumFunctionOnSet(f, s)
           G == {s \in SUBSET S : total(A) <= total(A \cup s) /\ total(A \cup s) <= total(A) + total(s)}
<1>1. total({}) = 0 /\ \A s \in SUBSET S : total(s) \in Nat
  BY SumBasics
<1>2. \A s \in SUBSET S : \A x \in S \ s : total(s \cup {x}) = f[x] + total(s)
  BY SumAdd
<1> HIDE DEF total
<1>3. \A s \in SUBSET S : (\A y \in s : s \ {y} \in G) => s \in G
  <2> SUFFICES ASSUME NEW s \in SUBSET S, \A y \in s : s \ {y} \in G
               PROVE  total(A) <= total(A \cup s) /\ total(A \cup s) <= total(A) + total(s)
    OBVIOUS
  <2>1. CASE s = {}
    <3>1. A \cup s = A
      BY <2>1
    <3> QED BY <1>1, <2>1, <3>1
  <2>2. CASE s # {}
    <3>1. PICK y \in s : TRUE
      BY <2>2
    <3>2. PICK v : v = s \ {y}
      OBVIOUS
    <3>3. v \in SUBSET S /\ y \in S \ v /\ s = v \cup {y} /\ total(A) <= total(A \cup v) /\ total(A \cup v) <= total(A) + total(v)
      BY <3>1, <3>2
    <3>4. total(s) = f[y] + total(v)
      BY <1>2, <3>3
    <3>5. /\ total(A) \in Nat /\ total(v) \in Nat /\ total(A \cup v) \in Nat /\ f[y] \in Nat
          /\ A \cup v \in SUBSET S
      BY <1>0, <1>1, <3>3
    <3>6. CASE y \in A
      <4>1. A \cup s = A \cup v
        BY <3>3, <3>6
      <4> QED BY ONLY <3>3, <3>4, <3>5, <4>1
    <3>7. CASE y \notin A
      <4>1. A \cup s = (A \cup v) \cup {y} /\ y \in S \ (A \cup v)
        BY <3>3, <3>7
      <4>2. total(A \cup s) = f[y] + total(A \cup v)
        BY <1>2, <3>5, <4>1
      <4> QED BY ONLY <3>3, <3>4, <3>5, <4>2
    <3> QED BY <3>6, <3>7
  <2> QED BY <2>1, <2>2
<1>4. B \in G
  <2> HIDE DEF G
  <2> QED BY <1>0, <1>3, SubsetInduction
<1> QED BY <1>4 DEF total

LEMMA SumMonotone ==
  ASSUME NEW S, NEW f, Counts(f, S), NEW A \in SUBSET S
  PROVE  SumFunctionOnSet(f, A) <= SumFunctionOnSet(f, S)
<1>1. S \in SUBSET S /\ A \cup S = S
  OBVIOUS
<1>2. SumFunctionOnSet(f, A) <= SumFunctionOnSet(f, A \cup S)
  BY <1>1, SumUnion
<1> QED BY <1>1, <1>2

\* A sum over the union of a family is no more than the sum of its bounds.
Covers(f, part, M, bound) == \A q \in M : SumFunctionOnSet(f, part[q]) <= bound[q]

LEMMA SumFamily ==
  ASSUME NEW S, NEW f, Counts(f, S), NEW M, NEW part \in [M -> SUBSET S],
         NEW bound, Counts(bound, M), Covers(f, part, M, bound)
  PROVE  SumFunctionOnSet(f, UNION {part[q] : q \in M}) <= SumFunctionOnSet(bound, M)
<1> DEFINE held(s) == UNION {part[q] : q \in s}
           total(s) == SumFunctionOnSet(f, s)
           cost(s) == SumFunctionOnSet(bound, s)
           G == {s \in SUBSET M : total(held(s)) <= cost(s)}
<1>0. IsFiniteSet(M) /\ \A q \in M : bound[q] \in Nat
  BY DEF Counts
<1>1. /\ total({}) = 0 /\ \A s \in SUBSET S : total(s) \in Nat
      /\ cost({}) = 0 /\ \A s \in SUBSET M : cost(s) \in Nat
  BY SumBasics
<1>2. \A s \in SUBSET M : \A x \in M \ s : cost(s \cup {x}) = bound[x] + cost(s)
  BY SumAdd
<1>3. \A a, b \in SUBSET S : total(a \cup b) <= total(a) + total(b)
  BY SumUnion
<1>4. \A q \in M : part[q] \in SUBSET S /\ total(part[q]) <= bound[q]
  BY DEF Covers
<1> HIDE DEF total, cost
<1>5. \A s \in SUBSET M : (\A y \in s : s \ {y} \in G) => s \in G
  <2> SUFFICES ASSUME NEW s \in SUBSET M, \A y \in s : s \ {y} \in G PROVE total(held(s)) <= cost(s)
    OBVIOUS
  <2>1. CASE s = {}
    <3>1. held(s) = {}
      BY <2>1
    <3> QED BY <1>1, <2>1, <3>1
  <2>2. CASE s # {}
    <3>1. PICK y \in s : TRUE
      BY <2>2
    <3>2. PICK v : v = s \ {y}
      OBVIOUS
    <3>3. v \in SUBSET M /\ y \in M \ v /\ s = v \cup {y} /\ total(held(v)) <= cost(v)
      BY <3>1, <3>2
    <3>4. cost(s) = bound[y] + cost(v)
      BY <1>2, <3>3
    <3>5. held(v) \in SUBSET S /\ held(s) = held(v) \cup part[y] /\ part[y] \in SUBSET S
      BY <1>4, <3>3
    <3>6. PICK h, w : h = held(v) /\ w = part[y]
      OBVIOUS
    <3>7. total(held(s)) <= total(h) + total(w) /\ total(held(s)) \in Nat
      <4>1. h \cup w \in SUBSET S
        BY <3>5, <3>6
      <4> QED BY <1>1, <1>3, <3>5, <3>6, <4>1
    <3>8. total(w) <= bound[y] /\ total(h) <= cost(v)
      BY <1>4, <3>3, <3>6
    <3>9. total(h) \in Nat /\ total(w) \in Nat /\ bound[y] \in Nat /\ cost(v) \in Nat
      BY <1>0, <1>1, <3>3, <3>5, <3>6
    <3> HIDE DEF held
    <3> QED BY ONLY <3>4, <3>7, <3>8, <3>9
  <2> QED BY <2>1, <2>2
<1>6. M \in G
  <2> HIDE DEF G
  <2> QED BY <1>0, <1>5, SubsetInduction
<1> QED BY <1>6 DEF total, cost

-----------------------------------------------------------------------------
(* The options of a group *)

Either(sets, p, o) ==
  (\E n \in Names(sets, p) : o = {n}) \/ \E q \in Under(sets, p) : o \in OptionsAt(sets)[q]

LEMMA OptionsOr ==
  ASSUME NEW sets, Sound(sets), NEW p \in Places(sets), At(sets, p).op # "and", NEW o
  PROVE  o \in OptionsAt(sets)[p] <=> Either(sets, p, o)
<1>1. PICK opts : opts = OptionsAt(sets)
  OBVIOUS
<1>2. opts[p] = Mixed(sets, p, opts)
  BY <1>1, OptionsEq
<1>3. Mixed(sets, p, opts) = {{n} : n \in Names(sets, p)} \cup UNION {opts[q] : q \in Under(sets, p)}
  BY DEF Mixed
<1>4. o \in opts[p] <=> o \in {{n} : n \in Names(sets, p)} \cup UNION {opts[q] : q \in Under(sets, p)}
  BY <1>2, <1>3
<1>5. o \in UNION {opts[q] : q \in Under(sets, p)} <=> \E q \in Under(sets, p) : o \in opts[q]
  OBVIOUS
<1>6. o \in {{n} : n \in Names(sets, p)} <=> \E n \in Names(sets, p) : o = {n}
  OBVIOUS
<1>7. o \in opts[p] <=> (\E n \in Names(sets, p) : o = {n}) \/ \E q \in Under(sets, p) : o \in opts[q]
  BY <1>4, <1>5, <1>6
<1> QED BY <1>1, <1>7 DEF Either

\* The members of a conjunction that offer anything.
Live(sets, p) == {q \in Under(sets, p) : OptionsAt(sets)[q] # {}}

\* An option made of one of each of them.
Choice(sets, p, c, o) ==
  /\ \A q \in Live(sets, p) : c[q] \in OptionsAt(sets)[q]
  /\ o = UNION {c[q] : q \in Live(sets, p)}

LEMMA OptionsAnd ==
  ASSUME NEW sets, Sound(sets), NEW p \in Places(sets), At(sets, p).op = "and", NEW o
  PROVE  o \in OptionsAt(sets)[p] <=> Live(sets, p) # {} /\ \E c : Choice(sets, p, c, o)
<1>1. PICK opts, M : opts = OptionsAt(sets) /\ M = Live(sets, p)
  OBVIOUS
<1>2. PICK offers : offers = UNION {{q} \X opts[q] : q \in Under(sets, p)}
  OBVIOUS
<1>3. opts[p] = IF offers = {} THEN {} ELSE Combined(offers)
  <2>1. opts[p] = Mixed(sets, p, opts)
    BY <1>1, OptionsEq
  <2>2. Mixed(sets, p, opts) = IF offers = {} THEN {} ELSE Combined(offers)
    BY <1>2 DEF Mixed
  <2> QED BY <2>1, <2>2
<1>4. \A q, x : <<q, x>> \in offers <=> q \in Under(sets, p) /\ x \in opts[q]
  BY <1>2
<1>5. \A y \in offers : \E q \in Under(sets, p) : \E x \in opts[q] : y = <<q, x>>
  BY <1>2
<1>6. M = {y[1] : y \in offers}
  <2>1. \A q \in M : \E x : <<q, x>> \in offers
    BY <1>1, <1>4 DEF Live
  <2>2. \A q \in M : q \in {y[1] : y \in offers}
    <3> TAKE q \in M
    <3>1. PICK x : <<q, x>> \in offers
      BY <2>1
    <3>2. <<q, x>>[1] = q
      OBVIOUS
    <3> QED BY <3>1, <3>2
  <2>3. \A y \in offers : y[1] \in M
    BY <1>1, <1>5 DEF Live
  <2> QED BY <2>2, <2>3
<1>7. offers = {} <=> M = {}
  BY <1>6
<1>8. PICK X : X = {y[2] : y \in offers}
  OBVIOUS
<1>9. o \in Combined(offers) <=>
        \E c \in [M -> X] : (\A q \in M : <<q, c[q]>> \in offers) /\ o = UNION {c[q] : q \in M}
  BY <1>6, <1>8 DEF Combined
<1>10. ASSUME NEW c, Choice(sets, p, c, o)
       PROVE  o \in Combined(offers)
  <2>1. PICK d : d = [q \in M |-> c[q]]
    OBVIOUS
  <2>2. \A q \in M : <<q, c[q]>> \in offers
    BY <1>1, <1>4, <1>10 DEF Choice, Live
  <2>3. \A q \in M : c[q] \in X
    <3> TAKE q \in M
    <3>1. <<q, c[q]>>[2] = c[q]
      OBVIOUS
    <3> QED BY <1>8, <2>2, <3>1
  <2>4. d \in [M -> X] /\ \A q \in M : d[q] = c[q]
    BY <2>1, <2>3
  <2>5. {c[q] : q \in M} = {d[q] : q \in M}
    BY <2>4
  <2>6. o = UNION {d[q] : q \in M}
    BY <1>1, <1>10, <2>5 DEF Choice
  <2> QED BY <1>9, <2>2, <2>4, <2>6
<1>11. ASSUME o \in Combined(offers)
       PROVE  \E c : Choice(sets, p, c, o)
  <2>1. PICK c : (\A q \in M : <<q, c[q]>> \in offers) /\ o = UNION {c[q] : q \in M}
    BY <1>9, <1>11
  <2>2. Choice(sets, p, c, o)
    BY <1>1, <1>4, <2>1 DEF Choice
  <2> QED BY <2>2
<1> QED BY <1>1, <1>3, <1>7, <1>10, <1>11

-----------------------------------------------------------------------------
(* What a set is charged *)

Priced(sets, mb) ==
  /\ Sound(sets) /\ \A p \in Places(sets) : IsFiniteSet(Names(sets, p))
  /\ mb \in [DOMAIN mb -> Nat] /\ IsFiniteSet(DOMAIN mb)

Charges(sets, mb, p, of) ==
  {0} \cup {Price(n, mb) : n \in Names(sets, p)} \cup {of[q] : q \in Under(sets, p)}

Weighed(sets, mb, p, of) ==
  IF At(sets, p).op = "and" THEN SumFunctionOnSet(of, Under(sets, p)) ELSE Max(Charges(sets, mb, p, of))

Values(f, S) == {f[x] : x \in S}

LEMMA ImageFinite ==
  ASSUME NEW S, IsFiniteSet(S), NEW X, NEW f \in [S -> X]
  PROVE  IsFiniteSet(Values(f, S))
<1>1. PICK T : T = Values(f, S)
  OBVIOUS
<1>2. f \in Surjection(S, T)
  <2>1. f \in [S -> T]
    <3>1. \A x \in S : f[x] \in T
      BY <1>1 DEF Values
    <3> QED BY <3>1
  <2> QED BY <1>1, <2>1 DEF Surjection, Values
<1> QED BY <1>1, <1>2, FS_Surjection

LEMMA ChargesAre ==
  ASSUME NEW sets, NEW mb, Priced(sets, mb), NEW p \in Places(sets), NEW of \in [Places(sets) -> Nat]
  PROVE  /\ Charges(sets, mb, p, of) \in SUBSET Nat /\ IsFiniteSet(Charges(sets, mb, p, of))
         /\ Charges(sets, mb, p, of) # {} /\ Counts(of, Under(sets, p))
<1>1. Sound(sets) /\ IsFiniteSet(Names(sets, p)) /\ \A n : Price(n, mb) \in Nat
  BY DEF Priced, Price
<1>2. Under(sets, p) \subseteq Places(sets) /\ IsFiniteSet(Under(sets, p))
  <2>1. Under(sets, p) \subseteq Places(sets) /\ IsFiniteSet(Places(sets))
    BY <1>1, UnderWithin, PlacesFinite
  <2> QED BY <2>1, FS_Subset
<1>3. Counts(of, Under(sets, p))
  BY <1>2 DEF Counts
<1>4. PICK own, inner : own = {Price(n, mb) : n \in Names(sets, p)} /\ inner = {of[q] : q \in Under(sets, p)}
  OBVIOUS
<1>5. own \in SUBSET Nat /\ inner \in SUBSET Nat
  BY <1>1, <1>2, <1>4
<1>6. IsFiniteSet(own)
  <2>1. PICK f : f = [n \in Names(sets, p) |-> Price(n, mb)]
    OBVIOUS
  <2>2. own = Values(f, Names(sets, p)) /\ f \in [Names(sets, p) -> Nat]
    BY <1>1, <1>4, <2>1 DEF Values
  <2> QED BY <1>1, <2>2, ImageFinite
<1>7. IsFiniteSet(inner)
  <2>1. PICK f : f = [q \in Under(sets, p) |-> of[q]]
    OBVIOUS
  <2>2. inner = Values(f, Under(sets, p)) /\ f \in [Under(sets, p) -> Nat]
    BY <1>2, <1>4, <2>1 DEF Values
  <2> QED BY <1>2, <2>2, ImageFinite
<1>8. Charges(sets, mb, p, of) = {0} \cup own \cup inner
  BY <1>4 DEF Charges
<1>9. IsFiniteSet({0} \cup own \cup inner)
  <2>1. IsFiniteSet({0} \cup own)
    BY <1>6, FS_Singleton, FS_Union
  <2> QED BY <1>7, <2>1, FS_Union
<1> QED BY <1>3, <1>5, <1>8, <1>9

LEMMA OverheadEq ==
  ASSUME NEW sets, NEW mb, Priced(sets, mb)
  PROVE  /\ OverheadAt(sets, mb) \in [Places(sets) -> Nat]
         /\ \A p \in Places(sets) : OverheadAt(sets, mb)[p] = Weighed(sets, mb, p, OverheadAt(sets, mb))
<1> DEFINE P == Places(sets)
           step == [p \in P |-> [f \in [P -> Nat] |-> Weighed(sets, mb, p, f)]]
           under == [p \in P |-> Under(sets, p)]
<1>1. Sound(sets) /\ IsFiniteSet(P) /\ \A p \in P : Under(sets, p) \subseteq P
  BY PlacesFinite, UnderWithin DEF Priced
<1>2. Wellmade(P, under)
  <2>1. under \in [P -> SUBSET P]
    BY <1>1
  <2>2. \A S \in SUBSET P : S # {} => \E p \in S : Under(sets, p) \cap S = {}
    BY <1>1, Grounded DEF Founded
  <2>3. \A S \in SUBSET P : S # {} => \E p \in S : under[p] \cap S = {}
    BY <2>2
  <2> HIDE DEF P, under
  <2> QED BY <2>1, <2>3 DEF Wellmade
<1>3. \A p \in P : \A f \in [P -> Nat] : Weighed(sets, mb, p, f) \in Nat
  <2> SUFFICES ASSUME NEW p \in P, NEW f \in [P -> Nat] PROVE Weighed(sets, mb, p, f) \in Nat
    OBVIOUS
  <2>1. PICK C : C = Charges(sets, mb, p, f)
    OBVIOUS
  <2>2. C \in SUBSET Nat /\ IsFiniteSet(C) /\ C # {} /\ Counts(f, Under(sets, p))
    BY <2>1, ChargesAre
  <2>3. Max(C) \in Nat
    BY <2>2, Greatest
  <2>4. SumFunctionOnSet(f, Under(sets, p)) \in Nat
    BY <2>2, SumBasics
  <2> QED BY <2>1, <2>3, <2>4 DEF Weighed
<1>4. step \in [P -> [[P -> Nat] -> Nat]]
  BY <1>3
<1>0. ASSUME NEW p \in P, NEW f \in [P -> Nat], NEW g, \A q \in Under(sets, p) : f[q] = g[q]
      PROVE  Weighed(sets, mb, p, f) = Weighed(sets, mb, p, g)
  <2>1. \A q \in Under(sets, p) : f[q] = g[q]
    BY <1>0
  <2>2. Counts(f, Under(sets, p))
    BY ChargesAre
  <2>3. SumFunctionOnSet(f, Under(sets, p)) = SumFunctionOnSet(g, Under(sets, p))
    BY <2>1, <2>2, SumAgree
  <2>4. {f[q] : q \in Under(sets, p)} = {g[q] : q \in Under(sets, p)}
    BY <2>1
  <2>5. Charges(sets, mb, p, f) = Charges(sets, mb, p, g)
    BY <2>4 DEF Charges
  <2> QED BY <2>3, <2>5 DEF Weighed
<1>5. LocalOn(P, under, Nat, step)
  <2> SUFFICES ASSUME NEW p \in P, NEW f \in [P -> Nat], NEW g \in [P -> Nat],
                      \A q \in under[p] : f[q] = g[q]
               PROVE  step[p][f] = step[p][g]
    BY DEF LocalOn
  <2>1. \A q \in Under(sets, p) : f[q] = g[q]
    OBVIOUS
  <2>2. Weighed(sets, mb, p, f) = Weighed(sets, mb, p, g)
    BY <1>0, <2>1
  <2> QED BY <2>2
<1>6. PICK it \in [P -> Nat] : Fixes(it, P, step)
  <2>1. Nat # {}
    OBVIOUS
  <2> HIDE DEF P, step, under
  <2> QED BY ONLY <1>1, <1>2, <1>4, <1>5, <2>1, FiniteRecursion
<1>7. it = [p \in P |-> Weighed(sets, mb, p, it)]
  BY <1>6 DEF Fixes
<1>8. PICK oh : oh = OverheadAt(sets, mb)
  OBVIOUS
<1>9. oh = CHOOSE at : at = [p \in P |-> Weighed(sets, mb, p, at)]
  BY <1>8 DEF OverheadAt, Weighed, Charges
<1>10. oh = [p \in P |-> Weighed(sets, mb, p, oh)]
  BY <1>7, <1>9
<1> DEFINE G == {p \in P : it[p] = oh[p]}
<1>11. \A p \in P : Under(sets, p) \subseteq G => p \in G
  <2> SUFFICES ASSUME NEW p \in P, Under(sets, p) \subseteq G PROVE it[p] = oh[p]
    OBVIOUS
  <2>1. \A q \in Under(sets, p) : it[q] = oh[q]
    OBVIOUS
  <2>2. Weighed(sets, mb, p, it) = Weighed(sets, mb, p, oh)
    BY <1>0, <2>1
  <2>3. it[p] = Weighed(sets, mb, p, it)
    BY <1>7
  <2>4. oh[p] = Weighed(sets, mb, p, oh)
    BY <1>10
  <2> QED BY <2>2, <2>3, <2>4
<1> HIDE DEF G
<1>12. P \subseteq G
  BY <1>1, <1>11, Upwards
<1>13. \A p \in P : oh[p] \in Nat /\ oh[p] = Weighed(sets, mb, p, oh)
  BY <1>10, <1>12 DEF G
<1>14. oh = [p \in P |-> oh[p]]
  BY <1>10
<1> HIDE DEF P
<1>15. oh \in [P -> Nat]
  BY <1>13, <1>14
<1> QED BY <1>8, <1>13, <1>15 DEF P

\* What an option holds costs no more than its group is charged.
Paid(sets, mb, p) ==
  \A o \in OptionsAt(sets)[p] : SumFunctionOnSet(mb, o \cap DOMAIN mb) <= OverheadAt(sets, mb)[p]

LEMMA PaidTogether ==
  ASSUME NEW sets, NEW mb, Priced(sets, mb), NEW p \in Places(sets), At(sets, p).op = "and",
         \A q \in Under(sets, p) : Paid(sets, mb, q)
  PROVE  Paid(sets, mb, p)
<1>1. PICK U, D, oh, opts : /\ U = Under(sets, p) /\ D = DOMAIN mb /\ oh = OverheadAt(sets, mb) /\ opts = OptionsAt(sets)
  OBVIOUS
<1>2. Sound(sets) /\ Counts(mb, D) /\ IsFiniteSet(D)
  BY <1>1 DEF Priced, Counts
<1>3. oh \in [Places(sets) -> Nat] /\ oh[p] = SumFunctionOnSet(oh, U)
  BY <1>1, OverheadEq DEF Weighed
<1>4. Counts(oh, U)
  BY <1>1, <1>3, ChargesAre
<1>7. SUFFICES ASSUME NEW o \in opts[p]
               PROVE  SumFunctionOnSet(mb, o \cap D) <= oh[p]
  BY <1>1 DEF Paid
<1>8. PICK M : M = Live(sets, p)
  OBVIOUS
<1>9. PICK c : Choice(sets, p, c, o)
  BY <1>1, <1>2, <1>7, OptionsAnd
<1>10. (\A q \in M : q \in U /\ c[q] \in opts[q]) /\ o = UNION {c[q] : q \in M}
  BY <1>1, <1>8, <1>9 DEF Choice, Live
<1>11. PICK part : part = [q \in M |-> c[q] \cap D]
  OBVIOUS
<1>12. part \in [M -> SUBSET D]
  BY <1>11
<1>13. o \cap D = UNION {part[q] : q \in M}
  BY <1>10, <1>11
<1>14. Covers(mb, part, M, oh)
  <2> SUFFICES ASSUME NEW q \in M PROVE SumFunctionOnSet(mb, part[q]) <= oh[q]
    BY DEF Covers
  <2>1. q \in U /\ c[q] \in opts[q] /\ part[q] = c[q] \cap D
    BY <1>10, <1>11
  <2> QED BY <1>1, <2>1 DEF Paid
<1>15. M \in SUBSET U /\ Counts(oh, M)
  <2>1. M \in SUBSET U
    BY <1>10
  <2>2. IsFiniteSet(M)
    BY <1>4, <2>1, FS_Subset DEF Counts
  <2> QED BY <1>4, <2>1, <2>2 DEF Counts
<1>16. SumFunctionOnSet(mb, o \cap D) <= SumFunctionOnSet(oh, M)
  BY <1>2, <1>12, <1>13, <1>14, <1>15, SumFamily
<1>17. SumFunctionOnSet(oh, M) <= SumFunctionOnSet(oh, U)
  BY <1>4, <1>15, SumMonotone
<1>18. SumFunctionOnSet(mb, o \cap D) \in Nat /\ SumFunctionOnSet(oh, M) \in Nat /\ SumFunctionOnSet(oh, U) \in Nat
  <2>1. o \cap D \in SUBSET D /\ U \in SUBSET U
    OBVIOUS
  <2> QED BY <1>2, <1>4, <1>15, <2>1, SumBasics
<1>19. PICK a, b, d : a = SumFunctionOnSet(mb, o \cap D) /\ b = SumFunctionOnSet(oh, M) /\ d = SumFunctionOnSet(oh, U)
  OBVIOUS
<1>20. a <= d
  BY ONLY <1>16, <1>17, <1>18, <1>19
<1> QED BY <1>3, <1>19, <1>20

LEMMA PaidAlternatives ==
  ASSUME NEW sets, NEW mb, Priced(sets, mb), NEW p \in Places(sets), At(sets, p).op # "and",
         \A q \in Under(sets, p) : Paid(sets, mb, q)
  PROVE  Paid(sets, mb, p)
<1>1. PICK U, D, oh, opts : /\ U = Under(sets, p) /\ D = DOMAIN mb /\ oh = OverheadAt(sets, mb) /\ opts = OptionsAt(sets)
  OBVIOUS
<1>2. Sound(sets) /\ Counts(mb, D) /\ IsFiniteSet(D)
  BY <1>1 DEF Priced, Counts
<1>3. PICK C : C = Charges(sets, mb, p, oh)
  OBVIOUS
<1>4. oh \in [Places(sets) -> Nat] /\ oh[p] = Max(C)
  BY <1>1, <1>3, OverheadEq DEF Weighed
<1>5. C \in SUBSET Nat /\ \A x \in C : x <= oh[p]
  <2>1. C \in SUBSET Nat /\ IsFiniteSet(C) /\ C # {}
    BY <1>3, <1>4, ChargesAre
  <2> QED BY <1>4, <2>1, Greatest
<1>6. /\ 0 \in C /\ \A n \in Names(sets, p) : Price(n, mb) \in C
      /\ \A q \in U : oh[q] \in C
  BY <1>1, <1>3 DEF Charges
<1>7. SUFFICES ASSUME NEW o \in opts[p]
               PROVE  SumFunctionOnSet(mb, o \cap D) <= oh[p]
  BY <1>1 DEF Paid
<1>8. (\E n \in Names(sets, p) : o = {n}) \/ \E q \in U : o \in opts[q]
  BY <1>1, <1>2, <1>7, OptionsOr DEF Either
<1>9. SumFunctionOnSet(mb, {}) = 0
  BY <1>2, SumBasics
<1>10. CASE \E n \in Names(sets, p) : o = {n}
  <2>1. PICK n \in Names(sets, p) : o = {n}
    BY <1>10
  <2>2. CASE n \in D
    <3>0. PICK E : E = {}
      OBVIOUS
    <3>1. SumFunctionOnSet(mb, E \cup {n}) = mb[n] + SumFunctionOnSet(mb, E)
      <4>1. E \in SUBSET D /\ n \in D \ E
        BY <2>2, <3>0
      <4> QED BY <1>2, <4>1, SumAdd
    <3>2. o \cap D = E \cup {n}
      BY <2>1, <2>2, <3>0
    <3>3. Price(n, mb) = mb[n] /\ mb[n] \in Nat
      BY <1>1, <2>2 DEF Price, Priced
    <3>4. mb[n] + 0 = mb[n] /\ mb[n] <= oh[p]
      BY <1>5, <1>6, <3>3
    <3> QED BY <1>9, <3>0, <3>1, <3>2, <3>4
  <2>3. CASE n \notin D
    <3>1. o \cap D = {}
      BY <2>1, <2>3
    <3> QED BY <1>5, <1>6, <1>9, <3>1
  <2> QED BY <2>2, <2>3
<1>11. CASE \E q \in U : o \in opts[q]
  <2>1. PICK q \in U : o \in opts[q]
    BY <1>11
  <2>2. SumFunctionOnSet(mb, o \cap D) <= oh[q]
    BY <1>1, <2>1 DEF Paid
  <2>3. oh[q] <= oh[p] /\ oh[q] \in Nat /\ oh[p] \in Nat
    BY <1>4, <1>5, <1>6, <2>1
  <2>4. SumFunctionOnSet(mb, o \cap D) \in Nat
    <3>1. o \cap D \in SUBSET D
      OBVIOUS
    <3> QED BY <1>2, <3>1, SumBasics
  <2>5. PICK a : a = SumFunctionOnSet(mb, o \cap D)
    OBVIOUS
  <2>6. a <= oh[p]
    BY ONLY <2>2, <2>3, <2>4, <2>5
  <2> QED BY <2>5, <2>6
<1> QED BY <1>8, <1>10, <1>11

LEMMA AllPaid ==
  ASSUME NEW sets, NEW mb, Priced(sets, mb), NEW s \in DOMAIN sets, NEW o \in Options(s, sets)
  PROVE  SumFunctionOnSet(mb, o \cap DOMAIN mb) <= Overhead(s, mb, sets)
<1> DEFINE G == {p \in Places(sets) : Paid(sets, mb, p)}
<1>1. \A p \in Places(sets) : Under(sets, p) \subseteq G => p \in G
  <2> SUFFICES ASSUME NEW p \in Places(sets), Under(sets, p) \subseteq G PROVE Paid(sets, mb, p)
    OBVIOUS
  <2>1. \A q \in Under(sets, p) : Paid(sets, mb, q)
    OBVIOUS
  <2> QED BY <2>1, PaidTogether, PaidAlternatives
<1> HIDE DEF G
<1>2. Sound(sets)
  BY DEF Priced
<1>3. Places(sets) \subseteq G
  BY <1>1, <1>2, Upwards
<1>4. sets[s] # Nothing /\ o \in OptionsAt(sets)[Root(sets, s)]
  BY DEF Options
<1>5. Paid(sets, mb, Root(sets, s))
  BY <1>2, <1>3, <1>4, RootIs DEF G
<1> QED BY <1>4, <1>5 DEF Paid, Overhead

LEMMA CategoryNamesFinite ==
  ASSUME in \in Instances
  PROVE  IsFiniteSet(CategoryNames(in))
<1>1. in.specs \in Seq([name : Name, role : STRING, selector : {None} \cup SUBSET STRING])
  BY RoutingAssumption DEF Instance
<1>2. PICK n \in Nat : n = Len(in.specs)
  BY <1>1, LenProperties
<1>3. DOMAIN in.specs = 1 .. n
  BY <1>1, <1>2, LenProperties
<1>4. IsFiniteSet(1 .. n)
  <2>1. 1 \in Int /\ n \in Int
    OBVIOUS
  <2> QED BY <2>1, FS_Interval
<1>5. PICK D, S, f : D = 1 .. n /\ S = {in.specs[k].name : k \in D} /\ f = [k \in D |-> in.specs[k].name]
  OBVIOUS
<1>6. f \in [D -> S] /\ S = Values(f, D) /\ IsFiniteSet(D)
  BY <1>4, <1>5 DEF Values
<1>7. IsFiniteSet(S)
  BY <1>6, ImageFinite
<1>8. IsFiniteSet({"emb"}) /\ IsFiniteSet({"rnk"})
  BY FS_Singleton
<1>9. IsFiniteSet({"emb"} \cup {"rnk"})
  BY <1>8, FS_Union
<1>10. IsFiniteSet(({"emb"} \cup {"rnk"}) \cup S)
  BY <1>7, <1>9, FS_Union
<1>11. CategoryNames(in) = ({"emb"} \cup {"rnk"}) \cup S
  BY <1>3, <1>5 DEF CategoryNames, Pair
<1> QED BY <1>10, <1>11

LEMMA ChargesCover == IInv => PriceCoversOptions
<1> SUFFICES ASSUME IInv, pc = "judge"
             PROVE  \A s \in SetNames : \A option \in Options(s, Sets) :
                      SumFunctionOnSet(Prices, option \cap DOMAIN Prices) <= Overhead(s, Prices, Sets)
  BY DEF PriceCoversOptions
<1>1. in \in Instances /\ Prepared(categories)
  BY DEF IInv
<1>2. Sound(Sets)
  BY <1>1, ConfiguredSound
<1>3. ASSUME NEW p \in Places(Sets)
      PROVE  IsFiniteSet(Names(Sets, p))
  <2>1. PICK s \in SetNames : \E i \in DOMAIN Sets[s] : p = <<s, i>>
    BY PlaceIs DEF SetNames
  <2>2. PICK i \in DOMAIN Sets[s] : p = <<s, i>>
    BY <2>1
  <2>3. PICK g : g = Sets[s][i]
    OBVIOUS
  <2>4. Names(Sets, p) = g.names \cup {"+" \o r : r \in g.refs \ DOMAIN Sets}
    BY <2>2, <2>3 DEF Names, At
  <2>5. \/ \E n \in Name : g = Leaf(n)
        \/ \E t \in STRING \ {s} : g = Reference(t)
        \/ g.names = {} /\ g.refs = {}
    BY <1>1, <2>3, Kinds
  <2>6. \E x : Names(Sets, p) \subseteq {x}
    <3>1. CASE \E n \in Name : g = Leaf(n)
      BY <2>4, <3>1, GroupsAre
    <3>2. CASE \E t \in STRING \ {s} : g = Reference(t)
      <4>1. PICK t : g = Reference(t)
        BY <3>2
      <4>2. g.names = {} /\ g.refs = {t}
        BY <4>1, GroupsAre
      <4>3. Names(Sets, p) \subseteq {"+" \o t}
        BY <2>4, <4>2
      <4> QED BY <4>3
    <3>3. CASE g.names = {} /\ g.refs = {}
      BY <2>4, <3>3
    <3> QED BY <2>5, <3>1, <3>2, <3>3
  <2>7. PICK x : Names(Sets, p) \subseteq {x}
    BY <2>6
  <2> QED BY <2>7, FS_Singleton, FS_Subset
<1>4. Prices \in [DOMAIN Prices -> Nat] /\ DOMAIN Prices = DOMAIN categories
  <2>1. \A n \in DOMAIN categories : categories[n].size \in Nat
    BY <1>1 DEF Prepared, ModelRecord
  <2> QED BY <2>1 DEF Prices
<1>5. IsFiniteSet(DOMAIN Prices)
  <2>1. DOMAIN Prices \in SUBSET CategoryNames(in)
    BY <1>1, <1>4 DEF Prepared
  <2> QED BY <1>1, <2>1, CategoryNamesFinite, FS_Subset
<1>6. PICK mb : mb = Prices
  OBVIOUS
<1>7. Priced(Sets, mb)
  BY <1>2, <1>3, <1>4, <1>5, <1>6 DEF Priced
<1>8. ASSUME NEW s \in SetNames, NEW o \in Options(s, Sets)
      PROVE  SumFunctionOnSet(mb, o \cap DOMAIN mb) <= Overhead(s, mb, Sets)
  BY <1>7, AllPaid DEF SetNames
<1> QED BY <1>6, <1>8

\* For any sets and any sizes: what a set is charged on the card covers
\* whatever it may hold at once, alternatives under conjunctions and references
\* to other sets included (writer.py matrix_set_overhead_mb).
THEOREM ChargesCoverOptions == Spec => []PriceCoversOptions
BY RoutingInv, ChargesCover, PTL

-----------------------------------------------------------------------------
(* From one family of sets to another *)

\* Some groups of one family are groups of the other with less in them, as
\* far as certain names are concerned.
Below(A, B, G, C) ==
  /\ G \subseteq Places(A) \cap Places(B)
  /\ \A p \in G :
       /\ At(A, p).op = "and" <=> At(B, p).op = "and"
       /\ Under(A, p) \subseteq Under(B, p) \cap G
       /\ Names(A, p) # {} => Names(B, p) # {}
       /\ Names(A, p) \cap C \subseteq Names(B, p)

\* Then each of their options is within one of the other family's.
Matched(A, B, C, p) ==
  \A o \in OptionsAt(A)[p] : \E m \in OptionsAt(B)[p] : o \cap C \subseteq m

LEMMA Shrinks ==
  ASSUME NEW A, Sound(A), NEW B, Sound(B), NEW G, NEW C, Below(A, B, G, C)
  PROVE  \A p \in G : Matched(A, B, C, p)
<1> DEFINE H == {p \in Places(A) : p \in G => Matched(A, B, C, p)}
<1>1. ASSUME NEW p \in Places(A), Under(A, p) \subseteq H, p \in G
      PROVE  Matched(A, B, C, p)
  <2>1. /\ p \in Places(B) /\ Under(A, p) \subseteq Under(B, p)
        /\ At(A, p).op = "and" <=> At(B, p).op = "and"
        /\ Names(A, p) # {} => Names(B, p) # {}
        /\ Names(A, p) \cap C \subseteq Names(B, p)
        /\ \A q \in Under(A, p) : Matched(A, B, C, q)
    BY <1>1 DEF Below
  <2>2. SUFFICES ASSUME NEW o \in OptionsAt(A)[p]
                 PROVE  \E m \in OptionsAt(B)[p] : o \cap C \subseteq m
    BY DEF Matched
  <2>3. CASE At(A, p).op # "and"
    <3>1. Either(A, p, o)
      BY <2>3, OptionsOr
    <3>2. CASE \E n \in Names(A, p) : o = {n}
      <4>1. PICK n \in Names(A, p) : o = {n}
        BY <3>2
      <4>2. PICK k \in Names(B, p) : n \in C => k = n
        BY <2>1
      <4>3. {k} \in OptionsAt(B)[p]
        BY <2>1, <2>3, OptionsOr DEF Either
      <4> QED BY <4>1, <4>2, <4>3
    <3>3. CASE \E q \in Under(A, p) : o \in OptionsAt(A)[q]
      <4>1. PICK q \in Under(A, p) : o \in OptionsAt(A)[q]
        BY <3>3
      <4>2. PICK m \in OptionsAt(B)[q] : o \cap C \subseteq m
        BY <2>1, <4>1 DEF Matched
      <4>3. m \in OptionsAt(B)[p]
        BY <2>1, <2>3, <4>2, OptionsOr DEF Either
      <4> QED BY <4>2, <4>3
    <3> QED BY <3>1, <3>2, <3>3 DEF Either
  <2>4. CASE At(A, p).op = "and"
    <3>1. Live(A, p) # {} /\ \E c : Choice(A, p, c, o)
      BY <2>4, OptionsAnd
    <3>2. PICK c : Choice(A, p, c, o)
      BY <3>1
    <3>3. Live(A, p) \subseteq Live(B, p)
      BY <2>1 DEF Live, Matched
    <3>4. PICK d : d = [q \in Live(B, p) |->
                          IF q \in Live(A, p) THEN CHOOSE m \in OptionsAt(B)[q] : c[q] \cap C \subseteq m
                          ELSE CHOOSE m \in OptionsAt(B)[q] : TRUE]
      OBVIOUS
    <3>5. \A q \in Live(A, p) : d[q] \in OptionsAt(B)[q] /\ c[q] \cap C \subseteq d[q]
      <4> TAKE q \in Live(A, p)
      <4>1. \E m \in OptionsAt(B)[q] : c[q] \cap C \subseteq m
        BY <2>1, <3>2 DEF Choice, Live, Matched
      <4>2. d[q] = CHOOSE m \in OptionsAt(B)[q] : c[q] \cap C \subseteq m
        BY <3>3, <3>4
      <4> QED BY <4>1, <4>2
    <3>6. \A q \in Live(B, p) : d[q] \in OptionsAt(B)[q]
      <4> TAKE q \in Live(B, p)
      <4>1. CASE q \notin Live(A, p)
        <5>1. \E m \in OptionsAt(B)[q] : TRUE
          BY DEF Live
        <5>2. d[q] = CHOOSE m \in OptionsAt(B)[q] : TRUE
          BY <3>4, <4>1
        <5> QED BY <5>1, <5>2
      <4> QED BY <3>5, <4>1
    <3>7. PICK m : m = UNION {d[q] : q \in Live(B, p)}
      OBVIOUS
    <3>8. m \in OptionsAt(B)[p]
      <4>1. Choice(B, p, d, m)
        BY <3>6, <3>7 DEF Choice
      <4> QED BY <2>1, <2>4, <3>1, <3>3, <4>1, OptionsAnd
    <3>9. o \cap C \subseteq m
      BY <3>2, <3>3, <3>5, <3>7 DEF Choice
    <3> QED BY <3>8, <3>9
  <2> QED BY <2>3, <2>4
<1>2. Places(A) \subseteq H
  <2>1. \A p \in Places(A) : Under(A, p) \subseteq H => p \in H
    BY <1>1
  <2> HIDE DEF H
  <2> QED BY <2>1, Upwards
<1> QED BY <1>2 DEF Below

\* What is resident at once is named.
LEMMA OptionsWithin ==
  ASSUME NEW sets, Sound(sets), NEW p \in Places(sets), NEW o \in OptionsAt(sets)[p]
  PROVE  o \subseteq LeavesAt(sets)[p]
<1> DEFINE Within(q) == \A x \in OptionsAt(sets)[q] : x \subseteq LeavesAt(sets)[q]
           H == {q \in Places(sets) : Within(q)}
<1>1. ASSUME NEW q \in Places(sets), Under(sets, q) \subseteq H, NEW x \in OptionsAt(sets)[q]
      PROVE  x \subseteq LeavesAt(sets)[q]
  <2>1. LeavesAt(sets)[q] = Names(sets, q) \cup UNION {LeavesAt(sets)[r] : r \in Under(sets, q)}
    BY LeavesEq
  <2>2. CASE At(sets, q).op # "and"
    <3>1. Either(sets, q, x)
      BY <2>2, OptionsOr
    <3> QED BY <1>1, <2>1, <3>1 DEF Either
  <2>3. CASE At(sets, q).op = "and"
    <3>1. PICK c : Choice(sets, q, c, x)
      BY <2>3, OptionsAnd
    <3> QED BY <1>1, <2>1, <3>1 DEF Choice, Live
  <2> QED BY <2>2, <2>3
<1>2. Places(sets) \subseteq H
  <2>1. \A q \in Places(sets) : Under(sets, q) \subseteq H => q \in H
    BY <1>1
  <2> HIDE DEF H
  <2> QED BY <2>1, Upwards
<1> QED BY <1>2

-----------------------------------------------------------------------------
(* What refusals leave *)

\* A group of which something is left keeps its members of which something is.
LEMMA PrunedGroup ==
  ASSUME Expanded(expanded), Sound(Sets), Finished(final), refused # {},
         NEW p \in Places(final), Remains(expanded, refused)[p]
  PROVE  /\ p \in Places(expanded) /\ At(final, p).op = At(expanded, p).op
         /\ At(final, p).names = At(expanded, p).names \ refused
         /\ At(final, p).refs = At(expanded, p).refs
         /\ Under(final, p) = {q \in Under(expanded, p) : Remains(expanded, refused)[q]}
<1>1. PICK s \in DOMAIN final : \E i \in DOMAIN final[s] : p = <<s, i>>
  BY PlaceIs
<1>2. PICK i \in DOMAIN final[s] : p = <<s, i>>
  BY <1>1
<1>3. /\ Sound(expanded) /\ Survives(s, expanded, refused) /\ DOMAIN final = Survivors
      /\ final[s] = Pruned(s, expanded, refused) /\ s \in DOMAIN expanded
      /\ Survivors \subseteq SetNames /\ DOMAIN expanded = SetNames
  BY PruningIs DEF Expanded
<1>4. i \in DOMAIN expanded[s] /\ p \in Places(expanded)
  BY <1>2, <1>3, PrunedIs, PlaceIs
<1>5. At(final, p) = final[s][i] /\ At(expanded, p) = expanded[s][i]
  BY <1>2 DEF At
<1>6. /\ final[s][i].op = expanded[s][i].op /\ final[s][i].names = expanded[s][i].names \ refused
      /\ final[s][i].refs = expanded[s][i].refs
      /\ final[s][i].parts = {j \in expanded[s][i].parts : Remains(expanded, refused)[<<s, j>>]}
  BY <1>2, <1>3, <1>4, PrunedIs
<1>7. \A t \in SetNames : /\ t \in Survivors <=> Remains(expanded, refused)[Root(expanded, t)]
                          /\ expanded[t] # Nothing
                          /\ t \in Survivors => final[t] # Nothing /\ Root(final, t) = Root(expanded, t)
  <2> TAKE t \in SetNames
  <2>1. expanded[t] # Nothing
    BY DEF Expanded
  <2>2. t \in Survivors <=> Remains(expanded, refused)[Root(expanded, t)]
    BY <2>1 DEF Survivors, Survives
  <2>3. ASSUME t \in Survivors
        PROVE  final[t] # Nothing /\ Root(final, t) = Root(expanded, t)
    <3>1. Survives(t, expanded, refused) /\ final[t] = Pruned(t, expanded, refused)
      BY <2>3, PruningIs
    <3>2. final[t] # Nothing /\ Len(final[t]) = Len(expanded[t])
      BY <1>3, <3>1, PrunedIs
    <3> QED BY <3>2 DEF Root
  <2> QED BY <2>1, <2>2, <2>3
<1>8. \A q : q \in Under(final, p) <=>
        \/ \E j \in final[s][i].parts : q = <<s, j>>
        \/ \E t \in final[s][i].refs \cap Survivors : final[t] # Nothing /\ q = Root(final, t)
  BY <1>2, <1>3, UnderIs
<1>9. \A q : q \in Under(expanded, p) <=>
        \/ \E j \in expanded[s][i].parts : q = <<s, j>>
        \/ \E t \in expanded[s][i].refs \cap SetNames : expanded[t] # Nothing /\ q = Root(expanded, t)
  BY <1>2, <1>3, UnderIs
<1>10. \A q : q \in Under(final, p) <=> q \in Under(expanded, p) /\ Remains(expanded, refused)[q]
  <2> TAKE q
  <2>1. ASSUME q \in Under(final, p)
        PROVE  q \in Under(expanded, p) /\ Remains(expanded, refused)[q]
    <3>1. CASE \E j \in final[s][i].parts : q = <<s, j>>
      BY <1>6, <1>9, <3>1
    <3>2. CASE \E t \in final[s][i].refs \cap Survivors : final[t] # Nothing /\ q = Root(final, t)
      BY <1>3, <1>6, <1>7, <1>9, <3>2
    <3> QED BY <1>8, <2>1, <3>1, <3>2
  <2>2. ASSUME q \in Under(expanded, p), Remains(expanded, refused)[q]
        PROVE  q \in Under(final, p)
    <3>1. CASE \E j \in expanded[s][i].parts : q = <<s, j>>
      BY <1>6, <1>8, <2>2, <3>1
    <3>2. CASE \E t \in expanded[s][i].refs \cap SetNames : expanded[t] # Nothing /\ q = Root(expanded, t)
      BY <1>6, <1>7, <1>8, <2>2, <3>2
    <3> QED BY <1>9, <2>2, <3>1, <3>2
  <2> QED BY <2>1, <2>2
<1>11. Under(final, p) = {q \in Under(expanded, p) : Remains(expanded, refused)[q]}
  BY <1>10
<1> QED BY <1>4, <1>5, <1>6, <1>11

\* Groups that refusals leave standing: of alternatives they take none, of a
\* conjunction refused categories alone.
Standing(sets, gone, K) ==
  /\ K \subseteq Places(sets)
  /\ \A p \in K :
       /\ At(sets, p).op = "and" =>
            /\ Under(sets, p) \cap K # {}
            /\ \A q \in Under(sets, p) \ K : \E n \in gone : At(sets, q) = Leaf(n)
       /\ At(sets, p).op # "and" =>
            /\ Names(sets, p) \cap gone = {} /\ Under(sets, p) \subseteq K
            /\ Names(sets, p) # {} \/ Under(sets, p) # {}

LEMMA StandingRemains ==
  ASSUME NEW sets, Sound(sets), NEW gone, NEW K, Standing(sets, gone, K)
  PROVE  \A p \in K : Remains(sets, gone)[p]
<1> DEFINE H == {p \in Places(sets) : p \in K => Remains(sets, gone)[p]}
<1>1. ASSUME NEW p \in Places(sets), Under(sets, p) \subseteq H, p \in K
      PROVE  Remains(sets, gone)[p]
  <2>1. CASE \E q \in Under(sets, p) : q \in K
    <3>1. \E q \in Under(sets, p) : Remains(sets, gone)[q]
      BY <1>1, <2>1
    <3> QED BY <3>1, RemainsEq
  <2>2. CASE ~ \E q \in Under(sets, p) : q \in K
    <3>1. At(sets, p).op # "and" /\ Names(sets, p) # {} /\ Names(sets, p) \cap gone = {}
      BY <1>1, <2>2 DEF Standing
    <3>2. At(sets, p).names \ gone # {} \/ At(sets, p).refs \ DOMAIN sets # {}
      BY <3>1 DEF Names
    <3> QED BY <3>2, RemainsEq
  <2> QED BY <2>1, <2>2
<1>2. Places(sets) \subseteq H
  <2>1. \A p \in Places(sets) : Under(sets, p) \subseteq H => p \in H
    BY <1>1
  <2> HIDE DEF H
  <2> QED BY <2>1, Upwards
<1> QED BY <1>2 DEF Standing

\* Their options are the same, but for what was refused.
Relieved(before, after, gone, p) ==
  /\ OptionsAt(before)[p] # {}
  /\ \A x \in OptionsAt(before)[p] : x \ gone \in OptionsAt(after)[p]
  /\ \A o \in OptionsAt(after)[p] : \E x \in OptionsAt(before)[p] : o = x \ gone

LEMMA StandingRelieved ==
  ASSUME Expanded(expanded), Sound(Sets), Finished(final), refused # {},
         NEW K, Standing(expanded, refused, K)
  PROVE  \A p \in K \cap Places(final) : Relieved(expanded, final, refused, p)
<1> DEFINE H == {p \in Places(expanded) : p \in K \cap Places(final) => Relieved(expanded, final, refused, p)}
<1>0. Sound(expanded) /\ Sound(final)
  BY PruningIs
<1>1. ASSUME NEW p \in Places(expanded), Under(expanded, p) \subseteq H, p \in K, p \in Places(final)
      PROVE  Relieved(expanded, final, refused, p)
  <2>1. \A q \in K : Remains(expanded, refused)[q]
    BY <1>0, StandingRemains
  <2>2. /\ At(final, p).op = At(expanded, p).op
        /\ At(final, p).names = At(expanded, p).names \ refused
        /\ At(final, p).refs = At(expanded, p).refs
        /\ Under(final, p) = {q \in Under(expanded, p) : Remains(expanded, refused)[q]}
    BY <1>1, <2>1, PrunedGroup
  <2>3. \A q \in Under(expanded, p) \cap K : Relieved(expanded, final, refused, q)
    <3> TAKE q \in Under(expanded, p) \cap K
    <3>1. q \in Under(final, p)
      BY <2>1, <2>2
    <3>2. q \in Places(final)
      BY <1>0, <1>1, <3>1, UnderWithin
    <3> QED BY <1>1, <3>2
  <2>4. CASE At(expanded, p).op # "and"
    <3>1. /\ Names(expanded, p) \cap refused = {} /\ Under(expanded, p) \subseteq K
          /\ Names(expanded, p) # {} \/ Under(expanded, p) # {}
      BY <1>1, <2>4 DEF Standing
    <3>2. Under(final, p) = Under(expanded, p)
      BY <2>1, <2>2, <3>1
    <3>3. Names(final, p) = Names(expanded, p)
      <4>1. At(expanded, p).names \cap refused = {}
        BY <3>1 DEF Names
      <4>2. At(expanded, p).refs \ DOMAIN final = At(expanded, p).refs \ DOMAIN expanded
        <5>1. PICK s \in DOMAIN expanded : \E i \in DOMAIN expanded[s] : p = <<s, i>>
          BY <1>1, PlaceIs
        <5>2. PICK i \in DOMAIN expanded[s] : p = <<s, i>>
          BY <5>1
        <5>3. /\ DOMAIN final = Survivors /\ Survivors \subseteq SetNames /\ DOMAIN expanded = SetNames
              /\ \A t \in SetNames : expanded[t] # Nothing
          BY PruningIs DEF Expanded
        <5>4. At(expanded, p) = expanded[s][i]
          BY <5>2 DEF At
        <5>5. \A t \in At(expanded, p).refs \cap SetNames : t \in Survivors
          <6> TAKE t \in At(expanded, p).refs \cap SetNames
          <6>1. Root(expanded, t) \in Under(expanded, p)
            BY <5>2, <5>3, <5>4, UnderIs
          <6>2. Remains(expanded, refused)[Root(expanded, t)]
            BY <2>1, <3>1, <6>1
          <6> QED BY <5>3, <6>2 DEF Survivors, Survives
        <5> QED BY <5>3, <5>5
      <4> QED BY <2>2, <4>1, <4>2 DEF Names
    <3>4. OptionsAt(expanded)[p] # {}
      <4>1. CASE Names(expanded, p) # {}
        <5>1. PICK n \in Names(expanded, p) : TRUE
          BY <4>1
        <5>2. {n} \in OptionsAt(expanded)[p]
          BY <1>0, <2>4, OptionsOr DEF Either
        <5> QED BY <5>2
      <4>2. CASE Under(expanded, p) # {}
        <5>1. PICK q \in Under(expanded, p) : TRUE
          BY <4>2
        <5>2. PICK x : x \in OptionsAt(expanded)[q]
          BY <2>3, <3>1, <5>1 DEF Relieved
        <5>3. x \in OptionsAt(expanded)[p]
          BY <1>0, <2>4, <5>2, OptionsOr DEF Either
        <5> QED BY <5>3
      <4> QED BY <3>1, <4>1, <4>2
    <3>5. ASSUME NEW x \in OptionsAt(expanded)[p]
          PROVE  x \ refused \in OptionsAt(final)[p]
      <4>1. Either(expanded, p, x)
        BY <1>0, <2>4, OptionsOr
      <4>2. CASE \E n \in Names(expanded, p) : x = {n}
        <5>1. PICK n \in Names(expanded, p) : x = {n}
          BY <4>2
        <5>2. x \ refused = {n} /\ n \in Names(final, p)
          BY <3>1, <3>3, <5>1
        <5>3. {n} \in OptionsAt(final)[p]
          BY <1>0, <1>1, <2>2, <2>4, <5>2, OptionsOr DEF Either
        <5> QED BY <5>2, <5>3
      <4>3. CASE \E q \in Under(expanded, p) : x \in OptionsAt(expanded)[q]
        <5>1. PICK q \in Under(expanded, p) : x \in OptionsAt(expanded)[q]
          BY <4>3
        <5>2. x \ refused \in OptionsAt(final)[q] /\ q \in Under(final, p)
          BY <2>3, <3>1, <3>2, <5>1 DEF Relieved
        <5> QED BY <1>0, <1>1, <2>2, <2>4, <5>2, OptionsOr DEF Either
      <4> QED BY <4>1, <4>2, <4>3 DEF Either
    <3>6. ASSUME NEW o \in OptionsAt(final)[p]
          PROVE  \E x \in OptionsAt(expanded)[p] : o = x \ refused
      <4>1. Either(final, p, o)
        BY <1>0, <1>1, <2>2, <2>4, OptionsOr
      <4>2. CASE \E n \in Names(final, p) : o = {n}
        <5>1. PICK n \in Names(final, p) : o = {n}
          BY <4>2
        <5>2. {n} \ refused = {n} /\ n \in Names(expanded, p)
          BY <3>1, <3>3
        <5>3. {n} \in OptionsAt(expanded)[p]
          BY <1>0, <2>4, <5>2, OptionsOr DEF Either
        <5> QED BY <5>1, <5>2, <5>3
      <4>3. CASE \E q \in Under(final, p) : o \in OptionsAt(final)[q]
        <5>1. PICK q \in Under(final, p) : o \in OptionsAt(final)[q]
          BY <4>3
        <5>2. PICK x \in OptionsAt(expanded)[q] : o = x \ refused
          BY <2>3, <3>1, <3>2, <5>1 DEF Relieved
        <5>3. x \in OptionsAt(expanded)[p]
          BY <1>0, <2>4, <3>2, <5>1, <5>2, OptionsOr DEF Either
        <5> QED BY <5>2, <5>3
      <4> QED BY <4>1, <4>2, <4>3 DEF Either
    <3> QED BY <3>4, <3>5, <3>6 DEF Relieved
  <2>5. CASE At(expanded, p).op = "and"
    <3>1. /\ Under(expanded, p) \cap K # {}
          /\ \A q \in Under(expanded, p) \ K : \E n \in refused : At(expanded, q) = Leaf(n)
      BY <1>1, <2>5 DEF Standing
    <3>2. ASSUME NEW q \in Under(expanded, p), q \notin K
          PROVE  /\ ~Remains(expanded, refused)[q] /\ OptionsAt(expanded)[q] # {}
                 /\ \A x \in OptionsAt(expanded)[q] : x \subseteq refused
      <4>1. PICK n \in refused : At(expanded, q) = Leaf(n)
        BY <3>1, <3>2
      <4>2. q \in Places(expanded)
        BY <1>0, <3>2, UnderWithin
      <4>3. /\ At(expanded, q).op = "or" /\ At(expanded, q).names = {n}
            /\ At(expanded, q).refs = {} /\ At(expanded, q).parts = {}
        BY <4>1, GroupsAre
      <4>4. Under(expanded, q) = {} /\ Names(expanded, q) = {n}
        BY <4>3 DEF Under, Names
      <4>5. ~Remains(expanded, refused)[q]
        BY <1>0, <4>2, <4>3, <4>4, RemainsEq
      <4>6. \A x : x \in OptionsAt(expanded)[q] <=> x = {n}
        BY <1>0, <4>2, <4>3, <4>4, OptionsOr DEF Either
      <4> QED BY <4>5, <4>6
    <3>3. Under(final, p) = Under(expanded, p) \cap K
      BY <2>1, <2>2, <3>2
    <3>4. /\ Live(final, p) = Under(expanded, p) \cap K
          /\ Live(expanded, p) = Under(expanded, p)
      <4>1. \A q \in Under(expanded, p) \cap K : OptionsAt(expanded)[q] # {} /\ OptionsAt(final)[q] # {}
        BY <2>3 DEF Relieved
      <4>2. \A q \in Under(expanded, p) : OptionsAt(expanded)[q] # {}
        BY <3>2, <4>1
      <4> QED BY <3>3, <4>1, <4>2 DEF Live
    <3>5. Live(final, p) # {} /\ Live(expanded, p) # {}
      BY <3>1, <3>4
    <3>6. OptionsAt(expanded)[p] # {}
      <4>1. PICK c : c = [q \in Live(expanded, p) |-> CHOOSE x \in OptionsAt(expanded)[q] : TRUE]
        OBVIOUS
      <4>2. \A q \in Live(expanded, p) : c[q] \in OptionsAt(expanded)[q]
        <5> TAKE q \in Live(expanded, p)
        <5>1. \E x \in OptionsAt(expanded)[q] : TRUE
          BY DEF Live
        <5>2. c[q] = CHOOSE x \in OptionsAt(expanded)[q] : TRUE
          BY <4>1
        <5> QED BY <5>1, <5>2
      <4>3. PICK o : o = UNION {c[q] : q \in Live(expanded, p)}
        OBVIOUS
      <4>4. Choice(expanded, p, c, o)
        BY <4>2, <4>3 DEF Choice
      <4>5. o \in OptionsAt(expanded)[p]
        BY <1>0, <2>5, <3>5, <4>4, OptionsAnd
      <4> QED BY <4>5
    <3>7. ASSUME NEW x \in OptionsAt(expanded)[p]
          PROVE  x \ refused \in OptionsAt(final)[p]
      <4>1. PICK c : Choice(expanded, p, c, x)
        BY <1>0, <2>5, OptionsAnd
      <4>2. PICK d : d = [q \in Live(final, p) |-> c[q] \ refused]
        OBVIOUS
      <4>3. \A q \in Live(final, p) : d[q] \in OptionsAt(final)[q]
        BY <2>3, <3>4, <4>1, <4>2 DEF Choice, Relieved
      <4>4. x \ refused = UNION {d[q] : q \in Live(final, p)}
        <5>1. \A q \in Live(expanded, p) \ Live(final, p) : c[q] \subseteq refused
          BY <3>2, <3>4, <4>1 DEF Choice
        <5>2. \A n : n \in x \ refused <=> \E q \in Live(final, p) : n \in d[q]
          BY <3>4, <4>1, <4>2, <5>1 DEF Choice
        <5> QED BY <5>2
      <4>5. Choice(final, p, d, x \ refused)
        BY <4>3, <4>4 DEF Choice
      <4> QED BY <1>0, <1>1, <2>2, <2>5, <3>5, <4>5, OptionsAnd
    <3>8. ASSUME NEW o \in OptionsAt(final)[p]
          PROVE  \E x \in OptionsAt(expanded)[p] : o = x \ refused
      <4>1. PICK c : Choice(final, p, c, o)
        BY <1>0, <1>1, <2>2, <2>5, OptionsAnd
      <4>2. PICK d : d = [q \in Live(expanded, p) |->
                            IF q \in K THEN CHOOSE x \in OptionsAt(expanded)[q] : c[q] = x \ refused
                            ELSE CHOOSE x \in OptionsAt(expanded)[q] : TRUE]
        OBVIOUS
      <4>3. \A q \in Live(final, p) : d[q] \in OptionsAt(expanded)[q] /\ c[q] = d[q] \ refused
        <5> TAKE q \in Live(final, p)
        <5>1. \E x \in OptionsAt(expanded)[q] : c[q] = x \ refused
          BY <2>3, <3>4, <4>1 DEF Choice, Relieved
        <5>2. d[q] = CHOOSE x \in OptionsAt(expanded)[q] : c[q] = x \ refused
          BY <3>4, <4>2
        <5> QED BY <5>1, <5>2
      <4>4. \A q \in Live(expanded, p) \ Live(final, p) : d[q] \in OptionsAt(expanded)[q] /\ d[q] \subseteq refused
        <5> TAKE q \in Live(expanded, p) \ Live(final, p)
        <5>1. \E x \in OptionsAt(expanded)[q] : TRUE
          BY DEF Live
        <5>2. d[q] = CHOOSE x \in OptionsAt(expanded)[q] : TRUE
          BY <3>4, <4>2
        <5>3. d[q] \in OptionsAt(expanded)[q]
          BY <5>1, <5>2
        <5> QED BY <3>2, <3>4, <5>3
      <4>5. PICK x : x = UNION {d[q] : q \in Live(expanded, p)}
        OBVIOUS
      <4>6. o = x \ refused
        <5>1. \A n : n \in o <=> n \in x \ refused
          BY <3>4, <4>1, <4>3, <4>4, <4>5 DEF Choice
        <5> QED BY <4>1, <4>5, <5>1 DEF Choice
      <4>7. Choice(expanded, p, d, x)
        BY <4>3, <4>4, <4>5 DEF Choice
      <4>8. x \in OptionsAt(expanded)[p]
        BY <1>0, <2>5, <3>5, <4>7, OptionsAnd
      <4> QED BY <4>6, <4>8
    <3> QED BY <3>6, <3>7, <3>8 DEF Relieved
  <2> QED BY <2>4, <2>5
<1>2. Places(expanded) \subseteq H
  <2>1. \A p \in Places(expanded) : Under(expanded, p) \subseteq H => p \in H
    BY <1>1
  <2> HIDE DEF H
  <2> QED BY <1>0, <2>1, Upwards
<1> QED BY <1>2 DEF Standing

-----------------------------------------------------------------------------
(* Sets that name no refused category *)

Clean(s) == Leaves(s, Sets) \cap refused = {}

\* A group that refusals leave standing, as long as they leave those of K.
Firm(e, K, i) ==
  /\ e[i].op = "and" =>
       e[i].parts \cap K # {} /\ \A j \in e[i].parts \ K : \E n \in refused : e[j] = Leaf(n)
  /\ e[i].op # "and" =>
       /\ e[i].names \cap refused = {} /\ e[i].parts \subseteq K
       /\ \A t \in e[i].refs \cap SetNames : Clean(t)
       /\ e[i].names # {} \/ e[i].refs # {} \/ e[i].parts # {}

Stands(e, K) == K \subseteq DOMAIN e /\ Len(e) \in K /\ \A i \in K : Firm(e, K, i)

Sturdy(e) == \E K \in SUBSET DOMAIN e : Stands(e, K)

\* The placeholders' turn.
LEMMA FilledSturdy ==
  ASSUME Ready, ColoadApart, DOMAIN categories \subseteq CategoryNames(in),
         refused \subseteq DOMAIN categories, NEW s \in SetNames, Clean(s)
  PROVE  Sturdy(Filled(s))
<1>1. /\ Sound(Sets) /\ Apart(in) /\ Expression(Sets[s]) /\ Sets[s] # Nothing /\ s \in DOMAIN Sets
  BY ConfiguredSound DEF Ready, SetNames
<1>2. PICK e, f : e = Sets[s] /\ f = Filled(s)
  OBVIOUS
<1>3. PICK K : K = {i \in DOMAIN e : /\ LeavesAt(Sets)[<<s, i>>] \cap refused = {}
                                     /\ ColoadVars # {} \/ e[i] # Leaf(COLOAD)}
  OBVIOUS
<1>4. DOMAIN f = DOMAIN e /\ Len(f) = Len(e) /\ Len(e) \in DOMAIN e
  BY <1>1, <1>2, FilledIs, Lengths
<1>5. Len(f) \in K
  <2>1. Leaves(s, Sets) = LeavesAt(Sets)[<<s, Len(e)>>]
    BY <1>1, <1>2 DEF Leaves, Root
  <2>2. e[Len(e)] # Leaf(COLOAD)
    BY <1>2, <1>4, Kinds DEF Ready
  <2> QED BY <1>3, <1>4, <2>1, <2>2 DEF Clean
<1>6. ASSUME NEW i \in K
      PROVE  Firm(f, K, i)
  <2>1. PICK g : g = e[i]
    OBVIOUS
  <2>2. /\ i \in DOMAIN e /\ LeavesAt(Sets)[<<s, i>>] \cap refused = {}
        /\ ColoadVars # {} \/ g # Leaf(COLOAD)
    BY <1>3, <2>1
  <2>3. LeavesAt(Sets)[<<s, i>>] =
          Names(Sets, <<s, i>>) \cup UNION {LeavesAt(Sets)[q] : q \in Under(Sets, <<s, i>>)}
    <3>1. <<s, i>> \in Places(Sets)
      BY <1>1, <1>2, <2>2, PlaceIs
    <3> QED BY <1>1, <3>1, LeavesEq
  <2>4. At(Sets, <<s, i>>) = g
    BY <1>2, <2>1 DEF At
  <2>5. g.names \cap refused = {}
    BY <2>2, <2>3, <2>4 DEF Names
  <2>6. \A j \in g.parts : j \in DOMAIN e /\ LeavesAt(Sets)[<<s, j>>] \cap refused = {}
    <3> TAKE j \in g.parts
    <3>1. <<s, j>> \in Under(Sets, <<s, i>>)
      BY <2>4 DEF Under
    <3>2. j \in DOMAIN e
      BY <1>2, <2>1, <2>2, Kinds DEF Ready
    <3> QED BY <2>2, <2>3, <3>1, <3>2
  <2>7. \A t \in g.refs \cap SetNames : Clean(t)
    <3> TAKE t \in g.refs \cap SetNames
    <3>1. Sets[t] # Nothing
      BY ConfiguredSound DEF Ready
    <3>2. Root(Sets, t) \in Under(Sets, <<s, i>>)
      BY <2>4, <3>1 DEF Under, SetNames
    <3> QED BY <2>2, <2>3, <3>1, <3>2 DEF Clean, Leaves
  <2>8. CASE g = Leaf(CHAT)
    <3>1. f[i] = AnyOf(ChatOf(s))
      BY <1>2, <2>1, <2>2, <2>8, FilledIs
    <3>2. f[i].op = "or" /\ f[i].names = ChatOf(s) /\ f[i].refs = {} /\ f[i].parts = {}
      BY <3>1, GroupsAre
    <3>3. ChatVars \subseteq ChatNames(in) /\ ChatVars # {}
      BY ChatVarsAre DEF Ready
    <3>4. ChatOf(s) # {} /\ ChatOf(s) \subseteq ChatNames(in)
      BY <3>3 DEF Ready, ChatOf
    <3>5. ChatOf(s) \cap refused = {}
      BY <1>1, <3>4 DEF Apart
    <3> QED BY <3>2, <3>4, <3>5 DEF Firm
  <2>9. CASE g = Leaf(COLOAD) /\ g # Leaf(CHAT)
    <3>1. f[i] = AnyOf(ColoadVars)
      BY <1>2, <2>1, <2>2, <2>9, FilledIs
    <3>2. f[i].op = "or" /\ f[i].names = ColoadVars /\ f[i].refs = {} /\ f[i].parts = {}
      BY <3>1, GroupsAre
    <3>3. ColoadVars # {} /\ ColoadVars \cap refused = {}
      BY <2>2, <2>9 DEF ColoadApart
    <3> QED BY <3>2, <3>3 DEF Firm
  <2>10. CASE g \notin {Leaf(CHAT), Leaf(COLOAD)}
    <3>1. /\ f[i].op = g.op /\ f[i].names = g.names /\ f[i].refs = g.refs
          /\ f[i].parts = {j \in g.parts : ColoadVars # {} \/ e[j] # Leaf(COLOAD)}
      BY <1>2, <2>1, <2>2, <2>10, FilledIs
    <3>2. f[i].parts \subseteq K
      BY <1>3, <2>6, <3>1
    <3>3. \/ g.names # {} \/ g.refs # {} \/ g.parts # {}
      <4>1. \/ \E n \in Name : g = Leaf(n)
            \/ \E t \in STRING \ {s} : g = Reference(t)
            \/ g.parts # {}
        BY <1>2, <2>1, <2>2, Kinds DEF Ready
      <4>2. ASSUME NEW n, g = Leaf(n)
            PROVE  g.names # {}
        <5>1. g.names = {n}
          BY <4>2, GroupsAre
        <5> QED BY <5>1
      <4>3. ASSUME NEW t, g = Reference(t)
            PROVE  g.refs # {}
        <5>1. g.refs = {t}
          BY <4>3, GroupsAre
        <5> QED BY <5>1
      <4> QED BY <4>1, <4>2, <4>3
    <3>4. g.parts # {} => f[i].parts # {}
      <4>1. \/ \A j \in g.parts : e[j] # Leaf(COLOAD)
            \/ g.op = "and" /\ \E j \in g.parts : e[j] # Leaf(COLOAD)
        BY <1>2, <2>1, <2>2, Kinds DEF Ready
      <4> QED BY <3>1, <4>1
    <3>5. g.op = "and" => g.names = {} /\ g.refs = {}
      BY <1>1, <1>2, <2>1, <2>2 DEF Expression
    <3> QED BY <2>5, <2>7, <3>1, <3>2, <3>3, <3>4, <3>5 DEF Firm
  <2> QED BY <2>8, <2>9, <2>10
<1>7. K \subseteq DOMAIN f
  BY <1>3, <1>4
<1> QED BY <1>2, <1>5, <1>6, <1>7 DEF Sturdy, Stands

\* And a pin's.
LEMMA ExtendedSturdy ==
  ASSUME NEW e, Expression(e), e # Nothing, NEW n \in Name, Sturdy(e)
  PROVE  Sturdy(Extended(e, n))
<1>1. PICK x, L, J : x = Extended(e, n) /\ L = Len(e) /\ Stands(e, J)
  BY DEF Sturdy
<1>2. L \in Nat /\ L # 0 /\ DOMAIN e = 1 .. L /\ J \subseteq 1 .. L /\ L \in J
  BY <1>1, Lengths DEF Stands
<1>3. x \in Seq(Group) /\ (Joined(e, n, x) \/ \E last : JoinedLast(e, n, x, last))
  BY <1>1, ExtendedIs
<1>4. Len(x) = L + 2 /\ DOMAIN x = 1 .. L + 2
  BY <1>1, <1>2, <1>3, LenProperties DEF Joined, JoinedLast
<1>5. \A i \in 1 .. L : e[i].parts \subseteq 1 .. (i - 1)
  BY <1>2 DEF Expression
<1>6. \A i \in J : Firm(e, J, i)
  BY <1>1 DEF Stands
<1>7. CASE Joined(e, n, x)
  <2>1. PICK K : K = J \cup {L + 2} \cup {i \in {L + 1} : n \notin refused}
    OBVIOUS
  <2>2. \A i \in 1 .. L : x[i] = e[i]
    BY <1>1, <1>7 DEF Joined
  <2>3. x[L + 1] = Leaf(n) /\ x[L + 2] = Together({L, L + 1})
    BY <1>1, <1>7 DEF Joined
  <2>4. ASSUME NEW i \in J
        PROVE  Firm(x, K, i)
    <3>1. /\ Firm(e, J, i) /\ x[i] = e[i] /\ i \in 1 .. L /\ J \subseteq K
          /\ \A j \in e[i].parts : j \in 1 .. L /\ x[j] = e[j]
      BY <1>2, <1>5, <1>6, <2>1, <2>2
    <3> QED BY <3>1 DEF Firm
  <2>5. Firm(x, K, L + 2)
    <3>1. x[L + 2].op = "and" /\ x[L + 2].parts = {L, L + 1}
      BY <2>3, GroupsAre
    <3>2. L \in K /\ (L + 1 \notin K => n \in refused)
      BY <1>2, <2>1
    <3> QED BY <2>3, <3>1, <3>2 DEF Firm
  <2>6. ASSUME n \notin refused
       PROVE  Firm(x, K, L + 1)
    <3>1. PICK g : g = x[L + 1]
      OBVIOUS
    <3>2. g.op = "or" /\ g.names = {n} /\ g.refs = {} /\ g.parts = {}
      BY <2>3, <3>1, GroupsAre
    <3>3. g.names \cap refused = {} /\ g.names # {}
      BY <2>6, <3>2
    <3> QED BY <3>1, <3>2, <3>3 DEF Firm
  <2>7. K \subseteq DOMAIN x /\ Len(x) \in K
    <3>1. 1 .. L \subseteq 1 .. L + 2 /\ {L, L + 1, L + 2} \subseteq 1 .. L + 2
      BY <1>2
    <3>2. K \subseteq 1 .. L + 2 /\ L + 2 \in K
      BY <1>2, <2>1, <3>1
    <3> QED BY <1>4, <3>2
  <2>8. \A i \in K : Firm(x, K, i)
    BY <2>1, <2>4, <2>5, <2>6
  <2> QED BY <1>1, <2>7, <2>8 DEF Sturdy, Stands
<1>8. CASE \E last : JoinedLast(e, n, x, last)
  <2>0. PICK last : JoinedLast(e, n, x, last)
    BY <1>8
  <2>1. PICK K : K = (J \ {L}) \cup {L + 1, L + 2} \cup {i \in {L} : n \notin refused}
    OBVIOUS
  <2>2. \A i \in 1 .. L - 1 : x[i] = e[i]
    BY <1>1, <2>0 DEF JoinedLast
  <2>3. /\ x[L] = Leaf(n) /\ x[L + 1] = Together({last, L})
        /\ x[L + 2] = Alternatives((e[L].parts \ {last}) \cup {L + 1})
        /\ e[L].op = "or" /\ last \in e[L].parts
    BY <1>1, <2>0 DEF JoinedLast
  <2>4. ASSUME NEW i \in J \ {L}
        PROVE  Firm(x, K, i)
    <3>1. /\ Firm(e, J, i) /\ x[i] = e[i] /\ i \in 1 .. L - 1
      BY <1>2, <1>6, <2>2
    <3>2. \A j \in e[i].parts : j \in 1 .. L - 1 /\ x[j] = e[j] /\ (j \in J <=> j \in K)
      <4> TAKE j \in e[i].parts
      <4>1. j \in 1 .. L - 1
        BY <1>2, <1>5, <3>1
      <4> QED BY <1>2, <2>1, <2>2, <4>1
    <3> QED BY <3>1, <3>2 DEF Firm
  <2>5. e[L].parts \subseteq J \ {L}
    BY <1>2, <1>5, <1>6, <2>3 DEF Firm
  <2>6. Firm(x, K, L + 1)
    <3>1. x[L + 1].op = "and" /\ x[L + 1].parts = {last, L}
      BY <2>3, GroupsAre
    <3>2. last \in K /\ (L \notin K => n \in refused)
      BY <2>1, <2>3, <2>5
    <3> QED BY <2>3, <3>1, <3>2 DEF Firm
  <2>7. Firm(x, K, L + 2)
    <3>1. /\ x[L + 2].op = "or" /\ x[L + 2].names = {} /\ x[L + 2].refs = {}
          /\ x[L + 2].parts = (e[L].parts \ {last}) \cup {L + 1}
      BY <2>3, GroupsAre
    <3> QED BY <2>1, <2>5, <3>1 DEF Firm
  <2>8. ASSUME n \notin refused
       PROVE  Firm(x, K, L)
    <3>1. PICK g : g = x[L]
      OBVIOUS
    <3>2. g.op = "or" /\ g.names = {n} /\ g.refs = {} /\ g.parts = {}
      BY <2>3, <3>1, GroupsAre
    <3>3. g.names \cap refused = {} /\ g.names # {}
      BY <2>8, <3>2
    <3> QED BY <3>1, <3>2, <3>3 DEF Firm
  <2>9. K \subseteq DOMAIN x /\ Len(x) \in K
    <3>1. 1 .. L \subseteq 1 .. L + 2 /\ {L, L + 1, L + 2} \subseteq 1 .. L + 2
      BY <1>2
    <3>2. K \subseteq 1 .. L + 2 /\ L + 2 \in K
      BY <1>2, <2>1, <3>1
    <3> QED BY <1>4, <3>2
  <2>10. \A i \in K : Firm(x, K, i)
    BY <2>1, <2>4, <2>6, <2>7, <2>8
  <2> QED BY <1>1, <2>9, <2>10 DEF Sturdy, Stands
<1> QED BY <1>3, <1>7, <1>8

\* The groups of sturdy sets are left standing.
Kept(sets) ==
  {p \in Places(sets) : Clean(p[1]) /\ p[2] \in (CHOOSE K : Stands(sets[p[1]], K))}

LEMMA KeptStanding ==
  ASSUME in \in Instances, Prepared(categories), Spared(refused), Expanded(expanded),
         \A s \in SetNames : Clean(s) => Sturdy(expanded[s])
  PROVE  /\ Standing(expanded, refused, Kept(expanded))
         /\ \A s \in SetNames : Clean(s) => Root(expanded, s) \in Kept(expanded)
<1>1. /\ Sound(expanded) /\ DOMAIN expanded = SetNames
      /\ \A s \in SetNames : expanded[s] # Nothing /\ Expression(expanded[s])
  <2>1. DOMAIN expanded = DOMAIN Sets /\ \A s \in DOMAIN expanded : expanded[s] \in Like(Sets[s])
    BY DEF Expanded, SetNames
  <2>2. Sound(expanded)
    BY <2>1, ConfiguredSound, SoundLike
  <2> QED BY <2>1, <2>2 DEF Expanded, Sound
<1>2. PICK KK : KK = [s \in SetNames |-> CHOOSE K : Stands(expanded[s], K)]
  OBVIOUS
<1>3. \A s \in SetNames : Clean(s) => Stands(expanded[s], KK[s])
  <2> TAKE s \in SetNames
  <2>1. KK[s] = CHOOSE K : Stands(expanded[s], K)
    BY <1>2
  <2> QED BY <2>1 DEF Sturdy
<1>4. \A s : \A i : <<s, i>> \in Kept(expanded) <=>
                      s \in SetNames /\ i \in DOMAIN expanded[s] /\ Clean(s) /\ i \in KK[s]
  <2> TAKE s
  <2> TAKE i
  <2>1. <<s, i>> \in Places(expanded) <=> s \in SetNames /\ i \in DOMAIN expanded[s]
    BY <1>1, PlaceIs
  <2> QED BY <1>2, <2>1 DEF Kept
<1>5. \A s \in SetNames : Clean(s) => Root(expanded, s) \in Kept(expanded)
  BY <1>1, <1>3, <1>4, Lengths DEF Stands, Root
<1>6. ASSUME NEW p \in Kept(expanded)
      PROVE  /\ At(expanded, p).op = "and" =>
                  /\ Under(expanded, p) \cap Kept(expanded) # {}
                  /\ \A q \in Under(expanded, p) \ Kept(expanded) : \E n \in refused : At(expanded, q) = Leaf(n)
             /\ At(expanded, p).op # "and" =>
                  /\ Names(expanded, p) \cap refused = {} /\ Under(expanded, p) \subseteq Kept(expanded)
                  /\ Names(expanded, p) # {} \/ Under(expanded, p) # {}
  <2>1. PICK s \in SetNames : \E i \in DOMAIN expanded[s] : p = <<s, i>>
    BY <1>1, PlaceIs DEF Kept
  <2>2. PICK i \in DOMAIN expanded[s] : p = <<s, i>>
    BY <2>1
  <2>3. Clean(s) /\ i \in KK[s] /\ Stands(expanded[s], KK[s])
    BY <1>3, <1>4, <2>2
  <2>4. PICK e, K : e = expanded[s] /\ K = KK[s]
    OBVIOUS
  <2>5. Firm(e, K, i) /\ At(expanded, p) = e[i] /\ K \subseteq DOMAIN e
    BY <2>2, <2>3, <2>4 DEF Stands, At
  <2>6. \A j : <<s, j>> \in Kept(expanded) <=> j \in K
    BY <1>4, <2>3, <2>4, <2>5
  <2>7. /\ \A j \in e[i].parts : <<s, j>> \in Under(expanded, p)
        /\ \A t \in e[i].refs \cap SetNames : Root(expanded, t) \in Under(expanded, p)
        /\ \A q \in Under(expanded, p) :
             \/ \E j \in e[i].parts : q = <<s, j>>
             \/ \E t \in e[i].refs \cap SetNames : q = Root(expanded, t)
    BY <1>1, <2>2, <2>4, UnderIs
  <2>8. CASE e[i].op = "and"
    <3>1. e[i].refs = {}
      BY <1>1, <2>2, <2>4, <2>8 DEF Expression
    <3>2. e[i].parts \cap K # {} /\ \A j \in e[i].parts \ K : \E n \in refused : e[j] = Leaf(n)
      BY <2>5, <2>8 DEF Firm
    <3>3. Under(expanded, p) \cap Kept(expanded) # {}
      BY <2>6, <2>7, <3>2
    <3>4. \A q \in Under(expanded, p) \ Kept(expanded) : \E n \in refused : At(expanded, q) = Leaf(n)
      <4> TAKE q \in Under(expanded, p) \ Kept(expanded)
      <4>1. PICK j \in e[i].parts : q = <<s, j>>
        BY <2>7, <3>1
      <4>2. At(expanded, q) = e[j] /\ j \notin K
        BY <2>4, <2>6, <4>1 DEF At
      <4> QED BY <3>2, <4>2
    <3> QED BY <2>5, <2>8, <3>3, <3>4
  <2>9. CASE e[i].op # "and"
    <3>1. /\ e[i].names \cap refused = {} /\ e[i].parts \subseteq K
          /\ \A t \in e[i].refs \cap SetNames : Clean(t)
          /\ e[i].names # {} \/ e[i].refs # {} \/ e[i].parts # {}
      BY <2>5, <2>9 DEF Firm
    <3>2. Names(expanded, p) = e[i].names \cup {"+" \o t : t \in e[i].refs \ SetNames}
      BY <1>1, <2>5 DEF Names
    <3>3. \A t \in e[i].refs : "+" \o t \notin refused
      BY <2>2, <2>4, TokensApart DEF Spared
    <3>4. Names(expanded, p) \cap refused = {}
      BY <3>1, <3>2, <3>3
    <3>5. Under(expanded, p) \subseteq Kept(expanded)
      BY <1>5, <2>6, <2>7, <3>1
    <3>6. Names(expanded, p) # {} \/ Under(expanded, p) # {}
      <4>1. CASE e[i].names # {}
        BY <3>2, <4>1
      <4>2. CASE e[i].parts # {}
        BY <2>7, <4>2
      <4>3. CASE e[i].refs # {}
        <5>1. PICK t \in e[i].refs : TRUE
          BY <4>3
        <5>2. CASE t \in SetNames
          BY <2>7, <5>2
        <5>3. CASE t \notin SetNames
          BY <3>2, <5>3
        <5> QED BY <5>2, <5>3
      <4> QED BY <3>1, <4>1, <4>2, <4>3
    <3> QED BY <2>5, <2>9, <3>4, <3>5, <3>6
  <2> QED BY <2>5, <2>8, <2>9
<1>7. Kept(expanded) \subseteq Places(expanded)
  BY DEF Kept
<1> QED BY <1>5, <1>6, <1>7 DEF Standing

\* A composition that fits keeps what it names.
LEMMA FittingKept ==
  ASSUME in \in Instances, Prepared(categories), Spared(refused), Expanded(expanded), Finished(final),
         \A s \in SetNames : Clean(s) => Sturdy(expanded[s]),
         NEW s \in ChatSets, s \notin Fails
  PROVE  s \in DOMAIN final /\ Named(s, final) = Named(s, expanded)
<1>1. s \in SetNames /\ Clean(s)
  BY DEF Spared, Clean, ChatSets
<1>2. CASE refused = {}
  BY <1>1, <1>2 DEF Finished, Expanded
<1>3. CASE refused # {}
  <2>1. /\ Sound(expanded) /\ Sound(final) /\ DOMAIN final = Survivors
        /\ \A t \in Survivors : Survives(t, expanded, refused) /\ final[t] = Pruned(t, expanded, refused)
        /\ s \in DOMAIN expanded /\ expanded[s] # Nothing
    BY <1>1, <1>3, ConfiguredSound, PruningIs DEF Expanded
  <2>2. Standing(expanded, refused, Kept(expanded)) /\ Root(expanded, s) \in Kept(expanded)
    BY <1>1, KeptStanding
  <2>3. s \in Survivors
    BY <1>1, <2>1, <2>2, StandingRemains DEF Survivors, Survives
  <2>4. /\ final[s] # Nothing /\ Root(final, s) = Root(expanded, s) /\ Root(final, s) \in Places(final)
    <3>1. final[s] # Nothing /\ Len(final[s]) = Len(expanded[s])
      BY <2>1, <2>3, PrunedIs
    <3> QED BY <2>1, <2>3, <3>1, RootIs DEF Root
  <2>5. Relieved(expanded, final, refused, Root(expanded, s))
    BY <1>3, <2>2, <2>4, ConfiguredSound, StandingRelieved
  <2>6. PICK X, Y, N : X = Options(s, expanded) /\ Y = Options(s, final) /\ N = Leaves(s, Sets)
    OBVIOUS
  <2>7. X = OptionsAt(expanded)[Root(expanded, s)] /\ Y = OptionsAt(final)[Root(expanded, s)]
    BY <2>1, <2>4, <2>6 DEF Options
  <2>8. (\A x \in X : x \ refused \in Y) /\ (\A o \in Y : \E x \in X : o = x \ refused)
    BY <2>5, <2>7 DEF Relieved
  <2>9. N \cap refused = {}
    BY <1>1, <2>6 DEF Clean
  <2>10. \A x : (x \ refused) \cap N = x \cap N
    BY <2>9
  <2>11. {o \cap N : o \in Y} = {x \cap N : x \in X}
    <3>1. \A o \in Y : o \cap N \in {x \cap N : x \in X}
      BY <2>8, <2>10
    <3>2. \A x \in X : x \cap N \in {o \cap N : o \in Y}
      <4> TAKE x \in X
      <4>1. x \ refused \in Y /\ (x \ refused) \cap N = x \cap N
        BY <2>8, <2>10
      <4> QED BY <4>1
    <3> QED BY <3>1, <3>2
  <2> QED BY <2>1, <2>3, <2>6, <2>11 DEF Named
<1> QED BY <1>2, <1>3

-----------------------------------------------------------------------------
(* What helpers may be together with *)

\* A set whose placeholders were filled: of certain names it has no more than
\* was configured.
Eased(e, s, C) ==
  /\ Len(e) = Len(Sets[s])
  /\ \A i \in DOMAIN e :
       /\ e[i].op = Sets[s][i].op /\ e[i].refs = Sets[s][i].refs
       /\ e[i].parts \subseteq Sets[s][i].parts
       /\ e[i].names # {} => Sets[s][i].names # {}
       /\ e[i].names \cap C \subseteq Sets[s][i].names

LEMMA FilledEased ==
  ASSUME Ready, NEW s \in SetNames, NEW C, ColoadVars \cap C = {},
         ChatOf(s) \cap C = {} \/ \A i \in DOMAIN Sets[s] : Sets[s][i] # Leaf(CHAT)
  PROVE  Eased(Filled(s), s, C)
<1>1. PICK e, f : e = Sets[s] /\ f = Filled(s)
  OBVIOUS
<1>2. Len(f) = Len(e) /\ DOMAIN f = DOMAIN e
  BY <1>1, FilledIs
<1>3. ASSUME NEW i \in DOMAIN e
      PROVE  /\ f[i].op = e[i].op /\ f[i].refs = e[i].refs
             /\ f[i].parts \subseteq e[i].parts
             /\ f[i].names # {} => e[i].names # {}
             /\ f[i].names \cap C \subseteq e[i].names
  <2>1. CASE e[i] = Leaf(CHAT)
    <3>1. f[i] = AnyOf(ChatOf(s))
      BY <1>1, <2>1, FilledIs
    <3>2. f[i].op = "or" /\ f[i].names = ChatOf(s) /\ f[i].refs = {} /\ f[i].parts = {}
      BY <3>1, GroupsAre
    <3>3. e[i].op = "or" /\ e[i].names = {CHAT} /\ e[i].refs = {} /\ e[i].parts = {}
      BY <2>1, GroupsAre
    <3>4. ChatOf(s) \cap C = {}
      BY <1>1, <2>1
    <3> QED BY <3>2, <3>3, <3>4
  <2>2. CASE e[i] = Leaf(COLOAD)
    <3>1. f[i] = AnyOf(ColoadVars)
      BY <1>1, <2>2, FilledIs
    <3>2. f[i].op = "or" /\ f[i].names = ColoadVars /\ f[i].refs = {} /\ f[i].parts = {}
      BY <3>1, GroupsAre
    <3>3. e[i].op = "or" /\ e[i].names = {COLOAD} /\ e[i].refs = {} /\ e[i].parts = {}
      BY <2>2, GroupsAre
    <3> QED BY <3>2, <3>3
  <2>3. CASE e[i] \notin {Leaf(CHAT), Leaf(COLOAD)}
    <3>1. /\ f[i].op = e[i].op /\ f[i].names = e[i].names /\ f[i].refs = e[i].refs
          /\ f[i].parts \subseteq e[i].parts
      BY <1>1, <2>3, FilledIs
    <3> QED BY <3>1
  <2> QED BY <2>1, <2>2, <2>3
<1> QED BY <1>1, <1>2, <1>3 DEF Eased

\* A family of sets some of which are still as configured.
LEMMA EasedBelow ==
  ASSUME NEW A, Sound(A), NEW B, Sound(B), DOMAIN A = SetNames, DOMAIN B = SetNames,
         NEW T, T \subseteq SetNames, NEW C,
         \A t \in T : /\ A[t] # Nothing /\ B[t] # Nothing /\ Refs(A[t]) \cap SetNames \subseteq T
                      /\ A[t] = B[t] \/ (B[t] = Sets[t] /\ Eased(A[t], t, C))
  PROVE  Below(A, B, {p \in Places(A) : p[1] \in T}, C)
<1> DEFINE G == {p \in Places(A) : p[1] \in T}
<1>1. \A t \in T : /\ A[t] # Nothing /\ B[t] # Nothing /\ Len(A[t]) = Len(B[t]) /\ DOMAIN A[t] = DOMAIN B[t]
                   /\ Root(A, t) = Root(B, t) /\ Root(A, t) \in G
  <2> TAKE t \in T
  <2>1. Len(A[t]) = Len(B[t])
    BY DEF Eased
  <2>2. DOMAIN A[t] = DOMAIN B[t]
    BY <2>1, Lengths DEF Sound
  <2>3. Root(A, t) \in Places(A) /\ Root(A, t) = <<t, Len(A[t])>>
    BY RootIs
  <2> QED BY <2>1, <2>2, <2>3 DEF Root
<1>2. ASSUME NEW p \in G
      PROVE  /\ p \in Places(B)
             /\ At(A, p).op = "and" <=> At(B, p).op = "and"
             /\ Under(A, p) \subseteq Under(B, p) \cap G
             /\ Names(A, p) # {} => Names(B, p) # {}
             /\ Names(A, p) \cap C \subseteq Names(B, p)
  <2>1. PICK s \in T : \E i \in DOMAIN A[s] : p = <<s, i>>
    BY PlaceIs
  <2>2. PICK i \in DOMAIN A[s] : p = <<s, i>>
    BY <2>1
  <2>3. PICK a, b : a = A[s][i] /\ b = B[s][i] /\ At(A, p) = a /\ At(B, p) = b
    BY <2>2 DEF At
  <2>4. /\ a.op = b.op /\ a.refs = b.refs /\ a.parts \subseteq b.parts
        /\ a.names # {} => b.names # {}
        /\ a.names \cap C \subseteq b.names
    BY <2>3 DEF Eased
  <2>5. /\ Names(A, p) = a.names \cup {"+" \o t : t \in a.refs \ SetNames}
        /\ Names(B, p) = b.names \cup {"+" \o t : t \in b.refs \ SetNames}
    BY <2>3 DEF Names
  <2>6. p \in Places(B)
    BY <1>1, <2>2, PlaceIs
  <2>7. a.refs \cap SetNames \subseteq T
    BY <2>3, RefsIs
  <2>8. ASSUME NEW q \in Under(A, p)
        PROVE  q \in Under(B, p) /\ q \in G
    <3>1. q \in Places(A)
      BY UnderWithin
    <3>2. CASE \E j \in a.parts : q = <<s, j>>
      <4>1. PICK j \in a.parts : q = <<s, j>>
        BY <3>2
      <4>2. q \in Under(B, p)
        BY <2>2, <2>3, <2>4, <4>1, UnderIs
      <4> QED BY <3>1, <4>1, <4>2
    <3>3. CASE \E t \in a.refs \cap SetNames : q = Root(A, t)
      <4>1. PICK t \in a.refs \cap SetNames : q = Root(A, t)
        BY <3>3
      <4>2. t \in T /\ q = Root(B, t) /\ q \in G /\ B[t] # Nothing /\ t \in b.refs \cap DOMAIN B
        BY <1>1, <2>4, <2>7, <4>1
      <4>3. q \in Under(B, p)
        BY <2>2, <2>3, <4>2, UnderIs
      <4> QED BY <4>2, <4>3
    <3>4. (\E j \in a.parts : q = <<s, j>>) \/ \E t \in a.refs \cap SetNames : q = Root(A, t)
      BY <2>2, <2>3, <2>8, UnderIs
    <3> QED BY <3>2, <3>3, <3>4
  <2>9. /\ Names(A, p) # {} => Names(B, p) # {}
        /\ Names(A, p) \cap C \subseteq Names(B, p)
    BY <2>4, <2>5
  <2> QED BY <2>3, <2>4, <2>6, <2>8, <2>9
<1> QED BY <1>2 DEF Below

\* Only categories can be twins.
LEMMA TwinsWithin ==
  ASSUME NEW o, NEW m, o \cap DOMAIN categories \subseteq m, Twins(o)
  PROVE  Twins(m)
<1>1. \A v \in o : RoleOf(v) # None => v \in m
  BY DEF RoleOf
<1>2. PICK v \in o, w \in o : v # w /\ RoleOf(v) # None /\ RoleOf(v) = RoleOf(w)
  BY DEF Twins
<1> QED BY <1>1, <1>2 DEF Twins

\* The configured sets with another expression for one.
LEMMA WithIs ==
  ASSUME in \in Instances, NEW s \in SetNames, NEW e \in Like(Sets[s])
  PROVE  /\ Sound(With(s, e)) /\ DOMAIN With(s, e) = SetNames /\ With(s, e)[s] = e
         /\ \A t \in SetNames \ {s} : With(s, e)[t] = Sets[t]
<1>1. DOMAIN With(s, e) = SetNames /\ With(s, e)[s] = e /\ \A t \in SetNames \ {s} : With(s, e)[t] = Sets[t]
  BY DEF With, SetNames
<1>2. \A t \in SetNames : With(s, e)[t] \in Like(Sets[t])
  <2> TAKE t \in SetNames
  <2>1. Sets[t] \in Like(Sets[t])
    BY ConfiguredSound DEF Like, Expression
  <2> QED BY <1>1, <2>1
<1>3. Sound(With(s, e))
  BY <1>1, <1>2, ConfiguredSound, SoundLike DEF SetNames
<1> QED BY <1>1, <1>3

\* It has no twins in an option unless the configured set has.
Untwinned(e, s) ==
  (\E o \in Options(s, With(s, e)) : Twins(o)) => \E o \in Options(s, Sets) : Twins(o)

LEMMA FilledUntwinned ==
  ASSUME Ready, ColoadApart, DOMAIN categories \subseteq CategoryNames(in), NEW s \in SetNames
  PROVE  Untwinned(Filled(s), s)
<1>1. PICK f, A : f = Filled(s) /\ A = With(s, f)
  OBVIOUS
<1>2. f \in Like(Sets[s]) /\ f # Nothing /\ Eased(f, s, DOMAIN categories)
  <2>1. ColoadVars \cap DOMAIN categories = {}
    BY DEF ColoadApart
  <2>2. ChatOf(s) \cap DOMAIN categories = {}
    <3>1. ChatOf(s) \subseteq ChatNames(in)
      BY ChatVarsAre DEF Ready, ChatOf
    <3> QED BY <3>1, ConfiguredSound DEF Ready, Apart
  <2> QED BY <1>1, <2>1, <2>2, FilledIs, FilledEased
<1>3. /\ Sound(A) /\ DOMAIN A = SetNames /\ A[s] = f
      /\ \A t \in SetNames \ {s} : A[t] = Sets[t]
  BY <1>1, <1>2, WithIs DEF Ready
<1>4. Sound(Sets) /\ \A t \in SetNames : Sets[t] # Nothing
  BY ConfiguredSound DEF Ready
<1>5. PICK G, T : G = {p \in Places(A) : p[1] \in T} /\ T = SetNames
  OBVIOUS
<1>6. Below(A, Sets, G, DOMAIN categories)
  <2>1. \A t \in T : /\ A[t] # Nothing /\ Sets[t] # Nothing /\ Refs(A[t]) \cap SetNames \subseteq T
                     /\ A[t] = Sets[t] \/ (Sets[t] = Sets[t] /\ Eased(A[t], t, DOMAIN categories))
    BY <1>2, <1>3, <1>4, <1>5
  <2>2. DOMAIN Sets = SetNames
    BY DEF SetNames
  <2> QED BY <1>3, <1>4, <1>5, <2>1, <2>2, EasedBelow
<1>7. Root(A, s) \in G /\ Root(A, s) = Root(Sets, s)
  <2>1. Root(A, s) \in Places(A) /\ Root(A, s) = <<s, Len(A[s])>>
    BY <1>2, <1>3, RootIs
  <2> QED BY <1>2, <1>3, <1>5, <2>1 DEF Root, Eased
<1>8. Matched(A, Sets, DOMAIN categories, Root(A, s))
  BY <1>3, <1>4, <1>6, <1>7, Shrinks
<1>9. Options(s, A) = OptionsAt(A)[Root(A, s)] /\ Options(s, Sets) = OptionsAt(Sets)[Root(A, s)]
  BY <1>2, <1>3, <1>4, <1>7 DEF Options
<1>10. \A o \in Options(s, A) : Twins(o) => \E m \in Options(s, Sets) : Twins(m)
  BY <1>8, <1>9, TwinsWithin DEF Matched
<1> QED BY <1>1, <1>10 DEF Untwinned

\* A term joined to a group is in every option of the two.
LEMMA JoinedOptions ==
  ASSUME NEW sets, Sound(sets), NEW p \in Places(sets), At(sets, p).op = "and", NEW q, NEW r,
         Under(sets, p) = {q, r}, NEW n, At(sets, r) = Leaf(n), NEW o \in OptionsAt(sets)[p]
  PROVE  o = {n} \/ \E c \in OptionsAt(sets)[q] : o = c \cup {n}
<1>1. q \in Places(sets) /\ r \in Places(sets)
  BY UnderWithin
<1>2. /\ At(sets, r).op = "or" /\ At(sets, r).names = {n} /\ At(sets, r).refs = {} /\ At(sets, r).parts = {}
  BY GroupsAre
<1>3. Under(sets, r) = {} /\ Names(sets, r) = {n}
  BY <1>2 DEF Under, Names
<1>4. \A x : x \in OptionsAt(sets)[r] <=> x = {n}
  BY <1>1, <1>2, <1>3, OptionsOr DEF Either
<1>5. PICK c : Choice(sets, p, c, o)
  BY OptionsAnd
<1>6. r \in Live(sets, p) /\ Live(sets, p) \subseteq {q, r} /\ c[r] = {n}
  BY <1>4, <1>5 DEF Live, Choice
<1>7. CASE q \in Live(sets, p)
  <2>1. Live(sets, p) = {q, r}
    BY <1>6, <1>7
  <2>2. o = c[q] \cup {n}
    BY <1>5, <1>6, <2>1 DEF Choice
  <2> QED BY <1>5, <1>7, <2>2 DEF Choice
<1>8. CASE q \notin Live(sets, p)
  <2>1. Live(sets, p) = {r}
    BY <1>6, <1>8
  <2> QED BY <1>5, <1>6, <2>1 DEF Choice
<1> QED BY <1>7, <1>8

\* Nor are their leaves more.
LEMMA LeavesShrink ==
  ASSUME NEW A, Sound(A), NEW B, Sound(B), NEW G, NEW C, Below(A, B, G, C)
  PROVE  \A p \in G : LeavesAt(A)[p] \cap C \subseteq LeavesAt(B)[p]
<1> DEFINE H == {p \in Places(A) : p \in G => LeavesAt(A)[p] \cap C \subseteq LeavesAt(B)[p]}
<1>1. ASSUME NEW p \in Places(A), Under(A, p) \subseteq H, p \in G
      PROVE  LeavesAt(A)[p] \cap C \subseteq LeavesAt(B)[p]
  <2>1. /\ p \in Places(B) /\ Under(A, p) \subseteq Under(B, p)
        /\ Names(A, p) \cap C \subseteq Names(B, p)
        /\ \A q \in Under(A, p) : LeavesAt(A)[q] \cap C \subseteq LeavesAt(B)[q]
    BY <1>1 DEF Below
  <2>2. /\ LeavesAt(A)[p] = Names(A, p) \cup UNION {LeavesAt(A)[q] : q \in Under(A, p)}
        /\ LeavesAt(B)[p] = Names(B, p) \cup UNION {LeavesAt(B)[q] : q \in Under(B, p)}
    BY <2>1, LeavesEq
  <2> QED BY <2>1, <2>2
<1>2. Places(A) \subseteq H
  <2>1. \A p \in Places(A) : Under(A, p) \subseteq H => p \in H
    BY <1>1
  <2> HIDE DEF H
  <2> QED BY <2>1, Upwards
<1> QED BY <1>2 DEF Below

\* A set without a chat member gets no pins.
LEMMA PinnedOnlyChat ==
  ASSUME Ready, NEW s \in SetNames, s \notin ChatSets
  PROVE  Pinned(s) = Filled(s)
<1>1. PICK f, A, C, V : f = Filled(s) /\ A = With(s, f) /\ C = ChatNames(in) /\ V = {f}
  OBVIOUS
<1>2. Sound(Sets) /\ Apart(in) /\ \A t \in SetNames : Sets[t] # Nothing /\ Expression(Sets[t])
  BY ConfiguredSound DEF Ready
<1>3. /\ \A i \in DOMAIN Sets[s] : CHAT \notin Sets[s][i].names
      /\ Leaves(s, Sets) \cap C = {}
  BY <1>1 DEF ChatSets, HasChatSlot
<1>4. ColoadVars \cap C = {} /\ CHAT \notin ColoadVars
  BY <1>1, <1>2, ColoadVarsAre DEF Apart
<1>5. \A i \in DOMAIN Sets[s] : Sets[s][i] # Leaf(CHAT)
  BY <1>3, GroupsAre
<1>6. Eased(f, s, C)
  BY <1>1, <1>4, <1>5, FilledEased
<1>7. f \in Like(Sets[s]) /\ f # Nothing /\ DOMAIN f = DOMAIN Sets[s]
  BY <1>1, FilledIs
<1>8. /\ Sound(A) /\ DOMAIN A = SetNames /\ A[s] = f
      /\ \A t \in SetNames \ {s} : A[t] = Sets[t]
  BY <1>1, <1>7, WithIs DEF Ready
<1>9. PICK G, T : G = {p \in Places(A) : p[1] \in T} /\ T = SetNames
  OBVIOUS
<1>10. Below(A, Sets, G, C)
  <2>1. \A t \in T : /\ A[t] # Nothing /\ Sets[t] # Nothing /\ Refs(A[t]) \cap SetNames \subseteq T
                     /\ A[t] = Sets[t] \/ (Sets[t] = Sets[t] /\ Eased(A[t], t, C))
    BY <1>2, <1>6, <1>7, <1>8, <1>9
  <2>2. DOMAIN Sets = SetNames
    BY DEF SetNames
  <2> QED BY <1>2, <1>8, <1>9, <2>1, <2>2, EasedBelow
<1>11. Root(A, s) \in G /\ Root(A, s) = Root(Sets, s)
  <2>1. Root(A, s) \in Places(A) /\ Root(A, s) = <<s, Len(A[s])>>
    BY <1>7, <1>8, RootIs
  <2> QED BY <1>6, <1>8, <1>9, <2>1 DEF Root, Eased
<1>12. Leaves(s, A) \cap C = {}
  <2>1. LeavesAt(A)[Root(A, s)] \cap C \subseteq LeavesAt(Sets)[Root(Sets, s)]
    BY <1>2, <1>8, <1>10, <1>11, LeavesShrink
  <2>2. Leaves(s, A) = LeavesAt(A)[Root(A, s)] /\ Leaves(s, Sets) = LeavesAt(Sets)[Root(Sets, s)]
    BY <1>2, <1>7, <1>8 DEF Leaves
  <2> QED BY <1>3, <2>1, <2>2
<1>13. \A i \in DOMAIN f : CHAT \notin f[i].names
  <2> TAKE i \in DOMAIN f
  <2>1. CASE Sets[s][i] = Leaf(COLOAD)
    <3>1. f[i] = AnyOf(ColoadVars)
      BY <1>1, <1>7, <2>1, FilledIs
    <3>2. f[i].names = ColoadVars
      BY <3>1, GroupsAre
    <3> QED BY <1>4, <3>2
  <2>2. CASE Sets[s][i] # Leaf(COLOAD)
    <3>1. f[i].names = Sets[s][i].names
      BY <1>1, <1>5, <1>7, <2>2, FilledIs
    <3> QED BY <1>3, <1>7, <3>1
  <2> QED BY <2>1, <2>2
<1>14. ~HasChatSlot(s, A)
  BY <1>1, <1>8, <1>12, <1>13 DEF HasChatSlot
<1>15. \A n : ~Joins(s, f, n)
  BY <1>1, <1>14 DEF Joins
<1>16. Steady(V, s) /\ Filled(s) \in V
  BY <1>1, <1>15 DEF Steady
<1>17. PinNames \in Seq(Name)
  BY PinNamesAre DEF Ready
<1>18. Pinned(s) \in V
  BY <1>16, <1>17, PinnedIn
<1> QED BY <1>1, <1>18

\* The groups two expressions for a set begin with hold the same.
LEMMA BeginsMatched ==
  ASSUME in \in Instances, NEW s \in SetNames, NEW e \in Like(Sets[s]), NEW x \in Like(Sets[s]),
         NEW k \in Nat, \A i \in 1 .. k : i \in DOMAIN e /\ i \in DOMAIN x /\ x[i] = e[i], NEW C
  PROVE  \A i \in 1 .. k : Matched(With(s, x), With(s, e), C, <<s, i>>)
<1>1. PICK A, B : A = With(s, x) /\ B = With(s, e)
  OBVIOUS
<1>2. /\ Sound(A) /\ DOMAIN A = SetNames /\ A[s] = x
      /\ Sound(B) /\ DOMAIN B = SetNames /\ B[s] = e
      /\ \A t \in SetNames \ {s} : A[t] = Sets[t] /\ B[t] = Sets[t]
  BY <1>1, WithIs
<1>3. Sound(Sets) /\ \A t \in SetNames : Sets[t] # Nothing
  BY ConfiguredSound
<1>4. PICK rank \in [SetNames -> Nat] : Descends(Sets, rank)
  BY <1>3 DEF Sound, SetNames
<1>5. PICK G : G = {p \in Places(A) : \/ p[1] = s /\ p[2] \in 1 .. k
                                      \/ p[1] # s /\ rank[p[1]] < rank[s]}
  OBVIOUS
<1>6. \A t \in SetNames : \A u \in Refs(A[t]) \cap SetNames : rank[u] < rank[t]
  <2> TAKE t \in SetNames
  <2> TAKE u \in Refs(A[t]) \cap SetNames
  <2>1. u \in Refs(Sets[t])
    BY <1>2 DEF Like
  <2>2. PICK j \in DOMAIN Sets[t] : u \in Sets[t][j].refs
    BY <2>1, RefsIs
  <2> QED BY <1>4, <2>2 DEF Descends, SetNames
<1>7. ASSUME NEW p \in G
      PROVE  p \in Places(B) /\ At(A, p) = At(B, p) /\ Under(A, p) = Under(B, p) /\ Under(A, p) \subseteq G
  <2>1. PICK t \in SetNames : \E i \in DOMAIN A[t] : p = <<t, i>>
    BY <1>2, <1>5, PlaceIs
  <2>2. PICK i \in DOMAIN A[t] : p = <<t, i>>
    BY <2>1
  <2>3. i \in DOMAIN B[t] /\ A[t][i] = B[t][i] /\ (t = s => i \in 1 .. k) /\ rank[t] <= rank[s]
    <3>1. CASE t = s
      <4>1. i \in 1 .. k /\ rank[t] \in Nat
        BY <1>4, <1>5, <2>2, <3>1
      <4> QED BY <1>2, <3>1, <4>1
    <3>2. CASE t # s
      <4>1. rank[t] < rank[s] /\ rank[t] \in Nat /\ rank[s] \in Nat
        BY <1>4, <1>5, <2>2, <3>2
      <4> QED BY <1>2, <2>2, <3>2, <4>1
    <3> QED BY <3>1, <3>2
  <2>4. p \in Places(B) /\ At(A, p) = A[t][i] /\ At(B, p) = A[t][i]
    BY <1>2, <2>2, <2>3, PlaceIs DEF At
  <2>5. \A u \in A[t][i].refs \cap SetNames : u # s /\ rank[u] < rank[s] /\ A[u] = B[u] /\ A[u] # Nothing
    <3> TAKE u \in A[t][i].refs \cap SetNames
    <3>1. u \in Refs(A[t])
      BY <2>2, RefsIs
    <3>2. rank[u] < rank[t] /\ rank[u] \in Nat /\ rank[t] \in Nat /\ rank[s] \in Nat
      BY <1>4, <1>6, <3>1
    <3>3. rank[u] < rank[s] /\ u # s
      BY <2>3, <3>2
    <3> QED BY <1>2, <1>3, <3>3
  <2>6. \A q : q \in Under(A, p) <=>
          \/ \E j \in A[t][i].parts : q = <<t, j>>
          \/ \E u \in A[t][i].refs \cap SetNames : A[u] # Nothing /\ q = Root(A, u)
    BY <1>2, <2>2, UnderIs
  <2>7. \A q : q \in Under(B, p) <=>
          \/ \E j \in A[t][i].parts : q = <<t, j>>
          \/ \E u \in A[t][i].refs \cap SetNames : B[u] # Nothing /\ q = Root(B, u)
    BY <1>2, <2>2, <2>3, UnderIs
  <2>8. \A u \in A[t][i].refs \cap SetNames : Root(A, u) = Root(B, u)
    BY <2>5 DEF Root
  <2>9. \A q : q \in Under(A, p) <=> q \in Under(B, p)
    BY <2>5, <2>6, <2>7, <2>8
  <2>10. ASSUME NEW q \in Under(A, p)
         PROVE  q \in G
    <3>1. q \in Places(A)
      BY <1>2, <1>5, <2>10, UnderWithin
    <3>2. CASE \E j \in A[t][i].parts : q = <<t, j>>
      <4>1. PICK j \in A[t][i].parts : q = <<t, j>>
        BY <3>2
      <4>2. A[t][i].parts \subseteq 1 .. (i - 1)
        BY <1>2, <2>2 DEF Sound, Expression
      <4>3. t = s => j \in 1 .. k
        BY <2>3, <4>1, <4>2
      <4> QED BY <1>5, <2>2, <3>1, <4>1, <4>3
    <3>3. CASE \E u \in A[t][i].refs \cap SetNames : A[u] # Nothing /\ q = Root(A, u)
      <4>1. PICK u \in A[t][i].refs \cap SetNames : q = Root(A, u)
        BY <3>3
      <4> QED BY <1>5, <2>5, <3>1, <4>1 DEF Root
    <3> QED BY <2>6, <2>10, <3>2, <3>3
  <2> QED BY <2>4, <2>9, <2>10
<1>8. Below(A, B, G, C)
  <2>1. \A p \in G : Names(A, p) = Names(B, p)
    BY <1>2, <1>7 DEF Names
  <2>2. G \subseteq Places(A) \cap Places(B)
    BY <1>5, <1>7
  <2> QED BY <1>7, <2>1, <2>2 DEF Below
<1>9. \A i \in 1 .. k : <<s, i>> \in G
  <2> TAKE i \in 1 .. k
  <2>1. <<s, i>> \in Places(A)
    BY <1>2, PlaceIs
  <2> QED BY <1>5, <2>1
<1> QED BY <1>1, <1>2, <1>8, <1>9, Shrinks

\* What a term appended to a set's expression is resident with.
LEMMA ExtendedOptions ==
  ASSUME in \in Instances, NEW s \in SetNames, NEW e \in Like(Sets[s]), e # Nothing, NEW n \in Name, NEW C,
         NEW o \in Options(s, With(s, Extended(e, n)))
  PROVE  o \cap C \subseteq {n} \/ \E m \in Options(s, With(s, e)) : o \cap C \subseteq m \cup {n}
<1>1. PICK x, L, A, B : x = Extended(e, n) /\ L = Len(e) /\ A = With(s, x) /\ B = With(s, e)
  OBVIOUS
<1>2. Expression(e) /\ Refs(e) \subseteq Refs(Sets[s])
  BY DEF Like
<1>3. L \in Nat /\ L # 0 /\ DOMAIN e = 1 .. L /\ L \in DOMAIN e
  BY <1>1, <1>2, Lengths
<1>4. x \in Like(Sets[s]) /\ x # Nothing
  <2>1. x \in Like(e) /\ x # Nothing
    BY <1>1, <1>2, ExtendedLike
  <2> QED BY <1>2, <2>1 DEF Like
<1>5. x \in Seq(Group) /\ (Joined(e, n, x) \/ \E last : JoinedLast(e, n, x, last))
  BY <1>1, <1>2, ExtendedIs
<1>6. Len(x) = L + 2 /\ DOMAIN x = 1 .. L + 2
  BY <1>1, <1>3, <1>5, LenProperties DEF Joined, JoinedLast
<1>7. /\ Sound(A) /\ DOMAIN A = SetNames /\ A[s] = x
      /\ Sound(B) /\ DOMAIN B = SetNames /\ B[s] = e
  BY <1>1, <1>4, WithIs
<1>8. /\ 1 .. L \subseteq 1 .. L + 2 /\ {L, L + 1, L + 2} \subseteq 1 .. L + 2
      /\ 1 .. L - 1 \subseteq 1 .. L /\ L - 1 \in Nat /\ 1 .. L - 1 \subseteq 1 .. L + 2
  BY <1>3
<1>9. \A i \in 1 .. L + 2 : <<s, i>> \in Places(A) /\ At(A, <<s, i>>) = x[i]
  BY <1>6, <1>7, PlaceIs DEF At
<1>10. \A i \in 1 .. L + 2 : x[i].refs = {} => Under(A, <<s, i>>) = {<<s, j>> : j \in x[i].parts}
  BY <1>7, UnderIs
<1>11. Options(s, A) = OptionsAt(A)[<<s, L + 2>>] /\ Options(s, B) = OptionsAt(B)[<<s, L>>]
  BY <1>1, <1>4, <1>6, <1>7 DEF Options, Root
<1>12. o \in OptionsAt(A)[<<s, L + 2>>]
  BY <1>1, <1>11
<1>13. CASE Joined(e, n, x)
  <2>1. /\ x[L + 1] = Leaf(n) /\ x[L + 2] = Together({L, L + 1}) /\ \A i \in 1 .. L : x[i] = e[i]
    BY <1>1, <1>13 DEF Joined
  <2>2. PICK p, q, r : p = <<s, L + 2>> /\ q = <<s, L>> /\ r = <<s, L + 1>>
    OBVIOUS
  <2>3. x[L + 2].op = "and" /\ x[L + 2].refs = {} /\ x[L + 2].parts = {L, L + 1}
    BY <2>1, GroupsAre
  <2>4. Under(A, p) = {q, r}
    <3>1. Under(A, p) = {<<s, j>> : j \in {L, L + 1}}
      BY <1>8, <1>10, <2>2, <2>3
    <3> QED BY <2>2, <3>1
  <2>5. /\ p \in Places(A) /\ At(A, p).op = "and" /\ At(A, r) = Leaf(n) /\ o \in OptionsAt(A)[p]
    BY <1>8, <1>9, <1>12, <2>1, <2>2, <2>3
  <2>6. o = {n} \/ \E c \in OptionsAt(A)[q] : o = c \cup {n}
    BY <1>7, <2>4, <2>5, JoinedOptions
  <2>7. Matched(A, B, C, q)
    <3>1. \A i \in 1 .. L : i \in DOMAIN e /\ i \in DOMAIN x /\ x[i] = e[i]
      BY <1>3, <1>6, <1>8, <2>1
    <3>2. \A i \in 1 .. L : Matched(A, B, C, <<s, i>>)
      BY <1>1, <1>3, <1>4, <3>1, BeginsMatched
    <3> QED BY <1>3, <2>2, <3>2
  <2>8. ASSUME NEW c \in OptionsAt(A)[q], o = c \cup {n}
        PROVE  \E m \in Options(s, B) : o \cap C \subseteq m \cup {n}
    <3>1. PICK m \in OptionsAt(B)[q] : c \cap C \subseteq m
      BY <2>7 DEF Matched
    <3> QED BY <1>11, <2>2, <2>8, <3>1
  <2> QED BY <1>1, <2>6, <2>8
<1>14. CASE \E last : JoinedLast(e, n, x, last)
  <2>0. PICK last : JoinedLast(e, n, x, last)
    BY <1>14
  <2>1. /\ x[L] = Leaf(n) /\ x[L + 1] = Together({last, L})
        /\ x[L + 2] = Alternatives((e[L].parts \ {last}) \cup {L + 1})
        /\ e[L].op = "or" /\ last \in e[L].parts /\ \A i \in 1 .. L - 1 : x[i] = e[i]
    BY <1>1, <2>0 DEF JoinedLast
  <2>2. e[L].parts \subseteq 1 .. L - 1
    BY <1>2, <1>3 DEF Expression
  <2>3. PICK p, r, g : p = <<s, L + 2>> /\ r = <<s, L>> /\ g = <<s, L + 1>>
    OBVIOUS
  <2>4. \A j \in 1 .. L - 1 : Matched(A, B, C, <<s, j>>)
    <3>1. \A i \in 1 .. L - 1 : i \in DOMAIN e /\ i \in DOMAIN x /\ x[i] = e[i]
      BY <1>3, <1>6, <1>8, <2>1
    <3> QED BY <1>1, <1>4, <1>8, <3>1, BeginsMatched
  <2>5. \A j \in e[L].parts : \A m \in OptionsAt(B)[<<s, j>>] : m \in Options(s, B)
    <3> TAKE j \in e[L].parts
    <3> TAKE m \in OptionsAt(B)[<<s, j>>]
    <3>1. r \in Places(B) /\ At(B, r).op # "and"
      BY <1>3, <1>7, <2>1, <2>3, PlaceIs DEF At
    <3>2. <<s, j>> \in Under(B, r)
      BY <1>7, <2>3, UnderIs
    <3> QED BY <1>7, <1>11, <2>3, <3>1, <3>2, OptionsOr DEF Either
  <2>6. \A j \in e[L].parts : \A c \in OptionsAt(A)[<<s, j>>] : \E m \in Options(s, B) : c \cap C \subseteq m
    <3> TAKE j \in e[L].parts
    <3> TAKE c \in OptionsAt(A)[<<s, j>>]
    <3>1. PICK m \in OptionsAt(B)[<<s, j>>] : c \cap C \subseteq m
      BY <2>2, <2>4 DEF Matched
    <3> QED BY <2>5, <3>1
  <2>7. /\ x[L + 2].op = "or" /\ x[L + 2].names = {} /\ x[L + 2].refs = {}
        /\ x[L + 2].parts = (e[L].parts \ {last}) \cup {L + 1}
        /\ x[L + 1].op = "and" /\ x[L + 1].refs = {} /\ x[L + 1].parts = {last, L}
    BY <2>1, GroupsAre
  <2>8. /\ p \in Places(A) /\ At(A, p).op # "and" /\ Names(A, p) = {}
        /\ Under(A, p) = {<<s, j>> : j \in (e[L].parts \ {last}) \cup {L + 1}}
    <3>1. p \in Places(A) /\ At(A, p) = x[L + 2]
      BY <1>8, <1>9, <2>3
    <3>2. Under(A, p) = {<<s, j>> : j \in x[L + 2].parts}
      BY <1>8, <1>10, <2>3, <2>7
    <3> QED BY <2>7, <3>1, <3>2 DEF Names
  <2>9. PICK q \in Under(A, p) : o \in OptionsAt(A)[q]
    BY <1>7, <1>12, <2>3, <2>8, OptionsOr DEF Either
  <2>10. CASE \E j \in e[L].parts : q = <<s, j>>
    <3>1. \E m \in Options(s, B) : o \cap C \subseteq m
      BY <2>6, <2>9, <2>10
    <3> QED BY <1>1, <3>1
  <2>11. CASE q = g
    <3>1. PICK l : l = <<s, last>>
      OBVIOUS
    <3>2. Under(A, g) = {l, r}
      <4>1. Under(A, g) = {<<s, j>> : j \in {last, L}}
        BY <1>8, <1>10, <2>3, <2>7
      <4> QED BY <2>3, <3>1, <4>1
    <3>3. /\ g \in Places(A) /\ At(A, g).op = "and" /\ At(A, r) = Leaf(n) /\ o \in OptionsAt(A)[g]
      BY <1>8, <1>9, <2>1, <2>3, <2>7, <2>9, <2>11
    <3>4. o = {n} \/ \E c \in OptionsAt(A)[l] : o = c \cup {n}
      BY <1>7, <3>2, <3>3, JoinedOptions
    <3>5. ASSUME NEW c \in OptionsAt(A)[l], o = c \cup {n}
          PROVE  \E m \in Options(s, B) : o \cap C \subseteq m \cup {n}
      <4>1. PICK m \in Options(s, B) : c \cap C \subseteq m
        BY <2>1, <2>6, <3>1
      <4> QED BY <3>5, <4>1
    <3> QED BY <1>1, <3>4, <3>5
  <2> QED BY <2>3, <2>8, <2>9, <2>10, <2>11
<1> QED BY <1>5, <1>13, <1>14

\* A pin joins where nothing it might be with has its role.
LEMMA ExtendedUntwinned ==
  ASSUME in \in Instances, NEW s \in SetNames, NEW e \in Like(Sets[s]), e # Nothing,
         NEW n \in Name, Joins(s, e, n), Untwinned(e, s)
  PROVE  Untwinned(Extended(e, n), s)
<1>1. PICK A, B, C : A = With(s, Extended(e, n)) /\ B = With(s, e) /\ C = DOMAIN categories
  OBVIOUS
<1>2. Sound(B) /\ DOMAIN B = SetNames /\ B[s] = e
  BY <1>1, WithIs
<1>3. \A m \in Options(s, B) : m \subseteq Leaves(s, B)
  <2> TAKE m \in Options(s, B)
  <2>1. Root(B, s) \in Places(B)
    BY <1>2, RootIs
  <2>2. m \in OptionsAt(B)[Root(B, s)] /\ Leaves(s, B) = LeavesAt(B)[Root(B, s)]
    BY <1>2 DEF Options, Leaves
  <2> QED BY <1>2, <2>1, <2>2, OptionsWithin
<1>4. \A v \in Leaves(s, B) : RoleOf(v) # RoleOf(n)
  BY <1>1 DEF Joins
<1>5. ASSUME NEW o \in Options(s, A), Twins(o)
      PROVE  \E m \in Options(s, Sets) : Twins(m)
  <2>1. CASE o \cap C \subseteq {n}
    <3>1. PICK m : m = {n}
      OBVIOUS
    <3>2. Twins(m)
      BY <1>1, <1>5, <2>1, <3>1, TwinsWithin
    <3> QED BY <3>1, <3>2 DEF Twins
  <2>2. CASE \E m \in Options(s, B) : o \cap C \subseteq m \cup {n}
    <3>1. PICK m \in Options(s, B) : o \cap C \subseteq m \cup {n}
      BY <2>2
    <3>2. PICK w : w = m \cup {n}
      OBVIOUS
    <3>3. Twins(w)
      BY <1>1, <1>5, <3>1, <3>2, TwinsWithin
    <3>4. Twins(m)
      <4>1. PICK a \in w, b \in w : a # b /\ RoleOf(a) # None /\ RoleOf(a) = RoleOf(b)
        BY <3>3 DEF Twins
      <4>2. a \in m /\ b \in m
        BY <1>3, <1>4, <3>2, <4>1
      <4> QED BY <4>1, <4>2 DEF Twins
    <3> QED BY <1>1, <3>4 DEF Untwinned
  <2>3. o \cap C \subseteq {n} \/ \E m \in Options(s, B) : o \cap C \subseteq m \cup {n}
    BY <1>1, ExtendedOptions
  <2> QED BY <2>1, <2>2, <2>3
<1> QED BY <1>1, <1>5 DEF Untwinned

-----------------------------------------------------------------------------
(* What stays true of the expanded sets *)

\* As long as the co-loads' name is no category's: a set that names no refused
\* category is sturdy, one without a chat member has its placeholders filled
\* and no more, and pins bring no twins.
Composed(x) ==
  ColoadApart => \A s \in SetNames :
    /\ Clean(s) => Sturdy(x[s])
    /\ s \notin ChatSets => Eased(x[s], s, DOMAIN categories)
    /\ Untwinned(x[s], s)

LEMMA PinnedComposed ==
  ASSUME Ready, Prepared(categories), Spared(refused), ColoadApart, NEW s \in SetNames
  PROVE  /\ Clean(s) => Sturdy(Pinned(s))
         /\ s \notin ChatSets => Eased(Pinned(s), s, DOMAIN categories)
         /\ Untwinned(Pinned(s), s)
<1> DEFINE V == {e \in Like(Sets[s]) : e # Nothing /\ (Clean(s) => Sturdy(e)) /\ Untwinned(e, s)}
<1>0. in \in Instances /\ DOMAIN categories \subseteq CategoryNames(in) /\ refused \subseteq DOMAIN categories
  BY DEF Ready, Prepared, Spared
<1>1. Filled(s) \in V
  <2>1. Clean(s) => Sturdy(Filled(s))
    BY <1>0, FilledSturdy
  <2>2. Untwinned(Filled(s), s)
    BY <1>0, FilledUntwinned
  <2> QED BY <2>1, <2>2, FilledIs
<1>2. PinNames \in Seq(Name) /\ \A k \in DOMAIN PinNames : PinNames[k] \in Name
  BY <1>0, PinNamesAre
<1>3. Steady(V, s)
  <2> SUFFICES ASSUME NEW k \in DOMAIN PinNames, NEW e \in V, Joins(s, e, PinNames[k])
               PROVE  Extended(e, PinNames[k]) \in V
    BY DEF Steady
  <2>1. PICK n : n = PinNames[k] /\ n \in Name /\ Joins(s, e, n)
    BY <1>2
  <2>2. /\ e \in Like(Sets[s]) /\ Expression(e) /\ e # Nothing /\ Refs(e) \subseteq Refs(Sets[s])
        /\ Clean(s) => Sturdy(e)
        /\ Untwinned(e, s)
    BY DEF Like
  <2>3. Extended(e, n) \in Like(Sets[s]) /\ Extended(e, n) # Nothing
    <3>1. Extended(e, n) \in Like(e) /\ Extended(e, n) # Nothing
      BY <2>1, <2>2, ExtendedLike
    <3> QED BY <2>2, <3>1 DEF Like
  <2>4. Clean(s) => Sturdy(Extended(e, n))
    BY <2>1, <2>2, ExtendedSturdy
  <2>5. Untwinned(Extended(e, n), s)
    BY <1>0, <2>1, <2>2, ExtendedUntwinned
  <2> QED BY <2>1, <2>3, <2>4, <2>5
<1>4. Pinned(s) \in V
  <2> HIDE DEF V
  <2> QED BY <1>1, <1>2, <1>3, PinnedIn
<1>5. ASSUME s \notin ChatSets
      PROVE  Eased(Pinned(s), s, DOMAIN categories)
  <2>1. PICK C : C = DOMAIN categories
    OBVIOUS
  <2>2. ColoadVars \cap C = {}
    BY <2>1 DEF ColoadApart
  <2>3. ChatOf(s) \cap C = {}
    <3>1. ChatOf(s) \subseteq ChatNames(in)
      BY ChatVarsAre DEF Ready, ChatOf
    <3> QED BY <1>0, <2>1, <3>1, ConfiguredSound DEF Apart
  <2>4. Eased(Filled(s), s, C)
    BY <2>2, <2>3, FilledEased
  <2> QED BY <1>5, <2>1, <2>4, PinnedOnlyChat
<1> QED BY <1>4, <1>5

LEMMA ComposedFrame ==
  ASSUME in' = in, categories' = categories, refused' = refused, entries' = entries, NEW x, Composed(x)
  PROVE  Composed(x)'
<1>1. PICK f : f = x
  OBVIOUS
<1>2. /\ Sets' = Sets /\ SetNames' = SetNames /\ ChatSets' = ChatSets /\ ColoadVars' = ColoadVars
      /\ ColoadApart' = ColoadApart
  BY FleetFrame, VarsFrame DEF ColoadApart
<1>3. \A s : Clean(s)' = Clean(s)
  BY <1>2 DEF Clean
<1>4. \A e : \A K : Stands(e, K)' = Stands(e, K)
  BY <1>2, <1>3 DEF Stands, Firm
<1>5. \A e : Sturdy(e)' = Sturdy(e)
  BY <1>4 DEF Sturdy
<1>6. \A e : \A s : \A C : Eased(e, s, C)' = Eased(e, s, C)
  BY <1>2 DEF Eased
<1>7. \A o : Twins(o)' = Twins(o)
  BY DEF Twins, RoleOf
<1>8. \A e : \A s : With(s, e)' = With(s, e)
  BY <1>2 DEF With
<1>9. \A e : \A s : Untwinned(e, s)' = Untwinned(e, s)
  BY <1>2, <1>7, <1>8 DEF Untwinned
<1> QED BY <1>1, <1>2, <1>3, <1>5, <1>6, <1>9 DEF Composed

Composition == pc \in {"drop", "done"} => Composed(expanded)

\* Once the sets are expanded, refusals and pins find them composed.
THEOREM CompositionInv == Spec => []Composition
<1>1. Init => Composition
  BY DEF Init, Composition
<1>2. IInv /\ Composition /\ [Next]_vars => Composition'
  <2> SUFFICES ASSUME IInv, Composition, [Next]_vars, pc' \in {"drop", "done"} PROVE Composed(expanded)'
    BY DEF Composition
  <2>1. CASE Expand
    <3>1. /\ pc = "expand" /\ entries # <<>>
          /\ in' = in /\ categories' = categories /\ refused' = refused /\ entries' = entries
          /\ lists \in [SetNames -> SUBSET ChatVars] /\ Past
      BY <2>1 DEF IInv, Expand, Past
    <3>2. Ready /\ Prepared(categories) /\ Spared(refused)
      BY <3>1 DEF Ready, Past, Planned
    <3>3. PICK x : x = [s \in SetNames |-> Pinned(s)]
      OBVIOUS
    <3>4. Composed(x)
      <4> SUFFICES ASSUME ColoadApart, NEW s \in SetNames
                   PROVE  /\ Clean(s) => Sturdy(x[s])
                          /\ s \notin ChatSets => Eased(x[s], s, DOMAIN categories)
                          /\ Untwinned(x[s], s)
        BY DEF Composed
      <4>1. x[s] = Pinned(s)
        BY <3>3
      <4> QED BY <3>2, <4>1, PinnedComposed
    <3>5. expanded' = x
      BY <2>1, <3>3 DEF Expand
    <3>6. Composed(x)'
      BY <3>1, <3>4, ComposedFrame
    <3> QED BY <3>5, <3>6 DEF Composed
  <2>2. CASE Drop \/ UNCHANGED vars
    <3>1. /\ pc \in {"drop", "done"} /\ in' = in /\ categories' = categories /\ refused' = refused
          /\ entries' = entries /\ expanded' = expanded
      BY <2>2 DEF Drop, vars
    <3>2. PICK x : x = expanded
      OBVIOUS
    <3>3. Composed(x)
      BY <3>1, <3>2 DEF Composition, Composed
    <3>4. Composed(x)'
      BY <3>1, <3>3, ComposedFrame
    <3> QED BY <3>1, <3>2, <3>4 DEF Composed
  <2>3. ~Detect /\ ~Disabled /\ ~Judge /\ ~Commit /\ ~Plan /\ ~BuildVars /\ ~ChatLists
    BY DEF Detect, Disabled, Judge, Commit, Plan, BuildVars, ChatLists
  <2> QED BY <2>1, <2>2, <2>3 DEF Next
<1> QED BY <1>1, <1>2, RoutingInv, PTL DEF Spec

-----------------------------------------------------------------------------
(* What the sets end as *)

LEMMA FittingWhole == IInv /\ Composition => FittingSetsWhole
<1> SUFFICES ASSUME IInv, Composition, Done, ColoadApart, NEW s \in ChatSets \ Fails
             PROVE  s \in DOMAIN final /\ Named(s, final) = Named(s, expanded)
  BY DEF FittingSetsWhole
<1>1. in \in Instances /\ Prepared(categories) /\ Spared(refused) /\ Expanded(expanded) /\ Finished(final)
  BY DEF IInv, Done
<1>2. \A t \in SetNames : Clean(t) => Sturdy(expanded[t])
  BY DEF Composition, Composed, Done
<1> QED BY <1>1, <1>2, FittingKept

\* A composition that fits the host pool loses nothing to the refusal of
\* others (expand_matrix_sets, drop_unbound_set_entries).
THEOREM FittingSetsKept == Spec => []FittingSetsWhole
BY FittingWhole, RoutingInv, CompositionInv, PTL

\* What is left of a set is of the expanded one.
LEMMA FinalBelow ==
  ASSUME in \in Instances, Expanded(expanded), Finished(final), refused # {}, NEW C
  PROVE  Below(final, expanded, {p \in Places(final) : Remains(expanded, refused)[p]}, C)
<1>1. PICK G : G = {p \in Places(final) : Remains(expanded, refused)[p]}
  OBVIOUS
<1>2. /\ Sound(expanded) /\ Sound(final) /\ DOMAIN final = Survivors /\ Sound(Sets)
      /\ DOMAIN expanded = SetNames /\ \A t \in SetNames : Expression(expanded[t]) /\ Spelled(expanded[t], t)
  BY ConfiguredSound, PruningIs DEF Expanded, Sound
<1>3. ASSUME NEW p \in G
      PROVE  /\ p \in Places(expanded) /\ At(final, p).op = At(expanded, p).op
             /\ Under(final, p) \subseteq Under(expanded, p) \cap G
             /\ Names(final, p) \subseteq Names(expanded, p)
  <2>1. /\ p \in Places(final) /\ Remains(expanded, refused)[p]
        /\ p \in Places(expanded) /\ At(final, p).op = At(expanded, p).op
        /\ At(final, p).names = At(expanded, p).names \ refused
        /\ At(final, p).refs = At(expanded, p).refs
        /\ Under(final, p) = {q \in Under(expanded, p) : Remains(expanded, refused)[q]}
    BY <1>1, <1>2, PrunedGroup
  <2>2. Under(final, p) \subseteq G
    BY <1>1, <1>2, <2>1, UnderWithin
  <2>3. ASSUME NEW t \in At(expanded, p).refs, t \notin DOMAIN final
        PROVE  t \notin DOMAIN expanded
    <3> SUFFICES ASSUME t \in SetNames PROVE FALSE
      BY <1>2
    <3>1. PICK s \in SetNames : \E i \in DOMAIN expanded[s] : p = <<s, i>>
      BY <1>2, <2>1, PlaceIs
    <3>2. PICK i \in DOMAIN expanded[s] : p = <<s, i>>
      BY <3>1
    <3>3. PICK g : g = expanded[s][i] /\ g = At(expanded, p)
      BY <3>2 DEF At
    <3>4. g.names = {} /\ g.parts = {} /\ \A u \in g.refs : u = t
      <4>1. t \in g.refs
        BY <2>3, <3>3
      <4>2. Spelled(expanded[s], s) /\ Expression(expanded[s])
        BY <1>2
      <4>3. (g.refs # {} => g.names = {} /\ g.parts = {}) /\ \A u, v \in g.refs : u = v
        BY <3>2, <3>3, <4>2 DEF Spelled, Expression
      <4> QED BY <4>1, <4>3
    <3>5. PICK q \in Under(expanded, p) : Remains(expanded, refused)[q]
      <4>1. At(expanded, p).names \ refused = {} /\ At(expanded, p).refs \ DOMAIN expanded = {}
        BY <1>2, <3>3, <3>4
      <4> QED BY <1>2, <2>1, <4>1, RemainsEq
    <3>6. expanded[t] # Nothing /\ q = Root(expanded, t)
      BY <1>2, <3>2, <3>3, <3>4, <3>5, UnderIs
    <3>7. t \in Survivors
      BY <3>5, <3>6 DEF Survivors, Survives
    <3> QED BY <1>2, <2>3, <3>7
  <2>4. Names(final, p) \subseteq Names(expanded, p)
    BY <2>1, <2>3 DEF Names
  <2> QED BY <2>1, <2>2, <2>4
<1>4. Below(final, expanded, G, C)
  <2>1. G \subseteq Places(final) \cap Places(expanded)
    BY <1>1, <1>3
  <2> QED BY <1>3, <2>1 DEF Below
<1> QED BY <1>1, <1>4

LEMMA NoTwinForced == IInv /\ Composition => NoForcedTwin
<1> SUFFICES ASSUME IInv, Composition, Done, ColoadApart,
                    \A s \in SetNames : \A k \in DOMAIN Sets[s] : Sets[s][k].refs \cap ChatSets = {},
                    NEW s \in DOMAIN final, NEW o \in Options(s, final), Twins(o)
             PROVE  \E m \in Options(s, Sets) : Twins(m)
  BY DEF NoForcedTwin
<1>1. in \in Instances /\ Expanded(expanded) /\ Finished(final) /\ Composed(expanded)
  BY DEF IInv, Done, Composition
<1>2. PICK C, x, B : C = DOMAIN categories /\ x = expanded[s] /\ B = With(s, x)
  OBVIOUS
<1>3. /\ Sound(Sets) /\ DOMAIN expanded = SetNames /\ s \in SetNames
      /\ \A t \in SetNames : expanded[t] \in Like(Sets[t]) /\ expanded[t] # Nothing /\ Sets[t] # Nothing
  BY <1>1, ConfiguredSound DEF Expanded, Finished, Survivors
<1>4. Sound(expanded)
  BY <1>3, SoundLike DEF SetNames
<1>5. \E m \in Options(s, expanded) : Twins(m)
  <2>1. CASE refused = {}
    BY <1>1, <2>1 DEF Finished
  <2>2. CASE refused # {}
    <3>1. PICK G : G = {p \in Places(final) : Remains(expanded, refused)[p]}
      OBVIOUS
    <3>2. Sound(final) /\ Survives(s, expanded, refused) /\ final[s] = Pruned(s, expanded, refused)
      BY <1>1, <1>3, <2>2, PruningIs
    <3>3. final[s] # Nothing /\ Len(final[s]) = Len(expanded[s])
      BY <1>3, <1>4, <3>2, PrunedIs
    <3>4. Root(final, s) = Root(expanded, s) /\ Root(final, s) \in G
      <4>1. Root(final, s) = Root(expanded, s)
        BY <3>3 DEF Root
      <4>2. Root(final, s) \in Places(final)
        BY <3>2, <3>3, RootIs
      <4> QED BY <3>1, <3>2, <4>1, <4>2 DEF Survives
    <3>5. Below(final, expanded, G, C)
      BY <1>1, <2>2, <3>1, FinalBelow
    <3>6. Matched(final, expanded, C, Root(expanded, s))
      BY <1>4, <3>2, <3>4, <3>5, Shrinks
    <3>7. Options(s, final) = OptionsAt(final)[Root(expanded, s)] /\ Options(s, expanded) = OptionsAt(expanded)[Root(expanded, s)]
      BY <1>3, <3>3, <3>4 DEF Options
    <3>8. PICK m \in Options(s, expanded) : o \cap C \subseteq m
      BY <3>6, <3>7 DEF Matched
    <3>9. Twins(m)
      BY <1>2, <3>8, TwinsWithin
    <3> QED BY <3>9
  <2> QED BY <2>1, <2>2
<1>6. PICK m \in Options(s, expanded) : Twins(m)
  BY <1>5
<1>7. /\ Sound(B) /\ DOMAIN B = SetNames /\ B[s] = x
      /\ \A t \in SetNames \ {s} : B[t] = Sets[t]
  BY <1>1, <1>2, <1>3, WithIs
<1>8. PICK T, G : T = {s} \cup (SetNames \ ChatSets) /\ G = {p \in Places(expanded) : p[1] \in T}
  OBVIOUS
<1>9. Below(expanded, B, G, C)
  <2>1. \A t \in T : /\ expanded[t] # Nothing /\ B[t] # Nothing /\ Refs(expanded[t]) \cap SetNames \subseteq T
                     /\ expanded[t] = B[t] \/ (B[t] = Sets[t] /\ Eased(expanded[t], t, C))
    <3> TAKE t \in T
    <3>1. t \in SetNames
      BY <1>3, <1>8
    <3>2. Refs(expanded[t]) \cap SetNames \subseteq T
      <4>1. Refs(expanded[t]) \subseteq Refs(Sets[t])
        BY <1>3, <3>1 DEF Like
      <4>2. \A u \in Refs(Sets[t]) : u \notin ChatSets
        <5> TAKE u \in Refs(Sets[t])
        <5>1. PICK k \in DOMAIN Sets[t] : u \in Sets[t][k].refs
          BY RefsIs
        <5> QED BY <3>1, <5>1
      <4> QED BY <1>8, <4>1, <4>2
    <3>3. CASE t = s
      BY <1>2, <1>3, <1>7, <3>2, <3>3
    <3>4. CASE t # s
      <4>1. t \notin ChatSets /\ B[t] = Sets[t]
        BY <1>7, <1>8, <3>1, <3>4
      <4>2. Eased(expanded[t], t, C)
        BY <1>1, <1>2, <3>1, <4>1 DEF Composed
      <4> QED BY <1>3, <3>1, <3>2, <4>1, <4>2
    <3> QED BY <3>3, <3>4
  <2>2. T \subseteq SetNames
    BY <1>3, <1>8
  <2>3. PICK A : A = expanded
    OBVIOUS
  <2>4. \A t \in T : /\ A[t] # Nothing /\ B[t] # Nothing /\ Refs(A[t]) \cap SetNames \subseteq T
                     /\ A[t] = B[t] \/ (B[t] = Sets[t] /\ Eased(A[t], t, C))
    BY <2>1, <2>3
  <2>5. Sound(A) /\ DOMAIN A = SetNames
    BY <1>3, <1>4, <2>3
  <2>6. Below(A, B, {p \in Places(A) : p[1] \in T}, C)
    BY <1>7, <2>2, <2>4, <2>5, EasedBelow
  <2> QED BY <1>8, <2>3, <2>6
<1>10. Root(expanded, s) \in G /\ Root(expanded, s) = Root(B, s)
  <2>1. Root(expanded, s) \in Places(expanded) /\ Root(expanded, s) = <<s, Len(x)>>
    BY <1>2, <1>3, <1>4, RootIs
  <2> QED BY <1>7, <1>8, <2>1 DEF Root
<1>11. Matched(expanded, B, C, Root(B, s))
  BY <1>4, <1>7, <1>9, <1>10, Shrinks
<1>12. Options(s, expanded) = OptionsAt(expanded)[Root(B, s)] /\ Options(s, B) = OptionsAt(B)[Root(B, s)]
  BY <1>2, <1>3, <1>7, <1>10 DEF Options
<1>13. PICK w \in Options(s, B) : m \cap C \subseteq w
  BY <1>6, <1>11, <1>12 DEF Matched
<1>14. Twins(w)
  BY <1>2, <1>6, <1>13, TwinsWithin
<1>15. Untwinned(x, s)
  BY <1>1, <1>2, <1>3 DEF Composed
<1> QED BY <1>2, <1>13, <1>14, <1>15 DEF Untwinned

\* Pinned helpers put no second model of a role into anything a set may hold
\* (expand_matrix_sets): what may be resident together has two of a role only
\* if it was configured to.
THEOREM TwinsNotForced == Spec => []NoForcedTwin
BY NoTwinForced, RoutingInv, CompositionInv, PTL
=============================================================================
