---------------------------- MODULE DiscoveryProofs ----------------------------
(***************************************************************************)
(* For every tree of files and any number of runs: a weight is served      *)
(* without a sidecar only when no sidecar serves or uses it, what          *)
(* discover() returns has every file once and drops nothing but            *)
(* duplicates, every model is configured by the layers of its own          *)
(* directory, and no weight is forgotten. The first rests on when claims   *)
(* are registered, the second on what a loop that keeps the first of every *)
(* key returns, the third on what folding layers comes to and on where the *)
(* walk stands, the last on what it still has ahead.                       *)
(***************************************************************************)
EXTENDS Discovery, Integers, FiniteSetTheorems, SequenceTheorems, WellFoundedInduction, TLAPS

\* A set of numbers that is not empty has a least one.
LEMMA Least ==
  ASSUME NEW T \in SUBSET Nat, T # {}
  PROVE  \E x \in T : \A y \in T : x <= y
<1> DEFINE R == {ss \in Nat \X Nat : ss[1] < ss[2]}
<1>1. IsWellFoundedOn(R, Nat)
  BY NatLessThanWellFounded DEF OpToRel
<1>2. \A x, y \in Nat : <<y, x>> \in R <=> y < x
  OBVIOUS
<1> HIDE DEF R
<1>3. PICK x \in T : \A y \in T : ~(<<y, x>> \in R)
  BY <1>1, WFMin
<1>4. \A y \in T : ~(y < x)
  BY <1>2, <1>3
<1> QED BY <1>4

\* Induction, as a fact about a set: the library's states it of a predicate.
LEMMA SetInduction ==
  ASSUME NEW S, 0 \in S, \A n \in Nat : n \in S => n + 1 \in S
  PROVE  \A n \in Nat : n \in S
<1> SUFFICES ASSUME Nat \ S # {} PROVE FALSE
  OBVIOUS
<1>1. PICK x \in Nat \ S : \A y \in Nat \ S : x <= y
  BY Least
<1>2. x # 0 /\ x - 1 \in Nat
  BY <1>1
<1>3. x - 1 \in S
  BY <1>1, <1>2
<1> QED BY <1>1, <1>2, <1>3

-----------------------------------------------------------------------------
(* What the loops that keep the first of every key return *)

\* f[n] is what is kept of the first n.
Keeps(f, ms, key) ==
  f = [n \in 0 .. Len(ms) |->
         CASE n = 0 -> <<>>
           [] n # 0 /\ (\E j \in 1 .. n - 1 : key[ms[j]] = key[ms[n]]) -> f[n - 1]
           [] OTHER -> Append(f[n - 1], ms[n])]

\* The recursion of Firsts has a solution.
LEMMA KeptExists ==
  ASSUME NEW X, NEW ms \in Seq(X), NEW key
  PROVE  \E f : Firsts(ms, key) = f[Len(ms)] /\ Keeps(f, ms, key)
<1> DEFINE Old(n) == \E j \in 1 .. n - 1 : key[ms[j]] = key[ms[n]]
           Upto(k) == \E g : g = [n \in 0 .. k |-> CASE n = 0 -> <<>> [] n # 0 /\ Old(n) -> g[n - 1]
                                                     [] OTHER -> Append(g[n - 1], ms[n])]
           S == {k \in Nat : Upto(k)}
<1>1. 0 \in S
  <2> DEFINE none == [n \in 0 .. 0 |-> <<>>]
  <2>1. none = [n \in 0 .. 0 |-> CASE n = 0 -> <<>> [] n # 0 /\ Old(n) -> none[n - 1]
                                    [] OTHER -> Append(none[n - 1], ms[n])]
    OBVIOUS
  <2> HIDE DEF none
  <2>2. Upto(0)
    BY <2>1
  <2> QED BY <2>2
<1>2. \A k \in Nat : k \in S => k + 1 \in S
  <2> TAKE k \in Nat
  <2> HAVE k \in S
  <2> HIDE DEF Old
  <2>1. PICK g : g = [n \in 0 .. k |-> CASE n = 0 -> <<>> [] n # 0 /\ Old(n) -> g[n - 1]
                                        [] OTHER -> Append(g[n - 1], ms[n])]
    OBVIOUS
  <2>2. \A n \in 0 .. k : g[n] = CASE n = 0 -> <<>> [] n # 0 /\ Old(n) -> g[n - 1]
                                   [] OTHER -> Append(g[n - 1], ms[n])
    BY <2>1
  <2> DEFINE h == [n \in 0 .. (k + 1) |->
                     IF n <= k THEN g[n] ELSE IF Old(n) THEN g[n - 1] ELSE Append(g[n - 1], ms[n])]
  <2>3. \A n \in 0 .. k : h[n] = g[n]
    OBVIOUS
  <2>4. h[k + 1] = IF Old(k + 1) THEN g[k] ELSE Append(g[k], ms[k + 1])
    OBVIOUS
  <2>5. DOMAIN h = 0 .. (k + 1) /\ h = [n \in 0 .. (k + 1) |-> h[n]]
    OBVIOUS
  <2> HIDE DEF h
  <2>6. \A n \in 0 .. (k + 1) : h[n] = CASE n = 0 -> <<>> [] n # 0 /\ Old(n) -> h[n - 1]
                                         [] OTHER -> Append(h[n - 1], ms[n])
    <3> TAKE n \in 0 .. (k + 1)
    <3>1. CASE n = 0
      BY <3>1, <2>2, <2>3
    <3>2. CASE n # 0 /\ n <= k
      <4>1. n \in 0 .. k /\ n - 1 \in 0 .. k
        BY <3>2
      <4> QED BY <4>1, <3>2, <2>2, <2>3
    <3>3. CASE n = k + 1
      <4>1. k \in 0 .. k /\ n - 1 = k /\ n # 0
        BY <3>3
      <4> QED BY <4>1, <3>3, <2>3, <2>4
    <3> QED BY <3>1, <3>2, <3>3
  <2>7. h = [n \in 0 .. (k + 1) |-> CASE n = 0 -> <<>> [] n # 0 /\ Old(n) -> h[n - 1]
                                      [] OTHER -> Append(h[n - 1], ms[n])]
    BY <2>5, <2>6
  <2>8. Upto(k + 1)
    BY <2>7
  <2> HIDE DEF Upto
  <2> QED BY <2>8
<1>3. Len(ms) \in S
  <2> HIDE DEF S
  <2> QED BY <1>1, <1>2, SetInduction
<1> DEFINE kept == CHOOSE g : g = [n \in 0 .. Len(ms) |-> CASE n = 0 -> <<>> [] n # 0 /\ Old(n) -> g[n - 1]
                                                            [] OTHER -> Append(g[n - 1], ms[n])]
<1>4. kept = [n \in 0 .. Len(ms) |-> CASE n = 0 -> <<>> [] n # 0 /\ Old(n) -> kept[n - 1]
                                       [] OTHER -> Append(kept[n - 1], ms[n])]
  BY <1>3
<1>5. Firsts(ms, key) = kept[Len(ms)]
  BY DEF Firsts
<1> HIDE DEF kept
<1>6. Keeps(kept, ms, key)
  BY <1>4 DEF Keeps
<1> QED BY <1>5, <1>6

\* One of every key, and only of what there was.
LEMMA FirstsOf ==
  ASSUME NEW X, NEW ms \in Seq(X), NEW key
  PROVE  /\ Firsts(ms, key) \in Seq(X) /\ ToSet(Firsts(ms, key)) \subseteq ToSet(ms)
         /\ \A i, j \in DOMAIN Firsts(ms, key) : i # j => key[Firsts(ms, key)[i]] # key[Firsts(ms, key)[j]]
         /\ \A m \in ToSet(ms) : \E n \in ToSet(Firsts(ms, key)) : key[n] = key[m]
<1> DEFINE Old(n) == \E j \in 1 .. n - 1 : key[ms[j]] = key[ms[n]]
           Taken(s, n) == \A k \in DOMAIN s : \E i \in 1 .. n : s[k] = ms[i]
           Apart(s) == \A i, j \in DOMAIN s : i # j => key[s[i]] # key[s[j]]
           All(s, n) == \A i \in 1 .. n : \E k \in DOMAIN s : key[s[k]] = key[ms[i]]
           Good(s, n) == s \in Seq(X) /\ Taken(s, n) /\ Apart(s) /\ All(s, n)
<1>1. PICK f : Firsts(ms, key) = f[Len(ms)] /\ Keeps(f, ms, key)
  BY KeptExists
<1>2. \A n \in 0 .. Len(ms) : f[n] = CASE n = 0 -> <<>> [] n # 0 /\ Old(n) -> f[n - 1]
                                       [] OTHER -> Append(f[n - 1], ms[n])
  <2>1. f = [n \in 0 .. Len(ms) |-> CASE n = 0 -> <<>> [] n # 0 /\ Old(n) -> f[n - 1]
                                      [] OTHER -> Append(f[n - 1], ms[n])]
    BY <1>1 DEF Keeps
  <2> HIDE DEF Old
  <2> QED BY <2>1
<1> DEFINE S == {n \in Nat : n <= Len(ms) => Good(f[n], n)}
<1>3. 0 \in S
  <2>1. f[0] = <<>>
    <3>1. 0 \in 0 .. Len(ms)
      OBVIOUS
    <3> HIDE DEF Old
    <3> QED BY <1>2, <3>1
  <2> DEFINE s == f[0]
  <2>2. s = <<>> /\ s \in Seq(X) /\ DOMAIN s = {}
    BY <2>1
  <2> HIDE DEF s
  <2>3. Good(s, 0)
    BY <2>2
  <2> QED BY <2>3 DEF s
<1>4. ASSUME NEW n \in Nat, n \in S PROVE n + 1 \in S
  <2> SUFFICES ASSUME n + 1 <= Len(ms) PROVE Good(f[n + 1], n + 1)
    OBVIOUS
  <2> DEFINE s == f[n]
             x == ms[n + 1]
  <2>1. Good(s, n)
    BY <1>4
  <2>2. n + 1 \in 0 .. Len(ms) /\ n + 1 # 0 /\ (n + 1) - 1 = n /\ x \in X
    BY <1>4
  <2>3. \A i : i \in 1 .. (n + 1) <=> i \in 1 .. n \/ i = n + 1
    OBVIOUS
  <2>4. CASE Old(n + 1)
    <3>1. f[n + 1] = s
      BY <1>2, <2>2, <2>4
    <3>2. PICK j \in 1 .. n : key[ms[j]] = key[x]
      BY <2>2, <2>4
    <3> HIDE DEF s, x
    <3>3. All(s, n + 1)
      <4> SUFFICES ASSUME NEW i \in 1 .. (n + 1) PROVE \E k \in DOMAIN s : key[s[k]] = key[ms[i]]
        OBVIOUS
      <4>1. CASE i \in 1 .. n
        BY <4>1, <2>1
      <4>2. CASE i = n + 1
        BY <4>2, <3>2, <2>1 DEF x
      <4> QED BY <4>1, <4>2, <2>3
    <3>4. Taken(s, n + 1)
      BY <2>1, <2>3
    <3> QED BY <3>1, <3>3, <3>4, <2>1
  <2>5. CASE ~Old(n + 1)
    <3>1. f[n + 1] = Append(s, x)
      <4>1. f[n + 1] = Append(f[(n + 1) - 1], ms[n + 1])
        <5> HIDE DEF Old
        <5> QED BY <1>2, <2>2, <2>5
      <4> QED BY <4>1, <2>2
    <3>2. \A j \in 1 .. n : key[ms[j]] # key[x]
      BY <2>2, <2>5
    <3> DEFINE u == Append(s, x)
    <3> HIDE DEF s, x
    <3>3. /\ u \in Seq(X) /\ Len(u) = Len(s) + 1 /\ u[Len(s) + 1] = x /\ Len(s) \in Nat
          /\ \A k \in 1 .. Len(s) : u[k] = s[k]
      BY <2>1, <2>2, AppendProperties
    <3>4. DOMAIN s = 1 .. Len(s) /\ DOMAIN u = 1 .. Len(u)
      BY <2>1, <3>3
    <3>5. \A k : k \in DOMAIN u <=> k \in DOMAIN s \/ k = Len(s) + 1
      BY <3>3, <3>4
    <3> HIDE DEF u
    <3>6. Taken(u, n + 1)
      <4> SUFFICES ASSUME NEW k \in DOMAIN u PROVE \E i \in 1 .. (n + 1) : u[k] = ms[i]
        OBVIOUS
      <4>1. CASE k \in DOMAIN s
        <5>1. PICK i \in 1 .. n : s[k] = ms[i]
          BY <4>1, <2>1
        <5> QED BY <5>1, <4>1, <3>3, <3>4, <2>3
      <4>2. CASE k = Len(s) + 1
        BY <4>2, <3>3, <2>3 DEF x
      <4> QED BY <4>1, <4>2, <3>5
    <3>7. Apart(u)
      <4>1. \A k \in DOMAIN s : key[s[k]] # key[x]
        <5> TAKE k \in DOMAIN s
        <5>1. PICK i \in 1 .. n : s[k] = ms[i]
          BY <2>1
        <5> QED BY <5>1, <3>2
      <4>2. \A i, j \in DOMAIN s : i # j => key[s[i]] # key[s[j]]
        BY <2>1
      <4> QED BY <4>1, <4>2, <3>3, <3>4, <3>5
    <3>8. All(u, n + 1)
      <4> SUFFICES ASSUME NEW i \in 1 .. (n + 1) PROVE \E k \in DOMAIN u : key[u[k]] = key[ms[i]]
        OBVIOUS
      <4>1. CASE i \in 1 .. n
        <5>1. PICK k \in DOMAIN s : key[s[k]] = key[ms[i]]
          BY <4>1, <2>1
        <5> QED BY <5>1, <3>3, <3>4, <3>5
      <4>2. CASE i = n + 1
        BY <4>2, <3>3, <3>5 DEF x
      <4> QED BY <4>1, <4>2, <2>3
    <3>9. Good(u, n + 1)
      BY <3>3, <3>6, <3>7, <3>8
    <3>10. f[n + 1] = u
      BY <3>1 DEF u
    <3> HIDE DEF Good
    <3> QED BY <3>9, <3>10
  <2> QED BY <2>4, <2>5
<1>5. Len(ms) \in S
  <2> HIDE DEF S
  <2> QED BY <1>3, <1>4, SetInduction
<1> DEFINE r == f[Len(ms)]
<1>6. Good(r, Len(ms))
  BY <1>5
<1> HIDE DEF r
<1>7. DOMAIN ms = 1 .. Len(ms)
  OBVIOUS
<1>8. ToSet(r) \subseteq ToSet(ms)
  <2> SUFFICES ASSUME NEW k \in DOMAIN r PROVE r[k] \in ToSet(ms)
    BY DEF ToSet
  <2>1. PICK i \in 1 .. Len(ms) : r[k] = ms[i]
    BY <1>6
  <2> QED BY <1>7, <2>1 DEF ToSet
<1>9. \A m \in ToSet(ms) : \E n \in ToSet(r) : key[n] = key[m]
  <2> SUFFICES ASSUME NEW i \in DOMAIN ms PROVE \E n \in ToSet(r) : key[n] = key[ms[i]]
    BY DEF ToSet
  <2>1. PICK k \in DOMAIN r : key[r[k]] = key[ms[i]]
    BY <1>6, <1>7
  <2> QED BY <2>1 DEF ToSet
<1>10. Firsts(ms, key) = r
  BY <1>1 DEF r
<1> QED BY <1>6, <1>8, <1>9, <1>10

-----------------------------------------------------------------------------
(* Claims are registered when a sidecar is built, weights without one wait *)

IsList(s) == s \in Seq(ToSet(s))

LEMMA Grown ==
  ASSUME NEW s, IsList(s), NEW x
  PROVE  IsList(Append(s, x)) /\ ToSet(Append(s, x)) = ToSet(s) \cup {x}
<1> DEFINE X == ToSet(s) \cup {x}
           u == Append(s, x)
<1>1. s \in Seq(X)
  BY DEF IsList
<1> HIDE DEF X
<1>2. x \in X
  BY DEF X
<1>3. u \in Seq(X) /\ Len(u) = Len(s) + 1 /\ u[Len(s) + 1] = x /\ \A k \in 1 .. Len(s) : u[k] = s[k]
  BY <1>1, <1>2, AppendProperties
<1>4. DOMAIN s = 1 .. Len(s) /\ Len(s) \in Nat /\ DOMAIN u = 1 .. Len(u)
  BY <1>1, <1>3
<1> HIDE DEF u
<1>5. \A k : k \in DOMAIN u <=> k \in DOMAIN s \/ k = Len(s) + 1
  BY <1>3, <1>4
<1>6. ToSet(u) = ToSet(s) \cup {x}
  BY <1>3, <1>4, <1>5 DEF ToSet
<1> QED BY <1>3, <1>6 DEF IsList, X, u

LEMMA Shrunk ==
  ASSUME NEW s, IsList(s), s # <<>>
  PROVE  IsList(Tail(s)) /\ ToSet(Tail(s)) \subseteq ToSet(s) /\ Head(s) \in ToSet(s)
<1> DEFINE X == ToSet(s)
           u == Tail(s)
<1>1. s \in Seq(X)
  BY DEF IsList
<1> HIDE DEF X
<1>2. /\ u \in Seq(X) /\ Len(s) \in Nat \ {0} /\ Len(u) = Len(s) - 1 /\ Head(s) = s[1]
      /\ \A k \in 1 .. Len(u) : u[k] = s[k + 1]
  BY <1>1
<1>3. DOMAIN s = 1 .. Len(s) /\ DOMAIN u = 1 .. Len(u)
  BY <1>1, <1>2
<1> HIDE DEF u
<1>4. \A k \in DOMAIN u : k + 1 \in DOMAIN s /\ u[k] = s[k + 1]
  BY <1>2, <1>3
<1>5. ToSet(u) \subseteq ToSet(s) /\ s[1] \in ToSet(s)
  BY <1>2, <1>3, <1>4 DEF ToSet
<1>6. IsList(u)
  <2> DEFINE Y == ToSet(u)
  <2>1. \A k \in 1 .. Len(u) : u[k] \in Y
    BY <1>3 DEF ToSet
  <2>2. Len(u) \in Nat /\ u \in [1 .. Len(u) -> X]
    BY <1>2
  <2> HIDE DEF Y
  <2>3. u \in [1 .. Len(u) -> Y]
    BY <2>1, <2>2
  <2>4. u \in Seq(Y)
    BY <2>2, <2>3, SeqDef
  <2> QED BY <2>4 DEF IsList, Y
<1> QED BY <1>2, <1>5, <1>6 DEF u

\* The weights a slot may mean.
WeightsOf(t, slot) == {g \in t.here : SlotOf(g) = slot /\ IsWeight(g)}

\* A weight that is alone with its stem is the one its sidecar means.
LEMMA OwnIsSole ==
  ASSUME NEW t, t.here \subseteq Files, NEW g \in t.here, IsWeight(g), ~(Cardinality(WeightsOf(t, SlotOf(g))) > 1)
  PROVE  OwnWeight(t, SlotOf(g)) = g
<1> DEFINE slot == SlotOf(g)
           W == WeightsOf(t, slot)
           At(i) == {h \in t.here : Spot[h].dir = slot[1] /\ {<<slot[2], Formats[i]>>} = {Name(h)}}
<1>1. slot = <<Spot[g].dir, Spot[g].stem>> /\ slot[1] = Spot[g].dir /\ slot[2] = Spot[g].stem
  BY DEF SlotOf
<1>2. W = {g}
  <2>1. g \in W /\ W \subseteq Files
    BY DEF WeightsOf
  <2> HIDE DEF W
  <2>2. IsFiniteSet(W)
    BY <2>1, RefsAssumption, FS_Subset
  <2>3. Cardinality(W) \in Nat /\ ~(Cardinality(W) > 1)
    BY <2>2, FS_CardinalityType DEF W
  <2>4. Cardinality(W \ {g}) = Cardinality(W) - 1 /\ IsFiniteSet(W \ {g})
    BY <2>1, <2>2, FS_RemoveElement
  <2>5. Cardinality(W \ {g}) \in Nat
    BY <2>4, FS_CardinalityType
  <2>6. W \ {g} = {}
    BY <2>3, <2>4, <2>5, FS_EmptySet
  <2> QED BY <2>1, <2>6
<1>3. DOMAIN Formats = 1 .. 3 /\ Formats[1] = "gguf" /\ Formats[2] = "safetensors" /\ Formats[3] = "bin"
  BY DEF Formats
<1>4. PICK i \in 1 .. 3 : Formats[i] = Spot[g].ext
  BY <1>3 DEF IsWeight, WeightExts
<1>5. \A j \in 1 .. 3 : Formats[j] = Formats[i] => j = i
  BY <1>3
<1>6. ASSUME NEW j \in 1 .. 3 PROVE At(j) = IF j = i THEN {g} ELSE {}
  <2>1. ASSUME NEW h \in At(j) PROVE h = g
    <3>1. Name(h) = <<slot[2], Formats[j]>> /\ Spot[h].dir = slot[1] /\ h \in t.here
      BY <2>1
    <3>2. Spot[h].stem = slot[2] /\ Spot[h].ext = Formats[j]
      BY <3>1 DEF Name
    <3>3. SlotOf(h) = slot /\ IsWeight(h)
      BY <1>1, <1>3, <3>1, <3>2 DEF SlotOf, IsWeight, WeightExts
    <3>4. h \in W
      BY <3>1, <3>3 DEF WeightsOf
    <3> QED BY <1>2, <3>4
  <2>2. g \in At(j) <=> Formats[j] = Spot[g].ext
    <3> DEFINE asked == <<slot[2], Formats[j]>>
               own == <<slot[2], Spot[g].ext>>
    <3>1. Name(g) = own /\ Spot[g].dir = slot[1]
      BY <1>1 DEF Name
    <3>2. asked = own <=> Formats[j] = Spot[g].ext
      OBVIOUS
    <3> HIDE DEF asked, own, slot
    <3>3. {asked} = {Name(g)} <=> asked = own
      BY <3>1
    <3> QED BY <3>1, <3>2, <3>3 DEF asked
  <2> QED BY <1>4, <1>5, <2>1, <2>2
<1>7. ASSUME NEW j \in 1 .. 3 PROVE OfFormat(t, slot, j) = IF At(j) = {} THEN NoFile ELSE Only(At(j))
  <2> DEFINE anchors == <<slot[1]>>
             Near(d) == {h \in t.here : Spot[h].dir = d /\ {<<slot[2], Formats[j]>>} = {Name(h)}}
             held == {k \in DOMAIN anchors : Near(anchors[k]) # {}}
  <2>1. DOMAIN anchors = {1} /\ anchors[1] = slot[1]
    OBVIOUS
  <2>2. OfFormat(t, slot, j) = IF held = {} THEN NoFile ELSE Only(Near(anchors[Min(held)]))
    BY DEF OfFormat, FindLocal
  <2>3. held = IF At(j) = {} THEN {} ELSE {1}
    BY <2>1
  <2> HIDE DEF held
  <2>4. CASE At(j) = {}
    BY <2>2, <2>3, <2>4
  <2>5. CASE At(j) # {}
    <3>1. held = {1}
      BY <2>3, <2>5
    <3>2. Min(held) = 1
      BY <3>1 DEF Min
    <3>3. Near(anchors[Min(held)]) = At(j)
      BY <2>1, <3>2
    <3> QED BY <2>2, <3>1, <3>3, <2>5
  <2> QED BY <2>4, <2>5
<1>8. Only({g}) = g
  <2>1. Cardinality({g}) = 1
    BY FS_Singleton
  <2> QED BY <2>1 DEF Only
<1>9. g # NoFile
  BY RefsAssumption
<1> HIDE DEF At, W, slot
<1>10. \A j \in 1 .. 3 : OfFormat(t, slot, j) = IF j = i THEN g ELSE NoFile
  BY <1>6, <1>7, <1>8
<1> DEFINE found == {j \in DOMAIN Formats : OfFormat(t, slot, j) # NoFile}
<1>11. found = {i}
  BY <1>3, <1>9, <1>10
<1>12. Min(found) = i
  BY <1>11 DEF Min
<1>13. OwnWeight(t, slot) = OfFormat(t, slot, i)
  BY <1>11, <1>12 DEF OwnWeight
<1> QED BY <1>10, <1>13 DEF slot

\* Whoever the walk remembers is a weight that is there.
Remembered == IsList(orphans) /\ \A c \in ToSet(orphans) : c.file \in tree.here /\ IsWeight(c.file)

\* What a model loads is registered, and a file.
Registered ==
  IsList(models) /\ \A m \in ToSet(models) : ClaimsOf(m) \subseteq claims /\ m.weight \in Files \cup {NoFile}

\* Models without a sidecar come after all others.
StubsLate == pc = "walk" => \A m \in ToSet(models) : ~m.stub

\* Nothing moves between the loops over duplicates and the next run.
Kept == Done => out = OfEachId /\ ~Clash

OInv == Lawful(tree) /\ Remembered /\ Registered /\ StubsLate /\ OrphansUnclaimed /\ Kept

LEMMA OInitially == Init => OInv
<1> SUFFICES ASSUME Init PROVE OInv
  OBVIOUS
<1>1. Lawful(tree)
  BY TreesAssumption DEF Init
<1>2. orphans = <<>> /\ models = <<>> /\ ToSet(<<>>) = {} /\ IsList(<<>>)
  BY DEF Init, ToSet, IsList
<1>3. ToSet(orphans) = {} /\ ToSet(models) = {} /\ pc = "idle"
  BY <1>2 DEF Init
<1> QED BY <1>1, <1>2, <1>3 DEF OInv, Remembered, Registered, StubsLate, OrphansUnclaimed, Kept, Done

LEMMA OnlyOneOf == ASSUME NEW S PROVE Only(S) \in S \cup {NoFile}
<1>1. ASSUME Cardinality(S) = 1 PROVE S # {}
  BY <1>1, FS_EmptySet
<1> QED BY <1>1 DEF Only

\* What a sidecar is resolved to is a file, if anything.
LEMMA WeightIsFile ==
  ASSUME NEW t, t.here \subseteq Files, NEW slot, NEW fm
  PROVE  Weight(t, slot, fm) \in Files \cup {NoFile}
<1>1. ASSUME NEW names, NEW anchors PROVE FindLocal(t, names, anchors) \in Files \cup {NoFile}
  <2> DEFINE At(d) == {f \in t.here : Spot[f].dir = d /\ names = {Name(f)}}
  <2>1. \A d : Only(At(d)) \in Files \cup {NoFile}
    <3> TAKE d
    <3> DEFINE S == At(d)
    <3>1. S \subseteq Files
      OBVIOUS
    <3> HIDE DEF S
    <3> QED BY <3>1, OnlyOneOf
  <2> HIDE DEF At
  <2>2. \E d : FindLocal(t, names, anchors) \in {NoFile, Only(At(d))}
    BY DEF FindLocal, At
  <2> QED BY <2>1, <2>2
<1>2. OwnWeight(t, slot) \in Files \cup {NoFile}
  BY <1>1 DEF OwnWeight, OfFormat
<1>3. \A repo, ref, weightsOnly : Only(Matches(t, repo, ref, weightsOnly)) \in Files \cup {NoFile}
  <2> TAKE repo, ref, weightsOnly
  <2>1. Matches(t, repo, ref, weightsOnly) \subseteq Files
    BY DEF Matches, Listing
  <2> QED BY <2>1, OnlyOneOf
<1>4. \A repo : Only(SoleModels(t, repo)) \in Files \cup {NoFile}
  <2> TAKE repo
  <2>1. SoleModels(t, repo) \subseteq Files
    BY DEF SoleModels, Listing
  <2> QED BY <2>1, OnlyOneOf
<1>5. \A ref, anchors, repo, weightsOnly : ResolvePath(t, ref, anchors, repo, weightsOnly) \in Files \cup {NoFile}
  BY <1>1, <1>3 DEF ResolvePath
<1> QED BY <1>2, <1>4, <1>5 DEF Weight

\* A model that is built has a weight where nothing names one for it, and
\* everything it loads is registered.
LEMMA Building ==
  ASSUME NEW t, NEW slot, NEW fm, NEW dirRole, NEW sc, NEW stub, Build(t, slot, fm, dirRole, sc, stub)
  PROVE  \/ Unloadable(t, slot, fm) /\ UNCHANGED <<claims, models>>
         \/ \E m : /\ m.slot = slot /\ m.stub = stub /\ m.weight = Weight(t, slot, fm)
                   /\ m.cache = Configured(t.cfg, slot, fm, sc)["cache"]
                   /\ ~Unloadable(t, slot, fm)
                   /\ claims' = claims \cup ClaimsOf(m)
                   /\ models' = models \/ models' = Append(models, m)
<1>1. CASE Unloadable(t, slot, fm)
  BY <1>1 DEF Build
<1>2. CASE ~Unloadable(t, slot, fm)
  <2> DEFINE m == Model(t, slot, fm, sc, dirRole, stub)
  <2>1. /\ m.slot = slot /\ m.stub = stub /\ m.weight = Weight(t, slot, fm)
        /\ m.cache = Configured(t.cfg, slot, fm, sc)["cache"]
    BY DEF Model, Finalize
  <2> HIDE DEF m
  <2>2. /\ claims' = claims \cup ClaimsOf(m)
        /\ models' = IF KindFits(m) THEN Append(models, m) ELSE models
    BY <1>2 DEF Build, m
  <2> QED BY <1>2, <2>1, <2>2
<1> QED BY <1>1, <1>2

\* A run that has only read leaves what it registered registered.
LEMMA OReadSidecar == ASSUME OInv, ReadSidecar PROVE OInv'
<1> DEFINE slot == Head(Here.files)
           fm == tree.side[slot]
           no == FALSE
           role == EffectiveRole(fm, Here.role)
<1>1. /\ pc = "walk" /\ UNCHANGED <<tree, run, opt, pc, roots, scopes, orphans, out, before>>
      /\ UNCHANGED <<claims, models>> \/ Build(tree, slot, fm, role, scopes, no)
  BY DEF ReadSidecar
<1> HIDE DEF slot, fm, role, no
<1>2. \/ UNCHANGED <<claims, models>>
      \/ \E m : /\ ~m.stub /\ m.weight \in Files \cup {NoFile} /\ claims' = claims \cup ClaimsOf(m)
                /\ models' = models \/ models' = Append(models, m)
  <2>1. CASE Build(tree, slot, fm, role, scopes, no)
    <3>1. \/ UNCHANGED <<claims, models>>
          \/ \E m : /\ m.stub = no /\ m.weight = Weight(tree, slot, fm) /\ claims' = claims \cup ClaimsOf(m)
                    /\ models' = models \/ models' = Append(models, m)
      BY <2>1, Building
    <3>3. Weight(tree, slot, fm) \in Files \cup {NoFile}
      BY WeightIsFile DEF OInv, Lawful
    <3>2. \A m : m.stub = no => ~m.stub
      BY DEF no
    <3> QED BY <3>1, <3>2, <3>3
  <2> QED BY <1>1, <2>1
<1>3. Lawful(tree') /\ Remembered' /\ Kept'
  BY <1>1 DEF OInv, Remembered, Kept, Done, IsWeight
<1>4. CASE UNCHANGED <<claims, models>>
  BY <1>1, <1>3, <1>4 DEF OInv, Registered, StubsLate, OrphansUnclaimed, ClaimsOf, Twins, IsWeight
<1>5. ASSUME NEW m, ~m.stub, m.weight \in Files \cup {NoFile}, claims' = claims \cup ClaimsOf(m), 
             models' = models \/ models' = Append(models, m)
      PROVE  OInv'
  <2>1. IsList(models') /\ \A n \in ToSet(models') : n \in ToSet(models) \/ n = m
    <3>1. IsList(models)
      BY DEF OInv, Registered
    <3>2. CASE models' = models
      BY <3>1, <3>2
    <3>3. CASE models' = Append(models, m)
      <4> DEFINE u == Append(models, m)
      <4>1. IsList(u) /\ \A n \in ToSet(u) : n \in ToSet(models) \/ n = m
        BY <3>1, Grown
      <4> HIDE DEF u
      <4>2. models' = u
        BY <3>3 DEF u
      <4> QED BY <4>1, <4>2
    <3> QED BY <1>5, <3>2, <3>3
  <2>2. \A n : ClaimsOf(n)' = ClaimsOf(n)
    BY <1>1 DEF ClaimsOf
  <2>3. \A n \in ToSet(models') : ClaimsOf(n) \subseteq claims' /\ n.weight \in Files \cup {NoFile}
    BY <1>5, <2>1 DEF OInv, Registered
  <2>4. \A n \in ToSet(models') : ~n.stub
    BY <1>1, <1>5, <2>1 DEF OInv, StubsLate
  <2>5. Registered'
    BY <2>1, <2>2, <2>3 DEF Registered
  <2>6. StubsLate' /\ OrphansUnclaimed'
    BY <2>4 DEF StubsLate, OrphansUnclaimed
  <2> QED BY <1>3, <2>5, <2>6 DEF OInv
<1> QED BY <1>2, <1>4, <1>5

LEMMA OReadWeight == ASSUME OInv, ReadWeight PROVE OInv'
<1> DEFINE f == Head(Here.files)
           c == [file |-> f, role |-> Here.role, scopes |-> scopes]
<1>1. /\ pc = "walk" /\ f \in Files /\ UNCHANGED <<tree, run, opt, pc, roots, scopes, claims, models, out, before>>
      /\ orphans' = IF Present(f) /\ Candidate(f, Here.role) THEN Append(orphans, c) ELSE orphans
  BY DEF ReadWeight
<1>2. c.file = f
  OBVIOUS
<1> HIDE DEF f, c
<1>3. Remembered'
  <2>1. CASE Present(f) /\ Candidate(f, Here.role)
    <3>1. f \in tree.here /\ IsWeight(f)
      BY <1>1, <2>1 DEF Present, Candidate, IsWeight, WeightExts
    <3>2. IsList(orphans') /\ ToSet(orphans') = ToSet(orphans) \cup {c}
      BY <1>1, <2>1, Grown DEF OInv, Remembered
    <3>3. \A d \in ToSet(orphans') : d.file \in tree.here /\ IsWeight(d.file)
      BY <1>2, <3>1, <3>2 DEF OInv, Remembered
    <3> QED BY <1>1, <3>2, <3>3 DEF Remembered, IsWeight
  <2>2. CASE ~(Present(f) /\ Candidate(f, Here.role))
    BY <1>1, <2>2 DEF OInv, Remembered, IsWeight
  <2> QED BY <2>1, <2>2
<1> QED BY <1>1, <1>3 DEF OInv, Registered, StubsLate, OrphansUnclaimed, ClaimsOf, Twins, IsWeight, Kept, Done

\* Wherever the sidecar of an orphan belongs, there is a name of its weight.
LEMMA HomeIsIts ==
  ASSUME NEW t, Lawful(t), NEW f \in t.here, IsWeight(f)
  PROVE  \E g \in t.here : SlotOf(g) = Home(t, f) /\ IsWeight(g) /\ t.real[g] = t.real[f]
<1>1. f \in Files /\ t.here \subseteq Files
  BY DEF Lawful
<1>2. CASE Spot[f].link # NoFile /\ EntriesOf(t, f) # {}
  <2> DEFINE g == CHOOSE h \in EntriesOf(t, f) : TRUE
  <2>1. g \in EntriesOf(t, f)
    BY <1>2
  <2>2. Home(t, f) = SlotOf(g)
    BY <1>2 DEF Home
  <2> HIDE DEF g
  <2>3. g \in t.here /\ t.real[g] = t.real[f]
    BY <2>1 DEF EntriesOf
  <2>4. IsWeight(g)
    BY <1>1, <2>3 DEF Lawful
  <2> QED BY <2>2, <2>3, <2>4
<1>3. CASE Spot[f].link # NoFile /\ EntriesOf(t, f) = {} /\ Spot[f].link \in t.here
  <2>1. Home(t, f) = SlotOf(Spot[f].link)
    BY <1>3 DEF Home
  <2>2. t.real[Spot[f].link] = t.real[f] /\ Spot[f].link \in Files
    BY <1>1, <1>3 DEF Lawful
  <2>3. IsWeight(Spot[f].link)
    BY <1>1, <2>2 DEF Lawful
  <2> QED BY <1>3, <2>1, <2>2, <2>3
<1>4. CASE /\ ~(Spot[f].link # NoFile /\ EntriesOf(t, f) # {})
           /\ ~(Spot[f].link # NoFile /\ EntriesOf(t, f) = {} /\ Spot[f].link \in t.here)
  BY <1>4 DEF Home
<1> QED BY <1>2, <1>3, <1>4

\* The link discovery makes, and the stub, keep the tree lawful, its layers
\* and the sidecars there are.
LEMMA Making ==
  ASSUME Lawful(tree), NEW f \in tree.here
  PROVE  LET t == Linked(f) u == Stubbed(t, f)
         IN /\ Lawful(t) /\ tree.here \subseteq t.here /\ t.real = tree.real /\ t.inode = tree.inode
            /\ Lawful(u) /\ u.here = t.here /\ u.real = t.real /\ u.inode = t.inode
            /\ t.cfg = tree.cfg /\ u.cfg = tree.cfg /\ u.ignored = tree.ignored /\ DOMAIN u.side = DOMAIN tree.side
            /\ \A s \in DOMAIN tree.side : tree.side[s] # Absent => u.side[s] = tree.side[s]
<1> DEFINE t == Linked(f)
           u == Stubbed(t, f)
<1>1. f \in Files /\ Spot[f].link \in Files \cup {NoFile}
  BY RefsAssumption DEF Lawful, SpotRecord
<1>2. /\ DOMAIN t = DOMAIN tree /\ t.real = tree.real /\ t.inode = tree.inode
      /\ t.side = tree.side /\ t.cfg = tree.cfg /\ t.ignored = tree.ignored
      /\ tree.here \subseteq t.here /\ t.here \subseteq Files
  <2>1. CASE Spot[f].link # NoFile /\ EntriesOf(tree, f) = {} /\ tree.writable
    <3>1. t = [tree EXCEPT !.here = @ \cup {Spot[f].link}]
      BY <2>1 DEF Linked
    <3> HIDE DEF t
    <3> QED BY <1>1, <2>1, <3>1 DEF Lawful
  <2>2. CASE ~(Spot[f].link # NoFile /\ EntriesOf(tree, f) = {} /\ tree.writable)
    <3>1. t = tree
      BY <2>2 DEF Linked
    <3> HIDE DEF t
    <3> QED BY <3>1 DEF Lawful
  <2> QED BY <2>1, <2>2
<1> HIDE DEF t
<1>3. Lawful(t)
  BY <1>2 DEF Lawful
<1>4. u = t \/ (t.side[Home(t, f)] = Absent /\ u = [t EXCEPT !.side = [t.side EXCEPT ![Home(t, f)] = NoData]])
  BY DEF Stubbed
<1> HIDE DEF u
<1>5. /\ DOMAIN u = DOMAIN t /\ u.here = t.here /\ u.real = t.real /\ u.inode = t.inode /\ u.cfg = t.cfg /\ u.ignored = t.ignored
      /\ u.side = t.side \/ (t.side[Home(t, f)] = Absent /\ u.side = [t.side EXCEPT ![Home(t, f)] = NoData])
  BY <1>3, <1>4 DEF Lawful
<1>6. DOMAIN u.side = DOMAIN t.side /\ \A s \in DOMAIN t.side : t.side[s] # Absent => u.side[s] = t.side[s]
  BY <1>5
<1>7. Lawful(u)
  BY <1>3, <1>5, <1>6 DEF Lawful
<1> QED BY <1>2, <1>3, <1>5, <1>6, <1>7 DEF t, u

LEMMA TwinsAre == ASSUME NEW slot PROVE Twins(slot) <=> Cardinality(WeightsOf(tree, slot)) > 1
BY DEF Twins, WeightsOf

\* More names, more twins.
LEMMA TwinsStay ==
  ASSUME NEW t, NEW u, t.here \subseteq u.here, u.here \subseteq Files, NEW slot,
         ~(Cardinality(WeightsOf(u, slot)) > 1)
  PROVE  ~(Cardinality(WeightsOf(t, slot)) > 1)
<1> DEFINE V == WeightsOf(t, slot)
           W == WeightsOf(u, slot)
<1>1. V \subseteq W /\ W \subseteq Files
  BY DEF WeightsOf
<1> HIDE DEF V, W
<1>2. IsFiniteSet(W)
  BY <1>1, RefsAssumption, FS_Subset
<1>3. IsFiniteSet(V) /\ Cardinality(V) <= Cardinality(W)
  BY <1>1, <1>2, FS_Subset
<1>4. Cardinality(V) \in Nat /\ Cardinality(W) \in Nat
  BY <1>2, <1>3, FS_CardinalityType
<1>5. ~(Cardinality(W) > 1)
  BY DEF W
<1> QED BY <1>3, <1>4, <1>5 DEF V

\* Whose file nobody has claimed by now, nobody with a sidecar serves or uses.
LEMMA OServeOrphan == ASSUME OInv, ServeOrphan PROVE OInv'
<1> DEFINE c == Head(orphans)
           f == c.file
           t == Linked(f)
           slot == Home(t, f)
           yes == TRUE
           sc == ScopesOf(c)
<1>1. /\ pc = "orphans" /\ orphans # <<>> /\ orphans' = Tail(orphans)
      /\ UNCHANGED <<run, opt, pc, roots, agenda, scopes, out, before>>
      /\ \/ UNCHANGED <<tree, claims, models>>
         \/ ~Claimed(f) /\ Build(t, slot, NoData, c.role, sc, yes) /\ tree' = Stubbed(t, f)
  BY DEF ServeOrphan
<1> HIDE DEF c
<1>2. /\ IsList(orphans') /\ \A d \in ToSet(orphans') : d.file \in tree.here /\ IsWeight(d.file)
      /\ f \in tree.here /\ IsWeight(f)
  BY <1>1, Shrunk DEF OInv, Remembered, c
<1> HIDE DEF f
<1>3. StubsLate' /\ Kept'
  BY <1>1 DEF StubsLate, Kept, Done
<1>4. CASE UNCHANGED <<tree, claims, models>>
  <2>1. Remembered'
    BY <1>2, <1>4 DEF Remembered, IsWeight
  <2> QED BY <1>3, <1>4, <2>1 DEF OInv, Registered, OrphansUnclaimed, ClaimsOf, Twins, IsWeight
<1>5. CASE ~Claimed(f) /\ Build(t, slot, NoData, c.role, sc, yes) /\ tree' = Stubbed(t, f)
  <2>1. /\ Lawful(t) /\ tree.here \subseteq t.here /\ t.real = tree.real
        /\ Lawful(tree') /\ tree'.here = t.here /\ tree'.real = tree.real
    BY <1>2, <1>5, Making DEF OInv
  <2>2. Remembered' /\ tree'.here \subseteq Files
    BY <1>2, <2>1 DEF Remembered, IsWeight, Lawful
  <2>3. \A n : ClaimsOf(n)' = ClaimsOf(n)
    BY <2>1 DEF ClaimsOf
  <2>4. \A s : ~Twins(s)' => ~Twins(s) /\ ~(Cardinality(WeightsOf(t, s)) > 1)
    <3> SUFFICES ASSUME NEW s, ~Twins(s)' PROVE ~Twins(s) /\ ~(Cardinality(WeightsOf(t, s)) > 1)
      OBVIOUS
    <3>1. ~(Cardinality(WeightsOf(tree', s)) > 1)
      BY DEF Twins, WeightsOf, SlotOf, IsWeight
    <3>2. t.here \subseteq tree'.here /\ tree.here \subseteq tree'.here
      BY <2>1
    <3>3. ~(Cardinality(WeightsOf(t, s)) > 1)
      BY <2>2, <3>1, <3>2, TwinsStay
    <3>4. ~(Cardinality(WeightsOf(tree, s)) > 1)
      BY <2>2, <3>1, <3>2, TwinsStay
    <3> QED BY <3>3, <3>4, TwinsAre
  <2>5. ASSUME NEW m \in ToSet(models), NEW n \in ToSet(models), m.stub, ~n.stub, ~Twins(m.slot)'
        PROVE  tree.real[m.weight] \notin ClaimsOf(n)
    <3>1. ~Twins(m.slot)
      BY <2>4, <2>5
    <3> QED BY <2>5, <3>1 DEF OInv, OrphansUnclaimed
  <2> HIDE DEF t
  <2>6. \/ UNCHANGED <<claims, models>>
        \/ \E m : /\ m.slot = slot /\ m.stub = yes /\ m.weight = Weight(t, slot, NoData)
                  /\ claims' = claims \cup ClaimsOf(m)
                  /\ models' = models \/ models' = Append(models, m)
    <3> HIDE DEF slot, yes, sc
    <3> QED BY <1>5, Building
  <2>7. CASE UNCHANGED <<claims, models>>
    <3>1. Registered'
      BY <2>3, <2>7 DEF OInv, Registered
    <3>2. OrphansUnclaimed'
      BY <2>1, <2>3, <2>5, <2>7 DEF OrphansUnclaimed
    <3> QED BY <1>3, <2>1, <2>2, <3>1, <3>2 DEF OInv
  <2>8. ASSUME NEW m, m.slot = slot, m.stub = yes, m.weight = Weight(t, slot, NoData),
               claims' = claims \cup ClaimsOf(m), models' = models \/ models' = Append(models, m)
        PROVE  OInv'
    <3>1. IsList(models') /\ \A n \in ToSet(models') : n \in ToSet(models) \/ n = m
      <4> DEFINE u == Append(models, m)
      <4>1. IsList(models)
        BY DEF OInv, Registered
      <4>2. IsList(u) /\ \A n \in ToSet(u) : n \in ToSet(models) \/ n = m
        BY <4>1, Grown
      <4>3. models' = models \/ models' = u
        BY <2>8
      <4> HIDE DEF u
      <4> QED BY <4>1, <4>2, <4>3
    <3>2. Registered'
      <4>2. m.weight \in Files \cup {NoFile}
        BY <2>1, <2>8, WeightIsFile DEF Lawful
      <4>1. \A n \in ToSet(models') : ClaimsOf(n) \subseteq claims' /\ n.weight \in Files \cup {NoFile}
        BY <2>8, <3>1, <4>2 DEF OInv, Registered
      <4> QED BY <2>3, <3>1, <4>1 DEF Registered
    <3>3. ASSUME ~(Cardinality(WeightsOf(t, slot)) > 1) PROVE t.real[m.weight] = t.real[f]
      <4>1. PICK g \in t.here : SlotOf(g) = slot /\ IsWeight(g) /\ t.real[g] = t.real[f]
        <5>1. f \in t.here
          BY <1>2, <2>1
        <5> QED BY <1>2, <2>1, <5>1, HomeIsIts
      <4>2. OwnWeight(t, slot) = g
        <5>1. ~(Cardinality(WeightsOf(t, SlotOf(g))) > 1) /\ t.here \subseteq Files
          BY <2>1, <3>3, <4>1 DEF Lawful
        <5>2. OwnWeight(t, SlotOf(g)) = g
          BY <4>1, <5>1, OwnIsSole
        <5> QED BY <4>1, <5>2
      <4>3. g # NoFile /\ NoData.model = NoRef
        BY <2>1, RefsAssumption DEF Lawful, NoData
      <4>4. Weight(t, slot, NoData) = g
        BY <4>2, <4>3 DEF Weight
      <4> QED BY <2>8, <4>1, <4>4
    <3>4. ASSUME NEW n \in ToSet(models) PROVE tree.real[f] \notin ClaimsOf(n)
      BY <1>5 DEF OInv, Registered, Claimed
    <3>5. m.stub
      BY <2>8
    <3>6. ASSUME NEW a \in ToSet(models'), NEW b \in ToSet(models'), a.stub, ~b.stub, ~Twins(a.slot)'
          PROVE  tree.real[a.weight] \notin ClaimsOf(b)
      <4>1. b \in ToSet(models)
        BY <3>1, <3>5, <3>6
      <4>2. CASE a \in ToSet(models)
        BY <2>5, <3>6, <4>1, <4>2
      <4>3. CASE a = m
        <5>1. ~(Cardinality(WeightsOf(t, a.slot)) > 1)
          BY <2>4, <3>6
        <5>2. t.real[m.weight] = t.real[f]
          BY <2>8, <3>3, <4>3, <5>1
        <5>3. tree.real[f] \notin ClaimsOf(b)
          BY <3>4, <4>1
        <5> QED BY <2>1, <4>3, <5>2, <5>3
      <4> QED BY <3>1, <4>2, <4>3
    <3>7. OrphansUnclaimed'
      BY <2>1, <2>3, <3>6 DEF OrphansUnclaimed
    <3> QED BY <1>3, <2>1, <2>2, <3>2, <3>7 DEF OInv
  <2> QED BY <2>6, <2>7, <2>8
<1> QED BY <1>1, <1>4, <1>5

LEMMA OInductive == OInv /\ [Next]_vars => OInv'
<1> SUFFICES ASSUME OInv, [Next]_vars PROVE OInv'
  OBVIOUS
<1> USE DEF OInv
<1>1. CASE Begin
  <2>1. /\ models' = <<>> /\ orphans' = <<>> /\ pc' = "walk" /\ tree' = tree
        /\ ToSet(<<>>) = {} /\ IsList(<<>>)
    BY <1>1 DEF Begin, ToSet, IsList
  <2>2. ToSet(models') = {} /\ ToSet(orphans') = {}
    BY <2>1
  <2> QED BY <2>1, <2>2 DEF Remembered, Registered, StubsLate, OrphansUnclaimed, Kept, Done
<1>2. CASE EnterRoot \/ Descend \/ Leave
  BY <1>2 DEF EnterRoot, Descend, Leave, Remembered, Registered, StubsLate, OrphansUnclaimed, Kept, Done, ClaimsOf, Twins,
              IsWeight
<1>3. CASE EndWalk
  BY <1>3 DEF EndWalk, Remembered, Registered, StubsLate, OrphansUnclaimed, Kept, Done, ClaimsOf, Twins, IsWeight
<1>4. CASE ReadSidecar \/ ReadWeight \/ ServeOrphan
  BY <1>4, OReadSidecar, OReadWeight, OServeOrphan
<1>5. CASE Return
  <2>1. UNCHANGED <<tree, claims, orphans, models>> /\ pc' \in {"clash", "done"} /\ (pc' = "done" => out' = OfEachId /\ ~Clash)
    BY <1>5 DEF Return
  <2>2. OfEachId' = OfEachId /\ (Clash' <=> Clash)
    BY <2>1 DEF OfEachId, Distinct, FileKey, Clash, SidecarFile, HasSidecar
  <2> QED BY <2>1, <2>2 DEF Remembered, Registered, StubsLate, OrphansUnclaimed, Kept, Done, ClaimsOf, Twins, IsWeight
<1>6. CASE UNCHANGED vars
  <2>1. OfEachId' = OfEachId /\ (Clash' <=> Clash)
    BY <1>6 DEF vars, OfEachId, Distinct, FileKey, Clash, SidecarFile, HasSidecar
  <2> QED BY <1>6, <2>1 DEF vars, Remembered, Registered, StubsLate, OrphansUnclaimed, Kept, Done, ClaimsOf, Twins, IsWeight
<1> QED BY <1>1, <1>2, <1>3, <1>4, <1>5, <1>6 DEF Next

LEMMA OInvariant == Spec => []OInv
BY OInitially, OInductive, PTL DEF Spec

\* A weight is served without a sidecar only when no sidecar anywhere in the
\* tree serves it, be it by another name, or uses it as a projector or draft.
THEOREM OrphansAreUnclaimed == Spec => []OrphansUnclaimed
<1>1. OInv => OrphansUnclaimed
  BY DEF OInv
<1> QED BY <1>1, OInvariant, PTL

\* What discover() returns has every file once, whatever links lead to it, and
\* drops a model only for a duplicate of its file or the second link of its
\* duplicate's sidecar.
THEOREM EveryFileOnce == Spec => []EachFileOnce
<1>1. OInv => EachFileOnce
  <2> SUFFICES ASSUME OInv, Done PROVE EachFileOnce
    BY DEF EachFileOnce
  <2> DEFINE X == ToSet(models)
             file == [m \in X |-> FileKey(m)]
             D == Distinct
             Y == ToSet(D)
             id == [m \in Y |-> Id[m.slot]]
  <2>1. models \in Seq(X) /\ Lawful(tree) /\ out = OfEachId
    BY DEF OInv, Registered, IsList, Kept
  <2>2. /\ D \in Seq(X) /\ Y \subseteq X
        /\ \A i, j \in DOMAIN D : i # j => file[D[i]] # file[D[j]]
        /\ \A m \in X : \E n \in Y : file[n] = file[m]
    <3> DEFINE F == Firsts(models, file)
    <3>1. /\ F \in Seq(X) /\ ToSet(F) \subseteq ToSet(models)
          /\ \A i, j \in DOMAIN F : i # j => file[F[i]] # file[F[j]]
          /\ \A m \in ToSet(models) : \E n \in ToSet(F) : file[n] = file[m]
      <4> HIDE DEF X, file
      <4> QED BY <2>1, FirstsOf
    <3>2. D = F
      BY DEF Distinct
    <3> HIDE DEF F, D, file
    <3> QED BY <3>1, <3>2
  <2>3. D \in Seq(Y)
    <3> HIDE DEF D, X
    <3>1. DOMAIN D = 1 .. Len(D) /\ Len(D) \in Nat /\ D \in [1 .. Len(D) -> X]
      BY <2>2
    <3>2. \A i \in 1 .. Len(D) : D[i] \in Y
      BY <3>1 DEF ToSet
    <3> HIDE DEF Y
    <3>3. D \in [1 .. Len(D) -> Y]
      BY <3>1, <3>2
    <3> QED BY <3>1, <3>3, SeqDef
  <2>4. /\ out \in Seq(Y) /\ ToSet(out) \subseteq Y
        /\ \A i, j \in DOMAIN out : i # j => id[out[i]] # id[out[j]]
        /\ \A m \in Y : \E n \in ToSet(out) : id[n] = id[m]
    <3> DEFINE F == Firsts(D, id)
    <3>1. /\ F \in Seq(Y) /\ ToSet(F) \subseteq ToSet(D)
          /\ \A i, j \in DOMAIN F : i # j => id[F[i]] # id[F[j]]
          /\ \A m \in ToSet(D) : \E n \in ToSet(F) : id[n] = id[m]
      <4> HIDE DEF id, D
      <4> QED BY <2>3, FirstsOf
    <3>2. out = F
      BY <2>1 DEF OfEachId
    <3> HIDE DEF F, id, D
    <3> QED BY <3>1, <3>2
  <2>5. \A m \in X : file[m] = FileKey(m)
    OBVIOUS
  <2>6. \A m \in Y : id[m] = Id[m.slot]
    OBVIOUS
  <2>7. ~Clash
    BY DEF OInv, Kept
  <2>8. \A m \in X : m.weight \in Files \cup {NoFile}
    BY DEF OInv, Registered
  <2> HIDE DEF X, file, id
  <2>9. ASSUME NEW i \in DOMAIN out, NEW j \in DOMAIN out, i # j, out[i].weight # NoFile, out[j].weight # NoFile,
               tree.real[out[i].weight] = tree.real[out[j].weight]
        PROVE  FALSE
    <3>1. out[i] \in Y /\ out[j] \in Y /\ id[out[i]] # id[out[j]]
      BY <2>4, <2>9 DEF ToSet
    <3>2. PICK k \in DOMAIN D, l \in DOMAIN D : D[k] = out[i] /\ D[l] = out[j]
      BY <3>1 DEF ToSet
    <3>3. file[out[i]] # file[out[j]]
      BY <2>2, <3>1, <3>2
    <3>4. FileKey(out[i]) # FileKey(out[j]) /\ out[i].weight \in Files /\ out[j].weight \in Files
      BY <2>2, <2>5, <2>8, <2>9, <3>1, <3>3
    <3>5. tree.inode[out[i].weight] = tree.inode[out[j].weight]
      BY <2>1, <2>9, <3>4 DEF Lawful
    <3> QED BY <2>9, <3>4, <3>5 DEF FileKey
  <2>10. ASSUME NEW m \in X
         PROVE  \E k \in X, n \in ToSet(out) :
                  FileKey(k) = FileKey(m) /\ (k = n \/ SidecarFile(k.slot) = SidecarFile(n.slot))
    <3>1. PICK k \in Y : file[k] = file[m]
      BY <2>2
    <3>2. PICK n \in ToSet(out) : id[n] = id[k]
      BY <2>4
    <3>3. n \in Y /\ k \in X
      BY <2>2, <2>4
    <3>4. SidecarFile(k.slot) = SidecarFile(n.slot)
      BY <2>6, <2>7, <3>2, <3>3 DEF Clash
    <3>5. FileKey(k) = FileKey(m)
      BY <2>5, <3>1, <3>3
    <3> QED BY <3>3, <3>4, <3>5
  <2> QED BY <2>9, <2>10 DEF EachFileOnce, X
<1> QED BY <1>1, OInvariant, PTL

-----------------------------------------------------------------------------
(* Layers *)

\* f[n] is what the first n scopes add up to.
Stacks(f, cfg, sc) ==
  f = [n \in 0 .. Len(sc) |->
         IF n = 0 THEN Layer(Nothing, <<>>)
         ELSE Layer(Merge(f[n - 1].defaults, cfg[sc[n]].defaults), f[n - 1].rules \o cfg[sc[n]].rules)]

\* The recursion of Stacked has a solution.
LEMMA StackExists ==
  ASSUME NEW cfg, NEW sc, Len(sc) \in Nat
  PROVE  \E f : Stacked(cfg, sc) = f[Len(sc)] /\ Stacks(f, cfg, sc)
<1> DEFINE Step(n, v) == Layer(Merge(v.defaults, cfg[sc[n]].defaults), v.rules \o cfg[sc[n]].rules)
           Upto(k) == \E g : g = [n \in 0 .. k |-> IF n = 0 THEN Layer(Nothing, <<>>) ELSE Step(n, g[n - 1])]
           S == {k \in Nat : Upto(k)}
<1>1. 0 \in S
  <2> DEFINE none == [n \in 0 .. 0 |-> Layer(Nothing, <<>>)]
  <2> HIDE DEF Step
  <2>1. none = [n \in 0 .. 0 |-> IF n = 0 THEN Layer(Nothing, <<>>) ELSE Step(n, none[n - 1])]
    OBVIOUS
  <2> HIDE DEF none
  <2>2. Upto(0)
    BY <2>1
  <2> QED BY <2>2
<1>2. \A k \in Nat : k \in S => k + 1 \in S
  <2> TAKE k \in Nat
  <2> HAVE k \in S
  <2> HIDE DEF Step
  <2>1. PICK g : g = [n \in 0 .. k |-> IF n = 0 THEN Layer(Nothing, <<>>) ELSE Step(n, g[n - 1])]
    OBVIOUS
  <2> DEFINE h == [n \in 0 .. (k + 1) |-> IF n <= k THEN g[n] ELSE Step(n, g[n - 1])]
  <2>2. \A n \in 0 .. k : h[n] = g[n] /\ g[n] = IF n = 0 THEN Layer(Nothing, <<>>) ELSE Step(n, g[n - 1])
    BY <2>1
  <2>3. h[k + 1] = Step(k + 1, g[(k + 1) - 1])
    OBVIOUS
  <2>4. h = [n \in 0 .. (k + 1) |-> h[n]]
    OBVIOUS
  <2> HIDE DEF h
  <2>5. \A n \in 0 .. (k + 1) : h[n] = IF n = 0 THEN Layer(Nothing, <<>>) ELSE Step(n, h[n - 1])
    <3> TAKE n \in 0 .. (k + 1)
    <3>1. CASE n = 0
      BY <3>1, <2>2
    <3>2. CASE n # 0 /\ n <= k
      <4>1. n \in 0 .. k /\ n - 1 \in 0 .. k
        BY <3>2
      <4> QED BY <4>1, <3>2, <2>2
    <3>3. CASE n = k + 1
      <4>1. k \in 0 .. k /\ n - 1 = k /\ n # 0
        BY <3>3
      <4> QED BY <4>1, <3>3, <2>2, <2>3
    <3> QED BY <3>1, <3>2, <3>3
  <2>6. h = [n \in 0 .. (k + 1) |-> IF n = 0 THEN Layer(Nothing, <<>>) ELSE Step(n, h[n - 1])]
    BY <2>4, <2>5
  <2>7. Upto(k + 1)
    BY <2>6
  <2> HIDE DEF Upto
  <2> QED BY <2>7
<1>3. Len(sc) \in S
  <2> HIDE DEF S
  <2> QED BY <1>1, <1>2, SetInduction
<1> DEFINE all == CHOOSE g : g = [n \in 0 .. Len(sc) |-> IF n = 0 THEN Layer(Nothing, <<>>) ELSE Step(n, g[n - 1])]
<1>4. all = [n \in 0 .. Len(sc) |-> IF n = 0 THEN Layer(Nothing, <<>>) ELSE Step(n, all[n - 1])]
  <2> HIDE DEF Step
  <2> QED BY <1>3
<1>5. Stacked(cfg, sc) = all[Len(sc)]
  BY DEF Stacked
<1> HIDE DEF all
<1> QED BY <1>4, <1>5 DEF Stacks

\* f[n] is what the first n rules set.
Sets(f, rules, stem, merged) ==
  f = [n \in 0 .. Len(rules) |->
         IF n = 0 THEN Nothing
         ELSE IF RuleMatches(rules[n], stem, merged) THEN Over(f[n - 1], rules[n]) ELSE f[n - 1]]

\* So has the one over rules.
LEMMA SettingExists ==
  ASSUME NEW rules, Len(rules) \in Nat, NEW stem, NEW merged
  PROVE  \E f : Ruled(rules, stem, merged) = f[Len(rules)] /\ Sets(f, rules, stem, merged)
<1> DEFINE Step(n, v) == IF RuleMatches(rules[n], stem, merged) THEN Over(v, rules[n]) ELSE v
           Upto(k) == \E g : g = [n \in 0 .. k |-> IF n = 0 THEN Nothing ELSE Step(n, g[n - 1])]
           S == {k \in Nat : Upto(k)}
<1>1. 0 \in S
  <2> DEFINE none == [n \in 0 .. 0 |-> Nothing]
  <2> HIDE DEF Step
  <2>1. none = [n \in 0 .. 0 |-> IF n = 0 THEN Nothing ELSE Step(n, none[n - 1])]
    OBVIOUS
  <2> HIDE DEF none
  <2>2. Upto(0)
    BY <2>1
  <2> QED BY <2>2
<1>2. \A k \in Nat : k \in S => k + 1 \in S
  <2> TAKE k \in Nat
  <2> HAVE k \in S
  <2> HIDE DEF Step
  <2>1. PICK g : g = [n \in 0 .. k |-> IF n = 0 THEN Nothing ELSE Step(n, g[n - 1])]
    OBVIOUS
  <2> DEFINE h == [n \in 0 .. (k + 1) |-> IF n <= k THEN g[n] ELSE Step(n, g[n - 1])]
  <2>2. \A n \in 0 .. k : h[n] = g[n] /\ g[n] = IF n = 0 THEN Nothing ELSE Step(n, g[n - 1])
    BY <2>1
  <2>3. h[k + 1] = Step(k + 1, g[(k + 1) - 1])
    OBVIOUS
  <2>4. h = [n \in 0 .. (k + 1) |-> h[n]]
    OBVIOUS
  <2> HIDE DEF h
  <2>5. \A n \in 0 .. (k + 1) : h[n] = IF n = 0 THEN Nothing ELSE Step(n, h[n - 1])
    <3> TAKE n \in 0 .. (k + 1)
    <3>1. CASE n = 0
      BY <3>1, <2>2
    <3>2. CASE n # 0 /\ n <= k
      <4>1. n \in 0 .. k /\ n - 1 \in 0 .. k
        BY <3>2
      <4> QED BY <4>1, <3>2, <2>2
    <3>3. CASE n = k + 1
      <4>1. k \in 0 .. k /\ n - 1 = k /\ n # 0
        BY <3>3
      <4> QED BY <4>1, <3>3, <2>2, <2>3
    <3> QED BY <3>1, <3>2, <3>3
  <2>6. h = [n \in 0 .. (k + 1) |-> IF n = 0 THEN Nothing ELSE Step(n, h[n - 1])]
    BY <2>4, <2>5
  <2>7. Upto(k + 1)
    BY <2>6
  <2> HIDE DEF Upto
  <2> QED BY <2>7
<1>3. Len(rules) \in S
  <2> HIDE DEF S
  <2> QED BY <1>1, <1>2, SetInduction
<1> DEFINE all == CHOOSE g : g = [n \in 0 .. Len(rules) |-> IF n = 0 THEN Nothing ELSE Step(n, g[n - 1])]
<1>4. all = [n \in 0 .. Len(rules) |-> IF n = 0 THEN Nothing ELSE Step(n, all[n - 1])]
  <2> HIDE DEF Step
  <2> QED BY <1>3
<1>5. Ruled(rules, stem, merged) = all[Len(rules)]
  BY DEF Ruled
<1> HIDE DEF all
<1> QED BY <1>4, <1>5 DEF Sets

LEMMA GreatestBelow ==
  ASSUME NEW n \in Nat, NEW T \in SUBSET (1 .. n), T # {}
  PROVE  Max(T) \in T /\ \A x \in T : x <= Max(T)
<1> DEFINE U == {n - x : x \in T}
<1>1. U \in SUBSET Nat /\ U # {}
  <2>1. \A x \in T : n - x \in Nat
    OBVIOUS
  <2> QED BY <2>1
<1> HIDE DEF U
<1>2. PICK u \in U : \A v \in U : u <= v
  BY <1>1, Least
<1>3. PICK y \in T : u = n - y
  BY <1>2 DEF U
<1>4. \A x \in T : y >= x
  <2> TAKE x \in T
  <2>1. u <= n - x
    BY <1>2 DEF U
  <2> QED BY <1>3, <2>1
<1>5. Max(T) \in T /\ \A x \in T : Max(T) >= x
  BY <1>4 DEF Max
<1> QED BY <1>5

\* Of n steps, those in H make the value what val says.
Replaces(H, val, v, n) == H \subseteq 1 .. n /\ \A k \in 1 .. n : v[k] = IF k \in H THEN val[k] ELSE v[k - 1]

\* A value that some of n steps replace is, at the end, what the last of them
\* made it.
LEMMA LastDecides ==
  ASSUME NEW n \in Nat, NEW H, NEW val, NEW v, Replaces(H, val, v, n)
  PROVE  v[n] = IF H = {} THEN v[0] ELSE val[Max(H)]
<1> USE DEF Replaces
<1>1. CASE H = {}
  <2> DEFINE S == {k \in Nat : k <= n => v[k] = v[0]}
  <2>1. 0 \in S
    OBVIOUS
  <2>2. ASSUME NEW k \in Nat, k \in S PROVE k + 1 \in S
    <3>1. k + 1 <= n => k + 1 \in 1 .. n /\ k <= n /\ (k + 1) - 1 = k
      OBVIOUS
    <3> QED BY <1>1, <2>2, <3>1
  <2> HIDE DEF S
  <2>3. n \in S
    BY <2>1, <2>2, SetInduction
  <2> QED BY <1>1, <2>3 DEF S
<1>2. CASE H # {}
  <2>1. Max(H) \in H /\ \A x \in H : x <= Max(H)
    BY <1>2, GreatestBelow
  <2> DEFINE m == Max(H)
             S == {k \in Nat : m <= k /\ k <= n => v[k] = val[m]}
  <2>2. m \in H /\ m \in 1 .. n /\ \A x \in H : x <= m
    BY <2>1
  <2> HIDE DEF m
  <2>3. 0 \in S
    BY <2>2
  <2>4. ASSUME NEW k \in Nat, k \in S PROVE k + 1 \in S
    <3> SUFFICES ASSUME m <= k + 1, k + 1 <= n PROVE v[k + 1] = val[m]
      OBVIOUS
    <3>1. k + 1 \in 1 .. n /\ (k + 1) - 1 = k
      OBVIOUS
    <3>2. CASE m = k + 1
      BY <2>2, <3>1, <3>2
    <3>3. CASE m # k + 1
      <4>1. m <= k /\ k <= n /\ k + 1 \notin H
        BY <2>2, <3>3
      <4>2. v[k] = val[m]
        BY <2>4, <4>1
      <4> QED BY <3>1, <4>1, <4>2
    <3> QED BY <3>2, <3>3
  <2> HIDE DEF S
  <2>5. n \in S
    BY <2>3, <2>4, SetInduction
  <2> QED BY <1>2, <2>2, <2>5 DEF S, m
<1> QED BY <1>1, <1>2

LEMMA CacheKey == "cache" \in Keys /\ "cache" \notin ListKeys /\ Nothing["cache"] = Unset /\ Unset # Null
BY DiscoveryAssumption DEF Nothing

\* What a layer makes of the cache type.
LEMMA MergeCache ==
  ASSUME NEW below, NEW above
  PROVE  Merge(below, above)["cache"] = IF above["cache"] = Unset THEN below["cache"] ELSE Clean(above["cache"])
<1>1. Merge(below, above)["cache"] =
        CASE above["cache"] = Unset -> below["cache"]
          [] above["cache"] = Null -> Unset
          [] /\ above["cache"] \notin {Unset, Null} /\ "cache" \in ListKeys
             /\ below["cache"] # Unset -> Union2(below["cache"], above["cache"])
          [] OTHER -> above["cache"]
  BY CacheKey DEF Merge
<1>2. CASE above["cache"] = Unset
  BY <1>1, <1>2, CacheKey
<1>3. CASE above["cache"] = Null
  BY <1>1, <1>3, CacheKey DEF Clean
<1>4. CASE above["cache"] \notin {Unset, Null}
  BY <1>1, <1>4, CacheKey DEF Clean
<1> QED BY <1>2, <1>3, <1>4

\* The innermost scope with a default decides, and the rules are all there.
LEMMA StackOf ==
  ASSUME NEW cfg, NEW sc \in Seq(Dirs \cup {Global}),
         \A s \in Dirs \cup {Global} : cfg[s].rules \in Seq(ToSet(cfg[s].rules))
  PROVE  LET set == {i \in DOMAIN sc : cfg[sc[i]].defaults["cache"] # Unset}
         IN /\ Stacked(cfg, sc).defaults["cache"] =
                 IF set = {} THEN Unset ELSE Clean(cfg[sc[Max(set)]].defaults["cache"])
            /\ \E X : Stacked(cfg, sc).rules \in Seq(X)
<1> DEFINE N == Len(sc)
           set == {i \in DOMAIN sc : cfg[sc[i]].defaults["cache"] # Unset}
           X == UNION {ToSet(cfg[s].rules) : s \in Dirs \cup {Global}}
<1>1. N \in Nat /\ DOMAIN sc = 1 .. N /\ \A i \in 1 .. N : sc[i] \in Dirs \cup {Global}
  OBVIOUS
<1>2. PICK f : Stacked(cfg, sc) = f[N] /\ Stacks(f, cfg, sc)
  BY <1>1, StackExists
<1>3. \A n \in 0 .. N : f[n] = IF n = 0 THEN Layer(Nothing, <<>>)
                               ELSE Layer(Merge(f[n - 1].defaults, cfg[sc[n]].defaults), f[n - 1].rules \o cfg[sc[n]].rules)
  <2>1. f = [n \in 0 .. N |-> IF n = 0 THEN Layer(Nothing, <<>>)
                              ELSE Layer(Merge(f[n - 1].defaults, cfg[sc[n]].defaults), f[n - 1].rules \o cfg[sc[n]].rules)]
    BY <1>2 DEF Stacks
  <2> QED BY <2>1
<1>4. f[0].defaults = Nothing /\ f[0].rules = <<>>
  <2>1. f[0] = Layer(Nothing, <<>>)
    BY <1>1, <1>3
  <2> QED BY <2>1 DEF Layer
<1>5. \A n \in 1 .. N : /\ f[n].defaults = Merge(f[n - 1].defaults, cfg[sc[n]].defaults)
                        /\ f[n].rules = f[n - 1].rules \o cfg[sc[n]].rules
  <2> TAKE n \in 1 .. N
  <2>1. n \in 0 .. N /\ n # 0
    BY <1>1
  <2> DEFINE d == Merge(f[n - 1].defaults, cfg[sc[n]].defaults)
             r == f[n - 1].rules \o cfg[sc[n]].rules
  <2>2. f[n] = Layer(d, r)
    BY <1>3, <2>1
  <2> HIDE DEF d, r
  <2>3. f[n].defaults = d /\ f[n].rules = r
    BY <2>2 DEF Layer
  <2> QED BY <2>3 DEF d, r
<1> HIDE DEF N, X
<1>6. Stacked(cfg, sc).defaults["cache"] = IF set = {} THEN Unset ELSE Clean(cfg[sc[Max(set)]].defaults["cache"])
  <2> DEFINE v == [n \in 0 .. N |-> f[n].defaults["cache"]]
             val == [n \in 1 .. N |-> Clean(cfg[sc[n]].defaults["cache"])]
  <2>1. set \in SUBSET (1 .. N)
    BY <1>1
  <2>2. \A n \in 1 .. N : v[n] = IF n \in set THEN val[n] ELSE v[n - 1]
    <3> TAKE n \in 1 .. N
    <3>1. n \in 0 .. N /\ n - 1 \in 0 .. N /\ (n \in set <=> cfg[sc[n]].defaults["cache"] # Unset)
      BY <1>1
    <3>2. f[n].defaults["cache"] = IF cfg[sc[n]].defaults["cache"] = Unset THEN f[n - 1].defaults["cache"]
                                   ELSE Clean(cfg[sc[n]].defaults["cache"])
      <4> DEFINE below == f[n - 1].defaults
                 above == cfg[sc[n]].defaults
      <4>1. f[n].defaults = Merge(below, above)
        BY <1>5
      <4> HIDE DEF below, above
      <4>2. Merge(below, above)["cache"] = IF above["cache"] = Unset THEN below["cache"] ELSE Clean(above["cache"])
        BY MergeCache
      <4>3. f[n].defaults["cache"] = IF above["cache"] = Unset THEN below["cache"] ELSE Clean(above["cache"])
        BY <4>1, <4>2
      <4> QED BY <4>3 DEF below, above
    <3> QED BY <3>1, <3>2
  <2>3. v[0] = Unset /\ v[N] = Stacked(cfg, sc).defaults["cache"]
    BY <1>1, <1>2, <1>4, CacheKey
  <2>4. \A m \in set : val[m] = Clean(cfg[sc[m]].defaults["cache"])
    BY <2>1
  <2> HIDE DEF v, val
  <2>5. v[N] = IF set = {} THEN v[0] ELSE val[Max(set)]
    <3> HIDE DEF set
    <3>1. N \in Nat
      BY <1>1
    <3>2. Replaces(set, val, v, N)
      BY <2>1, <2>2 DEF Replaces
    <3> QED BY <3>1, <3>2, LastDecides
  <2>6. set # {} => Max(set) \in set
    <3> HIDE DEF set
    <3> QED BY <1>1, <2>1, GreatestBelow
  <2> HIDE DEF set
  <2> QED BY <2>3, <2>4, <2>5, <2>6
<1>7. Stacked(cfg, sc).rules \in Seq(X)
  <2> DEFINE S == {n \in Nat : n <= N => f[n].rules \in Seq(X)}
  <2>1. 0 \in S
    <3>1. <<>> \in Seq(X)
      OBVIOUS
    <3> QED BY <1>4, <3>1
  <2>2. ASSUME NEW n \in Nat, n \in S PROVE n + 1 \in S
    <3> SUFFICES ASSUME n + 1 <= N PROVE f[n + 1].rules \in Seq(X)
      OBVIOUS
    <3>1. n + 1 \in 1 .. N /\ (n + 1) - 1 = n
      BY <1>1
    <3>2. f[n + 1].rules = f[n].rules \o cfg[sc[n + 1]].rules
      BY <1>5, <3>1
    <3>3. sc[n + 1] \in Dirs \cup {Global}
      BY <1>1, <3>1
    <3>4. cfg[sc[n + 1]].rules \in Seq(X)
      <4>1. ToSet(cfg[sc[n + 1]].rules) \subseteq X
        BY <3>3 DEF X
      <4>2. cfg[sc[n + 1]].rules \in Seq(ToSet(cfg[sc[n + 1]].rules))
        BY <3>3
      <4> QED BY <4>1, <4>2
    <3> QED BY <1>1, <2>2, <3>2, <3>4
  <2> HIDE DEF S
  <2>3. N \in S
    BY <1>1, <2>1, <2>2, SetInduction
  <2> QED BY <1>1, <1>2, <2>3 DEF S
<1> QED BY <1>6, <1>7

\* The last rule that matches and sets it decides.
LEMMA RuledOf ==
  ASSUME NEW X, NEW rules \in Seq(X), NEW stem, NEW merged
  PROVE  LET hits == {i \in DOMAIN rules : /\ rules[i].stem \in {Every, stem}
                                           /\ rules[i].cache \in {Every, merged["cache"]}
                                           /\ rules[i].set["cache"] # Unset}
         IN /\ Ruled(rules, stem, merged)["cache"] =
                 IF hits = {} THEN Unset ELSE rules[Max(hits)].set["cache"]
            /\ hits # {} => rules[Max(hits)].set["cache"] # Unset
<1> DEFINE N == Len(rules)
           hits == {i \in DOMAIN rules : /\ rules[i].stem \in {Every, stem}
                                         /\ rules[i].cache \in {Every, merged["cache"]}
                                         /\ rules[i].set["cache"] # Unset}
<1>1. N \in Nat /\ DOMAIN rules = 1 .. N
  OBVIOUS
<1>2. PICK f : Ruled(rules, stem, merged) = f[N] /\ Sets(f, rules, stem, merged)
  BY <1>1, SettingExists
<1>3. \A n \in 0 .. N : f[n] = IF n = 0 THEN Nothing
                               ELSE IF RuleMatches(rules[n], stem, merged) THEN Over(f[n - 1], rules[n]) ELSE f[n - 1]
  <2>1. f = [n \in 0 .. N |-> IF n = 0 THEN Nothing
                              ELSE IF RuleMatches(rules[n], stem, merged) THEN Over(f[n - 1], rules[n]) ELSE f[n - 1]]
    BY <1>2 DEF Sets
  <2> QED BY <2>1
<1> HIDE DEF N
<1>4. hits \in SUBSET (1 .. N)
  BY <1>1
<1> DEFINE v == [n \in 0 .. N |-> f[n]["cache"]]
           val == [n \in 1 .. N |-> rules[n].set["cache"]]
<1>5. \A n \in 1 .. N : v[n] = IF n \in hits THEN val[n] ELSE v[n - 1]
  <2> TAKE n \in 1 .. N
  <2>1. n \in 0 .. N /\ n - 1 \in 0 .. N /\ n # 0
    BY <1>1
  <2>2. n \in hits <=> RuleMatches(rules[n], stem, merged) /\ rules[n].set["cache"] # Unset
    BY <1>1 DEF RuleMatches
  <2>3. f[n] = IF RuleMatches(rules[n], stem, merged) THEN Over(f[n - 1], rules[n]) ELSE f[n - 1]
    BY <1>3, <2>1
  <2>4. Over(f[n - 1], rules[n])["cache"] = IF rules[n].set["cache"] = Unset THEN f[n - 1]["cache"] ELSE rules[n].set["cache"]
    BY CacheKey DEF Over
  <2> HIDE DEF hits
  <2> QED BY <2>1, <2>2, <2>3, <2>4
<1>6. v[0] = Unset /\ v[N] = Ruled(rules, stem, merged)["cache"]
  BY <1>1, <1>2, <1>3, CacheKey
<1>7. \A m \in hits : val[m] = rules[m].set["cache"] /\ val[m] # Unset
  BY <1>4
<1> HIDE DEF v, val
<1>8. v[N] = IF hits = {} THEN v[0] ELSE val[Max(hits)]
  <2> HIDE DEF hits
  <2>1. N \in Nat
    BY <1>1
  <2>2. Replaces(hits, val, v, N)
    BY <1>4, <1>5 DEF Replaces
  <2> QED BY <2>1, <2>2, LastDecides
<1>9. hits # {} => Max(hits) \in hits
  <2> HIDE DEF hits
  <2> QED BY <1>1, <1>4, GreatestBelow
<1> HIDE DEF hits
<1>10. /\ Ruled(rules, stem, merged)["cache"] = IF hits = {} THEN Unset ELSE rules[Max(hits)].set["cache"]
       /\ hits # {} => rules[Max(hits)].set["cache"] # Unset
  BY <1>6, <1>7, <1>8, <1>9
<1> QED BY <1>10 DEF hits

\* The layers folded one over the other come to what the lookup finds.
LEMMA FoldIsLookup ==
  ASSUME NEW cfg, NEW sc \in Seq(Dirs \cup {Global}), NEW slot, NEW fm,
         \A s \in Dirs \cup {Global} : cfg[s].rules \in Seq(ToSet(cfg[s].rules))
  PROVE  Configured(cfg, slot, fm, sc)["cache"] = Decided(cfg, sc, slot[2], fm.keys["cache"])
<1> DEFINE own == fm.keys["cache"]
           stem == slot[2]
           set == {i \in DOMAIN sc : cfg[sc[i]].defaults["cache"] # Unset}
           base == CASE own # Unset -> Clean(own)
                     [] own = Unset /\ set # {} -> Clean(cfg[sc[Max(set)]].defaults["cache"])
                     [] OTHER -> Unset
           rules == Stacked(cfg, sc).rules
           merged == Merge(Stacked(cfg, sc).defaults, fm.keys)
           hits(b) == {i \in DOMAIN rules : /\ rules[i].stem \in {Every, stem} /\ rules[i].cache \in {Every, b}
                                            /\ rules[i].set["cache"] # Unset}
<1>1. /\ Stacked(cfg, sc).defaults["cache"] = IF set = {} THEN Unset ELSE Clean(cfg[sc[Max(set)]].defaults["cache"])
      /\ \E X : rules \in Seq(X)
  BY StackOf
<1>2. merged["cache"] = IF own = Unset THEN Stacked(cfg, sc).defaults["cache"] ELSE Clean(own)
  BY MergeCache
<1>3. merged["cache"] = base
  <2> HIDE DEF merged, set, own
  <2> QED BY <1>1, <1>2
<1>4. Decided(cfg, sc, stem, own) = IF hits(base) = {} THEN base ELSE Clean(rules[Max(hits(base))].set["cache"])
  BY DEF Decided
<1> HIDE DEF base, merged, set, own
<1>5. /\ Ruled(rules, stem, merged)["cache"] = IF hits(base) = {} THEN Unset ELSE rules[Max(hits(base))].set["cache"]
      /\ hits(base) # {} => rules[Max(hits(base))].set["cache"] # Unset
  <2>2. PICK X : rules \in Seq(X)
    BY <1>1
  <2> HIDE DEF rules, stem
  <2>1. LET h == {i \in DOMAIN rules : /\ rules[i].stem \in {Every, stem}
                                       /\ rules[i].cache \in {Every, merged["cache"]}
                                       /\ rules[i].set["cache"] # Unset}
        IN /\ Ruled(rules, stem, merged)["cache"] = IF h = {} THEN Unset ELSE rules[Max(h)].set["cache"]
           /\ h # {} => rules[Max(h)].set["cache"] # Unset
    BY ONLY <2>2, RuledOf
  <2> QED BY <1>3, <2>1
<1> DEFINE h == hits(base)
           rule == rules[Max(h)].set["cache"]
<1>6. /\ Configured(cfg, slot, fm, sc)["cache"]
           = IF Ruled(rules, stem, merged)["cache"] = Unset THEN merged["cache"]
             ELSE Clean(Ruled(rules, stem, merged)["cache"])
  <2>1. Configured(cfg, slot, fm, sc) = Merge(merged, Ruled(rules, stem, merged))
    BY DEF Configured, Layers, ApplyRules, merged
  <2> HIDE DEF rules, stem
  <2> QED BY <2>1, MergeCache
<1>7. Decided(cfg, sc, stem, own) = IF h = {} THEN base ELSE Clean(rule)
  BY <1>4
<1>8. Ruled(rules, stem, merged)["cache"] = IF h = {} THEN Unset ELSE rule
  BY <1>5
<1>9. h # {} => rule # Unset
  BY <1>5
<1> HIDE DEF h, rule, hits
<1>10. Configured(cfg, slot, fm, sc)["cache"] = Decided(cfg, sc, stem, own)
  <2> HIDE DEF rules, stem
  <2> QED BY <1>3, <1>6, <1>7, <1>8, <1>9
<1> QED BY <1>10 DEF own

-----------------------------------------------------------------------------
(* The path of a directory *)

Upward(A) == A \subseteq Dirs /\ \A d \in A : Parent[d] \in Dirs => Parent[d] \in A

Solves(g, A) == \A d \in A : g[d] = Below(g[Parent[d]], d)

LEMMA TopHasNone ==
  ASSUME NEW d, Parent[d] \notin Dirs, NEW a, NEW b
  PROVE  Below(a, d) = Below(b, d)
BY DEF Below

LEMMA OneSolution ==
  ASSUME NEW A, NEW B, Upward(A), Upward(B), NEW g, NEW h, Solves(g, A), Solves(h, B)
  PROVE  \A d \in A \cap B : g[d] = h[d]
<1> DEFINE S == {d \in A \cap B : g[d] # h[d]}
<1> SUFFICES ASSUME S # {} PROVE FALSE
  OBVIOUS
<1>1. S \in SUBSET Dirs
  BY DEF Upward
<1>2. PICK d \in S : Parent[d] \notin S
  <2> HIDE DEF S
  <2> QED BY <1>1, PlacesAssumption
<1>3. g[d] = Below(g[Parent[d]], d) /\ h[d] = Below(h[Parent[d]], d) /\ g[d] # h[d]
  BY DEF Solves
<1>4. CASE Parent[d] \in Dirs
  <2>1. g[Parent[d]] = h[Parent[d]]
    BY <1>2, <1>4 DEF Upward
  <2> QED BY <1>3, <2>1
<1>5. CASE Parent[d] \notin Dirs
  <2>1. Below(g[Parent[d]], d) = Below(h[Parent[d]], d)
    BY <1>5, TopHasNone
  <2> QED BY <1>3, <2>1
<1> QED BY <1>4, <1>5

LEMMA SomeSolution ==
  ASSUME NEW d \in Dirs
  PROVE  \E A, g : Upward(A) /\ d \in A /\ Solves(g, A)
<1> DEFINE Has(x) == \E A, g : Upward(A) /\ x \in A /\ Solves(g, A)
           S == {x \in Dirs : ~Has(x)}
<1> SUFFICES ASSUME S # {} PROVE FALSE
  OBVIOUS
<1>1. PICK x \in S : Parent[x] \notin S
  <2>1. S \in SUBSET Dirs
    OBVIOUS
  <2> HIDE DEF S
  <2> QED BY <2>1, PlacesAssumption
<1>2. x \in Dirs /\ ~Has(x)
  OBVIOUS
<1>3. CASE Parent[x] \notin Dirs
  <2> DEFINE A == {x}
             g == [y \in A |-> Below(<<>>, y)]
  <2>1. Upward(A)
    BY <1>2, <1>3 DEF Upward
  <2>2. g[x] = Below(g[Parent[x]], x)
    <3>1. g[x] = Below(<<>>, x)
      OBVIOUS
    <3> HIDE DEF g
    <3>2. Below(<<>>, x) = Below(g[Parent[x]], x)
      BY <1>3, TopHasNone
    <3> QED BY <3>1, <3>2
  <2> HIDE DEF g
  <2>3. Solves(g, A)
    BY <2>2 DEF Solves
  <2> HIDE DEF A
  <2>4. x \in A
    BY DEF A
  <2> QED BY <1>2, <2>1, <2>3, <2>4
<1>4. CASE Parent[x] \in Dirs
  <2>1. Has(Parent[x])
    BY <1>1, <1>4
  <2>2. PICK B, h : Upward(B) /\ Parent[x] \in B /\ Solves(h, B)
    BY <2>1
  <2>3. x \notin B
    BY <1>2, <2>2
  <2> DEFINE A == B \cup {x}
             g == [y \in A |-> IF y \in B THEN h[y] ELSE Below(h[Parent[x]], y)]
  <2>4. Upward(A) /\ x \in A
    BY <1>2, <2>2 DEF Upward
  <2>5. \A y \in B : g[y] = h[y] /\ (Parent[y] \in Dirs => g[Parent[y]] = h[Parent[y]])
    BY <2>2 DEF Upward
  <2>6. g[x] = Below(g[Parent[x]], x)
    BY <2>2, <2>3
  <2> HIDE DEF g
  <2>7. \A y \in B : g[y] = Below(g[Parent[y]], y)
    <3> TAKE y \in B
    <3>1. g[y] = Below(h[Parent[y]], y)
      BY <2>2, <2>5 DEF Solves
    <3>2. CASE Parent[y] \in Dirs
      BY <2>5, <3>1, <3>2
    <3>3. CASE Parent[y] \notin Dirs
      BY <3>1, <3>3, TopHasNone
    <3> QED BY <3>2, <3>3
  <2>8. Solves(g, A)
    BY <2>6, <2>7 DEF Solves
  <2> HIDE DEF A
  <2> QED BY <1>2, <2>4, <2>8
<1> QED BY <1>3, <1>4

\* The recursion of Path has a solution: a forest has no cycle.
LEMMA PathIs == Path = [d \in Dirs |-> Below(Path[Parent[d]], d)]
<1> DEFINE Fits(d, g) == \E A : Upward(A) /\ d \in A /\ Solves(g, A)
           Pick(d) == CHOOSE g : Fits(d, g)
           all == [d \in Dirs |-> Pick(d)[d]]
<1>1. \A d \in Dirs : Fits(d, Pick(d))
  <2> TAKE d \in Dirs
  <2>1. \E g : Fits(d, g)
    BY SomeSolution
  <2> HIDE DEF Fits
  <2> QED BY <2>1
<1> HIDE DEF Pick
<1>2. \A d \in Dirs : all[d] = Below(all[Parent[d]], d)
  <2> TAKE d \in Dirs
  <2>1. PICK A : Upward(A) /\ d \in A /\ Solves(Pick(d), A)
    BY <1>1
  <2>2. Pick(d)[d] = Below(Pick(d)[Parent[d]], d) /\ all[d] = Pick(d)[d]
    BY <2>1 DEF Solves
  <2>3. CASE Parent[d] \in Dirs
    <3> DEFINE p == Parent[d]
    <3>1. PICK B : Upward(B) /\ p \in B /\ Solves(Pick(p), B)
      BY <1>1, <2>3
    <3>2. p \in A \cap B
      BY <2>1, <2>3, <3>1 DEF Upward
    <3>3. Pick(d)[p] = Pick(p)[p]
      BY <2>1, <3>1, <3>2, OneSolution
    <3>4. all[p] = Pick(p)[p]
      BY <2>3
    <3> QED BY <2>2, <3>3, <3>4
  <2>4. CASE Parent[d] \notin Dirs
    <3> HIDE DEF all
    <3> QED BY <2>2, <2>4, TopHasNone
  <2> QED BY <2>3, <2>4
<1>3. all = [d \in Dirs |-> all[d]]
  OBVIOUS
<1> HIDE DEF all
<1>4. all = [d \in Dirs |-> Below(all[Parent[d]], d)]
  BY <1>2, <1>3
<1>5. Path = CHOOSE f : f = [d \in Dirs |-> Below(f[Parent[d]], d)]
  BY DEF Path
<1> QED BY <1>4, <1>5

LEMMA PathAt == \A d \in Dirs : Path[d] = Below(Path[Parent[d]], d)
<1> DEFINE g == [d \in Dirs |-> Below(Path[Parent[d]], d)]
<1>1. Path = g
  BY PathIs
<1>2. \A d \in Dirs : g[d] = Below(Path[Parent[d]], d)
  OBVIOUS
<1> HIDE DEF g
<1> QED BY <1>1, <1>2

\* The path of a directory is made of scopes.
LEMMA PathTyped == \A d \in Dirs : Path[d] \in Seq(Dirs \cup {Global})
<1> DEFINE S == {d \in Dirs : Path[d] \notin Seq(Dirs \cup {Global})}
<1> SUFFICES ASSUME S # {} PROVE FALSE
  OBVIOUS
<1>1. PICK d \in S : Parent[d] \notin S
  <2>1. S \in SUBSET Dirs
    OBVIOUS
  <2> HIDE DEF S
  <2> QED BY <2>1, PlacesAssumption
<1>2. d \in Dirs /\ Path[d] \notin Seq(Dirs \cup {Global})
  OBVIOUS
<1>3. CASE d \in ToSet(Roots)
  <2>1. Path[d] = <<Global, d>>
    BY <1>2, <1>3, PathAt DEF Below
  <2>2. <<Global, d>> \in Seq(Dirs \cup {Global})
    BY <1>2
  <2> QED BY <1>2, <2>1, <2>2
<1>4. CASE d \notin ToSet(Roots) /\ Parent[d] \in Dirs /\ Path[Parent[d]] # <<>>
  <2> DEFINE above == Path[Parent[d]]
  <2>1. Path[d] = Append(above, d)
    BY <1>2, <1>4, PathAt DEF Below
  <2>2. above \in Seq(Dirs \cup {Global})
    BY <1>1, <1>4
  <2> HIDE DEF above
  <2>3. Append(above, d) \in Seq(Dirs \cup {Global})
    BY <1>2, <2>2
  <2> QED BY <1>2, <2>1, <2>3
<1>5. CASE d \notin ToSet(Roots) /\ ~(Parent[d] \in Dirs /\ Path[Parent[d]] # <<>>)
  <2>1. Path[d] = <<>>
    BY <1>2, <1>5, PathAt DEF Below
  <2> QED BY <1>2, <2>1
<1> QED BY <1>3, <1>4, <1>5

LEMMA PathOfRoot == \A d \in ToSet(Roots) : d \in Dirs /\ Path[d] = Append(<<Global>>, d)
<1> TAKE d \in ToSet(Roots)
<1>1. d \in Dirs
  BY PlacesAssumption DEF ToSet
<1>2. Path[d] = <<Global, d>>
  BY <1>1, PathAt DEF Below
<1>3. <<Global, d>> = Append(<<Global>>, d)
  OBVIOUS
<1> QED BY <1>1, <1>2, <1>3

LEMMA PathOfChild ==
  ASSUME NEW d \in Dirs, Path[d] # <<>>, NEW c \in ToSet(Children[d])
  PROVE  c \in Dirs /\ Path[c] = Append(Path[d], c)
<1>1. c \in Dirs
  <2>1. Children[d] \in Seq(Dirs)
    BY PlacesAssumption
  <2> QED BY <2>1 DEF ToSet
<1>2. Parent[c] = d /\ c \notin ToSet(Roots)
  BY PlacesAssumption
<1>3. Path[c] = Below(Path[d], c)
  BY <1>1, <1>2, PathAt
<1> QED BY <1>1, <1>2, <1>3 DEF Below

LEMMA FrontOfAppend ==
  ASSUME NEW X, NEW s \in Seq(X), NEW x \in X
  PROVE  Front(Append(s, x)) = s
<1> DEFINE u == Append(s, x)
<1>1. u \in Seq(X) /\ Len(u) = Len(s) + 1 /\ Len(s) \in Nat /\ \A k \in 1 .. Len(s) : u[k] = s[k]
  BY AppendProperties
<1> HIDE DEF u
<1>2. Front(u) = [k \in 1 .. Len(s) |-> u[k]]
  <2>1. Len(u) - 1 = Len(s)
    BY <1>1
  <2> QED BY <1>1, <2>1 DEF Front
<1>3. s = [k \in 1 .. Len(s) |-> s[k]]
  OBVIOUS
<1>4. Front(u) = s
  BY <1>1, <1>2, <1>3
<1> QED BY <1>4 DEF u

-----------------------------------------------------------------------------
(* Where the walk stands *)

\* A directory that is open: what is left of it to visit.
FrameOk(fr) ==
  /\ fr.dir \in Dirs /\ Path[fr.dir] # <<>>
  /\ IsList(fr.files) /\ ToSet(fr.files) \subseteq ToSet(Listed[fr.dir])
  /\ IsList(fr.dirs) /\ ToSet(fr.dirs) \subseteq ToSet(Children[fr.dir])

TopOf(ag) == IF ag = <<>> THEN <<Global>> ELSE Path[ag[1].dir]

\* Each of the open directories is right inside the next.
Chain(ag) ==
  /\ IsList(ag)
  /\ \A i \in DOMAIN ag :
       /\ FrameOk(ag[i])
       /\ Path[ag[i].dir] = Append(IF i = Len(ag) THEN <<Global>> ELSE Path[ag[i + 1].dir], ag[i].dir)

\* The scopes are those of the innermost of them.
Standing ==
  pc = "walk" =>
    IsList(roots) /\ ToSet(roots) \subseteq ToSet(Roots) /\ Chain(agenda) /\ scopes = TopOf(agenda)

LEMMA ListTyped == ASSUME NEW X, NEW s \in Seq(X) PROVE IsList(s)
<1>1. \A i \in 1 .. Len(s) : s[i] \in ToSet(s)
  BY DEF ToSet
<1>2. s \in Seq(ToSet(s))
  BY <1>1
<1> QED BY <1>2 DEF IsList

LEMMA FrameOpens ==
  ASSUME NEW d \in Dirs, Path[d] # <<>>, NEW role
  PROVE  FrameOk(Frame(d, role)) /\ Frame(d, role).dir = d
<1>1. IsList(Listed[d])
  <2> DEFINE X == Files \cup (Dirs \X STRING)
  <2>1. Listed[d] \in Seq(X)
    BY PlacesAssumption
  <2> HIDE DEF X
  <2> QED BY <2>1, ListTyped
<1>2. IsList(Children[d])
  <2>1. Children[d] \in Seq(Dirs)
    BY PlacesAssumption
  <2> QED BY <2>1, ListTyped
<1> QED BY <1>1, <1>2 DEF Frame, FrameOk

\* One frame more in front.
LEMMA Pushed ==
  ASSUME NEW s, IsList(s), NEW x
  PROVE  LET u == <<x>> \o s
         IN /\ IsList(u) /\ Len(u) = Len(s) + 1 /\ Len(s) \in Nat /\ u # <<>> /\ u[1] = x
            /\ DOMAIN u = 1 .. Len(s) + 1 /\ \A i \in 1 .. Len(s) : u[i + 1] = s[i]
            /\ DOMAIN s = 1 .. Len(s)
<1> DEFINE X == ToSet(s) \cup {x}
           u == <<x>> \o s
<1>1. s \in Seq(ToSet(s))
  BY DEF IsList
<1>2. s \in Seq(X) /\ <<x>> \in Seq(X) /\ Len(<<x>>) = 1 /\ <<x>>[1] = x
  BY <1>1
<1> HIDE DEF X
<1>3. u \in Seq(X) /\ Len(u) = 1 + Len(s) /\ Len(s) \in Nat /\ DOMAIN s = 1 .. Len(s)
  BY <1>2
<1>4. \A i \in 1 .. Len(u) : u[i] = IF i <= 1 THEN <<x>>[i] ELSE s[i - 1]
  BY <1>2
<1>5. u[1] = x
  BY <1>2, <1>3, <1>4
<1> HIDE DEF u
<1>6. \A i \in 1 .. Len(s) : u[i + 1] = s[i]
  <2> TAKE i \in 1 .. Len(s)
  <2>1. i + 1 \in 1 .. Len(u) /\ ~(i + 1 <= 1) /\ (i + 1) - 1 = i
    BY <1>3
  <2> QED BY <1>4, <2>1
<1>7. IsList(u)
  BY <1>3, ListTyped
<1>8. DOMAIN u = 1 .. Len(s) + 1 /\ u # <<>>
  BY <1>3
<1> QED BY <1>3, <1>5, <1>6, <1>7, <1>8 DEF u

LEMMA ChainTail ==
  ASSUME NEW ag, Chain(ag), ag # <<>>
  PROVE  /\ Chain(Tail(ag)) /\ FrameOk(ag[1]) /\ Head(ag) = ag[1]
         /\ Path[ag[1].dir] = Append(TopOf(Tail(ag)), ag[1].dir)
         /\ Front(TopOf(ag)) = TopOf(Tail(ag))
<1> DEFINE u == Tail(ag)
<1>1. ag \in Seq(ToSet(ag)) /\ IsList(u)
  BY Shrunk DEF Chain, IsList
<1>2. /\ Len(u) = Len(ag) - 1 /\ Len(ag) \in Nat \ {0} /\ DOMAIN ag = 1 .. Len(ag) /\ DOMAIN u = 1 .. Len(u)
      /\ \A i \in 1 .. Len(u) : u[i] = ag[i + 1]
      /\ (u = <<>> <=> Len(u) = 0) /\ Head(ag) = ag[1]
  <2> DEFINE X == ToSet(ag)
  <2>1. ag \in Seq(X) /\ ag # <<>>
    BY <1>1
  <2> HIDE DEF X
  <2>2. u \in Seq(X) /\ Len(ag) \in Nat \ {0} /\ Len(u) = Len(ag) - 1 /\ Head(ag) = ag[1]
    BY <2>1
  <2>3. \A i \in 1 .. Len(u) : u[i] = ag[i + 1]
    BY <2>1
  <2> QED BY <2>1, <2>2, <2>3
<1> HIDE DEF u
<1>3. Chain(u)
  <2> SUFFICES ASSUME NEW i \in DOMAIN u
               PROVE  /\ FrameOk(u[i])
                      /\ Path[u[i].dir] = Append(IF i = Len(u) THEN <<Global>> ELSE Path[u[i + 1].dir], u[i].dir)
    BY <1>1 DEF Chain
  <2>1. i + 1 \in DOMAIN ag /\ u[i] = ag[i + 1] /\ (i = Len(u) <=> i + 1 = Len(ag))
    BY <1>2
  <2>2. i # Len(u) => u[i + 1] = ag[(i + 1) + 1]
    BY <1>2
  <2>3. /\ FrameOk(ag[i + 1])
        /\ Path[ag[i + 1].dir] = Append(IF i + 1 = Len(ag) THEN <<Global>> ELSE Path[ag[(i + 1) + 1].dir], ag[i + 1].dir)
    BY <2>1 DEF Chain
  <2> QED BY <2>1, <2>2, <2>3
<1>4. 1 \in DOMAIN ag /\ FrameOk(ag[1])
  BY <1>2 DEF Chain
<1>5. TopOf(u) = IF 1 = Len(ag) THEN <<Global>> ELSE Path[ag[1 + 1].dir]
  <2>1. CASE Len(ag) = 1
    BY <1>2, <2>1 DEF TopOf
  <2>2. CASE Len(ag) # 1
    <3>1. 1 \in 1 .. Len(u) /\ u # <<>>
      BY <1>2, <2>2
    <3> QED BY <1>2, <2>2, <3>1 DEF TopOf
  <2> QED BY <2>1, <2>2
<1>6. Path[ag[1].dir] = Append(TopOf(u), ag[1].dir)
  BY <1>4, <1>5 DEF Chain
<1>7. TopOf(u) \in Seq(Dirs \cup {Global})
  <2>1. CASE u = <<>>
    BY <2>1 DEF TopOf
  <2>2. CASE u # <<>>
    <3>1. 1 \in DOMAIN u
      BY <1>2, <2>2
    <3>2. FrameOk(u[1])
      BY <1>3, <3>1 DEF Chain
    <3> QED BY <2>2, <3>2, PathTyped DEF TopOf, FrameOk
  <2> QED BY <2>1, <2>2
<1>8. Front(TopOf(ag)) = TopOf(u)
  <2>1. TopOf(ag) = Append(TopOf(u), ag[1].dir) /\ ag[1].dir \in Dirs \cup {Global}
    BY <1>4, <1>6 DEF TopOf, FrameOk
  <2> HIDE DEF TopOf
  <2> DEFINE above == TopOf(u)
             d == ag[1].dir
  <2>2. above \in Seq(Dirs \cup {Global}) /\ d \in Dirs \cup {Global}
    BY <1>7, <2>1
  <2> HIDE DEF above, d
  <2>3. Front(Append(above, d)) = above
    BY <2>2, FrontOfAppend
  <2> QED BY <2>1, <2>3 DEF above, d
<1> QED BY <1>2, <1>3, <1>4, <1>6, <1>8 DEF u

LEMMA ChainPush ==
  ASSUME NEW ag, Chain(ag), NEW fr, FrameOk(fr), Path[fr.dir] = Append(TopOf(ag), fr.dir)
  PROVE  Chain(<<fr>> \o ag) /\ TopOf(<<fr>> \o ag) = Path[fr.dir] /\ <<fr>> \o ag # <<>>
<1> DEFINE u == <<fr>> \o ag
<1>1. /\ IsList(u) /\ Len(u) = Len(ag) + 1 /\ Len(ag) \in Nat /\ u # <<>> /\ u[1] = fr
      /\ DOMAIN u = 1 .. Len(ag) + 1 /\ \A i \in 1 .. Len(ag) : u[i + 1] = ag[i]
      /\ DOMAIN ag = 1 .. Len(ag) /\ (ag = <<>> <=> Len(ag) = 0)
  <2>1. IsList(ag)
    BY DEF Chain
  <2>2. ag = <<>> <=> Len(ag) = 0
    BY <2>1 DEF IsList
  <2> QED BY <2>1, <2>2, Pushed
<1> HIDE DEF u
<1>2. ASSUME NEW i \in DOMAIN u
      PROVE  /\ FrameOk(u[i])
             /\ Path[u[i].dir] = Append(IF i = Len(u) THEN <<Global>> ELSE Path[u[i + 1].dir], u[i].dir)
  <2>1. CASE i = 1
    <3>1. TopOf(ag) = IF 1 = Len(u) THEN <<Global>> ELSE Path[u[1 + 1].dir]
      <4>1. CASE Len(ag) = 0
        BY <1>1, <4>1 DEF TopOf
      <4>2. CASE Len(ag) # 0
        <5>1. 1 \in 1 .. Len(ag)
          BY <1>1, <4>2
        <5> QED BY <1>1, <4>2, <5>1 DEF TopOf
      <4> QED BY <4>1, <4>2
    <3> QED BY <1>1, <2>1, <3>1
  <2>2. CASE i # 1
    <3> DEFINE j == i - 1
    <3>1. j \in 1 .. Len(ag) /\ i = j + 1 /\ u[i] = ag[j] /\ (i = Len(u) <=> j = Len(ag))
      BY <1>1, <1>2, <2>2
    <3>2. i # Len(u) => u[i + 1] = ag[j + 1]
      BY <1>1, <3>1
    <3> HIDE DEF j
    <3>3. /\ FrameOk(ag[j])
          /\ Path[ag[j].dir] = Append(IF j = Len(ag) THEN <<Global>> ELSE Path[ag[j + 1].dir], ag[j].dir)
      BY <1>1, <3>1 DEF Chain
    <3> QED BY <3>1, <3>2, <3>3
  <2> QED BY <2>1, <2>2
<1>3. Chain(u)
  BY <1>1, <1>2 DEF Chain
<1>4. TopOf(u) = Path[fr.dir]
  BY <1>1 DEF TopOf
<1> QED BY <1>1, <1>3, <1>4 DEF u

\* The innermost directory with less left to visit.
LEMMA ChainMoves ==
  ASSUME NEW ag, Chain(ag), ag # <<>>, NEW fr, FrameOk(fr), fr.dir = ag[1].dir
  PROVE  LET u == <<fr>> \o Tail(ag) IN Chain(u) /\ TopOf(u) = TopOf(ag)
<1>1. Chain(Tail(ag)) /\ Path[fr.dir] = Append(TopOf(Tail(ag)), fr.dir)
  BY ChainTail
<1>2. Chain(<<fr>> \o Tail(ag)) /\ TopOf(<<fr>> \o Tail(ag)) = Path[fr.dir]
  BY <1>1, ChainPush
<1> QED BY <1>2 DEF TopOf

LEMMA StandNextFile ==
  ASSUME Chain(agenda), agenda # <<>>, Here.files # <<>>, NextFile
  PROVE  Chain(agenda') /\ TopOf(agenda') = TopOf(agenda)
<1> DEFINE fr == [Here EXCEPT !.files = Tail(@)]
<1>1. FrameOk(Here) /\ Here = agenda[1]
  BY ChainTail DEF Here
<1>2. fr.dir = Here.dir /\ fr.dirs = Here.dirs /\ fr.files = Tail(Here.files)
  OBVIOUS
<1>3. agenda' = <<fr>> \o Tail(agenda)
  BY DEF NextFile
<1> HIDE DEF fr
<1>4. FrameOk(fr)
  <2>1. IsList(Tail(Here.files)) /\ ToSet(Tail(Here.files)) \subseteq ToSet(Here.files)
    BY <1>1, Shrunk DEF FrameOk
  <2> QED BY <1>1, <1>2, <2>1 DEF FrameOk
<1> QED BY <1>1, <1>2, <1>3, <1>4, ChainMoves

LEMMA SInductive == OInv /\ Standing /\ [Next]_vars => Standing'
<1> SUFFICES ASSUME OInv, Standing, [Next]_vars PROVE Standing'
  OBVIOUS
<1>1. CASE Begin
  <2>1. pc' = "walk" /\ roots' = Roots /\ agenda' = <<>> /\ scopes' = <<Global>>
    BY <1>1 DEF Begin
  <2>2. IsList(Roots)
    BY PlacesAssumption, ListTyped
  <2>3. Chain(<<>>)
    BY DEF Chain, IsList, ToSet
  <2> QED BY <2>1, <2>2, <2>3 DEF Standing, TopOf
<1>2. CASE EnterRoot
  <2> DEFINE r == Head(roots)
             fr == Frame(r, Unset)
  <2>1. /\ pc = "walk" /\ agenda = <<>> /\ roots # <<>> /\ agenda' = <<fr>> /\ scopes' = Append(scopes, r)
        /\ roots' = Tail(roots) /\ pc' = pc
    BY <1>2 DEF EnterRoot
  <2>2. IsList(roots') /\ ToSet(roots') \subseteq ToSet(Roots) /\ r \in ToSet(Roots)
    BY <2>1, Shrunk DEF Standing
  <2>3. r \in Dirs /\ Path[r] = Append(<<Global>>, r)
    BY <2>2, PathOfRoot
  <2>4. Path[r] # <<>>
    <3>1. Append(<<Global>>, r) # <<>>
      OBVIOUS
    <3> QED BY <2>3, <3>1
  <2>5. FrameOk(fr) /\ fr.dir = r
    BY <2>3, <2>4, FrameOpens
  <2> HIDE DEF fr, r
  <2>6. Chain(<<>>) /\ TopOf(<<>>) = <<Global>> /\ <<fr>> \o <<>> = <<fr>>
    BY DEF Chain, IsList, ToSet, TopOf
  <2>7. Chain(<<fr>> \o <<>>) /\ TopOf(<<fr>> \o <<>>) = Path[fr.dir]
    BY <2>3, <2>5, <2>6, ChainPush
  <2>8. scopes = <<Global>>
    BY <2>1 DEF Standing, TopOf
  <2> QED BY <2>1, <2>2, <2>3, <2>5, <2>6, <2>7, <2>8 DEF Standing
<1>3. CASE ReadSidecar \/ ReadWeight
  <2>1. /\ pc = "walk" /\ agenda # <<>> /\ Here.files # <<>> /\ NextFile
        /\ pc' = pc /\ roots' = roots /\ scopes' = scopes
    BY <1>3 DEF ReadSidecar, ReadWeight
  <2>2. Chain(agenda)
    BY <2>1 DEF Standing
  <2>3. Chain(agenda') /\ TopOf(agenda') = TopOf(agenda)
    BY <2>1, <2>2, StandNextFile
  <2> QED BY <2>1, <2>3 DEF Standing
<1>4. CASE Descend
  <2> DEFINE d == Head(Here.dirs)
             moved == [Here EXCEPT !.dirs = Tail(@)]
             rest == <<moved>> \o Tail(agenda)
             role == ChildRole(Here.role, d)
             fr == Frame(d, role)
  <2>1. /\ pc = "walk" /\ agenda # <<>> /\ Here.dirs # <<>> /\ pc' = pc /\ roots' = roots
        /\ \/ agenda' = rest /\ scopes' = scopes
           \/ agenda' = <<fr>> \o rest /\ scopes' = Append(scopes, d)
    BY <1>4 DEF Descend
  <2>2. Chain(agenda) /\ scopes = TopOf(agenda)
    BY <2>1 DEF Standing
  <2>3. FrameOk(Here) /\ Here = agenda[1]
    BY <2>1, <2>2, ChainTail DEF Here
  <2>4. moved.dir = Here.dir /\ moved.files = Here.files /\ moved.dirs = Tail(Here.dirs)
    OBVIOUS
  <2> HIDE DEF moved
  <2>5. IsList(Tail(Here.dirs)) /\ ToSet(Tail(Here.dirs)) \subseteq ToSet(Here.dirs) /\ d \in ToSet(Children[Here.dir])
    BY <2>1, <2>3, Shrunk DEF FrameOk
  <2>6. FrameOk(moved)
    BY <2>3, <2>4, <2>5 DEF FrameOk
  <2>7. Chain(rest) /\ TopOf(rest) = TopOf(agenda)
    BY <2>1, <2>2, <2>3, <2>4, <2>6, ChainMoves
  <2> HIDE DEF rest
  <2>8. TopOf(agenda) = Path[Here.dir]
    BY <2>1, <2>3 DEF TopOf
  <2>9. d \in Dirs /\ Path[d] = Append(Path[Here.dir], d)
    <3> HIDE DEF d
    <3> QED BY <2>3, <2>5, PathOfChild DEF FrameOk
  <2>10. Path[d] # <<>>
    <3> HIDE DEF d
    <3>1. Here.dir \in Dirs
      BY <2>3 DEF FrameOk
    <3>2. Path[Here.dir] \in Seq(Dirs \cup {Global})
      BY <3>1, PathTyped
    <3> QED BY <2>9, <3>2
  <2> HIDE DEF d
  <2>11. FrameOk(fr) /\ fr.dir = d
    BY <2>9, <2>10, FrameOpens
  <2> HIDE DEF fr
  <2>12. Chain(<<fr>> \o rest) /\ TopOf(<<fr>> \o rest) = Path[d]
    BY <2>7, <2>8, <2>9, <2>11, ChainPush
  <2> QED BY <2>1, <2>2, <2>7, <2>8, <2>9, <2>12 DEF Standing
<1>5. CASE Leave
  <2>1. pc = "walk" /\ agenda # <<>> /\ agenda' = Tail(agenda) /\ scopes' = Front(scopes) /\ pc' = pc /\ roots' = roots
    BY <1>5 DEF Leave
  <2>2. Chain(agenda) /\ scopes = TopOf(agenda)
    BY <2>1 DEF Standing
  <2>3. Chain(Tail(agenda)) /\ Front(TopOf(agenda)) = TopOf(Tail(agenda))
    BY <2>1, <2>2, ChainTail
  <2> QED BY <2>1, <2>2, <2>3 DEF Standing
<1>6. CASE EndWalk \/ ServeOrphan \/ Return
  BY <1>6 DEF EndWalk, ServeOrphan, Return, Standing
<1>7. CASE UNCHANGED vars
  BY <1>7 DEF vars, Standing
<1> QED BY <1>1, <1>2, <1>3, <1>4, <1>5, <1>6, <1>7 DEF Next

-----------------------------------------------------------------------------
(* What a model is built under *)

\* The stack a weight was remembered with is its directory's.
Waiting == \A c \in ToSet(orphans) : c.scopes = Path[Spot[c.file].dir]

\* The sidecar a model was built from is still there.
Sourced == \A m \in ToSet(models) : ~m.stub => m.slot \in DOMAIN tree.side /\ HasSidecar(m.slot)

DecidedFor(m) ==
  ~Housed(m) => m.cache = Decided(tree.cfg, Path[m.slot[1]], m.slot[2], OwnData(m).keys["cache"])

LInv == OInv /\ Standing /\ Waiting /\ Sourced /\ InnermostDecides

\* One model more at most.
LEMMA ModelsGrow ==
  ASSUME OInv, NEW m, models' = models \/ models' = Append(models, m)
  PROVE  \A n \in ToSet(models') : n \in ToSet(models) \/ n = m
<1> DEFINE u == Append(models, m)
<1>1. \A n \in ToSet(u) : n \in ToSet(models) \/ n = m
  BY Grown DEF OInv, Registered
<1> HIDE DEF u
<1>2. models' = models \/ models' = u
  BY DEF u
<1> QED BY <1>1, <1>2

\* The layers of a directory add up to what its path decides.
LEMMA UnderPath ==
  ASSUME NEW t, Lawful(t), NEW d \in Dirs, NEW slot, NEW fm
  PROVE  Configured(t.cfg, slot, fm, Path[d])["cache"] = Decided(t.cfg, Path[d], slot[2], fm.keys["cache"])
<1> DEFINE cfg == t.cfg
           sc == Path[d]
<1>1. \A s \in Dirs \cup {Global} : cfg[s].rules \in Seq(ToSet(cfg[s].rules))
  BY DEF Lawful
<1>2. sc \in Seq(Dirs \cup {Global})
  BY PathTyped
<1> HIDE DEF cfg, sc
<1>3. Configured(cfg, slot, fm, sc)["cache"] = Decided(cfg, sc, slot[2], fm.keys["cache"])
  BY <1>1, <1>2, FoldIsLookup
<1> QED BY <1>3 DEF cfg, sc

LEMMA LReadSidecar == ASSUME LInv, ReadSidecar PROVE Waiting' /\ Sourced' /\ InnermostDecides'
<1> DEFINE slot == Head(Here.files)
           fm == tree.side[slot]
           no == FALSE
           role == EffectiveRole(fm, Here.role)
<1>1. /\ pc = "walk" /\ agenda # <<>> /\ Here.files # <<>> /\ slot \notin Files
      /\ UNCHANGED <<tree, orphans>>
      /\ \/ UNCHANGED <<claims, models>>
         \/ Present(slot) /\ Build(tree, slot, fm, role, scopes, no)
  BY DEF ReadSidecar
<1>2. FrameOk(Here) /\ scopes = Path[Here.dir]
  <2>1. Chain(agenda) /\ scopes = TopOf(agenda)
    BY <1>1 DEF LInv, Standing
  <2> QED BY <1>1, <2>1, ChainTail DEF Here, TopOf
<1>3. slot \in ToSet(Listed[Here.dir]) /\ Here.dir \in Dirs
  BY <1>1, <1>2, Shrunk DEF FrameOk
<1> HIDE DEF slot
<1>4. slot[1] = Here.dir /\ slot \in DOMAIN tree.side
  <2>1. slot[1] = Here.dir
    BY <1>1, <1>3, PlacesAssumption
  <2> QED BY <1>1, <1>3, <2>1 DEF LInv, OInv, Lawful
<1>5. Waiting'
  BY <1>1 DEF LInv, Waiting
<1>6. CASE UNCHANGED <<claims, models>>
  BY <1>1, <1>5, <1>6 DEF LInv, Sourced, HasSidecar, InnermostDecides, Housed, OwnData
<1>7. CASE Present(slot) /\ Build(tree, slot, fm, role, scopes, no)
  <2>1. HasSidecar(slot)
    <3>1. tree.here \subseteq Files
      BY DEF LInv, OInv, Lawful
    <3> QED BY <1>1, <1>7, <3>1 DEF Present
  <2>2. \/ UNCHANGED <<claims, models>>
        \/ \E m : /\ m.slot = slot /\ m.stub = no
                  /\ m.cache = Configured(tree.cfg, slot, fm, scopes)["cache"]
                  /\ models' = models \/ models' = Append(models, m)
    <3> HIDE DEF fm, no, role
    <3> QED BY <1>7, Building
  <2>3. ASSUME NEW m, m.slot = slot, m.stub = no,
               m.cache = Configured(tree.cfg, slot, fm, scopes)["cache"],
               models' = models \/ models' = Append(models, m)
        PROVE  Sourced' /\ InnermostDecides'
    <3>1. ~m.stub
      BY <2>3
    <3>2. \A n \in ToSet(models') : n \in ToSet(models) \/ n = m
      BY <2>3, ModelsGrow DEF LInv
    <3>3. m.cache = Decided(tree.cfg, Path[m.slot[1]], m.slot[2], fm.keys["cache"])
      <4>1. Lawful(tree)
        BY DEF LInv, OInv
      <4>2. Configured(tree.cfg, slot, fm, Path[Here.dir])["cache"] = Decided(tree.cfg, Path[Here.dir], slot[2], fm.keys["cache"])
        <5> HIDE DEF fm
        <5> QED BY <1>3, <4>1, UnderPath
      <4> QED BY <1>2, <1>4, <2>3, <4>2
    <3>4. OwnData(m) = fm
      BY <2>3, <3>1 DEF OwnData
    <3> HIDE DEF fm
    <3>5. DecidedFor(m)
      BY <3>3, <3>4 DEF DecidedFor
    <3>6. \A n \in ToSet(models') : DecidedFor(n)
      BY <3>2, <3>5 DEF LInv, InnermostDecides, DecidedFor
    <3>7. InnermostDecides'
      BY <1>1, <3>6 DEF InnermostDecides, DecidedFor, Housed, OwnData
    <3>8. Sourced'
      BY <1>1, <1>4, <2>1, <2>3, <3>2 DEF LInv, Sourced, HasSidecar
    <3> QED BY <3>7, <3>8
  <2>4. CASE UNCHANGED <<claims, models>>
    BY <1>6, <2>4, <1>5
  <2> QED BY <1>5, <2>2, <2>3, <2>4
<1> QED BY <1>1, <1>6, <1>7

LEMMA LReadWeight == ASSUME LInv, ReadWeight PROVE Waiting' /\ Sourced' /\ InnermostDecides'
<1> DEFINE f == Head(Here.files)
           c == [file |-> f, role |-> Here.role, scopes |-> scopes]
<1>1. /\ pc = "walk" /\ agenda # <<>> /\ Here.files # <<>> /\ f \in Files /\ UNCHANGED <<tree, models>>
      /\ orphans' = orphans \/ orphans' = Append(orphans, c)
  BY DEF ReadWeight
<1>2. FrameOk(Here) /\ scopes = Path[Here.dir]
  <2>1. Chain(agenda) /\ scopes = TopOf(agenda)
    BY <1>1 DEF LInv, Standing
  <2> QED BY <1>1, <2>1, ChainTail DEF Here, TopOf
<1>3. f \in ToSet(Listed[Here.dir]) /\ Here.dir \in Dirs
  BY <1>1, <1>2, Shrunk DEF FrameOk
<1>4. c.file = f /\ c.scopes = scopes
  OBVIOUS
<1> HIDE DEF f, c
<1>5. c.scopes = Path[Spot[c.file].dir]
  BY <1>1, <1>2, <1>3, <1>4, PlacesAssumption
<1>6. \A d \in ToSet(orphans') : d \in ToSet(orphans) \/ d = c
  <2> DEFINE u == Append(orphans, c)
  <2>1. \A d \in ToSet(u) : d \in ToSet(orphans) \/ d = c
    BY Grown DEF LInv, OInv, Remembered
  <2> HIDE DEF u
  <2>2. orphans' = orphans \/ orphans' = u
    BY <1>1 DEF u
  <2> QED BY <2>1, <2>2
<1>7. Waiting'
  BY <1>5, <1>6 DEF LInv, Waiting
<1> QED BY <1>1, <1>7 DEF LInv, Sourced, HasSidecar, InnermostDecides, Housed, OwnData

LEMMA LServeOrphan == ASSUME LInv, ServeOrphan PROVE Waiting' /\ Sourced' /\ InnermostDecides'
<1> DEFINE c == Head(orphans)
           f == c.file
           t == Linked(f)
           slot == Home(t, f)
           yes == TRUE
           sc == ScopesOf(c)
<1>1. /\ orphans # <<>> /\ orphans' = Tail(orphans)
      /\ \/ UNCHANGED <<tree, claims, models>>
         \/ Build(t, slot, NoData, c.role, sc, yes) /\ tree' = Stubbed(t, f)
  BY DEF ServeOrphan
<1>2. sc = c.scopes
  BY DEF ScopesOf
<1> HIDE DEF c, sc
<1>3. c \in ToSet(orphans) /\ ToSet(orphans') \subseteq ToSet(orphans)
  BY <1>1, Shrunk DEF LInv, OInv, Remembered, c
<1>4. f \in tree.here /\ IsWeight(f) /\ sc = Path[Spot[f].dir]
  BY <1>2, <1>3 DEF LInv, OInv, Remembered, Waiting
<1> HIDE DEF f
<1>5. Waiting'
  BY <1>3 DEF LInv, Waiting
<1>6. CASE UNCHANGED <<tree, claims, models>>
  BY <1>5, <1>6 DEF LInv, Sourced, HasSidecar, InnermostDecides, Housed, OwnData
<1>7. CASE Build(t, slot, NoData, c.role, sc, yes) /\ tree' = Stubbed(t, f)
  <2>1. /\ Lawful(t) /\ tree.here \subseteq t.here /\ t.real = tree.real /\ t.cfg = tree.cfg
        /\ tree'.real = tree.real /\ tree'.cfg = tree.cfg /\ DOMAIN tree'.side = DOMAIN tree.side
        /\ \A s \in DOMAIN tree.side : tree.side[s] # Absent => tree'.side[s] = tree.side[s]
    BY <1>4, <1>7, Making DEF LInv, OInv
  <2> HIDE DEF t
  <2>2. \A n \in ToSet(models) : /\ ~n.stub => n.slot \in DOMAIN tree'.side /\ HasSidecar(n.slot)'
                                 /\ OwnData(n)' = OwnData(n) /\ (Housed(n)' <=> Housed(n))
    <3> TAKE n \in ToSet(models)
    <3>1. ~n.stub => n.slot \in DOMAIN tree.side /\ tree.side[n.slot] # Absent
      BY DEF LInv, Sourced, HasSidecar
    <3> QED BY <2>1, <3>1 DEF HasSidecar, OwnData, Housed
  <2>3. \A n \in ToSet(models) : DecidedFor(n)'
    <3> TAKE n \in ToSet(models)
    <3>1. DecidedFor(n)
      BY DEF LInv, InnermostDecides, DecidedFor
    <3> QED BY <2>1, <2>2, <3>1 DEF DecidedFor
  <2>4. \/ UNCHANGED <<claims, models>>
        \/ \E m : /\ m.slot = slot /\ m.stub = yes
                  /\ m.cache = Configured(t.cfg, slot, NoData, sc)["cache"]
                  /\ models' = models \/ models' = Append(models, m)
    <3> HIDE DEF slot, yes
    <3> QED BY <1>7, Building
  <2>5. CASE UNCHANGED <<claims, models>>
    <3>1. Sourced'
      BY <2>2, <2>5 DEF Sourced
    <3>2. InnermostDecides'
      BY <2>3, <2>5 DEF InnermostDecides, DecidedFor
    <3> QED BY <1>5, <3>1, <3>2
  <2>6. ASSUME NEW m, m.slot = slot, m.stub = yes,
               m.cache = Configured(t.cfg, slot, NoData, sc)["cache"],
               models' = models \/ models' = Append(models, m)
        PROVE  Sourced' /\ InnermostDecides'
    <3>1. m.stub
      BY <2>6
    <3>2. \A n \in ToSet(models') : n \in ToSet(models) \/ n = m
      BY <2>6, ModelsGrow DEF LInv
    <3>3. f \in Files /\ Spot[f].dir \in Dirs
      BY <1>4, RefsAssumption DEF LInv, OInv, Lawful, SpotRecord
    <3>4. PICK g \in t.here : slot = SlotOf(g) /\ t.real[g] = t.real[f]
      <4>1. f \in t.here
        BY <1>4, <2>1
      <4> QED BY <1>4, <2>1, <4>1, HomeIsIts
    <3>5. DecidedFor(m)'
      <4>1. CASE Spot[f].link # NoFile
        <5>1. g \in Files
          BY <2>1, <3>4 DEF Lawful
        <5>2. Housed(m)'
          BY <2>1, <2>6, <3>1, <3>3, <3>4, <4>1, <5>1 DEF Housed, SlotOf
        <5> QED BY <5>2 DEF DecidedFor
      <4>2. CASE Spot[f].link = NoFile
        <5>1. slot = SlotOf(f)
          BY <4>2 DEF Home
        <5>2. m.slot[1] = Spot[f].dir
          BY <2>6, <5>1 DEF SlotOf
        <5>3. Configured(t.cfg, slot, NoData, Path[Spot[f].dir])["cache"]
                = Decided(t.cfg, Path[Spot[f].dir], slot[2], NoData.keys["cache"])
          <6> DEFINE d == Spot[f].dir
                     fm == NoData
          <6>1. d \in Dirs
            BY <3>3
          <6> HIDE DEF slot, d, fm
          <6>2. Configured(t.cfg, slot, fm, Path[d])["cache"] = Decided(t.cfg, Path[d], slot[2], fm.keys["cache"])
            BY <2>1, <6>1, UnderPath
          <6> QED BY <6>2 DEF d, fm
        <5>4. OwnData(m)' = NoData
          BY <3>1 DEF OwnData
        <5> HIDE DEF slot
        <5>5. m.cache = Decided(tree.cfg, Path[m.slot[1]], m.slot[2], NoData.keys["cache"])
          BY <1>4, <2>1, <2>6, <5>2, <5>3
        <5> QED BY <2>1, <5>4, <5>5 DEF DecidedFor
      <4> QED BY <4>1, <4>2
    <3>6. InnermostDecides'
      BY <2>3, <3>2, <3>5 DEF InnermostDecides, DecidedFor
    <3>7. Sourced'
      BY <2>2, <3>1, <3>2 DEF Sourced
    <3> QED BY <3>6, <3>7
  <2> QED BY <1>5, <2>4, <2>5, <2>6
<1> QED BY <1>1, <1>6, <1>7

LEMMA LInductive == LInv /\ [Next]_vars => LInv'
<1> SUFFICES ASSUME LInv, [Next]_vars PROVE LInv'
  OBVIOUS
<1>1. OInv' /\ Standing'
  BY OInductive, SInductive DEF LInv
<1>2. CASE Begin
  <2>1. models' = <<>> /\ orphans' = <<>> /\ ToSet(<<>>) = {}
    BY <1>2 DEF Begin, ToSet
  <2>2. ToSet(models') = {} /\ ToSet(orphans') = {}
    BY <2>1
  <2> QED BY <1>1, <2>2 DEF LInv, Waiting, Sourced, InnermostDecides
<1>3. CASE ReadSidecar \/ ReadWeight \/ ServeOrphan
  BY <1>1, <1>3, LReadSidecar, LReadWeight, LServeOrphan DEF LInv
<1>4. CASE EnterRoot \/ Descend \/ Leave
  BY <1>1, <1>4 DEF EnterRoot, Descend, Leave, LInv, Waiting, Sourced, HasSidecar, InnermostDecides, Housed, OwnData
<1>5. CASE EndWalk \/ Return
  BY <1>1, <1>5 DEF EndWalk, Return, LInv, Waiting, Sourced, HasSidecar, InnermostDecides, Housed, OwnData
<1>6. CASE UNCHANGED vars
  BY <1>1, <1>6 DEF vars, LInv, Waiting, Sourced, HasSidecar, InnermostDecides, Housed, OwnData
<1> QED BY <1>2, <1>3, <1>4, <1>5, <1>6 DEF Next

\* Every model is configured by the scopes of its own directory, inner over
\* outer over global, in every tree of directories, layers and rules, whatever
\* other directories the walk opened in between and however late its weight was
\* served.
THEOREM InnermostLayerDecides == Spec => []InnermostDecides
<1>1. Init => LInv
  <2> SUFFICES ASSUME Init PROVE LInv
    OBVIOUS
  <2>1. models = <<>> /\ orphans = <<>> /\ ToSet(<<>>) = {} /\ pc = "idle"
    BY DEF Init, ToSet
  <2>2. ToSet(models) = {} /\ ToSet(orphans) = {}
    BY <2>1
  <2> QED BY <2>1, <2>2, OInitially DEF LInv, Standing, Waiting, Sourced, InnermostDecides
<1>2. LInv => InnermostDecides
  BY DEF LInv
<1> QED BY <1>1, <1>2, LInductive, PTL DEF Spec

-----------------------------------------------------------------------------
(* What the walk has come by, and what is still ahead of it *)

\* A weight that nothing but a sidecar or a claim may keep from being served.
Eligible(f) ==
  /\ Reached(Spot[f].dir) /\ f \notin tree.ignored /\ Spot[f].comp = "no"
  /\ Spot[f].ext \in {"gguf", "safetensors"}
  /\ ~(Spot[f].ext = "safetensors" /\ DirRole(Spot[f].dir) = "image")
  /\ Spot[f].link = NoFile

\* The file itself, or a directory above it, that an open directory still lists.
Pending(fr, f, p) == f \in ToSet(fr.files) \/ \E k \in 3 .. Len(p) : p[k] \in ToSet(fr.dirs)

Ahead(f) ==
  LET p == Path[Spot[f].dir]
  IN p[2] \in ToSet(roots) \/ \E fr \in ToSet(agenda) : Pending(fr, f, p)

Met(f) ==
  \/ Twins(SlotOf(f)) \/ HasSidecar(SlotOf(f)) \/ Claimed(f)
  \/ \E c \in ToSet(orphans) : c.file = f

\* No weight is left behind.
Covered == pc # "idle" => \A f \in tree.here : Eligible(f) => Met(f) \/ (pc = "walk" /\ Ahead(f))

Drained == Done => orphans = <<>>

\* The role of an open directory is the one its path gives it.
RoleRight(fr) == fr.role = DirRole(fr.dir) /\ (fr.role = Unset => fr.dir \in ToSet(Roots))

RolesRight == pc = "walk" => \A fr \in ToSet(agenda) : RoleRight(fr)

NInv == OInv /\ Standing /\ RolesRight /\ Covered /\ Drained

\* A path leads from a root through directories inside each other.
Shape(p, d) ==
  /\ p \in Seq(Dirs \cup {Global}) /\ Len(p) >= 2 /\ p[2] \in ToSet(Roots) /\ p[Len(p)] = d
  /\ \A k \in 3 .. Len(p) : p[k] \in Dirs /\ p[k] \notin ToSet(Roots) /\ p[k - 1] \in Dirs /\ Parent[p[k]] = p[k - 1]

LEMMA PathShape == ASSUME NEW e \in Dirs, Path[e] # <<>> PROVE Shape(Path[e], e)
<1> DEFINE S == {d \in Dirs : Path[d] # <<>> /\ ~Shape(Path[d], d)}
<1> SUFFICES ASSUME S # {} PROVE FALSE
  OBVIOUS
<1>1. PICK d \in S : Parent[d] \notin S
  <2>1. S \in SUBSET Dirs
    OBVIOUS
  <2> HIDE DEF S
  <2> QED BY <2>1, PlacesAssumption
<1>2. d \in Dirs /\ Path[d] # <<>> /\ ~Shape(Path[d], d)
  OBVIOUS
<1>3. CASE d \in ToSet(Roots)
  <2>1. Path[d] = <<Global, d>>
    BY <1>2, <1>3, PathAt DEF Below
  <2>2. Shape(<<Global, d>>, d)
    BY <1>2, <1>3 DEF Shape
  <2> QED BY <1>2, <2>1, <2>2
<1>4. CASE d \notin ToSet(Roots)
  <2> DEFINE above == Path[Parent[d]]
  <2>1. Parent[d] \in Dirs /\ above # <<>> /\ Path[d] = Append(above, d)
    BY <1>2, <1>4, PathAt DEF Below
  <2>2. Shape(above, Parent[d])
    BY <1>1, <2>1
  <2> HIDE DEF above
  <2>3. above \in Seq(Dirs \cup {Global}) /\ Len(above) >= 2 /\ Len(above) \in Nat /\ above[Len(above)] = Parent[d]
    BY <2>2 DEF Shape
  <2> DEFINE p == Append(above, d)
  <2>4. /\ p \in Seq(Dirs \cup {Global}) /\ Len(p) = Len(above) + 1 /\ p[Len(p)] = d
        /\ \A k \in 1 .. Len(above) : p[k] = above[k]
    BY <1>2, <2>3
  <2> HIDE DEF p
  <2>5. p[2] \in ToSet(Roots)
    BY <2>2, <2>3, <2>4 DEF Shape
  <2>6. ASSUME NEW k \in 3 .. Len(p)
        PROVE  p[k] \in Dirs /\ p[k] \notin ToSet(Roots) /\ p[k - 1] \in Dirs /\ Parent[p[k]] = p[k - 1]
    <3>1. CASE k = Len(p)
      <4>1. p[k] = d /\ k - 1 = Len(above) /\ p[k - 1] = Parent[d]
        BY <2>3, <2>4, <3>1
      <4> QED BY <1>2, <1>4, <2>1, <4>1
    <3>2. CASE k # Len(p)
      <4>1. k \in 3 .. Len(above) /\ k - 1 \in 1 .. Len(above)
        BY <2>3, <2>4, <3>2
      <4>2. p[k] = above[k] /\ p[k - 1] = above[k - 1]
        BY <2>3, <2>4, <4>1
      <4> QED BY <2>2, <4>1, <4>2 DEF Shape
    <3> QED BY <3>1, <3>2
  <2>7. Shape(p, d)
    BY <2>3, <2>4, <2>5, <2>6 DEF Shape
  <2> QED BY <1>2, <2>1, <2>7 DEF p
<1> QED BY <1>3, <1>4

LEMMA ReachedPath ==
  ASSUME NEW f \in Files, Eligible(f)
  PROVE  Shape(Path[Spot[f].dir], Spot[f].dir) /\ Spot[f].dir \in Dirs
<1>1. Spot[f].dir \in Dirs
  BY RefsAssumption DEF SpotRecord
<1>2. Path[Spot[f].dir] # <<>>
  BY DEF Eligible, Reached
<1> QED BY <1>1, <1>2, PathShape

\* Entering a directory on the way to a file, the file or the next directory on
\* the way is ahead.
LEMMA OnTheWay ==
  ASSUME NEW f \in Files, Eligible(f), NEW k \in 2 .. Len(Path[Spot[f].dir]), NEW role
  PROVE  Pending(Frame(Path[Spot[f].dir][k], role), f, Path[Spot[f].dir])
<1> DEFINE p == Path[Spot[f].dir]
<1>1. Shape(p, Spot[f].dir)
  BY ReachedPath
<1>2. k \in 2 .. Len(p)
  OBVIOUS
<1> HIDE DEF p
<1>3. Len(p) \in Nat /\ p[Len(p)] = Spot[f].dir
  BY <1>1 DEF Shape
<1>4. CASE k = Len(p)
  <2>1. f \in ToSet(Listed[p[k]])
    BY <1>3, <1>4, PlacesAssumption
  <2> QED BY <2>1 DEF Pending, Frame, p
<1>5. CASE k # Len(p)
  <2>1. k + 1 \in 3 .. Len(p) /\ (k + 1) - 1 = k
    BY <1>2, <1>3, <1>5
  <2>2. p[k + 1] \in Dirs /\ p[k + 1] \notin ToSet(Roots) /\ p[k] \in Dirs /\ Parent[p[k + 1]] = p[k]
    BY <1>1, <2>1 DEF Shape
  <2>3. p[k + 1] \in ToSet(Children[p[k]])
    BY <2>2, PlacesAssumption
  <2> QED BY <2>1, <2>3 DEF Pending, Frame, p
<1> QED BY <1>4, <1>5

LEMMA HeadOrTail ==
  ASSUME NEW s, IsList(s), s # <<>>
  PROVE  \A x \in ToSet(s) : x = Head(s) \/ x \in ToSet(Tail(s))
<1> DEFINE u == Tail(s)
<1>1. /\ Len(s) \in Nat \ {0} /\ Len(u) = Len(s) - 1 /\ Head(s) = s[1] /\ DOMAIN s = 1 .. Len(s)
      /\ DOMAIN u = 1 .. Len(u) /\ \A k \in 1 .. Len(u) : u[k] = s[k + 1]
  <2> DEFINE X == ToSet(s)
  <2>1. s \in Seq(X)
    BY DEF IsList
  <2> HIDE DEF X
  <2> QED BY <2>1
<1> HIDE DEF u
<1>2. \A k \in DOMAIN s : s[k] = Head(s) \/ s[k] \in ToSet(u)
  <2> TAKE k \in DOMAIN s
  <2>1. CASE k # 1
    <3>1. k - 1 \in 1 .. Len(u) /\ (k - 1) + 1 = k
      BY <1>1, <2>1
    <3>2. u[k - 1] = s[k]
      BY <1>1, <3>1
    <3> QED BY <1>1, <3>1, <3>2 DEF ToSet
  <2> QED BY <1>1, <2>1
<1> QED BY <1>2 DEF ToSet, u

LEMMA PushedSet == ASSUME NEW s, IsList(s), NEW x PROVE ToSet(<<x>> \o s) = {x} \cup ToSet(s)
<1> DEFINE u == <<x>> \o s
<1>1. /\ u[1] = x /\ DOMAIN u = 1 .. Len(s) + 1 /\ \A i \in 1 .. Len(s) : u[i + 1] = s[i]
      /\ DOMAIN s = 1 .. Len(s) /\ Len(s) \in Nat
  BY Pushed
<1> HIDE DEF u
<1>2. \A i \in DOMAIN u : u[i] = x \/ u[i] \in ToSet(s)
  <2> TAKE i \in DOMAIN u
  <2>1. CASE i # 1
    <3>1. i - 1 \in 1 .. Len(s) /\ (i - 1) + 1 = i
      BY <1>1, <2>1
    <3>2. u[i] = s[i - 1]
      BY <1>1, <3>1
    <3> QED BY <1>1, <3>1, <3>2 DEF ToSet
  <2> QED BY <1>1, <2>1
<1>3. x \in ToSet(u) /\ \A i \in DOMAIN s : s[i] \in ToSet(u)
  <2>1. 1 \in DOMAIN u /\ \A i \in DOMAIN s : i + 1 \in DOMAIN u
    BY <1>1
  <2> QED BY <1>1, <2>1 DEF ToSet
<1> QED BY <1>2, <1>3 DEF ToSet, u

\* A step of the walk that loses nothing that is ahead.
LEMMA CoveredStays ==
  ASSUME OInv, Covered, pc = "walk", pc' = "walk", tree' = tree, claims \subseteq claims',
         \A c \in ToSet(orphans) : c \in ToSet(orphans'),
         \A f \in tree.here : Eligible(f) /\ Ahead(f) => Ahead(f)' \/ Met(f)'
  PROVE  Covered'
<1>1. \A f : Eligible(f)' <=> Eligible(f)
  BY DEF Eligible
<1>2. \A f : Met(f) => Met(f)'
  BY DEF Met, Twins, IsWeight, HasSidecar, Claimed
<1> QED BY <1>1, <1>2 DEF Covered

\* The first frame is replaced by others.
LEMMA Replaced ==
  ASSUME IsList(agenda), agenda # <<>>, roots' = roots, NEW Z, Z = ToSet(agenda'), ToSet(Tail(agenda)) \subseteq Z,
         NEW f, \A p : Pending(Here, f, p) /\ p = Path[Spot[f].dir] => \E fr \in Z : Pending(fr, f, p),
         Ahead(f)
  PROVE  Ahead(f)'
<1> DEFINE p == Path[Spot[f].dir]
<1>1. p[2] \in ToSet(roots) \/ \E fr \in ToSet(agenda) : Pending(fr, f, p)
  BY DEF Ahead
<1>2. \A fr \in ToSet(agenda) : fr = Here \/ fr \in ToSet(Tail(agenda))
  BY HeadOrTail DEF Here
<1> HIDE DEF p
<1>3. p[2] \in ToSet(roots') \/ \E fr \in ToSet(agenda') : Pending(fr, f, p)
  <2>1. CASE \E fr \in ToSet(agenda) : Pending(fr, f, p)
    <3>1. PICK fr \in ToSet(agenda) : Pending(fr, f, p)
      BY <2>1
    <3>2. CASE fr = Here
      BY <3>1, <3>2 DEF p
    <3>3. CASE fr # Here
      BY <1>2, <3>1, <3>3
    <3> QED BY <3>2, <3>3
  <2> QED BY <1>1, <2>1
<1> QED BY <1>3 DEF Ahead, p

LEMMA NRead == ASSUME NInv, ReadSidecar \/ ReadWeight, OInv' PROVE Covered' /\ RolesRight'
<1> DEFINE e == Head(Here.files)
           fr == [Here EXCEPT !.files = Tail(@)]
<1>1. /\ pc = "walk" /\ agenda # <<>> /\ Here.files # <<>> /\ agenda' = <<fr>> \o Tail(agenda)
      /\ pc' = pc /\ roots' = roots /\ tree' = tree
      /\ \/ e \notin Files /\ orphans' = orphans
         \/ /\ e \in Files /\ claims' = claims
            /\ orphans' = IF Present(e) /\ Candidate(e, Here.role)
                          THEN Append(orphans, [file |-> e, role |-> Here.role, scopes |-> scopes]) ELSE orphans
  BY DEF ReadSidecar, ReadWeight, NextFile
<1>2. claims \subseteq claims'
  <2>1. CASE ReadWeight
    BY <2>1 DEF ReadWeight
  <2>2. CASE ReadSidecar
    <3> DEFINE slot == Head(Here.files)
               fm == tree.side[slot]
               role == EffectiveRole(fm, Here.role)
               no == FALSE
    <3>1. UNCHANGED <<claims, models>> \/ Build(tree, slot, fm, role, scopes, no)
      BY <2>2 DEF ReadSidecar
    <3> HIDE DEF slot, fm, role, no
    <3>2. claims' = claims \/ \E m : claims' = claims \cup ClaimsOf(m)
      BY <3>1, Building
    <3> QED BY <3>2
  <2> QED BY <2>1, <2>2
<1>3. Chain(agenda)
  BY <1>1 DEF NInv, Standing
<1>4. FrameOk(Here) /\ Here = agenda[1] /\ IsList(agenda) /\ Here \in ToSet(agenda)
  <2>1. FrameOk(Here) /\ Here = agenda[1] /\ IsList(agenda)
    BY <1>1, <1>3, ChainTail DEF Here, Chain
  <2> QED BY <1>1, <2>1, Shrunk DEF Here
<1>5. IsList(Tail(agenda)) /\ ToSet(Tail(agenda)) \subseteq ToSet(agenda)
  BY <1>1, <1>4, Shrunk
<1>6. fr.dir = Here.dir /\ fr.dirs = Here.dirs /\ fr.files = Tail(Here.files) /\ fr.role = Here.role
  BY <1>1
<1> HIDE DEF fr, e
<1>7. ToSet(agenda') = {fr} \cup ToSet(Tail(agenda))
  BY <1>1, <1>5, PushedSet
<1>8. RolesRight'
  BY <1>1, <1>4, <1>5, <1>6, <1>7 DEF NInv, RolesRight, RoleRight
<1>9. IsList(orphans) /\ \A c \in ToSet(orphans) : c \in ToSet(orphans')
  <2> DEFINE x == [file |-> e, role |-> Here.role, scopes |-> scopes]
             u == Append(orphans, x)
  <2>1. IsList(orphans)
    BY DEF NInv, OInv, Remembered
  <2>2. ToSet(u) = ToSet(orphans) \cup {x}
    BY <2>1, Grown
  <2>3. orphans' = orphans \/ orphans' = u
    BY <1>1
  <2> HIDE DEF u, x
  <2> QED BY <2>1, <2>2, <2>3
<1>10. ASSUME NEW f \in tree.here, Eligible(f), Ahead(f) PROVE Ahead(f)' \/ Met(f)'
  <2> DEFINE Z == ToSet(agenda')
  <2>1. f \in Files
    BY <1>10 DEF NInv, OInv, Lawful
  <2>2. CASE f # e \/ f \notin ToSet(Here.files)
    <3>1. IsList(Here.files)
      BY <1>4 DEF FrameOk
    <3>2. \A g \in ToSet(Here.files) : g = e \/ g \in ToSet(fr.files)
      BY <1>1, <1>6, <3>1, HeadOrTail DEF e
    <3>3. \A p : Pending(Here, f, p) => Pending(fr, f, p)
      BY <1>6, <2>2, <3>2 DEF Pending
    <3>4. fr \in Z /\ ToSet(Tail(agenda)) \subseteq Z
      BY <1>7
    <3> HIDE DEF Z
    <3>5. \A p : Pending(Here, f, p) /\ p = Path[Spot[f].dir] => \E x \in Z : Pending(x, f, p)
      BY <3>3, <3>4
    <3>6. Z = ToSet(agenda')
      BY DEF Z
    <3>7. Ahead(f)'
      BY <1>1, <1>4, <1>10, <3>4, <3>5, <3>6, Replaced
    <3> QED BY <3>7
  <2>3. CASE f = e /\ f \in ToSet(Here.files)
    <3>1. Spot[f].dir = Here.dir
      BY <1>4, <2>1, <2>3, PlacesAssumption DEF FrameOk
    <3>2. Here.role = DirRole(Here.dir)
      BY <1>1, <1>4 DEF NInv, RolesRight, RoleRight
    <3>3. CASE HasSidecar(SlotOf(f))
      BY <1>1, <3>3 DEF Met, HasSidecar
    <3>4. CASE ~HasSidecar(SlotOf(f))
      <4> DEFINE x == [file |-> e, role |-> Here.role, scopes |-> scopes]
                 u == Append(orphans, x)
      <4>1. Present(e) /\ Candidate(e, Here.role)
        BY <1>10, <2>3, <3>1, <3>2, <3>4 DEF Eligible, Present, Candidate
      <4>2. orphans' = u
        BY <1>1, <2>1, <2>3, <4>1
      <4>3. ToSet(u) = ToSet(orphans) \cup {x}
        BY <1>9, Grown
      <4>4. x.file = f
        BY <2>3
      <4> HIDE DEF u, x
      <4>5. x \in ToSet(orphans')
        BY <4>2, <4>3
      <4>6. Met(f)'
        BY <4>4, <4>5 DEF Met
      <4> QED BY <4>6
    <3> QED BY <3>3, <3>4
  <2> QED BY <2>2, <2>3
<1>11. Covered'
  BY <1>1, <1>2, <1>9, <1>10, CoveredStays DEF NInv
<1> QED BY <1>8, <1>11

LEMMA NEnterRoot == ASSUME NInv, EnterRoot PROVE Covered' /\ RolesRight'
<1> DEFINE r == Head(roots)
           fr == Frame(r, Unset)
<1>1. /\ pc = "walk" /\ agenda = <<>> /\ roots # <<>> /\ agenda' = <<fr>> /\ roots' = Tail(roots)
      /\ UNCHANGED <<tree, pc, claims, orphans, models>>
  BY DEF EnterRoot
<1>2. IsList(roots) /\ r \in ToSet(roots) /\ r \in ToSet(Roots)
  <2>1. IsList(roots) /\ ToSet(roots) \subseteq ToSet(Roots)
    BY <1>1 DEF NInv, Standing
  <2> QED BY <1>1, <2>1, Shrunk
<1>3. fr \in ToSet(agenda') /\ \A x \in ToSet(agenda') : x = fr
  BY <1>1 DEF ToSet
<1>4. fr.dir = r /\ fr.role = Unset
  BY DEF Frame
<1>5. RolesRight'
  <2>1. DirRole(r) = Unset
    <3>1. Path[r] = Append(<<Global>>, r)
      BY <1>2, PathOfRoot
    <3>2. Len(Append(<<Global>>, r)) = 2
      OBVIOUS
    <3> QED BY <3>1, <3>2 DEF DirRole
  <2> HIDE DEF r, fr
  <2> QED BY <1>2, <1>3, <1>4, <2>1 DEF RolesRight, RoleRight
<1>6. ASSUME NEW f \in tree.here, Eligible(f), Ahead(f) PROVE Ahead(f)' \/ Met(f)'
  <2> DEFINE p == Path[Spot[f].dir]
  <2>1. f \in Files
    BY DEF NInv, OInv, Lawful
  <2>2. Len(p) \in Nat /\ Len(p) >= 2
    BY <1>6, <2>1, ReachedPath DEF Shape
  <2>3. p[2] \in ToSet(roots)
    <3>1. ToSet(agenda) = {}
      BY <1>1 DEF ToSet
    <3> QED BY <1>6, <3>1 DEF Ahead
  <2>4. CASE p[2] = r
    <3>1. 2 \in 2 .. Len(p)
      BY <2>2
    <3>2. Pending(Frame(p[2], Unset), f, p)
      BY <1>6, <2>1, <3>1, OnTheWay
    <3>3. Pending(fr, f, p)
      BY <2>4, <3>2
    <3> HIDE DEF fr, p
    <3>4. \E x \in ToSet(agenda') : Pending(x, f, p)
      BY <1>3, <3>3
    <3> QED BY <3>4 DEF Ahead, p
  <2>5. CASE p[2] # r
    <3> HIDE DEF p
    <3>1. p[2] \in ToSet(roots')
      BY <1>1, <1>2, <2>3, <2>5, HeadOrTail
    <3> QED BY <3>1 DEF Ahead, p
  <2> QED BY <2>4, <2>5
<1>7. Covered'
  BY <1>1, <1>6, CoveredStays DEF NInv
<1> QED BY <1>5, <1>7

LEMMA NDescend == ASSUME NInv, Descend PROVE Covered' /\ RolesRight'
<1> DEFINE d == Head(Here.dirs)
           moved == [Here EXCEPT !.dirs = Tail(@)]
           rest == <<moved>> \o Tail(agenda)
           role == ChildRole(Here.role, d)
           fr == Frame(d, role)
<1>1. /\ pc = "walk" /\ agenda # <<>> /\ Here.files = <<>> /\ Here.dirs # <<>>
      /\ IF role = Unset THEN agenda' = rest ELSE agenda' = <<fr>> \o rest
      /\ UNCHANGED <<tree, pc, roots, claims, orphans, models>>
  BY DEF Descend
<1>2. Chain(agenda)
  BY <1>1 DEF NInv, Standing
<1>3. FrameOk(Here) /\ Here = agenda[1] /\ IsList(agenda) /\ Here \in ToSet(agenda)
  <2>1. FrameOk(Here) /\ Here = agenda[1] /\ IsList(agenda)
    BY <1>1, <1>2, ChainTail DEF Here, Chain
  <2> QED BY <1>1, <2>1, Shrunk DEF Here
<1>4. IsList(Tail(agenda)) /\ ToSet(Tail(agenda)) \subseteq ToSet(agenda)
  BY <1>1, <1>3, Shrunk
<1>5. moved.dir = Here.dir /\ moved.dirs = Tail(Here.dirs) /\ moved.files = Here.files /\ moved.role = Here.role
  BY <1>1
<1> HIDE DEF moved
<1>6. ToSet(rest) = {moved} \cup ToSet(Tail(agenda)) /\ IsList(rest)
  BY <1>4, PushedSet, Pushed
<1> HIDE DEF rest
<1>7. fr.dir = d /\ fr.role = role
  BY DEF Frame
<1>8. /\ d \in Dirs /\ d \in ToSet(Children[Here.dir]) /\ d \notin ToSet(Roots) /\ Path[d] = Append(Path[Here.dir], d)
      /\ Here.dir \in Dirs /\ Path[Here.dir] # <<>> /\ Path[Here.dir] \in Seq(Dirs \cup {Global}) /\ Parent[d] = Here.dir
  <2>1. d \in ToSet(Here.dirs) /\ Here.dir \in Dirs /\ Path[Here.dir] # <<>>
    BY <1>1, <1>3, Shrunk DEF FrameOk
  <2> HIDE DEF d
  <2>2. d \in ToSet(Children[Here.dir])
    BY <1>3, <2>1 DEF FrameOk
  <2>3. d \in Dirs /\ Path[d] = Append(Path[Here.dir], d)
    BY <2>1, <2>2, PathOfChild
  <2>4. d \notin ToSet(Roots) /\ Parent[d] = Here.dir
    BY <2>1, <2>2, PlacesAssumption
  <2>5. Path[Here.dir] \in Seq(Dirs \cup {Global})
    BY <2>1, PathTyped
  <2> QED BY <2>1, <2>2, <2>3, <2>4, <2>5
<1>9. RoleRight(Here)
  BY <1>1, <1>3 DEF NInv, RolesRight
<1>10. IsList(Here.dirs) /\ \A c \in ToSet(Here.dirs) : c = d \/ c \in ToSet(moved.dirs)
  BY <1>1, <1>3, <1>5, HeadOrTail DEF FrameOk
<1> HIDE DEF fr, d
<1>11. CASE role = Unset
  <2>1. agenda' = rest
    BY <1>1, <1>11
  <2>2. RolesRight'
    BY <1>1, <1>3, <1>4, <1>5, <1>6, <2>1 DEF NInv, RolesRight, RoleRight
  <2>3. Here.role = Unset /\ d \notin DOMAIN DirRoles /\ Here.dir \in ToSet(Roots)
    BY <1>9, <1>11, DiscoveryAssumption DEF ChildRole, RoleRight
  <2>4. ASSUME NEW f \in tree.here, Eligible(f), Ahead(f) PROVE Ahead(f)' \/ Met(f)'
    <3> DEFINE q == Path[Spot[f].dir]
               Z == ToSet(agenda')
    <3>1. f \in Files
      BY DEF NInv, OInv, Lawful
    <3>2. Shape(q, Spot[f].dir) /\ (Len(q) > 2 => q[3] \in DOMAIN DirRoles)
      BY <2>4, <3>1, ReachedPath DEF Eligible, Reached
    <3> HIDE DEF q
    <3>3. \A k \in 3 .. Len(q) : q[k] # d
      <4> SUFFICES ASSUME NEW k \in 3 .. Len(q), q[k] = d PROVE FALSE
        OBVIOUS
      <4>1. q[k - 1] = Here.dir
        BY <1>8, <3>2 DEF Shape
      <4>2. k = 3
        <5> SUFFICES ASSUME k # 3 PROVE FALSE
          OBVIOUS
        <5>1. k - 1 \in 3 .. Len(q)
          BY <3>2 DEF Shape
        <5>2. q[k - 1] \notin ToSet(Roots)
          BY <3>2, <5>1 DEF Shape
        <5> QED BY <2>3, <4>1, <5>2
      <4>3. Len(q) > 2
        BY <3>2 DEF Shape
      <4> QED BY <2>3, <3>2, <4>2, <4>3
    <3>4. Pending(Here, f, q) => Pending(moved, f, q)
      BY <1>5, <1>10, <3>3 DEF Pending
    <3>5. moved \in Z /\ ToSet(Tail(agenda)) \subseteq Z /\ Z = ToSet(agenda')
      BY <1>6, <2>1
    <3> HIDE DEF Z
    <3>6. \A p : Pending(Here, f, p) /\ p = Path[Spot[f].dir] => \E x \in Z : Pending(x, f, p)
      BY <3>4, <3>5 DEF q
    <3>7. Ahead(f)'
      BY <1>1, <1>3, <2>4, <3>5, <3>6, Replaced
    <3> QED BY <3>7
  <2>5. Covered'
    BY <1>1, <2>4, CoveredStays DEF NInv
  <2> QED BY <2>2, <2>5
<1>12. CASE role # Unset
  <2>1. agenda' = <<fr>> \o rest
    BY <1>1, <1>12
  <2>2. ToSet(agenda') = {fr, moved} \cup ToSet(Tail(agenda))
    BY <1>6, <2>1, PushedSet
  <2>3. RoleRight(fr)
    <3> DEFINE p == Path[Here.dir]
    <3>1. Len(p) \in Nat /\ Len(Append(p, d)) = Len(p) + 1 /\ \A k \in 1 .. Len(p) : Append(p, d)[k] = p[k]
      BY <1>8
    <3>2. Append(p, d)[Len(p) + 1] = d
      BY <1>8
    <3>3. CASE Here.role # Unset
      <4>1. role = Here.role /\ Len(p) > 2 /\ Here.role = DirRoles[p[3]]
        BY <1>9, <3>3 DEF ChildRole, RoleRight, DirRole
      <4>2. Path[d][3] = p[3] /\ Len(Path[d]) > 2
        BY <1>8, <3>1, <4>1
      <4>3. DirRole(d) = role
        BY <4>1, <4>2 DEF DirRole
      <4> QED BY <1>7, <1>12, <4>3 DEF RoleRight
    <3>4. CASE Here.role = Unset
      <4>1. d \in DOMAIN DirRoles /\ role = DirRoles[d] /\ Here.dir \in ToSet(Roots)
        BY <1>9, <1>12, <3>4 DEF ChildRole, RoleRight
      <4>2. p = Append(<<Global>>, Here.dir)
        BY <4>1, PathOfRoot
      <4>3. Len(p) = 2
        BY <4>2
      <4>4. Len(Path[d]) = 3 /\ Path[d][3] = d
        BY <1>8, <3>1, <3>2, <4>3
      <4>5. DirRole(d) = role
        BY <4>1, <4>4 DEF DirRole
      <4> QED BY <1>7, <1>12, <4>5 DEF RoleRight
    <3> QED BY <3>3, <3>4
  <2>4. RolesRight'
    BY <1>1, <1>4, <1>5, <1>9, <2>2, <2>3 DEF NInv, RolesRight, RoleRight
  <2>5. ASSUME NEW f \in tree.here, Eligible(f), Ahead(f) PROVE Ahead(f)' \/ Met(f)'
    <3> DEFINE q == Path[Spot[f].dir]
               Z == ToSet(agenda')
    <3>1. f \in Files
      BY DEF NInv, OInv, Lawful
    <3>2. Len(q) \in Nat
      BY <2>5, <3>1, ReachedPath DEF Shape
    <3>3. \A k \in 3 .. Len(q) : q[k] = d => Pending(fr, f, q)
      <4> SUFFICES ASSUME NEW k \in 3 .. Len(q), q[k] = d PROVE Pending(fr, f, q)
        OBVIOUS
      <4>1. k \in 2 .. Len(q)
        OBVIOUS
      <4>2. Pending(Frame(q[k], role), f, q)
        BY <2>5, <3>1, <4>1, OnTheWay
      <4> QED BY <4>2 DEF fr
    <3> HIDE DEF q
    <3>4. Pending(Here, f, q) => Pending(moved, f, q) \/ Pending(fr, f, q)
      BY <1>5, <1>10, <3>3 DEF Pending
    <3>5. moved \in Z /\ fr \in Z /\ ToSet(Tail(agenda)) \subseteq Z /\ Z = ToSet(agenda')
      BY <2>2
    <3> HIDE DEF Z
    <3>6. \A p : Pending(Here, f, p) /\ p = Path[Spot[f].dir] => \E x \in Z : Pending(x, f, p)
      BY <3>4, <3>5 DEF q
    <3>7. Ahead(f)'
      BY <1>1, <1>3, <2>5, <3>5, <3>6, Replaced
    <3> QED BY <3>7
  <2>6. Covered'
    BY <1>1, <2>5, CoveredStays DEF NInv
  <2> QED BY <2>4, <2>6
<1> QED BY <1>11, <1>12

LEMMA NLeave == ASSUME NInv, Leave PROVE Covered' /\ RolesRight'
<1>1. /\ pc = "walk" /\ agenda # <<>> /\ Here.files = <<>> /\ Here.dirs = <<>> /\ agenda' = Tail(agenda)
      /\ UNCHANGED <<tree, pc, roots, claims, orphans, models>>
  BY DEF Leave
<1>2. IsList(agenda)
  BY <1>1 DEF NInv, Standing, Chain
<1>3. ToSet(Tail(agenda)) \subseteq ToSet(agenda)
  BY <1>1, <1>2, Shrunk
<1>4. RolesRight'
  BY <1>1, <1>3 DEF NInv, RolesRight, RoleRight
<1>5. ASSUME NEW f \in tree.here, Eligible(f), Ahead(f) PROVE Ahead(f)' \/ Met(f)'
  <2> DEFINE Z == ToSet(agenda')
  <2>1. \A p : ~Pending(Here, f, p)
    BY <1>1 DEF Pending, ToSet
  <2>2. ToSet(Tail(agenda)) \subseteq Z /\ Z = ToSet(agenda')
    BY <1>1
  <2> HIDE DEF Z
  <2>3. Ahead(f)'
    BY <1>1, <1>2, <1>5, <2>1, <2>2, Replaced
  <2> QED BY <2>3
<1>6. Covered'
  BY <1>1, <1>5, CoveredStays DEF NInv
<1> QED BY <1>4, <1>6

\* Where a weight is housed, it or the name made for it is what is served.
LEMMA HousedIsServed ==
  ASSUME NEW t, Lawful(t), NEW f \in t.here, IsWeight(f), ~(Cardinality(WeightsOf(t, Home(t, f))) > 1)
  PROVE  /\ ~Unloadable(t, Home(t, f), NoData) /\ Weight(t, Home(t, f), NoData) # NoFile
         /\ t.real[Weight(t, Home(t, f), NoData)] = t.real[f]
<1> DEFINE slot == Home(t, f)
<1>1. PICK g \in t.here : SlotOf(g) = slot /\ IsWeight(g) /\ t.real[g] = t.real[f]
  BY HomeIsIts
<1> HIDE DEF slot
<1>2. OwnWeight(t, slot) = g
  <2>1. ~(Cardinality(WeightsOf(t, SlotOf(g))) > 1) /\ t.here \subseteq Files
    BY <1>1 DEF Lawful, slot
  <2>2. OwnWeight(t, SlotOf(g)) = g
    BY <1>1, <2>1, OwnIsSole
  <2> QED BY <1>1, <2>2
<1>3. g # NoFile /\ NoData.model = NoRef
  BY RefsAssumption DEF Lawful, NoData
<1>4. Weight(t, slot, NoData) = g
  BY <1>2, <1>3 DEF Weight
<1> QED BY <1>1, <1>3, <1>4 DEF Unloadable, slot

LEMMA NServeOrphan == ASSUME NInv, ServeOrphan, OInv' PROVE Covered'
<1> DEFINE c == Head(orphans)
           f == c.file
           t == Linked(f)
           slot == Home(t, f)
           yes == TRUE
           sc == ScopesOf(c)
<1>1. /\ pc = "orphans" /\ orphans # <<>> /\ orphans' = Tail(orphans) /\ pc' = pc
      /\ \/ (Claimed(f) \/ HasSidecar(SlotOf(f)))
            /\ UNCHANGED <<tree, claims, models>>
         \/ Build(t, slot, NoData, c.role, sc, yes) /\ tree' = Stubbed(t, f)
  BY DEF ServeOrphan
<1>2. IsList(orphans) /\ c \in ToSet(orphans) /\ f \in tree.here /\ IsWeight(f)
  BY <1>1, Shrunk DEF NInv, OInv, Remembered
<1>3. \A d \in ToSet(orphans) : d = c \/ d \in ToSet(orphans')
  BY <1>1, <1>2, HeadOrTail
<1> HIDE DEF c
<1>4. \A g \in tree.here : Eligible(g) => Met(g)
  BY <1>1 DEF NInv, Covered
<1> HIDE DEF f
<1>5. CASE UNCHANGED <<tree, claims, models>> /\ (Claimed(f) \/ HasSidecar(SlotOf(f)))
  <2>1. \A g : Eligible(g)' <=> Eligible(g)
    BY <1>5 DEF Eligible
  <2>2. \A g : Met(g) => Met(g)'
    BY <1>3, <1>5 DEF Met, Twins, IsWeight, HasSidecar, Claimed, f
  <2> QED BY <1>4, <1>5, <2>1, <2>2 DEF Covered
<1>6. CASE Build(t, slot, NoData, c.role, sc, yes) /\ tree' = Stubbed(t, f)
  <2>1. Lawful(tree) /\ f \in Files /\ tree.here \subseteq Files
    BY <1>2 DEF NInv, OInv, Lawful
  <2>2. /\ Lawful(t) /\ tree.here \subseteq t.here /\ t.real = tree.real
        /\ Lawful(tree') /\ tree'.here = t.here /\ tree'.real = tree.real /\ tree'.ignored = tree.ignored
        /\ DOMAIN tree'.side = DOMAIN tree.side
        /\ \A s \in DOMAIN tree.side : tree.side[s] # Absent => tree'.side[s] = tree.side[s]
    BY <1>2, <1>6, <2>1, Making
  <2>3. \A g \in tree'.here : g \in tree.here \/ (Spot[f].link # NoFile /\ EntriesOf(tree, f) = {} /\ g = Spot[f].link)
    <3>1. t = tree \/ (Spot[f].link # NoFile /\ EntriesOf(tree, f) = {} /\ t = [tree EXCEPT !.here = @ \cup {Spot[f].link}])
      BY DEF Linked
    <3> HIDE DEF t
    <3>2. t = tree \/ (Spot[f].link # NoFile /\ EntriesOf(tree, f) = {} /\ t.here = tree.here \cup {Spot[f].link})
      BY <2>1, <3>1 DEF Lawful
    <3> QED BY <2>2, <3>2
  <2> HIDE DEF t
  <2>4. \A s : Twins(s) => Twins(s)'
    <3> SUFFICES ASSUME NEW s, ~Twins(s)' PROVE ~Twins(s)
      OBVIOUS
    <3>1. ~(Cardinality(WeightsOf(tree', s)) > 1)
      BY DEF Twins, WeightsOf, SlotOf, IsWeight
    <3>2. tree.here \subseteq tree'.here /\ tree'.here \subseteq Files
      BY <2>2 DEF Lawful
    <3>3. ~(Cardinality(WeightsOf(tree, s)) > 1)
      BY <3>1, <3>2, TwinsStay
    <3> QED BY <3>3, TwinsAre
  <2>5. \A g \in Files : HasSidecar(SlotOf(g)) => HasSidecar(SlotOf(g))'
    <3> SUFFICES ASSUME NEW g \in Files, HasSidecar(SlotOf(g)) PROVE HasSidecar(SlotOf(g))'
      OBVIOUS
    <3>1. SlotOf(g) \in DOMAIN tree.side
      BY <2>1 DEF Lawful, SlotOf
    <3>2. tree'.side[SlotOf(g)] = tree.side[SlotOf(g)]
      BY <2>2, <3>1 DEF HasSidecar
    <3> QED BY <3>2 DEF HasSidecar
  <2> PICK place : place = slot
    OBVIOUS
  <2> HIDE DEF slot
  <2>6. claims \subseteq claims' /\ (Twins(place)' \/ tree.real[f] \in claims')
    <3> HIDE DEF yes, sc
    <3>1. \/ Unloadable(t, slot, NoData) /\ claims' = claims
          \/ \E m : m.weight = Weight(t, slot, NoData) /\ claims' = claims \cup ClaimsOf(m)
      BY <1>6, Building
    <3>2. claims \subseteq claims'
      BY <3>1
    <3>3. ASSUME ~Twins(place)' PROVE tree.real[f] \in claims'
      <4>1. ~(Cardinality(WeightsOf(t, place)) > 1)
        <5>1. ~(Cardinality(WeightsOf(tree', place)) > 1)
          BY <3>3 DEF Twins, WeightsOf, SlotOf, IsWeight
        <5>2. t.here \subseteq tree'.here /\ tree'.here \subseteq Files
          BY <2>2 DEF Lawful
        <5> QED BY <5>1, <5>2, TwinsStay
      <4>2. /\ ~Unloadable(t, slot, NoData) /\ Weight(t, slot, NoData) # NoFile
            /\ t.real[Weight(t, slot, NoData)] = t.real[f]
        BY <1>2, <2>2, <4>1, HousedIsServed DEF slot
      <4>3. PICK m : m.weight = Weight(t, slot, NoData) /\ claims' = claims \cup ClaimsOf(m)
        BY <3>1, <4>2
      <4>4. tree.real[m.weight] \in ClaimsOf(m)
        BY <4>2, <4>3 DEF ClaimsOf
      <4> QED BY <2>2, <4>2, <4>3, <4>4
    <3> QED BY <3>2, <3>3
  <2>7. \A g : Claimed(g) => Claimed(g)'
    BY <2>2, <2>6 DEF Claimed
  <2>8. \A g : Eligible(g)' <=> Eligible(g)
    BY <2>2 DEF Eligible
  <2>9. ASSUME NEW g \in tree'.here, Eligible(g) PROVE Met(g)'
    <3>1. g \in Files
      BY <2>2 DEF Lawful
    <3>2. CASE g \in tree.here /\ g # f
      BY <1>3, <1>4, <2>4, <2>5, <2>7, <2>9, <3>1, <3>2 DEF Met, f
    <3>3. CASE g = f
      <4>1. Home(t, g) = SlotOf(g)
        BY <2>9 DEF Eligible, Home
      <4>2. place = SlotOf(g)
        BY <3>3, <4>1 DEF slot
      <4>3. Twins(SlotOf(g))' \/ tree.real[g] \in claims'
        BY <2>6, <3>3, <4>2
      <4> QED BY <2>2, <4>3 DEF Met, Claimed
    <3>4. CASE g \notin tree.here
      <4>1. Spot[f].link # NoFile /\ EntriesOf(tree, f) = {} /\ g = Spot[f].link
        BY <2>3, <3>4
      <4>2. \A h \in EntriesOf(t, f) : h = g
        BY <2>2, <2>3, <4>1 DEF EntriesOf
      <4>3. place = SlotOf(g)
        <5>1. CASE EntriesOf(t, f) # {}
          <6>1. (CHOOSE h \in EntriesOf(t, f) : TRUE) = g
            BY <4>2, <5>1
          <6> QED BY <4>1, <5>1, <6>1 DEF Home, slot
        <5>2. CASE EntriesOf(t, f) = {}
          <6>1. g \in t.here
            BY <2>2
          <6> QED BY <4>1, <5>2, <6>1 DEF Home, slot
        <5> QED BY <5>1, <5>2
      <4>4. tree.real[g] = tree.real[f]
        BY <2>1, <4>1 DEF Lawful
      <4>5. Twins(SlotOf(g))' \/ Claimed(g)'
        BY <2>2, <2>6, <4>3, <4>4 DEF Claimed
      <4> QED BY <4>5 DEF Met
    <3> QED BY <3>2, <3>3, <3>4
  <2> QED BY <1>1, <2>8, <2>9 DEF Covered
<1> QED BY <1>1, <1>5, <1>6

LEMMA NInductive == NInv /\ [Next]_vars => NInv'
<1> SUFFICES ASSUME NInv, [Next]_vars PROVE NInv'
  OBVIOUS
<1>1. OInv' /\ Standing'
  BY OInductive, SInductive DEF NInv
<1>2. CASE Begin
  <2>1. pc' = "walk" /\ roots' = Roots /\ agenda' = <<>> /\ tree' = tree /\ ToSet(<<>>) = {}
    BY <1>2 DEF Begin, ToSet
  <2>2. ToSet(agenda') = {}
    BY <2>1
  <2>3. ASSUME NEW f \in tree.here, Eligible(f) PROVE Ahead(f)'
    <3>1. f \in Files
      BY DEF NInv, OInv, Lawful
    <3>2. Path[Spot[f].dir][2] \in ToSet(Roots)
      BY <2>3, <3>1, ReachedPath DEF Shape
    <3> QED BY <2>1, <3>2 DEF Ahead
  <2>4. \A f : Eligible(f)' <=> Eligible(f)
    BY <2>1 DEF Eligible
  <2>5. Covered'
    BY <2>1, <2>3, <2>4 DEF Covered
  <2> QED BY <1>1, <2>1, <2>2, <2>5 DEF NInv, RolesRight, Drained, Done
<1>3. CASE ReadSidecar \/ ReadWeight
  <2>1. pc' = pc /\ pc = "walk"
    BY <1>3 DEF ReadSidecar, ReadWeight
  <2> QED BY <1>1, <1>3, <2>1, NRead DEF NInv, Drained, Done
<1>4. CASE EnterRoot \/ Descend \/ Leave
  <2>1. pc' = pc /\ pc = "walk"
    BY <1>4 DEF EnterRoot, Descend, Leave
  <2> QED BY <1>1, <1>4, <2>1, NEnterRoot, NDescend, NLeave DEF NInv, Drained, Done
<1>5. CASE ServeOrphan
  <2>1. pc' = pc /\ pc = "orphans"
    BY <1>5 DEF ServeOrphan
  <2> QED BY <1>1, <1>5, <2>1, NServeOrphan DEF NInv, RolesRight, Drained, Done
<1>6. CASE EndWalk
  <2>1. /\ pc = "walk" /\ agenda = <<>> /\ roots = <<>> /\ pc' = "orphans" /\ UNCHANGED <<tree, claims, orphans>>
        /\ ToSet(<<>>) = {}
    BY <1>6 DEF EndWalk, ToSet
  <2>2. \A f : ~Ahead(f)
    BY <2>1 DEF Ahead
  <2>3. \A f : (Eligible(f)' <=> Eligible(f)) /\ (Met(f)' <=> Met(f))
    BY <2>1 DEF Eligible, Met, Twins, IsWeight, HasSidecar, Claimed
  <2>4. Covered'
    BY <2>1, <2>2, <2>3 DEF NInv, Covered
  <2> QED BY <1>1, <2>1, <2>4 DEF NInv, RolesRight, Drained, Done
<1>7. CASE Return
  <2>1. pc = "orphans" /\ pc' \in {"clash", "done"} /\ orphans = <<>> /\ UNCHANGED <<tree, claims, orphans>>
    BY <1>7 DEF Return
  <2>2. \A f : (Eligible(f)' <=> Eligible(f)) /\ (Met(f)' <=> Met(f))
    BY <2>1 DEF Eligible, Met, Twins, IsWeight, HasSidecar, Claimed
  <2>3. Covered'
    BY <2>1, <2>2 DEF NInv, Covered
  <2> QED BY <1>1, <2>1, <2>3 DEF NInv, RolesRight, Drained
<1>8. CASE UNCHANGED vars
  <2>1. UNCHANGED <<tree, pc, roots, agenda, claims, orphans>>
    BY <1>8 DEF vars
  <2>2. \A f : (Eligible(f)' <=> Eligible(f)) /\ (Met(f)' <=> Met(f)) /\ (Ahead(f)' <=> Ahead(f))
    BY <2>1 DEF Eligible, Met, Twins, IsWeight, HasSidecar, Claimed, Ahead
  <2> QED BY <1>1, <2>1, <2>2 DEF NInv, Covered, RolesRight, Drained, Done
<1> QED BY <1>2, <1>3, <1>4, <1>5, <1>6, <1>7, <1>8 DEF Next

\* At the end of a run every weight under a served directory, but for the second
\* of a stem, is registered, has a sidecar that decides about it, or is ruled
\* out by its kind, its role or the ignore list: the walk has come by all of
\* them, in every forest of directories, and served what it remembered.
THEOREM NoWeightForgotten == Spec => []NothingForgotten
<1>1. Init => NInv
  <2> SUFFICES ASSUME Init PROVE NInv
    OBVIOUS
  <2>1. pc = "idle"
    BY DEF Init
  <2> QED BY <2>1, OInitially DEF NInv, Standing, RolesRight, Covered, Drained, Done
<1>2. NInv => NothingForgotten
  <2> SUFFICES ASSUME NInv, Done, NEW f \in tree.here, Forgotten(f) PROVE Twins(SlotOf(f))
    BY DEF NothingForgotten
  <2>1. Eligible(f)
    BY DEF Forgotten, Eligible
  <2>2. pc = "done" /\ orphans = <<>> /\ ToSet(<<>>) = {}
    BY DEF NInv, Drained, Done, ToSet
  <2>3. Met(f)
    BY <2>1, <2>2 DEF NInv, Covered
  <2> QED BY <2>2, <2>3 DEF Met, Forgotten
<1> QED BY <1>1, <1>2, NInductive, PTL DEF Spec

=============================================================================
