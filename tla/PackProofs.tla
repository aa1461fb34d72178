------------------------------ MODULE PackProofs ------------------------------
(***************************************************************************)
(* What the outputs of an invocation are, for every fleet, every command   *)
(* line and any number of invocations. The argument is where in the order  *)
(* of the stages a file may first differ from what it was.                 *)
(***************************************************************************)
EXTENDS Pack, Integers, FiniteSetTheorems, SequenceTheorems, WellFoundedInduction, TLAPS

\* The stages before anything but side files is written.
Early == {"idle", "setup", "configure", "discover", "budget", "plan", "emit", "accept", "open", "refused", "clash"}

Late == {"write", "env", "done", "failed"}

Numbers ==
  /\ pack \in Nat /\ config.pack \in Nat /\ env.pack \in Nat
  /\ config.pack <= pack /\ env.pack <= pack

Untouched == pc \in Early => Outputs = was

InOrder == config.whole => env.pack <= config.pack

Written ==
  /\ pc = "write" => ~config.whole /\ config.pack = pack
  /\ pc = "env" => config.whole /\ config.pack = pack

Ended ==
  pc = "done" /\ ~opt.dry /\ ~opt.probe =>
    /\ config.whole /\ config.pack = pack
    /\ ~opt.noEnv => env = [pack |-> pack, whole |-> TRUE]

IInv == pc \in Early \cup Late /\ Numbers /\ Untouched /\ InOrder /\ Written /\ Ended

LEMMA Initially == Init => IInv
BY DEF Init, IInv, Early, Late, Numbers, Untouched, InOrder, Written, Ended, Outputs

\* A stage that only moves on, whatever it leaves beside the outputs.
LEMMA Moving ==
  ASSUME IInv, UNCHANGED <<pack, opt, config, env, was>>, pc \in Early, pc' \in Early
  PROVE  IInv'
BY DEF IInv, Early, Late, Numbers, Untouched, InOrder, Written, Ended, Outputs

LEMMA Inductive == IInv /\ [Next]_vars => IInv'
<1> SUFFICES ASSUME IInv, [Next]_vars PROVE IInv'
  OBVIOUS
<1> USE DEF After
<1>1. CASE Begin
  BY <1>1 DEF Begin, IInv, Early, Late, Numbers, Untouched, InOrder, Written, Ended, Outputs
<1>2. CASE Refuse
  BY <1>2, Moving DEF Refuse, Gates, Early
<1>3. CASE Advance
  <2>1. CASE pc = "discover" /\ opt.probe
    BY <1>3, <2>1 DEF Advance, IInv, Early, Late, Numbers, Untouched, InOrder, Written, Ended, Outputs
  <2>2. CASE ~(pc = "discover" /\ opt.probe)
    BY <1>3, <2>2, Moving DEF Advance, Early
  <2> QED BY <2>1, <2>2
<1>4. CASE Plan
  BY <1>4, Moving DEF Plan, Early
<1>5. CASE Emit
  BY <1>5, Moving DEF Emit, Early
<1>6. CASE Emitted
  BY <1>6, Moving DEF Emitted, Early
<1>7. CASE Accept
  <2>1. CASE opt.dry
    BY <1>7, <2>1 DEF Accept, IInv, Early, Late, Numbers, Untouched, InOrder, Written, Ended, Outputs
  <2>2. CASE ~opt.dry
    BY <1>7, <2>2, Moving DEF Accept, Early
  <2> QED BY <2>1, <2>2
<1>8. CASE OpenConfig
  BY <1>8 DEF OpenConfig, Torn, IInv, Early, Late, Numbers, Untouched, InOrder, Written, Ended, Outputs
<1>9. CASE WriteConfig
  BY <1>9 DEF WriteConfig, IInv, Early, Late, Numbers, Untouched, InOrder, Written, Ended, Outputs
<1>10. CASE WriteEnv
  BY <1>10 DEF WriteEnv, IInv, Early, Late, Numbers, Untouched, InOrder, Written, Ended, Outputs
<1>11. CASE Fails
  BY <1>11 DEF Fails, IInv, Early, Late, Numbers, Untouched, InOrder, Written, Ended, Outputs
<1>12. CASE UNCHANGED vars
  BY <1>12 DEF vars, IInv, Early, Late, Numbers, Untouched, InOrder, Written, Ended, Outputs
<1> QED
  BY <1>1, <1>2, <1>3, <1>4, <1>5, <1>6, <1>7, <1>8, <1>9, <1>10, <1>11, <1>12 DEF Next

\* The invariant holds in every state of every history of invocations.
THEOREM Invariant == Spec => []IInv
BY Initially, Inductive, PTL DEF Spec

\* A refused invocation leaves both outputs as they were, for every fleet and
\* command line.
THEOREM RefusalIsHarmless == Spec => []RefusalKeepsOutputs
<1>1. IInv => RefusalKeepsOutputs
  BY DEF IInv, Untouched, Early, RefusalKeepsOutputs
<1> QED BY <1>1, Invariant, PTL

\* config.env is never ahead of a whole config.yaml, and an invocation that
\* ends well leaves both as its own, over any history.
THEOREM OutputsBelongTogether == Spec => []OutputsAgree
<1>1. IInv => OutputsAgree
  BY DEF IInv, InOrder, Ended, OutputsAgree
<1> QED BY <1>1, Invariant, PTL

-----------------------------------------------------------------------------
(* What is used of numbers and of lists whatever they are of: least elements, *)
(* and what FlattenSeq of SequencesExt makes of a list of lists. Inductions   *)
(* are over a set of numbers, by the library's theorem that a well-founded    *)
(* relation has minimal elements.                                             *)

\* A set of numbers that is not empty has a least one.
LEMMA Least ==
  ASSUME NEW T \in SUBSET Nat, T # {}
  PROVE  \E x \in T : \A y \in T : x <= y
<1> DEFINE R == {ss \in Nat \X Nat : ss[1] < ss[2]}
<1>1. IsWellFoundedOn(R, Nat)
  BY NatLessThanWellFounded DEF OpToRel
<1>2. \A x, y \in Nat : <<y, x>> \in R <=> y < x
  OBVIOUS
<1> HIDE DEF R
<1>3. PICK x \in T : \A y \in T : ~(<<y, x>> \in R)
  BY <1>1, WFMin
<1>4. \A y \in T : ~(y < x)
  BY <1>2, <1>3
<1> QED BY <1>4

\* Induction, as a fact about a set: the library's states it of a predicate.
LEMMA SetInduction ==
  ASSUME NEW S, 0 \in S, \A n \in Nat : n \in S => n + 1 \in S
  PROVE  \A n \in Nat : n \in S
<1> SUFFICES ASSUME Nat \ S # {} PROVE FALSE
  OBVIOUS
<1>1. PICK x \in Nat \ S : \A y \in Nat \ S : x <= y
  BY Least
<1>2. x # 0 /\ x - 1 \in Nat
  BY <1>1
<1>3. x - 1 \in S
  BY <1>1, <1>2
<1> QED BY <1>1, <1>2, <1>3

\* The least of a set of numbers is what Min chooses.
LEMMA LeastOfSet ==
  ASSUME NEW T \in SUBSET Nat, T # {}
  PROVE  Min(T) \in T /\ \A x \in T : Min(T) <= x
<1>1. \E y \in T : \A x \in T : y =< x
  BY Least
<1> DEFINE m == CHOOSE y \in T : \A x \in T : y =< x
<1>2. m \in T /\ \A x \in T : m <= x
  BY <1>1
<1>3. Min(T) = m
  BY DEF Min
<1> HIDE DEF m
<1> QED BY <1>2, <1>3

\* The greatest of some of the numbers up to n is what Max chooses.
LEMMA GreatestBelow ==
  ASSUME NEW n \in Nat, NEW T \in SUBSET (1 .. n), T # {}
  PROVE  Max(T) \in T
<1> DEFINE U == {n - x : x \in T}
<1>1. U \in SUBSET Nat /\ U # {}
  <2>1. \A x \in T : n - x \in Nat
    OBVIOUS
  <2> QED BY <2>1
<1> HIDE DEF U
<1>2. PICK u \in U : \A v \in U : u <= v
  BY <1>1, Least
<1>3. PICK y \in T : u = n - y
  BY <1>2 DEF U
<1>4. \A x \in T : y >= x
  <2> TAKE x \in T
  <2>1. u <= n - x
    BY <1>2 DEF U
  <2> QED BY <1>3, <2>1
<1> QED BY <1>4 DEF Max

\* What makes a function a list.
LEMMA ListOf ==
  ASSUME NEW X, NEW n \in Nat, NEW f \in [1 .. n -> X]
  PROVE  f \in Seq(X) /\ Len(f) = n
BY SeqDef

\* What is left of a list when its head is taken off.
LEMMA Rest ==
  ASSUME NEW X, NEW s \in Seq(X), s # <<>>
  PROVE  /\ Tail(s) \in Seq(X) /\ Head(s) \in X /\ Head(s) \in ToSet(s)
         /\ IsInjective(s) => IsInjective(Tail(s)) /\ ToSet(Tail(s)) = ToSet(s) \ {Head(s)}
<1> DEFINE t == Tail(s)
<1>1. /\ t \in Seq(X) /\ Len(t) = Len(s) - 1 /\ Len(s) \in Nat \ {0} /\ Head(s) = s[1]
      /\ \A i \in 1 .. Len(t) : t[i] = s[i + 1]
  OBVIOUS
<1> HIDE DEF t
<1>2. DOMAIN s = 1 .. Len(s) /\ DOMAIN t = 1 .. Len(t) /\ 1 \in DOMAIN s /\ s[1] \in X
  BY <1>1
<1>3. \A i \in DOMAIN t : i + 1 \in DOMAIN s /\ i + 1 # 1 /\ t[i] = s[i + 1]
  BY <1>1, <1>2
<1>4. ASSUME IsInjective(s) PROVE IsInjective(t) /\ ToSet(t) = ToSet(s) \ {s[1]}
  <2>1. IsInjective(t)
    <3> SUFFICES ASSUME NEW i \in DOMAIN t, NEW j \in DOMAIN t, t[i] = t[j] PROVE i = j
      BY DEF IsInjective
    <3>1. i + 1 = j + 1
      BY <1>3, <1>4 DEF IsInjective
    <3>2. i \in Int /\ j \in Int
      BY <1>2
    <3> QED BY <3>1, <3>2
  <2>2. ASSUME NEW x \in ToSet(t) PROVE x \in ToSet(s) \ {s[1]}
    <3>1. PICK i \in DOMAIN t : t[i] = x
      BY <2>2 DEF ToSet
    <3>2. x = s[i + 1] /\ i + 1 \in DOMAIN s /\ i + 1 # 1
      BY <1>3, <3>1
    <3> QED BY <1>2, <1>4, <3>2 DEF ToSet, IsInjective
  <2>3. ASSUME NEW x \in ToSet(s), x # s[1] PROVE x \in ToSet(t)
    <3>1. PICK i \in DOMAIN s : s[i] = x
      BY <2>3 DEF ToSet
    <3>2. i - 1 \in DOMAIN t /\ t[i - 1] = x
      <4>1. i \in Int /\ i # 1 /\ i >= 1 /\ i <= Len(s)
        BY <1>2, <2>3, <3>1
      <4>2. i - 1 \in 1 .. Len(t) /\ (i - 1) + 1 = i
        BY <1>1, <4>1
      <4> QED BY <1>1, <1>2, <3>1, <4>2
    <3> QED BY <3>2 DEF ToSet
  <2> QED BY <2>1, <2>2, <2>3
<1> QED BY <1>1, <1>2, <1>4 DEF t, ToSet

\* The recursion of FlattenSeq has a solution.
LEMMA FlatteningExists ==
  ASSUME NEW X, NEW seqs \in Seq(Seq(X)), Len(seqs) # 0
  PROVE  \E f : /\ FlattenSeq(seqs) = f[Len(seqs)]
                /\ f = [i \in 1 .. Len(seqs) |-> IF i = 1 THEN seqs[i] ELSE f[i - 1] \o seqs[i]]
<1> DEFINE Upto(k) == \E g : g = [i \in 1 .. k |-> IF i = 1 THEN seqs[i] ELSE g[i - 1] \o seqs[i]]
           S == {k \in Nat : Upto(k)}
<1>1. 0 \in S
  <2> DEFINE none == [i \in 1 .. 0 |-> <<>>]
  <2>1. none = [i \in 1 .. 0 |-> IF i = 1 THEN seqs[i] ELSE none[i - 1] \o seqs[i]]
    OBVIOUS
  <2> HIDE DEF none
  <2>2. Upto(0)
    BY <2>1
  <2> QED BY <2>2
<1>2. \A k \in Nat : k \in S => k + 1 \in S
  <2> TAKE k \in Nat
  <2> HAVE k \in S
  <2>1. PICK g : g = [i \in 1 .. k |-> IF i = 1 THEN seqs[i] ELSE g[i - 1] \o seqs[i]]
    OBVIOUS
  <2> DEFINE h == [i \in 1 .. (k + 1) |-> IF i <= k THEN g[i] ELSE IF i = 1 THEN seqs[i] ELSE g[i - 1] \o seqs[i]]
  <2>2. \A i \in 1 .. k : h[i] = g[i]
    OBVIOUS
  <2>3. \A i \in 1 .. k : g[i] = IF i = 1 THEN seqs[i] ELSE g[i - 1] \o seqs[i]
    BY <2>1
  <2>4. h[k + 1] = IF k + 1 = 1 THEN seqs[k + 1] ELSE g[k] \o seqs[k + 1]
    OBVIOUS
  <2>5. DOMAIN h = 1 .. (k + 1) /\ h = [i \in 1 .. (k + 1) |-> h[i]]
    OBVIOUS
  <2> HIDE DEF h
  <2>6. \A i \in 1 .. (k + 1) : h[i] = IF i = 1 THEN seqs[i] ELSE h[i - 1] \o seqs[i]
    <3> TAKE i \in 1 .. (k + 1)
    <3>1. CASE i = 1
      BY <3>1, <2>2, <2>3, <2>4
    <3>2. CASE i # 1 /\ i <= k
      <4>1. i \in 1 .. k /\ i - 1 \in 1 .. k
        BY <3>2
      <4> QED BY <4>1, <3>2, <2>2, <2>3
    <3>3. CASE i # 1 /\ i = k + 1
      <4>1. k \in 1 .. k /\ i - 1 = k
        BY <3>3
      <4> QED BY <4>1, <3>3, <2>2, <2>4
    <3> QED BY <3>1, <3>2, <3>3
  <2>7. h = [i \in 1 .. (k + 1) |-> IF i = 1 THEN seqs[i] ELSE h[i - 1] \o seqs[i]]
    BY <2>5, <2>6
  <2>8. Upto(k + 1)
    BY <2>7
  <2> HIDE DEF Upto
  <2> QED BY <2>8
<1>3. Len(seqs) \in S
  <2> HIDE DEF S
  <2> QED BY <1>1, <1>2, SetInduction
<1> DEFINE flatten == CHOOSE g : g = [i \in 1 .. Len(seqs) |-> IF i = 1 THEN seqs[i] ELSE g[i - 1] \o seqs[i]]
<1>4. flatten = [i \in 1 .. Len(seqs) |-> IF i = 1 THEN seqs[i] ELSE flatten[i - 1] \o seqs[i]]
  BY <1>3
<1>5. FlattenSeq(seqs) = flatten[Len(seqs)]
  BY DEF FlattenSeq
<1> HIDE DEF flatten
<1> QED BY <1>4, <1>5

\* A list of two from two lists of one.
LEMMA Two ==
  ASSUME NEW X, NEW a \in X, NEW b \in X
  PROVE  <<a>> \o <<b>> = <<a, b>>
<1> DEFINE s == <<a>>
           t == <<b>>
           u == <<a, b>>
<1>1. /\ s \in Seq(X) /\ t \in Seq(X) /\ u \in Seq(X) /\ Len(s) = 1 /\ Len(t) = 1 /\ Len(u) = 2
      /\ s[1] = u[1] /\ t[1] = u[2]
  OBVIOUS
<1> HIDE DEF s, t, u
<1>2. s \o t \in Seq(X) /\ Len(s \o t) = 2 /\ \A i \in 1 .. 2 : (s \o t)[i] = IF i <= 1 THEN s[i] ELSE t[i - 1]
  BY <1>1, ConcatProperties
<1>3. s \o t = u
  BY <1>1, <1>2, SeqEqual
<1> QED BY <1>3 DEF s, t, u

\* What two lists hold together.
LEMMA Joined ==
  ASSUME NEW X, NEW s \in Seq(X), NEW t \in Seq(X)
  PROVE  /\ s \o t \in Seq(X)
         /\ ToSet(s \o t) = ToSet(s) \cup ToSet(t)
         /\ IsInjective(s) /\ IsInjective(t) /\ (\A i \in DOMAIN s, j \in DOMAIN t : s[i] # t[j]) => IsInjective(s \o t)
<1> DEFINE u == s \o t
<1>1. u \in Seq(X) /\ Len(u) = Len(s) + Len(t)
  OBVIOUS
<1>2. \A j \in 1 .. Len(s) : u[j] = s[j]
  OBVIOUS
<1>3. \A j \in 1 .. Len(t) : u[Len(s) + j] = t[j]
  OBVIOUS
<1>4. \A j \in 1 .. Len(u) : j \in 1 .. Len(s) \/ (j - Len(s) \in 1 .. Len(t) /\ u[j] = t[j - Len(s)])
  <2> TAKE j \in 1 .. Len(u)
  <2> SUFFICES ASSUME ~(j \in 1 .. Len(s)) PROVE j - Len(s) \in 1 .. Len(t) /\ u[j] = t[j - Len(s)]
    OBVIOUS
  <2>1. j - Len(s) \in 1 .. Len(t) /\ Len(s) + (j - Len(s)) = j
    BY <1>1
  <2> QED BY <2>1, <1>3
<1>5. DOMAIN u = 1 .. Len(u) /\ DOMAIN s = 1 .. Len(s) /\ DOMAIN t = 1 .. Len(t)
  BY <1>1
<1>6. ASSUME IsInjective(s), IsInjective(t), \A i \in DOMAIN s, j \in DOMAIN t : s[i] # t[j] PROVE IsInjective(u)
  <2> HIDE DEF u
  <2> SUFFICES ASSUME NEW i \in 1 .. Len(u), NEW j \in 1 .. Len(u), u[i] = u[j] PROVE i = j
    BY <1>5 DEF IsInjective
  <2>1. CASE i \in 1 .. Len(s) /\ j \in 1 .. Len(s)
    BY <2>1, <1>2, <1>5, <1>6 DEF IsInjective
  <2>2. CASE ~(i \in 1 .. Len(s)) /\ ~(j \in 1 .. Len(s))
    <3>1. t[i - Len(s)] = t[j - Len(s)] /\ i - Len(s) \in DOMAIN t /\ j - Len(s) \in DOMAIN t
      BY <2>2, <1>4, <1>5
    <3>2. i - Len(s) = j - Len(s)
      BY <3>1, <1>6 DEF IsInjective
    <3> QED BY <3>2
  <2>3. CASE i \in 1 .. Len(s) /\ ~(j \in 1 .. Len(s))
    BY <2>3, <1>2, <1>4, <1>5, <1>6
  <2>4. CASE ~(i \in 1 .. Len(s)) /\ j \in 1 .. Len(s)
    BY <2>4, <1>2, <1>4, <1>5, <1>6
  <2> QED BY <2>1, <2>2, <2>3, <2>4
<1>7. \A x : (\E j \in DOMAIN u : u[j] = x) <=> (\E j \in DOMAIN s : s[j] = x) \/ (\E j \in DOMAIN t : t[j] = x)
  <2> HIDE DEF u
  <2> TAKE x
  <2>1. ASSUME NEW j \in DOMAIN s, s[j] = x PROVE \E i \in DOMAIN u : u[i] = x
    <3>1. j \in DOMAIN u /\ u[j] = x
      BY <2>1, <1>1, <1>2, <1>5
    <3> QED BY <3>1
  <2>2. ASSUME NEW j \in DOMAIN t, t[j] = x PROVE \E i \in DOMAIN u : u[i] = x
    <3>1. Len(s) + j \in DOMAIN u /\ u[Len(s) + j] = x
      BY <2>2, <1>1, <1>3, <1>5
    <3> QED BY <3>1
  <2>3. ASSUME NEW j \in DOMAIN u, u[j] = x
        PROVE  (\E i \in DOMAIN s : s[i] = x) \/ (\E i \in DOMAIN t : t[i] = x)
    BY <2>3, <1>2, <1>4, <1>5
  <2> QED BY <2>1, <2>2, <2>3
<1>8. ToSet(u) = ToSet(s) \cup ToSet(t)
  <2> HIDE DEF u
  <2> QED BY <1>7 DEF ToSet
<1> QED BY <1>1, <1>6, <1>8

\* What a list flattened holds, and when it holds nothing twice.
LEMMA Flattening ==
  ASSUME NEW X, NEW seqs \in Seq(Seq(X))
  PROVE  /\ FlattenSeq(seqs) \in Seq(X)
         /\ \A x : x \in ToSet(FlattenSeq(seqs)) <=> \E i \in DOMAIN seqs : x \in ToSet(seqs[i])
         /\ /\ \A i \in DOMAIN seqs : IsInjective(seqs[i])
            /\ \A i, j \in DOMAIN seqs : i # j => ToSet(seqs[i]) \cap ToSet(seqs[j]) = {}
            => IsInjective(FlattenSeq(seqs))
<1> DEFINE Holds(s, x) == x \in ToSet(s)
           Each == \A i \in DOMAIN seqs : IsInjective(seqs[i])
           Disjoint == \A i, j \in DOMAIN seqs : i # j => \A x : ~(Holds(seqs[i], x) /\ Holds(seqs[j], x))
           Good(s, k) == /\ s \in Seq(X)
                         /\ \A x : Holds(s, x) <=> \E i \in 1 .. k : Holds(seqs[i], x)
                         /\ Each /\ Disjoint => IsInjective(s)
<1>1. CASE Len(seqs) = 0
  BY <1>1 DEF FlattenSeq, ToSet, IsInjective
<1>2. CASE Len(seqs) # 0
  <2>1. PICK f : /\ FlattenSeq(seqs) = f[Len(seqs)]
                 /\ f = [i \in 1 .. Len(seqs) |-> IF i = 1 THEN seqs[i] ELSE f[i - 1] \o seqs[i]]
    BY <1>2, FlatteningExists
  <2>2. \A i \in 1 .. Len(seqs) : f[i] = IF i = 1 THEN seqs[i] ELSE f[i - 1] \o seqs[i]
    BY <2>1
  <2> DEFINE S == {k \in Nat : k \in 1 .. Len(seqs) => Good(f[k], k)}
  <2>3. 0 \in S
    OBVIOUS
  <2>4. ASSUME NEW k \in Nat, k \in S PROVE k + 1 \in S
    <3> HIDE DEF Good
    <3> SUFFICES ASSUME k + 1 \in 1 .. Len(seqs) PROVE Good(f[k + 1], k + 1)
      OBVIOUS
    <3> USE DEF Good
    <3>1. CASE k = 0
      <4>1. f[1] = seqs[1] /\ seqs[1] \in Seq(X)
        BY <2>2, <3>1
      <4>2. \A x : Holds(f[1], x) <=> \E i \in 1 .. 1 : Holds(seqs[i], x)
        BY <4>1
      <4> QED BY <3>1, <4>1, <4>2
    <3>2. CASE k # 0
      <4>1. k \in 1 .. Len(seqs) /\ f[k + 1] = f[k] \o seqs[k + 1] /\ seqs[k + 1] \in Seq(X) /\ k + 1 \in DOMAIN seqs
        <5>1. k \in 1 .. Len(seqs) /\ k + 1 # 1 /\ (k + 1) - 1 = k /\ k + 1 \in DOMAIN seqs
          BY <3>2
        <5>2. f[k + 1] = IF k + 1 = 1 THEN seqs[k + 1] ELSE f[(k + 1) - 1] \o seqs[k + 1]
          BY <2>2
        <5>3. f[k + 1] = f[k] \o seqs[k + 1]
          BY <5>1, <5>2
        <5> QED BY <5>1, <5>3
      <4>2. Good(f[k], k)
        BY <4>1, <2>4
      <4>3. f[k + 1] \in Seq(X)
        BY <4>1, <4>2
      <4>4. \A x : Holds(f[k + 1], x) <=> Holds(f[k], x) \/ Holds(seqs[k + 1], x)
        <5>1. f[k] \in Seq(X) /\ seqs[k + 1] \in Seq(X)
          BY <4>1, <4>2
        <5> DEFINE s == f[k]
                   t == seqs[k + 1]
        <5>4. s \in Seq(X) /\ t \in Seq(X)
          BY <5>1
        <5> HIDE DEF s, t
        <5>2. \A x : Holds(s \o t, x) <=> Holds(s, x) \/ Holds(t, x)
          BY <5>4, Joined
        <5> QED BY <4>1, <5>2 DEF s, t
      <4>5. \A x : Holds(f[k + 1], x) <=> \E i \in 1 .. (k + 1) : Holds(seqs[i], x)
        <5> HIDE DEF Holds
        <5>1. \A i : i \in 1 .. (k + 1) <=> i \in 1 .. k \/ i = k + 1
          OBVIOUS
        <5> QED BY <4>2, <4>4, <5>1
      <4>6. Each /\ Disjoint => IsInjective(f[k + 1])
        <5> SUFFICES ASSUME Each, Disjoint PROVE IsInjective(f[k + 1])
          OBVIOUS
        <5>1. ASSUME NEW x, Holds(f[k], x), Holds(seqs[k + 1], x) PROVE FALSE
          <6> HIDE DEF Holds
          <6>1. PICK i \in 1 .. k : Holds(seqs[i], x)
            BY <5>1, <4>2
          <6>2. i \in DOMAIN seqs /\ i # k + 1
            BY <4>1, <6>1
          <6> QED BY <5>1, <6>1, <6>2, <4>1
        <5>2. \A i \in DOMAIN f[k], j \in DOMAIN seqs[k + 1] : f[k][i] # seqs[k + 1][j]
          BY <5>1 DEF ToSet
        <5>3. IsInjective(f[k]) /\ IsInjective(seqs[k + 1])
          BY <4>1, <4>2
        <5> QED BY <4>1, <4>2, <5>2, <5>3, Joined
      <4> QED BY <4>3, <4>5, <4>6
    <3> QED BY <3>1, <3>2
  <2>5. Len(seqs) \in S
    <3> HIDE DEF S
    <3> QED BY <2>3, <2>4, SetInduction
  <2>6. Good(f[Len(seqs)], Len(seqs))
    BY <2>5, <1>2
  <2>7. DOMAIN seqs = 1 .. Len(seqs)
    OBVIOUS
  <2>8. \A s, x : x \in ToSet(s) <=> Holds(s, x)
    BY DEF ToSet
  <2>9. ASSUME \A i, j \in DOMAIN seqs : i # j => ToSet(seqs[i]) \cap ToSet(seqs[j]) = {} PROVE Disjoint
    <3> HIDE DEF Holds
    <3> QED BY <2>8, <2>9
  <2> HIDE DEF Holds, Each, Disjoint
  <2> QED BY <2>1, <2>6, <2>7, <2>8, <2>9 DEF Each
<1> QED BY <1>1, <1>2

-----------------------------------------------------------------------------
(* What a plan is *)

LEMMA FleetType == ASSUME fleet \in Fleets PROVE fleet \in Seq(ModelRecord) /\ \A i \in DOMAIN fleet : Proper(fleet[i])
BY PackAssumption

\* What a model may be served as.
Variant(m) ==
  [group : ToSet(m.groups), category : ToSet(m.categories) \cup {Fallback}, vision : BOOLEAN, demoted : BOOLEAN]

\* A group serves a category at most once.
CategoriesOnce(S) == \A v, w \in S : v.group = w.group /\ v.category = w.category => v = w

\* Leaving some elements of a list out keeps it a list without repetition.
LEMMA OnlyOnce ==
  ASSUME NEW X, NEW s \in Seq(X), IsInjective(s), NEW kept
  PROVE  Only(s, kept) \in Seq(X) /\ IsInjective(Only(s, kept))
<1> DEFINE seqs == [i \in DOMAIN s |-> IF s[i] \in kept THEN <<s[i]>> ELSE <<>>]
<1>1. DOMAIN s = 1 .. Len(s) /\ Len(s) \in Nat /\ \A i \in DOMAIN s : s[i] \in X
  OBVIOUS
<1>2. \A i \in DOMAIN s : seqs[i] \in Seq(X) /\ IsInjective(seqs[i]) /\ \A x \in ToSet(seqs[i]) : x = s[i]
  BY <1>1 DEF IsInjective, ToSet
<1>3. seqs \in Seq(Seq(X)) /\ DOMAIN seqs = DOMAIN s
  BY <1>1, <1>2
<1>4. Only(s, kept) = FlattenSeq(seqs)
  BY DEF Only
<1> HIDE DEF seqs
<1>5. \A i, j \in DOMAIN seqs : i # j => ToSet(seqs[i]) \cap ToSet(seqs[j]) = {}
  BY <1>2, <1>3 DEF IsInjective
<1> QED BY <1>2, <1>3, <1>4, <1>5, Flattening

\* What a group is planned as: variants of its own, a category at most once.
LEMMA GroupOutcome ==
  ASSUME NEW m \in ModelRecord, Proper(m), NEW g \in ToSet(m.groups), NEW o \in GroupOutcomes(m, g)
  PROVE  /\ o \in Seq(Variant(m)) /\ IsInjective(o)
         /\ \A v \in ToSet(o) : v.group = g
         /\ CategoriesOnce(ToSet(o))
<1>1. CASE o = <<>>
  BY <1>1 DEF IsInjective, ToSet, CategoriesOnce
<1>2. CASE o # <<>>
  <2> DEFINE X == ToSet(m.categories) \cup {Fallback}
             all == Append(m.categories, Fallback)
  <2>1. m.categories \in Seq(STRING) /\ m.categories \in Seq(ToSet(m.categories))
    BY DEF ModelRecord, ToSet
  <2>2. all \in Seq(X)
    BY <2>1
  <2>3. IsInjective(all)
    BY <2>1 DEF Proper, IsInjective, ToSet
  <2>4. PICK kept, shed, low : o = Served(m, g, kept, shed, low)
    BY <1>2 DEF GroupOutcomes
  <2> DEFINE served == Only(all, kept \cup {Fallback})
  <2>5. served \in Seq(X) /\ IsInjective(served)
    BY <2>2, <2>3, OnlyOnce
  <2>6. o = [i \in DOMAIN served |->
               [group |-> g, category |-> served[i], vision |-> served[i] \notin shed, demoted |-> served[i] \in low]]
    BY <2>4 DEF Served
  <2> HIDE DEF served, all
  <2>7. /\ DOMAIN o = DOMAIN served /\ DOMAIN served = 1 .. Len(served) /\ Len(served) \in Nat
        /\ \A i \in DOMAIN o : o[i] \in Variant(m) /\ o[i].group = g /\ o[i].category = served[i]
    BY <2>5, <2>6 DEF Variant
  <2>8. o \in Seq(Variant(m))
    BY <2>6, <2>7
  <2>9. IsInjective(o)
    BY <2>5, <2>7 DEF IsInjective
  <2>10. CategoriesOnce(ToSet(o)) /\ \A v \in ToSet(o) : v.group = g
    BY <2>5, <2>7 DEF IsInjective, CategoriesOnce, ToSet
  <2> QED BY <2>8, <2>9, <2>10
<1> QED BY <1>1, <1>2

\* What a model is planned as.
LEMMA ModelOutcome ==
  ASSUME NEW m \in ModelRecord, Proper(m), NEW o \in ModelOutcomes(m)
  PROVE  o \in Seq(Variant(m)) /\ IsInjective(o) /\ CategoriesOnce(ToSet(o))
<1> DEFINE outcomes == [i \in DOMAIN m.groups |-> GroupOutcomes(m, m.groups[i])]
<1>1. PICK f \in OneOfEach(outcomes) : o = FlattenSeq(f)
  BY DEF ModelOutcomes
<1>2. m.groups \in Seq(Group) /\ DOMAIN m.groups = 1 .. Len(m.groups) /\ Len(m.groups) \in Nat
  BY DEF ModelRecord
<1>3. DOMAIN f = DOMAIN m.groups /\ f = [i \in DOMAIN f |-> f[i]] /\ \A i \in DOMAIN f : f[i] \in GroupOutcomes(m, m.groups[i])
  BY <1>1 DEF OneOfEach
<1>4. \A i \in DOMAIN f : /\ f[i] \in Seq(Variant(m)) /\ IsInjective(f[i]) /\ CategoriesOnce(ToSet(f[i]))
                          /\ \A v \in ToSet(f[i]) : v.group = m.groups[i]
  <2> TAKE i \in DOMAIN f
  <2>1. m.groups[i] \in ToSet(m.groups) /\ f[i] \in GroupOutcomes(m, m.groups[i])
    BY <1>3 DEF ToSet
  <2> QED BY <2>1, GroupOutcome
<1>5. f \in Seq(Seq(Variant(m)))
  <2>1. DOMAIN f = 1 .. Len(m.groups) /\ \A i \in DOMAIN f : f[i] \in Seq(Variant(m))
    BY <1>2, <1>3, <1>4
  <2> DEFINE Y == Seq(Variant(m))
             n == Len(m.groups)
  <2> HIDE DEF outcomes
  <2>2. f \in [1 .. n -> Y] /\ n \in Nat
    BY <1>2, <1>3, <2>1
  <2> HIDE DEF Y, n
  <2>3. f \in Seq(Y)
    BY <2>2, ListOf
  <2> QED BY <2>3 DEF Y
<1>6. \A i, j \in DOMAIN f : i # j => ToSet(f[i]) \cap ToSet(f[j]) = {}
  <2> SUFFICES ASSUME NEW i \in DOMAIN f, NEW j \in DOMAIN f, NEW v \in ToSet(f[i]), v \in ToSet(f[j]) PROVE i = j
    OBVIOUS
  <2>1. m.groups[i] = m.groups[j] /\ i \in DOMAIN m.groups /\ j \in DOMAIN m.groups
    BY <1>3, <1>4
  <2> QED BY <2>1 DEF Proper, IsInjective
<1>7. o \in Seq(Variant(m)) /\ IsInjective(o) /\ \A v \in ToSet(o) : \E i \in DOMAIN f : v \in ToSet(f[i])
  BY <1>1, <1>4, <1>5, <1>6, Flattening
<1>8. CategoriesOnce(ToSet(o))
  BY <1>3, <1>4, <1>7 DEF CategoriesOnce, Proper, IsInjective
<1> QED BY <1>7, <1>8

\* What is filed under a stem is what one of its models is planned as, or
\* nothing.
FiledRight(models, filed) ==
  /\ DOMAIN filed = {models[i].stem : i \in DOMAIN models}
  /\ \A i \in DOMAIN models : \E k \in DOMAIN models :
       /\ models[k].stem = models[i].stem
       /\ filed[models[i].stem] \in Seq(Variant(models[k]))
       /\ IsInjective(filed[models[i].stem]) /\ CategoriesOnce(ToSet(filed[models[i].stem]))

LEMMA Filing ==
  ASSUME fleet \in Fleets, NEW planned \in Planned
  PROVE  FiledRight(fleet, Filed(planned))
<1> DEFINE filed == Filed(planned)
<1>1. fleet \in Seq(ModelRecord) /\ DOMAIN fleet = 1 .. Len(fleet) /\ Len(fleet) \in Nat
  BY FleetType
<1>2. \A k \in DOMAIN fleet : planned[k] \in ModelOutcomes(fleet[k])
  BY DEF Planned, OneOfEach
<1>3. \A k \in DOMAIN fleet : fleet[k] \in ModelRecord /\ Proper(fleet[k])
  BY <1>1, FleetType
<1>4. \A k \in DOMAIN fleet :
        planned[k] \in Seq(Variant(fleet[k])) /\ IsInjective(planned[k]) /\ CategoriesOnce(ToSet(planned[k]))
  BY <1>2, <1>3, ModelOutcome
<1>5. DOMAIN filed = Stems
  BY DEF Filed
<1>6. ASSUME NEW i \in DOMAIN fleet
      PROVE  \E k \in DOMAIN fleet :
               /\ fleet[k].stem = fleet[i].stem
               /\ filed[fleet[i].stem] \in Seq(Variant(fleet[k]))
               /\ IsInjective(filed[fleet[i].stem]) /\ CategoriesOnce(ToSet(filed[fleet[i].stem]))
  <2> DEFINE s == fleet[i].stem
             full == {k \in DOMAIN fleet : fleet[k].stem = s /\ planned[k] # <<>>}
  <2>1. s \in Stems /\ filed[s] = IF full = {} THEN <<>> ELSE planned[Max(full)]
    BY DEF Filed, Stems
  <2>2. CASE full = {}
    <3>1. filed[s] = <<>>
      BY <2>1, <2>2
    <3>2. IsInjective(<<>>) /\ CategoriesOnce(ToSet(<<>>))
      BY DEF IsInjective, CategoriesOnce, ToSet
    <3>3. <<>> \in Seq(Variant(fleet[i]))
      OBVIOUS
    <3> HIDE DEF filed
    <3> QED BY <3>1, <3>2, <3>3
  <2>3. CASE full # {}
    <3>1. full \subseteq 1 .. Len(fleet) /\ Len(fleet) \in Nat
      BY <1>1
    <3>2. Max(full) \in full
      <4> HIDE DEF full
      <4> QED BY <2>3, <3>1, GreatestBelow
    <3> QED BY <1>4, <2>1, <2>3, <3>2
  <2> QED BY <2>2, <2>3
<1> QED BY <1>5, <1>6 DEF FiledRight, Stems

\* What a plan has to publish: every variant of a stem for every model of it.
Due(models, filed) == UNION {{<<i, v>> : v \in ToSet(filed[models[i].stem])} : i \in DOMAIN models}

\* The list emit_config goes through is the plan, each serving once.
LEMMA Pairing ==
  ASSUME fleet \in Fleets, NEW filed, FiledRight(fleet, filed)
  PROVE  /\ Pairs(filed) \in Seq(Due(fleet, filed))
         /\ IsInjective(Pairs(filed))
         /\ ToSet(Pairs(filed)) = Due(fleet, filed)
<1> DEFINE list(i) == filed[fleet[i].stem]
           row(i) == [j \in DOMAIN list(i) |-> <<i, list(i)[j]>>]
           seqs == [i \in DOMAIN fleet |-> row(i)]
<1>1. DOMAIN fleet = 1 .. Len(fleet) /\ Len(fleet) \in Nat
  BY FleetType
<1>2. \A i \in DOMAIN fleet : \E V : list(i) \in Seq(V) /\ IsInjective(list(i))
  BY DEF FiledRight
<1>3. \A i \in DOMAIN fleet : DOMAIN list(i) = 1 .. Len(list(i)) /\ Len(list(i)) \in Nat
  BY <1>2
<1>4. \A p : p \in Due(fleet, filed) <=> \E i \in DOMAIN fleet : \E v \in ToSet(list(i)) : p = <<i, v>>
  BY DEF Due
<1>5. \A i \in DOMAIN fleet : /\ row(i) \in Seq(Due(fleet, filed)) /\ IsInjective(row(i))
                              /\ \A p : p \in ToSet(row(i)) <=> \E v \in ToSet(list(i)) : p = <<i, v>>
  <2> TAKE i \in DOMAIN fleet
  <2> DEFINE r == row(i)
             l == list(i)
  <2>1. r = [j \in 1 .. Len(l) |-> <<i, l[j]>>] /\ Len(l) \in Nat /\ DOMAIN l = 1 .. Len(l) /\ IsInjective(l)
    BY <1>2, <1>3
  <2>2. \A p : p \in Due(fleet, filed) <=> \E k \in DOMAIN fleet : \E v \in ToSet(list(k)) : p = <<k, v>>
    BY <1>4
  <2> HIDE DEF list
  <2>3. \A j \in 1 .. Len(l) : <<i, l[j]>> \in Due(fleet, filed)
    BY <2>1, <2>2 DEF ToSet
  <2> HIDE DEF r, l
  <2>4. r \in [1 .. Len(l) -> Due(fleet, filed)] /\ \A j \in 1 .. Len(l) : r[j] = <<i, l[j]>>
    BY <2>1, <2>3
  <2>5. r \in Seq(Due(fleet, filed))
    BY <2>1, <2>4, ListOf
  <2>6. IsInjective(r)
    BY <2>1, <2>4 DEF IsInjective
  <2>7. \A p : p \in ToSet(r) <=> \E v \in ToSet(l) : p = <<i, v>>
    BY <2>1, <2>4 DEF ToSet
  <2> QED BY <2>5, <2>6, <2>7 DEF r, l
<1>6. DOMAIN seqs = DOMAIN fleet /\ \A i \in DOMAIN fleet : seqs[i] = row(i)
  OBVIOUS
<1>7. Pairs(filed) = FlattenSeq(seqs)
  BY DEF Pairs
<1>8. seqs \in Seq(Seq(Due(fleet, filed)))
  <2> HIDE DEF row
  <2>1. seqs \in [1 .. Len(fleet) -> Seq(Due(fleet, filed))]
    BY <1>1, <1>5
  <2> HIDE DEF seqs
  <2> QED BY <1>1, <2>1, ListOf
<1> HIDE DEF seqs, row, list
<1>9. \A i, j \in DOMAIN seqs : i # j => ToSet(seqs[i]) \cap ToSet(seqs[j]) = {}
  BY <1>5, <1>6
<1>10. \A p : p \in ToSet(Pairs(filed)) <=> \E i \in DOMAIN fleet : p \in ToSet(row(i))
  BY <1>6, <1>7, <1>8, Flattening
<1>11. \A p : p \in ToSet(Pairs(filed)) <=> p \in Due(fleet, filed)
  BY <1>4, <1>5, <1>10
<1>12. ToSet(Pairs(filed)) = Due(fleet, filed)
  BY <1>11
<1> QED BY <1>5, <1>6, <1>7, <1>8, <1>9, <1>12, Flattening

-----------------------------------------------------------------------------
(* Ids *)

\* The models whose ids no other serving can take.
Sound(models, m) ==
  /\ OneGroup(m) /\ NoFlagLike(m)
  /\ \A i, j \in DOMAIN models : models[i].stem = m.stem /\ models[j].stem = m.stem => i = j
  /\ \A i \in DOMAIN models : models[i] = m \/ ~(IsPrefix(models[i].id, m.id) \/ IsPrefix(m.id, models[i].id))

\* What the parts of an id are.
Words == STRING \cup {"", "t", "i", "ti", Fallback}

PlainTail(m, v) == <<Tails(m, v), <<>>>>

\* An entry is named under the id of its model, and for a sound model by what
\* it serves alone.
Well(models, e) ==
  /\ e.model \in DOMAIN models
  /\ \E rest \in Seq(Words) : e.id[1] = models[e.model].id \o rest
  /\ Sound(models, models[e.model]) =>
       /\ e.variant \in Variant(models[e.model])
       /\ e.id = <<Base(models[e.model], e.variant) \o Tails(models[e.model], e.variant), <<>>>>

LEMMA Labels ==
  ASSUME NEW m, NEW v
  PROVE  ServedFlags(m, v) \in {"", "t", "i", "ti"}
BY DEF ServedFlags, FlagsLabel

\* Two parts, either of which may be left out.
LEMMA NamesAreWords ==
  ASSUME NEW s \in Seq(STRING)
  PROVE  s \in Seq(Words) /\ \A i \in 1 .. Len(s) : s[i] \in Words
<1>1. STRING \subseteq Words
  BY DEF Words
<1>2. s \in Seq(Words)
  BY <1>1, SeqMonotonic
<1> QED BY <1>2, ElementOfSeq

LEMMA Parts ==
  ASSUME NEW a \in Words, NEW b \in Words
  PROVE  /\ Part(a) \o Part(b) \in Seq(Words)
         /\ Part(a) \o Part(b) =
              IF a = "" THEN IF b = "" THEN <<>> ELSE <<b>> ELSE IF b = "" THEN <<a>> ELSE <<a, b>>
<1>1. <<a>> \in Seq(Words) /\ <<b>> \in Seq(Words) /\ <<>> \in Seq(Words) /\ <<a, b>> \in Seq(Words)
  OBVIOUS
<1>2. <<a>> \o <<>> = <<a>> /\ <<>> \o <<b>> = <<b>> /\ <<>> \o <<>> = <<>>
  BY <1>1, ConcatEmptySeq
<1>3. <<a>> \o <<b>> = <<a, b>>
  BY Two
<1> QED BY <1>1, <1>2, <1>3 DEF Part

LEMMA VariantType ==
  ASSUME NEW m \in ModelRecord, NEW v \in Variant(m)
  PROVE  v.group \in Group /\ v.category \in Words /\ (v.category = Fallback \/ v.category \in ToSet(m.categories))
<1>1. m.groups \in Seq(Group) /\ m.categories \in Seq(STRING)
  BY DEF ModelRecord
<1>2. v.group \in ToSet(m.groups) /\ (v.category = Fallback \/ v.category \in ToSet(m.categories))
  BY DEF Variant
<1>3. ToSet(m.categories) \subseteq Words
  <2> DEFINE s == m.categories
  <2>1. s \in Seq(STRING)
    BY <1>1
  <2> HIDE DEF s
  <2>2. DOMAIN s = 1 .. Len(s)
    BY <2>1
  <2> QED BY <2>1, <2>2, NamesAreWords DEF ToSet, s
<1>4. Fallback \in Words
  BY DEF Words
<1>5. ToSet(m.groups) \subseteq Group
  BY <1>1 DEF ToSet
<1> QED BY <1>2, <1>3, <1>4, <1>5

LEMMA LabelsAreWords == \A x : x \in {"", "t", "i", "ti"} => x \in Words
BY DEF Words

LEMMA TailsType ==
  ASSUME NEW m \in ModelRecord, NEW k \in ModelRecord, NEW v \in Variant(k)
  PROVE  Tails(m, v) \in Seq(Words)
<1> DEFINE c == IF v.category = Fallback THEN "" ELSE v.category
           f == ServedFlags(m, v)
<1>1. f \in Words /\ c \in Words
  BY VariantType, Labels, LabelsAreWords
<1>2. Tails(m, v) = Part(c) \o Part(f)
  BY DEF Tails, CategoryPart
<1> HIDE DEF c, f
<1> QED BY <1>1, <1>2, Parts

\* Without categories that read as flags a tail tells the category and the
\* flags apart.
LEMMA TailsTell ==
  ASSUME NEW m \in ModelRecord, NoFlagLike(m), NEW v \in Variant(m), NEW w \in Variant(m), Tails(m, v) = Tails(m, w)
  PROVE  v.category = w.category /\ ServedFlags(m, v) = ServedFlags(m, w)
<1> DEFINE f == ServedFlags(m, v)
           g == ServedFlags(m, w)
           c == v.category
           d == w.category
           Flags == {"", "t", "i", "ti"}
<1>1. f \in Flags /\ g \in Flags
  BY Labels
<1>2. c \in Words /\ d \in Words /\ (c = Fallback \/ c \notin Flags) /\ (d = Fallback \/ d \notin Flags)
  BY VariantType DEF NoFlagLike
<1> DEFINE a == IF c = Fallback THEN "" ELSE c
           b == IF d = Fallback THEN "" ELSE d
<1>3. Part(a) \o Part(f) = Part(b) \o Part(g)
  BY DEF Tails, CategoryPart
<1> HIDE DEF f, g, c, d
<1>4. a \in Words /\ b \in Words /\ (a = "" \/ a \notin Flags) /\ (b = "" \/ b \notin Flags)
  BY <1>2, LabelsAreWords
<1>5. a = b => c = d
  BY <1>2
<1> HIDE DEF a, b
<1>6. f \in Words /\ g \in Words
  BY <1>1, LabelsAreWords
<1>7. Part(a) \o Part(f) = IF a = "" THEN IF f = "" THEN <<>> ELSE <<f>> ELSE IF f = "" THEN <<a>> ELSE <<a, f>>
  BY <1>4, <1>6, Parts
<1>8. Part(b) \o Part(g) = IF b = "" THEN IF g = "" THEN <<>> ELSE <<g>> ELSE IF g = "" THEN <<b>> ELSE <<b, g>>
  BY <1>4, <1>6, Parts
<1>9. (IF a = "" THEN IF f = "" THEN <<>> ELSE <<f>> ELSE IF f = "" THEN <<a>> ELSE <<a, f>>)
      = (IF b = "" THEN IF g = "" THEN <<>> ELSE <<g>> ELSE IF g = "" THEN <<b>> ELSE <<b, g>>)
  BY <1>3, <1>7, <1>8
<1>10. a = b /\ f = g
  <2>1. CASE a = "" /\ b = ""
    BY <1>9, <2>1
  <2>2. CASE a = "" /\ b # ""
    BY <1>1, <1>4, <1>9, <2>2
  <2>3. CASE a # "" /\ b = ""
    BY <1>1, <1>4, <1>9, <2>3
  <2>4. CASE a # "" /\ b # ""
    BY <1>9, <2>4
  <2> QED BY <2>1, <2>2, <2>3, <2>4
<1> QED BY <1>5, <1>10 DEF f, g, c, d

LEMMA IdType == ASSUME NEW m \in ModelRecord PROVE m.id \in Seq(Words)
<1>1. m.id \in Seq(STRING)
  BY DEF ModelRecord
<1> QED BY <1>1, NamesAreWords

LEMMA BaseType ==
  ASSUME NEW m \in ModelRecord, NEW k \in ModelRecord, NEW v \in Variant(k)
  PROVE  Base(m, v) \in Seq(Words) /\ \E rest \in Seq(Words) : Base(m, v) = m.id \o rest
<1> DEFINE p == v.group.profiles[1]
<1>1. v.group.profiles \in Seq(STRING) /\ v.group.profiles # <<>>
  BY VariantType DEF Group
<1>2. p \in Words
  <2> DEFINE s == v.group.profiles
  <2>1. s \in Seq(STRING) /\ s # <<>>
    BY <1>1
  <2> HIDE DEF s
  <2>2. 1 \in 1 .. Len(s)
    BY <2>1
  <2> QED BY <2>1, <2>2, NamesAreWords DEF s
<1>3. Base(m, v) = m.id \/ Base(m, v) = Append(m.id, p)
  BY DEF Base
<1> HIDE DEF p
<1> DEFINE id == m.id
<1>4. id \in Seq(Words)
  BY IdType
<1> HIDE DEF id
<1>5. id \o <<>> = id /\ Append(id, p) = id \o <<p>> /\ Append(id, p) \in Seq(Words) /\ <<p>> \in Seq(Words)
  <2>1. id \o <<>> = id
    BY <1>4, ConcatEmptySeq
  <2>2. Append(id, p) = id \o <<p>> /\ Append(id, p) \in Seq(Words)
    BY <1>2, <1>4, AppendIsConcat, AppendProperties
  <2>3. <<p>> \in Seq(Words)
    BY <1>2
  <2> QED BY <2>1, <2>2, <2>3
<1>6. Base(m, v) = id \/ Base(m, v) = Append(id, p)
  BY <1>3 DEF id
<1>7. <<>> \in Seq(Words)
  OBVIOUS
<1>8. Base(m, v) \in Seq(Words) /\ \E rest \in Seq(Words) : Base(m, v) = id \o rest
  <2>1. CASE Base(m, v) = id
    BY <1>4, <1>5, <1>7, <2>1
  <2>2. CASE Base(m, v) = Append(id, p)
    BY <1>5, <2>2
  <2> QED BY <1>6, <2>1, <2>2
<1> QED BY <1>8 DEF id

LEMMA AlonePlain ==
  ASSUME NEW taken, IsFiniteSet(taken), NEW tail, NEW key, <<tail, <<>>>> \notin taken
  PROVE  UniqueTail(taken, tail, key) = <<tail, <<>>>>
<1> DEFINE candidate(n) == <<tail, CASE n = 1 -> <<>> [] n = 2 -> <<key>> [] OTHER -> <<key, n>>>>
           T == {n \in 1 .. (Cardinality(taken) + 1) : candidate(n) \notin taken}
<1>1. Cardinality(taken) \in Nat
  BY FS_CardinalityType
<1>2. candidate(1) = <<tail, <<>>>>
  OBVIOUS
<1>3. UniqueTail(taken, tail, key) = candidate(Min(T))
  BY DEF UniqueTail
<1>4. 1 \in T /\ T \in SUBSET Nat /\ \A n \in T : 1 <= n
  BY <1>1, <1>2
<1> HIDE DEF T
<1>5. Min(T) = 1
  <2>1. T # {}
    BY <1>4
  <2>2. Min(T) \in T /\ \A n \in T : Min(T) <= n
    BY <1>4, <2>1, LeastOfSet
  <2>3. Min(T) \in Nat /\ Min(T) <= 1 /\ 1 <= Min(T)
    BY <1>4, <2>2
  <2> QED BY <2>3
<1> QED BY <1>2, <1>3, <1>5

\* Of two beginnings of one list one begins the other.
LEMMA Beginnings ==
  ASSUME NEW X, NEW s \in Seq(X), NEW t \in Seq(X), NEW x \in Seq(X), NEW y \in Seq(X), s \o x = t \o y
  PROVE  IsPrefix(s, t) \/ IsPrefix(t, s)
<1> DEFINE u == s \o x
<1>1. \A j \in 1 .. Len(s) : u[j] = s[j]
  OBVIOUS
<1>2. \A j \in 1 .. Len(t) : u[j] = t[j]
  <2>1. \A j \in 1 .. Len(t) : (t \o y)[j] = t[j]
    OBVIOUS
  <2> QED BY <2>1
<1> HIDE DEF u
<1>3. CASE Len(s) <= Len(t)
  <2>1. SubSeq(s, 1, Len(s)) = SubSeq(t, 1, Len(s))
    BY <1>1, <1>2, <1>3
  <2> QED BY <1>3, <2>1 DEF IsPrefix
<1>4. CASE Len(t) <= Len(s)
  <2>1. SubSeq(t, 1, Len(t)) = SubSeq(s, 1, Len(t))
    BY <1>1, <1>2, <1>4
  <2> QED BY <1>4, <2>1 DEF IsPrefix
<1> QED BY <1>3, <1>4

\* One model with a stem is all the models with it.
LEMMA SoundIs ==
  ASSUME fleet \in Fleets, NEW i \in DOMAIN fleet, OneGroup(fleet[i]), OwnStem(fleet[i]), Apart(fleet[i]), NoFlagLike(fleet[i])
  PROVE  Sound(fleet, fleet[i])
<1> DEFINE S == {j \in DOMAIN fleet : fleet[j].stem = fleet[i].stem}
<1>1. DOMAIN fleet = 1 .. Len(fleet) /\ Len(fleet) \in Nat
  BY FleetType
<1>2. IsFiniteSet(DOMAIN fleet)
  BY <1>1, FS_Interval
<1>3. IsFiniteSet(S) /\ Cardinality(S) = 1
  <2>1. S \subseteq DOMAIN fleet
    OBVIOUS
  <2> QED BY <1>2, <2>1, FS_Subset DEF OwnStem
<1>4. PICK x : S = {x}
  <2> HIDE DEF S
  <2> QED BY <1>3, FS_Singleton
<1>5. \A j, k \in DOMAIN fleet : fleet[j].stem = fleet[i].stem /\ fleet[k].stem = fleet[i].stem => j = k
  BY <1>4
<1> QED BY <1>5 DEF Sound, Apart

LEMMA SameServing ==
  ASSUME fleet \in Fleets, NEW d, NEW e, Well(fleet, d), Well(fleet, e), Sound(fleet, ModelOf(d)), d.id = e.id
  PROVE  Serving(d) = Serving(e)
<1> DEFINE m == ModelOf(d)
           v == d.variant
           w == e.variant
<1>1. fleet \in Seq(ModelRecord) /\ d.model \in DOMAIN fleet /\ e.model \in DOMAIN fleet
  BY FleetType DEF Well
<1>2. fleet[d.model] \in ModelRecord /\ fleet[e.model] \in ModelRecord
  BY <1>1
<1>3. e.model = d.model
  <2>1. PICK x \in Seq(Words), y \in Seq(Words) : fleet[d.model].id \o x = fleet[e.model].id \o y
    BY DEF Well, ModelOf
  <2>2. fleet[d.model].id \in Seq(Words) /\ fleet[e.model].id \in Seq(Words)
    BY <1>2, IdType
  <2>3. IsPrefix(fleet[d.model].id, fleet[e.model].id) \/ IsPrefix(fleet[e.model].id, fleet[d.model].id)
    BY <2>1, <2>2, Beginnings
  <2>4. fleet[e.model] = fleet[d.model]
    BY <1>1, <2>3 DEF Sound, ModelOf
  <2> QED BY <1>1, <2>4 DEF Sound, ModelOf
<1>4. m \in ModelRecord /\ v \in Variant(m) /\ w \in Variant(m)
  BY <1>2, <1>3 DEF Well, ModelOf
<1>5. Base(m, v) \o Tails(m, v) = Base(m, w) \o Tails(m, w)
  <2>1. d.id = <<Base(m, v) \o Tails(m, v), <<>>>>
    BY DEF Well, ModelOf
  <2>2. e.id = <<Base(m, w) \o Tails(m, w), <<>>>>
    BY <1>3 DEF Well, ModelOf
  <2> DEFINE x == Base(m, v) \o Tails(m, v)
             y == Base(m, w) \o Tails(m, w)
  <2>3. <<x, <<>>>> = <<y, <<>>>>
    BY <2>1, <2>2
  <2> HIDE DEF x, y
  <2>4. x = y
    BY <2>3
  <2> QED BY <2>4 DEF x, y
<1>6. v.group = w.group
  <2>1. DOMAIN m.groups = 1 .. 1
    BY <1>4 DEF Sound, OneGroup, ModelRecord
  <2>2. v.group \in ToSet(m.groups) /\ w.group \in ToSet(m.groups)
    BY <1>4 DEF Variant
  <2> QED BY <2>1, <2>2 DEF ToSet
<1>7. Base(m, v) \in Seq(Words) /\ Base(m, w) = Base(m, v)
  BY <1>4, <1>6, BaseType DEF Base
<1>8. Tails(m, v) \in Seq(Words) /\ Tails(m, w) \in Seq(Words)
  BY <1>4, TailsType
<1>9. Tails(m, v) = Tails(m, w)
  <2> DEFINE b == Base(m, v)
             s == Tails(m, v)
             t == Tails(m, w)
  <2>1. b \in Seq(Words) /\ s \in Seq(Words) /\ t \in Seq(Words) /\ b \o s = b \o t
    BY <1>5, <1>7, <1>8
  <2> HIDE DEF b, s, t
  <2>2. s = t
    BY <2>1, ConcatSimplifications
  <2> QED BY <2>2 DEF s, t
<1>10. v.category = w.category /\ ServedFlags(m, v) = ServedFlags(m, w)
  BY <1>4, <1>9, TailsTell DEF Sound
<1> QED BY <1>3, <1>6, <1>10 DEF Serving, ModelOf

-----------------------------------------------------------------------------
(* What is published *)

\* The stages before anything is emitted.
Quiet == {"setup", "configure", "discover", "budget", "plan"}

Complete == pc \in {"accept", "open", "write", "env"} \/ (pc = "done" /\ ~opt.probe)

Issued(built) == {<<e.model, e.variant>> : e \in built}

\* What is left to emit and what was emitted make the plan, and the tails
\* given to a sound model are those of its own entries.
Emitting ==
  /\ todo \in Seq(Due(fleet, plan)) /\ IsInjective(todo)
  /\ ToSet(todo) \cap Issued(entries) = {}
  /\ ToSet(todo) \cup Issued(entries) = Due(fleet, plan)
  /\ DOMAIN used = {fleet[i].stem : i \in DOMAIN fleet}
  /\ \A i \in DOMAIN fleet :
       /\ IsFiniteSet(used[fleet[i].stem])
       /\ Sound(fleet, fleet[i]) =>
            \A t \in used[fleet[i].stem] : \E e \in entries : e.model = i /\ t = PlainTail(fleet[i], e.variant)

Distinct ==
  \A d, e \in entries : d.id = e.id \/ (d.model = e.model /\ d.variant = e.variant) => d = e

EInv ==
  /\ fleet \in Fleets
  /\ pc \in Early \cup Late
  /\ pc # "idle" => FiledRight(fleet, plan)
  /\ pc \in Quiet => entries = {} /\ DOMAIN used = {fleet[i].stem : i \in DOMAIN fleet}
                     /\ \A i \in DOMAIN fleet : used[fleet[i].stem] = {}
  /\ pc = "emit" => Emitting
  /\ Complete => Issued(entries) = Due(fleet, plan)
  /\ Distinct
  /\ \A e \in entries \cup known : Well(fleet, e)

LEMMA EInitially == Init => EInv
BY DEF Init, EInv, Early, Late, Quiet, Complete, Distinct

\* Nothing is filed under any stem before a plan is made.
LEMMA NothingFiled ==
  ASSUME fleet \in Fleets, NEW filed, filed = [s \in Stems |-> <<>>]
  PROVE  FiledRight(fleet, filed)
BY DEF FiledRight, Stems, IsInjective, CategoriesOnce, ToSet

LEMMA EBegin == ASSUME EInv, Begin PROVE EInv'
<1>1. FiledRight(fleet, plan')
  BY NothingFiled DEF Begin, EInv
<1>2. /\ DOMAIN used' = {fleet[i].stem : i \in DOMAIN fleet}
      /\ \A i \in DOMAIN fleet : used'[fleet[i].stem] = {}
  BY DEF Begin, Stems
<1>3. pc' = "setup" /\ entries' = {} /\ fleet' = fleet /\ known' = known
  BY DEF Begin
<1> QED BY <1>1, <1>2, <1>3 DEF EInv, Early, Late, Quiet, Complete, Distinct

LEMMA EPlan == ASSUME EInv, Plan PROVE EInv'
<1>1. /\ pc = "plan" /\ pc' = "emit" /\ UNCHANGED <<fleet, opt, used, entries, known>>
      /\ \E planned \in Planned : plan' = Filed(planned) /\ todo' = Pairs(plan')
  BY DEF Plan, After
<1>2. PICK planned \in Planned : plan' = Filed(planned) /\ todo' = Pairs(plan')
  BY <1>1
<1>3. FiledRight(fleet, plan')
  BY <1>2, Filing DEF EInv
<1>4. todo' \in Seq(Due(fleet, plan')) /\ IsInjective(todo') /\ ToSet(todo') = Due(fleet, plan')
  BY <1>2, <1>3, Pairing DEF EInv
<1>5. entries = {} /\ DOMAIN used = {fleet[i].stem : i \in DOMAIN fleet} /\ \A i \in DOMAIN fleet : used[fleet[i].stem] = {}
  BY <1>1 DEF EInv, Quiet
<1>6. Issued(entries) = {}
  BY <1>5 DEF Issued
<1>7. Emitting'
  <2>1. IsFiniteSet({})
    BY FS_EmptySet
  <2> QED BY <1>1, <1>4, <1>5, <1>6, <2>1 DEF Emitting
<1> QED BY <1>1, <1>3, <1>7 DEF EInv, Early, Late, Quiet, Complete, Distinct

\* The stages that touch neither the plan nor the entries.
LEMMA EMoves ==
  ASSUME EInv, UNCHANGED <<fleet, plan, used, entries>>,
         known' = known \/ known' = known \cup entries,
         pc' \in Early \cup Late, pc # "idle", pc' # "emit",
         pc' \in Quiet => pc \in Quiet,
         Complete' => Complete \/ (pc = "emit" /\ todo = <<>>)
  PROVE  EInv'
<1>1. ASSUME pc = "emit", todo = <<>> PROVE Issued(entries) = Due(fleet, plan)
  <2>1. ToSet(<<>>) = {}
    BY DEF ToSet
  <2>2. ToSet(todo) = {}
    BY <1>1, <2>1
  <2> QED BY <1>1, <2>2 DEF EInv, Emitting
<1>2. fleet' = fleet /\ plan' = plan /\ used' = used /\ entries' = entries
  OBVIOUS
<1>3. FiledRight(fleet', plan') /\ fleet' \in Fleets
  BY <1>2 DEF EInv
<1>4. pc' \in Quiet => entries' = {} /\ DOMAIN used' = {fleet'[i].stem : i \in DOMAIN fleet'}
                      /\ \A i \in DOMAIN fleet' : used'[fleet'[i].stem] = {}
  BY <1>2 DEF EInv
<1>5. Complete' => Issued(entries') = Due(fleet', plan')
  BY <1>1, <1>2 DEF EInv
<1>6. Distinct'
  BY <1>2 DEF EInv, Distinct
<1>7. \A e \in entries' \cup known' : Well(fleet', e)
  BY <1>2 DEF EInv
<1> QED BY <1>3, <1>4, <1>5, <1>6, <1>7 DEF EInv

LEMMA EEmit == ASSUME EInv, Emit PROVE EInv'
<1> DEFINE h == Head(todo)
           i == h[1]
           v == h[2]
           m == fleet[i]
           tail == UniqueTail(used[m.stem], Tails(m, v), <<v.group.cache, v.vision>>)
           id == EntryId(m, v, tail)
           new == [id |-> id, model |-> i, variant |-> v]
<1>1. /\ pc = "emit" /\ todo # <<>> /\ todo' = Tail(todo)
      /\ used' = [used EXCEPT ![m.stem] = @ \cup {tail}]
      /\ UNCHANGED <<fleet, opt, plan, known>>
      /\ IF Taken(id) THEN pc' = "clash" /\ UNCHANGED entries
         ELSE entries' = {e \in entries : e.id # id} \cup {new} /\ UNCHANGED pc
  BY DEF Emit
<1>2. Emitting /\ FiledRight(fleet, plan) /\ fleet \in Fleets
  BY <1>1 DEF EInv
<1>3. /\ todo' \in Seq(Due(fleet, plan)) /\ IsInjective(todo')
      /\ ToSet(todo') = ToSet(todo) \ {h} /\ h \in ToSet(todo) /\ h \in Due(fleet, plan)
  BY <1>1, <1>2, Rest DEF Emitting
<1>4. i \in DOMAIN fleet /\ v \in ToSet(plan[m.stem]) /\ h = <<i, v>>
  BY <1>3 DEF Due
<1>5. PICK k \in DOMAIN fleet :
        fleet[k].stem = m.stem /\ plan[m.stem] \in Seq(Variant(fleet[k])) /\ CategoriesOnce(ToSet(plan[m.stem]))
  BY <1>2, <1>4 DEF FiledRight
<1>6. m \in ModelRecord /\ fleet[k] \in ModelRecord
  BY <1>2, <1>4, FleetType
<1>7. ToSet(plan[m.stem]) \subseteq Variant(fleet[k]) /\ v \in Variant(fleet[k])
  BY <1>4, <1>5 DEF ToSet
<1>8. tail[1] = Tails(m, v)
  BY DEF UniqueTail
<1>9. Tails(m, v) \in Seq(Words)
  BY <1>6, <1>7, TailsType
<1>10. \E rest \in Seq(Words) : id[1] = m.id \o rest
  <2> DEFINE x == IF tail[1] = <<>> /\ tail[2] # <<>> THEN <<"">> ELSE tail[1]
             b == Base(m, v)
             n == m.id
  <2>1. <<"">> \in Seq(Words)
    <3>1. \A a \in Words : <<a>> \in Seq(Words)
      OBVIOUS
    <3>2. "" \in Words
      BY LabelsAreWords
    <3> QED BY <3>1, <3>2
  <2>2. x \in Seq(Words)
    BY <1>8, <1>9, <2>1
  <2>3. id[1] = b \o x
    BY DEF EntryId
  <2>4. PICK y \in Seq(Words) : b = n \o y
    BY <1>6, <1>7, BaseType
  <2>5. n \in Seq(Words)
    BY <1>6, IdType
  <2> HIDE DEF x, b, n
  <2>6. (n \o y) \o x = n \o (y \o x) /\ y \o x \in Seq(Words)
    BY <2>2, <2>5, ConcatAssociative, ConcatProperties
  <2>7. \E rest \in Seq(Words) : b \o x = n \o rest
    BY <2>4, <2>6
  <2> QED BY <2>3, <2>7 DEF n
<1>11. <<i, v>> \notin Issued(entries)
  BY <1>2, <1>3, <1>4 DEF Emitting
<1>12. \A e \in entries : e.model = i => e.variant \in ToSet(plan[m.stem])
  <2> SUFFICES ASSUME NEW e \in entries, e.model = i PROVE e.variant \in ToSet(plan[m.stem])
    OBVIOUS
  <2>1. <<i, e.variant>> \in Due(fleet, plan)
    BY <1>2 DEF Emitting, Issued
  <2> QED BY <2>1 DEF Due
<1>13. ASSUME Sound(fleet, m)
       PROVE  v \in Variant(m) /\ tail = PlainTail(m, v)
  <2>1. fleet[k] = m
    BY <1>4, <1>5, <1>13 DEF Sound
  <2>2. PlainTail(m, v) \notin used[m.stem]
    <3> SUFFICES ASSUME PlainTail(m, v) \in used[m.stem] PROVE FALSE
      OBVIOUS
    <3>1. PICK e \in entries : e.model = i /\ PlainTail(m, v) = PlainTail(m, e.variant)
      BY <1>2, <1>4, <1>13 DEF Emitting
    <3> DEFINE w == e.variant
    <3>2. w \in ToSet(plan[m.stem]) /\ w \in Variant(m)
      BY <1>7, <1>12, <2>1, <3>1
    <3>3. Tails(m, v) = Tails(m, w)
      BY <3>1 DEF PlainTail
    <3>4. v.category = w.category
      BY <1>6, <1>7, <1>13, <2>1, <3>2, <3>3, TailsTell DEF Sound
    <3>5. v.group = w.group
      <4>1. DOMAIN m.groups = 1 .. 1
        BY <1>6, <1>13 DEF Sound, OneGroup, ModelRecord
      <4>2. v.group \in ToSet(m.groups) /\ w.group \in ToSet(m.groups)
        BY <1>7, <2>1, <3>2 DEF Variant
      <4> QED BY <4>1, <4>2 DEF ToSet
    <3>6. w = v
      BY <1>4, <1>5, <3>2, <3>4, <3>5 DEF CategoriesOnce
    <3> QED BY <1>11, <3>1, <3>6 DEF Issued
  <2>3. IsFiniteSet(used[m.stem])
    BY <1>2, <1>4 DEF Emitting
  <2> QED BY <1>7, <2>1, <2>2, <2>3, AlonePlain DEF PlainTail
<1>14. Well(fleet, new)
  <2>1. ASSUME Sound(fleet, m) PROVE v \in Variant(m) /\ id = <<Base(m, v) \o Tails(m, v), <<>>>>
    <3> DEFINE w == Tails(m, v)
               mark == tail[2]
    <3>1. v \in Variant(m) /\ tail = <<w, <<>>>>
      BY <1>13, <2>1 DEF PlainTail
    <3>2. tail[1] = w /\ mark = <<>>
      BY <3>1
    <3>3. id = <<Base(m, v) \o (IF tail[1] = <<>> /\ mark # <<>> THEN <<"">> ELSE tail[1]), mark>>
      BY DEF EntryId
    <3> HIDE DEF mark, w, tail, id
    <3>4. id = <<Base(m, v) \o w, <<>>>>
      BY <3>2, <3>3
    <3> QED BY <3>1, <3>4 DEF w
  <2>2. new.model = i /\ new.id = id /\ new.variant = v
    OBVIOUS
  <2> HIDE DEF new, id, m, v, i
  <2> QED BY <1>4, <1>10, <2>1, <2>2 DEF Well, m
<1>17. new.model = i /\ new.variant = v /\ new.id = id
  OBVIOUS
<1> HIDE DEF id, tail, new
<1>15. CASE Taken(id)
  <2>1. pc' = "clash" /\ entries' = entries
    BY <1>1, <1>15
  <2> QED BY <1>1, <2>1 DEF EInv, Early, Late, Quiet, Complete, Distinct
<1>16. CASE ~Taken(id)
  <2>1. entries' = entries \cup {new} /\ pc' = "emit"
    BY <1>1, <1>16 DEF Taken, Ids
  <2>2. Distinct'
    <3>1. \A e \in entries : e.id # id /\ ~(e.model = i /\ e.variant = v)
      BY <1>11, <1>16 DEF Taken, Ids, Issued
    <3> QED BY <1>17, <2>1, <3>1 DEF EInv, Distinct
  <2>3. Issued(entries') = Issued(entries) \cup {h}
    BY <1>4, <1>17, <2>1 DEF Issued
  <2>4. ToSet(todo') \cap Issued(entries') = {} /\ ToSet(todo') \cup Issued(entries') = Due(fleet, plan)
    BY <1>2, <1>3, <2>3 DEF Emitting
  <2>5. DOMAIN used' = {fleet[j].stem : j \in DOMAIN fleet}
    BY <1>1, <1>2 DEF Emitting
  <2>6. \A j \in DOMAIN fleet :
          /\ IsFiniteSet(used'[fleet[j].stem])
          /\ Sound(fleet, fleet[j]) =>
               \A t \in used'[fleet[j].stem] : \E e \in entries' : e.model = j /\ t = PlainTail(fleet[j], e.variant)
    <3> TAKE j \in DOMAIN fleet
    <3>1. CASE fleet[j].stem # m.stem
      <4>1. used'[fleet[j].stem] = used[fleet[j].stem]
        BY <1>1, <3>1
      <4> QED BY <1>2, <2>1, <4>1 DEF Emitting
    <3>2. CASE fleet[j].stem = m.stem
      <4>1. used'[fleet[j].stem] = used[fleet[j].stem] \cup {tail}
        BY <1>1, <1>2, <1>4, <3>2 DEF Emitting
      <4>2. IsFiniteSet(used[fleet[j].stem] \cup {tail})
        BY <1>2, FS_AddElement DEF Emitting
      <4>3. ASSUME Sound(fleet, fleet[j]), NEW t \in used'[fleet[j].stem]
            PROVE  \E e \in entries' : e.model = j /\ t = PlainTail(fleet[j], e.variant)
        <5>1. j = i
          BY <1>4, <3>2, <4>3 DEF Sound
        <5>2. CASE t \in used[fleet[j].stem]
          BY <1>2, <2>1, <4>3, <5>2 DEF Emitting
        <5>3. CASE t = tail
          <6>1. new \in entries' /\ new.model = j /\ tail = PlainTail(fleet[j], new.variant)
            BY <1>13, <1>17, <2>1, <4>3, <5>1
          <6> QED BY <5>3, <6>1
        <5> QED BY <4>1, <4>3, <5>2, <5>3
      <4> QED BY <4>1, <4>2, <4>3
    <3> QED BY <3>1, <3>2
  <2>7. Emitting'
    <3> HIDE DEF h, i, v, m
    <3>1. fleet' = fleet /\ plan' = plan
      BY <1>1
    <3> QED BY <1>3, <2>4, <2>5, <2>6, <3>1 DEF Emitting
  <2>8. \A e \in (entries \cup known)' : Well(fleet', e)
    BY <1>1, <1>14, <2>1 DEF EInv
  <2> QED BY <1>1, <2>1, <2>2, <2>7, <2>8 DEF EInv, Early, Late, Quiet, Complete
<1> QED BY <1>15, <1>16

LEMMA EInductive == EInv /\ [Next]_vars => EInv'
<1> SUFFICES ASSUME EInv, [Next]_vars PROVE EInv'
  OBVIOUS
<1> USE DEF Early, Late, Quiet, Complete
<1>1. CASE Begin
  BY <1>1, EBegin
<1>2. CASE Refuse
  BY <1>2, EMoves DEF Refuse, Gates
<1>3. CASE Advance
  BY <1>3, EMoves DEF Advance, After
<1>4. CASE Plan
  BY <1>4, EPlan
<1>5. CASE Emit
  BY <1>5, EEmit
<1>6. CASE Emitted
  BY <1>6, EMoves DEF Emitted, After
<1>7. CASE Accept
  BY <1>7, EMoves DEF Accept, After
<1>8. CASE OpenConfig
  BY <1>8, EMoves DEF OpenConfig, After
<1>9. CASE WriteConfig
  BY <1>9, EMoves DEF WriteConfig, After
<1>10. CASE WriteEnv
  BY <1>10, EMoves DEF WriteEnv, After
<1>11. CASE Fails
  BY <1>11, EMoves DEF Fails, After
<1>12. CASE UNCHANGED vars
  BY <1>12 DEF vars, EInv, Emitting, Distinct
<1> QED
  BY <1>1, <1>2, <1>3, <1>4, <1>5, <1>6, <1>7, <1>8, <1>9, <1>10, <1>11, <1>12 DEF Next

LEMMA EInvariant == Spec => []EInv
BY EInitially, EInductive, PTL DEF Spec

\* Every serving the plan holds for a model is published for it exactly once
\* and under an id no other has, for every fleet whatever it shares, every
\* plan and every history of invocations: an invocation that cannot do that
\* does not reach the outputs.
THEOREM PlanIsPublished == Spec => []PlanPublished
<1>1. EInv => PlanPublished
  <2> SUFFICES ASSUME EInv, pc \in {"accept", "open", "write", "env", "done"}, ~opt.probe,
                      NEW i \in DOMAIN fleet, NEW j \in DOMAIN plan[fleet[i].stem]
               PROVE  Cardinality({e \in entries : e.model = i /\ e.variant = plan[fleet[i].stem][j]}) = 1
    BY DEF PlanPublished, EInv, Distinct
  <2> DEFINE v == plan[fleet[i].stem][j]
             S == {e \in entries : e.model = i /\ e.variant = v}
  <2>1. Issued(entries) = Due(fleet, plan)
    BY DEF EInv, Complete
  <2>2. <<i, v>> \in Due(fleet, plan)
    BY DEF Due, ToSet
  <2>3. PICK e \in entries : e.model = i /\ e.variant = v
    BY <2>1, <2>2 DEF Issued
  <2>4. S = {e}
    BY <2>3 DEF EInv, Distinct
  <2> QED BY <2>4, FS_Singleton
<1> QED BY <1>1, EInvariant, PTL

\* An id kept from any earlier pack never comes to mean another serving, for
\* models of one profile group whose stem is theirs alone, whose id extends no
\* other's and whose categories do not look like flags, in every fleet
\* they are part of.
THEOREM SoundIdsKeepTheirMeaning == Spec => []SoundIdsStable
<1>1. EInv => SoundIdsStable
  <2> SUFFICES ASSUME EInv, NEW d \in known, NEW e \in known, d.id = e.id, OneGroup(ModelOf(d)),
                      OwnStem(ModelOf(d)), Apart(ModelOf(d)), NoFlagLike(ModelOf(d))
               PROVE  Serving(d) = Serving(e)
    BY DEF SoundIdsStable
  <2>1. fleet \in Fleets /\ Well(fleet, d) /\ Well(fleet, e)
    BY DEF EInv
  <2>2. Sound(fleet, ModelOf(d))
    BY <2>1, SoundIs DEF Well, ModelOf
  <2> QED BY <2>1, <2>2, SameServing
<1> QED BY <1>1, EInvariant, PTL

=============================================================================
