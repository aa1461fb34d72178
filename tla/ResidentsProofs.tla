--------------------------- MODULE ResidentsProofs ----------------------------
(***************************************************************************)
(* For every card and every fleet: the shared context the solve returns is *)
(* one a chat model has beside everything a set may hold before something  *)
(* is added, whatever is added afterwards leaves chat its floor, contexts  *)
(* are given up for chat only where no chat model had the tools threshold, *)
(* and the prices of the sets stay within what was found affordable.       *)
(***************************************************************************)
EXTENDS Residents, Integers, FiniteSetTheorems, SequenceTheorems, WellFoundedInduction, TLAPS

(* What is used of numbers: least and greatest elements *)

\* A set of numbers that is not empty has a least one.
LEMMA Least ==
  ASSUME NEW T \in SUBSET Nat, T # {}
  PROVE  \E x \in T : \A y \in T : x <= y
<1> DEFINE R == {ss \in Nat \X Nat : ss[1] < ss[2]}
<1>1. IsWellFoundedOn(R, Nat)
  BY NatLessThanWellFounded DEF OpToRel
<1>2. \A x, y \in Nat : <<y, x>> \in R <=> y < x
  OBVIOUS
<1> HIDE DEF R
<1>3. PICK x \in T : \A y \in T : ~(<<y, x>> \in R)
  BY <1>1, WFMin
<1>4. \A y \in T : ~(y < x)
  BY <1>2, <1>3
<1> QED BY <1>4

\* Induction, as a fact about a set: the library's states it of a predicate.
LEMMA SetInduction ==
  ASSUME NEW S, 0 \in S, \A n \in Nat : n \in S => n + 1 \in S
  PROVE  \A n \in Nat : n \in S
<1> SUFFICES ASSUME Nat \ S # {} PROVE FALSE
  OBVIOUS
<1>1. PICK x \in Nat \ S : \A y \in Nat \ S : x <= y
  BY Least
<1>2. x # 0 /\ x - 1 \in Nat
  BY <1>1
<1>3. x - 1 \in S
  BY <1>1, <1>2
<1> QED BY <1>1, <1>2, <1>3

\* A list of numbers has a greatest one.
LEMMA GreatestOfList ==
  ASSUME NEW n \in Nat \ {0}, NEW g \in [1 .. n -> Int]
  PROVE  \E i \in 1 .. n : \A j \in 1 .. n : g[j] <= g[i]
<1> DEFINE S == {k \in Nat : k \in 1 .. n => \E i \in 1 .. k : \A j \in 1 .. k : g[j] <= g[i]}
<1>1. 0 \in S
  OBVIOUS
<1>2. ASSUME NEW k \in Nat, k \in S PROVE k + 1 \in S
  <2> SUFFICES ASSUME k + 1 \in 1 .. n PROVE \E i \in 1 .. (k + 1) : \A j \in 1 .. (k + 1) : g[j] <= g[i]
    OBVIOUS
  <2>1. CASE k = 0
    BY <2>1
  <2>2. CASE k # 0
    <3>1. PICK i \in 1 .. k : \A j \in 1 .. k : g[j] <= g[i]
      BY <1>2, <2>2
    <3>2. \A j \in 1 .. (k + 1) : j \in 1 .. k \/ j = k + 1
      OBVIOUS
    <3> DEFINE last == g[k + 1]
               most == g[i]
    <3>5. last \in Int /\ most \in Int /\ \A j \in 1 .. k : g[j] \in Int
      OBVIOUS
    <3>3. CASE last <= most
      <4>1. \A j \in 1 .. (k + 1) : g[j] <= g[i]
        BY <3>1, <3>2, <3>3
      <4> QED BY <4>1
    <3>4. CASE most <= last
      <4>1. \A j \in 1 .. k : g[j] <= last
        BY <3>1, <3>4, <3>5
      <4>2. \A j \in 1 .. (k + 1) : g[j] <= g[k + 1]
        BY <3>2, <3>5, <4>1
      <4> QED BY <4>2
    <3> QED BY <3>3, <3>4, <3>5
  <2> QED BY <2>1, <2>2
<1>3. n \in S
  <2> HIDE DEF S
  <2> QED BY <1>1, <1>2, SetInduction
<1> QED BY <1>3

\* So does a finite set of numbers, and Max is it.
LEMMA GreatestOfSet ==
  ASSUME NEW T \in SUBSET Int, IsFiniteSet(T), T # {}
  PROVE  Max(T) \in T /\ \A x \in T : x <= Max(T)
<1>1. PICK g \in [1 .. Cardinality(T) -> T] : \A x \in T : \E i \in 1 .. Cardinality(T) : g[i] = x
  BY FS_CardinalityType DEF ExistsBijection, Bijection, Surjection
<1>2. Cardinality(T) \in Nat \ {0}
  BY FS_CardinalityType, FS_EmptySet
<1>3. g \in [1 .. Cardinality(T) -> Int]
  OBVIOUS
<1>4. PICK i \in 1 .. Cardinality(T) : \A j \in 1 .. Cardinality(T) : g[j] <= g[i]
  BY <1>2, <1>3, GreatestOfList
<1>5. g[i] \in T /\ \A x \in T : x <= g[i]
  BY <1>1, <1>4
<1>6. \E y \in T : \A x \in T : y >= x
  BY <1>5
<1> DEFINE m == CHOOSE y \in T : \A x \in T : y >= x
<1>7. m \in T /\ \A x \in T : m >= x
  BY <1>6
<1>8. Max(T) = m
  BY DEF Max
<1> HIDE DEF m
<1> QED BY <1>7, <1>8

-----------------------------------------------------------------------------
\* Integer division by a positive divisor rounds down.
LEMMA DivBelow ==
  ASSUME NEW n \in Int, NEW d \in Nat \ {0}
  PROVE  n \div d \in Int /\ d * (n \div d) <= n
  BY SMT

\* A product of naturals grows with a factor.
LEMMA TimesMonotone ==
  ASSUME NEW a \in Int, NEW b \in Int, NEW k \in Nat, a <= b
  PROVE  k * a <= k * b
  BY SMT

\* Rounding down never gives more.
LEMMA RoundDownBelow ==
  ASSUME NEW c \in Int
  PROVE  /\ RoundDown(c) \in Int /\ RoundDown(c) <= c
         /\ c \in Nat => RoundDown(c) \in Nat
<1>1. RoundTo \in Nat \ {0}
  BY ResidentsAssumption
<1>2. c \div RoundTo \in Int /\ RoundTo * (c \div RoundTo) <= c
  BY <1>1, DivBelow
<1>3. c \in Nat => c \div RoundTo \in Nat
  BY <1>1, SMT
<1> QED
  BY <1>1, <1>2, <1>3 DEF RoundDown

\* A greatest member is one that bounds the others.
LEMMA GreatestBounds ==
  ASSUME NEW S, NEW x \in Greatest(S)
  PROVE  x \in S /\ \A y \in S : y <= x
  BY DEF Greatest

-----------------------------------------------------------------------------
(* What the instances are *)

\* What a card and its fleet are made of.
LEMMA InstanceTyped ==
  ASSUME NEW i \in Instances
  PROVE  InstanceRecord(i)
  BY ResidentsAssumption

\* What the instance in hand is made of.
LEMMA FleetTyped ==
  ASSUME in \in Instances
  PROVE  /\ in.available \in Int
         /\ in.chats \subseteq ChatRecord
         /\ in.rag \in [Roles -> RagRecord]
         /\ \A s \in DOMAIN in.sets : in.sets[s] \subseteq Option
         /\ \A x \in DOMAIN in.categories : in.categories[x] \in Nat
         /\ \A x \in DOMAIN in.candidates : in.candidates[x] \in Nat
<1>1. InstanceRecord(in)
  BY InstanceTyped
<1> QED
  BY <1>1 DEF InstanceRecord

\* The embedding and rerank models cost what their contexts cost.
LEMMA CostTyped ==
  ASSUME in \in Instances, NEW role \in Roles, NEW c \in Nat
  PROVE  Cost(role, c) \in Nat
<1>1. in.rag[role] \in RagRecord
  BY FleetTyped
<1>2. in.rag[role].mib \in Nat /\ in.rag[role].kv \in Nat
  BY <1>1 DEF RagRecord
<1> QED
  BY <1>2 DEF Cost

\* Whichever of the two are named.
LEMMA CostOfTyped ==
  ASSUME in \in Instances, NEW roles, NEW ctx \in [Roles -> Nat]
  PROVE  CostOf(roles, ctx) \in Nat
<1>1. ctx["emb"] \in Nat /\ ctx["rnk"] \in Nat /\ "emb" \in Roles /\ "rnk" \in Roles
  BY DEF Roles
<1>2. Cost("emb", ctx["emb"]) \in Nat /\ Cost("rnk", ctx["rnk"]) \in Nat
  BY <1>1, CostTyped
<1> QED
  BY <1>2 DEF CostOf

\* An option costs a natural, and is priced at no more than what it holds.
LEMMA HeldTyped ==
  ASSUME in \in Instances, NEW o \in Option, NEW ctx \in [Roles -> Nat], NEW extra \in Nat
  PROVE  /\ Held(o, ctx, extra) \in Nat /\ Priced(o, ctx, extra) \in Nat
         /\ Priced(o, ctx, extra) <= Held(o, ctx, extra)
<1>1. CostOf(o.vars, ctx) \in Nat /\ CostOf(o.ids, ctx) \in Nat
  BY CostOfTyped
<1>2. o.fixed \in Nat /\ o.fixedIds \in Nat
  BY DEF Option
<1>3. Priced(o, ctx, extra) \in Nat
  BY <1>1, <1>2 DEF Priced
<1>4. Held(o, ctx, extra) = Priced(o, ctx, extra) + o.fixedIds + CostOf(o.ids, ctx)
  BY DEF Held
<1> QED
  BY <1>1, <1>2, <1>3, <1>4

\* Chat is charged at least what any set may hold, and no more than one does.
LEMMA OverheadCovers ==
  ASSUME in \in Instances, NEW ctx \in [Roles -> Nat], NEW extra \in Nat,
         NEW overhead \in Overheads(ctx, extra)
  PROVE  /\ overhead \in Nat /\ overhead \in Beside(ctx, extra)
         /\ \A held \in Beside(ctx, extra) : held \in Nat /\ held <= overhead
<1>1. "emb" \in Roles /\ "rnk" \in Roles /\ ctx["emb"] \in Nat /\ ctx["rnk"] \in Nat
  BY DEF Roles
<1>2. Cost("emb", ctx["emb"]) \in Nat /\ Cost("rnk", ctx["rnk"]) \in Nat
  BY <1>1, CostTyped
<1>3. CASE ~in.routed
  BY <1>2, <1>3 DEF Overheads, Beside
<1>4. CASE in.routed
  <2> DEFINE All == {0} \cup UNION {SetCost(s, ctx, extra) : s \in DOMAIN in.sets}
  <2>1. overhead \in Greatest(All)
    BY <1>4 DEF Overheads
  <2>2. overhead \in All /\ \A y \in All : y <= overhead
    BY <2>1, GreatestBounds
  <2>3. ASSUME NEW s \in DOMAIN in.sets, NEW o \in in.sets[s]
        PROVE  Held(o, ctx, extra) \in Nat
    <3>1. o \in Option
      BY FleetTyped
    <3> QED
      BY <3>1, HeldTyped
  <2>4. \A y \in All : y \in Nat
    BY <2>3 DEF SetCost
  <2>5. \A s \in DOMAIN in.sets : \A o \in in.sets[s] : Held(o, ctx, extra) \in All
    BY DEF SetCost
  <2>6. 0 \in All
    OBVIOUS
  <2>8. \A y \in All : y \in Beside(ctx, extra)
    BY <1>4 DEF SetCost, Beside
  <2> HIDE DEF All
  <2>7. \A held \in Beside(ctx, extra) : held \in All
    BY <1>4, <2>5, <2>6 DEF Beside
  <2> QED
    BY <2>2, <2>4, <2>7, <2>8
<1> QED
  BY <1>3, <1>4

-----------------------------------------------------------------------------
(* What the solve returns *)

\* An offer is affordable to the model that makes it.
LEMMA OfferAffordable ==
  ASSUME in \in Instances, NEW overhead \in Nat, NEW m \in Offering(overhead)
  PROVE  LET c == Lesser(RoundDown(Raw(m, overhead)), m.design) IN
         /\ c \in Nat /\ c <= m.design
         /\ Need(m, c) \in Int /\ Need(m, c) + overhead <= in.available
<1> DEFINE c == Lesser(RoundDown(Raw(m, overhead)), m.design)
           d == m.kv * m.par
           n == in.available - overhead - m.mib - m.slot * m.par
           q == n \div d
<1>1. m \in in.chats /\ m.kv > 0
  BY DEF Offering
<1>2. m \in ChatRecord /\ in.available \in Int
  BY <1>1, FleetTyped
<1>3. /\ m.mib \in Nat /\ m.kv \in Nat /\ m.slot \in Nat
      /\ m.par \in Nat \ {0} /\ m.design \in Nat \ {0}
  BY <1>2 DEF ChatRecord
<1>4. n \in Int /\ d \in Nat \ {0} /\ m.slot * m.par \in Nat
  BY <1>1, <1>2, <1>3
<1>5. q \in Int /\ d * q <= n
  BY <1>4, DivBelow
<1>6. Raw(m, overhead) = q
  BY DEF Raw
<1>7. q \in Nat /\ RoundDown(q) \in Nat /\ RoundDown(q) <= q
  <2>1. q >= MinCtx /\ MinCtx \in Nat
    BY <1>6, ResidentsAssumption DEF Offering
  <2>2. q \in Nat
    BY <1>5, <2>1
  <2> QED
    BY <2>2, RoundDownBelow
<1>8. c \in Nat /\ c <= q /\ c <= m.design
  BY <1>3, <1>6, <1>7 DEF Lesser
<1>9. Need(m, c) = m.mib + m.slot * m.par + d * c
  BY DEF Need
<1>10. n = in.available - overhead - m.mib - m.slot * m.par
  OBVIOUS
<1> HIDE DEF c, d, q, n
<1>11. d * c <= d * q /\ d * c \in Int /\ d * q \in Int
  BY <1>4, <1>5, <1>8, TimesMonotone
<1>12. d * c <= n
  BY <1>4, <1>5, <1>11
<1>13. Need(m, c) \in Int /\ Need(m, c) + overhead <= in.available
  BY <1>2, <1>3, <1>4, <1>9, <1>10, <1>11, <1>12
<1> QED
  BY <1>8, <1>13 DEF c

\* A solution is a natural, and above the minimum some model affords it.
LEMMA SolutionServed ==
  ASSUME in \in Instances, NEW ctx \in [Roles -> Nat], NEW extra \in Nat,
         NEW overhead \in Overheads(ctx, extra), NEW c \in Solutions(overhead)
  PROVE  c \in Nat /\ (c > MinCtx => Bears(ctx, c, extra))
<1>1. overhead \in Nat /\ \A held \in Beside(ctx, extra) : held \in Nat /\ held <= overhead
  BY OverheadCovers
<1>2. MinCtx \in Nat
  BY ResidentsAssumption
<1>3. CASE Offers(overhead) \subseteq {0}
  BY <1>2, <1>3 DEF Solutions
<1>4. CASE ~(Offers(overhead) \subseteq {0})
  <2>1. c \in Offers(overhead)
    BY <1>4, GreatestBounds DEF Solutions
  <2>2. PICK m \in Offering(overhead) : c = Lesser(RoundDown(Raw(m, overhead)), m.design)
    BY <2>1 DEF Offers
  <2>3. /\ c \in Nat /\ c <= m.design
        /\ Need(m, c) \in Int /\ Need(m, c) + overhead <= in.available
    BY <1>1, <2>2, OfferAffordable
  <2>4. m \in in.chats /\ m.kv > 0 /\ in.available \in Int
    BY FleetTyped DEF Offering
  <2>5. \A held \in Beside(ctx, extra) : Need(m, c) + held <= in.available
    BY <1>1, <2>3, <2>4
  <2> QED
    BY <2>3, <2>4, <2>5 DEF Bears, Affords
<1> QED
  BY <1>3, <1>4

\* Who bears a context bears a smaller one.
LEMMA BearsLess ==
  ASSUME in \in Instances, NEW ctx \in [Roles -> Nat], NEW extra \in Nat,
         NEW c \in Int, NEW g \in Int, g <= c, Bears(ctx, c, extra),
         \A held \in Beside(ctx, extra) : held \in Nat
  PROVE  Bears(ctx, g, extra)
<1>0. PICK m \in in.chats : \A held \in Beside(ctx, extra) : Affords(m, c, held)
  BY DEF Bears
<1>2. m \in ChatRecord /\ in.available \in Int
  BY FleetTyped
<1>3. /\ m.mib \in Nat /\ m.kv \in Nat /\ m.slot \in Nat
      /\ m.par \in Nat \ {0} /\ m.design \in Nat \ {0}
  BY <1>2 DEF ChatRecord
<1> DEFINE d == m.kv * m.par
           b == m.mib + m.slot * m.par
<1>4. d \in Nat /\ b \in Nat
  BY <1>3
<1>5. Need(m, c) = b + d * c /\ Need(m, g) = b + d * g
  BY DEF Need
<1> HIDE DEF d, b
<1>6. d * g <= d * c /\ d * g \in Int /\ d * c \in Int
  BY <1>4, TimesMonotone
<1>7. Need(m, g) \in Int /\ Need(m, c) \in Int /\ Need(m, g) <= Need(m, c)
  BY <1>4, <1>5, <1>6
<1>8. ASSUME NEW held \in Beside(ctx, extra) PROVE Affords(m, g, held)
  <2>1. m.kv > 0 /\ c <= m.design /\ Need(m, c) + held <= in.available /\ held \in Nat
    BY <1>0 DEF Affords
  <2>2. Need(m, g) + held <= in.available
    BY <1>2, <1>7, <2>1
  <2>3. g <= m.design
    BY <1>3, <2>1
  <2> QED
    BY <2>1, <2>2, <2>3 DEF Affords
<1> QED
  BY <1>0, <1>8 DEF Bears

\* Nothing but the fleet and the contexts decides who bears what.
LEMMA BearsKept ==
  ASSUME in' = in, NEW ctx, NEW c, NEW extra
  PROVE  Bears(ctx, c, extra)' <=> Bears(ctx, c, extra)
  BY DEF Bears, Affords, Beside, Held, Priced, CostOf, Cost, Need

-----------------------------------------------------------------------------
(* A context some model bears is one the solve finds *)

\* Rounding up to a step and then down from there or above loses nothing.
LEMMA RoundUpKept ==
  ASSUME NEW c \in Nat, NEW n \in Int, RoundUp(c) <= n
  PROVE  /\ RoundUp(c) \in Nat /\ c <= RoundUp(c)
         /\ RoundDown(n) \in Int /\ RoundUp(c) <= RoundDown(n)
<1>1. RoundTo \in Nat \ {0}
  BY ResidentsAssumption
<1> DEFINE k == (c + RoundTo - 1) \div RoundTo
           q == n \div RoundTo
<1>2. k \in Nat /\ c <= RoundTo * k
  BY <1>1, SMT
<1>3. q \in Int /\ RoundTo * q <= n /\ n < RoundTo * (q + 1)
  BY <1>1, SMT
<1>4. RoundUp(c) = k * RoundTo /\ RoundDown(n) = q * RoundTo
  BY DEF RoundUp, RoundDown
<1> HIDE DEF k, q
<1>5. k * RoundTo = RoundTo * k /\ q * RoundTo = RoundTo * q
  BY <1>1, <1>2, <1>3
<1>6. k * RoundTo \in Nat /\ q * RoundTo \in Int
  BY <1>1, <1>2, <1>3
<1>7. k <= q
  <2> SUFFICES ASSUME q + 1 <= k PROVE FALSE
    BY <1>2, <1>3
  <2>1. RoundTo * (q + 1) <= RoundTo * k /\ RoundTo * (q + 1) \in Int
    BY <1>1, <1>2, <1>3, TimesMonotone
  <2> QED
    BY <1>3, <1>4, <1>5, <1>6, <2>1
<1>8. RoundTo * k <= RoundTo * q
  BY <1>1, <1>2, <1>3, <1>7, TimesMonotone
<1> QED
  BY <1>2, <1>4, <1>5, <1>6, <1>8

\* Who affords a context from the minimum on offers as much, if not more.
LEMMA AffordedIsOffered ==
  ASSUME in \in Instances, NEW overhead \in Nat, NEW m \in in.chats, NEW c \in Nat,
         MinCtx <= c, Affords(m, c, overhead)
  PROVE  m \in Offering(overhead) /\ Raw(m, overhead) \in Int /\ c <= Raw(m, overhead)
<1> DEFINE d == m.kv * m.par
           n == in.available - overhead - m.mib - m.slot * m.par
           q == n \div d
<1>1. m \in ChatRecord /\ in.available \in Int /\ MinCtx \in Nat \ {0}
  BY FleetTyped, ResidentsAssumption
<1>2. /\ m.mib \in Nat /\ m.kv \in Nat /\ m.slot \in Nat
      /\ m.par \in Nat \ {0} /\ m.design \in Nat \ {0}
  BY <1>1 DEF ChatRecord
<1>3. m.kv > 0 /\ Need(m, c) + overhead <= in.available
  BY DEF Affords
<1>4. n \in Int /\ d \in Nat \ {0} /\ m.slot * m.par \in Nat
  BY <1>1, <1>2, <1>3
<1>5. Need(m, c) = m.mib + m.slot * m.par + d * c
  BY DEF Need
<1>6. q \in Int /\ n < d * (q + 1) /\ d * (q + 1) \in Int
  BY <1>4, SMT
<1>7. Raw(m, overhead) = q
  BY DEF Raw
<1>8. n = in.available - overhead - m.mib - m.slot * m.par
  OBVIOUS
<1> HIDE DEF d, n, q
<1>9. d * c \in Nat /\ d * c <= n
  BY <1>1, <1>2, <1>3, <1>4, <1>5, <1>8
<1>10. c <= q
  <2> SUFFICES ASSUME q + 1 <= c PROVE FALSE
    BY <1>6
  <2>1. d * (q + 1) <= d * c
    BY <1>4, <1>6, TimesMonotone
  <2> QED
    BY <1>4, <1>6, <1>9, <2>1
<1>11. in.available - overhead - m.mib > 0
  <2> DEFINE own == m.slot * m.par
             buys == d * c
  <2>1. own \in Nat /\ buys \in Nat /\ buys <= n /\ n = in.available - overhead - m.mib - own
    BY <1>4, <1>8, <1>9
  <2>2. buys > 0
    BY <1>1, <1>4
  <2> HIDE DEF own, buys
  <2> QED
    BY <1>1, <1>2, <1>4, <2>1, <2>2
<1>12. Raw(m, overhead) >= MinCtx
  BY <1>1, <1>6, <1>7, <1>10
<1> QED
  BY <1>3, <1>6, <1>7, <1>10, <1>11, <1>12 DEF Offering

\* So the solve reaches what any model bears in whole steps.
LEMMA SolutionReaches ==
  ASSUME in \in Instances, NEW ctx \in [Roles -> Nat], NEW extra \in Nat,
         NEW overhead \in Overheads(ctx, extra), NEW c \in Solutions(overhead),
         NEW t \in Nat, MinCtx < t, Bears(ctx, RoundUp(t), extra)
  PROVE  t <= c
<1> DEFINE u == RoundUp(t)
<1>1. overhead \in Nat /\ overhead \in Beside(ctx, extra)
  BY OverheadCovers
<1>2. PICK m \in in.chats : Affords(m, u, overhead)
  BY <1>1 DEF Bears
<1>3. u \in Nat /\ t <= u /\ MinCtx \in Nat
  <2>1. u <= u /\ u \in Int
    BY ResidentsAssumption, SMT DEF RoundUp
  <2> QED BY <2>1, RoundUpKept, ResidentsAssumption
<1> HIDE DEF u
<1>4. m \in Offering(overhead) /\ Raw(m, overhead) \in Int /\ u <= Raw(m, overhead)
  BY <1>1, <1>2, <1>3, AffordedIsOffered
<1> DEFINE offer == Lesser(RoundDown(Raw(m, overhead)), m.design)
<1>5. offer \in Offers(overhead)
  BY <1>4 DEF Offers
<1>6. RoundDown(Raw(m, overhead)) \in Int /\ u <= RoundDown(Raw(m, overhead))
  BY <1>4, RoundUpKept DEF u
<1>7. m.design \in Nat /\ u <= m.design
  <2>1. m \in ChatRecord
    BY FleetTyped
  <2> QED BY <1>2, <2>1 DEF ChatRecord, Affords
<1>8. offer \in Int /\ u <= offer
  BY <1>6, <1>7 DEF Lesser
<1> HIDE DEF offer
<1>9. ~(Offers(overhead) \subseteq {0})
  BY <1>3, <1>5, <1>8
<1>10. c \in Greatest(Offers(overhead))
  BY <1>9 DEF Solutions
<1>11. offer <= c
  BY <1>5, <1>10, GreatestBounds
<1>12. c \in Nat
  BY SolutionServed
<1> QED
  BY <1>3, <1>8, <1>11, <1>12

-----------------------------------------------------------------------------
(* The invariant *)

\* What may be added.
Additions == IF in.routed THEN DOMAIN in.candidates ELSE DOMAIN in.categories

\* A squeeze takes contexts to its minimum at most.
YieldedAtMost ==
  \A role \in Roles : rag[role] \in {ServedAt(role), Lesser(ServedAt(role), ColoadMin)}

\* What the passes have done when, and what holds of what they leave.
Inv ==
  /\ TypeOK
  /\ in \in Instances /\ left \subseteq Additions
  /\ pc \in {"baseline", "squeeze"} => ~squeezed /\ rag = Configured
  /\ YieldedAtMost
  /\ pc \in {"baseline", "squeeze", "floor"} => used = 0
  /\ pc = "add" => floor \in {ToolsMin, MinChat}
  /\ SharedContextServed
  /\ AdditionsKeepFloor
  /\ SqueezeNeeded

\* Contexts served are naturals.
LEMMA ConfiguredTyped ==
  ASSUME in \in Instances
  PROVE  Configured \in [Roles -> Nat]
<1>1. ASSUME NEW role \in Roles
      PROVE  ServedAt(role) \in Nat
  <2>1. in.rag[role] \in RagRecord /\ RagCap[role] \in Nat
    BY FleetTyped, ResidentsAssumption
  <2>2. in.rag[role].design \in Nat /\ in.rag[role].cap \in Nat
    BY <2>1 DEF RagRecord
  <2> QED
    BY <2>1, <2>2 DEF ServedAt, Lesser
<1> QED
  BY <1>1 DEF Configured

\* So are contexts squeezed.
LEMMA SqueezableTyped ==
  ASSUME rag \in [Roles -> Nat]
  PROVE  Squeezable \in [Roles -> Nat]
  BY ResidentsAssumption DEF Squeezable, Lesser

\* The size of what is tried is a natural.
LEMMA SizeTyped ==
  ASSUME in \in Instances, NEW x \in Additions
  PROVE  Size(x) \in Nat
  BY FleetTyped DEF Size, Additions

\* What was configured does not move with the passes, nor who bears what
\* beside it.
LEMMA ConfiguredKept ==
  ASSUME in' = in
  PROVE  /\ Configured' = Configured
         /\ \A role \in Roles : ServedAt(role)' = ServedAt(role)
         /\ Bears(Configured, RoundUp(ToolsMin), 0)' <=> Bears(Configured, RoundUp(ToolsMin), 0)
<1>1. Configured' = Configured
  BY DEF Configured, ServedAt
<1>2. \A role \in Roles : ServedAt(role)' = ServedAt(role)
  BY DEF ServedAt
<1>3. ASSUME NEW ctx, NEW c PROVE Bears(ctx, c, 0)' <=> Bears(ctx, c, 0)
  BY BearsKept
<1>4. Bears(Configured, RoundUp(ToolsMin), 0)' <=> Bears(Configured, RoundUp(ToolsMin), 0)
  BY <1>1 DEF Bears, Affords, Beside, Held, Priced, CostOf, Cost, Need, RoundUp
<1> QED
  BY <1>1, <1>2, <1>4

\* A context that is served stays served as long as the fleet and the
\* contexts stay what they are.
LEMMA UntouchedKeeps ==
  ASSUME Inv, in' = in, rag' = rag, chat' = chat, squeezed' = squeezed,
         floor' = floor, used' = used, pc # "baseline"
  PROVE  SharedContextServed' /\ AdditionsKeepFloor' /\ SqueezeNeeded' /\ YieldedAtMost'
<1>1. Bears(rag, chat, 0)' <=> Bears(rag, chat, 0)
  BY BearsKept
<1>2. Bears(rag, floor, used)' <=> Bears(rag, floor, used)
  BY BearsKept
<1>3. SharedContextServed'
  BY <1>1 DEF Inv, SharedContextServed
<1>4. AdditionsKeepFloor'
  BY <1>2 DEF Inv, AdditionsKeepFloor
<1>5. SqueezeNeeded'
  BY ConfiguredKept DEF Inv, SqueezeNeeded
<1>6. YieldedAtMost'
  BY ConfiguredKept DEF Inv, YieldedAtMost
<1> QED
  BY <1>3, <1>4, <1>5, <1>6

-----------------------------------------------------------------------------
(* One lemma per action *)

\* The initial state.
LEMMA InitInv == Init => Inv
<1> SUFFICES ASSUME Init PROVE Inv
  OBVIOUS
<1>1. Configured \in [Roles -> Nat]
  BY ConfiguredTyped DEF Init
<1>2. TypeOK
  BY <1>1 DEF Init, TypeOK
<1>3. SharedContextServed /\ AdditionsKeepFloor /\ SqueezeNeeded
  BY DEF Init, SharedContextServed, AdditionsKeepFloor, SqueezeNeeded
<1>4. YieldedAtMost
  BY DEF Init, YieldedAtMost, Configured
<1> QED
  BY <1>2, <1>3, <1>4 DEF Init, Inv

\* The baseline is served beside what the models are configured for, and
\* reaches the tools threshold when any model does.
LEMMA BaselineKeeps ==
  ASSUME Inv, Baseline
  PROVE  Inv'
<1>1. rag \in [Roles -> Nat] /\ in \in Instances /\ 0 \in Nat
  BY DEF Inv, TypeOK
<1>2a. PICK overhead \in Overheads(rag, 0) : \E c \in Solutions(overhead) : chat' = c
  BY DEF Baseline
<1>2. PICK c \in Solutions(overhead) : chat' = c
  BY <1>2a
<1>3. c \in Nat /\ (c > MinCtx => Bears(rag, c, 0))
  BY <1>1, <1>2, SolutionServed
<1>4. /\ in' = in /\ rag' = rag /\ squeezed' = squeezed /\ floor' = floor /\ used' = used
      /\ left' = left /\ pc = "baseline" /\ pc' = "squeeze" /\ used = 0
      /\ ~squeezed /\ rag = Configured
  BY DEF Baseline, Inv
<1>5. Bears(rag, c, 0)' <=> Bears(rag, c, 0)
  BY <1>4, BearsKept
<1>6. SharedContextServed'
  BY <1>2, <1>3, <1>4, <1>5 DEF SharedContextServed, Bears
<1>7. AdditionsKeepFloor'
  BY <1>4 DEF AdditionsKeepFloor, Inv, TypeOK
<1>8. SqueezeNeeded'
  <2>1. ToolsMin \in Nat /\ MinCtx < ToolsMin
    BY ResidentsAssumption
  <2>2. Bears(rag, RoundUp(ToolsMin), 0) => ToolsMin <= c
    BY <1>1, <1>2, <2>1, SolutionReaches
  <2> QED
    BY <1>2, <1>3, <1>4, <2>1, <2>2, ConfiguredKept DEF SqueezeNeeded
<1>9. TypeOK'
  BY <1>2, <1>3, <1>4 DEF TypeOK, Inv
<1>10. YieldedAtMost'
  BY <1>4, ConfiguredKept DEF Inv, YieldedAtMost
<1>11. Configured' = Configured
  BY <1>4, ConfiguredKept
<1> QED
  BY <1>4, <1>6, <1>7, <1>8, <1>9, <1>10, <1>11 DEF Inv, Additions

\* The squeeze is served beside what it leaves the models.
LEMMA SqueezeKeeps ==
  ASSUME Inv, Squeeze
  PROVE  Inv'
<1>1. rag \in [Roles -> Nat] /\ in \in Instances /\ 0 \in Nat
  BY DEF Inv, TypeOK
<1>2. Squeezable \in [Roles -> Nat]
  BY <1>1, SqueezableTyped
<1>3a. PICK overhead \in Overheads(Squeezable, 0) : \E c \in Solutions(overhead) : c - chat >= GainMin /\ chat' = c
  BY DEF Squeeze, SqueezedChat
<1>3. PICK c \in Solutions(overhead) : c - chat >= GainMin /\ chat' = c
  BY <1>3a
<1>4. c \in Nat /\ (c > MinCtx => Bears(Squeezable, c, 0))
  BY <1>1, <1>2, <1>3, SolutionServed
<1>5. in' = in /\ rag' = Squeezable /\ squeezed' = TRUE /\ floor' = floor /\ used' = used
      /\ left' = left /\ pc = "squeeze" /\ pc' = "floor"
      /\ ~squeezed /\ used = 0 /\ chat < ToolsMin /\ rag = Configured
  BY DEF Squeeze, Inv
<1>6. Bears(Squeezable, c, 0) => Bears(rag, chat, 0)'
  BY <1>3, <1>5 DEF Bears, Affords, Beside, Held, Priced, CostOf, Cost, Need
<1>7. SharedContextServed'
  BY <1>3, <1>4, <1>5, <1>6 DEF SharedContextServed
<1>8. AdditionsKeepFloor'
  BY <1>5 DEF AdditionsKeepFloor
<1>9. SqueezeNeeded'
  BY <1>5, ConfiguredKept DEF Inv, SqueezeNeeded
<1>10. TypeOK'
  BY <1>2, <1>3, <1>4, <1>5 DEF TypeOK, Inv
<1>11. YieldedAtMost'
  <2>1. \A role \in Roles : rag'[role] = Lesser(ServedAt(role), ColoadMin)
    BY <1>5 DEF Squeezable, Configured
  <2> QED
    BY <1>5, <2>1, ConfiguredKept DEF YieldedAtMost
<1> QED
  BY <1>5, <1>7, <1>8, <1>9, <1>10, <1>11 DEF Inv, Additions

\* Without a squeeze the baseline stands.
LEMMA NoSqueezeKeeps ==
  ASSUME Inv, NoSqueeze
  PROVE  Inv'
<1>1. SharedContextServed' /\ AdditionsKeepFloor' /\ SqueezeNeeded' /\ YieldedAtMost'
  BY UntouchedKeeps DEF NoSqueeze
<1>2. TypeOK'
  BY DEF NoSqueeze, Inv, TypeOK
<1> QED
  BY <1>1, <1>2 DEF NoSqueeze, Inv, Additions

\* The floor is one of two, and nothing is held to it yet.
LEMMA SetFloorKeeps ==
  ASSUME Inv, SetFloor
  PROVE  Inv'
<1>1. /\ pc = "floor" /\ used = 0 /\ used' = 0 /\ in' = in /\ rag' = rag /\ chat' = chat
      /\ squeezed' = squeezed /\ pc' \in {"price", "add"}
      /\ floor' \in {ToolsMin, MinChat}
  BY DEF SetFloor, Inv, Floor
<1>2. Bears(rag, chat, 0)' <=> Bears(rag, chat, 0)
  BY <1>1, BearsKept
<1>3. SharedContextServed'
  BY <1>1, <1>2 DEF Inv, SharedContextServed
<1>4. AdditionsKeepFloor'
  BY <1>1 DEF AdditionsKeepFloor
<1>5. SqueezeNeeded' /\ YieldedAtMost'
  BY <1>1, ConfiguredKept DEF Inv, SqueezeNeeded, YieldedAtMost
<1>6. TypeOK'
  BY <1>1, ResidentsAssumption DEF TypeOK, Inv
<1>7. left' \subseteq Additions'
  BY <1>1 DEF SetFloor, Additions
<1> QED
  BY <1>1, <1>3, <1>4, <1>5, <1>6, <1>7 DEF Inv

\* Whatever is added, with all that was added before, leaves chat its floor.
LEMMA AddKeeps ==
  ASSUME Inv, NEW x \in left, Add(x)
  PROVE  Inv'
<1>1. /\ rag \in [Roles -> Nat] /\ in \in Instances /\ used \in Nat /\ pc = "add"
      /\ floor \in {ToolsMin, MinChat} /\ x \in Additions
  BY DEF Inv, TypeOK, Add
<1>2. /\ in' = in /\ rag' = rag /\ chat' = chat /\ squeezed' = squeezed
      /\ floor' = floor /\ used' = used + Size(x) /\ left' = left \ {x} /\ pc' = pc
  BY DEF Add
<1>3. used + Size(x) \in Nat
  BY <1>1, SizeTyped
<1> DEFINE total == used + Size(x)
<1> HIDE DEF total
<1>4a. PICK overhead \in Overheads(rag, total) : \E c \in Solutions(overhead) : c >= floor
  BY DEF Add, Fits, total
<1>4. PICK c \in Solutions(overhead) : c >= floor
  BY <1>4a
<1>5. total \in Nat
  BY <1>3 DEF total
<1>6. c \in Nat /\ (c > MinCtx => Bears(rag, c, total))
  BY <1>1, <1>4, <1>5, SolutionServed
<1>7. floor \in Nat /\ floor > MinCtx
  BY <1>1, ResidentsAssumption
<1>8. c > MinCtx
  BY <1>4, <1>6, <1>7, ResidentsAssumption
<1>9. \A held \in Beside(rag, total) : held \in Nat
  BY <1>1, <1>4, <1>5, OverheadCovers
<1>10. Bears(rag, floor, total)
  BY <1>1, <1>4, <1>5, <1>6, <1>7, <1>8, <1>9, BearsLess
<1>12. AdditionsKeepFloor'
  BY <1>2, <1>10 DEF AdditionsKeepFloor, Bears, Affords, Beside, Held, Priced, CostOf, Cost, Need, total
<1>13. Bears(rag, chat, 0)' <=> Bears(rag, chat, 0)
  BY <1>2, BearsKept
<1>14. SharedContextServed'
  BY <1>1, <1>2, <1>13 DEF Inv, SharedContextServed
<1>15. SqueezeNeeded' /\ YieldedAtMost'
  BY <1>1, <1>2, ConfiguredKept DEF Inv, SqueezeNeeded, YieldedAtMost
<1>16. TypeOK'
  BY <1>2, <1>3 DEF Inv, TypeOK
<1> QED
  BY <1>1, <1>2, <1>12, <1>14, <1>15, <1>16 DEF Inv, Additions

\* What is skipped changes nothing.
LEMMA SkipKeeps ==
  ASSUME Inv, NEW x \in left, Skip(x)
  PROVE  Inv'
<1>1. SharedContextServed' /\ AdditionsKeepFloor' /\ SqueezeNeeded' /\ YieldedAtMost'
  BY UntouchedKeeps DEF Skip
<1>2. TypeOK'
  BY DEF Skip, Inv, TypeOK
<1> QED
  BY <1>1, <1>2 DEF Skip, Inv, Additions

\* Nor do the end of the additions and the pricing.
LEMMA EndKeeps ==
  ASSUME Inv, Added \/ Price
  PROVE  Inv'
<1>1. SharedContextServed' /\ AdditionsKeepFloor' /\ SqueezeNeeded' /\ YieldedAtMost'
  BY UntouchedKeeps DEF Added, Price
<1>2. TypeOK'
  BY DEF Added, Price, Inv, TypeOK
<1> QED
  BY <1>1, <1>2 DEF Added, Price, Inv, Additions

\* A stutter keeps everything.
LEMMA StutterKeeps ==
  ASSUME Inv, UNCHANGED vars
  PROVE  Inv'
<1>1. Bears(rag, chat, 0)' <=> Bears(rag, chat, 0)
  BY BearsKept DEF vars
<1>2. Bears(rag, floor, used)' <=> Bears(rag, floor, used)
  BY BearsKept DEF vars
<1>3. SharedContextServed'
  BY <1>1 DEF Inv, SharedContextServed, vars
<1>4. AdditionsKeepFloor'
  BY <1>2 DEF Inv, AdditionsKeepFloor, vars
<1>5. SqueezeNeeded' /\ YieldedAtMost' /\ Configured' = Configured
  BY ConfiguredKept DEF Inv, SqueezeNeeded, YieldedAtMost, vars
<1>6. TypeOK'
  BY DEF Inv, TypeOK, vars
<1> QED
  BY <1>3, <1>4, <1>5, <1>6 DEF Inv, Additions, vars

\* The invariant holds of every run.
THEOREM InvHolds == Spec => []Inv
<1>1. Init => Inv
  BY InitInv
<1>2. Inv /\ [Next]_vars => Inv'
  BY BaselineKeeps, SqueezeKeeps, NoSqueezeKeeps, SetFloorKeeps, AddKeeps, SkipKeeps, EndKeeps,
     StutterKeeps DEF Next
<1> QED
  BY <1>1, <1>2, PTL DEF Spec

\* The types, for every instance.
THEOREM TypesHold == Spec => []TypeOK
<1>1. Inv => TypeOK
  BY DEF Inv
<1> QED
  BY <1>1, InvHolds, PTL

\* A chat model has the shared context beside the worst of the sets, before
\* anything is added.
THEOREM SharedContextIsServed == Spec => []SharedContextServed
<1>1. Inv => SharedContextServed
  BY DEF Inv
<1> QED
  BY <1>1, InvHolds, PTL

\* Chat keeps its floor beside whatever was added.
THEOREM AdditionsKeepTheFloor == Spec => []AdditionsKeepFloor
<1>1. Inv => AdditionsKeepFloor
  BY DEF Inv
<1> QED
  BY <1>1, InvHolds, PTL

\* Chat is left below the tools threshold, and contexts are given up for it,
\* only where no chat model had the threshold beside what was configured.
THEOREM SqueezeIsNeeded == Spec => []SqueezeNeeded
<1>1. Inv => SqueezeNeeded
  BY DEF Inv
<1> QED
  BY <1>1, InvHolds, PTL

-----------------------------------------------------------------------------
(* The price of a set *)

\* What a function gives of a finite set is finite.
LEMMA ImageFinite ==
  ASSUME NEW S, IsFiniteSet(S), NEW f, DOMAIN f = S, f = [x \in S |-> f[x]]
  PROVE  IsFiniteSet({f[x] : x \in S})
<1> DEFINE T == {f[x] : x \in S}
<1>1. f \in Surjection(S, T)
  BY DEF Surjection
<1> QED BY <1>1, FS_Surjection

\* A set of finitely many options has a price, that of an option or nothing.
LEMMA PriceOfOption ==
  ASSUME in \in Instances, PricedAt \in [Roles -> Nat], used \in Nat, NEW s \in DOMAIN in.sets
  PROVE  PriceOf(s) \in {0} \cup {Priced(o, PricedAt, used) : o \in in.sets[s]}
<1> DEFINE S == in.sets[s]
           cost == [o \in S |-> Priced(o, PricedAt, used)]
           T == {cost[o] : o \in S}
<1>1. IsFiniteSet(S) /\ S \subseteq Option
  BY InstanceTyped, FleetTyped DEF InstanceRecord
<1>2. \A o \in S : cost[o] = Priced(o, PricedAt, used) /\ cost[o] \in Nat
  BY <1>1, HeldTyped
<1>3. {Priced(o, PricedAt, used) : o \in S} = T
  BY <1>2
<1>4. DOMAIN cost = S /\ cost = [o \in S |-> cost[o]]
  OBVIOUS
<1>5. PriceOf(s) = Max({0} \cup {Priced(o, PricedAt, used) : o \in S})
  BY DEF PriceOf
<1> HIDE DEF cost, S
<1>6. IsFiniteSet(T)
  BY <1>1, <1>4, ImageFinite
<1>7. T \subseteq Nat
  BY <1>2
<1> HIDE DEF T
<1>8. IsFiniteSet({0} \cup T)
  <2>1. IsFiniteSet(T \cup {0}) /\ T \cup {0} = {0} \cup T
    BY <1>6, FS_AddElement
  <2> QED BY <2>1
<1>9. Max({0} \cup T) \in {0} \cup T
  BY <1>7, <1>8, GreatestOfSet
<1> QED BY <1>3, <1>5, <1>9 DEF S

\* The contexts the models are asked for again are those they serve.
LEMMA AskedAsServed ==
  ASSUME Inv
  PROVE  PricedAt = rag
<1>1. \A role \in Roles : in.rag[role].design \in Nat /\ in.rag[role].cap \in Nat /\ RagCap[role] \in Nat
  <2> TAKE role \in Roles
  <2>1. in.rag[role] \in RagRecord /\ RagCap[role] \in Nat
    BY FleetTyped, ResidentsAssumption DEF Inv
  <2> QED BY <2>1 DEF RagRecord
<1>2. \A role \in Roles : rag[role] \in Nat /\ rag[role] <= in.rag[role].design
  <2> TAKE role \in Roles
  <2>1. ServedAt(role) \in Nat /\ ServedAt(role) <= in.rag[role].design
    BY <1>1 DEF ServedAt, Lesser
  <2>2. rag[role] = ServedAt(role) \/ rag[role] = Lesser(ServedAt(role), ColoadMin)
    BY DEF Inv, YieldedAtMost
  <2>3. ColoadMin \in Nat
    BY ResidentsAssumption
  <2> QED BY <1>1, <2>1, <2>2, <2>3 DEF Lesser
<1>3. \A role \in Roles : Lesser(in.rag[role].design, rag[role]) = rag[role]
  BY <1>1, <1>2 DEF Lesser
<1>4. rag \in [Roles -> Nat]
  BY DEF Inv, TypeOK
<1> QED BY <1>3, <1>4 DEF PricedAt

\* What a model bears beside the sets, it affords beside the price of each.
LEMMA BorneBesidePrice ==
  ASSUME Inv, NEW c \in Nat, Bears(rag, c, used), in.routed, NEW s \in DOMAIN in.sets
  PROVE  \E m \in in.chats : Affords(m, c, PriceOf(s))
<1>1. PricedAt = rag /\ rag \in [Roles -> Nat] /\ used \in Nat /\ in \in Instances
  BY AskedAsServed DEF Inv, TypeOK
<1>2. PICK m \in in.chats : \A held \in Beside(rag, used) : Affords(m, c, held)
  BY DEF Bears
<1>3. PICK held \in Beside(rag, used) : held \in Nat /\ PriceOf(s) \in Nat /\ PriceOf(s) <= held
  <2>1. CASE PriceOf(s) = 0
    BY <2>1 DEF Beside
  <2>2. CASE PriceOf(s) # 0
    <3>1. PICK o \in in.sets[s] : PriceOf(s) = Priced(o, rag, used)
      BY <1>1, <2>2, PriceOfOption
    <3>2. o \in Option
      BY <1>1, FleetTyped
    <3>3. Held(o, rag, used) \in Beside(rag, used)
      BY <3>1 DEF Beside
    <3> QED BY <1>1, <3>1, <3>2, <3>3, HeldTyped
  <2> QED BY <2>1, <2>2
<1>4. m \in ChatRecord /\ in.available \in Int
  BY <1>1, FleetTyped
<1>5. Need(m, c) \in Int
  <2>1. m.mib \in Nat /\ m.kv \in Nat /\ m.slot \in Nat /\ m.par \in Nat
    BY <1>4 DEF ChatRecord
  <2> QED BY <2>1 DEF Need
<1>6. Affords(m, c, held)
  BY <1>2
<1> QED BY <1>3, <1>4, <1>5, <1>6 DEF Affords

\* Pricing stays within what the additions, or the shared context, left.
LEMMA PriceReserves ==
  ASSUME Inv, Price
  PROVE  PricesReserved'
<1>1. /\ in' = in /\ chat' = chat /\ floor' = floor /\ used' = used /\ pc = "price"
      /\ price' = [s \in DOMAIN in.sets |-> PriceOf(s)]
  BY DEF Price
<1>2. used \in Nat /\ chat \in Nat /\ floor \in Nat /\ in \in Instances
  BY DEF Inv, TypeOK
<1>3. ASSUME NEW m, NEW c, NEW held PROVE Affords(m, c, held)' <=> Affords(m, c, held)
  BY <1>1 DEF Affords, Need
<1>4. ASSUME NEW s \in DOMAIN in.sets
      PROVE  /\ used > 0 => \E m \in in.chats : Affords(m, floor, PriceOf(s))
             /\ used = 0 /\ chat > MinCtx => \E m \in in.chats : Affords(m, chat, PriceOf(s))
  <2>1. in.routed
    BY <1>2, InstanceTyped DEF InstanceRecord
  <2>2. used > 0 => Bears(rag, floor, used)
    BY DEF Inv, AdditionsKeepFloor
  <2>3. used = 0 /\ chat > MinCtx => Bears(rag, chat, used)
    BY <1>1 DEF Inv, SharedContextServed
  <2> QED BY <1>2, <2>1, <2>2, <2>3, BorneBesidePrice
<1>5. DOMAIN price' = DOMAIN in.sets /\ \A s \in DOMAIN in.sets : price'[s] = PriceOf(s)
  BY <1>1
<1> QED BY <1>1, <1>3, <1>4, <1>5 DEF PricesReserved, Affords, Need

\* What entries are charged for a set stays within what a chat model was found
\* to afford beside it, for every card, fleet and sets: the floor when something
\* was added, the shared context when nothing was.
THEOREM PricesAreReserved == Spec => []PricesReserved
<1>1. Init => PricesReserved
  BY DEF Init, PricesReserved
<1>2. Inv /\ PricesReserved /\ [Next]_vars => PricesReserved'
  <2> SUFFICES ASSUME Inv, PricesReserved, [Next]_vars PROVE PricesReserved'
    OBVIOUS
  <2>1. CASE Price
    BY <2>1, PriceReserves
  <2>2. CASE Baseline \/ Squeeze \/ NoSqueeze \/ SetFloor \/ Added \/ \E x \in left : Add(x) \/ Skip(x)
    <3>1. pc' # "done"
      BY <2>2 DEF Inv, TypeOK, Baseline, Squeeze, NoSqueeze, SetFloor, Added, Add, Skip
    <3> QED BY <3>1 DEF PricesReserved
  <2>3. CASE UNCHANGED vars
    BY <2>3 DEF vars, PricesReserved, Affords, Need
  <2> QED BY <2>1, <2>2, <2>3 DEF Next
<1> QED
  BY <1>1, <1>2, InvHolds, PTL DEF Spec

=============================================================================
