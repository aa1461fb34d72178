------------------------------- MODULE SetExpr --------------------------------
(***************************************************************************)
(* The expressions of matrix sets.  '&' keeps its parts resident together, *)
(* '|' any one of them; a leaf names a variable or a placeholder, '+' and  *)
(* a name another set.  An expression is the list of its groups, the inner *)
(* ones first: a group tells its parts by their places in the list, and    *)
(* the last group is the whole.                                            *)
(***************************************************************************)
EXTENDS FiniteSets, FiniteSetsExt, Functions, Integers, Sequences, SequencesExt

CONSTANT Name  \* what variables may be called

Group == [op : {"or", "and"}, names : SUBSET Name, refs : SUBSET STRING, parts : SUBSET Nat]

\* One of some names, in parentheses unless it is a single one.
AnyOf(names) == [op |-> "or", names |-> names, refs |-> {}, parts |-> {}]
Leaf(n) == AnyOf({n})
Reference(s) == [op |-> "or", names |-> {}, refs |-> {s}, parts |-> {}]
Alternatives(parts) == [op |-> "or", names |-> {}, refs |-> {}, parts |-> parts]
Together(parts) == [op |-> "and", names |-> {}, refs |-> {}, parts |-> parts]

\* The expression of which nothing is left.
Nothing == <<>>

Expression(e) ==
  /\ e \in Seq(Group)
  /\ \A i \in DOMAIN e :
       /\ e[i].parts \subseteq 1 .. (i - 1)
       /\ e[i].op = "and" => e[i].names = {} /\ e[i].refs = {}
       /\ \A s, t \in e[i].refs : s = t

\* References do not come back to where they start.
Acyclic(sets) ==
  \E rank \in [DOMAIN sets -> 0 .. Cardinality(DOMAIN sets)] :
    \A s \in DOMAIN sets : \A i \in DOMAIN sets[s] : \A t \in sets[s][i].refs \cap DOMAIN sets :
      rank[t] < rank[s]

-----------------------------------------------------------------------------
(* The groups of all sets, each with what it is made of *)

Places(sets) == UNION {{s} \X DOMAIN sets[s] : s \in DOMAIN sets}

At(sets, p) == sets[p[1]][p[2]]

Root(sets, s) == <<s, Len(sets[s])>>

Under(sets, p) ==
  {<<p[1], j>> : j \in At(sets, p).parts} \cup
  {Root(sets, s) : s \in {t \in At(sets, p).refs \cap DOMAIN sets : sets[t] # Nothing}}

\* A reference to no set stands for itself.
Names(sets, p) ==
  At(sets, p).names \cup {"+" \o s : s \in At(sets, p).refs \ DOMAIN sets}

LeavesAt(sets) ==
  LET at[p \in Places(sets)] == Names(sets, p) \cup UNION {at[q] : q \in Under(sets, p)} IN at

Leaves(s, sets) == IF sets[s] = Nothing THEN {} ELSE LeavesAt(sets)[Root(sets, s)]

\* One offer of each member, together.
Combined(offers) ==
  LET members == {x[1] : x \in offers} IN
  {UNION {c[q] : q \in members} :
     c \in {c \in [members -> {x[2] : x \in offers}] : \A q \in members : <<q, c[q]>> \in offers}}

\* What may be resident at once: one set of leaves for every way to choose
\* among alternatives.
OptionsAt(sets) ==
  LET at[p \in Places(sets)] ==
        IF At(sets, p).op = "and"
        THEN LET offers == UNION {{q} \X at[q] : q \in Under(sets, p)} IN
             IF offers = {} THEN {} ELSE Combined(offers)
        ELSE {{n} : n \in Names(sets, p)} \cup UNION {at[q] : q \in Under(sets, p)}
  IN at

Options(s, sets) == IF sets[s] = Nothing THEN {} ELSE OptionsAt(sets)[Root(sets, s)]

\* Mutant of Remains: references are left alone.
RemainsShallow(sets, drops) ==
  LET at[p \in Places(sets)] ==
        \/ At(sets, p).names \ drops # {} \/ At(sets, p).refs # {}
        \/ \E j \in At(sets, p).parts : at[<<p[1], j>>]
  IN at

\* Whether anything is left of a group without some of its leaves: it goes
\* with the last of its members.
Remains(sets, drops) ==
  LET at[p \in Places(sets)] ==
        \/ At(sets, p).names \ drops # {} \/ At(sets, p).refs \ DOMAIN sets # {}
        \/ \E q \in Under(sets, p) : at[q]
  IN at

Survives(s, sets, drops) == sets[s] # Nothing /\ Remains(sets, drops)[Root(sets, s)]

\* The expression without some of its leaves.  In the code a reference
\* becomes the text of what is left of the set it names; so it is read here,
\* where that set is left with the same.
Pruned(s, sets, drops) ==
  IF ~Survives(s, sets, drops) THEN Nothing
  ELSE [i \in DOMAIN sets[s] |->
          IF Remains(sets, drops)[<<s, i>>]
          THEN [sets[s][i] EXCEPT !.names = @ \ drops,
                                  !.parts = {j \in @ : Remains(sets, drops)[<<s, j>>]}]
          ELSE AnyOf({})]

Price(n, mb) == IF n \in DOMAIN mb THEN mb[n] ELSE 0

\* Mutant of OverheadAt: alternatives inside a conjunction count once.
OverheadAtTheDearest(sets, mb) ==
  LET at[p \in Places(sets)] ==
        Max({0} \cup {Price(n, mb) : n \in Names(sets, p)} \cup {at[q] : q \in Under(sets, p)})
  IN at

\* The worst case of what an expression may hold: the dearest alternative,
\* the sum of what is together; what has no price is free.
OverheadAt(sets, mb) ==
  LET at[p \in Places(sets)] ==
        IF At(sets, p).op = "and" THEN SumFunctionOnSet(at, Under(sets, p))
        ELSE Max({0} \cup {Price(n, mb) : n \in Names(sets, p)} \cup {at[q] : q \in Under(sets, p)})
  IN at

Overhead(s, mb, sets) == IF sets[s] = Nothing THEN 0 ELSE OverheadAt(sets, mb)[Root(sets, s)]

-----------------------------------------------------------------------------
(* Edits of the text *)

\* A placeholder replaced by a choice in parentheses.
Substituted(e, n, names) == [i \in DOMAIN e |-> IF e[i] = Leaf(n) THEN AnyOf(names) ELSE e[i]]

\* A term appended to the text of an expression: '&' takes the last of
\* alternatives that no parentheses hold together.
Extended(e, n) ==
  LET whole == e[Len(e)] IN
  IF whole.op = "or" /\ whole.parts # {}
  THEN LET last == Max(whole.parts) IN
       Front(e) \o <<Leaf(n), Together({last, Len(e)}),
                     Alternatives((whole.parts \ {last}) \cup {Len(e) + 1})>>
  ELSE e \o <<Leaf(n), Together({Len(e), Len(e) + 1})>>
=============================================================================
