----------------------------- MODULE MCResidents ------------------------------
(* Small cards and fleets: one or two chat models of different shapes, the   *)
(* residents large and small, sets with alternatives, co-loads, model ids.     *)
EXTENDS Residents

Chat(mib, kv, par, design, tools) ==
  [mib |-> mib, kv |-> kv, slot |-> 1, par |-> par, design |-> design, tools |-> tools]

ChatsVal ==
  {{Chat(10, 1, 1, 32, tools)} : tools \in BOOLEAN}
  \cup {{Chat(10, 1, 1, 32, FALSE), m} : m \in {Chat(20, 1, 2, 13, TRUE), Chat(0, 0, 1, 32, TRUE),
                                               Chat(4, 2, 1, 32, TRUE)}}

Rag(mib, kv, design, cap) == [mib |-> mib, kv |-> kv, design |-> design, cap |-> cap]

RagVal ==
  {[emb |-> Rag(2, 1, 8, 0), rnk |-> Rag(1, k, d, c)] : k \in {0, 1}, d \in {3, 16}, c \in {0, 5}}

Opt(roles, byId, coloadable, fixed) ==
  [vars |-> roles, ids |-> byId, coloads |-> coloadable, fixed |-> fixed, fixedIds |-> 0]

Pair == {"emb", "rnk"}

SetsVal ==
  {<<>>, [base |-> {Opt(Pair, {}, FALSE, 0)}],
   [base |-> {Opt({"emb"}, {"rnk"}, FALSE, 0), [Opt({}, {}, TRUE, 1) EXCEPT !.fixedIds = 3]}],
   [base |-> {Opt({"emb"}, {}, FALSE, 3), Opt({"rnk"}, {}, FALSE, 9)}],
   [base |-> {Opt(Pair, {}, FALSE, 2)}, extra |-> {Opt({"rnk"}, {}, TRUE, 0), Opt({}, {}, FALSE, 12)}],
   [extra |-> {Opt(Pair, {}, TRUE, 1)}]}

AvailableVal == 10 .. 60

InstancesVal ==
  {[available |-> a, chats |-> c, rag |-> r, routed |-> TRUE, sets |-> s,
    elsewhere |-> e, categories |-> <<>>, candidates |-> <<2, 4, 3>>] :
     a \in AvailableVal, c \in ChatsVal, r \in RagVal, s \in SetsVal, e \in BOOLEAN}
  \cup
  {[available |-> a, chats |-> c, rag |-> r, routed |-> FALSE, sets |-> <<>>,
    elsewhere |-> FALSE, categories |-> <<4, 2>>, candidates |-> <<2>>] :
     a \in AvailableVal, c \in ChatsVal, r \in RagVal}

RagCapVal == [emb |-> 8, rnk |-> 12]
=============================================================================
