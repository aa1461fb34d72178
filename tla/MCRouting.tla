------------------------------ MODULE MCRouting -------------------------------
(* A fleet with two models for some roles, on the card or on the host, and   *)
(* configurations whose sets share, refer to and choose among categories.    *)
EXTENDS Routing

Model(stem, role, cpu, cost, size, ram) ==
  [stem |-> stem, role |-> role, cpu |-> cpu, cost |-> cost, size |-> size, ram |-> ram]

NameVal == {"__CHAT_VARS__", "__COLOAD_VARS__", "c1", "c2", "emb", "rnk", "rnk2", "tts", "stt", "s2t", "s2t2"}
SortedVal == <<"__CHAT_VARS__", "__COLOAD_VARS__", "c1", "c2", "emb", "rnk", "rnk2", "s2t", "s2t2", "stt", "tts">>

FleetsVal ==
  {{Model("e1", "embeddings", FALSE, 4, 3, 5), Model("e2", "embeddings", ecpu, None, 2, 4),
    Model("r1", "rerank", rcpu, 3, 3, 3), Model("r2", "rerank", TRUE, 5, 4, 2),
    Model("t1", "t2s", TRUE, None, 2, 4), Model("s1", "s2t", scpu, 2, 2, 2)} :
     ecpu \in BOOLEAN, rcpu \in BOOLEAN, scpu \in BOOLEAN}

Spec3(n, role, selector) == [name |-> n, role |-> role, selector |-> selector]

Voice == <<Spec3("emb", "embeddings", None), Spec3("tts", "t2s", None), Spec3("stt", "s2t", None),
           Spec3("rnk2", "rerank", {"r2"}), Spec3("rnk", "rerank", {"r1"})>>

Set(n, e) == [name |-> n, expr |-> e]
C == Leaf("__CHAT_VARS__")
O == Leaf("__COLOAD_VARS__")
L(n) == Leaf(n)

PlainVal ==
  {<<>>,
   <<Set("rag", <<C, L("emb"), L("rnk"), Together({1, 2, 3})>>)>>,
   <<Set("rag", <<C, L("emb"), Together({1, 2}), C, L("rnk"), Together({4, 5}), Alternatives({3, 6})>>),
     Set("solo", <<L("emb")>>)>>}

VoiceVal ==
  {<<Set("talk", <<C, L("rnk2"), L("emb"), Alternatives({2, 3}), Together({1, 4})>>),
     Set("all", <<C, L("emb"), L("rnk"), L("tts"), L("stt"), Together(1 .. 5)>>)>>,
   <<Set("base", <<L("tts")>>), Set("full", <<C, Reference("base"), L("stt"), Together(1 .. 3)>>),
     Set("half", <<C, L("stt"), L("rnk2"), O, Together({3, 4}), Alternatives({2, 5}), Together({1, 6})>>)>>,
   <<Set("voice", <<C, L("tts"), L("stt"), O, Together(1 .. 4)>>),
     Set("solo", <<L("tts"), L("rnk2"), Alternatives({1, 2})>>), Set("wait", <<C, L("stt"), Together({1, 2})>>)>>}

ChatsVal == <<[var |-> "c1", stem |-> "q"], [var |-> "c2", stem |-> "g"]>>

\* A co-load that may find the name of a category free, and a set that refers
\* to one with chat.
Shared == <<Spec3("emb", "embeddings", None), Spec3("s2t", "s2t", None), Spec3("rnk2", "rerank", {"r2"})>>

SharedVal ==
  {<<Set("base", <<C, L("emb"), Together({1, 2})>>), Set("full", <<Reference("base"), L("rnk2"), Together({1, 2})>>),
     Set("talk", <<C, L("s2t"), O, L("rnk2"), Together({2, 3, 4}), Alternatives({1, 5})>>)>>}

InstancesVal ==
  {[models |-> f, pool |-> p, coload |-> c, embed |-> e, rerank |-> None, specs |-> <<>>, sets |-> s, chats |-> ChatsVal] :
     f \in FleetsVal, p \in {0, 5}, c \in {FALSE}, e \in {None, {"e1"}, {"e1", "e2"}}, s \in PlainVal}
  \cup
  {[models |-> f, pool |-> p, coload |-> c, embed |-> None, rerank |-> None, specs |-> Voice, sets |-> s, chats |-> ChatsVal] :
     f \in FleetsVal, p \in {0, 4, 6, 8, 10, 12, 14}, c \in BOOLEAN, s \in VoiceVal}
  \cup
  {[models |-> f, pool |-> p, coload |-> TRUE, embed |-> None, rerank |-> None, specs |-> Shared, sets |-> s, chats |-> ChatsVal] :
     f \in FleetsVal, p \in {0, 4, 8, 14}, s \in SharedVal}
=============================================================================
