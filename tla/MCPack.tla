------------------------------- MODULE MCPack --------------------------------
(* Fleets of one or two models: with vision and tools to shed, with two      *)
(* profile groups, with ids that extend each other, with one stem.           *)
EXTENDS Pack

G(profiles, cache) == [profiles |-> profiles, cache |-> cache]
M(id, stem, groups, categories, letters, projector) ==
  [id |-> id, stem |-> stem, groups |-> groups, categories |-> categories, letters |-> letters,
   projector |-> projector]

Usual == G(<<"default", "creative">>, "q8")
Wide == G(<<"draft", "review">>, "f16")
Coder == G(<<"coding">>, "f16")

FleetsVal ==
  {<<M(<<"m">>, "m", <<Usual>>, <<"coding", "chat">>, {"t", "i"}, TRUE),
     M(<<"n">>, "n", <<Coder>>, <<>>, {}, FALSE)>>,
   <<M(<<"m">>, "m", <<Usual, Wide>>, <<"coding">>, {"i"}, TRUE)>>,
   <<M(<<"m">>, "m", <<Usual, Coder>>, <<"coding">>, {"t"}, FALSE)>>,
   <<M(<<"m">>, "m", <<Usual>>, <<"coding">>, {}, FALSE), M(<<"m", "coding">>, "x", <<Usual>>, <<"coding">>, {}, FALSE)>>,
   <<M(<<"one">>, "s", <<Usual>>, <<"coding">>, {"t"}, FALSE), M(<<"two">>, "s", <<Usual>>, <<>>, {"t"}, FALSE)>>}

Plain == [dry |-> FALSE, noEnv |-> FALSE, agents |-> FALSE, stubs |-> FALSE, probe |-> FALSE]

OptionsVal ==
  {Plain, [Plain EXCEPT !.dry = TRUE, !.agents = TRUE, !.stubs = TRUE],
   [Plain EXCEPT !.noEnv = TRUE, !.agents = TRUE], [Plain EXCEPT !.probe = TRUE, !.stubs = TRUE]}
=============================================================================
