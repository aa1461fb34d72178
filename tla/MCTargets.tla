------------------------------ MODULE MCTargets -------------------------------
(* The real tables of extras/update.py, the words that exercise each tier,   *)
(* and a tools tree with the checkout, an engine's own directory, a build    *)
(* inside it, a deeper layout and a place elsewhere.                         *)
EXTENDS Targets

EnginesVal == <<"cpp", "swap", "audio", "whisper", "sd">>
GroupsVal ==
  [llama |-> {"cpp", "swap"}, cpp |-> {"cpp"}, swap |-> {"swap"},
   audio |-> {"audio"}, whisper |-> {"whisper"}, sd |-> {"sd"}]

Word(alias, all, glob, hits, swapTagged) ==
  [alias |-> alias, all |-> all, glob |-> glob, hits |-> hits, swapTag |-> swapTagged]

SpellingVal ==
  [w \in {"ll", "a", "all", "aud", "sd", "s", "s*", "llam?", "vulkan", "v252", "b8913"} |->
    CASE w = "ll"     -> Word({"llama"}, FALSE, FALSE, {"llama", "cpp", "swap"}, FALSE)
      [] w = "a"      -> Word({"audio"}, FALSE, FALSE, {"audio"}, FALSE)
      [] w = "all"    -> Word({}, TRUE, FALSE, {}, FALSE)
      [] w = "aud"    -> Word({}, FALSE, FALSE, {"audio"}, FALSE)
      [] w = "sd"     -> Word({"sd"}, FALSE, FALSE, {"sd"}, FALSE)
      [] w = "s"      -> Word({}, FALSE, FALSE, {"swap", "sd"}, FALSE)
      [] w = "s*"     -> Word({}, FALSE, TRUE, {"swap", "sd"}, FALSE)
      [] w = "llam?"  -> Word({}, FALSE, TRUE, {"llama"}, FALSE)
      [] w = "v252"   -> Word({}, FALSE, FALSE, {}, TRUE)
      [] OTHER        -> Word({}, FALSE, FALSE, {}, FALSE)]

DirsVal   == {"tools", "repo", "own", "build", "deep", "other"}
ParentVal == [d \in DirsVal |-> CASE d \in {"repo", "own"} -> "tools"
                                  [] d \in {"build", "deep"} -> "own"
                                  [] OTHER -> "nowhere"]
VersionDirsVal == [e \in {"cpp", "swap", "audio", "whisper", "sd"} |->
                    IF e = "cpp" THEN {"build"} ELSE {}]

Only(e, d) == [NoHome EXCEPT ![e] = d]

\* One engine (sd) wherever it may be; llama.cpp beside its build.
InstallsVal ==
  {[e \in AllEngines |-> IF e = "cpp" THEN {"build"} \cup c ELSE IF e = "sd" THEN s ELSE {}] :
     c \in {{}, {"own"}}, s \in {t \in SUBSET (DirsVal \ {"build"}) : Cardinality(t) <= 2}}

WordLists == {<<>>} \cup {<<v>> : v \in DOMAIN SpellingVal}
             \cup {<<v, w>> : v \in DOMAIN SpellingVal, w \in DOMAIN SpellingVal}

\* Every command line from the tools directory, and one engine from everywhere.
RequestsVal ==
  {[NotAsked EXCEPT !.words = ws, !.only = only, !.skip = skip] :
     ws \in WordLists, only \in {{}, {"cpp"}, {"cpp", "swap"}}, skip \in BOOLEAN}
  \cup
  {[NotAsked EXCEPT !.words = <<w>>, !.cwd = cwd, !.env = env, !.root = root,
                    !.config = config, !.dirs = dirs] :
     w \in {"sd", "ll"}, cwd \in DirsVal, env \in {"nowhere", "tools", "own", "other"},
     root \in {"nowhere", "other"}, config \in {NoHome, Only("sd", "own")},
     dirs \in {NoHome, Only("sd", "other")}}
=============================================================================
