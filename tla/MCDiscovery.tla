----------------------------- MODULE MCDiscovery ------------------------------
(* Two models directories with nested, role, and unlisted directories, a hub  *)
(* repository, and trees whose names lead to each other's weights.            *)
EXTENDS Discovery

CONSTANTS r1, chat, deep, embed, img, misc, r2, chat2, rev1, rev2, blobs,
          fa, fa2, fb, fc, fd, fe, fz, ft, fmisc, fblob, flink, h1, hp, hj, acme

DirsVal == {r1, chat, deep, embed, img, misc, r2, chat2, rev1, rev2, blobs}
FilesVal == {fa, fa2, fb, fc, fd, fe, fz, ft, fmisc, fblob, flink, h1, hp, hj}

File(dir, stem, ext) ==
  [dir |-> dir, stem |-> stem, ext |-> ext, snap |-> NoDir, comp |-> "no", f16 |-> FALSE, kind |-> "text",
   link |-> NoFile]

SpotVal ==
  fa :> File(chat, "a", "gguf") @@ fa2 :> File(chat2, "a", "gguf") @@ ft :> File(chat, "a", "safetensors") @@ fd :> File(chat, "d", "gguf") @@ fb :> File(deep, "b", "gguf")
  @@ fe :> File(embed, "e", "gguf") @@ fz :> [File(img, "z", "gguf") EXCEPT !.kind = "image"]
  @@ fmisc :> File(misc, "m", "gguf") @@ fc :> File(chat2, "c", "gguf")
  @@ fblob :> [File(blobs, "0", "gguf") EXCEPT !.link = flink] @@ flink :> File(chat, "l", "gguf")
  @@ h1 :> [File(rev2, "h", "gguf") EXCEPT !.snap = rev2]
  @@ hp :> [File(rev2, "h-mmproj", "gguf") EXCEPT !.snap = rev2, !.comp = "mmproj", !.f16 = TRUE]
  @@ hj :> [File(rev1, "h", "gguf") EXCEPT !.snap = rev1]

ParentVal ==
  chat :> r1 @@ deep :> chat @@ embed :> r1 @@ img :> r1 @@ misc :> r1 @@ blobs :> chat @@ chat2 :> r2
  @@ [d \in {r1, r2, rev1, rev2} |-> NoDir]

ChildrenVal ==
  r1 :> <<chat, embed, img, misc>> @@ chat :> <<blobs, deep>> @@ r2 :> <<chat2>>
  @@ [d \in {deep, embed, img, misc, chat2, rev1, rev2, blobs} |-> <<>>]

ListedVal ==
  chat :> <<fa, <<chat, "a">>, ft, fd, <<chat, "d">>, flink, <<chat, "l">>>> @@ blobs :> <<fblob>>
  @@ deep :> <<fb, <<deep, "b">>>> @@ embed :> <<fe, <<embed, "e">>>> @@ img :> <<fz>> @@ misc :> <<fmisc>>
  @@ chat2 :> <<fa2, <<chat2, "a">>, fc, <<chat2, "c">>>> @@ rev1 :> <<hj>> @@ rev2 :> <<h1, hp>> @@ [d \in {r1, r2} |-> <<>>]

Slots == {<<Spot[f].dir, Spot[f].stem>> : f \in Files}

RootsVal == <<r1, r2>>
DirRolesVal == chat :> "chat" @@ embed :> "embeddings" @@ img :> "image" @@ chat2 :> "chat"
ServesVal == {<<"llama", "gguf", r>> : r \in {"chat", "embeddings", "rerank"}} \cup {<<"sd", "gguf", "image">>}
EngineOrderVal == <<"llama", "sd">>
VisionVal == [s \in {Spot[f].stem : f \in Files} |-> IF s = "h" THEN {"h-mmproj"} ELSE {}]
IdVal == [s \in Slots |-> s[2]]
TaskRolesVal == "embed" :> "embeddings" @@ "chat" :> "chat"
KeysVal == {"cache", "draft", "engines", "tasks"}
ListKeysVal == {"engines", "tasks"}
RunOptions == {[stubs |-> FALSE, dry |-> FALSE], [stubs |-> TRUE, dry |-> FALSE], [stubs |-> TRUE, dry |-> TRUE]}

N(stem) == {<<stem, "gguf">>}
On(k, v) == [Nothing EXCEPT ![k] = v]
Llama == [Nothing EXCEPT !["engines"] = <<"llama">>]
Data(keys) == [NoData EXCEPT !.keys = keys]

Cfg(defaults, rules) == [defaults |-> defaults, rules |-> rules]
Rule(stem, cache, v) == [stem |-> stem, cache |-> cache, set |-> On("cache", v)]

Plain(g, c, d) ==
  [x \in Dirs \cup {Global} |->
     CASE x = Global -> Cfg(Nothing, g) [] x = chat -> Cfg(c, <<>>) [] x = deep -> d
       [] OTHER -> Cfg(Nothing, <<>>)]

\* Who configures the cache type, from the outside in.
Configs ==
  {Plain(g, c, d) :
     g \in {<<>>, <<Rule(Every, "q8", "q4"), Rule("c", Every, Null)>>},
     c \in {Nothing, On("cache", "q8")},
     d \in {Cfg(Nothing, <<>>), Cfg(On("cache", Null), <<>>), Cfg(On("cache", "f16"), <<Rule("b", "f16", "q5")>>)}}

OneConfig == Plain(<<Rule(Every, "q8", "q4")>>, On("cache", "q8"), Cfg(On("cache", "f16"), <<>>))

ToA == [Data(Llama) EXCEPT !.model = Ref(N("a"), NoRepo, "main", FALSE)]
ToC == [Data(Llama) EXCEPT !.model = Ref(N("c"), NoRepo, "main", FALSE)]
WithDraft == Data([Llama EXCEPT !["draft"] = Ref(N("d"), NoRepo, "main", FALSE)])
FromHub ==
  [Data([Llama EXCEPT !["tasks"] = <<"embed">>]) EXCEPT !.repo = acme, !.model = Ref(N("h"), NoRepo, "main", TRUE)]
Ignored == [NoData EXCEPT !.ignore = TRUE]

Tree(cfg, a, b, a2, e, breal, binode, creal, blob, main) ==
  [here |-> (Files \ {flink, fblob, ft, fa2}) \cup (IF blob THEN {fblob} ELSE {}),
   real |-> [f \in Files |-> CASE f = fb -> breal [] f = fc -> creal [] f = flink -> fblob [] OTHER -> f],
   inode |-> [f \in Files |-> CASE f = fb -> binode [] f = fc -> creal [] f = flink -> fblob [] OTHER -> f],
   side |-> [s \in Slots |-> CASE s = <<chat, "a">> -> a [] s = <<deep, "b">> -> b
                               [] s = <<chat2, "a">> -> a2 [] s = <<embed, "e">> -> e [] OTHER -> Absent],
   mdfile |-> [s \in Slots |-> s], cfg |-> cfg, snaps |-> (acme :> <<rev1, rev2>>), main |-> (acme :> main),
   ignored |-> {}, writable |-> TRUE]

\* Whose weight a name leads to, with one configuration.
LinkTrees ==
  {Tree(OneConfig, a, b, a2, e, l[1], l[1], c, blob, NoDir) :
     a \in {Absent, WithDraft, Ignored}, b \in {Absent, ToA}, a2 \in {Absent, ToC}, e \in {Absent, Data(Llama)},
     l \in {<<fb>>, <<fa>>}, c \in {fc, fa}, blob \in BOOLEAN}

\* Which layer decides, with a model per directory.
ConfigTrees ==
  {Tree(cfg, a, Absent, Absent, Absent, fb, fb, fc, FALSE, rev2) :
     cfg \in Configs, a \in {Absent, Data([Llama EXCEPT !["cache"] = "f16"]), Data([Llama EXCEPT !["cache"] = Null])}}

Tagged ==
  {Tree(OneConfig, Absent, Absent, Absent, FromHub, fb, fb, fc, FALSE, main) : main \in {NoDir, rev1, rev2}}

HardLinked == {Tree(OneConfig, a, Absent, Absent, Absent, fb, fa, fc, FALSE, NoDir) : a \in {Absent, Data(Llama)}}

BlobTree == {Tree(OneConfig, Absent, Absent, Absent, Absent, fb, fb, fc, TRUE, NoDir)}

ReadOnly == {[t EXCEPT !.writable = FALSE, !.ignored = {fe}] : t \in BlobTree}

\* Two formats of one weight side by side, the first perhaps served by another
\* sidecar.
TwinTrees ==
  {[Tree(OneConfig, Absent, b, Absent, Absent, fb, fb, fc, FALSE, NoDir) EXCEPT !.here = @ \cup {ft}] :
     b \in {Absent, ToA}}

\* One sidecar linked into two directories, each with a weight of its own; the
\* second weight is also another sidecar's.
LinkedSidecars ==
  {[Tree(OneConfig, Data(Llama), Absent, Data(Llama), Absent, fb, fb, fc, FALSE, NoDir)
      EXCEPT !.here = @ \cup {fa2}, !.mdfile[<<chat2, "a">>] = <<chat, "a">>, !.side[<<chat2, "c">>] = c] :
     c \in {Absent, ToA}}

\* A second format beside a name of the weight of another sidecar.
TwinNames ==
  {[Tree(OneConfig, Absent, Data(Llama), Absent, Absent, fa, fa, fc, FALSE, NoDir) EXCEPT !.here = @ \cup {ft}]}

TreesVal == TwinNames \cup LinkedSidecars \cup LinkTrees \cup ConfigTrees \cup Tagged \cup ReadOnly \cup TwinTrees

=============================================================================
