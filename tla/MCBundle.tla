------------------------------ MODULE MCBundle ------------------------------
(***************************************************************************)
(* A small installation: seven listed files, two releases that differ in   *)
(* their descriptor, three misbuilt manifests, and an installer that may   *)
(* leave something else at every path.                                     *)
(***************************************************************************)
EXTENDS Bundle

BinPath(name) == <<"bin", name>>
LibraryPath   == <<"lib", "libavcodec.so">>
LicensePath   == <<"licenses", "lgpl.txt">>
CapsPath      == <<"capabilities.json">>

\* In byte order; the last but two is the stray next to the engine.
Paths ==
  <<BinPath("ffmpeg"), BinPath("ffprobe"), BinPath("scene-core"),
    BinPath("toolchain-descriptor.json"), CapsPath, LibraryPath, LicensePath,
    SelfPath, DescriptorFile>>

MCName == STRING
MCPath == {Paths[i] : i \in 1..Len(Paths)}
MCRank == [p \in MCPath |-> CHOOSE i \in 1..Len(Paths) : Paths[i] = p]

MCContent ==
  {"manifest", "manifest 2", "wrong engine", "wrong version", "tools unlisted",
   "no json", "descriptor", "descriptor 2", "gpl descriptor", "capabilities",
   "no decoders", "engine", "engine 2", "broken engine", "ffmpeg", "trojan",
   "ffprobe", "library", "library 2", "license", "media", "longer media"}

MCSize == [c \in MCContent |-> IF c = "longer media" THEN 2 ELSE 1]

Lists(path, content) == [path |-> path, content |-> content, size |-> 1]

Release ==
  [plain |-> TRUE, fingerprint |-> "descriptor",
   engine |-> [path |-> BinPath("scene-core"), identity |-> "1"],
   tools |-> <<[name |-> "ffmpeg", path |-> BinPath("ffmpeg"), version |-> "7", lgpl |-> TRUE],
               [name |-> "ffprobe", path |-> BinPath("ffprobe"), version |-> "7", lgpl |-> TRUE]>>,
   files |-> <<Lists(BinPath("ffmpeg"), "ffmpeg"), Lists(BinPath("ffprobe"), "ffprobe"),
               Lists(BinPath("scene-core"), "engine"), Lists(CapsPath, "capabilities"),
               Lists(LibraryPath, "library"), Lists(LicensePath, "license"),
               Lists(DescriptorFile, "descriptor")>>,
   descriptorRef |-> DescriptorFile, capabilitiesRef |-> CapsPath,
   sbomRef |-> CapsPath, licenses |-> <<"licenses">>]

MCManifest ==
  [c \in {"manifest", "manifest 2", "wrong engine", "wrong version", "tools unlisted"} |->
     CASE c = "manifest"       -> Release
       [] c = "manifest 2"     ->
            [Release EXCEPT !.fingerprint = "descriptor 2",
                            !.files[7].content = "descriptor 2"]
       [] c = "wrong engine"   -> [Release EXCEPT !.engine.identity = "2"]
       [] c = "wrong version"  -> [Release EXCEPT !.tools[2].version = "8"]
       [] c = "tools unlisted" -> [Release EXCEPT !.files = SubSeq(@, 3, 7)]]

MCDescriptor ==
  [c \in {"descriptor", "descriptor 2", "gpl descriptor"} |->
     [plain |-> TRUE, capabilities |-> "capabilities",
      flags |-> IF c = "gpl descriptor" THEN {"gpl", "lgpl"} ELSE {"lgpl"},
      libraries |-> <<[path |-> LibraryPath, content |-> "library"]>>]]

MCBuild ==
  [c \in {"engine", "engine 2", "broken engine"} |->
     [identity   |-> IF c = "engine 2" THEN "2" ELSE "1",
      compat     |-> IF c = "engine 2" THEN "output-v2" ELSE "output-v1",
      wellFormed |-> c # "broken engine"]]

MCOutput == [c \in {"ffmpeg", "trojan", "ffprobe"} |-> {"7"}]

Holds(content) == {[content |-> content, link |-> FALSE]}
Links(content) == {[content |-> content, link |-> TRUE]}

MCInitialDisk ==
  [p \in MCPath |->
     IF p = SelfPath THEN Holds("manifest")
     ELSE UNION {Holds(Release.files[i].content) :
                   i \in {j \in 1..7 : Release.files[j].path = p}}]

MCReplacement ==
  [p \in MCPath |->
     CASE p = SelfPath ->
            {{}} \cup {Holds(c) : c \in {"manifest 2", "wrong engine", "wrong version",
                                          "tools unlisted", "no json"}}
       [] p = DescriptorFile -> {{}, Holds("descriptor"), Holds("descriptor 2"),
                                 Holds("gpl descriptor")}
       [] p = CapsPath -> {{}, Holds("no decoders")}
       [] p = BinPath("scene-core") -> {Holds("engine"), Holds("engine 2"), Holds("broken engine")}
       [] p = BinPath("ffmpeg") -> {{}, Holds("ffmpeg"), Holds("trojan"), Links("ffmpeg")}
       [] p = BinPath("ffprobe") -> {Holds("no json")}
       [] p = BinPath("toolchain-descriptor.json") -> {Holds("descriptor")}
       [] p = LibraryPath -> {Holds("library 2")}
       [] p = LicensePath -> {{}}]

MCAnchors == {{}, {"manifest"}, {"manifest 2"}, {"wrong engine"}, {"wrong version"}}

Installed == [compat |-> "output-v1", fingerprint |-> "descriptor"]
MCRemembered == {{}, {Installed}}

\* The range of output sizes and rates does not matter here.
Window(start, end) ==
  [f \in {"startMs", "endMs"} |-> IF f = "startMs" THEN start ELSE end]
NoOptions == [f \in {} |-> 0]

Declared(content) ==
  <<[role |-> "source_media", content |-> content, size |-> MCSize[content]]>>

Draft(operation, options, content) ==
  [supported |-> TRUE, operation |-> operation, options |-> options,
   configHash |-> ConfigHash(options), contract |-> operation, attempt |-> 1,
   deadline |-> {}, inputs |-> Declared(content),
   inputFingerprint |-> InputFingerprint(Declared(content))]

\* Three good requests, then careless ones: of a foreign version, with the
\* options of another, with the input of another, with an empty window.
MCDrafts ==
  LET probe == Draft("probe", NoOptions, "media")
      audio == Draft("extract_audio_pcm", Window(0, 2), "media")
  IN {probe, audio, Draft("probe", NoOptions, "longer media"),
      [probe EXCEPT !.supported = FALSE],
      [audio EXCEPT !.options = Window(0, 1)],
      [probe EXCEPT !.inputs = Declared("longer media")],
      Draft("extract_audio_pcm", Window(2, 2), "media")}

MCStaged == {{}, {"media"}, {"longer media"}}

=============================================================================
