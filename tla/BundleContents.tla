--------------------------- MODULE BundleContents ---------------------------
(***************************************************************************)
(* What the files of a bundle say: the package manifest, the toolchain     *)
(* descriptor and the capability lists, with the rules each must satisfy,  *)
(* and where the engine looks for the bundle.                              *)
(*                                                                         *)
(* crates/scene-core-protocol/src/{package,identity}.rs                    *)
(* crates/scene-core-engine/src/identity.rs                                *)
(***************************************************************************)
EXTENDS Contents, Options, Sequences

CONSTANTS
  Name,          \* names of files and directories
  Path,          \* the paths of the installation: sequences of names
  Rank,          \* the position of a path in byte order
  Manifest,      \* the package manifest a content parses to, where it does
  Descriptor,    \* the toolchain descriptor a content parses to
  Capabilities   \* the contents that hold five lists of non-empty names

ASSUME PathAssumption ==
  /\ {"bin", "package-manifest.json", "toolchain-descriptor.json"} \subseteq Name
  /\ \A p \in Path : p # <<>> /\ p \in Seq(Name)
ASSUME RankAssumption ==
  /\ Rank \in [Path -> Nat]
  /\ \A p, q \in Path : Rank[p] = Rank[q] => p = q
ASSUME ParsedAssumption ==
  /\ DOMAIN Manifest \subseteq Content
  /\ DOMAIN Descriptor \subseteq Content
  /\ Capabilities \subseteq Content

ASSUME ManifestAssumption ==
  \A c \in DOMAIN Manifest :
    Manifest[c].files \in
      Seq([path: Seq(Name) \ {<<>>}, content: Content, size: Nat])

File == [content: Content, link: BOOLEAN]

\* Names relative to the root of the bundle.
SelfPath       == <<"package-manifest.json">>
DescriptorFile == <<"toolchain-descriptor.json">>
BinDir         == <<"bin">>

Below(dir, path) == Len(dir) < Len(path) /\ SubSeq(path, 1, Len(dir)) = dir

Listed(m) == {m.files[i].path : i \in 1..Len(m.files)}

\* The files a manifest refers to by role.
Required(m) ==
  {m.engine.path, m.tools[1].path, m.tools[2].path,
   m.descriptorRef, m.capabilitiesRef, m.sbomRef}

\* PackageManifest::validate.  `plain` stands for the rules on its texts,
\* target, engine entry and source URLs.
ManifestValid(m) ==
  /\ m.plain
  /\ Len(m.tools) = 2
  /\ m.tools[1].name = "ffmpeg" /\ m.tools[2].name = "ffprobe"
  /\ \A i \in 1..2 : m.tools[i].lgpl
  /\ m.files # <<>>
  /\ \A i \in 1..Len(m.files) - 1 :
       Rank[m.files[i].path] < Rank[m.files[i + 1].path]
  /\ SelfPath \notin Listed(m)
  /\ Required(m) \subseteq Listed(m)
  /\ \A p \in Required(m) : ~Below(m.licenses, p)
  /\ \E p \in Listed(m) : Below(m.licenses, p)

\* ToolchainDescriptor::validate.  A flag is "gpl" when the lgpl profile
\* forbids it, and "bare" when it is not a --flag.
DescriptorValid(d) ==
  /\ d.plain
  /\ d.flags # {} /\ d.flags \cap {"gpl", "bare"} = {}
  /\ d.libraries # <<>>
  /\ \A i, j \in 1..Len(d.libraries) :
       d.libraries[i].path = d.libraries[j].path => i = j

\* check_shared_library_closure: the manifest lists each library, and with the
\* digest the descriptor gives.
Closed(d, m) ==
  \A i \in 1..Len(d.libraries) :
    \E j \in 1..Len(m.files) :
      /\ m.files[j].path = d.libraries[i].path
      /\ m.files[j].content = d.libraries[i].content

-----------------------------------------------------------------------------
\* The file at a path, if there is one.
At(disk, path) == IF path \in Path THEN disk[path] ELSE {}

\* resolve_bundle_root: where the descriptor is, next to the engine before
\* above it.
ResolveBundleRoot(disk) ==
  IF At(disk, BinDir \o DescriptorFile) = {} /\ At(disk, DescriptorFile) # {}
    THEN <<>> ELSE BinDir

\* read_toolchain_descriptor: the fingerprint of a readable, valid descriptor.
ReadDescriptor(disk, path) ==
  {f.content : f \in {g \in At(disk, path) :
     /\ g.content \in DOMAIN Descriptor
     /\ DescriptorValid(Descriptor[g.content])}}

=============================================================================
