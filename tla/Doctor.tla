------------------------------- MODULE Doctor -------------------------------
(***************************************************************************)
(* `doctor --json` on a bundle that may be changed while it is looked at.  *)
(* The doctor reads the bundle one file at a time, in the frozen order of  *)
(* its checks, and stops at the first that fails; an installer may change  *)
(* a file between any two of its reads.                                    *)
(*                                                                         *)
(* crates/scene-core-engine/src/{doctor,runner,cli}.rs                     *)
(* crates/scene-core-protocol/src/cli.rs                                   *)
(***************************************************************************)
EXTENDS BundleContents

CONSTANTS
  Replacement,     \* what an installer may leave at a path: Option(File) each
  MaxChanges,      \* bound on the changes it makes
  InitialDisk,
  Build,           \* the engine a content is, where it is one
  Anchors,         \* manifest digests a Host may trust: Option(Content)
  Output,          \* the versions a tool's -version output contains, where it starts
  TempDirMayFail,
  MaxCommands      \* bound on the commands that are run

ASSUME InstallerAssumption ==
  /\ InitialDisk \in [Path -> Option(File)]
  /\ Replacement \in [Path -> SUBSET Option(File)]
  /\ MaxChanges \in Nat /\ MaxCommands \in Nat
ASSUME BuildAssumption ==
  /\ DOMAIN Build \subseteq Content
  /\ \A c \in DOMAIN Build : Build[c].wellFormed \in BOOLEAN
ASSUME AnchorsAssumption == Anchors \subseteq Option(Content)
ASSUME OutputAssumption == DOMAIN Output \subseteq Content
ASSUME TempDirAssumption == TempDirMayFail \in BOOLEAN

VARIABLES
  disk, changes,      \* the installation, and how often it has changed
  touched,            \* paths changed since the last doctor began
  calm,               \* nothing has changed since the current command began
  build,              \* the engine that runs the current command
  commands, phase,    \* commands begun, and the check under way
  root, anchor,       \* the doctor's arguments
  manifest,           \* bytes of the manifest it accepted, once it has
  toolchain,          \* fingerprint of the descriptor it accepted, once it has
  at, outputs,        \* position in a list, and the output of the tools started
  checks,             \* the checks made, in order
  report              \* the report last printed, if one was

diskVars   == <<disk, changes, touched, calm>>
doctorVars == <<root, anchor, manifest, toolchain, at, outputs, checks>>
vars       == <<diskVars, build, commands, phase, doctorVars, report>>

\* DOCTOR_CHECK_NAMES
CheckNames ==
  <<"package-manifest", "manifest-trust-anchor", "toolchain-descriptor",
    "bundle-files", "engine-executable", "engine-version",
    "tool-executables", "tool-versions", "capabilities", "temp-dir">>

DoctorPhase ==
  {CheckNames[i] : i \in {1, 2, 3, 4, 5, 7, 9, 10}}
    \cup {"hash-file", "report"}

Fault ==
  {"PACKAGE_MANIFEST_UNREADABLE", "PACKAGE_MANIFEST_INVALID",
   "TRUST_ANCHOR_MISSING", "MANIFEST_DIGEST_MISMATCH",
   "TOOLCHAIN_DESCRIPTOR_INVALID", "BUNDLE_FILE_INVALID",
   "ENGINE_EXECUTABLE_INVALID", "ENGINE_VERSION_MISMATCH",
   "TOOL_EXECUTABLE_INVALID", "TOOL_VERSION_MISMATCH",
   "CAPABILITIES_INVALID", "TEMP_DIR_UNAVAILABLE"}

\* DoctorCheck: without a code it passed.
Check == [name: {CheckNames[i] : i \in 1..10}, code: Option(Fault)]

DoctorReport ==
  [checks: Seq(Check), toolchain: Option(DOMAIN Descriptor), exit: {0, 2, 3}]

DoctorTypeOK ==
  /\ disk \in [Path -> Option(File)] /\ changes \in Nat
  /\ touched \subseteq Path /\ calm \in BOOLEAN
  /\ build \in Option({Build[c] : c \in DOMAIN Build}) /\ commands \in Nat
  /\ root \in {<<>>, BinDir} /\ anchor \in Option(Content)
  /\ manifest \in Option(DOMAIN Manifest)
  /\ toolchain \in Option(DOMAIN Descriptor)
  /\ at \in Nat \ {0} /\ outputs \in Seq({Output[c] : c \in DOMAIN Output})
  /\ checks \in Seq(Check) /\ Len(checks) <= 10
  /\ report \in Option(DoctorReport)

DoctorInit ==
  /\ disk = InitialDisk /\ changes = 0 /\ touched = {} /\ calm = TRUE
  /\ build = {} /\ commands = 0 /\ phase = "idle"
  /\ root = <<>> /\ anchor = {} /\ manifest = {} /\ toolchain = {}
  /\ at = 1 /\ outputs = <<>> /\ checks = <<>> /\ report = {}

\* A file is replaced, removed or added.
Install ==
  /\ changes < MaxChanges
  /\ \E p \in Path : \E file \in Replacement[p] \ {disk[p]} :
       /\ disk' = [disk EXCEPT ![p] = file]
       /\ touched' = touched \cup {p}
  /\ changes' = changes + 1 /\ calm' = FALSE
  /\ UNCHANGED <<build, commands, phase, doctorVars, report>>

EnginePath == BinDir \o <<"scene-core">>

\* A command of the installed engine begins in phase `first`.
Begin(first) ==
  /\ phase = "idle" /\ commands < MaxCommands
  /\ \E file \in At(disk, EnginePath) :
       file.content \in DOMAIN Build /\ build' = {Build[file.content]}
  /\ commands' = commands + 1 /\ phase' = first
  /\ calm' = TRUE
  /\ UNCHANGED <<disk, changes>>

\* Faulty variant: the checks of the doctor before are still there.
StartDoctorAgain ==
  /\ Begin("package-manifest")
  /\ touched' = {}
  /\ anchor' \in Anchors
  /\ root' \in {<<>>, ResolveBundleRoot(disk)}
  /\ manifest' = {} /\ toolchain' = {} /\ report' = {}
  /\ at' = 1 /\ outputs' = <<>> /\ UNCHANGED checks

\* doctor [--bundle-root <bundle>] [--trusted-manifest-sha256 <digest>]
StartDoctor ==
  /\ Begin("package-manifest")
  /\ touched' = {}
  /\ anchor' \in Anchors
  /\ root' \in {<<>>, ResolveBundleRoot(disk)}
  /\ manifest' = {} /\ toolchain' = {} /\ report' = {}
  /\ at' = 1 /\ outputs' = <<>> /\ checks' = <<>>

-----------------------------------------------------------------------------
(* The checks.  The last one made decides: a failure goes to the report.    *)

Passed(name)       == [name |-> name, code |-> {}]
Failed(name, code) == [name |-> name, code |-> {code}]

Pass(name, next) ==
  checks' = Append(checks, Passed(name)) /\ phase' = next

Refuse(name, code) ==
  checks' = Append(checks, Failed(name, code)) /\ phase' = "report"

Elsewhere == UNCHANGED <<diskVars, build, commands, root, anchor, report>>

\* The file at a path of the bundle that is examined.
Here(path) == At(disk, root \o path)

GoodManifest(content) ==
  content \in DOMAIN Manifest /\ ManifestValid(Manifest[content])

ReadManifest ==
  /\ phase = "package-manifest"
  /\ \/ /\ Here(SelfPath) = {}
        /\ Refuse("package-manifest", "PACKAGE_MANIFEST_UNREADABLE")
        /\ UNCHANGED manifest
     \/ \E file \in Here(SelfPath) :
          /\ ~GoodManifest(file.content)
          /\ Refuse("package-manifest", "PACKAGE_MANIFEST_INVALID")
          /\ UNCHANGED manifest
     \/ \E file \in Here(SelfPath) :
          /\ GoodManifest(file.content)
          /\ Pass("package-manifest", "manifest-trust-anchor")
          /\ manifest' = {file.content}
  /\ UNCHANGED <<toolchain, at, outputs>> /\ Elsewhere

\* Faulty variant: without an anchor there is nothing to compare.
CheckAnchorIfGiven ==
  /\ phase = "manifest-trust-anchor"
  /\ \/ /\ anchor # {} /\ anchor # manifest
        /\ Refuse("manifest-trust-anchor", "MANIFEST_DIGEST_MISMATCH")
     \/ /\ anchor = {} \/ anchor = manifest
        /\ Pass("manifest-trust-anchor", "toolchain-descriptor")
  /\ UNCHANGED <<manifest, toolchain, at, outputs>> /\ Elsewhere

CheckAnchor ==
  /\ phase = "manifest-trust-anchor"
  /\ \/ /\ anchor = {}
        /\ Refuse("manifest-trust-anchor", "TRUST_ANCHOR_MISSING")
     \/ /\ anchor # {} /\ anchor # manifest
        /\ Refuse("manifest-trust-anchor", "MANIFEST_DIGEST_MISMATCH")
     \/ /\ anchor # {} /\ anchor = manifest
        /\ Pass("manifest-trust-anchor", "toolchain-descriptor")
  /\ UNCHANGED <<manifest, toolchain, at, outputs>> /\ Elsewhere

GoodDescriptor(content, m) ==
  content = m.fingerprint /\ Closed(Descriptor[content], m)

CheckDescriptor ==
  /\ phase = "toolchain-descriptor"
  /\ \E bytes \in manifest : LET m == Manifest[bytes]
                                 read == ReadDescriptor(disk, root \o m.descriptorRef) IN
       \/ /\ \A c \in read : ~GoodDescriptor(c, m)
          /\ Refuse("toolchain-descriptor", "TOOLCHAIN_DESCRIPTOR_INVALID")
          /\ UNCHANGED toolchain
       \/ /\ \E c \in read : GoodDescriptor(c, m)
          /\ Pass("toolchain-descriptor", "bundle-files")
          /\ toolchain' = read
  /\ UNCHANGED <<manifest, at, outputs>> /\ Elsewhere

\* check_bundle_files, one file: no link on its path, then its size.
InspectFile ==
  /\ phase = "bundle-files"
  /\ \E bytes \in manifest : LET files == Manifest[bytes].files
                                 entry == files[at] IN
       /\ at <= Len(files)
       /\ \/ /\ \E file \in Here(entry.path) :
                  ~file.link /\ Size[file.content] = entry.size
             /\ phase' = "hash-file" /\ UNCHANGED checks
          \/ /\ \A file \in Here(entry.path) :
                  file.link \/ Size[file.content] # entry.size
             /\ Refuse("bundle-files", "BUNDLE_FILE_INVALID")
  /\ UNCHANGED <<manifest, toolchain, at, outputs>> /\ Elsewhere

\* Faulty variant: a file of the right size needs no digest.
TrustSize ==
  /\ phase = "hash-file"
  /\ phase' = "bundle-files" /\ at' = at + 1
  /\ UNCHANGED <<checks, manifest, toolchain, outputs>> /\ Elsewhere

\* ... and its digest, for which it is opened again.
HashFile ==
  /\ phase = "hash-file"
  /\ \E bytes \in manifest : LET entry == Manifest[bytes].files[at] IN
       \/ /\ \E file \in Here(entry.path) : file.content = entry.content
          /\ phase' = "bundle-files" /\ at' = at + 1
          /\ UNCHANGED checks
       \/ /\ \A file \in Here(entry.path) : file.content # entry.content
          /\ Refuse("bundle-files", "BUNDLE_FILE_INVALID")
          /\ UNCHANGED at
  /\ UNCHANGED <<manifest, toolchain, outputs>> /\ Elsewhere

\* Faulty variant: the manifest decides what is looked for, not what is there.
ListedOnly(m) == \A p \in Listed(m) : At(disk, root \o p) # {}

\* collect_files and the comparison with the listed paths: nothing in the
\* bundle is a link, and nothing is unlisted but the manifest.
NothingUnlisted(m) ==
  \A p \in {q \in Path : Below(root, q)} : \A file \in disk[p] :
    /\ ~file.link
    /\ SubSeq(p, Len(root) + 1, Len(p)) \in Listed(m) \cup {SelfPath}

WalkBundle ==
  /\ phase = "bundle-files"
  /\ \E bytes \in manifest : LET m == Manifest[bytes] IN
       /\ at > Len(m.files)
       /\ \/ NothingUnlisted(m) /\ Pass("bundle-files", "engine-executable")
          \/ ~NothingUnlisted(m) /\ Refuse("bundle-files", "BUNDLE_FILE_INVALID")
  /\ at' = 1
  /\ UNCHANGED <<manifest, toolchain, outputs>> /\ Elsewhere

\* The running engine, by what it says of itself.
CheckEngine ==
  /\ phase = "engine-executable"
  /\ \E bytes \in manifest, engine \in build :
       \/ /\ ~engine.wellFormed
          /\ Refuse("engine-executable", "ENGINE_EXECUTABLE_INVALID")
       \/ /\ engine.wellFormed
          /\ engine.identity # Manifest[bytes].engine.identity
          /\ checks' = checks \o
               <<Passed("engine-executable"),
                 Failed("engine-version", "ENGINE_VERSION_MISMATCH")>>
          /\ phase' = "report"
       \/ /\ engine.wellFormed
          /\ engine.identity = Manifest[bytes].engine.identity
          /\ checks' = checks \o
               <<Passed("engine-executable"), Passed("engine-version")>>
          /\ phase' = "tool-executables"
  /\ UNCHANGED <<manifest, toolchain, at, outputs>> /\ Elsewhere

\* RealCommandRunner::run of one tool with -version.
StartTool ==
  /\ phase = "tool-executables"
  /\ \E bytes \in manifest : LET tools == Manifest[bytes].tools IN
       /\ at <= Len(tools)
       /\ \/ /\ \E file \in Here(tools[at].path) :
                  /\ file.content \in DOMAIN Output
                  /\ outputs' = Append(outputs, Output[file.content])
             /\ at' = at + 1
             /\ UNCHANGED <<checks, phase>>
          \/ /\ \A file \in Here(tools[at].path) : file.content \notin DOMAIN Output
             /\ Refuse("tool-executables", "TOOL_EXECUTABLE_INVALID")
             /\ UNCHANGED <<at, outputs>>
  /\ UNCHANGED <<manifest, toolchain>> /\ Elsewhere

CheckVersions ==
  /\ phase = "tool-executables"
  /\ \E bytes \in manifest :
       LET tools   == Manifest[bytes].tools
           reports == \A i \in 1..Len(tools) : tools[i].version \in outputs[i]
       IN /\ at > Len(tools)
          /\ \/ /\ reports
                /\ checks' = checks \o
                     <<Passed("tool-executables"), Passed("tool-versions")>>
                /\ phase' = "capabilities"
             \/ /\ ~reports
                /\ checks' = checks \o
                     <<Passed("tool-executables"),
                       Failed("tool-versions", "TOOL_VERSION_MISMATCH")>>
                /\ phase' = "report"
  /\ UNCHANGED <<manifest, toolchain, at, outputs>> /\ Elsewhere

\* The file is read again; the descriptor, not the manifest, has its digest.
GoodCapabilities(content) ==
  /\ \A d \in toolchain : content = Descriptor[d].capabilities
  /\ content \in Capabilities

CheckCapabilities ==
  /\ phase = "capabilities"
  /\ \E bytes \in manifest : LET found == Here(Manifest[bytes].capabilitiesRef) IN
       \/ /\ \E file \in found : GoodCapabilities(file.content)
          /\ Pass("capabilities", "temp-dir")
       \/ /\ \A file \in found : ~GoodCapabilities(file.content)
          /\ Refuse("capabilities", "CAPABILITIES_INVALID")
  /\ UNCHANGED <<manifest, toolchain, at, outputs>> /\ Elsewhere

CheckTempDir ==
  /\ phase = "temp-dir"
  /\ \/ Pass("temp-dir", "report")
     \/ TempDirMayFail /\ Refuse("temp-dir", "TEMP_DIR_UNAVAILABLE")
  /\ UNCHANGED <<manifest, toolchain, at, outputs>> /\ Elsewhere

-----------------------------------------------------------------------------
\* DoctorOutput::status and is_ok
IsOk(made) == \A i \in 1..Len(made) : made[i].code = {}

\* DoctorOutput::validate
ReportValid(engine, identity, made) ==
  /\ \A b \in engine : b.wellFormed
  /\ identity = {} => ~IsOk(made)
  /\ made # <<>> /\ Len(made) <= Len(CheckNames)
  /\ \A i \in 1..Len(made) : made[i].name = CheckNames[i]

\* DoctorOutput::exit_code, from the first failed check.
DoctorExitCode(made) ==
  IF IsOk(made) THEN 0
  ELSE IF \E i \in 1..Len(made) : made[i].code = {"TEMP_DIR_UNAVAILABLE"} THEN 3
  ELSE 2

\* finish, and run_doctor_command: a report that does not validate is replaced
\* by the error ENGINE_INTERNAL.
PrintReport ==
  /\ phase = "report" /\ phase' = "idle"
  /\ report' = {made \in {[checks |-> checks, toolchain |-> toolchain,
                              exit |-> DoctorExitCode(checks)]} :
                  ReportValid(build, toolchain, checks)}
  /\ UNCHANGED <<diskVars, build, commands, doctorVars>>

DoctorStep ==
  \/ ReadManifest \/ CheckAnchor \/ CheckDescriptor
  \/ InspectFile \/ HashFile \/ WalkBundle
  \/ CheckEngine \/ StartTool \/ CheckVersions
  \/ CheckCapabilities \/ CheckTempDir \/ PrintReport

-----------------------------------------------------------------------------
\* What manifest m says of a path: its content, or that nothing is there.
Expected(m, p) ==
  IF p = root \o SelfPath THEN anchor
  ELSE {m.files[i].content : i \in {j \in 1..Len(m.files) : root \o m.files[j].path = p}}

AsListed(m, p) ==
  /\ {file.content : file \in disk[p]} = Expected(m, p)
  /\ \A file \in disk[p] : ~file.link

Inside == {p \in Path : Below(root, p)}

\* What each check is for, said of the whole disk at once.
Sound(name, m) ==
  LET described == ReadDescriptor(disk, root \o m.descriptorRef)
      program(i) == Here(m.tools[i].path)
  IN CASE name = "package-manifest" -> ManifestValid(m)
       [] name = "manifest-trust-anchor" ->
            anchor # {} /\ anchor = {file.content : file \in Here(SelfPath)}
       [] name = "toolchain-descriptor" ->
            \E c \in described : c = m.fingerprint /\ Closed(Descriptor[c], m)
       [] name = "bundle-files" ->
            /\ \A p \in Inside : AsListed(m, p)
            /\ \A i \in 1..Len(m.files) :
                 /\ root \o m.files[i].path \in Path
                 /\ m.files[i].size = Size[m.files[i].content]
       [] name = "engine-executable" -> \A b \in build : b.wellFormed
       [] name = "engine-version" -> \A b \in build : b.identity = m.engine.identity
       [] name = "tool-executables" ->
            \A i \in 1..2 : \E file \in program(i) : file.content \in DOMAIN Output
       [] name = "tool-versions" ->
            \A i \in 1..2 : \E file \in program(i) :
              m.tools[i].version \in Output[file.content]
       [] name = "capabilities" ->
            \E c \in described : \E file \in Here(m.capabilitiesRef) :
              file.content = Descriptor[c].capabilities /\ file.content \in Capabilities

\* On a bundle at rest the doctor, one read at a time, finds what is there:
\* every check it passed holds of the whole bundle, a check it failed does
\* not, and it stops before the last check only on a failure.
DoctorIsExact ==
  phase = "report" /\ calm =>
    LET made(i)  == checks[i].name
        last     == Len(checks)
        parsed   == {Manifest[file.content] :
                       file \in {f \in Here(SelfPath) : f.content \in DOMAIN Manifest}}
    IN /\ checks[last].code = {} => last = 10
       /\ checks[1].code = {} => parsed # {}
       /\ \A m \in parsed : \A i \in 1..last :
            made(i) # "temp-dir" => (checks[i].code = {} <=> Sound(made(i), m))

\* An `ok` report can be relied on for every file that nobody has changed since
\* the doctor began: the manifest is the trusted one, the fingerprint is the
\* one it records, and each such path holds what it lists, or nothing.
OkReportIsTrusted ==
  \A printed \in report : printed.exit = 0 =>
    \E bytes \in anchor : LET m == Manifest[bytes] IN
      /\ GoodManifest(bytes)
      /\ printed.toolchain = {m.fingerprint}
      /\ \A p \in Inside \ touched : AsListed(m, p)

=============================================================================
