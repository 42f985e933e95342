------------------------------- MODULE Bundle -------------------------------
(***************************************************************************)
(* The commands of one installation as its Host uses them: `version` tells *)
(* the Host the identity it derives keys from, `doctor` checks the files,  *)
(* and `run` looks up the descriptor and the tools again, recomputes the   *)
(* key and starts the tools by path.  Files may change between and during  *)
(* commands.                                                               *)
(*                                                                         *)
(* crates/scene-core-engine/src/{cli,identity,run}.rs                      *)
(* crates/scene-core-media/src/{toolchain,probe}.rs                        *)
(* crates/scene-core-protocol/src/manifest.rs                              *)
(***************************************************************************)
EXTENDS Doctor, DerivationKeys

CONSTANTS
  Remembered,  \* identities the Host may know from an earlier session
  Drafts,      \* requests but for the derivation key
  Staged,      \* what the Host may stage for a run: Option(Content)
  NoToolchain  \* the bytes whose digest stands in for a missing fingerprint

ASSUME StagedAssumption == Staged \subseteq Option(Content)
ASSUME NoToolchainAssumption == NoToolchain \in Content \ DOMAIN Descriptor

VARIABLES
  learned,  \* the identity the Host knows, if it knows one
  run,      \* the run in progress, if one is
  outcome,  \* how the last run ended
  ran       \* the runs that passed validation

runVars    == <<learned, run, outcome, ran>>
bundleVars == <<vars, runVars>>

\* DerivationIdentity
Identity ==
  [compat: {Build[c].compat : c \in DOMAIN Build}, fingerprint: DOMAIN Descriptor]

ASSUME RememberedAssumption == Remembered \subseteq Option(Identity)

RunPhase ==
  {"resolve-fingerprint", "resolve-binaries", "validate", "ffprobe", "ffmpeg",
   "result"}

Tool == {"ffprobe", "ffmpeg"}

TypeOK ==
  /\ DoctorTypeOK
  /\ phase \in {"idle"} \cup DoctorPhase \cup RunPhase
  /\ learned \in Option(Identity)
  /\ \A r \in run :
       /\ r.staged \in Staged /\ r.fingerprint \in Option(DOMAIN Descriptor)
       /\ r.bin \in Option({BinDir, BinDir \o BinDir})
       /\ r.used \in [Tool -> Option(Content)]
  /\ run = {} <=> phase \notin RunPhase
  /\ outcome \in Option(ErrorCode \cup {"completed"})

BundleInit ==
  /\ DoctorInit
  /\ learned \in Remembered /\ run = {} /\ outcome = {} /\ ran = {}

\* resolve_toolchain_fingerprint: there is none if no descriptor can be read.
ToolchainFingerprint ==
  ReadDescriptor(disk, ResolveBundleRoot(disk) \o DescriptorFile)

\* run_version: without a readable descriptor, or from a broken build, the
\* command prints an error and the Host learns nothing.
Version ==
  /\ Begin("idle")
  /\ LET found == ToolchainFingerprint IN
     \/ /\ \E engine \in build', c \in found :
             /\ engine.wellFormed
             /\ learned' = {[compat |-> engine.compat, fingerprint |-> c]}
     \/ /\ found = {} \/ \E engine \in build' : ~engine.wellFormed
        /\ UNCHANGED learned
  /\ UNCHANGED <<touched, doctorVars, report, run, outcome, ran>>

\* The Host sends a request under the key it computes from what it knows.
StartRun ==
  /\ Begin("resolve-fingerprint")
  /\ \E draft \in Drafts, identity \in learned, staged \in Staged :
       run' = {[request |-> draft, key |-> DerivationKey(draft, identity),
                staged |-> staged, fingerprint |-> {}, bin |-> {},
                used |-> [t \in Tool |-> {}]]}
  /\ outcome' = {}
  /\ UNCHANGED <<touched, doctorVars, report, learned, ran>>

-----------------------------------------------------------------------------
Unchecked == UNCHANGED <<diskVars, build, commands, doctorVars, report, learned>>

\* run_run_command ends.
EndRun(how) ==
  phase' = "idle" /\ run' = {} /\ outcome' = {how}

\* The fingerprint is resolved once, before anything is checked.
ResolveFingerprint ==
  /\ phase = "resolve-fingerprint" /\ phase' = "resolve-binaries"
  /\ run' = {[r EXCEPT !.fingerprint = ToolchainFingerprint] : r \in run}
  /\ UNCHANGED <<outcome, ran>> /\ Unchecked

\* Toolchain::from_bin_dir: both tools are files.
Complete(dir) == \A t \in Tool : At(disk, dir \o <<t>>) # {}

\* resolve_toolchain_binaries: the bundle root is looked for once more.
ResolveBinaries ==
  /\ phase = "resolve-binaries" /\ phase' = "validate"
  /\ LET dir == ResolveBundleRoot(disk) \o BinDir IN
       run' = {[r EXCEPT !.bin = IF Complete(dir) THEN {dir} ELSE {}] : r \in run}
  /\ UNCHANGED <<outcome, ran>> /\ Unchecked

\* What run_run_command takes the engine and its toolchain to be.
SessionIdentity(r) ==
  [compat      |-> Or({e.compat : e \in build}, None),
   fingerprint |-> Or(r.fingerprint, NoToolchain)]

\* The code validate_request refuses a run with, if it does.
Refusal(r) ==
  OrElse(RequestFailure(r.request, r.key, SessionIdentity(r)),
         StagedFailure(r.request.inputs[1], r.staged))

\* run_session: without its binaries the backend is unavailable.
StartSession(r) ==
  \/ r.bin = {} /\ EndRun("TOOL_UNAVAILABLE")
  \/ r.bin # {} /\ phase' = "ffprobe" /\ UNCHANGED <<run, outcome>>

Validate ==
  /\ phase = "validate"
  /\ \E r \in run :
       /\ r.fingerprint # {}
       /\ \/ \E code \in Refusal(r) : EndRun(code) /\ UNCHANGED ran
          \/ Refusal(r) = {} /\ StartSession(r) /\ ran' = ran \cup {r}
  /\ Unchecked

\* Without a fingerprint the request is not validated at all: the staging root
\* is made where there is none, unless that fails, and the session starts with
\* whatever binaries were found.
SkipValidation ==
  /\ phase = "validate"
  /\ \E r \in run :
       /\ r.fingerprint = {}
       /\ \/ StartSession(r)
          \/ r.staged = {} /\ EndRun("TOOL_UNAVAILABLE")
  /\ UNCHANGED ran /\ Unchecked

\* Every operation probes its input; all but probe go on to ffmpeg.
AfterTool(t, operation) ==
  IF t = "ffprobe" /\ operation # "probe" THEN "ffmpeg" ELSE "result"

\* A tool is found by its path each time it is started, once its input is
\* seen to be a file.
RunTool(t) ==
  /\ phase = t
  /\ \E r \in run : \E dir \in r.bin : LET found == At(disk, dir \o <<t>>) IN
       \/ r.staged = {} /\ EndRun("UNSUPPORTED_INPUT")
       \/ r.staged # {} /\ found = {} /\ EndRun("TOOL_UNAVAILABLE")
       \/ /\ r.staged # {} /\ \E file \in found : file.content \notin DOMAIN Output
          /\ \E code \in {"TOOL_UNAVAILABLE", "TOOL_FAILED"} : EndRun(code)
       \/ /\ r.staged # {}
          /\ \E file \in found :
               /\ file.content \in DOMAIN Output
               /\ run' = {[r EXCEPT !.used[t] = {file.content}]}
          /\ phase' = AfterTool(t, r.request.operation)
          /\ UNCHANGED outcome
  /\ UNCHANGED ran /\ Unchecked

\* ArtifactManifest::validate, as far as the engine and the key go: the key is
\* recomputed, and here also for a run that was not validated.
DerivationRechecked(r) ==
  /\ \A e \in build : e.wellFormed
  /\ r.request.contract = OutputContract(r.request.operation)
  /\ r.key = DerivationKey(r.request, SessionIdentity(r))

\* Every operation but probe writes a manifest, which must be valid.
Result ==
  /\ phase = "result"
  /\ \E r \in run :
       EndRun(IF r.request.operation = "probe" \/ DerivationRechecked(r)
                THEN "completed" ELSE "ENGINE_INTERNAL")
  /\ UNCHANGED ran /\ Unchecked

RunStep ==
  \/ ResolveFingerprint \/ ResolveBinaries \/ Validate \/ SkipValidation
  \/ \E t \in Tool : RunTool(t)
  \/ Result

BundleNext ==
  \/ Install /\ UNCHANGED runVars
  \/ StartDoctor /\ UNCHANGED runVars
  \/ DoctorStep /\ UNCHANGED runVars
  \/ Version \/ StartRun \/ RunStep

BundleSpec == BundleInit /\ [][BundleNext]_bundleVars

-----------------------------------------------------------------------------
\* The doctor's words hold while nothing has changed since it began: if it
\* accepted the bundle, every later run works under the fingerprint of the
\* trusted manifest and starts the very tools that manifest lists, although it
\* looks the descriptor and the tools up again and hashes neither.  The
\* manifest must name the descriptor where the engine looks for it first.
VerifiedBundleRunsGenuineTools ==
  \A printed \in report, bytes \in anchor :
    LET m == Manifest[bytes] IN
    /\ printed.exit = 0 /\ touched = {} /\ root = <<>>
    /\ m.descriptorRef = DescriptorFile
    /\ BinDir \o DescriptorFile \notin Listed(m)
    => \A r \in run :
         /\ r.fingerprint \subseteq {m.fingerprint}
         /\ \A i \in 1..Len(m.files), t \in Tool :
              m.files[i].path = BinDir \o <<t>>
                => r.used[t] \subseteq {m.files[i].content}

\* The key names the engine and the toolchain that are installed.
KeyIsCurrent(key) ==
  /\ ToolchainFingerprint = {key.fingerprint}
  /\ \A file \in disk[EnginePath] : key.compat = Build[file.content].compat

\* A Host's key goes stale when the engine or the toolchain is upgraded under
\* it.  In an installation at rest a run under a stale key does not get to its
\* tools if there is a fingerprint to compare the key with.  If there is none,
\* because the descriptor cannot be read, the request is not validated and the
\* tools do start; then only a probe can complete, since whatever writes a
\* manifest has its key recomputed there.
StaleKeyIsRefused ==
  [][\A r \in run : calm /\ ~KeyIsCurrent(r.key) =>
       /\ ToolchainFingerprint # {} => phase \notin {"ffprobe", "ffmpeg", "result"}
       /\ phase' = "idle" /\ outcome' = {"completed"}
            => r.request.operation = "probe"]_bundleVars

\* The Host caches results by key alone: two runs that passed validation under
\* one key did the same operation with the same options on the same bytes.
OneKeyOneWork ==
  \A r, q \in ran : r.key = q.key =>
    /\ r.request.operation = q.request.operation
    /\ r.request.options = q.request.options
    /\ r.staged = q.staged
    /\ r.fingerprint = q.fingerprint

=============================================================================
