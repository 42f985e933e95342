---------------------------- MODULE BundleProofs ----------------------------
(***************************************************************************)
(* What a Host may conclude from a doctor's report, from a derivation key  *)
(* and from the identity it was told, for every installation, every way of *)
(* changing it and every sequence of commands.                             *)
(***************************************************************************)
EXTENDS Bundle, DoctorProofs

Key == {DerivationKey(draft, identity) : draft \in Drafts, identity \in Identity}

Run ==
  [request: Drafts, key: Key, staged: Staged,
   fingerprint: Option(DOMAIN Descriptor),
   bin: Option({BinDir, BinDir \o BinDir}), used: [Tool -> Option(Content)]]

RunTypes ==
  /\ phase \in {"idle"} \cup DoctorPhase \cup RunPhase
  /\ learned \in Option(Identity)
  /\ run \in Option(Run)
  /\ run = {} <=> phase \notin RunPhase
  /\ outcome \in Option(ErrorCode \cup {"completed"})

LEMMA RunIsNoDoctor == /\ RunPhase \cap DoctorPhase = {} /\ "idle" \notin RunPhase
                       /\ "idle" \notin DoctorPhase
BY PhaseNames DEF RunPhase, Checking

LEMMA TypesAreTypeOK == DoctorTypes /\ RunTypes => TypeOK
<1> SUFFICES ASSUME DoctorTypes, RunTypes PROVE TypeOK  OBVIOUS
<1>1. ASSUME NEW r \in run
      PROVE  /\ r.staged \in Staged /\ r.fingerprint \in Option(DOMAIN Descriptor)
             /\ r.bin \in Option({BinDir, BinDir \o BinDir})
             /\ r.used \in [Tool -> Option(Content)]
  <2>1. r \in Run  BY OptionIsOne DEF RunTypes
  <2> QED  BY <2>1 DEF Run
<1> QED  BY <1>1 DEF TypeOK, DoctorTypes, RunTypes

LEMMA RunStays ==
  ASSUME RunTypes, UNCHANGED runVars, phase' \in {"idle"} \cup DoctorPhase,
         phase \notin RunPhase
  PROVE  RunTypes'
BY RunIsNoDoctor DEF RunTypes, runVars

\* The code a run is refused with is one of the matrix.
LEMMA RefusalType ==
  ASSUME NEW r
  PROVE  Refusal(r) \subseteq ErrorCode
BY DEF Refusal, RequestFailure, StagedFailure, OrElse, ErrorCode

LEMMA EndRunTypes ==
  ASSUME RunTypes, NEW how \in ErrorCode \cup {"completed"}, EndRun(how),
         UNCHANGED learned
  PROVE  RunTypes'
<1>1. outcome' \in Option(ErrorCode \cup {"completed"})
  BY OneIsOption DEF EndRun
<1>2. run' \in Option(Run) /\ run' = {} /\ phase' = "idle"
  BY OneIsOption DEF EndRun
<1> QED  BY <1>1, <1>2, RunIsNoDoctor DEF RunTypes


\* The run, as the record it is.
LEMMA TheRun ==
  ASSUME RunTypes, phase \in RunPhase
  PROVE  \E r \in Run : run = {r}
<1>1. PICK r \in run : TRUE  BY DEF RunTypes
<1> QED  BY <1>1, OptionIsOne DEF RunTypes

LEMMA OnwardTypes ==
  ASSUME RunTypes, phase' \in RunPhase, NEW r \in Run, run' = {r},
         UNCHANGED <<learned, outcome>>
  PROVE  RunTypes'
BY OneIsOption DEF RunTypes

LEMMA StartRunTypes ==
  ASSUME RunTypes, StartRun
  PROVE  RunTypes'
<1>1. PICK draft \in Drafts, identity \in learned, staged \in Staged :
        run' = {[request |-> draft, key |-> DerivationKey(draft, identity),
                 staged |-> staged, fingerprint |-> {}, bin |-> {},
                 used |-> [t \in Tool |-> {}]]}
  BY DEF StartRun
<1> DEFINE r == [request |-> draft, key |-> DerivationKey(draft, identity),
                 staged |-> staged, fingerprint |-> {}, bin |-> {},
                 used |-> [t \in Tool |-> {}]]
<1>2. identity \in Identity  BY OptionIsOne DEF RunTypes
<1>3. DerivationKey(draft, identity) \in Key  BY <1>2 DEF Key
<1>4. /\ {} \in Option(Content) /\ {} \in Option(DOMAIN Descriptor)
      /\ {} \in Option({BinDir, BinDir \o BinDir})
      /\ {} \in Option(ErrorCode \cup {"completed"})
  BY OneIsOption
<1>5. [t \in Tool |-> {}] \in [Tool -> Option(Content)]  BY <1>4
<1>6. r \in Run  BY <1>3, <1>4, <1>5 DEF Run
<1> HIDE DEF r
<1>7. run' \in Option(Run) /\ run' # {}  BY <1>1, <1>6, OneIsOption DEF r
<1>8. /\ phase' = "resolve-fingerprint" /\ outcome' = {} /\ UNCHANGED learned
  BY DEF StartRun, Begin
<1>9. phase' \in RunPhase  BY <1>8 DEF RunPhase
<1> QED  BY <1>4, <1>7, <1>8, <1>9 DEF RunTypes

LEMMA RunStepTypes ==
  ASSUME DoctorTypes, RunTypes, phase \in RunPhase, RunStep
  PROVE  RunTypes'
<1>1. PICK r \in Run : run = {r}  BY TheRun
<1>d. disk \in [Path -> Option(File)]  BY DEF DoctorTypes, DoctorTypeOK
<1>2. CASE ResolveFingerprint
  <2> DEFINE read == ToolchainFingerprint
             next == [r EXCEPT !.fingerprint = read]
  <2>2. read \in Option(DOMAIN Descriptor)  BY <1>d, ReadType DEF ToolchainFingerprint
  <2>3. next \in Run
    <3> HIDE DEF read
    <3> QED  BY <2>2 DEF Run
  <2>4. run' = {next}  BY <1>1, <1>2 DEF ResolveFingerprint
  <2>5. /\ phase' = "resolve-binaries" /\ UNCHANGED <<learned, outcome>>
    BY <1>2 DEF ResolveFingerprint, Unchecked
  <2>6. phase' \in RunPhase  BY <2>5 DEF RunPhase
  <2> HIDE DEF next
  <2> QED  BY <2>3, <2>4, <2>5, <2>6, OnwardTypes
<1>3. CASE ResolveBinaries
  <2> DEFINE dir  == ResolveBundleRoot(disk) \o BinDir
             bin  == IF Complete(dir) THEN {dir} ELSE {}
             next == [r EXCEPT !.bin = bin]
  <2>1. dir \in {BinDir, BinDir \o BinDir}
    <3>1. <<>> \o BinDir = BinDir  BY DEF BinDir
    <3> QED  BY <3>1 DEF ResolveBundleRoot
  <2>2. bin \in Option({BinDir, BinDir \o BinDir})
    <3> HIDE DEF dir
    <3> QED  BY <2>1, OneIsOption
  <2>3. next \in Run
    <3> HIDE DEF bin
    <3> QED  BY <2>2 DEF Run
  <2>4. run' = {next}  BY <1>1, <1>3 DEF ResolveBinaries
  <2>5. /\ phase' = "validate" /\ UNCHANGED <<learned, outcome>>
    BY <1>3 DEF ResolveBinaries, Unchecked
  <2>6. phase' \in RunPhase  BY <2>5 DEF RunPhase
  <2> HIDE DEF next
  <2> QED  BY <2>3, <2>4, <2>5, <2>6, OnwardTypes
<1>4. CASE Validate \/ SkipValidation
  <2>1. UNCHANGED learned  BY <1>4 DEF Validate, SkipValidation, Unchecked
  <2>2. CASE \E code \in ErrorCode : EndRun(code)  BY <2>1, <2>2, EndRunTypes
  <2>3. CASE phase' = "ffprobe" /\ UNCHANGED <<run, outcome>>
    <3>1. phase' \in RunPhase  BY <2>3 DEF RunPhase
    <3> QED  BY <1>1, <2>1, <2>3, <3>1, OnwardTypes
  <2>4. "TOOL_UNAVAILABLE" \in ErrorCode  BY DEF ErrorCode
  <2>5. ASSUME StartSession(r)
        PROVE  EndRun("TOOL_UNAVAILABLE") \/ (phase' = "ffprobe" /\ UNCHANGED <<run, outcome>>)
    BY <2>5 DEF StartSession
  <2>6. \/ \E code \in Refusal(r) : EndRun(code)
        \/ StartSession(r) \/ EndRun("TOOL_UNAVAILABLE")
    BY <1>1, <1>4 DEF Validate, SkipValidation
  <2> QED  BY <2>2, <2>3, <2>4, <2>5, <2>6, RefusalType
<1>5. ASSUME NEW t \in Tool, RunTool(t) PROVE RunTypes'
  <2>1. UNCHANGED learned  BY <1>5 DEF RunTool, Unchecked
  <2>2. CASE \E code \in ErrorCode : EndRun(code)  BY <2>1, <2>2, EndRunTypes
  <2>3. ASSUME NEW file, NEW dir \in r.bin, file \in At(disk, dir \o <<t>>),
               run' = {[r EXCEPT !.used[t] = {file.content}]},
               phase' \in RunPhase, UNCHANGED outcome
        PROVE  RunTypes'
    <3>1. file \in File
      <4>1. At(disk, dir \o <<t>>) \in Option(File)  BY <1>d, AtType
      <4> QED  BY <4>1, <2>3, OptionIsOne
    <3>2. {file.content} \in Option(Content)  BY <3>1, OneIsOption DEF File
    <3>3. [r EXCEPT !.used[t] = {file.content}] \in Run  BY <3>2 DEF Run
    <3> QED  BY <2>1, <2>3, <3>3, OnwardTypes
  <2>4. {"UNSUPPORTED_INPUT", "TOOL_UNAVAILABLE", "TOOL_FAILED"} \subseteq ErrorCode
    BY DEF ErrorCode
  <2>5. \A o : AfterTool(t, o) \in RunPhase  BY DEF AfterTool, RunPhase
  <2> QED  BY <1>1, <1>5, <2>2, <2>3, <2>4, <2>5 DEF RunTool
<1>6. CASE Result
  <2>1. "ENGINE_INTERNAL" \in ErrorCode  BY DEF ErrorCode
  <2> QED  BY <1>6, <2>1, EndRunTypes DEF Result, Unchecked
<1> QED  BY <1>2, <1>3, <1>4, <1>5, <1>6 DEF RunStep

-----------------------------------------------------------------------------
(* The invariant that the theorems share.                                  *)

IInv == DoctorTypes /\ RunTypes /\ DoctorKnows /\ DoctorFinds

LEMMA DoctorStepPhase == DoctorStep => phase \in DoctorPhase
BY PhaseNames
   DEF DoctorStep, Checking, ReadManifest, CheckAnchor, CheckDescriptor,
       InspectFile, HashFile, WalkBundle, CheckEngine, StartTool, CheckVersions,
       CheckCapabilities, CheckTempDir, PrintReport

LEMMA RunStepPhase ==
  RunStep => phase \in RunPhase /\ phase' \in RunPhase \cup {"idle"}
<1> SUFFICES ASSUME RunStep
             PROVE  phase \in RunPhase /\ phase' \in RunPhase \cup {"idle"}
  OBVIOUS
<1>1. \A t, o : AfterTool(t, o) \in RunPhase  BY DEF AfterTool, RunPhase
<1>2. ASSUME NEW t \in Tool, RunTool(t)
      PROVE  phase \in RunPhase /\ phase' \in RunPhase \cup {"idle"}
  BY <1>1, <1>2 DEF RunTool, EndRun, Tool, RunPhase
<1>3. CASE ResolveFingerprint  BY <1>3 DEF ResolveFingerprint, RunPhase
<1>4. CASE ResolveBinaries  BY <1>4 DEF ResolveBinaries, RunPhase
<1>5. CASE Validate \/ SkipValidation
  BY <1>5 DEF Validate, SkipValidation, StartSession, EndRun, RunPhase
<1>6. CASE Result  BY <1>6 DEF Result, EndRun, RunPhase
<1> QED  BY <1>2, <1>3, <1>4, <1>5, <1>6 DEF RunStep

LEMMA RunStepLeaves ==
  RunStep => UNCHANGED <<diskVars, build, commands, doctorVars, report, learned>>
BY DEF RunStep, ResolveFingerprint, ResolveBinaries, Validate, SkipValidation, RunTool,
       Result, Unchecked

LEMMA InitIInv == BundleInit => IInv
<1> SUFFICES ASSUME BundleInit PROVE IInv  OBVIOUS
<1>1. DoctorTypes /\ DoctorKnows  BY InitTypes, InitKnows DEF BundleInit
<1>2. /\ phase = "idle" /\ learned \in Option(Identity)
  BY RememberedAssumption DEF BundleInit, DoctorInit
<1>3. run = {} /\ run \in Option(Run) /\ outcome \in Option(ErrorCode \cup {"completed"})
  BY OneIsOption DEF BundleInit
<1>4. RunTypes  BY <1>2, <1>3, RunIsNoDoctor DEF RunTypes
<1>5. DoctorFinds  BY <1>2, RunIsNoDoctor DEF DoctorFinds
<1> QED  BY <1>1, <1>4, <1>5 DEF IInv

LEMMA VersionTypes ==
  ASSUME IInv, Version
  PROVE  /\ phase' = "idle" /\ UNCHANGED <<disk, changes, touched, doctorVars, report>>
         /\ RunTypes'
<1>1. /\ phase = "idle" /\ phase' = "idle"
      /\ UNCHANGED <<disk, changes, touched, doctorVars, report, run, outcome>>
  BY DEF Version, Begin
<1>2. learned' \in Option(Identity)
  <2> DEFINE found == ToolchainFingerprint
  <2>1. CASE UNCHANGED learned  BY <2>1 DEF IInv, RunTypes
  <2>2. ASSUME NEW engine \in build', NEW c \in found,
               learned' = {[compat |-> engine.compat, fingerprint |-> c]}
        PROVE  learned' \in Option(Identity)
    <3>1. build' \in Option({Build[b] : b \in DOMAIN Build})
      BY BeginBuild DEF Version, IInv
    <3>2. engine \in {Build[b] : b \in DOMAIN Build}  BY <3>1, OptionIsOne
    <3>3. found \in Option(DOMAIN Descriptor)
      BY ReadType DEF IInv, DoctorTypes, DoctorTypeOK, ToolchainFingerprint
    <3> HIDE DEF found
    <3>4. c \in DOMAIN Descriptor  BY <3>3, OptionIsOne
    <3>5. [compat |-> engine.compat, fingerprint |-> c] \in Identity
      BY <3>2, <3>4 DEF Identity
    <3> QED  BY <2>2, <3>5, OneIsOption
  <2> QED  BY <2>1, <2>2 DEF Version
<1>3. RunTypes'  BY <1>1, <1>2 DEF IInv, RunTypes
<1> QED  BY <1>1, <1>3

LEMMA StepIInv == IInv /\ [BundleNext]_bundleVars => IInv'
<1> SUFFICES ASSUME IInv, [BundleNext]_bundleVars PROVE IInv'  OBVIOUS
<1> USE DEF IInv
<1>1. CASE Install /\ UNCHANGED runVars
  <2>1. DoctorTypes' /\ DoctorKnows'  BY <1>1, InstallTypes, InstallKnows
  <2>2. RunTypes'  BY <1>1 DEF RunTypes, runVars, Install
  <2>3. DoctorFinds'  BY <1>1 DEF Install, DoctorFinds
  <2> QED  BY <2>1, <2>2, <2>3
<1>2. CASE StartDoctor /\ UNCHANGED runVars
  <2>1. DoctorTypes' /\ DoctorKnows'  BY <1>2, StartDoctorTypes, StartDoctorKnows
  <2>2. phase = "idle" /\ phase' = "package-manifest"  BY <1>2 DEF StartDoctor, Begin
  <2>3. phase' \in DoctorPhase /\ phase \notin RunPhase
    BY <2>2, PhaseNames DEF Checking, RunPhase
  <2> QED  BY <1>2, <2>1, <2>3, RunStays, StartDoctorFinds
<1>3. CASE DoctorStep /\ UNCHANGED runVars
  <2>1. phase \in DoctorPhase  BY <1>3, DoctorStepPhase
  <2>2. DoctorTypes' /\ DoctorKnows' /\ phase' \in DoctorPhase \cup {"idle"}
    BY <1>3, <2>1, DoctorStepTypes, DoctorStepKnows
  <2>3. DoctorFinds'  BY <1>3, <2>1, DoctorStepFinds
  <2> QED  BY <1>3, <2>1, <2>2, <2>3, RunStays, RunIsNoDoctor
<1>4. CASE Version
  <2>1. phase' = "idle" /\ UNCHANGED <<disk, changes, touched, doctorVars, report>>
        /\ RunTypes'
    BY <1>4, VersionTypes
  <2>2. \E first : Begin(first)  BY <1>4 DEF Version
  <2>3. phase' \notin DoctorPhase /\ phase' \notin Checking
    BY <2>1, RunIsNoDoctor, PhaseNames
  <2>4. DoctorFinds'  BY <2>3 DEF DoctorFinds
  <2> QED  BY <2>1, <2>2, <2>3, <2>4, OtherTypes, OtherKnows
<1>5. CASE StartRun
  <2>1. /\ phase' = "resolve-fingerprint"
        /\ UNCHANGED <<disk, changes, touched, doctorVars, report>>
        /\ \E first : Begin(first)
    BY <1>5 DEF StartRun, Begin
  <2>2. phase' \notin DoctorPhase /\ phase' \notin Checking
    BY <2>1, PhaseNames DEF Checking
  <2>3. DoctorFinds'  BY <2>2 DEF DoctorFinds
  <2> QED  BY <1>5, <2>1, <2>2, <2>3, StartRunTypes, OtherTypes, OtherKnows
<1>6. CASE RunStep
  <2>1. /\ UNCHANGED <<disk, changes, touched, doctorVars, report>>
        /\ UNCHANGED <<build, commands, calm>>
    BY <1>6, RunStepLeaves DEF diskVars
  <2>2. phase \in RunPhase /\ phase' \notin DoctorPhase /\ phase' \notin Checking
    BY <1>6, RunStepPhase, RunIsNoDoctor, PhaseNames
  <2>3. DoctorFinds'  BY <2>2 DEF DoctorFinds
  <2> QED  BY <1>6, <2>1, <2>2, <2>3, RunStepTypes, OtherTypes, OtherKnows
<1>7. CASE UNCHANGED bundleVars
  <2>1. UNCHANGED <<disk, changes, touched, calm, build, commands, phase, root, anchor,
                    manifest, toolchain, at, outputs, checks, report,
                    learned, run, outcome>>
    BY <1>7 DEF bundleVars, vars, diskVars, doctorVars, runVars
  <2>2. RunTypes'  BY <2>1 DEF RunTypes
  <2>3. DoctorTypes'  BY <2>1 DEF DoctorTypes, DoctorTypeOK, CheckCount, Made
  <2>4. Accepted' => Accepted  BY <2>1 DEF Accepted
  <2>5. DoctorKnows'
    BY <2>1, <2>4, RestIsSteady, KnownStays DEF DoctorKnows
  <2>6. DoctorFinds'  BY <1>7, FoundStays DEF bundleVars
  <2> QED  BY <2>2, <2>3, <2>5, <2>6
<1> QED  BY <1>1, <1>2, <1>3, <1>4, <1>5, <1>6, <1>7 DEF BundleNext

LEMMA Inductive == BundleSpec => []IInv
<1> QED  BY InitIInv, StepIInv, PTL DEF BundleSpec

\* TypeOK: in particular the doctor never makes more than its ten checks, and
\* a run is in progress exactly in the phases of one.
THEOREM BundleTypes == BundleSpec => []TypeOK
<1>1. IInv => TypeOK  BY TypesAreTypeOK DEF IInv
<1> QED  BY <1>1, Inductive, PTL

\* OkReportIsTrusted: what a Host may conclude from an ok report of a bundle
\* that was changed while the doctor read it, or has been since.
THEOREM OkReportsAreTrusted == BundleSpec => []OkReportIsTrusted
<1>1. IInv => OkReportIsTrusted  BY KnownIsTrusted DEF IInv
<1> QED  BY <1>1, Inductive, PTL

\* DoctorIsExact: on a bundle at rest the doctor, which reads one file at a
\* time, passes a check exactly if what it is for holds of the whole bundle.
THEOREM DoctorsAreExact == BundleSpec => []DoctorIsExact
<1>1. IInv => DoctorIsExact  BY FoundIsExact DEF IInv
<1> QED  BY <1>1, Inductive, PTL

-----------------------------------------------------------------------------
(* What a run that was not refused is known to be.                         *)

Genuine(r) ==
  /\ r.fingerprint = {r.key.fingerprint}
  /\ r.key.operation = r.request.operation
  /\ r.key.config = r.request.options
  /\ \E content, role, size :
       /\ r.key.inputs = {[role |-> role, content |-> content, size |-> size]}
       /\ r.staged = {content}

LEMMA OrOfOne == \A x, default : Or({x}, default) = x
BY DEF Or

LEMMA NotRefused ==
  ASSUME NEW r \in Run, r.fingerprint # {}, Refusal(r) = {}
  PROVE  /\ Genuine(r)
         /\ r.key.compat = Or({e.compat : e \in build}, None)
<1> DEFINE compat   == Or({e.compat : e \in build}, None)
           identity == SessionIdentity(r)
           request  == r.request
           declared == request.inputs[1]
<1>1. r.fingerprint \in Option(DOMAIN Descriptor) /\ r.staged \in Option(Content)
  BY StagedAssumption DEF Run
<1>2. /\ RequestFailure(request, r.key, identity) = {}
      /\ StagedFailure(declared, r.staged) = {}
  BY DEF Refusal, OrElse
<1>3. RequestValid(request) /\ r.key = DerivationKey(request, identity)
  BY <1>2 DEF RequestFailure
<1>4. /\ r.key.inputs = request.inputFingerprint
      /\ r.key.operation = request.operation
      /\ r.key.config = request.configHash
      /\ r.key.compat = compat
      /\ r.key.fingerprint = Or(r.fingerprint, NoToolchain)
  BY <1>3 DEF DerivationKey, SessionIdentity
<1>5. r.fingerprint = {r.key.fingerprint}
  <2>1. PICK x \in r.fingerprint : TRUE  OBVIOUS
  <2>2. r.fingerprint = {x}  BY <1>1, <2>1, OptionIsOne
  <2> QED  BY <1>4, <2>2, OrOfOne
<1>6. request.configHash = request.options  BY <1>3 DEF RequestValid, ConfigHash
<1>7. PICK content \in r.staged : declared.content = content
  BY <1>2 DEF StagedFailure
<1>8. r.staged = {content}  BY <1>1, OptionIsOne
<1>9. request.inputFingerprint =
        {[role |-> declared.role, content |-> content, size |-> declared.size]}
  <2>1. Len(request.inputs) = 1 /\ request.inputFingerprint = InputFingerprint(request.inputs)
    BY <1>3 DEF RequestValid, InputsValid
  <2>2. 1 .. Len(request.inputs) = {1}  BY <2>1
  <2> QED  BY <1>7, <2>1, <2>2 DEF InputFingerprint
<1>10. Genuine(r)
  <2>1. /\ r.key.inputs =
             {[role |-> declared.role, content |-> content, size |-> declared.size]}
        /\ r.staged = {content}
    BY <1>4, <1>8, <1>9
  <2> HIDE DEF declared
  <2>2. \E c, role, size : /\ r.key.inputs = {[role |-> role, content |-> c, size |-> size]}
                           /\ r.staged = {c}
    BY <2>1, Zenon
  <2>3. r.key.operation = r.request.operation /\ r.key.config = r.request.options
    BY <1>4, <1>6
  <2> QED  BY <1>5, <2>2, <2>3, Zenon DEF Genuine
<1> QED  BY <1>4, <1>10

RanInv == \A r \in ran : Genuine(r)

LEMMA StepRan == IInv /\ RanInv /\ [BundleNext]_bundleVars => RanInv'
<1> SUFFICES ASSUME IInv, RanInv, [BundleNext]_bundleVars PROVE RanInv'  OBVIOUS
<1>1. ASSUME UNCHANGED ran PROVE RanInv'  BY <1>1 DEF RanInv, Genuine
<1>2. CASE RunStep
  <2>1. PICK r \in Run : run = {r}  BY <1>2, RunStepPhase, TheRun DEF IInv
  <2>2. \/ UNCHANGED ran
        \/ ran' = ran \cup {r} /\ r.fingerprint # {} /\ Refusal(r) = {}
    BY <1>2, <2>1
       DEF RunStep, ResolveFingerprint, ResolveBinaries, Validate, SkipValidation, RunTool,
           Result
  <2>3. CASE ran' = ran \cup {r} /\ r.fingerprint # {} /\ Refusal(r) = {}
    <3>1. Genuine(r)  BY <2>3, NotRefused, Zenon
    <3>2. \A q \in ran' : Genuine(q)  BY <2>3, <3>1, Zenon DEF RanInv
    <3> QED  BY <3>2, Zenon DEF RanInv, Genuine
  <2> QED  BY <1>1, <2>2, <2>3, Zenon
<1> QED
  BY <1>1, <1>2 DEF BundleNext, runVars, Version, StartRun, bundleVars

\* OneKeyOneWork: a result that the Host has cached under a key is the result
\* of the operation, the options, the input bytes and the tools it asks for
\* when it computes that key again.  Digests are taken to be injective.
THEOREM OneKeyIsOneWork == BundleSpec => []OneKeyOneWork
<1>1. BundleInit => RanInv  BY DEF BundleInit, RanInv
<1>2. RanInv => OneKeyOneWork
  <2> SUFFICES ASSUME RanInv, NEW r \in ran, NEW q \in ran, r.key = q.key
               PROVE  /\ r.request.operation = q.request.operation
                      /\ r.request.options = q.request.options
                      /\ r.staged = q.staged
                      /\ r.fingerprint = q.fingerprint
    BY DEF OneKeyOneWork
  <2>1. Genuine(r) /\ Genuine(q)  BY DEF RanInv
  <2>2. r.staged = q.staged
    <3>1. PICK c, role, size :
            /\ r.key.inputs = {[role |-> role, content |-> c, size |-> size]}
            /\ r.staged = {c}
      BY <2>1 DEF Genuine
    <3>2. PICK d, role2, size2 :
            /\ q.key.inputs = {[role |-> role2, content |-> d, size |-> size2]}
            /\ q.staged = {d}
      BY <2>1 DEF Genuine
    <3>3. [role |-> role, content |-> c, size |-> size]
            = [role |-> role2, content |-> d, size |-> size2]
      BY <3>1, <3>2
    <3>4. c = d  BY <3>3
    <3> QED  BY <3>1, <3>2, <3>4
  <2> QED  BY <2>1, <2>2 DEF Genuine
<1> QED  BY <1>1, <1>2, StepRan, Inductive, PTL DEF BundleSpec

-----------------------------------------------------------------------------
(* The installation a run was started in, while it is at rest.             *)

Running == {"ffprobe", "ffmpeg", "result"}

AtRest ==
  /\ phase \in RunPhase /\ calm =>
       /\ \E file \in At(disk, EnginePath) :
            file.content \in DOMAIN Build /\ build = {Build[file.content]}
       /\ phase # "resolve-fingerprint" => \A r \in run : r.fingerprint = ToolchainFingerprint
  /\ phase \in Running =>
       \A r \in run : r.fingerprint # {} =>
         /\ r.fingerprint = {r.key.fingerprint}
         /\ r.key.compat = Or({e.compat : e \in build}, None)

LEMMA StepAtRest == IInv /\ AtRest /\ [BundleNext]_bundleVars => AtRest'
<1> SUFFICES ASSUME IInv, AtRest, [BundleNext]_bundleVars PROVE AtRest'  OBVIOUS
<1> USE DEF Running
<1>1. ASSUME UNCHANGED <<run, build, phase>>,
             calm' => UNCHANGED <<disk, calm>>
      PROVE  AtRest'
  BY <1>1 DEF AtRest, ToolchainFingerprint
<1>2. CASE Install /\ UNCHANGED runVars
  BY <1>1, <1>2 DEF Install, runVars
<1>3. ASSUME phase' \notin RunPhase PROVE AtRest'
  BY <1>3 DEF AtRest, RunPhase
<1>4. CASE StartDoctor
  BY <1>3, <1>4 DEF StartDoctor, Begin, RunPhase
<1>5. CASE DoctorStep
  <2>1. phase' \in DoctorPhase \cup {"idle"}
    BY <1>5, DoctorStepPhase, DoctorStepTypes DEF IInv
  <2> QED  BY <1>3, <2>1, RunIsNoDoctor
<1>6. CASE Version
  BY <1>3, <1>6 DEF Version, Begin, RunPhase
<1>7. CASE StartRun
  BY <1>7 DEF StartRun, Begin, AtRest, ToolchainFingerprint
<1>8. CASE RunStep
  <2>1. PICK r \in Run : run = {r}  BY <1>8, RunStepPhase, TheRun DEF IInv
  <2>2. UNCHANGED <<disk, calm, build>> /\ phase \in RunPhase
    BY <1>8, RunStepLeaves, RunStepPhase DEF diskVars
  <2>3. CASE ResolveFingerprint
    <3>1. run' = {[r EXCEPT !.fingerprint = ToolchainFingerprint]} /\ phase' = "resolve-binaries"
      BY <2>1, <2>3 DEF ResolveFingerprint, ToolchainFingerprint
    <3>2. [r EXCEPT !.fingerprint = ToolchainFingerprint].fingerprint = ToolchainFingerprint  BY DEF Run
    <3> QED  BY <2>2, <3>1, <3>2 DEF AtRest, ToolchainFingerprint
  <2>4. CASE ResolveBinaries
    <3> DEFINE dir   == ResolveBundleRoot(disk) \o BinDir
               found == IF Complete(dir) THEN {dir} ELSE {}
    <3>0. run' = {[q EXCEPT !.bin = found] : q \in run}
      BY <2>4 DEF ResolveBinaries
    <3> HIDE DEF found
    <3>1. PICK bin : run' = {[r EXCEPT !.bin = bin]}
      BY <2>1, <3>0
    <3>2. [r EXCEPT !.bin = bin].fingerprint = r.fingerprint  BY DEF Run
    <3>3. phase = "resolve-binaries" /\ phase' = "validate"  BY <2>4 DEF ResolveBinaries
    <3> QED  BY <2>1, <2>2, <3>1, <3>2, <3>3 DEF AtRest, ToolchainFingerprint
  <2>5. CASE Validate \/ SkipValidation
    <3>1. \/ phase' = "idle"
          \/ /\ phase' = "ffprobe" /\ UNCHANGED run
             /\ r.fingerprint = {} \/ Refusal(r) = {}
      BY <2>1, <2>5 DEF Validate, SkipValidation, StartSession, EndRun
    <3>2. phase = "validate"  BY <2>5 DEF Validate, SkipValidation
    <3>3. CASE phase' = "idle"  BY <1>3, <3>3 DEF RunPhase
    <3>4. ASSUME phase' = "ffprobe", UNCHANGED run, r.fingerprint = {} \/ Refusal(r) = {}
          PROVE  AtRest'
      <4>1. r.fingerprint # {} => /\ r.fingerprint = {r.key.fingerprint}
                                 /\ r.key.compat = Or({e.compat : e \in build}, None)
        BY <3>4, NotRefused DEF Genuine
      <4> QED  BY <2>1, <2>2, <3>2, <3>4, <4>1 DEF AtRest, ToolchainFingerprint
    <3> QED  BY <3>1, <3>3, <3>4
  <2>6. ASSUME NEW t \in Tool, RunTool(t) PROVE AtRest'
    <3>1. phase \in Running  BY <2>6 DEF RunTool, Tool
    <3>2. \/ phase' = "idle"
          \/ /\ phase' \in Running
             /\ \E c : run' = {[r EXCEPT !.used[t] = c]}
      BY <2>1, <2>6 DEF RunTool, EndRun, AfterTool
    <3>3. CASE phase' = "idle"  BY <1>3, <3>3 DEF RunPhase
    <3>4. ASSUME phase' \in Running, NEW c, run' = {[r EXCEPT !.used[t] = c]}
          PROVE  AtRest'
      <4>1. /\ [r EXCEPT !.used[t] = c].fingerprint = r.fingerprint
            /\ [r EXCEPT !.used[t] = c].key = r.key
        BY DEF Run
      <4> QED  BY <2>1, <2>2, <3>1, <3>4, <4>1 DEF AtRest, ToolchainFingerprint
    <3> QED  BY <3>2, <3>3, <3>4
  <2>7. CASE Result
    BY <1>3, <2>7 DEF Result, EndRun, RunPhase
  <2> QED  BY <1>8, <2>3, <2>4, <2>5, <2>6, <2>7 DEF RunStep
<1>9. CASE UNCHANGED bundleVars
  BY <1>1, <1>9 DEF bundleVars, vars, diskVars, runVars
<1> QED  BY <1>2, <1>4, <1>5, <1>6, <1>7, <1>8, <1>9 DEF BundleNext

\* The engine of a run at rest is the one that lies in the bundle.
LEMMA EngineAtRest ==
  ASSUME IInv, AtRest, phase \in RunPhase, calm, NEW file \in disk[EnginePath]
  PROVE  Or({e.compat : e \in build}, None) = Build[file.content].compat
<1>1. PICK found \in At(disk, EnginePath) : build = {Build[found.content]}
  BY DEF AtRest
<1>2. At(disk, EnginePath) \in Option(File)
  BY AtType DEF IInv, DoctorTypes, DoctorTypeOK
<1>3. disk[EnginePath] = {found}  BY <1>1, <1>2, OptionIsOne DEF At
<1>4. {e.compat : e \in build} = {Build[file.content].compat}  BY <1>1, <1>3
<1> QED  BY <1>4, OrOfOne

\* The digest that stands in for a missing fingerprint is in nobody's key.
LEMMA NobodysKey ==
  ASSUME NEW r \in Run, r.fingerprint = {}
  PROVE  ~DerivationRechecked(r)
<1>1. PICK draft \in Drafts, identity \in Identity : r.key = DerivationKey(draft, identity)
  BY DEF Run, Key
<1>2. r.key.fingerprint \in DOMAIN Descriptor  BY <1>1 DEF DerivationKey, Identity
<1>3. DerivationKey(r.request, SessionIdentity(r)).fingerprint = NoToolchain
  BY DEF DerivationKey, SessionIdentity, Or
<1> QED  BY <1>2, <1>3, NoToolchainAssumption DEF DerivationRechecked

\* StaleKeyIsRefused: without a change during the run, its tools start under a
\* key of another engine or toolchain only where no descriptor can be read, and
\* what it writes then is refused by its own manifest.
THEOREM StaleKeysAreRefused == BundleSpec => StaleKeyIsRefused
<1>1. BundleInit => AtRest
  BY DEF BundleInit, DoctorInit, AtRest, RunPhase, Running
<1>2. IInv /\ AtRest /\ [BundleNext]_bundleVars
        => [\A r \in run : calm /\ ~KeyIsCurrent(r.key) =>
              /\ ToolchainFingerprint # {} => phase \notin {"ffprobe", "ffmpeg", "result"}
              /\ phase' = "idle" /\ outcome' = {"completed"}
                   => r.request.operation = "probe"]_bundleVars
  <2> SUFFICES ASSUME IInv, AtRest, BundleNext, NEW r \in run, calm, ~KeyIsCurrent(r.key)
               PROVE  /\ ToolchainFingerprint # {} => phase \notin Running
                      /\ phase' = "idle" /\ outcome' = {"completed"}
                           => r.request.operation = "probe"
    BY DEF Running
  <2>1. phase \in RunPhase /\ r \in Run /\ run = {r}
    BY TheRun DEF IInv, RunTypes
  <2>2. phase \in Running => r.fingerprint = ToolchainFingerprint
    BY <2>1 DEF AtRest, Running
  <2>3. CASE phase \in Running /\ ToolchainFingerprint # {}
    <3>1. /\ r.fingerprint = {r.key.fingerprint}
          /\ r.key.compat = Or({e.compat : e \in build}, None)
      BY <2>2, <2>3 DEF AtRest
    <3>2. KeyIsCurrent(r.key)
        BY <2>1, <2>2, <2>3, <3>1, EngineAtRest DEF KeyIsCurrent
    <3> QED  BY <3>2
  <2>4. ASSUME phase' = "idle", outcome' = {"completed"}, r.request.operation # "probe"
        PROVE  phase \in Running /\ ToolchainFingerprint # {}
    <3>1. Result
      <4>1. RunStep
        BY <2>1, <2>4, DoctorStepPhase, RunIsNoDoctor
           DEF BundleNext, Install, StartDoctor, Version, StartRun, Begin, RunPhase
      <4>2. \A code \in ErrorCode : ~EndRun(code)
        BY <2>4 DEF EndRun, ErrorCode
      <4>3. "TOOL_UNAVAILABLE" \in ErrorCode /\ "TOOL_FAILED" \in ErrorCode
            /\ "UNSUPPORTED_INPUT" \in ErrorCode
        BY DEF ErrorCode
      <4>4. ~ResolveFingerprint /\ ~ResolveBinaries
        BY <2>4 DEF ResolveFingerprint, ResolveBinaries
      <4>5. ~Validate /\ ~SkipValidation
        BY <2>4, <4>2, <4>3, RefusalType DEF Validate, SkipValidation, StartSession
      <4>6. \A t \in Tool : ~RunTool(t)
        BY <2>4, <4>2, <4>3 DEF RunTool, AfterTool
      <4> QED  BY <4>1, <4>4, <4>5, <4>6 DEF RunStep
    <3>2. phase \in Running  BY <3>1 DEF Result, Running
    <3>3. DerivationRechecked(r)  BY <2>1, <2>4, <3>1 DEF Result, EndRun
    <3> QED  BY <2>1, <2>2, <3>2, <3>3, NobodysKey
  <2> QED  BY <2>3, <2>4
<1> QED  BY <1>1, <1>2, StepAtRest, Inductive, PTL DEF BundleSpec, StaleKeyIsRefused

-----------------------------------------------------------------------------
(* What a run finds in a bundle that the doctor has accepted.               *)

\* The bundle was accepted under the digest `bytes` and has not been changed.
Verified(bytes) ==
  LET m == Manifest[bytes] IN
  /\ bytes \in anchor /\ Accepted /\ touched = {} /\ root = <<>>
  /\ m.descriptorRef = DescriptorFile
  /\ BinDir \o DescriptorFile \notin Listed(m)

FromBundle(r, m) ==
  /\ r.fingerprint \subseteq {m.fingerprint}
  /\ r.bin \subseteq {BinDir}
  /\ \A i \in 1..Len(m.files), t \in Tool :
       m.files[i].path = BinDir \o <<t>> => r.used[t] \subseteq {m.files[i].content}

VerifiedRun == \A bytes : Verified(bytes) => \A r \in run : FromBundle(r, Manifest[bytes])

LEMMA NoPrefix == \A path \in Seq(Name) : <<>> \o path = path
<1> SUFFICES ASSUME NEW path \in Seq(Name) PROVE <<>> \o path = path  OBVIOUS
<1> QED  BY ConcatEmptySeq

LEMMA FixedPaths ==
  /\ DescriptorFile \in Seq(Name) /\ BinDir \in Seq(Name)
  /\ BinDir \o DescriptorFile \in Seq(Name)
  /\ BinDir \o DescriptorFile # SelfPath
<1>1. DescriptorFile \in Seq(Name) /\ BinDir \in Seq(Name)
  BY PathAssumption DEF DescriptorFile, BinDir
<1>2. Len(BinDir \o DescriptorFile) = 2 /\ Len(SelfPath) = 1
  BY DEF BinDir, DescriptorFile, SelfPath
<1> QED  BY <1>1, <1>2

\* The engine looks for the descriptor in the bundle, and finds what the
\* manifest lists at every path.
LEMMA VerifiedFiles ==
  ASSUME IInv, NEW bytes, Verified(bytes)
  PROVE  LET m == Manifest[bytes] IN
         /\ ResolveBundleRoot(disk) = <<>>
         /\ ReadDescriptor(disk, DescriptorFile) \subseteq {m.fingerprint}
         /\ \A i \in 1..Len(m.files) :
              {file.content : file \in At(disk, m.files[i].path)} = {m.files[i].content}
<1> DEFINE m == Manifest[bytes]
<1>1. /\ KnownManifest /\ KnownAnchor /\ KnownDescriptor /\ AllFilesKnown /\ KnownTree
      /\ touched = {} /\ root = <<>> /\ bytes \in anchor
  BY DEF Verified, IInv, DoctorKnows
<1>2. bytes \in manifest /\ bytes \in DOMAIN Manifest
  BY <1>1, OptionIsOne DEF KnownAnchor, IInv, DoctorTypes, DoctorTypeOK
<1>3. ASSUME NEW path \in Seq(Name)
      PROVE  Untouched(path) /\ Holding(path) = {file.content : file \in At(disk, path)}
  BY <1>1, <1>3, NoPrefix DEF Untouched, Holding, Here
<1>4. {file.content : file \in At(disk, DescriptorFile)} = {m.fingerprint}
  BY <1>1, <1>2, <1>3, FixedPaths DEF KnownDescriptor, Verified
<1>5. At(disk, BinDir \o DescriptorFile) = {}
  <2> DEFINE stray == BinDir \o DescriptorFile
  <2>1. stray \in Seq(Name) /\ stray # SelfPath /\ stray \notin Listed(m)
    BY FixedPaths DEF Verified
  <2> HIDE DEF stray
  <2>2. CASE stray \notin Path  BY <2>2 DEF At, stray
  <2>3. CASE stray \in Path
    <3> SUFFICES ASSUME NEW file \in disk[stray] PROVE FALSE  BY <2>3 DEF At, stray
    <3>1. Len(stray) \in Nat /\ Len(stray) > 0  BY <2>3, PathType
    <3>2. Len(root) = 0 /\ Len(root) + 1 = 1  BY <1>1
    <3>3. SubSeq(stray, 1, 0) = <<>>  BY <2>1
    <3>4. stray \in Inside \ touched
      BY <1>1, <2>3, <3>1, <3>2, <3>3 DEF Inside, Below
    <3>5. SubSeq(stray, 1, Len(stray)) = stray  BY <2>1, <3>1, SeqEqual, SubSeqProperties
    <3>6. stray \in Listed(m) \cup {SelfPath}
      BY <1>1, <1>2, <3>2, <3>4, <3>5 DEF KnownTree
    <3> QED  BY <2>1, <3>6
  <2> QED  BY <2>2, <2>3
<1>6. ResolveBundleRoot(disk) = <<>>  BY <1>4, <1>5 DEF ResolveBundleRoot
<1>7. ReadDescriptor(disk, DescriptorFile) \subseteq {m.fingerprint}
  <2> DEFINE read == ReadDescriptor(disk, DescriptorFile)
             held == {file.content : file \in At(disk, DescriptorFile)}
  <2>1. disk \in [Path -> Option(File)]  BY DEF IInv, DoctorTypes, DoctorTypeOK
  <2>2. \A c \in read : held = {c}  BY <2>1, ReadType
  <2>3. held = {m.fingerprint}  BY <1>4
  <2> HIDE DEF read, held
  <2>4. read \subseteq {m.fingerprint}  BY <2>2, <2>3
  <2> QED  BY <2>4 DEF read
<1>8. ASSUME NEW i \in 1..Len(m.files)
      PROVE  {file.content : file \in At(disk, m.files[i].path)} = {m.files[i].content}
  BY <1>1, <1>2, <1>3, ListedPath DEF AllFilesKnown
<1> QED  BY <1>6, <1>7, <1>8

LEMMA StepVerified == IInv /\ VerifiedRun /\ [BundleNext]_bundleVars => VerifiedRun'
<1> SUFFICES ASSUME IInv, VerifiedRun, [BundleNext]_bundleVars,
                    NEW bytes, Verified(bytes)'
             PROVE  \A r \in run' : FromBundle(r, Manifest[bytes])
  BY DEF VerifiedRun, FromBundle
<1> DEFINE m == Manifest[bytes]
<1>1. ASSUME run' = {} PROVE \A r \in run' : FromBundle(r, m)  BY <1>1
<1>2. ASSUME UNCHANGED <<touched, root, anchor, report, checks>>, phase' \notin DoctorPhase
      PROVE  Verified(bytes)
  <2>1. phase' # "report"  BY <1>2, PhaseNames
  <2>2. Accepted' => Accepted  BY <1>2, <2>1 DEF Accepted
  <2> QED  BY <1>2, <2>2 DEF Verified
<1>3. CASE Install /\ UNCHANGED runVars
  BY <1>3 DEF Install, Verified
<1>4. CASE (StartDoctor \/ DoctorStep) /\ UNCHANGED runVars
  <2>1. phase \notin RunPhase
    BY <1>4, DoctorStepPhase, RunIsNoDoctor DEF StartDoctor, Begin, RunPhase
  <2> QED  BY <1>1, <1>4, <2>1 DEF runVars, IInv, RunTypes
<1>5. CASE Version
  <2>1. run' = {}
    BY <1>5 DEF Version, Begin, IInv, RunTypes, RunPhase
  <2> QED  BY <1>1, <2>1
<1>6. CASE StartRun
  BY <1>6 DEF StartRun, FromBundle
<1>7. CASE RunStep
  <2>1. PICK r \in Run : run = {r}  BY <1>7, RunStepPhase, TheRun DEF IInv
  <2>2. /\ UNCHANGED <<disk, touched, root, anchor, report, checks>>
        /\ phase' \notin DoctorPhase
    BY <1>7, RunStepLeaves, RunStepPhase, RunIsNoDoctor DEF diskVars, doctorVars
  <2>3. Verified(bytes)  BY <1>2, <2>2
  <2>4. FromBundle(r, m)  BY <2>1, <2>3 DEF VerifiedRun
  <2>5. /\ ResolveBundleRoot(disk) = <<>>
        /\ ReadDescriptor(disk, DescriptorFile) \subseteq {m.fingerprint}
        /\ \A i \in 1..Len(m.files) :
             {file.content : file \in At(disk, m.files[i].path)} = {m.files[i].content}
    BY <2>3, VerifiedFiles
  <2>6. CASE ResolveFingerprint
    <3> DEFINE read == ToolchainFingerprint
    <3>1. read \subseteq {m.fingerprint}  BY <2>5, FixedPaths, NoPrefix DEF ToolchainFingerprint
    <3> HIDE DEF read
    <3>2. run' = {[r EXCEPT !.fingerprint = read]}
      BY <2>1, <2>6 DEF ResolveFingerprint, read
    <3>3. FromBundle([r EXCEPT !.fingerprint = read], m)
      BY <2>4, <3>1 DEF FromBundle, Run
    <3> QED  BY <3>2, <3>3
  <2>7. CASE ResolveBinaries
    <3> DEFINE dir   == ResolveBundleRoot(disk) \o BinDir
               found == IF Complete(dir) THEN {dir} ELSE {}
    <3>1. found \subseteq {BinDir}  BY <2>5, FixedPaths, NoPrefix
    <3>2. run' = {[q EXCEPT !.bin = found] : q \in run}  BY <2>7 DEF ResolveBinaries
    <3> HIDE DEF found
    <3>3. run' = {[r EXCEPT !.bin = found]}  BY <2>1, <3>2
    <3>4. FromBundle([r EXCEPT !.bin = found], m)  BY <2>4, <3>1 DEF FromBundle, Run
    <3> QED  BY <3>3, <3>4
  <2>8. CASE Validate \/ SkipValidation
    <3>1. run' = {} \/ run' = run
      BY <2>8 DEF Validate, SkipValidation, StartSession, EndRun
    <3> QED  BY <1>1, <2>1, <2>4, <3>1
  <2>9. ASSUME NEW t \in Tool, RunTool(t)
        PROVE  \A q \in run' : FromBundle(q, m)
    <3>1. \/ run' = {}
          \/ \E dir \in r.bin : \E file \in At(disk, dir \o <<t>>) :
               run' = {[r EXCEPT !.used[t] = {file.content}]}
      BY <2>1, <2>9 DEF RunTool, EndRun
    <3>2. ASSUME NEW dir \in r.bin, NEW file \in At(disk, dir \o <<t>>),
                 run' = {[r EXCEPT !.used[t] = {file.content}]}
          PROVE  FromBundle([r EXCEPT !.used[t] = {file.content}], m)
      <4>1. dir = BinDir  BY <2>4 DEF FromBundle
      <4>2. ASSUME NEW i \in 1..Len(m.files), m.files[i].path = BinDir \o <<t>>
            PROVE  {file.content} \subseteq {m.files[i].content}
        <5> DEFINE held == {g.content : g \in At(disk, m.files[i].path)}
        <5>1. file.content \in held  BY <4>1, <4>2
        <5>2. held = {m.files[i].content}  BY <2>5
        <5> HIDE DEF held
        <5> QED  BY <5>1, <5>2
      <4>3. r.used \in [Tool -> Option(Content)]  BY DEF Run
      <4>4. ASSUME NEW i \in 1..Len(m.files), NEW u \in Tool,
                   m.files[i].path = BinDir \o <<u>>
            PROVE  [r EXCEPT !.used[t] = {file.content}].used[u]
                     \subseteq {m.files[i].content}
        <5>1. CASE u = t  BY <4>2, <4>3, <4>4, <5>1 DEF Run
        <5>2. CASE u # t
          <6>1. [r EXCEPT !.used[t] = {file.content}].used[u] = r.used[u]
            BY <4>3, <5>2 DEF Run
          <6> QED  BY <2>4, <4>4, <6>1 DEF FromBundle
        <5> QED  BY <5>1, <5>2
      <4>5. /\ [r EXCEPT !.used[t] = {file.content}].fingerprint = r.fingerprint
            /\ [r EXCEPT !.used[t] = {file.content}].bin = r.bin
        BY DEF Run
      <4> QED  BY <2>4, <4>4, <4>5 DEF FromBundle
    <3> QED  BY <1>1, <3>1, <3>2
  <2>10. CASE Result
    BY <1>1, <2>10 DEF Result, EndRun
  <2> QED  BY <1>7, <2>6, <2>7, <2>8, <2>9, <2>10 DEF RunStep
<1>8. CASE UNCHANGED bundleVars
  <2>1. UNCHANGED <<touched, root, anchor, report, checks, phase, run>>
    BY <1>8 DEF bundleVars, vars, diskVars, doctorVars, runVars
  <2>2. Verified(bytes)  BY <2>1 DEF Verified, Accepted
  <2> QED  BY <2>1, <2>2 DEF VerifiedRun
<1> QED  BY <1>3, <1>4, <1>5, <1>6, <1>7, <1>8 DEF BundleNext

\* VerifiedBundleRunsGenuineTools: what the doctor accepted is what runs start,
\* as long as nobody changes the bundle after it.
THEOREM VerifiedBundlesRunGenuineTools ==
  BundleSpec => []VerifiedBundleRunsGenuineTools
<1>1. BundleInit => VerifiedRun  BY DEF BundleInit, VerifiedRun
<1>2. VerifiedRun => VerifiedBundleRunsGenuineTools
  <2> SUFFICES ASSUME VerifiedRun, NEW printed \in report, NEW bytes \in anchor,
                      printed.exit = 0, touched = {}, root = <<>>,
                      Manifest[bytes].descriptorRef = DescriptorFile,
                      BinDir \o DescriptorFile \notin Listed(Manifest[bytes])
               PROVE  \A r \in run : FromBundle(r, Manifest[bytes])
    BY DEF VerifiedBundleRunsGenuineTools, FromBundle
  <2>1. Verified(bytes)  BY DEF Verified, Accepted
  <2> QED  BY <2>1 DEF VerifiedRun
<1> QED  BY <1>1, <1>2, StepVerified, Inductive, PTL DEF BundleSpec

=============================================================================
