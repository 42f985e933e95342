---------------------------- MODULE DoctorProofs ----------------------------
(***************************************************************************)
(* What the doctor knows after each of its checks of every file that has   *)
(* not changed since it began, and that no change elsewhere and no later   *)
(* step of its own takes it away: for every bundle, manifest and number of *)
(* changes.                                                                *)
(***************************************************************************)
EXTENDS Doctor, SequenceTheorems, TLAPS

LEMMA OptionIsOne ==
  ASSUME NEW S, NEW o \in Option(S), NEW x \in o
  PROVE  o = {x} /\ x \in S
  BY DEF Option

LEMMA OneIsOption ==
  ASSUME NEW S
  PROVE  {} \in Option(S) /\ \A x \in S : {x} \in Option(S)
  BY DEF Option

LEMMA PathType ==
  ASSUME NEW p \in Path
  PROVE  p \in Seq(Name) /\ Len(p) \in Nat /\ Len(p) > 0
<1>1. p \in Seq(Name) /\ p # <<>>  BY PathAssumption
<1> QED  BY <1>1, EmptySeq

\* A file is at a path of the installation or nowhere.
LEMMA AtType ==
  ASSUME NEW d \in [Path -> Option(File)], NEW path
  PROVE  At(d, path) \in Option(File)
  BY OneIsOption DEF At

LEMMA ReadType ==
  ASSUME NEW d \in [Path -> Option(File)], NEW path
  PROVE  /\ ReadDescriptor(d, path) \in Option(DOMAIN Descriptor)
         /\ \A c \in ReadDescriptor(d, path) : {f.content : f \in At(d, path)} = {c}
<1> DEFINE here == At(d, path)
           read == ReadDescriptor(d, path)
<1>1. here \in Option(File)  BY AtType
<1>2. read = {f.content : f \in {g \in here :
                /\ g.content \in DOMAIN Descriptor
                /\ DescriptorValid(Descriptor[g.content])}}
  BY DEF ReadDescriptor
<1> HIDE DEF here, read
<1>3. CASE here = {}
  <2>1. read = {}  BY <1>2, <1>3
  <2> QED  BY <2>1, OneIsOption DEF here, read
<1>4. ASSUME NEW f \in here
      PROVE  read \in Option(DOMAIN Descriptor)
             /\ \A c \in read : {g.content : g \in here} = {c}
  <2>1. here = {f}  BY <1>1, <1>4, OptionIsOne
  <2>2. read \subseteq {f.content} /\ read \subseteq DOMAIN Descriptor  BY <1>2, <2>1
  <2> QED  BY <2>1, <2>2 DEF Option
<1> QED  BY <1>3, <1>4 DEF here, read

-----------------------------------------------------------------------------
(* Types.                                                                  *)

\* How many checks have been made when a phase begins.
Made(n, phases) == phase \in phases => Len(checks) = n

CheckCount ==
  /\ Made(0, {"package-manifest"})
  /\ Made(1, {"manifest-trust-anchor"})
  /\ Made(2, {"toolchain-descriptor"})
  /\ Made(3, {"bundle-files", "hash-file"})
  /\ Made(4, {"engine-executable"})
  /\ Made(6, {"tool-executables"})
  /\ Made(8, {"capabilities"})
  /\ Made(9, {"temp-dir"})

DoctorTypes == DoctorTypeOK /\ CheckCount

CheckName ==
  {"package-manifest", "manifest-trust-anchor", "toolchain-descriptor",
   "bundle-files", "engine-executable", "engine-version", "tool-executables",
   "tool-versions", "capabilities", "temp-dir"}

LEMMA ChecksHaveTypes ==
  \A name \in CheckName :
    Passed(name) \in Check /\ \A code \in Fault : Failed(name, code) \in Check
<1> DEFINE Names == {CheckNames[i] : i \in 1 .. 10}
<1>1. /\ CheckNames[1] = "package-manifest" /\ CheckNames[2] = "manifest-trust-anchor"
      /\ CheckNames[3] = "toolchain-descriptor" /\ CheckNames[4] = "bundle-files"
      /\ CheckNames[5] = "engine-executable" /\ CheckNames[6] = "engine-version"
      /\ CheckNames[7] = "tool-executables" /\ CheckNames[8] = "tool-versions"
      /\ CheckNames[9] = "capabilities" /\ CheckNames[10] = "temp-dir"
  BY DEF CheckNames
<1>2. CheckName \subseteq Names
  <2>1. \A i \in 1 .. 10 : CheckNames[i] \in Names  OBVIOUS
  <2> HIDE DEF Names
  <2> QED  BY <1>1, <2>1 DEF CheckName
<1> HIDE DEF Names
<1>3. Check = [name: Names, code: Option(Fault)]  BY DEF Check, Names
<1> QED  BY <1>2, <1>3, OneIsOption DEF Passed, Failed

\* The phases, by their names.
Checking ==
  {"package-manifest", "manifest-trust-anchor", "toolchain-descriptor",
   "bundle-files", "hash-file", "engine-executable", "tool-executables",
   "capabilities", "temp-dir"}

LEMMA PhaseNames == DoctorPhase = Checking \cup {"report"}
<1>1. /\ CheckNames[1] = "package-manifest" /\ CheckNames[2] = "manifest-trust-anchor"
      /\ CheckNames[3] = "toolchain-descriptor" /\ CheckNames[4] = "bundle-files"
      /\ CheckNames[5] = "engine-executable" /\ CheckNames[7] = "tool-executables"
      /\ CheckNames[9] = "capabilities" /\ CheckNames[10] = "temp-dir"
  BY DEF CheckNames
<1> QED  BY <1>1 DEF DoctorPhase, Checking

\* What a check adds to those before it.
LEMMA AppendTypes ==
  ASSUME DoctorTypes, NEW n \in 0 .. 9, Len(checks) = n,
         NEW name \in CheckName, NEW added \in {Passed(name)} \cup {Failed(name, c) : c \in Fault},
         checks' = Append(checks, added)
  PROVE  checks' \in Seq(Check) /\ Len(checks') = n + 1
<1>1. added \in Check  BY ChecksHaveTypes
<1> QED  BY <1>1 DEF DoctorTypes, DoctorTypeOK

LEMMA CountAt ==
  ASSUME CheckCount
  PROVE  /\ phase = "package-manifest" => Len(checks) = 0
         /\ phase = "manifest-trust-anchor" => Len(checks) = 1
         /\ phase = "toolchain-descriptor" => Len(checks) = 2
         /\ phase \in {"bundle-files", "hash-file"} => Len(checks) = 3
         /\ phase = "engine-executable" => Len(checks) = 4
         /\ phase = "tool-executables" => Len(checks) = 6
         /\ phase = "capabilities" => Len(checks) = 8
         /\ phase = "temp-dir" => Len(checks) = 9
  BY DEF CheckCount, Made

\* A step that adds at most the right number of checks and leaves the rest.
LEMMA ElsewhereTypes ==
  ASSUME DoctorTypes, Elsewhere,
         manifest' \in Option(DOMAIN Manifest), toolchain' \in Option(DOMAIN Descriptor),
         at' \in Nat \ {0}, outputs' \in Seq({Output[c] : c \in DOMAIN Output}),
         checks' \in Seq(Check), Len(checks') <= 10, CheckCount'
  PROVE  DoctorTypes'
  BY DEF DoctorTypes, DoctorTypeOK, Elsewhere, diskVars

LEMMA PassTypes ==
  ASSUME DoctorTypes, NEW n \in 0 .. 9, Len(checks) = n, NEW name \in CheckName,
         NEW next, Pass(name, next)
  PROVE  /\ checks' \in Seq(Check) /\ Len(checks') = n + 1 /\ phase' = next
  BY AppendTypes DEF Pass

LEMMA RefuseTypes ==
  ASSUME DoctorTypes, NEW n \in 0 .. 9, Len(checks) = n, NEW name \in CheckName,
         NEW code \in Fault, Refuse(name, code)
  PROVE  /\ checks' \in Seq(Check) /\ Len(checks') = n + 1 /\ phase' = "report"
  BY AppendTypes DEF Refuse

\* Two checks that are made in one step.
LEMMA TwoTypes ==
  ASSUME DoctorTypes, NEW n \in 0 .. 8, Len(checks) = n,
         NEW a \in CheckName, NEW b \in CheckName,
         NEW second \in {Passed(b)} \cup {Failed(b, c) : c \in Fault},
         checks' = checks \o <<Passed(a), second>>
  PROVE  checks' \in Seq(Check) /\ Len(checks') = n + 2
<1>1. Passed(a) \in Check /\ second \in Check  BY ChecksHaveTypes
<1>2. <<Passed(a), second>> \in Seq(Check) /\ Len(<<Passed(a), second>>) = 2  BY <1>1
<1>3. checks \in Seq(Check)  BY DEF DoctorTypes, DoctorTypeOK
<1> QED  BY <1>2, <1>3, ConcatProperties

LEMMA DoctorStepTypes ==
  ASSUME DoctorTypes, phase \in DoctorPhase, DoctorStep
  PROVE  DoctorTypes' /\ phase' \in DoctorPhase \cup {"idle"}
<1> USE DEF CheckName
<1>t. DoctorTypeOK /\ CheckCount  BY DEF DoctorTypes
<1>c. CheckCount  BY DEF DoctorTypes
<1>n. checks \in Seq(Check) /\ Len(checks) \in Nat /\ Len(checks) <= 10
  BY <1>t DEF DoctorTypeOK
<1>k. /\ manifest \in Option(DOMAIN Manifest) /\ toolchain \in Option(DOMAIN Descriptor)
      /\ at \in Nat \ {0} /\ outputs \in Seq({Output[c] : c \in DOMAIN Output})
      /\ disk \in [Path -> Option(File)]
  BY <1>t DEF DoctorTypeOK
<1>1. CASE ReadManifest
  <2>1. Len(checks) = 0 /\ phase = "package-manifest"  BY <1>1, <1>c, CountAt DEF ReadManifest
  <2>2. manifest' \in Option(DOMAIN Manifest)
    BY <1>1, <1>k, OneIsOption DEF ReadManifest, GoodManifest
  <2>3. checks' \in Seq(Check) /\ Len(checks') = 1
        /\ phase' \in {"manifest-trust-anchor", "report"}
    BY <1>1, <2>1, PassTypes, RefuseTypes DEF ReadManifest, Fault
  <2>4. CheckCount'  BY <2>3 DEF CheckCount, Made
  <2> QED  BY <1>1, <1>k, <2>2, <2>3, <2>4, ElsewhereTypes, PhaseNames
           DEF ReadManifest, Checking
<1>2. CASE CheckAnchor
  <2>1. Len(checks) = 1  BY <1>2, <1>c, CountAt DEF CheckAnchor
  <2>2. checks' \in Seq(Check) /\ Len(checks') = 2
        /\ phase' \in {"toolchain-descriptor", "report"}
    BY <1>2, <2>1, PassTypes, RefuseTypes DEF CheckAnchor, Fault
  <2>3. CheckCount'  BY <2>2 DEF CheckCount, Made
  <2> QED  BY <1>2, <1>k, <2>2, <2>3, ElsewhereTypes, PhaseNames DEF CheckAnchor, Checking
<1>3. CASE CheckDescriptor
  <2>1. Len(checks) = 2  BY <1>3, <1>c, CountAt DEF CheckDescriptor
  <2>2. checks' \in Seq(Check) /\ Len(checks') = 3
        /\ phase' \in {"bundle-files", "report"}
    BY <1>3, <2>1, PassTypes, RefuseTypes DEF CheckDescriptor, Fault
  <2>3. toolchain' \in Option(DOMAIN Descriptor)
    BY <1>3, <1>k, ReadType DEF CheckDescriptor
  <2>4. CheckCount'  BY <2>2 DEF CheckCount, Made
  <2> QED  BY <1>3, <1>k, <2>2, <2>3, <2>4, ElsewhereTypes, PhaseNames
           DEF CheckDescriptor, Checking
<1>4. CASE InspectFile
  <2>1. Len(checks) = 3  BY <1>4, <1>c, CountAt DEF InspectFile
  <2>2. /\ checks' \in Seq(Check)
        /\ \/ Len(checks') = 3 /\ phase' = "hash-file"
           \/ Len(checks') = 4 /\ phase' = "report"
    BY <1>4, <1>n, <2>1, RefuseTypes DEF InspectFile, Fault
  <2>3. CheckCount'  BY <2>2 DEF CheckCount, Made
  <2>6. phase' \in Checking \cup {"report"}  BY <2>2 DEF Checking
  <2>7. Len(checks') <= 10  BY <2>2
  <2>8. checks' \in Seq(Check) /\ Len(checks') <= 10 /\ phase' \in DoctorPhase
    BY <2>2, <2>6, <2>7, PhaseNames
  <2>9. Elsewhere /\ manifest' = manifest /\ toolchain' = toolchain /\ at' = at /\ outputs' = outputs
    BY <1>4 DEF InspectFile
  <2> QED  BY <1>k, <2>2, <2>3, <2>8, <2>9, ElsewhereTypes
<1>5. CASE HashFile
  <2>1. Len(checks) = 3  BY <1>5, <1>c, CountAt DEF HashFile
  <2>2. /\ checks' \in Seq(Check)
        /\ \/ Len(checks') = 3 /\ phase' = "bundle-files"
           \/ Len(checks') = 4 /\ phase' = "report"
    BY <1>5, <1>n, <2>1, RefuseTypes DEF HashFile, Fault
  <2>3. at' \in Nat \ {0}  BY <1>5, <1>k DEF HashFile
  <2>4. CheckCount'  BY <2>2 DEF CheckCount, Made
  <2>6. phase' \in Checking \cup {"report"}  BY <2>2 DEF Checking
  <2>7. Len(checks') <= 10  BY <2>2
  <2>8. checks' \in Seq(Check) /\ Len(checks') <= 10 /\ phase' \in DoctorPhase
    BY <2>2, <2>6, <2>7, PhaseNames
  <2>9. Elsewhere /\ manifest' = manifest /\ toolchain' = toolchain /\ outputs' = outputs
    BY <1>5 DEF HashFile
  <2> QED  BY <1>k, <2>2, <2>3, <2>4, <2>8, <2>9, ElsewhereTypes
<1>6. CASE WalkBundle
  <2>1. Len(checks) = 3  BY <1>6, <1>c, CountAt DEF WalkBundle
  <2>2. checks' \in Seq(Check) /\ Len(checks') = 4
        /\ phase' \in {"engine-executable", "report"}
    BY <1>6, <2>1, PassTypes, RefuseTypes DEF WalkBundle, Fault
  <2>3. at' \in Nat \ {0}  BY <1>6 DEF WalkBundle
  <2>4. CheckCount'  BY <2>2 DEF CheckCount, Made
  <2> QED  BY <1>6, <1>k, <2>2, <2>3, <2>4, ElsewhereTypes, PhaseNames DEF WalkBundle, Checking
<1>7. CASE CheckEngine
  <2>1. Len(checks) = 4  BY <1>7, <1>c, CountAt DEF CheckEngine
  <2>2. PICK bytes \in manifest, engine \in build :
       \/ Refuse("engine-executable", "ENGINE_EXECUTABLE_INVALID")
       \/ /\ checks' = checks \o
               <<Passed("engine-executable"),
                 Failed("engine-version", "ENGINE_VERSION_MISMATCH")>>
          /\ phase' = "report"
       \/ /\ checks' = checks \o
               <<Passed("engine-executable"), Passed("engine-version")>>
          /\ phase' = "tool-executables"
    BY <1>7 DEF CheckEngine
  <2>3. /\ checks' \in Seq(Check)
        /\ \/ Len(checks') = 6 /\ phase' = "tool-executables"
           \/ (Len(checks') = 5 \/ Len(checks') = 6) /\ phase' = "report"
    <3>1. CASE Refuse("engine-executable", "ENGINE_EXECUTABLE_INVALID")
      BY <2>1, <3>1, RefuseTypes DEF Fault
    <3>2. ASSUME NEW second \in {Passed("engine-version")}
                   \cup {Failed("engine-version", c) : c \in Fault},
                 checks' = checks \o <<Passed("engine-executable"), second>>
          PROVE  checks' \in Seq(Check) /\ Len(checks') = 6
      <4>1. 4 \in 0 .. 8 /\ 4 + 2 = 6  OBVIOUS
      <4> QED  BY <2>1, <3>2, <4>1, TwoTypes
    <3> QED  BY <2>2, <3>1, <3>2 DEF Fault
  <2>4. CheckCount'  BY <2>3 DEF CheckCount, Made
  <2>6. phase' \in Checking \cup {"report"}  BY <2>3 DEF Checking
  <2>7. \A n \in {5, 6} : n <= 10  OBVIOUS
  <2>8. Len(checks') \in {5, 6}  BY <2>3, Zenon
  <2>9. checks' \in Seq(Check) /\ Len(checks') <= 10 /\ phase' \in DoctorPhase
    BY <2>3, <2>6, <2>7, <2>8, PhaseNames, Zenon
  <2>10. Elsewhere /\ manifest' = manifest /\ toolchain' = toolchain
         /\ at' = at /\ outputs' = outputs
    BY <1>7 DEF CheckEngine
  <2> QED  BY <1>k, <2>4, <2>9, <2>10, ElsewhereTypes
<1>8. CASE StartTool
  <2>1. Len(checks) = 6 /\ phase = "tool-executables"
    BY <1>8, <1>c, CountAt DEF StartTool
  <2>2. /\ checks' \in Seq(Check)
        /\ \/ Len(checks') = 6 /\ phase' = "tool-executables"
           \/ Len(checks') = 7 /\ phase' = "report"
    BY <1>8, <1>n, <2>1, RefuseTypes DEF StartTool, Fault
  <2>3. at' \in Nat \ {0} /\ outputs' \in Seq({Output[c] : c \in DOMAIN Output})
    <3> DEFINE Outputs == {Output[c] : c \in DOMAIN Output}
    <3>1. \/ (\E o \in Outputs : outputs' = Append(outputs, o)) /\ at' = at + 1
          \/ UNCHANGED <<at, outputs>>
      BY <1>8 DEF StartTool
    <3>2. outputs \in Seq(Outputs)  BY <1>k
    <3> HIDE DEF Outputs
    <3>3. at' \in Nat \ {0}  BY <3>1, <1>k
    <3>4. ASSUME \E o \in Outputs : outputs' = Append(outputs, o)
          PROVE  outputs' \in Seq(Outputs)
      <4>1. PICK o \in Outputs : outputs' = Append(outputs, o)  BY <3>4
      <4> QED  BY <3>2, <4>1, AppendProperties, Zenon
    <3>5. outputs' \in Seq(Outputs)  BY <3>1, <3>2, <3>4, Zenon
    <3> QED  BY <3>3, <3>5 DEF Outputs
  <2>4. CheckCount'  BY <2>2 DEF CheckCount, Made
  <2>6. phase' \in Checking \cup {"report"}  BY <2>2 DEF Checking
  <2>7. Len(checks') <= 10  BY <2>2
  <2>8. checks' \in Seq(Check) /\ Len(checks') <= 10 /\ phase' \in DoctorPhase
    BY <2>2, <2>6, <2>7, PhaseNames
  <2>9. Elsewhere /\ manifest' = manifest /\ toolchain' = toolchain
    BY <1>8 DEF StartTool
  <2> QED  BY <1>k, <2>2, <2>3, <2>4, <2>8, <2>9, ElsewhereTypes
<1>9. CASE CheckVersions
  <2>1. Len(checks) = 6  BY <1>9, <1>c, CountAt DEF CheckVersions
  <2>2. \/ /\ checks' = checks \o
                <<Passed("tool-executables"), Passed("tool-versions")>>
           /\ phase' = "capabilities"
        \/ /\ checks' = checks \o
                <<Passed("tool-executables"),
                  Failed("tool-versions", "TOOL_VERSION_MISMATCH")>>
           /\ phase' = "report"
    BY <1>9 DEF CheckVersions
  <2>3. checks' \in Seq(Check) /\ Len(checks') = 8 /\ phase' \in {"capabilities", "report"}
    <3>2. ASSUME NEW second \in {Passed("tool-versions")}
                   \cup {Failed("tool-versions", c) : c \in Fault},
                 checks' = checks \o <<Passed("tool-executables"), second>>
          PROVE  checks' \in Seq(Check) /\ Len(checks') = 8
      <4>1. 6 \in 0 .. 8 /\ 6 + 2 = 8  OBVIOUS
      <4> QED  BY <2>1, <3>2, <4>1, TwoTypes
    <3> QED  BY <2>2, <3>2 DEF Fault
  <2>4. CheckCount'  BY <2>3 DEF CheckCount, Made
  <2> QED  BY <1>9, <1>k, <2>3, <2>4, ElsewhereTypes, PhaseNames DEF CheckVersions, Checking
<1>10. CASE CheckCapabilities
  <2>1. Len(checks) = 8  BY <1>10, <1>c, CountAt DEF CheckCapabilities
  <2>2. checks' \in Seq(Check) /\ Len(checks') = 9 /\ phase' \in {"temp-dir", "report"}
    BY <1>10, <2>1, PassTypes, RefuseTypes DEF CheckCapabilities, Fault
  <2>3. CheckCount'  BY <2>2 DEF CheckCount, Made
  <2> QED  BY <1>10, <1>k, <2>2, <2>3, ElsewhereTypes, PhaseNames
           DEF CheckCapabilities, Checking
<1>11. CASE CheckTempDir
  <2>1. Len(checks) = 9  BY <1>11, <1>c, CountAt DEF CheckTempDir
  <2>2. checks' \in Seq(Check) /\ Len(checks') = 10 /\ phase' = "report"
    BY <1>11, <2>1, PassTypes, RefuseTypes DEF CheckTempDir, Fault
  <2>3. CheckCount'  BY <2>2 DEF CheckCount, Made
  <2> QED  BY <1>11, <1>k, <2>2, <2>3, ElsewhereTypes, PhaseNames DEF CheckTempDir
<1>12. CASE PrintReport
  <2> DEFINE made == [checks |-> checks, toolchain |-> toolchain,
                      exit |-> DoctorExitCode(checks)]
  <2>1. made \in DoctorReport
    BY <1>n, <1>k DEF DoctorReport, DoctorExitCode
  <2>2. report' \subseteq {made}  BY <1>12 DEF PrintReport
  <2> HIDE DEF made
  <2>3. report' \in Option(DoctorReport)  BY <2>1, <2>2 DEF Option
  <2>4. phase' = "idle" /\ UNCHANGED <<diskVars, build, commands, doctorVars>>
    BY <1>12 DEF PrintReport
  <2>5. DoctorTypeOK'  BY <1>t, <2>3, <2>4 DEF DoctorTypeOK, diskVars, doctorVars
  <2>6. CheckCount'  BY <2>4 DEF CheckCount, Made
  <2> QED  BY <2>4, <2>5, <2>6 DEF DoctorTypes
<1> QED  BY <1>1, <1>2, <1>3, <1>4, <1>5, <1>6, <1>7, <1>8, <1>9, <1>10, <1>11, <1>12
         DEF DoctorStep

LEMMA InstallTypes ==
  ASSUME DoctorTypes, Install
  PROVE  DoctorTypes'
<1>1. PICK p \in Path :
        \E file \in Replacement[p] :
          disk' = [disk EXCEPT ![p] = file] /\ touched' = touched \cup {p}
  BY DEF Install
<1>2. Replacement[p] \subseteq Option(File)  BY InstallerAssumption
<1>3. disk' \in [Path -> Option(File)]
  BY <1>1, <1>2 DEF DoctorTypes, DoctorTypeOK
<1>4. /\ touched' \subseteq Path /\ changes' \in Nat /\ calm' \in BOOLEAN
      /\ UNCHANGED <<build, commands, phase, doctorVars, report>>
  <2>1. touched' = touched \cup {p} /\ touched \subseteq Path
    BY <1>1 DEF DoctorTypes, DoctorTypeOK
  <2>2. changes' = changes + 1 /\ calm' = FALSE /\ changes \in Nat
        /\ UNCHANGED <<build, commands, phase, doctorVars, report>>
    BY DEF Install, DoctorTypes, DoctorTypeOK
  <2>3. changes' \in Nat  BY <2>2
  <2>4. touched' \subseteq Path  BY <2>1
  <2> QED  BY <2>2, <2>3, <2>4
<1>6. DoctorTypeOK'
  BY <1>3, <1>4 DEF DoctorTypes, DoctorTypeOK, doctorVars
<1>5. CheckCount'  BY DEF Install, DoctorTypes, CheckCount, Made, doctorVars
<1> QED  BY <1>6, <1>5 DEF DoctorTypes

LEMMA BeginBuild ==
  ASSUME DoctorTypes, NEW first, Begin(first)
  PROVE  /\ build' \in Option({Build[c] : c \in DOMAIN Build})
         /\ commands' \in Nat /\ calm' \in BOOLEAN
<1>1. PICK file \in At(disk, EnginePath) :
        file.content \in DOMAIN Build /\ build' = {Build[file.content]}
  BY DEF Begin
<1>2. Build[file.content] \in {Build[c] : c \in DOMAIN Build}  BY <1>1
<1>3. build' \in Option({Build[c] : c \in DOMAIN Build})  BY <1>1, <1>2, OneIsOption
<1> QED  BY <1>3 DEF Begin, DoctorTypes, DoctorTypeOK

LEMMA StartDoctorTypes ==
  ASSUME DoctorTypes, StartDoctor
  PROVE  DoctorTypes'
<1>1. /\ build' \in Option({Build[c] : c \in DOMAIN Build})
      /\ commands' \in Nat /\ calm' \in BOOLEAN
  BY BeginBuild DEF StartDoctor
<1>2. /\ checks' = <<>> /\ outputs' = <<>> /\ phase' = "package-manifest"
      /\ UNCHANGED <<disk, changes>> /\ touched' = {} /\ at' = 1
      /\ manifest' = {} /\ toolchain' = {} /\ report' = {}
      /\ root' \in {<<>>, BinDir} /\ anchor' \in Option(Content)
  BY AnchorsAssumption DEF StartDoctor, Begin, ResolveBundleRoot
<1>3. checks' \in Seq(Check) /\ Len(checks') = 0  BY <1>2
<1>4. Len(checks') <= 10  BY <1>3
<1>5. outputs' \in Seq({Output[c] : c \in DOMAIN Output})  BY <1>2
<1>6. /\ manifest' \in Option(DOMAIN Manifest) /\ toolchain' \in Option(DOMAIN Descriptor)
      /\ report' \in Option(DoctorReport)
  BY <1>2, OneIsOption
<1>7. DoctorTypeOK'
  BY <1>1, <1>2, <1>3, <1>4, <1>5, <1>6 DEF DoctorTypes, DoctorTypeOK
<1>8. CheckCount'  BY <1>2, <1>3 DEF CheckCount, Made
<1> QED  BY <1>7, <1>8 DEF DoctorTypes

\* A step of another command leaves the doctor alone.
LEMMA OtherTypes ==
  ASSUME DoctorTypes, UNCHANGED <<disk, changes, touched, doctorVars, report>>,
         phase' \notin Checking,
         \/ UNCHANGED <<build, commands, calm>>
         \/ \E first : Begin(first)
  PROVE  DoctorTypes'
<1>1. /\ build' \in Option({Build[c] : c \in DOMAIN Build})
      /\ commands' \in Nat /\ calm' \in BOOLEAN
  BY BeginBuild DEF DoctorTypes, DoctorTypeOK
<1>2. DoctorTypeOK'  BY <1>1 DEF DoctorTypes, DoctorTypeOK, doctorVars
<1>3. CheckCount'  BY DEF CheckCount, Made, Checking
<1> QED  BY <1>2, <1>3 DEF DoctorTypes

LEMMA InitTypes == DoctorInit => DoctorTypes
<1> SUFFICES ASSUME DoctorInit PROVE DoctorTypes  OBVIOUS
<1>1. checks = <<>> /\ outputs = <<>> /\ at = 1 /\ phase = "idle"  BY DEF DoctorInit
<1>2. checks \in Seq(Check) /\ Len(checks) = 0  BY <1>1
<1>3. Len(checks) <= 10  BY <1>2
<1>4. outputs \in Seq({Output[c] : c \in DOMAIN Output})  BY <1>1
<1>5. /\ disk \in [Path -> Option(File)] /\ changes \in Nat /\ touched \subseteq Path
      /\ calm \in BOOLEAN /\ commands \in Nat /\ root \in {<<>>, BinDir}
  BY InstallerAssumption DEF DoctorInit
<1>6. /\ build \in Option({Build[c] : c \in DOMAIN Build})
      /\ anchor \in Option(Content) /\ manifest \in Option(DOMAIN Manifest)
      /\ toolchain \in Option(DOMAIN Descriptor) /\ report \in Option(DoctorReport)
  BY OneIsOption DEF DoctorInit
<1>7. DoctorTypeOK  BY <1>1, <1>2, <1>3, <1>4, <1>5, <1>6 DEF DoctorTypeOK
<1>8. CheckCount  BY <1>1 DEF CheckCount, Made
<1> QED  BY <1>7, <1>8 DEF DoctorTypes

-----------------------------------------------------------------------------
(* What is known of the files nobody has touched.                          *)

Holding(path) == {file.content : file \in Here(path)}

Untouched(path) == root \o path \notin touched

\* The manifest that was accepted, as `bytes` of the bundle.
KnownManifest ==
  \E bytes \in manifest :
    /\ GoodManifest(bytes)
    /\ Untouched(SelfPath) => Holding(SelfPath) = {bytes}

KnownAnchor == anchor # {} /\ anchor = manifest

KnownDescriptor ==
  \A bytes \in manifest : LET m == Manifest[bytes] IN
    /\ toolchain = {m.fingerprint}
    /\ Untouched(m.descriptorRef) => Holding(m.descriptorRef) = {m.fingerprint}

\* The listed files before the n-th.
KnownFiles(n) ==
  \A bytes \in manifest : LET files == Manifest[bytes].files IN
    \A j \in 1 .. Len(files) :
      j < n /\ Untouched(files[j].path) => Holding(files[j].path) = {files[j].content}

AllFilesKnown ==
  \A bytes \in manifest : LET files == Manifest[bytes].files IN
    \A j \in 1 .. Len(files) :
      Untouched(files[j].path) => Holding(files[j].path) = {files[j].content}

KnownTree ==
  \A bytes \in manifest : \A p \in Inside \ touched : \A file \in disk[p] :
    /\ ~file.link
    /\ SubSeq(p, Len(root) + 1, Len(p)) \in Listed(Manifest[bytes]) \cup {SelfPath}

\* No failure was found, and the report says so or is about to.
Accepted ==
  \/ phase = "report" /\ IsOk(checks)
  \/ \E printed \in report : printed.exit = 0

AfterFiles      == {"engine-executable", "tool-executables", "capabilities", "temp-dir"}
AfterDescriptor == AfterFiles \cup {"bundle-files", "hash-file"}
AfterAnchor     == AfterDescriptor \cup {"toolchain-descriptor"}
AfterManifest   == AfterAnchor \cup {"manifest-trust-anchor"}

DoctorKnows ==
  /\ phase \in AfterManifest   \/ Accepted => KnownManifest
  /\ phase \in AfterAnchor     \/ Accepted => KnownAnchor
  /\ phase \in AfterDescriptor \/ Accepted => KnownDescriptor
  /\ phase \in {"bundle-files", "hash-file"} => KnownFiles(at)
  /\ phase \in AfterFiles      \/ Accepted => AllFilesKnown /\ KnownTree
  /\ phase \in {"package-manifest", "manifest-trust-anchor", "toolchain-descriptor"}
       => at = 1
  /\ phase \in DoctorPhase => report = {}
  /\ \A printed \in report : printed.toolchain = toolchain

\* A change is a change of touched paths only.
Steady ==
  /\ UNCHANGED <<root, anchor, manifest>>
  /\ touched \subseteq touched'
  /\ \A path : path \notin touched' => At(disk', path) = At(disk, path)

LEMMA KnownStays ==
  ASSUME Steady, touched' \subseteq Path
  PROVE  /\ KnownManifest => KnownManifest'
         /\ KnownAnchor => KnownAnchor'
         /\ KnownDescriptor /\ UNCHANGED toolchain => KnownDescriptor'
         /\ KnownFiles(at) /\ UNCHANGED at => KnownFiles(at)'
         /\ AllFilesKnown => AllFilesKnown'
         /\ KnownTree => KnownTree'
<1>1. ASSUME NEW path, Untouched(path)'
      PROVE  Untouched(path) /\ Holding(path)' = Holding(path)
  BY <1>1 DEF Steady, Untouched, Holding, Here
<1>2. KnownManifest => KnownManifest'
  BY <1>1 DEF Steady, KnownManifest
<1>3. KnownAnchor => KnownAnchor'  BY DEF Steady, KnownAnchor
<1>4. KnownDescriptor /\ UNCHANGED toolchain => KnownDescriptor'
  BY <1>1 DEF Steady, KnownDescriptor
<1>5. KnownFiles(at) /\ UNCHANGED at => KnownFiles(at)'
  BY <1>1 DEF Steady, KnownFiles
<1>6. AllFilesKnown => AllFilesKnown'
  BY <1>1 DEF Steady, AllFilesKnown
<1>7. KnownTree => KnownTree'
  <2> SUFFICES ASSUME KnownTree, NEW bytes \in manifest', NEW p \in Inside' \ touched',
                      NEW file \in disk'[p]
               PROVE  /\ ~file.link
                      /\ SubSeq(p, Len(root') + 1, Len(p))
                           \in Listed(Manifest[bytes]) \cup {SelfPath}
    BY DEF KnownTree
  <2>1. p \in Path /\ p \in Inside \ touched /\ bytes \in manifest /\ root' = root
    BY DEF Steady, Inside
  <2>2. At(disk', p) = At(disk, p)  BY DEF Steady
  <2>3. file \in disk[p]  BY <2>1, <2>2 DEF At
  <2> QED  BY <2>1, <2>3 DEF KnownTree
<1> QED  BY <1>2, <1>3, <1>4, <1>5, <1>6, <1>7

LEMMA RestIsSteady ==
  ASSUME DoctorTypes, UNCHANGED <<disk, touched, root, anchor, manifest>>
  PROVE  Steady /\ touched' \subseteq Path
BY DEF Steady, DoctorTypes, DoctorTypeOK

LEMMA RefuseIsNotOk ==
  ASSUME DoctorTypes, NEW name, NEW code, Refuse(name, code)
  PROVE  phase' = "report" /\ ~IsOk(checks')
<1>1. checks \in Seq(Check)  BY DEF DoctorTypes, DoctorTypeOK
<1>2. checks' = Append(checks, Failed(name, code))  BY DEF Refuse
<1>3. /\ Len(checks') = Len(checks) + 1 /\ Len(checks) \in Nat
      /\ checks'[Len(checks) + 1] = Failed(name, code)
  BY <1>1, <1>2
<1>4. checks'[Len(checks')].code # {} /\ Len(checks') \in 1 .. Len(checks')
  BY <1>3 DEF Failed
<1> QED  BY <1>4 DEF IsOk, Refuse

\* Nothing need be known once a check has failed.
LEMMA RefusedKnows ==
  ASSUME phase' = "report", ~IsOk(checks'), report' = {}
  PROVE  DoctorKnows'
BY DEF DoctorKnows, Accepted, AfterManifest, AfterAnchor, AfterDescriptor, AfterFiles

LEMMA HereIsOne ==
  ASSUME DoctorTypes, NEW path, NEW file \in Here(path)
  PROVE  Holding(path) = {file.content}
<1>1. Here(path) \in Option(File)  BY AtType DEF Here, DoctorTypes, DoctorTypeOK
<1>2. Here(path) = {file}  BY <1>1, OptionIsOne
<1> QED  BY <1>2 DEF Holding

\* A walk that ends well completes what the doctor knows of the files.
LEMMA WalkKnows ==
  ASSUME DoctorTypes, DoctorKnows, WalkBundle, NEW bytes \in manifest,
         at > Len(Manifest[bytes].files), NothingUnlisted(Manifest[bytes])
  PROVE  AllFilesKnown /\ KnownTree
<1>1. manifest = {bytes} /\ bytes \in DOMAIN Manifest
  BY OptionIsOne DEF DoctorTypes, DoctorTypeOK
<1>2. Manifest[bytes].files
        \in Seq([path: Seq(Name) \ {<<>>}, content: Content, size: Nat])
  BY <1>1, ManifestAssumption
<1>3. KnownFiles(at) /\ at \in Nat
  BY DEF WalkBundle, DoctorKnows, DoctorTypes, DoctorTypeOK
<1>4. \A j \in 1 .. Len(Manifest[bytes].files) : j < at
  BY <1>2, <1>3
<1>5. AllFilesKnown  BY <1>1, <1>3, <1>4 DEF KnownFiles, AllFilesKnown
<1>6. KnownTree      BY <1>1 DEF NothingUnlisted, KnownTree, Inside
<1> QED  BY <1>5, <1>6

LEMMA DoctorStepKnows ==
  ASSUME DoctorTypes, DoctorKnows, phase \in DoctorPhase, DoctorStep
  PROVE  DoctorKnows'
<1> USE DEF AfterManifest, AfterAnchor, AfterDescriptor, AfterFiles
<1>r. report = {}  BY DEF DoctorKnows
<1>m. manifest \in Option(DOMAIN Manifest)  BY DEF DoctorTypes, DoctorTypeOK
<1>e. Elsewhere => UNCHANGED <<disk, touched, root, anchor>> /\ report' = {}
  BY <1>r DEF Elsewhere, diskVars
<1>p. Elsewhere /\ phase' # "report" => ~Accepted'
  BY <1>e DEF Accepted
\* A check that changes neither the manifest nor what follows from it.
<1>s. ASSUME Elsewhere, UNCHANGED manifest
      PROVE  /\ KnownManifest => KnownManifest'
             /\ KnownAnchor => KnownAnchor'
             /\ KnownDescriptor /\ UNCHANGED toolchain => KnownDescriptor'
             /\ KnownFiles(at) /\ UNCHANGED at => KnownFiles(at)'
             /\ AllFilesKnown => AllFilesKnown'
             /\ KnownTree => KnownTree'
  BY <1>s, <1>e, RestIsSteady, KnownStays
<1>1. CASE ReadManifest
  <2>1. Elsewhere /\ phase = "package-manifest" /\ at' = at  BY <1>1 DEF ReadManifest
  <2>2. CASE \E code : Refuse("package-manifest", code)
    BY <2>1, <2>2, <1>e, RefuseIsNotOk, RefusedKnows
  <2>3. ASSUME NEW file \in Here(SelfPath), GoodManifest(file.content),
               Pass("package-manifest", "manifest-trust-anchor"),
               manifest' = {file.content}
        PROVE  DoctorKnows'
    <3>1. phase' = "manifest-trust-anchor"  BY <2>3 DEF Pass
    <3>2. Holding(SelfPath) = {file.content}  BY <2>3, HereIsOne
    <3>3. KnownManifest'
      BY <2>1, <2>3, <3>2, <1>e DEF KnownManifest, Holding, Here
    <3>4. at' = 1  BY <2>1 DEF DoctorKnows
    <3> QED  BY <2>1, <3>1, <3>3, <3>4, <1>e, <1>p DEF DoctorKnows
  <2> QED  BY <1>1, <2>2, <2>3 DEF ReadManifest
<1>2. CASE CheckAnchor
  <2>1. Elsewhere /\ phase = "manifest-trust-anchor"
        /\ UNCHANGED <<manifest, toolchain, at>>
    BY <1>2 DEF CheckAnchor
  <2>2. CASE \E code : Refuse("manifest-trust-anchor", code)
    BY <2>1, <2>2, <1>e, RefuseIsNotOk, RefusedKnows
  <2>3. CASE /\ anchor # {} /\ anchor = manifest
             /\ Pass("manifest-trust-anchor", "toolchain-descriptor")
    <3>1. phase' = "toolchain-descriptor"  BY <2>3 DEF Pass
    <3>2. KnownManifest /\ KnownAnchor /\ at = 1
      BY <2>1, <2>3 DEF DoctorKnows, KnownAnchor
    <3> QED  BY <2>1, <3>1, <3>2, <1>e, <1>p, <1>s DEF DoctorKnows
  <2> QED  BY <1>2, <2>2, <2>3 DEF CheckAnchor
<1>3. CASE CheckDescriptor
  <2>1. Elsewhere /\ phase = "toolchain-descriptor" /\ UNCHANGED <<manifest, at>>
    BY <1>3 DEF CheckDescriptor
  <2>2. CASE \E code : Refuse("toolchain-descriptor", code)
    BY <2>1, <2>2, <1>e, RefuseIsNotOk, RefusedKnows
  <2>3. ASSUME NEW bytes \in manifest,
               LET read == ReadDescriptor(disk, root \o Manifest[bytes].descriptorRef) IN
               /\ \E c \in read : GoodDescriptor(c, Manifest[bytes])
               /\ Pass("toolchain-descriptor", "bundle-files")
               /\ toolchain' = read
        PROVE  DoctorKnows'
    <3> DEFINE ref  == Manifest[bytes].descriptorRef
               read == ReadDescriptor(disk, root \o ref)
    <3>1. phase' = "bundle-files"  BY <2>3 DEF Pass
    <3>2. PICK c \in read : c = Manifest[bytes].fingerprint
      BY <2>3 DEF GoodDescriptor
    <3>3. read = {c} /\ {f.content : f \in At(disk, root \o ref)} = {c}
      <4>1. disk \in [Path -> Option(File)]  BY DEF DoctorTypes, DoctorTypeOK
      <4>2. read \in Option(DOMAIN Descriptor)
            /\ {f.content : f \in At(disk, root \o ref)} = {c}
        BY <4>1, ReadType
      <4> HIDE DEF read
      <4> QED  BY <4>2, OptionIsOne
    <3>4. Holding(ref) = {c} /\ toolchain' = {c}  BY <2>3, <3>3 DEF Holding, Here
    <3>5. \A other \in manifest : other = bytes  BY <1>m, OptionIsOne
    <3>6. KnownDescriptor'
      BY <2>1, <3>2, <3>4, <3>5, <1>e DEF KnownDescriptor, Holding, Here
    <3>7. at' = 1 /\ KnownManifest /\ KnownAnchor  BY <2>1 DEF DoctorKnows
    <3>8. KnownFiles(at)'  BY <3>7 DEF KnownFiles
    <3> QED  BY <2>1, <3>1, <3>6, <3>7, <3>8, <1>e, <1>p, <1>s DEF DoctorKnows
  <2> QED  BY <1>3, <2>2, <2>3 DEF CheckDescriptor
<1>4. CASE InspectFile
  <2>1. Elsewhere /\ phase = "bundle-files" /\ UNCHANGED <<manifest, toolchain, at>>
    BY <1>4 DEF InspectFile
  <2>2. CASE \E code : Refuse("bundle-files", code)
    BY <2>1, <2>2, <1>e, RefuseIsNotOk, RefusedKnows
  <2>3. CASE phase' = "hash-file"
    BY <2>1, <2>3, <1>e, <1>p, <1>s DEF DoctorKnows
  <2> QED  BY <1>4, <2>2, <2>3 DEF InspectFile
<1>5. CASE HashFile
  <2>1. Elsewhere /\ phase = "hash-file" /\ UNCHANGED <<manifest, toolchain>>
    BY <1>5 DEF HashFile
  <2>2. CASE \E code : Refuse("bundle-files", code)
    BY <2>1, <2>2, <1>e, RefuseIsNotOk, RefusedKnows
  <2>3. ASSUME NEW bytes \in manifest,
               LET entry == Manifest[bytes].files[at] IN
               \E file \in Here(entry.path) : file.content = entry.content,
               phase' = "bundle-files", at' = at + 1
        PROVE  DoctorKnows'
    <3>1. Holding(Manifest[bytes].files[at].path) = {Manifest[bytes].files[at].content}
      BY <2>3, HereIsOne
    <3>2. \A other \in manifest : other = bytes  BY <1>m, OptionIsOne
    <3>3. at \in Nat /\ KnownFiles(at)
      BY <2>1 DEF DoctorKnows, DoctorTypes, DoctorTypeOK
    <3>4. KnownFiles(at')
      <4> SUFFICES ASSUME NEW j \in 1 .. Len(Manifest[bytes].files), j < at',
                          Untouched(Manifest[bytes].files[j].path)
                   PROVE  Holding(Manifest[bytes].files[j].path)
                            = {Manifest[bytes].files[j].content}
        BY <3>2 DEF KnownFiles
      <4>1. CASE j < at  BY <4>1, <3>3 DEF KnownFiles
      <4>2. CASE j = at  BY <4>2, <3>1
      <4> QED  BY <4>1, <4>2, <3>3, <2>3
    <3>5. KnownFiles(at)'
      BY <2>1, <3>4, <1>e DEF KnownFiles, Holding, Here, Untouched
    <3> QED  BY <2>1, <2>3, <3>5, <1>e, <1>p, <1>s DEF DoctorKnows
  <2> QED  BY <1>5, <2>2, <2>3 DEF HashFile
<1>6. CASE WalkBundle
  <2>1. Elsewhere /\ phase = "bundle-files" /\ UNCHANGED <<manifest, toolchain>>
    BY <1>6 DEF WalkBundle
  <2>2. CASE \E code : Refuse("bundle-files", code)
    BY <2>1, <2>2, <1>e, RefuseIsNotOk, RefusedKnows
  <2>3. ASSUME NEW bytes \in manifest, at > Len(Manifest[bytes].files),
               NothingUnlisted(Manifest[bytes]), phase' = "engine-executable"
        PROVE  DoctorKnows'
    <3>1. AllFilesKnown /\ KnownTree  BY <1>6, <2>3, WalkKnows
    <3> QED  BY <2>1, <2>3, <3>1, <1>e, <1>p, <1>s DEF DoctorKnows
  <2> QED  BY <1>6, <2>2, <2>3 DEF WalkBundle, Pass
<1>7. ASSUME Elsewhere, UNCHANGED <<manifest, toolchain>>,
             phase \in {"engine-executable", "tool-executables", "capabilities", "temp-dir"},
             phase' \in {"tool-executables", "capabilities", "temp-dir", "report"}
      PROVE  DoctorKnows'
  BY <1>7, <1>e, <1>s DEF DoctorKnows
<1>8. CASE CheckEngine
  <2>1. Elsewhere /\ phase = "engine-executable" /\ UNCHANGED <<manifest, toolchain>>
    BY <1>8 DEF CheckEngine
  <2>2. phase' \in {"tool-executables", "report"}  BY <1>8 DEF CheckEngine, Refuse
  <2> QED  BY <2>1, <2>2, <1>7
<1>9. CASE StartTool
  <2>1. Elsewhere /\ phase = "tool-executables" /\ UNCHANGED <<manifest, toolchain>>
    BY <1>9 DEF StartTool
  <2>2. phase' \in {"tool-executables", "report"}  BY <1>9, <2>1 DEF StartTool, Refuse
  <2> QED  BY <2>1, <2>2, <1>7
<1>10. CASE CheckVersions
  <2>1. Elsewhere /\ phase = "tool-executables" /\ UNCHANGED <<manifest, toolchain>>
    BY <1>10 DEF CheckVersions
  <2>2. phase' \in {"capabilities", "report"}  BY <1>10 DEF CheckVersions
  <2> QED  BY <2>1, <2>2, <1>7
<1>11. CASE CheckCapabilities
  <2>1. Elsewhere /\ phase = "capabilities" /\ UNCHANGED <<manifest, toolchain>>
    BY <1>11 DEF CheckCapabilities
  <2>2. phase' \in {"temp-dir", "report"}  BY <1>11 DEF CheckCapabilities, Refuse, Pass
  <2> QED  BY <2>1, <2>2, <1>7
<1>12. CASE CheckTempDir
  <2>1. Elsewhere /\ phase = "temp-dir" /\ UNCHANGED <<manifest, toolchain>>
    BY <1>12 DEF CheckTempDir
  <2>2. phase' = "report"  BY <1>12 DEF CheckTempDir, Refuse, Pass
  <2> QED  BY <2>1, <2>2, <1>7
<1>13. CASE PrintReport
  <2>1. phase = "report" /\ phase' = "idle"
        /\ UNCHANGED <<disk, touched, root, anchor, manifest, toolchain, at, checks>>
    BY <1>13 DEF PrintReport, diskVars, doctorVars
  <2>2. report' \subseteq {[checks |-> checks, toolchain |-> toolchain,
                            exit |-> DoctorExitCode(checks)]}
    BY <1>13 DEF PrintReport
  <2>3. \A printed \in report' :
          printed.toolchain = toolchain /\ (printed.exit = 0 => IsOk(checks))
    BY <2>2 DEF DoctorExitCode
  <2>4. Accepted' => Accepted  BY <2>1, <2>3 DEF Accepted
  <2>5. "idle" \notin DoctorPhase  BY PhaseNames DEF Checking
  <2> QED  BY <2>1, <2>3, <2>4, <2>5, RestIsSteady, KnownStays DEF DoctorKnows
<1> QED  BY <1>1, <1>2, <1>3, <1>4, <1>5, <1>6, <1>8, <1>9, <1>10, <1>11, <1>12, <1>13
         DEF DoctorStep

LEMMA InitKnows == DoctorInit => DoctorKnows
<1> SUFFICES ASSUME DoctorInit PROVE DoctorKnows  OBVIOUS
<1>1. phase = "idle" /\ report = {} /\ ~Accepted  BY DEF DoctorInit, Accepted
<1>2. "idle" \notin DoctorPhase  BY PhaseNames DEF Checking
<1> QED  BY <1>1, <1>2
         DEF DoctorKnows, AfterManifest, AfterAnchor, AfterDescriptor, AfterFiles

LEMMA StartDoctorKnows ==
  ASSUME StartDoctor
  PROVE  DoctorKnows'
<1>1. phase' = "package-manifest" /\ report' = {} /\ at' = 1
  BY DEF StartDoctor, Begin
<1>2. ~Accepted'  BY <1>1 DEF Accepted
<1> QED  BY <1>1, <1>2
         DEF DoctorKnows, AfterManifest, AfterAnchor, AfterDescriptor, AfterFiles

\* An installer's change takes nothing away but what is known of its file.
LEMMA InstallKnows ==
  ASSUME DoctorTypes, DoctorKnows, Install
  PROVE  DoctorKnows'
<1>1. PICK p \in Path :
        \E file \in Replacement[p] :
          disk' = [disk EXCEPT ![p] = file] /\ touched' = touched \cup {p}
  BY DEF Install
<1>2. UNCHANGED <<phase, report, checks, root, anchor, manifest, toolchain, at>>
  BY DEF Install, doctorVars
<1>3. DoctorTypes'  BY InstallTypes
<1>4. touched' \subseteq Path  BY <1>3 DEF DoctorTypes, DoctorTypeOK
<1>5. ASSUME NEW path, path \notin touched'
      PROVE  At(disk', path) = At(disk, path)
  BY <1>1, <1>5 DEF At, DoctorTypes, DoctorTypeOK
<1>6. Steady  BY <1>1, <1>2, <1>5 DEF Steady
<1>7. Accepted' => Accepted  BY <1>2 DEF Accepted
<1> QED  BY <1>2, <1>4, <1>6, <1>7, KnownStays DEF DoctorKnows

\* Nor does a step of another command.
LEMMA OtherKnows ==
  ASSUME DoctorTypes, DoctorKnows,
         UNCHANGED <<disk, touched, doctorVars, report>>, phase' \notin DoctorPhase
  PROVE  DoctorKnows'
<1>1. UNCHANGED <<root, anchor, manifest, toolchain, at, checks>>  BY DEF doctorVars
<1>2. phase' \notin Checking \cup {"report"}  BY PhaseNames
<1>3. Accepted' => Accepted  BY <1>2 DEF Accepted
<1>4. phase' \notin AfterManifest
  BY <1>2 DEF AfterManifest, AfterAnchor, AfterDescriptor, AfterFiles, Checking
<1> QED
  BY <1>1, <1>2, <1>3, <1>4, RestIsSteady, KnownStays
  DEF DoctorKnows, Checking, AfterManifest, AfterAnchor, AfterDescriptor

LEMMA ListedPath ==
  ASSUME NEW c \in DOMAIN Manifest, NEW i \in 1 .. Len(Manifest[c].files)
  PROVE  /\ Manifest[c].files[i].path \in Seq(Name)
         /\ Manifest[c].files[i].path # <<>>
<1> DEFINE Entry == [path: Seq(Name) \ {<<>>}, content: Content, size: Nat]
           files == Manifest[c].files
<1>1. files \in Seq(Entry) /\ i \in 1 .. Len(files)  BY ManifestAssumption
<1>2. \A e \in Entry : e.path \in Seq(Name) /\ e.path # <<>>  OBVIOUS
<1> HIDE DEF Entry, files
<1>3. files[i] \in Entry  BY <1>1
<1>4. files[i].path \in Seq(Name) /\ files[i].path # <<>>  BY <1>2, <1>3
<1> QED  BY <1>4 DEF files

LEMMA RelativePath ==
  ASSUME root \in {<<>>, BinDir}, NEW p \in Inside, NEW path \in Seq(Name)
  PROVE  /\ SubSeq(p, Len(root) + 1, Len(p)) = path => p = root \o path
         /\ p \in Path
<1>1. p \in Path /\ p \in Seq(Name) /\ Below(root, p)  BY PathType DEF Inside
<1>2. root \in Seq(Name)
  <2>1. <<>> \in Seq(Name) /\ BinDir \in Seq(Name)  BY PathAssumption DEF BinDir
  <2> QED  BY <2>1
<1>3. Len(root) < Len(p) /\ SubSeq(p, 1, Len(root)) = root  BY <1>1 DEF Below
<1>4. ASSUME SubSeq(p, Len(root) + 1, Len(p)) = path
      PROVE  p = root \o path
  <2>1. Len(p) \in Nat /\ Len(root) \in Nat  BY <1>1, <1>2
  <2>2. \A i \in 1 .. Len(root) : root[i] = p[i]
    BY <1>1, <1>3, <2>1, <1>2
  <2>3. Len(path) = Len(p) - Len(root)
        /\ \A i \in 1 .. Len(path) : path[i] = p[Len(root) + i]
    <3> DEFINE from == Len(root) + 1
    <3>1. from \in 1 .. Len(p) /\ path = SubSeq(p, from, Len(p))
      BY <1>3, <1>4, <2>1
    <3>2. from \in Nat /\ from = Len(root) + 1  BY <2>1
    <3> HIDE DEF from
    <3>3. Len(path) = Len(p) - from + 1
          /\ \A i \in 1 .. Len(path) : path[i] = p[from + i - 1]
      BY <1>1, <2>1, <3>1
    <3>4. \A i \in 1 .. Len(path) : from + i - 1 = Len(root) + i
      BY <2>1, <3>2, <3>3
    <3> QED  BY <2>1, <3>2, <3>3, <3>4
  <2>4. root \o path \in Seq(Name) /\ Len(root \o path) = Len(p)
        /\ \A i \in 1 .. Len(p) : (root \o path)[i] = p[i]
    BY <1>2, <2>1, <2>2, <2>3, <1>3, ConcatProperties
  <2> QED  BY <1>1, <2>4, SeqEqual
<1> QED  BY <1>1, <1>4

\* Every file of the bundle that nobody touched is as the manifest lists it.
LEMMA HoldsAsListed ==
  ASSUME DoctorTypes, NEW bytes \in DOMAIN Manifest,
         manifest = {bytes}, anchor = {bytes},
         Untouched(SelfPath) => Holding(SelfPath) = {bytes},
         AllFilesKnown, KnownTree, NEW p \in Inside \ touched
  PROVE  AsListed(Manifest[bytes], p)
<1> DEFINE m    == Manifest[bytes]
           rest == SubSeq(p, Len(root) + 1, Len(p))
<1>1. p \in Path /\ disk[p] = At(disk, p)  BY DEF Inside, At
<1>2. \A file \in disk[p] : ~file.link  BY DEF KnownTree
<1>3. root \in {<<>>, BinDir}  BY DEF DoctorTypes, DoctorTypeOK
<1>4. ASSUME NEW path, root \o path = p
      PROVE  Untouched(path) /\ Holding(path) = {file.content : file \in disk[p]}
  BY <1>1, <1>4 DEF Untouched, Holding, Here
<1>5. CASE p = root \o SelfPath
  BY <1>2, <1>4, <1>5 DEF AsListed, Expected
<1>6. CASE p # root \o SelfPath
  <2> DEFINE listed == {j \in 1 .. Len(m.files) : root \o m.files[j].path = p}
  <2>1. Expected(m, p) = {m.files[i].content : i \in listed}
    BY <1>6 DEF Expected
  <2>2. ASSUME NEW j \in listed
        PROVE  {file.content : file \in disk[p]} = {m.files[j].content}
    BY <2>2, <1>4 DEF AllFilesKnown
  <2>3. CASE listed # {}
    BY <2>1, <2>2, <2>3, <1>2, ZenonT(40) DEF AsListed
  <2>4. CASE listed = {}
    <3>1. ASSUME NEW file \in disk[p] PROVE FALSE
      <4>1. rest \in Listed(m) \cup {SelfPath}
        BY <3>1 DEF KnownTree
      <4>2. SelfPath \in Seq(Name)  BY PathAssumption DEF SelfPath
      <4>3. CASE rest = SelfPath
        BY <4>2, <4>3, <1>3, <1>6, RelativePath
      <4>4. ASSUME NEW i \in 1 .. Len(m.files), rest = m.files[i].path
            PROVE  FALSE
        <5>1. m.files[i].path \in Seq(Name)  BY ListedPath
        <5>2. p = root \o m.files[i].path  BY <4>4, <5>1, <1>3, RelativePath
        <5> QED  BY <5>2, <2>4
      <4> QED  BY <4>1, <4>3, <4>4 DEF Listed
    <3>2. disk[p] = {}  BY <3>1
    <3> QED  BY <2>1, <2>4, <3>2 DEF AsListed
  <2> QED  BY <2>3, <2>4
<1> QED  BY <1>5, <1>6

\* What the doctor knows is what OkReportIsTrusted says.
LEMMA KnownIsTrusted ==
  ASSUME DoctorTypes, DoctorKnows
  PROVE  OkReportIsTrusted
<1> SUFFICES ASSUME NEW printed \in report, printed.exit = 0
             PROVE  \E bytes \in anchor : LET m == Manifest[bytes] IN
                      /\ GoodManifest(bytes)
                      /\ printed.toolchain = {m.fingerprint}
                      /\ \A p \in Inside \ touched : AsListed(m, p)
  BY DEF OkReportIsTrusted
<1>1. Accepted  BY DEF Accepted
<1>2. /\ KnownManifest /\ KnownAnchor /\ KnownDescriptor /\ AllFilesKnown /\ KnownTree
      /\ printed.toolchain = toolchain
  BY <1>1 DEF DoctorKnows
<1>3. PICK bytes \in manifest :
        GoodManifest(bytes) /\ (Untouched(SelfPath) => Holding(SelfPath) = {bytes})
  BY <1>2 DEF KnownManifest
<1> DEFINE m == Manifest[bytes]
<1>4. manifest = {bytes} /\ anchor = {bytes} /\ bytes \in DOMAIN Manifest
  BY <1>2, <1>3, OptionIsOne DEF KnownAnchor, DoctorTypes, DoctorTypeOK, GoodManifest
<1>5. printed.toolchain = {m.fingerprint}  BY <1>2, <1>4 DEF KnownDescriptor
<1>6. ASSUME NEW p \in Inside \ touched PROVE AsListed(m, p)
  BY <1>2, <1>3, <1>4, HoldsAsListed
<1> QED  BY <1>3, <1>4, <1>5, <1>6

-----------------------------------------------------------------------------
(* What the doctor finds while nothing changes.                            *)

\* What the manifest says, if one is there.
Parsed ==
  {Manifest[file.content] :
     file \in {f \in Here(SelfPath) : f.content \in DOMAIN Manifest}}

\* A check is right about the bundle of manifest m.
Right(check, m) ==
  check.name # "temp-dir" => (check.code = {} <=> Sound(check.name, m))

Judged(made) ==
  /\ \A m \in Parsed : \A i \in 1 .. Len(made) : Right(made[i], m)
  /\ Len(made) > 0 /\ made[1].code = {} => Parsed # {}

\* A listed file is there, is no link and has the listed size ...
Sized(entry) ==
  \E file \in Here(entry.path) : ~file.link /\ Size[file.content] = entry.size

NextIsSized ==
  \A bytes \in manifest : LET files == Manifest[bytes].files IN
    at <= Len(files) /\ Sized(files[at])

\* ... and the listed content.
Intact(entry) ==
  \E file \in Here(entry.path) :
    ~file.link /\ Size[file.content] = entry.size /\ file.content = entry.content

\* The listed files before the n-th.
IntactBefore(n) ==
  \A bytes \in manifest : LET files == Manifest[bytes].files IN
    \A j \in 1 .. Len(files) : j < n => Intact(files[j])

\* The tools before the n-th have been started.
StartedBefore(n) ==
  \A bytes \in manifest : LET tools == Manifest[bytes].tools IN
    /\ Len(outputs) = n - 1 /\ n <= Len(tools) + 1
    /\ \A i \in 1 .. n - 1 : \E file \in Here(tools[i].path) :
         file.content \in DOMAIN Output /\ outputs[i] = Output[file.content]

DescriptorRead ==
  \A bytes \in manifest :
    toolchain = ReadDescriptor(disk, root \o Manifest[bytes].descriptorRef)

\* What a doctor that nobody disturbed has found so far.
Found ==
  /\ touched = {}
  /\ Judged(checks)
  /\ phase = "report" =>
       Len(checks) > 0 /\ (checks[Len(checks)].code = {} => Len(checks) = 10)
  /\ phase \in AfterDescriptor => DescriptorRead
  /\ phase \in {"bundle-files", "hash-file"} => IntactBefore(at)
  /\ phase = "hash-file" => NextIsSized
  /\ phase = "engine-executable" => at = 1
  /\ phase = "tool-executables" => StartedBefore(at)
  /\ phase \notin {"tool-executables", "capabilities", "temp-dir", "report"} =>
       outputs = <<>>

DoctorFinds == calm /\ phase \in DoctorPhase => Found

\* What is right of a check depends on the bundle, the anchor and the running
\* engine alone.
LEMMA JudgedStays ==
  ASSUME Elsewhere, Judged(checks')
  PROVE  Judged(checks)'
<1>1. UNCHANGED <<disk, root, anchor, build>>  BY DEF Elsewhere, diskVars
<1>2. Parsed' = Parsed  BY <1>1 DEF Parsed, Here
<1>3. ASSUME NEW m \in Parsed, NEW i \in 1 .. Len(checks')
      PROVE  Right(checks[i], m)'
  <2>1. Right(checks'[i], m)  BY DEF Judged
  <2>2. \A p \in Inside : AsListed(m, p)' <=> AsListed(m, p)
    BY <1>1 DEF AsListed, Expected
  <2>3. Inside' = Inside  BY <1>1 DEF Inside
  <2>4. Sound(checks[i].name, m)' <=> Sound(checks'[i].name, m)
    BY <1>1, <2>2, <2>3 DEF Sound, Here
  <2>   QED  BY <2>1, <2>4 DEF Right
<1> QED  BY <1>2, <1>3 DEF Judged

\* One more check that is right.
LEMMA OneJudged ==
  ASSUME NEW made \in Seq(Check), Judged(made), NEW check \in Check,
         \A m \in Parsed : Right(check, m),
         made = <<>> /\ check.code = {} => Parsed # {}
  PROVE  /\ Append(made, check) \in Seq(Check)
         /\ Judged(Append(made, check))
         /\ Append(made, check)[Len(Append(made, check))] = check
<1> DEFINE more == Append(made, check)
<1>1. /\ more \in Seq(Check) /\ Len(more) = Len(made) + 1 /\ Len(made) \in Nat
      /\ more[Len(made) + 1] = check
      /\ \A i \in 1 .. Len(made) : more[i] = made[i]
  OBVIOUS
<1> HIDE DEF more
<1>2. ASSUME NEW m \in Parsed, NEW i \in 1 .. Len(more)
      PROVE  Right(more[i], m)
  <2>1. CASE i \in 1 .. Len(made)  BY <2>1, <1>1 DEF Judged
  <2>2. CASE i = Len(made) + 1     BY <2>2, <1>1
  <2>   QED  BY <2>1, <2>2, <1>1
<1>3. ASSUME more[1].code = {} PROVE Parsed # {}
  <2>1. CASE Len(made) = 0
    <3>1. made = <<>> /\ more[1] = check  BY <2>1, <1>1, EmptySeq
    <3>   QED  BY <3>1, <1>3
  <2>2. CASE Len(made) > 0
    <3>1. more[1] = made[1]  BY <2>2, <1>1
    <3>   QED  BY <2>2, <3>1, <1>3 DEF Judged
  <2>   QED  BY <2>1, <2>2, <1>1
<1>4. Judged(more)  BY <1>2, <1>3 DEF Judged
<1>5. more[Len(more)] = check  BY <1>1
<1> QED  BY <1>1, <1>4, <1>5 DEF more

\* What holds of checks a doctor at rest makes in its step.
LEMMA Looking ==
  ASSUME DoctorTypes, Found, Elsewhere, NEW check \in Check,
         checks' = Append(checks, check),
         \A m \in Parsed : Right(check, m),
         checks = <<>> /\ check.code = {} => Parsed # {}
  PROVE  /\ touched' = {} /\ Judged(checks)'
         /\ Len(checks') > 0 /\ checks'[Len(checks')] = check
<1>1. checks \in Seq(Check)  BY DEF DoctorTypes, DoctorTypeOK
<1>2. Judged(checks) /\ touched = {}  BY DEF Found
<1> DEFINE more == Append(checks, check)
<1>3. more \in Seq(Check) /\ Judged(more) /\ more[Len(more)] = check
  BY <1>1, <1>2, OneJudged
<1>4. Len(more) > 0  BY <1>1
<1>5. checks' = more  OBVIOUS
<1> HIDE DEF more
<1>6. Judged(checks')  BY <1>3, <1>5
<1>7. touched' = {}  BY <1>2 DEF Elsewhere, diskVars
<1> QED  BY <1>3, <1>4, <1>5, <1>6, <1>7, JudgedStays

\* Two checks in one step.
LEMMA LookingTwice ==
  ASSUME DoctorTypes, Found, Elsewhere, NEW a \in Check, NEW b \in Check,
         checks' = checks \o <<a, b>>,
         \A m \in Parsed : Right(a, m) /\ Right(b, m),
         Parsed # {}
  PROVE  /\ touched' = {} /\ Judged(checks)'
         /\ Len(checks') > 0 /\ checks'[Len(checks')] = b
<1>1. checks \in Seq(Check)  BY DEF DoctorTypes, DoctorTypeOK
<1>2. Judged(checks) /\ touched = {}  BY DEF Found
<1> DEFINE one == Append(checks, a)
           two == Append(one, b)
<1>3. one \in Seq(Check) /\ Judged(one)  BY <1>1, <1>2, OneJudged
<1>4. two \in Seq(Check) /\ Judged(two) /\ two[Len(two)] = b
  <2> HIDE DEF one
  <2> QED  BY <1>3, OneJudged
<1>5. checks' = two /\ Len(two) > 0  BY <1>1
<1> HIDE DEF two
<1>6. Judged(checks')  BY <1>4, <1>5
<1>7. touched' = {}  BY <1>2 DEF Elsewhere, diskVars
<1> QED  BY <1>4, <1>5, <1>6, <1>7, JudgedStays

\* A check that fails, rightly, ends the examination.
LEMMA Refusing ==
  ASSUME DoctorTypes, Found, Elsewhere, NEW name \in CheckName, NEW code \in Fault,
         Refuse(name, code),
         \A m \in Parsed : name # "temp-dir" => ~Sound(name, m)
  PROVE  Found'
<1> DEFINE check == Failed(name, code)
<1>1. check \in Check  BY ChecksHaveTypes
<1>2. check.name = name /\ check.code # {}  BY DEF Failed
<1>3. \A m \in Parsed : Right(check, m)
  <2> HIDE DEF check
  <2> QED  BY <1>2 DEF Right
<1>4. checks' = Append(checks, check) /\ phase' = "report"  BY DEF Refuse
<1> HIDE DEF check
<1>5. /\ touched' = {} /\ Judged(checks)'
      /\ Len(checks') > 0 /\ checks'[Len(checks')] = check
  BY <1>1, <1>2, <1>3, <1>4, Looking
<1> QED
  BY <1>2, <1>4, <1>5 DEF Found, AfterDescriptor, AfterFiles

\* One that passes, rightly, leads on.
LEMMA Passing ==
  ASSUME DoctorTypes, Found, Elsewhere, NEW name \in CheckName, NEW next,
         Pass(name, next), Parsed # {},
         \A m \in Parsed : name # "temp-dir" => Sound(name, m)
  PROVE  touched' = {} /\ Judged(checks)' /\ phase' = next
<1> DEFINE check == Passed(name)
<1>1. check \in Check  BY ChecksHaveTypes
<1>2. check.name = name /\ check.code = {}  BY DEF Passed
<1>3. \A m \in Parsed : Right(check, m)
  <2> HIDE DEF check
  <2> QED  BY <1>2 DEF Right
<1>4. checks' = Append(checks, check) /\ phase' = next  BY DEF Pass
<1> HIDE DEF check
<1> QED  BY <1>1, <1>2, <1>3, <1>4, Looking

\* A step between two checks.
LEMMA Going ==
  ASSUME Found, Elsewhere, UNCHANGED checks
  PROVE  touched' = {} /\ Judged(checks)'
<1>1. Judged(checks')  BY DEF Found
<1>2. touched' = {}  BY DEF Found, Elsewhere, diskVars
<1> QED  BY <1>1, <1>2, JudgedStays

\* The manifest the doctor works with is the one that is there, and valid.
LEMMA ReadIsParsed ==
  ASSUME DoctorTypes, DoctorKnows, Found, phase \in AfterManifest
  PROVE  \E bytes \in DOMAIN Manifest :
           /\ manifest = {bytes} /\ Holding(SelfPath) = {bytes}
           /\ ManifestValid(Manifest[bytes]) /\ Parsed = {Manifest[bytes]}
<1>1. PICK bytes \in manifest :
        GoodManifest(bytes) /\ (Untouched(SelfPath) => Holding(SelfPath) = {bytes})
  BY DEF DoctorKnows, KnownManifest
<1>2. Untouched(SelfPath)  BY DEF Found, Untouched
<1>3. bytes \in DOMAIN Manifest /\ ManifestValid(Manifest[bytes])
  BY <1>1 DEF GoodManifest
<1>4. manifest = {bytes}  BY <1>1, OptionIsOne DEF DoctorTypes, DoctorTypeOK
<1>5. \A file \in Here(SelfPath) : file.content = bytes
  BY <1>1, <1>2 DEF Holding
<1>6. Here(SelfPath) # {}  BY <1>1, <1>2 DEF Holding
<1>7. Parsed = {Manifest[bytes]}
  BY <1>3, <1>5, <1>6 DEF Parsed
<1> QED  BY <1>1, <1>2, <1>3, <1>4, <1>7

LEMMA ReadManifestFinds ==
  ASSUME DoctorTypes, DoctorKnows, Found, ReadManifest
  PROVE  Found'
<1> USE DEF CheckName, Fault
<1>1. Elsewhere /\ phase = "package-manifest" /\ UNCHANGED outputs  BY DEF ReadManifest
<1>2. CASE Here(SelfPath) = {}
           /\ Refuse("package-manifest", "PACKAGE_MANIFEST_UNREADABLE")
  <2>1. Parsed = {}  BY <1>2 DEF Parsed
  <2>   QED  BY <2>1, <1>1, <1>2, Refusing
<1>3. ASSUME NEW file \in Here(SelfPath), ~GoodManifest(file.content),
             Refuse("package-manifest", "PACKAGE_MANIFEST_INVALID")
      PROVE  Found'
  <2>1. Here(SelfPath) = {file}
    <3>1. Here(SelfPath) \in Option(File)
      BY AtType DEF Here, DoctorTypes, DoctorTypeOK
    <3>   QED  BY <3>1, <1>3, OptionIsOne
  <2>2. \A m \in Parsed : ~ManifestValid(m)
    BY <2>1, <1>3 DEF Parsed, GoodManifest
  <2>3. \A m \in Parsed : ~Sound("package-manifest", m)  BY <2>2 DEF Sound
  <2>   QED  BY <2>3, <1>1, <1>3, Refusing
<1>4. ASSUME NEW file \in Here(SelfPath), GoodManifest(file.content),
             Pass("package-manifest", "manifest-trust-anchor")
      PROVE  Found'
  <2>1. Here(SelfPath) = {file}
    <3>1. Here(SelfPath) \in Option(File)
      BY AtType DEF Here, DoctorTypes, DoctorTypeOK
    <3>   QED  BY <3>1, <1>4, OptionIsOne
  <2>2. Parsed = {Manifest[file.content]} /\ ManifestValid(Manifest[file.content])
    BY <2>1, <1>4 DEF Parsed, GoodManifest
  <2>3. \A m \in Parsed : Sound("package-manifest", m)  BY <2>2 DEF Sound
  <2>4. /\ touched' = {} /\ Judged(checks)' /\ phase' = "manifest-trust-anchor"
    BY <2>2, <2>3, <1>1, <1>4, Passing
  <2>   QED  BY <2>4, <1>1 DEF Found, AfterDescriptor, AfterFiles
<1> QED  BY <1>2, <1>3, <1>4 DEF ReadManifest

LEMMA CheckAnchorFinds ==
  ASSUME DoctorTypes, DoctorKnows, Found, CheckAnchor
  PROVE  Found'
<1> USE DEF CheckName, Fault
<1>1. Elsewhere /\ phase = "manifest-trust-anchor" /\ UNCHANGED outputs
  BY DEF CheckAnchor
<1>2. PICK bytes \in DOMAIN Manifest :
        /\ manifest = {bytes} /\ Holding(SelfPath) = {bytes}
        /\ Parsed = {Manifest[bytes]}
  BY <1>1, ReadIsParsed DEF AfterManifest
<1>3. \A m : Sound("manifest-trust-anchor", m) <=> anchor # {} /\ anchor = manifest
  BY <1>2 DEF Sound, Holding
<1>4. CASE anchor = {} \/ anchor # manifest
  <2>1. \E code \in Fault : Refuse("manifest-trust-anchor", code)
    BY <1>4, <1>2 DEF CheckAnchor
  <2>   QED  BY <2>1, <1>1, <1>3, <1>4, Refusing
<1>5. CASE anchor # {} /\ anchor = manifest
  <2>1. Pass("manifest-trust-anchor", "toolchain-descriptor")
    BY <1>5 DEF CheckAnchor
  <2>2. /\ touched' = {} /\ Judged(checks)' /\ phase' = "toolchain-descriptor"
    BY <2>1, <1>1, <1>2, <1>3, <1>5, Passing
  <2>   QED  BY <2>2, <1>1 DEF Found, AfterDescriptor, AfterFiles
<1> QED  BY <1>4, <1>5

LEMMA CheckDescriptorFinds ==
  ASSUME DoctorTypes, DoctorKnows, Found, CheckDescriptor
  PROVE  Found'
<1> USE DEF CheckName, Fault
<1>1. Elsewhere /\ phase = "toolchain-descriptor" /\ UNCHANGED <<manifest, at, outputs>>
  BY DEF CheckDescriptor
<1>2. PICK bytes \in DOMAIN Manifest :
        manifest = {bytes} /\ Parsed = {Manifest[bytes]}
  BY <1>1, ReadIsParsed DEF AfterManifest, AfterAnchor
<1> DEFINE m    == Manifest[bytes]
           read == ReadDescriptor(disk, root \o m.descriptorRef)
<1>3. Sound("toolchain-descriptor", m) <=> \E c \in read : GoodDescriptor(c, m)
  BY DEF Sound, GoodDescriptor
<1>4. CASE /\ \A c \in read : ~GoodDescriptor(c, m)
           /\ Refuse("toolchain-descriptor", "TOOLCHAIN_DESCRIPTOR_INVALID")
  BY <1>1, <1>2, <1>3, <1>4, Refusing
<1>5. CASE /\ \E c \in read : GoodDescriptor(c, m)
           /\ Pass("toolchain-descriptor", "bundle-files")
           /\ toolchain' = read
  <2>1. /\ touched' = {} /\ Judged(checks)' /\ phase' = "bundle-files"
    BY <1>1, <1>2, <1>3, <1>5, Passing
  <2>2. DescriptorRead'
    BY <1>1, <1>2, <1>5 DEF DescriptorRead, Elsewhere, diskVars
  <2>3. IntactBefore(at)'
    <3>1. at' = 1  BY <1>1 DEF DoctorKnows
    <3>   QED  BY <3>1 DEF IntactBefore
  <2>4. outputs' = <<>>  BY <1>1 DEF Found
  <2>   QED  BY <2>1, <2>2, <2>3, <2>4 DEF Found
<1> QED  BY <1>2, <1>4, <1>5 DEF CheckDescriptor

\* A path in the bundle, and the path relative to its root.
LEMMA Rooted ==
  ASSUME root \in {<<>>, BinDir}, NEW path \in Seq(Name)
  PROVE  /\ SubSeq(root \o path, Len(root) + 1, Len(root \o path)) = path
         /\ path # <<>> => Below(root, root \o path)
<1> DEFINE p == root \o path
<1>1. root \in Seq(Name)
  <2>1. <<>> \in Seq(Name) /\ BinDir \in Seq(Name)  BY PathAssumption DEF BinDir
  <2>   QED  BY <2>1
<1>2. /\ p \in Seq(Name) /\ Len(p) = Len(root) + Len(path)
      /\ Len(root) \in Nat /\ Len(path) \in Nat
      /\ \A i \in 1 .. Len(root) : p[i] = root[i]
      /\ \A i \in 1 .. Len(path) : p[Len(root) + i] = path[i]
  BY <1>1, ConcatProperties
<1> HIDE DEF p
<1>3. SubSeq(p, Len(root) + 1, Len(p)) = path
  <2> DEFINE rest == SubSeq(p, Len(root) + 1, Len(p))
  <2>1. /\ rest \in Seq(Name) /\ Len(rest) = Len(path)
        /\ \A i \in 1 .. Len(path) : rest[i] = p[Len(root) + i]
    BY <1>2
  <2> HIDE DEF rest
  <2>2. rest = path  BY <1>2, <2>1, SeqEqual
  <2>   QED  BY <2>2 DEF rest
<1>4. ASSUME path # <<>> PROVE Below(root, p)
  <2> DEFINE first == SubSeq(p, 1, Len(root))
  <2>1. /\ first \in Seq(Name) /\ Len(first) = Len(root)
        /\ \A i \in 1 .. Len(root) : first[i] = p[i]
    BY <1>2
  <2> HIDE DEF first
  <2>2. first = root  BY <1>1, <1>2, <2>1, SeqEqual
  <2>3. Len(path) > 0  BY <1>4, <1>2, EmptySeq
  <2>4. Len(root) < Len(p)  BY <1>2, <2>3
  <2>   QED  BY <2>2, <2>4 DEF Below, first
<1> QED  BY <1>3, <1>4 DEF p

LEMMA FilesAreSound ==
  ASSUME NEW m
  PROVE  Sound("bundle-files", m) <=>
           /\ \A p \in Inside : AsListed(m, p)
           /\ \A i \in 1 .. Len(m.files) :
                /\ root \o m.files[i].path \in Path
                /\ m.files[i].size = Size[m.files[i].content]
BY DEF Sound

\* In a sound bundle the doctor refuses no listed file ...
LEMMA SoundIsIntact ==
  ASSUME DoctorTypes, NEW bytes \in DOMAIN Manifest,
         ManifestValid(Manifest[bytes]), Sound("bundle-files", Manifest[bytes]),
         NEW i \in 1 .. Len(Manifest[bytes].files)
  PROVE  Intact(Manifest[bytes].files[i])
<1> DEFINE m     == Manifest[bytes]
           entry == m.files[i]
           p     == root \o entry.path
<1>1. p \in Path /\ entry.size = Size[entry.content]  BY FilesAreSound
<1>2. entry.path \in Seq(Name) /\ entry.path # <<>>  BY ListedPath
<1>3. root \in {<<>>, BinDir}  BY DEF DoctorTypes, DoctorTypeOK
<1>4. p \in Inside  BY <1>1, <1>2, <1>3, Rooted DEF Inside
<1>5. AsListed(m, p)  BY <1>4, FilesAreSound
<1>6. p # root \o SelfPath
  <2>1. SelfPath \in Seq(Name)  BY PathAssumption DEF SelfPath
  <2>2. entry.path # SelfPath  BY DEF ManifestValid, Listed
  <2>3. SubSeq(p, Len(root) + 1, Len(p)) = entry.path  BY <1>2, <1>3, Rooted
  <2>4. SubSeq(root \o SelfPath, Len(root) + 1, Len(root \o SelfPath)) = SelfPath
    BY <2>1, <1>3, Rooted
  <2>   QED  BY <2>2, <2>3, <2>4
<1>7. entry.content \in Expected(m, p)  BY <1>6 DEF Expected
<1>8. PICK file \in disk[p] : file.content = entry.content /\ ~file.link
  BY <1>5, <1>7 DEF AsListed
<1>9. file \in Here(entry.path)  BY <1>1, <1>8 DEF Here, At
<1> QED  BY <1>1, <1>8, <1>9 DEF Intact

\* ... and finds nothing that is not listed.
LEMMA SoundIsWalked ==
  ASSUME DoctorTypes, NEW bytes \in DOMAIN Manifest,
         Sound("bundle-files", Manifest[bytes])
  PROVE  NothingUnlisted(Manifest[bytes])
<1> DEFINE m == Manifest[bytes]
<1> SUFFICES ASSUME NEW p \in Inside, NEW file \in disk[p]
             PROVE  /\ ~file.link
                    /\ SubSeq(p, Len(root) + 1, Len(p)) \in Listed(m) \cup {SelfPath}
  BY DEF NothingUnlisted, Inside
<1>1. root \in {<<>>, BinDir}  BY DEF DoctorTypes, DoctorTypeOK
<1>2. AsListed(m, p)  BY FilesAreSound
<1>3. ~file.link /\ file.content \in Expected(m, p)  BY <1>2 DEF AsListed
<1>4. CASE p = root \o SelfPath
  <2>1. SelfPath \in Seq(Name)  BY PathAssumption DEF SelfPath
  <2>   QED  BY <2>1, <1>1, <1>3, <1>4, Rooted
<1>5. CASE p # root \o SelfPath
  <2>1. PICK j \in 1 .. Len(m.files) : root \o m.files[j].path = p
    BY <1>3, <1>5 DEF Expected
  <2>2. m.files[j].path \in Seq(Name)  BY ListedPath
  <2>3. SubSeq(p, Len(root) + 1, Len(p)) = m.files[j].path
    BY <2>1, <2>2, <1>1, Rooted
  <2>   QED  BY <2>3, <1>3 DEF Listed
<1> QED  BY <1>4, <1>5

LEMMA InspectFileFinds ==
  ASSUME DoctorTypes, DoctorKnows, Found, InspectFile
  PROVE  Found'
<1> USE DEF CheckName, Fault
<1>1. /\ Elsewhere /\ phase = "bundle-files"
      /\ UNCHANGED <<manifest, toolchain, at, outputs>>
  BY DEF InspectFile
<1>2. PICK bytes \in DOMAIN Manifest :
        /\ manifest = {bytes} /\ Parsed = {Manifest[bytes]}
        /\ ManifestValid(Manifest[bytes])
  BY <1>1, ReadIsParsed DEF AfterManifest, AfterAnchor, AfterDescriptor
<1> DEFINE m     == Manifest[bytes]
           entry == m.files[at]
<1>3. at \in 1 .. Len(m.files)
  BY <1>2, ManifestAssumption DEF InspectFile, DoctorTypes, DoctorTypeOK
<1>4. CASE /\ \A file \in Here(entry.path) :
                file.link \/ Size[file.content] # entry.size
           /\ Refuse("bundle-files", "BUNDLE_FILE_INVALID")
  <2>1. ~Intact(entry)  BY <1>4 DEF Intact
  <2>2. ~Sound("bundle-files", m)  BY <2>1, <1>2, <1>3, SoundIsIntact
  <2>   QED  BY <2>2, <1>1, <1>2, <1>4, Refusing
<1>5. CASE Sized(entry) /\ phase' = "hash-file" /\ UNCHANGED checks
  <2>1. touched' = {} /\ Judged(checks)'  BY <1>1, <1>5, Going
  <2>2. DescriptorRead'
    BY <1>1 DEF Found, AfterDescriptor, DescriptorRead, Elsewhere, diskVars
  <2>3. IntactBefore(at)'
    BY <1>1 DEF Found, IntactBefore, Intact, Here, Elsewhere, diskVars
  <2>4. NextIsSized'
    BY <1>1, <1>2, <1>3, <1>5 DEF NextIsSized, Sized, Here, Elsewhere, diskVars
  <2>5. outputs' = <<>>  BY <1>1 DEF Found
  <2>   QED  BY <2>1, <2>2, <2>3, <2>4, <2>5, <1>5 DEF Found
<1> QED  BY <1>2, <1>4, <1>5 DEF InspectFile, Sized

LEMMA HashFileFinds ==
  ASSUME DoctorTypes, DoctorKnows, Found, HashFile
  PROVE  Found'
<1> USE DEF CheckName, Fault
<1>1. /\ Elsewhere /\ phase = "hash-file"
      /\ UNCHANGED <<manifest, toolchain, outputs>>
  BY DEF HashFile
<1>2. PICK bytes \in DOMAIN Manifest :
        /\ manifest = {bytes} /\ Parsed = {Manifest[bytes]}
        /\ ManifestValid(Manifest[bytes])
  BY <1>1, ReadIsParsed DEF AfterManifest, AfterAnchor, AfterDescriptor
<1> DEFINE m     == Manifest[bytes]
           entry == m.files[at]
<1>3. /\ at \in 1 .. Len(m.files) /\ Sized(entry)
      /\ m.files \in Seq([path: Seq(Name) \ {<<>>}, content: Content, size: Nat])
  <2>1. at <= Len(m.files) /\ Sized(entry)
    BY <1>1, <1>2 DEF Found, NextIsSized
  <2>2. at \in Nat \ {0}  BY DEF DoctorTypes, DoctorTypeOK
  <2>3. m.files \in Seq([path: Seq(Name) \ {<<>>}, content: Content, size: Nat])
    BY ManifestAssumption
  <2>4. at \in 1 .. Len(m.files)  BY <2>1, <2>2, <2>3
  <2>   QED  BY <2>1, <2>3, <2>4
<1>4. CASE /\ \A file \in Here(entry.path) : file.content # entry.content
           /\ Refuse("bundle-files", "BUNDLE_FILE_INVALID")
  <2>1. ~Intact(entry)  BY <1>4 DEF Intact
  <2>2. ~Sound("bundle-files", m)  BY <2>1, <1>2, <1>3, SoundIsIntact
  <2>   QED  BY <2>2, <1>1, <1>2, <1>4, Refusing
<1>5. ASSUME NEW file \in Here(entry.path), file.content = entry.content,
             phase' = "bundle-files", at' = at + 1, UNCHANGED checks
      PROVE  Found'
  <2>1. touched' = {} /\ Judged(checks)'  BY <1>1, <1>5, Going
  <2>2. DescriptorRead'
    BY <1>1 DEF Found, AfterDescriptor, DescriptorRead, Elsewhere, diskVars
  <2>3. Intact(entry)
    <3>1. Here(entry.path) \in Option(File)
      BY AtType DEF Here, DoctorTypes, DoctorTypeOK
    <3>2. Here(entry.path) = {file}  BY <3>1, <1>5, OptionIsOne
    <3>   QED  BY <3>2, <1>3, <1>5 DEF Intact, Sized
  <2>4. IntactBefore(at)'
    <3>1. ASSUME NEW j \in 1 .. Len(m.files), j < at + 1
          PROVE  Intact(m.files[j])
      <4>1. CASE j < at  BY <4>1, <1>1, <1>2 DEF Found, IntactBefore
      <4>2. CASE j = at  BY <4>2, <2>3
      <4>   QED  BY <4>1, <4>2, <3>1, <1>3
    <3>   QED
      BY <3>1, <1>1, <1>2, <1>5 DEF IntactBefore, Intact, Here, Elsewhere, diskVars
  <2>5. outputs' = <<>>  BY <1>1 DEF Found
  <2>   QED  BY <2>1, <2>2, <2>4, <2>5, <1>5 DEF Found
<1> QED  BY <1>2, <1>4, <1>5 DEF HashFile

LEMMA WalkBundleFinds ==
  ASSUME DoctorTypes, DoctorKnows, Found, WalkBundle
  PROVE  Found'
<1> USE DEF CheckName, Fault
<1>1. /\ Elsewhere /\ phase = "bundle-files" /\ at' = 1
      /\ UNCHANGED <<manifest, toolchain, outputs>>
  BY DEF WalkBundle
<1>2. PICK bytes \in DOMAIN Manifest :
        /\ manifest = {bytes} /\ Holding(SelfPath) = {bytes}
        /\ ManifestValid(Manifest[bytes]) /\ Parsed = {Manifest[bytes]}
  BY <1>1, ReadIsParsed DEF AfterManifest, AfterAnchor, AfterDescriptor
<1> DEFINE m == Manifest[bytes]
<1>3. at > Len(m.files)  BY <1>2 DEF WalkBundle
<1>4. CASE ~NothingUnlisted(m) /\ Refuse("bundle-files", "BUNDLE_FILE_INVALID")
  <2>1. ~Sound("bundle-files", m)  BY <1>2, <1>4, SoundIsWalked
  <2>   QED  BY <2>1, <1>1, <1>2, <1>4, Refusing
<1>5. CASE NothingUnlisted(m) /\ Pass("bundle-files", "engine-executable")
  <2>1. AllFilesKnown /\ KnownTree  BY <1>2, <1>3, <1>5, WalkKnows
  <2>2. anchor = {bytes}
    BY <1>1, <1>2 DEF DoctorKnows, KnownAnchor, AfterAnchor, AfterDescriptor
  <2>3. \A p \in Inside : AsListed(m, p)
    BY <2>1, <2>2, <1>2, HoldsAsListed DEF Found
  <2>4. ASSUME NEW i \in 1 .. Len(m.files)
        PROVE  /\ root \o m.files[i].path \in Path
               /\ m.files[i].size = Size[m.files[i].content]
    <3>1. /\ m.files \in Seq([path: Seq(Name) \ {<<>>}, content: Content, size: Nat])
          /\ at \in Nat
      BY ManifestAssumption DEF DoctorTypes, DoctorTypeOK
    <3>2. i < at  BY <3>1, <1>3
    <3>3. Intact(m.files[i])  BY <3>2, <1>1, <1>2 DEF Found, IntactBefore
    <3>4. Here(m.files[i].path) # {}  BY <3>3 DEF Intact
    <3>   QED  BY <3>3, <3>4 DEF Intact, Here, At
  <2>5. Sound("bundle-files", m)  BY <2>3, <2>4, FilesAreSound
  <2>6. touched' = {} /\ Judged(checks)' /\ phase' = "engine-executable"
    BY <2>5, <1>1, <1>2, <1>5, Passing
  <2>7. DescriptorRead'
    BY <1>1 DEF Found, AfterDescriptor, DescriptorRead, Elsewhere, diskVars
  <2>8. outputs' = <<>>  BY <1>1 DEF Found
  <2>   QED  BY <2>6, <2>7, <2>8, <1>1 DEF Found
<1> QED  BY <1>2, <1>4, <1>5 DEF WalkBundle

LEMMA CheckEngineFinds ==
  ASSUME DoctorTypes, DoctorKnows, Found, CheckEngine
  PROVE  Found'
<1> USE DEF CheckName, Fault
<1>1. /\ Elsewhere /\ phase = "engine-executable"
      /\ UNCHANGED <<manifest, toolchain, at, outputs>>
  BY DEF CheckEngine
<1>2. PICK bytes \in DOMAIN Manifest :
        /\ manifest = {bytes} /\ Parsed = {Manifest[bytes]}
        /\ ManifestValid(Manifest[bytes])
  BY <1>1, ReadIsParsed DEF AfterManifest, AfterAnchor, AfterDescriptor, AfterFiles
<1> DEFINE m == Manifest[bytes]
           ran    == Passed("engine-executable")
           wrong  == Failed("engine-version", "ENGINE_VERSION_MISMATCH")
           proper == Passed("engine-version")
<1>3. PICK engine \in build :
        \/ /\ ~engine.wellFormed
           /\ Refuse("engine-executable", "ENGINE_EXECUTABLE_INVALID")
        \/ /\ engine.wellFormed /\ engine.identity # m.engine.identity
           /\ checks' = checks \o <<ran, wrong>> /\ phase' = "report"
        \/ /\ engine.wellFormed /\ engine.identity = m.engine.identity
           /\ checks' = checks \o <<ran, proper>> /\ phase' = "tool-executables"
  BY <1>2 DEF CheckEngine
<1>4. build = {engine}  BY OptionIsOne DEF DoctorTypes, DoctorTypeOK
<1>5. /\ Sound("engine-executable", m) <=> engine.wellFormed
      /\ Sound("engine-version", m) <=> engine.identity = m.engine.identity
  BY <1>4 DEF Sound
<1>6. ran \in Check /\ wrong \in Check /\ proper \in Check  BY ChecksHaveTypes
<1>7. CASE ~engine.wellFormed /\ Refuse("engine-executable", "ENGINE_EXECUTABLE_INVALID")
  BY <1>1, <1>2, <1>5, <1>7, Refusing
<1>8. CASE /\ engine.wellFormed /\ engine.identity # m.engine.identity
           /\ checks' = checks \o <<ran, wrong>> /\ phase' = "report"
  <2>1. Right(ran, m) /\ Right(wrong, m)
    BY <1>5, <1>8 DEF Right, Passed, Failed
  <2>2. wrong.code # {}  BY DEF Failed
  <2> HIDE DEF ran, wrong
  <2>3. /\ touched' = {} /\ Judged(checks)'
        /\ Len(checks') > 0 /\ checks'[Len(checks')] = wrong
    BY <2>1, <1>1, <1>2, <1>6, <1>8, LookingTwice
  <2>   QED  BY <2>2, <2>3, <1>8 DEF Found, AfterDescriptor, AfterFiles
<1>9. CASE /\ engine.wellFormed /\ engine.identity = m.engine.identity
           /\ checks' = checks \o <<ran, proper>> /\ phase' = "tool-executables"
  <2>1. Right(ran, m) /\ Right(proper, m)
    BY <1>5, <1>9 DEF Right, Passed
  <2> HIDE DEF ran, proper
  <2>2. touched' = {} /\ Judged(checks)'
    BY <2>1, <1>1, <1>2, <1>6, <1>9, LookingTwice
  <2>3. DescriptorRead'
    BY <1>1 DEF Found, AfterDescriptor, AfterFiles, DescriptorRead, Elsewhere, diskVars
  <2>4. at' = 1 /\ outputs' = <<>>  BY <1>1 DEF Found
  <2>5. StartedBefore(at)'
    <3>1. Len(m.tools) = 2 /\ Len(<<>>) = 0  BY <1>2 DEF ManifestValid
    <3>2. manifest' = {bytes}  BY <1>1, <1>2
    <3>   QED  BY <3>1, <3>2, <2>4 DEF StartedBefore
  <2>   QED  BY <2>2, <2>3, <2>5, <1>9 DEF Found
<1> QED  BY <1>3, <1>7, <1>8, <1>9

LEMMA StartToolFinds ==
  ASSUME DoctorTypes, DoctorKnows, Found, StartTool
  PROVE  Found'
<1> USE DEF CheckName, Fault
<1>1. /\ Elsewhere /\ phase = "tool-executables"
      /\ UNCHANGED <<manifest, toolchain>>
  BY DEF StartTool
<1>2. PICK bytes \in DOMAIN Manifest :
        /\ manifest = {bytes} /\ Parsed = {Manifest[bytes]}
        /\ ManifestValid(Manifest[bytes])
  BY <1>1, ReadIsParsed DEF AfterManifest, AfterAnchor, AfterDescriptor, AfterFiles
<1> DEFINE m     == Manifest[bytes]
           tools == m.tools
<1>3. /\ at \in 1 .. 2 /\ Len(tools) = 2
  <2>1. Len(tools) = 2      BY <1>2 DEF ManifestValid
  <2>2. at <= Len(tools)    BY <1>2 DEF StartTool
  <2>3. at \in Nat \ {0}    BY DEF DoctorTypes, DoctorTypeOK
  <2>   QED  BY <2>1, <2>2, <2>3
<1>4. CASE /\ \A file \in Here(tools[at].path) : file.content \notin DOMAIN Output
           /\ Refuse("tool-executables", "TOOL_EXECUTABLE_INVALID")
  <2>1. ~Sound("tool-executables", m)  BY <1>3, <1>4 DEF Sound
  <2>   QED  BY <2>1, <1>1, <1>2, <1>4, Refusing
<1>5. ASSUME NEW file \in Here(tools[at].path), file.content \in DOMAIN Output,
             outputs' = Append(outputs, Output[file.content]), at' = at + 1,
             UNCHANGED <<checks, phase>>
      PROVE  Found'
  <2>1. touched' = {} /\ Judged(checks)'  BY <1>1, <1>5, Going
  <2>2. DescriptorRead'
    BY <1>1 DEF Found, AfterDescriptor, AfterFiles, DescriptorRead, Elsewhere, diskVars
  <2>3. StartedBefore(at)'
    <3>1. /\ Len(outputs) = at - 1
          /\ \A i \in 1 .. at - 1 : \E f \in Here(tools[i].path) :
               f.content \in DOMAIN Output /\ outputs[i] = Output[f.content]
      BY <1>1, <1>2 DEF Found, StartedBefore
    <3>2. outputs \in Seq({Output[c] : c \in DOMAIN Output})
      BY DEF DoctorTypes, DoctorTypeOK
    <3> DEFINE out == Output[file.content]
    <3>3. out \in {Output[c] : c \in DOMAIN Output}  BY <1>5
    <3> HIDE DEF out
    <3>4. /\ Len(outputs') = at /\ outputs'[at] = out
          /\ \A i \in 1 .. at - 1 : outputs'[i] = outputs[i]
      <4>1. Len(outputs) \in Nat /\ at = Len(outputs) + 1  BY <3>1, <1>3, <3>2
      <4>2. outputs' = Append(outputs, out)  BY <1>5 DEF out
      <4>   QED  BY <4>1, <4>2, <3>2, <3>3, AppendProperties
    <3>5. ASSUME NEW i \in 1 .. at
          PROVE  \E f \in Here(tools[i].path) :
                   f.content \in DOMAIN Output /\ outputs'[i] = Output[f.content]
      <4>1. CASE i \in 1 .. at - 1  BY <4>1, <3>1, <3>4
      <4>2. CASE i = at             BY <4>2, <3>4, <1>5 DEF out
      <4>   QED  BY <4>1, <4>2, <1>3
    <3>6. at' - 1 = at /\ at' <= Len(tools) + 1  BY <1>3, <1>5
    <3>   QED
      BY <3>4, <3>5, <3>6, <1>1, <1>2
      DEF StartedBefore, Here, Elsewhere, diskVars
  <2>   QED  BY <2>1, <2>2, <2>3, <1>1, <1>5 DEF Found
<1> QED  BY <1>2, <1>4, <1>5 DEF StartTool

LEMMA CheckVersionsFinds ==
  ASSUME DoctorTypes, DoctorKnows, Found, CheckVersions
  PROVE  Found'
<1> USE DEF CheckName, Fault
<1>1. /\ Elsewhere /\ phase = "tool-executables"
      /\ UNCHANGED <<manifest, toolchain>>
  BY DEF CheckVersions
<1>2. PICK bytes \in DOMAIN Manifest :
        /\ manifest = {bytes} /\ Parsed = {Manifest[bytes]}
        /\ ManifestValid(Manifest[bytes])
  BY <1>1, ReadIsParsed DEF AfterManifest, AfterAnchor, AfterDescriptor, AfterFiles
<1> DEFINE m       == Manifest[bytes]
           tools   == m.tools
           reports == \A i \in 1 .. Len(tools) : tools[i].version \in outputs[i]
           started == Passed("tool-executables")
           wrong   == Failed("tool-versions", "TOOL_VERSION_MISMATCH")
           proper  == Passed("tool-versions")
<1>3. /\ Len(tools) = 2 /\ at - 1 = 2
      /\ \A i \in 1 .. 2 : \E file \in Here(tools[i].path) :
           file.content \in DOMAIN Output /\ outputs[i] = Output[file.content]
  <2>1. Len(tools) = 2  BY <1>2 DEF ManifestValid
  <2>2. at \in Nat      BY DEF DoctorTypes, DoctorTypeOK
  <2>3. at > Len(tools) /\ at <= Len(tools) + 1
    BY <1>1, <1>2 DEF CheckVersions, Found, StartedBefore
  <2>4. at - 1 = 2  BY <2>1, <2>2, <2>3
  <2>5. \A i \in 1 .. at - 1 : \E file \in Here(tools[i].path) :
          file.content \in DOMAIN Output /\ outputs[i] = Output[file.content]
    BY <1>1, <1>2 DEF Found, StartedBefore
  <2>   QED  BY <2>1, <2>4, <2>5
<1>4. \A i \in 1 .. 2 : \A file, other \in Here(tools[i].path) : file = other
  <2>1. \A i \in 1 .. 2 : Here(tools[i].path) \in Option(File)
    BY AtType DEF Here, DoctorTypes, DoctorTypeOK
  <2>   QED  BY <2>1 DEF Option
<1>5. Sound("tool-executables", m)  BY <1>3 DEF Sound
<1>6. Sound("tool-versions", m) <=> reports
  <2>1. \A i \in 1 .. 2 :
          (\E file \in Here(tools[i].path) : tools[i].version \in Output[file.content])
            <=> tools[i].version \in outputs[i]
    BY <1>3, <1>4
  <2>   QED  BY <2>1, <1>3 DEF Sound
<1>7. started \in Check /\ wrong \in Check /\ proper \in Check  BY ChecksHaveTypes
<1>8. Right(started, m)  BY <1>5 DEF Right, Passed
<1>9. CASE ~reports /\ checks' = checks \o <<started, wrong>> /\ phase' = "report"
  <2>1. Right(wrong, m)  BY <1>6, <1>9 DEF Right, Failed
  <2>2. wrong.code # {}  BY DEF Failed
  <2> HIDE DEF started, wrong
  <2>3. /\ touched' = {} /\ Judged(checks)'
        /\ Len(checks') > 0 /\ checks'[Len(checks')] = wrong
    BY <2>1, <1>1, <1>2, <1>7, <1>8, <1>9, LookingTwice
  <2>   QED  BY <2>2, <2>3, <1>9 DEF Found, AfterDescriptor, AfterFiles
<1>10. CASE reports /\ checks' = checks \o <<started, proper>> /\ phase' = "capabilities"
  <2>1. Right(proper, m)  BY <1>6, <1>10 DEF Right, Passed
  <2> HIDE DEF started, proper
  <2>2. touched' = {} /\ Judged(checks)'
    BY <2>1, <1>1, <1>2, <1>7, <1>8, <1>10, LookingTwice
  <2>3. DescriptorRead'
    BY <1>1 DEF Found, AfterDescriptor, AfterFiles, DescriptorRead, Elsewhere, diskVars
  <2>   QED  BY <2>2, <2>3, <1>10 DEF Found
<1> QED  BY <1>2, <1>9, <1>10 DEF CheckVersions

LEMMA CheckCapabilitiesFinds ==
  ASSUME DoctorTypes, DoctorKnows, Found, CheckCapabilities
  PROVE  Found'
<1> USE DEF CheckName, Fault
<1>1. /\ Elsewhere /\ phase = "capabilities"
      /\ UNCHANGED <<manifest, toolchain>>
  BY DEF CheckCapabilities
<1>2. PICK bytes \in DOMAIN Manifest :
        /\ manifest = {bytes} /\ Parsed = {Manifest[bytes]}
  BY <1>1, ReadIsParsed DEF AfterManifest, AfterAnchor, AfterDescriptor, AfterFiles
<1> DEFINE m     == Manifest[bytes]
           found == Here(m.capabilitiesRef)
<1>3. /\ toolchain = {m.fingerprint}
      /\ toolchain = ReadDescriptor(disk, root \o m.descriptorRef)
  BY <1>1, <1>2
  DEF DoctorKnows, KnownDescriptor, Found, DescriptorRead, AfterDescriptor, AfterFiles
<1>4. Sound("capabilities", m) <=> \E file \in found : GoodCapabilities(file.content)
  BY <1>3 DEF Sound, GoodCapabilities
<1>5. CASE /\ \A file \in found : ~GoodCapabilities(file.content)
           /\ Refuse("capabilities", "CAPABILITIES_INVALID")
  BY <1>1, <1>2, <1>4, <1>5, Refusing
<1>6. CASE /\ \E file \in found : GoodCapabilities(file.content)
           /\ Pass("capabilities", "temp-dir")
  <2>1. touched' = {} /\ Judged(checks)' /\ phase' = "temp-dir"
    BY <1>1, <1>2, <1>4, <1>6, Passing
  <2>2. DescriptorRead'
    BY <1>1 DEF Found, AfterDescriptor, AfterFiles, DescriptorRead, Elsewhere, diskVars
  <2>   QED  BY <2>1, <2>2 DEF Found
<1> QED  BY <1>2, <1>5, <1>6 DEF CheckCapabilities

LEMMA CheckTempDirFinds ==
  ASSUME DoctorTypes, DoctorKnows, Found, CheckTempDir
  PROVE  Found'
<1> USE DEF CheckName, Fault
<1>1. Elsewhere /\ phase = "temp-dir"  BY DEF CheckTempDir
<1>2. Parsed # {}
  BY <1>1, ReadIsParsed DEF AfterManifest, AfterAnchor, AfterDescriptor, AfterFiles
<1>3. CASE Refuse("temp-dir", "TEMP_DIR_UNAVAILABLE")
  BY <1>1, <1>3, Refusing
<1>4. CASE Pass("temp-dir", "report")
  <2>1. touched' = {} /\ Judged(checks)' /\ phase' = "report"
    BY <1>1, <1>2, <1>4, Passing
  <2>2. Len(checks) = 9 /\ checks \in Seq(Check)
    BY <1>1, CountAt DEF DoctorTypes, DoctorTypeOK
  <2>3. Len(checks') = 10
    <3>1. 9 \in 0 .. 9 /\ 9 + 1 = 10  OBVIOUS
    <3>   QED  BY <2>2, <3>1, <1>4, PassTypes
  <2>   QED  BY <2>1, <2>3 DEF Found, AfterDescriptor, AfterFiles
<1> QED  BY <1>3, <1>4 DEF CheckTempDir

\* At rest, each step of the doctor leaves it with the truth about the bundle.
LEMMA DoctorStepFinds ==
  ASSUME DoctorTypes, DoctorKnows, DoctorFinds, phase \in DoctorPhase, DoctorStep
  PROVE  DoctorFinds'
<1>1. CASE PrintReport
  <2>1. phase' = "idle" /\ "idle" \notin DoctorPhase
    BY <1>1, PhaseNames DEF PrintReport, Checking
  <2>   QED  BY <2>1 DEF DoctorFinds
<1>2. CASE ~PrintReport
  <2>1. Elsewhere
    BY <1>2 DEF DoctorStep, ReadManifest, CheckAnchor, CheckDescriptor, InspectFile,
       HashFile, WalkBundle, CheckEngine, StartTool, CheckVersions,
       CheckCapabilities, CheckTempDir
  <2>2. calm' = calm  BY <2>1 DEF Elsewhere, diskVars
  <2>3. Found => Found'
    BY <1>2, ReadManifestFinds, CheckAnchorFinds, CheckDescriptorFinds,
       InspectFileFinds, HashFileFinds, WalkBundleFinds, CheckEngineFinds,
       StartToolFinds, CheckVersionsFinds, CheckCapabilitiesFinds, CheckTempDirFinds
    DEF DoctorStep
  <2>   QED  BY <2>2, <2>3 DEF DoctorFinds
<1> QED  BY <1>1, <1>2

LEMMA StartDoctorFinds ==
  ASSUME StartDoctor
  PROVE  DoctorFinds'
<1>1. /\ phase' = "package-manifest" /\ touched' = {} /\ checks' = <<>>
      /\ outputs' = <<>>
  BY DEF StartDoctor, Begin
<1>2. Len(<<>>) = 0  OBVIOUS
<1>3. Judged(checks)'  BY <1>1, <1>2 DEF Judged
<1> QED  BY <1>1, <1>3 DEF DoctorFinds, Found, AfterDescriptor, AfterFiles

LEMMA FoundStays ==
  ASSUME DoctorFinds, UNCHANGED vars
  PROVE  DoctorFinds'
<1>1. /\ Elsewhere /\ UNCHANGED <<manifest, toolchain, at, outputs, checks>>
      /\ UNCHANGED <<calm, phase>>
  BY DEF vars, diskVars, doctorVars, Elsewhere
<1>2. ASSUME Found PROVE Found'
  <2>1. touched' = {} /\ Judged(checks)'  BY <1>1, <1>2, Going
  <2>2. /\ DescriptorRead => DescriptorRead'
        /\ IntactBefore(at) => IntactBefore(at)'
        /\ NextIsSized => NextIsSized'
        /\ StartedBefore(at) => StartedBefore(at)'
    BY <1>1 DEF DescriptorRead, IntactBefore, Intact, NextIsSized, Sized,
       StartedBefore, Here, Elsewhere, diskVars
  <2>   QED  BY <2>1, <2>2, <1>1, <1>2 DEF Found
<1> QED  BY <1>1, <1>2 DEF DoctorFinds

\* What the doctor has found at rest, when it is about to report, is exact.
LEMMA FoundIsExact ==
  ASSUME DoctorFinds
  PROVE  DoctorIsExact
<1> SUFFICES ASSUME phase = "report", calm PROVE DoctorIsExact
  BY DEF DoctorIsExact
<1>1. Found  BY PhaseNames DEF DoctorFinds
<1>2. /\ Len(checks) > 0 /\ (checks[Len(checks)].code = {} => Len(checks) = 10)
      /\ Judged(checks)
  BY <1>1 DEF Found
<1> QED  BY <1>2 DEF DoctorIsExact, Judged, Right, Parsed

=============================================================================
