-------------------------- MODULE ExtractionProofs --------------------------
(***************************************************************************)
(* Extraction, for all requests, media, tool outputs and faults: what lies *)
(* in output/ is complete, a successful manifest lists exactly that, and a *)
(* published track stays in its window.                                    *)
(***************************************************************************)
EXTENDS Extraction, TLAPS, SequenceTheorems, WellFoundedInduction

\* What is left to do never names a slot twice.
Todo == {<<>>, <<"opening">>, <<"opening", "midpoint">>, <<"midpoint">>,
         <<"extract">>}

Members(seq) == {seq[i] : i \in DOMAIN seq}

Listed == {artifacts[i].slot : i \in DOMAIN artifacts}

Label == {"plan", "prepare", "tool", "rename", "inspect", "list", "done"}
Result == {"pending", "ok", "killed"} \union ErrorCode

Types ==
  /\ job \in Jobs
  /\ pc \in Label /\ result \in Result
  /\ pc = "done" <=> result # "pending"
  /\ tmp \in [Slot -> File] /\ out \in [Slot -> File]
  /\ todo \in Todo
  /\ artifacts \in Seq(Members(artifacts))
  /\ \A i \in DOMAIN artifacts : /\ artifacts[i].slot \in Slot
                                 /\ artifacts[i].content \in Contents
  /\ Members(todo) \intersect Listed = {}

\* Where the backend is says what it is working on, and that the file it is
\* about to publish, or has published, is complete.
Progress ==
  /\ pc \in {"tool", "rename", "inspect", "list"} => todo # <<>>
  /\ pc = "rename" => tmp[slot] # {} /\ \A c \in tmp[slot] : c.whole
  /\ pc \in {"inspect", "list"} => out[slot] # {}
  /\ pc = "plan" => todo = <<>> /\ artifacts = <<>>

\* A listed file is the one that was hashed; any other file in output/ is the
\* one at hand.
Published ==
  /\ \A i \in DOMAIN artifacts : out[artifacts[i].slot] = {artifacts[i].content}
  /\ pc # "done" \/ result = "ok" =>
       \A s \in Slot \ Listed :
         out[s] # {} => pc \in {"inspect", "list"} /\ s = slot

\* A track that is listed, or is about to be, was accepted by the continuity
\* guard.
Accepted ==
  /\ pc = "list" /\ slot = "extract" => ~Rejected(published.samples)
  /\ \A i \in DOMAIN artifacts :
       artifacts[i].slot = "extract" =>
         /\ ~Rejected(artifacts[i].content.samples)
         /\ artifacts[i].presented = {ActualStart(job.options, Start(job))}
  /\ result = "ok" => ManifestValid(artifacts)

IInv == Types /\ Progress /\ Published /\ OutputIsNeverPartial /\ Accepted

-----------------------------------------------------------------------------
(* The slots that are left.                                                *)

LEMMA TodoFacts ==
  ASSUME todo \in Todo, todo # <<>>
  PROVE  /\ slot \in Slot
         /\ Tail(todo) \in Todo
         /\ Members(todo) = {slot} \union Members(Tail(todo))
         /\ slot \notin Members(Tail(todo))
  <1>1. CASE todo = <<"opening">>
    <2>1. slot = "opening" /\ Tail(todo) = <<>>
      BY <1>1 DEF slot
    <2>2. Members(todo) = {"opening"} /\ Members(Tail(todo)) = {}
      BY <1>1, <2>1 DEF Members
    <2>3. QED
      BY <2>1, <2>2 DEF Slot, Todo
  <1>2. CASE todo = <<"opening", "midpoint">>
    <2>1. slot = "opening" /\ Tail(todo) = <<"midpoint">>
      BY <1>2 DEF slot
    <2>2. Members(todo) = {"opening", "midpoint"}
          /\ Members(Tail(todo)) = {"midpoint"}
      BY <1>2, <2>1 DEF Members
    <2>3. QED
      BY <2>1, <2>2 DEF Slot, Todo
  <1>3. CASE todo = <<"midpoint">>
    <2>1. slot = "midpoint" /\ Tail(todo) = <<>>
      BY <1>3 DEF slot
    <2>2. Members(todo) = {"midpoint"} /\ Members(Tail(todo)) = {}
      BY <1>3, <2>1 DEF Members
    <2>3. QED
      BY <2>1, <2>2 DEF Slot, Todo
  <1>4. CASE todo = <<"extract">>
    <2>1. slot = "extract" /\ Tail(todo) = <<>>
      BY <1>4 DEF slot
    <2>2. Members(todo) = {"extract"} /\ Members(Tail(todo)) = {}
      BY <1>4, <2>1 DEF Members
    <2>3. QED
      BY <2>1, <2>2 DEF Slot, Todo
  <1>5. QED
    BY <1>1, <1>2, <1>3, <1>4 DEF Todo

\* Appending an entry.
LEMMA AppendFacts ==
  ASSUME NEW s, NEW e, s \in Seq(Members(s))
  PROVE  /\ Append(s, e) \in Seq(Members(Append(s, e)))
         /\ DOMAIN Append(s, e) = DOMAIN s \union {Len(s) + 1}
         /\ Append(s, e)[Len(s) + 1] = e
         /\ \A i \in DOMAIN s : Append(s, e)[i] = s[i]
  <1> DEFINE S == Members(s) \union {e}
  <1>1. s \in Seq(S) /\ e \in S
    OBVIOUS
  <1> HIDE DEF S
  <1>2. /\ Append(s, e) \in Seq(S)
        /\ Len(Append(s, e)) = Len(s) + 1 /\ Len(s) \in Nat
        /\ DOMAIN Append(s, e) = 1 .. Len(s) + 1 /\ DOMAIN s = 1 .. Len(s)
        /\ Append(s, e)[Len(s) + 1] = e
        /\ \A i \in 1 .. Len(s) : Append(s, e)[i] = s[i]
    BY <1>1
  <1> DEFINE A == Append(s, e)
  <1>3. \A i \in 1 .. Len(A) : A[i] \in Members(A)
    BY <1>2 DEF Members
  <1>4. A \in Seq(S)
    BY <1>2
  <1> HIDE DEF A
  <1>5. A \in Seq(Members(A))
    <2>1. A \in [1 .. Len(A) -> S] /\ Len(A) \in Nat
      BY <1>4, LenProperties
    <2>2. A \in [1 .. Len(A) -> Members(A)]
      BY <2>1, <1>3
    <2>3. QED
      BY <2>1, <2>2, SeqDef
  <1>6. QED
    BY <1>2, <1>5 DEF A

-----------------------------------------------------------------------------
(* The invariant is inductive.                                             *)

\* The request is fixed, and so is what the continuity guard accepts.
LEMMA RequestIsFixed ==
  ASSUME job' = job
  PROVE  /\ \A n : Rejected(n)' <=> Rejected(n)
         /\ ActualStart(job.options, Start(job))'
              = ActualStart(job.options, Start(job))
  BY DEF Rejected, rate

\* A tool leaves a file, or none.
LEMMA LeftoverIsFile ==
  /\ Leftover \subseteq File
  /\ \A c \in Contents : {c} \in File
  /\ {} \in File
  /\ \A file \in File : AfterRemoval(file) \subseteq File
  BY DEF Leftover, File, AfterRemoval

LEMMA WritesFile ==
  ASSUME Types, todo # <<>>, NEW file \in File, Writes(file)
  PROVE  tmp' \in [Slot -> File] /\ tmp'[slot] = file
  BY TodoFacts DEF Types, Writes

LEMMA InitIInv == Init => IInv
  <1> SUFFICES ASSUME Init PROVE IInv
    OBVIOUS
  <1>1. Types
    BY LeftoverIsFile DEF Init, Types, Label, Result, Todo, Members, Listed
  <1>2. QED
    BY <1>1 DEF Init, IInv, Progress, Published, OutputIsNeverPartial, Accepted

\* The backend gives up, or is killed, and leaves output/ as it is.
LEMMA Failing ==
  ASSUME IInv, pc # "done", UNCHANGED <<job, todo, out, artifacts>>,
         tmp' \in [Slot -> File],
         NEW code \in {"killed"} \union ErrorCode, Fail(code)
  PROVE  IInv'
  <1>1. pc' = "done" /\ result' = code /\ code \in Result
        /\ code # "pending" /\ code # "ok"
    BY DEF Fail, Result, ErrorCode
  <1>2. Types'
    BY <1>1 DEF IInv, Types, Label, Listed
  <1>3. Progress' /\ Published' /\ OutputIsNeverPartial'
    BY <1>1 DEF IInv, Progress, Published, OutputIsNeverPartial
  <1>4. Accepted'
    BY <1>1, RequestIsFixed DEF IInv, Accepted
  <1>5. QED
    BY <1>2, <1>3, <1>4 DEF IInv

\* The backend moves on without touching output/ or the list.
LEMMA Moving ==
  ASSUME IInv, NEW label \in Label \ {"done", "plan", "inspect", "list"},
         pc # "done", pc \notin {"inspect", "list"}, GoTo(label),
         UNCHANGED <<job, out, artifacts>>,
         tmp' \in [Slot -> File], todo' \in Todo,
         Members(todo') \intersect Listed = {},
         label \in {"tool", "rename"} => todo' # <<>>,
         label = "rename" => tmp'[slot'] # {} /\ \A c \in tmp'[slot'] : c.whole
  PROVE  IInv'
  <1>1. pc' = label /\ result' = result /\ result = "pending"
    BY DEF GoTo, IInv, Types
  <1>2. Types'
    BY <1>1 DEF IInv, Types, Label, Listed
  <1>3. Progress'
    BY <1>1 DEF Progress, Label
  <1>4. Published'
    BY <1>1 DEF IInv, Published, Listed, Label
  <1>5. OutputIsNeverPartial'
    BY DEF IInv, OutputIsNeverPartial
  <1>6. Accepted'
    BY <1>1, RequestIsFixed DEF IInv, Accepted, Label
  <1>7. QED
    BY <1>2, <1>3, <1>4, <1>5, <1>6 DEF IInv

LEMMA PlanKeeps ==
  ASSUME IInv, PlanPreview \/ PlanAudio
  PROVE  IInv'
  <1>1. /\ pc = "plan" /\ artifacts = <<>> /\ Listed = {}
        /\ tmp \in [Slot -> File] /\ UNCHANGED <<job, tmp, out, artifacts>>
    BY DEF IInv, Types, Progress, Listed, PlanPreview, PlanAudio, files
  <1>2. CASE UNCHANGED todo /\ \E code \in ErrorCode : Fail(code)
    BY <1>1, <1>2, Failing
  <1>3. CASE todo' \in Todo /\ GoTo("prepare")
    BY <1>1, <1>3, Moving DEF Label
  <1>4. QED
    BY <1>2, <1>3 DEF PlanPreview, PlanAudio, ErrorCode, Todo

LEMMA PrepareKeeps ==
  ASSUME IInv, Prepare
  PROVE  IInv'
  <1>1. /\ pc = "prepare" /\ todo # <<>>
        /\ todo \in Todo /\ Members(todo) \intersect Listed = {}
        /\ tmp \in [Slot -> File] /\ UNCHANGED <<job, todo, tmp, out, artifacts>>
    BY DEF IInv, Types, Prepare, files
  <1>2. CASE \E code \in ErrorCode : Fail(code)
    BY <1>1, <1>2, Failing
  <1>3. CASE GoTo("tool")
    BY <1>1, <1>3, Moving DEF Label
  <1>4. QED
    BY <1>2, <1>3 DEF Prepare, ErrorCode

\* A midpoint is given up: nothing of it is published or listed.
LEMMA Skipping ==
  ASSUME IInv, pc = "tool", UNCHANGED <<job, out, artifacts>>,
         NEW file \in File, Skip(file)
  PROVE  IInv'
  <1>1. todo # <<>> /\ todo \in Todo /\ Types
        /\ Members(todo) \intersect Listed = {}
    BY DEF IInv, Types, Progress
  <1>2. tmp' \in [Slot -> File]
    BY <1>1, LeftoverIsFile, WritesFile DEF Skip
  <1>3. todo' \in Todo /\ Members(todo') \intersect Listed = {}
    BY <1>1, TodoFacts DEF Skip
  <1>4. QED
    BY <1>2, <1>3, Moving DEF Skip, Label

LEMMA ToolKeeps ==
  ASSUME IInv, ToolStops \/ ToolFails \/ ToolWritesNothing \/ ToolSucceeds
  PROVE  IInv'
  <1>1. /\ pc = "tool" /\ todo # <<>> /\ Types /\ todo \in Todo
        /\ Members(todo) \intersect Listed = {}
        /\ tmp \in [Slot -> File]
        /\ UNCHANGED <<job, out, artifacts>>
    BY DEF IInv, Types, Progress, ToolStops, ToolFails, ToolWritesNothing,
       ToolSucceeds
  <1>2. CASE /\ UNCHANGED todo
             /\ UNCHANGED tmp \/ \E file \in File : Writes(file)
             /\ \E code \in ErrorCode : Fail(code)
    <2>1. tmp' \in [Slot -> File]
      BY <1>1, <1>2, WritesFile
    <2>2. QED
      BY <1>1, <1>2, <2>1, Failing
  <1>3. CASE \E file \in File : Skip(file)
    BY <1>1, <1>3, Skipping
  <1>4. ASSUME NEW c \in Contents, c.whole, Writes({c}), UNCHANGED todo,
               GoTo("rename")
        PROVE  IInv'
    <2>1. tmp' \in [Slot -> File] /\ tmp'[slot] = {c}
      BY <1>1, <1>4, LeftoverIsFile, WritesFile
    <2>2. slot' = slot
      BY <1>4 DEF slot
    <2>3. QED
      BY <1>1, <1>4, <2>1, <2>2, Moving DEF Label
  <1>5. QED
    <2>1. ToolStops => IInv'
      BY <1>2, LeftoverIsFile DEF ToolStops, ErrorCode
    <2>2. ToolFails => IInv'
      BY <1>2, <1>3, LeftoverIsFile DEF ToolFails, ErrorCode
    <2>3. ToolWritesNothing => IInv'
      BY <1>2, <1>3, LeftoverIsFile DEF ToolWritesNothing, ErrorCode
    <2>4. ToolSucceeds => IInv'
      BY <1>2, <1>4, LeftoverIsFile DEF ToolSucceeds, ErrorCode
    <2>5. QED
      BY <2>1, <2>2, <2>3, <2>4

\* The file at hand is not one of those listed.
LEMMA AtHand ==
  ASSUME IInv, todo # <<>>
  PROVE  /\ slot \in Slot /\ slot \notin Listed
         /\ \A i \in DOMAIN artifacts : artifacts[i].slot # slot
  BY TodoFacts DEF IInv, Types, Listed

LEMMA PublishKeeps ==
  ASSUME IInv, Publish
  PROVE  IInv'
  <1>1. /\ pc = "rename" /\ todo # <<>> /\ UNCHANGED <<job, todo, artifacts>>
        /\ Types /\ Published /\ result = "pending"
        /\ tmp \in [Slot -> File] /\ out \in [Slot -> File]
        /\ tmp[slot] # {} /\ \A c \in tmp[slot] : c.whole
    BY DEF IInv, Types, Progress, Publish
  <1>2. CASE Fail("ENGINE_INTERNAL") /\ UNCHANGED files
    BY <1>1, <1>2, Failing DEF ErrorCode, files
  <1>3. CASE /\ out' = [out EXCEPT ![slot] = tmp[slot]]
             /\ tmp' = [tmp EXCEPT ![slot] = {}]
             /\ GoTo("inspect")
    <2>1. /\ slot \in Slot /\ slot' = slot /\ Listed' = Listed
          /\ pc' = "inspect" /\ result' = "pending"
          /\ out'[slot] = tmp[slot] /\ \A s \in Slot \ {slot} : out'[s] = out[s]
      BY <1>1, <1>3, AtHand DEF GoTo, slot, Listed
    <2>2. Types'
      BY <1>1, <1>3, <2>1, LeftoverIsFile DEF Types, Label
    <2>3. Progress'
      BY <1>1, <2>1 DEF Progress
    <2>4. Published'
      BY <1>1, <2>1, AtHand DEF Types, Published
    <2>5. OutputIsNeverPartial'
      BY <1>1, <2>1 DEF IInv, OutputIsNeverPartial
    <2>6. Accepted'
      BY <1>1, <2>1, RequestIsFixed DEF IInv, Accepted
    <2>7. QED
      BY <2>2, <2>3, <2>4, <2>5, <2>6 DEF IInv
  <1>4. QED
    BY <1>2, <1>3 DEF Publish

\* The file at hand, as it is read back.
LEMMA PublishedContent ==
  ASSUME IInv, pc \in {"inspect", "list"}
  PROVE  out[slot] = {published} /\ published \in Contents
  <1>1. out[slot] \in File /\ out[slot] # {}
    BY AtHand DEF IInv, Types, Progress
  <1>2. PICK c \in Contents : out[slot] = {c}
    BY <1>1 DEF File
  <1>3. published = c
    BY <1>2 DEF published, Or
  <1>4. QED
    BY <1>2, <1>3

LEMMA InspectKeeps ==
  ASSUME IInv, InspectFrame \/ InspectTrack
  PROVE  IInv'
  <1>1. /\ pc = "inspect" /\ todo # <<>> /\ UNCHANGED <<job, todo, tmp, artifacts>>
        /\ Types /\ Published /\ result = "pending"
        /\ tmp \in [Slot -> File] /\ out \in [Slot -> File]
    BY DEF IInv, Types, Progress, InspectFrame, InspectTrack, files
  <1>2. CASE UNCHANGED out /\ \E code \in ErrorCode : Fail(code)
    BY <1>1, <1>2, Failing
  <1>3. CASE /\ UNCHANGED out /\ GoTo("list")
             /\ slot = "extract" => ~Rejected(published.samples)
    <2>1. /\ slot' = slot /\ Listed' = Listed /\ published' = published
          /\ pc' = "list" /\ result' = "pending"
      BY <1>1, <1>3 DEF GoTo, slot, Listed, published
    <2>2. Types'
      BY <1>1, <1>3, <2>1 DEF Types, Label
    <2>3. Progress' /\ Published' /\ OutputIsNeverPartial'
      BY <1>1, <1>3, <2>1
      DEF IInv, Progress, Published, OutputIsNeverPartial
    <2>4. Accepted'
      BY <1>1, <1>3, <2>1, RequestIsFixed DEF IInv, Accepted
    <2>5. QED
      BY <2>2, <2>3, <2>4 DEF IInv
  <1>4. ASSUME NEW left \in AfterRemoval(out[slot]),
               out' = [out EXCEPT ![slot] = left], Fail("UNSUPPORTED_INPUT")
        PROVE  IInv'
    <2>1. /\ slot \in Slot /\ left \in File /\ left \subseteq out[slot]
          /\ pc' = "done" /\ result' = "UNSUPPORTED_INPUT"
      BY <1>1, <1>4, AtHand, LeftoverIsFile DEF Fail, AfterRemoval
    <2>2. /\ out' \in [Slot -> File]
          /\ \A s \in Slot : out'[s] \subseteq out[s]
          /\ \A s \in Slot \ {slot} : out'[s] = out[s]
      BY <1>1, <1>4, <2>1
    <2>3. Types'
      BY <1>1, <2>1, <2>2 DEF Types, Label, Result, ErrorCode, Listed
    <2>4. Progress' /\ OutputIsNeverPartial'
      BY <1>1, <2>1, <2>2 DEF IInv, Progress, OutputIsNeverPartial
    <2>5. Published'
      BY <1>1, <2>1, <2>2, AtHand DEF Types, Published
    <2>6. Accepted'
      BY <1>1, <2>1, RequestIsFixed DEF IInv, Accepted
    <2>7. QED
      BY <2>3, <2>4, <2>5, <2>6 DEF IInv
  <1>5. QED
    BY <1>2, <1>3, <1>4 DEF InspectFrame, InspectTrack, ErrorCode, files

LEMMA ListKeeps ==
  ASSUME IInv, List
  PROVE  IInv'
  <1>1. /\ pc = "list" /\ todo # <<>> /\ UNCHANGED <<job, tmp, out>>
        /\ todo \in Todo /\ Types /\ Published /\ result = "pending"
        /\ tmp \in [Slot -> File] /\ out \in [Slot -> File]
        /\ artifacts \in Seq(Members(artifacts))
    BY DEF IInv, Types, Progress, List, files
  <1>2. CASE Fail("ENGINE_INTERNAL") /\ UNCHANGED <<todo, artifacts>>
    BY <1>1, <1>2, Failing DEF ErrorCode
  <1>3. CASE /\ artifacts' = Append(artifacts, Entry)
             /\ todo' = Tail(todo) /\ GoTo("prepare")
    <2> DEFINE last == Len(artifacts) + 1
    <2>1. /\ Entry.slot = slot /\ Entry.content = published
          /\ slot = "extract" =>
               Entry.presented = {ActualStart(job.options, Start(job))}
      BY DEF Entry
    <2>2. /\ artifacts' \in Seq(Members(artifacts'))
          /\ DOMAIN artifacts' = DOMAIN artifacts \union {last}
          /\ artifacts'[last] = Entry
          /\ \A i \in DOMAIN artifacts : artifacts'[i] = artifacts[i]
      BY <1>1, <1>3, AppendFacts
    <2> HIDE DEF last
    <2>3. Listed' = Listed \union {slot}
      BY <2>1, <2>2 DEF Listed
    <2>4. /\ todo' \in Todo /\ Members(todo') \intersect Listed' = {}
          /\ pc' = "prepare" /\ result' = "pending"
      BY <1>1, <1>3, <2>3, TodoFacts DEF Types, GoTo
    <2>5. out[slot] = {published} /\ published \in Contents /\ slot \in Slot
      BY <1>1, AtHand, PublishedContent
    <2>6. Types'
      <3>1. \A i \in DOMAIN artifacts' : /\ artifacts'[i].slot \in Slot
                                         /\ artifacts'[i].content \in Contents
        BY <1>1, <2>1, <2>2, <2>5 DEF Types
      <3>2. QED
        BY <1>1, <2>2, <2>4, <3>1 DEF Types, Label
    <2>7. Progress' /\ OutputIsNeverPartial'
      BY <1>1, <2>4 DEF IInv, Progress, OutputIsNeverPartial
    <2>8. Published'
      <3>1. \A i \in DOMAIN artifacts' :
              out'[artifacts'[i].slot] = {artifacts'[i].content}
        BY <1>1, <2>1, <2>2, <2>5 DEF Published
      <3>2. \A s \in Slot \ Listed' : out'[s] = {}
        BY <1>1, <2>3 DEF Published
      <3>3. QED
        BY <3>1, <3>2 DEF Published
    <2>9. Accepted'
      <3>1. slot = "extract" => ~Rejected(published.samples)
        BY <1>1 DEF IInv, Accepted
      <3>2. \A i \in DOMAIN artifacts' :
              artifacts'[i].slot = "extract" =>
                /\ ~Rejected(artifacts'[i].content.samples)
                /\ artifacts'[i].presented
                     = {ActualStart(job.options, Start(job))}
        BY <2>1, <2>2, <3>1 DEF IInv, Accepted
      <3>3. QED
        BY <1>1, <2>4, <3>2, RequestIsFixed DEF Accepted
    <2>10. QED
      BY <2>6, <2>7, <2>8, <2>9 DEF IInv
  <1>4. QED
    BY <1>2, <1>3 DEF List

LEMMA ManifestKeeps ==
  ASSUME IInv, Manifest
  PROVE  IInv'
  <1>1. /\ pc = "prepare" /\ todo = <<>> /\ pc' = "done"
        /\ UNCHANGED <<job, todo, tmp, out, artifacts>>
        /\ Types /\ Published /\ result = "pending"
        /\ tmp \in [Slot -> File]
    BY DEF IInv, Types, Manifest, Fail, files
  <1>2. CASE ~ManifestValid(artifacts)
    <2>1. Fail("ENGINE_INTERNAL")
      BY <1>2 DEF Manifest
    <2>2. QED
      BY <1>1, <2>1, Failing DEF ErrorCode
  <1>3. CASE ManifestValid(artifacts)
    <2>1. result' = "ok"
      BY <1>3 DEF Manifest, Fail
    <2>2. Types'
      BY <1>1, <2>1 DEF Types, Label, Result, Listed
    <2>3. Progress' /\ OutputIsNeverPartial'
      BY <1>1 DEF IInv, Progress, OutputIsNeverPartial
    <2>4. Published'
      BY <1>1, <2>1 DEF Published, Listed
    <2>5. ManifestValid(artifacts)'
      BY <1>1, <1>3 DEF ManifestValid
    <2>6. Accepted'
      BY <1>1, <2>1, <2>5, RequestIsFixed DEF IInv, Accepted
    <2>7. QED
      BY <2>2, <2>3, <2>4, <2>6 DEF IInv
  <1>4. QED
    BY <1>2, <1>3

LEMMA KilledKeeps ==
  ASSUME IInv, Killed
  PROVE  IInv'
  <1>1. pc # "done" /\ UNCHANGED <<job, todo, out, artifacts>> /\ Fail("killed")
        /\ Types /\ (pc = "tool" => todo # <<>>)
    BY DEF IInv, Progress, Killed
  <1>2. tmp' \in [Slot -> File]
    BY <1>1, LeftoverIsFile, WritesFile DEF Killed, Types
  <1>3. QED
    BY <1>1, <1>2, Failing

LEMMA NextIInv == IInv /\ [Next]_vars => IInv'
  <1> SUFFICES ASSUME IInv, [Next]_vars PROVE IInv'
    OBVIOUS
  <1>1. CASE UNCHANGED vars
    <2>1. UNCHANGED <<job, pc, todo, tmp, out, artifacts, result>>
      BY <1>1 DEF vars
    <2>2. slot' = slot /\ published' = published
          /\ ManifestValid(artifacts)' = ManifestValid(artifacts)
      BY <2>1 DEF slot, published, ManifestValid
    <2>3. Types' /\ Progress' /\ Published' /\ OutputIsNeverPartial'
      BY <2>1, <2>2 DEF IInv, Types, Progress, Published, OutputIsNeverPartial,
         Listed
    <2>4. Accepted'
      BY <2>1, <2>2, RequestIsFixed DEF IInv, Accepted
    <2>5. QED
      BY <2>3, <2>4 DEF IInv
  <1>2. CASE Next
    BY <1>1, <1>2, PlanKeeps, PrepareKeeps, ToolKeeps, PublishKeeps,
       InspectKeeps, ListKeeps, ManifestKeeps, KilledKeeps DEF Next, Done
  <1>3. QED
    BY <1>1, <1>2

\* The inductive invariant holds in every reachable state.
THEOREM Invariance == Spec => []IInv
  BY InitIInv, NextIInv, PTL DEF Spec

-----------------------------------------------------------------------------
(* The properties of Extraction.                                           *)

\* Whoever looks into output/, even after a kill, finds only complete files.
THEOREM OutputComplete == Spec => []OutputIsNeverPartial
  BY Invariance, PTL DEF IInv

LEMMA ManifestFollows == IInv => ManifestMatchesFiles
  <1> SUFFICES ASSUME IInv, result = "ok" PROVE ManifestMatchesFiles
    BY DEF ManifestMatchesFiles
  <1>1. Types /\ Published /\ pc = "done"
    BY DEF IInv, Types
  <1>2. \A i \in DOMAIN artifacts : artifacts[i].slot \in Slot
    BY <1>1 DEF Types
  <1>3. \A i \in DOMAIN artifacts :
          out[artifacts[i].slot] = {artifacts[i].content}
    BY <1>1 DEF Published
  <1>4. \A s \in Slot : out[s] # {} <=> s \in Listed
    BY <1>1, <1>3 DEF Published, Listed
  <1>5. Listed \subseteq Slot
    BY <1>2 DEF Listed
  <1>6. {s \in Slot : out[s] # {}} = Listed
    BY <1>4, <1>5
  <1>7. QED
    BY <1>3, <1>6 DEF ManifestMatchesFiles, Listed

\* A successful manifest and output/ say the same.
THEOREM ManifestExact == Spec => []ManifestMatchesFiles
  BY ManifestFollows, Invariance, PTL

LEMMA TypeFollows == IInv => TypeOK
  <1> SUFFICES ASSUME IInv PROVE TypeOK
    OBVIOUS
  <1>1. Types
    BY DEF IInv
  <1>2. \A i \in DOMAIN todo : todo[i] \in Slot
    BY <1>1 DEF Types, Todo, Slot
  <1>3. \A i \in DOMAIN artifacts : \A k \in DOMAIN todo :
          todo[k] # artifacts[i].slot
    BY <1>1 DEF Types, Members, Listed
  <1>4. QED
    BY <1>1, <1>2, <1>3 DEF Types, TypeOK, Label, Result

\* The type invariant.
THEOREM TypeCorrect == Spec => []TypeOK
  BY TypeFollows, Invariance, PTL

\* The errors the session expects of the backend where it is.
Allowed ==
  IF pc = "plan" THEN ProbeResultFailure(job.operation)
  ELSE IF todo = <<>> THEN {"ENGINE_INTERNAL"}
  ELSE ({"TIMEOUT", "CANCELLED"} \union SpawnFailure(slot)
         \union ExitFailure(slot)
         \union ResultFailure(job.operation, slot)) \ Skippable(slot)

ForeseenStep ==
  /\ pc = "plan" /\ todo' # <<>> => todo' \in FollowUps(job.operation)
  /\ result' \in ErrorCode /\ result = "pending" => result' \in Allowed

\* One step ends the backend with an error only as the session expects it.
LEMMA StepIsForeseen ==
  ASSUME IInv, Next,
         NEW code \in ErrorCode, result = "pending", Fail(code)
  PROVE  code \in Allowed
  <1> USE DEF Allowed
  <1>1. /\ pc \in {"tool", "rename", "inspect", "list"} => todo # <<>>
        /\ todo # <<>> => slot \in Slot
        /\ pc' = "done" /\ result' = code
        /\ code \notin {"killed", "ok", "pending"}
    BY AtHand DEF IInv, Progress, Fail, ErrorCode
  <1>2. CASE PlanPreview
    BY <1>1, <1>2 DEF PlanPreview, Fail, GoTo, ProbeResultFailure
  <1>3. CASE PlanAudio
    BY <1>1, <1>3 DEF PlanAudio, Fail, GoTo, ProbeResultFailure
  <1>4. CASE Prepare
    BY <1>1, <1>4
    DEF Prepare, Fail, GoTo, SpawnFailure, ExitFailure, Skippable, Slot
  <1>5. CASE ToolStops
    BY <1>1, <1>5
    DEF ToolStops, Fail, GoTo, SpawnFailure, ExitFailure, ResultFailure,
        Skippable, Slot
  <1>6. CASE ToolFails
    BY <1>1, <1>6
    DEF ToolFails, Skip, Fail, GoTo, SpawnFailure, ExitFailure, ResultFailure,
        Skippable, Slot
  <1>7. CASE ToolWritesNothing
    BY <1>1, <1>7
    DEF ToolWritesNothing, Skip, Fail, GoTo, SpawnFailure, ExitFailure,
        ResultFailure, Skippable, Slot
  <1>8. CASE ToolSucceeds
    BY <1>1, <1>8
    DEF ToolSucceeds, Fail, GoTo, SpawnFailure, ExitFailure, ResultFailure,
        Skippable, Slot
  <1>9. CASE Publish \/ InspectFrame \/ List
    BY <1>1, <1>9
    DEF Publish, InspectFrame, List, Fail, GoTo, SpawnFailure, ExitFailure,
        ResultFailure, Skippable, Slot
  <1>10. CASE InspectTrack
    BY <1>1, <1>10
    DEF InspectTrack, Fail, GoTo, SpawnFailure, ExitFailure, ResultFailure,
        Skippable, Slot
  <1>11. CASE Manifest
    BY <1>1, <1>11 DEF Manifest, Fail
  <1>12. CASE Killed
    BY <1>1, <1>12 DEF Killed, Fail
  <1>13. CASE Done
    BY <1>1, <1>13 DEF Done, vars
  <1>14. QED
    BY <1>2, <1>3, <1>4, <1>5, <1>6, <1>7, <1>8, <1>9, <1>10, <1>11, <1>12,
       <1>13 DEF Next

LEMMA NextForeseen == IInv /\ Next => ForeseenStep
  <1> SUFFICES ASSUME IInv, Next PROVE ForeseenStep
    OBVIOUS
  <1>1. ASSUME pc = "plan", todo' # <<>>
        PROVE  todo' \in FollowUps(job.operation)
    <2>1. todo = <<>>
      BY <1>1 DEF IInv, Progress
    <2>2. PlanPreview \/ PlanAudio
      BY <1>1, <2>1 DEF Next, Prepare, ToolStops, ToolFails,
         ToolWritesNothing, ToolSucceeds, Publish, InspectFrame,
         InspectTrack, List, Manifest, Killed, Done
    <2>3. QED
      BY <1>1, <2>1, <2>2 DEF PlanPreview, PlanAudio, FollowUps
  <1>2. ASSUME result' \in ErrorCode, result = "pending"
        PROVE  Fail(result')
    <2>1. result' # "pending"
      BY <1>2 DEF ErrorCode
    <2>2. pc' = "done"
      BY <1>2, <2>1, NextIInv DEF IInv, Types
    <2>3. QED
      BY <2>2 DEF Fail
  <1>3. ASSUME result' \in ErrorCode, result = "pending"
        PROVE  result' \in Allowed
    BY <1>2, <1>3, StepIsForeseen
  <1>4. QED
    BY <1>1, <1>3 DEF ForeseenStep

\* The session's view of the backend is right: which tools follow the probe,
\* and with which errors each point can end.
THEOREM OnlyForeseenFailures == Spec => FailuresAreForeseen
  <1>1. IInv /\ [Next]_vars => [ForeseenStep]_vars
    BY NextForeseen
  <1>2. QED
    BY <1>1, Invariance, PTL
    DEF Spec, FailuresAreForeseen, ForeseenStep, Allowed

-----------------------------------------------------------------------------
(* The window of a published track.                                        *)

LEMMA OrType ==
  ASSUME NEW S, NEW option \in Option(S), NEW default \in S
  PROVE  /\ Or(option, default) \in S
         /\ \A x \in option : Or(option, default) = x
  BY DEF Option, Or

Below == {pair \in Nat \X Nat : pair[1] < pair[2]}

\* A set of numbers that is not empty has a lowest one.
LEMMA LowestNumber ==
  ASSUME NEW S, S \subseteq Nat, S # {}
  PROVE  \E n \in S : \A m \in S : n <= m
  <1>1. IsWellFoundedOn(Below, Nat)
    BY NatLessThanWellFounded, Zenon DEF OpToRel, Below
  <1>2. PICK n \in S : \A m \in S : ~(<<m, n>> \in Below)
    BY <1>1, WFMin
  <1>3. \A m \in S : ~(m < n)
    BY <1>2 DEF Below
  <1>4. QED
    BY <1>3

\* Streams are numbered, so a set of them has a lowest one.
LEMMA LowestIsMember ==
  ASSUME NEW streams, streams \subseteq MediaStream, streams # {}
  PROVE  Lowest(streams) \in streams
  <1> DEFINE Numbers == {s.index : s \in streams}
  <1>1. Numbers \subseteq Nat /\ Numbers # {}
    BY DEF MediaStream
  <1>2. PICK n \in Numbers : \A m \in Numbers : n <= m
    BY <1>1, LowestNumber
  <1>3. \E s \in streams : \A other \in streams : s.index <= other.index
    BY <1>2
  <1>4. QED
    BY <1>3 DEF Lowest

LEMMA StreamIsOfMedia ==
  ASSUME NEW j \in Jobs, Selected(j) # {}
  PROVE  Stream(j) \in j.media.streams /\ Stream(j) \in MediaStream
  <1> DEFINE wanted == {s \in Audio(j.media) : \/ j.options.index = {}
                                               \/ s.index \in j.options.index}
  <1>1. wanted \subseteq j.media.streams /\ wanted \subseteq MediaStream
    BY JobsAssumption DEF Audio, Media
  <1>2. wanted # {} /\ Selected(j) = {Lowest(wanted)}
    BY DEF Selected
  <1> HIDE DEF wanted
  <1>3. Selected(j) \subseteq wanted /\ Selected(j) \subseteq MediaStream
    BY <1>1, <1>2, LowestIsMember
  <1>4. Lowest(Selected(j)) \in Selected(j)
    BY <1>3, LowestIsMember
  <1>5. QED
    BY <1>1, <1>3, <1>4 DEF Stream

\* The numbers a selected stream and the options of its job come down to.
LEMMA JobNumbers ==
  ASSUME NEW j \in Jobs, Selected(j) # {}
  PROVE  /\ Start(j) \in Int
         /\ End(j) \in Option(Nat)
         /\ RequestedStart(j.options) \in Nat
         /\ j.options.end \in Option(0 .. U64Max)
         /\ Rate(j) \in Option(Nat \ {0}) /\ Channels(j) \in Option(Nat \ {0})
         /\ Or(Rate(j), 8000) \in Nat \ {0} /\ Or(Channels(j), 1) \in Nat \ {0}
  <1> DEFINE Counts == Nat \ {0}
  <1>1. /\ Stream(j).start \in Option(Int)
        /\ Stream(j).duration \in Option(Nat)
        /\ Stream(j).rate \in Option(Counts)
        /\ Stream(j).channels \in Option(Counts)
    BY StreamIsOfMedia DEF MediaStream
  <1>2. /\ j.options.start \in Option(0 .. U64Max)
        /\ j.options.end \in Option(0 .. U64Max)
        /\ j.options.rate \in Option(Counts)
        /\ j.options.channels \in Option(Counts)
        /\ j.media.duration \in Option(Nat)
    BY JobsAssumption DEF AudioOptions, Media
  <1>3. Start(j) \in Int
    BY <1>1, OrType DEF Start
  <1>4. RequestedStart(j.options) \in Nat
    <2>1. 0 \in 0 .. U64Max
      BY U64MaxAssumption
    <2>2. RequestedStart(j.options) \in 0 .. U64Max
      BY <1>2, <2>1, OrType DEF RequestedStart
    <2>3. QED
      BY <2>2
  <1>5. /\ Rate(j) \in Option(Counts) /\ Channels(j) \in Option(Counts)
        /\ Or(Rate(j), 8000) \in Counts /\ Or(Channels(j), 1) \in Counts
    <2>1. 8000 \in Counts /\ 1 \in Counts
      OBVIOUS
    <2> HIDE DEF Counts
    <2>2. Rate(j) \in Option(Counts) /\ Channels(j) \in Option(Counts)
      BY <1>1, <1>2 DEF Rate, Channels, OrElse
    <2>3. QED
      BY <2>1, <2>2, OrType
  <1>6. End(j) \in Option(Nat)
    <2>1. Or(Stream(j).duration, 0) \in Nat
      BY <1>1, OrType
    <2>2. Saturated(MaterialStart(Start(j)) + Or(Stream(j).duration, 0)) \in Nat
      BY <1>3, <2>1, U64MaxAssumption
      DEF Saturated, MaterialStart, Least, Greatest
    <2>3. QED
      BY <1>2, <2>2 DEF End, StreamEnd, Option
  <1>7. QED
    BY <1>2, <1>3, <1>4, <1>5, <1>6

LEMMA ToleranceGrows ==
  ASSUME NEW a \in Nat, NEW b \in Nat, a <= b
  PROVE  Tolerance(a) \in Nat /\ Tolerance(a) <= Tolerance(b)
  BY DEF Tolerance, Greatest

\* What is expected never exceeds what was asked for, from the first sample on.
LEMMA ExpectedInWindow ==
  ASSUME NEW j \in Jobs, Selected(j) # {}
  PROVE  LET from == ActualStart(j.options, Start(j))
             expected == ExpectedLength(j.options, Start(j), End(j))
         IN  /\ from \in Nat /\ from >= RequestedStart(j.options)
             /\ expected \in Nat
             /\ \A end \in j.options.end : expected <= Greatest(end - from, 0)
  <1> DEFINE from == ActualStart(j.options, Start(j))
             window == WindowEnd(j.options, End(j))
  <1>1. from \in Nat /\ from >= RequestedStart(j.options)
    BY JobNumbers DEF ActualStart, MaterialStart, Greatest
  <1>2. window \in Nat /\ \A end \in j.options.end : end \in Nat /\ window <= end
    <2>1. Or(j.options.end, U64Max) \in Nat /\ Or(End(j), 0) \in Nat
          /\ \A end \in j.options.end : Or(j.options.end, U64Max) = end
      BY JobNumbers, OrType, U64MaxAssumption
    <2>2. QED
      BY <2>1, JobNumbers, U64MaxAssumption DEF WindowEnd, Least, Greatest
  <1> HIDE DEF from, window
  <1>3. ExpectedLength(j.options, Start(j), End(j)) = Greatest(window, from) - from
    BY DEF ExpectedLength, from, window
  <1>4. QED
    BY <1>1, <1>2, <1>3 DEF Greatest, from

\* A track is only ever extracted from a stream that was found, and not if the
\* estimate is over the limit.
TrackWasPlanned ==
  "extract" \in Members(todo) \union Listed => Selected(job) # {} /\ ~TooLarge(job)

LEMMA PlanStays ==
  IInv /\ TrackWasPlanned /\ [Next]_vars => TrackWasPlanned'
  <1> SUFFICES ASSUME IInv, TrackWasPlanned, [Next]_vars PROVE TrackWasPlanned'
    OBVIOUS
  <1> DEFINE Slots0 == Members(todo) \union Listed
  <1>1. CASE job' = job /\ Slots0' \subseteq Slots0
    BY <1>1 DEF TrackWasPlanned
  <1>2. CASE UNCHANGED <<job, todo, artifacts>>
    BY <1>1, <1>2 DEF Listed
  <1>3. CASE PlanPreview
    <2>1. \/ Members(todo') \subseteq {"opening", "midpoint"} /\ Listed' = {}
          \/ UNCHANGED <<job, todo, artifacts>>
      BY <1>3 DEF PlanPreview, IInv, Progress, Members, Listed
    <2>2. QED
      BY <1>2, <2>1 DEF TrackWasPlanned
  <1>4. CASE PlanAudio
    <2>1. \/ Selected(job) # {} /\ ~TooLarge(job) /\ job' = job
          \/ UNCHANGED <<job, todo, artifacts>>
      BY <1>4 DEF PlanAudio
    <2>2. QED
      BY <1>2, <2>1 DEF TrackWasPlanned
  <1>5. ASSUME NEW file, Skip(file), pc = "tool", UNCHANGED <<job, artifacts>>
        PROVE  TrackWasPlanned'
    <2>1. todo # <<>> /\ todo \in Todo /\ todo' = Tail(todo)
      BY <1>5 DEF IInv, Types, Progress, Skip
    <2>2. QED
      BY <1>1, <1>5, <2>1, TodoFacts DEF Listed
  <1>6. CASE List
    <2>1. todo # <<>> /\ todo \in Todo /\ job' = job
          /\ artifacts \in Seq(Members(artifacts))
      BY <1>6 DEF List, IInv, Types, Progress
    <2>2. CASE todo' = Tail(todo) /\ artifacts' = Append(artifacts, Entry)
      <3>1. Entry.slot = slot
        BY DEF Entry
      <3>2. Listed' = Listed \union {slot}
        <4> DEFINE last == Len(artifacts) + 1
        <4>1. /\ DOMAIN artifacts' = DOMAIN artifacts \union {last}
              /\ artifacts'[last] = Entry
              /\ \A i \in DOMAIN artifacts : artifacts'[i] = artifacts[i]
          BY <2>1, <2>2, AppendFacts
        <4> HIDE DEF last
        <4>2. QED
          BY <3>1, <4>1 DEF Listed
      <3>3. QED
        BY <1>1, <2>1, <2>2, <3>2, TodoFacts
    <2>3. QED
      BY <1>2, <1>6, <2>1, <2>2 DEF List
  <1>7. QED
    BY <1>2, <1>3, <1>4, <1>5, <1>6
    DEF Next, vars, Prepare, ToolStops, ToolFails, ToolWritesNothing,
        ToolSucceeds, Publish, InspectFrame, InspectTrack, Manifest, Killed,
        Done

LEMMA InitPlan == Init => TrackWasPlanned
  BY DEF Init, TrackWasPlanned, Members, Listed

LEMMA Planned == Spec => []TrackWasPlanned
  BY InitPlan, PlanStays, Invariance, PTL DEF Spec

LEMMA DurationType ==
  ASSUME NEW n \in Nat, NEW hz \in Nat
  PROVE  DurationMs(n, hz) \in Nat
  <1>1. n * 1000 \in Nat
    OBVIOUS
  <1>2. \A m \in Nat : hz # 0 => m \div hz \in Nat
    OBVIOUS
  <1>3. QED
    BY <1>1, <1>2 DEF DurationMs

\* The one entry of a completed audio extraction.
LEMMA TrackFacts ==
  ASSUME IInv, TrackWasPlanned, OkTrack
  PROVE  /\ job \in Jobs /\ Track.content \in Contents
         /\ Selected(job) # {} /\ ~TooLarge(job)
         /\ ~Rejected(Track.content.samples)
         /\ Track.presented = {ActualStart(job.options, Start(job))}
  <1>1. 1 \in DOMAIN artifacts /\ Track.slot = "extract"
    <2>1. ManifestValid(artifacts)
      BY DEF OkTrack, IInv, Accepted
    <2>2. Slots(artifacts) = <<"extract">>
      BY <2>1 DEF OkTrack, ManifestValid, FollowUps
    <2>3. DOMAIN Slots(artifacts) = {1} /\ Slots(artifacts)[1] = "extract"
      BY <2>2
    <2>4. QED
      BY <2>3 DEF Slots, Track
  <1>2. job \in Jobs /\ Track.content \in Contents
    BY <1>1 DEF IInv, Types, Track
  <1>3. Selected(job) # {} /\ ~TooLarge(job)
    BY <1>1 DEF TrackWasPlanned, Listed, Track
  <1>4. /\ ~Rejected(Track.content.samples)
        /\ Track.presented = {ActualStart(job.options, Start(job))}
    BY <1>1 DEF IInv, Accepted, Track
  <1>5. QED
    BY <1>2, <1>3, <1>4

LEMMA WindowFollows == IInv /\ TrackWasPlanned => StaysInRequestedWindow
  <1> SUFFICES ASSUME IInv, TrackWasPlanned, OkTrack, End(job) # {},
                      NEW from \in Track.presented
               PROVE  /\ from >= RequestedStart(job.options)
                      /\ \A end \in job.options.end :
                           LET length == Greatest(end - from, 0)
                           IN  DurationMs(Track.content.samples, rate)
                                 <= length + Tolerance(length)
    BY DEF StaysInRequestedWindow
  <1> DEFINE expected == ExpectedLength(job.options, Start(job), End(job))
             actual   == DurationMs(Track.content.samples, rate)
  <1>1. /\ job \in Jobs /\ Track.content \in Contents /\ Selected(job) # {}
        /\ ~Rejected(Track.content.samples)
        /\ from = ActualStart(job.options, Start(job))
    BY TrackFacts
  <1>2. FitsWindow(actual, expected)
    BY <1>1 DEF Rejected
  <1>3. actual \in Nat
    <2>1. Track.content.samples \in Nat
      BY <1>1, ContentsAssumption DEF Content
    <2>2. rate \in Nat
      BY <1>1, JobNumbers DEF rate
    <2>3. QED
      BY <2>1, <2>2, DurationType
  <1>4. /\ from \in Nat /\ from >= RequestedStart(job.options)
        /\ expected \in Nat
        /\ \A end \in job.options.end :
             expected <= Greatest(end - from, 0)
    BY <1>1, ExpectedInWindow
  <1> HIDE DEF expected, actual
  <1>5. ASSUME NEW end \in job.options.end
        PROVE  actual <= Greatest(end - from, 0)
                           + Tolerance(Greatest(end - from, 0))
    <2>1. end \in Nat
      BY <1>1, <1>5, JobNumbers DEF Option
    <2>2. Greatest(end - from, 0) \in Nat
      BY <1>4, <2>1 DEF Greatest
    <2>3. /\ Tolerance(expected) \in Nat
          /\ Tolerance(Greatest(end - from, 0)) \in Nat
          /\ Tolerance(expected) <= Tolerance(Greatest(end - from, 0))
      BY <1>4, <1>5, <2>2, ToleranceGrows
    <2>4. actual - expected <= Tolerance(expected)
      BY <1>2 DEF FitsWindow
    <2>5. expected <= Greatest(end - from, 0)
      BY <1>4, <1>5
    <2>6. QED
      BY <1>3, <1>4, <2>2, <2>3, <2>4, <2>5
  <1>6. QED
    BY <1>4, <1>5 DEF actual

\* A published track starts inside the requested window and ends in it, up to
\* the tolerance of the continuity guard.
THEOREM WindowRespected == Spec => []StaysInRequestedWindow
  BY WindowFollows, Planned, Invariance, PTL

-----------------------------------------------------------------------------
(* The size of a published track.                                          *)

LEMMA ProductGrows ==
  ASSUME NEW a \in Nat, NEW b \in Nat, NEW n \in Nat, a <= b
  PROVE  a * n \in Nat /\ a * n <= b * n
  OBVIOUS

LEMMA Quotient ==
  ASSUME NEW n \in Nat, NEW m \in Nat \ {0}
  PROVE  n \div m \in Nat /\ n < (n \div m + 1) * m
  OBVIOUS

\* A product that was cut off anywhere is over the limit: what is under it is
\* the product itself.
LEMMA EstimateIsExact ==
  ASSUME NEW ms \in Nat, NEW hz \in Nat, NEW count \in Nat \ {0},
         EstimatedBytes(ms, hz, count) <= MaxOutputBytes
  PROVE  ms * hz * count * BytesPerSample < 1000 * (MaxOutputBytes + 1)
  <1> DEFINE a == ms * hz
             b == Saturated(a) * count
             d == Saturated(b) * 2
  <1>1. a \in Nat /\ Saturated(a) \in Nat
    BY U64MaxAssumption DEF Saturated, Least
  <1>2. b \in Nat /\ Saturated(a) <= b
    <2> DEFINE x == Saturated(a)
    <2>1. x \in Nat /\ x * count \in Nat /\ x <= x * count
      <3> HIDE DEF a
      <3>1. x \in Nat
        BY <1>1
      <3> HIDE DEF x
      <3>2. QED
        BY <3>1
    <2>2. QED
      BY <2>1
  <1>3. Saturated(d) \div 1000 <= MaxOutputBytes
    BY DEF EstimatedBytes, BytesPerSample
  <1> HIDE DEF a, b, d
  <1>4. Saturated(b) \in Nat /\ d \in Nat /\ Saturated(b) <= d /\ Saturated(d) \in Nat
    BY <1>2, U64MaxAssumption DEF Saturated, Least, d
  <1>5. Saturated(d) < 1000 * (MaxOutputBytes + 1)
    BY <1>3, <1>4, MaxOutputBytesAssumption
  <1>6. Saturated(d) = d /\ d < U64Max
    BY <1>4, <1>5, U64MaxAssumption, MaxOutputBytesAssumption, LimitAssumption
    DEF Saturated, Least
  <1>7. Saturated(b) = b /\ b < U64Max
    BY <1>2, <1>4, <1>6, U64MaxAssumption DEF Saturated, Least
  <1>8. Saturated(a) = a
    BY <1>1, <1>2, <1>7, U64MaxAssumption DEF Saturated, Least
  <1>9. QED
    BY <1>5, <1>6, <1>7, <1>8 DEF a, b, d, BytesPerSample

LEMMA EstimateType ==
  ASSUME NEW ms \in Nat, NEW hz \in Nat, NEW count \in Nat
  PROVE  EstimatedBytes(ms, hz, count) \in Nat
  <1>1. \A n \in Nat : Saturated(n) \in Nat /\ n \div 1000 \in Nat
    BY U64MaxAssumption DEF Saturated, Least
  <1>2. \A n, m \in Nat : n * m \in Nat
    OBVIOUS
  <1>3. QED
    BY <1>1, <1>2 DEF EstimatedBytes, BytesPerSample

\* What is expected is not longer than the window the estimate was made for.
LEMMA ExpectedInEstimate ==
  ASSUME NEW j \in Jobs, Selected(j) # {}
  PROVE  LET expected == ExpectedLength(j.options, Start(j), End(j))
             length   == WindowLength(j.options, End(j))
         IN  expected \in Nat /\ length \in Nat /\ expected <= length
  <1> DEFINE from   == ActualStart(j.options, Start(j))
             window == WindowEnd(j.options, End(j))
             first  == RequestedStart(j.options)
  <1>1. from \in Nat /\ first \in Nat /\ from >= first
    BY ExpectedInWindow, JobNumbers
  <1>2. window \in Nat
    <2>1. Or(j.options.end, U64Max) \in Nat /\ Or(End(j), 0) \in Nat
      BY JobNumbers, OrType, U64MaxAssumption
    <2>2. QED
      BY <2>1, JobNumbers, U64MaxAssumption DEF WindowEnd, Least, Greatest
  <1>3. /\ ExpectedLength(j.options, Start(j), End(j)) = Greatest(window, from) - from
        /\ WindowLength(j.options, End(j)) = Greatest(window - first, 0)
    BY DEF ExpectedLength, WindowLength
  <1> HIDE DEF from, window, first
  <1>4. QED
    BY <1>1, <1>2, <1>3 DEF Greatest

\* The arithmetic of the bound: `count` channels of n samples at hz, no longer
\* than `length` and `slack`.
LEMMA SizeBound ==
  ASSUME NEW n \in Nat, NEW hz \in Nat \ {0}, NEW count \in Nat \ {0},
         NEW length \in Nat, NEW expected \in Nat, NEW slack \in Nat,
         expected <= length,
         EstimatedBytes(length, hz, count) <= MaxOutputBytes,
         DurationMs(n, hz) - expected <= slack
  PROVE  n * count * BytesPerSample
           <= MaxOutputBytes + 1
              + ((slack + 1) * hz * count * BytesPerSample) \div 1000
  <1> DEFINE actual == DurationMs(n, hz)
             m      == n * 1000
             bytes  == ((slack + 1) * hz * count * 2)
             asked  == length * hz * count * 2
  <1>1. actual = m \div hz /\ m \in Nat
    BY DEF DurationMs
  <1>2. actual \in Nat /\ m < (actual + 1) * hz
    <2> HIDE DEF m, actual
    <2>1. QED
      BY <1>1, Quotient
  <1>3. actual + 1 <= expected + (slack + 1) /\ expected + (slack + 1) <= length + (slack + 1)
    BY <1>2
  <1>4. m <= (length + (slack + 1)) * hz
    <2> HIDE DEF m, actual
    <2>1. (actual + 1) * hz <= (length + (slack + 1)) * hz
      BY <1>2, <1>3, ProductGrows
    <2>2. QED
      BY <1>1, <1>2, <2>1
  <1>5. m * count * 2 <= (length + (slack + 1)) * hz * count * 2
    <2> DEFINE top == (length + (slack + 1)) * hz
    <2>1. top \in Nat
      OBVIOUS
    <2> HIDE DEF m, top
    <2>2. m * count <= top * count /\ m * count \in Nat /\ top * count \in Nat
      BY <1>1, <1>4, <2>1, ProductGrows DEF top
    <2>3. m * count * 2 <= top * count * 2
      BY <2>2
    <2>4. QED
      BY <2>3 DEF top
  <1>6. (length + (slack + 1)) * hz * count * 2 = asked + bytes
    OBVIOUS
  <1>7. asked < 1000 * (MaxOutputBytes + 1)
    BY EstimateIsExact DEF BytesPerSample
  <1>8. /\ asked \in Nat /\ bytes \in Nat
        /\ m * count * 2 = 1000 * (n * count * 2) /\ n * count * 2 \in Nat
    OBVIOUS
  <1>9. bytes <= 1000 * (bytes \div 1000) + 999 /\ bytes \div 1000 \in Nat
    <2> HIDE DEF bytes
    <2>1. QED
      BY <1>8
  <1> DEFINE size == n * count * 2
             rest == bytes \div 1000
  <1>10. 1000 * size <= asked + bytes
    BY <1>5, <1>6, <1>8
  <1> HIDE DEF asked, bytes, size, rest
  <1>11. size \in Nat /\ rest \in Nat /\ bytes <= 1000 * rest + 999
    BY <1>8, <1>9 DEF size, rest
  <1>12. size <= MaxOutputBytes + 1 + rest
    BY <1>7, <1>8, <1>10, <1>11, MaxOutputBytesAssumption
  <1>13. QED
    BY <1>12 DEF size, rest, bytes, BytesPerSample

LEMMA SizeFollows == IInv /\ TrackWasPlanned => OutputIsBounded
  <1> SUFFICES ASSUME IInv, TrackWasPlanned, OkTrack,
                      End(job) # {}, Rate(job) # {}, Channels(job) # {}
               PROVE  LET slack == Tolerance(ExpectedLength(job.options, Start(job), End(job)))
                      IN  Track.content.samples * channels * BytesPerSample
                            <= MaxOutputBytes + 1
                               + ((slack + 1) * rate * channels * BytesPerSample) \div 1000
    BY DEF OutputIsBounded
  <1> DEFINE expected == ExpectedLength(job.options, Start(job), End(job))
             length   == WindowLength(job.options, End(job))
             samples  == Track.content.samples
  <1>1. job \in Jobs /\ Track.content \in Contents /\ Selected(job) # {}
        /\ ~TooLarge(job) /\ ~Rejected(samples)
    BY TrackFacts
  <1>2. samples \in Nat
    BY <1>1, ContentsAssumption DEF Content
  <1>3. /\ rate \in Nat \ {0} /\ rate = Or(Rate(job), 0)
        /\ channels \in Nat \ {0} /\ channels = Or(Channels(job), 0)
    BY <1>1, JobNumbers DEF rate, channels, Or
  <1>4. expected \in Nat /\ length \in Nat /\ expected <= length
    BY <1>1, ExpectedInEstimate
  <1>5. EstimatedBytes(length, rate, channels) <= MaxOutputBytes
    <2>1. EstimatedBytes(length, rate, channels) \in Nat
      BY <1>3, <1>4, EstimateType
    <2>2. ~(EstimatedBytes(length, rate, channels) > MaxOutputBytes)
      BY <1>1, <1>3 DEF TooLarge
    <2>3. QED
      BY <2>1, <2>2, MaxOutputBytesAssumption
  <1>6. Tolerance(expected) \in Nat
    BY <1>4, ToleranceGrows
  <1>7. DurationMs(samples, rate) - expected <= Tolerance(expected)
    BY <1>1 DEF Rejected, FitsWindow
  <1> DEFINE slack == Tolerance(expected)
             hz    == rate
             count == channels
  <1>8. /\ samples \in Nat /\ hz \in Nat \ {0} /\ count \in Nat \ {0}
        /\ length \in Nat /\ expected \in Nat /\ slack \in Nat /\ expected <= length
    BY <1>2, <1>3, <1>4, <1>6
  <1>9. /\ EstimatedBytes(length, hz, count) <= MaxOutputBytes
         /\ DurationMs(samples, hz) - expected <= slack
    BY <1>5, <1>7
  <1> HIDE DEF expected, length, samples, slack, hz, count
  <1>10. samples * count * BytesPerSample
           <= MaxOutputBytes + 1
              + ((slack + 1) * hz * count * BytesPerSample) \div 1000
    BY <1>8, <1>9, SizeBound, SMTT(30)
  <1>11. QED
    BY <1>10 DEF expected, samples, slack, hz, count

\* OutputIsBounded: the estimate, whose products saturate, and the continuity
\* guard together bound the size of every published track.
THEOREM SizeRespected == Spec => []OutputIsBounded
  BY SizeFollows, Planned, Invariance, PTL

-----------------------------------------------------------------------------
(* A track that is what was asked for.                                     *)

\* The part of a stream of known duration that lies in the window, and the
\* length the continuity guard expects of it.
Inside(options, start, duration) ==
  Least(Or(options.end, U64Max), start + duration) - ActualStart(options, start)

Guarded(options, start, duration) ==
  ExpectedLength(options, start, {Saturated(MaterialStart(start) + duration)})

\* They differ by the pre-roll, if there is any.
LEMMA ExpectedIsTrue ==
  ASSUME NEW options, NEW start \in Int, NEW duration \in Nat,
         options.start \in Option(0 .. U64Max),
         options.end \in Option(0 .. U64Max),
         start >= -1000,
         Inside(options, start, duration) > 0
  PROVE  /\ Inside(options, start, duration) \in Nat
         /\ Guarded(options, start, duration) \in Nat
         /\ Inside(options, start, duration) <= Guarded(options, start, duration)
         /\ Guarded(options, start, duration)
              <= Inside(options, start, duration) + 1000
  <1> DEFINE length   == Inside(options, start, duration)
             expected == Guarded(options, start, duration)
             first == RequestedStart(options)
             last  == Or(options.end, U64Max)
             from  == Greatest(first, Greatest(start, 0))
             end   == Least(Greatest(start, 0) + duration, U64Max)
  <1>1. first \in 0 .. U64Max /\ last \in 0 .. U64Max
    <2>1. 0 \in 0 .. U64Max /\ U64Max \in 0 .. U64Max
      BY U64MaxAssumption
    <2>2. QED
      BY <2>1, OrType DEF RequestedStart
  <1>2. Or({end}, 0) = end /\ {end} # {}
    BY DEF Or
  <1>3. length = Least(last, start + duration) - from
    BY DEF Inside, ActualStart, MaterialStart
  <1>4. WindowEnd(options, {end}) = Least(last, Greatest(end, first))
    BY <1>2 DEF WindowEnd
  <1>5. expected = Greatest(Least(last, Greatest(end, first)), from) - from
    BY <1>4 DEF Guarded, ExpectedLength, ActualStart, MaterialStart, Saturated
  <1> DEFINE open   == Greatest(end, first)
             window == Least(last, open)
             close  == Least(last, start + duration)
  <1>6. /\ from \in Nat /\ first <= from /\ start <= from
        /\ close \in Int /\ close > from
    BY <1>1, <1>3 DEF Least, Greatest
  <1>7. window \in Int /\ close <= window /\ window <= close + 1000
    <2> HIDE DEF first, last
    <2>1. CASE start >= 0
      BY <1>1, <1>6, <2>1, U64MaxAssumption DEF Least, Greatest
    <2>2. CASE start < 0
      BY <1>1, <1>6, <2>2, U64MaxAssumption DEF Least, Greatest
    <2>3. QED
      BY <2>1, <2>2
  <1>8. length = close - from /\ expected = Greatest(window, from) - from
    BY <1>3, <1>5
  <1> HIDE DEF length, expected, first, last, from, window, close
  <1>9. /\ length \in Nat /\ expected \in Nat
        /\ length <= expected /\ expected <= length + 1000
    BY <1>6, <1>7, <1>8 DEF Greatest
  <1>10. QED
    BY <1>9 DEF length, expected

\* A decoder that returns just the samples of the window passes the guard.
LEMMA ExactTrackFits ==
  ASSUME IInv, TrackWasPlanned, ExactlyDecoded, Start(job) >= -1000
  PROVE  ~Rejected(published.samples)
  <1> DEFINE start    == Start(job)
             duration == Or(Stream(job).duration, 0)
             hz       == rate
             samples  == published.samples
             length   == TrueLength
             expected == ExpectedLength(job.options, start, End(job))
  <1>1. job \in Jobs /\ Selected(job) # {} /\ samples \in Nat
    <2>1. pc = "inspect" /\ todo # <<>> /\ slot = "extract" /\ todo \in Todo
      BY DEF ExactlyDecoded, IInv, Types, Progress
    <2>2. "extract" \in Members(todo)
      BY <2>1, TodoFacts
    <2>3. published \in Contents
      BY <2>1, PublishedContent
    <2>4. QED
      BY <2>2, <2>3, ContentsAssumption
      DEF TrackWasPlanned, IInv, Types, Content
  <1>2. /\ start \in Int /\ hz \in Nat \ {0}
        /\ job.options.start \in Option(0 .. U64Max)
        /\ job.options.end \in Option(0 .. U64Max)
    BY <1>1, JobNumbers, JobsAssumption DEF rate, AudioOptions
  <1>3. duration \in Nat /\ Stream(job).duration # {}
    <2>1. Stream(job).duration \in Option(Nat)
      BY <1>1, StreamIsOfMedia DEF MediaStream
    <2>2. QED
      BY <2>1, OrType DEF ExactlyDecoded
  <1>4. /\ length = Inside(job.options, start, duration)
        /\ expected = Guarded(job.options, start, duration)
    BY <1>3 DEF TrueLength, Inside, Guarded, End, StreamEnd
  <1>5. length > 0 /\ samples * 1000 = length * hz /\ start >= -1000
    BY DEF ExactlyDecoded
  <1> HIDE DEF start, duration, length, expected
  <1>6. /\ length \in Nat /\ expected \in Nat /\ length <= expected
        /\ expected <= length + 1000
    <2> DEFINE inside  == Inside(job.options, start, duration)
               guarded == Guarded(job.options, start, duration)
    <2>1. inside > 0
      BY <1>4, <1>5
    <2>2. /\ inside \in Nat /\ guarded \in Nat /\ inside <= guarded
          /\ guarded <= inside + 1000
      <3>1. /\ start \in Int /\ duration \in Nat /\ start >= -1000
            /\ job.options.start \in Option(0 .. U64Max)
            /\ job.options.end \in Option(0 .. U64Max)
        BY <1>2, <1>3, <1>5
      <3>2. Inside(job.options, start, duration) > 0
        BY <2>1
      <3> HIDE DEF inside, guarded
      <3>3. QED
        BY <3>1, <3>2, ExpectedIsTrue DEF inside, guarded
    <2>3. QED
      BY <1>4, <2>2
  <1> HIDE DEF start, duration, length, hz, samples
  <1>8. DurationMs(samples, hz) = length
    <2>1. (length * hz) \div hz = length
      BY <1>2, <1>6
    <2>2. QED
      BY <1>2, <1>5, <2>1 DEF DurationMs
  <1>9. samples # 0
    <2>1. length * hz > 0
      BY <1>2, <1>5, <1>6
    <2>2. QED
      BY <1>5, <2>1
  <1> HIDE DEF expected
  <1>10. Tolerance(expected) \in Int /\ Tolerance(expected) >= 1000
    BY <1>6 DEF Tolerance, Greatest
  <1>11. FitsWindow(DurationMs(samples, hz), expected)
    BY <1>6, <1>8, <1>10 DEF FitsWindow
  <1>12. QED
    BY <1>9, <1>11 DEF Rejected, expected, start, samples, hz

\* A step of the backend does not refuse a track that is what was asked for.
LEMMA ExactStep ==
  ASSUME IInv, TrackWasPlanned, Next, ExactlyDecoded, Start(job) >= -1000
  PROVE  result' # "UNSUPPORTED_INPUT"
  <1>1. pc = "inspect" /\ slot = "extract" /\ todo # <<>> /\ result = "pending"
    BY DEF ExactlyDecoded, IInv, Types, Progress
  <1>2. InspectTrack \/ Killed
    BY <1>1 DEF Next, PlanPreview, PlanAudio, Prepare, ToolStops, ToolFails,
       ToolWritesNothing, ToolSucceeds, Publish, InspectFrame, List, Manifest,
       Done
  <1>3. QED
    BY <1>1, <1>2, ExactTrackFits DEF InspectTrack, Killed, Fail, GoTo

\* The continuity guard never refuses a track whose length is exactly that of
\* the stream inside the window, for every window, start and end, up to a
\* second of pre-roll.
THEOREM ExactTracksArePublished == Spec => ExactTrackIsPublished
  <1>1. IInv /\ TrackWasPlanned /\ [Next]_vars =>
          [ExactlyDecoded /\ Start(job) >= -1000
             => result' # "UNSUPPORTED_INPUT"]_vars
    BY ExactStep
  <1>2. QED
    BY <1>1, Planned, Invariance, PTL DEF Spec, ExactTrackIsPublished


=============================================================================
