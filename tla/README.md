# scene-core: formal models

TLA+ specifications of the scene-core engine, the TLC runs that check them on
small instances, and the theorems that the TLA+ proof system proves for every
instance. Everything here is translated from the Rust source; where a document
and the source disagree the model follows the source and a run shows the
disagreement.

## 1. The system

scene-core is a process the Host (a desktop application) starts once per
request. It reads a `StartRequest` as one JSON line on stdin, runs fixed builds
of ffprobe and ffmpeg over a staged copy of the input, and answers with a short
stream of events on stdout and an exit code. Three crates: `scene-core-protocol`
(types, validators, identities), `scene-core-media` (tools and files) and
`scene-core-engine` (the command line, the run and its threads).

| component | state | operations | interacts with |
|---|---|---|---|
| error matrix, event types | none | code -> terminal event -> exit code | everything |
| event stream contract | accepted, terminal, last sequence, last progress with its stage, identity | `accept` | checks what the run emits; used by the Host |
| control stream contract | start seen, cancel seen | `parse_control_line`, `accept`, `handle_line` | feeds `RunControl` |
| run session | `RunControl` (cancelled, timedOut, violation), three threads, backend, the tool in progress | `run_run_command`, `validate_request`, `run_session`, `ProbeBackend` | all of the above, the tools, the staging directory |
| process runner | child, two reader threads, pipes, kill notes | `process::run` | one tool |
| staging and publication | `output/*.tmp`, `output/**` | contain, generate, rename, hash, manifest entry | ffmpeg, manifest |
| JSONL framing | the stdin buffer, the bytes of one line | `CappedLines::next_line` by main, then by the reader thread | stdin, control stream contract |
| audio window arithmetic | none | estimate, window, continuity guard | probe results |
| exact time, segments | none | conversion, rounding, tiling | probe, `TemporalSegment` |
| identities | none | operation config hash, input fingerprint, derivation key | request validation, manifest |
| manifest and package validation | none | `validate` | terminal event, Host |
| probe normalisation | none | ffprobe JSON -> `NormalizedMedia` | audio window, preview midpoint |
| version, doctor | the doctor's checks so far | file checks and reports | the installation, the Host's trust anchor, `run` |

What is hard: three threads share three flags without a lock, and each flag is
loaded and stored on its own; a child process can hang, flood its pipes, leave
a grandchild behind or refuse to be waited for; stdout can break in the middle
of the stream; the deadline, a cancel line and a protocol violation can arrive
between any two steps. What makes the components correct:

* run: the event stream is one the validator accepts; the exit code matches it;
  violation > deadline > cancellation > result; no tool outlives the terminal
  event; no tool sees an unverified input; every run ends.
* process runner: bounded memory, no deadlock with a chatty tool, exact
  truncation notes, an answer only for a tool that is gone, and the engine's
  own kill is never reported as the tool's failure.
* event stream: a Host that validates notices every lost and every repeated
  event, and progress that falls back within a stage.
* staging and publication: output/ never holds part of a file, even after a
  kill; the manifest lists exactly what is there; the errors are those the run
  expects.
* audio window: the output is bounded, starts and ends in the requested window,
  and a correctly cut track is not refused.
* JSONL framing: a line is cut off at exactly its limit, no matter how its bytes
  arrive; only a whole line cancels; a line without end is refused.
* exact time and probe: every time is the nearest millisecond to the exact one,
  and no unknown time becomes a number.
* identities: one derivation key stands for one piece of work; a stale key is
  refused, and where there is nothing to compare it with, nothing that names it
  is published.
* doctor: on a bundle at rest every check says exactly what is there, and an
  `ok` report holds for every file that nobody has touched since.

## 2. Modules

| module | models | extends |
|---|---|---|
| `Protocol` | `ErrorCode`, `TerminalKind`, exit codes, `EventType`, `Operation` | |
| `EventStream` | what `EventStreamValidator` accepts: the abstract specification of a run's stdout | `Protocol` |
| `ControlStream` | what a control line does | |
| `BackendFailures` | the tools of each operation and the errors each can end with | `Protocol` |
| `RunSession` | one `scene-core run` process | `BackendFailures`, `ControlStream`, instance of `EventStream` |
| `ToolCall` | the abstract promise of `process::run` | |
| `ProcessRunner` | `process::run` with its threads, pipes and child | instance of `ToolCall` |
| `ControlRules` | what the lines of the control stream do, in order, to the request and the cancellation | `ControlStream` |
| `ControlLines` | the text the Host sent, taken a whole line at a time: the abstract control stream | `ControlRules` |
| `LineReader` | `CappedLines` over a pipe and the one stdin buffer, used by two threads in turn | `ControlRules`, instance of `ControlLines` |
| `Options` | `Option<T>` as a set of at most one value, minimum and maximum | |
| `ExactTime` | `time.rs`: rationals of bounded width and their rounding | `Options` |
| `ProbeNormalisation` | `normalize`: from what ffprobe prints to `NormalizedMedia` | `ExactTime` |
| `AudioWindow` | the arithmetic of `extract_audio_pcm`: window, estimate, continuity guard | `Options` |
| `Extraction` | `ProbeBackend::extract_preview` and `extract_audio_pcm` after the probe, over the files in output/ | `AudioWindow`, `BackendFailures` |
| `ProbedExtraction` | the same from the output of ffprobe on | `ProbeNormalisation`, `Extraction` |
| `Contents` | file contents, which stand for their digests | |
| `BundleContents` | what an installation holds: manifest, descriptor, and the rules on both | `Contents`, `Options` |
| `Doctor` | `doctor --json`, one file access at a time, and an installer | `BundleContents` |
| `DerivationKeys` | config hash, input fingerprint, derivation key and the checks of a request | `Contents`, `Protocol`, `Options` |
| `Bundle` | `version`, `doctor` and `run` of one installation, as its Host uses them | `Doctor`, `DerivationKeys` |
| `*Proofs` | theorems: `RunSession`, `ProcessRunner`, `Extraction`, `ProbedExtraction`, `LineReader`, `Doctor`, `Bundle`, `EventStream` | the module they are about |
| `MC*` | values for the constants | |

### EventStream

`stream` is the events accepted so far; what `EventStreamValidator` keeps of them
is computed from it: whether one was `accepted` or terminal, and the last
progress event with its stage (`LastProgress`). A progress event is compared
with that one only, and only if it has the same stage. `ProgressNeverRegresses`
therefore says that progress does not fall while one stage goes on, whatever
events of other types lie between.

### RunSession

`pc` is the position of the main thread: `start` -> `validate` (or
`unvalidated`) -> `hash` -> `accept` -> `pre_violation`, `pre_timeout`,
`pre_cancel` -> `progress` -> `call`/`poll`/`wait`/`classify` for each tool ->
`post_violation`, `post_timeout`, `post_outcome` -> `complete` -> `exited`. Each
step has at most one load of a shared flag, and the `completed` event is a step
after the last of them: what raises a flag between `post_outcome` and `complete`
comes too late, and the precedence properties speak of what is up before. `reader` is the stdin thread, whose
`record_violation` is two steps (`ReadLine`, `RecordViolation`); `timer` is the
deadline thread, whose `request_timeout` is two steps (`DeadlineStore`,
`DeadlineCancel`). `calls` is what is left of the operation's tool calls,
`child` the process in progress, `sawCancel` and `capped` the two notes of
`process::run`. `stream` holds the events emitted, `lost` the sequence numbers
that could not be written, `exit` the exit code.

The request is an operation and the first thing wrong with it (`Defect`). The
options, the hashes and the identifiers are not modelled field by field. The
environment says whether the toolchain fingerprint resolves, whether the
binaries do, and how the staged input compares with the declared one. The
engine's own build is taken to be well formed (`Bundle` has one that is not).
Failures
of a tool are nondeterministic over the codes the code can return at that
point (`SpawnFailure`, `ExitFailure`, `ResultFailure`). Blank control lines are
stuttering steps.

The stores of one thread are visible in program order. The Rust code uses
relaxed atomics; on the supported x86-64 targets stores are not reordered, and
the model assumes that the compiler keeps the two stores in order.

### ProcessRunner and ToolCall

`process::run` polls the flag, the clock and `try_wait` in a loop, with a
thread per pipe. A stream is the number of bytes `written`, those still in the
`pipe`, and those `collected`. The tool, and a grandchild that inherits the
pipes, are the environment: the tool writes what its `plan` says, exits when it
likes, or hangs. `result` maps to `ToolCall`'s `answer`, the other variables
map to themselves. `RunSession` uses a coarser model of the same loop
(`Poll`, `Wait`, `Classify`), whose assumptions are `ToolCall`'s promises.

### Extraction, AudioWindow and BackendFailures

`RunSession` takes a tool's answer from the sets of `BackendFailures`.
`Extraction` is the same backend in detail: `pc` goes `plan` -> `prepare` ->
`tool` -> `rename` -> `inspect` -> `list` for each slot of `todo`, and from an
empty `todo` to the manifest and `done`. `tmp` and `out` hold, for each of the
three slots, the file `<slot>.tmp` and the published file, as a set of at most
one content. A content is whether the tool wrote all of it, what the header
parser makes of it, and its sample count. The tool may leave any part of its
output behind whenever it ends early; removing a file may fail; the Host may
kill the engine between any two steps (`Killed`). `FailuresAreForeseen` ties the
two models together: `Extraction` runs only the tools, and ends only with the
codes, that `BackendFailures` has at that point.

`job` is the operation, the validated options and the normalised media, with
unknown values as empty sets. The wire formats of the manifest, the hashes and
the ffmpeg command line are not modelled. Where neither the options nor the
probe know the sample rate or the channel count, the tool picks one; the model
uses 8000 Hz and one channel.

### ExactTime, ProbeNormalisation and ProbedExtraction

A time is a fraction in lowest terms; every product and sum is checked against
`I128Max` and every rounded result against `I64Max`, as `checked_*` does, and an
overflow is the empty `Option`. ffprobe's seconds are a number and how many of
its digits stand behind the point; more than nine digits, a number that is wider
than an `i128` once it is scaled, or no number at all, is malformed. `NormaliseFailure` has one reason for each `?` of `normalize`.
`ProbedExtraction` runs the probe as the first step of `Extraction`: what was an
arbitrary `NormalizedMedia` there is what `normalize` makes of ffprobe's output
here, so that the exact times can be compared with what the manifest claims.
Sizes, codecs, frame rates and titles decide nothing and are left out. The streams
are a set, so that the primary video stream, which the code takes to be the first
that is no cover picture, is here the one with the lowest index (section 5).
`RoundPublicRange` is translated and proved about with the rest of `time.rs`; no
operation calls it and no run uses it.

### LineReader, ControlLines and ControlRules

A byte is one of a few kinds: one that makes a whole `StartRequest` or
`CancelRequest` by itself, a blank, a newline, anything else. That is what lets
a line be at, below and above the cap with caps of a few bytes. `sent` is
everything the Host wrote, `fetched` how much of it the stdin buffer has taken
from the pipe, `used` how much of that a reader has taken, `collected` the line
in progress. The first reader (main, for the request) is dropped and a second
one (the control thread) goes on with the same buffer. `ControlLines` knows none
of this: it cuts `sent` at its newlines. `ImplementsLines` maps its `at` to the
beginning of the line in progress.

### BundleContents, Doctor, DerivationKeys and Bundle

A content is a value that stands for its own SHA-256, and canonical JSON is the
value itself: digests are injective, which is what the code relies on. `disk`
maps each path to at most one file, a content and whether it is a link.
`Manifest`, `Descriptor`, `Build` and `Output` say what a content is when it is
parsed or started. `Install` changes one path to one of its `Replacement`s; it
may come between any two steps of a command. The doctor opens one file per step,
in the order of `DOCTOR_CHECK_NAMES`; opening and hashing one file are one step
each (`InspectFile`, `HashFile`), the final walk of the directory is one step.
`touched` and `calm` are history variables: the paths changed since the last
doctor began, and whether the disk has rested since the current command began.

`Version` teaches the Host an identity. `StartRun` sends a request under the key
that the Host computes from an identity it knows, possibly from before an
upgrade. The run then does what `run_run_command` does with the installation:
look for the descriptor, look for the tools, recompute the key, start each tool
by its path. Without a readable descriptor the request is not validated
(`SkipValidation`): the session starts with the tools that were found, under a
stand-in for the fingerprint (`NoToolchain`), and finds out only then whether
there is an input. Every operation but `probe` writes a manifest, which
recomputes the key once more (`DerivationRechecked`). `ran` holds the runs that
passed validation, and only those: the promise of `OneKeyOneWork` is about them.
One command runs at a time; commands only read the disk, so that
two at once do not meet. The `SCENE_CORE_*` variables are unset here, and
`RunSession` has every combination of outcomes they can cause.

## 3. Runs

| run | question | instance | states |
|---|---|---|---|
| `event_stream` | do the validator's rules give a Host what the contract says? | 3 identities, one invalid, 2 stages, totals up to 2, 5 events | 96 thousand |
| `run_safety` | state invariants of a run | every operation, defect, environment and line kind; both staging faults; stdout may fail; 1 chunk | 1.7 million |
| `run_order` | refinement of `EventStream`, precedence, does a run end? | every echoable request, both toolchain states, a hanging tool, cancel, violation and EOF | 150 thousand |
| `process_runner` | draining, notes, refinement, liveness | a silent and two chatty plans; limits of 2 and 1, pipes and reads of 2 bytes | 68 thousand |
| `extraction` | exact times, files, manifest, bounds and window of both extractions | some 560 requests and what ffprobe prints for them, 11 tool outputs, all five faults | 52 thousand |
| `control_reader` | are the lines the engine sees those the Host sent? | 6 kinds of byte, texts of up to 6; cap, pipe and reads of 2 | 250 thousand |
| `bundle` | can a Host rely on `doctor`, on keys and on upgrades, and on what without a descriptor? | 9 paths, 5 manifests, 7 requests; 2 changes, 2 commands | 1.4 million |
| `no_fingerprint`, `false_cancel`, `reopen`, `echo`, `preroll` | five disagreements (section 6) | one request each | small |

Bounds. In `MCProbedExtraction` streams start before, at and after the
container's origin, on a millisecond and half a millisecond beside it, last 5 or
10 seconds or are unknown, and windows begin before and after the end of the
stream and end before and after it, or are open. `Oddities` and `Refused` have
one input for each thing `normalize` tolerates or refuses; the widths of
integers lie between the products that occur, so that each checked operation
both succeeds and overflows, and `U64Max` lets some estimates saturate. The limit
of 320000 bytes lies between one and two channels of a window, so that both
outcomes of the estimate occur. Tool outputs cover an empty track, the exact
lengths of the windows, and lengths on either side of them. `MaxSequence` in
`MCEventStream` ends streams at 5 events: enough for progress in one stage, in
another and in the first again after `accepted`, or with a `running` event between
two, and more than a run ever emits, so each rule meets a stream that has
everything before it. One hash chunk gives a
step between two loads of the flag. A plan that writes more than
`Limit + PipeCapacity` bytes makes the tool block unless somebody reads, and
limits that a read of `BufferSize` reaches exactly and straddles cover
`read_capped`'s cases. With a cap of 2, `MaxBytes` of 6 has room for the request,
its newline, a line of cap + 1 bytes and one byte behind it, or for two short
lines after the request, and reads of 2 bytes cut them everywhere. Two commands
are a doctor or `version` and what the Host does next; two changes are an upgrade
of two files that belong together, or damage and repair. Among the replacements of
the descriptor is one that is there but not valid, with which the tools are found
and the fingerprint is not. Numbers larger than
these only repeat these cases; the theorems hold for all of them.

`EventStream.LossIsDetected` compares an accepted, complete transcript with
every transcript that has one event removed or repeated.

Deadlock is checked in the run, process runner and extraction models; `Exited`,
`Returned` and `Done` are the only states in which nothing more happens.
`event_stream` turns it off because a stream ends, `control_reader` because a
Host may stop writing, and `bundle` because its commands are bounded.

Fairness. `FairSpec` of `RunSession` assumes that the main thread is scheduled
and that a killed tool dies. `Terminates` assumes also that the deadline thread
wakes up and is scheduled (`DeadlinePasses`). Nothing is assumed of the Host,
of a tool that has not been killed, or of the reader thread. `FairSpec` of
`ProcessRunner` assumes that the caller and the two reader threads are
scheduled, each stream's thread on its own, and that a killed process dies;
`ChattyToolReturns` assumes also that the tool gets on with its work and that
its grandchildren end. `FairSpec` of `LineReader` assumes only that the engine's
thread is scheduled: the Host need never write again, so
`EveryLineIsHandled` and `EndlessLineIsRefused` say that the reader waits for
nothing beyond the newline or the byte over the cap.

Faulty variants. Next to an action there may be a variant with a plausible bug
(`PollWithoutFlag`, `StoreExactFillTruncates`, ...). They are used by no
specification; with one of them in place of the real definition the property
named after it in `PROJECT.json` fails.

## 4. Proofs

`RunSessionProofs` proves ten properties for all requests, environments, lines,
faults and chunk counts. The inductive invariant adds to the type invariant what
each position of the main thread says about the stream (which events are out),
the tool (`child` is present only from `poll` to `classify`), the input (a
position after `hash` with the real backend and a known fingerprint means that
the whole input was hashed) and the flags (`cancelled` has a cause: a cancel
line, the deadline or a violation; a timer that has fired has set `timedOut`).
None of these is in the code as an assertion; without them `NoTerminalWhileToolRuns`
and `ToolRunsOnVerifiedInput` are not inductive. The three precedence
properties say that something never happens again, from a flag that is up before
main looks for it the last time: each is proved from an
invariant over the rest of the run (a set flag stays set, a position that has
passed its check cannot be left towards `completed`), carried by
`StepOutput`, `StepChecks` and `FlagsStay`. `RunImplementsEventStream` is the
refinement: `Fits` says that the event a step emits is the one the validator
would accept after the stream so far, which needs that the position of the main
thread fixes which events are out (`StreamPhase`). It has two premises, that no
request has a bad echo (the defect `context`) and that staging can be opened
again: without them it is false, as the runs `echo` and `reopen` show.

`ProcessRunnerProofs` proves exactness of the output for every limit, pipe,
buffer and plan, and that `ProcessRunner` implements `ToolCall`. The invariant
is one of conservation (`written = pipe + ` what was read, and what was read is
what was collected unless the limit was reached) and one about notes (a tool
that was killed has left `timedOut` or `cancelled` set in the caller).

`ExtractionProofs` proves seven properties for all jobs, contents and faults.
Its invariant says that no slot is both listed and still to be filled, that a
listed file is the one whose content was hashed, and that while the backend
runs any other file in output/ is the one at hand. This is what
`ManifestMatchesFiles` needs, which by itself says nothing until the run has
completed. `WindowRespected` adds that a listed track was accepted by the guard
(`Accepted`) and that it was planned for a stream that exists
(`TrackWasPlanned`; that a set of numbered streams has a lowest one is
`LowestIsMember`, from the well-foundedness of the naturals); the rest is
arithmetic about clamps (`ExpectedInWindow`) and the monotony of the tolerance.
`SizeRespected` goes from the plan to the file: an estimate that does not exceed
the limit has not saturated, because `LimitAssumption` puts the largest integer
a thousand times above it, so it is a true bound on what the window holds, and
the guard keeps the file within the window. `ExactTracksArePublished` is the other
side of the guard: a track with exactly the samples its stream has inside the
window is within the tolerance, for every rate, window and end. It holds up to a
second of pre-roll, which is where the run `preroll` shows it to fail.

`ProbedExtractionProofs` goes from ffprobe's decimals to the manifest, for integers
of every width. First the arithmetic of `time.rs`: `gcd` is the greatest common
divisor, `from_parts` keeps the value in lowest terms, a checked product is the
product or does not fit; `to_ms_round_nearest` is nearest and leaves ties away
from zero, and a public range covers its interval and cannot be made smaller.
The division of negative numbers, which TLA+ and Rust round differently, is
where these proofs work. Then `NormalMediaIsValid`: what `normalize` accepts is
media as `Extraction` assumes it, so that its invariant, with what the probe has
found added (`ProbedInv`), is an invariant of `ProbedSpec` and every property of
`Extraction` holds of `ProbedExtraction` too (`ProbedBackendIsSafe`,
`ProbedBackendIsForeseen`, `ProbedBackendPublishes`). Last the times.
`ProbedTimesFollow` needs that rounding the reduced fraction is rounding the
decimal (`NearestInAnyForm`); the provers know nothing of powers of ten, and those
that a decimal can have, up to nine digits, are split by cases. `TrackStartFollows` adds two
roundings, of the stream's start and of the container's origin, and what the
clamp at zero leaves of them.

`LineReaderProofs` proves that the two readers implement `ControlLines` for every
cap, pipe, read size and text. The invariant is that `collected` is exactly the
part of `sent` behind the last newline taken, and that a reader which has seen
the end of the stream has used everything. `OnlyAWholeLineCancels` follows from
the same invariant and the history of the lines taken.

`DoctorProofs` has two invariants. One relates each check made to the files as
they were when it was made: whatever is not `touched` is still so. The other
(`DoctorFinds`) is about a doctor that nobody disturbs: every check so far is
right about the manifest that is there, whether it passed or failed, and the
position of the doctor says which files it has already found intact and which
tools it has started. There is one lemma for each step (`...Finds`), and most
work is in the failures: a check that fails must be shown to have met a reason.
`BundleProofs` proves `DoctorsAreExact` from the second, what an ok report is
worth from the first, then what keys are worth: `OneKeyIsOneWork` from the
injectivity of the digests and the order of the checks in `RequestFailure`;
`StaleKeysAreRefused` and `VerifiedBundlesRunGenuineTools` from what each position
of the run has looked up, as long as `calm`, or an empty `touched`, says that it
still holds. `StaleKeysAreRefused` has two halves. With a descriptor, a run that
has got to its tools has been validated against it (`AtRest`). Without one, a run
that completes and is no probe has passed the key check of its manifest, whose
fingerprint is then `NoToolchain`; no Host has that in a key (`NobodysKey`), since
`version` tells only digests of descriptors that can be read.

`EventStreamProofs` proves the three properties of the validator itself, for
transcripts of every length and any set of stages. The invariant behind
`ProgressIsMonotone` adds that there is a last progress event (`HasLast`): the
validator compares a new one with it alone, and the events before it, back to the
last change of stage, are compared through it.

Assumptions: those named in the modules (`...Assumption`), which are types of
constants, `LimitAssumption` above, that stream indices are distinct and rates
and channel counts positive, which `NormalizedMedia::validate` checks;
`ProbedJobsAssumption`, that `Jobs` holds whatever job a request can become; that the
options' times are `u64`; that a listed path is not empty, which
`validate_relative_ref` checks; `NoToolchainAssumption`, that the bytes
`toolchain-unavailable` are no descriptor; `Limit`, `PipeCapacity` and `BufferSize` are
naturals. `NormalMediaIsValid` shows that the two assumptions on `Jobs` go
together: nothing that `normalize` accepts is excluded by the one on media.

Every state invariant and action property that a passing run checks is proved.
Model-checked only are the six liveness properties (`Terminates`,
`InterruptStopsTheRun`, `ChattyToolReturns`, `InterruptReturns`,
`EveryLineIsHandled`, `EndlessLineIsRefused`): fairness is stated with ENABLED,
which is out of the prover's reach.

## 5. Assumptions about the outside

SIGKILL and TerminateProcess kill, and a following `wait` returns; the kill and
wait after a failed `try_wait` are one step. The staging directory belongs to one
attempt, so the input does not change between the hash and a tool's open, and
output/ is empty at the start. A tool that exits with 0 and leaves a file has
written all of it, in the rate and channel count asked for. A rename is atomic.
SHA-256 does not collide. ffprobe prints the streams in the order of their indices. A tool that is started by `doctor` answers: its
`-version` has no time limit in the code. Resolving a path and reading the file
behind it are one step of the disk, and so is the doctor's walk. The reader and
timer threads end with the process. A grandchild of a tool only holds
the pipes.

## 6. Disagreements shown by runs

* `no_fingerprint`: a comment in `cli.rs` (line 172) says that a missing
  toolchain fingerprint gives `TOOL_UNAVAILABLE`. When the binaries resolve all
  the same, the request is not validated and a probe completes. `Bundle` shows
  what that means for upgrades: with a descriptor that is damaged, a probe under
  a key of any other engine or toolchain completes, while the extractions do
  their work and end in `ENGINE_INTERNAL`, because the manifest's key does not
  match (`StaleKeyIsRefused`).
* `false_cancel`: the contract defines `CANCELLED` as an explicit cancellation by
  the Host. A deadline or violation that lands between two of main's loads
  is reported as `cancelled`.
* `reopen`: when the staging directory cannot be opened again after an
  interrupted hash, the event is `failed` with the code `CANCELLED`, which
  `EventEnvelope::validate` rejects.
* `echo`: a request with attempt 0 is refused with an event that repeats attempt
  0 and so does not validate.
* `preroll`: the specification of `extract_audio_pcm` (2.3) cuts off the part of
  a track before the container's origin. The end of the stream is computed from
  its clamped start and its whole duration, so with more than a second of
  pre-roll the continuity guard expects more than there is and the correct
  track is refused.

Further things the models brought up, for which no run exists:

* The cache contract (host-cache-contract.md:38) and the protocol
  specification (scene-core-phase0-protocol-0.1.md:177, 373, 448) speak of a
  digest of the effective options, with defaults filled in. The code digests the
  options as they are written, so that two spellings of one request have two
  keys. This costs a cache hit; `OneKeyOneWork` is not affected.
* The protocol specification (scene-core-phase0-protocol-0.1.md:240) wants
  progress to be monotonic within one stage. The validator remembers only the
  last progress event (event.rs:326-335), so that it accepts 2 in stage A, then
  0 in stage B, then 1 in A. The engine itself emits one progress event per run.
* The doctor reads the descriptor that the manifest names; `version` and `run`
  read `toolchain-descriptor.json`. A manifest that names another file passes
  all checks, and a key under its fingerprint is refused. A stray
  `bin/toolchain-descriptor.json` redirects `resolve_bundle_root`. Both are
  premises of `VerifiedBundleRunsGenuineTools`.
* `ENGINE_EXECUTABLE_INVALID` cannot be printed: a broken build makes the
  report's own identity invalid, and `validate` replaces the report by
  `ENGINE_INTERNAL`. A failure message that quotes a path of close to 1024 bytes
  does the same.
* A toolchain that is replaced after the run has resolved its fingerprint runs
  under the old key. No rule of the repository forbids it; `StaleKeyIsRefused`
  speaks of installations at rest (`calm`).

## 7. Plan

Done, in this order: `Protocol`, `EventStream`, `ControlStream`, `RunSession`,
`ToolCall`, `ProcessRunner`, `AudioWindow`, `Extraction`; then `LineReader` with
`ControlLines`, `ExactTime`, `ProbeNormalisation` and `ProbedExtraction`,
`BundleContents`, `Doctor`, `DerivationKeys` and `Bundle`; the proofs of all of
them and of the refinement of `EventStream` by `RunSession`. What could follow:

* `LineReader` in place of the reader thread of `RunSession`. `ControlLines` is
  the interface between the two; the product is too large for TLC.

## 8. Not modelled

* Value types (`values.rs`) and canonical JSON: parsing and formatting of single
  values, without state or interaction. The models start from parsed values.
* `validate_temporal_segments` (`segment.rs`): no operation of the engine makes
  or checks segments.
* Texts inside manifests, descriptors and reports (versions, licence names,
  messages): one flag each (`plain`).
* The ffmpeg and ffprobe command lines, and what the tools do with them: any
  result the code distinguishes.
* Packaging, scripts, schemas and fixtures: build artefacts and data.
* Two things by design without a property: the first line is read before there
  is a deadline, and `doctor` waits for a tool without one.
