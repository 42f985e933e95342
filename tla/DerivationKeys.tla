--------------------------- MODULE DerivationKeys ---------------------------
(***************************************************************************)
(* How a request names the work it asks for: the digests of its options    *)
(* and of its inputs, and the derivation key the Host caches the result    *)
(* under.  A digest of a canonical JSON value is modelled by that value.   *)
(*                                                                         *)
(* crates/scene-core-protocol/src/{control,input,identity,operation}.rs    *)
(***************************************************************************)
EXTENDS Contents, Protocol, Options, Sequences

CONSTANTS MaxInputSize, MaxDeadlineMs, MinRate, MaxRate, MaxChannels

ASSUME LimitsAssumption ==
  {MaxInputSize, MaxDeadlineMs, MinRate, MaxRate, MaxChannels} \subseteq Nat

\* The fields of AudioPcmOptions.  Options are a function on those present:
\* OperationOptions::Empty has none, and an absent field is not serialised.
OptionField == {"audioStreamIndex", "startMs", "endMs", "sampleRate", "channels"}

WrittenOptions == UNION {[fields -> Nat] : fields \in SUBSET OptionField}

\* OperationOptions::validate_for and AudioPcmOptions::validate
OptionsValid(operation, options) ==
  \/ DOMAIN options = {}
  \/ /\ operation = "extract_audio_pcm"
     /\ {"startMs", "endMs"} \subseteq DOMAIN options
          => options.startMs < options.endMs
     /\ "sampleRate" \in DOMAIN options
          => options.sampleRate \in MinRate..MaxRate
     /\ "channels" \in DOMAIN options
          => options.channels \in 1..MaxChannels

\* compute_operation_config_hash: of the options as they are written; no
\* default is filled in.
ConfigHash(options) == options

\* InputSetDescriptor::validate
InputsValid(inputs) ==
  /\ Len(inputs) = 1
  /\ inputs[1].role = "source_media"
  /\ inputs[1].size <= MaxInputSize

\* input_fingerprint: what is left of the inputs without their order (they are
\* sorted by role, and roles are unique) and without their refs.
InputFingerprint(inputs) ==
  {[role |-> inputs[i].role, content |-> inputs[i].content,
    size |-> inputs[i].size] : i \in 1..Len(inputs)}

\* The result contract each operation registers is named after it.
OutputContract(operation) == operation

\* derivation_descriptor and derive_key
DerivationKey(request, identity) ==
  [inputs      |-> request.inputFingerprint,
   operation   |-> request.operation,
   config      |-> request.configHash,
   contract    |-> request.contract,
   compat      |-> identity.compat,
   fingerprint |-> identity.fingerprint]

\* Faulty variant: the declared digest of the options is taken for theirs.
RequestValidAsDeclared(request) ==
  /\ OptionsValid(request.operation, request.options)
  /\ request.contract = OutputContract(request.operation)
  /\ request.attempt >= 1
  /\ \A deadline \in request.deadline : deadline \in 1..MaxDeadlineMs
  /\ InputsValid(request.inputs)
  /\ request.inputFingerprint = InputFingerprint(request.inputs)

\* StartRequest::validate, past the protocol version
RequestValid(request) ==
  /\ OptionsValid(request.operation, request.options)
  /\ request.configHash = ConfigHash(request.options)
  /\ request.contract = OutputContract(request.operation)
  /\ request.attempt >= 1
  /\ \A deadline \in request.deadline : deadline \in 1..MaxDeadlineMs
  /\ InputsValid(request.inputs)
  /\ request.inputFingerprint = InputFingerprint(request.inputs)

\* Faulty variant: the key is not recomputed.
RequestFailureAnyKey(request, key, identity) ==
  IF ~request.supported THEN {"UNSUPPORTED_PROTOCOL"}
  ELSE IF RequestValid(request) THEN {} ELSE {"INVALID_REQUEST"}

\* StartRequest::validate and validate_derivation, of a request under `key`
\* by an engine of `identity`
RequestFailure(request, key, identity) ==
  IF ~request.supported THEN {"UNSUPPORTED_PROTOCOL"}
  ELSE IF /\ RequestValid(request)
          /\ key = DerivationKey(request, identity)
       THEN {} ELSE {"INVALID_REQUEST"}

\* verify_staged_source, for what is staged, if anything is
StagedFailure(declared, staged) ==
  IF staged = {} THEN {"INPUT_NOT_FOUND"}
  ELSE IF \E content \in staged :
            declared.size = Size[content] /\ declared.content = content
       THEN {} ELSE {"INPUT_CHANGED"}

=============================================================================
