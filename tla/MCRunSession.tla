---------------------------- MODULE MCRunSession ----------------------------
(***************************************************************************)
(* Instances of RunSession for TLC.  The set of requests, environments and *)
(* control lines of a run decides which hazards are present in it.         *)
(***************************************************************************)
EXTENDS RunSession

Req(ops, defects) == [operation: ops, defect: defects]

EveryRequest == Req(Operation, Defect)

\* Requests whose executionContext may be echoed in a well-formed event.
EchoableRequest == Req(Operation, Defect \ {"context"})

GoodRequest == Req(Operation, {"none"})
GoodProbe   == Req({"probe"}, {"none"})
ContextOnly == Req({"probe"}, {"context"})

EveryEnvironment == Environment

\* Every toolchain, with a snapshot that can be read to its end.
Toolchains ==
  [fingerprint: BOOLEAN, binaries: BOOLEAN, input: {"match", "changed"}]

\* The toolchain is complete and the staged snapshot is the declared one.
Ready == [fingerprint: {TRUE}, binaries: {TRUE}, input: {"match"}]

NoFingerprint == [fingerprint: {FALSE}, binaries: {TRUE}, input: InputState]

EveryLine == LineKind

NoLine   == {}
HostLine == {"cancel", "eof", "start"}

=============================================================================
