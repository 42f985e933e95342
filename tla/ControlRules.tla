---------------------------- MODULE ControlRules ----------------------------
(***************************************************************************)
(* What the Host's control lines mean to a run: the first line is the      *)
(* StartRequest; every later line is ignored, cancels the run or ends the  *)
(* control stream.                                                         *)
(*                                                                         *)
(* A line is a sequence of bytes, and a byte stands for a piece of text    *)
(* that is told apart: a whole message, white space, other text, or a byte *)
(* that no UTF-8 text holds.                                               *)
(*                                                                         *)
(* crates/scene-core-engine/src/cli.rs, run.rs;                            *)
(* crates/scene-core-protocol/src/control.rs                               *)
(***************************************************************************)
EXTENDS ControlStream, Options, Sequences

CONSTANT Cap  \* MAX_CONTROL_LINE_BYTES

ASSUME CapAssumption == Cap \in Nat \ {0}

VARIABLES
  reading,     \* the line awaited: the request, a control line, or none
  answer,      \* what became of the first line
  cancelSeen,  \* the one CancelRequest was accepted
  violation    \* Option: the line that broke the protocol

rulesVars == <<reading, answer, cancelSeen, violation>>

Message == {"start", "cancel", "foreign_cancel"}
Byte    == Message \cup {"space", "text", "newline", "illegal"}

\* MessageTypeProbe and the parsers behind it: a line means its only message,
\* white space around it does not matter.
Meaning(text) ==
  LET solid == {i \in DOMAIN text : text[i] # "space"}
  IN  IF solid = {} THEN "blank"
      ELSE IF \E i \in solid : solid = {i} /\ text[i] \in Message
      THEN text[CHOOSE i \in solid : TRUE]
      ELSE "garbage"

\* CappedLine::new, and the order in which its flags are looked at.
Kind(text) ==
  IF Len(text) > Cap THEN "oversized"
  ELSE IF \E i \in DOMAIN text : text[i] = "illegal" THEN "not_utf8"
  ELSE Meaning(text)

RulesTypeOK ==
  /\ reading \in {"request", "control", "stopped"}
  /\ answer \in {"pending", "accepted", "refused"}
  /\ cancelSeen \in BOOLEAN
  /\ violation \in Option(LineKind)

RulesInit ==
  /\ reading = "request" /\ answer = "pending"
  /\ cancelSeen = FALSE /\ violation = {}

\* The first line: nothing but a StartRequest opens a session, and a blank
\* line is not skipped.
TakeRequest(line) ==
  /\ reading = "request"
  /\ reading' = IF line = "start" THEN "control" ELSE "stopped"
  /\ answer'  = IF line = "start" THEN "accepted" ELSE "refused"
  /\ UNCHANGED <<cancelSeen, violation>>

\* A later line.  The end of the stream is neither a cancel nor a violation.
TakeControl(line) ==
  /\ reading = "control"
  /\ cancelSeen' = (cancelSeen \/ IsAcceptedCancel(line, cancelSeen))
  /\ violation'  = IF IsViolation(line, cancelSeen) THEN {line} ELSE violation
  /\ reading'    = IF IsViolation(line, cancelSeen) \/ line = "eof"
                   THEN "stopped" ELSE "control"
  /\ UNCHANGED answer

Take(line) == TakeRequest(line) \/ TakeControl(line)

=============================================================================
