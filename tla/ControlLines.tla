---------------------------- MODULE ControlLines ----------------------------
(***************************************************************************)
(* The control stream as the protocol describes it: the text the Host has  *)
(* sent, cut at its newlines, taken a whole line at a time.  It knows no   *)
(* pipe, no buffer and no reader; LineReader implements it.                *)
(*                                                                         *)
(* docs/specs/scene-core-phase0-protocol-0.1.md;                           *)
(* crates/scene-core-protocol/src/control.rs                               *)
(***************************************************************************)
EXTENDS ControlRules

VARIABLES
  sent,    \* every byte the Host has written
  closed,  \* the Host has closed its end
  at       \* where the next line begins

\* The bytes of sent from one place to another.
Bytes(from, to) == SubSeq(sent, from, to)

NoNewline(from, to) == \A i \in from .. to : sent[i] # "newline"

\* The bytes from .. to end a line: a newline follows, or nothing ever will.
IsLineEnd(from, to) ==
  \/ to < Len(sent) /\ sent[to + 1] = "newline"
  \/ closed /\ to = Len(sent) /\ from <= to

Init == RulesInit /\ sent = <<>> /\ closed = FALSE /\ at = 1

HostWrites ==
  /\ ~closed
  /\ \E byte \in Byte : sent' = Append(sent, byte)
  /\ UNCHANGED <<rulesVars, closed, at>>

HostCloses ==
  /\ closed' = TRUE
  /\ UNCHANGED <<rulesVars, sent, at>>

\* A whole line within the cap, however long it took to arrive.
TakeLine ==
  \E to \in at - 1 .. Len(sent) :
    /\ to - at < Cap
    /\ NoNewline(at, to) /\ IsLineEnd(at, to)
    /\ Take(Kind(Bytes(at, to)))
    /\ at' = IF to < Len(sent) THEN to + 2 ELSE to + 1
    /\ UNCHANGED <<sent, closed>>

\* A line known to be over the cap is given up where it exceeds it.
GiveUpLine ==
  /\ at + Cap <= Len(sent) /\ NoNewline(at, at + Cap)
  /\ Take("oversized")
  /\ reading' = "stopped"
  /\ at' = at + Cap + 1
  /\ UNCHANGED <<sent, closed>>

\* The stream ends after its last line, or fails anywhere.
StreamEnds ==
  /\ closed /\ at = Len(sent) + 1
  /\ Take("eof")
  /\ UNCHANGED <<sent, closed, at>>

StreamFails ==
  /\ Take("io_error")
  /\ reading' = "stopped"
  /\ at' \in at .. Len(sent) + 1
  /\ UNCHANGED <<sent, closed>>

Next == HostWrites \/ HostCloses \/ TakeLine \/ GiveUpLine \/ StreamEnds \/ StreamFails

Spec == Init /\ [][Next]_<<rulesVars, sent, closed, at>>

=============================================================================
