----------------------------- MODULE LineReader -----------------------------
(***************************************************************************)
(* How the engine cuts its stdin into lines.  The Host writes bytes into a *)
(* pipe, at its own pace or not at all; the process's one stdin buffer     *)
(* fetches what is there; a CappedLines reader takes bytes out of the      *)
(* buffer until a newline, the end of the stream, or one byte more than    *)
(* the cap.  The main thread reads the StartRequest with one such reader   *)
(* and drops it; the control thread reads the rest with another.           *)
(*                                                                         *)
(* crates/scene-core-engine/src/cli.rs                                     *)
(***************************************************************************)
EXTENDS ControlRules

CONSTANTS
  Written,   \* the kinds of byte the Host writes
  Chunk,     \* what one read of stdin fetches at most
  PipeSize,  \* bytes the pipe holds before the Host blocks
  MaxBytes   \* bound: bytes the Host writes

ASSUME ReaderAssumption ==
  /\ Written \subseteq Byte
  /\ Chunk \in Nat \ {0} /\ PipeSize \in Nat \ {0} /\ MaxBytes \in Nat

VARIABLES
  sent,      \* every byte the Host has written
  closed,    \* the Host has closed its end
  fetched,   \* how many of them the stdin buffer has taken from the pipe
  used,      \* how many of those a reader has taken from the buffer
  collected  \* the bytes of the line being read

pipe == <<sent, closed>>
vars == <<rulesVars, pipe, fetched, used, collected>>

Init ==
  /\ RulesInit
  /\ sent = <<>> /\ closed = FALSE
  /\ fetched = 0 /\ used = 0 /\ collected = <<>>

-----------------------------------------------------------------------------
\* The Host.  What it writes once nobody reads any more is of no interest.

Write(byte) ==
  /\ reading # "stopped" /\ ~closed
  /\ Len(sent) < MaxBytes /\ Len(sent) - fetched < PipeSize
  /\ sent' = Append(sent, byte)
  /\ UNCHANGED <<rulesVars, closed, fetched, used, collected>>

Close ==
  /\ reading # "stopped" /\ ~closed
  /\ closed' = TRUE
  /\ UNCHANGED <<rulesVars, sent, fetched, used, collected>>

-----------------------------------------------------------------------------
\* The engine.

\* Faulty variant: the buffer waits until it can be filled.
FetchFull(n) ==
  /\ reading # "stopped" /\ fetched = used
  /\ n = Chunk /\ n <= Len(sent) - fetched
  /\ fetched' = fetched + n
  /\ UNCHANGED <<rulesVars, pipe, used, collected>>

\* The buffer is empty, so the next byte costs a read of the pipe.
Fetch(n) ==
  /\ reading # "stopped" /\ fetched = used
  /\ n <= Len(sent) - fetched
  /\ fetched' = fetched + n
  /\ UNCHANGED <<rulesVars, pipe, used, collected>>

\* The next byte in the buffer.
InBuffer(byte) == used < fetched /\ byte = sent[used + 1]

\* next_line returns, and its caller handles the line.  The reader of the
\* request is dropped then; the bytes it left stay in the buffer of stdin.
Deliver(text, next) ==
  /\ Take(Kind(text))
  /\ collected' = <<>> /\ used' = next
  /\ UNCHANGED <<pipe, fetched>>

\* A byte within the cap.
Collect(byte) ==
  /\ reading # "stopped"
  /\ InBuffer(byte) /\ byte # "newline" /\ Len(collected) < Cap
  /\ collected' = Append(collected, byte) /\ used' = used + 1
  /\ UNCHANGED <<rulesVars, pipe, fetched>>

\* Faulty variant: every reader has a buffer of its own, and it is dropped.
EndOfLineOwnBuffer ==
  /\ InBuffer("newline")
  /\ Deliver(collected, fetched)

\* The newline is taken and dropped.
EndOfLine ==
  /\ InBuffer("newline")
  /\ Deliver(collected, used + 1)

\* Faulty variant: read_until without take waits for the newline.
OverCapUnlimited(byte) ==
  /\ reading # "stopped"
  /\ InBuffer(byte) /\ byte # "newline" /\ Len(collected) >= Cap
  /\ collected' = Append(collected, byte) /\ used' = used + 1
  /\ UNCHANGED <<rulesVars, pipe, fetched>>

\* Faulty variant: an oversized line is skipped and the reader goes on.
OverCapGoesOn(byte) ==
  /\ reading = "control"
  /\ InBuffer(byte) /\ byte # "newline" /\ Len(collected) = Cap
  /\ collected' = <<>> /\ used' = used + 1
  /\ UNCHANGED <<rulesVars, pipe, fetched>>

\* One byte past the cap is enough to know; the rest of the line stays unread.
OverCap(byte) ==
  /\ InBuffer(byte) /\ byte # "newline" /\ Len(collected) = Cap
  /\ Deliver(Append(collected, byte), used + 1)

Ended == reading # "stopped" /\ closed /\ used = Len(sent)

\* The stream ends within a line: what there is of it is a line.
LastLine ==
  /\ Ended /\ collected # <<>>
  /\ Deliver(collected, used)

EndOfStream ==
  /\ Ended /\ collected = <<>>
  /\ Take("eof")
  /\ UNCHANGED <<pipe, fetched, used, collected>>

\* A read of the pipe fails.  What was collected is lost, and might have been
\* a cancel, so the run fails.
ReadFails ==
  /\ fetched = used
  /\ Take("io_error")
  /\ collected' = <<>>
  /\ UNCHANGED <<pipe, fetched, used>>

-----------------------------------------------------------------------------
Host   == Close \/ \E byte \in Written : Write(byte)
Reader ==
  \/ \E n \in 1 .. Chunk : Fetch(n)
  \/ \E byte \in Byte : Collect(byte) \/ OverCap(byte)
  \/ EndOfLine \/ LastLine \/ EndOfStream

Next == Host \/ Reader \/ ReadFails

Spec == Init /\ [][Next]_vars

\* The engine's thread is scheduled.  The Host need never write again.
FairSpec == Spec /\ WF_vars(Reader)

-----------------------------------------------------------------------------
\* Everything has its type, and a reader never holds more than the cap.
TypeOK ==
  /\ RulesTypeOK
  /\ sent \in Seq(Byte) /\ closed \in BOOLEAN
  /\ fetched \in 0 .. Len(sent) /\ used \in 0 .. fetched
  /\ collected \in Seq(Byte \ {"newline"}) /\ Len(collected) <= Cap

\* Where the line that is being read begins.
LineStart == used - Len(collected) + 1

Lines == INSTANCE ControlLines WITH at <- LineStart

\* The reader takes the lines of the stream: each begins where the one before
\* it ended, none is left out, joined or cut in two, however its bytes came out
\* of the pipe and whichever of the two readers took them; only an oversized
\* line is not read to its end, and nothing is read after it.
ImplementsLines == Lines!Spec

\* A run is cancelled by one whole line of the Host and by nothing else: a
\* CancelRequest within the cap, after a StartRequest on the first line and
\* after nothing but blank lines.  The tail of a line that was given up, or a
\* message inside a longer line, never cancels.
OnlyAWholeLineCancels ==
  cancelSeen =>
    \E first, from, to \in 1 .. Len(sent) :
      /\ Lines!NoNewline(1, first) /\ Lines!IsLineEnd(1, first)
      /\ Kind(Lines!Bytes(1, first)) = "start"
      /\ first < from /\ sent[from - 1] = "newline"
      /\ Lines!NoNewline(from, to) /\ Lines!IsLineEnd(from, to)
      /\ Kind(Lines!Bytes(from, to)) = "cancel"
      /\ \A i \in first + 1 .. from - 1 : sent[i] \in {"newline", "space"}

\* A line the Host has finished is handled even if the Host never writes
\* another byte: the reader waits for no more than the newline.
EveryLineIsHandled ==
  \A k \in 1 .. MaxBytes :
    (k <= Len(sent) /\ sent[k] = "newline")
      ~> (used >= k \/ reading = "stopped")

\* A line that is over the cap is refused while the Host still holds back its
\* newline: a line without end cannot keep the control thread waiting.
EndlessLineIsRefused ==
  \A k \in 1 .. MaxBytes :
    (k + Cap <= Len(sent) /\ Lines!NoNewline(k, k + Cap))
      ~> reading = "stopped"

=============================================================================
