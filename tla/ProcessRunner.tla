--------------------------- MODULE ProcessRunner ---------------------------
(***************************************************************************)
(* process::run: one child process, a thread per output pipe that drains   *)
(* it into a bounded buffer, and the caller's poll loop, which kills the   *)
(* child for the cancellation flag and for the call's own time cap, reaps  *)
(* it and collects what the two threads have to report.                    *)
(*                                                                         *)
(* Bytes are counted, not represented.  What runs outside the engine (the  *)
(* tool, a process it leaves behind, the kernel's pipe) is modelled from   *)
(* what the code has to cope with.                                         *)
(*                                                                         *)
(* crates/scene-core-media/src/process.rs                                  *)
(***************************************************************************)
EXTENDS Naturals

Stream == {"stdout", "stderr"}

CONSTANTS
  Plans,         \* how many bytes a tool may mean to write to each stream
  Limit,         \* stdout_limit_bytes and stderr_limit_bytes
  BufferSize,    \* the most that one read returns
  PipeCapacity   \* bytes the kernel holds before a writer blocks

ASSUME PlansAssumption == Plans \subseteq [Stream -> Nat]
ASSUME LimitAssumption == Limit \in [Stream -> Nat]
ASSUME BufferAssumption == BufferSize \in Nat \ {0}
ASSUME PipeAssumption == PipeCapacity \in Nat \ {0}

VARIABLES
  plan, tool, heir,             \* the tool, and a process that it leaves
  written, pipe,                \* bytes written so far, and not yet read
  drain, collected, truncated,  \* read_capped, one thread per stream
  flag, due,                    \* RunControl's flag; the time cap is over
  pc, timedOut, cancelled,      \* the poll loop
  result

toolVars  == <<plan, tool, heir, written>>
drainVars == <<drain, collected, truncated>>
mainVars  == <<pc, timedOut, cancelled, result>>
signals   == <<flag, due>>
vars      == <<toolVars, pipe, drainVars, signals, mainVars>>

Ended == {"succeeded", "failed", "died"}

Least(a, b) == IF a <= b THEN a ELSE b

\* Command::spawn has succeeded and the two threads are running.
Init ==
  /\ plan \in Plans /\ tool = "running" /\ heir = FALSE
  /\ written = [s \in Stream |-> 0] /\ pipe = [s \in Stream |-> 0]
  /\ drain = [s \in Stream |-> "reading"]
  /\ collected = [s \in Stream |-> 0]
  /\ truncated = [s \in Stream |-> FALSE]
  /\ flag \in BOOLEAN /\ due = FALSE
  /\ pc = "flag" /\ timedOut = FALSE /\ cancelled = FALSE
  /\ result = "pending"

-----------------------------------------------------------------------------
(* The tool.                                                               *)

\* One byte; a full pipe blocks the tool.
Write(s) ==
  /\ tool \in {"running", "killed"} /\ written[s] < plan[s]
  /\ drain[s] = "reading" /\ pipe[s] < PipeCapacity
  /\ written' = [written EXCEPT ![s] = @ + 1]
  /\ pipe' = [pipe EXCEPT ![s] = @ + 1]
  /\ UNCHANGED <<plan, tool, heir, drainVars, signals, mainVars>>

\* Nobody reads the pipe any more.
BrokenPipe(s) ==
  /\ tool = "running" /\ written[s] < plan[s] /\ drain[s] = "broken"
  /\ tool' = "failed"
  /\ UNCHANGED <<plan, heir, written, pipe, drainVars, signals, mainVars>>

\* Another process inherits both pipes.
Fork ==
  /\ tool = "running" /\ ~heir /\ heir' = TRUE
  /\ UNCHANGED <<plan, tool, written, pipe, drainVars, signals, mainVars>>

Exit ==
  /\ tool = "running" /\ written = plan
  /\ tool' \in {"succeeded", "failed"}
  /\ UNCHANGED <<plan, heir, written, pipe, drainVars, signals, mainVars>>

ToolWork == Exit \/ \E s \in Stream : Write(s) \/ BrokenPipe(s)

Die ==
  /\ tool = "killed" /\ tool' = "died"
  /\ UNCHANGED <<plan, heir, written, pipe, drainVars, signals, mainVars>>

HeirExits ==
  /\ heir /\ heir' = FALSE
  /\ UNCHANGED <<plan, tool, written, pipe, drainVars, signals, mainVars>>

\* The write ends are open.
Open == tool \in {"running", "killed"} \/ heir

-----------------------------------------------------------------------------
(* read_capped.                                                            *)

\* Faulty variants: a read that fills the buffer exactly counts as truncated;
\* the tail of a straddling read is kept; the thread stops at the limit.
StoreExactFillTruncates(s, n) ==
  LET take == Least(Limit[s] - collected[s], n) IN
  /\ collected' = [collected EXCEPT ![s] = @ + take]
  /\ truncated' = [truncated EXCEPT ![s] = @ \/ collected'[s] = Limit[s]]

StoreWholeRead(s, n) ==
  /\ collected' = [collected EXCEPT ![s] = IF @ < Limit[s] THEN @ + n ELSE @]
  /\ truncated' = [truncated EXCEPT ![s] = @ \/ collected[s] + n > Limit[s]]

ReadUpToLimit(s) ==
  /\ drain[s] = "reading" /\ collected[s] < Limit[s]
  /\ \E n \in 1 .. Least(BufferSize, pipe[s]) :
       /\ pipe' = [pipe EXCEPT ![s] = @ - n]
       /\ collected' = [collected EXCEPT ![s] = Least(Limit[s], @ + n)]
       /\ truncated' = [truncated EXCEPT ![s] = @ \/ collected[s] + n > Limit[s]]
  /\ UNCHANGED <<toolVars, drain, signals, mainVars>>

\* The bytes of one read: what still fits is kept, the rest is only noted.
Store(s, n) ==
  \/ /\ collected[s] < Limit[s]
     /\ LET take == Least(Limit[s] - collected[s], n) IN
        /\ collected' = [collected EXCEPT ![s] = @ + take]
        /\ truncated' = [truncated EXCEPT ![s] = @ \/ take < n]
  \/ /\ collected[s] >= Limit[s]
     /\ truncated' = [truncated EXCEPT ![s] = TRUE]
     /\ UNCHANGED collected

\* A read returns any part of what the pipe holds.
Read(s) ==
  /\ drain[s] = "reading"
  /\ \E n \in 1 .. Least(BufferSize, pipe[s]) :
       /\ pipe' = [pipe EXCEPT ![s] = @ - n]
       /\ Store(s, n)
  /\ UNCHANGED <<toolVars, drain, signals, mainVars>>

EndOfFile(s) ==
  /\ drain[s] = "reading" /\ pipe[s] = 0 /\ ~Open
  /\ drain' = [drain EXCEPT ![s] = "sent"]
  /\ UNCHANGED <<toolVars, pipe, collected, truncated, signals, mainVars>>

\* Any error but an interrupted call; the read end is closed.
ReadFails(s) ==
  /\ drain[s] = "reading"
  /\ drain' = [drain EXCEPT ![s] = "broken"]
  /\ UNCHANGED <<toolVars, pipe, collected, truncated, signals, mainVars>>

-----------------------------------------------------------------------------
(* The caller.                                                             *)

Killed == IF tool = "running" THEN "killed" ELSE tool

\* The loop's first look: the cancellation flag.
CheckFlag ==
  /\ pc = "flag" /\ pc' = "cap"
  /\ cancelled' = (cancelled \/ flag)
  /\ tool' = IF flag THEN Killed ELSE tool
  /\ UNCHANGED <<plan, heir, written, pipe, drainVars, signals, timedOut,
                 result>>

\* Faulty variant: the time cap kills without leaving a note.
CheckCapUnnoted ==
  /\ pc = "cap" /\ pc' = "try_wait"
  /\ tool' = IF due THEN Killed ELSE tool
  /\ UNCHANGED <<plan, heir, written, pipe, drainVars, signals, timedOut,
                 cancelled, result>>

\* Its second look: the clock.
CheckCap ==
  /\ pc = "cap" /\ pc' = "try_wait"
  /\ timedOut' = (timedOut \/ due)
  /\ tool' = IF due THEN Killed ELSE tool
  /\ UNCHANGED <<plan, heir, written, pipe, drainVars, signals, cancelled,
                 result>>

\* try_wait; a failing wait kills, waits and gives up.
TryWait ==
  /\ pc = "try_wait"
  /\ \/ /\ tool \in Ended /\ pc' = "stdout"
        /\ UNCHANGED <<tool, result>>
     \/ /\ tool \notin Ended /\ pc' = "flag"
        /\ UNCHANGED <<tool, result>>
     \/ /\ tool' = IF tool \in Ended THEN tool ELSE "died"
        /\ pc' = "done" /\ result' = "error"
  /\ UNCHANGED <<plan, heir, written, pipe, drainVars, signals, timedOut,
                 cancelled>>

\* ProcessOutput.success and what the callers look at next.
Outcome ==
  IF timedOut \/ cancelled THEN "interrupted"
  ELSE IF tool = "succeeded" THEN "success" ELSE "failure"

\* Faulty variant: recv() instead of recv_timeout().
CollectPatiently(s) ==
  /\ pc = s
  /\ \/ /\ drain[s] = "sent"
        /\ pc' = IF s = "stdout" THEN "stderr" ELSE "done"
        /\ result' = IF s = "stdout" THEN result ELSE Outcome
     \/ /\ drain[s] = "broken"
        /\ pc' = "done" /\ result' = "error"
  /\ UNCHANGED <<toolVars, pipe, drainVars, signals, timedOut, cancelled>>

\* collect_output: the report of one thread, or two seconds without one.
Collect(s) ==
  /\ pc = s
  /\ \/ /\ drain[s] = "sent"
        /\ pc' = IF s = "stdout" THEN "stderr" ELSE "done"
        /\ result' = IF s = "stdout" THEN result ELSE Outcome
     \/ /\ drain[s] # "sent"
        /\ pc' = "done" /\ result' = "error"
  /\ UNCHANGED <<toolVars, pipe, drainVars, signals, timedOut, cancelled>>

Main == CheckFlag \/ CheckCap \/ TryWait \/ \E s \in Stream : Collect(s)

-----------------------------------------------------------------------------
RaiseFlag ==
  /\ ~flag /\ flag' = TRUE
  /\ UNCHANGED <<toolVars, pipe, drainVars, due, mainVars>>

CapPasses ==
  /\ ~due /\ due' = TRUE
  /\ UNCHANGED <<toolVars, pipe, drainVars, flag, mainVars>>

Returned ==
  /\ pc = "done" /\ tool \in Ended /\ ~heir
  /\ \A s \in Stream : drain[s] # "reading"
  /\ UNCHANGED vars

Next ==
  \/ ToolWork \/ Fork \/ Die \/ HeirExits
  \/ \E s \in Stream : Read(s) \/ EndOfFile(s) \/ ReadFails(s)
  \/ Main
  \/ RaiseFlag \/ CapPasses
  \/ Returned

Spec == Init /\ [][Next]_vars

\* The three threads are scheduled and SIGKILL works; nothing is assumed of
\* the tool, of what it leaves behind or of the flag.
FairSpec ==
  /\ Spec
  /\ WF_vars(Main) /\ WF_vars(Die)
  /\ \A s \in Stream : WF_vars(Read(s)) /\ WF_vars(EndOfFile(s))

-----------------------------------------------------------------------------
TypeOK ==
  /\ plan \in Plans /\ tool \in {"running", "killed"} \union Ended
  /\ heir \in BOOLEAN
  /\ written \in [Stream -> Nat] /\ pipe \in [Stream -> 0 .. PipeCapacity]
  /\ drain \in [Stream -> {"reading", "sent", "broken"}]
  /\ collected \in [Stream -> Nat] /\ truncated \in [Stream -> BOOLEAN]
  /\ \A s \in Stream : collected[s] <= Limit[s]
  /\ flag \in BOOLEAN /\ due \in BOOLEAN
  /\ pc \in {"flag", "cap", "try_wait", "stdout", "stderr", "done"}
  /\ timedOut \in BOOLEAN /\ cancelled \in BOOLEAN
  /\ result \in {"pending", "success", "failure", "interrupted", "error"}

\* What the caller gets without an error is everything that was written, cut
\* off at the limit, and `truncated` says whether anything was cut off:
\* however the reads were sized, and whoever kept the pipe open for a while.
OutputIsExact ==
  result \notin {"pending", "error"} =>
    \A s \in Stream :
      /\ collected[s] = Least(written[s], Limit[s])
      /\ truncated[s] <=> written[s] > Limit[s]

TC == INSTANCE ToolCall WITH answer <- result

\* The call keeps ToolCall's promises: an answer comes after the tool is gone,
\* and a tool that was killed is never reported as having failed by itself.
AnswersTruthfully == TC!Spec

\* The tool gets on with its work and what it leaves behind ends.
ToolCooperates == WF_vars(ToolWork) /\ WF_vars(HeirExits)

\* A tool that writes far more than the limits and the pipes hold, on both
\* streams in any order, is never blocked for good: the call returns without
\* a kill.
ChattyToolReturns == ToolCooperates => <>(pc = "done")

\* Whatever the tool does, and whoever still holds its pipes, the call returns
\* once the flag is up or the cap is over.
InterruptReturns == (flag \/ due) ~> pc = "done"

=============================================================================
