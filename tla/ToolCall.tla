------------------------------ MODULE ToolCall ------------------------------
(***************************************************************************)
(* What process::run promises whoever calls it: an answer is only given    *)
(* for a tool that is gone and reaped, and it tells the tool's own end     *)
(* from the one the engine inflicted on it.  ProcessRunner is shown to     *)
(* implement Spec; the backend of RunSession relies on it.                 *)
(*                                                                         *)
(* crates/scene-core-media/src/process.rs                                  *)
(***************************************************************************)

VARIABLES
  flag,      \* RunControl's cancellation flag
  due,       \* the tool's own time cap has passed
  tool,      \* the child process
  answer     \* what the caller gets

vars == <<flag, due, tool, answer>>

\* How a process can have ended: by itself, or by our SIGKILL.
Ended == {"succeeded", "failed", "died"}

Init ==
  /\ flag \in BOOLEAN /\ due \in BOOLEAN
  /\ tool = "running" /\ answer = "pending"

Interrupt ==
  /\ flag' \in {flag, TRUE}
  /\ due' \in {due, TRUE}
  /\ UNCHANGED <<tool, answer>>

Kill ==
  /\ flag \/ due
  /\ tool = "running" /\ tool' = "killed"
  /\ UNCHANGED <<flag, due, answer>>

End ==
  /\ \/ tool = "running" /\ tool' \in {"succeeded", "failed"}
     \/ tool = "killed" /\ tool' = "died"
  /\ UNCHANGED <<flag, due, answer>>

\* A success is the tool's own; a failure too.  "cancelled" and "timed out"
\* need a reason, but not a victim: the tool may have ended just before.
Answer ==
  /\ answer = "pending" /\ tool \in Ended
  /\ answer' \in {"success", "failure", "interrupted", "error"}
  /\ answer' = "success" => tool = "succeeded"
  /\ answer' = "failure" => tool = "failed"
  /\ answer' = "interrupted" => flag \/ due
  /\ UNCHANGED <<flag, due, tool>>

\* The wait itself failed: whatever the tool was doing, it is killed, waited
\* for and reported as an error.
WaitFails ==
  /\ answer = "pending" /\ answer' = "error"
  /\ tool' = IF tool \in Ended THEN tool ELSE "died"
  /\ UNCHANGED <<flag, due>>

Next == Interrupt \/ Kill \/ End \/ Answer \/ WaitFails

Spec == Init /\ [][Next]_vars

=============================================================================
