------------------------ MODULE ProcessRunnerProofs ------------------------
(***************************************************************************)
(* Machine-checked proofs about ProcessRunner: for every limit, pipe size, *)
(* read size and amount of output, a call without an error hands over      *)
(* exactly the output up to the limit, and the call implements ToolCall.   *)
(***************************************************************************)
EXTENDS ProcessRunner, TLAPS

\* How many bytes a thread has taken out of its pipe.
Consumed(s) == written[s] - pipe[s]

\* What a thread has stored is a function of what it has consumed, and a
\* report is only sent when nothing more can come.
DrainInv ==
  \A s \in Stream :
    /\ pipe[s] <= written[s]
    /\ collected[s] = Least(Consumed(s), Limit[s])
    /\ truncated[s] <=> Consumed(s) > Limit[s]
    /\ drain[s] = "sent" => pipe[s] = 0 /\ ~Open

\* The caller only gets past a stream whose report it has.
CallerInv ==
  /\ pc = "stderr" => drain["stdout"] = "sent"
  /\ result \notin {"pending", "error"} =>
       \A s \in Stream : drain[s] = "sent"

\* A killed tool has a killer, and every note of it has a reason.
KillInv ==
  /\ cancelled => flag
  /\ timedOut => due
  /\ tool \in {"killed", "died"} =>
       cancelled \/ timedOut \/ result = "error"
  /\ pc \in {"stdout", "stderr", "done"} => tool \in Ended
  /\ pc # "done" <=> result = "pending"

IInv == TypeOK /\ DrainInv /\ CallerInv /\ KillInv

-----------------------------------------------------------------------------
LEMMA InitIInv == Init => IInv
  <1> SUFFICES ASSUME Init PROVE IInv
    OBVIOUS
  <1>1. \A s \in Stream : Limit[s] \in Nat
    BY LimitAssumption
  <1>2. 0 \in 0 .. PipeCapacity
    BY PipeAssumption
  <1>3. /\ written \in [Stream -> Nat] /\ pipe \in [Stream -> 0 .. PipeCapacity]
        /\ drain \in [Stream -> {"reading", "sent", "broken"}]
        /\ collected \in [Stream -> Nat] /\ truncated \in [Stream -> BOOLEAN]
        /\ \A s \in Stream : written[s] = 0 /\ pipe[s] = 0 /\ collected[s] = 0
                            /\ truncated[s] = FALSE /\ drain[s] = "reading"
    BY <1>2 DEF Init
  <1>4. TypeOK
    <2>1. \A s \in Stream : collected[s] <= Limit[s]
      <3> SUFFICES ASSUME NEW s \in Stream PROVE collected[s] <= Limit[s]
        OBVIOUS
      <3>1. collected[s] = 0 /\ Limit[s] \in Nat
        BY <1>1, <1>3
      <3>2. QED
        BY <3>1
    <2>2. /\ plan \in Plans /\ tool = "running" /\ heir = FALSE
          /\ flag \in BOOLEAN /\ due = FALSE /\ pc = "flag"
          /\ timedOut = FALSE /\ cancelled = FALSE /\ result = "pending"
      BY DEF Init
    <2>3. QED
      BY <1>3, <2>1, <2>2 DEF TypeOK
  <1>5. DrainInv
    <2> SUFFICES ASSUME NEW s \in Stream
                 PROVE  /\ pipe[s] <= written[s]
                        /\ collected[s] = Least(written[s] - pipe[s], Limit[s])
                        /\ truncated[s] <=> written[s] - pipe[s] > Limit[s]
                        /\ drain[s] # "sent"
      BY DEF DrainInv, Consumed
    <2>1. Least(0, Limit[s]) = 0 /\ ~(0 > Limit[s])
      BY <1>1 DEF Least
    <2>2. QED
      BY <1>3, <2>1
  <1>6. QED
    BY <1>4, <1>5 DEF Init, IInv, CallerInv, KillInv

\* The numbers of one stream.
LEMMA Numbers ==
  ASSUME IInv, NEW s \in Stream
  PROVE  /\ written[s] \in Nat /\ pipe[s] \in Nat /\ pipe[s] <= PipeCapacity
         /\ collected[s] \in Nat /\ Limit[s] \in Nat /\ PipeCapacity \in Nat
         /\ pipe[s] <= written[s]
         /\ collected[s] = Least(written[s] - pipe[s], Limit[s])
         /\ truncated[s] \in BOOLEAN
         /\ truncated[s] <=> written[s] - pipe[s] > Limit[s]
         /\ drain[s] = "sent" => pipe[s] = 0 /\ ~Open
  BY LimitAssumption, PipeAssumption DEF IInv, TypeOK, DrainInv, Consumed

\* A step that leaves the numbers and the reports alone.
LEMMA QuietDrain ==
  ASSUME IInv, UNCHANGED <<plan, written, pipe, drainVars>>, ~Open => ~Open'
  PROVE  DrainInv'
  BY DEF IInv, DrainInv, Consumed, drainVars

LEMMA WriteStep ==
  ASSUME IInv, NEW s \in Stream, Write(s)
  PROVE  IInv'
  <1>1. /\ written' = [written EXCEPT ![s] = @ + 1]
        /\ pipe' = [pipe EXCEPT ![s] = @ + 1]
        /\ drain[s] = "reading" /\ pipe[s] < PipeCapacity
        /\ UNCHANGED <<plan, tool, heir, drainVars, signals, mainVars>>
    BY DEF Write
  <1>2. TypeOK'
    BY <1>1, Numbers DEF IInv, TypeOK, drainVars, signals, mainVars
  <1>3. DrainInv'
    <2> SUFFICES ASSUME NEW t \in Stream
                 PROVE  /\ pipe'[t] <= written'[t]
                        /\ collected'[t] = Least(written'[t] - pipe'[t], Limit[t])
                        /\ truncated'[t] <=> written'[t] - pipe'[t] > Limit[t]
                        /\ drain'[t] = "sent" => pipe'[t] = 0 /\ ~Open'
      BY DEF DrainInv, Consumed
    <2>1. UNCHANGED <<collected, truncated, drain>> /\ (Open' <=> Open)
      BY <1>1 DEF drainVars, Open
    <2>2. CASE t = s
      <3>1. written'[s] = written[s] + 1 /\ pipe'[s] = pipe[s] + 1
        BY <1>1 DEF IInv, TypeOK
      <3>2. written'[s] - pipe'[s] = written[s] - pipe[s]
            /\ pipe'[s] <= written'[s]
        BY <3>1, Numbers
      <3>3. QED
        BY <1>1, <2>1, <2>2, <3>2, Numbers
    <2>3. CASE t # s
      <3>1. written'[t] = written[t] /\ pipe'[t] = pipe[t]
        BY <1>1, <2>3 DEF IInv, TypeOK
      <3>2. QED
        BY <2>1, <3>1, Numbers
    <2>4. QED
      BY <2>2, <2>3
  <1>4. QED
    BY <1>1, <1>2, <1>3 DEF IInv, CallerInv, KillInv, drainVars, signals,
       mainVars

\* Storing the bytes of one read keeps the stored part a function of what
\* was consumed: this is where the limit is crossed.
LEMMA StoreFacts ==
  ASSUME IInv, NEW s \in Stream, NEW n \in 1 .. pipe[s], Store(s, n)
  PROVE  LET consumed == written[s] - (pipe[s] - n) IN
         /\ collected' \in [Stream -> Nat]
         /\ truncated' \in [Stream -> BOOLEAN]
         /\ collected'[s] = Least(consumed, Limit[s])
         /\ truncated'[s] <=> consumed > Limit[s]
         /\ \A t \in Stream \ {s} :
              collected'[t] = collected[t] /\ truncated'[t] = truncated[t]
  <1> DEFINE before   == written[s] - pipe[s]
             consumed == written[s] - (pipe[s] - n)
             take     == Least(Limit[s] - collected[s], n)
  <1>1. /\ written[s] \in Nat /\ pipe[s] \in Nat /\ Limit[s] \in Nat
        /\ pipe[s] <= written[s] /\ n \in Nat /\ n <= pipe[s] /\ n >= 1
        /\ collected[s] = Least(before, Limit[s])
        /\ truncated[s] <=> before > Limit[s]
        /\ truncated[s] \in BOOLEAN /\ collected[s] \in Nat
    BY Numbers
  <1>2. before \in Nat /\ consumed = before + n /\ consumed \in Nat
    BY <1>1
  <1>3. collected \in [Stream -> Nat] /\ truncated \in [Stream -> BOOLEAN]
    BY DEF IInv, TypeOK
  <1>4. CASE collected[s] < Limit[s]
    <2>1. collected[s] = before /\ before < Limit[s]
      BY <1>1, <1>2, <1>4 DEF Least
    <2>2. take \in Nat /\ before + take = Least(consumed, Limit[s])
          /\ (take < n <=> consumed > Limit[s])
      BY <1>1, <1>2, <2>1 DEF Least
    <2>3. /\ collected' = [collected EXCEPT ![s] = @ + take]
          /\ truncated' = [truncated EXCEPT ![s] = @ \/ take < n]
      BY <1>1, <1>4 DEF Store
    <2>4. collected'[s] = collected[s] + take
          /\ truncated'[s] = (truncated[s] \/ take < n)
      BY <1>3, <2>3
    <2>5. ~truncated[s]
      BY <1>1, <1>2, <2>1
    <2> HIDE DEF before, consumed, take
    <2>6. collected'[s] = Least(consumed, Limit[s])
      BY <2>1, <2>2, <2>4
    <2>7. truncated'[s] <=> consumed > Limit[s]
      BY <2>2, <2>4, <2>5
    <2>8. collected' \in [Stream -> Nat]
      BY <1>1, <1>3, <2>2, <2>3
    <2>9. truncated' \in [Stream -> BOOLEAN]
      <3>1. (truncated[s] \/ take < n) \in BOOLEAN
        OBVIOUS
      <3>2. QED
        BY <1>3, <2>3, <3>1
    <2>10. \A t \in Stream \ {s} :
             collected'[t] = collected[t] /\ truncated'[t] = truncated[t]
      BY <1>3, <2>3
    <2>11. QED
      BY <2>6, <2>7, <2>8, <2>9, <2>10 DEF consumed
  <1>5. CASE collected[s] >= Limit[s]
    <2>1. collected[s] = Limit[s] /\ before >= Limit[s]
      BY <1>1, <1>2, <1>5 DEF Least
    <2>2. consumed > Limit[s] /\ Least(consumed, Limit[s]) = Limit[s]
      BY <1>1, <1>2, <2>1 DEF Least
    <2>3. collected' = collected /\ truncated' = [truncated EXCEPT ![s] = TRUE]
      BY <1>1, <1>5 DEF Store
    <2>4. QED
      BY <1>3, <2>1, <2>2, <2>3
  <1>6. QED
    BY <1>1, <1>4, <1>5

LEMMA ReadStep ==
  ASSUME IInv, NEW s \in Stream, Read(s)
  PROVE  IInv'
  <1>1. /\ drain[s] = "reading"
        /\ UNCHANGED <<toolVars, drain, signals, mainVars>>
    BY DEF Read
  <1>2. PICK n \in 1 .. Least(BufferSize, pipe[s]) :
          pipe' = [pipe EXCEPT ![s] = @ - n] /\ Store(s, n)
    BY DEF Read
  <1>3. n \in 1 .. pipe[s] /\ n \in Nat
    BY <1>2, BufferAssumption, Numbers DEF Least
  <1>4. /\ collected' \in [Stream -> Nat]
        /\ truncated' \in [Stream -> BOOLEAN]
        /\ collected'[s] = Least(written[s] - (pipe[s] - n), Limit[s])
        /\ truncated'[s] <=> written[s] - (pipe[s] - n) > Limit[s]
        /\ \A t \in Stream \ {s} :
             collected'[t] = collected[t] /\ truncated'[t] = truncated[t]
    BY <1>2, <1>3, StoreFacts
  <1>5. /\ pipe'[s] = pipe[s] - n
        /\ \A t \in Stream \ {s} : pipe'[t] = pipe[t]
        /\ pipe' \in [Stream -> 0 .. PipeCapacity]
    BY <1>2, <1>3, Numbers DEF IInv, TypeOK
  <1>6. \A t \in Stream : collected'[t] <= Limit[t]
    BY <1>3, <1>4, Numbers DEF IInv, TypeOK, Least
  <1>7. TypeOK'
    BY <1>1, <1>4, <1>5, <1>6 DEF IInv, TypeOK, toolVars, signals, mainVars
  <1>8. DrainInv'
    <2> SUFFICES ASSUME NEW t \in Stream
                 PROVE  /\ pipe'[t] <= written'[t]
                        /\ collected'[t] = Least(written'[t] - pipe'[t], Limit[t])
                        /\ truncated'[t] <=> written'[t] - pipe'[t] > Limit[t]
                        /\ drain'[t] = "sent" => pipe'[t] = 0 /\ ~Open'
      BY DEF DrainInv, Consumed
    <2>1. written' = written /\ drain' = drain /\ (Open' <=> Open)
      BY <1>1 DEF toolVars, Open
    <2>2. CASE t = s
      BY <1>1, <1>3, <1>4, <1>5, <2>1, <2>2, Numbers
    <2>3. CASE t # s
      BY <1>4, <1>5, <2>1, <2>3, Numbers
    <2>4. QED
      BY <2>2, <2>3
  <1>9. QED
    BY <1>1, <1>7, <1>8 DEF IInv, CallerInv, KillInv, signals, mainVars,
       toolVars

LEMMA ReportStep ==
  ASSUME IInv, NEW s \in Stream, EndOfFile(s) \/ ReadFails(s)
  PROVE  IInv'
  <1>1. /\ drain[s] = "reading"
        /\ UNCHANGED <<toolVars, pipe, collected, truncated, signals, mainVars>>
        /\ \/ drain' = [drain EXCEPT ![s] = "sent"] /\ pipe[s] = 0 /\ ~Open
           \/ drain' = [drain EXCEPT ![s] = "broken"]
    BY DEF EndOfFile, ReadFails
  <1>2. TypeOK'
    BY <1>1 DEF IInv, TypeOK, toolVars, signals, mainVars
  <1>3. Open' <=> Open
    BY <1>1 DEF Open, toolVars
  <1>4. \A t \in Stream : drain'[t] = "sent" => pipe[t] = 0 /\ ~Open
    BY <1>1, Numbers DEF IInv, TypeOK
  <1>5. \A t \in Stream : drain[t] = "sent" => drain'[t] = "sent"
    BY <1>1 DEF IInv, TypeOK
  <1>6. DrainInv'
    BY <1>1, <1>3, <1>4 DEF IInv, DrainInv, Consumed, toolVars
  <1>7. "stdout" \in Stream
    BY DEF Stream
  <1>8. QED
    BY <1>1, <1>2, <1>5, <1>6, <1>7 DEF IInv, CallerInv, KillInv, toolVars,
       signals, mainVars

\* What happens outside the engine, apart from writing.
LEMMA OutsideStep ==
  ASSUME IInv,
         \/ Exit \/ Fork \/ Die \/ HeirExits \/ RaiseFlag \/ CapPasses
         \/ \E s \in Stream : BrokenPipe(s)
         \/ UNCHANGED vars
  PROVE  IInv'
  <1>1. UNCHANGED <<plan, written, pipe, drainVars, mainVars>>
    BY DEF Exit, Fork, Die, HeirExits, RaiseFlag, CapPasses, BrokenPipe, vars,
       toolVars
  <1>2. /\ tool' \in {"running", "killed"} \union Ended
        /\ heir' \in BOOLEAN /\ flag' \in BOOLEAN /\ due' \in BOOLEAN
        /\ flag => flag'
        /\ due => due'
        /\ ~Open => ~Open'
        /\ tool \in Ended => tool' \in Ended
        /\ tool' \in {"killed", "died"} => tool \in {"killed", "died"}
    <2>1. TypeOK
      BY DEF IInv
    <2>2. CASE Exit \/ Die \/ \E s \in Stream : BrokenPipe(s)
      BY <2>1, <2>2 DEF TypeOK, Exit, Die, BrokenPipe, Ended, Open, signals
    <2>3. CASE Fork \/ HeirExits
      BY <2>1, <2>3 DEF TypeOK, Fork, HeirExits, Ended, Open, signals
    <2>4. CASE RaiseFlag
      BY <2>1, <2>4 DEF TypeOK, RaiseFlag, toolVars, Ended, Open
    <2>5. CASE CapPasses
      BY <2>1, <2>5 DEF TypeOK, CapPasses, toolVars, Ended, Open
    <2>6. CASE UNCHANGED vars
      BY <2>1, <2>6 DEF TypeOK, vars, toolVars, signals, Ended, Open
    <2>7. QED
      BY <2>2, <2>3, <2>4, <2>5, <2>6
  <1>3. TypeOK'
    BY <1>1, <1>2 DEF IInv, TypeOK, drainVars, mainVars
  <1>4. DrainInv'
    BY <1>1, <1>2, QuietDrain
  <1>5. CallerInv'
    BY <1>1 DEF IInv, CallerInv, drainVars, mainVars
  <1>6. KillInv'
    <2>1. pc' = pc /\ timedOut' = timedOut /\ cancelled' = cancelled
          /\ result' = result
      BY <1>1 DEF mainVars
    <2>2. KillInv
      BY DEF IInv
    <2>3. (cancelled => flag)' /\ (timedOut => due)'
      BY <1>2, <2>1, <2>2 DEF KillInv
    <2>4. (tool \in {"killed", "died"} =>
             cancelled \/ timedOut \/ result = "error")'
      BY <1>2, <2>1, <2>2 DEF KillInv
    <2>5. (pc \in {"stdout", "stderr", "done"} => tool \in Ended)'
      BY <1>2, <2>1, <2>2 DEF KillInv
    <2>6. (pc # "done" <=> result = "pending")'
      BY <2>1, <2>2 DEF KillInv
    <2>7. QED
      BY <2>3, <2>4, <2>5, <2>6 DEF KillInv
  <1>7. QED
    BY <1>3, <1>4, <1>5, <1>6 DEF IInv

LEMMA MainStep == IInv /\ Main => IInv'
  <1> SUFFICES ASSUME IInv, Main PROVE IInv'
    OBVIOUS
  <1>1. TypeOK /\ CallerInv /\ KillInv
    BY DEF IInv
  <1>2. UNCHANGED <<plan, heir, written, pipe, drainVars, signals>>
    BY DEF Main, CheckFlag, CheckCap, TryWait, Collect, toolVars
  <1>3. /\ tool' \in {"running", "killed"} \union Ended
        /\ tool \in Ended => tool' = tool
        /\ pc' \in {"flag", "cap", "try_wait", "stdout", "stderr", "done"}
        /\ timedOut' \in BOOLEAN /\ cancelled' \in BOOLEAN
        /\ result' \in {"pending", "success", "failure", "interrupted", "error"}
    BY <1>1, ZenonT(40) DEF TypeOK, Main, CheckFlag, CheckCap, TryWait, Collect, Ended,
       Killed, Outcome, Stream, toolVars
  <1>4. TypeOK'
    BY <1>1, <1>2, <1>3 DEF TypeOK, drainVars, signals
  <1>5. DrainInv'
    <2>1. ~Open => ~Open'
      BY <1>1, <1>2, <1>3 DEF Open, TypeOK, Ended
    <2>2. QED
      BY <1>2, <2>1, QuietDrain
  <1>6. CallerInv'
    BY <1>1, <1>2 DEF CallerInv, Main, CheckFlag, CheckCap, TryWait, Collect,
       Stream, drainVars
  <1>7. KillInv'
    BY <1>1, <1>2 DEF TypeOK, KillInv, Main, CheckFlag, CheckCap, TryWait,
       Collect, Killed, Ended, Outcome, Stream, signals, toolVars
  <1>8. QED
    BY <1>4, <1>5, <1>6, <1>7 DEF IInv

LEMMA NextIInv == IInv /\ [Next]_vars => IInv'
  <1> SUFFICES ASSUME IInv, [Next]_vars PROVE IInv'
    OBVIOUS
  <1>1. CASE \E s \in Stream : Write(s)
    BY <1>1, WriteStep
  <1>2. CASE \E s \in Stream : Read(s)
    BY <1>2, ReadStep
  <1>3. CASE \E s \in Stream : EndOfFile(s) \/ ReadFails(s)
    BY <1>3, ReportStep
  <1>4. CASE Main
    BY <1>4, MainStep
  <1>5. CASE \/ Exit \/ Fork \/ Die \/ HeirExits \/ RaiseFlag \/ CapPasses
             \/ \E s \in Stream : BrokenPipe(s)
             \/ UNCHANGED vars
    BY <1>5, OutsideStep
  <1>6. QED
    BY <1>1, <1>2, <1>3, <1>4, <1>5 DEF Next, ToolWork, Returned

\* The inductive invariant holds for every limit, pipe and plan.
THEOREM Invariance == Spec => []IInv
  BY InitIInv, NextIInv, PTL DEF Spec

\* Every variable keeps its type; nothing is stored past the limit.
THEOREM TypeCorrect == Spec => []TypeOK
  <1>1. IInv => TypeOK
    BY DEF IInv
  <1>2. QED
    BY <1>1, Invariance, PTL

\* read_capped and the loop around it hand over exactly the output up to the
\* limit, for every limit and every size of the reads.
THEOREM OutputExact == Spec => []OutputIsExact
  <1>1. IInv => OutputIsExact
    <2> SUFFICES ASSUME IInv, result \notin {"pending", "error"},
                        NEW s \in Stream
                 PROVE  /\ collected[s] = Least(written[s], Limit[s])
                        /\ truncated[s] <=> written[s] > Limit[s]
      BY DEF OutputIsExact
    <2>1. drain[s] = "sent"
      BY DEF IInv, CallerInv
    <2>2. pipe[s] = 0 /\ written[s] - pipe[s] = written[s]
      BY <2>1, Numbers
    <2>3. QED
      BY <2>2, Numbers
  <1>2. QED
    BY <1>1, Invariance, PTL

-----------------------------------------------------------------------------
(* The call implements ToolCall.                                           *)

LEMMA MainRefines == IInv /\ Main => [TC!Next]_TC!vars
  <1> SUFFICES ASSUME IInv, Main PROVE [TC!Next]_TC!vars
    OBVIOUS
  <1>1. TypeOK /\ KillInv /\ flag' = flag /\ due' = due
    BY DEF IInv, Main, CheckFlag, CheckCap, TryWait, Collect, signals
  <1>2. CASE CheckFlag
    BY <1>1, <1>2 DEF CheckFlag, Killed, TC!Next, TC!Kill, TC!vars
  <1>3. CASE CheckCap
    BY <1>1, <1>3 DEF CheckCap, Killed, TC!Next, TC!Kill, TC!vars
  <1>4. CASE TryWait
    BY <1>1, <1>4 DEF TryWait, KillInv, Ended, TC!Ended, TC!Next,
       TC!WaitFails, TC!vars
  <1>5. CASE \E s \in Stream : Collect(s)
    <2>1. PICK s \in Stream : Collect(s)
      BY <1>5
    <2>2. /\ result = "pending" /\ tool \in Ended /\ tool' = tool
          /\ pc \in {"stdout", "stderr"}
      BY <1>1, <2>1 DEF Collect, Stream, KillInv, toolVars
    <2>3. CASE result' = result
      BY <1>1, <2>2, <2>3 DEF TC!vars
    <2>4. CASE result' = "error"
      BY <1>1, <2>2, <2>4 DEF TC!Next, TC!Answer, TC!Ended, Ended
    <2>5. CASE result' = Outcome
      <3>1. CASE timedOut \/ cancelled
        <4>1. Outcome = "interrupted" /\ (flag \/ due)
          BY <1>1, <3>1 DEF Outcome, KillInv, TypeOK
        <4>2. QED
          BY <1>1, <2>2, <2>5, <4>1 DEF TC!Next, TC!Answer, TC!Ended, Ended
      <3>2. CASE ~(timedOut \/ cancelled)
        <4>1. tool \in {"succeeded", "failed"}
          BY <1>1, <2>2, <3>2 DEF KillInv, Ended
        <4>2. Outcome = IF tool = "succeeded" THEN "success" ELSE "failure"
          BY <3>2 DEF Outcome
        <4>3. QED
          BY <1>1, <2>2, <2>5, <4>1, <4>2 DEF TC!Next, TC!Answer, TC!Ended
      <3>3. QED
        BY <3>1, <3>2
    <2>6. QED
      BY <2>1, <2>3, <2>4, <2>5 DEF Collect
  <1>6. QED
    BY <1>2, <1>3, <1>4, <1>5 DEF Main

LEMMA NextRefines == IInv /\ [Next]_vars => [TC!Next]_TC!vars
  <1> SUFFICES ASSUME IInv, [Next]_vars PROVE [TC!Next]_TC!vars
    OBVIOUS
  <1>1. CASE Main
    BY <1>1, MainRefines
  <1>2. CASE Exit \/ Die \/ \E s \in Stream : BrokenPipe(s)
    BY <1>2 DEF Exit, Die, BrokenPipe, signals, mainVars, TC!Next, TC!End
  <1>3. CASE RaiseFlag \/ CapPasses
    BY <1>3 DEF RaiseFlag, CapPasses, toolVars, mainVars, TC!Next, TC!Interrupt
  <1>4. CASE Fork \/ HeirExits \/ \E s \in Stream : Write(s)
    BY <1>4 DEF Fork, HeirExits, Write, signals, mainVars, TC!vars
  <1>5. CASE \E s \in Stream : Read(s) \/ EndOfFile(s) \/ ReadFails(s)
    BY <1>5 DEF Read, EndOfFile, ReadFails, toolVars, signals, mainVars, TC!vars
  <1>6. CASE UNCHANGED vars
    BY <1>6 DEF vars, toolVars, signals, mainVars, TC!vars
  <1>7. QED
    BY <1>1, <1>2, <1>3, <1>4, <1>5, <1>6 DEF Next, ToolWork, Returned

\* process::run keeps ToolCall's promises, with the call's result as answer.
THEOREM ImplementsToolCall == Spec => AnswersTruthfully
  <1>1. Init => TC!Init
    BY DEF Init, TC!Init
  <1>2. QED
    BY <1>1, NextRefines, Invariance, PTL DEF Spec, AnswersTruthfully, TC!Spec

=============================================================================
