------------------------- MODULE RunSession_proofs -------------------------
(***************************************************************************)
(* Proofs about RunSession for every MaxRetries, chain length and channel   *)
(* capacity.                                                                *)
(***************************************************************************)
EXTENDS RunSession, TLAPS

\* While the retry loop runs no budget is used up.
LoopOpen ==
    pc \in LoopPCs \cup {"create"} =>
        /\ codeErrorCount < MaxRetries /\ retryableErrCount < MaxRetries
        /\ toolMissCount < MaxRetries /\ schemaRetryCount < MaxRetries

TypeInv == TypeOK /\ LoopOpen

----------------------------------------------------------------------------
\* Sending on a channel that has room keeps its elements' type and its bound.
LEMMA AppendBounded ==
    ASSUME NEW S, NEW s \in Seq(S), NEW e \in S, NEW n \in Nat, Len(s) < n
    PROVE  Append(s, e) \in Seq(S) /\ Len(Append(s, e)) <= n
  OBVIOUS

\* Receiving from a channel that is not empty keeps them too.
LEMMA TailBounded ==
    ASSUME NEW S, NEW s \in Seq(S), s /= <<>>, NEW n \in Nat, Len(s) <= n
    PROVE  Head(s) \in S /\ Tail(s) \in Seq(S) /\ Len(Tail(s)) <= n
  OBVIOUS

\* An empty channel has every type and keeps every bound.
LEMMA EmptyBounded ==
    ASSUME NEW S, NEW n \in Nat
    PROVE  <<>> \in Seq(S) /\ Len(<<>>) <= n
  OBVIOUS

\* trySendToolCall never takes the queue of tool calls over its capacity.
LEMMA TrySendBounded ==
    ASSUME NEW c \in {"expected", "other"}, TrySendToolCall(c),
           events \in Seq({"expected", "other"}), Len(events) <= EventsCap,
           call \in {"none", "made", "dropped", "shown"}
    PROVE  /\ events' \in Seq({"expected", "other"}) /\ Len(events') <= EventsCap
           /\ call' \in {"none", "made", "dropped", "shown"}
  BY SessionAssumption, AppendBounded DEF TrySendToolCall

----------------------------------------------------------------------------
\* TypeInv is inductive.
LEMMA TypeInvCorrect == Spec => []TypeInv
<1>1. Init => TypeInv
  <2> SUFFICES ASSUME Init PROVE TypeInv
    OBVIOUS
  <2> USE SessionAssumption DEF Init
  <2>1. wire \in Seq(SseEvents) /\ Len(wire) <= WireCap
    OBVIOUS
  <2>2. events \in Seq({"expected", "other"}) /\ Len(events) <= EventsCap
    OBVIOUS
  <2>3. out \in Seq({"ToolCall", "Final", "Err"}) /\ Len(out) <= OutCap
    OBVIOUS
  <2>4. LoopOpen
    BY DEF LoopOpen
  <2>5. /\ modelIndex \in 1..ChainLen /\ attempt \in Nat
        /\ codeErrorCount \in 0..MaxRetries /\ retryableErrCount \in 0..MaxRetries
        /\ toolMissCount \in 0..MaxRetries /\ schemaRetryCount \in 0..MaxRetries
    OBVIOUS
  <2>6. QED
    BY <2>1, <2>2, <2>3, <2>4, <2>5 DEF TypeInv, TypeOK
<1>2. TypeInv /\ [Next]_vars => TypeInv'
  <2> SUFFICES ASSUME TypeInv, [Next]_vars PROVE TypeInv'
    OBVIOUS
  <2> USE SessionAssumption DEF TypeInv, TypeOK, LoopOpen, LoopPCs, SseResults,
      SseEvents, Calls, Outcomes, counters, resultVars, pipeVars, chanVars,
      sessVars, serverVars
  <2>1. CASE CreateSession BY <2>1 DEF CreateSession
  <2>2. CASE CreateSessionFails BY <2>2 DEF CreateSessionFails
  <2>3. CASE StartAttempt BY <2>3 DEF StartAttempt
  <2>4. CASE MessageCompletes BY <2>4 DEF MessageCompletes
  <2>5. CASE SendFailure BY <2>5 DEF SendFailure, SendFails, Orphaned
  <2>6. CASE TakeSseResult BY <2>6 DEF TakeSseResult
  <2>7. CASE ToolCallWaitTimeout BY <2>7 DEF ToolCallWaitTimeout
  <2>8. CASE StageTimeout BY <2>8 DEF StageTimeout
  <2>9. CASE LoopStep
    <3> USE DEF AttemptEnds, Joined, Joining, TryAgain, LeaveWith
    <3>1. CASE RetryCodeError BY <3>1 DEF RetryCodeError
    <3>2. CASE SwitchModel BY <3>2 DEF SwitchModel
    <3>3. CASE CodeErrorsExhausted BY <3>3 DEF CodeErrorsExhausted
    <3>4. CASE RetryTransientError BY <3>4 DEF RetryTransientError
    <3>5. CASE ToolMissed BY <3>5 DEF ToolMissed
    <3>6. CASE AttemptFatal BY <3>6 DEF AttemptFatal
    <3>7. CASE SchemaInvalid BY <3>7 DEF SchemaInvalid
    <3>8. CASE ToolResultAccepted BY <3>8 DEF ToolResultAccepted
    <3>9. QED BY <2>9, <3>1, <3>2, <3>3, <3>4, <3>5, <3>6, <3>7, <3>8 DEF LoopStep
  <2>10. CASE StopPoller BY <2>10 DEF StopPoller
  <2>11. CASE Settle BY <2>11 DEF Settle
  <2>12. CASE Emit BY <2>12 DEF Emit
  <2>13. CASE CloseOut BY <2>13 DEF CloseOut
  <2>14. CASE FallbackReply BY <2>14 DEF FallbackReply
  <2>15. CASE FallbackFails BY <2>15 DEF FallbackFails, Orphaned
  <2>16. CASE SseStep
    <3> USE DEF SseUnchanged, SseReturns, TrySendToolCall
    <3>1. CASE SseConnects BY <3>1 DEF SseConnects
    <3>2. CASE SseEnds BY <3>2 DEF SseEnds
    <3>3. CASE SseReadsResult
      <4>1. /\ events' \in Seq({"expected", "other"}) /\ Len(events') <= EventsCap
            /\ call' \in {"none", "made", "dropped", "shown"}
        <5>1. TrySendToolCall("expected") BY <3>3 DEF SseReadsResult
        <5> HIDE DEF TrySendToolCall
        <5>2. QED BY <5>1, TrySendBounded
      <4>2. wire' \in Seq(SseEvents) /\ Len(wire') <= WireCap
        <5>1. wire' = <<>> BY <3>3 DEF SseReadsResult
        <5> HIDE DEF SseEvents, TypeInv
        <5>2. QED BY <5>1, EmptyBounded
      <4>3. QED BY <3>3, <4>1, <4>2 DEF SseReadsResult
    <3>4. CASE SseReadsOther
      <4>1. /\ events' \in Seq({"expected", "other"}) /\ Len(events') <= EventsCap
            /\ call' \in {"none", "made", "dropped", "shown"}
        <5>1. \/ TrySendToolCall("other")
              \/ UNCHANGED <<events, call>>
          BY <3>4 DEF SseReadsOther
        <5> HIDE DEF TrySendToolCall
        <5>2. QED BY <5>1, TrySendBounded
      <4>2. wire' \in Seq(SseEvents) /\ Len(wire') <= WireCap
        <5>1. wire' = Tail(wire) /\ wire /= <<>> BY <3>4 DEF SseReadsOther
        <5> HIDE DEF SseEvents
        <5>2. wire \in Seq(SseEvents) /\ Len(wire) <= WireCap OBVIOUS
        <5> HIDE DEF TypeInv
        <5>3. QED BY <5>1, <5>2, TailBounded
      <4>3. QED BY <3>4, <4>1, <4>2 DEF SseReadsOther
    <3>5. CASE SseReadsError BY <3>5 DEF SseReadsError
    <3>6. QED BY <2>16, <3>1, <3>2, <3>3, <3>4, <3>5 DEF SseStep
  <2>17. CASE ForwarderStep
    <3> USE DEF ForwarderUnchanged
    <3>1. CASE ForwarderTakes BY <3>1 DEF ForwarderTakes
    <3>2. CASE ForwarderSends BY <3>2 DEF ForwarderSends
    <3>3. CASE ForwarderEnds BY <3>3 DEF ForwarderEnds
    <3>4. QED BY <2>17, <3>1, <3>2, <3>3 DEF ForwarderStep
  <2>18. CASE PollerStep
    <3>1. CASE PollerFinds BY <3>1 DEF PollerFinds, PollerUnchanged
    <3>2. CASE PollerEnds BY <3>2 DEF PollerEnds, PollerUnchanged
    <3>3. QED BY <2>18, <3>1, <3>2 DEF PollerStep
  <2>19. CASE Receive BY <2>19 DEF Receive
  <2>20. CASE RangeEnds BY <2>20 DEF RangeEnds
  <2>21. CASE Expire BY <2>21 DEF Expire
  <2>22. CASE AgentStep
    <3> USE DEF ServerUnchanged
    <3>1. CASE AgentAccepts BY <3>1 DEF AgentAccepts
    <3>2. CASE AgentSpawnsChild BY <3>2 DEF AgentSpawnsChild
    <3>3. CASE AgentStops BY <3>3 DEF AgentStops
    <3>4. CASE \E k \in SseEvents : AgentPublishes(k)
      <4>1. PICK k \in SseEvents : AgentPublishes(k)
        BY <3>4
      <4>2. wire' \in Seq(SseEvents) /\ Len(wire') <= WireCap
        <5>1. \/ wire' = wire
              \/ Len(wire) < WireCap /\ wire' = Append(wire, k)
          BY <4>1 DEF AgentPublishes
        <5> HIDE DEF SseEvents
        <5>2. wire \in Seq(SseEvents) /\ Len(wire) <= WireCap OBVIOUS
        <5> HIDE DEF TypeInv
        <5>3. QED BY <5>1, <5>2, AppendBounded
      <4>3. QED BY <4>1, <4>2 DEF AgentPublishes
    <3>5. QED BY <2>22, <3>1, <3>2, <3>3, <3>4 DEF AgentStep
  <2>23. CASE UNCHANGED vars BY <2>23 DEF vars
  <2>24. QED
    BY <2>1, <2>2, <2>3, <2>4, <2>5, <2>6, <2>7, <2>8, <2>9, <2>10, <2>11,
       <2>12, <2>13, <2>14, <2>15, <2>16, <2>17, <2>18, <2>19, <2>20, <2>21,
       <2>22, <2>23 DEF Next, MainStep, ConsumerStep, Done
<1>3. QED
  BY <1>1, <1>2, PTL DEF Spec

\* The types of RunSession's variables are an invariant: no counter passes
\* MaxRetries, no model past the chain's last, no channel over its capacity.
THEOREM TypeCorrect == Spec => []TypeOK
<1>1. TypeInv => TypeOK
  BY DEF TypeInv
<1>2. QED
  BY <1>1, TypeInvCorrect, PTL

----------------------------------------------------------------------------
\* What the retry loop has spent while it may still spend, and at most.
Spent == MaxRetries * (modelIndex - 1)

BudgetInv ==
    /\ \/ attempt = Charged
       \/ attempt = Charged + 1 /\ exit \in {"result", "err", "timeout"}
    /\ pc \in LoopPCs \cup {"create", "fallback"} => attempt = Charged
    /\ attempt <= Spent + 4 * (MaxRetries - 1) + 1

\* The models given up are charged MaxRetries prompts each.
LEMMA SpentFacts ==
    ASSUME modelIndex \in 1..ChainLen
    PROVE  /\ Spent \in Nat
           /\ MaxRetries * ((modelIndex + 1) - 1) = Spent + MaxRetries
           /\ Spent + MaxRetries <= MaxRetries * ChainLen
<1> USE SessionAssumption
<1>1. /\ MaxRetries \in Nat /\ ChainLen \in Nat /\ modelIndex \in Nat
      /\ modelIndex - 1 \in Nat /\ ChainLen - modelIndex \in Nat
  OBVIOUS
<1>2. \A a, b \in Nat : a * b \in Nat
  OBVIOUS
<1>3. Spent \in Nat
  BY <1>1, <1>2 DEF Spent
<1>4. MaxRetries * ((modelIndex + 1) - 1) = Spent + MaxRetries
  BY <1>1 DEF Spent
<1>5. MaxRetries * ChainLen
        = Spent + MaxRetries + MaxRetries * (ChainLen - modelIndex)
  BY <1>1 DEF Spent
<1>6. MaxRetries * (ChainLen - modelIndex) \in Nat
  BY <1>1, <1>2
<1>7. MaxRetries * ChainLen \in Nat
  BY <1>1, <1>2
<1>8. QED
  BY <1>1, <1>3, <1>4, <1>5, <1>6, <1>7

\* Only the retry loop's bookkeeping touches the counters, and only a failed
\* creation and the JSON fallback leave by other means.
LEMMA OutsideTheLoop ==
    ASSUME [Next]_vars, ~LoopStep
    PROVE  /\ UNCHANGED counters
           /\ \/ exit' = exit
              \/ /\ pc \in {"create", "fallback"}
                 /\ pc' \notin LoopPCs \cup {"create", "fallback"}
           /\ pc' \in LoopPCs \cup {"create", "fallback"}
                => pc \in LoopPCs \cup {"create", "fallback"}
<1> USE DEF LoopPCs, resultVars
<1>1. CASE MainStep
  BY <1>1 DEF MainStep, CreateSession, CreateSessionFails, StartAttempt,
     TakeSseResult, ToolCallWaitTimeout, StageTimeout, StopPoller, Settle, Emit,
     CloseOut
<1>2. CASE MessageCompletes \/ SendFailure \/ FallbackReply \/ FallbackFails
  BY <1>2 DEF MessageCompletes, SendFailure, SendFails, FallbackReply, FallbackFails
<1>3. CASE SseStep
  BY <1>3 DEF SseStep, SseConnects, SseEnds, SseReadsResult, SseReadsOther,
     SseReadsError, SseUnchanged
<1>4. CASE ForwarderStep
  BY <1>4 DEF ForwarderStep, ForwarderTakes, ForwarderSends, ForwarderEnds,
     ForwarderUnchanged
<1>5. CASE PollerStep \/ ConsumerStep \/ Expire
  BY <1>5 DEF PollerStep, PollerFinds, PollerEnds, PollerUnchanged, ConsumerStep,
     Receive, RangeEnds, Expire
<1>6. CASE AgentStep
  BY <1>6 DEF AgentStep, AgentAccepts, AgentPublishes, AgentSpawnsChild,
     AgentStops, ServerUnchanged
<1>7. CASE UNCHANGED vars
  BY <1>7 DEF vars
<1>8. QED
  BY <1>1, <1>2, <1>3, <1>4, <1>5, <1>6, <1>7 DEF Next, Done

\* No run posts more prompts than its budgets allow, and the four budgets and
\* the models given up account for every prompt.
THEOREM RetryBudgetCorrect == Spec => []RetryBudget
<1>1. Init => BudgetInv
  <2> SUFFICES ASSUME Init PROVE BudgetInv
    OBVIOUS
  <2>1. Spent = 0 /\ Charged = 0 /\ attempt = 0
    BY SessionAssumption DEF Init, Spent, Charged
  <2>2. QED
    BY <2>1, SessionAssumption DEF BudgetInv
<1>2. TypeInv /\ BudgetInv /\ [Next]_vars => BudgetInv'
  <2> SUFFICES ASSUME TypeInv, BudgetInv, [Next]_vars PROVE BudgetInv'
    OBVIOUS
  <2>1. Spent \in Nat /\ MaxRetries \in Nat \ {0}
    BY SpentFacts, SessionAssumption DEF TypeInv, TypeOK
  <2>2. CASE LoopStep
    <3> USE DEF AttemptEnds, Joined, Joining, TryAgain, LeaveWith, Outcome
    <3>1. /\ attempt = Charged /\ attempt' = attempt + 1
          /\ attempt + 1 <= Spent + 4 * (MaxRetries - 1) + 1
          /\ pc \in LoopPCs
      <4>1. pc \in LoopPCs /\ attempt' = attempt + 1
        BY <2>2 DEF LoopStep, LoopPCs, RetryCodeError, SwitchModel, CodeErrorsExhausted,
           RetryTransientError, ToolMissed, AttemptFatal, SchemaInvalid,
           ToolResultAccepted
      <4>2. attempt = Charged
        BY <4>1 DEF BudgetInv
      <4>3. QED
        BY <4>1, <4>2, <2>1 DEF TypeInv, TypeOK, LoopOpen, Charged, Spent
    <3>2. CASE SwitchModel
      <4>1. /\ modelIndex' = modelIndex + 1 /\ codeErrorCount' = 0
            /\ codeErrorCount + 1 = MaxRetries
            /\ UNCHANGED <<retryableErrCount, toolMissCount, schemaRetryCount>>
        BY <3>2, <3>1, <2>1 DEF SwitchModel, TypeInv, TypeOK, LoopOpen
      <4>2. Spent' = Spent + MaxRetries
        BY <4>1, SpentFacts DEF TypeInv, TypeOK, Spent
      <4>3. Charged' = Charged + 1
        BY <4>1, <4>2, <2>1 DEF Charged, Spent, TypeInv, TypeOK
      <4>4. attempt' <= Spent' + 4 * (MaxRetries - 1) + 1
        BY <4>2, <3>1, <2>1 DEF TypeInv, TypeOK
      <4>5. QED
        BY <4>3, <4>4, <3>1 DEF BudgetInv
    <3>3. CASE ~SwitchModel
      <4>1. /\ modelIndex' = modelIndex
            /\ \/ Charged' = Charged + 1
               \/ /\ Charged' = Charged /\ pc' = "stopping"
                  /\ exit' \in {"result", "err", "timeout"}
        <5> USE <2>1 DEF Charged, TypeInv, TypeOK
        <5>1. CASE RetryCodeError BY <5>1 DEF RetryCodeError
        <5>2. CASE CodeErrorsExhausted BY <5>2 DEF CodeErrorsExhausted
        <5>3. CASE RetryTransientError BY <5>3 DEF RetryTransientError
        <5>4. CASE ToolMissed BY <5>4 DEF ToolMissed
        <5>5. CASE AttemptFatal BY <5>5 DEF AttemptFatal
        <5>6. CASE SchemaInvalid BY <5>6 DEF SchemaInvalid
        <5>7. CASE ToolResultAccepted BY <5>7 DEF ToolResultAccepted
        <5>8. QED
          BY <2>2, <3>3, <5>1, <5>2, <5>3, <5>4, <5>5, <5>6, <5>7 DEF LoopStep
      <4>2. attempt' <= Spent' + 4 * (MaxRetries - 1) + 1
        BY <4>1, <3>1 DEF Spent
      <4>3. QED
        BY <4>1, <4>2, <3>1 DEF BudgetInv, LoopPCs
    <3>4. QED
      BY <3>2, <3>3
  <2>3. CASE ~LoopStep
      BY <2>3, OutsideTheLoop DEF BudgetInv, Charged, Spent, counters
  <2>4. QED
    BY <2>2, <2>3
<1>3. TypeInv /\ BudgetInv => RetryBudget
  <2> SUFFICES ASSUME TypeInv, BudgetInv PROVE RetryBudget
    OBVIOUS
  <2>1. attempt <= MaxRetries * ChainLen + 3 * (MaxRetries - 1)
    BY SpentFacts, SessionAssumption DEF TypeInv, TypeOK, BudgetInv
  <2>2. QED
    BY <2>1 DEF TypeInv, LoopOpen, BudgetInv, RetryBudget
<1>4. QED
  BY <1>1, <1>2, <1>3, TypeInvCorrect, PTL DEF Spec

----------------------------------------------------------------------------
\* Where the helper goroutines are while the driving one is elsewhere.
QuietInv ==
    /\ fwd = "done" => sse = "returned" /\ events = <<>>
    /\ pc \notin {"sending", "awaiting", "joinSend", "join"} => fwd = "done"
    /\ exit = "createErr" =>
         pc \in {"emit", "close", "closed"} /\ poller /= "on"
    /\ pc = "create" => exit = "none" /\ poller = "off"
    /\ pc \in {"settle", "emit", "close", "closed"} /\ exit /= "createErr" =>
         poller = "done"
    /\ pc \in {"emit", "close", "closed"} /\ exit /= "createErr" => cleaned

\* QuietInv is inductive.
LEMMA QuietInvCorrect == Spec => []QuietInv
<1>1. Init => QuietInv
  BY DEF Init, QuietInv
<1>2. TypeInv /\ QuietInv /\ [Next]_vars => QuietInv'
  <2> SUFFICES ASSUME TypeInv, QuietInv, [Next]_vars PROVE QuietInv'
    OBVIOUS
  <2> USE DEF QuietInv, counters, resultVars, pipeVars, chanVars, sessVars,
      serverVars
  <2>1. CASE CreateSession \/ CreateSessionFails \/ StartAttempt
    BY <2>1 DEF CreateSession, CreateSessionFails, StartAttempt
  <2>2. CASE TakeSseResult \/ ToolCallWaitTimeout \/ StageTimeout
    BY <2>2 DEF TakeSseResult, ToolCallWaitTimeout, StageTimeout
  <2>3. CASE LoopStep
    <3>1. /\ fwd = "done" /\ pc \in {"joinSend", "join"}
          /\ pc' \in {"send", "fallback", "stopping"}
          /\ exit' = exit \/ exit' \in {"err", "timeout", "result"}
          /\ UNCHANGED <<sse, events, fwd, poller, cleaned>>
      BY <2>3 DEF LoopStep, AttemptEnds, Joined, Joining, TryAgain, LeaveWith,
         RetryCodeError, SwitchModel, CodeErrorsExhausted, RetryTransientError,
         ToolMissed, AttemptFatal, SchemaInvalid, ToolResultAccepted
    <3>2. QED
      BY <3>1
  <2>4. CASE StopPoller \/ Settle \/ Emit \/ CloseOut
    BY <2>4 DEF StopPoller, Settle, Emit, CloseOut
  <2>5. CASE MessageCompletes \/ SendFailure
    BY <2>5 DEF MessageCompletes, SendFailure, SendFails
  <2>6. CASE FallbackReply \/ FallbackFails
    BY <2>6 DEF FallbackReply, FallbackFails
  <2>7. CASE SseStep
    BY <2>7 DEF SseStep, SseConnects, SseEnds, SseReadsResult, SseReadsOther,
       SseReadsError, SseUnchanged, SseReturns
  <2>8. CASE ForwarderStep
    <3>1. events /= <<>> => Head(events) \in {"expected", "other"}
      BY TailBounded, SessionAssumption DEF TypeInv, TypeOK
    <3>2. QED
      BY <2>8, <3>1 DEF ForwarderStep, ForwarderTakes, ForwarderSends,
         ForwarderEnds, ForwarderUnchanged
  <2>9. CASE PollerStep \/ ConsumerStep \/ Expire
    BY <2>9 DEF PollerStep, PollerFinds, PollerEnds, PollerUnchanged, ConsumerStep,
       Receive, RangeEnds, Expire
  <2>10. CASE AgentStep
    BY <2>10 DEF AgentStep, AgentAccepts, AgentPublishes, AgentSpawnsChild,
       AgentStops, ServerUnchanged
  <2>11. CASE UNCHANGED vars
    BY <2>11 DEF vars
  <2>12. QED
    BY <2>1, <2>2, <2>3, <2>4, <2>5, <2>6, <2>7, <2>8, <2>9, <2>10, <2>11
       DEF Next, MainStep, Done
<1>3. QED
  BY <1>1, <1>2, TypeInvCorrect, PTL DEF Spec

\* Nothing of a run is at work once its terminal event can be seen, however many
\* attempts, models and tool calls came before it.
THEOREM QuietAtTerminalCorrect == Spec => []QuietAtTerminal
<1>1. QuietInv => QuietAtTerminal
  BY DEF QuietInv, QuietAtTerminal
<1>2. QED
  BY <1>1, QuietInvCorrect, PTL

----------------------------------------------------------------------------
\* Every step of a run is a step of the contract or leaves its variables alone:
\* ToolCall events, then one terminal event, then the channel is closed.
THEOREM RunImplementsContract == Spec => ImplementsContract
<1>1. Init => Contract!Init
  BY DEF Init, Contract!Init
<1>2. TypeInv /\ QuietInv /\ [Next]_vars => [Contract!Next]_(Contract!vars)
  <2> SUFFICES ASSUME TypeInv, QuietInv, [Next]_vars
               PROVE  Contract!Next \/ UNCHANGED Contract!vars
    OBVIOUS
  <2> USE DEF Contract!vars, Contract!Next
  <2>1. CASE Emit
    BY <2>1 DEF Emit, Contract!EmitTerminal, Contract!Terminals
  <2>2. CASE CloseOut
    BY <2>2 DEF CloseOut, chanVars, Contract!Close
  <2>3. CASE ForwarderSends
    BY <2>3 DEF ForwarderSends, ForwarderUnchanged, QuietInv,
       Contract!EmitToolCall, Contract!ToolCall
  <2>4. CASE Receive
    BY <2>4 DEF Receive, Contract!Receive
  <2>5. CASE LoopStep
    BY <2>5 DEF LoopStep, AttemptEnds, Joined, Joining, TryAgain, LeaveWith,
       RetryCodeError, SwitchModel, CodeErrorsExhausted, RetryTransientError,
       ToolMissed, AttemptFatal, SchemaInvalid, ToolResultAccepted, chanVars
  <2>6. CASE CreateSession \/ CreateSessionFails \/ StartAttempt \/ StopPoller \/ Settle
    BY <2>6 DEF CreateSession, CreateSessionFails, StartAttempt, StopPoller,
       Settle, chanVars
  <2>7. CASE TakeSseResult \/ ToolCallWaitTimeout \/ StageTimeout
    BY <2>7 DEF TakeSseResult, ToolCallWaitTimeout, StageTimeout, chanVars
  <2>8. CASE MessageCompletes \/ SendFailure \/ FallbackReply \/ FallbackFails
    BY <2>8 DEF MessageCompletes, SendFailure, SendFails, FallbackReply,
       FallbackFails, chanVars
  <2>9. CASE SseStep
    BY <2>9 DEF SseStep, SseConnects, SseEnds, SseReadsResult, SseReadsOther,
       SseReadsError, SseUnchanged, chanVars
  <2>10. CASE ForwarderTakes \/ ForwarderEnds
    BY <2>10 DEF ForwarderTakes, ForwarderEnds, ForwarderUnchanged
  <2>11. CASE PollerStep \/ RangeEnds \/ Expire
    BY <2>11 DEF PollerStep, PollerFinds, PollerEnds, PollerUnchanged, RangeEnds,
       Expire, chanVars
  <2>12. CASE AgentStep
    BY <2>12 DEF AgentStep, AgentAccepts, AgentPublishes, AgentSpawnsChild,
       AgentStops, ServerUnchanged, chanVars
  <2>13. CASE UNCHANGED vars
    BY <2>13 DEF vars, chanVars
  <2>14. QED
    BY <2>1, <2>2, <2>3, <2>4, <2>5, <2>6, <2>7, <2>8, <2>9, <2>10, <2>11, <2>12,
       <2>13 DEF Next, MainStep, ForwarderStep, ConsumerStep, Done
<1>3. QED
  BY <1>1, <1>2, TypeInvCorrect, QuietInvCorrect, PTL DEF Spec, ImplementsContract, Contract!Spec

----------------------------------------------------------------------------
\* The expected tool call on its way from the stream to the channel, or past it.
InPipe ==
    \/ call \in {"shown", "dropped"}
    \/ fwd = "expected"
    \/ \E i \in 1..Len(events) : events[i] = "expected"

ShownInv ==
    /\ sseCh \in Calls => InPipe
    /\ ret \in Calls => InPipe /\ pc \in {"joinSend", "join"}
    /\ exit = "result" =>
         /\ call \in {"shown", "dropped"}
         /\ pc \in {"stopping", "settle", "emit", "close", "closed"}

\* What trySendToolCall and the forwarder do to the queue never loses the
\* expected call without a trace.
LEMMA TrySendKeeps ==
    ASSUME TypeInv, NEW c \in {"expected", "other"}, TrySendToolCall(c), fwd' = fwd
    PROVE  (InPipe \/ c = "expected") => InPipe'
<1>1. events \in Seq({"expected", "other"})
  BY DEF TypeInv, TypeOK
<1>2. CASE Len(events) < EventsCap
  <2>1. events' = Append(events, c) /\ call' = call
    BY <1>2 DEF TrySendToolCall
  <2>2. /\ Len(events') = Len(events) + 1
        /\ \A i \in 1..Len(events) : events'[i] = events[i]
        /\ events'[Len(events) + 1] = c
        /\ Len(events) \in Nat
    BY <1>1, <2>1
  <2>3. QED
    BY <2>1, <2>2 DEF InPipe
<1>3. CASE ~(Len(events) < EventsCap)
  BY <1>3 DEF TrySendToolCall, InPipe
<1>4. QED
  BY <1>2, <1>3

LEMMA ForwarderKeeps ==
    ASSUME TypeInv, ForwarderStep, InPipe
    PROVE  InPipe'
<1>1. CASE ForwarderTakes
  <2>1. /\ events \in Seq({"expected", "other"}) /\ events /= <<>>
        /\ fwd' = Head(events) /\ events' = Tail(events) /\ call' = call
        /\ fwd = "idle"
    BY <1>1 DEF ForwarderTakes, TypeInv, TypeOK
  <2>2. /\ Len(events') = Len(events) - 1 /\ Len(events) \in Nat
        /\ Head(events) = events[1]
        /\ \A i \in 1..Len(events') : events'[i] = events[i + 1]
    BY <2>1
  <2>3. CASE \E i \in 1..Len(events) : events[i] = "expected"
    <3>1. PICK i \in 1..Len(events) : events[i] = "expected"
      BY <2>3
    <3>2. CASE i = 1
      BY <3>1, <3>2, <2>1, <2>2 DEF InPipe
    <3>3. CASE i /= 1
      <4>1. i - 1 \in 1..Len(events') /\ events'[i - 1] = "expected"
        BY <3>1, <3>3, <2>2
      <4>2. QED
        BY <4>1 DEF InPipe
    <3>4. QED
      BY <3>2, <3>3
  <2>4. QED
    BY <2>1, <2>3 DEF InPipe
<1>2. CASE ForwarderSends
  BY <1>2 DEF ForwarderSends, InPipe
<1>3. CASE ForwarderEnds
  BY <1>3 DEF ForwarderEnds, InPipe
<1>4. QED
  BY <1>1, <1>2, <1>3 DEF ForwarderStep

\* A result taken from the tool is shown on the channel before Final, unless the
\* queue of tool calls was full.
THEOREM ResultShownFirstCorrect == Spec => []ResultShownFirst
<1>1. Init => ShownInv
  BY DEF Init, ShownInv, Calls
<1>2. TypeInv /\ QuietInv /\ ShownInv /\ [Next]_vars => ShownInv'
  <2> SUFFICES ASSUME TypeInv, QuietInv, ShownInv, [Next]_vars PROVE ShownInv'
    OBVIOUS
  <2> USE DEF ShownInv, counters, resultVars, pipeVars, chanVars, sessVars,
      serverVars
  <2>1. CASE CreateSession \/ CreateSessionFails
    BY <2>1 DEF CreateSession, CreateSessionFails, InPipe
  <2>2. CASE StartAttempt
    BY <2>2 DEF StartAttempt, Calls
  <2>3. CASE TakeSseResult \/ ToolCallWaitTimeout \/ StageTimeout
    BY <2>3 DEF TakeSseResult, ToolCallWaitTimeout, StageTimeout, InPipe, Calls
  <2>4. CASE LoopStep
    <3>1. /\ fwd = "done" /\ events = <<>> /\ ret' = "none"
          /\ UNCHANGED <<sseCh, events, fwd, call>>
      BY <2>4 DEF LoopStep, AttemptEnds, Joined, RetryCodeError, SwitchModel,
         CodeErrorsExhausted, RetryTransientError, ToolMissed, AttemptFatal,
         SchemaInvalid, ToolResultAccepted, QuietInv
    <3>2. \/ exit' = exit
          \/ exit' \in {"err", "timeout"}
          \/ exit' = "result" /\ ret = "valid" /\ pc' = "stopping"
      <4> USE DEF TryAgain, LeaveWith
      <4>1. CASE RetryCodeError \/ SwitchModel \/ CodeErrorsExhausted
        BY <4>1 DEF RetryCodeError, SwitchModel, CodeErrorsExhausted
      <4>2. CASE RetryTransientError \/ ToolMissed \/ AttemptFatal
        BY <4>2 DEF RetryTransientError, ToolMissed, AttemptFatal
      <4>3. CASE SchemaInvalid
        BY <4>3 DEF SchemaInvalid
      <4>4. CASE ToolResultAccepted
        BY <4>4 DEF ToolResultAccepted, AttemptEnds, Outcome
      <4>5. QED
        BY <2>4, <4>1, <4>2, <4>3, <4>4 DEF LoopStep
    <3>3. pc \in {"joinSend", "join"}
      BY <2>4 DEF LoopStep, AttemptEnds, Joined, Joining, RetryCodeError,
         SwitchModel, CodeErrorsExhausted, RetryTransientError, ToolMissed,
         AttemptFatal, SchemaInvalid, ToolResultAccepted
    <3>4. QED
      BY <3>1, <3>2, <3>3 DEF InPipe, Calls
  <2>5. CASE StopPoller \/ Settle \/ Emit \/ CloseOut
    BY <2>5 DEF StopPoller, Settle, Emit, CloseOut, InPipe
  <2>6. CASE MessageCompletes \/ SendFailure \/ FallbackReply \/ FallbackFails
    BY <2>6 DEF MessageCompletes, SendFailure, SendFails, FallbackReply,
       FallbackFails, InPipe, Calls
  <2>7. CASE SseStep
    <3> USE DEF SseUnchanged, SseReturns
    <3>0. ~(exit = "result")
      BY <2>7 DEF SseStep, SseConnects, SseEnds, SseReadsResult, SseReadsOther,
         SseReadsError, QuietInv
    <3>1. CASE SseConnects BY <3>1 DEF SseConnects, InPipe
    <3>2. CASE SseEnds BY <3>0, <3>2 DEF SseEnds, InPipe, Calls
    <3>3. CASE SseReadsResult
      <4>1. InPipe'
        BY <3>3, TrySendKeeps DEF SseReadsResult
      <4>2. QED
        BY <3>0, <3>3, <4>1 DEF SseReadsResult
    <3>4. CASE SseReadsOther
      <4>1. InPipe => InPipe'
        <5>1. CASE TrySendToolCall("other")
          BY <3>4, <5>1, TrySendKeeps DEF SseReadsOther
        <5>2. CASE UNCHANGED <<events, call>>
          BY <3>4, <5>2 DEF SseReadsOther, InPipe
        <5>3. QED
          BY <3>4, <5>1, <5>2 DEF SseReadsOther
      <4>2. QED
        BY <3>0, <3>4, <4>1 DEF SseReadsOther
    <3>5. CASE SseReadsError BY <3>0, <3>5 DEF SseReadsError, InPipe, Calls
    <3>6. QED
      BY <2>7, <3>1, <3>2, <3>3, <3>4, <3>5 DEF SseStep
  <2>8. CASE ForwarderStep
    <3>1. InPipe => InPipe'
      BY <2>8, ForwarderKeeps
    <3>2. /\ UNCHANGED <<pc, sseCh, ret, exit>>
          /\ call' = call \/ call' = "shown"
      BY <2>8 DEF ForwarderStep, ForwarderTakes, ForwarderSends, ForwarderEnds,
         ForwarderUnchanged
    <3>3. QED
      BY <3>1, <3>2
  <2>9. CASE PollerStep \/ ConsumerStep \/ Expire
    BY <2>9 DEF PollerStep, PollerFinds, PollerEnds, PollerUnchanged, ConsumerStep,
       Receive, RangeEnds, Expire, InPipe
  <2>10. CASE AgentStep
    BY <2>10 DEF AgentStep, AgentAccepts, AgentPublishes, AgentSpawnsChild,
       AgentStops, ServerUnchanged, InPipe
  <2>11. CASE UNCHANGED vars
    BY <2>11 DEF vars, InPipe
  <2>12. QED
    BY <2>1, <2>2, <2>3, <2>4, <2>5, <2>6, <2>7, <2>8, <2>9, <2>10, <2>11
       DEF Next, MainStep, Done
<1>3. ShownInv => ResultShownFirst
  BY DEF ShownInv, ResultShownFirst
<1>4. QED
  BY <1>1, <1>2, <1>3, TypeInvCorrect, QuietInvCorrect, PTL DEF Spec
============================================================================
