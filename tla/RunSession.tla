---------------------------- MODULE RunSession ----------------------------
(***************************************************************************)
(* One call of Runner.Run (internal/shared/runner/run_session.go): the      *)
(* goroutine that drives an opencode session, the SSE goroutine and the     *)
(* forwarder it starts for every attempt, the child-session poller, the     *)
(* channel its caller ranges over, and the server on the other side.        *)
(*                                                                          *)
(* The prompt texts, the model names and the contents of tool calls are     *)
(* abstracted: a model is its index in the chain, a tool call is one of the *)
(* kinds the code tells apart.                                              *)
(***************************************************************************)
EXTENDS Naturals, Sequences

CONSTANTS MaxRetries,   \* maxRetries
          ChainLen,     \* length of the model chain
          OutCap,       \* capacity of the channel Run returns (64)
          EventsCap,    \* capacity of the channel of tool calls (256)
          WireCap       \* bound: server events in transit to the client

ASSUME SessionAssumption ==
    /\ MaxRetries \in Nat \ {0}
    /\ ChainLen \in Nat \ {0}
    /\ OutCap \in Nat \ {0}
    /\ EventsCap \in Nat \ {0}
    /\ WireCap \in Nat \ {0}

VARIABLES
    pc,                \* where the driving goroutine is
    ctxDone,           \* s.ctx has expired or was cancelled by the caller
    attempt, modelIndex, codeErrorCount, retryableErrCount,
    toolMissCount, schemaRetryCount,
    ret,               \* what sendAndAwaitTool is about to return
    exit,              \* how the run ends
    args,              \* ToolArgs of the result: "none", "valid" or "invalid"
    text,              \* the result's FallbackText is not empty
    sse,               \* the SSE goroutine of the current attempt
    sseCh,             \* its one-element result channel
    events,            \* tool calls it hands to the forwarder
    fwd,               \* the forwarder: "done", "idle", or the call it is sending
    poller,            \* pollChildren: "off", "on" or "done"
    out, consumer,     \* the channel Run returns, and the loop that reads it
    session,           \* the session on the server: "none", "live" or "deleted"
    aborted, cleaned,  \* the abort and the DELETE request have been made
    agent,             \* the server's agent: "idle", "busy" with the prompt a post
                       \* waits for, or "orphan": its post has failed
    wire,              \* events sent by the server, not yet read
    child,             \* a child session: "none", "created" or "known" to the poller
    call               \* history: what became of this attempt's expected tool call

counters   == <<attempt, modelIndex, codeErrorCount, retryableErrCount,
                toolMissCount, schemaRetryCount>>
resultVars == <<exit, args, text>>
pipeVars   == <<sse, sseCh, events, fwd, wire, call>>
chanVars   == <<out, consumer>>
sessVars   == <<session, aborted, cleaned>>
serverVars == <<agent, child>>
vars == <<pc, ctxDone, ret, poller, counters, resultVars, pipeVars, chanVars,
          sessVars, serverVars>>

----------------------------------------------------------------------------
\* Events the server publishes on GET /event, by what the client does with them:
\* the expected tool completed in this session with valid or invalid arguments,
\* the expected tool failed, another tool completed, any tool completed in a
\* child session, or a session.error with a 4xx/5xx status.
Calls      == {"valid", "invalid"}
SseEvents  == Calls \cup {"toolError", "other", "child", "codeError"}
SseResults == Calls \cup {"code", "retry", "fatal"}
Outcomes   == Calls \cup {"code", "retry", "miss", "fatal", "timeout"}

Joining == pc \in {"joinSend", "join"}

\* attemptCtx: cancelled by attemptCancel and with its parent s.ctx.
AttemptCancelled == ctxDone \/ Joining

\* All but the last iteration of `for range r.Run(...)` in the caller is over.
Finished == pc = "closed" /\ consumer = "returned"

Init ==
    /\ pc = "create" /\ ctxDone = FALSE
    /\ attempt = 0 /\ modelIndex = 1
    /\ codeErrorCount = 0 /\ retryableErrCount = 0
    /\ toolMissCount = 0 /\ schemaRetryCount = 0
    /\ ret = "none" /\ exit = "none" /\ args = "none" /\ text = FALSE
    /\ sse = "returned" /\ sseCh = "none" /\ events = <<>> /\ fwd = "done"
    /\ poller = "off" /\ out = <<>> /\ consumer = "reading"
    /\ session = "none" /\ aborted = FALSE /\ cleaned = FALSE
    /\ agent = "idle" /\ wire = <<>> /\ child = "none" /\ call = "none"

----------------------------------------------------------------------------
(* The driving goroutine: execute *)

CreateSession ==
    /\ pc = "create" /\ ~ctxDone
    /\ session' = "live" /\ poller' = "on" /\ pc' = "send"
    /\ UNCHANGED <<ctxDone, ret, counters, resultVars, pipeVars, chanVars,
                   aborted, cleaned, serverVars>>

\* The request or its answer is lost: the server may have made the session.
CreateSessionFails ==
    /\ pc = "create"
    /\ session' \in {"none", "live"}
    /\ exit' = "createErr" /\ pc' = "emit"
    /\ UNCHANGED <<ctxDone, ret, poller, counters, args, text, pipeVars,
                   chanVars, aborted, cleaned, serverVars>>

\* sendAndAwaitTool starts the SSE goroutine and the forwarder, then posts.
StartAttempt ==
    /\ pc = "send"
    /\ pc' = "sending"
    /\ sse' = "connecting" /\ sseCh' = "none" /\ events' = <<>>
    /\ fwd' = "idle" /\ wire' = <<>> /\ call' = "none"
    /\ UNCHANGED <<ctxDone, ret, poller, counters, resultVars, chanVars,
                   sessVars, serverVars>>

\* 200: the agent has finished the prompt.
MessageCompletes ==
    /\ pc = "sending" /\ agent = "busy"
    /\ pc' = "awaiting" /\ agent' = "idle"
    /\ UNCHANGED <<ctxDone, ret, poller, counters, resultVars, pipeVars,
                   chanVars, sessVars, child>>

Orphaned == IF agent = "busy" THEN "orphan" ELSE agent

\* Bug: the message is posted without the context of the run.
SendFailsUncancelled(e) ==
    /\ pc = "sending" /\ ~ctxDone
    /\ pc' = "joinSend" /\ ret' = e /\ agent' = Orphaned
    /\ UNCHANGED <<ctxDone, poller, counters, resultVars, pipeVars, chanVars,
                   sessVars, child>>

\* A 4xx/5xx answer, a transport error (retryable unless s.ctx is done), or an
\* answer the code cannot use.  attemptCancel follows.
SendFails(e) ==
    /\ pc = "sending"
    /\ e = "retry" => ~ctxDone
    /\ pc' = "joinSend" /\ ret' = e /\ agent' = Orphaned
    /\ UNCHANGED <<ctxDone, poller, counters, resultVars, pipeVars, chanVars,
                   sessVars, child>>

\* select: the SSE goroutine's result.
TakeSseResult ==
    /\ pc = "awaiting" /\ sseCh /= "none"
    /\ ret' = IF sseCh = "fatal" THEN "miss" ELSE sseCh
    /\ pc' = "join"
    /\ UNCHANGED <<ctxDone, poller, counters, resultVars, pipeVars, chanVars,
                   sessVars, serverVars>>

\* Bug: no toolCallWaitTimeout.
NoGracePeriod ==
    /\ pc = "awaiting" /\ ctxDone
    /\ ret' = "miss" /\ pc' = "join"
    /\ UNCHANGED <<ctxDone, poller, counters, resultVars, pipeVars, chanVars,
                   sessVars, serverVars>>

\* select: toolCallWaitTimeout.
ToolCallWaitTimeout ==
    /\ pc = "awaiting"
    /\ ret' = "miss" /\ pc' = "join"
    /\ UNCHANGED <<ctxDone, poller, counters, resultVars, pipeVars, chanVars,
                   sessVars, serverVars>>

\* select: s.ctx.Done().
StageTimeout ==
    /\ pc = "awaiting" /\ ctxDone
    /\ ret' = "timeout" /\ pc' = "join"
    /\ UNCHANGED <<ctxDone, poller, counters, resultVars, pipeVars, chanVars,
                   sessVars, serverVars>>

----------------------------------------------------------------------------
(* The retry loop: each action is one way an attempt can go, taken once the  *)
(* forwarder has closed tcDone.                                              *)

\* Bug: sendAndAwaitTool returns without <-tcDone.
JoinedEarly == Joining
Joined == Joining /\ fwd = "done"

\* After a failed post an expired s.ctx outranks the error.
Outcome == IF pc = "joinSend" /\ ctxDone THEN "timeout" ELSE ret

AttemptEnds(o) ==
    /\ Joined /\ Outcome = o
    /\ attempt' = attempt + 1
    /\ ret' = "none"
    /\ UNCHANGED <<ctxDone, poller, pipeVars, chanVars, sessVars, serverVars>>

TryAgain == pc' = "send" /\ UNCHANGED resultVars
LeaveWith(e) == pc' = "stopping" /\ exit' = e /\ UNCHANGED text

RetryCodeError ==
    /\ AttemptEnds("code")
    /\ codeErrorCount + 1 < MaxRetries
    /\ codeErrorCount' = codeErrorCount + 1
    /\ TryAgain
    /\ UNCHANGED <<modelIndex, retryableErrCount, toolMissCount, schemaRetryCount>>

\* Bug: the next model inherits the last one's code errors.
SwitchModelKeepingCount ==
    /\ AttemptEnds("code")
    /\ codeErrorCount + 1 >= MaxRetries
    /\ modelIndex < ChainLen
    /\ modelIndex' = modelIndex + 1
    /\ TryAgain
    /\ UNCHANGED <<codeErrorCount, retryableErrCount, toolMissCount, schemaRetryCount>>

SwitchModel ==
    /\ AttemptEnds("code")
    /\ codeErrorCount + 1 >= MaxRetries
    /\ modelIndex < ChainLen
    /\ modelIndex' = modelIndex + 1 /\ codeErrorCount' = 0
    /\ TryAgain
    /\ UNCHANGED <<retryableErrCount, toolMissCount, schemaRetryCount>>

CodeErrorsExhausted ==
    /\ AttemptEnds("code")
    /\ codeErrorCount + 1 >= MaxRetries
    /\ modelIndex >= ChainLen
    /\ codeErrorCount' = codeErrorCount + 1
    /\ LeaveWith("err") /\ UNCHANGED args
    /\ UNCHANGED <<modelIndex, retryableErrCount, toolMissCount, schemaRetryCount>>

RetryTransientError ==
    /\ AttemptEnds("retry")
    /\ retryableErrCount' = retryableErrCount + 1
    /\ IF retryableErrCount + 1 >= MaxRetries
         THEN LeaveWith("err") /\ UNCHANGED args
         ELSE TryAgain
    /\ UNCHANGED <<modelIndex, codeErrorCount, toolMissCount, schemaRetryCount>>

\* After the last miss jsonFallback(nil) starts: no invalid call is kept.
ToolMissed ==
    /\ AttemptEnds("miss")
    /\ toolMissCount' = toolMissCount + 1
    /\ pc' = IF toolMissCount + 1 >= MaxRetries THEN "fallback" ELSE "send"
    /\ UNCHANGED resultVars
    /\ UNCHANGED <<modelIndex, codeErrorCount, retryableErrCount, schemaRetryCount>>

AttemptFatal ==
    /\ \/ AttemptEnds("fatal") /\ LeaveWith("err")
       \/ AttemptEnds("timeout") /\ LeaveWith("timeout")
    /\ UNCHANGED <<args, modelIndex, codeErrorCount, retryableErrCount,
                   toolMissCount, schemaRetryCount>>

\* ValidateFunc refuses the arguments; after the last time jsonFallback keeps them.
SchemaInvalid ==
    /\ AttemptEnds("invalid")
    /\ schemaRetryCount' = schemaRetryCount + 1
    /\ IF schemaRetryCount + 1 >= MaxRetries
         THEN pc' = "fallback" /\ args' = "invalid" /\ UNCHANGED <<exit, text>>
         ELSE TryAgain
    /\ UNCHANGED <<modelIndex, codeErrorCount, retryableErrCount, toolMissCount>>

ToolResultAccepted ==
    /\ AttemptEnds("valid")
    /\ LeaveWith("result") /\ args' = "valid"
    /\ UNCHANGED <<modelIndex, codeErrorCount, retryableErrCount, toolMissCount,
                   schemaRetryCount>>

----------------------------------------------------------------------------
(* jsonFallback and the ways out *)

FallbackReply ==
    /\ pc = "fallback" /\ agent = "busy"
    /\ text' \in BOOLEAN           \* the answer may hold no text part
    /\ exit' = "fallback" /\ pc' = "stopping" /\ agent' = "idle"
    /\ UNCHANGED <<ctxDone, ret, poller, counters, args, pipeVars, chanVars,
                   sessVars, child>>

FallbackFails ==
    /\ pc = "fallback"
    /\ exit' = IF ctxDone THEN "fallbackTimeout" ELSE "fallbackErr"
    /\ args' = "none" /\ pc' = "stopping" /\ agent' = Orphaned
    /\ UNCHANGED <<ctxDone, ret, poller, counters, text, pipeVars, chanVars,
                   sessVars, child>>

\* Bug: pollCancel without <-pollDone.
StopPollerNoWait ==
    /\ pc = "stopping"
    /\ pc' = "settle"
    /\ UNCHANGED <<ctxDone, ret, poller, counters, resultVars, pipeVars,
                   chanVars, sessVars, serverVars>>

\* pollCancel, then <-pollDone.
StopPoller ==
    /\ pc = "stopping" /\ poller = "done"
    /\ pc' = "settle"
    /\ UNCHANGED <<ctxDone, ret, poller, counters, resultVars, pipeVars,
                   chanVars, sessVars, serverVars>>

\* emitErr aborts a session whose context is done; the other ways out do not.
\* All of them then ask the server to delete it, which may fail.
Settle ==
    /\ pc = "settle"
    /\ aborted' = (exit \in {"err", "timeout"} /\ ctxDone)
    /\ cleaned' = TRUE
    /\ session' \in {"deleted", session}
    /\ pc' = "emit"
    /\ UNCHANGED <<ctxDone, ret, poller, counters, resultVars, pipeVars,
                   chanVars, serverVars>>

Emit ==
    /\ pc = "emit" /\ Len(out) < OutCap
    /\ out' = Append(out, IF exit \in {"result", "fallback"} THEN "Final" ELSE "Err")
    /\ pc' = "close"
    /\ UNCHANGED <<ctxDone, ret, poller, counters, resultVars, pipeVars,
                   consumer, sessVars, serverVars>>

\* run returns; defer close(ch).
CloseOut ==
    /\ pc = "close"
    /\ pc' = "closed"
    /\ UNCHANGED <<ctxDone, ret, poller, counters, resultVars, pipeVars,
                   chanVars, sessVars, serverVars>>

----------------------------------------------------------------------------
(* The SSE goroutine: WaitForToolResult *)

\* Returning closes `events` and leaves the result in sseCh.
SseReturns(r) == sse' = "returned" /\ sseCh' = r /\ wire' = <<>>

SseUnchanged == UNCHANGED <<pc, ctxDone, ret, poller, counters, resultVars,
                            chanVars, sessVars, serverVars>>

\* The subscription starts: what was published before it is never seen.
SseConnects ==
    /\ sse = "connecting" /\ ~AttemptCancelled
    /\ sse' = "streaming"
    /\ UNCHANGED <<sseCh, events, fwd, wire, call>> /\ SseUnchanged

\* No connection, a refused one, a stream that breaks or ends, or the attempt
\* was cancelled.  Only an uncancelled transport failure is retryable.
SseEnds ==
    /\ sse \in {"connecting", "streaming"}
    /\ \E r \in {"retry", "code", "fatal"} :
         /\ r = "retry" => ~AttemptCancelled
         /\ r = "code" => sse = "connecting"
         /\ SseReturns(r)
    /\ UNCHANGED <<events, fwd, call>> /\ SseUnchanged

\* Bug: the queue of tool calls has no limit.
SendToolCallUnbounded(c) == events' = Append(events, c) /\ UNCHANGED call

\* Non-blocking send: a full channel drops the call.
TrySendToolCall(c) ==
    IF Len(events) < EventsCap
      THEN events' = Append(events, c) /\ UNCHANGED call
      ELSE UNCHANGED events /\ call' = IF c = "expected" THEN "dropped" ELSE call

\* Bug: the result is taken from the event before the event is forwarded.
SseReadsResultFirst ==
    /\ sse = "streaming" /\ wire /= <<>> /\ Head(wire) \in Calls
    /\ SseReturns(Head(wire))
    /\ UNCHANGED <<events, fwd, call>> /\ SseUnchanged

\* The expected tool completed: forwarded, then returned.
SseReadsResult ==
    /\ sse = "streaming" /\ wire /= <<>> /\ Head(wire) \in Calls
    /\ TrySendToolCall("expected")
    /\ SseReturns(Head(wire))
    /\ UNCHANGED fwd /\ SseUnchanged

\* Another call is forwarded, one of a child session only once the poller
\* knows that session.
SseReadsOther ==
    /\ sse = "streaming" /\ wire /= <<>> /\ Head(wire) \in {"other", "child"}
    /\ wire' = Tail(wire)
    /\ IF Head(wire) = "other" \/ child = "known"
         THEN TrySendToolCall("other")
         ELSE UNCHANGED <<events, call>>
    /\ UNCHANGED <<sse, sseCh, fwd>> /\ SseUnchanged

\* The expected tool failed, or a session.error carries a 4xx/5xx status.
SseReadsError ==
    /\ sse = "streaming" /\ wire /= <<>> /\ Head(wire) \in {"toolError", "codeError"}
    /\ SseReturns(IF Head(wire) = "toolError" THEN "retry" ELSE "code")
    /\ UNCHANGED <<events, fwd, call>> /\ SseUnchanged

----------------------------------------------------------------------------
(* The forwarder: for tc := range events { s.out <- ... }, then close(tcDone) *)

ForwarderUnchanged == UNCHANGED <<pc, ctxDone, ret, poller, counters, resultVars,
                                  sse, sseCh, wire, consumer, sessVars, serverVars>>

ForwarderTakes ==
    /\ fwd = "idle" /\ events /= <<>>
    /\ fwd' = Head(events) /\ events' = Tail(events)
    /\ UNCHANGED <<out, call>> /\ ForwarderUnchanged

ForwarderSends ==
    /\ fwd \in {"expected", "other"} /\ Len(out) < OutCap
    /\ out' = Append(out, "ToolCall")
    /\ call' = IF fwd = "expected" THEN "shown" ELSE call
    /\ fwd' = "idle"
    /\ UNCHANGED events /\ ForwarderUnchanged

ForwarderEnds ==
    /\ fwd = "idle" /\ events = <<>> /\ sse = "returned"
    /\ fwd' = "done"
    /\ UNCHANGED <<events, out, call>> /\ ForwarderUnchanged

----------------------------------------------------------------------------
(* pollChildren, the caller's loop, and the context *)

PollerUnchanged == UNCHANGED <<pc, ctxDone, ret, counters, resultVars, pipeVars,
                               chanVars, sessVars, agent>>

PollerFinds ==
    /\ poller = "on" /\ child = "created"
    /\ child' = "known"
    /\ UNCHANGED poller /\ PollerUnchanged

PollerEnds ==
    /\ poller = "on" /\ (ctxDone \/ pc = "stopping")
    /\ poller' = "done"
    /\ UNCHANGED child /\ PollerUnchanged

\* collectRunResult and runDecision stop at an Err, and read on after a Final.
Receive ==
    /\ consumer = "reading" /\ out /= <<>>
    /\ out' = Tail(out)
    /\ consumer' = IF Head(out) = "Err" THEN "returned" ELSE "reading"
    /\ UNCHANGED <<pc, ctxDone, ret, poller, counters, resultVars, pipeVars,
                   sessVars, serverVars>>

RangeEnds ==
    /\ consumer = "reading" /\ pc = "closed" /\ out = <<>>
    /\ consumer' = "returned"
    /\ UNCHANGED <<pc, ctxDone, ret, poller, counters, resultVars, pipeVars, out,
                   sessVars, serverVars>>

\* The stage deadline passes or the caller cancels.
Expire ==
    /\ ~ctxDone /\ pc \notin {"close", "closed"}
    /\ ctxDone' = TRUE
    /\ UNCHANGED <<pc, ret, poller, counters, resultVars, pipeVars, chanVars,
                   sessVars, serverVars>>

----------------------------------------------------------------------------
(* The server (external): how the client uses it *)

ServerUnchanged == UNCHANGED <<pc, ctxDone, ret, poller, counters, resultVars,
                               sse, sseCh, events, fwd, chanVars, sessVars>>

AgentAccepts ==
    /\ pc \in {"sending", "fallback"} /\ ~ctxDone
    /\ agent /= "busy" /\ session = "live"
    /\ agent' = "busy"
    /\ UNCHANGED <<child, wire, call>> /\ ServerUnchanged

\* An agent still works for a prompt whose post has failed.
AgentPublishes(k) ==
    /\ agent /= "idle" /\ session = "live"
    /\ k = "child" => child /= "none"
    /\ IF sse = "streaming"
         THEN Len(wire) < WireCap /\ wire' = Append(wire, k)
         ELSE UNCHANGED wire
    /\ call' = IF k \in Calls /\ call = "none" THEN "made" ELSE call
    /\ UNCHANGED <<agent, child>> /\ ServerUnchanged

AgentSpawnsChild ==
    /\ agent /= "idle" /\ session = "live" /\ child = "none"
    /\ child' = "created"
    /\ UNCHANGED <<agent, wire, call>> /\ ServerUnchanged

AgentStops ==
    /\ agent = "orphan"
    /\ agent' = "idle"
    /\ UNCHANGED <<child, wire, call>> /\ ServerUnchanged

----------------------------------------------------------------------------
LoopStep ==
    \/ RetryCodeError \/ SwitchModel \/ CodeErrorsExhausted
    \/ RetryTransientError \/ ToolMissed \/ AttemptFatal
    \/ SchemaInvalid \/ ToolResultAccepted

\* Steps the driving goroutine takes without waiting for the server's agent.
MainStep ==
    \/ CreateSession \/ CreateSessionFails \/ StartAttempt
    \/ TakeSseResult \/ ToolCallWaitTimeout \/ StageTimeout
    \/ LoopStep \/ StopPoller \/ Settle \/ Emit \/ CloseOut

SendFailure == \E e \in {"code", "retry", "fatal"} : SendFails(e)

SseStep == SseConnects \/ SseEnds \/ SseReadsResult \/ SseReadsOther \/ SseReadsError
ForwarderStep == ForwarderTakes \/ ForwarderSends \/ ForwarderEnds
PollerStep == PollerFinds \/ PollerEnds
ConsumerStep == Receive \/ RangeEnds
AgentStep ==
    \/ AgentAccepts \/ AgentSpawnsChild \/ AgentStops
    \/ \E k \in SseEvents : AgentPublishes(k)

Done == Finished /\ UNCHANGED vars

Next ==
    \/ MainStep \/ MessageCompletes \/ SendFailure
    \/ FallbackReply \/ FallbackFails
    \/ SseStep \/ ForwarderStep \/ PollerStep \/ ConsumerStep
    \/ Expire \/ AgentStep \/ Done

Spec == Init /\ [][Next]_vars

\* A request made with a context that is done returns.
CancelledCall == ctxDone /\ (SendFailure \/ FallbackFails)

\* Goroutines are scheduled; time.After fires; the caller keeps reading.  The
\* server's agent, its events and the deadline are not assumed to do anything.
Fairness ==
    /\ WF_vars(MainStep) /\ WF_vars(CancelledCall)
    /\ WF_vars(AttemptCancelled /\ SseEnds)
    /\ WF_vars(ForwarderStep) /\ WF_vars(PollerEnds) /\ WF_vars(ConsumerStep)

FairSpec == Spec /\ Fairness

----------------------------------------------------------------------------
(* Properties *)

TypeOK ==
    /\ pc \in {"create", "send", "sending", "awaiting", "joinSend", "join",
               "fallback", "stopping", "settle", "emit", "close", "closed"}
    /\ ctxDone \in BOOLEAN
    /\ attempt \in Nat /\ modelIndex \in 1..ChainLen
    /\ codeErrorCount \in 0..MaxRetries /\ retryableErrCount \in 0..MaxRetries
    /\ toolMissCount \in 0..MaxRetries /\ schemaRetryCount \in 0..MaxRetries
    /\ ret \in Outcomes \cup {"none"}
    /\ exit \in {"none", "createErr", "err", "timeout", "result", "fallback",
                 "fallbackErr", "fallbackTimeout"}
    /\ args \in {"none", "valid", "invalid"} /\ text \in BOOLEAN
    /\ sse \in {"connecting", "streaming", "returned"}
    /\ sseCh \in SseResults \cup {"none"}
    /\ events \in Seq({"expected", "other"}) /\ Len(events) <= EventsCap
    /\ fwd \in {"done", "idle", "expected", "other"}
    /\ poller \in {"off", "on", "done"}
    /\ out \in Seq({"ToolCall", "Final", "Err"}) /\ Len(out) <= OutCap
    /\ consumer \in {"reading", "returned"}
    /\ session \in {"none", "live", "deleted"}
    /\ aborted \in BOOLEAN /\ cleaned \in BOOLEAN
    /\ agent \in {"idle", "busy", "orphan"}
    /\ wire \in Seq(SseEvents) /\ Len(wire) <= WireCap
    /\ child \in {"none", "created", "known"}
    /\ call \in {"none", "made", "dropped", "shown"}

LoopPCs == {"send", "sending", "awaiting", "joinSend", "join"}

\* Prompts charged to a budget: MaxRetries for every model given up.
Charged == MaxRetries * (modelIndex - 1) + codeErrorCount + retryableErrCount
           + toolMissCount + schemaRetryCount

\* Every prompt posted is charged to exactly one budget, except the one whose
\* result or fatal error ends the run: the run never posts more than MaxRetries
\* prompts per model and MaxRetries - 1 more for each of transient errors, misses
\* and refused arguments (and one JSON fallback).
RetryBudget ==
    /\ \/ attempt = Charged
       \/ attempt = Charged + 1 /\ exit \in {"result", "err", "timeout"}
    /\ pc \in LoopPCs =>
         /\ codeErrorCount < MaxRetries /\ retryableErrCount < MaxRetries
         /\ toolMissCount < MaxRetries /\ schemaRetryCount < MaxRetries
    /\ attempt <= MaxRetries * ChainLen + 3 * (MaxRetries - 1)

\* When the caller can see the terminal event nothing of the run is still at
\* work: the SSE goroutine and the forwarder have returned with nothing left to
\* forward, the poller has stopped, and the session's deletion was asked for.
QuietAtTerminal ==
    pc \in {"close", "closed"} =>
        /\ sse = "returned" /\ events = <<>> /\ fwd = "done"
        /\ poller /= "on"
        /\ exit /= "createErr" => cleaned

\* A result taken from the expected tool was put on the channel as a ToolCall
\* event before the Final event, unless the 256-element channel was full.
ResultShownFirst ==
    exit = "result" => call \in {"shown", "dropped"}

\* Run implements the contract its callers rely on.
Contract == INSTANCE RunContract WITH
    phase <- CASE pc = "closed" -> "closed"
               [] pc = "close" -> "terminal"
               [] OTHER -> "streaming"
ImplementsContract == Contract!Spec

\* A run whose context is done (every run's is, at the stage deadline) ends: the
\* channel is closed and its reader returns, whatever the server does.
CancelledRunEnds == ctxDone ~> Finished

\* With a server that answers every prompt the retry budget alone ends the run.
ResponsiveRunEnds ==
    WF_vars(AgentAccepts \/ MessageCompletes \/ FallbackReply) => <>Finished

\* toolCallWaitTimeout's comment: "if it called the expected tool, the SSE event
\* is already buffered" by the time sendMessage returns (runner.go:36-37).
RepliedCallIsBuffered ==
    (pc = "awaiting" /\ call = "made") =>
        \/ \E i \in DOMAIN wire : wire[i] \in Calls
        \/ sseCh /= "none"
============================================================================
