---------------------------- MODULE RunContract ----------------------------
(***************************************************************************)
(* What Runner.Run promises the code that ranges over its channel           *)
(* (internal/shared/runner): any number of ToolCall events, then exactly    *)
(* one terminal event (Final or Err), then the channel is closed.  Nothing  *)
(* is ever sent after the terminal event or on a closed channel.            *)
(***************************************************************************)
EXTENDS Naturals, Sequences

CONSTANT OutCap     \* capacity of the channel Run returns

VARIABLES out,      \* events sent and not yet received
          phase     \* "streaming", then "terminal", then "closed"

vars == <<out, phase>>

ToolCall == "ToolCall"
Terminals == {"Final", "Err"}

Init == out = <<>> /\ phase = "streaming"

\* An intermediate event: a tool call completed somewhere in the session.
EmitToolCall ==
    /\ phase = "streaming"
    /\ Len(out) < OutCap
    /\ out' = Append(out, ToolCall)
    /\ UNCHANGED phase

\* The one event that ends the run.
EmitTerminal ==
    /\ phase = "streaming"
    /\ Len(out) < OutCap
    /\ \E t \in Terminals : out' = Append(out, t)
    /\ phase' = "terminal"

Close ==
    /\ phase = "terminal"
    /\ phase' = "closed"
    /\ UNCHANGED out

Receive ==
    /\ out /= <<>>
    /\ out' = Tail(out)
    /\ UNCHANGED phase

Next == EmitToolCall \/ EmitTerminal \/ Close \/ Receive

Spec == Init /\ [][Next]_vars
============================================================================
