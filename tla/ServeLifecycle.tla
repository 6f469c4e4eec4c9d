-------------------------- MODULE ServeLifecycle --------------------------
(***************************************************************************)
(* The opencode serve subprocesses of a review: for every stage (reviewer,  *)
(* then finalizer) a fresh Runner starts a server, prechecks the models,    *)
(* works, and stops the server (internal/shared/runner/runner.go,           *)
(* internal/review/pipeline/serve_fallback.go).  The processes, which crash,*)
(* are slow, ignore SIGINT or leave a child behind, are the environment.    *)
(*                                                                          *)
(* A server, its log file and its waiter are named by the order of the      *)
(* launch.  The log is switched on (print_logs); without it r.logFile stays *)
(* nil and the rest is the same.                                            *)
(***************************************************************************)
EXTENDS Naturals, FiniteSets

CONSTANTS Stages,             \* number of stages, one Runner each
          ServeStartAttempts, \* serveStartAttempts
          Models,             \* length of the model chain
          Ports,              \* the ports the system gives out
          Port,               \* cfg.Port (0: not set)
          MaxStrangers        \* bound: ports that other programs bind

ASSUME ServeAssumption ==
    /\ Stages \in Nat \ {0}
    /\ ServeStartAttempts \in Nat \ {0}
    /\ Models \in Nat \ {0}
    /\ Ports \subseteq Nat \ {0}
    /\ Port \in Ports \cup {0}
    /\ MaxStrangers \in Nat

Servers == 1..(Stages * ServeStartAttempts)

VARIABLES
    pc, stage, attempt, model,
    ctxDone,     \* the pipeline's context is done
    launched,    \* servers launched so far
    cur,         \* r.proc of the current Runner (0: nil)
    leader,      \* each server's own process: "none", "booting", "ready", "exited"
    reaped,      \* servers whose cmd.Wait has returned and was reported
    child,       \* servers that left a listening child in their process group
    killed,      \* servers whose process group was sent SIGKILL
    done,        \* procDone channels that hold a value
    baseURL,     \* the port in r.baseURL, that of the latest launch (0: none yet)
    port,        \* the port of each server process that lives (0: it is gone)
    strangers,   \* ports on which other programs listen
    answeredBy,  \* server that answered the health check with 200 (0: none, or a stranger)
    base,        \* servers launched by the Runners of earlier stages
    logFile,     \* r.logFile of the current Runner (0: nil)
    logs,        \* log files that the program has open
    hasLog,      \* servers that were started with an open log file
    disturbed    \* history, for HealthyMeansOurs only: somebody else has bound the port
                 \* of the latest launch between allocatePort and the health check's answer

caller    == <<stage, attempt, model>>
network   == <<baseURL, port, strangers, disturbed>>
processes == <<launched, leader, reaped, child, network>>
logging   == <<base, logFile, logs, hasLog>>
vars == <<pc, caller, ctxDone, cur, processes, killed, done, answeredBy, logging>>

Alive(g) == leader[g] \in {"booting", "ready"}

Init ==
    /\ pc = "launch" /\ stage = 1 /\ attempt = 1 /\ model = 1
    /\ ctxDone = FALSE /\ launched = 0 /\ cur = 0
    /\ leader = [g \in Servers |-> "none"]
    /\ baseURL = 0 /\ port = [g \in Servers |-> 0] /\ strangers = {} /\ disturbed = FALSE
    /\ reaped = {} /\ child = {} /\ killed = {} /\ done = {} /\ answeredBy = 0
    /\ base = 0 /\ logFile = 0 /\ logs = {} /\ hasLog = {}

\* Bug: one procDone channel for all attempts of a Runner.
SharedProcDone(g) == 1

\* The channel made for this launch; only its own waiter sends on it.
ProcDone(g) == g

Listening(g) == leader[g] = "ready" \/ g \in child
OnPort(p) == {g \in 1..launched : Listening(g) /\ port[g] = p}
Taken(p) == p \in strangers \/ OnPort(p) /= {}

\* Bug: the port is picked without asking whether somebody listens there.
AllocateUnasked == IF Port > 0 THEN {Port} ELSE Ports

\* allocatePort: the configured port as it is, or one that could be bound just now.  The
\* listener that showed it is closed again; the server binds the port later (Boot).
AllocatePort == IF Port > 0 THEN {Port} ELSE {p \in Ports : ~Taken(p)}

----------------------------------------------------------------------------
(* startServeSubprocessWithRetries, startServeSubprocessOnce, waitHealthy *)

\* allocatePort and processOutput: r.logFile is the file of the next launch.
OpenLog ==
    /\ pc = "launch"
    /\ baseURL' \in AllocatePort /\ disturbed' = FALSE
    /\ logFile' = launched + 1 /\ logs' = logs \cup {launched + 1}
    /\ pc' = "start"
    /\ UNCHANGED <<caller, ctxDone, cur, launched, leader, reaped, child, port, strangers,
                   killed, done, answeredBy, base, hasLog>>

\* cmd.Start; a log file that was closed meanwhile closes the server's output.
Launch ==
    /\ pc = "start" /\ ~ctxDone
    /\ launched' = launched + 1
    /\ leader' = [leader EXCEPT ![launched'] = "booting"]
    /\ port' = [port EXCEPT ![launched'] = baseURL]
    /\ hasLog' = hasLog \cup (logs \cap {launched'})
    /\ cur' = launched' /\ pc' = "health"
    /\ UNCHANGED <<caller, ctxDone, reaped, child, baseURL, strangers, disturbed, killed, done,
                   answeredBy, base, logFile, logs>>

\* closeLogFile, on whatever r.logFile is.
CloseLogFile == logs' = logs \ {logFile} /\ logFile' = 0

\* No port, no log file, no executable: not a health error, so no retry.
LaunchFails ==
    /\ pc \in {"launch", "start"}
    /\ IF pc = "start" THEN CloseLogFile ELSE UNCHANGED <<logFile, logs>>
    /\ pc' = "end"
    /\ UNCHANGED <<caller, ctxDone, cur, processes, killed, done, answeredBy, base, hasLog>>

\* The check only asks whether somebody answers on the port.
HealthOk ==
    /\ pc = "health"
    /\ \/ \E g \in OnPort(baseURL) : answeredBy' = g
       \/ baseURL \in strangers /\ answeredBy' = 0
    /\ pc' = "precheck" /\ model' = 1
    /\ UNCHANGED <<stage, attempt, ctxDone, cur, processes, killed, done, logging>>

HealthFails ==
    /\ pc = "health"
    /\ pc' = "select"
    /\ UNCHANGED <<caller, ctxDone, cur, processes, killed, done, answeredBy, logging>>

NextTick ==
    /\ pc = "select" /\ ~ctxDone
    /\ pc' = "health"
    /\ UNCHANGED <<caller, ctxDone, cur, processes, killed, done, answeredBy, logging>>

\* processExitedBeforeHealthyError: nothing left to kill.
ExitedBeforeHealthy ==
    /\ pc = "select" /\ ProcDone(cur) \in done
    /\ done' = done \ {ProcDone(cur)}
    /\ cur' = 0 /\ pc' = "attemptFailed"
    /\ UNCHANGED <<caller, ctxDone, processes, killed, answeredBy, logging>>

\* The health deadline or ctx; killAndWait sends SIGKILL to the group.
HealthTimesOut ==
    /\ pc = "select"
    /\ killed' = killed \cup {cur} /\ pc' = "killWait"
    /\ UNCHANGED <<caller, ctxDone, cur, processes, done, answeredBy, logging>>

KillWaited ==
    /\ pc = "killWait" /\ ProcDone(cur) \in done
    /\ done' = done \ {ProcDone(cur)}
    /\ cur' = 0 /\ pc' = "attemptFailed"
    /\ UNCHANGED <<caller, ctxDone, processes, killed, answeredBy, logging>>

\* abortTimeout: the process did not exit after SIGKILL.
KillWaitGivesUp ==
    /\ pc = "killWait"
    /\ cur' = 0 /\ pc' = "attemptFailed"
    /\ UNCHANGED <<caller, ctxDone, processes, killed, done, answeredBy, logging>>

\* Bug: the attempts are not counted.
RetryStartForever ==
    /\ pc = "attemptFailed" /\ ~ctxDone
    /\ attempt' = attempt + 1 /\ pc' = "launch"
    /\ UNCHANGED <<stage, model, ctxDone, cur, processes, killed, done, answeredBy, logging>>

RetryStart ==
    /\ pc = "attemptFailed" /\ ~ctxDone /\ attempt < ServeStartAttempts
    /\ attempt' = attempt + 1 /\ pc' = "launch"
    /\ UNCHANGED <<stage, model, ctxDone, cur, processes, killed, done, answeredBy, logging>>

StartFails ==
    /\ pc = "attemptFailed" /\ (ctxDone \/ attempt = ServeStartAttempts)
    /\ pc' = "end"
    /\ UNCHANGED <<caller, ctxDone, cur, processes, killed, done, answeredBy, logging>>

----------------------------------------------------------------------------
(* precheckModelChain, the stage's own work, StopServe *)

PrecheckOk ==
    /\ pc = "precheck" /\ ~ctxDone
    /\ pc' = "working"
    /\ UNCHANGED <<caller, ctxDone, cur, processes, killed, done, answeredBy, logging>>

\* The next model is tried unless ctx is done or none is left.
PrecheckFails ==
    /\ pc = "precheck"
    /\ IF ~ctxDone /\ model < Models
         THEN model' = model + 1 /\ UNCHANGED pc
         ELSE pc' = "stop" /\ UNCHANGED model
    /\ UNCHANGED <<stage, attempt, ctxDone, cur, processes, killed, done, answeredBy, logging>>

\* Sessions end, in success or in error; StopServe is deferred.
WorkEnds ==
    /\ pc = "working"
    /\ pc' \in {"stop", "stopAndGoOn"}
    /\ UNCHANGED <<caller, ctxDone, cur, processes, killed, done, answeredBy, logging>>

\* The next stage has a Runner of its own, without a log file.
AfterStop == IF pc \in {"stopAndGoOn", "forceAndGoOn"} /\ stage < Stages
               THEN /\ stage' = stage + 1 /\ attempt' = 1 /\ pc' = "launch"
                    /\ base' = launched /\ logFile' = 0 /\ UNCHANGED <<logs, hasLog>>
               ELSE pc' = "end" /\ UNCHANGED <<stage, attempt, logging>>

\* SIGINT to the group, then the leader's exit is awaited.
StopsGracefully ==
    /\ pc \in {"stop", "stopAndGoOn"} /\ ProcDone(cur) \in done
    /\ done' = done \ {ProcDone(cur)}
    /\ cur' = 0 /\ AfterStop
    /\ UNCHANGED <<model, ctxDone, processes, killed, answeredBy>>

\* Bug: after the grace period StopServe waits again, without SIGKILL.
GracePeriodWithoutKill ==
    /\ pc \in {"stop", "stopAndGoOn"}
    /\ pc' = IF pc = "stop" THEN "force" ELSE "forceAndGoOn"
    /\ UNCHANGED <<caller, ctxDone, cur, processes, killed, done, answeredBy, logging>>

\* stopGracePeriod has passed: SIGKILL to the group.
GracePeriodEnds ==
    /\ pc \in {"stop", "stopAndGoOn"}
    /\ killed' = killed \cup {cur}
    /\ pc' = IF pc = "stop" THEN "force" ELSE "forceAndGoOn"
    /\ UNCHANGED <<caller, ctxDone, cur, processes, done, answeredBy, logging>>

\* Bug: StopServe does not wait for the killed process.
StopsWithoutWaiting ==
    /\ pc \in {"force", "forceAndGoOn"}
    /\ cur' = 0 /\ AfterStop
    /\ UNCHANGED <<model, ctxDone, processes, killed, done, answeredBy>>

\* <-r.procDone, without a limit.
StopsForced ==
    /\ pc \in {"force", "forceAndGoOn"} /\ ProcDone(cur) \in done
    /\ done' = done \ {ProcDone(cur)}
    /\ cur' = 0 /\ AfterStop
    /\ UNCHANGED <<model, ctxDone, processes, killed, answeredBy>>

----------------------------------------------------------------------------
(* The waiter goroutine of each launch, the processes, the context *)

\* Bug: the log file is not closed.
ReapKeepingLog(g) ==
    /\ leader[g] = "exited" /\ g \notin reaped /\ ProcDone(g) \notin done
    /\ reaped' = reaped \cup {g} /\ done' = done \cup {ProcDone(g)}
    /\ UNCHANGED <<pc, caller, ctxDone, cur, launched, leader, child, network, killed,
                   answeredBy, logging>>

\* cmd.Wait, closeLogFile, then the channel.  The waiter closes the file r.logFile names
\* by now; that of an earlier stage's Runner is closed (its last server was waited for).
Reap(g) ==
    /\ leader[g] = "exited" /\ g \notin reaped /\ ProcDone(g) \notin done
    /\ reaped' = reaped \cup {g} /\ done' = done \cup {ProcDone(g)}
    /\ IF g > base THEN CloseLogFile ELSE UNCHANGED <<logFile, logs>>
    /\ UNCHANGED <<pc, caller, ctxDone, cur, launched, leader, child, network, killed,
                   answeredBy, base, hasLog>>

ProcessUnchanged == UNCHANGED <<pc, caller, ctxDone, cur, launched, reaped, baseURL, killed,
                                done, answeredBy, logging>>

\* Somebody binds port p, g of the servers or (0) a stranger.
Binds(g, p) ==
    disturbed' = (disturbed \/ (/\ p = baseURL /\ pc \in {"start", "health", "select"}
                                /\ g = 0 \/ g /= cur))

\* The server binds its port, or exits because the port is taken by now.
Boot(g) ==
    /\ leader[g] = "booting"
    /\ \/ /\ ~Taken(port[g])
          /\ leader' = [leader EXCEPT ![g] = "ready"]
          /\ Binds(g, port[g]) /\ UNCHANGED port
       \/ /\ Taken(port[g])
          /\ leader' = [leader EXCEPT ![g] = "exited"]
          /\ port' = [port EXCEPT ![g] = 0] /\ UNCHANGED disturbed
    /\ UNCHANGED <<child, strangers>> /\ ProcessUnchanged

\* A crash, SIGINT, SIGKILL, or ctx: exec.CommandContext kills the leader.
LeaderExits(g) ==
    /\ Alive(g)
    /\ leader' = [leader EXCEPT ![g] = "exited"]
    /\ \/ UNCHANGED child /\ port' = [port EXCEPT ![g] = 0]
       \/ /\ leader[g] = "ready" /\ g \notin killed
          /\ child' = child \cup {g} /\ UNCHANGED port
    /\ UNCHANGED <<strangers, disturbed>> /\ ProcessUnchanged

ChildExits(g) ==
    /\ g \in child
    /\ child' = child \ {g} /\ port' = [port EXCEPT ![g] = 0]
    /\ UNCHANGED <<leader, strangers, disturbed>> /\ ProcessUnchanged

\* Another program binds a port nobody listens on, be it one just given to a launch, and
\* keeps it.  Only while a launch has its port but not its answer: at other times nobody
\* looks at a port but a server given up on, which then exits as it may in any case.
StrangerBinds(p) ==
    /\ pc \in {"start", "health", "select"} /\ ~Taken(p)
    /\ Cardinality(strangers) < MaxStrangers
    /\ strangers' = strangers \cup {p} /\ Binds(0, p)
    /\ UNCHANGED <<leader, child, port>> /\ ProcessUnchanged

Cancel ==
    /\ ~ctxDone /\ pc /= "end"
    /\ ctxDone' = TRUE
    /\ UNCHANGED <<pc, caller, cur, processes, killed, done, answeredBy, logging>>

----------------------------------------------------------------------------
StartStep ==
    \/ OpenLog \/ Launch \/ LaunchFails \/ HealthOk \/ HealthFails \/ NextTick
    \/ ExitedBeforeHealthy \/ HealthTimesOut \/ KillWaited \/ KillWaitGivesUp
    \/ RetryStart \/ StartFails
StopStep == StopsGracefully \/ GracePeriodEnds \/ StopsForced
StageStep == PrecheckOk \/ PrecheckFails \/ WorkEnds

ProcessStep == \E g \in Servers : Boot(g) \/ LeaderExits(g) \/ ChildExits(g)
StrangerStep == \E p \in Ports : StrangerBinds(p)

Done == pc = "end" /\ UNCHANGED vars

Next ==
    \/ StartStep \/ StageStep \/ StopStep
    \/ \E g \in Servers : Reap(g)
    \/ ProcessStep \/ StrangerStep \/ Cancel \/ Done

Spec == Init /\ [][Next]_vars

\* The stage's requests end (they carry deadlines), the health deadline is
\* reached, SIGKILL ends a process, and the waiter goroutines run.
Fairness ==
    /\ WF_vars(StartStep) /\ SF_vars(HealthTimesOut)
    /\ WF_vars(StageStep) /\ WF_vars(StopStep)
    /\ \A g \in Servers : WF_vars(Reap(g)) /\ WF_vars(g \in killed /\ LeaderExits(g))

FairSpec == Spec /\ Fairness

----------------------------------------------------------------------------
(* Properties *)

TypeOK ==
    /\ pc \in {"launch", "start", "health", "select", "killWait", "attemptFailed", "precheck",
               "working", "stop", "stopAndGoOn", "force", "forceAndGoOn", "end"}
    /\ stage \in 1..Stages /\ attempt \in 1..ServeStartAttempts /\ model \in 1..Models
    /\ ctxDone \in BOOLEAN /\ launched \in 0..(Stages * ServeStartAttempts)
    /\ cur \in 0..launched /\ answeredBy \in 0..launched
    /\ leader \in [Servers -> {"none", "booting", "ready", "exited"}]
    /\ reaped \subseteq Servers /\ child \subseteq Servers /\ killed \subseteq Servers
    /\ done \subseteq Servers /\ logs \subseteq Servers /\ hasLog \subseteq 1..launched
    /\ base \in 0..launched /\ logFile \in Servers \cup {0}
    /\ baseURL \in Ports \cup {0} /\ port \in [Servers -> Ports \cup {0}]
    /\ strangers \subseteq Ports /\ disturbed \in BOOLEAN

\* A server process the Runner no longer tracks has at least been sent SIGKILL:
\* no attempt, stage or error path forgets a running server.
UntrackedIsKilled ==
    \A g \in 1..launched : Alive(g) => g = cur \/ g \in killed

\* When StopServe has returned, the server of that stage has exited: the next
\* stage, the removal of the workspace and git clean never meet it.
StoppedMeansExited ==
    [][cur /= 0 /\ cur' = 0 /\ pc \notin {"select", "killWait"} => leader'[cur] = "exited"]_vars

\* A stage talks to the server it started (its own config and agents): with Port = 0
\* the server that answered the health check is r.proc, whatever servers and children of
\* earlier attempts and stages still listen, unless somebody else has bound the port
\* between allocatePort's closing it and the server's own bind.  That window, and a
\* configured port on which somebody listens already, nothing in the code closes.
HealthyMeansOurs ==
    pc \in {"precheck", "working"} /\ ~disturbed => answeredBy = cur

\* The launches of the current Runner whose end it has waited for.
Awaited(g) == g \in reaped \ done

\* The log of a server is open when it starts and until it has ended, and is closed by
\* the time StopServe or a failed attempt returns.  Not so once killAndWait has given up
\* on a launch: its waiter closes the log of a later one.
LogsFollowServers ==
    (\A g \in (base + 1)..launched : g = cur \/ Awaited(g)) =>
        \A g \in (base + 1)..launched : g \in hasLog /\ (g \in logs <=> g \notin reaped)

\* Every start, precheck and stop returns, whatever the servers do.
LifecycleEnds == <>(pc = "end")
============================================================================
