----------------------- MODULE ServeLifecycle_proofs -----------------------
(***************************************************************************)
(* Proofs about ServeLifecycle, for every number of stages, attempts and    *)
(* models, with allocated or configured ports.                              *)
(*                                                                          *)
(* UntrackedIsKilled is not inductive: that a server may be forgotten       *)
(* depends on what a value in its procDone channel means (DoneMeansExited)  *)
(* and on where r.proc is set at all (Tracked).                             *)
(***************************************************************************)
EXTENDS ServeLifecycle, Integers, TLAPS

\* Where the caller has no server, and where it has one.
Without == {"launch", "start", "attemptFailed", "end"}
With    == {"health", "select", "killWait", "precheck", "working", "stop",
            "stopAndGoOn", "force", "forceAndGoOn"}

Before(g) == leader[g] = "none"

TypeInv ==
    /\ pc \in Without \cup With
    /\ stage \in 1..Stages /\ attempt \in 1..ServeStartAttempts /\ model \in 1..Models
    /\ ctxDone \in BOOLEAN /\ launched \in Nat
    /\ cur \in 0..launched /\ answeredBy \in 0..launched
    /\ leader \in [Servers -> {"none", "booting", "ready", "exited"}]
    /\ reaped \subseteq Servers /\ child \subseteq Servers /\ killed \subseteq Servers
    /\ done \subseteq Servers
    /\ base \in 0..launched /\ logFile \in Servers \cup {0} /\ logs \subseteq Servers
    /\ hasLog \subseteq 1..launched
    /\ baseURL \in Ports \cup {0} /\ port \in [Servers -> Ports \cup {0}]
    /\ strangers \subseteq Ports /\ disturbed \in BOOLEAN

\* Every attempt of every stage launches at most one server.
LaunchesInv ==
    launched + (IF pc \in {"launch", "start"} THEN 1 ELSE 0) <= (stage - 1) * ServeStartAttempts + attempt

\* r.proc is set exactly between a launch and the end of the attempt or the stop.
Tracked ==
    /\ pc \in Without => cur = 0
    /\ pc \in With => cur \in 1..launched
    /\ \A g \in Servers : g > launched => Before(g)

\* A value in procDone means that the process is gone, and it is waited for only
\* after SIGKILL where the wait is given up.
DoneMeansExited ==
    /\ \A g \in done : leader[g] = "exited"
    /\ pc \in {"killWait", "force", "forceAndGoOn"} => cur \in killed

IInv == TypeInv /\ LaunchesInv /\ Tracked /\ DoneMeansExited /\ UntrackedIsKilled

----------------------------------------------------------------------------
\* The attempts of the stages before n and those of stage n are within the total.
LEMMA Launches ==
    ASSUME NEW n \in 1..Stages, NEW a \in 1..ServeStartAttempts
    PROVE  /\ (n - 1) * ServeStartAttempts + a \in Nat
           /\ (n - 1) * ServeStartAttempts + a <= Stages * ServeStartAttempts
           /\ (n - 1) * ServeStartAttempts + ServeStartAttempts = ((n + 1) - 1) * ServeStartAttempts
<1>1. Stages \in Nat /\ ServeStartAttempts \in Nat /\ n \in Nat /\ a \in Nat
  BY ServeAssumption
<1>2. (n - 1) * ServeStartAttempts + ServeStartAttempts = n * ServeStartAttempts
  BY <1>1
<1>3. n * ServeStartAttempts <= Stages * ServeStartAttempts
  <2>1. PICK d \in Nat : Stages = n + d
    <3>1. Stages - n \in Nat /\ Stages = n + (Stages - n)
      BY <1>1
    <3>2. QED
      BY <3>1
  <2>2. Stages * ServeStartAttempts = n * ServeStartAttempts + d * ServeStartAttempts
    BY <2>1, <1>1
  <2>3. d * ServeStartAttempts \in Nat /\ n * ServeStartAttempts \in Nat
    BY <2>1, <1>1
  <2>4. QED
    BY <2>2, <2>3
<1>4. (n - 1) * ServeStartAttempts \in Nat /\ n * ServeStartAttempts \in Nat
      /\ Stages * ServeStartAttempts \in Nat
  BY <1>1
<1>5. QED
  BY <1>1, <1>2, <1>3, <1>4

LEMMA ServersType ==
    TypeInv /\ LaunchesInv =>
        /\ Stages * ServeStartAttempts \in Nat
        /\ launched <= Stages * ServeStartAttempts
        /\ pc \in {"launch", "start"} => launched + 1 \in Servers
        /\ \A g \in 1..launched : g \in Servers
<1> SUFFICES ASSUME TypeInv, LaunchesInv
             PROVE  /\ Stages * ServeStartAttempts \in Nat
                    /\ launched <= Stages * ServeStartAttempts
                    /\ pc \in {"launch", "start"} => launched + 1 \in Servers
                    /\ \A g \in 1..launched : g \in Servers
  OBVIOUS
<1> DEFINE Total == Stages * ServeStartAttempts
           Used  == (stage - 1) * ServeStartAttempts + attempt
<1>1. Used \in Nat /\ Used <= Total /\ launched \in Nat
  BY Launches DEF TypeInv
<1>2. Total \in Nat
  BY ServeAssumption
<1>3. launched + (IF pc \in {"launch", "start"} THEN 1 ELSE 0) <= Used
  BY DEF LaunchesInv
<1>4. Servers = 1..Total
  BY DEF Servers
<1> HIDE DEF Total, Used
<1>5. launched <= Total /\ (pc \in {"launch", "start"} => launched + 1 \in 1..Total)
  BY <1>1, <1>2, <1>3
<1>6. QED
  BY <1>1, <1>2, <1>4, <1>5 DEF Total

----------------------------------------------------------------------------
LEMMA InitInv == Init => IInv
<1> SUFFICES ASSUME Init PROVE IInv
  OBVIOUS
<1> USE ServeAssumption DEF Init
<1>1. TypeInv
  <2>1. pc \in Without \cup With
    BY DEF Without, With
  <2>2. 1 \in 1..Stages /\ 1 \in 1..ServeStartAttempts /\ 1 \in 1..Models
    OBVIOUS
  <2>3. leader \in [Servers -> {"none", "booting", "ready", "exited"}]
    OBVIOUS
  <2>4. reaped \subseteq Servers /\ child \subseteq Servers /\ killed \subseteq Servers
        /\ done \subseteq Servers
    OBVIOUS
  <2>5. launched \in Nat /\ cur \in 0..launched /\ answeredBy \in 0..launched
    OBVIOUS
  <2>6. stage \in 1..Stages /\ attempt \in 1..ServeStartAttempts /\ model \in 1..Models
        /\ ctxDone \in BOOLEAN
    BY <2>2
  <2>7. /\ base \in 0..launched /\ logFile \in Servers \cup {0} /\ logs \subseteq Servers
        /\ hasLog \subseteq 1..launched
    OBVIOUS
  <2>8. /\ baseURL \in Ports \cup {0} /\ port \in [Servers -> Ports \cup {0}]
        /\ strangers \subseteq Ports /\ disturbed \in BOOLEAN
    OBVIOUS
  <2>9. QED
    BY <2>1, <2>3, <2>4, <2>5, <2>6, <2>7, <2>8 DEF TypeInv
<1>2. LaunchesInv
  BY DEF LaunchesInv
<1>3. Tracked /\ DoneMeansExited /\ UntrackedIsKilled
  BY DEF Tracked, Before, Without, With, DoneMeansExited, UntrackedIsKilled
<1>4. QED
  BY <1>1, <1>2, <1>3 DEF IInv

\* The log of the next launch is opened.
LEMMA OpenLogKeeps == IInv /\ OpenLog => IInv'
<1> SUFFICES ASSUME IInv, OpenLog PROVE IInv'
  OBVIOUS
<1> USE DEF OpenLog, caller, processes, network
<1>1. launched + 1 \in Servers
  BY ServersType DEF IInv
<1>2. TypeInv'
  <2>1. baseURL' \in Ports
    BY ServeAssumption DEF AllocatePort
  <2>2. QED
    BY <1>1, <2>1 DEF IInv, TypeInv, Without
<1>3. LaunchesInv'
  BY DEF IInv, LaunchesInv
<1>4. Tracked' /\ DoneMeansExited' /\ UntrackedIsKilled'
  BY DEF IInv, Tracked, Before, Without, With, DoneMeansExited, UntrackedIsKilled, Alive
<1>5. QED
  BY <1>2, <1>3, <1>4 DEF IInv

\* A launch adds a server nobody has seen.
LEMMA LaunchKeeps == IInv /\ Launch => IInv'
<1> SUFFICES ASSUME IInv, Launch PROVE IInv'
  OBVIOUS
<1> USE DEF Launch, caller
<1>1. /\ launched + 1 \in Servers /\ launched \in Nat
      /\ \A g \in 1..launched : g \in Servers
  BY ServersType DEF IInv, TypeInv
<1>2. TypeInv'
  <2>1. hasLog' \subseteq 1..launched' /\ base' \in 0..launched'
    <3>1. \A g \in 1..launched : g \in 1..(launched + 1)
      BY <1>1
    <3>2. launched + 1 \in 1..(launched + 1) /\ base \in 0..(launched + 1)
      BY <1>1 DEF IInv, TypeInv
    <3>3. hasLog \subseteq 1..launched
      BY DEF IInv, TypeInv
    <3>4. QED
      BY <3>1, <3>2, <3>3
  <2>2. leader' \in [Servers -> {"none", "booting", "ready", "exited"}]
    BY <1>1 DEF IInv, TypeInv
  <2>3. cur' \in 0..launched' /\ answeredBy' \in 0..launched' /\ launched' \in Nat
    BY <1>1 DEF IInv, TypeInv
  <2>4. port' \in [Servers -> Ports \cup {0}]
    BY <1>1 DEF IInv, TypeInv
  <2>5. QED
    BY <2>1, <2>2, <2>3, <2>4 DEF IInv, TypeInv, With
<1>3. LaunchesInv'
  BY <1>1 DEF IInv, LaunchesInv
<1>4. Tracked'
  BY <1>1 DEF IInv, TypeInv, Tracked, Before, Without, With, Servers
<1>5. DoneMeansExited'
  <2> SUFFICES ASSUME NEW g \in done PROVE leader'[g] = "exited"
    BY DEF DoneMeansExited
  <2>1. leader[g] = "exited" /\ g \in Servers
    BY DEF IInv, DoneMeansExited, TypeInv
  <2>2. g /= launched + 1
    BY <2>1, <1>1 DEF IInv, Tracked, Before
  <2>3. QED
    BY <2>1, <2>2, <1>1 DEF IInv, TypeInv
<1>6. UntrackedIsKilled'
  <2> SUFFICES ASSUME NEW g \in 1..(launched + 1), Alive(g)'
               PROVE  g = launched + 1 \/ g \in killed
    BY DEF UntrackedIsKilled
  <2>1. CASE g = launched + 1
    BY <2>1
  <2>2. CASE g \in 1..launched
    <3>1. Alive(g) /\ cur = 0
      BY <2>2, <1>1 DEF IInv, Tracked, TypeInv, Alive, Without
    <3>2. QED
      BY <2>2, <3>1 DEF IInv, UntrackedIsKilled
  <2>3. QED
    BY <2>1, <2>2, <1>1
<1>7. QED
  BY <1>2, <1>3, <1>4, <1>5, <1>6 DEF IInv

\* Nothing of a step that neither launches nor lets go of a server, and in which no
\* process moves, bears on the invariant but the caller's place and SIGKILL.
LEMMA CallerKeeps ==
    ASSUME IInv, UNCHANGED <<cur, processes, answeredBy, base, hasLog>>,
           logs' \subseteq logs, logFile' \in {logFile, 0},
           pc' \in Without \cup With, pc' \notin {"launch", "start"},
           stage' = stage, attempt' = attempt, model' \in 1..Models, ctxDone' \in BOOLEAN,
           (pc \in Without) <=> (pc' \in Without),
           killed \subseteq killed', killed' \subseteq killed \cup {cur}, done' = done,
           pc' \in {"killWait", "force", "forceAndGoOn"} => cur \in killed',
           cur \in Servers \/ killed' = killed
    PROVE  IInv'
<1> USE DEF processes, network
<1>1. TypeInv'
  BY DEF IInv, TypeInv
<1>2. LaunchesInv'
  <2>1. /\ launched \in Nat /\ (stage - 1) * ServeStartAttempts + attempt \in Nat
        /\ launched' = launched
    BY Launches DEF IInv, TypeInv
  <2>2. launched <= (stage - 1) * ServeStartAttempts + attempt
    BY <2>1 DEF IInv, LaunchesInv
  <2>3. QED
    BY <2>1, <2>2 DEF LaunchesInv
<1>3. Tracked'
  BY DEF IInv, Tracked, Before, TypeInv, Without, With
<1>4. DoneMeansExited'
  BY DEF IInv, DoneMeansExited
<1>5. UntrackedIsKilled'
  BY DEF IInv, UntrackedIsKilled, Alive
<1>6. QED
  BY <1>1, <1>2, <1>3, <1>4, <1>5 DEF IInv

\* A server is let go of when it has exited or was sent SIGKILL; the next launch, if
\* there is one, is within the attempts.
LEMMA ReleaseKeeps ==
    ASSUME IInv, pc \in With, cur' = 0, UNCHANGED <<processes, killed, answeredBy, ctxDone>>,
           leader[cur] = "exited" \/ cur \in killed,
           done' \subseteq done, model' = model, UNCHANGED <<logs, hasLog>>,
           base' \in {base, launched}, logFile' \in {logFile, 0},
           \/ pc' \in {"attemptFailed", "end"} /\ UNCHANGED <<stage, attempt>>
           \/ pc' = "launch" /\ stage < Stages /\ stage' = stage + 1 /\ attempt' = 1
    PROVE  IInv'
<1> USE DEF processes, network
<1>1. /\ launched \in Nat /\ stage \in 1..Stages /\ attempt \in 1..ServeStartAttempts
      /\ cur \in 1..launched /\ launched' = launched /\ Stages \in Nat
      /\ 1 \in 1..ServeStartAttempts
  BY ServeAssumption DEF IInv, TypeInv, Tracked
<1>2. TypeInv'
  BY <1>1 DEF IInv, TypeInv, Without, With
<1>3. LaunchesInv'
  <2> DEFINE Used == (stage - 1) * ServeStartAttempts
  <2>1. /\ Used + attempt \in Nat
        /\ Used + ServeStartAttempts = ((stage + 1) - 1) * ServeStartAttempts
    BY <1>1, Launches
  <2>2. launched <= Used + attempt
    BY <1>1, <2>1 DEF IInv, LaunchesInv, With
  <2>3. CASE pc' \in {"attemptFailed", "end"} /\ UNCHANGED <<stage, attempt>>
    BY <2>2, <2>3, <1>1 DEF LaunchesInv
  <2>4. CASE pc' = "launch" /\ stage < Stages /\ stage' = stage + 1 /\ attempt' = 1
    <3>1. (stage' - 1) * ServeStartAttempts = Used + ServeStartAttempts
      BY <2>1, <2>4
    <3>2. Used \in Int
      <4>1. stage \in Nat /\ ServeStartAttempts \in Nat
        BY <1>1, ServeAssumption
      <4>2. QED
        BY <4>1
    <3> HIDE DEF Used
    <3>3. launched + 1 <= (Used + ServeStartAttempts) + 1
      BY <2>2, <3>2, <1>1, ServeAssumption
    <3>4. QED
      BY <2>4, <3>1, <3>3, <1>1 DEF LaunchesInv
  <2>5. QED
    BY <2>3, <2>4
<1>4. Tracked'
  BY <1>1 DEF IInv, Tracked, Before, Without, With
<1>5. DoneMeansExited'
  BY DEF IInv, DoneMeansExited
<1>6. UntrackedIsKilled'
  BY <1>1 DEF IInv, UntrackedIsKilled, Alive
<1>7. QED
  BY <1>2, <1>3, <1>4, <1>5, <1>6 DEF IInv

\* The steps of the Runner that keep its server.
LEMMA KeepingSteps ==
    ASSUME IInv,
           \/ HealthFails \/ NextTick \/ HealthTimesOut \/ LaunchFails \/ StartFails
           \/ PrecheckOk \/ PrecheckFails \/ WorkEnds \/ GracePeriodEnds
    PROVE  IInv'
<1> USE DEF caller, processes, network, logging
<1>1. /\ stage' = stage /\ attempt' = attempt /\ ctxDone' = ctxDone
      /\ UNCHANGED <<cur, processes, answeredBy, done, base, hasLog>>
      /\ logs' \subseteq logs /\ logFile' \in {logFile, 0}
  BY DEF CloseLogFile, HealthFails, NextTick, HealthTimesOut, LaunchFails, StartFails, PrecheckOk,
     PrecheckFails, WorkEnds, GracePeriodEnds
<1>2. /\ pc' \in Without \cup With /\ pc' \notin {"launch", "start"}
      /\ (pc \in Without) <=> (pc' \in Without)
  BY DEF HealthFails, NextTick, HealthTimesOut, LaunchFails, StartFails, PrecheckOk,
     PrecheckFails, WorkEnds, GracePeriodEnds, Without, With
<1>3. model' \in 1..Models
  <2>1. CASE PrecheckFails
    <3>1. model \in Nat /\ Models \in Nat /\ model \in 1..Models
      BY ServeAssumption DEF IInv, TypeInv
    <3>2. QED
      BY <2>1, <3>1 DEF PrecheckFails
  <2>2. CASE model' = model
    BY <2>2 DEF IInv, TypeInv
  <2>3. QED
    BY <2>1, <2>2 DEF HealthFails, NextTick, HealthTimesOut, LaunchFails, StartFails,
       PrecheckOk, WorkEnds, GracePeriodEnds
<1>4. /\ killed \subseteq killed' /\ killed' \subseteq killed \cup {cur}
      /\ pc' \in {"killWait", "force", "forceAndGoOn"} => cur \in killed'
  BY DEF HealthFails, NextTick, HealthTimesOut, LaunchFails, StartFails, PrecheckOk,
     PrecheckFails, WorkEnds, GracePeriodEnds
<1>5. cur \in Servers \/ killed' = killed
  <2>1. CASE pc \in With
    <3>1. cur \in 1..launched
      BY <2>1 DEF IInv, Tracked
    <3>2. QED
      BY <3>1, ServersType DEF IInv
  <2>2. CASE pc \notin With
    BY <2>2 DEF HealthFails, NextTick, HealthTimesOut, LaunchFails, StartFails,
       PrecheckOk, PrecheckFails, WorkEnds, GracePeriodEnds, With
  <2>3. QED
    BY <2>1, <2>2
<1>6. ctxDone' \in BOOLEAN
  BY <1>1 DEF IInv, TypeInv
<1>7. QED
  BY <1>1, <1>2, <1>3, <1>4, <1>5, <1>6, CallerKeeps

\* A server that answers is one that was launched.
LEMMA HealthOkKeeps == IInv /\ HealthOk => IInv'
<1> SUFFICES ASSUME IInv, HealthOk PROVE IInv'
  OBVIOUS
<1> USE DEF HealthOk, processes, network, logging
<1>1. answeredBy' \in 0..launched
  BY DEF OnPort, IInv, TypeInv
<1>2. launched \in Nat /\ 1 \in 1..Models
  BY ServeAssumption DEF IInv, TypeInv
<1>3. TypeInv'
  BY <1>1, <1>2 DEF IInv, TypeInv, With
<1>4. LaunchesInv'
  BY DEF IInv, LaunchesInv
<1>5. Tracked' /\ DoneMeansExited' /\ UntrackedIsKilled'
  BY DEF IInv, Tracked, Before, Without, With, DoneMeansExited, UntrackedIsKilled, Alive
<1>6. QED
  BY <1>3, <1>4, <1>5 DEF IInv

\* The attempts of a stage are counted.
LEMMA RetryStartKeeps == IInv /\ RetryStart => IInv'
<1> SUFFICES ASSUME IInv, RetryStart PROVE IInv'
  OBVIOUS
<1> USE DEF RetryStart, processes, network, logging
<1>1. /\ attempt \in 1..ServeStartAttempts /\ stage \in 1..Stages /\ launched \in Nat
      /\ ServeStartAttempts \in Nat /\ Stages \in Nat
  BY ServeAssumption DEF IInv, TypeInv
<1>2. TypeInv'
  BY <1>1 DEF IInv, TypeInv, Without
<1>3. LaunchesInv'
  <2> DEFINE Used == (stage - 1) * ServeStartAttempts
  <2>1. Used \in Int
    <3>1. stage \in Nat
      BY <1>1
    <3>2. QED
      BY <3>1, <1>1
  <2>2. launched <= Used + attempt
    BY <1>1, <2>1 DEF IInv, LaunchesInv
  <2>3. stage' = stage /\ attempt' = attempt + 1 /\ launched' = launched /\ pc' = "launch"
    OBVIOUS
  <2> HIDE DEF Used
  <2>4. launched + 1 <= Used + (attempt + 1)
    BY <2>1, <2>2, <1>1
  <2>5. QED
    BY <2>3, <2>4 DEF LaunchesInv, Used
<1>4. Tracked' /\ DoneMeansExited' /\ UntrackedIsKilled'
  BY DEF IInv, Tracked, Before, Without, With, DoneMeansExited, UntrackedIsKilled, Alive
<1>5. QED
  BY <1>2, <1>3, <1>4 DEF IInv

\* The steps of the Runner that set r.proc to nil.
LEMMA ReleasingSteps ==
    ASSUME IInv,
           \/ ExitedBeforeHealthy \/ KillWaited \/ KillWaitGivesUp
           \/ StopsGracefully \/ StopsForced
    PROVE  IInv'
<1> USE DEF processes, network, caller, logging
<1>1. /\ pc \in With /\ cur' = 0 /\ UNCHANGED <<processes, killed, answeredBy, ctxDone>>
      /\ done' \subseteq done /\ model' = model /\ UNCHANGED <<logs, hasLog>>
      /\ base' \in {base, launched} /\ logFile' \in {logFile, 0}
  BY DEF AfterStop, ExitedBeforeHealthy, KillWaited, KillWaitGivesUp, StopsGracefully,
     StopsForced, With
<1>2. leader[cur] = "exited" \/ cur \in killed
  BY DEF IInv, DoneMeansExited, ProcDone, ExitedBeforeHealthy, KillWaited,
     KillWaitGivesUp, StopsGracefully, StopsForced
<1>3. \/ pc' \in {"attemptFailed", "end"} /\ UNCHANGED <<stage, attempt>>
      \/ pc' = "launch" /\ stage < Stages /\ stage' = stage + 1 /\ attempt' = 1
  BY DEF AfterStop, ExitedBeforeHealthy, KillWaited, KillWaitGivesUp, StopsGracefully,
     StopsForced
<1>4. QED
  BY <1>1, <1>2, <1>3, ReleaseKeeps

\* The waiter sends when the process has exited, and no process starts again.
LEMMA ProcessesKeep ==
    ASSUME IInv, NEW g \in Servers,
           Reap(g) \/ Boot(g) \/ LeaderExits(g) \/ ChildExits(g)
    PROVE  IInv'
<1> USE DEF caller, logging, ProcessUnchanged
<1>1. /\ UNCHANGED <<pc, stage, attempt, model, ctxDone, cur, launched, killed, answeredBy>>
      /\ reaped' \subseteq reaped \cup {g} /\ child' \subseteq child \cup {g}
      /\ UNCHANGED <<base, hasLog>> /\ logs' \subseteq logs /\ logFile' \in {logFile, 0}
  BY DEF CloseLogFile, Reap, Boot, LeaderExits, ChildExits
<1>2. done' \subseteq done \cup {g} /\ \A h \in done' : leader'[h] = "exited"
  <2>1. CASE Reap(g)
    BY <2>1 DEF IInv, DoneMeansExited, Reap, ProcDone
  <2>2. CASE Boot(g) \/ LeaderExits(g)
    <3>1. done' = done /\ Alive(g)
      BY <2>2 DEF Boot, LeaderExits, Alive
    <3>2. \A h \in done : h /= g
      BY <3>1 DEF IInv, DoneMeansExited, Alive
    <3>3. \A h \in Servers : h /= g => leader'[h] = leader[h]
      BY <2>2 DEF Boot, LeaderExits, IInv, TypeInv
    <3>4. done \subseteq Servers
      BY DEF IInv, TypeInv
    <3>5. QED
      BY <3>1, <3>2, <3>3, <3>4 DEF IInv, DoneMeansExited
  <2>3. CASE ChildExits(g)
    BY <2>3 DEF IInv, DoneMeansExited, ChildExits
  <2>4. QED
    BY <2>1, <2>2, <2>3
<1>3. /\ leader' \in [Servers -> {"none", "booting", "ready", "exited"}]
      /\ \A h \in Servers : Before(h) => leader'[h] = "none"
      /\ \A h \in Servers : leader'[h] \in {"booting", "ready"} => Alive(h)
  BY DEF Reap, Boot, LeaderExits, ChildExits, IInv, TypeInv, Before, Alive
<1>4. TypeInv'
  <2>1. /\ baseURL' = baseURL /\ strangers' = strangers /\ disturbed' \in BOOLEAN
        /\ port' \in [Servers -> Ports \cup {0}]
    BY DEF Reap, Boot, LeaderExits, ChildExits, Binds, network, IInv, TypeInv
  <2>2. QED
    BY <1>1, <1>2, <1>3, <2>1 DEF IInv, TypeInv
<1>5. LaunchesInv'
  BY <1>1 DEF IInv, LaunchesInv
<1>6. Tracked'
  BY <1>1, <1>3 DEF IInv, Tracked, Before
<1>7. DoneMeansExited'
  BY <1>1, <1>2 DEF IInv, DoneMeansExited
<1>8. UntrackedIsKilled'
  <2> SUFFICES ASSUME NEW h \in 1..launched, Alive(h)' PROVE h = cur \/ h \in killed
    BY <1>1 DEF UntrackedIsKilled
  <2>1. h \in Servers
    BY ServersType DEF IInv
  <2>2. Alive(h)
    BY <1>3, <2>1 DEF Alive
  <2>3. QED
    BY <2>2 DEF IInv, UntrackedIsKilled
<1>9. QED
  BY <1>4, <1>5, <1>6, <1>7, <1>8 DEF IInv

\* What other programs bind moves no server.
LEMMA StrangersKeep == IInv /\ StrangerStep => IInv'
<1> SUFFICES ASSUME IInv, NEW p \in Ports, StrangerBinds(p) PROVE IInv'
  BY DEF StrangerStep
<1>1. /\ UNCHANGED <<pc, stage, attempt, model, ctxDone, cur, launched, leader, reaped, child,
                     baseURL, port, killed, done, answeredBy, base, logFile, logs, hasLog>>
      /\ strangers' \subseteq Ports /\ disturbed' \in BOOLEAN
  BY DEF StrangerBinds, ProcessUnchanged, Binds, caller, logging, IInv, TypeInv
<1>2. QED
  BY <1>1 DEF IInv, TypeInv, LaunchesInv, Tracked, Before, DoneMeansExited,
     UntrackedIsKilled, Alive

\* Every reachable state is one the invariant describes.
LEMMA IInvCorrect == Spec => []IInv
<1>1. IInv /\ [Next]_vars => IInv'
  <2> SUFFICES ASSUME IInv, [Next]_vars PROVE IInv'
    OBVIOUS
  <2>1. CASE StartStep
    BY <2>1, OpenLogKeeps, LaunchKeeps, KeepingSteps, HealthOkKeeps, ReleasingSteps, RetryStartKeeps
       DEF StartStep
  <2>2. CASE StageStep
    BY <2>2, KeepingSteps DEF StageStep
  <2>3. CASE StopStep
    BY <2>3, KeepingSteps, ReleasingSteps DEF StopStep
  <2>4. CASE \E g \in Servers : Reap(g)
    BY <2>4, ProcessesKeep
  <2>5. CASE ProcessStep
    BY <2>5, ProcessesKeep DEF ProcessStep
  <2>6. CASE Cancel
    BY <2>6 DEF Cancel, caller, processes, network, logging, IInv, TypeInv, LaunchesInv, Tracked, Before,
       DoneMeansExited, UntrackedIsKilled, Alive
  <2>7. CASE UNCHANGED vars
    BY <2>7 DEF vars, caller, processes, network, logging, IInv, TypeInv, LaunchesInv, Tracked, Before,
       DoneMeansExited, UntrackedIsKilled, Alive
  <2>8. CASE StrangerStep
    BY <2>8, StrangersKeep
  <2>9. QED
    BY <2>1, <2>2, <2>3, <2>4, <2>5, <2>6, <2>7, <2>8 DEF Next, Done
<1>2. QED
  BY InitInv, <1>1, PTL DEF Spec

----------------------------------------------------------------------------
\* Types, and with them the bound on launches: every attempt of every stage starts at
\* most one server, whatever the servers and the context do.
THEOREM TypeCorrect == Spec => []TypeOK
<1>1. IInv => TypeOK
  <2> SUFFICES ASSUME IInv PROVE TypeOK
    OBVIOUS
  <2>1. launched \in 0..(Stages * ServeStartAttempts)
    BY ServersType DEF IInv, TypeInv
  <2>2. pc \in {"launch", "start", "health", "select", "killWait", "attemptFailed", "precheck",
                "working", "stop", "stopAndGoOn", "force", "forceAndGoOn", "end"}
    BY DEF IInv, TypeInv, Without, With
  <2>3. QED
    BY <2>1, <2>2 DEF IInv, TypeInv, TypeOK
<1>2. QED
  BY <1>1, IInvCorrect, PTL

\* A server process the Runner forgets has been sent SIGKILL (startServeSubprocessOnce,
\* killAndWait, StopServe), for every number of stages and attempts.
THEOREM UntrackedIsKilledCorrect == Spec => []UntrackedIsKilled
<1>1. IInv => UntrackedIsKilled
  BY DEF IInv
<1>2. QED
  BY <1>1, IInvCorrect, PTL

\* When StopServe returns, the process it stopped has exited: the value it received can
\* only have been sent by the waiter of that launch.
THEOREM StoppedMeansExitedCorrect == Spec => StoppedMeansExited
<1>1. IInv /\ [Next]_vars =>
        [cur /= 0 /\ cur' = 0 /\ pc \notin {"select", "killWait"} => leader'[cur] = "exited"]_vars
  <2> SUFFICES ASSUME IInv, Next, cur /= 0, cur' = 0, pc \notin {"select", "killWait"}
               PROVE  leader'[cur] = "exited"
    OBVIOUS
  <2>1. CASE StopStep
    BY <2>1 DEF StopStep, StopsGracefully, StopsForced, GracePeriodEnds, ProcDone, IInv,
       DoneMeansExited, processes, network
  <2>2. CASE Launch
    BY <2>2 DEF Launch, IInv, TypeInv
  <2>3. CASE StartStep /\ ~Launch
    BY <2>3 DEF StartStep, OpenLog, LaunchFails, HealthOk, HealthFails, NextTick,
       ExitedBeforeHealthy, HealthTimesOut, KillWaited, KillWaitGivesUp, RetryStart,
       StartFails
  <2>4. CASE \/ StageStep \/ ProcessStep \/ StrangerStep \/ Cancel \/ Done
             \/ \E g \in Servers : Reap(g)
    BY <2>4 DEF StageStep, PrecheckOk, PrecheckFails, WorkEnds, ProcessStep, Boot,
       LeaderExits, ChildExits, StrangerStep, StrangerBinds, ProcessUnchanged, Cancel, Done,
       Reap, vars
  <2>5. QED
    BY <2>1, <2>2, <2>3, <2>4 DEF Next
<1>2. QED
  BY <1>1, IInvCorrect, PTL DEF Spec, StoppedMeansExited

----------------------------------------------------------------------------
(* The log file.  Which file the waiter of a launch closes depends on which launches  *)
(* have been waited for: LogInv follows r.logFile while all of them have.             *)

Clear == \A g \in (base + 1)..launched : g = cur \/ Awaited(g)

LogInv ==
    /\ done \subseteq reaped
    /\ \A g \in reaped : leader[g] = "exited"
    /\ cur /= 0 => cur > base
    /\ cur \in reaped => logFile = 0
    /\ Clear =>
          /\ pc = "start" => logFile = launched + 1 /\ launched + 1 \in logs
          /\ pc \in With /\ cur \notin reaped => logFile = cur
          /\ pc \in Without \ {"start"} => logFile = 0
          /\ \A g \in (base + 1)..launched : g \in hasLog /\ (g \in logs <=> g \notin reaped)

\* Steps that move neither a server nor a log.
LEMMA LogIdle ==
    ASSUME IInv, LogInv,
           UNCHANGED <<cur, launched, leader, reaped, done, logging>>,
           pc /= "start", pc' /= "start", pc \in With <=> pc' \in With,
           pc' \in With \cup Without
    PROVE  LogInv'
<1>1. Clear' <=> Clear
  BY DEF Clear, Awaited, logging
<1>2. pc \in Without \ {"start"} <=> pc' \in Without \ {"start"}
  BY DEF IInv, TypeInv, With, Without
<1>3. QED
  BY <1>1, <1>2 DEF LogInv, logging

LEMMA OpenLogLog == IInv /\ LogInv /\ OpenLog => LogInv'
<1> SUFFICES ASSUME IInv, LogInv, OpenLog PROVE LogInv'
  OBVIOUS
<1>1. launched \in Nat /\ base \in 0..launched /\ cur = 0 /\ 0 \notin reaped
  BY DEF IInv, TypeInv, Tracked, Without, OpenLog, Servers
<1>2. Clear' <=> Clear
  BY DEF Clear, Awaited, OpenLog, processes, network
<1>3. \A g \in (base + 1)..launched : g /= launched + 1
  BY <1>1
<1>4. QED
  BY <1>1, <1>2, <1>3 DEF LogInv, OpenLog, processes, network, With, Without

LEMMA LaunchLog == IInv /\ LogInv /\ Launch => LogInv'
<1> SUFFICES ASSUME IInv, LogInv, Launch PROVE LogInv'
  OBVIOUS
<1> USE DEF Launch
<1>1. /\ launched \in Nat /\ base \in 0..launched /\ cur = 0 /\ launched + 1 \in Servers
      /\ leader \in [Servers -> {"none", "booting", "ready", "exited"}]
      /\ reaped \subseteq Servers
  BY ServersType DEF IInv, TypeInv, Tracked, Without
<1>2. launched + 1 \notin reaped
  BY <1>1 DEF IInv, Tracked, Before, LogInv
<1>3. Clear' => Clear
  <2> SUFFICES ASSUME Clear', NEW g \in (base + 1)..launched PROVE Awaited(g)
    BY DEF Clear
  <2>1. g \in (base + 1)..(launched + 1) /\ g /= launched + 1
    BY <1>1
  <2>2. QED
    BY <2>1 DEF Clear, Awaited
<1>4. /\ done' \subseteq reaped' /\ cur' > base' /\ cur' \notin reaped'
      /\ \A g \in reaped' : leader'[g] = "exited"
  BY <1>1, <1>2 DEF LogInv
<1>5. ASSUME Clear
      PROVE  /\ logFile' = cur'
             /\ \A g \in (base' + 1)..launched' :
                   g \in hasLog' /\ (g \in logs' <=> g \notin reaped')
  <2>1. logFile = launched + 1 /\ launched + 1 \in logs
    BY <1>5 DEF LogInv
  <2> SUFFICES ASSUME NEW g \in (base + 1)..(launched + 1)
               PROVE  g \in hasLog' /\ (g \in logs <=> g \notin reaped)
    BY <2>1
  <2>2. CASE g = launched + 1
    BY <2>1, <2>2, <1>2
  <2>3. CASE g /= launched + 1
    <3>1. g \in (base + 1)..launched
      BY <2>3, <1>1
    <3>2. QED
      BY <3>1, <1>5 DEF LogInv
  <2>4. QED
    BY <2>2, <2>3
<1>6. QED
  BY <1>3, <1>4, <1>5 DEF LogInv, With, Without

LEMMA LaunchFailsLog == IInv /\ LogInv /\ LaunchFails => LogInv'
<1> SUFFICES ASSUME IInv, LogInv, LaunchFails PROVE LogInv'
  OBVIOUS
<1> USE DEF LaunchFails, CloseLogFile, processes, network
<1>1. launched \in Nat /\ cur = 0 /\ 0 \notin reaped /\ base \in 0..launched
  BY DEF IInv, TypeInv, Tracked, Without, Servers
<1>2. Clear' <=> Clear
  BY DEF Clear, Awaited
<1>3. \A g \in (base + 1)..launched : g /= launched + 1
  BY <1>1
<1>4. QED
  BY <1>1, <1>2, <1>3 DEF LogInv, With, Without

\* A server that was waited for has closed the log: the next Runner, and the next
\* attempt, start without one.
LEMMA ReleaseLog ==
    ASSUME IInv, LogInv,
           \/ ExitedBeforeHealthy \/ KillWaited \/ KillWaitGivesUp
           \/ StopsGracefully \/ StopsForced
    PROVE  LogInv'
<1> USE DEF processes, network, caller, logging
<1>1. /\ pc \in With /\ cur' = 0 /\ UNCHANGED <<processes, logs, hasLog>>
      /\ pc' \in {"attemptFailed", "end", "launch"}
      /\ done' \in {done, done \ {cur}}
      /\ \/ base' = base /\ logFile' = logFile
         \/ base' = launched /\ logFile' = 0
  BY DEF ExitedBeforeHealthy, KillWaited, KillWaitGivesUp, StopsGracefully, StopsForced,
     AfterStop, With, ProcDone
<1>2. /\ launched \in Nat /\ base \in 0..launched /\ cur \in 1..launched /\ cur > base
      /\ 0 \notin reaped
  BY <1>1 DEF IInv, TypeInv, Tracked, LogInv, Servers
<1>3. /\ done' \subseteq reaped' /\ \A g \in reaped' : leader'[g] = "exited"
      /\ cur' \notin reaped'
  BY <1>1, <1>2 DEF LogInv
<1>4. ASSUME Clear'
      PROVE  /\ logFile' = 0
             /\ \A g \in (base' + 1)..launched' :
                   g \in hasLog' /\ (g \in logs' <=> g \notin reaped')
  <2>1. CASE base' = launched /\ logFile' = 0
    BY <2>1, <1>1, <1>2
  <2>2. CASE base' = base /\ logFile' = logFile
    <3>1. \A g \in (base + 1)..launched : g /= 0 /\ g \in reaped \ done'
      BY <2>2, <1>1, <1>2, <1>4 DEF Clear, Awaited
    <3>2. Clear /\ cur \in reaped
      BY <3>1, <1>1, <1>2 DEF Clear, Awaited
    <3>3. QED
      BY <3>2, <2>2, <1>1 DEF LogInv
  <2>3. QED
    BY <2>1, <2>2, <1>1
<1>5. QED
  BY <1>1, <1>3, <1>4 DEF LogInv, With, Without

\* The waiter closes the log of its own launch, unless one was given up on.
LEMMA ReapLog == ASSUME IInv, LogInv, NEW g \in Servers, Reap(g) PROVE LogInv'
<1> USE DEF Reap, CloseLogFile, caller, ProcDone
<1>1. /\ launched \in Nat /\ base \in 0..launched /\ cur \in 0..launched
      /\ g \in 1..launched /\ launched + 1 \notin 1..launched
  <2>1. ~(g > launched)
    BY DEF IInv, Tracked, Before
  <2>2. launched \in Nat /\ base \in 0..launched /\ cur \in 0..launched
    BY DEF IInv, TypeInv
  <2>3. g \in Nat /\ g >= 1
    BY DEF Servers
  <2>4. QED
    BY <2>1, <2>2, <2>3
<1>2. /\ done' \subseteq reaped' /\ \A h \in reaped' : leader'[h] = "exited"
      /\ cur' /= 0 => cur' > base'
  BY DEF LogInv
<1>3. cur' \in reaped' => logFile' = 0
  BY <1>1 DEF LogInv, IInv, TypeInv
<1>4. ASSUME Clear'
      PROVE  /\ Clear /\ (g = cur \/ ~(g > base))
             /\ ~(g > base) => \A h \in (base + 1)..launched : h /= g
  <2>1. \A h \in (base + 1)..launched : h = cur \/ (h \in reaped \cup {g} /\ h \notin done \cup {g})
    BY <1>4 DEF Clear, Awaited
  <2>2. QED
    BY <2>1, <1>1 DEF Clear, Awaited
<1>5. ASSUME Clear'
      PROVE  /\ pc' = "start" => logFile' = launched' + 1 /\ launched' + 1 \in logs'
             /\ pc' \in With /\ cur' \notin reaped' => logFile' = cur'
             /\ pc' \in Without \ {"start"} => logFile' = 0
             /\ \A h \in (base' + 1)..launched' :
                   h \in hasLog' /\ (h \in logs' <=> h \notin reaped')
  <2>1. CASE g > base
    <3>1. Clear /\ g = cur /\ pc \in With
      BY <2>1, <1>1, <1>4, <1>5 DEF IInv, Tracked, TypeInv
    <3>2. logFile = g
      BY <3>1 DEF LogInv
    <3>3. QED
      BY <3>1, <3>2, <2>1 DEF LogInv, With, Without
  <2>2. CASE ~(g > base)
    <3>1. Clear /\ \A h \in (base + 1)..launched : h /= g
      BY <2>2, <1>4, <1>5
    <3>2. QED
      BY <3>1, <2>2 DEF LogInv
  <2>3. QED
    BY <2>1, <2>2
<1>6. QED
  BY <1>2, <1>3, <1>5 DEF LogInv

LEMMA ProcessLog ==
    ASSUME IInv, LogInv, NEW g \in Servers, Boot(g) \/ LeaderExits(g) \/ ChildExits(g)
    PROVE  LogInv'
<1>1. /\ UNCHANGED <<pc, cur, launched, reaped, done, logging>>
      /\ \A h \in Servers : leader[h] = "exited" => leader'[h] = "exited"
  BY DEF Boot, LeaderExits, ChildExits, ProcessUnchanged, Alive, IInv, TypeInv
<1>2. reaped \subseteq Servers
  BY DEF IInv, TypeInv
<1>3. QED
  BY <1>1, <1>2 DEF LogInv, Clear, Awaited, logging

LEMMA LogInvCorrect == Spec => []LogInv
<1>1. Init => LogInv
  BY DEF Init, LogInv, Clear, Awaited, With, Without
<1>2. IInv /\ LogInv /\ [Next]_vars => LogInv'
  <2> SUFFICES ASSUME IInv, LogInv, [Next]_vars PROVE LogInv'
    OBVIOUS
  <2>1. CASE OpenLog \/ Launch \/ LaunchFails
    BY <2>1, OpenLogLog, LaunchLog, LaunchFailsLog
  <2>2. CASE \/ ExitedBeforeHealthy \/ KillWaited \/ KillWaitGivesUp
             \/ StopsGracefully \/ StopsForced
    BY <2>2, ReleaseLog
  <2>3. CASE \/ HealthOk \/ HealthFails \/ NextTick \/ HealthTimesOut \/ StageStep
             \/ GracePeriodEnds
    <3>1. /\ UNCHANGED <<cur, launched, leader, reaped, done, logging>>
          /\ pc \in With /\ pc' \in With /\ pc /= "start" /\ pc' /= "start"
      BY <2>3 DEF HealthOk, HealthFails, NextTick, HealthTimesOut, StageStep, PrecheckOk,
         PrecheckFails, WorkEnds, GracePeriodEnds, processes, network, With
    <3>2. QED
      BY <3>1, LogIdle
  <2>4. CASE RetryStart \/ StartFails
    <3>1. /\ UNCHANGED <<cur, launched, leader, reaped, done, logging>>
          /\ pc \in Without /\ pc' \in Without /\ pc /= "start" /\ pc' /= "start"
      BY <2>4 DEF RetryStart, StartFails, processes, network, Without
    <3>2. QED
      BY <3>1, LogIdle DEF With, Without
  <2>5. CASE Cancel \/ UNCHANGED vars
    BY <2>5 DEF Cancel, vars, processes, network, logging, LogInv, Clear, Awaited
  <2>6. CASE \E g \in Servers : Reap(g)
    BY <2>6, ReapLog
  <2>7. CASE ProcessStep
    BY <2>7, ProcessLog DEF ProcessStep
  <2>8. CASE StrangerStep
    <3>1. UNCHANGED <<pc, cur, launched, leader, reaped, done, logging>>
      BY <2>8 DEF StrangerStep, StrangerBinds, ProcessUnchanged
    <3>2. QED
      BY <3>1 DEF LogInv, Clear, Awaited, logging
  <2>9. QED
    BY <2>1, <2>2, <2>3, <2>4, <2>5, <2>6, <2>7, <2>8 DEF Next, Done, StartStep, StopStep
<1>3. QED
  BY <1>1, <1>2, IInvCorrect, PTL DEF Spec

\* The log of a server is open from its start to its end, and closed when StopServe or
\* the attempt returns, as long as no launch of the Runner was given up on.
THEOREM LogsFollowServersCorrect == Spec => []LogsFollowServers
<1>1. LogInv => LogsFollowServers
  BY DEF LogInv, LogsFollowServers, Clear
<1>2. QED
  BY <1>1, LogInvCorrect, PTL

----------------------------------------------------------------------------
(* The port.  While a launch waits for its answer and nobody has disturbed it, nobody  *)
(* but its own server listens on its port: allocatePort found it free.                 *)

Waiting == pc \in {"start", "health", "select"}

PortInv ==
    Waiting =>
        /\ baseURL /= 0
        /\ ~disturbed =>
              /\ baseURL \notin strangers
              /\ \A g \in 1..launched : Listening(g) /\ port[g] = baseURL => g = cur

\* Steps of the caller after which it waits for the same launch, or for none.
LEMMA CallerPort ==
    ASSUME PortInv, UNCHANGED processes, cur' = cur, pc' \in {"health", "select"} => Waiting,
           pc' /= "start"
    PROVE  PortInv'
BY DEF PortInv, Waiting, processes, network, Listening

\* Steps after which no launch waits for its answer.
LEMMA NoneWaits == ASSUME ~Waiting' PROVE PortInv'
BY DEF PortInv

LEMMA OpenLogPort == ASSUME Port = 0, IInv, OpenLog PROVE PortInv'
<1>1. /\ baseURL' \in Ports /\ ~Taken(baseURL')
      /\ UNCHANGED <<launched, leader, child, port, strangers>>
  BY DEF OpenLog, AllocatePort
<1>2. baseURL' /= 0
  BY <1>1, ServeAssumption
<1>3. QED
  BY <1>1, <1>2 DEF PortInv, Taken, OnPort, Listening

LEMMA LaunchPort == ASSUME IInv, PortInv, Launch PROVE PortInv'
<1>1. /\ launched \in Nat /\ launched + 1 \in Servers /\ cur = 0 /\ cur' = launched + 1
      /\ \A g \in 1..launched : g \in Servers
  BY ServersType DEF IInv, TypeInv, Tracked, Without, Launch
<1>2. SUFFICES ASSUME ~disturbed, NEW g \in 1..(launched + 1), g /= launched + 1,
                      Listening(g)', port'[g] = baseURL
               PROVE  FALSE
  BY <1>1 DEF PortInv, Waiting, Launch
<1>3. g \in 1..launched /\ g \in Servers /\ g /= 0
  BY <1>1, <1>2
<1>4. Listening(g) /\ port[g] = baseURL
  BY <1>1, <1>2, <1>3 DEF Launch, Listening, IInv, TypeInv
<1>5. QED
  BY <1>1, <1>2, <1>3, <1>4 DEF PortInv, Waiting, Launch

LEMMA ProcessPort ==
    ASSUME IInv, PortInv, NEW g \in Servers, Boot(g) \/ LeaderExits(g) \/ ChildExits(g)
    PROVE  PortInv'
<1>1. /\ UNCHANGED <<pc, cur, launched, baseURL, strangers>>
      /\ ~disturbed' => ~disturbed
  <2>1. /\ UNCHANGED <<pc, cur, launched, baseURL, strangers>>
        /\ disturbed' = disturbed \/ Binds(g, port[g])
    BY DEF Boot, LeaderExits, ChildExits, ProcessUnchanged
  <2>2. disturbed' = disturbed => (~disturbed' => ~disturbed)
    OBVIOUS
  <2>3. Binds(g, port[g]) => (~disturbed' => ~disturbed)
    BY Zenon DEF Binds
  <2>4. QED
    BY <2>1, <2>2, <2>3
<1>2. SUFFICES ASSUME Waiting, ~disturbed', NEW h \in 1..launched, Listening(h)',
                      port'[h] = baseURL
               PROVE  h = cur
  BY <1>1 DEF PortInv, Waiting
<1>3. h \in Servers /\ baseURL /= 0
  BY <1>2, ServersType DEF IInv, PortInv
<1>4. CASE h /= g
  <2>1. Listening(h) /\ port[h] = baseURL
    BY <1>2, <1>3, <1>4 DEF Boot, LeaderExits, ChildExits, Listening, IInv, TypeInv
  <2>2. QED
    BY <1>1, <1>2, <2>1 DEF PortInv
<1>5. CASE h = g
  <2>1. port'[g] /= 0 /\ port \in [Servers -> Ports \cup {0}]
    BY <1>2, <1>3, <1>5 DEF IInv, TypeInv
  <2>2. CASE Boot(g)
    <3>1. Binds(g, port[g]) /\ port' = port
      BY <2>1, <2>2 DEF Boot
    <3>2. QED
      BY <1>2, <1>5, <3>1 DEF Binds, Waiting
  <2>3. CASE LeaderExits(g)
    <3>1. port' = port /\ leader[g] = "ready"
      BY <2>1, <2>3 DEF LeaderExits
    <3>2. QED
      BY <1>1, <1>2, <1>5, <3>1 DEF PortInv, Listening
  <2>4. CASE ChildExits(g)
    BY <2>1, <2>4 DEF ChildExits
  <2>5. QED
    BY <2>2, <2>3, <2>4
<1>6. QED
  BY <1>4, <1>5

LEMMA StrangersPort == ASSUME IInv, PortInv, StrangerStep PROVE PortInv'
<1>1. PICK p \in Ports : StrangerBinds(p)
  BY DEF StrangerStep
<1>2. /\ UNCHANGED <<pc, cur, launched, leader, child, baseURL, port>>
      /\ strangers' = strangers \cup {p} /\ Binds(0, p)
  BY <1>1 DEF StrangerBinds, ProcessUnchanged
<1>3. QED
  BY <1>2 DEF PortInv, Waiting, Binds, Listening

LEMMA PortInvCorrect == ASSUME Port = 0 PROVE Spec => []PortInv
<1>1. Init => PortInv
  BY DEF Init, PortInv, Waiting
<1>2. IInv /\ PortInv /\ [Next]_vars => PortInv'
  <2> SUFFICES ASSUME IInv, PortInv, [Next]_vars PROVE PortInv'
    OBVIOUS
  <2>1. CASE OpenLog \/ Launch
    BY <2>1, OpenLogPort, LaunchPort
  <2>2. CASE HealthFails \/ NextTick
    <3>1. UNCHANGED processes /\ cur' = cur /\ Waiting /\ pc' /= "start"
      BY <2>2 DEF HealthFails, NextTick, Waiting
    <3>2. QED
      BY <3>1, CallerPort
  <2>3. CASE \/ LaunchFails \/ HealthOk \/ ExitedBeforeHealthy \/ HealthTimesOut \/ KillWaited
             \/ KillWaitGivesUp \/ RetryStart \/ StartFails \/ StageStep \/ StopStep
    <3>1. ~Waiting'
      BY <2>3 DEF LaunchFails, HealthOk, ExitedBeforeHealthy, HealthTimesOut, KillWaited,
         KillWaitGivesUp, RetryStart, StartFails, StageStep, PrecheckOk, PrecheckFails,
         WorkEnds, StopStep, StopsGracefully, GracePeriodEnds, StopsForced, AfterStop, Waiting
    <3>2. QED
      BY <3>1, NoneWaits
  <2>4. CASE \/ Cancel \/ UNCHANGED vars \/ \E g \in Servers : Reap(g)
    <3>1. UNCHANGED <<pc, cur, launched, leader, child, network>>
      BY <2>4 DEF Cancel, Reap, vars, processes
    <3>2. QED
      BY <3>1 DEF PortInv, Waiting, Listening, network
  <2>5. CASE ProcessStep
    BY <2>5, ProcessPort DEF ProcessStep
  <2>6. CASE StrangerStep
    BY <2>6, StrangersPort
  <2>7. QED
    BY <2>1, <2>2, <2>3, <2>4, <2>5, <2>6 DEF Next, Done, StartStep
<1>3. QED
  BY <1>1, <1>2, IInvCorrect, PTL DEF Spec

\* The server a stage talks to is the one it started, whatever the servers and children of
\* earlier attempts and stages do: with allocated ports, and if nobody else binds the port
\* in the window that allocatePort leaves open (allocatePort, waitHealthy).
THEOREM HealthyMeansOursCorrect == ASSUME Port = 0 PROVE Spec => []HealthyMeansOurs
<1>1. Init => HealthyMeansOurs
  BY DEF Init, HealthyMeansOurs
<1>2. PortInv /\ HealthyMeansOurs /\ [Next]_vars => HealthyMeansOurs'
  <2> SUFFICES ASSUME PortInv, HealthyMeansOurs, [Next]_vars PROVE HealthyMeansOurs'
    OBVIOUS
  <2> USE DEF HealthyMeansOurs
  <2>1. CASE HealthOk
    BY <2>1 DEF HealthOk, OnPort, PortInv, Waiting, processes, network
  <2>2. CASE StartStep /\ ~HealthOk
    BY <2>2 DEF StartStep, OpenLog, Launch, LaunchFails, HealthFails, NextTick,
       ExitedBeforeHealthy, HealthTimesOut, KillWaited, KillWaitGivesUp, RetryStart,
       StartFails
  <2>3. CASE StageStep
    BY <2>3 DEF StageStep, PrecheckOk, PrecheckFails, WorkEnds, processes, network
  <2>4. CASE StopStep
    BY <2>4 DEF StopStep, StopsGracefully, GracePeriodEnds, StopsForced, AfterStop
  <2>5. CASE ProcessStep \/ StrangerStep
    BY <2>5 DEF ProcessStep, Boot, LeaderExits, ChildExits, StrangerStep, StrangerBinds,
       ProcessUnchanged, Binds
  <2>6. CASE Cancel \/ UNCHANGED vars \/ \E g \in Servers : Reap(g)
    BY <2>6 DEF Cancel, Reap, vars, processes, network
  <2>7. QED
    BY <2>1, <2>2, <2>3, <2>4, <2>5, <2>6 DEF Next, Done
<1>3. QED
  BY <1>1, <1>2, PortInvCorrect, PTL DEF Spec
============================================================================
