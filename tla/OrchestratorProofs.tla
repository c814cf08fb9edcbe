------------------------- MODULE OrchestratorProofs -------------------------
(***************************************************************************)
(* One process of each service, and none left after a shutdown: proofs for *)
(* any services and dependencies, restart limits, log scans, failed starts *)
(* and crashes.                                                            *)
(***************************************************************************)
EXTENDS Orchestrator, TLAPS

\* The books: a living process is that of a service, and, the constitution
\* aside, the one in the service's handle.
Booked ==
  /\ handle = [s \in Names |-> handle[s]]
  /\ \A s \in Names \ {Constitution} : handle[s] # Adopted
  /\ \A p \in alive : /\ p[1] \in Names /\ p = <<p[1], p[2]>>
                      /\ p[1] # Constitution => handle[p[1]] = p

\* What the ordered start has yet to reach has no handle.
Unstarted ==
  /\ phase = "boot" => \A s \in Names : handle[s] = NoHandle
  /\ phase = "wait" => \A s \in Names \ {Constitution} : handle[s] = NoHandle
  /\ phase = "start" => /\ at >= 2
                        /\ \A i \in at..Len(Services) : handle[Services[i]] = NoHandle

OrchInv == at \in Nat \ {0} /\ Booked /\ Unstarted /\ ShutdownStopsServices

-----------------------------------------------------------------------------
(* Starting a service.                                                     *)

LEMMA ServiceNames ==
  /\ Len(Services) \in Nat /\ Constitution \in Names
  /\ \A i \in 1..Len(Services) : Services[i] \in Names
  /\ \A i \in 1..Len(Services) : i # 1 => Services[i] # Constitution
  /\ Names \subseteq STRING
BY OrchestratorAssumption DEF Constitution, Names

\* What the code's ways of starting s do to the books.
Started(s) ==
  \/ UNCHANGED <<handle, alive>>
  \/ /\ s = Constitution /\ handle' = [handle EXCEPT ![s] = Adopted]
     /\ UNCHANGED alive
  \/ \E n : /\ handle' = [handle EXCEPT ![s] = <<s, n>>]
            /\ alive' \subseteq alive \cup {<<s, n>>}

LEMMA SpawnStarts ==
  ASSUME NEW s, Spawn(s)
  PROVE  Started(s)
<1>1. PICK n : NewProcess(s) = <<s, n>>
  BY DEF NewProcess
<1> QED
  BY <1>1 DEF Spawn, Started

LEMMA LaunchStarts ==
  ASSUME NEW s, Launch(s) \/ LaunchFails(s)
  PROVE  Started(s)
BY SpawnStarts DEF Launch, LaunchFails, SpawnFails, Started

LEMMA NotLiving ==
  ASSUME Booked, NEW s \in Names \ {Constitution},
         handle[s] = NoHandle \/ Exited(s)
  PROVE  \A p \in alive : p[1] # s
<1> SUFFICES ASSUME NEW p \in alive, p[1] = s PROVE FALSE
  OBVIOUS
<1>1. handle[s] = p /\ p = <<p[1], p[2]>>
  BY DEF Booked
<1>2. handle[s] # NoHandle
  BY <1>1 DEF NoHandle
<1>3. Exited(s) /\ handle[s] # Adopted
  BY <1>2 DEF Booked
<1> QED
  BY <1>1, <1>3 DEF Exited

\* A start keeps the books if the service has no living process.
LEMMA StartedBooked ==
  ASSUME Booked, NEW s \in Names, Started(s),
         s # Constitution => \A p \in alive : p[1] # s
  PROVE  /\ Booked'
         /\ \A t \in Names : t # s => handle'[t] = handle[t]
<1>1. CASE UNCHANGED <<handle, alive>>
  BY <1>1 DEF Booked
<1>2. CASE /\ s = Constitution /\ handle' = [handle EXCEPT ![s] = Adopted]
           /\ UNCHANGED alive
  <2>1. /\ \A t \in Names : t # s => handle'[t] = handle[t]
        /\ handle' = [t \in Names |-> handle'[t]]
    BY <1>2 DEF Booked
  <2> QED
    BY <1>2, <2>1 DEF Booked
<1>3. ASSUME NEW n, handle' = [handle EXCEPT ![s] = <<s, n>>],
             alive' \subseteq alive \cup {<<s, n>>}
      PROVE  /\ Booked'
             /\ \A t \in Names : t # s => handle'[t] = handle[t]
  <2>1. /\ \A t \in Names : t # s => handle'[t] = handle[t]
        /\ handle'[s] = <<s, n>>
        /\ handle' = [t \in Names |-> handle'[t]]
    BY <1>3 DEF Booked
  <2>2. <<s, n>> # Adopted
    BY DEF Adopted
  <2>3. ASSUME NEW p \in alive'
        PROVE  /\ p[1] \in Names /\ p = <<p[1], p[2]>>
               /\ p[1] # Constitution => handle'[p[1]] = p
    <3>1. CASE p = <<s, n>>
      BY <2>1, <3>1
    <3>2. CASE p \in alive
      BY <2>1, <3>2 DEF Booked
    <3> QED
      BY <1>3, <3>1, <3>2
  <2> QED
    BY <2>1, <2>2, <2>3 DEF Booked
<1> QED
  BY <1>1, <1>2, <1>3 DEF Started

-----------------------------------------------------------------------------
(* The invariant.                                                          *)

\* A step to or within the loop, which starts at most one service.
LEMMA LoopStart ==
  ASSUME OrchInv, NEW s \in Names, Started(s),
         s # Constitution => handle[s] = NoHandle \/ Exited(s),
         phase' \notin {"boot", "wait", "start", "exited"}, at' \in Nat \ {0}
  PROVE  OrchInv'
<1>1. Booked'
  BY NotLiving, StartedBooked DEF OrchInv
<1>2. Unstarted' /\ ShutdownStopsServices'
  BY DEF Unstarted, ShutdownStopsServices
<1> QED
  BY <1>1, <1>2 DEF OrchInv

\* A step that starts nothing and loses at most processes.
LEMMA QuietStep ==
  ASSUME OrchInv, handle' = handle, alive' \subseteq alive,
         \/ phase' \notin {"boot", "wait", "start", "exited"} /\ at' \in Nat \ {0}
         \/ UNCHANGED <<phase, at>>
  PROVE  OrchInv'
<1>1. Booked'
  BY DEF OrchInv, Booked
<1>2. Unstarted'
  BY DEF OrchInv, Unstarted
<1>3. ShutdownStopsServices'
  BY DEF OrchInv, ShutdownStopsServices
<1> QED
  BY <1>1, <1>2, <1>3 DEF OrchInv

LEMMA BootInv ==
  ASSUME OrchInv, Boot
  PROVE  OrchInv'
<1>1. Started(Constitution) /\ Constitution \in Names
  BY LaunchStarts, ServiceNames DEF Boot, StartService
<1>2. Booked' /\ \A t \in Names : t # Constitution => handle'[t] = handle[t]
  BY <1>1, StartedBooked DEF OrchInv
<1>3. \A t \in Names : handle[t] = NoHandle
  BY DEF OrchInv, Unstarted, Boot
<1>4. phase' \in {"failed", "wait"} /\ at' \in Nat \ {0}
  BY DEF Boot, Goto
<1> QED
  BY <1>2, <1>3, <1>4 DEF OrchInv, Unstarted, ShutdownStopsServices

LEMMA WaitInv ==
  ASSUME OrchInv, WaitHealthy
  PROVE  OrchInv'
<1>1. UNCHANGED <<handle, alive>> /\ phase = "wait"
  BY DEF WaitHealthy, NoStart
<1>2. CASE phase' = "start" /\ at' = 2
  <2>1. ASSUME NEW i \in 2..Len(Services) PROVE handle'[Services[i]] = NoHandle
    <3>1. i \in 1..Len(Services) /\ i # 1
      BY ServiceNames
    <3>2. Services[i] \in Names \ {Constitution}
      BY <3>1, ServiceNames
    <3> QED
      BY <1>1, <3>2 DEF OrchInv, Unstarted
  <2> QED
    BY <1>1, <1>2, <2>1 DEF OrchInv, Booked, Unstarted, ShutdownStopsServices
<1>3. CASE phase' = "failed" /\ at' = 1
  BY <1>1, <1>3, QuietStep
<1> QED
  BY <1>2, <1>3 DEF WaitHealthy, Goto

LEMMA StartNextInv ==
  ASSUME OrchInv, StartNext
  PROVE  OrchInv'
<1>1. /\ phase = "start" /\ at \in Nat /\ at >= 2 /\ at <= Len(Services)
      /\ phase' = "start" /\ at' = at + 1
      /\ \A i \in at..Len(Services) : handle[Services[i]] = NoHandle
  BY DEF StartNext, Goto, OrchInv, Unstarted
<1>2. at \in 1..Len(Services) /\ Services[at] \in Names \ {Constitution}
  BY <1>1, ServiceNames
<1>3. Started(Services[at])
  BY LaunchStarts DEF StartNext, StartService, NoStart, Started
<1>4. handle[Services[at]] = NoHandle
  BY <1>1, ServiceNames
<1>5. Booked' /\ \A t \in Names : t # Services[at] => handle'[t] = handle[t]
  BY <1>2, <1>3, <1>4, NotLiving, StartedBooked DEF OrchInv
<1>6. ASSUME NEW i \in (at + 1)..Len(Services) PROVE handle'[Services[i]] = NoHandle
  <2>1. i \in 1..Len(Services) /\ i # at /\ i \in at..Len(Services)
    BY <1>1, ServiceNames
  <2>2. Services[i] # Services[at] /\ Services[i] \in Names
    BY <1>2, <2>1, OrchestratorAssumption, ServiceNames
  <2> QED
    BY <1>1, <1>5, <2>1, <2>2
<1>7. at + 1 \in Nat \ {0} /\ at + 1 >= 2
  BY <1>1
<1> QED
  BY <1>1, <1>5, <1>6, <1>7 DEF OrchInv, Unstarted, ShutdownStopsServices

LEMMA MonitorInv ==
  ASSUME OrchInv, CheckRestart \/ RestartRaises \/ RetrySkipped
  PROVE  OrchInv'
<1> DEFINE s == Services[at]
<1>in. at \in 1..Len(Services)
  BY ServiceNames DEF OrchInv, CheckRestart, RestartRaises, RetrySkipped
<1>1. s \in Names /\ phase' \in {"monitor", "crashed", "retry"} /\ at' \in Nat \ {0}
  BY <1>in, ServiceNames DEF CheckRestart, RestartRaises, RetrySkipped, Goto
<1>2. UNCHANGED <<handle, alive>> \/ (Exited(s) /\ Started(s))
  <2>1. CASE CheckRestart
    <3>1. CASE NoStart \/ GiveUp(s)
      BY <3>1 DEF NoStart, GiveUp
    <3>2. CASE ~Healthy(s) /\ Restart(s)
      BY <3>2, SpawnStarts DEF Restart, Healthy
    <3> QED
      BY <2>1, <3>1, <3>2 DEF CheckRestart
  <2>2. CASE RestartRaises
    BY <2>2 DEF RestartRaises, SpawnFails
  <2>3. CASE RetrySkipped
    BY <2>3, LaunchStarts DEF RetrySkipped, RetryService, NoStart
  <2> QED
    BY <2>1, <2>2, <2>3
<1> QED
  BY <1>1, <1>2, LoopStart, QuietStep

LEMMA StopAllInv ==
  ASSUME OrchInv, StopAll
  PROVE  OrchInv'
<1>1. /\ handle' = handle /\ alive' = alive \ {handle[s] : s \in Names}
      /\ phase' = "exited" /\ at' = 1
  BY DEF StopAll, Goto
<1>2. Booked' /\ Unstarted'
  BY <1>1 DEF OrchInv, Booked, Unstarted
<1>3. ASSUME NEW p \in alive' PROVE p[1] = Constitution /\ handle[Constitution] # p
  <2>1. p \in alive /\ p[1] \in Names /\ \A s \in Names : handle[s] # p
    BY <1>1, <1>3 DEF OrchInv, Booked
  <2> QED
    BY <2>1, ServiceNames DEF OrchInv, Booked
<1> QED
  BY <1>1, <1>2, <1>3 DEF OrchInv, ShutdownStopsServices

LEMMA OrchStepInv ==
  ASSUME OrchInv, [OrchNext]_orchVars
  PROVE  OrchInv'
<1>1. CASE Boot \/ WaitHealthy \/ StartNext
  BY <1>1, BootInv, WaitInv, StartNextInv
<1>2. CASE CheckRestart \/ RestartRaises \/ RetrySkipped
  BY <1>2, MonitorInv
<1>3. CASE StopAll
  BY <1>3, StopAllInv
<1>4. CASE Heal
  <2>1. /\ Started(Constitution) /\ Constitution \in Names
        /\ phase' = "heal" /\ at' = at
    BY <1>4, LaunchStarts, ServiceNames DEF Heal, StartService
  <2> QED
    BY <2>1, LoopStart DEF OrchInv
<1>5. CASE LoopTop \/ Wake \/ ScanLogs \/ EndScan \/ EndRetry
  <2>1. UNCHANGED <<handle, alive>>
    BY <1>5 DEF LoopTop, Wake, ScanLogs, EndScan, EndRetry, NoStart
  <2>2. phase' \in {"sleep", "stop", "monitor", "heal", "retry", "top"} /\ at' \in Nat \ {0}
    BY <1>5 DEF LoopTop, Wake, ScanLogs, EndScan, EndRetry, Goto
  <2> QED
    BY <2>1, <2>2, QuietStep
<1>6. CASE Shutdown \/ Stall \/ UNCHANGED orchVars
  <2>1. UNCHANGED <<handle, alive, phase, at>>
    BY <1>6 DEF Shutdown, Stall, orchVars, loopVars
  <2> QED
    BY <2>1, QuietStep
<1>7. ASSUME NEW p \in alive, Crash(p) PROVE OrchInv'
  <2>1. UNCHANGED <<handle, phase, at>> /\ alive' \subseteq alive
    BY <1>7 DEF Crash, loopVars
  <2> QED
    BY <2>1, QuietStep
<1> QED
  BY <1>1, <1>2, <1>3, <1>4, <1>5, <1>6, <1>7 DEF OrchNext, OrchStep

\* In every reachable state the orchestrator's books are right: see Booked,
\* Unstarted and ShutdownStopsServices (centaur_start.py:438-480, 586-661).
THEOREM OrchInvariant == OrchSpec => []OrchInv
<1>1. OrchInit => OrchInv
  <2> SUFFICES ASSUME OrchInit PROVE OrchInv
    OBVIOUS
  <2>1. Booked
    <3>1. \A s \in Names : handle[s] = NoHandle /\ NoHandle # Adopted
      BY DEF OrchInit, NoHandle, Adopted
    <3>2. \A p \in alive : p = <<Constitution, 0>>
      BY DEF OrchInit, Foreign
    <3>3. \A p \in alive : p[1] = Constitution /\ p = <<p[1], p[2]>>
      BY <3>2
    <3> QED
      BY <3>1, <3>3, ServiceNames DEF OrchInit, Booked
  <2> QED
    BY <2>1 DEF OrchInit, OrchInv, Unstarted, ShutdownStopsServices
<1> QED
  BY <1>1, OrchStepInv, PTL DEF OrchSpec

\* No service has two living processes, and the one it has is in the books,
\* whichever of the four ways of starting it were taken, between whatever
\* crashes and failed starts (centaur_start.py:453-465, 629-636).
THEOREM OrchNoDuplicate == OrchSpec => []NoDuplicateService
<1>1. OrchInv => NoDuplicateService
  BY DEF OrchInv, Booked, NoDuplicateService
<1> QED
  BY <1>1, OrchInvariant, PTL

\* After a graceful shutdown no process of a service is left, and no
\* constitutiond the orchestrator has in its books (centaur_start.py:617-627).
THEOREM OrchShutdownStops == OrchSpec => []ShutdownStopsServices
<1>1. OrchInv => ShutdownStopsServices
  BY DEF OrchInv
<1> QED
  BY <1>1, OrchInvariant, PTL
-----------------------------------------------------------------------------
(* A signal is obeyed in a bounded number of steps.                        *)

Phases ==
  {"boot", "wait", "start", "sleep", "monitor", "heal", "retry", "top", "stop"} \cup Ended

\* Where run() can be: no loop over the services goes past its end.
LoopInv ==
  /\ phase \in Phases /\ at \in 1..(Len(Services) + 1) /\ errors \in 0..MaxErrors
  /\ phase = "start" => at >= 2

\* A bound on the steps run() takes once the signal has arrived: the rest of
\* the pass of the loop it is in, and the shutdown.
StepsLeft ==
  LET n    == Len(Services)
      rest == n + 1 - at
  IN  CASE phase \in Ended     -> 0
        [] phase = "stop"      -> 1
        [] phase = "top"       -> 2
        [] phase = "retry"     -> 3 + rest
        [] phase = "heal"      -> n + 4 + errors
        [] phase = "monitor"   -> n + 5 + MaxErrors + rest
        [] phase = "sleep"     -> 2 * n + 6 + MaxErrors
        [] phase = "start"     -> 2 + rest
        [] phase = "wait"      -> n + 3
        [] phase = "boot"      -> n + 4

StepBound == 2 * Len(Services) + 6 + MaxErrors

\* A signal is never forgotten, a step of run() after it brings the end nearer,
\* and no crash of a service and no silence of the kernel puts run() back.
Obeys ==
  /\ ~running => ~running'
  /\ ~running /\ OrchStep => StepsLeft' < StepsLeft
  /\ OrchStep \/ UNCHANGED <<phase, at, errors>>

LEMMA LoopStep ==
  ASSUME LoopInv, [OrchNext]_orchVars
  PROVE  LoopInv'
<1>1. PICK n \in Nat, e \in Nat : n = Len(Services) /\ e = MaxErrors /\ n > 0
  BY OrchestratorAssumption
<1>2. /\ at \in Nat /\ 1 <= at /\ at <= n + 1 /\ errors \in Nat /\ errors <= e
      /\ phase = "start" => at >= 2
  BY <1>1 DEF LoopInv
<1> DEFINE Keeps == /\ phase' \in Phases /\ at' \in 1..(n + 1) /\ errors' \in 0..e
                    /\ phase' = "start" => at' >= 2
<1>3. CASE Boot \/ WaitHealthy \/ StopAll
  <2>1. UNCHANGED errors
    BY <1>3 DEF Boot, WaitHealthy, StopAll
  <2>2. \/ phase' \in {"failed", "wait", "exited"} /\ at' = 1
        \/ phase' = "start" /\ at' = 2
    BY <1>3 DEF Boot, WaitHealthy, StopAll, Goto
  <2>3. Keeps
    BY <1>1, <1>2, <2>1, <2>2 DEF Phases, Ended
  <2> QED
    BY <1>1, <2>3 DEF LoopInv
<1>4. CASE StartNext \/ CheckRestart \/ RetrySkipped
  <2>1. UNCHANGED errors /\ at' = at + 1 /\ phase' = phase /\ at <= n
    BY <1>1, <1>4 DEF StartNext, CheckRestart, RetrySkipped, Goto
  <2>2. Keeps
    BY <1>1, <1>2, <2>1 DEF LoopInv
  <2> QED
    BY <1>1, <2>2 DEF LoopInv
<1>5. CASE LoopTop \/ Wake \/ EndScan \/ EndRetry \/ RestartRaises
  <2>1. UNCHANGED errors
    BY <1>5 DEF LoopTop, Wake, EndScan, EndRetry, RestartRaises
  <2>2. \/ phase' \in {"sleep", "stop", "monitor", "top", "crashed"} /\ at' = 1
        \/ phase' = "retry" /\ at' = 2
    BY <1>5 DEF LoopTop, Wake, EndScan, EndRetry, RestartRaises, Goto
  <2>3. Keeps
    BY <1>1, <1>2, <2>1, <2>2 DEF Phases, Ended
  <2> QED
    BY <1>1, <2>3 DEF LoopInv
<1>6. CASE ScanLogs
  <2>1. errors' \in 0..e /\ phase' = "heal" /\ at' = 1
    BY <1>1, <1>6 DEF ScanLogs, Goto
  <2>2. Keeps
    BY <1>1, <2>1 DEF Phases
  <2> QED
    BY <1>1, <2>2 DEF LoopInv
<1>7. CASE Heal
  <2>1. errors > 0 /\ errors' = errors - 1 /\ phase' = phase /\ at' = at
    BY <1>7 DEF Heal
  <2>2. Keeps
    BY <1>1, <1>2, <2>1 DEF LoopInv
  <2> QED
    BY <1>1, <2>2 DEF LoopInv
<1>8. CASE UNCHANGED <<phase, at, errors>>
  BY <1>8 DEF LoopInv
<1>9. [OrchStep]_orchVars \/ UNCHANGED <<phase, at, errors>>
  BY DEF OrchNext, Shutdown, Stall, Crash, loopVars
<1>10. CASE UNCHANGED orchVars
  BY <1>8, <1>10 DEF orchVars, loopVars
<1> QED
  BY <1>3, <1>4, <1>5, <1>6, <1>7, <1>8, <1>9, <1>10 DEF OrchStep

\* The numbers in a step of run().
LEMMA StepsLeftBound ==
  ASSUME LoopInv
  PROVE  StepsLeft \in Nat /\ StepsLeft <= StepBound
<1>1. PICK n \in Nat, e \in Nat : n = Len(Services) /\ e = MaxErrors /\ n > 0
  BY OrchestratorAssumption
<1>2. PICK r \in Nat : n + 1 - at = r /\ r <= n
  BY <1>1 DEF LoopInv
<1>3. phase \in Phases /\ errors \in Nat /\ errors <= e
  BY <1>1 DEF LoopInv
<1>4. phase = "start" => r < n
  BY <1>1, <1>2 DEF LoopInv
<1> QED
  BY <1>1, <1>2, <1>3, <1>4 DEF StepsLeft, StepBound, Phases, Ended

LEMMA StepsLeftLowers ==
  ASSUME LoopInv, ~running, OrchStep
  PROVE  StepsLeft' < StepsLeft
<1>1. PICK n \in Nat, e \in Nat : n = Len(Services) /\ e = MaxErrors /\ n > 0
  BY OrchestratorAssumption
<1>2. PICK r \in Nat : n + 1 - at = r /\ r <= n
  BY <1>1 DEF LoopInv
<1>3. /\ errors \in Nat /\ errors <= e /\ at \in Nat
      /\ phase = "start" => r < n
  BY <1>1, <1>2 DEF LoopInv
<1>4. CASE Boot
  <2>1. phase = "boot" /\ phase' \in {"failed", "wait"}
    BY <1>4 DEF Boot, Goto
  <2>2. StepsLeft = n + 4 /\ StepsLeft' \in {0, n + 3}
    BY <1>1, <2>1 DEF StepsLeft, Ended
  <2> QED
    BY <2>2
<1>5. CASE WaitHealthy
  <2>1. phase = "wait" /\ (phase' = "failed" \/ (phase' = "start" /\ at' = 2))
    BY <1>5 DEF WaitHealthy, Goto
  <2>2. StepsLeft = n + 3 /\ StepsLeft' \in {0, 2 + (n + 1 - 2)}
    BY <1>1, <2>1 DEF StepsLeft, Ended
  <2> QED
    BY <2>2
<1>6. CASE StartNext
  <2>1. phase = "start" /\ phase' = "start" /\ at' = at + 1
    BY <1>6 DEF StartNext, Goto
  <2>2. StepsLeft = 2 + r /\ StepsLeft' = 2 + (n + 1 - (at + 1))
    BY <1>1, <1>2, <2>1 DEF StepsLeft, Ended
  <2> QED
    BY <1>2, <1>3, <2>2
<1>7. CASE LoopTop
  <2>1. phase \in {"start", "top"} /\ phase' = "stop"
    BY <1>7 DEF LoopTop, Goto
  <2>2. StepsLeft \in {2 + r, 2} /\ StepsLeft' = 1
    BY <1>1, <1>2, <2>1 DEF StepsLeft, Ended
  <2> QED
    BY <2>2
<1>8. CASE Wake
  <2>1. phase = "sleep" /\ phase' = "monitor" /\ at' = 1
    BY <1>8 DEF Wake, Goto
  <2>2. StepsLeft = 2 * n + 6 + e /\ StepsLeft' = n + 5 + e + (n + 1 - 1)
    BY <1>1, <2>1 DEF StepsLeft, Ended
  <2> QED
    BY <2>2
<1>9. CASE CheckRestart
  <2>1. phase = "monitor" /\ phase' = "monitor" /\ at' = at + 1
    BY <1>9 DEF CheckRestart, Goto
  <2>2. StepsLeft = n + 5 + e + r /\ StepsLeft' = n + 5 + e + (n + 1 - (at + 1))
    BY <1>1, <1>2, <2>1 DEF StepsLeft, Ended
  <2> QED
    BY <1>2, <1>3, <2>2
<1>10. CASE RestartRaises
  <2>1. phase = "monitor" /\ phase' = "crashed"
    BY <1>10 DEF RestartRaises, Goto
  <2>2. StepsLeft = n + 5 + e + r /\ StepsLeft' = 0
    BY <1>1, <1>2, <2>1 DEF StepsLeft, Ended
  <2> QED
    BY <2>2
<1>11. CASE ScanLogs
  <2>1. phase = "monitor" /\ phase' = "heal" /\ errors' \in 0..e
    BY <1>1, <1>11 DEF ScanLogs, Goto
  <2>2. PICK m \in Nat : m = errors' /\ m <= e
    BY <2>1
  <2>3. StepsLeft = n + 5 + e + r /\ StepsLeft' = n + 4 + m
    BY <1>1, <1>2, <2>1, <2>2 DEF StepsLeft, Ended
  <2>4. m <= e
    BY <2>2
  <2>5. n + 4 + m < n + 5 + e + r
    BY <2>4
  <2> QED
    BY <2>3, <2>5
<1>12. CASE Heal
  <2>1. phase = "heal" /\ phase' = "heal" /\ errors' = errors - 1
    BY <1>12 DEF Heal
  <2>2. StepsLeft = n + 4 + errors /\ StepsLeft' = n + 4 + (errors - 1)
    BY <1>1, <2>1 DEF StepsLeft, Ended
  <2> QED
    BY <1>3, <2>2
<1>13. CASE EndScan
  <2>1. phase = "heal" /\ ((phase' = "retry" /\ at' = 2) \/ phase' = "top")
    BY <1>13 DEF EndScan, Goto
  <2>2. StepsLeft = n + 4 + errors /\ StepsLeft' \in {3 + (n + 1 - 2), 2}
    BY <1>1, <2>1 DEF StepsLeft, Ended
  <2> QED
    BY <1>3, <2>2
<1>14. CASE RetrySkipped
  <2>1. phase = "retry" /\ phase' = "retry" /\ at' = at + 1
    BY <1>14 DEF RetrySkipped, Goto
  <2>2. StepsLeft = 3 + r /\ StepsLeft' = 3 + (n + 1 - (at + 1))
    BY <1>1, <1>2, <2>1 DEF StepsLeft, Ended
  <2> QED
    BY <1>2, <1>3, <2>2
<1>15. CASE EndRetry
  <2>1. phase = "retry" /\ phase' = "top"
    BY <1>15 DEF EndRetry, Goto
  <2>2. StepsLeft = 3 + r /\ StepsLeft' = 2
    BY <1>1, <1>2, <2>1 DEF StepsLeft, Ended
  <2> QED
    BY <2>2
<1>16. CASE StopAll
  <2>1. phase = "stop" /\ phase' = "exited"
    BY <1>16 DEF StopAll, Goto
  <2>2. StepsLeft = 1 /\ StepsLeft' = 0
    BY <2>1 DEF StepsLeft, Ended
  <2> QED
    BY <2>2
<1> QED
  BY <1>4, <1>5, <1>6, <1>7, <1>8, <1>9, <1>10, <1>11, <1>12, <1>13, <1>14, <1>15, <1>16
     DEF OrchStep

\* After SIGTERM or SIGINT run() ends, and stops its services or fails, within
\* a number of steps that depends only on how many services and log errors it
\* looks at: no sequence of crashes, failed starts, restarts or silences of the
\* kernel can keep it in its loop (centaur_start.py:371-373, 518-584).
THEOREM OrchShutdownBounded ==
  OrchSpec => /\ [](StepsLeft \in Nat /\ StepsLeft <= StepBound)
              /\ [][Obeys]_orchVars
<1>1. OrchInit => LoopInv
  <2>1. PICK n \in Nat, e \in Nat : n = Len(Services) /\ e = MaxErrors
    BY OrchestratorAssumption
  <2> QED
    BY <2>1 DEF OrchInit, LoopInv, Phases
<1>2. LoopInv => StepsLeft \in Nat /\ StepsLeft <= StepBound
  BY StepsLeftBound
<1>3. LoopInv /\ [OrchNext]_orchVars => LoopInv'
  BY LoopStep
<1>4. LoopInv /\ [OrchNext]_orchVars => [Obeys]_orchVars
  <2> SUFFICES ASSUME LoopInv, OrchNext PROVE Obeys
    OBVIOUS
  <2>1. ~running => ~running'
    BY DEF OrchNext, OrchStep, Boot, WaitHealthy, StartNext, LoopTop, Wake, CheckRestart,
           RestartRaises, ScanLogs, Heal, EndScan, RetrySkipped, EndRetry, StopAll,
           Shutdown, Stall, Crash, loopVars
  <2>2. ~running /\ OrchStep => StepsLeft' < StepsLeft
    BY StepsLeftLowers
  <2>3. OrchStep \/ UNCHANGED <<phase, at, errors>>
    BY DEF OrchNext, Shutdown, Stall, Crash, loopVars
  <2> QED
    BY <2>1, <2>2, <2>3 DEF Obeys
<1> QED
  BY <1>1, <1>2, <1>3, <1>4, PTL DEF OrchSpec
=============================================================================
