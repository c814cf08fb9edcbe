---------------------------- MODULE Orchestrator ----------------------------
(***************************************************************************)
(* The process supervisor (centaur_start.py, class Orchestrator): ordered  *)
(* start, the monitoring loop that restarts what has died, the healing     *)
(* step after a log scan, the retry of what was skipped, and shutdown.     *)
(*                                                                         *)
(* A process is a pair <<service, slot>>.  A slot is used again once its   *)
(* process is dead, no handle refers to it and its feed is gone.  All      *)
(* constitutiond processes bind one port, so one of them lives at a time:  *)
(* a second one exits when it cannot bind (constitutiond.rs:26-29).        *)
(***************************************************************************)
EXTENDS Integers, Sequences, FiniteSets

CONSTANTS
  Services,      \* SERVICES, in order; the first one is the constitution
  DependsOn,     \* depends_on, a sequence of services for each service
  Fed,           \* the services that run with a feed process (trading-daemon)
  MaxRestarts,   \* the code's 10
  HealEvery,     \* ticks between two log scans, the code's 6
  RetryEvery,    \* ticks between two retries of skipped services, the code's 12
  MaxErrors,     \* bound: IPC errors one log scan reports, the code's 5
  SpawnMayFail,  \* whether creating a process may fail
  MaxFaults,     \* bound: crashes of processes and failed starts
  Slots          \* bound: processes of one service at a time

Constitution == Services[1]
Names        == {Services[i] : i \in 1..Len(Services)}

ASSUME OrchestratorAssumption ==
  /\ Services \in Seq(STRING) /\ Len(Services) > 0
  /\ \A i, j \in 1..Len(Services) : Services[i] = Services[j] => i = j
  /\ DependsOn \in [Names -> Seq(Names)]
  /\ DependsOn[Constitution] = <<>>
  /\ Fed \subseteq Names \ {Constitution}
  /\ MaxRestarts \in Nat /\ MaxErrors \in Nat /\ MaxFaults \in Nat
  /\ HealEvery \in Nat \ {0} /\ RetryEvery \in Nat \ {0}
  /\ RetryEvery % HealEvery = 0
  /\ SpawnMayFail \in BOOLEAN
  /\ Slots \in Nat \ {0}

VARIABLES
  handle,    \* processes: a process, Adopted, or NoHandle for a missing key
  restarts,  \* restart_counts, not told apart beyond MaxRestarts + 1
  running,   \* _running
  phase, at, \* where run() is: a phase, and the position in SERVICES
  tick,      \* tick modulo RetryEvery
  errors,    \* IPC errors of the last scan still to be handled
  alive,     \* the processes that live
  feeds,     \* the processes whose feed lives
  stalled,   \* the living constitutiond does not answer probes
  faults     \* crashes and failed starts so far

loopVars == <<running, phase, at, tick, errors>>
orchVars == <<handle, restarts, loopVars, alive, feeds, stalled, faults>>

NoHandle == <<"none">>
Adopted  == <<"adopted">>

\* Slot 0 is a constitutiond this orchestrator has not started.
Foreign   == <<Constitution, 0>>
Processes == Names \X (1..Slots)

Ended == {"failed", "crashed", "exited"}

OrchInit ==
  /\ handle = [s \in Names |-> NoHandle]
  /\ restarts = [s \in Names |-> 0]
  /\ running = TRUE
  /\ phase = "boot" /\ at = 1 /\ tick = 0 /\ errors = 0
  /\ alive \in {{}, {Foreign}}
  /\ feeds = {}
  /\ stalled = FALSE /\ faults = 0

-----------------------------------------------------------------------------
(* Probes and processes.                                                   *)

KernelUp == \E p \in alive : p[1] = Constitution

\* _probe_constitution: a heartbeat frame is answered.
Probe == KernelUp /\ ~stalled

\* poll() is not None.  An adopted daemon is polled by a probe.
Exited(s) == IF handle[s] = Adopted THEN ~Probe ELSE handle[s] \notin alive

\* _can_start looks at the dependencies in order and returns the result of
\* the probe at the first one that is the constitution.
CanStart(s) ==
  LET deps   == DependsOn[s]
      kernel == {i \in 1..Len(deps) : deps[i] = Constitution}
      looked == {i \in 1..Len(deps) : \A k \in kernel : i < k}
  IN  /\ \A i \in looked : handle[deps[i]] # NoHandle /\ ~Exited(deps[i])
      /\ kernel # {} => Probe

Free(s) == {n \in 1..Slots :
              LET p == <<s, n>> IN p \notin alive \cup feeds /\ handle[s] # p}

NewProcess(s) == <<s, CHOOSE n \in Free(s) : \A k \in Free(s) : n <= k>>

\* svc["runner"]().  A constitutiond that finds its port taken exits at once.
Spawn(s) ==
  LET p == NewProcess(s) IN
  /\ Free(s) # {}
  /\ handle' = [handle EXCEPT ![s] = p]
  /\ alive' = IF s = Constitution /\ KernelUp THEN alive ELSE alive \cup {p}
  /\ stalled' = IF s = Constitution /\ ~KernelUp THEN FALSE ELSE stalled
  /\ UNCHANGED faults

\* The feed is created first; `others` are the feeds that live then.
StartFeed(s, others) == IF s \in Fed THEN others \cup {NewProcess(s)} ELSE others

\* The runner raises: before anything was created, or after the feed was.
SpawnFails(s, others) ==
  /\ SpawnMayFail /\ faults < MaxFaults
  /\ faults' = faults + 1
  /\ feeds' \in {others, StartFeed(s, others)}
  /\ UNCHANGED <<handle, alive, stalled>>

\* What _start_service creates: a constitutiond that answers is adopted, not
\* started.
Launch(s) ==
  \/ /\ s = Constitution /\ Probe
     /\ handle' = [handle EXCEPT ![s] = Adopted]
     /\ UNCHANGED <<alive, feeds, stalled, faults>>
  \/ /\ ~(s = Constitution /\ Probe)
     /\ Spawn(s)
     /\ feeds' = StartFeed(s, feeds)

LaunchFails(s) == ~(s = Constitution /\ Probe) /\ SpawnFails(s, feeds)

\* _start_service: a failure is logged and changes no handle and no count.
StartService(s) ==
  \/ Launch(s) /\ restarts' = [restarts EXCEPT ![s] = 0]
  \/ LaunchFails(s) /\ UNCHANGED restarts

NoStart == UNCHANGED <<handle, restarts, alive, feeds, stalled, faults>>

\* _kill_feed of the process a handle refers to.
KillFeed(s) == feeds \ {handle[s]}

-----------------------------------------------------------------------------
(* run(): the start.                                                       *)

Goto(p, i) == phase' = p /\ at' = i

\* The constitution first; without it there is no point in going on.
Boot ==
  /\ phase = "boot"
  /\ StartService(Constitution)
  /\ IF handle'[Constitution] = NoHandle THEN Goto("failed", 1) ELSE Goto("wait", 1)
  /\ UNCHANGED <<running, tick, errors>>

\* _wait_for_constitutiond(30); on failure run() returns without stopping
\* what it has started.
WaitHealthy ==
  /\ phase = "wait"
  /\ \/ Probe /\ Goto("start", 2)
     \/ ~Probe /\ Goto("failed", 1)
  /\ NoStart
  /\ UNCHANGED <<running, tick, errors>>

StartNext ==
  /\ phase = "start" /\ at <= Len(Services)
  /\ \/ CanStart(Services[at]) /\ StartService(Services[at])
     \/ ~CanStart(Services[at]) /\ NoStart
  /\ Goto("start", at + 1)
  /\ UNCHANGED <<running, tick, errors>>

-----------------------------------------------------------------------------
(* run(): the monitoring loop.                                             *)

\* while self._running: sleep five seconds, count the tick.
LoopTop ==
  /\ \/ phase = "start" /\ at > Len(Services)
     \/ phase = "top"
  /\ IF running THEN Goto("sleep", 1) ELSE Goto("stop", 1)
  /\ NoStart
  /\ UNCHANGED <<running, tick, errors>>

Wake ==
  /\ phase = "sleep"
  /\ Goto("monitor", 1)
  /\ tick' = (tick + 1) % RetryEvery
  /\ NoStart
  /\ UNCHANGED <<running, errors>>

\* Nothing to do for this service: no handle, or its process lives.
Healthy(s) == handle[s] = NoHandle \/ ~Exited(s)

CountCrash(s) ==
  restarts' = [restarts EXCEPT ![s] = IF @ > MaxRestarts THEN @ ELSE @ + 1]

\* Beyond MaxRestarts the service is given up, its feed not looked at.
GiveUp(s) ==
  /\ restarts[s] >= MaxRestarts
  /\ CountCrash(s)
  /\ UNCHANGED <<handle, alive, feeds, stalled, faults>>

Restart(s) ==
  /\ restarts[s] < MaxRestarts
  /\ CountCrash(s)
  /\ \/ /\ CanStart(s) /\ Spawn(s)
        /\ feeds' = StartFeed(s, KillFeed(s))
     \/ /\ ~CanStart(s)
        /\ feeds' = KillFeed(s)
        /\ UNCHANGED <<handle, alive, stalled, faults>>

\* Mutant: the exit status of the process is not looked at.
CheckRestart_NoPoll ==
  /\ phase = "monitor" /\ at <= Len(Services)
  /\ LET s == Services[at] IN
       \/ Healthy(s) /\ handle[s] = NoHandle /\ NoStart
       \/ handle[s] # NoHandle /\ (GiveUp(s) \/ Restart(s))
  /\ Goto("monitor", at + 1)
  /\ UNCHANGED <<running, tick, errors>>

\* _check_restart, for one service.
CheckRestart ==
  /\ phase = "monitor" /\ at <= Len(Services)
  /\ LET s == Services[at] IN
       \/ Healthy(s) /\ NoStart
       \/ ~Healthy(s) /\ (GiveUp(s) \/ Restart(s))
  /\ Goto("monitor", at + 1)
  /\ UNCHANGED <<running, tick, errors>>

\* The runner raises in _check_restart, where nothing catches it: the old feed is
\* gone, run() ends with the exception and leaves every child behind.
RestartRaises ==
  /\ phase = "monitor" /\ at <= Len(Services)
  /\ LET s == Services[at] IN
       /\ ~Healthy(s) /\ restarts[s] < MaxRestarts /\ CanStart(s)
       /\ CountCrash(s)
       /\ SpawnFails(s, KillFeed(s))
  /\ Goto("crashed", 1)
  /\ UNCHANGED <<running, tick, errors>>

\* Every sixth tick the logs are scanned.  What they hold is not modelled: any
\* number of the (at most five) errors looked at may be IPC errors.
ScanLogs ==
  /\ phase = "monitor" /\ at > Len(Services)
  /\ errors' \in (IF tick % HealEvery = 0 THEN 0..MaxErrors ELSE {0})
  /\ Goto("heal", 1)
  /\ NoStart
  /\ UNCHANGED <<running, tick>>

\* Each IPC error starts the constitution again (it has no dependencies).
Heal ==
  /\ phase = "heal" /\ errors > 0
  /\ StartService(Constitution)
  /\ errors' = errors - 1
  /\ UNCHANGED <<running, phase, at, tick>>

\* Every twelfth tick the other services are retried.
EndScan ==
  /\ phase = "heal" /\ errors = 0
  /\ IF tick = 0 THEN Goto("retry", 2) ELSE Goto("top", 1)
  /\ NoStart
  /\ UNCHANGED <<running, tick, errors>>

\* _retry_skipped_services, for one service: started again if it is missing or
\* dead, whatever its restart count; the count is cleared also on failure.
RetryService(s) ==
  \/ /\ Exited(s) /\ CanStart(s)
     /\ Launch(s) \/ LaunchFails(s)
     /\ restarts' = [restarts EXCEPT ![s] = 0]
  \/ ~(Exited(s) /\ CanStart(s)) /\ NoStart

\* Mutant: a service that never got a process is not looked at.
RetrySkipped_NotMissing ==
  /\ phase = "retry" /\ at <= Len(Services)
  /\ IF handle[Services[at]] = NoHandle THEN NoStart ELSE RetryService(Services[at])
  /\ Goto("retry", at + 1)
  /\ UNCHANGED <<running, tick, errors>>

RetrySkipped ==
  /\ phase = "retry" /\ at <= Len(Services)
  /\ RetryService(Services[at])
  /\ Goto("retry", at + 1)
  /\ UNCHANGED <<running, tick, errors>>

EndRetry ==
  /\ phase = "retry" /\ at > Len(Services)
  /\ Goto("top", 1)
  /\ NoStart
  /\ UNCHANGED <<running, tick, errors>>

-----------------------------------------------------------------------------
(* Shutdown and the environment.                                           *)

\* Mutant: the first process that does not end in time ends the loop.
StopAll_FirstOnly ==
  /\ phase = "stop"
  /\ \E s \in Names : alive' = alive \ {handle[s]} /\ feeds' = feeds \ {handle[s]}
  /\ stalled' = (stalled /\ \E p \in alive' : p[1] = Constitution)
  /\ Goto("exited", 1)
  /\ UNCHANGED <<handle, restarts, running, tick, errors, faults>>

\* _stop_all: the process of every handle, and its feed.  An adopted daemon is
\* left alone.
StopAll ==
  /\ phase = "stop"
  /\ alive' = alive \ {handle[s] : s \in Names}
  /\ feeds' = feeds \ {handle[s] : s \in Names}
  /\ stalled' = (stalled /\ \E p \in alive' : p[1] = Constitution)
  /\ Goto("exited", 1)
  /\ UNCHANGED <<handle, restarts, running, tick, errors, faults>>

\* SIGTERM or SIGINT.
Shutdown ==
  /\ running /\ phase \notin Ended
  /\ running' = FALSE
  /\ UNCHANGED <<handle, restarts, phase, at, tick, errors, alive, feeds, stalled, faults>>

\* A service process ends by itself.  Its feed may end with it, or stay behind
\* blocked on a pipe the orchestrator holds open.
Crash(p) ==
  /\ p \in alive /\ faults < MaxFaults /\ phase \notin Ended
  /\ alive' = alive \ {p}
  /\ \/ UNCHANGED feeds
     \/ p \in feeds /\ feeds' = feeds \ {p}
  /\ stalled' = (stalled /\ p[1] # Constitution)
  /\ faults' = faults + 1
  /\ UNCHANGED <<handle, restarts, loopVars>>

\* The living constitutiond stops answering, or answers again.
Stall ==
  /\ KernelUp /\ phase \notin Ended
  /\ stalled' = ~stalled
  /\ UNCHANGED <<handle, restarts, loopVars, alive, feeds, faults>>

OrchStep ==
  \/ Boot \/ WaitHealthy \/ StartNext
  \/ LoopTop \/ Wake \/ CheckRestart \/ RestartRaises
  \/ ScanLogs \/ Heal \/ EndScan \/ RetrySkipped \/ EndRetry \/ StopAll

OrchNext ==
  OrchStep \/ Shutdown \/ Stall \/ \E p \in alive : Crash(p)

\* The orchestrator's one thread runs.  Nothing makes a process crash, a kernel
\* answer again or a signal arrive.
OrchSpec == OrchInit /\ [][OrchNext]_orchVars /\ WF_orchVars(OrchStep)

-----------------------------------------------------------------------------
(* Properties.                                                             *)

\* No service but the constitution ever has two living processes, and the one
\* it has is the one in the orchestrator's books: neither a crash between the
\* check of a service and its retry, nor a failed start, nor the two paths
\* that start services make a second trading daemon or dead-man switch
\* (centaur_start.py:453-465, 629-636).
NoDuplicateService ==
  \A p, q \in alive : p[1] = q[1] /\ p[1] # Constitution => p = q /\ handle[p[1]] = p

\* A graceful shutdown leaves no process of any service but the constitution.
\* A constitutiond is left only if the orchestrator did not start it, lost it
\* in a healing step, or adopted it (centaur_start.py:617-627).
ShutdownStopsServices ==
  phase = "exited" =>
    \A p \in alive : p[1] = Constitution /\ handle[Constitution] # p

\* While the kernel answers, a service that has not used up its restarts does not
\* stay down, whether it was skipped at the start, failed to start, crashed, or
\* found the kernel silent when it was to be restarted: the check of every tick
\* or the retry of every twelfth brings it back (centaur_start.py:453-465,
\* 629-636).  Of a service past its restarts nothing is claimed.
ServicesComeBack ==
  \A s \in Names \ {Constitution} :
    []<>(~Exited(s) \/ restarts[s] > MaxRestarts \/ ~Probe \/ ~running \/ phase \in Ended)
=============================================================================
