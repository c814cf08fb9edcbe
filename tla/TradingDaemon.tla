---------------------------- MODULE TradingDaemon ----------------------------
(***************************************************************************)
(* The trading loop (cortex/cortex/trading_daemon.py) between the risk     *)
(* gate and the dead-man switch it runs in its own process: one session    *)
(* with the Constitution that is never reopened, one heartbeat per market  *)
(* tick, and a finally clause that stops the switch.  The Constitution is  *)
(* the abstract RiskGate; the switch is DeadManSwitch, driven by the loop. *)
(***************************************************************************)
EXTENDS DeadManSwitch

CONSTANTS
  TickInterval,   \* tick_interval_s, in clock units
  MaxWork,        \* bound: clock units one market tick may take to process
  MaxLate         \* bound: health checks that time out

ASSUME TradingAssumption ==
  /\ TickInterval \in Nat \ {0} /\ MaxWork \in Nat /\ MaxLate \in Nat
  /\ ~StrictSigning

VARIABLES
  gate, answer,  \* the Constitution, as a RiskGate
  connected,     \* the session with it is alive and in step
  late,          \* answers on the session that calls given up have left unread
  pc,            \* where the loop is
  busy,          \* clock units spent working on this tick, or asleep
  booked         \* the last tick added a position to the portfolio

Gate == INSTANCE RiskGate WITH gate <- gate, answer <- answer

gateVars    == <<gate, answer>>
sessionVars == <<connected, late>>
loopVars    == <<gateVars, sessionVars, pc, busy, booked>>
tradingVars == <<switchVars, loopVars>>

\* "loop": waiting for the next market tick; "process": in _process_tick.
Trading == {"loop", "process", "sleep"}

TradingInit ==
  /\ SwitchInit /\ escalation_enabled /\ ~governed
  /\ Gate!GateInit
  /\ connected = TRUE /\ late = <<>>
  /\ pc = "new" /\ busy = 0 /\ booked = FALSE

-----------------------------------------------------------------------------
(* The loop.                                                               *)

\* Mutant: the switch is built and never started.
StartTrading_NoThread ==
  /\ pc = "new" /\ busy' = 0
  /\ pc' \in IF connected THEN {"loop", "crashed"} ELSE {"crashed"}
  /\ UNCHANGED <<switchVars, gateVars, sessionVars, booked>>

\* start(): session, heartbeat, switch thread.  When the Constitution is away
\* or does not answer in time it raises before the switch is started.
StartTrading ==
  /\ pc = "new" /\ busy' = 0
  /\ \/ connected /\ Start /\ pc' = "loop"
     \/ UNCHANGED switchVars /\ pc' = "crashed"
  /\ UNCHANGED <<gateVars, sessionVars, booked>>

HeartbeatResponse == [alive |-> TRUE]

\* _update_health: the heartbeat reads the next answer on the session, which
\* does not say what call it belongs to, or fails, which is printed and
\* otherwise ignored.  One that timed out leaves its answer in the session.
UpdateHealth ==
  \/ connected /\ late' = Tail(Append(late, HeartbeatResponse))
  \/ connected /\ Len(late) < MaxLate /\ late' = Append(late, HeartbeatResponse)
  \/ ~connected /\ UNCHANGED late

\* A market tick arrives and the health check is made.
NextTick ==
  /\ pc = "loop"
  /\ UpdateHealth
  /\ pc' = "process"
  /\ UNCHANGED <<switchVars, gateVars, connected, busy, booked>>

\* The last lines of _process_tick and of the loop body: beat, then sleep.
Pulse ==
  /\ Beat(FALSE)
  /\ pc' = "sleep" /\ busy' = 0

\* Mutant: a tick the engine has no proposal for returns without a beat.
SkipTick_NoBeat ==
  /\ pc = "process"
  /\ pc' = "sleep" /\ busy' = 0 /\ booked' = FALSE
  /\ UNCHANGED <<switchVars, gateVars, sessionVars>>

\* The engine proposes nothing.
SkipTick ==
  /\ pc = "process"
  /\ Pulse
  /\ booked' = FALSE
  /\ UNCHANGED <<gateVars, sessionVars>>

\* What evaluate() returns: the whole response, the verdict in one of its keys.
EvaluateResponse == [verdict |-> answer', system_state |-> gate']

\* _handle_verdict looks for the verdict among the keys of what it is given:
\* a position is added under the key "Approved".  The key
\* "EmergencyLiquidationAll", whose branch calls disarm("") and would end the
\* loop with a PermissionError, is never there either.
HandleVerdict(response) ==
  booked' = ("Approved" \in DOMAIN response)

\* The kernel takes up a proposal of the loop.
Evaluated == Gate!Approve \/ Gate!Refuse \/ Gate!Breach

\* The engine proposes, the Constitution answers, and the loop acts on what
\* comes first in its session: after a health check that timed out, the
\* answer to an earlier call.
Adjudicate ==
  /\ pc = "process" /\ connected
  /\ Evaluated
  /\ LET queue == Append(late, EvaluateResponse) IN
       HandleVerdict(Head(queue)) /\ late' = Tail(queue)
  /\ Pulse
  /\ UNCHANGED connected

\* The finally clause of run_loop: the switch is told to stop.
Finally(end) ==
  /\ stop_requested' = TRUE
  /\ pc' = end /\ busy' = 0
  /\ UNCHANGED <<planVars, orderVars, thread, lag, sinceBeat, beating,
                 configVars, sessionVars, booked>>

\* The engine proposes and evaluate() raises, which nothing catches: the
\* session is dead, or the answer does not come in time, whether or not the
\* kernel has taken up the proposal.
EvaluateFails ==
  /\ pc = "process"
  /\ UNCHANGED gateVars \/ (connected /\ Evaluated)
  /\ Finally("crashed")

\* time.sleep(tick_interval_s) is over.
Wake ==
  /\ pc = "sleep" /\ busy >= TickInterval
  /\ pc' = "loop" /\ busy' = 0
  /\ UNCHANGED <<switchVars, gateVars, sessionVars, booked>>

\* stop(), the end of the feed or an interrupt.
Shutdown == pc \in {"loop", "sleep"} /\ Finally("stopped") /\ UNCHANGED gateVars

-----------------------------------------------------------------------------
(* Around the loop.                                                        *)

\* The feed or a call of the loop blocks for good.
Hang ==
  /\ pc \in {"loop", "process"}
  /\ pc' = "hung" /\ busy' = 0
  /\ UNCHANGED <<switchVars, gateVars, sessionVars, booked>>

\* constitutiond dies, the connection breaks, or a heartbeat times out between
\* the header and the body of an answer, so that later calls read the session
\* out of step and raise.  The client keeps the socket, so a restart of the
\* daemon does not help this process.
LoseConstitution ==
  /\ connected
  /\ connected' = FALSE
  /\ UNCHANGED <<switchVars, gateVars, late, pc, busy, booked>>

\* Another client presents a recovery proof.
RecoverGate ==
  /\ connected /\ Gate!Advance
  /\ UNCHANGED <<switchVars, sessionVars, pc, busy, booked>>

\* Working on a tick takes at most MaxWork (each call of the client has a
\* timeout of two seconds), sleeping exactly TickInterval.
Limit == IF pc = "sleep" THEN TickInterval ELSE MaxWork

Elapse ==
  /\ Clock
  /\ pc \in Trading => busy < Limit
  /\ busy' = IF pc \in Trading THEN busy + 1 ELSE busy
  /\ UNCHANGED <<gateVars, sessionVars, pc, booked>>

LoopStep == StartTrading \/ NextTick \/ SkipTick \/ Adjudicate \/ EvaluateFails \/ Wake

SwitchStep ==
  /\ TickBegin \/ Tick \/ \E a \in Conversions : Settle(a)
  /\ UNCHANGED loopVars

TradingNext ==
  LoopStep \/ Shutdown \/ Hang \/ LoseConstitution \/ RecoverGate \/ SwitchStep \/ Elapse

\* The loop and the switch thread keep running and time passes.  Nothing is
\* assumed of the environment: no shutdown, loss or settlement has to happen.
TradingSpec ==
  /\ TradingInit /\ [][TradingNext]_tradingVars
  /\ WF_tradingVars(LoopStep)
  /\ WF_tradingVars(TickBegin /\ UNCHANGED loopVars)
  /\ WF_tradingVars(Tick /\ UNCHANGED loopVars)
  /\ SF_tradingVars(Elapse)

-----------------------------------------------------------------------------
(* Properties.                                                             *)

\* The Constitution has answered every health check of the loop.
Healthy == connected /\ late = <<>>

\* As long as a market tick and its sleep together fit into the grace period
\* and the Constitution answers, a trading loop that makes progress never
\* leaves ARMED, whatever the engine proposes, the Constitution decides and
\* however the switch's ticks are delayed (trading_daemon.py:100-115: every way
\* through _process_tick must beat).
ArmedWhileTrading ==
  TickInterval + MaxWork <= Grace /\ Healthy /\ pc \in Trading => state = "ARMED"

\* A loop that hangs after its first heartbeat is noticed: the switch, whose
\* thread does not depend on the loop, goes through to DORMANT
\* (trading_daemon.py:55-57, "deadlock").
HungLoopEscalates == (pc = "hung" /\ sinceBeat # Never) ~> state = "DORMANT"

\* trading_daemon.py:55-57, "crash": a loop that ended although nobody asked it
\* to is noticed as well.
CrashedLoopEscalates ==
  (pc = "crashed" /\ sinceBeat # Never) ~> state # "ARMED"

\* trading_daemon.py:118-119: approved orders are routed and the portfolio is
\* updated.
ApprovedIsBooked == [][Adjudicate /\ answer' = "approved" => booked']_tradingVars
=============================================================================
