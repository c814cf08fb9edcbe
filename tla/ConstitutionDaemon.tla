------------------------- MODULE ConstitutionDaemon -------------------------
(***************************************************************************)
(* constitutiond and its clients: one kernel behind a mutex, a thread per  *)
(* TCP connection (constitution/src/bin/constitutiond.rs, ipc.rs), and     *)
(* blocking Python clients with a receive timeout and a session socket     *)
(* they keep after a failed call (cortex/cortex/constitution_client.py).   *)
(* The gateway opens a socket for each rpc() and destroys it when the call *)
(* is settled (gateway/.../constitution/rust-bridge.service.ts).           *)
(*                                                                         *)
(* A frame carries, besides its content, its serial number on the          *)
(* connection, and a response the serial of the frame it answers.  The     *)
(* program has no such number (every request_id is "cortex-0001" or        *)
(* "gateway-0001" and the daemon does not echo it); it exists for the      *)
(* properties only.                                                        *)
(***************************************************************************)
EXTENDS ConstitutionKernel

CONSTANTS
  Clients,      \* processes that hold a ConstitutionIPCClient
  Gateways,     \* rpc() calls the gateway can have in flight
  Requests,     \* the contents of the frames clients send
  RpcRequests,  \* the contents of the frames the gateway sends
  MaxConns,     \* bound: connections ever opened
  MaxFrames,    \* bound: frames sent on one connection
  MaxCrashes    \* bound: daemon crashes

\* Contents of a frame: the four opcodes, and the ways a frame can be bad.
FrameErrors == {"MalformedEnvelope", "VersionMismatch", "MalformedPayload"}

RequestType ==
  [op : {"EvaluateProposal"}, portfolio : Portfolios, proposal : Proposals]
    \cup [op : {"AttemptRecovery"}, valid : BOOLEAN]
    \cup [op : {"GetStatus", "Heartbeat", "InvalidLength"} \cup FrameErrors]

\* The opcodes of the gateway's evaluateProposal, getStatus and heartbeat.  A
\* frame that is too long is refused before a socket exists.
RpcType ==
  {request \in RequestType : request.op \in {"EvaluateProposal", "GetStatus", "Heartbeat"}}

ASSUME DaemonAssumption ==
  /\ Clients \cap Gateways = {}
  /\ Requests \subseteq RequestType /\ RpcRequests \subseteq RpcType
  /\ MaxConns \in Nat /\ MaxFrames \in Nat /\ MaxCrashes \in Nat

VARIABLES
  up,        \* the constitutiond process runs
  opened,    \* connections opened so far
  session,   \* the connection of each caller's socket, 0 for None
  call,      \* serial of the request a caller waits for, 0 for none
  late,      \* answers a connection owes to calls that were given up
  torn,      \* connections whose client is out of step with the frames
  got,       \* the request of each caller's last completed call, and the one answered
  sent,      \* frames sent on each connection
  toServer,  \* frames the daemon has not read
  pending,   \* the response a connection thread has yet to write (at most one)
  toClient,  \* responses the client has not read
  serving,   \* the connection's thread in the daemon is alive
  crashes

clientVars == <<session, call, late, torn, got, sent>>
netVars    == <<toServer, pending, toClient, serving>>
daemonVars == <<kernelVars, up, opened, clientVars, netVars, crashes>>

Conns   == 1..MaxConns
Callers == Clients \cup Gateways

Frame(n, request) == [serial |-> n, request |-> request]

NoAnswer == [asked |-> 0, answered |-> 0, late |-> 0]

DaemonInit ==
  /\ KernelInit
  /\ up = TRUE
  /\ opened = 0
  /\ session = [c \in Callers |-> 0]
  /\ call = [c \in Callers |-> 0]
  /\ got = [c \in Callers |-> NoAnswer]
  /\ late = [k \in Conns |-> 0] /\ torn = {}
  /\ sent = [k \in Conns |-> 0]
  /\ toServer = [k \in Conns |-> <<>>]
  /\ pending = [k \in Conns |-> <<>>]
  /\ toClient = [k \in Conns |-> <<>>]
  /\ serving = [k \in Conns |-> FALSE]
  /\ crashes = 0

-----------------------------------------------------------------------------
(* The client.                                                             *)

\* A session that is already set is kept, alive or not; a connection attempt
\* while the daemon is down is refused and changes nothing.
OpenSession(c) ==
  /\ session[c] = 0 /\ up /\ opened < MaxConns
  /\ opened' = opened + 1
  /\ session' = [session EXCEPT ![c] = opened + 1]
  /\ serving' = [serving EXCEPT ![opened + 1] = TRUE]
  /\ UNCHANGED <<kernelVars, up, call, late, torn, got, sent,
                 toServer, pending, toClient, crashes>>

CloseSession(c) ==
  /\ session[c] # 0 /\ call[c] = 0
  /\ session' = [session EXCEPT ![c] = 0]
  /\ UNCHANGED <<kernelVars, up, opened, call, late, torn, got, sent, netVars, crashes>>

\* sendall, then block in recv.  Bytes sent to a dead thread are lost.
Send(c, request) ==
  LET k == session[c] IN
  /\ k # 0 /\ call[c] = 0 /\ sent[k] < MaxFrames
  /\ call' = [call EXCEPT ![c] = sent[k] + 1]
  /\ sent' = [sent EXCEPT ![k] = @ + 1]
  /\ toServer' = IF serving[k]
                   THEN [toServer EXCEPT ![k] = Append(@, Frame(sent[k] + 1, request))]
                   ELSE toServer
  /\ UNCHANGED <<kernelVars, up, opened, session, late, torn, got,
                 pending, toClient, serving, crashes>>

\* The call returns whatever response comes first on the socket.
Receive(c) ==
  LET k == session[c] IN
  /\ call[c] # 0 /\ toClient[k] # <<>> /\ k \notin torn
  /\ got' = [got EXCEPT ![c] = [asked    |-> call[c],
                                answered |-> Head(toClient[k]).serial,
                                late     |-> late[k]]]
  /\ toClient' = [toClient EXCEPT ![k] = Tail(@)]
  /\ call' = [call EXCEPT ![c] = 0]
  /\ UNCHANGED <<kernelVars, up, opened, session, late, torn, sent,
                 toServer, pending, serving, crashes>>

\* The client takes text for a length.  Four characters make a length beyond the
\* limit, a piece of a length makes one that spans several answers, and what is
\* read for it is no JSON: the call raises and some answers are gone in pieces,
\* up to the end of one or into the middle of the next.
Misread(c) ==
  LET k == session[c] IN
  /\ call[c] # 0 /\ toClient[k] # <<>> /\ k \in torn
  /\ \E n \in 0..Len(toClient[k]) :
       /\ toClient' = [toClient EXCEPT ![k] = SubSeq(@, n + 1, Len(@))]
       /\ late' = [late EXCEPT ![k] = @ + 1 - n]
       /\ torn' = torn \/ (n > 0 /\ torn' = torn \ {k})
  /\ call' = [call EXCEPT ![c] = 0]
  /\ UNCHANGED <<kernelVars, up, opened, session, got, sent,
                 toServer, pending, serving, crashes>>

\* recv times out: the call raises, the session socket stays open.  The daemon
\* writes the length of a response and then its text; a client that has read the
\* one and not the other is out of step from then on.
Timeout(c) ==
  LET k == session[c] IN
  /\ call[c] # 0 /\ toClient[k] = <<>> /\ serving[k]
  /\ late' = [late EXCEPT ![k] = @ + 1]
  /\ torn' = torn \/ (pending[k] # <<>> /\ torn' = torn \cup {k})
  /\ call' = [call EXCEPT ![c] = 0]
  /\ UNCHANGED <<kernelVars, up, opened, session, got, sent, netVars, crashes>>

\* Mutant: a client that reads end-of-file keeps waiting for its answer.
ConnectionClosed_Ignored(c) == call[c] # 0 /\ UNCHANGED daemonVars

\* recv returns no bytes: ConnectionError, the session socket stays set.
ConnectionClosed(c) ==
  LET k == session[c] IN
  /\ call[c] # 0 /\ toClient[k] = <<>> /\ ~serving[k]
  /\ call' = [call EXCEPT ![c] = 0]
  /\ UNCHANGED <<kernelVars, up, opened, session, late, torn, got, sent, netVars, crashes>>

-----------------------------------------------------------------------------
(* The gateway.                                                            *)

\* A new socket; one frame is written when it has connected.  A refused
\* connection rejects the promise and changes nothing.
Rpc(g, request) ==
  LET k == opened + 1 IN
  /\ session[g] = 0 /\ up /\ opened < MaxConns /\ MaxFrames > 0
  /\ opened' = k
  /\ session' = [session EXCEPT ![g] = k]
  /\ serving' = [serving EXCEPT ![k] = TRUE]
  /\ sent' = [sent EXCEPT ![k] = 1]
  /\ call' = [call EXCEPT ![g] = 1]
  /\ toServer' = [toServer EXCEPT ![k] = <<Frame(1, request)>>]
  /\ UNCHANGED <<kernelVars, up, late, torn, got, pending, toClient, crashes>>

\* socket.destroy(), and the promise is settled.
Settle(g) ==
  /\ call[g] # 0
  /\ session' = [session EXCEPT ![g] = 0]
  /\ call' = [call EXCEPT ![g] = 0]
  /\ UNCHANGED <<kernelVars, up, opened, late, torn, sent, toServer, pending, serving, crashes>>

\* The data handler has a whole response: the promise is resolved.
RpcReply(g) ==
  LET k == session[g] IN
  /\ Settle(g)
  /\ toClient[k] # <<>>
  /\ got' = [got EXCEPT ![g] = [asked    |-> call[g],
                                answered |-> Head(toClient[k]).serial,
                                late     |-> late[k]]]
  /\ toClient' = [toClient EXCEPT ![k] = Tail(@)]

\* Mutant: the timer is dropped with the connection.
RpcTimeout_WhileConnected(g) ==
  /\ Settle(g)
  /\ serving[session[g]]
  /\ UNCHANGED <<got, toClient>>

\* The timer fires, possibly with a response waiting in the socket: rejected.
RpcTimeout(g) == Settle(g) /\ UNCHANGED <<got, toClient>>

\* A connection that ends with a reset raises 'error': rejected.  One that
\* ends without is not noticed: there is no handler for 'end' or 'close'.
RpcError(g) ==
  /\ Settle(g)
  /\ ~serving[session[g]]
  /\ UNCHANGED <<got, toClient>>

-----------------------------------------------------------------------------
(* The daemon.                                                             *)

Response(n, body) == <<[serial |-> n, body |-> body]>>

EndThread(k) ==
  /\ serving' = [serving EXCEPT ![k] = FALSE]
  /\ toServer' = [toServer EXCEPT ![k] = <<>>]

\* One frame under the kernel's mutex (handle_frame).  Opcodes that call the
\* kernel change it; errors are answered and leave it alone.
HandleRequest(request, n, k) ==
  \/ /\ request.op = "EvaluateProposal"
     /\ ProcessProposal(request.portfolio, request.proposal)
     /\ pending' = [pending EXCEPT ![k] =
          Response(n, [tag |-> "verdict", verdict |-> reply'.verdict,
                       system_state |-> state'])]
  \/ /\ request.op = "AttemptRecovery"
     /\ AttemptRecovery(request.valid)
     /\ pending' = [pending EXCEPT ![k] =
          Response(n, [tag |-> "recovery", success |-> reply'.success])]
  \/ /\ request.op = "GetStatus"
     /\ UNCHANGED kernelVars
     /\ pending' = [pending EXCEPT ![k] =
          Response(n, [tag |-> "status", system_state |-> state,
                       emergencies |-> emergency_count])]
  \/ /\ request.op = "Heartbeat"
     /\ UNCHANGED kernelVars
     /\ pending' = [pending EXCEPT ![k] = Response(n, [tag |-> "alive"])]
  \/ /\ request.op \in FrameErrors
     /\ UNCHANGED kernelVars
     /\ pending' = [pending EXCEPT ![k] =
          Response(n, [tag |-> "error", error |-> request.op])]

HandleFrame(k) ==
  /\ serving[k] /\ pending[k] = <<>> /\ toServer[k] # <<>>
  /\ LET f == Head(toServer[k]) IN
       /\ f.request.op # "InvalidLength"
       /\ HandleRequest(f.request, f.serial, k)
       /\ toServer' = [toServer EXCEPT ![k] = Tail(@)]
  /\ UNCHANGED <<up, opened, clientVars, toClient, serving, crashes>>

\* A zero or oversized length prefix ends the connection, without a response.
RefuseFrame(k) ==
  /\ serving[k] /\ pending[k] = <<>> /\ toServer[k] # <<>>
  /\ Head(toServer[k]).request.op = "InvalidLength"
  /\ EndThread(k)
  /\ UNCHANGED <<kernelVars, up, opened, clientVars, pending, toClient, crashes>>

\* Mutant: the response is written twice.
WriteReply_Twice(k) ==
  /\ serving[k] /\ pending[k] # <<>>
  /\ toClient' = [toClient EXCEPT ![k] = @ \o pending[k] \o pending[k]]
  /\ pending' = [pending EXCEPT ![k] = <<>>]
  /\ UNCHANGED <<kernelVars, up, opened, clientVars, toServer, serving, crashes>>

\* After the mutex is released; the response is whole when its text is written.
WriteReply(k) ==
  /\ serving[k] /\ pending[k] # <<>>
  /\ toClient' = [toClient EXCEPT ![k] = @ \o pending[k]]
  /\ pending' = [pending EXCEPT ![k] = <<>>]
  /\ UNCHANGED <<kernelVars, up, opened, clientVars, toServer, serving, crashes>>

ClosedByClient(k) == \A c \in Callers : session[c] # k

\* The client has closed its end: the thread stops at end-of-file, or earlier
\* when the close reset the connection; frames it has not read by then are
\* never handled.
EndConnection(k) ==
  /\ serving[k] /\ ClosedByClient(k)
  /\ EndThread(k)
  /\ pending' = [pending EXCEPT ![k] = <<>>]
  /\ UNCHANGED <<kernelVars, up, opened, clientVars, toClient, crashes>>

\* The process dies: every connection ends, what was not written is lost,
\* and the kernel, which is kept in memory only, with it.
Crash ==
  /\ up /\ crashes < MaxCrashes
  /\ up' = FALSE
  /\ crashes' = crashes + 1
  /\ serving' = [k \in Conns |-> FALSE]
  /\ toServer' = [k \in Conns |-> <<>>]
  /\ pending' = [k \in Conns |-> <<>>]
  /\ UNCHANGED <<kernelVars, opened, clientVars, toClient>>

\* main() builds a new kernel.
Restart ==
  /\ ~up
  /\ up' = TRUE
  /\ state' = "Normal"
  /\ proposal_count' = 0
  /\ emergency_count' = 0
  /\ transition_count' = 0
  /\ transition_history' = <<>>
  /\ reply' = [op |-> "new"]
  /\ UNCHANGED <<opened, clientVars, netVars, crashes>>

ClientStep(c) ==
  \/ OpenSession(c) \/ CloseSession(c)
  \/ \E request \in Requests : Send(c, request)
  \/ Receive(c) \/ Misread(c) \/ Timeout(c) \/ ConnectionClosed(c)

GatewayStep(g) ==
  \/ \E request \in RpcRequests : Rpc(g, request)
  \/ RpcReply(g) \/ RpcTimeout(g) \/ RpcError(g)

ThreadStep(k) ==
  HandleFrame(k) \/ RefuseFrame(k) \/ WriteReply(k) \/ EndConnection(k)

DaemonNext ==
  \/ \E c \in Clients : ClientStep(c)
  \/ \E g \in Gateways : GatewayStep(g)
  \/ \E k \in Conns : ThreadStep(k)
  \/ Crash
  \/ Restart

\* Connection threads run, and a client blocked in recv returns when bytes or
\* an end-of-file have arrived.  The gateway's event loop runs the timers that
\* are due.  Nothing makes a client's receive time out, and nobody is obliged to
\* send, close, crash or restart.
DaemonFairness ==
  /\ \A k \in Conns : WF_daemonVars(HandleFrame(k) \/ RefuseFrame(k) \/ WriteReply(k))
  /\ \A c \in Clients : WF_daemonVars(Receive(c) \/ Misread(c) \/ ConnectionClosed(c))
  /\ \A g \in Gateways : WF_daemonVars(RpcTimeout(g))

DaemonSpec == DaemonInit /\ [][DaemonNext]_daemonVars /\ DaemonFairness

-----------------------------------------------------------------------------
(* Properties.                                                             *)

Serials(s) == [i \in 1..Len(s) |-> s[i].serial]

\* Everything still on its way on a live connection is a consecutive run of
\* serials up to the last frame sent: no request is answered twice, skipped or
\* overtaken on its connection, whatever the threads of other connections do
\* and however calls time out (constitutiond.rs:45-78).
AnsweredOnceInOrder ==
  \A k \in Conns : serving[k] =>
    LET q == Serials(toClient[k] \o pending[k] \o toServer[k])
    IN  \A i \in 1..Len(q) : q[i] = sent[k] - Len(q) + i

\* A call that returns brings the response to the request that many calls ago
\* that have timed out on its session, less those whose answers went in pieces:
\* after one timeout every later answer on the session is one request old
\* (constitution_client.py:50-62 never resynchronises).
\* The gateway, which never uses a socket again, is always answered its own
\* request, however many calls it has given up before.
AnswersLagByTimeouts ==
  \A c \in Callers : got[c].asked - got[c].answered = got[c].late

\* A halted kernel leaves the halt only for recovery, on a frame that carried a
\* valid proof, or because the process was restarted; no frame of any
\* other connection, and no crash by itself, releases it.
HaltReleasedOnlyByProof ==
  [][state = "EmergencyHalt" /\ state' # "EmergencyHalt" =>
       \/ /\ state' = "AutonomousRecovery"
          /\ reply'.op = "attempt_recovery" /\ reply'.success
       \/ ~up /\ up' /\ state' = "Normal"]_daemonVars

\* Every call returns without the help of a timeout: the daemon answers each
\* frame or ends the connection, and ending it, by a bad length or by a crash,
\* releases the client that waits on it.
EveryCallReturns == \A c \in Clients : call[c] # 0 ~> call[c] = 0

\* Every promise of rpc() is settled, by the timer where the daemon crashed or
\* ended the connection, which the gateway does not notice
\* (rust-bridge.service.ts:114-150).
EveryRpcSettles == \A g \in Gateways : call[g] # 0 ~> call[g] = 0
=============================================================================
