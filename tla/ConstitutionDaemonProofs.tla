---------------------- MODULE ConstitutionDaemonProofs ----------------------
(***************************************************************************)
(* The order of answers on a connection, and what the kernel keeps of its  *)
(* promises behind the daemon: proofs for any number of clients, gateway   *)
(* calls, connections, frames and crashes.                                 *)
(***************************************************************************)
EXTENDS ConstitutionDaemon, ConstitutionKernelProofs

Frames == [serial : Nat, request : Requests \cup RpcRequests]

Bodies ==
  [tag : {"verdict"}, verdict : Verdicts, system_state : OperationalStates]
    \cup [tag : {"recovery"}, success : BOOLEAN]
    \cup [tag : {"status"}, system_state : OperationalStates, emergencies : Nat]
    \cup [tag : {"alive"}] \cup [tag : {"error"}, error : FrameErrors]

Responses == [serial : Nat, body : Bodies]

CallerTypes ==
  /\ opened \in 0..MaxConns
  /\ session \in [Callers -> 0..opened] /\ call \in [Callers -> Nat]

GotTypes == got \in [Callers -> [asked : Nat, answered : Nat, late : Nat]]

CountTypes ==
  late \in [Conns -> Nat] /\ sent \in [Conns -> Nat] /\ serving \in [Conns -> BOOLEAN]

QueueTypes ==
  /\ toServer \in [Conns -> Seq(Frames)] /\ toClient \in [Conns -> Seq(Responses)]
  /\ pending \in [Conns -> Seq(Responses)]

WireTypes == CallerTypes /\ GotTypes /\ CountTypes /\ QueueTypes

\* The serials of s are the numbers after n.
Run(s, n) == \A i \in 1..Len(s) : s[i].serial = n + i

\* Frames and responses on their way on connection k.
Flight(k) == Len(toClient[k]) + Len(pending[k]) + Len(toServer[k])

InOrder(k) ==
  /\ Run(toClient[k], sent[k] - Flight(k))
  /\ Run(pending[k], sent[k] - Len(toServer[k]) - Len(pending[k]))
  /\ Run(toServer[k], sent[k] - Len(toServer[k]))

Busy(c) == IF call[c] # 0 THEN 1 ELSE 0

\* On a session that is alive there is one answer to come for the call that
\* waits and one for each call given up, unless it went in pieces; what has been
\* written is read next, also when the session is dead.
Aligned(c) ==
  LET k == session[c] IN
  IF k = 0 THEN call[c] = 0
  ELSE /\ call[c] \in {0, sent[k]}
       /\ serving[k] => Flight(k) = late[k] + Busy(c)
       /\ Len(toClient[k]) <= late[k] + Busy(c)
       /\ Run(toClient[k], sent[k] - late[k] - Busy(c))

\* A connection that has not been opened has carried nothing.
Fresh(k) ==
  /\ toServer[k] = <<>> /\ pending[k] = <<>> /\ toClient[k] = <<>>
  /\ sent[k] = 0 /\ late[k] = 0 /\ ~serving[k]

WireInv ==
  /\ WireTypes
  /\ \A c, d \in Callers : session[c] = session[d] /\ session[c] # 0 => c = d
  /\ \A k \in Conns : serving[k] => InOrder(k)
  /\ \A c \in Callers : Aligned(c)
  /\ \A k \in Conns : k > opened => Fresh(k)
  /\ AnswersLagByTimeouts

DaemonInv == KernelTypeOK /\ WireInv

-----------------------------------------------------------------------------
(* Runs of serials.                                                        *)

LEMMA RunTail ==
  ASSUME NEW S, NEW s \in Seq(S), NEW n \in Int, Run(s, n), s # <<>>
  PROVE  /\ Head(s) \in S /\ Head(s).serial = n + 1
         /\ Tail(s) \in Seq(S) /\ Len(Tail(s)) = Len(s) - 1 /\ Run(Tail(s), n + 1)
BY DEF Run

LEMMA RunAppend ==
  ASSUME NEW S, NEW s \in Seq(S), NEW n \in Int, Run(s, n),
         NEW e \in S, e.serial = n + Len(s) + 1
  PROVE  /\ Append(s, e) \in Seq(S) /\ Len(Append(s, e)) = Len(s) + 1
         /\ Run(Append(s, e), n)
BY DEF Run

LEMMA RunConcat ==
  ASSUME NEW S, NEW s \in Seq(S), NEW t \in Seq(S), NEW n \in Int,
         Run(s, n), Run(t, n + Len(s))
  PROVE  /\ s \o t \in Seq(S) /\ Len(s \o t) = Len(s) + Len(t)
         /\ Run(s \o t, n)
<1>1. s \o t \in Seq(S) /\ Len(s \o t) = Len(s) + Len(t)
  OBVIOUS
<1>2. ASSUME NEW i \in 1..Len(s \o t) PROVE (s \o t)[i].serial = n + i
  <2>1. CASE i <= Len(s)
    BY <1>2, <2>1 DEF Run
  <2>2. CASE i > Len(s)
    <3>1. i - Len(s) \in 1..Len(t) /\ (s \o t)[i] = t[i - Len(s)]
      BY <1>2, <2>2
    <3>2. t[i - Len(s)].serial = n + Len(s) + (i - Len(s))
      BY <3>1 DEF Run
    <3> QED
      BY <3>1, <3>2
  <2> QED
    BY <1>2, <2>1, <2>2
<1> QED
  BY <1>1, <1>2 DEF Run

LEMMA RunDrop ==
  ASSUME NEW S, NEW s \in Seq(S), NEW n \in Int, Run(s, n), NEW m \in 0..Len(s)
  PROVE  LET t == SubSeq(s, m + 1, Len(s))
         IN  t \in Seq(S) /\ Len(t) = Len(s) - m /\ Run(t, n + m)
<1>1. PICK e \in Nat : e = Len(s)
  OBVIOUS
<1>2. PICK t : t = SubSeq(s, m + 1, Len(s))
  OBVIOUS
<1>3. m \in Nat /\ m <= e
  BY <1>1
<1>4. t \in Seq(S) /\ Len(t) = e - m /\ \A i \in 1..(e - m) : t[i] = s[m + i]
  BY <1>1, <1>2, <1>3
<1>5. ASSUME NEW i \in 1..(e - m) PROVE t[i].serial = n + m + i
  <2>1. m + i \in 1..e
    BY <1>3
  <2>2. s[m + i].serial = n + (m + i)
    BY <1>1, <2>1 DEF Run
  <2> QED
    BY <1>3, <1>4, <2>2
<1> QED
  BY <1>1, <1>2, <1>4, <1>5 DEF Run

\* The numbers a connection keeps.
LEMMA WireNumbers ==
  ASSUME WireTypes, NEW k \in Conns
  PROVE  /\ sent[k] \in Nat /\ late[k] \in Nat /\ Flight(k) \in Nat
         /\ toClient[k] \in Seq(Responses) /\ pending[k] \in Seq(Responses)
         /\ toServer[k] \in Seq(Frames)
BY DEF WireTypes, CountTypes, QueueTypes, Flight

LEMMA SessionConn ==
  ASSUME WireTypes, NEW c \in Callers
  PROVE  /\ session[c] \in 0..opened /\ call[c] \in Nat
         /\ session[c] # 0 => session[c] \in Conns
BY DaemonAssumption DEF WireTypes, CallerTypes, Conns

\* A connection, and a caller, that a step does not touch.
LEMMA SameConnection ==
  ASSUME NEW k \in Conns, InOrder(k), toClient'[k] = toClient[k], pending'[k] = pending[k],
         toServer'[k] = toServer[k], sent'[k] = sent[k]
  PROVE  InOrder(k)'
BY DEF InOrder, Run, Flight

LEMMA SameCaller ==
  ASSUME WireTypes, NEW c \in Callers, Aligned(c), session'[c] = session[c], call'[c] = call[c],
         \A k \in Conns : session[c] = k =>
           /\ sent'[k] = sent[k] /\ late'[k] = late[k] /\ toClient'[k] = toClient[k]
           /\ serving'[k] => serving[k] /\ Flight(k)' = Flight(k)
  PROVE  Aligned(c)'
<1>1. CASE session[c] = 0
  BY <1>1 DEF Aligned
<1>2. CASE session[c] # 0
  <2>1. PICK k \in Conns : k = session[c]
    BY <1>2, SessionConn
  <2> QED
    BY <1>2, <2>1 DEF Aligned, Run, Busy
<1> QED
  BY <1>1, <1>2

-----------------------------------------------------------------------------
(* The steps of the callers.                                               *)

LEMMA OpenInv ==
  ASSUME WireInv, NEW c \in Callers, session[c] = 0, opened < MaxConns,
         opened' = opened + 1, session' = [session EXCEPT ![c] = opened + 1],
         serving' = [serving EXCEPT ![opened + 1] = TRUE],
         UNCHANGED <<up, late, got, pending, toClient>>,
         \/ UNCHANGED <<call, sent, toServer>>
         \/ \E request \in RpcRequests :
              /\ call' = [call EXCEPT ![c] = 1]
              /\ sent' = [sent EXCEPT ![opened + 1] = 1]
              /\ toServer' = [toServer EXCEPT ![opened + 1] = <<Frame(1, request)>>]
  PROVE  WireInv'
<1> PICK k : k = opened + 1
  OBVIOUS
<1>1. opened \in Nat /\ k \in Conns /\ k > opened /\ Fresh(k) /\ WireTypes
  <2>1. opened \in 0..MaxConns /\ WireTypes
    BY DEF WireInv, WireTypes, CallerTypes
  <2>2. k \in Conns /\ k > opened
    BY <2>1, DaemonAssumption DEF Conns
  <2> QED
    BY <2>1, <2>2 DEF WireInv
<1>2. WireTypes'
  <2>1. CallerTypes'
    <3>1. opened' \in 0..MaxConns /\ 0..opened \subseteq 0..opened'
      BY <1>1, DaemonAssumption DEF WireTypes, CallerTypes
    <3> QED
      BY <1>1, <3>1 DEF WireTypes, CallerTypes
  <2>2. GotTypes' /\ CountTypes'
    BY <1>1 DEF WireTypes, GotTypes, CountTypes
  <2>3. \A request \in RpcRequests : <<Frame(1, request)>> \in Seq(Frames)
    BY DEF Frame, Frames
  <2>4. QueueTypes'
    BY <1>1, <2>3 DEF WireTypes, QueueTypes
  <2> QED
    BY <2>1, <2>2, <2>4 DEF WireTypes
<1>3. /\ call'[c] \in {0, 1} /\ session'[c] = k /\ serving'[k]
      /\ \A d \in Callers : d # c => session'[d] = session[d] /\ call'[d] = call[d]
  BY <1>1 DEF WireInv, WireTypes, CallerTypes, CountTypes, Aligned
<1>4. \A j \in Conns : j # k => /\ sent'[j] = sent[j] /\ late'[j] = late[j]
                               /\ toServer'[j] = toServer[j] /\ pending'[j] = pending[j]
                               /\ toClient'[j] = toClient[j] /\ serving'[j] = serving[j]
  BY <1>1 DEF WireTypes, CountTypes, QueueTypes
<1>5. InOrder(k)' /\ Aligned(c)'
  <2>1. /\ session'[c] = k /\ serving'[k] /\ late'[k] = 0 /\ sent[k] = 0
        /\ pending'[k] = <<>> /\ toClient'[k] = <<>> /\ toServer[k] = <<>>
        /\ call[c] = 0 /\ k # 0
    BY <1>1, <1>3 DEF Fresh, WireInv, Aligned
  <2>2. CASE UNCHANGED <<call, sent, toServer>>
    <3>1. Len(toServer'[k]) = 0 /\ Len(pending'[k]) = 0 /\ Len(toClient'[k]) = 0
          /\ sent'[k] = 0 /\ call'[c] = 0
      BY <2>1, <2>2
    <3>2. Flight(k)' = 0
      BY <3>1 DEF Flight
    <3>3. InOrder(k)'
      BY <3>1, <3>2 DEF InOrder, Run
    <3>4. Aligned(c)'
      BY <2>1, <3>1, <3>2 DEF Aligned, Run, Busy
    <3> QED
      BY <3>3, <3>4
  <2>3. ASSUME NEW request \in RpcRequests, call' = [call EXCEPT ![c] = 1],
               sent' = [sent EXCEPT ![k] = 1],
               toServer' = [toServer EXCEPT ![k] = <<Frame(1, request)>>]
        PROVE  InOrder(k)' /\ Aligned(c)'
    <3>1. toServer'[k] = <<Frame(1, request)>> /\ sent'[k] = 1 /\ call'[c] = 1
      BY <1>1, <2>3 DEF WireTypes, CallerTypes, CountTypes, QueueTypes
    <3>2. Len(toServer'[k]) = 1 /\ Len(pending'[k]) = 0 /\ Len(toClient'[k]) = 0
          /\ toServer'[k][1].serial = 1
      BY <2>1, <3>1 DEF Frame
    <3>3. Flight(k)' = 1
      BY <3>2 DEF Flight
    <3>4. InOrder(k)'
      BY <3>1, <3>2, <3>3 DEF InOrder, Run
    <3>5. Aligned(c)'
      BY <2>1, <3>1, <3>2, <3>3 DEF Aligned, Run, Busy
    <3> QED
      BY <3>4, <3>5
  <2> QED
    BY <2>2, <2>3
<1>6. ASSUME NEW j \in Conns, serving'[j] PROVE InOrder(j)'
  BY <1>4, <1>5, <1>6, SameConnection DEF WireInv
<1>7. ASSUME NEW d \in Callers, d # c PROVE Aligned(d)'
  <2>1. session[d] # k
    BY <1>1, SessionConn
  <2>2. \A j \in Conns : j # k => Flight(j)' = Flight(j)
    BY <1>4 DEF Flight
  <2>3. Aligned(d) /\ session'[d] = session[d] /\ call'[d] = call[d]
    BY <1>3, <1>7 DEF WireInv
  <2> QED
    BY <1>1, <1>4, <2>1, <2>2, <2>3, SameCaller
<1>8. \A d \in Callers : session[d] # k
  BY <1>1, SessionConn
<1>9. \A d, e \in Callers : session'[d] = session'[e] /\ session'[d] # 0 => d = e
  BY <1>3, <1>8 DEF WireInv
<1>10. ASSUME NEW j \in Conns, j > opened' PROVE Fresh(j)'
  <2>1. j # k /\ j > opened
    BY <1>1, <1>10 DEF Conns
  <2> QED
    BY <1>4, <2>1 DEF WireInv, Fresh
<1> QED
  BY <1>2, <1>5, <1>6, <1>7, <1>9, <1>10 DEF WireInv, AnswersLagByTimeouts

\* A caller closes its session, or gives up its call with the session.
LEMMA CloseInv ==
  ASSUME WireInv, NEW c \in Callers, session' = [session EXCEPT ![c] = 0],
         call'[c] = 0, call' \in [Callers -> Nat],
         \A d \in Callers : d # c => call'[d] = call[d],
         UNCHANGED <<opened, late, got, sent, netVars>>
  PROVE  WireInv'
<1>1. WireTypes /\ WireTypes'
  <2>1. CallerTypes'
    <3>1. opened \in Nat /\ opened' = opened /\ CallerTypes
      BY DaemonAssumption DEF WireInv, WireTypes, CallerTypes
    <3> QED
      BY <3>1 DEF CallerTypes
  <2>2. GotTypes' /\ CountTypes' /\ QueueTypes'
    BY DEF WireInv, WireTypes, GotTypes, CountTypes, QueueTypes, netVars
  <2> QED
    BY <2>1, <2>2 DEF WireInv, WireTypes
<1>2. /\ session'[c] = 0
      /\ \A d \in Callers : d # c => session'[d] = session[d]
  BY <1>1 DEF WireTypes, CallerTypes
<1>3. ASSUME NEW j \in Conns, serving'[j] PROVE InOrder(j)'
  BY <1>3, SameConnection DEF WireInv, netVars
<1>4. ASSUME NEW d \in Callers PROVE Aligned(d)'
  <2>1. CASE d = c
    BY <1>2, <2>1 DEF Aligned
  <2>2. CASE d # c
    <3>1. Aligned(d) /\ session'[d] = session[d] /\ call'[d] = call[d]
      BY <1>2, <2>2 DEF WireInv
    <3>2. \A j \in Conns : Flight(j)' = Flight(j)
      BY DEF Flight, netVars
    <3> QED
      BY <1>1, <3>1, <3>2, SameCaller DEF netVars
  <2> QED
    BY <2>1, <2>2
<1> QED
  BY <1>1, <1>2, <1>3, <1>4 DEF WireInv, AnswersLagByTimeouts, Fresh, netVars

LEMMA SendInv ==
  ASSUME WireInv, NEW c \in Callers, NEW request \in Requests, Send(c, request)
  PROVE  WireInv'
<1>1. WireTypes
  BY DEF WireInv
<1>2. PICK k \in Conns : k = session[c] /\ k # 0
  BY <1>1, SessionConn DEF Send
<1>3. /\ call[c] = 0 /\ call' = [call EXCEPT ![c] = sent[k] + 1]
      /\ sent' = [sent EXCEPT ![k] = @ + 1]
      /\ toServer' = IF serving[k]
                        THEN [toServer EXCEPT ![k] = Append(@, Frame(sent[k] + 1, request))]
                        ELSE toServer
      /\ UNCHANGED <<opened, session, late, got, pending, toClient, serving>>
  BY <1>2 DEF Send
<1>4. sent[k] \in Nat /\ late[k] \in Nat
  BY <1>1, WireNumbers
<1>len. PICK x \in Nat, y \in Nat, z \in Nat :
        /\ Len(toClient[k]) = x /\ Len(pending[k]) = y /\ Len(toServer[k]) = z
        /\ toServer[k] \in Seq(Frames)
  BY <1>1, WireNumbers
<1>5. Frame(sent[k] + 1, request) \in Frames /\ Frame(sent[k] + 1, request).serial = sent[k] + 1
  BY <1>4 DEF Frame, Frames
<1>6. WireTypes'
  <2>1. CallerTypes'
    BY <1>1, <1>3, <1>4 DEF WireTypes, CallerTypes
  <2>2. GotTypes' /\ CountTypes'
    BY <1>1, <1>3, <1>4 DEF WireTypes, GotTypes, CountTypes
  <2>3. Append(toServer[k], Frame(sent[k] + 1, request)) \in Seq(Frames)
    BY <1>len, <1>5
  <2>4. QueueTypes'
    BY <1>1, <1>3, <2>3 DEF WireTypes, QueueTypes
  <2> QED
    BY <2>1, <2>2, <2>4 DEF WireTypes
<1>7. /\ sent'[k] = sent[k] + 1 /\ call'[c] = sent[k] + 1
      /\ \A j \in Conns : j # k => sent'[j] = sent[j] /\ toServer'[j] = toServer[j]
      /\ \A d \in Callers : d # c => call'[d] = call[d] /\ session[d] # k
  BY <1>1, <1>2, <1>3 DEF WireInv, WireTypes, CallerTypes, CountTypes, QueueTypes
<1>8. ASSUME serving[k] PROVE InOrder(k)' /\ Flight(k)' = Flight(k) + 1
  <2>1. InOrder(k)
    BY <1>8 DEF WireInv
  <2>2. toServer'[k] = Append(toServer[k], Frame(sent[k] + 1, request))
    BY <1>1, <1>3, <1>8 DEF WireTypes, QueueTypes
  <2>4. Len(toServer'[k]) = z + 1 /\ Run(toServer'[k], sent[k] - z)
    <3>1. sent[k] - z \in Int /\ sent[k] + 1 = (sent[k] - z) + z + 1
      BY <1>4
    <3>2. Run(toServer[k], sent[k] - z)
      BY <2>1, <1>len DEF InOrder
    <3>3. Frame(sent[k] + 1, request).serial = (sent[k] - z) + Len(toServer[k]) + 1
      BY <1>5, <1>len, <3>1
    <3>4. Len(Append(toServer[k], Frame(sent[k] + 1, request))) = Len(toServer[k]) + 1
          /\ Run(Append(toServer[k], Frame(sent[k] + 1, request)), sent[k] - z)
      BY <1>len, <1>5, <3>1, <3>2, <3>3, RunAppend
    <3> QED
      BY <1>len, <2>2, <3>4
  <2>5. /\ Flight(k) = x + y + z /\ Flight(k)' = x + y + (z + 1)
        /\ pending'[k] = pending[k] /\ toClient'[k] = toClient[k]
    BY <1>3, <1>len, <2>4 DEF Flight
  <2>6. InOrder(k)'
    <3>1. /\ Run(toClient[k], sent[k] - (x + y + z)) /\ Run(pending[k], sent[k] - z - y)
      BY <2>1, <1>len, <2>5 DEF InOrder
    <3>2. /\ sent'[k] - (x + y + (z + 1)) = sent[k] - (x + y + z)
          /\ sent'[k] - (z + 1) - y = sent[k] - z - y /\ sent'[k] - (z + 1) = sent[k] - z
      BY <1>4, <1>7
    <3> QED
      BY <1>len, <2>4, <2>5, <3>1, <3>2 DEF InOrder
  <2> QED
    BY <2>5, <2>6
<1>9. ASSUME NEW j \in Conns, serving'[j] PROVE InOrder(j)'
  BY <1>3, <1>7, <1>8, <1>9, SameConnection DEF WireInv
<1>10. Aligned(c)'
  <2>1. /\ serving[k] => Flight(k) = late[k]
        /\ Run(toClient[k], sent[k] - late[k])
    BY <1>2, <1>3, <1>4 DEF WireInv, Aligned, Busy
  <2>2. Busy(c)' = 1 /\ sent'[k] - late[k] - 1 = sent[k] - late[k]
    BY <1>4, <1>7 DEF Busy
  <2>3. Len(toClient'[k]) <= late'[k] + 1
    <3>1. x <= late[k] + 0
      BY <1>2, <1>3, <1>len DEF WireInv, Aligned, Busy
    <3>2. x <= late[k] + 1
      BY <1>4, <3>1
    <3> QED
      BY <1>3, <1>len, <3>2
  <2> QED
    BY <1>2, <1>3, <1>4, <1>7, <1>8, <2>1, <2>2, <2>3 DEF Aligned, Run
<1>11. ASSUME NEW d \in Callers, d # c PROVE Aligned(d)'
  <2>1. Aligned(d) /\ session'[d] = session[d] /\ call'[d] = call[d] /\ session[d] # k
    BY <1>3, <1>7, <1>11 DEF WireInv
  <2>2. \A j \in Conns : j # k => Flight(j)' = Flight(j)
    BY <1>3, <1>7 DEF Flight
  <2> QED
    BY <1>1, <1>3, <1>7, <2>1, <2>2, SameCaller
<1>12. \A j \in Conns : j > opened' => Fresh(j)'
  <2>1. k <= opened /\ opened \in Nat
    BY <1>1, <1>2, SessionConn DEF WireTypes, CallerTypes
  <2> QED
    BY <1>3, <1>7, <2>1 DEF WireInv, Fresh, Conns
<1> QED
  BY <1>3, <1>6, <1>9, <1>10, <1>11, <1>12 DEF WireInv, AnswersLagByTimeouts

\* A caller reads the first response of its session, and keeps the session or
\* closes it.
LEMMA ReadInv ==
  ASSUME WireInv, NEW c \in Callers, NEW k \in Conns, k = session[c],
         call[c] # 0, toClient[k] # <<>>,
         got' = [got EXCEPT ![c] = [asked    |-> call[c],
                                    answered |-> Head(toClient[k]).serial,
                                    late     |-> late[k]]],
         toClient' = [toClient EXCEPT ![k] = Tail(@)],
         call' = [call EXCEPT ![c] = 0],
         session' \in {session, [session EXCEPT ![c] = 0]},
         UNCHANGED <<opened, late, sent, toServer, pending, serving>>
  PROVE  WireInv'
<1>1. WireTypes /\ session[c] # 0
  BY DEF WireInv, Aligned
<1>2. sent[k] \in Nat /\ late[k] \in Nat /\ call[c] = sent[k]
  BY <1>1, WireNumbers DEF WireInv, Aligned
<1>3. PICK x \in Nat, y \in Nat, z \in Nat :
        /\ Len(toClient[k]) = x /\ Len(pending[k]) = y /\ Len(toServer[k]) = z
        /\ toClient[k] \in Seq(Responses)
  BY <1>1, WireNumbers
<1>4. Run(toClient[k], sent[k] - late[k] - 1)
  BY <1>1 DEF WireInv, Aligned, Busy
<1>5. /\ Head(toClient[k]) \in Responses /\ Head(toClient[k]).serial = sent[k] - late[k]
      /\ Tail(toClient[k]) \in Seq(Responses) /\ Len(Tail(toClient[k])) = x - 1
      /\ Run(Tail(toClient[k]), sent[k] - late[k])
  <2>1. sent[k] - late[k] - 1 \in Int /\ (sent[k] - late[k] - 1) + 1 = sent[k] - late[k]
    BY <1>2
  <2> QED
    BY <1>3, <1>4, <2>1, RunTail
<1>6. /\ \A d \in Callers : d # c => /\ session'[d] = session[d] /\ call'[d] = call[d]
                                    /\ session[d] # k
      /\ session'[c] \in {0, k} /\ call'[c] = 0
  BY <1>1 DEF WireInv, WireTypes, CallerTypes
<1>7. toClient'[k] = Tail(toClient[k]) /\ \A j \in Conns : j # k => toClient'[j] = toClient[j]
  BY <1>1 DEF WireTypes, QueueTypes
<1>8. WireTypes'
  <2>1. CallerTypes'
    <3>1. opened \in Nat /\ 0 \in 0..opened /\ CallerTypes
      BY <1>1, DaemonAssumption DEF WireTypes, CallerTypes
    <3>2. [session EXCEPT ![c] = 0] \in [Callers -> 0..opened]
      BY <3>1 DEF CallerTypes
    <3>3. session' \in [Callers -> 0..opened] /\ call' \in [Callers -> Nat]
      BY <3>1, <3>2 DEF CallerTypes
    <3> QED
      BY <3>1, <3>3 DEF CallerTypes
  <2>2. GotTypes'
    <3>1. Head(toClient[k]).serial \in Nat
      BY <1>5 DEF Responses
    <3> QED
      BY <1>1, <1>2, <3>1 DEF WireTypes, GotTypes
  <2>3. CountTypes' /\ QueueTypes'
    BY <1>1, <1>5 DEF WireTypes, CountTypes, QueueTypes
  <2> QED
    BY <2>1, <2>2, <2>3 DEF WireTypes
<1>9. AnswersLagByTimeouts'
  <2>1. \A d \in Callers : d # c => got'[d] = got[d]
    BY <1>1 DEF WireTypes, GotTypes
  <2>2. got'[c].asked = sent[k] /\ got'[c].answered = sent[k] - late[k] /\ got'[c].late = late[k]
    BY <1>1, <1>2, <1>5 DEF WireTypes, GotTypes
  <2>3. got'[c].asked - got'[c].answered = got'[c].late
    BY <1>2, <2>2
  <2> QED
    BY <2>1, <2>3 DEF WireInv, AnswersLagByTimeouts
<1>10. Flight(k) = x + y + z /\ Flight(k)' = (x - 1) + y + z
  BY <1>3, <1>5, <1>7 DEF Flight
<1>11. ASSUME NEW j \in Conns, serving'[j] PROVE InOrder(j)'
  <2>1. InOrder(j)
    BY <1>11 DEF WireInv
  <2>2. CASE j = k
    <3>1. Run(toClient[k], sent[k] - (x + y + z))
      BY <1>10, <2>1, <2>2 DEF InOrder
    <3>2. Run(Tail(toClient[k]), sent[k] - (x + y + z) + 1)
      <4>1. sent[k] - (x + y + z) \in Int
        BY <1>2
      <4> QED
        BY <1>3, <3>1, <4>1, RunTail
    <3>3. sent[k] - (x + y + z) + 1 = sent[k] - ((x - 1) + y + z)
      BY <1>2
    <3>4. Run(toClient'[k], sent[k] - Flight(k)')
      BY <1>7, <1>10, <3>2, <3>3
    <3> QED
      BY <2>1, <2>2, <3>4 DEF InOrder
  <2>3. CASE j # k
    BY <1>7, <2>1, <2>3, SameConnection
  <2> QED
    BY <2>2, <2>3
<1>12. Aligned(c)'
  <2>1. CASE session'[c] = 0
    BY <1>6, <2>1 DEF Aligned
  <2>2. CASE session'[c] = k
    <3>1. serving[k] => x + y + z = late[k] + 1
      BY <1>1, <1>10 DEF WireInv, Aligned, Busy
    <3>2. serving[k] => (x - 1) + y + z = late[k] + 0
      BY <1>2, <3>1
    <3>3. sent[k] - late[k] - 0 = sent[k] - late[k]
      BY <1>2
    <3>4. x - 1 <= late[k] + 0
      <4>1. x <= late[k] + 1
        BY <1>1, <1>3 DEF WireInv, Aligned, Busy
      <4> QED
        BY <1>2, <4>1
    <3>5. Len(toClient'[k]) <= late[k] + 0
      BY <1>5, <1>7, <3>4
    <3> QED
      BY <1>1, <1>5, <1>6, <1>7, <1>10, <2>2, <3>2, <3>3, <3>5 DEF Aligned, Busy
  <2> QED
    BY <1>6, <2>1, <2>2
<1>13. ASSUME NEW d \in Callers, d # c PROVE Aligned(d)'
  <2>1. Aligned(d) /\ session'[d] = session[d] /\ call'[d] = call[d] /\ session[d] # k
    BY <1>6, <1>13 DEF WireInv
  <2>2. \A j \in Conns : j # k => Flight(j)' = Flight(j)
    BY <1>7 DEF Flight
  <2> QED
    BY <1>1, <1>7, <2>1, <2>2, SameCaller
<1>14. \A d, e \in Callers : session'[d] = session'[e] /\ session'[d] # 0 => d = e
  BY <1>6 DEF WireInv
<1>15. \A j \in Conns : j > opened' => Fresh(j)'
  <2>1. k <= opened /\ opened \in Nat
    BY <1>1, SessionConn DEF WireTypes, CallerTypes
  <2> QED
    BY <1>7, <2>1 DEF WireInv, Fresh, Conns
<1> QED
  BY <1>8, <1>9, <1>11, <1>12, <1>13, <1>14, <1>15 DEF WireInv

\* A client that is out of step loses answers with its call.
LEMMA MisreadInv ==
  ASSUME WireInv, NEW c \in Callers, Misread(c)
  PROVE  WireInv'
<1>1. WireTypes /\ session[c] # 0
  BY DEF WireInv, Aligned, Misread
<1>2. PICK k \in Conns : k = session[c]
  BY <1>1, SessionConn
<1>3. PICK n \in 0..Len(toClient[k]) :
        /\ toClient' = [toClient EXCEPT ![k] = SubSeq(@, n + 1, Len(@))]
        /\ late' = [late EXCEPT ![k] = @ + 1 - n]
  BY <1>2 DEF Misread
<1>4. /\ call[c] # 0 /\ call' = [call EXCEPT ![c] = 0]
      /\ UNCHANGED <<opened, session, got, sent, toServer, pending, serving>>
  BY DEF Misread
<1>5. sent[k] \in Nat /\ late[k] \in Nat
  BY <1>1, WireNumbers
<1>6. PICK x \in Nat, y \in Nat, z \in Nat :
        /\ Len(toClient[k]) = x /\ Len(pending[k]) = y /\ Len(toServer[k]) = z
        /\ toClient[k] \in Seq(Responses)
  BY <1>1, WireNumbers
<1>7. /\ call[c] = sent[k] /\ x <= late[k] + 1
      /\ serving[k] => Flight(k) = late[k] + 1
      /\ Run(toClient[k], sent[k] - late[k] - 1)
  BY <1>1, <1>2, <1>4, <1>6 DEF WireInv, Aligned, Busy
<1>8. PICK rest : rest = SubSeq(toClient[k], n + 1, Len(toClient[k]))
  OBVIOUS
<1>9. n \in Nat /\ n <= x
  BY <1>3, <1>6
<1>10. PICK l \in Nat : l = late[k] + 1 - n
  BY <1>5, <1>7, <1>9
<1>11. /\ rest \in Seq(Responses) /\ Len(rest) = x - n
       /\ Run(rest, sent[k] - l)
  <2>1. sent[k] - late[k] - 1 \in Int /\ sent[k] - late[k] - 1 + n = sent[k] - l
    BY <1>5, <1>9, <1>10
  <2> QED
    BY <1>3, <1>6, <1>7, <1>8, <2>1, RunDrop
<1>12. /\ toClient'[k] = rest /\ late'[k] = l /\ call'[c] = 0
       /\ \A j \in Conns : j # k => toClient'[j] = toClient[j] /\ late'[j] = late[j]
       /\ \A d \in Callers : d # c => call'[d] = call[d] /\ session[d] # k
  BY <1>1, <1>2, <1>3, <1>4, <1>8, <1>10
     DEF WireInv, WireTypes, CallerTypes, CountTypes, QueueTypes
<1>13. WireTypes'
  <2>1. CallerTypes' /\ GotTypes'
    BY <1>1, <1>4 DEF WireTypes, CallerTypes, GotTypes
  <2>2. CountTypes'
    BY <1>1, <1>3, <1>4, <1>10 DEF WireTypes, CountTypes
  <2>3. QueueTypes'
    BY <1>1, <1>3, <1>4, <1>8, <1>11 DEF WireTypes, QueueTypes
  <2> QED
    BY <2>1, <2>2, <2>3 DEF WireTypes
<1>14. Flight(k) = x + y + z /\ Flight(k)' = (x - n) + y + z
  BY <1>4, <1>6, <1>11, <1>12 DEF Flight
<1>15. ASSUME NEW j \in Conns, serving'[j] PROVE InOrder(j)'
  <2>1. InOrder(j)
    BY <1>4, <1>15 DEF WireInv
  <2>2. CASE j = k
    <3>1. x + y + z = late[k] + 1
      BY <1>4, <1>7, <1>14, <1>15, <2>2
    <3>2. sent[k] - l = sent[k] - ((x - n) + y + z)
      <4>1. PICK m \in Nat, b \in Nat : m = n /\ b = late[k]
        BY <1>5, <1>9
      <4>2. l = b + 1 - m /\ x + y + z = b + 1
        BY <1>10, <3>1, <4>1
      <4>3. l = (x - m) + y + z
        BY <4>1, <4>2
      <4> QED
        BY <4>1, <4>3
    <3>3. Run(toClient'[k], sent'[k] - Flight(k)')
      BY <1>4, <1>11, <1>12, <1>14, <3>2
    <3> QED
      BY <1>4, <2>1, <2>2, <3>3 DEF InOrder
  <2>3. CASE j # k
    BY <1>4, <1>12, <2>1, <2>3, SameConnection
  <2> QED
    BY <2>2, <2>3
<1>16. Aligned(c)'
  <2>1. Busy(c)' = 0
    BY <1>12 DEF Busy
  <2>2. serving[k] => (x - n) + y + z = l + 0
    <3>1. serving[k] => x + y + z = late[k] + 1
      BY <1>7, <1>14
    <3> QED
      BY <1>5, <1>9, <1>10, <3>1
  <2>3. sent[k] - l - 0 = sent[k] - l /\ x - n <= l + 0
    BY <1>5, <1>7, <1>9, <1>10
  <2>4. /\ session'[c] = k /\ serving'[k] = serving[k] /\ sent'[k] = sent[k]
        /\ Len(toClient'[k]) = x - n /\ Run(toClient'[k], sent[k] - l)
    BY <1>2, <1>4, <1>11, <1>12
  <2> QED
    BY <1>1, <1>2, <1>12, <1>14, <2>1, <2>2, <2>3, <2>4 DEF Aligned
<1>17. ASSUME NEW d \in Callers, d # c PROVE Aligned(d)'
  <2>1. Aligned(d) /\ session'[d] = session[d] /\ call'[d] = call[d] /\ session[d] # k
    BY <1>4, <1>12, <1>17 DEF WireInv
  <2>2. \A j \in Conns : j # k => Flight(j)' = Flight(j)
    BY <1>4, <1>12 DEF Flight
  <2> QED
    BY <1>1, <1>4, <1>12, <2>1, <2>2, SameCaller
<1>18. \A j \in Conns : j > opened' => Fresh(j)'
  <2>1. k <= opened /\ opened \in Nat
    BY <1>1, <1>2, SessionConn DEF WireTypes, CallerTypes
  <2> QED
    BY <1>4, <1>12, <2>1 DEF WireInv, Fresh, Conns
<1> QED
  BY <1>4, <1>13, <1>15, <1>16, <1>17, <1>18 DEF WireInv, AnswersLagByTimeouts

\* A call ends without an answer, and the session stays.
LEMMA FailInv ==
  ASSUME WireInv, NEW c \in Callers, Timeout(c) \/ ConnectionClosed(c)
  PROVE  WireInv'
<1>1. WireTypes /\ session[c] # 0
  BY DEF WireInv, Aligned, Timeout, ConnectionClosed
<1>2. PICK k \in Conns : k = session[c]
  BY <1>1, SessionConn
<1>3. /\ call[c] # 0 /\ toClient[k] = <<>> /\ call' = [call EXCEPT ![c] = 0]
      /\ \/ serving[k] /\ late' = [late EXCEPT ![k] = @ + 1]
         \/ ~serving[k] /\ late' = late
      /\ UNCHANGED <<opened, session, got, sent, netVars>>
  BY <1>2 DEF Timeout, ConnectionClosed
<1>4. sent[k] \in Nat /\ late[k] \in Nat
  BY <1>1, WireNumbers
<1>5. WireTypes'
  <2>1. CallerTypes'
    BY <1>1, <1>3 DEF WireTypes, CallerTypes
  <2>2. GotTypes' /\ CountTypes' /\ QueueTypes'
    <3>1. late' \in [Conns -> Nat]
      BY <1>1, <1>3, <1>4 DEF WireTypes, CountTypes
    <3> QED
      BY <1>1, <1>3, <3>1 DEF WireTypes, GotTypes, CountTypes, QueueTypes, netVars
  <2> QED
    BY <2>1, <2>2 DEF WireTypes
<1>6. /\ call'[c] = 0 /\ (serving[k] => late'[k] = late[k] + 1)
      /\ \A j \in Conns : j # k => late'[j] = late[j]
      /\ \A d \in Callers : d # c => call'[d] = call[d] /\ session[d] # k
  BY <1>1, <1>2, <1>3 DEF WireInv, WireTypes, CallerTypes, CountTypes
<1>7. \A j \in Conns : Flight(j)' = Flight(j)
  BY <1>3 DEF Flight, netVars
<1>8. ASSUME NEW j \in Conns, serving'[j] PROVE InOrder(j)'
  BY <1>3, <1>8, SameConnection DEF WireInv, netVars
<1>9. Aligned(c)'
  <2>1. serving[k] => Flight(k) = late[k] + 1
    BY <1>1, <1>2, <1>3 DEF WireInv, Aligned, Busy
  <2>2. Busy(c)' = 0 /\ serving'[k] = serving[k] /\ toClient'[k] = <<>>
    BY <1>3, <1>6 DEF Busy, netVars
  <2>3. serving[k] => Flight(k)' = late'[k] + Busy(c)'
    BY <1>4, <1>6, <1>7, <2>1, <2>2
  <2>4. Run(toClient'[k], sent'[k] - late'[k] - Busy(c)')
    BY <2>2 DEF Run
  <2>5. Len(toClient'[k]) <= late'[k] + Busy(c)'
    <3>1. late'[k] \in Nat
      BY <1>5, WireNumbers DEF WireTypes, CountTypes
    <3>2. Len(toClient'[k]) = 0
      BY <2>2
    <3> QED
      BY <2>2, <3>1, <3>2
  <2> QED
    BY <1>2, <1>3, <1>6, <2>2, <2>3, <2>4, <2>5 DEF Aligned
<1>10. ASSUME NEW d \in Callers, d # c PROVE Aligned(d)'
  <2>1. Aligned(d) /\ session'[d] = session[d] /\ call'[d] = call[d] /\ session[d] # k
    BY <1>3, <1>6, <1>10 DEF WireInv
  <2> QED
    BY <1>1, <1>3, <1>6, <1>7, <2>1, SameCaller DEF netVars
<1>11. \A j \in Conns : j > opened' => Fresh(j)'
  <2>1. k <= opened /\ opened \in Nat
    BY <1>1, <1>2, SessionConn DEF WireTypes, CallerTypes
  <2> QED
    BY <1>3, <1>6, <2>1 DEF WireInv, Fresh, Conns, netVars
<1> QED
  BY <1>3, <1>5, <1>8, <1>9, <1>10, <1>11 DEF WireInv, AnswersLagByTimeouts

-----------------------------------------------------------------------------
(* The steps of the daemon's threads.                                      *)

\* Threads end, one or all of them; what they had not read or written is lost.
LEMMA EndInv ==
  ASSUME WireInv, UNCHANGED <<opened, session, call, late, got, sent, toClient>>,
         serving' \in [Conns -> BOOLEAN],
         toServer' \in [Conns -> Seq(Frames)], pending' \in [Conns -> Seq(Responses)],
         \A j \in Conns :
           /\ serving'[j] => /\ serving[j] /\ toServer'[j] = toServer[j]
                             /\ pending'[j] = pending[j]
           /\ toServer'[j] \in {<<>>, toServer[j]} /\ pending'[j] \in {<<>>, pending[j]}
  PROVE  WireInv'
<1>1. WireTypes
  BY DEF WireInv
<1>2. WireTypes'
  <2>1. CallerTypes' /\ GotTypes' /\ CountTypes'
    BY <1>1 DEF WireTypes, CallerTypes, GotTypes, CountTypes
  <2>2. QueueTypes'
    BY <1>1 DEF WireTypes, QueueTypes
  <2> QED
    BY <2>1, <2>2 DEF WireTypes
<1>3. ASSUME NEW j \in Conns, serving'[j] PROVE InOrder(j)'
  BY <1>3, SameConnection DEF WireInv
<1>4. \A j \in Conns : serving'[j] => Flight(j)' = Flight(j)
  BY DEF Flight
<1>5. ASSUME NEW d \in Callers PROVE Aligned(d)'
  BY <1>1, <1>4, SameCaller DEF WireInv
<1>6. ASSUME NEW j \in Conns, j > opened' PROVE Fresh(j)'
  BY <1>6 DEF WireInv, Fresh
<1> QED
  BY <1>2, <1>3, <1>5, <1>6 DEF WireInv, AnswersLagByTimeouts

\* A response waits in place of the frame it answers.
LEMMA HandleInv ==
  ASSUME WireInv, NEW k \in Conns, serving[k], pending[k] = <<>>, toServer[k] # <<>>,
         toServer' = [toServer EXCEPT ![k] = Tail(@)],
         NEW body \in Bodies,
         pending' = [pending EXCEPT ![k] = Response(Head(toServer[k]).serial, body)],
         UNCHANGED <<opened, clientVars, toClient, serving>>
  PROVE  WireInv'
<1>1. WireTypes /\ InOrder(k)
  BY DEF WireInv
<1>2. sent[k] \in Nat
  BY <1>1, WireNumbers
<1>3. PICK x \in Nat, z \in Nat :
        /\ Len(toClient[k]) = x /\ Len(pending[k]) = 0 /\ Len(toServer[k]) = z
        /\ toServer[k] \in Seq(Frames)
  BY <1>1, WireNumbers
<1>4. /\ Head(toServer[k]) \in Frames /\ Head(toServer[k]).serial = sent[k] - z + 1
      /\ Tail(toServer[k]) \in Seq(Frames) /\ Len(Tail(toServer[k])) = z - 1
      /\ Run(Tail(toServer[k]), sent[k] - z + 1)
  <2>1. sent[k] - z \in Int /\ Run(toServer[k], sent[k] - z)
    BY <1>1, <1>2, <1>3 DEF InOrder
  <2> QED
    BY <1>3, <2>1, RunTail
<1>5. PICK r \in Responses :
        r.serial = sent[k] - z + 1 /\ Response(Head(toServer[k]).serial, body) = <<r>>
  <2>1. Head(toServer[k]).serial \in Nat
    BY <1>4 DEF Frames
  <2>2. [serial |-> Head(toServer[k]).serial, body |-> body] \in Responses
    BY <2>1 DEF Responses
  <2> QED
    BY <1>4, <2>2 DEF Response
<1>6. /\ toServer'[k] = Tail(toServer[k]) /\ pending'[k] = <<r>>
      /\ \A j \in Conns : j # k => toServer'[j] = toServer[j] /\ pending'[j] = pending[j]
  BY <1>1, <1>5 DEF WireTypes, QueueTypes
<1>7. Len(pending'[k]) = 1 /\ pending'[k][1] = r
  <2>1. Len(<<r>>) = 1 /\ <<r>>[1] = r /\ pending'[k] = <<r>>
    BY <1>6
  <2> QED
    BY ONLY <2>1
<1>8. WireTypes'
  <2>1. CallerTypes' /\ GotTypes' /\ CountTypes'
    BY <1>1 DEF WireTypes, CallerTypes, GotTypes, CountTypes, clientVars
  <2>3. <<r>> \in Seq(Responses)
    OBVIOUS
  <2>4. QueueTypes'
    BY <1>1, <1>4, <1>5, <2>3 DEF WireTypes, QueueTypes
  <2> QED
    BY <2>1, <2>4 DEF WireTypes
<1>9. Flight(k) = x + 0 + z /\ Flight(k)' = x + 1 + (z - 1)
  BY <1>3, <1>4, <1>6, <1>7 DEF Flight
<1>10. InOrder(k)'
  <2>1. Run(toClient[k], sent[k] - (x + 0 + z))
    BY <1>1, <1>9 DEF InOrder
  <2>2. /\ sent[k] - (x + 0 + z) = sent[k] - (x + 1 + (z - 1))
        /\ sent[k] - (z - 1) - 1 + 1 = sent[k] - z + 1 /\ sent[k] - (z - 1) = sent[k] - z + 1
    BY <1>2
  <2>3. Run(pending'[k], sent[k] - (z - 1) - 1)
    BY <1>5, <1>7, <2>2 DEF Run
  <2>4. /\ sent'[k] = sent[k] /\ toClient'[k] = toClient[k]
        /\ Len(toServer'[k]) = z - 1 /\ Len(pending'[k]) = 1
    BY <1>4, <1>6, <1>7 DEF clientVars
  <2>5. Run(toClient'[k], sent'[k] - Flight(k)')
    BY <1>9, <2>1, <2>2, <2>4
  <2>6. Run(toServer'[k], sent'[k] - Len(toServer'[k]))
    BY <1>4, <1>6, <2>2, <2>4
  <2>7. Run(pending'[k], sent'[k] - Len(toServer'[k]) - Len(pending'[k]))
    BY <2>3, <2>4
  <2> QED
    BY <2>5, <2>6, <2>7 DEF InOrder
<1>11. ASSUME NEW j \in Conns, serving'[j] PROVE InOrder(j)'
  BY <1>6, <1>10, <1>11, SameConnection DEF WireInv, clientVars
<1>12. \A j \in Conns : Flight(j)' = Flight(j)
  <2>1. Flight(k)' = Flight(k)
    BY <1>9
  <2> QED
    BY <1>6, <2>1 DEF Flight
<1>13. ASSUME NEW d \in Callers PROVE Aligned(d)'
  BY <1>1, <1>12, SameCaller DEF WireInv, clientVars
<1>14. ASSUME NEW j \in Conns, j > opened' PROVE Fresh(j)'
  <2>1. j # k
    BY <1>14 DEF WireInv, Fresh
  <2> QED
    BY <1>6, <1>14, <2>1 DEF WireInv, Fresh, clientVars
<1> QED
  BY <1>8, <1>11, <1>13, <1>14 DEF WireInv, AnswersLagByTimeouts, clientVars

LEMMA WriteReplyInv ==
  ASSUME WireInv, NEW k \in Conns, WriteReply(k)
  PROVE  WireInv'
<1>1. WireTypes /\ InOrder(k)
  BY DEF WireInv, WriteReply
<1>2. sent[k] \in Nat
  BY <1>1, WireNumbers
<1>3. PICK x \in Nat, y \in Nat, z \in Nat :
        /\ Len(toClient[k]) = x /\ Len(pending[k]) = y /\ Len(toServer[k]) = z
        /\ toClient[k] \in Seq(Responses) /\ pending[k] \in Seq(Responses)
  BY <1>1, WireNumbers
<1>4. Flight(k) = x + y + z
  BY <1>3 DEF Flight
<1>5. /\ toClient[k] \o pending[k] \in Seq(Responses)
      /\ Len(toClient[k] \o pending[k]) = x + y
      /\ Run(toClient[k] \o pending[k], sent[k] - (x + y + z))
  <2>1. Run(toClient[k], sent[k] - (x + y + z)) /\ Run(pending[k], sent[k] - z - y)
    BY <1>1, <1>3, <1>4 DEF InOrder
  <2>2. /\ sent[k] - (x + y + z) \in Int
        /\ sent[k] - z - y = sent[k] - (x + y + z) + x
    BY <1>2
  <2>3. Run(pending[k], sent[k] - (x + y + z) + Len(toClient[k]))
    BY <1>3, <2>1, <2>2
  <2> QED
    BY <1>3, <2>1, <2>2, <2>3, RunConcat
<1>6. /\ toClient'[k] = toClient[k] \o pending[k] /\ pending'[k] = <<>>
      /\ \A j \in Conns : j # k => toClient'[j] = toClient[j] /\ pending'[j] = pending[j]
      /\ serving[k] /\ UNCHANGED <<opened, clientVars, toServer, serving>>
  BY <1>1 DEF WriteReply, WireTypes, QueueTypes
<1>7. WireTypes'
  <2>1. CallerTypes' /\ GotTypes' /\ CountTypes'
    BY <1>1, <1>6 DEF WireTypes, CallerTypes, GotTypes, CountTypes, clientVars
  <2>4. QueueTypes'
    BY <1>1, <1>5 DEF WireTypes, QueueTypes, WriteReply
  <2> QED
    BY <2>1, <2>4 DEF WireTypes
<1>8. Len(pending'[k]) = 0 /\ Flight(k)' = x + y + 0 + z
  <2>1. Len(toClient'[k]) = x + y /\ Len(pending'[k]) = 0 /\ Len(toServer'[k]) = z
    BY <1>3, <1>5, <1>6
  <2> QED
    BY <2>1 DEF Flight
<1>9. InOrder(k)'
  <2>1. Run(pending'[k], sent'[k] - Len(toServer'[k]) - Len(pending'[k]))
    BY <1>8 DEF Run
  <2>2. sent[k] - (x + y + z) = sent[k] - (x + y + 0 + z)
    BY <1>2
  <2>3. Run(toClient'[k], sent'[k] - Flight(k)')
    BY <1>5, <1>6, <1>8, <2>2 DEF clientVars
  <2> QED
    BY <1>1, <1>6, <2>1, <2>3 DEF InOrder, clientVars
<1>10. ASSUME NEW j \in Conns, serving'[j] PROVE InOrder(j)'
  BY <1>6, <1>9, <1>10, SameConnection DEF WireInv, clientVars
<1>11. ASSUME NEW d \in Callers PROVE Aligned(d)'
  <2>1. Aligned(d)
    BY DEF WireInv
  <2>2. CASE session[d] # k
    <3>1. \A j \in Conns : j # k => Flight(j)' = Flight(j)
      BY <1>6 DEF Flight
    <3> QED
      BY <1>1, <1>6, <2>1, <2>2, <3>1, SameCaller DEF clientVars
  <2>3. CASE session[d] = k
    <3>1. /\ k # 0 /\ call[d] \in {0, sent[k]}
          /\ x + y + z = late[k] + Busy(d)
      BY <1>4, <1>6, <2>1, <2>3 DEF Aligned, Conns
    <3>2. Busy(d) \in {0, 1} /\ Busy(d)' = Busy(d) /\ late[k] \in Nat
      BY <1>1, <1>6, WireNumbers DEF Busy, clientVars
    <3>3. sent[k] - (x + y + z) = sent[k] - late[k] - Busy(d)
          /\ x + y + 0 + z = late[k] + Busy(d)
      BY <1>2, <3>1, <3>2
    <3>4. Run(toClient'[k], sent[k] - late[k] - Busy(d))
      BY <1>5, <1>6, <3>3
    <3>5. Len(toClient'[k]) <= late[k] + Busy(d)
      <4>1. x + y <= late[k] + Busy(d)
        BY <3>1, <3>2
      <4> QED
        BY <1>5, <1>6, <4>1
    <3> QED
      BY <1>6, <1>8, <2>3, <3>1, <3>2, <3>3, <3>4, <3>5 DEF Aligned, clientVars
  <2> QED
    BY <2>2, <2>3
<1>12. ASSUME NEW j \in Conns, j > opened' PROVE Fresh(j)'
  <2>1. j # k
    BY <1>6, <1>12 DEF WireInv, Fresh
  <2> QED
    BY <1>6, <1>12, <2>1 DEF WireInv, Fresh, clientVars
<1> QED
  BY <1>6, <1>7, <1>10, <1>11, <1>12 DEF WireInv, AnswersLagByTimeouts, clientVars

-----------------------------------------------------------------------------
(* The kernel behind the daemon.                                           *)

\* Whatever a connection does to the kernel, it does through a call of it.
LEMMA RequestIsCall ==
  ASSUME KernelTypeOK, NEW request \in Requests \cup RpcRequests, NEW n, NEW k \in Conns,
         HandleRequest(request, n, k)
  PROVE  /\ [KernelNext]_kernelVars
         /\ \E body \in Bodies : pending' = [pending EXCEPT ![k] = Response(n, body)]
<1>1. request \in RequestType
  BY DaemonAssumption DEF RpcType
<1>2. CASE /\ request.op = "EvaluateProposal"
           /\ ProcessProposal(request.portfolio, request.proposal)
           /\ pending' = [pending EXCEPT ![k] =
                Response(n, [tag |-> "verdict", verdict |-> reply'.verdict,
                             system_state |-> state'])]
  <2>1. request.portfolio \in Portfolios /\ request.proposal \in Proposals
    BY <1>1, <1>2 DEF RequestType, FrameErrors
  <2>2. KernelNext
    BY <1>2, <2>1 DEF KernelNext
  <2>3. KernelTypeOK'
    BY <2>2, KernelTypeStep
  <2>4. reply'.op = "process_proposal"
    BY <1>2 DEF ProcessProposal, RefuseWhileHalted, EnterEmergency, RejectProposal,
                ApproveProposal, Answered
  <2>5. reply'.verdict \in Verdicts /\ state' \in OperationalStates
    BY <2>3, <2>4 DEF KernelTypeOK, Replies
  <2>6. [tag |-> "verdict", verdict |-> reply'.verdict, system_state |-> state'] \in Bodies
    BY <2>5 DEF Bodies
  <2> QED
    BY <1>2, <2>2, <2>6
<1>3. CASE /\ request.op = "AttemptRecovery"
           /\ AttemptRecovery(request.valid)
           /\ pending' = [pending EXCEPT ![k] =
                Response(n, [tag |-> "recovery", success |-> reply'.success])]
  <2>1. request.valid \in BOOLEAN
    BY <1>1, <1>3 DEF RequestType, FrameErrors
  <2>2. KernelNext
    BY <1>3, <2>1 DEF KernelNext
  <2>3. reply'.success \in BOOLEAN
    BY <1>3 DEF AttemptRecovery
  <2>4. [tag |-> "recovery", success |-> reply'.success] \in Bodies
    BY <2>3 DEF Bodies
  <2> QED
    BY <1>3, <2>2, <2>4
<1>4. CASE /\ request.op = "GetStatus"
           /\ UNCHANGED kernelVars
           /\ pending' = [pending EXCEPT ![k] =
                Response(n, [tag |-> "status", system_state |-> state,
                             emergencies |-> emergency_count])]
  <2>1. state \in OperationalStates /\ emergency_count \in Nat
    BY KernelAssumption DEF KernelTypeOK
  <2>2. [tag |-> "status", system_state |-> state, emergencies |-> emergency_count] \in Bodies
    BY <2>1 DEF Bodies
  <2> QED
    BY <1>4, <2>2
<1>5. CASE /\ request.op = "Heartbeat"
           /\ UNCHANGED kernelVars
           /\ pending' = [pending EXCEPT ![k] = Response(n, [tag |-> "alive"])]
  <2>1. [tag |-> "alive"] \in Bodies
    BY DEF Bodies
  <2> QED
    BY <1>5, <2>1
<1>6. CASE /\ request.op \in FrameErrors
           /\ UNCHANGED kernelVars
           /\ pending' = [pending EXCEPT ![k] =
                Response(n, [tag |-> "error", error |-> request.op])]
  <2>1. [tag |-> "error", error |-> request.op] \in Bodies
    BY <1>6 DEF Bodies
  <2> QED
    BY <1>6, <2>1
<1> QED
  BY <1>2, <1>3, <1>4, <1>5, <1>6 DEF HandleRequest

LEMMA HandleFrameInv ==
  ASSUME DaemonInv, NEW k \in Conns, HandleFrame(k)
  PROVE  WireInv' /\ [KernelNext]_kernelVars
<1>1. KernelTypeOK /\ WireInv /\ toServer[k] \in Seq(Frames) /\ toServer[k] # <<>>
  BY WireNumbers DEF DaemonInv, WireInv, HandleFrame
<1>2. Head(toServer[k]).request \in Requests \cup RpcRequests
  <2>1. Head(toServer[k]) \in Frames
    BY <1>1
  <2> QED
    BY <2>1 DEF Frames
<1>3. HandleRequest(Head(toServer[k]).request, Head(toServer[k]).serial, k)
  BY DEF HandleFrame
<1>4. /\ [KernelNext]_kernelVars
      /\ \E body \in Bodies :
           pending' = [pending EXCEPT ![k] = Response(Head(toServer[k]).serial, body)]
  BY <1>1, <1>2, <1>3, RequestIsCall
<1>5. WireInv'
  BY <1>1, <1>4, HandleInv DEF HandleFrame
<1> QED
  BY <1>4, <1>5

\* A step of the daemon is a call of the kernel, leaves it alone, or builds it
\* anew.
LEMMA DaemonStep ==
  ASSUME DaemonInv, [DaemonNext]_daemonVars
  PROVE  WireInv' /\ ([KernelNext]_kernelVars \/ KernelInit')
<1>1. KernelTypeOK /\ WireInv /\ WireTypes
  BY DEF DaemonInv, WireInv
<1>2. ASSUME NEW c \in Clients, ClientStep(c)
      PROVE  WireInv' /\ UNCHANGED kernelVars
  <2>1. c \in Callers
    BY DEF Callers
  <2>2. CASE OpenSession(c)
    BY <1>1, <2>1, <2>2, OpenInv DEF OpenSession
  <2>3. CASE CloseSession(c)
    <3>1. call \in [Callers -> Nat] /\ UNCHANGED call /\ call[c] = 0
      BY <1>1, <2>3 DEF CloseSession, WireTypes, CallerTypes
    <3> QED
      BY <1>1, <2>1, <2>3, <3>1, CloseInv DEF CloseSession
  <2>4. ASSUME NEW request \in Requests, Send(c, request)
        PROVE  WireInv' /\ UNCHANGED kernelVars
    <3>1. WireInv'
      BY <1>1, <2>1, <2>4, SendInv
    <3> QED
      BY <2>4, <3>1 DEF Send
  <2>5. CASE Receive(c)
    <3>1. session[c] # 0
      BY <1>1, <2>1, <2>5 DEF WireInv, Aligned, Receive
    <3>2. PICK k \in Conns : k = session[c]
      BY <1>1, <2>1, <3>1, SessionConn
    <3>3. WireInv'
      BY <1>1, <2>1, <2>5, <3>2, ReadInv DEF Receive
    <3> QED
      BY <2>5, <3>3 DEF Receive
  <2>6. CASE Timeout(c) \/ ConnectionClosed(c)
    <3>1. WireInv'
      BY <1>1, <2>1, <2>6, FailInv
    <3> QED
      BY <2>6, <3>1 DEF Timeout, ConnectionClosed
  <2>7. CASE Misread(c)
    <3>1. WireInv'
      BY <1>1, <2>1, <2>7, MisreadInv
    <3> QED
      BY <2>7, <3>1 DEF Misread
  <2> QED
    BY <1>2, <2>2, <2>3, <2>4, <2>5, <2>6, <2>7 DEF ClientStep
<1>3. ASSUME NEW g \in Gateways, GatewayStep(g)
      PROVE  WireInv' /\ UNCHANGED kernelVars
  <2>1. g \in Callers
    BY DEF Callers
  <2>2. ASSUME NEW request \in RpcRequests, Rpc(g, request)
        PROVE  WireInv' /\ UNCHANGED kernelVars
    <3>1. /\ call' = [call EXCEPT ![g] = 1]
          /\ sent' = [sent EXCEPT ![opened + 1] = 1]
          /\ toServer' = [toServer EXCEPT ![opened + 1] = <<Frame(1, request)>>]
      BY <2>2 DEF Rpc
    <3>2. /\ session[g] = 0 /\ opened < MaxConns
          /\ opened' = opened + 1 /\ session' = [session EXCEPT ![g] = opened + 1]
          /\ serving' = [serving EXCEPT ![opened + 1] = TRUE]
          /\ UNCHANGED <<kernelVars, up, late, got, pending, toClient>>
      BY <2>2 DEF Rpc
    <3> QED
      BY <1>1, <2>1, <3>1, <3>2, OpenInv
  <2>3. CASE RpcReply(g)
    <3>1. session[g] # 0
      BY <1>1, <2>1, <2>3 DEF WireInv, Aligned, RpcReply, Settle
    <3>2. PICK k \in Conns : k = session[g]
      BY <1>1, <2>1, <3>1, SessionConn
    <3>3. WireInv'
      BY <1>1, <2>1, <2>3, <3>2, ReadInv DEF RpcReply, Settle
    <3> QED
      BY <2>3, <3>3 DEF RpcReply, Settle
  <2>4. CASE RpcTimeout(g) \/ RpcError(g)
    <3>1. /\ session' = [session EXCEPT ![g] = 0] /\ call' = [call EXCEPT ![g] = 0]
          /\ UNCHANGED <<kernelVars, opened, late, got, sent, netVars>>
      BY <2>4 DEF RpcTimeout, RpcError, Settle, netVars
    <3>2. /\ call' \in [Callers -> Nat] /\ call'[g] = 0
          /\ \A d \in Callers : d # g => call'[d] = call[d]
      BY <1>1, <2>1, <3>1 DEF WireTypes, CallerTypes
    <3> QED
      BY <1>1, <2>1, <3>1, <3>2, CloseInv
  <2> QED
    BY <1>3, <2>2, <2>3, <2>4 DEF GatewayStep
<1>4. ASSUME NEW k \in Conns, ThreadStep(k)
      PROVE  WireInv' /\ [KernelNext]_kernelVars
  <2>1. CASE HandleFrame(k)
    BY <2>1, HandleFrameInv
  <2>2. CASE WriteReply(k)
    BY <1>1, <2>2, WriteReplyInv DEF WriteReply
  <2>3. CASE RefuseFrame(k) \/ EndConnection(k)
    <3>1. /\ serving' = [serving EXCEPT ![k] = FALSE]
          /\ toServer' = [toServer EXCEPT ![k] = <<>>]
          /\ pending' \in {pending, [pending EXCEPT ![k] = <<>>]}
          /\ UNCHANGED <<kernelVars, opened, clientVars, toClient>>
      BY <2>3 DEF RefuseFrame, EndConnection, EndThread
    <3>2. CountTypes /\ QueueTypes /\ <<>> \in Seq(Frames) /\ <<>> \in Seq(Responses)
      BY <1>1 DEF WireTypes
    <3>3. /\ serving' \in [Conns -> BOOLEAN] /\ toServer' \in [Conns -> Seq(Frames)]
          /\ pending' \in [Conns -> Seq(Responses)]
      BY <3>1, <3>2 DEF CountTypes, QueueTypes
    <3>4. \A j \in Conns :
            /\ serving'[j] => /\ serving[j] /\ toServer'[j] = toServer[j]
                              /\ pending'[j] = pending[j]
            /\ toServer'[j] \in {<<>>, toServer[j]} /\ pending'[j] \in {<<>>, pending[j]}
      BY <3>1, <3>2 DEF CountTypes, QueueTypes
    <3>5. WireInv'
      BY <1>1, <3>1, <3>3, <3>4, EndInv DEF clientVars
    <3> QED
      BY <3>1, <3>5
  <2> QED
    BY <1>4, <2>1, <2>2, <2>3 DEF ThreadStep
<1>5. CASE Crash
  <2>1. <<>> \in Seq(Frames) /\ <<>> \in Seq(Responses)
    OBVIOUS
  <2>2. /\ serving' \in [Conns -> BOOLEAN] /\ toServer' \in [Conns -> Seq(Frames)]
        /\ pending' \in [Conns -> Seq(Responses)]
        /\ \A j \in Conns : ~serving'[j] /\ toServer'[j] = <<>> /\ pending'[j] = <<>>
        /\ UNCHANGED <<kernelVars, opened, clientVars, toClient>>
    BY <1>5, <2>1 DEF Crash
  <2>3. WireInv'
    BY <1>1, <2>2, EndInv DEF clientVars
  <2> QED
    BY <2>2, <2>3
<1>6. CASE Restart
  <2>1. KernelInit' /\ UNCHANGED <<opened, clientVars, netVars>>
    BY <1>6 DEF Restart, KernelInit
  <2>2. WireInv'
    BY <1>1, <2>1, EndInv DEF clientVars, netVars, WireTypes, CountTypes, QueueTypes
  <2> QED
    BY <2>1, <2>2
<1>7. CASE UNCHANGED daemonVars
  <2>1. UNCHANGED <<kernelVars, opened, clientVars, netVars>>
    BY <1>7 DEF daemonVars
  <2>2. WireInv'
    BY <1>1, <2>1, EndInv DEF clientVars, netVars, WireTypes, CountTypes, QueueTypes
  <2> QED
    BY <2>1, <2>2
<1> QED
  BY <1>2, <1>3, <1>4, <1>5, <1>6, <1>7 DEF DaemonNext

LEMMA DaemonInvInit == DaemonInit => DaemonInv
<1> SUFFICES ASSUME DaemonInit PROVE DaemonInv
  OBVIOUS
<1>1. KernelTypeOK
  BY KernelTypeInit DEF DaemonInit
<1>2. <<>> \in Seq(Frames) /\ <<>> \in Seq(Responses) /\ Len(<<>>) = 0
  OBVIOUS
<1>3. WireTypes
  <2>1. CallerTypes
    BY DaemonAssumption DEF DaemonInit, CallerTypes
  <2>2. GotTypes /\ CountTypes
    BY DEF DaemonInit, GotTypes, CountTypes, NoAnswer
  <2>3. QueueTypes
    BY <1>2 DEF DaemonInit, QueueTypes
  <2> QED
    BY <2>1, <2>2, <2>3 DEF WireTypes
<1>4. AnswersLagByTimeouts
  BY DEF DaemonInit, AnswersLagByTimeouts, NoAnswer
<1> QED
  BY <1>1, <1>3, <1>4 DEF DaemonInit, DaemonInv, WireInv, Aligned, Fresh

-----------------------------------------------------------------------------
(* The theorems.                                                           *)

\* On every connection, answers are one for each request and in the order of
\* the requests, callers are aligned with what they have given up, and the
\* kernel is well typed, through any interleaving of the threads, any timeouts
\* and any crashes (constitutiond.rs:45-78, constitution_client.py:50-62).
THEOREM DaemonInvariant == DaemonSpec => []DaemonInv
<1>1. DaemonInv /\ [DaemonNext]_daemonVars => DaemonInv'
  <2> SUFFICES ASSUME DaemonInv, [DaemonNext]_daemonVars PROVE DaemonInv'
    OBVIOUS
  <2>1. WireInv' /\ ([KernelNext]_kernelVars \/ KernelInit')
    BY DaemonStep
  <2>2. CASE [KernelNext]_kernelVars
    BY <2>1, <2>2, KernelTypeStep DEF DaemonInv
  <2>3. CASE KernelInit'
    <3>1. (KernelInit => KernelTypeOK)'
      BY KernelTypeInit, PTL
    <3> QED
      BY <2>1, <2>3, <3>1 DEF DaemonInv
  <2> QED
    BY <2>1, <2>2, <2>3
<1> QED
  BY <1>1, DaemonInvInit, PTL DEF DaemonSpec

\* What is under way on a live connection is a gapless run of serials
\* (constitutiond.rs:45-78).
THEOREM DaemonAnswersInOrder == DaemonSpec => []AnsweredOnceInOrder
<1>1. DaemonInv => AnsweredOnceInOrder
  <2> SUFFICES ASSUME DaemonInv, NEW k \in Conns, serving[k]
               PROVE  LET q == Serials(toClient[k] \o pending[k] \o toServer[k])
                      IN  \A i \in 1..Len(q) : q[i] = sent[k] - Len(q) + i
    BY DEF AnsweredOnceInOrder
  <2>1. WireTypes /\ InOrder(k)
    BY DEF DaemonInv, WireInv
  <2>2. sent[k] \in Nat
    BY <2>1, WireNumbers
  <2>3. PICK x \in Nat, y \in Nat, z \in Nat :
          /\ Len(toClient[k]) = x /\ Len(pending[k]) = y /\ Len(toServer[k]) = z
          /\ toClient[k] \in Seq(Responses) /\ pending[k] \in Seq(Responses)
          /\ toServer[k] \in Seq(Frames)
    BY <2>1, WireNumbers
  <2>4. /\ Run(toClient[k], sent[k] - (x + y + z)) /\ Run(pending[k], sent[k] - z - y)
        /\ Run(toServer[k], sent[k] - z)
    BY <2>1, <2>3 DEF InOrder, Flight
  <2>5. PICK p : p = toClient[k] \o pending[k]
    OBVIOUS
  <2>6. p \in Seq(Responses) /\ Len(p) = x + y /\ Run(p, sent[k] - (x + y + z))
    <3>1. /\ sent[k] - (x + y + z) \in Int
          /\ sent[k] - z - y = sent[k] - (x + y + z) + x
      BY <2>2
    <3>2. Run(pending[k], sent[k] - (x + y + z) + Len(toClient[k]))
      BY <2>3, <2>4, <3>1
    <3> QED
      BY <2>3, <2>4, <2>5, <3>1, <3>2, RunConcat
  <2>7. PICK s : s = p \o toServer[k]
    OBVIOUS
  <2>8. s \in Seq(Responses \cup Frames) /\ Len(s) = x + y + z /\ Run(s, sent[k] - (x + y + z))
    <3>1. p \in Seq(Responses \cup Frames) /\ toServer[k] \in Seq(Responses \cup Frames)
      BY <2>3, <2>6
    <3>2. /\ sent[k] - (x + y + z) \in Int
          /\ sent[k] - z = sent[k] - (x + y + z) + (x + y)
      BY <2>2
    <3>3. Run(toServer[k], sent[k] - (x + y + z) + Len(p))
      BY <2>4, <2>6, <3>2
    <3>4. /\ s \in Seq(Responses \cup Frames) /\ Len(s) = Len(p) + Len(toServer[k])
          /\ Run(s, sent[k] - (x + y + z))
      BY <2>6, <2>7, <3>1, <3>2, <3>3, RunConcat
    <3> QED
      BY <2>3, <2>6, <3>4
  <2>9. Len(Serials(s)) = x + y + z /\ \A i \in 1..(x + y + z) : Serials(s)[i] = s[i].serial
    BY <2>8 DEF Serials
  <2>10. \A i \in 1..(x + y + z) : s[i].serial = sent[k] - (x + y + z) + i
    BY <2>8 DEF Run
  <2> QED
    BY <2>5, <2>7, <2>9, <2>10
<1> QED
  BY <1>1, DaemonInvariant, PTL

\* Every answer a caller gets is as many requests old as calls have timed out
\* on its session, and the gateway's is always its own
\* (constitution_client.py:50-62, rust-bridge.service.ts:114-150).
THEOREM DaemonAnswersLag == DaemonSpec => []AnswersLagByTimeouts
<1>1. DaemonInv => AnswersLagByTimeouts
  BY DEF DaemonInv, WireInv
<1> QED
  BY <1>1, DaemonInvariant, PTL

\* What the kernel keeps on its own (ConstitutionKernelProofs).
KernelPromises == JournalIsHistory /\ EmergenciesAreJournalled /\ ApprovalIsSound

\* Behind the daemon, whichever connections call it in whatever order and
\* however often the process is restarted, the journal stays the kernel's
\* history, the emergency counter agrees with it, and every approval is sound
\* (constitutiond.rs:22-43).
THEOREM DaemonKeepsKernel ==
  DaemonSpec => [](JournalIsHistory /\ EmergenciesAreJournalled /\ ApprovalIsSound)
<1>1. KernelInit => KernelPromises
  BY JournalInit, EmergencyInit, ApprovalInit DEF KernelPromises
<1>2. DaemonInv /\ KernelPromises /\ [DaemonNext]_daemonVars => KernelPromises'
  <2> SUFFICES ASSUME DaemonInv, KernelPromises, [DaemonNext]_daemonVars
               PROVE  KernelPromises'
    OBVIOUS
  <2>1. [KernelNext]_kernelVars \/ KernelInit'
    BY DaemonStep
  <2>2. CASE [KernelNext]_kernelVars
    BY <2>2, JournalStep, EmergencyStep, ApprovalStep DEF DaemonInv, KernelPromises
  <2>3. CASE KernelInit'
    <3>1. (KernelInit => KernelPromises)'
      BY <1>1, PTL
    <3> QED
      BY <2>3, <3>1
  <2> QED
    BY <2>1, <2>2, <2>3
<1>3. DaemonInit => KernelInit
  BY DEF DaemonInit
<1> QED
  BY <1>1, <1>2, <1>3, DaemonInvariant, PTL DEF DaemonSpec, KernelPromises

\* The halt is left only for recovery, with a valid proof, or by a restart
\* (state_machine.rs:112-137, constitutiond.rs:22-28).
THEOREM DaemonHaltReleased == DaemonSpec => HaltReleasedOnlyByProof
<1> DEFINE Released ==
      state = "EmergencyHalt" /\ state' # "EmergencyHalt" =>
        \/ /\ state' = "AutonomousRecovery"
           /\ reply'.op = "attempt_recovery" /\ reply'.success
        \/ ~up /\ up' /\ state' = "Normal"
<1>1. DaemonInv /\ [DaemonNext]_daemonVars => [Released]_daemonVars
  <2> SUFFICES ASSUME DaemonInv, DaemonNext PROVE Released
    OBVIOUS
  <2>1. CASE Restart
    BY <2>1 DEF Restart
  <2>2. CASE UNCHANGED kernelVars
    BY <2>2 DEF kernelVars
  <2>3. ASSUME NEW pf, NEW pr, ProcessProposal(pf, pr) PROVE Released
    BY <2>3 DEF ProcessProposal, RefuseWhileHalted, EnterEmergency, RejectProposal,
                ApproveProposal, NoTransition, Halted
  <2>4. ASSUME NEW valid, AttemptRecovery(valid) PROVE Released
    BY <2>4 DEF AttemptRecovery, RecordTransition, NoTransition, Halted
  <2>5. UNCHANGED kernelVars \/ Restart \/ \E k \in Conns : HandleFrame(k)
    BY DEF DaemonNext, ClientStep, GatewayStep, ThreadStep, OpenSession, CloseSession, Send,
           Receive, Misread, Timeout, ConnectionClosed, Rpc, RpcReply, RpcTimeout, RpcError, Settle,
           RefuseFrame, WriteReply, EndConnection, Crash
  <2>6. ASSUME NEW k \in Conns, HandleFrame(k) PROVE Released
    BY <2>2, <2>3, <2>4, <2>6 DEF HandleFrame, HandleRequest
  <2> QED
    BY <2>1, <2>2, <2>5, <2>6
<1> QED
  BY <1>1, DaemonInvariant, PTL DEF DaemonSpec, HaltReleasedOnlyByProof
-----------------------------------------------------------------------------
(* The risk gate behind the daemon.                                        *)

\* What a restart does to the gate: it is open again, whatever it was.
Reopened == ~up /\ up' /\ abstractGate' = "open" /\ abstractAnswer' = "none"

LEMMA DaemonStepIsGateStep ==
  ASSUME DaemonInv, [DaemonNext]_daemonVars
  PROVE  [Gate!GateNext]_<<abstractGate, abstractAnswer>> \/ (Restart /\ Reopened)
<1>1. KernelTypeOK
  BY DEF DaemonInv
<1>2. CASE [KernelNext]_kernelVars
  BY <1>1, <1>2, KernelStepIsGateStep
<1>3. CASE Restart
  BY <1>3 DEF Restart, Reopened, abstractGate, abstractAnswer, verdictAnswer
<1>4. \/ UNCHANGED kernelVars \/ Restart \/ \E k \in Conns : HandleFrame(k)
  BY DEF DaemonNext, ClientStep, GatewayStep, ThreadStep, OpenSession, CloseSession, Send,
         Receive, Misread, Timeout, ConnectionClosed, Rpc, RpcReply, RpcTimeout, RpcError, Settle,
         RefuseFrame, WriteReply, EndConnection, Crash, daemonVars
<1>5. ASSUME NEW k \in Conns, HandleFrame(k) PROVE [KernelNext]_kernelVars
  BY <1>5, HandleFrameInv
<1> QED
  BY <1>2, <1>3, <1>4, <1>5

\* Seen through the daemon, the kernel is the abstract risk gate and one thing
\* more: a restart, which opens the gate without a proof.  No interleaving of
\* connections, timeout, lost frame or crash adds any other step
\* (constitutiond.rs:22-43, state_machine.rs:86-168).
THEOREM DaemonGate ==
  DaemonSpec => /\ Gate!GateInit
                /\ [][Gate!GateNext \/ Reopened]_<<abstractGate, abstractAnswer>>
<1>1. DaemonInit => Gate!GateInit
  BY DEF DaemonInit, KernelInit, Gate!GateInit, abstractGate, abstractAnswer, verdictAnswer
<1>2. DaemonInv /\ [DaemonNext]_daemonVars =>
        [Gate!GateNext \/ Reopened]_<<abstractGate, abstractAnswer>>
  BY DaemonStepIsGateStep
<1> QED
  BY <1>1, <1>2, DaemonInvariant, PTL DEF DaemonSpec

\* As long as the process does not crash the clients have exactly the abstract
\* gate: a halt is then left by two valid proofs and by nothing else, however
\* many connections share the kernel (constitutiond.rs:22-43).
THEOREM DaemonImplementsGate ==
  ASSUME MaxCrashes = 0 PROVE DaemonSpec => ImplementsRiskGate
<1> DEFINE Running == up = TRUE /\ crashes = 0
<1>1. DaemonInit => Gate!GateInit /\ Running
  BY DEF DaemonInit, KernelInit, Gate!GateInit, abstractGate, abstractAnswer, verdictAnswer
<1>2. Running /\ [DaemonNext]_daemonVars => Running'
  <2> SUFFICES ASSUME Running, [DaemonNext]_daemonVars PROVE Running'
    OBVIOUS
  <2>1. ~Crash /\ ~Restart
    BY DEF Crash, Restart
  <2>2. CASE \E c \in Clients : ClientStep(c)
    BY <2>2 DEF ClientStep, OpenSession, CloseSession, Send, Receive, Misread, Timeout,
                ConnectionClosed
  <2>3. CASE \E g \in Gateways : GatewayStep(g)
    BY <2>3 DEF GatewayStep, Rpc, RpcReply, RpcTimeout, RpcError, Settle
  <2>4. CASE \E k \in Conns : ThreadStep(k)
    BY <2>4 DEF ThreadStep, HandleFrame, RefuseFrame, WriteReply, EndConnection
  <2>5. CASE UNCHANGED daemonVars
    BY <2>5 DEF daemonVars
  <2> QED
    BY <2>1, <2>2, <2>3, <2>4, <2>5 DEF DaemonNext
<1>3. DaemonInv /\ Running /\ [DaemonNext]_daemonVars =>
        [Gate!GateNext]_<<abstractGate, abstractAnswer>>
  BY DaemonStepIsGateStep DEF Restart
<1> QED
  BY <1>1, <1>2, <1>3, DaemonInvariant, PTL
     DEF DaemonSpec, ImplementsRiskGate, Gate!GateSpec, Gate!gateVars

-----------------------------------------------------------------------------
(* A call that waits.                                                      *)

\* The frame or response with serial n is the last of a queue of connection k.
LastOf(n, k) ==
  \E s \in {toClient[k], pending[k], toServer[k]} : s # <<>> /\ s[Len(s)].serial = n

\* A caller that waits on a live connection waits for something that is there:
\* its request, or the answer to it, is the last thing under way on the
\* connection, after the answers of the calls it has given up.  No frame and no
\* answer is lost between the queues (constitutiond.rs:45-78,
\* constitution_client.py:50-62).
CallInFlight ==
  \A c \in Callers : \A k \in Conns :
    call[c] # 0 /\ session[c] = k /\ serving[k] => Flight(k) = late[k] + 1 /\ LastOf(call[c], k)

\* What is left to do on a connection: a response to read, a response to write
\* and to read, a frame to handle, and the thread to end.
Work(k) ==
  Len(toClient[k]) + 2 * Len(pending[k]) + 3 * Len(toServer[k])
    + (IF serving[k] THEN 1 ELSE 0)

\* While a call waits, nobody adds to the work of its connection, and every
\* step of the connection's thread takes some away, whatever the other callers
\* do, and whether the daemon crashes or not.
CallForward ==
  \A c \in Callers : \A k \in Conns :
    call[c] # 0 /\ session[c] = k /\ call'[c] # 0 =>
      /\ call'[c] = call[c] /\ session'[c] = k
      /\ Work(k)' <= Work(k)
      /\ ThreadStep(k) => Work(k)' < Work(k)
\* The last of a run of serials.
LEMMA RunLast ==
  ASSUME NEW S, NEW s \in Seq(S), NEW n \in Int, Run(s, n), Len(s) > 0
  PROVE  s # <<>> /\ s[Len(s)].serial = n + Len(s)
<1>1. PICK m \in Nat : m = Len(s)
  OBVIOUS
<1>2. m \in 1..Len(s)
  BY <1>1
<1> QED
  BY <1>1, <1>2 DEF Run

\* What a caller waits for on a live connection is under way, behind exactly as
\* many answers as it has given up calls (constitutiond.rs:45-78,
\* constitution_client.py:50-62).
THEOREM DaemonCallInFlight == DaemonSpec => []CallInFlight
<1>1. DaemonInv => CallInFlight
  <2> SUFFICES ASSUME DaemonInv, NEW c \in Callers, NEW k \in Conns,
                      call[c] # 0, session[c] = k, serving[k]
               PROVE  Flight(k) = late[k] + 1 /\ LastOf(call[c], k)
    BY DEF CallInFlight
  <2>1. WireTypes /\ InOrder(k) /\ Aligned(c)
    BY DEF DaemonInv, WireInv
  <2>2. sent[k] \in Nat /\ late[k] \in Nat
    BY <2>1, WireNumbers
  <2>3. PICK x \in Nat, y \in Nat, z \in Nat :
          /\ Len(toClient[k]) = x /\ Len(pending[k]) = y /\ Len(toServer[k]) = z
          /\ toClient[k] \in Seq(Responses) /\ pending[k] \in Seq(Responses)
          /\ toServer[k] \in Seq(Frames)
    BY <2>1, WireNumbers
  <2>4. k # 0
    BY DEF Conns
  <2>5. call[c] = sent[k] /\ x + y + z = late[k] + 1
    BY <2>1, <2>3, <2>4 DEF Aligned, Busy, Flight
  <2>6. /\ Run(toClient[k], sent[k] - (x + y + z)) /\ Run(pending[k], sent[k] - z - y)
        /\ Run(toServer[k], sent[k] - z)
    BY <2>1, <2>3 DEF InOrder, Flight
  <2>7. CASE z > 0
    <3>1. sent[k] - z \in Int /\ sent[k] - z + z = sent[k]
      BY <2>2
    <3>2. toServer[k] # <<>> /\ toServer[k][Len(toServer[k])].serial = sent[k] - z + Len(toServer[k])
      BY <2>3, <2>6, <2>7, <3>1, RunLast
    <3> QED
      BY <2>3, <2>5, <3>1, <3>2 DEF LastOf, Flight
  <2>8. CASE z = 0 /\ y > 0
    <3>1. sent[k] - z - y \in Int /\ sent[k] - z - y + y = sent[k]
      BY <2>2, <2>8
    <3>2. pending[k] # <<>> /\ pending[k][Len(pending[k])].serial = sent[k] - z - y + Len(pending[k])
      BY <2>3, <2>6, <2>8, <3>1, RunLast
    <3> QED
      BY <2>3, <2>5, <3>1, <3>2 DEF LastOf, Flight
  <2>9. CASE z = 0 /\ y = 0
    <3>1. x > 0
      BY <2>2, <2>5, <2>9
    <3>2. sent[k] - (x + y + z) \in Int /\ sent[k] - (x + y + z) + x = sent[k]
      BY <2>2, <2>9
    <3>3. /\ toClient[k] # <<>>
          /\ toClient[k][Len(toClient[k])].serial = sent[k] - (x + y + z) + Len(toClient[k])
      BY <2>3, <2>6, <3>1, <3>2, RunLast
    <3> QED
      BY <2>3, <2>5, <3>2, <3>3 DEF LastOf, Flight
  <2> QED
    BY <2>7, <2>8, <2>9
<1> QED
  BY <1>1, DaemonInvariant, PTL

LEMMA WorkNumbers ==
  ASSUME WireTypes, NEW k \in Conns
  PROVE  \E x \in Nat, y \in Nat, z \in Nat :
           /\ Len(toClient[k]) = x /\ Len(pending[k]) = y /\ Len(toServer[k]) = z
           /\ Work(k) = x + 2 * y + 3 * z + (IF serving[k] THEN 1 ELSE 0)
<1>1. PICK x \in Nat, y \in Nat, z \in Nat :
        Len(toClient[k]) = x /\ Len(pending[k]) = y /\ Len(toServer[k]) = z
  BY WireNumbers
<1> QED
  BY <1>1 DEF Work

\* A connection whose queues a step leaves alone.
LEMMA SameWork ==
  ASSUME NEW k \in Conns, toClient'[k] = toClient[k], pending'[k] = pending[k],
         toServer'[k] = toServer[k], serving'[k] = serving[k]
  PROVE  Work(k)' = Work(k)
BY DEF Work

\* A connection that is cut off.
LEMMA CutWork ==
  ASSUME WireTypes, NEW k \in Conns, toClient'[k] = toClient[k],
         pending'[k] = <<>> \/ pending'[k] = pending[k], toServer'[k] = <<>>, ~serving'[k]
  PROVE  Work(k)' <= Work(k) /\ (serving[k] => Work(k)' < Work(k))
<1>1. PICK x \in Nat, y \in Nat, z \in Nat :
        /\ Len(toClient[k]) = x /\ Len(pending[k]) = y /\ Len(toServer[k]) = z
        /\ Work(k) = x + 2 * y + 3 * z + (IF serving[k] THEN 1 ELSE 0)
  BY WorkNumbers
<1>2. PICK w \in Nat : w <= y /\ Len(pending'[k]) = w
  BY <1>1
<1>3. Work(k)' = x + 2 * w
  BY <1>1, <1>2 DEF Work
<1> QED
  BY <1>1, <1>2, <1>3

\* Every step of a connection's thread lowers what is left to do on it.
LEMMA ThreadWork ==
  ASSUME WireTypes, NEW k \in Conns, ThreadStep(k)
  PROVE  Work(k)' < Work(k) /\ Work(k)' <= Work(k)
<1>1. PICK x \in Nat, y \in Nat, z \in Nat :
        /\ Len(toClient[k]) = x /\ Len(pending[k]) = y /\ Len(toServer[k]) = z
        /\ Work(k) = x + 2 * y + 3 * z + (IF serving[k] THEN 1 ELSE 0)
  BY WorkNumbers
<1>2. /\ toClient[k] \in Seq(Responses) /\ pending[k] \in Seq(Responses)
      /\ toServer[k] \in Seq(Frames)
  BY WireNumbers
<1>3. CASE HandleFrame(k)
  <2>1. serving[k] /\ serving' = serving /\ toClient' = toClient
    BY <1>3 DEF HandleFrame
  <2>2. PICK r : pending' = [pending EXCEPT ![k] = <<r>>]
    BY <1>3 DEF HandleFrame, HandleRequest, Response
  <2>3. pending'[k] = <<r>> /\ Len(<<r>>) = 1
    BY <2>2 DEF WireTypes, QueueTypes
  <2>4. toServer[k] # <<>> /\ toServer'[k] = Tail(toServer[k])
    BY <1>3 DEF HandleFrame, WireTypes, QueueTypes
  <2>5. z > 0 /\ Len(toServer'[k]) = z - 1
    BY <1>1, <1>2, <2>4
  <2>6. y = 0
    BY <1>1, <1>3 DEF HandleFrame
  <2>7. Work(k)' = x + 2 * 1 + 3 * (z - 1) + 1
    BY <1>1, <2>1, <2>3, <2>5 DEF Work
  <2> QED
    BY <1>1, <2>1, <2>5, <2>6, <2>7
<1>4. CASE RefuseFrame(k)
  <2>1. /\ serving[k] /\ toClient'[k] = toClient[k] /\ pending'[k] = pending[k]
        /\ toServer'[k] = <<>> /\ ~serving'[k]
    BY <1>4 DEF RefuseFrame, EndThread, WireTypes, QueueTypes, CountTypes
  <2> QED
    BY <2>1, CutWork
<1>5. CASE WriteReply(k)
  <2>1. serving[k] /\ serving' = serving /\ toServer' = toServer
    BY <1>5 DEF WriteReply
  <2>2. pending[k] # <<>> /\ pending'[k] = <<>> /\ toClient'[k] = toClient[k] \o pending[k]
    BY <1>5 DEF WriteReply, WireTypes, QueueTypes
  <2>3. y > 0 /\ Len(pending'[k]) = 0 /\ Len(toClient'[k]) = x + y
    <3>1. Len(pending'[k]) = 0
      BY <2>2
    <3>2. y > 0
      BY <1>1, <1>2, <2>2
    <3>3. Len(toClient[k] \o pending[k]) = Len(toClient[k]) + Len(pending[k])
      BY <1>2
    <3> QED
      BY <1>1, <2>2, <3>1, <3>2, <3>3
  <2>4. Work(k)' = x + y + 2 * 0 + 3 * z + 1
    BY <1>1, <2>1, <2>3 DEF Work
  <2> QED
    BY <1>1, <2>1, <2>3, <2>4
<1>6. CASE EndConnection(k)
  <2>1. /\ serving[k] /\ toClient'[k] = toClient[k] /\ pending'[k] = <<>>
        /\ toServer'[k] = <<>> /\ ~serving'[k]
    BY <1>6 DEF EndConnection, EndThread, WireTypes, QueueTypes, CountTypes
  <2> QED
    BY <2>1, CutWork
<1> QED
  BY <1>3, <1>4, <1>5, <1>6 DEF ThreadStep
\* A step of another caller on its own connection, or on a new one.
LEMMA OtherCaller ==
  ASSUME WireInv, NEW c \in Callers, NEW d \in Callers, c # d, NEW k \in Conns, session[c] = k
  PROVE  session[d] # k /\ opened + 1 # k /\ k # 0
<1>1. k # 0 /\ k \in Int
  BY DEF Conns
<1>2. session[d] # k
  BY <1>1 DEF WireInv
<1>3. WireTypes
  BY DEF WireInv
<1>4. session[c] \in 0..opened /\ opened \in Int
  BY <1>3, SessionConn DEF WireTypes, CallerTypes
<1> QED
  BY <1>1, <1>2, <1>4

\* What a call that waits keeps through a step.
Held(c, k) == call'[c] = call[c] /\ session'[c] = k /\ Work(k)' <= Work(k)

LEMMA ClientHeld ==
  ASSUME WireInv, NEW d \in Clients, ClientStep(d), NEW c \in Callers, NEW k \in Conns,
         call[c] # 0, session[c] = k, call'[c] # 0
  PROVE  Held(c, k)
<1>1. WireTypes /\ d \in Callers /\ k # 0
  BY DEF WireInv, Callers, Conns
<1>2. Work(k) \in Int
  BY <1>1, WorkNumbers
<1>3. /\ session \in [Callers -> 0..opened] /\ call \in [Callers -> Nat]
      /\ toServer \in [Conns -> Seq(Frames)] /\ toClient \in [Conns -> Seq(Responses)]
      /\ serving \in [Conns -> BOOLEAN]
  BY <1>1 DEF WireTypes, CallerTypes, QueueTypes, CountTypes
<1>4. c # d
  <2> SUFFICES ASSUME c = d PROVE FALSE
    OBVIOUS
  <2>1. ~OpenSession(d) /\ ~CloseSession(d) /\ \A r \in Requests : ~Send(d, r)
    BY <1>1 DEF OpenSession, CloseSession, Send
  <2>2. ~Receive(d) /\ ~Misread(d) /\ ~Timeout(d) /\ ~ConnectionClosed(d)
    BY <1>3 DEF Receive, Misread, Timeout, ConnectionClosed
  <2> QED
    BY <2>1, <2>2 DEF ClientStep
<1>5. session[d] # k /\ opened + 1 # k
  BY <1>1, <1>4, OtherCaller
<1>6. call'[c] = call[c] /\ session'[c] = k
  BY <1>3, <1>4 DEF ClientStep, OpenSession, CloseSession, Send, Receive, Misread, Timeout,
                    ConnectionClosed
<1>7. /\ toClient'[k] = toClient[k] /\ pending'[k] = pending[k]
      /\ toServer'[k] = toServer[k] /\ serving'[k] = serving[k]
  BY <1>3, <1>5 DEF ClientStep, OpenSession, CloseSession, Send, Receive, Misread, Timeout,
                    ConnectionClosed, netVars
<1>8. Work(k)' = Work(k)
  BY <1>7, SameWork
<1> QED
  BY <1>2, <1>6, <1>8 DEF Held

LEMMA GatewayHeld ==
  ASSUME WireInv, NEW d \in Gateways, GatewayStep(d), NEW c \in Callers, NEW k \in Conns,
         call[c] # 0, session[c] = k, call'[c] # 0
  PROVE  Held(c, k)
<1>1. WireTypes /\ d \in Callers /\ k # 0
  BY DEF WireInv, Callers, Conns
<1>2. Work(k) \in Int
  BY <1>1, WorkNumbers
<1>3. /\ session \in [Callers -> 0..opened] /\ call \in [Callers -> Nat]
      /\ toServer \in [Conns -> Seq(Frames)] /\ toClient \in [Conns -> Seq(Responses)]
      /\ serving \in [Conns -> BOOLEAN]
  BY <1>1 DEF WireTypes, CallerTypes, QueueTypes, CountTypes
<1>4. c # d
  <2> SUFFICES ASSUME c = d PROVE FALSE
    OBVIOUS
  <2>1. \A r \in RpcRequests : ~Rpc(d, r)
    BY <1>1 DEF Rpc
  <2>2. ~RpcReply(d) /\ ~RpcTimeout(d) /\ ~RpcError(d)
    BY <1>3 DEF RpcReply, RpcTimeout, RpcError, Settle
  <2> QED
    BY <2>1, <2>2 DEF GatewayStep
<1>5. session[d] # k /\ opened + 1 # k
  BY <1>1, <1>4, OtherCaller
<1>6. call'[c] = call[c] /\ session'[c] = k
  BY <1>3, <1>4 DEF GatewayStep, Rpc, RpcReply, RpcTimeout, RpcError, Settle
<1>7. /\ toClient'[k] = toClient[k] /\ pending'[k] = pending[k]
      /\ toServer'[k] = toServer[k] /\ serving'[k] = serving[k]
  BY <1>3, <1>5 DEF GatewayStep, Rpc, RpcReply, RpcTimeout, RpcError, Settle
<1>8. Work(k)' = Work(k)
  BY <1>7, SameWork
<1> QED
  BY <1>2, <1>6, <1>8 DEF Held

LEMMA ThreadHeld ==
  ASSUME WireInv, NEW j \in Conns, ThreadStep(j), NEW c \in Callers, NEW k \in Conns,
         session[c] = k
  PROVE  Held(c, k)
<1>1. WireTypes
  BY DEF WireInv
<1>2. Work(k) \in Int
  BY <1>1, WorkNumbers
<1>3. call' = call /\ session' = session
  BY DEF ThreadStep, HandleFrame, RefuseFrame, WriteReply, EndConnection, clientVars
<1>4. CASE j = k
  BY <1>1, <1>3, <1>4, ThreadWork DEF Held
<1>5. CASE j # k
  <2>1. /\ toServer \in [Conns -> Seq(Frames)] /\ toClient \in [Conns -> Seq(Responses)]
        /\ pending \in [Conns -> Seq(Responses)] /\ serving \in [Conns -> BOOLEAN]
    BY <1>1 DEF WireTypes, QueueTypes, CountTypes
  <2>2. /\ toClient'[k] = toClient[k] /\ pending'[k] = pending[k]
        /\ toServer'[k] = toServer[k] /\ serving'[k] = serving[k]
    BY <1>5, <2>1 DEF ThreadStep, HandleFrame, HandleRequest, RefuseFrame, WriteReply,
                      EndConnection, EndThread
  <2>3. Work(k)' = Work(k)
    BY <2>2, SameWork
  <2> QED
    BY <1>2, <1>3, <2>3 DEF Held
<1> QED
  BY <1>4, <1>5
\* The safety half of "every call returns": on a live connection what a call
\* waits for is there, nobody but the connection's own thread and the caller
\* takes from it, nobody adds to it, and each step of the thread brings the
\* answer, or the end of the connection, nearer (constitutiond.rs:45-78).  What
\* is left to the scheduler is that the thread does take its steps.
THEOREM DaemonCallForward == DaemonSpec => [][CallForward]_daemonVars
<1>1. DaemonInv /\ [DaemonNext]_daemonVars => [CallForward]_daemonVars
  <2> SUFFICES ASSUME DaemonInv, DaemonNext, NEW c \in Callers, NEW k \in Conns,
                      call[c] # 0, session[c] = k, call'[c] # 0
               PROVE  Held(c, k) /\ (ThreadStep(k) => Work(k)' < Work(k))
    BY DEF CallForward, Held
  <2>1. WireInv /\ WireTypes
    BY DEF DaemonInv, WireInv
  <2>2. ThreadStep(k) => Work(k)' < Work(k)
    BY <2>1, ThreadWork
  <2>3. Work(k) \in Int
    BY <2>1, WorkNumbers
  <2>4. CASE \E d \in Clients : ClientStep(d)
    BY <2>1, <2>2, <2>4, ClientHeld
  <2>5. CASE \E d \in Gateways : GatewayStep(d)
    BY <2>1, <2>2, <2>5, GatewayHeld
  <2>6. CASE \E j \in Conns : ThreadStep(j)
    BY <2>1, <2>2, <2>6, ThreadHeld
  <2>7. CASE Crash
    <3>1. /\ toClient'[k] = toClient[k] /\ pending'[k] = <<>> /\ toServer'[k] = <<>>
          /\ ~serving'[k]
      BY <2>7 DEF Crash
    <3>2. Work(k)' <= Work(k)
      BY <2>1, <3>1, CutWork
    <3> QED
      BY <2>2, <2>7, <3>2 DEF Held, Crash, clientVars
  <2>8. CASE Restart
    <3>1. UNCHANGED <<clientVars, netVars>>
      BY <2>8 DEF Restart
    <3>2. Work(k)' = Work(k)
      BY <3>1, SameWork DEF netVars
    <3> QED
      BY <2>2, <2>3, <3>1, <3>2 DEF Held, clientVars
  <2> QED
    BY <2>4, <2>5, <2>6, <2>7, <2>8 DEF DaemonNext
<1> QED
  BY <1>1, DaemonInvariant, PTL DEF DaemonSpec
=============================================================================
