---------------------------- MODULE CmConnection ----------------------------
(***************************************************************************)
(* Connection management of IbAccess (src/IbAccess/Common/Ibt/Cm): the    *)
(* clients of one node call a service that one listener of another node   *)
(* offers.  Every handler, timer call-back and API call runs under        *)
(* gCM->ListLock of its node, so each is one action.                      *)
(*                                                                         *)
(* An end point object (CEP) is modelled once per connection attempt: a   *)
(* member of Calls is one iba_cm_connect of a client, a member of Answers *)
(* one CEP that the listener creates for a REQ.  The member also stands   *)
(* for the local communication ID the attempt is given, which is never    *)
(* used again; "UNUSED" is the state of an attempt still to come and      *)
(* "IDLE" that of one that is over.                                       *)
(*                                                                         *)
(* The network may lose, delay and reorder: a message in `net` may be     *)
(* received at any time or never.  Peer-to-peer connects, SIDR and the    *)
(* exchange of alternate paths (CmAltPath) are not in this module.        *)
(***************************************************************************)
EXTENDS Naturals, Sequences, FiniteSets

CONSTANTS
    Calls,       \* attempts of the clients: their CEPs and their local IDs
    Answers,     \* CEPs the listener can create: a bound on the REQs it takes
    ClientQPs,   \* queue pairs of the clients' node
    ServerQPs,   \* queue pairs of the server's node
    Backlog,     \* ListenBackLog of the listener
    MaxRetries,  \* MaxCMRetries of every CEP
    None         \* no ID, no queue pair

ASSUME CmAssumption ==
    /\ Calls \cap Answers = {}
    /\ ClientQPs \cap ServerQPs = {}
    /\ None \notin Calls \cup Answers \cup ClientQPs \cup ServerQPs
    /\ Backlog \in Nat \ {0}
    /\ MaxRetries \in Nat

VARIABLES
    state,      \* State of each CEP
    peer,       \* RemoteCommID
    qp,         \* LocalEndPoint, entered in LocalEndPointMap
    remote,     \* RemoteEndPoint, entered in RemoteEndPointMap
    retries,    \* RetryCount
    timer,      \* timeout_ms # 0: the CEP is on TimerMap and its timer runs
    doomed,     \* USRE_DESTROY: destroyed by its user, not yet by the CM
    listening,  \* the server's listener is in LISTEN
    pending,    \* PendingList of the listener
    net,        \* the messages sent and not yet received
    met         \* history: the calls accepted, each with the answer accepted

cepVars == <<state, peer, qp, remote, retries, timer, doomed>>
vars == <<cepVars, listening, pending, net, met>>

Ceps == Calls \cup Answers
QPs == ClientQPs \cup ServerQPs

CallStates == {"UNUSED", "IDLE", "REQ_SENT", "REP_WAIT", "REP_RCVD",
               "MRA_REP_SENT", "ESTABLISHED", "DREQ_SENT", "DREQ_RCVD",
               "SIM_DREQ_RCVD", "TIMEWAIT"}
AnswerStates == {"UNUSED", "IDLE", "REQ_RCVD", "MRA_REQ_SENT", "REP_SENT",
                 "MRA_REP_RCVD", "ESTABLISHED", "DREQ_SENT", "DREQ_RCVD",
                 "TIMEWAIT"}

Ringing == {"REQ_RCVD", "MRA_REQ_SENT"}     \* a REQ the user has not answered
Replied == {"REP_SENT", "MRA_REP_RCVD"}     \* waiting for the RTU
Calling == {"REQ_SENT", "REP_WAIT"}         \* waiting for the REP
Offered == {"REP_RCVD", "MRA_REP_SENT"}     \* a REP the user has not answered
Disconnecting == {"DREQ_SENT", "DREQ_RCVD", "SIM_DREQ_RCVD"}
Over == {"UNUSED", "IDLE"}

Types == {"REQ", "MRA_REQ", "REP", "MRA_REP", "RTU", "REJ_REQ", "STALE_REQ",
          "REJ_REP", "STALE_REP", "DREQ", "DREP"}

(***************************************************************************)
(* A message: the ID it is for (None: the service of the listener), the   *)
(* ID and, in a REQ or REP, the queue pair of its sender.  REJ_REQ and    *)
(* REJ_REP reject a REQ and a REP; with STALE the reason is               *)
(* RC_STALE_CONN.  No receiver looks at the sender's ID in a REJ.         *)
(***************************************************************************)
Messages == [type : Types, to : Ceps \cup {None}, from : Ceps \cup {None},
             qp : QPs \cup {None}]

Message(type, to, from, q) == [type |-> type, to |-> to, from |-> from, qp |-> q]
Msg(type, to, from) == Message(type, to, from, None)
Req(k, q) == Message("REQ", None, k, q)
Rep(p) == Message("REP", peer[p], p, qp[p])

-----------------------------------------------------------------------------
(* What the macros and helpers of cm_private.h and cm_gsa.c do to a CEP.   *)

\* FindLocalCommID: CepToIdle has taken the ID of a CEP that is IDLE.
Live(n) == state[n] \notin Over

To(n, s) == state' = [state EXCEPT ![n] = s]
TimerStart(n) == timer' = [timer EXCEPT ![n] = TRUE]
TimerStop(n) == timer' = [timer EXCEPT ![n] = FALSE]

\* RetryCount < MaxCMRetries; mutant: one retry more.
RetriesOneMore(n) == retries[n] <= MaxRetries
RetriesLeft(n) == retries[n] < MaxRetries

\* RetryCount++; mutant: not counted.
RetryUncounted(n) == retries' = retries
Retry(n) == retries' = [retries EXCEPT ![n] = @ + 1]
NoRetries(n) == retries' = [retries EXCEPT ![n] = 0]

\* ClearEndPoint takes the CEP off both maps of end points.
ToIdle(n) ==
    /\ To(n, "IDLE")
    /\ qp' = [qp EXCEPT ![n] = None]
    /\ remote' = [remote EXCEPT ![n] = None]

ToTimewait(n) ==
    /\ To(n, "TIMEWAIT")
    /\ TimerStart(n)
    /\ UNCHANGED <<qp, remote>>

\* The receiver takes m off the network and sends ms; others just send.
Answer(m, ms) == net' = (net \ {m}) \cup ms
Send(ms) == net' = net \cup ms

Listener == <<listening, pending>>

Init ==
    /\ state = [n \in Ceps |-> "UNUSED"]
    /\ peer = [n \in Ceps |-> None]
    /\ qp = [n \in Ceps |-> None]
    /\ remote = [n \in Ceps |-> None]
    /\ retries = [n \in Ceps |-> 0]
    /\ timer = [n \in Ceps |-> FALSE]
    /\ doomed = [n \in Ceps |-> FALSE]
    /\ listening = FALSE
    /\ pending = <<>>
    /\ net = {}
    /\ met = {}

-----------------------------------------------------------------------------
(* The client's calls.                                                     *)

\* iba_cm_connect: the queue pair must not be that of another live CEP.
Connect(k, q) ==
    /\ state[k] = "UNUSED"
    /\ \A n \in Ceps : qp[n] # q
    /\ To(k, "REQ_SENT")
    /\ qp' = [qp EXCEPT ![k] = q]
    /\ NoRetries(k)
    /\ TimerStart(k)
    /\ Send({Req(k, q)})
    /\ UNCHANGED <<peer, remote, doomed, Listener, met>>

\* iba_cm_accept on the client: send the RTU.
AcceptA(k) ==
    /\ state[k] \in Offered
    /\ To(k, "ESTABLISHED")
    /\ Send({Msg("RTU", peer[k], k)})
    /\ met' = met \cup {<<k, peer[k]>>}
    /\ UNCHANGED <<peer, qp, remote, retries, timer, doomed, Listener>>

\* iba_cm_reject, iba_cm_cancel or iba_cm_destroy_cep on a REP received.
RejectA(k) ==
    /\ state[k] \in Offered
    /\ ToIdle(k)
    /\ Send({Msg("REJ_REP", peer[k], None)})
    /\ UNCHANGED <<peer, retries, timer, doomed, Listener, met>>

\* iba_cm_cancel or iba_cm_destroy_cep on a REQ not answered: no message.
\* Mutant: the timer goes on.
CancelATimerOn(k) ==
    /\ state[k] \in Calling
    /\ ToIdle(k)
    /\ UNCHANGED <<peer, retries, timer, doomed, Listener, net, met>>

CancelA(k) ==
    /\ state[k] \in Calling
    /\ TimerStop(k)
    /\ ToIdle(k)
    /\ UNCHANGED <<peer, retries, doomed, Listener, net, met>>

-----------------------------------------------------------------------------
(* The server's calls.                                                     *)

Listen ==
    /\ ~listening
    /\ listening' = TRUE
    /\ UNCHANGED <<cepVars, pending, net, met>>

\* iba_cm_accept on the listener: a REP for the head of the list, with a
\* queue pair that no live CEP has (FCM_ADDR_INUSE otherwise).
AcceptP(q) ==
    /\ listening /\ pending # <<>>
    /\ \A n \in Ceps : qp[n] # q
    /\ LET p == Head(pending) IN
       /\ qp' = [qp EXCEPT ![p] = q]
       /\ Send({Message("REP", peer[p], p, q)})
       /\ To(p, "REP_SENT")
       /\ NoRetries(p)
       /\ TimerStart(p)
    /\ pending' = Tail(pending)
    /\ UNCHANGED <<peer, remote, doomed, listening, met>>

\* iba_cm_reject on the listener: the head of the list is rejected, destroyed.
RejectP ==
    /\ listening /\ pending # <<>>
    /\ LET p == Head(pending) IN
       /\ Send({Msg("REJ_REQ", peer[p], None)})
       /\ ToIdle(p)
    /\ pending' = Tail(pending)
    /\ UNCHANGED <<peer, retries, timer, doomed, listening, met>>

\* iba_cm_cancel or iba_cm_destroy_cep of the listener: every REQ on its list
\* is forgotten and no REJ is sent.
CancelListen ==
    /\ listening
    /\ LET gone == {p \in Answers : state[p] \in Ringing} IN
       /\ state' = [n \in Ceps |-> IF n \in gone THEN "IDLE" ELSE state[n]]
       /\ qp' = [n \in Ceps |-> IF n \in gone THEN None ELSE qp[n]]
       /\ remote' = [n \in Ceps |-> IF n \in gone THEN None ELSE remote[n]]
    /\ pending' = <<>>
    /\ listening' = FALSE
    /\ UNCHANGED <<peer, retries, timer, doomed, net, met>>

\* iba_cm_cancel or iba_cm_destroy_cep of an accepted CEP before the RTU: no
\* REJ is sent and the queue pair does not wait.
CancelP(p) ==
    /\ state[p] \in Replied
    /\ TimerStop(p)
    /\ ToIdle(p)
    /\ UNCHANGED <<peer, retries, doomed, Listener, net, met>>

-----------------------------------------------------------------------------
(* Disconnecting, on either side.                                          *)

DisconnectA(n) ==
    \/ /\ state[n] = "ESTABLISHED"
       /\ Send({Msg("DREQ", peer[n], n)})
       /\ To(n, "DREQ_SENT")
       /\ NoRetries(n)
       /\ TimerStart(n)
       /\ UNCHANGED <<qp, remote>>
    \/ /\ state[n] = "DREQ_RCVD"
       /\ Send({Msg("DREP", peer[n], n)})
       /\ ToTimewait(n)
       /\ UNCHANGED retries
    \/ /\ state[n] = "SIM_DREQ_RCVD"
       /\ ToTimewait(n)
       /\ UNCHANGED <<retries, net>>

\* iba_cm_disconnect: the state says which of DREQ and DREP is meant.
Disconnect(n) ==
    /\ ~doomed[n]
    /\ DisconnectA(n)
    /\ UNCHANGED <<peer, doomed, Listener, met>>

\* iba_cm_destroy_cep of a CEP that is, or has been, connected.
Destroy(n) ==
    /\ ~doomed[n]
    /\ \/ DisconnectA(n)
       \/ /\ state[n] \in {"DREQ_SENT", "TIMEWAIT"}
          /\ UNCHANGED <<state, qp, remote, retries, timer, net>>
    /\ doomed' = [doomed EXCEPT ![n] = TRUE]
    /\ UNCHANGED <<peer, Listener, met>>

-----------------------------------------------------------------------------
(* The messages.                                                           *)

Discard(m) ==
    /\ Answer(m, {})
    /\ UNCHANGED <<cepVars, Listener, met>>

\* What ProcessReq finds in RemoteEndPointMap for the sender of m.
\* Mutant: an end point in TIMEWAIT is taken for a free one.
KnownButWaiting(m) == {p \in Answers : remote[p] = m.qp /\ state[p] # "TIMEWAIT"}
Known(m) == {p \in Answers : remote[p] = m.qp}

\* PendingCount >= ListenBackLog; mutant: one REQ more.
FullOneMore == Len(pending) > Backlog
Full == Len(pending) >= Backlog

\* A REQ for which a CEP is made.  An MRA is sent when the server may take
\* longer than the client will wait, a matter of times left open here.
TakeReq(m, p) ==
    /\ Known(m) = {} /\ listening
    /\ ~Full
    /\ state[p] = "UNUSED"
    /\ peer' = [peer EXCEPT ![p] = m.from]
    /\ remote' = [remote EXCEPT ![p] = m.qp]
    /\ pending' = Append(pending, p)
    /\ \/ To(p, "REQ_RCVD") /\ Answer(m, {})
       \/ To(p, "MRA_REQ_SENT") /\ Answer(m, {Msg("MRA_REQ", m.from, p)})
    /\ UNCHANGED <<qp, retries, timer, doomed, listening, met>>

\* No listener, a full list, no memory, or a path the server does not have.
RefuseReq(m) ==
    /\ Known(m) = {}
    /\ Answer(m, {Msg("REJ_REQ", m.from, None)})
    /\ UNCHANGED <<cepVars, Listener, met>>

\* A REQ of the call the CEP is for: ProcessReqDup.
DupReq(m, p) ==
    /\ p \in Known(m) /\ peer[p] = m.from
    /\ \/ /\ state[p] = "REP_SENT"
          /\ TimerStart(p)
          /\ Answer(m, {Rep(p)})
          /\ UNCHANGED state
       \/ /\ state[p] \in Ringing
          /\ To(p, "MRA_REQ_SENT")
          /\ Answer(m, {Msg("MRA_REQ", m.from, p)})
          /\ UNCHANGED timer
       \/ /\ state[p] \notin {"REP_SENT", "MRA_REQ_SENT"}
          /\ Answer(m, {})
          /\ UNCHANGED <<state, timer>>
    /\ UNCHANGED <<peer, qp, remote, retries, doomed, Listener, met>>

\* A REQ of another call from the same queue pair: ProcessReqStale.  A CEP
\* that is connected takes it for a DREQ as well.
StaleReq(m, p) ==
    /\ p \in Known(m) /\ peer[p] # m.from
    /\ LET stale == Msg("STALE_REQ", m.from, None) IN
       \/ /\ state[p] \in Ringing \cup Replied
          /\ Answer(m, {stale})
          /\ UNCHANGED state
       \/ /\ state[p] = "ESTABLISHED"
          /\ Answer(m, {stale, Msg("DREQ", peer[p], p)})
          /\ To(p, "DREQ_RCVD")
       \/ /\ state[p] \in Disconnecting \cup {"TIMEWAIT"}
          /\ Answer(m, {})
          /\ UNCHANGED state
    /\ UNCHANGED <<peer, qp, remote, retries, timer, doomed, Listener, met>>

RcvReq(m) ==
    /\ m.type = "REQ"
    /\ \/ RefuseReq(m)
       \/ \E p \in Answers : TakeReq(m, p) \/ DupReq(m, p) \/ StaleReq(m, p)

RcvMraReq(m) ==
    /\ m.type = "MRA_REQ"
    /\ \/ /\ state[m.to] = "REQ_SENT"
          /\ To(m.to, "REP_WAIT")
          /\ peer' = [peer EXCEPT ![m.to] = m.from]
          /\ TimerStart(m.to)
          /\ Answer(m, {})
          /\ UNCHANGED <<qp, remote, retries, doomed, Listener, met>>
       \/ /\ state[m.to] # "REQ_SENT"
          /\ Discard(m)

\* The first REP, of a queue pair no other call of the node is connected to.
TakeRep(m, k) ==
    /\ state[k] \in Calling
    /\ \A n \in Calls : remote[n] # m.qp
    /\ TimerStop(k)
    /\ peer' = [peer EXCEPT ![k] = m.from]
    /\ remote' = [remote EXCEPT ![k] = m.qp]
    /\ To(k, "REP_RCVD")
    /\ Answer(m, {})
    /\ UNCHANGED <<qp, retries, doomed, Listener, met>>

StaleRep(m, k) ==
    /\ state[k] \in Calling
    /\ \E n \in Calls : remote[n] = m.qp
    /\ Answer(m, {Msg("STALE_REP", m.from, None)})
    /\ UNCHANGED <<cepVars, Listener, met>>

\* A REP that comes again: ask for time, or send the RTU again.  Mutant: the
\* ID of its sender is taken.
DupRepRenames(m, k) ==
    /\ state[k] = "ESTABLISHED"
    /\ peer' = [peer EXCEPT ![k] = m.from]
    /\ Answer(m, {Msg("RTU", m.from, k)})
    /\ UNCHANGED <<state, qp, remote, retries, timer, doomed, Listener, met>>

DupRep(m, k) ==
    /\ \/ /\ state[k] \in Offered
          /\ Answer(m, {Msg("MRA_REP", peer[k], k)})
          /\ To(k, "MRA_REP_SENT")
       \/ /\ state[k] = "ESTABLISHED"
          /\ Answer(m, {Msg("RTU", peer[k], k)})
          /\ UNCHANGED state
       \/ /\ state[k] \in {"DREQ_SENT", "DREQ_RCVD"}
          /\ Answer(m, {})
          /\ UNCHANGED state
       \/ /\ state[k] \in {"IDLE", "TIMEWAIT", "SIM_DREQ_RCVD"}
          /\ Answer(m, {Msg("REJ_REP", m.from, None)})
          /\ UNCHANGED state
    /\ UNCHANGED <<peer, qp, remote, retries, timer, doomed, Listener, met>>

RcvRep(m) ==
    /\ m.type = "REP"
    /\ TakeRep(m, m.to) \/ StaleRep(m, m.to) \/ DupRep(m, m.to)

RcvMraRep(m) ==
    /\ m.type = "MRA_REP"
    /\ \/ /\ state[m.to] = "REP_SENT"
          /\ To(m.to, "MRA_REP_RCVD")
          /\ TimerStart(m.to)
          /\ Answer(m, {})
          /\ UNCHANGED <<peer, qp, remote, retries, doomed, Listener, met>>
       \/ /\ state[m.to] # "REP_SENT"
          /\ Discard(m)

\* ProcessRtuPassive.  Mutant: an RTU that comes in TIMEWAIT is still good.
EstablishedLate(p) ==
    /\ state[p] \in Replied \cup {"TIMEWAIT"}
    /\ TimerStop(p)
    /\ To(p, "ESTABLISHED")
    /\ UNCHANGED <<peer, qp, remote, retries, doomed, Listener, met>>

BecomeEstablished(p) ==
    /\ state[p] \in Replied
    /\ TimerStop(p)
    /\ To(p, "ESTABLISHED")
    /\ UNCHANGED <<peer, qp, remote, retries, doomed, Listener, met>>

RcvRtu(m) ==
    /\ m.type = "RTU"
    /\ \/ BecomeEstablished(m.to) /\ Answer(m, {})
       \/ state[m.to] \notin Replied /\ Discard(m)

\* VpdAsyncEventCallback: data from the client reached the queue pair, whose
\* IB_AE_RQ_COMM_ESTABLISHED event does for the RTU.
CommEstablished(p) ==
    /\ qp[p] # None
    /\ \E k \in Calls : /\ state[k] \in {"ESTABLISHED", "DREQ_SENT", "DREQ_RCVD"}
                        /\ peer[k] = p
    /\ BecomeEstablished(p)
    /\ UNCHANGED net

\* ProcessRejReq, for a REJ of a REQ.
RcvRejReq(m) ==
    /\ m.type \in {"REJ_REQ", "STALE_REQ"}
    /\ LET k == m.to IN
       \/ /\ state[k] \in Calling /\ m.type = "STALE_REQ"
          /\ ToTimewait(k)
          /\ Answer(m, {})
          /\ UNCHANGED <<peer, retries, doomed, Listener, met>>
       \/ /\ state[k] \in Calling /\ m.type = "REJ_REQ"
          /\ TimerStop(k)
          /\ ToIdle(k)
          /\ Answer(m, {})
          /\ UNCHANGED <<peer, retries, doomed, Listener, met>>
       \/ /\ state[k] = "ESTABLISHED"
          /\ To(k, "SIM_DREQ_RCVD")
          /\ Answer(m, {})
          /\ UNCHANGED <<peer, qp, remote, retries, timer, doomed, Listener, met>>
       \/ /\ state[k] \notin Calling \cup {"ESTABLISHED"}
          /\ Discard(m)

\* ProcessRejRep, for a REJ of a REP.
RcvRejRep(m) ==
    /\ m.type \in {"REJ_REP", "STALE_REP"}
    /\ LET p == m.to IN
       \/ /\ state[p] \in Replied /\ m.type = "STALE_REP"
          /\ ToTimewait(p)
          /\ Answer(m, {})
          /\ UNCHANGED <<peer, retries, doomed, Listener, met>>
       \/ /\ state[p] \in Replied /\ m.type = "REJ_REP"
          /\ TimerStop(p)
          /\ ToIdle(p)
          /\ Answer(m, {})
          /\ UNCHANGED <<peer, retries, doomed, Listener, met>>
       \/ /\ state[p] \notin Replied
          /\ Discard(m)

\* DREQs that cross: a CEP its user has destroyed answers on its own.
\* Mutant: it waits for its user to answer.
CrossedDreqWaits(m, n) ==
    /\ state[n] = "DREQ_SENT"
    /\ TimerStop(n)
    /\ To(n, "DREQ_RCVD")
    /\ Answer(m, {})
    /\ UNCHANGED <<peer, qp, remote, retries, doomed, Listener, met>>

CrossedDreq(m, n) ==
    /\ state[n] = "DREQ_SENT"
    /\ \/ /\ ~doomed[n]
          /\ TimerStop(n)
          /\ To(n, "DREQ_RCVD")
          /\ Answer(m, {})
          /\ UNCHANGED <<qp, remote>>
       \/ /\ doomed[n]
          /\ ToTimewait(n)
          /\ Answer(m, {Msg("DREP", peer[n], n)})
    /\ UNCHANGED <<peer, retries, doomed, Listener, met>>

RcvDreq(m) ==
    /\ m.type = "DREQ"
    /\ LET n == m.to IN
       \/ /\ state[n] = "ESTABLISHED"
          /\ To(n, "DREQ_RCVD")
          /\ Answer(m, {})
          /\ UNCHANGED <<peer, qp, remote, retries, timer, doomed, Listener, met>>
       \/ CrossedDreq(m, n)
       \/ /\ state[n] \in {"SIM_DREQ_RCVD", "TIMEWAIT"}
          /\ Answer(m, {Msg("DREP", peer[n], n)})
          /\ UNCHANGED <<cepVars, Listener, met>>
       \/ /\ state[n] \notin {"ESTABLISHED", "DREQ_SENT", "SIM_DREQ_RCVD", "TIMEWAIT"}
          /\ Discard(m)

RcvDrep(m) ==
    /\ m.type = "DREP"
    /\ \/ /\ state[m.to] = "DREQ_SENT"
          /\ ToTimewait(m.to)
          /\ Answer(m, {})
          /\ UNCHANGED <<peer, retries, doomed, Listener, met>>
       \/ /\ state[m.to] # "DREQ_SENT"
          /\ Discard(m)

Receive(m) ==
    \/ RcvReq(m) \/ RcvMraReq(m) \/ RcvRep(m) \/ RcvMraRep(m) \/ RcvRtu(m)
    \/ RcvRejReq(m) \/ RcvRejRep(m) \/ RcvDreq(m) \/ RcvDrep(m)

-----------------------------------------------------------------------------
(* The timers: CmTimerCallback, by the state it finds.                     *)

ReqTimeout(k) ==
    /\ timer[k] /\ state[k] \in Calling
    /\ \/ /\ RetriesLeft(k)
          /\ Retry(k)
          /\ To(k, "REQ_SENT")
          /\ TimerStart(k)
          /\ Send({Req(k, qp[k])})
          /\ UNCHANGED <<qp, remote>>
       \/ /\ ~RetriesLeft(k)
          /\ NoRetries(k)
          /\ TimerStop(k)
          /\ ToIdle(k)
          /\ Send({Msg("REJ_REP", p, None) : p \in {peer[k]} \ {None}})
    /\ UNCHANGED <<peer, doomed, Listener, met>>

RepTimeout(p) ==
    /\ timer[p] /\ state[p] \in Replied
    /\ \/ /\ RetriesLeft(p)
          /\ Retry(p)
          /\ To(p, "REP_SENT")
          /\ TimerStart(p)
          /\ Send({Rep(p)})
          /\ UNCHANGED <<qp, remote>>
       \/ /\ ~RetriesLeft(p)
          /\ NoRetries(p)
          /\ ToTimewait(p)
          /\ Send({Msg("REJ_REQ", peer[p], None)})
    /\ UNCHANGED <<peer, doomed, Listener, met>>

DreqTimeout(n) ==
    /\ timer[n] /\ state[n] = "DREQ_SENT"
    /\ \/ /\ RetriesLeft(n)
          /\ Retry(n)
          /\ TimerStart(n)
          /\ Send({Msg("DREQ", peer[n], n)})
          /\ UNCHANGED <<state, qp, remote>>
       \/ /\ ~RetriesLeft(n)
          /\ ToTimewait(n)
          /\ UNCHANGED <<retries, net>>
    /\ UNCHANGED <<peer, doomed, Listener, met>>

TimewaitOver(n) ==
    /\ timer[n] /\ state[n] = "TIMEWAIT"
    /\ TimerStop(n)
    /\ ToIdle(n)
    /\ NoRetries(n)
    /\ UNCHANGED <<peer, doomed, Listener, net, met>>

Timeout(n) == ReqTimeout(n) \/ RepTimeout(n) \/ DreqTimeout(n) \/ TimewaitOver(n)

-----------------------------------------------------------------------------
Next ==
    \/ \E k \in Calls : \/ \E q \in ClientQPs : Connect(k, q)
                        \/ AcceptA(k) \/ RejectA(k) \/ CancelA(k)
    \/ Listen \/ RejectP \/ CancelListen
    \/ \E q \in ServerQPs : AcceptP(q)
    \/ \E p \in Answers : CancelP(p) \/ CommEstablished(p)
    \/ \E n \in Ceps : Disconnect(n) \/ Destroy(n) \/ Timeout(n)
    \/ \E m \in net : Receive(m)

Spec == Init /\ [][Next]_vars

(* The timers of the kernel and the user-mode timer thread do fire; users  *)
(* need not act and messages need not arrive.                              *)
FairSpec == Spec /\ \A n \in Ceps : WF_vars(Timeout(n))

-----------------------------------------------------------------------------
(* Properties.                                                             *)

StatesOK ==
    /\ state \in [Ceps -> CallStates \cup AnswerStates]
    /\ \A k \in Calls : state[k] \in CallStates
    /\ \A p \in Answers : state[p] \in AnswerStates

CepsOK ==
    /\ peer \in [Ceps -> Ceps \cup {None}]
    /\ qp \in [Ceps -> QPs \cup {None}]
    /\ remote \in [Ceps -> QPs \cup {None}]
    /\ retries \in [Ceps -> 0 .. MaxRetries]
    /\ timer \in [Ceps -> BOOLEAN]
    /\ doomed \in [Ceps -> BOOLEAN]

ListOK ==
    /\ listening \in BOOLEAN
    /\ pending \in Seq(Answers)

TypeOK ==
    /\ StatesOK /\ CepsOK /\ ListOK
    /\ net \subseteq Messages
    /\ met \subseteq Calls \X Answers

\* A timer runs for a CEP exactly while something is to happen if nothing
\* comes: no hand-over between an answer, a cancel and a time-out leaves a
\* timer running in a state that does not expect it (the ASSERTs of
\* CmTimerStart and DestroyCEP) or a wait that nothing ends.
Timed == Calling \cup Replied \cup {"DREQ_SENT", "TIMEWAIT"}
TimersRun == \A n \in Ceps : timer[n] <=> state[n] \in Timed

\* PendingList holds exactly the CEPs whose REQ is not answered, each once,
\* and never more than the backlog, whatever REQs are repeated, refused,
\* accepted and cancelled in between.
PendingIsRinging ==
    /\ {pending[i] : i \in 1 .. Len(pending)} = {p \in Answers : state[p] \in Ringing}
    /\ \A i, j \in 1 .. Len(pending) : pending[i] = pending[j] => i = j
    /\ Len(pending) <= Backlog
    /\ pending # <<>> => listening

\* No two live CEPs of a node have the same local, or the same remote, queue
\* pair: both maps of end points are one-to-one.  A call that reuses the queue
\* pair of an earlier one meets no server CEP of the earlier one still open.
EndPointsUnique ==
    /\ \A n, o \in Ceps : qp[n] = qp[o] /\ qp[n] # None => n = o
    /\ \A n, o \in Calls : remote[n] = remote[o] /\ remote[n] # None => n = o
    /\ \A n, o \in Answers : remote[n] = remote[o] /\ remote[n] # None => n = o

\* A call and an answer that were connected are connected to each other and to
\* no one else, though no handler checks who sent what it is given: the
\* client's REP, accepted, names the answer, whose RemoteCommID names the call.
PartnersAgree ==
    /\ \A k \in Calls, p \in Answers :
           <<k, p>> \in met => peer[k] = p /\ peer[p] = k
    /\ \A k \in Calls : state[k] \in {"ESTABLISHED"} \cup Disconnecting =>
                            <<k, peer[k]>> \in met
    /\ \A p \in Answers : state[p] \in {"ESTABLISHED"} \cup Disconnecting =>
                            <<peer[p], p>> \in met

\* What the clients and the server have of their calls, and the promise to
\* them, which this module implements: see CmRendezvous.
CallPhase(s) ==
    CASE s = "UNUSED" -> "none"
      [] s \in Calling \cup Offered -> "calling"
      [] s = "ESTABLISHED" -> "open"
      [] OTHER -> "closed"

AnswerPhase(s) ==
    CASE s = "UNUSED" -> "none"
      [] s \in Ringing \cup Replied -> "ringing"
      [] s = "ESTABLISHED" -> "open"
      [] OTHER -> "closed"

Rendezvous == INSTANCE CmRendezvous WITH
    call <- [k \in Calls |-> CallPhase(state[k])],
    answer <- [p \in Answers |-> AnswerPhase(state[p])],
    caller <- [p \in Answers |-> peer[p]]

\* However messages are lost, repeated and overtaken, a call meets one answer
\* at most, the server is connected only to a client that accepted it, and
\* nothing that was closed opens again.
ImplementsRendezvous == Rendezvous!Spec

\* A wait of the CM ends: a REQ, a REP or a DREQ is answered, given up or
\* cancelled, and TIMEWAIT passes, whatever messages are lost and repeated.
WaitsEnd == \A n \in Ceps : state[n] \in Timed ~> state[n] \notin Timed

\* A CEP that was destroyed while connected gives its ID and queue pair back.
DestroyedGoes == \A n \in Ceps : doomed[n] ~> state[n] = "IDLE"

\* The comment at cm_gsa.c:2387: a REJ that finds the client connected says
\* the other side did not get the RTU, and is treated as a DREQ.  A server that
\* gives up on a client's RTU is thus not left behind by a connected client
\* to which no word of it is on the way.
NotLeftConnected ==
    \A k \in Calls :
        /\ state[k] = "ESTABLISHED" /\ state[peer[k]] = "TIMEWAIT"
        => \E m \in net : m.to = k \/ (m.to = peer[k] /\ m.type = "RTU")
=============================================================================
