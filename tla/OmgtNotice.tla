----------------------------- MODULE OmgtNotice -----------------------------
(***************************************************************************)
(* Registration for traps of one opamgt port (src/opamgt/src: ib_notice.c, *)
(* opamgt_sa_notice.c, the port thread and the closing of a port in       *)
(* opamgt.c), over a subnet administrator (SA) that may lose, delay and    *)
(* reorder what it is sent.                                                *)
(*                                                                         *)
(* Three threads: the user's, which registers, unregisters and closes;    *)
(* the user's reader of notices; and the port thread, which does the       *)
(* rest.  The user and the port thread share port->lock, a semaphore that  *)
(* is waited for 5 seconds at most, and two datagram sockets, one each     *)
(* way, in which a writer waits while the socket is full.  What is done    *)
(* under the lock up to such a write is one step.                          *)
(***************************************************************************)
EXTENDS Integers, Sequences, FiniteSets

CONSTANTS
    Traps,        \* trap numbers
    Regs,         \* registrations, each allocated once: a bound
    Msgs,         \* messages to the SA, each allocated once: a bound
    MaxRetries,   \* NOTICE_REG_RETRY_COUNT
    SendBufs,     \* num_userspace_send_buf
    RoomIn,       \* datagrams the socket to the port thread holds
    RoomOut,      \* datagrams the socket to the user holds
    MaxEvents,    \* bound on the notices the SA reports and the changes of the SM
    None

\* What a message to the SA asks: an InformInfo that subscribes or not.
Asked == [trap : Traps, subscribe : BOOLEAN]

ASSUME NoticeAssumption ==
    /\ MaxRetries \in Nat \ {0} /\ SendBufs \in Nat \ {0}
    /\ RoomIn \in Nat \ {0} /\ RoomOut \in Nat \ {0}
    /\ MaxEvents \in Nat
    /\ None \notin Regs \cup Msgs \cup Traps \cup Asked

VARIABLES
    regs,      \* regs_list
    trap,      \* trap_num of each registration; None before it is allocated
    regmsg,    \* reg_msg of each registration
    pending,   \* pending_reg_msg_head: the messages not answered
    asked,     \* what each message asks; None before it is allocated
    owner,     \* reg of each message
    retries,   \* retries of each message
    sending,   \* messages in the queue pair: in_q
    sent,      \* those of them whose completion is in the CQ
    replies,   \* completions of report responses in the CQ
    cnt,       \* outstanding_sends_cnt
    sem,       \* value of port->lock
    in,        \* socket to the port thread
    out,       \* socket to the user
    timer,     \* poll_timeout_ms # -1
    polled,    \* run_sa_cq_poll
    tpc,       \* what the port thread is doing
    walk,      \* what its walk along a list has left
    again,     \* new_timeout_ms # -1
    upc,       \* what the user's thread is doing
    cur,       \* the registration it is making
    qp,        \* sa_qp # NULL
    reading,   \* the reader has not been cancelled
    requests,  \* on their way to the SA
    answers,   \* on their way to the port
    notices,   \* traps reported, on their way to the port
    told,      \* registrations whose time-out was put in the socket
    subs,      \* traps the SA has a subscription of the port for
    event,     \* IBV_EVENT_SM_CHANGE or _CLIENT_REREGISTER waits
    left       \* notices and changes still to come

msgVars == <<pending, asked, owner, retries, sending, cnt, requests>>
regVars == <<regs, trap, regmsg>>
thread == <<tpc, walk, again>>
user == <<upc, cur, qp, reading>>
sa == <<subs, event, left>>
vars == <<regVars, msgVars, sent, replies, sem, in, out, timer, polled, thread,
          user, answers, notices, told, sa>>

-----------------------------------------------------------------------------
(* Messages.                                                               *)

\* The transaction ID: a new one at each send.  The last retry counts down to
\* zero without a send, and leaves the ID of the send before.
Tid(m) == <<m, IF retries[m] = 0 THEN 1 ELSE retries[m]>>

NoBuffersOneMore == cnt > SendBufs
NoBuffers == cnt >= SendBufs

\* ibv_post_send of m with its n-th ID, which may fail.
Post(m, n) ==
    \/ /\ ~NoBuffers
       /\ sending' = sending \cup {m}
       /\ cnt' = cnt + 1
       /\ requests' = requests \cup {<<m, n>>}
    \/ UNCHANGED <<sending, cnt, requests>>

\* A message of r that asks a, put on the list and sent.
NewMsg(m, r, a) ==
    /\ asked' = [asked EXCEPT ![m] = a]
    /\ owner' = [owner EXCEPT ![m] = r]
    /\ retries' = [retries EXCEPT ![m] = MaxRetries]
    /\ pending' = pending \cup {m}
    /\ Post(m, MaxRetries)

\* Messages and registrations come in a fixed order: which is used does not matter.
FreshMsgs == LET free == {m \in Msgs : asked[m] = None} IN
             IF free = {} THEN {} ELSE {CHOOSE m \in free : TRUE}
FreshRegs == LET free == {r \in Regs : trap[r] = None} IN
             IF free = {} THEN {} ELSE {CHOOSE r \in free : TRUE}

\* A message is taken off the list and freed.
Free(m) ==
    /\ pending' = pending \ {m}
    /\ owner' = [owner EXCEPT ![m] = None]
    /\ retries' = [retries EXCEPT ![m] = 0]

Subscription(r) == [trap |-> trap[r], subscribe |-> TRUE]
Cancellation(r) == [trap |-> trap[r], subscribe |-> FALSE]

-----------------------------------------------------------------------------
(* The lock and the sockets.                                               *)

\* The lock is held by a thread that waits for room in a socket: the other
\* one gives up after 5 seconds.
UserStuck == upc \in {"qp", "timer", "untimer"} /\ Len(in) = RoomIn
ThreadStuck == \/ tpc = "repost" /\ Len(out) = RoomOut
               \/ tpc = "reregister" /\ Len(in) = RoomIn

Lock == sem > 0 /\ sem' = sem - 1
Unlock == sem' = sem + 1

\* A section of the port thread that does not look at what omgt_lock_sem
\* returns: without the lock it releases it all the same.
Section == \/ sem > 0 /\ UNCHANGED sem
           \/ sem = 0 /\ UserStuck /\ Unlock

ToThread(x) == Len(in) < RoomIn /\ in' = Append(in, x)
ToUser(x) == Len(out) < RoomOut /\ out' = Append(out, x)

-----------------------------------------------------------------------------
(* The user's thread.                                                      *)

Init ==
    /\ regs = {} /\ trap = [r \in Regs |-> None] /\ regmsg = [r \in Regs |-> None]
    /\ pending = {} /\ asked = [m \in Msgs |-> None]
    /\ owner = [m \in Msgs |-> None] /\ retries = [m \in Msgs |-> 0]
    /\ sending = {} /\ sent = {} /\ replies = 0 /\ cnt = 0
    /\ sem = 1 /\ in = <<>> /\ out = <<>> /\ timer = FALSE /\ polled = FALSE
    /\ tpc = "poll" /\ walk = {} /\ again = FALSE
    /\ upc = "idle" /\ cur = None /\ qp = FALSE /\ reading = TRUE
    /\ requests = {} /\ answers = {} /\ notices = {} /\ told = {}
    /\ subs = {} /\ event = FALSE
    /\ left = MaxEvents

\* omgt_sa_register_trap.  A trap that is registered is left alone.
Register(t, r) ==
    /\ upc = "idle" /\ r \in FreshRegs
    /\ \A o \in regs : trap[o] # t
    /\ Lock
    /\ trap' = [trap EXCEPT ![r] = t]
    /\ cur' = r
    /\ upc' = IF qp THEN "post" ELSE "qp"
    /\ UNCHANGED <<regs, regmsg, msgVars, sent, replies, in, out, timer, polled,
                   thread, qp, reading, answers, notices, told, sa>>

\* create_sa_qp, up to the start of the CQ monitor.
CreateQp ==
    /\ upc = "qp"
    /\ ToThread("on")
    /\ qp' = TRUE
    /\ upc' = "post"
    /\ UNCHANGED <<regVars, msgVars, sent, replies, sem, out, timer, polled,
                   thread, cur, reading, answers, notices, told, sa>>

\* userspace_register, up to the start of the timer.
PostRegister(m) ==
    /\ upc = "post" /\ m \in FreshMsgs
    /\ NewMsg(m, cur, Subscription(cur))
    /\ regmsg' = [regmsg EXCEPT ![cur] = m]
    /\ upc' = "timer"
    /\ UNCHANGED <<regs, trap, sent, replies, sem, in, out, timer, polled,
                   thread, cur, qp, reading, answers, notices, told, sa>>

AddReg ==
    /\ upc = "timer"
    /\ ToThread("timer")
    /\ regs' = regs \cup {cur}
    /\ cur' = None
    /\ upc' = "idle"
    /\ Unlock
    /\ UNCHANGED <<trap, regmsg, msgVars, sent, replies, out, timer, polled,
                   thread, qp, reading, answers, notices, told, sa>>

\* userspace_unregister of a registration that is taken off the list and freed:
\* its message is freed with it, or the SA is asked to forget it.
DropReg(r) ==
    /\ regs' = regs \ {r}
    /\ \/ /\ regmsg[r] # None
          /\ Free(regmsg[r])
          /\ UNCHANGED <<asked, sending, cnt, requests, upc>>
       \/ /\ regmsg[r] = None
          /\ \E m \in FreshMsgs : NewMsg(m, None, Cancellation(r))
          /\ upc' = "untimer"
    /\ UNCHANGED <<trap, regmsg, sent, replies, in, out, timer, polled, thread,
                   cur, qp, reading, answers, notices, told, sa>>

\* omgt_sa_unregister_trap.
Unregister(r) ==
    /\ upc = "idle" /\ r \in regs
    /\ sem > 0
    /\ IF regmsg[r] = None THEN Lock ELSE UNCHANGED sem
    /\ DropReg(r)

\* start_outstanding_req_timer of userspace_unregister.
Unregistered ==
    /\ upc = "untimer"
    /\ ToThread("timer")
    /\ IF reading THEN upc' = "idle" /\ Unlock
                  ELSE upc' = "clear" /\ UNCHANGED sem
    /\ UNCHANGED <<regVars, msgVars, sent, replies, out, timer, polled, thread,
                   cur, qp, reading, answers, notices, told, sa>>

\* dsap_terminate_notification: the reader is cancelled, the port closed.
Close ==
    /\ upc = "idle" /\ reading
    /\ reading' = FALSE
    /\ upc' = "close"
    /\ UNCHANGED <<regVars, msgVars, sent, replies, sem, in, out, timer, polled,
                   thread, cur, qp, answers, notices, told, sa>>

\* omgt_sa_clear_regs_unsafe, which does nothing if it cannot have the lock.
ClearRegs ==
    /\ upc = "close"
    /\ \/ Lock /\ upc' = "clear"
       \/ sem = 0 /\ ThreadStuck /\ upc' = "wait" /\ UNCHANGED sem
    /\ UNCHANGED <<regVars, msgVars, sent, replies, in, out, timer, polled,
                   thread, cur, qp, reading, answers, notices, told, sa>>

ClearReg(r) ==
    /\ upc = "clear" /\ r \in regs
    /\ UNCHANGED sem
    /\ DropReg(r)

Cleared ==
    /\ upc = "clear" /\ regs = {}
    /\ Unlock
    /\ upc' = "wait"
    /\ UNCHANGED <<regVars, msgVars, sent, replies, in, out, timer, polled,
                   thread, cur, qp, reading, answers, notices, told, sa>>

\* destroy_sa_qp: an empty list, or 5 seconds, are waited for, and the thread
\* is told to stop.
StopMonitor ==
    /\ upc = "wait"
    /\ ToThread("off")
    /\ upc' = "off"
    /\ UNCHANGED <<regVars, msgVars, sent, replies, sem, out, timer, polled,
                   thread, cur, qp, reading, answers, notices, told, sa>>

\* join_port_thread.  Mutant: the message is not sent.
ShutdownUnsent ==
    /\ upc = "off"
    /\ upc' = "join"
    /\ UNCHANGED <<regVars, msgVars, sent, replies, sem, in, out, timer, polled,
                   thread, cur, qp, reading, answers, notices, told, sa>>

Shutdown ==
    /\ upc = "off"
    /\ ToThread("shutdown")
    /\ upc' = "join"
    /\ UNCHANGED <<regVars, msgVars, sent, replies, sem, out, timer, polled,
                   thread, cur, qp, reading, answers, notices, told, sa>>

\* The messages left are freed, and the port.
Join ==
    /\ upc = "join" /\ tpc = "ended"
    /\ upc' = "closed"
    /\ pending' = {}
    /\ UNCHANGED <<regVars, asked, owner, retries, sending, cnt, requests, sent,
                   replies, sem, in, out, timer, polled, thread, cur, qp,
                   reading, answers, notices, told, sa>>

\* omgt_sa_get_notice_report, called again and again.
GetReport ==
    /\ reading /\ out # <<>>
    /\ out' = Tail(out)
    /\ UNCHANGED <<regVars, msgVars, sent, replies, sem, in, timer, polled,
                   thread, user, answers, notices, told, sa>>

-----------------------------------------------------------------------------
(* The port thread.                                                        *)

\* handle_th_msg.
TakeMessage ==
    /\ tpc = "poll" /\ in # <<>>
    /\ LET x == Head(in) IN
       /\ polled' = IF x = "on" THEN TRUE ELSE IF x = "off" THEN FALSE ELSE polled
       /\ timer' = (timer \/ x = "timer")
       /\ tpc' = IF x = "shutdown" THEN "ended" ELSE "poll"
    /\ in' = Tail(in)
    /\ UNCHANGED <<regVars, msgVars, sent, replies, sem, out, walk, again, user,
                   answers, notices, told, sa>>

\* find_req_by_tid; mutant: any message about the same trap will do.
FindByTrap(x) == {m \in pending : asked[m].trap = asked[x[1]].trap}
Find(x) == {m \in pending : Tid(m) = x}

\* process_sa_get_resp.  Mutant: reg_msg is left.
CompleteQuietly(m) == UNCHANGED regmsg
Complete(m) == regmsg' = IF owner[m] # None
                         THEN [regmsg EXCEPT ![owner[m]] = None] ELSE regmsg

ProcessGetResp(x) ==
    /\ tpc = "poll" /\ polled /\ x \in answers
    /\ Section
    /\ answers' = answers \ {x}
    /\ \/ /\ Find(x) = {}
          /\ UNCHANGED <<regmsg, pending, owner, retries>>
       \/ \E m \in Find(x) : Complete(m) /\ Free(m)
    /\ UNCHANGED <<regs, trap, asked, sending, cnt, requests, sent, replies, in,
                   out, timer, polled, thread, user, notices, told, sa>>

\* process_sa_report: the report is answered under the lock, by a send that may
\* fail, and then passed on.
ProcessReport(t) ==
    /\ tpc = "poll" /\ polled /\ t \in notices
    /\ notices' = notices \ {t}
    /\ \/ /\ sem > 0
          /\ replies' \in {replies, replies + 1}
          /\ tpc' = "report" /\ walk' = {t}
       \/ /\ sem = 0 /\ UserStuck
          /\ UNCHANGED <<replies, tpc, walk>>
    /\ UNCHANGED <<regVars, msgVars, sent, sem, in, out, timer, polled, again,
                   user, answers, told, sa>>

PassOn(t) ==
    /\ tpc = "report" /\ t \in walk
    /\ ToUser(t)
    /\ tpc' = "poll" /\ walk' = {}
    /\ UNCHANGED <<regVars, msgVars, sent, replies, sem, in, timer, polled, again,
                   user, answers, notices, told, sa>>

\* process_wc of a send, also of one whose message has been freed, and of the
\* answer to a report, which was never counted.
SendDone(m) ==
    /\ tpc = "poll" /\ polled /\ m \in sent
    /\ Section
    /\ sent' = sent \ {m}
    /\ sending' = sending \ {m}
    /\ cnt' = cnt - 1
    /\ UNCHANGED <<regVars, pending, asked, owner, retries, requests, replies, in,
                   out, timer, polled, thread, user, answers, notices, told, sa>>

ReplyDone ==
    /\ tpc = "poll" /\ polled /\ replies > 0
    /\ Section
    /\ replies' = replies - 1
    /\ cnt' = cnt - 1
    /\ UNCHANGED <<regVars, pending, asked, owner, retries, sending, requests,
                   sent, in, out, timer, polled, thread, user, answers, notices,
                   told, sa>>

\* poll returns 0: nothing to be read for a second.  repost_pending_registrations
\* begins.
PollTimeout ==
    /\ tpc = "poll" /\ timer
    /\ in = <<>> /\ ~event /\ (polled => sent = {} /\ replies = 0)
    /\ Lock
    /\ tpc' = "repost" /\ walk' = pending
    /\ UNCHANGED <<regVars, msgVars, sent, replies, in, out, timer, polled, again, user,
                   answers, notices, told, sa>>

\* post_send_sa_msg for a retry.  Mutant: the retry is not counted.
NoCountDown(m) == UNCHANGED retries
CountDown(m) == retries' = [retries EXCEPT ![m] = @ - 1]

Repost(m) ==
    /\ tpc = "repost" /\ m \in walk /\ retries[m] > 0
    /\ walk' = walk \ {m}
    /\ again' = TRUE
    /\ \/ /\ m \in sending \/ NoBuffers
          /\ UNCHANGED <<retries, sending, cnt, requests>>
       \/ /\ m \notin sending /\ ~NoBuffers
          /\ CountDown(m)
          /\ IF retries[m] = 1 THEN UNCHANGED <<sending, cnt, requests>>
                               ELSE Post(m, retries[m] - 1)
    /\ UNCHANGED <<regVars, pending, asked, owner, sent, replies, sem, in, out,
                   timer, polled, tpc, user, answers, notices, told, sa>>

\* A registration that has no retries left is given up and its owner told.
GiveUp(m) ==
    /\ tpc = "repost" /\ m \in walk /\ retries[m] = 0
    /\ walk' = walk \ {m}
    /\ Free(m)
    /\ \/ /\ owner[m] # None
          /\ ToUser(owner[m])
          /\ told' = told \cup {owner[m]}
          /\ regmsg' = [regmsg EXCEPT ![owner[m]] = None]
       \/ /\ owner[m] = None
          /\ UNCHANGED <<out, told, regmsg>>
    /\ UNCHANGED <<regs, trap, asked, sending, cnt, requests, sent, replies, sem,
                   in, timer, polled, tpc, again, user, answers, notices, sa>>

Reposted ==
    /\ tpc = "repost" /\ walk = {}
    /\ timer' = again /\ again' = FALSE
    /\ tpc' = "poll"
    /\ Unlock
    /\ UNCHANGED <<regVars, msgVars, sent, replies, in, out, polled, walk, user,
                   answers, notices, told, sa>>

\* update_umad_port_cache: reregister_traps sends a registration for every trap
\* again, unless it cannot have the lock.
SmEvent ==
    /\ tpc = "poll" /\ event
    /\ event' = FALSE
    /\ \/ Lock /\ tpc' = "reregister" /\ walk' = regs
       \/ sem = 0 /\ UserStuck /\ UNCHANGED <<sem, tpc, walk>>
    /\ UNCHANGED <<regVars, msgVars, sent, replies, in, out, timer, polled, again,
                   user, answers, notices, told, subs, left>>

\* userspace_register in the port thread, which writes to the socket it reads:
\* if that is full the thread is there for ever.
Reregister(r, m) ==
    /\ tpc = "reregister" /\ r \in walk /\ m \in FreshMsgs
    /\ walk' = walk \ {r}
    /\ NewMsg(m, r, Subscription(r))
    /\ regmsg' = [regmsg EXCEPT ![r] = m]
    /\ ToThread("timer")
    /\ UNCHANGED <<regs, trap, sent, replies, sem, out, timer, polled, tpc, again,
                   user, answers, notices, told, sa>>

Reregistered ==
    /\ tpc = "reregister" /\ walk = {}
    /\ tpc' = "poll"
    /\ Unlock
    /\ UNCHANGED <<regVars, msgVars, sent, replies, in, out, timer, polled, walk,
                   again, user, answers, notices, told, sa>>

-----------------------------------------------------------------------------
(* The queue pair, the SA and the SM.                                      *)

Transmitted(m) ==
    /\ m \in sending \ sent
    /\ sent' = sent \cup {m}
    /\ UNCHANGED <<regVars, msgVars, replies, sem, in, out, timer, polled, thread,
                   user, answers, notices, told, sa>>

SaTakes(x) ==
    /\ x \in requests
    /\ requests' = requests \ {x}
    /\ LET a == asked[x[1]] IN
       subs' = IF a.subscribe THEN subs \cup {a.trap} ELSE subs \ {a.trap}
    /\ answers' = answers \cup {x}
    /\ UNCHANGED <<regVars, pending, asked, owner, retries, sending, cnt, sent,
                   replies, sem, in, out, timer, polled, thread, user, notices,
                   told, event, left>>

SaReports(t) ==
    /\ left > 0 /\ t \in subs
    /\ left' = left - 1
    /\ notices' = notices \cup {t}
    /\ UNCHANGED <<regVars, msgVars, sent, replies, sem, in, out, timer, polled,
                   thread, user, answers, told, subs, event>>

\* Another SM takes over, which knows of no subscription.
SmChanges ==
    /\ left > 0
    /\ left' = left - 1
    /\ subs' = {}
    /\ event' = TRUE
    /\ UNCHANGED <<regVars, msgVars, sent, replies, sem, in, out, timer, polled,
                   thread, user, answers, notices, told>>

-----------------------------------------------------------------------------
ThreadStep ==
    \/ TakeMessage \/ ReplyDone \/ PollTimeout \/ Reposted \/ SmEvent \/ Reregistered
    \/ \E x \in answers : ProcessGetResp(x)
    \/ \E t \in Traps : ProcessReport(t) \/ PassOn(t)
    \/ \E m \in Msgs : SendDone(m) \/ Repost(m) \/ GiveUp(m)
    \/ \E r \in Regs, m \in Msgs : Reregister(r, m)

\* The rest of a call that has begun.
UserStep ==
    \/ CreateQp \/ AddReg \/ Unregistered \/ ClearRegs \/ Cleared
    \/ StopMonitor \/ Shutdown \/ Join
    \/ \E m \in Msgs : PostRegister(m)
    \/ \E r \in Regs : ClearReg(r)

Environment ==
    \/ \E m \in Msgs : Transmitted(m)
    \/ \E x \in requests : SaTakes(x)
    \/ \E t \in Traps : SaReports(t)
    \/ SmChanges

Next ==
    \/ ThreadStep \/ UserStep \/ Environment \/ Close \/ GetReport
    \/ \E r \in Regs : Unregister(r) \/ \E t \in Traps : Register(t, r)

Spec == Init /\ [][Next]_vars

FairSpec ==
    /\ Spec
    /\ WF_vars(ThreadStep) /\ WF_vars(UserStep) /\ WF_vars(GetReport)
    /\ \A m \in Msgs : WF_vars(Transmitted(m))

-----------------------------------------------------------------------------
(* Properties.                                                             *)

RegsOK ==
    /\ regs \subseteq Regs /\ trap \in [Regs -> Traps \cup {None}]
    /\ regmsg \in [Regs -> Msgs \cup {None}]

MsgsOK ==
    /\ pending \subseteq Msgs /\ asked \in [Msgs -> Asked \cup {None}]
    /\ owner \in [Msgs -> Regs \cup {None}] /\ retries \in [Msgs -> 0..MaxRetries]
    /\ sending \subseteq Msgs /\ cnt \in Int /\ cnt <= SendBufs
    /\ requests \subseteq Msgs \X (0..MaxRetries)

QpOK ==
    /\ sent \subseteq sending /\ replies \in Nat
    /\ answers \subseteq Msgs \X (0..MaxRetries) /\ notices \subseteq Traps

PortOK ==
    /\ sem \in Nat /\ timer \in BOOLEAN /\ polled \in BOOLEAN
    /\ in \in Seq({"on", "off", "timer", "shutdown"}) /\ Len(in) <= RoomIn
    /\ out \in Seq(Traps \cup Regs) /\ Len(out) <= RoomOut

ThreadOK ==
    /\ tpc \in {"poll", "report", "repost", "reregister", "ended"}
    /\ walk \subseteq Traps \cup Msgs \cup Regs /\ again \in BOOLEAN

UserOK ==
    /\ upc \in {"idle", "qp", "post", "timer", "untimer", "clear", "close", "wait",
                "off", "join", "closed"}
    /\ cur \in Regs \cup {None} /\ qp \in BOOLEAN /\ reading \in BOOLEAN

SaOK ==
    /\ told \subseteq Regs /\ subs \subseteq Traps /\ event \in BOOLEAN
    /\ left \in 0..MaxEvents

\* Type invariant, with two bounds that post_send_sa_msg keeps: what it counts in
\* outstanding_sends_cnt is never more than the send buffers (more than that may
\* be outstanding, because answers to reports are counted down and not up), and
\* the retries of a message are counted down to zero and no further.
TypeOK == RegsOK /\ MsgsOK /\ QpOK /\ PortOK /\ ThreadOK /\ UserOK /\ SaOK

\* The message that a registration points at is on the list and points back at
\* the registration, so that userspace_unregister never frees a message twice or
\* one that is another's, whatever answers, retries and changes of the SM cross.
RegMsgLive ==
    upc # "closed" => \A r \in regs : regmsg[r] # None =>
        regmsg[r] \in pending /\ owner[regmsg[r]] = r

\* A registration of an open port that has no message on its way is one the SA
\* knows of: unless its user was told that it timed out, or has asked for the
\* trap to be forgotten since the port was opened, or the SM has just changed.
SubscribedOrTold ==
    \A r \in regs :
        \/ trap[r] \in subs \/ upc = "closed"
        \/ r \in told \/ event \/ (tpc = "reregister" /\ r \in walk)
        \/ \E m \in pending : owner[m] = r
        \/ \E m \in Msgs : asked[m] = Cancellation(r)

\* The registration that a message points at has not been freed, as the check of
\* req->reg in process_sa_get_resp takes for granted ("Check if the registration
\* has been freed").  The code does not keep this.
OwnersLive == \A m \in pending : owner[m] \in regs \cup {cur, None}

\* The port thread waits for ever for room in a socket: in the one to a reader
\* that was cancelled, or in the one that only it reads.
Blocked ==
    \/ ~reading /\ Len(out) = RoomOut
    \/ tpc = "reregister" /\ Len(in) = RoomIn

\* Every message to the SA is answered, or given up after its retries, unless the
\* port thread is told to end or is blocked.
RegistrationEnds ==
    \A m \in Msgs : m \in pending ~> m \notin pending \/ tpc = "ended" \/ Blocked

\* Once the reader has been cancelled, omgt_close_port returns, unless the port
\* thread is blocked.
CloseReturns == upc = "close" ~> upc = "closed" \/ Blocked

=============================================================================
