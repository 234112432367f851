---------------------------- MODULE RmppReceiver ----------------------------
(* The receiver of RMPP messages, IbAccess/Common/Ibt/Gsa/gsasar2.c: it       *)
(* reassembles the segments of a management datagram, acknowledges them and   *)
(* hands the message to the client.  The state of a message under way is a    *)
(* SAR context.  The GSA event thread, the callbacks of the contexts' timers, *)
(* the reaper and the unloader use the contexts, and count references to know *)
(* when one can be freed.                                                     *)
(*                                                                            *)
(* What a thread does while it holds the lock of a context is one step; what  *)
(* it does to the list of contexts or to the reference count after it let go  *)
(* of the lock is another.  The network delivers any segment at any time and  *)
(* any number of times, which covers loss, delay, reordering and every sender *)
(* however it reads the acknowledgements.  The sender of this code is not     *)
(* implemented, so SARSendList is empty and no context is double sided.       *)
EXTENDS Integers, Sequences, FiniteSets, SequencesExt

CONSTANTS
    Contexts,    \* the memory for SAR contexts
    Keys,        \* class, transaction and remote address of a message
    Shapes,      \* what a message may be: its segments, the number announced in the
                 \* first one (0 for none), whether it is a response (the R bit)
    WindowSize,  \* RmppWindowSize
    LowWater,    \* RmppWindowLowWater
    MaxExtra,    \* bound: packets that arrive beyond those that a message needs
    None

ASSUME RmppAssumption ==
    /\ Shapes \subseteq [segs : Nat \ {0}, total : Nat, response : BOOLEAN]
    /\ \A s \in Shapes : s.segs = 1 <=> s.total = 1
    /\ WindowSize \in Nat \ {0} /\ LowWater \in Nat \ {0}
    /\ MaxExtra \in Nat
    /\ None \notin Contexts

VARIABLES
    message,   \* the message under each key
    sar,       \* the contexts, with their timers and callbacks
    recvList,  \* SARRecvList
    rx,        \* the GSA event thread: the packet, the context, the result
    unload,    \* DestroySARContexts
    reply,     \* the last reply sent
    given,     \* the keys of the messages handed to the client
    out,       \* datagrams that the GSA has out of their pool
    packets    \* how many packets have arrived

vars == <<message, sar, recvList, rx, unload, reply, given, out, packets>>

Listed(c) == \E i \in DOMAIN recvList : recvList[i] = c

Armed == {"active", "timewait", "timewait_recv"}    \* SarContextTimerArmed

Unused == [mem |-> "free", key |-> None, State |-> "created", ExpectedSeg |-> 1,
           WindowLast |-> 1, TotalSegs |-> 0, RecvHead |-> <<>>, RefCount |-> 0,
           timer |-> "off", due |-> "none", lateEnter |-> 0, lateWait |-> 0,
           lost |-> 0]

Idle == [pc |-> "idle", pkt |-> None, c |-> None, status |-> "none", list |-> <<>>]

Init ==
    /\ message \in [Keys -> Shapes]
    /\ sar = [c \in Contexts |-> Unused]
    /\ recvList = <<>> /\ rx = Idle
    /\ unload = [pc |-> "off", c |-> None, armed |-> FALSE]
    /\ reply = [key |-> None, type |-> "none", seg |-> 0, wl |-> 0]
    /\ given = {} /\ out = 0 /\ packets = 0

-----------------------------------------------------------------------------
\* The packets of a message.  A STOP is treated as an ABORT everywhere; a bad
\* packet is one that RmppMadCheck refuses.

Data(k, i) ==
    [key |-> k, type |-> "data", seg |-> i, last |-> i = message[k].segs,
     total |-> IF i = 1 THEN message[k].total ELSE 0, bad |-> FALSE]

Control(k, type, bad) ==
    [key |-> k, type |-> type, seg |-> 0, last |-> FALSE, total |-> 0, bad |-> bad]

Packets ==
    UNION { {Data(k, i) : i \in 1..message[k].segs}
              \cup {[Data(k, 1) EXCEPT !.bad = TRUE], Control(k, "ack", FALSE),
                    Control(k, "abort", FALSE), Control(k, "abort", TRUE)}
            : k \in Keys }

-----------------------------------------------------------------------------
\* What is done to a context.

Increment(x) == [x EXCEPT !.RefCount = @ + 1]

\* The last reference queues the context for the reaper.
Decrement(x) ==
    [x EXCEPT !.RefCount = @ - 1, !.mem = IF x.RefCount = 1 THEN "reap" ELSE @]

\* Mutant: a timer that has expired gives its reference back, too.
StopExpired(x) ==
    Decrement([x EXCEPT !.timer = IF @ = "on" THEN "off" ELSE @, !.due = "none",
                        !.lateEnter = IF x.due = "enter" THEN @ + 1 ELSE @,
                        !.lateWait = IF x.due = "wait" THEN @ + 1 ELSE @])

\* A timer that has expired keeps its reference for the callback; a callback
\* that is under way then finds that it has been stopped.
StopTimer(x) ==
    IF x.timer = "fired"
    THEN [x EXCEPT !.due = "none",
                   !.lateEnter = IF x.due = "enter" THEN @ + 1 ELSE @,
                   !.lateWait = IF x.due = "wait" THEN @ + 1 ELSE @]
    ELSE Decrement([x EXCEPT !.timer = "off"])

\* Mutant: a timer runs without a reference.
StartUncounted(x, ok) ==
    IF ok THEN [x EXCEPT !.timer = "on"] ELSE [x EXCEPT !.lost = @ + 1]

\* The reference is taken first and is not given back if the timer cannot start.
StartTimer(x, ok) ==
    IF ok THEN [x EXCEPT !.RefCount = @ + 1, !.timer = "on"]
          ELSE [x EXCEPT !.RefCount = @ + 1, !.lost = @ + 1]

\* Mutant: the segments go back to their pool and are kept.
DestroyKeeps(x) == [x EXCEPT !.State = "destroy"]

Destroy(x) == [x EXCEPT !.State = "destroy", !.RecvHead = <<>>]

\* Mutant: the old timer is stopped after the new one has been started.
TerminateStopsLast(x, newState, ok) ==
    LET waiting == StartTimer([x EXCEPT !.State = newState, !.RecvHead = <<>>], ok)
        stopped == IF x.State \in Armed THEN StopTimer(waiting) ELSE waiting
    IN  IF ok THEN stopped ELSE Destroy(stopped)

\* RmppReceiverTerminate, as far as it holds the lock.
Terminate(x, newState, ok) ==
    LET stopped == IF x.State \in Armed THEN StopTimer(x) ELSE x
        waiting == StartTimer([stopped EXCEPT !.State = newState, !.RecvHead = <<>>], ok)
    IN  IF ok THEN waiting ELSE Destroy(waiting)

\* Store Data of figure 176.
Store(x, p) ==
    LET first == [StartTimer(x, TRUE) EXCEPT !.State = "active", !.TotalSegs = p.total]
    IN  [(IF p.seg = 1 THEN first ELSE x) EXCEPT
            !.RecvHead = Append(@, p), !.ExpectedSeg = @ + 1]

\* Mutant: the window is opened one segment too late.
AckLate(x) == x.ExpectedSeg > x.WindowLast + 1

\* RmppReceiverSendAckIfNeeded opens the window again.
MustAck(x) ==
    \/ x.ExpectedSeg > x.WindowLast
    \/ x.WindowLast - (x.ExpectedSeg - 1) >= LowWater

\* Mutant: an announced end that does not exist ends the window.
AdvanceCut(x) ==
    LET wl == x.ExpectedSeg + WindowSize - 1
    IN  [x EXCEPT !.WindowLast = IF wl > x.TotalSegs THEN x.TotalSegs ELSE wl]

Advance(x) ==
    LET wl == x.ExpectedSeg + WindowSize - 1
    IN  [x EXCEPT !.WindowLast =
            IF x.TotalSegs # 0 /\ wl > x.TotalSegs THEN x.TotalSegs ELSE wl]

\* Mutant: the segment that is expected is acknowledged.
AckNext(x) == [key |-> x.key, type |-> "ack", seg |-> x.ExpectedSeg, wl |-> x.WindowLast]

Ack(x) == [key |-> x.key, type |-> "ack", seg |-> x.ExpectedSeg - 1, wl |-> x.WindowLast]
Answer(k, type) == [key |-> k, type |-> type, seg |-> 0, wl |-> 0]

-----------------------------------------------------------------------------
\* The GSA event thread: ProcessSARRecvCompletion.

\* The callback finishes and the datagram goes back to its pool.
Discard == rx' = Idle /\ out' = out - 1

\* FindSarContext: only a response can match.  The thread takes a reference to
\* the first context that does before it lets go of the list.
Matches(p) ==
    {i \in DOMAIN recvList : message[p.key].response /\ sar[recvList[i]].key = p.key}

Arrive(p) ==
    /\ rx.pc = "idle" /\ unload.pc = "off" /\ packets < message[p.key].segs + MaxExtra
    /\ packets' = packets + 1 /\ out' = out + 1
    /\ \/ /\ Matches(p) = {}
          /\ rx' = [Idle EXCEPT !.pc = "new", !.pkt = p]
          /\ UNCHANGED sar
       \/ \E i \in Matches(p) :
          /\ \A j \in Matches(p) : i <= j
          /\ rx' = [Idle EXCEPT !.pc = "lock", !.pkt = p, !.c = recvList[i]]
          /\ sar' = [sar EXCEPT ![recvList[i]] = Increment(@)]
    /\ UNCHANGED <<message, recvList, unload, reply, given>>

\* A context that is being destroyed is as good as none.
SkipDestroyed ==
    /\ rx.pc = "lock" /\ sar[rx.c].State = "destroy"
    /\ sar' = [sar EXCEPT ![rx.c] = Decrement(@)]
    /\ rx' = [rx EXCEPT !.pc = "new", !.c = None]
    /\ UNCHANGED <<message, recvList, unload, reply, given, out, packets>>

\* A message begins with its first segment.  A bad packet may be of another version.
RejectNew ==
    /\ rx.pc = "new" /\ (rx.pkt.bad \/ ~(rx.pkt.type = "data" /\ rx.pkt.seg = 1))
    /\ reply' = Answer(rx.pkt.key, "abort") /\ Discard
    /\ UNCHANGED <<message, sar, recvList, unload, given, packets>>

\* The message is larger than RmppMaxReceive, or there is no memory.
NoRoom ==
    /\ rx.pc = "new" /\ rx.pkt.type = "data" /\ rx.pkt.seg = 1
    /\ reply' = Answer(rx.pkt.key, "stop") /\ Discard
    /\ UNCHANGED <<message, sar, recvList, unload, given, packets>>

\* Mutant: the context goes to the end of the list.
CreateLast(c) ==
    /\ rx.pc = "new" /\ rx.pkt.type = "data" /\ rx.pkt.seg = 1
    /\ sar[c].mem = "free"
    /\ sar' = [sar EXCEPT ![c] =
                  [Unused EXCEPT !.mem = "live", !.key = rx.pkt.key, !.RefCount = 2]]
    /\ recvList' = Append(recvList, c)
    /\ rx' = [rx EXCEPT !.pc = "lock", !.c = c]
    /\ UNCHANGED <<message, unload, reply, given, out, packets>>

\* RmppReceiverCreateContext: one reference for the list, one for the thread.
Create(c) ==
    /\ rx.pc = "new" /\ rx.pkt.type = "data" /\ rx.pkt.seg = 1
    /\ sar[c].mem = "free"
    /\ sar' = [sar EXCEPT ![c] =
                  [Unused EXCEPT !.mem = "live", !.key = rx.pkt.key, !.RefCount = 2]]
    /\ recvList' = <<c>> \o recvList
    /\ rx' = [rx EXCEPT !.pc = "lock", !.c = c]
    /\ UNCHANGED <<message, unload, reply, given, out, packets>>

\* What follows is RmppReceiverProcessRecv, with the lock of the context held.
\* A terminated context whose timer did not start has still to leave the list.
Locked(state) == rx.pc = "lock" /\ sar[rx.c].State \in state

Leave(x, status) ==
    /\ sar' = [sar EXCEPT ![rx.c] = x]
    /\ rx' = [rx EXCEPT !.pc = IF x.State = "destroy" THEN "unlist" ELSE "drop",
                        !.status = status]
    /\ UNCHANGED <<message, recvList, unload, given, packets>>

\* If the timer does not start, a STOP follows the answer.
Stop(x, newState, status, answer) ==
    /\ \E ok \in BOOLEAN :
        /\ Leave(Terminate(x, newState, ok), status)
        /\ reply' = IF ok THEN answer ELSE Answer(x.key, "stop")
    /\ out' = out - Len(x.RecvHead)

Bad ==
    /\ Locked({"created", "active", "timewait", "timewait_recv"}) /\ rx.pkt.bad
    /\ Stop(sar[rx.c], "timewait", "reject", Answer(rx.pkt.key, "abort"))

\* Figure 175, and an ACK in figure 176.
Ignore ==
    /\ \/ Locked({"timewait"})
       \/ Locked({"created", "active"}) /\ rx.pkt.type = "ack"
    /\ ~rx.pkt.bad
    /\ Leave(sar[rx.c], "reject")
    /\ UNCHANGED <<reply, out>>

\* Figure 177: the last ACK was lost, or the packet is late.
AckAgain ==
    /\ Locked({"timewait_recv"}) /\ ~rx.pkt.bad /\ rx.pkt.type = "data"
    /\ Stop(sar[rx.c], "timewait_recv", "reject", Ack(sar[rx.c]))

MisplacedAck ==
    /\ Locked({"timewait_recv"}) /\ ~rx.pkt.bad /\ rx.pkt.type = "ack"
    /\ Stop(sar[rx.c], "timewait", "reject", Answer(rx.pkt.key, "abort"))

Aborted ==
    /\ Locked({"created", "active", "timewait_recv"}) /\ ~rx.pkt.bad
    /\ rx.pkt.type = "abort"
    /\ Stop(sar[rx.c], "timewait", "reject", reply)

\* Figure 176.
Segment(x, p) == Locked({"created", "active"}) /\ ~p.bad /\ p.type = "data"

Unexpected ==
    /\ Segment(sar[rx.c], rx.pkt) /\ rx.pkt.seg # sar[rx.c].ExpectedSeg
    /\ reply' = Ack(sar[rx.c])
    /\ Leave(sar[rx.c], "reject")
    /\ UNCHANGED out

\* The timer of the whole transaction cannot be started.
NoTimer ==
    /\ Segment(sar[rx.c], rx.pkt) /\ rx.pkt.seg = 1 /\ sar[rx.c].ExpectedSeg = 1
    /\ Stop([StartTimer(sar[rx.c], FALSE) EXCEPT !.TotalSegs = rx.pkt.total],
            "timewait", "reject", Answer(rx.pkt.key, "stop"))

\* Mutant: the segment number is not looked at.
ExpectedAny == Segment(sar[rx.c], rx.pkt)

Expected == Segment(sar[rx.c], rx.pkt) /\ rx.pkt.seg = sar[rx.c].ExpectedSeg

\* Fewer or more segments than the first one announced.  The datagram has been
\* stored, and goes with the others.
WrongCount(x, p) ==
    /\ x.TotalSegs # 0
    /\ IF p.last THEN p.seg # x.TotalSegs ELSE x.ExpectedSeg > x.TotalSegs

Inconsistent ==
    /\ Expected
    /\ LET x == Store(sar[rx.c], rx.pkt)
       IN  /\ WrongCount(x, rx.pkt)
           /\ Stop(x, "timewait", "pending", Answer(rx.pkt.key, "abort"))

\* RmppReceiverGotLast: the segments leave the context before it is terminated.
GotLast ==
    /\ Expected /\ rx.pkt.last
    /\ LET x == Store(sar[rx.c], rx.pkt)
           done == [StopTimer(x) EXCEPT !.State = "done", !.RecvHead = <<>>]
       IN  /\ ~WrongCount(x, rx.pkt)
           /\ \E ok \in BOOLEAN :
                /\ sar' = [sar EXCEPT ![rx.c] = Terminate(done, "timewait_recv", ok)]
                /\ reply' = IF ok THEN Ack(x) ELSE Answer(x.key, "stop")
                /\ rx' = [rx EXCEPT !.pc = IF ok THEN "drop" ELSE "unlist",
                                        !.status = "completed", !.list = x.RecvHead]
    /\ UNCHANGED <<message, recvList, unload, given, out, packets>>

\* RmppReceiverSendAckIfNeeded.
Proceed ==
    /\ Expected /\ ~rx.pkt.last
    /\ LET x == Store(sar[rx.c], rx.pkt)
           y == IF MustAck(x) THEN Advance(x) ELSE x
       IN  /\ ~WrongCount(x, rx.pkt)
           /\ Leave(y, "pending")
           /\ reply' = IF MustAck(x) THEN Ack(y) ELSE reply
    /\ UNCHANGED out

\* Mutant: the unloader holds the list until the context is off it.
UnlistHeld(c) ==
    /\ unload.pc \notin {"stop", "unlist"}
    /\ \E i \in DOMAIN recvList :
        /\ recvList[i] = c
        /\ recvList' = RemoveAt(recvList, i)

\* RemoveSARRecvListEntry, which the unloader's hold on the list keeps waiting.
\* The context is on the list, as the code asserts.
Unlist(c) ==
    /\ unload.pc # "stop"
    /\ \E i \in DOMAIN recvList :
        /\ recvList[i] = c
        /\ recvList' = RemoveAt(recvList, i)

RxUnlist ==
    /\ rx.pc = "unlist" /\ Unlist(rx.c)
    /\ sar' = [sar EXCEPT ![rx.c] = Decrement(@)]
    /\ rx' = [rx EXCEPT !.pc = "drop"]
    /\ UNCHANGED <<message, unload, reply, given, out, packets>>

\* The thread gives its reference back, then GsaCompletionCallback passes the
\* message to the client, whose the datagrams are then, or puts the packet back.
RxDrop ==
    /\ rx.pc = "drop"
    /\ sar' = [sar EXCEPT ![rx.c] = Decrement(@)]
    /\ rx' = Idle
    /\ out' = out - (CASE rx.status = "completed" -> Len(rx.list)
                       [] rx.status = "reject" -> 1
                       [] OTHER -> 0)
    /\ given' = IF rx.status = "completed" THEN given \cup {rx.pkt.key} ELSE given
    /\ UNCHANGED <<message, recvList, unload, reply, packets>>

-----------------------------------------------------------------------------
\* The timer of a context and its callback.

Fire(c) ==
    /\ sar[c].timer = "on"
    /\ sar' = [sar EXCEPT ![c].timer = "fired", ![c].due = "enter"]
    /\ UNCHANGED <<message, recvList, rx, unload, reply, given, out, packets>>

\* RmppTimerCallback looks at the state without the lock, and returns with the
\* reference if the context is being destroyed.
Entered(x) ==
    IF x.State = "destroy" THEN [x EXCEPT !.due = "none", !.lost = @ + 1]
                           ELSE [x EXCEPT !.due = "wait"]

EnteredLate(x) ==
    IF x.State = "destroy" THEN [x EXCEPT !.lateEnter = @ - 1, !.lost = @ + 1]
                           ELSE [x EXCEPT !.lateEnter = @ - 1, !.lateWait = @ + 1]

Enter(c) ==
    /\ sar[c].due = "enter"
    /\ sar' = [sar EXCEPT ![c] = Entered(@)]
    /\ UNCHANGED <<message, recvList, rx, unload, reply, given, out, packets>>

LateEnter(c) ==
    /\ sar[c].lateEnter > 0
    /\ sar' = [sar EXCEPT ![c] = EnteredLate(@)]
    /\ UNCHANGED <<message, recvList, rx, unload, reply, given, out, packets>>

\* Mutant: the callback returns with its reference.
StaleReturns(c) ==
    /\ sar[c].lateWait > 0
    /\ sar' = [sar EXCEPT ![c].lateWait = @ - 1]
    /\ UNCHANGED <<message, recvList, rx, unload, reply, given, out, packets>>

\* A callback that finds its timer stopped.
Returned(x) == Decrement([x EXCEPT !.lateWait = @ - 1])

Stale(c) ==
    /\ sar[c].lateWait > 0
    /\ sar' = [sar EXCEPT ![c] = Returned(@)]
    /\ UNCHANGED <<message, recvList, rx, unload, reply, given, out, packets>>

\* RmppReceiverTimerCallback.
Expire(c) ==
    /\ sar[c].due = "wait" /\ sar[c].State # "destroy"
    /\ sar' = [sar EXCEPT ![c] = [Destroy(@) EXCEPT !.due = "unlist"]]
    /\ out' = out - Len(sar[c].RecvHead)
    /\ reply' = IF sar[c].State \in {"timewait", "timewait_recv"} THEN reply
                ELSE Answer(sar[c].key, "abort")
    /\ UNCHANGED <<message, recvList, rx, unload, given, packets>>

ExpireUnlist(c) ==
    /\ sar[c].due = "unlist" /\ Unlist(c)
    /\ sar' = [sar EXCEPT ![c] = Decrement([@ EXCEPT !.due = "drop"])]
    /\ UNCHANGED <<message, rx, unload, reply, given, out, packets>>

ExpireDrop(c) ==
    /\ \/ sar[c].due = "drop"
       \/ sar[c].due = "wait" /\ sar[c].State = "destroy"
    /\ sar' = [sar EXCEPT ![c] = Decrement([@ EXCEPT !.due = "none"])]
    /\ UNCHANGED <<message, recvList, rx, unload, reply, given, out, packets>>

\* RmppReceiverReapContext: TimerDestroy waits for the callbacks.
Quiet(x) == x.due = "none" /\ x.lateEnter = 0 /\ x.lateWait = 0

Reap(c) ==
    /\ sar[c].mem = "reap" /\ Quiet(sar[c])
    /\ sar' = [sar EXCEPT ![c] = Unused]
    /\ out' = out - Len(sar[c].RecvHead)
    /\ UNCHANGED <<message, recvList, rx, unload, reply, given, packets>>

-----------------------------------------------------------------------------
\* GSAUnload: the queue pairs and the event threads are gone.

Unload ==
    /\ unload.pc = "off" /\ rx.pc = "idle"
    /\ unload' = [unload EXCEPT !.pc = "scan"]
    /\ UNCHANGED <<message, sar, recvList, rx, reply, given, out, packets>>

\* It takes the first context and keeps the list locked until the timer is
\* stopped.  One that another thread destroys is left to that thread.
UnloadDestroy ==
    /\ unload.pc = "scan" /\ recvList # <<>> /\ sar[recvList[1]].State # "destroy"
    /\ LET c == recvList[1]
       IN  /\ unload' = [pc |-> "stop", c |-> c, armed |-> sar[c].State \in Armed]
           /\ sar' = [sar EXCEPT ![c] = Destroy(Increment(@))]
           /\ out' = out - Len(sar[c].RecvHead)
    /\ UNCHANGED <<message, recvList, rx, reply, given, packets>>

UnloadStop ==
    /\ unload.pc = "stop"
    /\ sar' = [sar EXCEPT ![unload.c] = IF unload.armed THEN StopTimer(@) ELSE @]
    /\ unload' = [unload EXCEPT !.pc = "unlist"]
    /\ UNCHANGED <<message, recvList, rx, reply, given, out, packets>>

UnloadUnlist ==
    /\ unload.pc = "unlist" /\ Unlist(unload.c)
    /\ sar' = [sar EXCEPT ![unload.c] = Decrement(@)]
    /\ unload' = [unload EXCEPT !.pc = "reap"]
    /\ UNCHANGED <<message, rx, reply, given, out, packets>>

UnloadReap ==
    /\ unload.pc = "reap" /\ Quiet(sar[unload.c])
    /\ sar' = [sar EXCEPT ![unload.c] = Unused]
    /\ out' = out - Len(sar[unload.c].RecvHead)
    /\ unload' = [pc |-> "scan", c |-> None, armed |-> FALSE]
    /\ UNCHANGED <<message, recvList, rx, reply, given, packets>>

Unloaded ==
    /\ unload.pc = "scan" /\ recvList = <<>>
    /\ unload' = [unload EXCEPT !.pc = "done"]
    /\ UNCHANGED <<message, sar, recvList, rx, reply, given, out, packets>>

-----------------------------------------------------------------------------

Process ==
    \/ SkipDestroyed \/ RejectNew \/ NoRoom \/ (\E c \in Contexts : Create(c))
    \/ Bad \/ Ignore \/ AckAgain \/ MisplacedAck \/ Aborted
    \/ Unexpected \/ NoTimer \/ Inconsistent \/ GotLast \/ Proceed
    \/ RxUnlist \/ RxDrop

Callback(c) ==
    \/ Enter(c) \/ LateEnter(c) \/ Stale(c)
    \/ Expire(c) \/ ExpireUnlist(c) \/ ExpireDrop(c)

Unloading ==
    UnloadDestroy \/ UnloadStop \/ UnloadUnlist \/ UnloadReap \/ Unloaded

Next ==
    \/ (\E p \in Packets : Arrive(p)) \/ Process
    \/ (\E c \in Contexts : Fire(c) \/ Callback(c) \/ Reap(c))
    \/ Unload \/ Unloading

\* The event thread and the unloader run, timers fire and their callbacks run.
\* The reaper waits for twenty contexts: nothing is assumed of it.
Fairness ==
    /\ WF_vars(Process) /\ WF_vars(Unloading)
    /\ \A c \in Contexts : WF_vars(Fire(c)) /\ WF_vars(Callback(c))

Spec == Init /\ [][Next]_vars
FairSpec == Spec /\ Fairness
-----------------------------------------------------------------------------
\* The values of the variables.
Types == {"data", "ack", "abort"}
AllPackets == [key : Keys, type : Types, seg : Nat, last : BOOLEAN, total : Nat,
               bad : BOOLEAN]
States == {"created", "active", "done", "timewait", "timewait_recv", "destroy"}
Context ==
    [mem : {"free", "live", "reap"}, key : Keys \cup {None}, State : States,
     ExpectedSeg : Nat \ {0}, WindowLast : Nat \ {0}, TotalSegs : Nat,
     RecvHead : Seq(AllPackets), RefCount : Int, timer : {"off", "on", "fired"},
     due : {"none", "enter", "wait", "unlist", "drop"},
     lateEnter : Nat, lateWait : Nat, lost : Nat]

TypeOK ==
    /\ message \in [Keys -> Shapes]
    /\ sar \in [Contexts -> Context]
    /\ recvList \in Seq(Contexts)
    /\ rx \in [pc : {"idle", "new", "lock", "unlist", "drop"},
               pkt : AllPackets \cup {None}, c : Contexts \cup {None},
               status : {"none", "reject", "pending", "completed"},
               list : Seq(AllPackets)]
    /\ unload \in [pc : {"off", "scan", "stop", "unlist", "reap", "done"},
                   c : Contexts \cup {None}, armed : BOOLEAN]
    /\ reply \in [key : Keys \cup {None}, type : {"none", "ack", "abort", "stop"},
                  seg : Nat, wl : Nat]
    /\ given \subseteq Keys
    /\ out \in Int /\ packets \in Nat

\* The references of a context that somebody will give back.
One(b) == IF b THEN 1 ELSE 0

TimerHolds(x) == One(x.timer = "on") + One(x.due # "none") + x.lateEnter + x.lateWait

Holders(c) ==
    One(Listed(c)) + One(rx.c = c) + One(unload.c = c) + TimerHolds(sar[c])

\* Every reference is counted once, by the list, a thread, a timer that runs or a
\* callback, whatever races with whatever: nobody gives a reference back twice or
\* without having it, and the only ones that are lost are those taken for a timer
\* that could not start and those of a callback that met a context being
\* destroyed.  DecrementSarContextUsageCount frees at zero.
RefsCounted ==
    \A c \in Contexts : sar[c].mem = "live" =>
        /\ sar[c].RefCount = Holders(c) + sar[c].lost
        /\ sar[c].RefCount > 0

\* No context that the list, the receive thread, the unloader, a timer or a
\* callback still refers to is queued for the reaper or freed.
HeldLives ==
    \A c \in Contexts : sar[c].mem # "live" => Holders(c) = 0

\* A context waits for something that will end it: in the states for which
\* SarContextTimerArmed tells StopSarContextTimer to be called the timer runs or
\* its callback is on its way to the lock, and no timer runs otherwise.
TimerRuns ==
    \A c \in Contexts :
        LET x == sar[c]
        IN  /\ x.mem = "live" /\ x.State \in Armed
                 => x.timer = "on" \/ x.due \in {"enter", "wait"}
            /\ x.timer = "on" /\ x.State = "destroy" => unload.c = c

\* What the client gets is a whole message: all the segments of one message, in
\* order, each once, however they were lost, repeated and reordered.
DeliveredWhole ==
    rx.status = "completed" =>
        rx.list = [i \in 1..message[rx.pkt.key].segs |-> Data(rx.pkt.key, i)]

\* AssertInvariants, for a receiver at work: the sender may always send the
\* segment that is expected, and is never told to go beyond the end.
WindowOpen ==
    \A c \in Contexts :
        LET x == sar[c]
        IN  x.mem = "live" /\ x.State = "active" =>
              /\ x.ExpectedSeg <= x.WindowLast
              /\ x.WindowLast < x.ExpectedSeg + WindowSize
              /\ x.TotalSegs # 0 => x.WindowLast <= x.TotalSegs

\* A sender that is told that its last segment has arrived is finished: the
\* client has the message or is about to get it.
AckedIsDelivered ==
    reply.type = "ack" /\ reply.seg = message[reply.key].segs =>
        \/ reply.key \in given
        \/ rx.status = "completed" /\ rx.pkt.key = reply.key

\* The responses of one transaction meet in one context.
OnePerKey ==
    \A c, d \in Contexts :
        /\ c # d /\ sar[c].mem = "live" /\ sar[d].mem = "live"
        /\ sar[c].key = sar[d].key /\ message[sar[c].key].response
        => "destroy" \in {sar[c].State, sar[d].State}

\* The datagrams in the lists of the contexts, and how many the event thread has:
\* the message that it is about to hand over, and the packet until it is stored.
Kept == UNION { {c} \X DOMAIN sar[c].RecvHead : c \in Contexts }

WithThread(r) == Len(r.list) + One(r.pc \in {"new", "lock"} \/ r.status = "reject")

\* Every datagram out of the pool is in one place: in the list of a context, with
\* the thread, or in the message that it is about to hand to the client.
DatagramsKept == out = Cardinality(Kept) + WithThread(rx)

\* Whatever is lost or repeated, every context leaves the list and goes to the
\* reaper, unless a reference to it has been lost.
ContextsGo ==
    \A c \in Contexts :
        sar[c].mem = "live" ~> ~Listed(c) /\ (sar[c].mem # "live" \/ sar[c].lost > 0)

\* DestroySARContexts returns, whatever callbacks it meets.
UnloadReturns == unload.pc = "scan" ~> unload.pc = "done"
=============================================================================
