------------------------- MODULE RmppDeliveryProofs -------------------------
(* The messages that RmppReceiver delivers: they are whole, a sender is told  *)
(* that a message has arrived only when it has, a window is never closed and  *)
(* never opened beyond the end, and a message has one context.  The proofs    *)
(* build on RmppReceiverProofs, where the contexts are shown to be sound.     *)
EXTENDS RmppReceiverProofs, FiniteSetTheorems

\* The first n segments of the message under k.
Whole(k, n) == [i \in 1 .. n |-> Data(k, i)]

\* The client has the message under k or is about to get it.
Delivered(k) == k \in given \/ (rx.status = "completed" /\ rx.pkt.key = k)

\* What a context x has of its message.
Filled(x) ==
    x.mem = "live" =>
      /\ x.key \in Keys
      /\ x.State = "created" => x.RecvHead = <<>> /\ x.WindowLast = 1
      /\ x.State = "active" =>
           /\ x.RecvHead = Whole(x.key, x.ExpectedSeg - 1)
           /\ x.ExpectedSeg <= message[x.key].segs
           /\ x.ExpectedSeg <= x.WindowLast
           /\ x.WindowLast < x.ExpectedSeg + WindowSize
           /\ x.TotalSegs # 0 => x.WindowLast <= x.TotalSegs
      /\ x.State = "timewait_recv" =>
           x.ExpectedSeg = message[x.key].segs + 1 /\ Delivered(x.key)

AllFilled == \A c \in Contexts : Filled(sar[c])

RxHas ==
    /\ rx.pc # "idle" => rx.pkt \in Packets
    /\ rx.c # None => sar[rx.c].key = rx.pkt.key
    /\ rx.pc \in {"idle", "new", "lock"} => rx.status = "none"
    /\ rx.status = "completed" =>
         rx.list = Whole(rx.pkt.key, message[rx.pkt.key].segs)

\* Of the contexts of a response only the first on the list may be in use.
NewestFirst ==
    \A i, j \in DOMAIN recvList :
        /\ i < j /\ sar[recvList[i]].key = sar[recvList[j]].key
        /\ message[sar[recvList[j]].key].response
        => sar[recvList[j]].State = "destroy"

\* The event thread has the only one, or there is none.
Latest ==
    rx.pc \in {"new", "lock"} /\ message[rx.pkt.key].response =>
        \A d \in Contexts :
            d # rx.c /\ sar[d].mem = "live" /\ sar[d].key = rx.pkt.key
            => sar[d].State = "destroy"

DeliveryInv ==
    Inv /\ AllFilled /\ RxHas /\ AckedIsDelivered /\ NewestFirst /\ Latest

-----------------------------------------------------------------------------
\* What a step does to a context x and the message in it.

\* y is x with the same message.
Like(x, y) ==
    y.mem = "live" =>
        /\ x.mem = "live" /\ y.State = x.State
        /\ SameData(x, y) /\ y.RecvHead = x.RecvHead

\* y has given the message up.
Ends(x, y) ==
    y.mem = "live" => x.mem = "live" /\ y.State = "destroy" /\ y.key = x.key

\* A context is for one message and is destroyed once.
Onward(x, y) ==
    y.mem = "live" =>
        /\ x.mem = "live" /\ y.key = x.key
        /\ x.State = "destroy" => y.State = "destroy"

LEMMA FilledKept ==
    \A x, y : Filled(x) /\ (Like(x, y) \/ Ends(x, y)) => Filled(y) /\ Onward(x, y)
<1> SUFFICES ASSUME NEW x, NEW y, Filled(x), Like(x, y) \/ Ends(x, y), y.mem = "live"
             PROVE  Filled(y) /\ Onward(x, y)
  BY DEF Filled, Onward
<1>1. CASE Like(x, y)
  BY <1>1 DEF Filled, Like, SameData, Onward
<1>2. CASE Ends(x, y)
  BY <1>2 DEF Filled, Ends, Onward
<1>3. QED
  BY <1>1, <1>2

\* What StopTimer, Decrement and the rest leave alone.
LEMMA AlikeLemma ==
    ASSUME NEW x \in Context
    PROVE  /\ Like(x, Decrement(x)) /\ Like(x, Increment(x)) /\ Like(x, StopTimer(x))
           /\ Like(x, [x EXCEPT !.timer = "fired", !.due = "enter"])
           /\ Like(x, Entered(x)) /\ Like(x, EnteredLate(x)) /\ Like(x, Returned(x))
           /\ Like(x, Decrement([x EXCEPT !.due = "none"]))
           /\ Like(x, Decrement([x EXCEPT !.due = "drop"]))
<1>1. Like(x, Decrement(x))
  BY DEF Context, Decrement, Like, SameData
<1>2. Like(x, Increment(x))
  BY DEF Context, Increment, Like, SameData
<1>3. Like(x, StopTimer(x))
  <2>1. CASE x.timer = "fired"
    BY <2>1 DEF Context, StopTimer, Like, SameData
  <2>2. CASE x.timer # "fired"
    BY <2>2 DEF Context, StopTimer, Decrement, Like, SameData
  <2>3. QED
    BY <2>1, <2>2
<1>4. Like(x, [x EXCEPT !.timer = "fired", !.due = "enter"])
  BY DEF Context, Like, SameData
<1>5. Like(x, Entered(x))
  BY DEF Context, Entered, Like, SameData
<1>6. Like(x, EnteredLate(x))
  BY DEF Context, EnteredLate, Like, SameData
<1>7. Like(x, Returned(x))
  BY DEF Context, Returned, Decrement, Like, SameData
<1>8. /\ Like(x, Decrement([x EXCEPT !.due = "none"]))
      /\ Like(x, Decrement([x EXCEPT !.due = "drop"]))
  BY DEF Context, Decrement, Like, SameData
<1>9. QED
  BY <1>1, <1>2, <1>3, <1>4, <1>5, <1>6, <1>7, <1>8

LEMMA EndsLemma ==
    ASSUME NEW x \in Context
    PROVE  /\ Ends(x, [Destroy(x) EXCEPT !.due = "unlist"])
           /\ Ends(x, Destroy(Increment(x)))
           /\ Ends(x, Unused)
<1>1. Ends(x, [Destroy(x) EXCEPT !.due = "unlist"])
  BY DEF Context, Destroy, Ends
<1>2. Ends(x, Destroy(Increment(x)))
  BY DEF Context, Destroy, Increment, Ends
<1>3. Ends(x, Unused)
  BY DEF Unused, Ends
<1>4. QED
  BY <1>1, <1>2, <1>3

\* The list and the latest context.

Shrinks ==
    \A i, j \in DOMAIN recvList' :
        i < j => \E a, b \in DOMAIN recvList :
                     a < b /\ recvList[a] = recvList'[i] /\ recvList[b] = recvList'[j]

LEMMA UnlistShrinks ==
    ASSUME TypeOK, NEW c \in Contexts, Unlist(c)
    PROVE  Shrinks
<1>1. recvList \in Seq(Contexts)
  BY DEF TypeOK
<1>2. DOMAIN recvList = 1 .. Len(recvList) /\ Len(recvList) \in Nat
  BY <1>1, LenProperties
<1>3. PICK k \in 1 .. Len(recvList) : recvList' = RemoveAt(recvList, k)
  BY <1>2 DEF Unlist
<1>4. /\ recvList' \in Seq(Contexts) /\ Len(recvList') = Len(recvList) - 1
      /\ \A j \in 1 .. Len(recvList) - 1 :
            recvList'[j] = IF j < k THEN recvList[j] ELSE recvList[j + 1]
  BY <1>1, <1>3, Removed
<1>5. DOMAIN recvList' = 1 .. Len(recvList) - 1
  BY <1>4, LenProperties
<1>6. SUFFICES ASSUME NEW i \in 1 .. Len(recvList) - 1, NEW j \in 1 .. Len(recvList) - 1, i < j
               PROVE  \E a, b \in 1 .. Len(recvList) :
                        a < b /\ recvList[a] = recvList'[i] /\ recvList[b] = recvList'[j]
  BY <1>2, <1>5 DEF Shrinks
<1> DEFINE a == IF i < k THEN i ELSE i + 1
           b == IF j < k THEN j ELSE j + 1
<1>7. a \in 1 .. Len(recvList) /\ b \in 1 .. Len(recvList) /\ a < b
  BY <1>2, <1>6
<1>8. recvList[a] = recvList'[i] /\ recvList[b] = recvList'[j]
  BY <1>4
<1>9. QED
  BY <1>7, <1>8

LEMMA UnchangedShrinks ==
    ASSUME UNCHANGED recvList
    PROVE  Shrinks
BY DEF Shrinks

LEMMA OrderKept ==
    ASSUME TypeOK, TypeOK', AllSound', NewestFirst, message' = message, Shrinks,
           \A d \in Contexts : Onward(sar[d], sar'[d])
    PROVE  NewestFirst'
<1> SUFFICES ASSUME NEW i \in DOMAIN recvList', NEW j \in DOMAIN recvList', i < j,
                    sar'[recvList'[i]].key = sar'[recvList'[j]].key,
                    message'[sar'[recvList'[j]].key].response
             PROVE  sar'[recvList'[j]].State = "destroy"
  BY DEF NewestFirst
<1>1. PICK a, b \in DOMAIN recvList :
        a < b /\ recvList[a] = recvList'[i] /\ recvList[b] = recvList'[j]
  BY DEF Shrinks
<1>2. PICK c, d \in Contexts : c = recvList'[i] /\ d = recvList'[j]
  <2>1. recvList' \in Seq(Contexts)
    BY DEF TypeOK
  <2>2. recvList'[i] \in Contexts /\ recvList'[j] \in Contexts
    BY <2>1
  <2>3. QED
    BY <2>2
<1>3. Listed(c)' /\ Listed(d)'
  BY <1>2 DEF Listed
<1>4. sar'[c].mem = "live" /\ sar'[d].mem = "live"
  <2>1. /\ sar'[c] \in Context /\ Sound(sar'[c], Listed(c)', RxOf(c)', UnOf(c)')
        /\ sar'[d] \in Context /\ Sound(sar'[d], Listed(d)', RxOf(d)', UnOf(d)')
    BY DEF TypeOK, AllSound
  <2>2. QED
    BY <1>3, <2>1, HeldIsLive
<1>5. sar[c].key = sar'[c].key /\ sar[d].key = sar'[d].key
  BY <1>4 DEF Onward
<1>6. sar[d].State = "destroy"
  BY <1>1, <1>2, <1>5 DEF NewestFirst
<1>7. QED
  BY <1>2, <1>4, <1>6 DEF Onward

LEMMA LatestKept ==
    ASSUME Latest, message' = message,
           rx'.pc \in {"new", "lock"} =>
               rx'.pc = rx.pc /\ rx'.c = rx.c /\ rx'.pkt = rx.pkt,
           \A d \in Contexts : Onward(sar[d], sar'[d])
    PROVE  Latest'
BY DEF Latest, Onward

-----------------------------------------------------------------------------
\* The steps of the timers, the reaper and the unloader.

LEMMA DeliveredKept ==
    ASSUME given' = given, rx' = rx
    PROVE  \A k : Delivered(k)' <=> Delivered(k)
BY DEF Delivered

LEMMA FilledNext ==
    ASSUME message' = message, \A k : Delivered(k) => Delivered(k)'
    PROVE  \A x : Filled(x) => Filled(x)'
<1>1. \A k, n : Whole(k, n)' = Whole(k, n)
  BY DEF Whole, Data
<1>2. QED
  BY <1>1 DEF Filled

LEMMA AckedNext ==
    ASSUME message' = message, AckedIsDelivered,
           \A k : Delivered(k) => Delivered(k)',
           \/ reply' = reply
           \/ reply'.type # "ack"
           \/ reply'.seg # message[reply'.key].segs
           \/ \A k : k = reply'.key => Delivered(k)'
    PROVE  AckedIsDelivered'
<1> SUFFICES ASSUME reply'.type = "ack", reply'.seg = message[reply'.key].segs
             PROVE  \A k : k = reply'.key => Delivered(k)'
  BY DEF AckedIsDelivered, Delivered
<1>1. CASE reply' = reply
  <2>1. Delivered(reply.key)
    BY <1>1 DEF AckedIsDelivered, Delivered
  <2>2. QED
    BY <1>1, <2>1
<1>2. CASE \A k : k = reply'.key => Delivered(k)'
  BY <1>2
<1>3. QED
  BY <1>1, <1>2

LEMMA OtherStep ==
    ASSUME DeliveryInv, Inv', NEW c \in Contexts, NEW y, sar' = [sar EXCEPT ![c] = y],
           Like(sar[c], y) \/ Ends(sar[c], y),
           Shrinks, UNCHANGED <<message, rx, given>>,
           reply' = reply \/ reply'.type # "ack"
    PROVE  DeliveryInv'
<1>1. sar'[c] = y /\ \A d \in Contexts \ {c} : sar'[d] = sar[d]
  BY DEF DeliveryInv, Inv, TypeOK
<1>2. Filled(y) /\ Onward(sar[c], y)
  BY FilledKept DEF DeliveryInv, AllFilled
<1>3. \A d \in Contexts : Filled(sar'[d]) /\ Onward(sar[d], sar'[d])
  BY <1>1, <1>2 DEF DeliveryInv, AllFilled, Onward
<1>4. \A k : Delivered(k) => Delivered(k)'
  BY DeliveredKept
<1>5. AllFilled'
  <2>1. SUFFICES ASSUME NEW d \in Contexts, NEW z, z = sar'[d]
                 PROVE  Filled(z)'
    BY DEF AllFilled
  <2>2. Filled(z)
    BY <1>3, <2>1
  <2>3. QED
    BY <1>4, <2>2, FilledNext
<1>6. RxHas'
  <2>1. Packets' = Packets
    BY DEF Packets, Data, Control
  <2>2. \A k, n : Whole(k, n)' = Whole(k, n)
    BY DEF Whole, Data
  <2>3. rx.c # None => sar'[rx.c].key = rx.pkt.key
    <3>1. SUFFICES ASSUME rx.c # None
                   PROVE  sar'[rx.c].key = rx.pkt.key
      OBVIOUS
    <3>2. PICK d \in Contexts : d = rx.c
      BY <3>1 DEF DeliveryInv, Inv, TypeOK
    <3>3. RxOf(d)' # "none"
      BY <3>2 DEF RxOf, DeliveryInv, Inv, TypeOK
    <3>4. sar'[d].mem = "live"
      <4>1. sar'[d] \in Context /\ Sound(sar'[d], Listed(d)', RxOf(d)', UnOf(d)')
        BY DEF Inv, TypeOK, AllSound
      <4>2. QED
        BY <3>3, <4>1, HeldIsLive
    <3>5. sar[d].key = rx.pkt.key
      BY <3>1, <3>2 DEF DeliveryInv, RxHas
    <3>6. sar'[d].key = sar[d].key
      BY <1>3, <3>4 DEF Onward
    <3>7. QED
      BY <3>2, <3>5, <3>6
  <2>4. QED
    BY <2>1, <2>2, <2>3 DEF DeliveryInv, RxHas
<1>7. AckedIsDelivered'
  BY <1>4, AckedNext DEF DeliveryInv
<1>8. NewestFirst'
  BY <1>3, OrderKept DEF DeliveryInv, Inv
<1>9. Latest'
  BY <1>3, LatestKept DEF DeliveryInv
<1>10. QED
  BY <1>5, <1>6, <1>7, <1>8, <1>9 DEF DeliveryInv

LEMMA ContextTyped ==
    ASSUME DeliveryInv, NEW c \in Contexts
    PROVE  sar[c] \in Context
BY DEF DeliveryInv, Inv, TypeOK

LEMMA FireDelivery ==
    ASSUME DeliveryInv, Inv', NEW c \in Contexts, Fire(c)
    PROVE  DeliveryInv'
<1> DEFINE y == [sar[c] EXCEPT !.timer = "fired", !.due = "enter"]
<1>1. sar' = [sar EXCEPT ![c] = y] /\ Like(sar[c], y)
  BY ContextTyped, AlikeLemma DEF Fire, DeliveryInv, Inv, TypeOK
<1> HIDE DEF y
<1>2. QED
  BY <1>1, UnchangedShrinks, OtherStep DEF Fire

LEMMA CallbackDelivery ==
    ASSUME DeliveryInv, Inv', NEW c \in Contexts, Callback(c)
    PROVE  DeliveryInv'
<1>1. CASE Enter(c)
  <2>1. Like(sar[c], Entered(sar[c]))
    BY ContextTyped, AlikeLemma
  <2>2. QED
    BY <1>1, <2>1, UnchangedShrinks, OtherStep DEF Enter
<1>2. CASE LateEnter(c)
  <2>1. Like(sar[c], EnteredLate(sar[c]))
    BY ContextTyped, AlikeLemma
  <2>2. QED
    BY <1>2, <2>1, UnchangedShrinks, OtherStep DEF LateEnter
<1>3. CASE Stale(c)
  <2>1. Like(sar[c], Returned(sar[c]))
    BY ContextTyped, AlikeLemma
  <2>2. QED
    BY <1>3, <2>1, UnchangedShrinks, OtherStep DEF Stale
<1>4. CASE Expire(c)
  <2> DEFINE y == [Destroy(sar[c]) EXCEPT !.due = "unlist"]
  <2>1. Ends(sar[c], y) /\ sar' = [sar EXCEPT ![c] = y]
    BY <1>4, ContextTyped, EndsLemma DEF Expire
  <2>2. reply' = reply \/ reply'.type # "ack"
    BY <1>4 DEF Expire, Answer
  <2> HIDE DEF y
  <2>3. QED
    BY <1>4, <2>1, <2>2, UnchangedShrinks, OtherStep DEF Expire
<1>5. CASE ExpireUnlist(c)
  <2> DEFINE y == Decrement([sar[c] EXCEPT !.due = "drop"])
  <2>1. Like(sar[c], y) /\ sar' = [sar EXCEPT ![c] = y]
    BY <1>5, ContextTyped, AlikeLemma DEF ExpireUnlist
  <2>2. Shrinks
    BY <1>5, UnlistShrinks DEF ExpireUnlist, DeliveryInv, Inv
  <2> HIDE DEF y
  <2>3. QED
    BY <1>5, <2>1, <2>2, OtherStep DEF ExpireUnlist
<1>6. CASE ExpireDrop(c)
  <2> DEFINE y == Decrement([sar[c] EXCEPT !.due = "none"])
  <2>1. Like(sar[c], y) /\ sar' = [sar EXCEPT ![c] = y]
    BY <1>6, ContextTyped, AlikeLemma DEF ExpireDrop
  <2> HIDE DEF y
  <2>2. QED
    BY <1>6, <2>1, UnchangedShrinks, OtherStep DEF ExpireDrop
<1>7. QED
  BY <1>1, <1>2, <1>3, <1>4, <1>5, <1>6 DEF Callback

LEMMA ReapDelivery ==
    ASSUME DeliveryInv, Inv', NEW c \in Contexts, Reap(c)
    PROVE  DeliveryInv'
<1>1. Ends(sar[c], Unused) /\ sar' = [sar EXCEPT ![c] = Unused]
  BY ContextTyped, EndsLemma DEF Reap
<1>2. QED
  BY <1>1, UnchangedShrinks, OtherStep DEF Reap

LEMMA NoneDelivery ==
    ASSUME DeliveryInv, Inv', UNCHANGED <<message, sar, recvList, rx, reply, given>>
    PROVE  DeliveryInv'
<1>1. \A k : Delivered(k) => Delivered(k)'
  BY DeliveredKept
<1>2. AllFilled'
  <2>1. SUFFICES ASSUME NEW d \in Contexts, NEW z, z = sar'[d]
                 PROVE  Filled(z)'
    BY DEF AllFilled
  <2>2. Filled(z)
    BY <2>1 DEF DeliveryInv, AllFilled
  <2>3. QED
    BY <1>1, <2>2, FilledNext
<1>3. RxHas'
  <2>1. Packets' = Packets
    BY DEF Packets, Data, Control
  <2>2. \A k, n : Whole(k, n)' = Whole(k, n)
    BY DEF Whole, Data
  <2>3. QED
    BY <2>1, <2>2 DEF DeliveryInv, RxHas
<1>4. AckedIsDelivered'
  BY DEF DeliveryInv, AckedIsDelivered
<1>5. NewestFirst' /\ Latest'
  BY DEF DeliveryInv, NewestFirst, Latest
<1>6. QED
  BY <1>2, <1>3, <1>4, <1>5 DEF DeliveryInv

LEMMA UnloadingDelivery ==
    ASSUME DeliveryInv, Inv', Unload \/ Unloading
    PROVE  DeliveryInv'
<1>1. CASE Unload \/ Unloaded
  BY <1>1, NoneDelivery DEF Unload, Unloaded
<1>2. CASE UnloadDestroy
  <2>1. PICK c \in Contexts : c = recvList[1]
    <3>1. recvList \in Seq(Contexts) /\ recvList # <<>>
      BY <1>2 DEF UnloadDestroy, DeliveryInv, Inv, TypeOK
    <3>2. recvList[1] \in Contexts
      BY <3>1, EmptySeq, ElementOfSeq
    <3>3. QED
      BY <3>2
  <2> DEFINE y == Destroy(Increment(sar[c]))
  <2>2. Ends(sar[c], y)
    BY ContextTyped, EndsLemma
  <2>3. sar' = [sar EXCEPT ![c] = y]
    BY <1>2, <2>1 DEF UnloadDestroy
  <2> HIDE DEF y
  <2>4. QED
    BY <1>2, <2>2, <2>3, UnchangedShrinks, OtherStep DEF UnloadDestroy
<1>3. CASE UnloadStop
  <2>1. PICK c \in Contexts : c = unload.c
    BY <1>3, Unloads DEF UnloadStop, DeliveryInv
  <2>2. sar' = [sar EXCEPT ![c] = StopTimer(sar[c])]
    BY <1>3, <2>1 DEF UnloadStop, DeliveryInv, Inv, UnloadKnows
  <2>3. Like(sar[c], StopTimer(sar[c]))
    BY ContextTyped, AlikeLemma
  <2>4. QED
    BY <1>3, <2>2, <2>3, UnchangedShrinks, OtherStep DEF UnloadStop
<1>4. CASE UnloadUnlist
  <2>1. PICK c \in Contexts : c = unload.c
    BY <1>4, Unloads DEF UnloadUnlist, DeliveryInv
  <2>2. sar' = [sar EXCEPT ![c] = Decrement(sar[c])]
    BY <1>4, <2>1 DEF UnloadUnlist
  <2>3. Like(sar[c], Decrement(sar[c]))
    BY ContextTyped, AlikeLemma
  <2>4. Shrinks
    BY <1>4, <2>1, UnlistShrinks DEF UnloadUnlist, DeliveryInv, Inv
  <2>5. QED
    BY <1>4, <2>2, <2>3, <2>4, OtherStep DEF UnloadUnlist
<1>5. CASE UnloadReap
  <2>1. PICK c \in Contexts : c = unload.c
    BY <1>5, Unloads DEF UnloadReap, DeliveryInv
  <2>2. sar' = [sar EXCEPT ![c] = Unused]
    BY <1>5, <2>1 DEF UnloadReap
  <2>3. Ends(sar[c], Unused)
    BY ContextTyped, EndsLemma
  <2>4. QED
    BY <1>5, <2>2, <2>3, UnchangedShrinks, OtherStep DEF UnloadReap
<1>6. QED
  BY <1>1, <1>2, <1>3, <1>4, <1>5 DEF Unloading

-----------------------------------------------------------------------------
\* The steps of the event thread with the lock of a context.

\* What is in a packet of data that is not bad.
LEMMA PacketIs ==
    ASSUME TypeOK, NEW p \in Packets, ~p.bad, p.type = "data"
    PROVE  /\ p.key \in Keys /\ p.seg \in 1 .. message[p.key].segs
           /\ p = Data(p.key, p.seg)
           /\ p.last <=> p.seg = message[p.key].segs
<1>1. PICK k \in Keys :
        p \in {Data(k, i) : i \in 1 .. message[k].segs}
                \cup {[Data(k, 1) EXCEPT !.bad = TRUE], Control(k, "ack", FALSE),
                      Control(k, "abort", FALSE), Control(k, "abort", TRUE)}
  BY DEF Packets
<1>2. p # [Data(k, 1) EXCEPT !.bad = TRUE]
  BY DEF Data
<1>3. p \notin {Control(k, "ack", FALSE), Control(k, "abort", FALSE), Control(k, "abort", TRUE)}
  BY DEF Control
<1>4. PICK i \in 1 .. message[k].segs : p = Data(k, i)
  BY <1>1, <1>2, <1>3
<1>5. p.key = k /\ p.seg = i /\ (p.last <=> i = message[k].segs)
  BY <1>4 DEF Data
<1>6. QED
  BY <1>4, <1>5

LEMMA SegmentsNat ==
    ASSUME TypeOK, NEW k \in Keys
    PROVE  message[k].segs \in Nat \ {0}
BY RmppAssumption DEF TypeOK, RmppAssumption

LEMMA DataTyped ==
    ASSUME TypeOK, NEW k \in Keys, NEW i \in Nat
    PROVE  Data(k, i) \in AllPackets
BY RmppAssumption DEF TypeOK, RmppAssumption, Data, AllPackets, Types

LEMMA WholeGrows ==
    ASSUME TypeOK, NEW k \in Keys, NEW n \in Nat
    PROVE  Append(Whole(k, n), Data(k, n + 1)) = Whole(k, n + 1)
<1> DEFINE w == Whole(k, n)
           d == Data(k, n + 1)
           v == Whole(k, n + 1)
<1>1. w \in Seq(AllPackets) /\ v \in Seq(AllPackets) /\ d \in AllPackets
  <2>1. \A m \in Nat : \A i \in 1 .. m : Data(k, i) \in AllPackets
    BY DataTyped
  <2>2. w \in [1 .. n -> AllPackets] /\ v \in [1 .. n + 1 -> AllPackets]
    BY <2>1 DEF Whole
  <2>3. d \in AllPackets
    BY DataTyped
  <2> HIDE DEF w, v, d
  <2>4. QED
    BY <2>2, <2>3, SeqDef
<1>2. Len(w) = n /\ \A i \in 1 .. n : w[i] = Data(k, i)
  <2>1. DOMAIN w = 1 .. n /\ \A i \in 1 .. n : w[i] = Data(k, i)
    BY DEF Whole
  <2> HIDE DEF w
  <2>2. QED
    BY <1>1, <2>1, LenProperties
<1>3. Len(v) = n + 1 /\ \A i \in 1 .. n + 1 : v[i] = Data(k, i)
  <2>1. DOMAIN v = 1 .. n + 1 /\ \A i \in 1 .. n + 1 : v[i] = Data(k, i)
    BY DEF Whole
  <2> HIDE DEF v
  <2>2. QED
    BY <1>1, <2>1, LenProperties
<1>4. d = Data(k, n + 1)
  OBVIOUS
<1> HIDE DEF w, v, d
<1>5. Append(w, d) \in Seq(AllPackets) /\ Len(Append(w, d)) = n + 1
  BY <1>1, <1>2, AppendProperties
<1>6. \A i \in 1 .. n + 1 : Append(w, d)[i] = v[i]
  BY <1>1, <1>2, <1>3, <1>4, AppendProperties
<1>7. Append(w, d) = v
  BY <1>1, <1>3, <1>5, <1>6, SeqEqual
<1>8. QED
  BY <1>7 DEF w, v, d

\* What the thread knows of the context in hand and of its message.
LEMMA AtMessage ==
    ASSUME DeliveryInv, rx.pc = "lock", sar[rx.c].State # "destroy"
    PROVE  /\ rx.c \in Contexts /\ sar[rx.c].mem = "live" /\ sar[rx.c] \in Context
           /\ InHand(sar[rx.c])
           /\ sar[rx.c].key = rx.pkt.key /\ rx.pkt.key \in Keys
           /\ rx.pkt \in Packets /\ Filled(sar[rx.c])
           /\ message[rx.pkt.key].segs \in Nat \ {0}
           /\ sar[rx.c].State = "created" => sar[rx.c].ExpectedSeg = 1
           /\ sar[rx.c].State = "active" => sar[rx.c].ExpectedSeg > 1
<1>1. /\ rx.c \in Contexts /\ InHand(sar[rx.c])
      /\ sar[rx.c].State = "created" => sar[rx.c].ExpectedSeg = 1
      /\ sar[rx.c].State = "active" => sar[rx.c].ExpectedSeg > 1
  BY AtWork DEF DeliveryInv
<1>2. sar[rx.c].mem = "live" /\ sar[rx.c] \in Context
  BY <1>1 DEF InHand
<1>3. Filled(sar[rx.c]) /\ sar[rx.c].key \in Keys
  BY <1>1, <1>2 DEF DeliveryInv, AllFilled, Filled
<1>4. rx.c # None
  BY <1>1, RmppAssumption DEF RmppAssumption
<1>5. sar[rx.c].key = rx.pkt.key /\ rx.pkt \in Packets
  BY <1>4 DEF DeliveryInv, RxHas
<1>6. message[rx.pkt.key].segs \in Nat \ {0}
  BY <1>3, <1>5, SegmentsNat DEF DeliveryInv, Inv
<1>7. QED
  BY <1>1, <1>2, <1>3, <1>5, <1>6

\* The thread leaves the context as y.
LEMMA LeaveDelivery ==
    ASSUME DeliveryInv, Inv', rx.pc = "lock", sar[rx.c].State # "destroy",
           NEW y, sar' = [sar EXCEPT ![rx.c] = y], y.key = sar[rx.c].key, Filled(y)',
           rx'.pc \in {"drop", "unlist"}, rx'.c = rx.c, rx'.pkt = rx.pkt,
           rx'.status = "completed" =>
               rx'.list = Whole(rx.pkt.key, message[rx.pkt.key].segs),
           UNCHANGED <<message, recvList, given>>,
           \/ reply' = reply
           \/ reply'.type # "ack"
           \/ reply'.seg # message[reply'.key].segs
           \/ \A k : k = reply'.key => Delivered(k)'
    PROVE  DeliveryInv'
<1>1. PICK c \in Contexts : c = rx.c
  BY AtMessage
<1>2. sar'[c] = y /\ \A d \in Contexts \ {c} : sar'[d] = sar[d]
  BY <1>1 DEF DeliveryInv, Inv, TypeOK
<1>3. \A k : Delivered(k) => Delivered(k)'
  BY DEF Delivered, DeliveryInv, RxHas
<1>4. AllFilled'
  <2>1. SUFFICES ASSUME NEW d \in Contexts, NEW z, z = sar'[d]
                 PROVE  Filled(z)'
    BY DEF AllFilled
  <2>2. CASE d = c
    BY <1>2, <2>1, <2>2
  <2>3. CASE d # c
    <3>1. Filled(z)
      BY <1>2, <2>1, <2>3 DEF DeliveryInv, AllFilled
    <3>2. QED
      BY <1>3, <3>1, FilledNext
  <2>4. QED
    BY <2>2, <2>3
<1>5. RxHas'
  <2>1. Packets' = Packets /\ rx.pkt \in Packets
    BY AtMessage DEF Packets, Data, Control
  <2>2. \A k, n : Whole(k, n)' = Whole(k, n)
    BY DEF Whole, Data
  <2>3. sar'[c].key = rx.pkt.key
    BY <1>1, <1>2, AtMessage
  <2>4. QED
    BY <1>1, <2>1, <2>2, <2>3 DEF RxHas
<1>6. AckedIsDelivered'
  BY <1>3, AckedNext DEF DeliveryInv
<1>7. \A d \in Contexts : Onward(sar[d], sar'[d])
  <2>1. sar[c].mem = "live" /\ sar[c].State # "destroy" /\ y.key = sar[c].key
    BY <1>1, AtMessage
  <2>2. QED
    BY <1>2, <2>1 DEF Onward
<1>8. NewestFirst'
  BY <1>7, UnchangedShrinks, OrderKept DEF DeliveryInv, Inv
<1>9. Latest'
  BY DEF Latest
<1>10. QED
  BY <1>4, <1>5, <1>6, <1>8, <1>9 DEF DeliveryInv

\* It ends the message.
LEMMA StopDelivery ==
    ASSUME DeliveryInv, Inv', rx.pc = "lock", sar[rx.c].State # "destroy",
           NEW x, InHand(x), x.key = sar[rx.c].key,
           NEW s \in {"timewait", "timewait_recv"}, NEW status \in {"reject", "pending"},
           NEW answer, Stop(x, s, status, answer),
           s = "timewait_recv" =>
               x.ExpectedSeg = message[x.key].segs + 1 /\ Delivered(x.key),
           answer = reply \/ answer.type # "ack" \/ Delivered(answer.key)
    PROVE  DeliveryInv'
<1>1. PICK ok \in BOOLEAN : /\ Leave(Terminate(x, s, ok), status)
                            /\ reply' = IF ok THEN answer ELSE Answer(x.key, "stop")
  BY DEF Stop
<1>2. PICK y : y = Terminate(x, s, ok)
  OBVIOUS
<1>3. y.mem = "live" /\ SameData(x, y) /\ y.State = (IF ok THEN s ELSE "destroy")
  BY <1>2, TerminateInHand
<1>4. /\ sar' = [sar EXCEPT ![rx.c] = y]
      /\ rx' = [rx EXCEPT !.pc = IF y.State = "destroy" THEN "unlist" ELSE "drop",
                          !.status = status]
      /\ UNCHANGED <<message, recvList, given>>
  BY <1>1, <1>2 DEF Leave
<1>5. /\ rx'.pc \in {"drop", "unlist"} /\ rx'.c = rx.c /\ rx'.pkt = rx.pkt
      /\ rx'.status # "completed"
  BY <1>4 DEF DeliveryInv, Inv, TypeOK
<1>6. \A k : Delivered(k) => Delivered(k)'
  BY <1>4 DEF Delivered, DeliveryInv, RxHas
<1>7. y.key = sar[rx.c].key /\ y.key \in Keys
  BY <1>3, AtMessage DEF SameData
<1>8. Filled(y)
  BY <1>3, <1>7 DEF Filled, SameData
<1>9. Filled(y)'
  BY <1>4, <1>6, <1>8, FilledNext
<1>10. \/ reply' = reply
       \/ reply'.type # "ack"
       \/ \A k : k = reply'.key => Delivered(k)'
  BY <1>1, <1>6 DEF Answer
<1>11. QED
  BY <1>4, <1>5, <1>7, <1>9, <1>10, LeaveDelivery

\* It leaves it at rest.
LEMMA RestDelivery ==
    ASSUME DeliveryInv, Inv', rx.pc = "lock", sar[rx.c].State # "destroy",
           NEW y, y.State # "destroy", y.key = sar[rx.c].key, Filled(y),
           NEW status \in {"reject", "pending"}, Leave(y, status),
           \/ reply' = reply
           \/ reply'.type # "ack"
           \/ reply'.seg # message[reply'.key].segs
    PROVE  DeliveryInv'
<1>1. /\ sar' = [sar EXCEPT ![rx.c] = y]
      /\ rx' = [rx EXCEPT !.pc = "drop", !.status = status]
      /\ UNCHANGED <<message, recvList, given>>
  BY DEF Leave
<1>2. rx'.pc = "drop" /\ rx'.c = rx.c /\ rx'.pkt = rx.pkt /\ rx'.status # "completed"
  BY <1>1 DEF DeliveryInv, Inv, TypeOK
<1>3. \A k : Delivered(k) => Delivered(k)'
  BY <1>1 DEF Delivered, DeliveryInv, RxHas
<1>4. Filled(y)'
  BY <1>1, <1>3, FilledNext
<1>5. QED
  BY <1>1, <1>2, <1>4, LeaveDelivery

LEMMA BadDelivery ==
    ASSUME DeliveryInv, Inv', Bad
    PROVE  DeliveryInv'
<1>1. /\ rx.pc = "lock" /\ sar[rx.c].State # "destroy"
      /\ Stop(sar[rx.c], "timewait", "reject", Answer(rx.pkt.key, "abort"))
  BY DEF Bad, Locked
<1>2. InHand(sar[rx.c])
  BY <1>1, AtMessage
<1>3. Answer(rx.pkt.key, "abort").type # "ack"
  BY DEF Answer
<1>4. QED
  BY <1>1, <1>2, <1>3, StopDelivery

LEMMA IgnoreDelivery ==
    ASSUME DeliveryInv, Inv', Ignore
    PROVE  DeliveryInv'
<1>1. /\ rx.pc = "lock" /\ sar[rx.c].State # "destroy"
      /\ Leave(sar[rx.c], "reject") /\ reply' = reply
  BY DEF Ignore, Locked
<1>2. Filled(sar[rx.c])
  BY <1>1, AtMessage
<1>3. QED
  BY <1>1, <1>2, RestDelivery

LEMMA AckAgainDelivery ==
    ASSUME DeliveryInv, Inv', AckAgain
    PROVE  DeliveryInv'
<1>1. /\ rx.pc = "lock" /\ sar[rx.c].State = "timewait_recv"
      /\ Stop(sar[rx.c], "timewait_recv", "reject", Ack(sar[rx.c]))
  BY DEF AckAgain, Locked
<1>2. InHand(sar[rx.c]) /\ Filled(sar[rx.c]) /\ sar[rx.c].mem = "live"
  BY <1>1, AtMessage
<1>3. /\ sar[rx.c].ExpectedSeg = message[sar[rx.c].key].segs + 1
      /\ Delivered(sar[rx.c].key)
  BY <1>1, <1>2 DEF Filled
<1>4. Ack(sar[rx.c]).key = sar[rx.c].key
  BY DEF Ack
<1>5. QED
  BY <1>1, <1>2, <1>3, <1>4, StopDelivery

LEMMA MisplacedAckDelivery ==
    ASSUME DeliveryInv, Inv', MisplacedAck
    PROVE  DeliveryInv'
<1>1. /\ rx.pc = "lock" /\ sar[rx.c].State # "destroy"
      /\ Stop(sar[rx.c], "timewait", "reject", Answer(rx.pkt.key, "abort"))
  BY DEF MisplacedAck, Locked
<1>2. InHand(sar[rx.c])
  BY <1>1, AtMessage
<1>3. Answer(rx.pkt.key, "abort").type # "ack"
  BY DEF Answer
<1>4. QED
  BY <1>1, <1>2, <1>3, StopDelivery

LEMMA AbortedDelivery ==
    ASSUME DeliveryInv, Inv', Aborted
    PROVE  DeliveryInv'
<1>1. /\ rx.pc = "lock" /\ sar[rx.c].State # "destroy"
      /\ Stop(sar[rx.c], "timewait", "reject", reply)
  BY DEF Aborted, Locked
<1>2. InHand(sar[rx.c])
  BY <1>1, AtMessage
<1>3. QED
  BY <1>1, <1>2, StopDelivery

\* A segment that is not the expected one is answered with the last one that was.
LEMMA UnexpectedDelivery ==
    ASSUME DeliveryInv, Inv', Unexpected
    PROVE  DeliveryInv'
<1> DEFINE x == sar[rx.c]
<1>1. /\ rx.pc = "lock" /\ x.State \in {"created", "active"}
      /\ reply' = Ack(x) /\ Leave(x, "reject")
  BY DEF Unexpected, Segment, Locked
<1>2. x.State # "destroy"
  BY <1>1
<1>3. /\ Filled(x) /\ x.mem = "live" /\ x \in Context /\ x.key = rx.pkt.key
      /\ message[rx.pkt.key].segs \in Nat \ {0}
      /\ x.State = "created" => x.ExpectedSeg = 1
  BY <1>1, <1>2, AtMessage
<1>4. reply'.seg # message[reply'.key].segs
  <2>1. reply'.key = rx.pkt.key /\ reply'.seg = x.ExpectedSeg - 1
    BY <1>1, <1>3 DEF Ack
  <2>2. x.ExpectedSeg \in Nat
    BY <1>3 DEF Context
  <2>3. x.ExpectedSeg <= message[rx.pkt.key].segs
    <3>1. CASE x.State = "created"
      BY <1>3, <3>1
    <3>2. CASE x.State = "active"
      BY <1>3, <3>2 DEF Filled
    <3>3. QED
      BY <1>1, <3>1, <3>2
  <2> DEFINE e == x.ExpectedSeg
             m == message[rx.pkt.key].segs
  <2>4. e \in Nat /\ m \in Nat /\ e <= m
    BY <1>3, <2>2, <2>3
  <2> HIDE DEF e, m
  <2>5. e - 1 # m
    BY <2>4
  <2>6. QED
    BY <2>1, <2>5 DEF e, m
<1>5. message' = message
  BY <1>1 DEF Leave
<1>6. reply'.seg # message'[reply'.key].segs
  BY <1>4, <1>5
<1>7. QED
  BY <1>1, <1>2, <1>3, <1>4, RestDelivery

LEMMA NoTimerDelivery ==
    ASSUME DeliveryInv, Inv', NoTimer
    PROVE  DeliveryInv'
<1> DEFINE f == [StartTimer(sar[rx.c], FALSE) EXCEPT !.TotalSegs = rx.pkt.total]
<1>1. Stop(f, "timewait", "reject", Answer(rx.pkt.key, "stop"))
  BY DEF NoTimer
<1>2. rx.pc = "lock" /\ sar[rx.c].State # "destroy" /\ InHand(f) /\ f.key = sar[rx.c].key
  BY NotStarted DEF DeliveryInv
<1>3. Answer(rx.pkt.key, "stop").type # "ack"
  BY DEF Answer
<1> HIDE DEF f
<1>4. QED
  BY <1>1, <1>2, <1>3, StopDelivery

LEMMA InconsistentDelivery ==
    ASSUME DeliveryInv, Inv', Inconsistent
    PROVE  DeliveryInv'
<1> DEFINE y == Store(sar[rx.c], rx.pkt)
<1>1. Expected /\ Stop(y, "timewait", "pending", Answer(rx.pkt.key, "abort"))
  BY DEF Inconsistent
<1>2. rx.pc = "lock" /\ sar[rx.c].State # "destroy" /\ InHand(y) /\ y.key = sar[rx.c].key
  BY <1>1, Stored DEF DeliveryInv
<1>3. Answer(rx.pkt.key, "abort").type # "ack"
  BY DEF Answer
<1> HIDE DEF y
<1>4. QED
  BY <1>1, <1>2, <1>3, StopDelivery

\* The expected segment extends what the context has of the message.
LEMMA StoredWhole ==
    ASSUME DeliveryInv, Expected
    PROVE  LET x == sar[rx.c]
               y == Store(x, rx.pkt)
           IN  /\ y.key = rx.pkt.key /\ y.key \in Keys /\ y.mem = "live"
               /\ y \in Context /\ y.State = "active"
               /\ y.ExpectedSeg = rx.pkt.seg + 1
               /\ rx.pkt.seg \in 1 .. message[y.key].segs
               /\ rx.pkt.last <=> rx.pkt.seg = message[y.key].segs
               /\ y.RecvHead = Whole(y.key, rx.pkt.seg)
               /\ rx.pkt.seg = 1 => y.WindowLast = 1
               /\ rx.pkt.seg # 1 =>
                    /\ rx.pkt.seg <= y.WindowLast
                    /\ y.WindowLast < rx.pkt.seg + WindowSize
                    /\ y.TotalSegs # 0 => y.WindowLast <= y.TotalSegs
<1> DEFINE x == sar[rx.c]
           y == Store(x, rx.pkt)
<1>1. /\ rx.pc = "lock" /\ x.State \in {"created", "active"}
      /\ ~rx.pkt.bad /\ rx.pkt.type = "data" /\ rx.pkt.seg = x.ExpectedSeg
  BY DEF Expected, Segment, Locked
<1>2. x.State # "destroy"
  BY <1>1
<1>3. /\ Filled(x) /\ x.mem = "live" /\ x \in Context
      /\ x.key = rx.pkt.key /\ rx.pkt.key \in Keys /\ rx.pkt \in Packets
      /\ x.State = "created" => x.ExpectedSeg = 1
      /\ x.State = "active" => x.ExpectedSeg > 1
  BY <1>1, <1>2, AtMessage
<1>4. /\ rx.pkt.seg \in 1 .. message[rx.pkt.key].segs
      /\ rx.pkt = Data(rx.pkt.key, rx.pkt.seg)
      /\ rx.pkt.last <=> rx.pkt.seg = message[rx.pkt.key].segs
  BY <1>1, <1>3, PacketIs DEF DeliveryInv, Inv
<1>5. /\ InHand(y) /\ y.State = "active" /\ y.key = x.key
      /\ y.ExpectedSeg = x.ExpectedSeg + 1 /\ y.WindowLast = x.WindowLast
      /\ y.TotalSegs = (IF rx.pkt.seg = 1 THEN rx.pkt.total ELSE x.TotalSegs)
      /\ y.RecvHead = Append(x.RecvHead, rx.pkt)
  BY Stored DEF DeliveryInv
<1> HIDE DEF x, y
<1>6. y.mem = "live" /\ y \in Context
  BY <1>5 DEF InHand
<1>7. y.RecvHead = Whole(y.key, rx.pkt.seg)
  <2> DEFINE k == rx.pkt.key
             n == x.ExpectedSeg - 1
  <2>1. x.RecvHead = Whole(k, n)
    <3>1. CASE x.State = "created"
      <4>1. x.RecvHead = <<>> /\ n = 0
        BY <1>3, <3>1 DEF Filled
      <4>2. Whole(k, 0) = <<>>
        BY DEF Whole
      <4>3. QED
        BY <4>1, <4>2
    <3>2. CASE x.State = "active"
      BY <1>3, <3>2 DEF Filled
    <3>3. QED
      BY <1>1, <3>1, <3>2
  <2>2. x.ExpectedSeg \in Nat \ {0}
    BY <1>3 DEF Context
  <2>3. n \in Nat /\ rx.pkt.seg = n + 1
    BY <1>1, <2>2
  <2>4. rx.pkt = Data(k, n + 1)
    BY <1>4, <2>3
  <2>5. k \in Keys
    BY <1>3
  <2> HIDE DEF k, n
  <2>6. Append(x.RecvHead, rx.pkt) = Whole(k, n + 1)
    BY <2>1, <2>3, <2>4, <2>5, WholeGrows DEF DeliveryInv, Inv
  <2>7. QED
    BY <1>3, <1>5, <2>3, <2>6 DEF k
<1>8. rx.pkt.seg = 1 => y.WindowLast = 1
  <2>1. SUFFICES ASSUME rx.pkt.seg = 1
                 PROVE  y.WindowLast = 1
    OBVIOUS
  <2>2. x.State = "created"
    BY <1>1, <1>3, <2>1
  <2>3. QED
    BY <1>3, <1>5, <2>2 DEF Filled
<1>9. rx.pkt.seg # 1 =>
        /\ rx.pkt.seg <= y.WindowLast
        /\ y.WindowLast < rx.pkt.seg + WindowSize
        /\ y.TotalSegs # 0 => y.WindowLast <= y.TotalSegs
  <2>1. SUFFICES ASSUME rx.pkt.seg # 1
                 PROVE  /\ rx.pkt.seg <= y.WindowLast
                        /\ y.WindowLast < rx.pkt.seg + WindowSize
                        /\ y.TotalSegs # 0 => y.WindowLast <= y.TotalSegs
    OBVIOUS
  <2>2. x.State = "active"
    BY <1>1, <1>3, <2>1
  <2>3. QED
    BY <1>1, <1>3, <1>5, <2>1, <2>2 DEF Filled
<1>10. /\ y.key = rx.pkt.key /\ y.key \in Keys /\ y.mem = "live"
       /\ y \in Context /\ y.State = "active"
       /\ y.ExpectedSeg = rx.pkt.seg + 1
       /\ rx.pkt.seg \in 1 .. message[y.key].segs
       /\ rx.pkt.last <=> rx.pkt.seg = message[y.key].segs
  BY <1>1, <1>3, <1>4, <1>5, <1>6
<1>11. QED
  BY <1>7, <1>8, <1>9, <1>10 DEF x, y

\* The window is opened where the context needs it.
LEMMA WindowKept ==
    ASSUME NEW x \in Context, NEW n \in Nat \ {0}, x.ExpectedSeg = n + 1,
           n = 1 => x.WindowLast = 1,
           n # 1 => /\ n <= x.WindowLast /\ x.WindowLast < n + WindowSize
                    /\ x.TotalSegs # 0 => x.WindowLast <= x.TotalSegs,
           x.TotalSegs # 0 => x.ExpectedSeg <= x.TotalSegs
    PROVE  LET y == IF MustAck(x) THEN Advance(x) ELSE x
           IN  /\ y.mem = x.mem /\ y.State = x.State /\ y.key = x.key
               /\ y.ExpectedSeg = x.ExpectedSeg /\ y.RecvHead = x.RecvHead
               /\ y.ExpectedSeg <= y.WindowLast
               /\ y.WindowLast < y.ExpectedSeg + WindowSize
               /\ y.TotalSegs # 0 => y.WindowLast <= y.TotalSegs
<1>1. /\ x.WindowLast \in Nat /\ x.TotalSegs \in Nat
      /\ WindowSize \in Nat \ {0}
  BY RmppAssumption DEF Context, RmppAssumption
<1>2. CASE MustAck(x)
  <2>1. x.ExpectedSeg > 1
    OBVIOUS
  <2> DEFINE y == Advance(x)
             e == x.ExpectedSeg
             t == x.TotalSegs
             w == y.WindowLast
  <2>2. /\ y.mem = x.mem /\ y.State = x.State /\ y.key = x.key
        /\ y.ExpectedSeg = x.ExpectedSeg /\ y.RecvHead = x.RecvHead
        /\ y.TotalSegs = x.TotalSegs
        /\ w = IF t # 0 /\ e + WindowSize - 1 > t THEN t ELSE e + WindowSize - 1
    BY <2>1, AdvanceTyped
  <2>3. e \in Nat /\ t \in Nat /\ (t # 0 => e <= t)
    BY <1>1
  <2> HIDE DEF y
  <2>4. e <= w /\ w < e + WindowSize /\ (t # 0 => w <= t)
    <3> HIDE DEF e, t, w
    <3>1. QED
      BY <1>1, <2>2, <2>3
  <2>5. QED
    BY <1>2, <2>2, <2>4 DEF y
<1>3. CASE ~MustAck(x)
  <2>1. x.ExpectedSeg <= x.WindowLast
    BY <1>1, <1>3 DEF MustAck
  <2>2. n # 1
    BY <1>1, <2>1
  <2>3. QED
    BY <1>1, <1>3, <2>1, <2>2
<1>4. QED
  BY <1>2, <1>3

LEMMA ProceedDelivery ==
    ASSUME DeliveryInv, Inv', Proceed
    PROVE  DeliveryInv'
<1> DEFINE s == Store(sar[rx.c], rx.pkt)
<1>1. /\ Expected /\ ~rx.pkt.last /\ ~WrongCount(s, rx.pkt)
      /\ Leave(IF MustAck(s) THEN Advance(s) ELSE s, "pending")
      /\ reply' = IF MustAck(s) THEN Ack(IF MustAck(s) THEN Advance(s) ELSE s) ELSE reply
  BY DEF Proceed
<1>2. PICK x : x = s
  OBVIOUS
<1>3. PICK n : n = rx.pkt.seg
  OBVIOUS
<1>4. PICK y : y = IF MustAck(x) THEN Advance(x) ELSE x
  OBVIOUS
<1>5. rx.pc = "lock" /\ sar[rx.c].State # "destroy" /\ x.key = sar[rx.c].key
  BY <1>1, <1>2, Stored DEF DeliveryInv
<1>6. /\ x.key \in Keys /\ x.mem = "live" /\ x \in Context /\ x.State = "active"
      /\ x.ExpectedSeg = n + 1 /\ n \in 1 .. message[x.key].segs
      /\ rx.pkt.last <=> n = message[x.key].segs
      /\ x.RecvHead = Whole(x.key, n)
      /\ n = 1 => x.WindowLast = 1
      /\ n # 1 => /\ n <= x.WindowLast /\ x.WindowLast < n + WindowSize
                  /\ x.TotalSegs # 0 => x.WindowLast <= x.TotalSegs
  BY <1>1, <1>2, <1>3, StoredWhole
<1>7. message[x.key].segs \in Nat \ {0}
  BY <1>6, SegmentsNat DEF DeliveryInv, Inv
<1>8. n \in Nat \ {0} /\ n < message[x.key].segs
  BY <1>1, <1>6, <1>7
<1>9. x.TotalSegs # 0 => x.ExpectedSeg <= x.TotalSegs
  <2>1. ~(x.TotalSegs # 0 /\ x.ExpectedSeg > x.TotalSegs)
    BY <1>1, <1>2 DEF WrongCount
  <2>2. x.ExpectedSeg \in Nat /\ x.TotalSegs \in Nat
    BY <1>6 DEF Context
  <2>3. QED
    BY <2>1, <2>2
<1>10. /\ y.mem = x.mem /\ y.State = x.State /\ y.key = x.key
       /\ y.ExpectedSeg = x.ExpectedSeg /\ y.RecvHead = x.RecvHead
       /\ y.ExpectedSeg <= y.WindowLast
       /\ y.WindowLast < y.ExpectedSeg + WindowSize
       /\ y.TotalSegs # 0 => y.WindowLast <= y.TotalSegs
  BY <1>4, <1>6, <1>8, <1>9, WindowKept
<1>11. Filled(y)
  <2>1. y.ExpectedSeg - 1 = n /\ y.ExpectedSeg <= message[y.key].segs
    BY <1>6, <1>7, <1>8, <1>10
  <2>2. QED
    BY <1>6, <1>10, <2>1 DEF Filled
<1>12. Leave(y, "pending") /\ reply' = IF MustAck(x) THEN Ack(y) ELSE reply
  BY <1>1, <1>2, <1>4
<1>13. reply' = reply \/ reply'.seg # message[reply'.key].segs
  <2>1. SUFFICES ASSUME reply' = Ack(y)
                 PROVE  reply'.seg # message[reply'.key].segs
    BY <1>12
  <2>2. reply'.seg = y.ExpectedSeg - 1 /\ reply'.key = x.key
    BY <1>10, <2>1 DEF Ack
  <2>3. reply'.seg = n
    BY <1>6, <1>8, <1>10, <2>2
  <2>4. QED
    BY <1>7, <1>8, <2>2, <2>3
<1>14. y.State # "destroy" /\ y.key = sar[rx.c].key
  BY <1>5, <1>6, <1>10
<1> HIDE DEF s
<1>15. QED
  BY <1>5, <1>11, <1>12, <1>13, <1>14, RestDelivery

\* The last segment makes the message whole.
LEMMA GotLastDelivery ==
    ASSUME DeliveryInv, Inv', GotLast
    PROVE  DeliveryInv'
<1> DEFINE s == Store(sar[rx.c], rx.pkt)
           done == [StopTimer(s) EXCEPT !.State = "done", !.RecvHead = <<>>]
<1>1. PICK ok \in BOOLEAN :
        /\ sar' = [sar EXCEPT ![rx.c] = Terminate(done, "timewait_recv", ok)]
        /\ reply' = IF ok THEN Ack(s) ELSE Answer(s.key, "stop")
        /\ rx' = [rx EXCEPT !.pc = IF ok THEN "drop" ELSE "unlist",
                            !.status = "completed", !.list = s.RecvHead]
  BY DEF GotLast
<1>2. Expected /\ rx.pkt.last /\ UNCHANGED <<message, recvList, given>>
  BY DEF GotLast
<1>3. PICK x : x = s
  OBVIOUS
<1>4. PICK n : n = rx.pkt.seg
  OBVIOUS
<1>5. PICK y : y = Terminate(done, "timewait_recv", ok)
  OBVIOUS
<1>6. /\ rx.pc = "lock" /\ sar[rx.c].State # "destroy"
      /\ InHand(x) /\ x.key = sar[rx.c].key
  BY <1>2, <1>3, Stored DEF DeliveryInv
<1>7. /\ x.key \in Keys /\ x.State = "active" /\ x.key = rx.pkt.key
      /\ x.ExpectedSeg = n + 1 /\ n = message[x.key].segs
      /\ x.RecvHead = Whole(x.key, n)
  BY <1>2, <1>3, <1>4, StoredWhole
<1>8. InHand(done) /\ SameData(x, done)
  BY <1>3, <1>6, <1>7, DoneInHand DEF Armed
<1>9. /\ y.mem = "live" /\ y.State = (IF ok THEN "timewait_recv" ELSE "destroy")
      /\ y.key = x.key /\ y.ExpectedSeg = x.ExpectedSeg
  <2>1. y.mem = "live" /\ y.State = (IF ok THEN "timewait_recv" ELSE "destroy")
        /\ SameData(done, y)
    <3> HIDE DEF done
    <3>1. QED
      BY <1>5, <1>8, TerminateInHand
  <2>2. QED
    BY <1>8, <2>1 DEF SameData
<1>10. sar' = [sar EXCEPT ![rx.c] = y] /\ reply' = (IF ok THEN Ack(x) ELSE Answer(x.key, "stop"))
  BY <1>1, <1>3, <1>5
<1>11. /\ rx'.pc \in {"drop", "unlist"} /\ rx'.c = rx.c /\ rx'.pkt = rx.pkt
       /\ rx'.status = "completed" /\ rx'.list = Whole(rx.pkt.key, message[rx.pkt.key].segs)
  <2>1. rx' = [rx EXCEPT !.pc = IF ok THEN "drop" ELSE "unlist",
                         !.status = "completed", !.list = x.RecvHead]
    BY <1>1, <1>3
  <2>2. rx \in Rxs
    BY Typed DEF DeliveryInv, Inv
  <2>3. QED
    BY <1>7, <2>1, <2>2 DEF Rxs
<1>12. Delivered(y.key)'
  BY <1>7, <1>9, <1>11 DEF Delivered
<1>13. Filled(y)'
  BY <1>2, <1>7, <1>9, <1>12 DEF Filled
<1>14. \/ reply'.type # "ack"
       \/ \A k : k = reply'.key => Delivered(k)'
  <2>1. CASE ok
    <3>1. reply'.key = y.key
      BY <1>9, <1>10, <2>1 DEF Ack
    <3>2. QED
      BY <1>12, <3>1
  <2>2. CASE ~ok
    BY <1>10, <2>2 DEF Answer
  <2>3. QED
    BY <2>1, <2>2
<1>15. y.key = sar[rx.c].key
  BY <1>6, <1>9
<1> HIDE DEF s, done
<1>16. QED
  BY <1>2, <1>6, <1>10, <1>11, <1>13, <1>14, <1>15, LeaveDelivery

-----------------------------------------------------------------------------
\* The steps of the event thread without the lock of a context.

\* They leave every message as it is.
LEMMA MoveDelivery ==
    ASSUME DeliveryInv, Inv', \A d \in Contexts : Like(sar[d], sar'[d]), Shrinks,
           message' = message, \A k : Delivered(k) => Delivered(k)',
           reply' = reply \/ reply'.type # "ack", RxHas', Latest'
    PROVE  DeliveryInv'
<1>1. \A d \in Contexts : Filled(sar'[d]) /\ Onward(sar[d], sar'[d])
  BY FilledKept DEF DeliveryInv, AllFilled
<1>2. AllFilled'
  <2>1. SUFFICES ASSUME NEW d \in Contexts, NEW z, z = sar'[d]
                 PROVE  Filled(z)'
    BY DEF AllFilled
  <2>2. Filled(z)
    BY <1>1, <2>1
  <2>3. QED
    BY <2>2, FilledNext
<1>3. AckedIsDelivered'
  BY AckedNext DEF DeliveryInv
<1>4. NewestFirst'
  BY <1>1, OrderKept DEF DeliveryInv, Inv
<1>5. QED
  BY <1>2, <1>3, <1>4 DEF DeliveryInv

LEMMA SameLike ==
    \A x : Like(x, x)
BY DEF Like, SameData

\* A context that may still be used is on the list.
LEMMA UsedIsListed ==
    ASSUME Inv, NEW d \in Contexts, sar[d].mem = "live", sar[d].State # "destroy"
    PROVE  Listed(d)
<1>1. sar[d] \in Context /\ Sound(sar[d], Listed(d), RxOf(d), UnOf(d))
  BY DEF Inv, TypeOK, AllSound
<1>2. Staged(sar[d], Listed(d), RxOf(d), UnOf(d))
  BY <1>1 DEF Sound
<1>3. sar[d].State \in {"created"} \cup Armed
  BY <1>1, <1>2 DEF Context, States, Armed, Staged
<1>4. QED
  BY <1>2, <1>3 DEF Staged

LEMMA ArriveDelivery ==
    ASSUME DeliveryInv, Inv', NEW p \in Packets, Arrive(p)
    PROVE  DeliveryInv'
<1>1. /\ rx.pc = "idle" /\ rx.status = "none"
      /\ UNCHANGED <<message, recvList, reply, given>>
  BY DEF Arrive, DeliveryInv, RxHas
<1>2. Packets' = Packets
  BY <1>1 DEF Packets, Data, Control
<1>3. recvList \in Seq(Contexts) /\ \A d \in Contexts : sar[d] \in Context
  BY DEF DeliveryInv, Inv, TypeOK
<1>4. Idle.status = "none" /\ Idle.c = None /\ Idle \in Rxs
  BY IdleTyped DEF Idle
<1>5. p \in AllPackets
  BY PacketsTyped DEF DeliveryInv, Inv
<1>6. CASE Matches(p) = {} /\ rx' = [Idle EXCEPT !.pc = "new", !.pkt = p] /\ UNCHANGED sar
  <2>1. rx'.pc = "new" /\ rx'.pkt = p /\ rx'.c = None /\ rx'.status = "none"
    BY <1>4, <1>6 DEF Rxs
  <2>2. \A k : Delivered(k) => Delivered(k)'
    BY <1>1 DEF Delivered
  <2>3. RxHas'
    BY <1>2, <2>1 DEF RxHas
  <2>4. Latest'
    <3>1. SUFFICES ASSUME message[p.key].response, NEW d \in Contexts,
                          sar[d].mem = "live", sar[d].key = p.key, sar[d].State # "destroy"
                   PROVE  FALSE
      BY <1>1, <1>6, <2>1 DEF Latest
    <3>2. PICK j \in DOMAIN recvList : recvList[j] = d
      BY <3>1, UsedIsListed DEF Listed, DeliveryInv
    <3>3. j \in Matches(p)
      BY <3>1, <3>2 DEF Matches
    <3>4. QED
      BY <1>6, <3>3
  <2>5. \A d \in Contexts : Like(sar[d], sar'[d])
    BY <1>6, SameLike
  <2>6. QED
    BY <1>1, <2>2, <2>3, <2>4, <2>5, UnchangedShrinks, MoveDelivery
<1>7. ASSUME NEW i \in Matches(p), \A j \in Matches(p) : i <= j,
             rx' = [Idle EXCEPT !.pc = "lock", !.pkt = p, !.c = recvList[i]],
             sar' = [sar EXCEPT ![recvList[i]] = Increment(@)]
      PROVE  DeliveryInv'
  <2>1. /\ i \in DOMAIN recvList /\ message[p.key].response
        /\ sar[recvList[i]].key = p.key
    BY DEF Matches
  <2>2. PICK c \in Contexts : c = recvList[i]
    BY <1>3, <2>1
  <2>3. rx'.pc = "lock" /\ rx'.pkt = p /\ rx'.c = c /\ rx'.status = "none"
    BY <1>4, <1>5, <1>7, <2>2 DEF Rxs
  <2>4. \A k : Delivered(k) => Delivered(k)'
    BY <1>1 DEF Delivered
  <2>5. sar'[c] = Increment(sar[c]) /\ \A d \in Contexts \ {c} : sar'[d] = sar[d]
    BY <1>7, <2>2 DEF DeliveryInv, Inv, TypeOK
  <2>6. sar'[c].key = sar[c].key
    BY <1>3, <2>5 DEF Increment, Context
  <2>7. RxHas'
    BY <1>2, <2>1, <2>2, <2>3, <2>6 DEF RxHas
  <2>8. Latest'
    <3>1. SUFFICES ASSUME NEW d \in Contexts, d # c, sar[d].mem = "live",
                          sar[d].key = p.key, sar[d].State # "destroy"
                   PROVE  FALSE
      BY <1>1, <2>3, <2>5 DEF Latest
    <3>2. PICK j \in DOMAIN recvList : recvList[j] = d
      BY <3>1, UsedIsListed DEF Listed, DeliveryInv
    <3>3. j \in Matches(p)
      BY <2>1, <3>1, <3>2 DEF Matches
    <3>4. i \in Nat /\ j \in Nat
      <4>1. DOMAIN recvList = 1 .. Len(recvList) /\ Len(recvList) \in Nat
        BY <1>3, LenProperties
      <4>2. QED
        BY <2>1, <4>1
    <3>5. i < j
      BY <1>7, <2>2, <3>1, <3>2, <3>3, <3>4
    <3>6. QED
      BY <2>1, <2>2, <3>1, <3>2, <3>5 DEF DeliveryInv, NewestFirst
  <2>9. \A d \in Contexts : Like(sar[d], sar'[d])
    BY <1>3, <2>5, AlikeLemma, SameLike
  <2>10. QED
    BY <1>1, <2>4, <2>7, <2>8, <2>9, UnchangedShrinks, MoveDelivery
<1>8. QED
  BY <1>6, <1>7 DEF Arrive

LEMMA RejectDelivery ==
    ASSUME DeliveryInv, Inv', RejectNew \/ NoRoom
    PROVE  DeliveryInv'
<1>1. /\ rx.pc = "new" /\ rx' = Idle /\ reply'.type # "ack"
      /\ UNCHANGED <<message, sar, recvList, given>>
  BY DEF RejectNew, NoRoom, Discard, Answer
<1>2. rx'.pc = "idle" /\ rx'.status = "none" /\ rx'.c = None
  BY <1>1 DEF Idle
<1>3. \A k : Delivered(k) => Delivered(k)'
  BY <1>1 DEF Delivered, DeliveryInv, RxHas
<1>4. RxHas' /\ Latest'
  BY <1>2 DEF RxHas, Latest
<1>5. QED
  BY <1>1, <1>3, <1>4, SameLike, UnchangedShrinks, MoveDelivery

LEMMA SkipDestroyedDelivery ==
    ASSUME DeliveryInv, Inv', SkipDestroyed
    PROVE  DeliveryInv'
<1>1. PICK c \in Contexts : c = rx.c
  BY DEF SkipDestroyed, DeliveryInv, Inv, TypeOK, RxKnows
<1>2. /\ rx.pc = "lock" /\ sar[c].State = "destroy"
      /\ sar' = [sar EXCEPT ![c] = Decrement(sar[c])]
      /\ rx' = [rx EXCEPT !.pc = "new", !.c = None]
      /\ UNCHANGED <<message, recvList, reply, given>>
  BY <1>1 DEF SkipDestroyed
<1>3. /\ rx'.pc = "new" /\ rx'.c = None /\ rx'.pkt = rx.pkt /\ rx'.status = rx.status
      /\ rx.status = "none"
  BY <1>2 DEF DeliveryInv, Inv, TypeOK, RxHas
<1>4. sar'[c] = Decrement(sar[c]) /\ \A d \in Contexts \ {c} : sar'[d] = sar[d]
  BY <1>2 DEF DeliveryInv, Inv, TypeOK
<1>5. \A d \in Contexts : Like(sar[d], sar'[d])
  BY <1>4, ContextTyped, AlikeLemma, SameLike
<1>6. \A k : Delivered(k) => Delivered(k)'
  BY <1>2, <1>3 DEF Delivered
<1>7. RxHas'
  <2>1. Packets' = Packets
    BY <1>2 DEF Packets, Data, Control
  <2>2. QED
    BY <1>2, <1>3, <2>1 DEF RxHas, DeliveryInv
<1>8. Latest'
  <2>1. SUFFICES ASSUME message[rx.pkt.key].response, NEW d \in Contexts,
                        sar'[d].mem = "live", sar'[d].key = rx.pkt.key
                 PROVE  sar'[d].State = "destroy"
    BY <1>2, <1>3 DEF Latest
  <2>2. sar[d].mem = "live" /\ sar[d].key = rx.pkt.key /\ sar'[d].State = sar[d].State
    BY <1>5, <2>1 DEF Like, SameData
  <2>3. CASE d = c
    BY <1>2, <2>2, <2>3
  <2>4. CASE d # c
    BY <1>1, <1>2, <2>1, <2>2, <2>4 DEF DeliveryInv, Latest
  <2>5. QED
    BY <2>3, <2>4
<1>9. QED
  BY <1>2, <1>5, <1>6, <1>7, <1>8, UnchangedShrinks, MoveDelivery

LEMMA RxUnlistDelivery ==
    ASSUME DeliveryInv, Inv', RxUnlist
    PROVE  DeliveryInv'
<1>1. PICK c \in Contexts : c = rx.c
  BY DEF RxUnlist, DeliveryInv, Inv, TypeOK, RxKnows
<1>2. /\ rx.pc = "unlist" /\ Unlist(c)
      /\ sar' = [sar EXCEPT ![c] = Decrement(sar[c])]
      /\ rx' = [rx EXCEPT !.pc = "drop"]
      /\ UNCHANGED <<message, reply, given>>
  BY <1>1 DEF RxUnlist
<1>3. /\ rx'.pc = "drop" /\ rx'.c = rx.c /\ rx'.pkt = rx.pkt /\ rx'.status = rx.status
      /\ rx'.list = rx.list
  BY <1>2 DEF DeliveryInv, Inv, TypeOK
<1>4. sar'[c] = Decrement(sar[c]) /\ \A d \in Contexts \ {c} : sar'[d] = sar[d]
  BY <1>2 DEF DeliveryInv, Inv, TypeOK
<1>5. \A d \in Contexts : Like(sar[d], sar'[d])
  BY <1>4, ContextTyped, AlikeLemma, SameLike
<1>6. \A k : Delivered(k) => Delivered(k)'
  BY <1>2, <1>3 DEF Delivered
<1>7. RxHas'
  <2>1. Packets' = Packets
    BY <1>2 DEF Packets, Data, Control
  <2>2. \A k, n : Whole(k, n)' = Whole(k, n)
    BY <1>2 DEF Whole, Data
  <2>3. sar'[c].key = sar[c].key
    BY <1>4, ContextTyped DEF Decrement, Context
  <2>4. c # None /\ sar[c].key = rx.pkt.key
    BY <1>1, RmppAssumption DEF RmppAssumption, DeliveryInv, RxHas
  <2>5. QED
    BY <1>1, <1>2, <1>3, <2>1, <2>2, <2>3, <2>4 DEF RxHas, DeliveryInv
<1>8. Latest'
  BY <1>3 DEF Latest
<1>9. Shrinks
  BY <1>2, UnlistShrinks DEF DeliveryInv, Inv
<1>10. QED
  BY <1>2, <1>5, <1>6, <1>7, <1>8, <1>9, MoveDelivery

LEMMA RxDropDelivery ==
    ASSUME DeliveryInv, Inv', RxDrop
    PROVE  DeliveryInv'
<1>1. PICK c \in Contexts : c = rx.c
  BY DEF RxDrop, DeliveryInv, Inv, TypeOK, RxKnows
<1>2. /\ sar' = [sar EXCEPT ![c] = Decrement(sar[c])] /\ rx' = Idle
      /\ given' = IF rx.status = "completed" THEN given \cup {rx.pkt.key} ELSE given
      /\ UNCHANGED <<message, recvList, reply>>
  BY <1>1 DEF RxDrop
<1>3. rx'.pc = "idle" /\ rx'.status = "none" /\ rx'.c = None
  BY <1>2 DEF Idle
<1>4. sar'[c] = Decrement(sar[c]) /\ \A d \in Contexts \ {c} : sar'[d] = sar[d]
  BY <1>2 DEF DeliveryInv, Inv, TypeOK
<1>5. \A d \in Contexts : Like(sar[d], sar'[d])
  BY <1>4, ContextTyped, AlikeLemma, SameLike
<1>6. \A k : Delivered(k) => Delivered(k)'
  BY <1>2 DEF Delivered
<1>7. RxHas' /\ Latest'
  BY <1>3 DEF RxHas, Latest
<1>8. QED
  BY <1>2, <1>5, <1>6, <1>7, UnchangedShrinks, MoveDelivery

\* A new context is the first on the list, and the only one for its key that is
\* in use.
LEMMA CreateDelivery ==
    ASSUME DeliveryInv, Inv', NEW c \in Contexts, Create(c)
    PROVE  DeliveryInv'
<1> DEFINE n == [Unused EXCEPT !.mem = "live", !.key = rx.pkt.key, !.RefCount = 2]
<1>1. PICK y : y = n
  OBVIOUS
<1>2. /\ rx.pc = "new" /\ sar[c].mem = "free"
      /\ sar' = [sar EXCEPT ![c] = y] /\ recvList' = <<c>> \o recvList
      /\ rx' = [rx EXCEPT !.pc = "lock", !.c = c]
      /\ UNCHANGED <<message, reply, given>>
  BY <1>1 DEF Create
<1>3. /\ y.mem = "live" /\ y.key = rx.pkt.key /\ y.State = "created"
      /\ y.RecvHead = <<>> /\ y.WindowLast = 1
  BY <1>1 DEF Unused
<1>4. rx.pkt \in Packets /\ rx.pkt.key \in Keys /\ rx.c = None
  <2>1. rx.pkt \in Packets /\ rx.pkt \in AllPackets /\ rx.c = None
    BY <1>2 DEF DeliveryInv, RxHas, Inv, RxKnows
  <2>2. QED
    BY <2>1 DEF AllPackets
<1>5. /\ rx'.pc = "lock" /\ rx'.c = c /\ rx'.pkt = rx.pkt /\ rx'.status = rx.status
      /\ rx.status = "none"
  BY <1>2 DEF DeliveryInv, Inv, TypeOK, RxHas
<1>6. sar'[c] = y /\ \A d \in Contexts \ {c} : sar'[d] = sar[d]
  BY <1>2 DEF DeliveryInv, Inv, TypeOK
<1>7. \A k : Delivered(k) => Delivered(k)'
  BY <1>2, <1>5 DEF Delivered
<1>8. AllFilled'
  <2>1. SUFFICES ASSUME NEW d \in Contexts, NEW z, z = sar'[d]
                 PROVE  Filled(z)'
    BY DEF AllFilled
  <2>2. Filled(z)
    <3>1. CASE d = c
      BY <1>3, <1>4, <1>6, <2>1, <3>1 DEF Filled
    <3>2. CASE d # c
      BY <1>6, <2>1, <3>2 DEF DeliveryInv, AllFilled
    <3>3. QED
      BY <3>1, <3>2
  <2>3. QED
    BY <1>2, <1>7, <2>2, FilledNext
<1>9. RxHas'
  <2>1. Packets' = Packets
    BY <1>2 DEF Packets, Data, Control
  <2>2. QED
    BY <1>3, <1>4, <1>5, <1>6, <2>1 DEF RxHas
<1>10. AckedIsDelivered'
  BY <1>2, <1>7, AckedNext DEF DeliveryInv
<1>11. message[rx.pkt.key].response =>
         \A d \in Contexts \ {c} :
             sar[d].mem = "live" /\ sar[d].key = rx.pkt.key => sar[d].State = "destroy"
  BY <1>2, <1>4, RmppAssumption DEF DeliveryInv, Latest, RmppAssumption
<1>12. Latest'
  BY <1>2, <1>5, <1>6, <1>11 DEF Latest
<1>13. NewestFirst'
  <2>1. SUFFICES ASSUME NEW i \in DOMAIN recvList', NEW j \in DOMAIN recvList', i < j,
                        sar'[recvList'[i]].key = sar'[recvList'[j]].key,
                        message[sar'[recvList'[j]].key].response
                 PROVE  sar'[recvList'[j]].State = "destroy"
    BY <1>2 DEF NewestFirst
  <2>2. recvList \in Seq(Contexts) /\ recvList' \in Seq(Contexts) /\ NoTwice'
    BY DEF DeliveryInv, Inv, TypeOK
  <2>3. DOMAIN recvList = 1 .. Len(recvList) /\ Len(recvList) \in Nat
    BY <2>2, LenProperties
  <2>4. /\ Len(recvList') = 1 + Len(recvList) /\ recvList'[1] = c
        /\ \A m \in 2 .. 1 + Len(recvList) : recvList'[m] = recvList[m - 1]
    <3>1. <<c>> \in Seq(Contexts) /\ Len(<<c>>) = 1 /\ <<c>>[1] = c
      OBVIOUS
    <3>2. /\ Len(recvList') = 1 + Len(recvList)
          /\ \A m \in 1 .. 1 + Len(recvList) :
                recvList'[m] = IF m <= 1 THEN <<c>>[m] ELSE recvList[m - 1]
      BY <1>2, <2>2, <3>1, ConcatProperties
    <3>3. QED
      BY <2>3, <3>1, <3>2
  <2>5. DOMAIN recvList' = 1 .. 1 + Len(recvList)
    BY <2>2, <2>4, LenProperties
  <2>6. /\ j \in 2 .. 1 + Len(recvList) /\ j - 1 \in DOMAIN recvList
        /\ i \in 1 .. 1 + Len(recvList)
    BY <2>1, <2>3, <2>5
  <2>7. PICK d \in Contexts : d = recvList'[j] /\ d = recvList[j - 1]
    BY <2>2, <2>4, <2>6
  <2>8. d # c
    <3>1. 1 \in DOMAIN recvList' /\ j # 1
      BY <2>3, <2>5, <2>6
    <3>2. QED
      BY <2>1, <2>2, <2>4, <2>7, <3>1 DEF NoTwice
  <2>9. sar'[d] = sar[d]
    BY <1>6, <2>8
  <2>10. CASE i = 1
    <3>1. sar[d].key = rx.pkt.key
      BY <1>3, <1>6, <2>1, <2>4, <2>7, <2>9, <2>10
    <3>2. sar'[d].mem = "live"
      <4>1. Listed(d)'
        BY <2>1, <2>7 DEF Listed
      <4>2. sar'[d] \in Context /\ Sound(sar'[d], Listed(d)', RxOf(d)', UnOf(d)')
        BY DEF Inv, TypeOK, AllSound
      <4>3. QED
        BY <4>1, <4>2, HeldIsLive
    <3>3. QED
      BY <1>11, <2>1, <2>7, <2>8, <2>9, <3>1, <3>2
  <2>11. CASE i # 1
    <3>1. i - 1 \in DOMAIN recvList /\ i - 1 < j - 1 /\ i \in 2 .. 1 + Len(recvList)
      BY <2>1, <2>3, <2>6, <2>11
    <3>2. PICK e \in Contexts : e = recvList'[i] /\ e = recvList[i - 1]
      BY <2>2, <2>4, <3>1
    <3>3. e # c
      <4>1. 1 \in DOMAIN recvList'
        BY <2>3, <2>5
      <4>2. QED
        BY <2>1, <2>2, <2>4, <2>11, <3>2, <4>1 DEF NoTwice
    <3>4. sar'[e] = sar[e]
      BY <1>6, <3>3
    <3>5. /\ sar[recvList[i - 1]].key = sar[recvList[j - 1]].key
          /\ message[sar[recvList[j - 1]].key].response
      BY <2>1, <2>7, <2>9, <3>2, <3>4
    <3>6. sar[recvList[j - 1]].State = "destroy"
      BY <2>6, <3>1, <3>5 DEF DeliveryInv, NewestFirst
    <3>7. QED
      BY <2>7, <2>9, <3>6
  <2>12. QED
    BY <2>10, <2>11
<1>14. QED
  BY <1>8, <1>9, <1>10, <1>12, <1>13 DEF DeliveryInv

-----------------------------------------------------------------------------
\* The invariant is inductive.

LEMMA DeliveryInit ==
    ASSUME Init
    PROVE  DeliveryInv
<1>1. Inv
  BY InvInit
<1>2. rx.pc = "idle" /\ rx.c = None /\ rx.status = "none"
  BY DEF Init, Idle
<1>3. AllFilled
  BY DEF Init, AllFilled, Filled, Unused
<1>4. RxHas /\ Latest
  BY <1>2 DEF RxHas, Latest
<1>5. AckedIsDelivered
  BY DEF Init, AckedIsDelivered
<1>6. NewestFirst
  BY DEF Init, NewestFirst
<1>7. QED
  BY <1>1, <1>3, <1>4, <1>5, <1>6 DEF DeliveryInv

LEMMA DeliveryNext ==
    ASSUME DeliveryInv, [Next]_vars
    PROVE  DeliveryInv'
<1>1. Inv'
  BY InvNext DEF DeliveryInv
<1>2. CASE \E p \in Packets : Arrive(p)
  BY <1>1, <1>2, ArriveDelivery
<1>3. CASE Process
  <2>1. CASE SkipDestroyed \/ RejectNew \/ NoRoom \/ \E c \in Contexts : Create(c)
    BY <1>1, <2>1, SkipDestroyedDelivery, RejectDelivery, CreateDelivery
  <2>2. CASE Bad \/ Ignore \/ AckAgain \/ MisplacedAck \/ Aborted
    BY <1>1, <2>2, BadDelivery, IgnoreDelivery, AckAgainDelivery, MisplacedAckDelivery,
       AbortedDelivery
  <2>3. CASE Unexpected \/ NoTimer \/ Inconsistent \/ GotLast \/ Proceed
    BY <1>1, <2>3, UnexpectedDelivery, NoTimerDelivery, InconsistentDelivery,
       GotLastDelivery, ProceedDelivery
  <2>4. CASE RxUnlist \/ RxDrop
    BY <1>1, <2>4, RxUnlistDelivery, RxDropDelivery
  <2>5. QED
    BY <1>3, <2>1, <2>2, <2>3, <2>4 DEF Process
<1>4. CASE \E c \in Contexts : Fire(c) \/ Callback(c) \/ Reap(c)
  BY <1>1, <1>4, FireDelivery, CallbackDelivery, ReapDelivery
<1>5. CASE Unload \/ Unloading
  BY <1>1, <1>5, UnloadingDelivery
<1>6. CASE UNCHANGED vars
  BY <1>1, <1>6, NoneDelivery DEF vars
<1>7. QED
  BY <1>2, <1>3, <1>4, <1>5, <1>6 DEF Next

LEMMA DeliveryInvariance == Spec => []DeliveryInv
BY DeliveryInit, DeliveryNext, PTL DEF Spec

\* What RmppReceiverGotLast hands to the client is the message: all its segments,
\* each once and in order, for messages of any length, windows of any size and any
\* number of messages, whatever is lost, repeated or reordered.
THEOREM DeliveryIsWhole == Spec => []DeliveredWhole
<1>1. DeliveryInv => DeliveredWhole
  BY DEF DeliveryInv, RxHas, DeliveredWhole, Whole
<1>2. QED
  BY <1>1, DeliveryInvariance, PTL

\* RmppReceiverSendAckIfNeeded never closes the window of a message under way and
\* never opens it beyond the announced end.
THEOREM WindowsAreOpen == Spec => []WindowOpen
<1>1. ASSUME DeliveryInv PROVE WindowOpen
  BY <1>1 DEF DeliveryInv, AllFilled, Filled, WindowOpen
<1>2. QED
  BY <1>1, DeliveryInvariance, PTL

\* The last segment is acknowledged, also when it comes again and is acknowledged
\* again, only if the message goes to the client.
THEOREM AcksAreTrue == Spec => []AckedIsDelivered
<1>1. DeliveryInv => AckedIsDelivered
  BY DEF DeliveryInv
<1>2. QED
  BY <1>1, DeliveryInvariance, PTL

\* FindSarContext and RmppReceiverCreateContext never keep two contexts in use for
\* the response of one transaction, although a context is locked only after the
\* list has been let go of.
THEOREM OneContextPerKey == Spec => []OnePerKey
<1>1. ASSUME DeliveryInv PROVE OnePerKey
  <2>1. SUFFICES ASSUME NEW c \in Contexts, NEW d \in Contexts, c # d,
                        sar[c].mem = "live", sar[d].mem = "live",
                        sar[c].key = sar[d].key, message[sar[c].key].response,
                        sar[c].State # "destroy", sar[d].State # "destroy"
                 PROVE  FALSE
    BY DEF OnePerKey
  <2>2. PICK i, j \in DOMAIN recvList : recvList[i] = c /\ recvList[j] = d
    BY <1>1, <2>1, UsedIsListed DEF Listed, DeliveryInv
  <2>3. i \in Nat /\ j \in Nat
    <3>1. recvList \in Seq(Contexts)
      BY <1>1 DEF DeliveryInv, Inv, TypeOK
    <3>2. DOMAIN recvList = 1 .. Len(recvList) /\ Len(recvList) \in Nat
      BY <3>1, LenProperties
    <3>3. QED
      BY <3>2
  <2>4. i < j \/ j < i
    BY <2>1, <2>2, <2>3
  <2>5. QED
    BY <1>1, <2>1, <2>2, <2>4 DEF DeliveryInv, NewestFirst
<1>2. QED
  BY <1>1, DeliveryInvariance, PTL
-----------------------------------------------------------------------------
\* The datagrams out of the pool.

DatagramInv ==
    /\ DatagramsKept
    /\ IsFiniteSet(Kept)
    /\ rx.status # "completed" => rx.list = <<>>

LEMMA OneList ==
    ASSUME NEW c, NEW q \in Seq(AllPackets)
    PROVE  IsFiniteSet({c} \X DOMAIN q) /\ Cardinality({c} \X DOMAIN q) = Len(q)
<1>1. PICK n, D : n = Len(q) /\ D = DOMAIN q
  OBVIOUS
<1>2. n \in Nat /\ D = 1 .. n
  BY <1>1, LenProperties
<1>3. IsFiniteSet({c}) /\ Cardinality({c}) = 1
  BY FS_Singleton
<1>4. IsFiniteSet(D) /\ Cardinality(D) = n
  BY <1>2, FS_Interval
<1>5. IsFiniteSet({c} \X D) /\ Cardinality({c} \X D) = Cardinality({c}) * Cardinality(D)
  BY <1>3, <1>4, FS_Product
<1>6. Cardinality({c} \X D) = n
  BY <1>2, <1>3, <1>4, <1>5
<1>7. QED
  BY <1>1, <1>5, <1>6

LEMMA Joined ==
    ASSUME NEW O, IsFiniteSet(O), NEW c, NEW q \in Seq(AllPackets), NEW K,
           K = O \cup ({c} \X DOMAIN q), O \cap ({c} \X DOMAIN q) = {}
    PROVE  IsFiniteSet(K) /\ Cardinality(K) = Cardinality(O) + Len(q)
<1>1. PICK P, n : P = {c} \X DOMAIN q /\ n = Len(q)
  OBVIOUS
<1>2. IsFiniteSet(P) /\ Cardinality(P) = n /\ n \in Nat
  BY <1>1, OneList, LenProperties
<1>3. K = O \cup P /\ O \cap P = {}
  BY <1>1
<1>4. IsFiniteSet(K) /\ Cardinality(K) = Cardinality(O) + Cardinality(P) - Cardinality(O \cap P)
  BY <1>2, <1>3, FS_Union
<1>5. Cardinality(O \cap P) = 0 /\ Cardinality(O) \in Nat
  BY <1>3, FS_EmptySet, FS_CardinalityType
<1>6. QED
  BY <1>1, <1>2, <1>4, <1>5

LEMMA WithThreadNat ==
    ASSUME NEW r \in Rxs
    PROVE  Len(r.list) \in Nat /\ WithThread(r) \in Nat
<1>1. PICK q \in Seq(AllPackets) : q = r.list
  BY DEF Rxs
<1>2. Len(q) \in Nat
  BY LenProperties
<1>3. Len(q) + 0 \in Nat /\ Len(q) + 1 \in Nat
  BY <1>2
<1>4. QED
  BY <1>1, <1>2, <1>3, Zenon DEF WithThread, One

\* A step that changes the list of one context.
LEMMA KeptChange ==
    ASSUME TypeOK, TypeOK', IsFiniteSet(Kept), NEW c \in Contexts,
           \A d \in Contexts : d # c => sar'[d].RecvHead = sar[d].RecvHead
    PROVE  /\ IsFiniteSet(Kept)' /\ Cardinality(Kept) \in Nat
           /\ Len(sar[c].RecvHead) \in Nat /\ Len(sar'[c].RecvHead) \in Nat
           /\ Cardinality(Kept)' =
                Cardinality(Kept) - Len(sar[c].RecvHead) + Len(sar'[c].RecvHead)
<1>1. PICK p, q : p = sar[c].RecvHead /\ q = sar'[c].RecvHead
  OBVIOUS
<1>2. p \in Seq(AllPackets) /\ q \in Seq(AllPackets)
  BY <1>1 DEF TypeOK, Context
<1>3. Len(p) \in Nat /\ Len(q) \in Nat
  BY <1>2, LenProperties
<1>4. PICK O : O = UNION { {d} \X DOMAIN sar[d].RecvHead : d \in Contexts \ {c} }
  OBVIOUS
<1>5. Kept = O \cup ({c} \X DOMAIN p) /\ O \cap ({c} \X DOMAIN p) = {}
  BY <1>1, <1>4 DEF Kept
<1>6. Kept' = O \cup ({c} \X DOMAIN q) /\ O \cap ({c} \X DOMAIN q) = {}
  BY <1>1, <1>4 DEF Kept
<1>7. IsFiniteSet(O)
  <2>1. O \subseteq Kept
    BY <1>5
  <2>2. QED
    BY <2>1, FS_Subset
<1>8. Cardinality(O) \in Nat /\ Cardinality({}) = 0
  BY <1>7, FS_CardinalityType, FS_EmptySet
<1>9. Cardinality(Kept) = Cardinality(O) + Len(p)
  BY <1>2, <1>3, <1>5, <1>7, <1>8, Joined
<1>10. IsFiniteSet(Kept') /\ Cardinality(Kept') = Cardinality(O) + Len(q)
  BY <1>2, <1>3, <1>6, <1>7, <1>8, Joined
<1>11. QED
  BY <1>1, <1>3, <1>8, <1>9, <1>10

LEMMA Accounts ==
    ASSUME TypeOK, TypeOK', DatagramInv, NEW c \in Contexts,
           \A d \in Contexts : d # c => sar'[d].RecvHead = sar[d].RecvHead,
           out' = out - Len(sar[c].RecvHead) - WithThread(rx)
                      + Len(sar'[c].RecvHead) + WithThread(rx'),
           rx'.status # "completed" => rx'.list = <<>>
    PROVE  DatagramInv'
<1>1. /\ IsFiniteSet(Kept)' /\ Cardinality(Kept) \in Nat
      /\ Len(sar[c].RecvHead) \in Nat /\ Len(sar'[c].RecvHead) \in Nat
      /\ Cardinality(Kept)' =
           Cardinality(Kept) - Len(sar[c].RecvHead) + Len(sar'[c].RecvHead)
  BY KeptChange DEF DatagramInv
<1>2. WithThread(rx) \in Nat /\ WithThread(rx') \in Nat
  BY Typed, WithThreadNat DEF TypeOK, Rxs
<1>3. out = Cardinality(Kept) + WithThread(rx)
  BY <1>2, <1>1 DEF DatagramInv, DatagramsKept
<1>4. out' = Cardinality(Kept)' + WithThread(rx')
  BY <1>1, <1>2, <1>3
<1>5. QED
  BY <1>1, <1>4 DEF DatagramInv, DatagramsKept

LEMMA AccountsAlike ==
    ASSUME TypeOK, TypeOK', DatagramInv,
           \A d \in Contexts : sar'[d].RecvHead = sar[d].RecvHead,
           out' = out - WithThread(rx) + WithThread(rx'),
           rx'.status # "completed" => rx'.list = <<>>
    PROVE  DatagramInv'
<1>1. Kept' = Kept
  BY DEF Kept
<1>2. WithThread(rx) \in Nat /\ WithThread(rx') \in Nat
  BY Typed, WithThreadNat DEF TypeOK, Rxs
<1>3. IsFiniteSet(Kept) /\ Cardinality(Kept) \in Nat
  BY FS_CardinalityType DEF DatagramInv
<1>4. out = Cardinality(Kept) + WithThread(rx)
  BY <1>2, <1>3 DEF DatagramInv, DatagramsKept
<1>5. out' = Cardinality(Kept)' + WithThread(rx')
  BY <1>1, <1>2, <1>3, <1>4
<1>6. QED
  BY <1>1, <1>3, <1>5 DEF DatagramInv, DatagramsKept
-----------------------------------------------------------------------------
\* What the steps do to the lists.

LEMMA SameHead ==
    ASSUME NEW x \in Context
    PROVE  /\ Decrement(x).RecvHead = x.RecvHead /\ Increment(x).RecvHead = x.RecvHead
           /\ StopTimer(x).RecvHead = x.RecvHead
           /\ [x EXCEPT !.timer = "fired", !.due = "enter"].RecvHead = x.RecvHead
           /\ Entered(x).RecvHead = x.RecvHead /\ EnteredLate(x).RecvHead = x.RecvHead
           /\ Returned(x).RecvHead = x.RecvHead
           /\ Decrement([x EXCEPT !.due = "none"]).RecvHead = x.RecvHead
           /\ Decrement([x EXCEPT !.due = "drop"]).RecvHead = x.RecvHead
           /\ \A n : [StartTimer(x, FALSE) EXCEPT !.TotalSegs = n].RecvHead = x.RecvHead
           /\ Advance(x).RecvHead = x.RecvHead
<1>1. Decrement(x).RecvHead = x.RecvHead /\ Increment(x).RecvHead = x.RecvHead
  BY DEF Context, Decrement, Increment
<1>2. StopTimer(x).RecvHead = x.RecvHead
  <2>1. CASE x.timer = "fired"
    BY <2>1 DEF Context, StopTimer
  <2>2. CASE x.timer # "fired"
    BY <2>2 DEF Context, StopTimer, Decrement
  <2>3. QED
    BY <2>1, <2>2
<1>3. [x EXCEPT !.timer = "fired", !.due = "enter"].RecvHead = x.RecvHead
  BY DEF Context
<1>4. Entered(x).RecvHead = x.RecvHead /\ EnteredLate(x).RecvHead = x.RecvHead
  BY DEF Context, Entered, EnteredLate
<1>5. Returned(x).RecvHead = x.RecvHead
  BY DEF Context, Returned, Decrement
<1>6. /\ Decrement([x EXCEPT !.due = "none"]).RecvHead = x.RecvHead
      /\ Decrement([x EXCEPT !.due = "drop"]).RecvHead = x.RecvHead
  BY DEF Context, Decrement
<1>7. \A n : [StartTimer(x, FALSE) EXCEPT !.TotalSegs = n].RecvHead = x.RecvHead
  BY DEF Context, StartTimer
<1>8. Advance(x).RecvHead = x.RecvHead
  BY DEF Context, Advance
<1>9. QED
  BY <1>1, <1>2, <1>3, <1>4, <1>5, <1>6, <1>7, <1>8

LEMMA NoHead ==
    ASSUME NEW x \in Context
    PROVE  /\ [Destroy(x) EXCEPT !.due = "unlist"].RecvHead = <<>>
           /\ Destroy(Increment(x)).RecvHead = <<>>
           /\ Unused.RecvHead = <<>>
BY DEF Context, Destroy, Increment, Unused

\* The thread keeps what it has.
LEMMA Beside ==
    ASSUME DeliveryInv, Inv', DatagramInv, NEW c \in Contexts, NEW y,
           sar' = [sar EXCEPT ![c] = y], UNCHANGED rx,
           \/ y.RecvHead = sar[c].RecvHead /\ UNCHANGED out
           \/ y.RecvHead = <<>> /\ out' = out - Len(sar[c].RecvHead)
    PROVE  DatagramInv'
<1>1. sar'[c] = y /\ \A d \in Contexts \ {c} : sar'[d] = sar[d]
  BY DEF DeliveryInv, Inv, TypeOK
<1>2. WithThread(rx) \in Nat /\ out \in Int
  BY Typed, WithThreadNat DEF DeliveryInv, Inv
<1>3. rx'.status # "completed" => rx'.list = <<>>
  BY DEF DatagramInv
<1>4. CASE y.RecvHead = sar[c].RecvHead /\ UNCHANGED out
  <2>1. \A d \in Contexts : sar'[d].RecvHead = sar[d].RecvHead
    BY <1>1, <1>4
  <2>2. out' = out - WithThread(rx) + WithThread(rx')
    BY <1>2, <1>4
  <2>3. QED
    BY <1>3, <2>1, <2>2, AccountsAlike DEF DeliveryInv, Inv
<1>5. CASE y.RecvHead = <<>> /\ out' = out - Len(sar[c].RecvHead)
  <2>1. Len(sar'[c].RecvHead) = 0
    BY <1>1, <1>5
  <2>2. Len(sar[c].RecvHead) \in Nat
    <3>1. PICK q \in Seq(AllPackets) : q = sar[c].RecvHead
      BY DEF DeliveryInv, Inv, TypeOK, Context
    <3>2. QED
      BY <3>1, LenProperties
  <2>3. out' = out - Len(sar[c].RecvHead) - WithThread(rx)
                   + Len(sar'[c].RecvHead) + WithThread(rx')
    BY <1>2, <1>5, <2>1, <2>2
  <2>4. QED
    BY <1>1, <1>3, <2>3, Accounts DEF DeliveryInv, Inv
<1>6. QED
  BY <1>4, <1>5

LEMMA CallbackDatagrams ==
    ASSUME DeliveryInv, Inv', DatagramInv, NEW c \in Contexts,
           Fire(c) \/ Callback(c) \/ Reap(c)
    PROVE  DatagramInv'
<1>1. sar[c] \in Context
  BY ContextTyped
<1>2. CASE Fire(c)
  <2>1. PICK y : y = [sar[c] EXCEPT !.timer = "fired", !.due = "enter"]
    OBVIOUS
  <2>2. sar' = [sar EXCEPT ![c] = y] /\ UNCHANGED <<rx, out>>
    BY <1>2, <2>1 DEF Fire, DeliveryInv, Inv, TypeOK
  <2>3. QED
    BY <1>1, <2>1, <2>2, SameHead, Beside
<1>3. CASE Enter(c)
  BY <1>1, <1>3, SameHead, Beside DEF Enter
<1>4. CASE LateEnter(c)
  BY <1>1, <1>4, SameHead, Beside DEF LateEnter
<1>5. CASE Stale(c)
  BY <1>1, <1>5, SameHead, Beside DEF Stale
<1>6. CASE Expire(c)
  <2>1. PICK y : y = [Destroy(sar[c]) EXCEPT !.due = "unlist"]
    OBVIOUS
  <2>2. /\ sar' = [sar EXCEPT ![c] = y] /\ UNCHANGED rx
        /\ out' = out - Len(sar[c].RecvHead)
    BY <1>6, <2>1 DEF Expire
  <2>3. QED
    BY <1>1, <2>1, <2>2, NoHead, Beside
<1>7. CASE ExpireUnlist(c)
  <2>1. PICK y : y = Decrement([sar[c] EXCEPT !.due = "drop"])
    OBVIOUS
  <2>2. sar' = [sar EXCEPT ![c] = y] /\ UNCHANGED <<rx, out>>
    BY <1>7, <2>1 DEF ExpireUnlist
  <2>3. QED
    BY <1>1, <2>1, <2>2, SameHead, Beside
<1>8. CASE ExpireDrop(c)
  <2>1. PICK y : y = Decrement([sar[c] EXCEPT !.due = "none"])
    OBVIOUS
  <2>2. sar' = [sar EXCEPT ![c] = y] /\ UNCHANGED <<rx, out>>
    BY <1>8, <2>1 DEF ExpireDrop
  <2>3. QED
    BY <1>1, <2>1, <2>2, SameHead, Beside
<1>9. CASE Reap(c)
  BY <1>1, <1>9, NoHead, Beside DEF Reap
<1>10. QED
  BY <1>2, <1>3, <1>4, <1>5, <1>6, <1>7, <1>8, <1>9 DEF Callback

LEMMA UnchangedDatagrams ==
    ASSUME DatagramInv, UNCHANGED <<sar, rx, out>>
    PROVE  DatagramInv'
BY DEF DatagramInv, DatagramsKept, Kept, WithThread

LEMMA UnloadingDatagrams ==
    ASSUME DeliveryInv, Inv', DatagramInv, Unload \/ Unloading
    PROVE  DatagramInv'
<1>1. CASE Unload \/ Unloaded
  BY <1>1, UnchangedDatagrams DEF Unload, Unloaded
<1>2. CASE UnloadDestroy
  <2>1. PICK c \in Contexts : c = recvList[1]
    <3>1. recvList \in Seq(Contexts) /\ recvList # <<>>
      BY <1>2 DEF UnloadDestroy, DeliveryInv, Inv, TypeOK
    <3>2. QED
      BY <3>1, EmptySeq, ElementOfSeq
  <2>2. PICK y : y = Destroy(Increment(sar[c]))
    OBVIOUS
  <2>3. /\ sar' = [sar EXCEPT ![c] = y] /\ UNCHANGED rx
        /\ out' = out - Len(sar[c].RecvHead)
    BY <1>2, <2>1, <2>2 DEF UnloadDestroy
  <2>4. QED
    BY <2>2, <2>3, ContextTyped, NoHead, Beside
<1>3. ASSUME UnloadStop \/ UnloadUnlist \/ UnloadReap PROVE DatagramInv'
  <2>1. PICK c \in Contexts : c = unload.c
    BY <1>3, Unloads DEF UnloadStop, UnloadUnlist, UnloadReap, DeliveryInv
  <2>2. sar[c] \in Context
    BY ContextTyped
  <2>3. CASE UnloadStop
    <3>1. sar' = [sar EXCEPT ![c] = StopTimer(sar[c])] /\ UNCHANGED <<rx, out>>
      BY <2>1, <2>3 DEF UnloadStop, DeliveryInv, Inv, UnloadKnows
    <3>2. QED
      BY <2>2, <3>1, SameHead, Beside
  <2>4. CASE UnloadUnlist
    BY <2>1, <2>2, <2>4, SameHead, Beside DEF UnloadUnlist
  <2>5. CASE UnloadReap
    BY <2>1, <2>2, <2>5, NoHead, Beside DEF UnloadReap
  <2>6. QED
    BY <1>3, <2>3, <2>4, <2>5
<1>4. QED
  BY <1>1, <1>2, <1>3 DEF Unloading

\* The thread leaves a context; a packet that is not put back has been stored.
LEMMA LeaveBalanced ==
    ASSUME DeliveryInv, Inv', DatagramInv, rx.pc = "lock", sar[rx.c].State # "destroy",
           NEW y, NEW status \in {"reject", "pending"}, Leave(y, status),
           NEW a \in Nat, a = Len(sar[rx.c].RecvHead), NEW b \in Nat, b = Len(y.RecvHead),
           out' = out - (a + (IF status = "pending" THEN 1 ELSE 0)) + b
    PROVE  DatagramInv'
<1>1. PICK c \in Contexts : c = rx.c
  BY AtMessage
<1>2. sar' = [sar EXCEPT ![c] = y] /\ rx'.status = status /\ rx'.list = rx.list
      /\ rx'.pc \in {"drop", "unlist"}
  BY <1>1, Typed DEF Leave, Rxs, DeliveryInv, Inv
<1>3. sar'[c] = y /\ \A d \in Contexts \ {c} : sar'[d] = sar[d]
  BY <1>2 DEF DeliveryInv, Inv, TypeOK
<1>4. rx.list = <<>> /\ rx.status = "none"
  BY DEF DatagramInv, DeliveryInv, RxHas
<1>5. WithThread(rx) = 1
  BY <1>4 DEF WithThread, One
<1>6. PICK v : v = WithThread(rx')
  OBVIOUS
<1>7. v = IF status = "pending" THEN 0 ELSE 1
  <2>1. v = 0 + One(status = "reject")
    <3>1. Len(rx'.list) = 0
      BY <1>2, <1>4, EmptySeq
    <3>2. (rx'.pc \in {"new", "lock"} \/ rx'.status = "reject") = (status = "reject")
      BY <1>2
    <3>3. QED
      BY <1>6, <3>1, <3>2 DEF WithThread
  <2>2. One(status = "reject") = IF status = "pending" THEN 0 ELSE 1
    BY DEF One
  <2>3. QED
    BY <2>1, <2>2
<1>8. out \in Int
  BY DEF DeliveryInv, Inv, TypeOK
<1>9. out' = out - a - 1 + b + v
  <2>1. CASE status = "pending"
    BY <1>7, <1>8, <2>1
  <2>2. CASE status = "reject"
    BY <1>7, <1>8, <2>2
  <2>3. QED
    BY <2>1, <2>2
<1>10. out' = out - Len(sar[c].RecvHead) - WithThread(rx)
                  + Len(sar'[c].RecvHead) + WithThread(rx')
  BY <1>1, <1>3, <1>5, <1>6, <1>9, Zenon
<1>11. QED
  BY <1>2, <1>3, <1>4, <1>10, Accounts DEF DeliveryInv, Inv

LEMMA LeaveDatagrams ==
    ASSUME DeliveryInv, Inv', DatagramInv, rx.pc = "lock", sar[rx.c].State # "destroy",
           NEW y, y.RecvHead \in Seq(AllPackets),
           NEW status \in {"reject", "pending"}, Leave(y, status),
           NEW n \in Nat, n = Len(sar[rx.c].RecvHead) + (IF status = "pending" THEN 1 ELSE 0),
           out' = out - n + Len(y.RecvHead)
    PROVE  DatagramInv'
<1>1. PICK a, b : a = Len(sar[rx.c].RecvHead) /\ b = Len(y.RecvHead)
  OBVIOUS
<1>2. a \in Nat
  <2>1. PICK q \in Seq(AllPackets) : q = sar[rx.c].RecvHead
    BY AtMessage DEF Context
  <2>2. QED
    BY <1>1, <2>1, LenProperties
<1>3. b \in Nat
  BY <1>1, LenProperties
<1>4. out' = out - (a + (IF status = "pending" THEN 1 ELSE 0)) + b
  BY <1>1, Zenon
<1>5. QED
  BY <1>1, <1>2, <1>3, <1>4, LeaveBalanced

LEMMA StopDatagrams ==
    ASSUME DeliveryInv, Inv', DatagramInv, rx.pc = "lock", sar[rx.c].State # "destroy",
           NEW x, InHand(x), NEW s \in {"timewait", "timewait_recv"},
           NEW status \in {"reject", "pending"}, NEW answer, Stop(x, s, status, answer),
           Len(x.RecvHead) = Len(sar[rx.c].RecvHead) + (IF status = "pending" THEN 1 ELSE 0)
    PROVE  DatagramInv'
<1>1. PICK ok \in BOOLEAN : Leave(Terminate(x, s, ok), status)
  BY DEF Stop
<1>2. PICK y : y = Terminate(x, s, ok)
  OBVIOUS
<1>3. y.RecvHead = <<>> /\ y.RecvHead \in Seq(AllPackets) /\ Len(y.RecvHead) = 0
  <2>1. y.RecvHead = <<>>
    BY <1>2, TerminateInHand
  <2>2. QED
    BY <2>1, EmptySeq
<1>4. PICK n : n = Len(x.RecvHead)
  OBVIOUS
<1>5. n \in Nat
  BY <1>4, LenProperties DEF InHand, Context
<1>6. out' = out - n + Len(y.RecvHead)
  <2>1. out' = out - n
    BY <1>4 DEF Stop
  <2>2. out \in Int
    BY DEF DeliveryInv, Inv, TypeOK
  <2>3. QED
    BY <1>3, <1>5, <2>1, <2>2
<1>7. QED
  BY <1>1, <1>2, <1>3, <1>4, <1>5, <1>6, LeaveDatagrams

LEMMA LockedDatagrams ==
    ASSUME DeliveryInv, Inv', DatagramInv,
           \/ Bad \/ Ignore \/ AckAgain \/ MisplacedAck \/ Aborted
           \/ Unexpected \/ NoTimer \/ Inconsistent \/ Proceed
    PROVE  DatagramInv'
<1>1. CASE Bad \/ AckAgain \/ MisplacedAck \/ Aborted
  <2>1. /\ rx.pc = "lock" /\ sar[rx.c].State # "destroy"
        /\ \E s \in {"timewait", "timewait_recv"} :
             \E answer : Stop(sar[rx.c], s, "reject", answer)
    BY <1>1 DEF Bad, AckAgain, MisplacedAck, Aborted, Locked
  <2>s. PICK s \in {"timewait", "timewait_recv"} :
          \E answer : Stop(sar[rx.c], s, "reject", answer)
    BY <2>1
  <2>2. PICK answer : Stop(sar[rx.c], s, "reject", answer)
    BY <2>s
  <2>3. PICK x : x = sar[rx.c]
    OBVIOUS
  <2>4. InHand(x)
    BY <2>1, <2>3, AtMessage
  <2>5. Len(x.RecvHead) \in Nat
    BY <2>4, LenProperties DEF InHand, Context
  <2>6. Len(x.RecvHead) = Len(sar[rx.c].RecvHead) + (IF "reject" = "pending" THEN 1 ELSE 0)
    BY <2>3, <2>5
  <2>7. QED
    BY <2>1, <2>2, <2>3, <2>4, <2>6, StopDatagrams
<1>2. CASE Ignore \/ Unexpected
  <2>1. /\ rx.pc = "lock" /\ sar[rx.c].State # "destroy"
        /\ Leave(sar[rx.c], "reject") /\ UNCHANGED out
    BY <1>2 DEF Ignore, Unexpected, Segment, Locked
  <2>2. PICK x : x = sar[rx.c]
    OBVIOUS
  <2>3. x.RecvHead \in Seq(AllPackets)
    BY <2>1, <2>2, AtMessage DEF Context
  <2>4. PICK n : n = Len(x.RecvHead)
    OBVIOUS
  <2>5. n \in Nat
    BY <2>3, <2>4, LenProperties
  <2>6. n = Len(sar[rx.c].RecvHead) + (IF "reject" = "pending" THEN 1 ELSE 0)
    BY <2>2, <2>4, <2>5
  <2>7. out' = out - n + Len(x.RecvHead)
    BY <2>1, <2>4, <2>5 DEF DeliveryInv, Inv, TypeOK
  <2>8. QED
    BY <2>1, <2>2, <2>3, <2>5, <2>6, <2>7, LeaveDatagrams
<1>3. CASE NoTimer
  <2>1. PICK f : f = [StartTimer(sar[rx.c], FALSE) EXCEPT !.TotalSegs = rx.pkt.total]
    OBVIOUS
  <2>2. Stop(f, "timewait", "reject", Answer(rx.pkt.key, "stop"))
    BY <1>3, <2>1 DEF NoTimer
  <2>3. rx.pc = "lock" /\ sar[rx.c].State # "destroy" /\ InHand(f)
    BY <1>3, <2>1, NotStarted DEF DeliveryInv
  <2>4. f.RecvHead = sar[rx.c].RecvHead
    BY <2>1, <2>3, AtMessage, SameHead
  <2>5. Len(f.RecvHead) \in Nat
    BY <2>3, LenProperties DEF InHand, Context
  <2>6. Len(f.RecvHead) = Len(sar[rx.c].RecvHead) + (IF "reject" = "pending" THEN 1 ELSE 0)
    BY <2>4, <2>5
  <2>7. QED
    BY <2>2, <2>3, <2>6, StopDatagrams
<1>4. CASE Inconsistent \/ Proceed
  <2>1. Expected
    BY <1>4 DEF Inconsistent, Proceed
  <2>2. PICK x, q : x = Store(sar[rx.c], rx.pkt) /\ q = sar[rx.c].RecvHead
    OBVIOUS
  <2>3. /\ rx.pc = "lock" /\ sar[rx.c].State # "destroy" /\ rx.pkt \in AllPackets
        /\ q \in Seq(AllPackets) /\ InHand(x) /\ x.RecvHead = Append(q, rx.pkt)
    BY <2>1, <2>2, Stored DEF DeliveryInv, Context
  <2>4. x.State = "active" /\ x.ExpectedSeg > 1
    BY <2>1, <2>2, Stored DEF DeliveryInv
  <2>5. /\ Len(q) \in Nat /\ Len(x.RecvHead) = Len(q) + 1
        /\ x.RecvHead \in Seq(AllPackets)
    BY <2>3, LenProperties, AppendProperties
  <2>6. Len(x.RecvHead) = Len(sar[rx.c].RecvHead) + (IF "pending" = "pending" THEN 1 ELSE 0)
    BY <2>2, <2>5
  <2>7. CASE Inconsistent
    <3>1. Stop(x, "timewait", "pending", Answer(rx.pkt.key, "abort"))
      BY <2>2, <2>7 DEF Inconsistent
    <3>2. QED
      BY <2>3, <2>6, <3>1, StopDatagrams
  <2>8. CASE Proceed
    <3>1. PICK y : y = IF MustAck(x) THEN Advance(x) ELSE x
      OBVIOUS
    <3>2. Leave(y, "pending") /\ UNCHANGED out
      BY <2>2, <2>8, <3>1 DEF Proceed
    <3>3. y.RecvHead = x.RecvHead
      BY <2>3, <3>1, SameHead DEF InHand
    <3>4. PICK n : n = Len(x.RecvHead)
      OBVIOUS
    <3>5. n \in Nat /\ out' = out - n + Len(y.RecvHead)
      <4>1. out \in Int
        BY DEF DeliveryInv, Inv, TypeOK
      <4>2. n \in Nat /\ Len(y.RecvHead) = n
        BY <2>5, <3>3, <3>4
      <4>3. QED
        BY <3>2, <4>1, <4>2
    <3>6. QED
      BY <2>3, <2>5, <2>6, <3>2, <3>3, <3>4, <3>5, LeaveDatagrams
  <2>9. QED
    BY <1>4, <2>7, <2>8
<1>5. QED
  BY <1>1, <1>2, <1>3, <1>4

\* The segments go from the context to the thread, the last one with them.
LEMMA GotLastDatagrams ==
    ASSUME DeliveryInv, Inv', DatagramInv, GotLast
    PROVE  DatagramInv'
<1>1. PICK x, q : x = Store(sar[rx.c], rx.pkt) /\ q = sar[rx.c].RecvHead
  OBVIOUS
<1>2. /\ Expected /\ rx.pc = "lock" /\ sar[rx.c].State # "destroy" /\ rx.pkt \in AllPackets
      /\ q \in Seq(AllPackets) /\ InHand(x) /\ x.RecvHead = Append(q, rx.pkt)
      /\ x.State = "active"
  BY <1>1, Stored DEF GotLast, DeliveryInv, Context
<1>3. Len(q) \in Nat /\ Len(x.RecvHead) = Len(q) + 1
  BY <1>2, LenProperties, AppendProperties
<1>4. PICK d : d = [StopTimer(x) EXCEPT !.State = "done", !.RecvHead = <<>>]
  OBVIOUS
<1>5. PICK ok \in BOOLEAN :
        /\ sar' = [sar EXCEPT ![rx.c] = Terminate(d, "timewait_recv", ok)]
        /\ rx' = [rx EXCEPT !.pc = IF ok THEN "drop" ELSE "unlist",
                            !.status = "completed", !.list = x.RecvHead]
  BY <1>1, <1>4 DEF GotLast
<1>6. UNCHANGED out
  BY DEF GotLast
<1>7. InHand(d)
  BY <1>2, <1>4, DoneInHand DEF Armed
<1>8. PICK y : y = Terminate(d, "timewait_recv", ok)
  OBVIOUS
<1>9. y.RecvHead = <<>>
  BY <1>7, <1>8, TerminateInHand
<1>10. PICK c \in Contexts : c = rx.c
  BY <1>2, AtMessage
<1>11. sar'[c] = y /\ \A e \in Contexts \ {c} : sar'[e] = sar[e]
  BY <1>5, <1>8, <1>10 DEF DeliveryInv, Inv, TypeOK
<1>12. /\ rx'.status = "completed" /\ rx'.list = x.RecvHead
       /\ rx'.pc \in {"drop", "unlist"}
  BY <1>5, Typed DEF Rxs, DeliveryInv, Inv
<1>13. WithThread(rx') = Len(q) + 1
  <2>1. One(rx'.pc \in {"new", "lock"} \/ rx'.status = "reject") = 0
    BY <1>12 DEF One
  <2>2. WithThread(rx') = Len(x.RecvHead) + 0
    BY <1>12, <2>1 DEF WithThread
  <2>3. QED
    BY <1>3, <2>2
<1>14. WithThread(rx) = 1
  BY <1>2 DEF DatagramInv, DeliveryInv, RxHas, WithThread, One
<1>15. Len(sar[c].RecvHead) = Len(q) /\ Len(sar'[c].RecvHead) = 0
  BY <1>1, <1>9, <1>10, <1>11
<1>16. out' = out - Len(sar[c].RecvHead) - WithThread(rx)
                  + Len(sar'[c].RecvHead) + WithThread(rx')
  <2>1. out \in Int
    BY DEF DeliveryInv, Inv, TypeOK
  <2>2. out' = out - Len(q) - 1 + 0 + (Len(q) + 1)
    BY <1>3, <1>6, <2>1
  <2>3. QED
    BY <1>3, <1>13, <1>14, <1>15, <2>1, <2>2
<1>17. QED
  BY <1>11, <1>12, <1>16, Accounts DEF DeliveryInv, Inv

\* The thread alone, or with a context whose list it leaves.
LEMMA ThreadDatagrams ==
    ASSUME DeliveryInv, Inv', DatagramInv,
           \/ UNCHANGED sar
           \/ \E c \in Contexts : \E y : sar' = [sar EXCEPT ![c] = y]
                                         /\ y.RecvHead = sar[c].RecvHead,
           rx'.status # "completed" => rx'.list = <<>>,
           NEW m \in Nat, NEW n \in Nat, WithThread(rx) = m, WithThread(rx') = n,
           out' = out - m + n
    PROVE  DatagramInv'
<1>1. \A d \in Contexts : sar'[d].RecvHead = sar[d].RecvHead
  BY DEF DeliveryInv, Inv, TypeOK
<1>2. QED
  BY <1>1, AccountsAlike DEF DeliveryInv, Inv

LEMMA IdleHas ==
    /\ Idle.list = <<>> /\ Idle.status = "none" /\ WithThread(Idle) = 0
<1>1. Idle.list = <<>> /\ Idle.status = "none" /\ Idle.pc = "idle"
  BY DEF Idle
<1>2. Len(<<>>) = 0
  BY EmptySeq
<1>3. WithThread(Idle) = 0
  BY <1>1, <1>2 DEF WithThread, One
<1>4. QED
  BY <1>1, <1>3

\* A thread that has a packet and no message.
LEMMA PacketOnly ==
    ASSUME NEW r, r.list = <<>>, r.pc \in {"new", "lock"} \/ r.status = "reject"
    PROVE  WithThread(r) = 1
<1>1. Len(r.list) = 0
  BY EmptySeq
<1>2. QED
  BY <1>1 DEF WithThread, One

LEMMA ArriveDatagrams ==
    ASSUME DeliveryInv, Inv', DatagramInv, NEW p \in Packets, Arrive(p)
    PROVE  DatagramInv'
<1>1. rx.pc = "idle" /\ rx.status = "none" /\ rx.list = <<>> /\ out' = out + 1
  BY DEF Arrive, DeliveryInv, RxHas, DatagramInv
<1>2. WithThread(rx) = 0
  <2>1. Len(rx.list) = 0 /\ rx.pc \notin {"new", "lock"} /\ rx.status # "reject"
    BY <1>1, EmptySeq
  <2>2. QED
    BY <2>1 DEF WithThread, One
<1>3. rx'.list = <<>> /\ rx'.status = "none" /\ rx'.pc \in {"new", "lock"}
  <2>1. CASE rx' = [Idle EXCEPT !.pc = "new", !.pkt = p]
    BY <2>1 DEF Idle
  <2>2. ASSUME NEW i \in Matches(p),
               rx' = [Idle EXCEPT !.pc = "lock", !.pkt = p, !.c = recvList[i]]
        PROVE  rx'.list = <<>> /\ rx'.status = "none" /\ rx'.pc \in {"new", "lock"}
    BY <2>2 DEF Idle
  <2>3. QED
    BY <2>1, <2>2 DEF Arrive
<1>4. WithThread(rx') = 1
  BY <1>3, PacketOnly
<1>5. out' = out - 0 + 1 /\ out \in Int
  BY <1>1 DEF DeliveryInv, Inv, TypeOK
<1>6. CASE UNCHANGED sar
  BY <1>2, <1>3, <1>4, <1>5, <1>6, ThreadDatagrams
<1>7. ASSUME NEW i \in Matches(p), sar' = [sar EXCEPT ![recvList[i]] = Increment(@)]
      PROVE  DatagramInv'
  <2>1. PICK c \in Contexts : c = recvList[i]
    <3>1. recvList \in Seq(Contexts) /\ i \in DOMAIN recvList
      BY DEF DeliveryInv, Inv, TypeOK, Matches
    <3>2. QED
      BY <3>1
  <2>2. PICK y : y = Increment(sar[c])
    OBVIOUS
  <2>3. sar' = [sar EXCEPT ![c] = y] /\ y.RecvHead = sar[c].RecvHead
    BY <1>7, <2>1, <2>2, ContextTyped, SameHead
  <2>4. \E d \in Contexts : \E z : sar' = [sar EXCEPT ![d] = z] /\ z.RecvHead = sar[d].RecvHead
    BY <2>3
  <2>5. 0 \in Nat /\ 1 \in Nat /\ (rx'.status # "completed" => rx'.list = <<>>)
    BY <1>3
  <2>6. QED
    BY <1>2, <1>4, <1>5, <2>4, <2>5, ThreadDatagrams, Zenon
<1>8. QED
  BY <1>6, <1>7 DEF Arrive

LEMMA RejectDatagrams ==
    ASSUME DeliveryInv, Inv', DatagramInv, RejectNew \/ NoRoom
    PROVE  DatagramInv'
<1>1. /\ rx.pc = "new" /\ rx.list = <<>> /\ rx' = Idle /\ UNCHANGED sar
      /\ out' = out - 1 /\ out \in Int
  BY DEF RejectNew, NoRoom, Discard, DeliveryInv, RxHas, DatagramInv, Inv, TypeOK
<1>2. WithThread(rx) = 1 /\ WithThread(rx') = 0 /\ rx'.list = <<>>
  BY <1>1, PacketOnly, IdleHas
<1>3. out' = out - 1 + 0
  BY <1>1
<1>4. QED
  BY <1>1, <1>2, <1>3, ThreadDatagrams

LEMMA SkipDestroyedDatagrams ==
    ASSUME DeliveryInv, Inv', DatagramInv, SkipDestroyed
    PROVE  DatagramInv'
<1>1. PICK c \in Contexts : c = rx.c
  BY DEF SkipDestroyed, DeliveryInv, Inv, TypeOK, RxKnows
<1>2. /\ rx.pc = "lock" /\ rx.list = <<>> /\ UNCHANGED out /\ out \in Int
      /\ sar' = [sar EXCEPT ![c] = Decrement(sar[c])]
      /\ rx' = [rx EXCEPT !.pc = "new", !.c = None]
  BY <1>1 DEF SkipDestroyed, DeliveryInv, RxHas, DatagramInv, Inv, TypeOK
<1>3. rx'.pc = "new" /\ rx'.list = <<>>
  BY <1>2 DEF DeliveryInv, Inv, TypeOK
<1>4. WithThread(rx) = 1 /\ WithThread(rx') = 1
  BY <1>2, <1>3, PacketOnly
<1>5. Decrement(sar[c]).RecvHead = sar[c].RecvHead
  BY ContextTyped, SameHead
<1>6. out' = out - 1 + 1
  BY <1>2
<1>7. QED
  BY <1>2, <1>3, <1>4, <1>5, <1>6, ThreadDatagrams

LEMMA CreateDatagrams ==
    ASSUME DeliveryInv, Inv', DatagramInv, NEW c \in Contexts, Create(c)
    PROVE  DatagramInv'
<1>1. PICK y : y = [Unused EXCEPT !.mem = "live", !.key = rx.pkt.key, !.RefCount = 2]
  OBVIOUS
<1>2. /\ rx.pc = "new" /\ rx.list = <<>> /\ UNCHANGED out /\ out \in Int
      /\ sar[c].mem = "free" /\ sar' = [sar EXCEPT ![c] = y]
      /\ rx' = [rx EXCEPT !.pc = "lock", !.c = c]
  BY <1>1 DEF Create, DeliveryInv, RxHas, DatagramInv, Inv, TypeOK
<1>3. rx'.pc = "lock" /\ rx'.list = <<>>
  BY <1>2 DEF DeliveryInv, Inv, TypeOK
<1>4. WithThread(rx) = 1 /\ WithThread(rx') = 1
  BY <1>2, <1>3, PacketOnly
<1>5. y.RecvHead = sar[c].RecvHead
  <2>1. y.RecvHead = <<>>
    BY <1>1 DEF Unused
  <2>2. sar[c] = Unused
    BY <1>2, OfContext DEF DeliveryInv, Sound
  <2>3. Unused.RecvHead = <<>>
    BY DEF Unused
  <2>4. QED
    BY <2>1, <2>2, <2>3
<1>6. out' = out - 1 + 1
  BY <1>2
<1>7. QED
  BY <1>2, <1>3, <1>4, <1>5, <1>6, ThreadDatagrams

LEMMA RxUnlistDatagrams ==
    ASSUME DeliveryInv, Inv', DatagramInv, RxUnlist
    PROVE  DatagramInv'
<1>1. PICK c \in Contexts : c = rx.c
  BY DEF RxUnlist, DeliveryInv, Inv, TypeOK, RxKnows
<1>2. /\ rx.pc = "unlist" /\ UNCHANGED out /\ out \in Int
      /\ sar' = [sar EXCEPT ![c] = Decrement(sar[c])]
      /\ rx' = [rx EXCEPT !.pc = "drop"]
  BY <1>1 DEF RxUnlist, DeliveryInv, Inv, TypeOK
<1>3. rx'.pc = "drop" /\ rx'.list = rx.list /\ rx'.status = rx.status
  BY <1>2 DEF DeliveryInv, Inv, TypeOK
<1>4. WithThread(rx') = WithThread(rx)
  BY <1>2, <1>3 DEF WithThread
<1>5. PICK n \in Nat : n = WithThread(rx)
  BY Typed, WithThreadNat DEF DeliveryInv, Inv
<1>6. Decrement(sar[c]).RecvHead = sar[c].RecvHead
  BY ContextTyped, SameHead
<1>7. out' = out - n + n
  BY <1>2, <1>5
<1>8. rx'.status # "completed" => rx'.list = <<>>
  BY <1>3 DEF DatagramInv
<1>9. QED
  BY <1>2, <1>4, <1>5, <1>6, <1>7, <1>8, ThreadDatagrams

\* The callback passes on what the thread has.
LEMMA RxDropDatagrams ==
    ASSUME DeliveryInv, Inv', DatagramInv, RxDrop
    PROVE  DatagramInv'
<1>1. PICK c \in Contexts : c = rx.c
  BY DEF RxDrop, DeliveryInv, Inv, TypeOK, RxKnows
<1>2. /\ rx.pc = "drop" /\ rx' = Idle /\ out \in Int
      /\ sar' = [sar EXCEPT ![c] = Decrement(sar[c])]
  BY <1>1 DEF RxDrop, DeliveryInv, Inv, TypeOK
<1>3. PICK n \in Nat : n = Len(rx.list)
  BY Typed, WithThreadNat DEF DeliveryInv, Inv
<1>4. rx.status # "completed" => n = 0
  BY <1>3, EmptySeq DEF DatagramInv
<1>5. WithThread(rx) = IF rx.status = "reject" THEN 1 ELSE n
  <2>1. WithThread(rx) = n + One(rx.status = "reject")
    BY <1>2, <1>3 DEF WithThread, One
  <2>2. One(rx.status = "reject") = IF rx.status = "reject" THEN 1 ELSE 0
    BY DEF One
  <2>3. CASE rx.status = "reject"
    BY <1>4, <2>1, <2>2, <2>3
  <2>4. CASE rx.status # "reject"
    BY <1>3, <2>1, <2>2, <2>4
  <2>5. QED
    BY <2>3, <2>4
<1>6. out' = out - (IF rx.status = "reject" THEN 1 ELSE n)
  BY <1>2, <1>3, <1>4 DEF RxDrop
<1>7. PICK m \in Nat : m = WithThread(rx)
  BY <1>5
<1>8. out' = out - m + 0
  BY <1>2, <1>5, <1>6, <1>7
<1>9. Decrement(sar[c]).RecvHead = sar[c].RecvHead
  BY ContextTyped, SameHead
<1>10. WithThread(rx') = 0 /\ rx'.list = <<>>
  BY <1>2, IdleHas
<1>11. m \in Nat /\ 0 \in Nat /\ WithThread(rx) = m
  BY <1>7
<1>12. QED
  BY <1>2, <1>7, <1>8, <1>9, <1>10, <1>11, ThreadDatagrams

LEMMA DatagramInit ==
    ASSUME Init
    PROVE  DatagramInv
<1>1. rx = Idle /\ out = 0 /\ \A c \in Contexts : sar[c].RecvHead = <<>>
  BY DEF Init, Unused
<1>2. Kept = {}
  BY <1>1 DEF Kept
<1>3. IsFiniteSet(Kept) /\ Cardinality(Kept) = 0
  BY <1>2, FS_EmptySet
<1>4. WithThread(rx) = 0 /\ rx.list = <<>>
  BY <1>1, IdleHas
<1>5. QED
  BY <1>1, <1>3, <1>4 DEF DatagramInv, DatagramsKept

LEMMA DatagramNext ==
    ASSUME DeliveryInv, DatagramInv, [Next]_vars
    PROVE  DatagramInv'
<1>1. Inv'
  BY InvNext DEF DeliveryInv
<1>2. CASE \E p \in Packets : Arrive(p)
  BY <1>1, <1>2, ArriveDatagrams
<1>3. CASE Process
  <2>1. CASE SkipDestroyed \/ RejectNew \/ NoRoom \/ \E c \in Contexts : Create(c)
    BY <1>1, <2>1, SkipDestroyedDatagrams, RejectDatagrams, CreateDatagrams
  <2>2. CASE GotLast \/ RxUnlist \/ RxDrop
    BY <1>1, <2>2, GotLastDatagrams, RxUnlistDatagrams, RxDropDatagrams
  <2>3. QED
    BY <1>1, <1>3, <2>1, <2>2, LockedDatagrams DEF Process
<1>4. CASE \E c \in Contexts : Fire(c) \/ Callback(c) \/ Reap(c)
  BY <1>1, <1>4, CallbackDatagrams
<1>5. CASE Unload \/ Unloading
  BY <1>1, <1>5, UnloadingDatagrams
<1>6. CASE UNCHANGED vars
  BY <1>6, UnchangedDatagrams DEF vars
<1>7. QED
  BY <1>2, <1>3, <1>4, <1>5, <1>6 DEF Next

\* GsaDgrmPoolGet and DgrmPoolPut balance: every datagram that is out of its pool
\* is in the list of one context, or the event thread has it, whatever is aborted,
\* timed out, inconsistent or unloaded, for any number of contexts and segments.
THEOREM DatagramsAreKept == Spec => []DatagramsKept
<1>1. DatagramInv => DatagramsKept
  BY DEF DatagramInv
<1>2. QED
  BY <1>1, DatagramInit, DatagramNext, DeliveryInvariance, PTL DEF Spec

-----------------------------------------------------------------------------
\* A context in use goes forward only.

Collecting == {"created", "active"}

\* What a step may make of a context x: the expected segment and the end of the
\* window, both of which the sender has been told of, are never taken back, and
\* neither moves once the message has been delivered or given up.
Forward(x, y) ==
    x.mem = "live" /\ y.mem = "live" =>
      /\ y.key = x.key
      /\ y.ExpectedSeg \in {x.ExpectedSeg, x.ExpectedSeg + 1}
      /\ y.WindowLast >= x.WindowLast
      /\ x.State = "active" => y.State # "created"
      /\ x.State \notin Collecting =>
           /\ y.State \notin Collecting
           /\ y.ExpectedSeg = x.ExpectedSeg /\ y.WindowLast = x.WindowLast
      /\ x.State = "destroy" => y.State = "destroy"

AllForward == \A c \in Contexts : Forward(sar[c], sar'[c])

LEMMA LikeForward ==
    ASSUME NEW x \in Context, NEW y, Like(x, y)
    PROVE  Forward(x, y)
<1>1. x.WindowLast \in Nat
  BY DEF Context
<1>2. QED
  BY <1>1 DEF Like, SameData, Forward

LEMMA EndsForward ==
    ASSUME NEW x \in Context
    PROVE  /\ Forward(x, [Destroy(x) EXCEPT !.due = "unlist"])
           /\ Forward(x, Destroy(Increment(x)))
           /\ Forward(x, Unused)
<1>1. x.WindowLast \in Nat
  BY DEF Context
<1>2. PICK y : y = [Destroy(x) EXCEPT !.due = "unlist"]
  OBVIOUS
<1>3. SameData(x, y) /\ y.State = "destroy"
  BY <1>2 DEF Context, Destroy, SameData
<1>4. PICK z : z = Destroy(Increment(x))
  OBVIOUS
<1>5. SameData(x, z) /\ z.State = "destroy"
  BY <1>4 DEF Context, Destroy, Increment, SameData
<1>6. Forward(x, y) /\ Forward(x, z)
  BY <1>1, <1>3, <1>5 DEF SameData, Forward, Collecting
<1>7. Forward(x, Unused)
  BY DEF Unused, Forward
<1>8. QED
  BY <1>2, <1>4, <1>6, <1>7

LEMMA ForwardAt ==
    ASSUME TypeOK, NEW c, NEW y, sar' = [sar EXCEPT ![c] = y],
           c \in Contexts => Forward(sar[c], y)
    PROVE  AllForward
<1> SUFFICES ASSUME NEW d \in Contexts
             PROVE  Forward(sar[d], sar'[d])
  BY DEF AllForward
<1>1. CASE d = c
  <2>1. sar'[d] = y
    BY <1>1 DEF TypeOK
  <2>2. QED
    BY <1>1, <2>1
<1>2. CASE d # c
  <2>1. sar'[d] = sar[d] /\ sar[d] \in Context
    BY <1>2 DEF TypeOK
  <2>2. Like(sar[d], sar[d])
    BY DEF Like, SameData
  <2>3. QED
    BY <2>1, <2>2, LikeForward
<1>3. QED
  BY <1>1, <1>2

LEMMA LikeAt ==
    ASSUME TypeOK, NEW c, NEW y, sar' = [sar EXCEPT ![c] = y],
           c \in Contexts => Like(sar[c], y)
    PROVE  AllForward
<1>1. c \in Contexts => sar[c] \in Context
  BY DEF TypeOK
<1>2. c \in Contexts => Forward(sar[c], y)
  BY <1>1, LikeForward
<1>3. QED
  BY <1>2, ForwardAt

LEMMA ForwardSame ==
    ASSUME TypeOK, UNCHANGED sar
    PROVE  AllForward
<1> SUFFICES ASSUME NEW d \in Contexts
             PROVE  Forward(sar[d], sar'[d])
  BY DEF AllForward
<1>1. sar[d] \in Context /\ sar'[d] = sar[d]
  BY DEF TypeOK
<1>2. Like(sar[d], sar[d])
  BY DEF Like, SameData
<1>3. QED
  BY <1>1, <1>2, LikeForward

\* What StopTimer, Decrement and the rest make of a context in the memory.
LEMMA AlikeAt ==
    ASSUME DeliveryInv, NEW c \in Contexts
    PROVE  /\ Like(sar[c], Decrement(sar[c])) /\ Like(sar[c], Increment(sar[c]))
           /\ Like(sar[c], StopTimer(sar[c])) /\ Like(sar[c], sar[c])
<1>2. Like(sar[c], Decrement(sar[c]))
  BY ContextTyped, AlikeLemma
<1>3. Like(sar[c], Increment(sar[c]))
  BY ContextTyped, AlikeLemma
<1>4. Like(sar[c], StopTimer(sar[c]))
  BY ContextTyped, AlikeLemma
<1>5. Like(sar[c], sar[c])
  BY DEF Like, SameData
<1>6. QED
  BY <1>2, <1>3, <1>4, <1>5

\* The timers, the reaper and the unloader.
LEMMA OthersForward ==
    ASSUME DeliveryInv,
           \/ \E c \in Contexts : Fire(c) \/ Callback(c) \/ Reap(c)
           \/ Unload \/ Unloading
    PROVE  AllForward
<1>a. TypeOK /\ \A c \in Contexts : sar[c] \in Context
  BY ContextTyped DEF DeliveryInv, Inv
<1>1. ASSUME NEW c \in Contexts, Fire(c) PROVE AllForward
  <2>1. PICK y : y = [sar[c] EXCEPT !.timer = "fired", !.due = "enter"]
    OBVIOUS
  <2>2. sar' = [sar EXCEPT ![c] = y]
    BY <1>a, <1>1, <2>1 DEF Fire, TypeOK
  <2>3. Like(sar[c], [sar[c] EXCEPT !.timer = "fired", !.due = "enter"])
    BY ContextTyped, AlikeLemma
  <2>4. QED
    BY <1>a, <2>1, <2>2, <2>3, LikeAt
<1>2. ASSUME NEW c \in Contexts, Callback(c) PROVE AllForward
  <2>1. CASE Enter(c)
    <3>1. Like(sar[c], Entered(sar[c]))
      BY ContextTyped, AlikeLemma
    <3>2. QED
      BY <1>a, <2>1, <3>1, LikeAt DEF Enter
  <2>2. CASE LateEnter(c)
    <3>1. Like(sar[c], EnteredLate(sar[c]))
      BY ContextTyped, AlikeLemma
    <3>2. QED
      BY <1>a, <2>2, <3>1, LikeAt DEF LateEnter
  <2>3. CASE Stale(c)
    <3>1. Like(sar[c], Returned(sar[c]))
      BY ContextTyped, AlikeLemma
    <3>2. QED
      BY <1>a, <2>3, <3>1, LikeAt DEF Stale
  <2>4. CASE Expire(c)
    <3>1. sar' = [sar EXCEPT ![c] = [Destroy(sar[c]) EXCEPT !.due = "unlist"]]
      BY <2>4 DEF Expire
    <3>2. QED
      BY <1>a, <3>1, EndsForward, ForwardAt
  <2>5. CASE ExpireUnlist(c)
    <3>1. PICK y : y = Decrement([sar[c] EXCEPT !.due = "drop"])
      OBVIOUS
    <3>2. sar' = [sar EXCEPT ![c] = y]
      BY <2>5, <3>1 DEF ExpireUnlist
    <3>3. Like(sar[c], Decrement([sar[c] EXCEPT !.due = "drop"]))
      BY ContextTyped, AlikeLemma
    <3>4. QED
      BY <1>a, <3>1, <3>2, <3>3, LikeAt
  <2>6. CASE ExpireDrop(c)
    <3>1. PICK y : y = Decrement([sar[c] EXCEPT !.due = "none"])
      OBVIOUS
    <3>2. sar' = [sar EXCEPT ![c] = y]
      BY <2>6, <3>1 DEF ExpireDrop
    <3>3. Like(sar[c], Decrement([sar[c] EXCEPT !.due = "none"]))
      BY ContextTyped, AlikeLemma
    <3>4. QED
      BY <1>a, <3>1, <3>2, <3>3, LikeAt
  <2>7. QED
    BY <1>2, <2>1, <2>2, <2>3, <2>4, <2>5, <2>6 DEF Callback
<1>3. ASSUME NEW c \in Contexts, Reap(c) PROVE AllForward
  BY <1>a, <1>3, EndsForward, ForwardAt DEF Reap
<1>4. CASE Unload \/ Unloaded
  BY <1>a, <1>4, ForwardSame DEF Unload, Unloaded
<1>5. CASE UnloadDestroy
  <2>1. PICK c : c = recvList[1]
    OBVIOUS
  <2>2. sar' = [sar EXCEPT ![c] = Destroy(Increment(sar[c]))]
    BY <1>5, <2>1 DEF UnloadDestroy
  <2>3. c \in Contexts => Forward(sar[c], Destroy(Increment(sar[c])))
    BY <1>a, EndsForward
  <2>4. QED
    BY <1>a, <2>2, <2>3, ForwardAt
<1>6. CASE UnloadStop
  <2>1. PICK c : c = unload.c
    OBVIOUS
  <2>2. PICK y : y = IF unload.armed THEN StopTimer(sar[c]) ELSE sar[c]
    OBVIOUS
  <2>3. sar' = [sar EXCEPT ![c] = y]
    BY <1>6, <2>1, <2>2 DEF UnloadStop
  <2>4. c \in Contexts => Like(sar[c], y)
    <3>1. CASE unload.armed
      BY <2>2, <3>1, AlikeAt
    <3>2. CASE ~unload.armed
      BY <2>2, <3>2, AlikeAt
    <3>3. QED
      BY <3>1, <3>2
  <2>5. QED
    BY <1>a, <2>3, <2>4, LikeAt
<1>7. CASE UnloadUnlist
  <2>1. PICK c : c = unload.c
    OBVIOUS
  <2>2. sar' = [sar EXCEPT ![c] = Decrement(sar[c])]
    BY <1>7, <2>1 DEF UnloadUnlist
  <2>3. c \in Contexts => Like(sar[c], Decrement(sar[c]))
    BY AlikeAt
  <2>4. QED
    BY <1>a, <2>2, <2>3, LikeAt
<1>8. CASE UnloadReap
  <2>1. PICK c : c = unload.c
    OBVIOUS
  <2>2. sar' = [sar EXCEPT ![c] = Unused]
    BY <1>8, <2>1 DEF UnloadReap
  <2>3. c \in Contexts => Forward(sar[c], Unused)
    BY <1>a, EndsForward
  <2>4. QED
    BY <1>a, <2>2, <2>3, ForwardAt
<1>9. QED
  BY <1>1, <1>2, <1>3, <1>4, <1>5, <1>6, <1>7, <1>8 DEF Unloading

LEMMA ArriveMoves ==
    ASSUME NEW p \in Packets, Arrive(p)
    PROVE  \/ UNCHANGED sar
           \/ \E c : sar' = [sar EXCEPT ![c] = Increment(sar[c])]
<1>1. CASE UNCHANGED sar
  BY <1>1
<1>2. CASE \E i \in Matches(p) : sar' = [sar EXCEPT ![recvList[i]] = Increment(sar[recvList[i]])]
  BY <1>2
<1>3. QED
  BY <1>1, <1>2, Zenon DEF Arrive

\* A context is made of memory that is free.
LEMMA CreateForward ==
    ASSUME TypeOK, NEW c \in Contexts, Create(c)
    PROVE  AllForward
<1>1. PICK y : y = [Unused EXCEPT !.mem = "live", !.key = rx.pkt.key, !.RefCount = 2]
  OBVIOUS
<1>2. sar' = [sar EXCEPT ![c] = y] /\ sar[c].mem = "free"
  BY <1>1 DEF Create
<1>3. Forward(sar[c], y)
  BY <1>2 DEF Forward
<1>4. QED
  BY <1>2, <1>3, ForwardAt

\* The event thread without the lock of a context.
LEMMA MoveForward ==
    ASSUME DeliveryInv,
           \/ \E p \in Packets : Arrive(p)
           \/ SkipDestroyed \/ RejectNew \/ NoRoom \/ RxUnlist \/ RxDrop
           \/ \E c \in Contexts : Create(c)
    PROVE  AllForward
<1>a. TypeOK /\ \A c \in Contexts : sar[c] \in Context
  BY ContextTyped DEF DeliveryInv, Inv
<1>d. ASSUME NEW c, sar' = [sar EXCEPT ![c] = Decrement(sar[c])] PROVE AllForward
  <2>1. c \in Contexts => Like(sar[c], Decrement(sar[c]))
    BY AlikeAt
  <2>2. QED
    BY <1>a, <1>d, <2>1, LikeAt
<1>1. ASSUME NEW p \in Packets, Arrive(p) PROVE AllForward
  <2>1. CASE UNCHANGED sar
    BY <1>a, <2>1, ForwardSame
  <2>2. CASE \E c : sar' = [sar EXCEPT ![c] = Increment(sar[c])]
    <3>1. PICK c : sar' = [sar EXCEPT ![c] = Increment(sar[c])]
      BY <2>2
    <3>2. c \in Contexts => Like(sar[c], Increment(sar[c]))
      BY AlikeAt
    <3>3. QED
      BY <1>a, <3>1, <3>2, LikeAt
  <2>3. UNCHANGED sar \/ \E c : sar' = [sar EXCEPT ![c] = Increment(sar[c])]
    BY <1>1, ArriveMoves
  <2>4. QED
    BY <2>1, <2>2, <2>3
<1>2. CASE SkipDestroyed
  BY <1>2, <1>d DEF SkipDestroyed
<1>3. CASE RejectNew \/ NoRoom
  BY <1>3, <1>a, ForwardSame DEF RejectNew, NoRoom
<1>4. CASE RxUnlist
  BY <1>4, <1>d DEF RxUnlist
<1>5. CASE RxDrop
  BY <1>5, <1>d DEF RxDrop
<1>6. ASSUME NEW c \in Contexts, Create(c) PROVE AllForward
  BY <1>a, <1>6, CreateForward
<1>7. QED
  BY <1>1, <1>2, <1>3, <1>4, <1>5, <1>6

\* A context that is given up keeps what it has told the sender.
LEMMA StopForward ==
    ASSUME DeliveryInv, rx.pc = "lock", sar[rx.c].State # "destroy",
           NEW x, InHand(x), Forward(sar[rx.c], x),
           NEW s \in {"timewait", "timewait_recv"}, NEW ok \in BOOLEAN,
           sar' = [sar EXCEPT ![rx.c] = Terminate(x, s, ok)]
    PROVE  AllForward
<1>1. PICK y : y = Terminate(x, s, ok)
  OBVIOUS
<1>2. y.mem = "live" /\ SameData(x, y) /\ y.State \notin Collecting
  BY <1>1, TerminateInHand DEF Collecting
<1>3. x.mem = "live"
  BY DEF InHand
<1>4. sar[rx.c].mem = "live"
  BY AtMessage
<1>5. Forward(sar[rx.c], y)
  <2>1. /\ x.key = sar[rx.c].key
        /\ x.ExpectedSeg \in {sar[rx.c].ExpectedSeg, sar[rx.c].ExpectedSeg + 1}
        /\ x.WindowLast >= sar[rx.c].WindowLast
        /\ sar[rx.c].State \notin Collecting =>
             x.ExpectedSeg = sar[rx.c].ExpectedSeg /\ x.WindowLast = sar[rx.c].WindowLast
    BY <1>3, <1>4 DEF Forward
  <2>2. y.key = x.key /\ y.ExpectedSeg = x.ExpectedSeg /\ y.WindowLast = x.WindowLast
    BY <1>2 DEF SameData
  <2>3. y.State # "created"
    BY <1>2 DEF Collecting
  <2>4. QED
    BY <1>2, <2>1, <2>2, <2>3 DEF Forward
<1>6. TypeOK
  BY DEF DeliveryInv, Inv
<1>7. QED
  BY <1>1, <1>5, <1>6, ForwardAt

\* The segment that is expected moves a context one on.
LEMMA StoreForward ==
    ASSUME DeliveryInv, Expected
    PROVE  LET y == Store(sar[rx.c], rx.pkt)
           IN  Forward(sar[rx.c], y) /\ y.WindowLast = sar[rx.c].WindowLast
<1>1. /\ rx.pc = "lock" /\ sar[rx.c].State \in {"created", "active"}
  BY DEF Expected, Segment, Locked
<1>2. PICK y : y = Store(sar[rx.c], rx.pkt)
  OBVIOUS
<1>3. /\ y.State = "active" /\ y.key = sar[rx.c].key
      /\ y.ExpectedSeg = sar[rx.c].ExpectedSeg + 1
      /\ y.WindowLast = sar[rx.c].WindowLast
  BY <1>2, Stored DEF DeliveryInv
<1>4. sar[rx.c].WindowLast \in Nat
  <2>1. sar[rx.c] \in Context
    BY <1>1, AtMessage
  <2>2. QED
    BY <2>1 DEF Context
<1>5. Forward(sar[rx.c], y)
  BY <1>1, <1>3, <1>4 DEF Forward, Collecting
<1>6. QED
  BY <1>2, <1>3, <1>5

\* The window that is opened again begins where the old one ended, or later.
LEMMA AdvanceForward ==
    ASSUME NEW x \in Context, NEW n \in Nat \ {0}, x.ExpectedSeg = n + 1,
           n = 1 => x.WindowLast = 1,
           n # 1 => /\ x.WindowLast < n + WindowSize
                    /\ x.TotalSegs # 0 => x.WindowLast <= x.TotalSegs,
           x.TotalSegs # 0 => x.ExpectedSeg <= x.TotalSegs
    PROVE  LET y == Advance(x)
           IN  /\ y.mem = x.mem /\ y.State = x.State /\ y.key = x.key
               /\ y.ExpectedSeg = x.ExpectedSeg /\ y.WindowLast >= x.WindowLast
<1> DEFINE y == Advance(x)
           e == x.ExpectedSeg
           t == x.TotalSegs
           v == x.WindowLast
           w == y.WindowLast
<1>1. v \in Nat /\ t \in Nat /\ WindowSize \in Nat \ {0}
  BY RmppAssumption DEF Context, RmppAssumption
<1>2. e > 1
  OBVIOUS
<1>3. /\ y.mem = x.mem /\ y.State = x.State /\ y.key = x.key
      /\ y.ExpectedSeg = x.ExpectedSeg
      /\ w = IF t # 0 /\ e + WindowSize - 1 > t THEN t ELSE e + WindowSize - 1
  BY <1>2, AdvanceTyped
<1>4. /\ e = n + 1 /\ (t # 0 => e <= t)
      /\ n = 1 => v = 1
      /\ n # 1 => v < n + WindowSize /\ (t # 0 => v <= t)
  OBVIOUS
<1>5. w >= v
  <2> HIDE DEF y, e, t, v, w
  <2>1. QED
    BY <1>1, <1>3, <1>4
<1>6. QED
  BY <1>3, <1>5

LEMMA ProceedForward ==
    ASSUME DeliveryInv, Proceed
    PROVE  AllForward
<1>1. PICK x : x = Store(sar[rx.c], rx.pkt)
  OBVIOUS
<1>2. PICK y : y = IF MustAck(x) THEN Advance(x) ELSE x
  OBVIOUS
<1>3. /\ Expected /\ ~WrongCount(x, rx.pkt) /\ ~rx.pkt.last
      /\ sar' = [sar EXCEPT ![rx.c] = y]
  BY <1>1, <1>2 DEF Proceed, Leave
<1>4. Forward(sar[rx.c], x) /\ x.WindowLast = sar[rx.c].WindowLast
  BY <1>1, <1>3, StoreForward
<1>5. PICK n : n = rx.pkt.seg
  OBVIOUS
<1>6. /\ x \in Context /\ x.mem = "live" /\ x.State = "active"
      /\ x.ExpectedSeg = n + 1 /\ x.key \in Keys
      /\ n \in 1 .. message[x.key].segs
      /\ n = 1 => x.WindowLast = 1
      /\ n # 1 => /\ x.WindowLast < n + WindowSize
                  /\ x.TotalSegs # 0 => x.WindowLast <= x.TotalSegs
  BY <1>1, <1>3, <1>5, StoredWhole
<1>7. n \in Nat \ {0}
  <2>1. message[x.key].segs \in Nat
    BY <1>6, SegmentsNat DEF DeliveryInv, Inv
  <2>2. QED
    BY <1>6, <2>1
<1>8. x.TotalSegs # 0 => x.ExpectedSeg <= x.TotalSegs
  <2>1. ~(x.TotalSegs # 0 /\ x.ExpectedSeg > x.TotalSegs)
    BY <1>3 DEF WrongCount
  <2>2. x.ExpectedSeg \in Nat /\ x.TotalSegs \in Nat
    BY <1>6 DEF Context
  <2>3. QED
    BY <2>1, <2>2
<1>9. /\ y.mem = x.mem /\ y.State = x.State /\ y.key = x.key
      /\ y.ExpectedSeg = x.ExpectedSeg /\ y.WindowLast >= x.WindowLast
  <2>1. CASE MustAck(x)
    <3>1. y = Advance(x)
      BY <1>2, <2>1
    <3>2. QED
      BY <1>6, <1>7, <1>8, <3>1, AdvanceForward
  <2>2. CASE ~MustAck(x)
    <3>1. x.WindowLast \in Nat
      BY <1>6 DEF Context
    <3>2. QED
      BY <1>2, <2>2, <3>1
  <2>3. QED
    BY <2>1, <2>2
<1>10. sar[rx.c].State \in Collecting
  BY <1>3 DEF Expected, Segment, Locked, Collecting
<1>11. Forward(sar[rx.c], y)
  BY <1>4, <1>6, <1>9, <1>10 DEF Forward, Collecting
<1>12. TypeOK
  BY DEF DeliveryInv, Inv
<1>13. QED
  BY <1>3, <1>11, <1>12, ForwardAt

\* The event thread with the lock of a context.
LEMMA StopsForward ==
    ASSUME DeliveryInv, rx.pc = "lock", sar[rx.c].State # "destroy",
           NEW x, InHand(x), Forward(sar[rx.c], x),
           NEW s \in {"timewait", "timewait_recv"}, NEW status, NEW answer,
           Stop(x, s, status, answer)
    PROVE  AllForward
<1>1. PICK ok \in BOOLEAN : sar' = [sar EXCEPT ![rx.c] = Terminate(x, s, ok)]
  BY DEF Stop, Leave
<1>2. QED
  BY <1>1, StopForward

LEMMA HandForward ==
    ASSUME DeliveryInv, rx.pc = "lock", sar[rx.c].State # "destroy"
    PROVE  /\ sar[rx.c] \in Context /\ InHand(sar[rx.c])
           /\ Forward(sar[rx.c], sar[rx.c])
<1>1. sar[rx.c] \in Context /\ InHand(sar[rx.c])
  BY AtMessage
<1>2. Like(sar[rx.c], sar[rx.c])
  BY DEF Like, SameData
<1>3. QED
  BY <1>1, <1>2, LikeForward

\* What is given up as it is.
LEMMA GivenUpForward ==
    ASSUME DeliveryInv, Bad \/ AckAgain \/ MisplacedAck \/ Aborted
    PROVE  AllForward
<1>1. CASE Bad
  <2>1. /\ rx.pc = "lock" /\ sar[rx.c].State # "destroy"
        /\ Stop(sar[rx.c], "timewait", "reject", Answer(rx.pkt.key, "abort"))
    BY <1>1 DEF Bad, Locked
  <2>2. QED
    BY <2>1, HandForward, StopsForward
<1>2. CASE AckAgain
  <2>1. /\ rx.pc = "lock" /\ sar[rx.c].State # "destroy"
        /\ Stop(sar[rx.c], "timewait_recv", "reject", Ack(sar[rx.c]))
    BY <1>2 DEF AckAgain, Locked
  <2>2. QED
    BY <2>1, HandForward, StopsForward
<1>3. CASE MisplacedAck
  <2>1. /\ rx.pc = "lock" /\ sar[rx.c].State # "destroy"
        /\ Stop(sar[rx.c], "timewait", "reject", Answer(rx.pkt.key, "abort"))
    BY <1>3 DEF MisplacedAck, Locked
  <2>2. QED
    BY <2>1, HandForward, StopsForward
<1>4. CASE Aborted
  <2>1. /\ rx.pc = "lock" /\ sar[rx.c].State # "destroy"
        /\ Stop(sar[rx.c], "timewait", "reject", reply)
    BY <1>4 DEF Aborted, Locked
  <2>2. QED
    BY <2>1, HandForward, StopsForward
<1>5. QED
  BY <1>1, <1>2, <1>3, <1>4

LEMMA RestForward ==
    ASSUME DeliveryInv, Ignore \/ Unexpected
    PROVE  AllForward
<1>1. sar' = [sar EXCEPT ![rx.c] = sar[rx.c]]
  BY DEF Ignore, Unexpected, Leave
<1>2. rx.c \in Contexts => Like(sar[rx.c], sar[rx.c])
  BY DEF Like, SameData
<1>3. TypeOK
  BY DEF DeliveryInv, Inv
<1>4. QED
  BY <1>1, <1>2, <1>3, LikeAt

LEMMA NoTimerForward ==
    ASSUME DeliveryInv, NoTimer
    PROVE  AllForward
<1>1. PICK f : f = [StartTimer(sar[rx.c], FALSE) EXCEPT !.TotalSegs = rx.pkt.total]
  OBVIOUS
<1>2. rx.pc = "lock" /\ sar[rx.c].State # "destroy" /\ InHand(f) /\ f.key = sar[rx.c].key
  BY <1>1, NotStarted DEF DeliveryInv
<1>3. sar[rx.c] \in Context
  BY <1>2, HandForward
<1>4. f.ExpectedSeg = sar[rx.c].ExpectedSeg /\ f.WindowLast = sar[rx.c].WindowLast
      /\ f.State = sar[rx.c].State
  BY <1>1, <1>3 DEF StartTimer, Context
<1>5. sar[rx.c].WindowLast \in Nat
  BY <1>3 DEF Context
<1>6. Forward(sar[rx.c], f)
  BY <1>2, <1>4, <1>5 DEF Forward
<1>7. Stop(f, "timewait", "reject", Answer(rx.pkt.key, "stop"))
  BY <1>1 DEF NoTimer
<1>8. QED
  BY <1>2, <1>6, <1>7, StopsForward

LEMMA InconsistentForward ==
    ASSUME DeliveryInv, Inconsistent
    PROVE  AllForward
<1>1. PICK x : x = Store(sar[rx.c], rx.pkt)
  OBVIOUS
<1>2. Expected /\ Stop(x, "timewait", "pending", Answer(rx.pkt.key, "abort"))
  BY <1>1 DEF Inconsistent
<1>3. rx.pc = "lock" /\ sar[rx.c].State # "destroy" /\ InHand(x)
  BY <1>1, <1>2, Stored DEF DeliveryInv
<1>4. Forward(sar[rx.c], x)
  BY <1>1, <1>2, StoreForward
<1>5. QED
  BY <1>2, <1>3, <1>4, StopsForward

\* The message is complete, and the context stays where it is.
LEMMA GotLastForward ==
    ASSUME DeliveryInv, GotLast
    PROVE  AllForward
<1>0. rx.pc = "lock" /\ sar[rx.c].State # "destroy"
  BY DEF GotLast, Expected, Segment, Locked
<1>1. PICK x : x = Store(sar[rx.c], rx.pkt)
  OBVIOUS
<1>2. PICK d : d = [StopTimer(x) EXCEPT !.State = "done", !.RecvHead = <<>>]
  OBVIOUS
<1>3. PICK ok \in BOOLEAN : sar' = [sar EXCEPT ![rx.c] = Terminate(d, "timewait_recv", ok)]
  BY <1>1, <1>2 DEF GotLast
<1>4. Expected
  BY DEF GotLast
<1>5. InHand(x) /\ x.State = "active" /\ Forward(sar[rx.c], x)
  BY <1>1, <1>4, Stored, StoreForward DEF DeliveryInv
<1>6. InHand(d) /\ SameData(x, d) /\ d.State = "done"
  <2>1. InHand(d) /\ SameData(x, d)
    <3>1. x.State \in Armed
      BY <1>5 DEF Armed
    <3>2. QED
      BY <1>2, <1>5, <3>1, DoneInHand
  <2>2. StopTimer(x).State = x.State /\ StopTimer(x) \in Context
    BY <1>5, StopInHand DEF Armed
  <2>3. d.State = "done"
    BY <1>2, <2>2 DEF Context
  <2>4. QED
    BY <2>1, <2>3
<1>7. sar[rx.c].State \in Collecting
  BY <1>4 DEF Expected, Segment, Locked, Collecting
<1>8. Forward(sar[rx.c], d)
  BY <1>5, <1>6, <1>7 DEF InHand, SameData, Forward, Collecting
<1>9. QED
  BY <1>0, <1>3, <1>6, <1>8, StopForward

LEMMA LockedForward ==
    ASSUME DeliveryInv,
           \/ Bad \/ Ignore \/ AckAgain \/ MisplacedAck \/ Aborted
           \/ Unexpected \/ NoTimer \/ Inconsistent \/ GotLast \/ Proceed
    PROVE  AllForward
BY GivenUpForward, RestForward, NoTimerForward, InconsistentForward, GotLastForward,
   ProceedForward

\* A receiver never takes back what it has told the sender: the segment it
\* expects and the window go forward one after the other, and a context that has
\* delivered its message or given it up neither collects again nor answers with
\* another segment, whatever packet, timer or unloader finds it.
THEOREM ContextsGoForward == Spec => [][AllForward]_vars
<1>1. DeliveryInv /\ [Next]_vars => [AllForward]_vars
  <2> SUFFICES ASSUME DeliveryInv, Next PROVE AllForward
    OBVIOUS
  <2>1. CASE Process
    BY <2>1, MoveForward, LockedForward DEF Process
  <2>2. QED
    BY <2>1, MoveForward, OthersForward DEF Next
<1>2. QED
  BY <1>1, DeliveryInvariance, PTL DEF Spec
=============================================================================
