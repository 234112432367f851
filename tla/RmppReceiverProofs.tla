------------------------- MODULE RmppReceiverProofs -------------------------
(* The references to the contexts of RmppReceiver are counted right, so that  *)
(* no context is freed while it is used; messages are delivered whole; and a  *)
(* message has one context.                                                   *)
EXTENDS RmppReceiver, SequenceTheorems, TLAPS

-----------------------------------------------------------------------------
\* What holds of one context x: l says whether it is on the list, r what the
\* receive thread does with it and u what the unloader does ("none" if nothing).

Others(l, r, u) ==
    (IF l THEN 1 ELSE 0) + (IF r = "none" THEN 0 ELSE 1) + (IF u = "none" THEN 0 ELSE 1)

\* n references are held by others than the timer and its callbacks.
Counted(x, n) ==
    IF x.mem = "live" THEN x.RefCount = n + TimerHolds(x) + x.lost /\ x.RefCount > 0
                      ELSE n = 0 /\ TimerHolds(x) = 0

Waiting(x) ==
    \/ x.timer = "on" /\ x.due = "none"
    \/ x.timer = "fired" /\ x.due \in {"enter", "wait"}

Stopped(x) == x.timer # "on" /\ x.due = "none"

Staged(x, l, r, u) ==
    /\ x.State = "created" =>
        l /\ r = "lock" /\ u = "none" /\ Stopped(x) /\ x.ExpectedSeg = 1
    /\ x.State = "active" => x.ExpectedSeg > 1
    /\ x.State \in Armed => l /\ r \in {"none", "lock", "drop"} /\ u = "none" /\ Waiting(x)
    /\ x.State = "destroy" =>
        /\ l <=> x.due = "unlist" \/ r = "unlist" \/ u \in {"stop", "unlist"}
        /\ x.due = "unlist" => r # "unlist" /\ u = "none"
        /\ r = "unlist" => u = "none"
        /\ u = "stop" => /\ x.due \notin {"unlist", "drop"} /\ x.timer # "off"
                         /\ x.timer = "on" => x.due = "none"
        /\ u # "stop" => x.timer # "on" /\ x.due \notin {"enter", "wait"}
    /\ x.State # "done"

Sound(x, l, r, u) ==
    /\ Counted(x, Others(l, r, u))
    /\ x.mem = "live" => Staged(x, l, r, u)
    /\ x.mem = "free" => x = Unused

RxPcs == {"none", "lock", "unlist", "drop"}
UnloadPcs == {"none", "stop", "unlist", "reap"}

\* What one event thread, at work on a context that it has locked, knows of it.
InHand(x) ==
    /\ x \in Context /\ x.mem = "live"
    /\ Counted(x, 2)
    /\ IF x.State \in Armed THEN Waiting(x) ELSE Stopped(x)

\* The fields of a context that have nothing to do with its life.
SameData(x, y) ==
    /\ y.key = x.key /\ y.ExpectedSeg = x.ExpectedSeg
    /\ y.WindowLast = x.WindowLast /\ y.TotalSegs = x.TotalSegs

-----------------------------------------------------------------------------
\* What is done to a context keeps it sound.

LEMMA HoldsNat ==
    ASSUME NEW x \in Context
    PROVE  TimerHolds(x) \in Nat
BY DEF TimerHolds, One, Context

LEMMA OthersNat ==
    \A l, r, u :
        /\ Others(l, r, u) \in Nat
        /\ Others(l, r, u) = 0 => ~l /\ r = "none" /\ u = "none"
BY DEF Others

LEMMA Two ==
    \A r : r # "none" => Others(TRUE, r, "none") = 2
BY DEF Others

\* Changes to the fields of a context that keep their types.
LEMMA CountTyped ==
    ASSUME NEW x \in Context, NEW n \in Int, NEW m \in {"free", "live", "reap"}
    PROVE  [x EXCEPT !.RefCount = n, !.mem = m] \in Context
BY DEF Context

LEMMA CallbackTyped ==
    ASSUME NEW x \in Context, NEW d \in {"none", "enter", "wait", "unlist", "drop"},
           NEW e \in Nat, NEW w \in Nat
    PROVE  [x EXCEPT !.due = d, !.lateEnter = e, !.lateWait = w] \in Context
BY DEF Context

LEMMA TimerTyped ==
    ASSUME NEW x \in Context, NEW t \in {"off", "on", "fired"}
    PROVE  [x EXCEPT !.timer = t] \in Context
BY DEF Context

LEMMA StartTyped ==
    ASSUME NEW x \in Context, NEW n \in Int, NEW t \in {"off", "on", "fired"}, NEW l \in Nat
    PROVE  /\ [x EXCEPT !.RefCount = n, !.timer = t] \in Context
           /\ [x EXCEPT !.RefCount = n, !.lost = l] \in Context
BY DEF Context

LEMMA StateTyped ==
    ASSUME NEW x \in Context, NEW s \in States, NEW q \in Seq(AllPackets), NEW n \in Nat
    PROVE  /\ [x EXCEPT !.State = s, !.RecvHead = q] \in Context
           /\ [x EXCEPT !.State = s, !.TotalSegs = n] \in Context
BY DEF Context

LEMMA StoredTyped ==
    ASSUME NEW x \in Context, NEW q \in Seq(AllPackets), NEW n \in Nat \ {0}
    PROVE  [x EXCEPT !.RecvHead = q, !.ExpectedSeg = n] \in Context
BY DEF Context

\* A reference given back with what it was held for.
LEMMA CountedDown ==
    ASSUME NEW x \in Context, NEW y \in Context, NEW n \in Nat, NEW m \in Nat,
           x.mem = "live", Counted(x, n),
           y.RefCount = x.RefCount - 1, y.lost = x.lost,
           y.mem = IF x.RefCount = 1 THEN "reap" ELSE "live",
           m + TimerHolds(y) = n + TimerHolds(x) - 1
    PROVE  Counted(y, m)
<1>1. TimerHolds(x) \in Nat /\ TimerHolds(y) \in Nat /\ x.RefCount \in Int /\ x.lost \in Nat
  BY HoldsNat DEF Context
<1>2. x.RefCount = n + TimerHolds(x) + x.lost /\ x.RefCount > 0
  BY DEF Counted
<1>3. CASE x.RefCount = 1
  <2>1. /\ n + TimerHolds(x) + x.lost = 1
        /\ m + TimerHolds(y) = n + TimerHolds(x) - 1
    BY <1>2, <1>3
  <2>2. m = 0 /\ TimerHolds(y) = 0
    <3> DEFINE t == TimerHolds(x)
               w == TimerHolds(y)
               o == x.lost
    <3>1. /\ t \in Nat /\ w \in Nat /\ o \in Nat
          /\ n + t + o = 1 /\ m + w = n + t - 1
      BY <1>1, <2>1
    <3> HIDE DEF t, w, o
    <3>2. m = 0 /\ w = 0
      BY <3>1
    <3>3. QED
      BY <3>2 DEF w
  <2>3. QED
    BY <1>3, <2>2 DEF Counted
<1>4. CASE x.RefCount # 1
  <2>1. y.RefCount = m + TimerHolds(y) + y.lost /\ y.RefCount > 0
    BY <1>1, <1>2, <1>4
  <2>2. QED
    BY <1>4, <2>1 DEF Counted
<1>5. QED
  BY <1>3, <1>4

\* What Decrement does.
LEMMA Decremented ==
    ASSUME NEW x \in Context, x.mem = "live"
    PROVE  LET y == Decrement(x)
           IN  /\ y \in Context /\ y.mem = IF x.RefCount = 1 THEN "reap" ELSE "live"
               /\ y.RefCount = x.RefCount - 1 /\ y.lost = x.lost
               /\ y.State = x.State /\ SameData(x, y) /\ y.RecvHead = x.RecvHead
               /\ y.timer = x.timer /\ y.due = x.due
               /\ y.lateEnter = x.lateEnter /\ y.lateWait = x.lateWait
<1> DEFINE y == Decrement(x)
<1>1. y \in Context
  <2>1. /\ x.RefCount - 1 \in Int
        /\ (IF x.RefCount = 1 THEN "reap" ELSE x.mem) \in {"free", "live", "reap"}
    BY DEF Context
  <2>2. QED
    BY <2>1, CountTyped DEF Decrement
<1>2. y.mem = (IF x.RefCount = 1 THEN "reap" ELSE "live") /\ y.RefCount = x.RefCount - 1
  BY DEF Context, Decrement
<1>3. /\ y.lost = x.lost /\ y.State = x.State /\ y.RecvHead = x.RecvHead
      /\ y.timer = x.timer /\ y.due = x.due
      /\ y.lateEnter = x.lateEnter /\ y.lateWait = x.lateWait
  BY DEF Context, Decrement
<1>4. SameData(x, y)
  BY DEF Context, Decrement, SameData
<1>5. QED
  BY <1>1, <1>2, <1>3, <1>4

\* The event thread gives its reference back.
LEMMA DropSound ==
    ASSUME NEW x \in Context, NEW l \in BOOLEAN, NEW u \in UnloadPcs,
           NEW r \in {"lock", "drop"}, Sound(x, l, r, u), x.mem = "live",
           x.State # "created"
    PROVE  Sound(Decrement(x), l, "none", u)
<1> DEFINE y == Decrement(x)
<1>1. /\ y \in Context /\ y.mem = IF x.RefCount = 1 THEN "reap" ELSE "live"
      /\ y.RefCount = x.RefCount - 1 /\ y.lost = x.lost
      /\ y.State = x.State /\ y.ExpectedSeg = x.ExpectedSeg
      /\ y.timer = x.timer /\ y.due = x.due
      /\ y.lateEnter = x.lateEnter /\ y.lateWait = x.lateWait
  BY Decremented DEF SameData
<1> HIDE DEF y
<1>2. Staged(x, l, r, u) /\ Counted(x, Others(l, r, u))
  BY DEF Sound
<1>3. Staged(y, l, "none", u)
  BY <1>1, <1>2 DEF Staged, Waiting, Stopped
<1>4. Counted(y, Others(l, "none", u))
  <2>1. TimerHolds(y) = TimerHolds(x) /\ TimerHolds(x) \in Nat
    BY <1>1, HoldsNat DEF TimerHolds
  <2>2. /\ Others(l, r, u) \in Nat /\ Others(l, "none", u) \in Nat
        /\ Others(l, r, u) = Others(l, "none", u) + 1
    BY DEF Others
  <2>3. Others(l, "none", u) + TimerHolds(y) = Others(l, r, u) + TimerHolds(x) - 1
    BY <2>1, <2>2
  <2>4. QED
    BY <1>1, <1>2, <2>2, <2>3, CountedDown
<1>5. Sound(y, l, "none", u)
  BY <1>1, <1>3, <1>4 DEF Sound
<1>6. QED
  BY <1>5 DEF y

\* A context leaves the list, and the thread that took it off goes on.
LEMMA UnlistSound ==
    ASSUME NEW x \in Context, NEW u \in UnloadPcs, NEW r \in RxPcs,
           Sound(x, TRUE, r, u), x.mem = "live",
           NEW s \in RxPcs, NEW v \in UnloadPcs,
           \/ r = "unlist" /\ s = "drop" /\ v = u
           \/ u = "unlist" /\ v = "reap" /\ s = r
    PROVE  Decrement(x).mem = "live" /\ Sound(Decrement(x), FALSE, s, v)
<1> DEFINE y == Decrement(x)
<1>1. /\ y \in Context /\ y.mem = IF x.RefCount = 1 THEN "reap" ELSE "live"
      /\ y.RefCount = x.RefCount - 1 /\ y.lost = x.lost
      /\ y.State = x.State /\ y.ExpectedSeg = x.ExpectedSeg
      /\ y.timer = x.timer /\ y.due = x.due
      /\ y.lateEnter = x.lateEnter /\ y.lateWait = x.lateWait
  BY Decremented DEF SameData
<1> HIDE DEF y
<1>2. Staged(x, TRUE, r, u) /\ Counted(x, Others(TRUE, r, u))
  BY DEF Sound
<1>3. x.State = "destroy"
  BY <1>2 DEF Staged, Armed, Context, States
<1>4. Staged(y, FALSE, s, v)
  BY <1>1, <1>2, <1>3 DEF Staged, Armed
<1>5. Counted(y, Others(FALSE, s, v))
  <2>1. TimerHolds(y) = TimerHolds(x) /\ TimerHolds(x) \in Nat
    BY <1>1, HoldsNat DEF TimerHolds
  <2>2. /\ Others(TRUE, r, u) \in Nat /\ Others(FALSE, s, v) \in Nat
        /\ Others(TRUE, r, u) = Others(FALSE, s, v) + 1
    BY DEF Others
  <2>3. Others(FALSE, s, v) + TimerHolds(y) = Others(TRUE, r, u) + TimerHolds(x) - 1
    <3> DEFINE a == Others(TRUE, r, u)
               b == Others(FALSE, s, v)
    <3>1. a \in Nat /\ b \in Nat /\ a = b + 1
      BY <2>2
    <3> HIDE DEF a, b
    <3>2. b + TimerHolds(y) = a + TimerHolds(x) - 1
      BY <2>1, <3>1
    <3>3. QED
      BY <3>2 DEF a, b
  <2>4. QED
    BY <1>1, <1>2, <2>2, <2>3, CountedDown
<1>6. y.mem = "live"
  <2>1. s # "none" \/ v # "none"
    OBVIOUS
  <2>2. QED
    BY <1>1, <1>5, <2>1, OthersNat DEF Counted
<1>7. Sound(y, FALSE, s, v)
  BY <1>4, <1>5, <1>6 DEF Sound
<1>8. QED
  BY <1>6, <1>7 DEF y

LEMMA StopInHand ==
    ASSUME NEW x, InHand(x), x.State \in Armed
    PROVE  LET y == StopTimer(x)
           IN  /\ y \in Context /\ y.mem = "live" /\ y.State = x.State
               /\ SameData(x, y) /\ y.RecvHead = x.RecvHead
               /\ Stopped(y) /\ Counted(y, 2)
<1> DEFINE y == StopTimer(x)
<1>1. x \in Context /\ x.mem = "live" /\ Counted(x, 2) /\ Waiting(x)
  BY DEF InHand
<1>2. TimerHolds(x) \in Nat /\ x.RefCount \in Int /\ x.lost \in Nat
      /\ x.lateEnter \in Nat /\ x.lateWait \in Nat
  BY <1>1, HoldsNat DEF Context
<1>4. x.RefCount = 2 + TimerHolds(x) + x.lost
  BY <1>1 DEF Counted
<1>5. CASE x.timer = "fired"
  <2> DEFINE e == IF x.due = "enter" THEN x.lateEnter + 1 ELSE x.lateEnter
             w == IF x.due = "wait" THEN x.lateWait + 1 ELSE x.lateWait
  <2>a. y = [x EXCEPT !.due = "none", !.lateEnter = e, !.lateWait = w]
    BY <1>5 DEF StopTimer
  <2>b. e \in Nat /\ w \in Nat
    BY <1>2
  <2>1. /\ y \in Context /\ y.mem = "live" /\ y.State = x.State
        /\ SameData(x, y) /\ y.RecvHead = x.RecvHead
        /\ y.timer = "fired" /\ y.due = "none" /\ y.RefCount = x.RefCount /\ y.lost = x.lost
        /\ y.lateEnter = e /\ y.lateWait = w
    <3> HIDE DEF e, w, y
    <3>1. y \in Context
      BY <1>1, <2>a, <2>b, CallbackTyped
    <3>2. /\ y.mem = "live" /\ y.State = x.State
          /\ y.key = x.key /\ y.ExpectedSeg = x.ExpectedSeg
          /\ y.WindowLast = x.WindowLast /\ y.TotalSegs = x.TotalSegs /\ y.RecvHead = x.RecvHead
      BY <1>1, <2>a DEF Context
    <3>3. /\ y.timer = "fired" /\ y.due = "none" /\ y.RefCount = x.RefCount /\ y.lost = x.lost
          /\ y.lateEnter = e /\ y.lateWait = w
      BY <1>1, <1>5, <2>a DEF Context
    <3>4. QED
      BY <3>1, <3>2, <3>3 DEF SameData
  <2> HIDE DEF y
  <2>2. TimerHolds(y) = TimerHolds(x)
    BY <1>1, <1>2, <1>5, <2>1 DEF TimerHolds, One, Waiting
  <2>3. Counted(y, 2)
    BY <1>1, <2>1, <2>2 DEF Counted
  <2>4. QED
    BY <2>1, <2>3 DEF Stopped, y
<1>6. CASE x.timer = "on" /\ x.due = "none"
  <2>1. /\ TimerHolds(x) = 1 + x.lateEnter + x.lateWait
        /\ x.RefCount # 1
    BY <1>2, <1>4, <1>6 DEF TimerHolds, One
  <2> DEFINE o == [x EXCEPT !.timer = "off"]
  <2>a. /\ o \in Context /\ o.mem = "live" /\ o.State = x.State
        /\ SameData(x, o) /\ o.RecvHead = x.RecvHead
        /\ o.timer = "off" /\ o.due = "none" /\ o.RefCount = x.RefCount /\ o.lost = x.lost
        /\ o.lateEnter = x.lateEnter /\ o.lateWait = x.lateWait
    <3>1. o \in Context
      BY <1>1, TimerTyped
    <3>2. QED
      BY <1>1, <1>6, <3>1 DEF Context, SameData
  <2>b. y = Decrement(o)
    BY <1>6 DEF StopTimer
  <2>2. /\ y \in Context /\ y.mem = "live" /\ y.State = x.State
        /\ SameData(x, y) /\ y.RecvHead = x.RecvHead
        /\ y.timer = "off" /\ y.due = "none" /\ y.RefCount = x.RefCount - 1 /\ y.lost = x.lost
        /\ y.lateEnter = x.lateEnter /\ y.lateWait = x.lateWait
    <3> HIDE DEF o, y
    <3>1. QED
      BY <2>1, <2>a, <2>b, Decremented DEF SameData
  <2> HIDE DEF y
  <2>3. TimerHolds(y) = TimerHolds(x) - 1
    BY <1>2, <2>1, <2>2 DEF TimerHolds, One
  <2>4. Counted(y, 2)
    BY <1>2, <1>4, <2>2, <2>3 DEF Counted
  <2>5. QED
    BY <2>2, <2>4 DEF Stopped, y
<1>7. QED
  BY <1>1, <1>5, <1>6 DEF Waiting

LEMMA StartInHand ==
    ASSUME NEW x \in Context, x.mem = "live", Stopped(x),
           Counted(x, 2), NEW ok \in BOOLEAN
    PROVE  LET y == StartTimer(x, ok)
           IN  /\ y \in Context /\ y.mem = "live" /\ y.State = x.State
               /\ SameData(x, y) /\ y.RecvHead = x.RecvHead
               /\ y.due = "none"
               /\ IF ok THEN Waiting(y) ELSE Stopped(y)
               /\ Counted(y, 2)
<1> DEFINE y == StartTimer(x, ok)
<1>1. TimerHolds(x) \in Nat /\ x.RefCount \in Int /\ x.lost \in Nat
      /\ x.lateEnter \in Nat /\ x.lateWait \in Nat
  BY HoldsNat DEF Context
<1>3. x.RefCount = 2 + TimerHolds(x) + x.lost
  BY DEF Counted
<1>4. /\ y \in Context /\ y.mem = "live" /\ y.State = x.State
      /\ SameData(x, y) /\ y.RecvHead = x.RecvHead
      /\ y.due = "none" /\ y.RefCount = x.RefCount + 1
      /\ y.timer = IF ok THEN "on" ELSE x.timer
      /\ y.lost = IF ok THEN x.lost ELSE x.lost + 1
      /\ y.lateEnter = x.lateEnter /\ y.lateWait = x.lateWait
  <2>1. CASE ok
    <3>1. y = [x EXCEPT !.RefCount = x.RefCount + 1, !.timer = "on"]
      BY <2>1 DEF StartTimer
    <3>2. x.RefCount + 1 \in Int
      BY <1>1
    <3> HIDE DEF y
    <3>3. y \in Context
      BY <3>1, <3>2, StartTyped
    <3>4. /\ y.mem = "live" /\ y.State = x.State /\ y.RecvHead = x.RecvHead
          /\ y.key = x.key /\ y.ExpectedSeg = x.ExpectedSeg
          /\ y.WindowLast = x.WindowLast /\ y.TotalSegs = x.TotalSegs
          /\ y.due = x.due /\ y.lost = x.lost
          /\ y.lateEnter = x.lateEnter /\ y.lateWait = x.lateWait
      BY <3>1 DEF Context
    <3>5. y.RefCount = x.RefCount + 1 /\ y.timer = "on"
      BY <3>1 DEF Context
    <3>6. QED
      BY <2>1, <3>3, <3>4, <3>5 DEF SameData, Stopped
  <2>2. CASE ~ok
    <3>1. y = [x EXCEPT !.RefCount = x.RefCount + 1, !.lost = x.lost + 1]
      BY <2>2 DEF StartTimer
    <3>2. x.RefCount + 1 \in Int /\ x.lost + 1 \in Nat
      BY <1>1
    <3> HIDE DEF y
    <3>3. y \in Context
      BY <3>1, <3>2, StartTyped
    <3>4. /\ y.mem = "live" /\ y.State = x.State /\ y.RecvHead = x.RecvHead
          /\ y.key = x.key /\ y.ExpectedSeg = x.ExpectedSeg
          /\ y.WindowLast = x.WindowLast /\ y.TotalSegs = x.TotalSegs
          /\ y.due = x.due /\ y.timer = x.timer
          /\ y.lateEnter = x.lateEnter /\ y.lateWait = x.lateWait
      BY <3>1 DEF Context
    <3>5. y.RefCount = x.RefCount + 1 /\ y.lost = x.lost + 1
      BY <3>1 DEF Context
    <3>6. QED
      BY <2>2, <3>3, <3>4, <3>5 DEF SameData, Stopped
  <2>3. QED
    BY <2>1, <2>2
<1> HIDE DEF y
<1>5. TimerHolds(y) = IF ok THEN TimerHolds(x) + 1 ELSE TimerHolds(x)
  BY <1>1, <1>4 DEF TimerHolds, One, Stopped
<1>6. Counted(y, 2)
  BY <1>1, <1>3, <1>4, <1>5 DEF Counted
<1>7. IF ok THEN Waiting(y) ELSE Stopped(y)
  BY <1>4 DEF Waiting, Stopped
<1>8. QED
  BY <1>4, <1>6, <1>7 DEF y

LEMMA TerminateInHand ==
    ASSUME NEW x, InHand(x), NEW ok \in BOOLEAN, NEW s \in {"timewait", "timewait_recv"}
    PROVE  LET y == Terminate(x, s, ok)
           IN  /\ y \in Context /\ y.mem = "live" /\ SameData(x, y)
               /\ y.State = (IF ok THEN s ELSE "destroy")
               /\ y.RecvHead = <<>>
               /\ Sound(y, TRUE, IF ok THEN "drop" ELSE "unlist", "none")
<1> DEFINE stopped == IF x.State \in Armed THEN StopTimer(x) ELSE x
           moved == [stopped EXCEPT !.State = s, !.RecvHead = <<>>]
           waiting == StartTimer(moved, ok)
           y == IF ok THEN waiting ELSE Destroy(waiting)
<1>1. /\ stopped \in Context /\ stopped.mem = "live" /\ SameData(x, stopped)
      /\ Stopped(stopped) /\ Counted(stopped, 2)
  <2>1. CASE x.State \in Armed
    BY <2>1, StopInHand
  <2>2. CASE x.State \notin Armed
    BY <2>2 DEF InHand, SameData
  <2>3. QED
    BY <2>1, <2>2
<1> HIDE DEF stopped
<1>2. /\ moved \in Context /\ moved.mem = "live" /\ moved.State = s
      /\ moved.RecvHead = <<>> /\ SameData(x, moved)
      /\ moved.timer = stopped.timer /\ moved.due = stopped.due
      /\ moved.RefCount = stopped.RefCount /\ moved.lost = stopped.lost
      /\ moved.lateEnter = stopped.lateEnter /\ moved.lateWait = stopped.lateWait
  <2>1. <<>> \in Seq(AllPackets)
    BY EmptySeq
  <2>2. QED
    BY <1>1, <2>1 DEF Context, States, SameData
<1> HIDE DEF moved
<1>3. Stopped(moved) /\ Counted(moved, 2)
  BY <1>1, <1>2 DEF Stopped, Counted, TimerHolds
<1>4. /\ waiting \in Context /\ waiting.mem = "live" /\ waiting.State = s
      /\ SameData(moved, waiting) /\ waiting.RecvHead = <<>> /\ waiting.due = "none"
      /\ IF ok THEN Waiting(waiting) ELSE Stopped(waiting)
      /\ Counted(waiting, 2)
  BY <1>2, <1>3, StartInHand
<1>5. Terminate(x, s, ok) = y
  BY DEF Terminate, stopped, moved
<1> HIDE DEF waiting
<1>6. CASE ok
  <2>1. Staged(y, TRUE, "drop", "none")
    BY <1>4, <1>6 DEF Staged, Armed
  <2>2. Counted(y, 2)
    BY <1>4, <1>6 DEF Counted
  <2>3. QED
    BY <1>2, <1>4, <1>5, <1>6, <2>1, <2>2, Two DEF Sound, SameData
<1>7. CASE ~ok
  <2>1. /\ y \in Context /\ y.mem = "live" /\ SameData(waiting, y)
        /\ y.State = "destroy" /\ y.RecvHead = <<>>
        /\ y.timer = waiting.timer /\ y.due = waiting.due
        /\ y.RefCount = waiting.RefCount /\ y.lost = waiting.lost
        /\ y.lateEnter = waiting.lateEnter /\ y.lateWait = waiting.lateWait
    BY <1>4, <1>7 DEF Destroy, Context, States, SameData
  <2> HIDE DEF y
  <2>2. Staged(y, TRUE, "unlist", "none")
    BY <1>4, <1>7, <2>1 DEF Staged, Armed, Stopped
  <2>3. Counted(y, 2)
    BY <1>4, <2>1 DEF Counted, TimerHolds
  <2>4. QED
    BY <1>2, <1>4, <1>5, <1>7, <2>1, <2>2, <2>3, Two DEF Sound, SameData
<1>8. QED
  BY <1>6, <1>7

LEMMA RestSound ==
    ASSUME NEW x, InHand(x), x.State \in Armed, x.State = "active" => x.ExpectedSeg > 1
    PROVE  Sound(x, TRUE, "drop", "none")
<1>1. Staged(x, TRUE, "drop", "none")
  BY DEF InHand, Staged, Armed
<1>2. Counted(x, 2)
  BY DEF InHand
<1>3. QED
  BY <1>1, <1>2, Two DEF InHand, Sound

\* The transaction timer starts with the first segment.
LEMMA StoreInHand ==
    ASSUME NEW x, InHand(x), NEW p \in AllPackets,
           x.State = IF p.seg = 1 THEN "created" ELSE "active"
    PROVE  LET y == Store(x, p)
           IN  /\ InHand(y) /\ y.State = "active" /\ y.key = x.key
               /\ y.ExpectedSeg = x.ExpectedSeg + 1 /\ y.WindowLast = x.WindowLast
               /\ y.TotalSegs = (IF p.seg = 1 THEN p.total ELSE x.TotalSegs)
               /\ y.RecvHead = Append(x.RecvHead, p)
<1> DEFINE s == StartTimer(x, TRUE)
           f == [s EXCEPT !.State = "active", !.TotalSegs = p.total]
           b == IF p.seg = 1 THEN f ELSE x
           y == [b EXCEPT !.RecvHead = Append(@, p), !.ExpectedSeg = @ + 1]
<1>1. Store(x, p) = y
  BY DEF Store
<1>2. /\ b \in Context /\ b.mem = "live" /\ b.State = "active" /\ b.key = x.key
      /\ b.ExpectedSeg = x.ExpectedSeg /\ b.WindowLast = x.WindowLast
      /\ b.TotalSegs = (IF p.seg = 1 THEN p.total ELSE x.TotalSegs)
      /\ b.RecvHead = x.RecvHead
      /\ Waiting(b) /\ Counted(b, 2)
  <2>1. CASE p.seg = 1
    <3>1. x \in Context /\ x.mem = "live" /\ Stopped(x) /\ Counted(x, 2)
      BY <2>1 DEF InHand, Armed
    <3>2. /\ s \in Context /\ s.mem = "live" /\ SameData(x, s) /\ s.RecvHead = x.RecvHead
          /\ Waiting(s) /\ Counted(s, 2)
      BY <3>1, StartInHand
    <3> HIDE DEF s
    <3>3. /\ f \in Context /\ f.mem = "live" /\ f.State = "active" 
          /\ f.key = s.key /\ f.ExpectedSeg = s.ExpectedSeg /\ f.WindowLast = s.WindowLast
          /\ f.TotalSegs = p.total /\ f.RecvHead = s.RecvHead
          /\ f.timer = s.timer /\ f.due = s.due
          /\ f.RefCount = s.RefCount /\ f.lost = s.lost
          /\ f.lateEnter = s.lateEnter /\ f.lateWait = s.lateWait
      BY <3>2 DEF Context, States, AllPackets, SameData
    <3> HIDE DEF f
    <3>4. Waiting(f) /\ Counted(f, 2)
      BY <3>2, <3>3 DEF Waiting, Counted, TimerHolds
    <3>5. QED
      BY <2>1, <3>2, <3>3, <3>4 DEF SameData
  <2>2. CASE p.seg # 1
    BY <2>2 DEF InHand, Armed
  <2>3. QED
    BY <2>1, <2>2
<1> HIDE DEF b
<1>3. Append(b.RecvHead, p) \in Seq(AllPackets)
  BY <1>2 DEF Context
<1>4. b.ExpectedSeg + 1 \in Nat \ {0}
  BY <1>2 DEF Context
<1>5. y \in Context
  BY <1>2, <1>3, <1>4, StoredTyped
<1>6. /\ y.mem = "live" /\ y.State = "active" /\ y.key = b.key
      /\ y.ExpectedSeg = b.ExpectedSeg + 1 /\ y.WindowLast = b.WindowLast
      /\ y.TotalSegs = b.TotalSegs /\ y.RecvHead = Append(b.RecvHead, p)
      /\ y.timer = b.timer /\ y.due = b.due
      /\ y.RefCount = b.RefCount /\ y.lost = b.lost
      /\ y.lateEnter = b.lateEnter /\ y.lateWait = b.lateWait
  BY <1>2 DEF Context
<1> HIDE DEF y
<1>7. InHand(y)
  BY <1>2, <1>5, <1>6 DEF InHand, Armed, Waiting, Counted, TimerHolds
<1>8. QED
  BY <1>1, <1>2, <1>6, <1>7

-----------------------------------------------------------------------------
\* The inductive invariant: every context is sound, and what each thread knows.

RxOf(c) == IF rx.c = c THEN rx.pc ELSE "none"
UnOf(c) == IF unload.c = c THEN unload.pc ELSE "none"

NoTwice == \A i, j \in DOMAIN recvList : recvList[i] = recvList[j] => i = j

AllSound == \A c \in Contexts : Sound(sar[c], Listed(c), RxOf(c), UnOf(c))

RxKnows ==
    /\ rx.pc \in {"idle", "new"} <=> rx.c = None
    /\ rx.pc # "idle" => rx.pkt \in AllPackets
    /\ rx.pc = "lock" /\ sar[rx.c].State = "created" =>
           rx.pkt.type = "data" /\ rx.pkt.seg = 1

UnloadKnows ==
    /\ unload.pc # "off" => rx.pc = "idle"
    /\ unload.pc \in {"stop", "unlist", "reap"} <=> unload.c # None
    /\ unload.pc = "stop" => unload.armed

Inv == TypeOK /\ NoTwice /\ AllSound /\ RxKnows /\ UnloadKnows

-----------------------------------------------------------------------------
\* The list of contexts.

LEMMA Removed ==
    ASSUME NEW S, NEW s \in Seq(S), NEW i \in 1 .. Len(s)
    PROVE  /\ RemoveAt(s, i) \in Seq(S) /\ Len(RemoveAt(s, i)) = Len(s) - 1
           /\ \A j \in 1 .. Len(s) - 1 : RemoveAt(s, i)[j] = IF j < i THEN s[j] ELSE s[j + 1]
<1> DEFINE a == SubSeq(s, 1, i - 1)
           b == SubSeq(s, i + 1, Len(s))
<1>1. Len(s) \in Nat /\ i \in Int /\ i - 1 \in Int /\ i + 1 \in Int /\ 1 \in Int
  BY LenProperties
<1>2. (\A j \in 1 .. i - 1 : s[j] \in S) /\ (\A j \in i + 1 .. Len(s) : s[j] \in S)
  BY <1>1, ElementOfSeq
<1>3. /\ a \in Seq(S) /\ Len(a) = (IF 1 <= i - 1 THEN (i - 1) - 1 + 1 ELSE 0)
      /\ \A j \in 1 .. (i - 1) - 1 + 1 : a[j] = s[1 + j - 1]
  BY <1>1, <1>2, SubSeqProperties
<1>4. /\ b \in Seq(S) /\ Len(b) = (IF i + 1 <= Len(s) THEN Len(s) - (i + 1) + 1 ELSE 0)
      /\ \A j \in 1 .. Len(s) - (i + 1) + 1 : b[j] = s[(i + 1) + j - 1]
  BY <1>1, <1>2, SubSeqProperties
<1> HIDE DEF a, b
<1>5. Len(a) = i - 1 /\ Len(b) = Len(s) - i
  BY <1>1, <1>3, <1>4
<1>6. /\ a \o b \in Seq(S) /\ Len(a \o b) = Len(a) + Len(b)
      /\ \A j \in 1 .. Len(a) + Len(b) :
            (a \o b)[j] = IF j <= Len(a) THEN a[j] ELSE b[j - Len(a)]
  BY <1>3, <1>4, ConcatProperties
<1>7. Len(a) + Len(b) = Len(s) - 1
  BY <1>1, <1>5
<1>8. ASSUME NEW j \in 1 .. Len(s) - 1
      PROVE  (a \o b)[j] = IF j < i THEN s[j] ELSE s[j + 1]
  <2>1. CASE j < i
    <3>1. (a \o b)[j] = a[j] /\ a[j] = s[1 + j - 1] /\ 1 + j - 1 = j
      BY <1>1, <1>3, <1>5, <1>6, <1>7, <2>1
    <3>2. QED
      BY <2>1, <3>1
  <2>2. CASE ~(j < i)
    <3> DEFINE h == j - Len(a)
    <3>1. h \in 1 .. Len(s) - (i + 1) + 1 /\ (i + 1) + h - 1 = j + 1
      BY <1>1, <1>5, <2>2
    <3>2. (a \o b)[j] = b[h]
      BY <1>1, <1>5, <1>6, <1>7, <2>2
    <3>3. b[h] = s[(i + 1) + h - 1]
      BY <1>4, <3>1
    <3>4. QED
      BY <2>2, <3>1, <3>2, <3>3
  <2>3. QED
    BY <2>1, <2>2
<1>9. QED
  BY <1>6, <1>7, <1>8 DEF RemoveAt, a, b

LEMMA Unlisted ==
    ASSUME NEW c \in Contexts, TypeOK, NoTwice, Unlist(c)
    PROVE  /\ recvList' \in Seq(Contexts) /\ NoTwice'
           /\ Listed(c) /\ ~Listed(c)'
           /\ \A d \in Contexts \ {c} : Listed(d)' <=> Listed(d)
<1>1. recvList \in Seq(Contexts)
  BY DEF TypeOK
<1>2. DOMAIN recvList = 1 .. Len(recvList) /\ Len(recvList) \in Nat
  BY <1>1, LenProperties
<1>3. PICK i \in 1 .. Len(recvList) :
        recvList[i] = c /\ recvList' = RemoveAt(recvList, i)
  BY <1>2 DEF Unlist
<1>4. /\ recvList' \in Seq(Contexts) /\ Len(recvList') = Len(recvList) - 1
      /\ \A j \in 1 .. Len(recvList) - 1 :
            recvList'[j] = IF j < i THEN recvList[j] ELSE recvList[j + 1]
  BY <1>1, <1>3, Removed
<1>5. DOMAIN recvList' = 1 .. Len(recvList) - 1
  BY <1>4, LenProperties
<1>6. \A j, k \in 1 .. Len(recvList) : recvList[j] = recvList[k] => j = k
  BY <1>2 DEF NoTwice
<1>7. NoTwice'
  BY <1>2, <1>4, <1>5, <1>6 DEF NoTwice
<1>8. Listed(c)
  BY <1>2, <1>3 DEF Listed
<1>9. ~Listed(c)'
  BY <1>2, <1>3, <1>4, <1>5, <1>6 DEF Listed
<1>10. ASSUME NEW d \in Contexts \ {c}
       PROVE  Listed(d)' <=> Listed(d)
  <2>1. ASSUME Listed(d)'
        PROVE  Listed(d)
    <3>1. PICK k \in 1 .. Len(recvList) - 1 : recvList'[k] = d
      BY <1>5, <2>1 DEF Listed
    <3>2. /\ k \in 1 .. Len(recvList) /\ k + 1 \in 1 .. Len(recvList)
          /\ recvList[k] = d \/ recvList[k + 1] = d
      BY <1>2, <1>4, <3>1
    <3>3. QED
      BY <1>2, <3>2 DEF Listed
  <2>2. ASSUME Listed(d)
        PROVE  Listed(d)'
    <3>1. PICK k \in 1 .. Len(recvList) : recvList[k] = d
      BY <1>2, <2>2 DEF Listed
    <3>2. k # i
      BY <1>3, <3>1
    <3>3. CASE k < i
      <4>1. k \in 1 .. Len(recvList) - 1 /\ recvList'[k] = d
        BY <1>2, <1>4, <3>1, <3>3
      <4>2. QED
        BY <1>5, <4>1 DEF Listed
    <3>4. CASE k > i
      <4>1. /\ k - 1 \in 1 .. Len(recvList) - 1 /\ ~(k - 1 < i) /\ (k - 1) + 1 = k
        BY <1>2, <3>4
      <4>2. recvList'[k - 1] = d
        BY <1>4, <3>1, <4>1
      <4>3. QED
        BY <1>5, <4>1, <4>2 DEF Listed
    <3>5. QED
      BY <1>2, <3>2, <3>3, <3>4
  <2>3. QED
    BY <2>1, <2>2
<1>11. QED
  BY <1>4, <1>7, <1>8, <1>9, <1>10

LEMMA Inserted ==
    ASSUME NEW c \in Contexts, TypeOK, NoTwice, ~Listed(c), recvList' = <<c>> \o recvList
    PROVE  /\ recvList' \in Seq(Contexts) /\ NoTwice' /\ Listed(c)'
           /\ \A d \in Contexts \ {c} : Listed(d)' <=> Listed(d)
<1>1. recvList \in Seq(Contexts) /\ <<c>> \in Seq(Contexts)
  BY DEF TypeOK
<1>2. DOMAIN recvList = 1 .. Len(recvList) /\ Len(recvList) \in Nat
  BY <1>1, LenProperties
<1>3. Len(<<c>>) = 1 /\ <<c>>[1] = c
  OBVIOUS
<1>4. /\ recvList' \in Seq(Contexts) /\ Len(recvList') = 1 + Len(recvList)
      /\ \A j \in 1 .. 1 + Len(recvList) :
            recvList'[j] = IF j <= 1 THEN <<c>>[j] ELSE recvList[j - 1]
  BY <1>1, <1>3, ConcatProperties
<1>5. DOMAIN recvList' = 1 .. 1 + Len(recvList)
  BY <1>4, LenProperties
<1>6. recvList'[1] = c /\ \A j \in 2 .. 1 + Len(recvList) : recvList'[j] = recvList[j - 1]
  BY <1>2, <1>3, <1>4
<1>7. \A j \in 1 .. Len(recvList) : recvList[j] # c
  BY <1>2 DEF Listed
<1>8. \A j, k \in 1 .. Len(recvList) : recvList[j] = recvList[k] => j = k
  BY <1>2 DEF NoTwice
<1>9. NoTwice'
  <2>1. SUFFICES ASSUME NEW j \in 1 .. 1 + Len(recvList), NEW k \in 1 .. 1 + Len(recvList),
                        recvList'[j] = recvList'[k]
                 PROVE  j = k
    BY <1>5 DEF NoTwice
  <2>2. CASE j = 1 \/ k = 1
    BY <1>2, <1>6, <1>7, <2>1, <2>2
  <2>3. CASE j # 1 /\ k # 1
    <3>1. j - 1 \in 1 .. Len(recvList) /\ k - 1 \in 1 .. Len(recvList)
      BY <1>2, <2>3
    <3>2. recvList[j - 1] = recvList[k - 1]
      BY <1>2, <1>6, <2>1, <2>3
    <3>3. QED
      BY <1>8, <3>1, <3>2
  <2>4. QED
    BY <2>2, <2>3
<1>10. Listed(c)'
  BY <1>2, <1>5, <1>6 DEF Listed
<1>11. ASSUME NEW d \in Contexts \ {c}
       PROVE  Listed(d)' <=> Listed(d)
  <2>1. ASSUME Listed(d)'
        PROVE  Listed(d)
    <3>1. PICK k \in 1 .. 1 + Len(recvList) : recvList'[k] = d
      BY <1>5, <2>1 DEF Listed
    <3>2. k - 1 \in 1 .. Len(recvList) /\ recvList[k - 1] = d
      BY <1>2, <1>6, <3>1
    <3>3. QED
      BY <1>2, <3>2 DEF Listed
  <2>2. ASSUME Listed(d)
        PROVE  Listed(d)'
    <3>1. PICK k \in 1 .. Len(recvList) : recvList[k] = d
      BY <1>2, <2>2 DEF Listed
    <3>2. k + 1 \in 1 .. 1 + Len(recvList) /\ recvList'[k + 1] = d
      BY <1>2, <1>6, <3>1
    <3>3. QED
      BY <1>5, <3>2 DEF Listed
  <2>3. QED
    BY <2>1, <2>2
<1>12. QED
  BY <1>4, <1>9, <1>10, <1>11

-----------------------------------------------------------------------------
\* A step changes one context.

LEMMA SoundSame ==
    \A x, l, m, r, u : (l <=> m) /\ Sound(x, l, r, u) => Sound(x, m, r, u)
BY DEF Sound, Staged, Others

LEMMA Touch ==
    ASSUME NEW c \in Contexts, NEW y, TypeOK, AllSound, sar' = [sar EXCEPT ![c] = y],
           Sound(y, Listed(c)', RxOf(c)', UnOf(c)'),
           \A d \in Contexts \ {c} : /\ Listed(d)' <=> Listed(d)
                                     /\ RxOf(d)' = RxOf(d) /\ UnOf(d)' = UnOf(d)
    PROVE  AllSound'
<1>1. SUFFICES ASSUME NEW d \in Contexts
               PROVE  Sound(sar'[d], Listed(d)', RxOf(d)', UnOf(d)')
  BY DEF AllSound
<1>2. CASE d = c
  <2>1. sar'[d] = y
    BY <1>2 DEF TypeOK
  <2>2. QED
    BY <1>2, <2>1
<1>3. CASE d # c
  <2>1. sar'[d] = sar[d]
    BY <1>3 DEF TypeOK
  <2>2. Sound(sar[d], Listed(d), RxOf(d), UnOf(d))
    BY DEF AllSound
  <2>3. Sound(sar[d], Listed(d)', RxOf(d), UnOf(d))
    BY <1>3, <2>2, SoundSame
  <2>4. QED
    BY <1>3, <2>1, <2>3
<1>4. QED
  BY <1>2, <1>3

\* The list and the threads stay where they are.
LEMMA TouchOnly ==
    ASSUME NEW c \in Contexts, NEW y, TypeOK, AllSound, sar' = [sar EXCEPT ![c] = y],
           UNCHANGED <<recvList, rx, unload>>,
           Sound(y, Listed(c), RxOf(c), UnOf(c))
    PROVE  AllSound'
<1>1. \A d : /\ Listed(d)' <=> Listed(d)
             /\ RxOf(d)' = RxOf(d) /\ UnOf(d)' = UnOf(d)
  BY DEF Listed, RxOf, UnOf
<1>2. Sound(y, Listed(c)', RxOf(c)', UnOf(c)')
  BY <1>1, SoundSame
<1>3. QED
  BY <1>1, <1>2, Touch

\* Nothing is changed but the threads, which are with no context.
LEMMA TouchNone ==
    ASSUME TypeOK, AllSound, sar' = sar, recvList' = recvList,
           \A d \in Contexts : RxOf(d)' = RxOf(d) /\ UnOf(d)' = UnOf(d)
    PROVE  AllSound'
<1>1. \A d : Listed(d)' <=> Listed(d)
  BY DEF Listed
<1>2. SUFFICES ASSUME NEW d \in Contexts
               PROVE  Sound(sar'[d], Listed(d)', RxOf(d)', UnOf(d)')
  BY DEF AllSound
<1>3. Sound(sar[d], Listed(d), RxOf(d), UnOf(d))
  BY DEF AllSound
<1>4. Sound(sar[d], Listed(d)', RxOf(d), UnOf(d))
  BY <1>1, <1>3, SoundSame
<1>5. QED
  BY <1>4

-----------------------------------------------------------------------------
\* The timer of a context and its callbacks.

\* A context that somebody holds is live.
LEMMA HeldIsLive ==
    ASSUME NEW x \in Context, NEW l, NEW r, NEW u, Sound(x, l, r, u),
           \/ l \/ r # "none" \/ u # "none"
           \/ x.timer = "on" \/ x.due # "none" \/ x.lateEnter > 0 \/ x.lateWait > 0
    PROVE  x.mem = "live" /\ Staged(x, l, r, u)
<1>1. x.lateEnter \in Nat /\ x.lateWait \in Nat
  BY DEF Context
<1>2. CASE l \/ r # "none" \/ u # "none"
  <2>1. Others(l, r, u) # 0
    BY <1>2, OthersNat
  <2>2. QED
    BY <2>1 DEF Sound, Counted
<1>3. CASE x.timer = "on" \/ x.due # "none" \/ x.lateEnter > 0 \/ x.lateWait > 0
  <2> DEFINE a == One(x.timer = "on")
             b == One(x.due # "none")
  <2>a. a \in {0, 1} /\ b \in {0, 1}
    BY DEF One
  <2>b. (x.timer = "on" => a = 1) /\ (x.due # "none" => b = 1)
    BY DEF One
  <2>c. TimerHolds(x) = a + b + x.lateEnter + x.lateWait
    BY DEF TimerHolds
  <2> HIDE DEF a, b
  <2>d. a \in Nat /\ b \in Nat /\ a + b + x.lateEnter + x.lateWait > 0
    BY <1>1, <1>3, <2>a, <2>b
  <2>1. TimerHolds(x) # 0
    BY <1>1, <2>c, <2>d
  <2>2. QED
    BY <2>1 DEF Sound, Counted
<1>4. QED
  BY <1>2, <1>3

\* The callback or the timer goes on, and gives up lost references for good.
LEMMA OnItsWay ==
    ASSUME NEW x \in Context, NEW y \in Context, NEW l, NEW r, NEW u, Sound(x, l, r, u),
           x.mem = "live", y.mem = "live", y.RefCount = x.RefCount,
           TimerHolds(y) + y.lost = TimerHolds(x) + x.lost, Staged(y, l, r, u)
    PROVE  Sound(y, l, r, u)
<1>1. /\ TimerHolds(x) \in Nat /\ TimerHolds(y) \in Nat
      /\ x.lost \in Nat /\ y.lost \in Nat /\ Others(l, r, u) \in Nat
  BY HoldsNat, OthersNat DEF Context
<1>2. x.RefCount = Others(l, r, u) + TimerHolds(x) + x.lost /\ x.RefCount > 0
  BY DEF Sound, Counted
<1>3. y.RefCount = Others(l, r, u) + TimerHolds(y) + y.lost
  <2> DEFINE o == Others(l, r, u)
             s == TimerHolds(x)
             t == TimerHolds(y)
  <2>1. /\ s \in Nat /\ t \in Nat /\ o \in Nat /\ t + y.lost = s + x.lost
        /\ x.RefCount = o + s + x.lost
    BY <1>1, <1>2
  <2> HIDE DEF o, s, t
  <2>2. y.RefCount = o + t + y.lost
    BY <1>1, <2>1
  <2>3. QED
    BY <2>2 DEF o, t
<1>4. Counted(y, Others(l, r, u))
  BY <1>2, <1>3 DEF Counted
<1>5. QED
  BY <1>4 DEF Sound

LEMMA FireSound ==
    ASSUME NEW x \in Context, NEW l, NEW r, NEW u, Sound(x, l, r, u), x.timer = "on"
    PROVE  LET y == [x EXCEPT !.timer = "fired", !.due = "enter"]
           IN  y \in Context /\ y.State = x.State /\ Sound(y, l, r, u)
<1> DEFINE y == [x EXCEPT !.timer = "fired", !.due = "enter"]
<1>1. x.mem = "live" /\ Staged(x, l, r, u)
  BY HeldIsLive
<1>2. x.due = "none" /\ x.State \in {"active", "timewait", "timewait_recv", "destroy"}
  BY <1>1 DEF Staged, Armed, Waiting, Stopped, Context, States
<1>3. /\ y \in Context /\ y.mem = x.mem /\ y.State = x.State
      /\ y.ExpectedSeg = x.ExpectedSeg
      /\ y.RefCount = x.RefCount /\ y.lost = x.lost
      /\ y.timer = "fired" /\ y.due = "enter"
      /\ y.lateEnter = x.lateEnter /\ y.lateWait = x.lateWait
      /\ x.lateEnter \in Nat /\ x.lateWait \in Nat
  BY DEF Context
<1> HIDE DEF y
<1>4. Staged(y, l, r, u)
  BY <1>1, <1>2, <1>3 DEF Staged, Armed, Waiting
<1>5. TimerHolds(y) = TimerHolds(x)
  BY <1>2, <1>3 DEF TimerHolds, One
<1>6. Sound(y, l, r, u)
  BY <1>1, <1>3, <1>4, <1>5, OnItsWay
<1>7. QED
  BY <1>3, <1>6 DEF y

LEMMA EnterSound ==
    ASSUME NEW x \in Context, NEW l, NEW r, NEW u, Sound(x, l, r, u), x.due = "enter"
    PROVE  LET y == Entered(x)
           IN  y \in Context /\ y.State = x.State /\ Sound(y, l, r, u)
<1>1. x.mem = "live" /\ Staged(x, l, r, u)
  BY HeldIsLive
<1>2. CASE x.State = "destroy"
  <2> DEFINE y == [x EXCEPT !.due = "none", !.lost = @ + 1]
  <2>1. x.lost \in Nat /\ x.lost + 1 \in Nat /\ x.lateEnter \in Nat /\ x.lateWait \in Nat
    BY DEF Context
  <2>2. /\ y \in Context /\ y.mem = x.mem /\ y.State = x.State
        /\ y.ExpectedSeg = x.ExpectedSeg
        /\ y.RefCount = x.RefCount /\ y.lost = x.lost + 1
        /\ y.timer = x.timer /\ y.due = "none"
        /\ y.lateEnter = x.lateEnter /\ y.lateWait = x.lateWait
    BY <2>1 DEF Context
  <2> HIDE DEF y
  <2>3. Staged(y, l, r, u)
    BY <1>1, <1>2, <2>2 DEF Staged, Armed
  <2>4. TimerHolds(y) + y.lost = TimerHolds(x) + x.lost
    BY <2>1, <2>2 DEF TimerHolds, One
  <2>5. Sound(y, l, r, u)
    BY <1>1, <2>2, <2>3, <2>4, OnItsWay
  <2>6. QED
    BY <1>2, <2>2, <2>5 DEF y, Entered
<1>3. CASE x.State # "destroy"
  <2> DEFINE y == [x EXCEPT !.due = "wait"]
  <2>1. x.lost \in Nat /\ x.lateEnter \in Nat /\ x.lateWait \in Nat
    BY DEF Context
  <2>2. /\ y \in Context /\ y.mem = x.mem /\ y.State = x.State
        /\ y.ExpectedSeg = x.ExpectedSeg
        /\ y.RefCount = x.RefCount /\ y.lost = x.lost
        /\ y.timer = x.timer /\ y.due = "wait"
        /\ y.lateEnter = x.lateEnter /\ y.lateWait = x.lateWait
    BY DEF Context
  <2> HIDE DEF y
  <2>3. Staged(y, l, r, u)
    BY <1>1, <1>3, <2>2 DEF Staged, Armed, Waiting, Stopped
  <2>4. TimerHolds(y) + y.lost = TimerHolds(x) + x.lost
    BY <2>1, <2>2 DEF TimerHolds, One
  <2>5. Sound(y, l, r, u)
    BY <1>1, <2>2, <2>3, <2>4, OnItsWay
  <2>6. QED
    BY <1>3, <2>2, <2>5 DEF y, Entered
<1>4. QED
  BY <1>2, <1>3

LEMMA LateEnterSound ==
    ASSUME NEW x \in Context, NEW l, NEW r, NEW u, Sound(x, l, r, u), x.lateEnter > 0
    PROVE  LET y == EnteredLate(x)
           IN  y \in Context /\ y.State = x.State /\ Sound(y, l, r, u)
<1>1. x.mem = "live" /\ Staged(x, l, r, u)
  BY HeldIsLive
<1>2. /\ x.lost \in Nat /\ x.lateEnter \in Nat /\ x.lateWait \in Nat
      /\ x.lost + 1 \in Nat /\ x.lateEnter - 1 \in Nat /\ x.lateWait + 1 \in Nat
  BY DEF Context
<1> DEFINE a == [x EXCEPT !.lateEnter = @ - 1, !.lost = @ + 1]
           b == [x EXCEPT !.lateEnter = @ - 1, !.lateWait = @ + 1]
           y == IF x.State = "destroy" THEN a ELSE b
<1>3. /\ y \in Context /\ y.mem = x.mem /\ y.State = x.State
      /\ y.ExpectedSeg = x.ExpectedSeg
      /\ y.RefCount = x.RefCount
      /\ y.timer = x.timer /\ y.due = x.due /\ y.lateEnter = x.lateEnter - 1
      /\ \/ y.lost = x.lost + 1 /\ y.lateWait = x.lateWait
         \/ y.lost = x.lost /\ y.lateWait = x.lateWait + 1
  <2>1. CASE x.State = "destroy"
    BY <1>2, <2>1 DEF Context
  <2>2. CASE x.State # "destroy"
    BY <1>2, <2>2 DEF Context
  <2>3. QED
    BY <2>1, <2>2
<1> HIDE DEF y
<1>4. Staged(y, l, r, u)
  BY <1>1, <1>3 DEF Staged, Armed, Waiting, Stopped
<1>5. TimerHolds(y) + y.lost = TimerHolds(x) + x.lost
  BY <1>2, <1>3 DEF TimerHolds, One
<1>6. Sound(y, l, r, u)
  BY <1>1, <1>3, <1>4, <1>5, OnItsWay
<1>7. QED
  BY <1>3, <1>6 DEF y, EnteredLate

\* A callback gives its reference back.
LEMMA GivesBack ==
    ASSUME NEW x \in Context, NEW y \in Context, NEW l, NEW m, NEW r, NEW u,
           Sound(x, l, r, u), x.mem = "live",
           y.RefCount = x.RefCount - 1, y.lost = x.lost,
           y.mem = IF x.RefCount = 1 THEN "reap" ELSE "live",
           Others(m, r, u) + TimerHolds(y) = Others(l, r, u) + TimerHolds(x) - 1,
           Staged(y, m, r, u)
    PROVE  Sound(y, m, r, u)
<1>1. Counted(x, Others(l, r, u))
  BY DEF Sound
<1>2. Counted(y, Others(m, r, u))
  BY <1>1, OthersNat, CountedDown
<1>3. QED
  BY <1>2 DEF Sound

LEMMA StaleSound ==
    ASSUME NEW x \in Context, NEW l, NEW r, NEW u, Sound(x, l, r, u), x.lateWait > 0
    PROVE  LET y == Returned(x)
           IN  y \in Context /\ y.State = x.State /\ Sound(y, l, r, u)
<1> DEFINE o == [x EXCEPT !.lateWait = @ - 1]
           y == Decrement(o)
<1>1. x.mem = "live" /\ Staged(x, l, r, u)
  BY HeldIsLive
<1>2. /\ x.lateEnter \in Nat /\ x.lateWait \in Nat /\ x.lateWait - 1 \in Nat
  BY DEF Context
<1>3. /\ o \in Context /\ o.mem = x.mem /\ o.State = x.State
      /\ o.ExpectedSeg = x.ExpectedSeg
      /\ o.RefCount = x.RefCount /\ o.lost = x.lost
      /\ o.timer = x.timer /\ o.due = x.due
      /\ o.lateEnter = x.lateEnter /\ o.lateWait = x.lateWait - 1
  BY <1>2 DEF Context
<1> HIDE DEF o
<1>4. /\ y \in Context /\ y.mem = IF x.RefCount = 1 THEN "reap" ELSE "live"
      /\ y.RefCount = x.RefCount - 1 /\ y.lost = x.lost
      /\ y.State = x.State /\ y.ExpectedSeg = x.ExpectedSeg
      /\ y.timer = x.timer /\ y.due = x.due
      /\ y.lateEnter = x.lateEnter /\ y.lateWait = x.lateWait - 1
  BY <1>1, <1>3, Decremented DEF SameData
<1> HIDE DEF y
<1>5. Staged(y, l, r, u)
  BY <1>1, <1>4 DEF Staged, Armed, Waiting, Stopped
<1>6. TimerHolds(y) = TimerHolds(x) - 1
  BY <1>2, <1>4 DEF TimerHolds, One
<1>7. Others(l, r, u) + TimerHolds(y) = Others(l, r, u) + TimerHolds(x) - 1
  BY <1>6, HoldsNat, OthersNat
<1>8. Sound(y, l, r, u)
  BY <1>1, <1>4, <1>5, <1>7, GivesBack
<1>9. QED
  BY <1>4, <1>8 DEF o, y, Returned

LEMMA ExpireSound ==
    ASSUME NEW x \in Context, NEW l, NEW r, NEW u, Sound(x, l, r, u),
           x.due = "wait", x.State # "destroy"
    PROVE  LET y == [Destroy(x) EXCEPT !.due = "unlist"]
           IN  y \in Context /\ y.State = "destroy" /\ Sound(y, l, r, u)
<1> DEFINE y == [Destroy(x) EXCEPT !.due = "unlist"]
<1>1. x.mem = "live" /\ Staged(x, l, r, u)
  BY HeldIsLive
<1>2. x.State \in Armed
  BY <1>1 DEF Staged, Armed, Stopped, Context, States
<1>3. <<>> \in Seq(AllPackets)
  BY EmptySeq
<1>4. /\ y \in Context /\ y.mem = x.mem /\ y.State = "destroy"
      /\ y.RefCount = x.RefCount /\ y.lost = x.lost
      /\ y.timer = x.timer /\ y.due = "unlist"
      /\ y.lateEnter = x.lateEnter /\ y.lateWait = x.lateWait
      /\ x.lost \in Nat /\ x.lateEnter \in Nat /\ x.lateWait \in Nat
  BY <1>3 DEF Destroy, Context, States
<1> HIDE DEF y
<1>5. Staged(y, l, r, u)
  BY <1>1, <1>2, <1>4 DEF Staged, Armed, Waiting
<1>6. TimerHolds(y) + y.lost = TimerHolds(x) + x.lost
  BY <1>4 DEF TimerHolds, One
<1>7. Sound(y, l, r, u)
  BY <1>1, <1>4, <1>5, <1>6, OnItsWay
<1>8. QED
  BY <1>4, <1>7 DEF y

\* What both of the last steps of RmppReceiverTimerCallback do.
LEMMA DueGivesBack ==
    ASSUME NEW x \in Context, NEW d \in {"none", "drop"}, x.mem = "live", x.due # "none"
    PROVE  LET y == Decrement([x EXCEPT !.due = d])
           IN  /\ y \in Context /\ y.mem = (IF x.RefCount = 1 THEN "reap" ELSE "live")
               /\ y.RefCount = x.RefCount - 1 /\ y.lost = x.lost
               /\ y.State = x.State /\ y.ExpectedSeg = x.ExpectedSeg
               /\ y.timer = x.timer /\ y.due = d
               /\ TimerHolds(y) = IF d = "none" THEN TimerHolds(x) - 1 ELSE TimerHolds(x)
<1> DEFINE o == [x EXCEPT !.due = d]
           y == Decrement(o)
<1>1. /\ o \in Context /\ o.mem = x.mem /\ o.State = x.State
      /\ o.ExpectedSeg = x.ExpectedSeg
      /\ o.RefCount = x.RefCount /\ o.lost = x.lost
      /\ o.timer = x.timer /\ o.due = d
      /\ o.lateEnter = x.lateEnter /\ o.lateWait = x.lateWait
      /\ x.lateEnter \in Nat /\ x.lateWait \in Nat
  BY DEF Context
<1> HIDE DEF o
<1>2. /\ y \in Context /\ y.mem = (IF x.RefCount = 1 THEN "reap" ELSE "live")
      /\ y.RefCount = x.RefCount - 1 /\ y.lost = x.lost
      /\ y.State = x.State /\ y.ExpectedSeg = x.ExpectedSeg
      /\ y.timer = x.timer /\ y.due = d
      /\ y.lateEnter = x.lateEnter /\ y.lateWait = x.lateWait
  BY <1>1, Decremented DEF SameData
<1> HIDE DEF y
<1>3. TimerHolds(y) = IF d = "none" THEN TimerHolds(x) - 1 ELSE TimerHolds(x)
  BY <1>1, <1>2 DEF TimerHolds, One
<1>4. QED
  BY <1>2, <1>3 DEF o, y

LEMMA ExpireUnlistSound ==
    ASSUME NEW x \in Context, NEW r, NEW u, Sound(x, TRUE, r, u), x.due = "unlist"
    PROVE  LET y == Decrement([x EXCEPT !.due = "drop"])
           IN  y \in Context /\ y.State = x.State /\ Sound(y, FALSE, r, u)
<1> DEFINE y == Decrement([x EXCEPT !.due = "drop"])
<1>1. x.mem = "live" /\ Staged(x, TRUE, r, u)
  BY HeldIsLive
<1>2. /\ y \in Context /\ y.mem = (IF x.RefCount = 1 THEN "reap" ELSE "live")
      /\ y.RefCount = x.RefCount - 1 /\ y.lost = x.lost
      /\ y.State = x.State /\ y.ExpectedSeg = x.ExpectedSeg
      /\ y.timer = x.timer /\ y.due = "drop" /\ TimerHolds(y) = TimerHolds(x)
  BY <1>1, DueGivesBack
<1> HIDE DEF y
<1>3. x.State = "destroy"
  BY <1>1 DEF Staged, Armed, Waiting, Stopped, Context, States
<1>4. Staged(y, FALSE, r, u)
  BY <1>1, <1>2, <1>3 DEF Staged, Armed
<1>5. Others(FALSE, r, u) + TimerHolds(y) = Others(TRUE, r, u) + TimerHolds(x) - 1
  <2> DEFINE a == Others(TRUE, r, u)
             b == Others(FALSE, r, u)
  <2>1. a \in Nat /\ b \in Nat /\ a = b + 1
    BY DEF Others
  <2> HIDE DEF a, b
  <2>2. b + TimerHolds(y) = a + TimerHolds(x) - 1
    BY <1>2, <2>1, HoldsNat
  <2>3. QED
    BY <2>2 DEF a, b
<1>6. Sound(y, FALSE, r, u)
  BY <1>1, <1>2, <1>4, <1>5, GivesBack
<1>7. QED
  BY <1>2, <1>6 DEF y

LEMMA ExpireDropSound ==
    ASSUME NEW x \in Context, NEW l, NEW r, NEW u, Sound(x, l, r, u),
           x.due = "drop" \/ (x.due = "wait" /\ x.State = "destroy")
    PROVE  LET y == Decrement([x EXCEPT !.due = "none"])
           IN  y \in Context /\ y.State = x.State /\ Sound(y, l, r, u)
<1> DEFINE y == Decrement([x EXCEPT !.due = "none"])
<1>1. x.mem = "live" /\ Staged(x, l, r, u)
  BY HeldIsLive
<1>2. /\ y \in Context /\ y.mem = (IF x.RefCount = 1 THEN "reap" ELSE "live")
      /\ y.RefCount = x.RefCount - 1 /\ y.lost = x.lost
      /\ y.State = x.State /\ y.ExpectedSeg = x.ExpectedSeg
      /\ y.timer = x.timer /\ y.due = "none" /\ TimerHolds(y) = TimerHolds(x) - 1
  BY <1>1, DueGivesBack
<1> HIDE DEF y
<1>3. x.State = "destroy"
  BY <1>1 DEF Staged, Armed, Waiting, Stopped, Context, States
<1>4. Staged(y, l, r, u)
  BY <1>1, <1>2, <1>3 DEF Staged, Armed
<1>5. Others(l, r, u) + TimerHolds(y) = Others(l, r, u) + TimerHolds(x) - 1
  BY <1>2, HoldsNat, OthersNat
<1>6. Sound(y, l, r, u)
  BY <1>1, <1>2, <1>4, <1>5, GivesBack
<1>7. QED
  BY <1>2, <1>6 DEF y

-----------------------------------------------------------------------------
\* The unloader.

LEMMA UnloadDestroySound ==
    ASSUME NEW x \in Context, Sound(x, TRUE, "none", "none"), x.State # "destroy"
    PROVE  LET y == Destroy(Increment(x))
           IN  /\ y \in Context /\ x.State \in Armed
               /\ y.State = "destroy" /\ Sound(y, TRUE, "none", "stop")
<1> DEFINE y == Destroy(Increment(x))
<1>1. x.mem = "live" /\ Staged(x, TRUE, "none", "none")
  BY HeldIsLive
<1>2. x.State \in Armed
  BY <1>1 DEF Staged, Armed, Context, States
<1>3. <<>> \in Seq(AllPackets) /\ x.RefCount \in Int /\ x.RefCount + 1 \in Int
  BY EmptySeq DEF Context
<1>4. /\ y \in Context /\ y.mem = x.mem /\ y.State = "destroy"
      /\ y.RefCount = x.RefCount + 1 /\ y.lost = x.lost
      /\ y.timer = x.timer /\ y.due = x.due
      /\ y.lateEnter = x.lateEnter /\ y.lateWait = x.lateWait
      /\ x.lost \in Nat /\ x.lateEnter \in Nat /\ x.lateWait \in Nat
  BY <1>3 DEF Destroy, Increment, Context, States
<1> HIDE DEF y
<1>5. Staged(y, TRUE, "none", "stop")
  BY <1>1, <1>2, <1>4 DEF Staged, Armed, Waiting
<1>6. TimerHolds(y) = TimerHolds(x) /\ TimerHolds(x) \in Nat
  BY <1>4, HoldsNat DEF TimerHolds
<1>7. Others(TRUE, "none", "none") = 1 /\ Others(TRUE, "none", "stop") = 2
  BY DEF Others
<1>8. Counted(x, 1)
  BY <1>7 DEF Sound
<1>9. Counted(y, 2)
  BY <1>1, <1>3, <1>4, <1>6, <1>8 DEF Counted
<1>10. Sound(y, TRUE, "none", "stop")
  BY <1>1, <1>4, <1>5, <1>7, <1>9 DEF Sound
<1>11. QED
  BY <1>2, <1>4, <1>10 DEF y

LEMMA UnloadStopSound ==
    ASSUME NEW x \in Context, Sound(x, TRUE, "none", "stop")
    PROVE  LET y == StopTimer(x)
           IN  /\ y \in Context /\ y.State = x.State
               /\ Sound(y, TRUE, "none", "unlist")
<1> DEFINE y == StopTimer(x)
           z == [x EXCEPT !.State = "active"]
<1>1. x.mem = "live" /\ Staged(x, TRUE, "none", "stop")
  BY HeldIsLive
<1>2. x.State = "destroy"
  BY <1>1 DEF Staged, Armed, Context, States
<1>3. /\ x.timer \in {"on", "fired"} /\ (x.timer = "on" => x.due = "none")
      /\ x.due \in {"none", "enter", "wait"}
      /\ x.lateEnter \in Nat /\ x.lateWait \in Nat /\ x.RefCount \in Int /\ x.lost \in Nat
  BY <1>1, <1>2 DEF Staged, Context
<1>4. Others(TRUE, "none", "stop") = 2 /\ Others(TRUE, "none", "unlist") = 2
  BY DEF Others
<1>5. Counted(x, 2)
  BY <1>4 DEF Sound
<1>6. CASE x.timer = "fired"
  <2> DEFINE e == IF x.due = "enter" THEN x.lateEnter + 1 ELSE x.lateEnter
             w == IF x.due = "wait" THEN x.lateWait + 1 ELSE x.lateWait
  <2>1. y = [x EXCEPT !.due = "none", !.lateEnter = e, !.lateWait = w]
    BY <1>6 DEF StopTimer
  <2>2. /\ e \in Nat /\ w \in Nat
        /\ e + w = x.lateEnter + x.lateWait + (IF x.due = "none" THEN 0 ELSE 1)
    BY <1>3
  <2> HIDE DEF e, w, y
  <2>3. y \in Context
    BY <2>1, <2>2, CallbackTyped
  <2>4. /\ y.mem = "live" /\ y.State = x.State /\ y.timer = "fired" /\ y.due = "none"
        /\ y.RefCount = x.RefCount /\ y.lost = x.lost
        /\ y.lateEnter = e /\ y.lateWait = w
    BY <1>1, <1>6, <2>1 DEF Context
  <2>5. TimerHolds(y) = TimerHolds(x)
    BY <1>3, <1>6, <2>2, <2>4 DEF TimerHolds, One
  <2>6. Counted(y, 2)
    BY <1>1, <1>5, <2>4, <2>5 DEF Counted
  <2>7. Staged(y, TRUE, "none", "unlist")
    BY <1>2, <2>4 DEF Staged, Armed
  <2>8. QED
    BY <1>4, <2>3, <2>4, <2>6, <2>7 DEF Sound, y
<1>7. CASE x.timer = "on"
  <2> DEFINE o == [x EXCEPT !.timer = "off"]
  <2>1. o \in Context
    BY TimerTyped
  <2>2. /\ o.mem = "live" /\ o.State = x.State /\ o.timer = "off" /\ o.due = "none"
        /\ o.RefCount = x.RefCount /\ o.lost = x.lost
        /\ o.lateEnter = x.lateEnter /\ o.lateWait = x.lateWait
    BY <1>1, <1>3, <1>7 DEF Context
  <2>3. y = Decrement(o)
    BY <1>7 DEF StopTimer
  <2> HIDE DEF o, y
  <2>4. /\ y \in Context /\ y.mem = (IF x.RefCount = 1 THEN "reap" ELSE "live")
        /\ y.State = x.State /\ y.timer = "off" /\ y.due = "none"
        /\ y.RefCount = x.RefCount - 1 /\ y.lost = x.lost
        /\ y.lateEnter = x.lateEnter /\ y.lateWait = x.lateWait
    BY <2>1, <2>2, <2>3, Decremented
  <2>5. TimerHolds(x) = TimerHolds(y) + 1 /\ TimerHolds(y) \in Nat
    BY <1>3, <1>7, <2>4, HoldsNat DEF TimerHolds, One
  <2>6. 2 + TimerHolds(y) = 2 + TimerHolds(x) - 1
    BY <2>5
  <2>7. Counted(y, 2)
    BY <1>1, <1>5, <2>4, <2>6, CountedDown
  <2>8. Staged(y, TRUE, "none", "unlist")
    BY <1>2, <2>4 DEF Staged, Armed
  <2>9. y.mem # "free"
    BY <2>4
  <2>10. QED
    BY <1>4, <2>4, <2>7, <2>8, <2>9 DEF Sound, y
<1>8. QED
  BY <1>3, <1>6, <1>7

LEMMA FreshSound ==
    /\ Unused \in Context
    /\ \A l, r, u : ~l /\ r = "none" /\ u = "none" => Sound(Unused, l, r, u)
<1>1. <<>> \in Seq(AllPackets)
  BY EmptySeq
<1>2. Unused \in Context
  BY <1>1 DEF Unused, Context, States
<1>3. Unused.mem = "free" /\ TimerHolds(Unused) = 0
  BY DEF Unused, TimerHolds, One
<1>4. \A l, r, u : ~l /\ r = "none" /\ u = "none" => Others(l, r, u) = 0
  BY DEF Others
<1>5. QED
  BY <1>2, <1>3, <1>4 DEF Sound, Counted

-----------------------------------------------------------------------------
\* What a thread finds.

Replies ==
    [key : Keys \cup {None}, type : {"none", "ack", "abort", "stop"}, seg : Nat, wl : Nat]

Rxs ==
    [pc : {"idle", "new", "lock", "unlist", "drop"}, pkt : AllPackets \cup {None},
     c : Contexts \cup {None}, status : {"none", "reject", "pending", "completed"},
     list : Seq(AllPackets)]

LEMMA Typed ==
    TypeOK <=> /\ message \in [Keys -> Shapes] /\ sar \in [Contexts -> Context]
               /\ recvList \in Seq(Contexts) /\ rx \in Rxs
               /\ unload \in [pc : {"off", "scan", "stop", "unlist", "reap", "done"},
                              c : Contexts \cup {None}, armed : BOOLEAN]
               /\ reply \in Replies /\ given \subseteq Keys /\ out \in Int /\ packets \in Nat
BY DEF TypeOK, Replies, Rxs

LEMMA AnswerTyped ==
    \A k \in Keys \cup {None} : \A t \in {"ack", "abort", "stop"} : Answer(k, t) \in Replies
BY DEF Answer, Replies

LEMMA AckTyped ==
    \A x \in Context : Ack(x) \in Replies
BY DEF Ack, Replies, Context

LEMMA IdleTyped ==
    Idle \in Rxs
<1>1. <<>> \in Seq(AllPackets)
  BY EmptySeq
<1>2. QED
  BY <1>1 DEF Idle, Rxs

LEMMA PacketsTyped ==
    ASSUME TypeOK
    PROVE  Packets \subseteq AllPackets
<1>1. SUFFICES ASSUME NEW k \in Keys, NEW p,
                      p \in {Data(k, i) : i \in 1 .. message[k].segs}
                              \cup {[Data(k, 1) EXCEPT !.bad = TRUE], Control(k, "ack", FALSE),
                                    Control(k, "abort", FALSE), Control(k, "abort", TRUE)}
               PROVE  p \in AllPackets
  BY DEF Packets
<1>2. message[k] \in [segs : Nat \ {0}, total : Nat, response : BOOLEAN]
  BY RmppAssumption DEF TypeOK, RmppAssumption
<1>3. ASSUME NEW i \in Nat
      PROVE  Data(k, i) \in AllPackets
  BY <1>2 DEF Data, AllPackets, Types
<1>4. CASE p \in {Data(k, i) : i \in 1 .. message[k].segs}
  <2>1. PICK i \in 1 .. message[k].segs : p = Data(k, i)
    BY <1>4
  <2>2. i \in Nat
    BY <1>2
  <2>3. QED
    BY <1>3, <2>1, <2>2
<1>5. CASE p = [Data(k, 1) EXCEPT !.bad = TRUE]
  <2> DEFINE d == Data(k, 1)
  <2>1. d \in AllPackets
    BY <1>3
  <2> HIDE DEF d
  <2>2. [d EXCEPT !.bad = TRUE] \in AllPackets
    BY <2>1 DEF AllPackets
  <2>3. QED
    BY <1>5, <2>2 DEF d
<1>6. CASE p \in {Control(k, "ack", FALSE), Control(k, "abort", FALSE),
                  Control(k, "abort", TRUE)}
  <2>1. ASSUME NEW t \in Types, NEW b \in BOOLEAN
        PROVE  Control(k, t, b) \in AllPackets
    BY DEF Control, AllPackets
  <2>2. "ack" \in Types /\ "abort" \in Types
    BY DEF Types
  <2>3. QED
    BY <1>6, <2>1, <2>2
<1>7. QED
  BY <1>1, <1>4, <1>5, <1>6

\* The event thread, with the lock of a context that is not being destroyed.
LEMMA AtWork ==
    ASSUME Inv, rx.pc = "lock", sar[rx.c].State # "destroy"
    PROVE  /\ rx.c \in Contexts /\ Listed(rx.c) /\ rx.pkt \in AllPackets
           /\ unload.pc = "off" /\ UnOf(rx.c) = "none"
           /\ InHand(sar[rx.c]) /\ sar[rx.c].State \in {"created"} \cup Armed
           /\ sar[rx.c].State = "created" => sar[rx.c].ExpectedSeg = 1
           /\ sar[rx.c].State = "active" => sar[rx.c].ExpectedSeg > 1
<1> DEFINE x == sar[rx.c]
<1>1. rx.c \in Contexts /\ rx.pkt \in AllPackets
  BY DEF Inv, TypeOK, RxKnows
<1>2. unload.pc = "off" /\ unload.c = None
  BY DEF Inv, UnloadKnows
<1>3. UnOf(rx.c) = "none" /\ RxOf(rx.c) = "lock"
  BY <1>1, <1>2, RmppAssumption DEF UnOf, RxOf, RmppAssumption
<1>4. x \in Context
  BY <1>1 DEF Inv, TypeOK
<1>5. Sound(x, Listed(rx.c), "lock", "none")
  BY <1>1, <1>3 DEF Inv, AllSound
<1> HIDE DEF x
<1>6. x.mem = "live" /\ Staged(x, Listed(rx.c), "lock", "none")
  BY <1>4, <1>5, HeldIsLive
<1>7. x.State \in {"created"} \cup Armed
  BY <1>4, <1>6 DEF x, Staged, Armed, Context, States
<1>8. /\ Listed(rx.c)
      /\ IF x.State \in Armed THEN Waiting(x) ELSE Stopped(x)
      /\ x.State = "created" => x.ExpectedSeg = 1
      /\ x.State = "active" => x.ExpectedSeg > 1
  BY <1>6, <1>7 DEF Staged, Armed
<1>9. Sound(x, TRUE, "lock", "none")
  BY <1>5, <1>8, SoundSame
<1>10. Counted(x, 2)
  BY <1>9, Two DEF Sound
<1>11. QED
  BY <1>1, <1>2, <1>3, <1>4, <1>6, <1>7, <1>8, <1>10 DEF x, InHand

-----------------------------------------------------------------------------
\* The event thread leaves a context that it has locked.

LEMMA LeaveStep ==
    ASSUME Inv, rx.pc = "lock", sar[rx.c].State # "destroy",
           NEW y \in Context, NEW p \in {"unlist", "drop"},
           sar' = [sar EXCEPT ![rx.c] = y], Sound(y, TRUE, p, "none"),
           rx' \in Rxs, rx'.pc = p, rx'.c = rx.c, rx'.pkt = rx.pkt,
           UNCHANGED <<message, recvList, unload, given, packets>>,
           reply' \in Replies, out' \in Int
    PROVE  Inv'
<1>1. /\ rx.c \in Contexts /\ Listed(rx.c) /\ rx.pkt \in AllPackets
      /\ unload.pc = "off" /\ UnOf(rx.c) = "none"
  BY AtWork
<1>2. TypeOK'
  BY <1>1, Typed DEF Inv, TypeOK, Replies, Rxs
<1>3. NoTwice'
  BY DEF Inv, NoTwice
<1>4. AllSound'
  <2>1. \A d : (Listed(d)' <=> Listed(d)) /\ UnOf(d)' = UnOf(d)
    BY DEF Listed, UnOf
  <2>2. RxOf(rx.c)' = p /\ \A d \in Contexts \ {rx.c} : RxOf(d)' = RxOf(d)
    BY DEF RxOf
  <2>3. Sound(y, Listed(rx.c)', RxOf(rx.c)', UnOf(rx.c)')
    <3>1. TRUE <=> Listed(rx.c)'
      BY <1>1, <2>1
    <3>2. Sound(y, Listed(rx.c)', p, "none")
      BY <3>1, SoundSame
    <3>3. RxOf(rx.c)' = p /\ UnOf(rx.c)' = "none"
      BY <1>1, <2>1, <2>2
    <3>4. QED
      BY <3>2, <3>3
  <2>4. QED
    BY <1>1, <2>1, <2>2, <2>3, Touch DEF Inv
<1>5. RxKnows'
  BY <1>1, RmppAssumption DEF RxKnows, RmppAssumption
<1>6. UnloadKnows'
  BY <1>1 DEF Inv, UnloadKnows
<1>7. QED
  BY <1>2, <1>3, <1>4, <1>5, <1>6 DEF Inv

LEMMA StopStep ==
    ASSUME Inv, rx.pc = "lock", sar[rx.c].State # "destroy",
           NEW x, InHand(x), NEW s \in {"timewait", "timewait_recv"},
           NEW status \in {"reject", "pending"}, NEW answer \in Replies,
           Stop(x, s, status, answer)
    PROVE  Inv'
<1>1. PICK ok \in BOOLEAN : /\ Leave(Terminate(x, s, ok), status)
                            /\ reply' = IF ok THEN answer ELSE Answer(x.key, "stop")
  BY DEF Stop
<1> DEFINE y == Terminate(x, s, ok)
           p == IF ok THEN "drop" ELSE "unlist"
<1>2. y \in Context /\ y.State = (IF ok THEN s ELSE "destroy") /\ Sound(y, TRUE, p, "none")
  BY TerminateInHand
<1> HIDE DEF y
<1>3. p \in {"unlist", "drop"} /\ p = (IF y.State = "destroy" THEN "unlist" ELSE "drop")
  BY <1>2
<1> HIDE DEF p
<1>4. /\ sar' = [sar EXCEPT ![rx.c] = y]
      /\ rx' = [rx EXCEPT !.pc = p, !.status = status]
      /\ UNCHANGED <<message, recvList, unload, given, packets>>
  BY <1>1, <1>3 DEF Leave, y
<1>5. rx' \in Rxs /\ rx'.pc = p /\ rx'.c = rx.c /\ rx'.pkt = rx.pkt
  BY <1>3, <1>4 DEF Inv, TypeOK, Rxs
<1>6. x \in Context /\ x.key \in Keys \cup {None}
  BY DEF InHand, Context
<1>7. reply' \in Replies
  BY <1>1, <1>6, AnswerTyped
<1>8. out' \in Int
  <2>1. x.RecvHead \in Seq(AllPackets)
    BY <1>6 DEF Context
  <2>2. Len(x.RecvHead) \in Nat
    BY <2>1, LenProperties
  <2>3. QED
    BY <2>2 DEF Stop, Inv, TypeOK
<1>9. QED
  BY <1>2, <1>3, <1>4, <1>5, <1>7, <1>8, LeaveStep

\* It leaves it as it was, or with a segment more, and running.
LEMMA RestStep ==
    ASSUME Inv, rx.pc = "lock", sar[rx.c].State # "destroy",
           NEW x, InHand(x), x.State \in Armed, x.State = "active" => x.ExpectedSeg > 1,
           NEW status \in {"reject", "pending"}, Leave(x, status),
           reply' \in Replies, UNCHANGED out
    PROVE  Inv'
<1>1. Sound(x, TRUE, "drop", "none") /\ x \in Context /\ x.State # "destroy"
  BY RestSound DEF InHand, Armed
<1>2. /\ sar' = [sar EXCEPT ![rx.c] = x]
      /\ rx' = [rx EXCEPT !.pc = "drop", !.status = status]
      /\ UNCHANGED <<message, recvList, unload, given, packets>>
  BY <1>1 DEF Leave
<1>3. rx' \in Rxs /\ rx'.pc = "drop" /\ rx'.c = rx.c /\ rx'.pkt = rx.pkt
  BY <1>2 DEF Inv, TypeOK, Rxs
<1>4. out' \in Int
  BY DEF Inv, TypeOK
<1>5. QED
  BY <1>1, <1>2, <1>3, <1>4, LeaveStep

-----------------------------------------------------------------------------
\* The steps of the receive thread.

LEMMA BadStep == Inv /\ Bad => Inv'
<1> SUFFICES ASSUME Inv, Bad PROVE Inv'
  OBVIOUS
<1>1. /\ rx.pc = "lock" /\ sar[rx.c].State # "destroy"
      /\ Stop(sar[rx.c], "timewait", "reject", Answer(rx.pkt.key, "abort"))
  BY DEF Bad, Locked
<1>2. InHand(sar[rx.c]) /\ rx.pkt \in AllPackets
  BY <1>1, AtWork
<1>3. Answer(rx.pkt.key, "abort") \in Replies
  BY <1>2, AnswerTyped DEF AllPackets
<1>4. QED
  BY <1>1, <1>2, <1>3, StopStep

LEMMA IgnoreStep == Inv /\ Ignore => Inv'
<1> SUFFICES ASSUME Inv, Ignore PROVE Inv'
  OBVIOUS
<1>1. /\ rx.pc = "lock" /\ sar[rx.c].State # "destroy"
      /\ sar[rx.c].State = "timewait" \/ rx.pkt.type = "ack"
      /\ Leave(sar[rx.c], "reject") /\ UNCHANGED <<reply, out>>
  BY DEF Ignore, Locked
<1>2. /\ InHand(sar[rx.c]) /\ sar[rx.c].State \in {"created"} \cup Armed
      /\ sar[rx.c].State = "active" => sar[rx.c].ExpectedSeg > 1
  BY <1>1, AtWork
<1>3. sar[rx.c].State # "created"
  BY <1>1 DEF Inv, RxKnows
<1>4. reply' \in Replies
  BY <1>1 DEF Inv, TypeOK, Replies
<1>5. QED
  BY <1>1, <1>2, <1>3, <1>4, RestStep

LEMMA AckAgainStep == Inv /\ AckAgain => Inv'
<1> SUFFICES ASSUME Inv, AckAgain PROVE Inv'
  OBVIOUS
<1>1. /\ rx.pc = "lock" /\ sar[rx.c].State # "destroy"
      /\ Stop(sar[rx.c], "timewait_recv", "reject", Ack(sar[rx.c]))
  BY DEF AckAgain, Locked
<1>2. InHand(sar[rx.c])
  BY <1>1, AtWork
<1>3. Ack(sar[rx.c]) \in Replies
  BY <1>2, AckTyped DEF InHand
<1>4. QED
  BY <1>1, <1>2, <1>3, StopStep

LEMMA MisplacedAckStep == Inv /\ MisplacedAck => Inv'
<1> SUFFICES ASSUME Inv, MisplacedAck PROVE Inv'
  OBVIOUS
<1>1. /\ rx.pc = "lock" /\ sar[rx.c].State # "destroy"
      /\ Stop(sar[rx.c], "timewait", "reject", Answer(rx.pkt.key, "abort"))
  BY DEF MisplacedAck, Locked
<1>2. InHand(sar[rx.c]) /\ rx.pkt \in AllPackets
  BY <1>1, AtWork
<1>3. Answer(rx.pkt.key, "abort") \in Replies
  BY <1>2, AnswerTyped DEF AllPackets
<1>4. QED
  BY <1>1, <1>2, <1>3, StopStep

LEMMA AbortedStep == Inv /\ Aborted => Inv'
<1> SUFFICES ASSUME Inv, Aborted PROVE Inv'
  OBVIOUS
<1>1. /\ rx.pc = "lock" /\ sar[rx.c].State # "destroy"
      /\ Stop(sar[rx.c], "timewait", "reject", reply)
  BY DEF Aborted, Locked
<1>2. InHand(sar[rx.c])
  BY <1>1, AtWork
<1>3. reply \in Replies
  BY DEF Inv, TypeOK, Replies
<1>4. QED
  BY <1>1, <1>2, <1>3, StopStep

LEMMA UnexpectedStep == Inv /\ Unexpected => Inv'
<1> SUFFICES ASSUME Inv, Unexpected PROVE Inv'
  OBVIOUS
<1>1. /\ rx.pc = "lock" /\ sar[rx.c].State \in {"created", "active"}
      /\ rx.pkt.seg # sar[rx.c].ExpectedSeg
      /\ reply' = Ack(sar[rx.c]) /\ Leave(sar[rx.c], "reject") /\ UNCHANGED out
  BY DEF Unexpected, Segment, Locked
<1>2. sar[rx.c].State # "destroy"
  BY <1>1
<1>3. /\ InHand(sar[rx.c])
      /\ sar[rx.c].State = "created" => sar[rx.c].ExpectedSeg = 1
      /\ sar[rx.c].State = "active" => sar[rx.c].ExpectedSeg > 1
  BY <1>1, <1>2, AtWork
<1>4. sar[rx.c].State \in Armed
  BY <1>1, <1>3 DEF Inv, RxKnows, Armed
<1>5. reply' \in Replies
  BY <1>1, <1>3, AckTyped DEF InHand
<1>6. QED
  BY <1>1, <1>2, <1>3, <1>4, <1>5, RestStep

LEMMA NotStarted ==
    ASSUME Inv, NoTimer
    PROVE  LET x == sar[rx.c]
               f == [StartTimer(x, FALSE) EXCEPT !.TotalSegs = rx.pkt.total]
           IN  /\ rx.pc = "lock" /\ x.State # "destroy" /\ rx.pkt \in AllPackets
               /\ InHand(f) /\ f.key = x.key
<1> DEFINE x == sar[rx.c]
           s == StartTimer(x, FALSE)
           f == [s EXCEPT !.TotalSegs = rx.pkt.total]
<1>1. rx.pc = "lock" /\ x.State \in {"created", "active"} /\ x.ExpectedSeg = 1
  BY DEF NoTimer, Segment, Locked
<1>2. x.State # "destroy"
  BY <1>1
<1>3. /\ InHand(x) /\ rx.pkt \in AllPackets
      /\ x.State = "active" => x.ExpectedSeg > 1
  BY <1>1, <1>2, AtWork
<1>4. x.State = "created"
  BY <1>1, <1>3
<1> HIDE DEF x
<1>5. x \in Context /\ x.mem = "live" /\ Stopped(x) /\ Counted(x, 2)
  BY <1>3, <1>4 DEF InHand, Armed
<1>6. /\ s \in Context /\ s.mem = "live" /\ s.State = x.State
      /\ Stopped(s) /\ Counted(s, 2) /\ s.key = x.key
  BY <1>5, StartInHand DEF SameData
<1> HIDE DEF s
<1>7. rx.pkt.total \in Nat
  BY <1>3 DEF AllPackets
<1>8. /\ f \in Context /\ f.mem = "live" /\ f.State = "created" /\ f.key = x.key
      /\ f.timer = s.timer /\ f.due = s.due
      /\ f.RefCount = s.RefCount /\ f.lost = s.lost
      /\ f.lateEnter = s.lateEnter /\ f.lateWait = s.lateWait
  BY <1>4, <1>6, <1>7 DEF Context
<1>9. InHand(f)
  <2> HIDE DEF f
  <2>1. QED
    BY <1>6, <1>8 DEF InHand, Armed, Stopped, Counted, TimerHolds
<1> HIDE DEF f
<1>10. rx.pc = "lock" /\ x.State # "destroy" /\ rx.pkt \in AllPackets
       /\ InHand(f) /\ f.key = x.key
  BY <1>1, <1>2, <1>3, <1>8, <1>9
<1>11. QED
  BY <1>10 DEF x, s, f

LEMMA NoTimerStep == Inv /\ NoTimer => Inv'
<1> SUFFICES ASSUME Inv, NoTimer PROVE Inv'
  OBVIOUS
<1> DEFINE f == [StartTimer(sar[rx.c], FALSE) EXCEPT !.TotalSegs = rx.pkt.total]
<1>1. Stop(f, "timewait", "reject", Answer(rx.pkt.key, "stop"))
  BY DEF NoTimer
<1>2. rx.pc = "lock" /\ sar[rx.c].State # "destroy" /\ rx.pkt \in AllPackets /\ InHand(f)
  BY NotStarted
<1>3. Answer(rx.pkt.key, "stop") \in Replies
  BY <1>2, AnswerTyped DEF AllPackets
<1> HIDE DEF f
<1>4. QED
  BY <1>1, <1>2, <1>3, StopStep

\* The segment that is expected has been stored.
LEMMA Stored ==
    ASSUME Inv, Expected
    PROVE  LET x == sar[rx.c]
               y == Store(x, rx.pkt)
           IN  /\ rx.pc = "lock" /\ x.State # "destroy" /\ x \in Context
               /\ rx.pkt \in AllPackets
               /\ InHand(y) /\ y.State = "active" /\ y.key = x.key
               /\ y.ExpectedSeg = x.ExpectedSeg + 1 /\ y.ExpectedSeg > 1
               /\ y.WindowLast = x.WindowLast
               /\ y.TotalSegs = (IF rx.pkt.seg = 1 THEN rx.pkt.total ELSE x.TotalSegs)
               /\ y.RecvHead = Append(x.RecvHead, rx.pkt)
<1> DEFINE x == sar[rx.c]
<1>1. /\ rx.pc = "lock" /\ x.State \in {"created", "active"}
      /\ rx.pkt.seg = x.ExpectedSeg
  BY DEF Expected, Segment, Locked
<1>2. x.State # "destroy"
  BY <1>1
<1>3. /\ InHand(x) /\ rx.pkt \in AllPackets
      /\ x.State = "created" => x.ExpectedSeg = 1
      /\ x.State = "active" => x.ExpectedSeg > 1
  BY <1>1, <1>2, AtWork
<1> HIDE DEF x
<1>4. x.State = IF rx.pkt.seg = 1 THEN "created" ELSE "active"
  BY <1>1, <1>3
<1> DEFINE y == Store(x, rx.pkt)
<1>5. /\ InHand(y) /\ y.State = "active" /\ y.key = x.key
      /\ y.ExpectedSeg = x.ExpectedSeg + 1 /\ y.WindowLast = x.WindowLast
      /\ y.TotalSegs = (IF rx.pkt.seg = 1 THEN rx.pkt.total ELSE x.TotalSegs)
      /\ y.RecvHead = Append(x.RecvHead, rx.pkt)
  BY <1>3, <1>4, StoreInHand
<1>6. x.ExpectedSeg \in Nat \ {0} /\ x \in Context
  BY <1>3 DEF InHand, Context
<1> HIDE DEF y
<1>7. y.ExpectedSeg > 1
  BY <1>5, <1>6
<1>8. QED
  BY <1>1, <1>2, <1>3, <1>5, <1>6, <1>7 DEF x, y

LEMMA InconsistentStep == Inv /\ Inconsistent => Inv'
<1> SUFFICES ASSUME Inv, Inconsistent PROVE Inv'
  OBVIOUS
<1> DEFINE y == Store(sar[rx.c], rx.pkt)
<1>1. Expected /\ Stop(y, "timewait", "pending", Answer(rx.pkt.key, "abort"))
  BY DEF Inconsistent
<1>2. rx.pc = "lock" /\ sar[rx.c].State # "destroy" /\ rx.pkt \in AllPackets /\ InHand(y)
  BY <1>1, Stored
<1>3. Answer(rx.pkt.key, "abort") \in Replies
  BY <1>2, AnswerTyped DEF AllPackets
<1> HIDE DEF y
<1>4. QED
  BY <1>1, <1>2, <1>3, StopStep

\* The window moves on.
LEMMA AdvanceTyped ==
    ASSUME NEW x \in Context, x.ExpectedSeg > 1
    PROVE  LET y == Advance(x)
           IN  /\ y \in Context /\ y.mem = x.mem /\ y.State = x.State /\ y.key = x.key
               /\ y.ExpectedSeg = x.ExpectedSeg /\ y.TotalSegs = x.TotalSegs
               /\ y.RecvHead = x.RecvHead
               /\ y.timer = x.timer /\ y.due = x.due
               /\ y.RefCount = x.RefCount /\ y.lost = x.lost
               /\ y.lateEnter = x.lateEnter /\ y.lateWait = x.lateWait
               /\ LET wl == x.ExpectedSeg + WindowSize - 1
                  IN  y.WindowLast =
                        IF x.TotalSegs # 0 /\ wl > x.TotalSegs THEN x.TotalSegs ELSE wl
<1> DEFINE wl == x.ExpectedSeg + WindowSize - 1
           v == IF x.TotalSegs # 0 /\ wl > x.TotalSegs THEN x.TotalSegs ELSE wl
           y == [x EXCEPT !.WindowLast = v]
<1>1. v \in Nat \ {0}
  BY RmppAssumption DEF RmppAssumption, Context
<1>2. Advance(x) = y
  BY DEF Advance
<1> HIDE DEF v
<1>3. /\ y \in Context /\ y.mem = x.mem /\ y.State = x.State /\ y.key = x.key
      /\ y.ExpectedSeg = x.ExpectedSeg /\ y.TotalSegs = x.TotalSegs
      /\ y.RecvHead = x.RecvHead
      /\ y.timer = x.timer /\ y.due = x.due
      /\ y.RefCount = x.RefCount /\ y.lost = x.lost
      /\ y.lateEnter = x.lateEnter /\ y.lateWait = x.lateWait
      /\ y.WindowLast = v
  BY <1>1 DEF Context
<1>4. QED
  BY <1>2, <1>3 DEF v

LEMMA AdvanceInHand ==
    ASSUME NEW x, InHand(x), x.State = "active", x.ExpectedSeg > 1
    PROVE  InHand(Advance(x)) /\ Advance(x).State = "active" /\ Advance(x).ExpectedSeg > 1
<1> DEFINE y == Advance(x)
<1>1. /\ y \in Context /\ y.mem = x.mem /\ y.State = x.State
      /\ y.ExpectedSeg = x.ExpectedSeg
      /\ y.timer = x.timer /\ y.due = x.due
      /\ y.RefCount = x.RefCount /\ y.lost = x.lost
      /\ y.lateEnter = x.lateEnter /\ y.lateWait = x.lateWait
  BY AdvanceTyped DEF InHand
<1> HIDE DEF y
<1>2. InHand(y) /\ y.State = "active" /\ y.ExpectedSeg > 1
  BY <1>1 DEF InHand, Armed, Waiting, Counted, TimerHolds
<1>3. QED
  BY <1>2 DEF y

LEMMA ProceedStep == Inv /\ Proceed => Inv'
<1> SUFFICES ASSUME Inv, Proceed PROVE Inv'
  OBVIOUS
<1> DEFINE x == Store(sar[rx.c], rx.pkt)
           y == IF MustAck(x) THEN Advance(x) ELSE x
<1>1. /\ Expected /\ Leave(y, "pending") /\ UNCHANGED out
      /\ reply' = IF MustAck(x) THEN Ack(y) ELSE reply
  BY DEF Proceed
<1>2. /\ rx.pc = "lock" /\ sar[rx.c].State # "destroy"
      /\ InHand(x) /\ x.State = "active" /\ x.ExpectedSeg > 1
  BY <1>1, Stored
<1> HIDE DEF x
<1>3. InHand(y) /\ y.State = "active" /\ y.ExpectedSeg > 1
  BY <1>2, AdvanceInHand
<1>4. y.State \in Armed
  BY <1>3 DEF Armed
<1> HIDE DEF y
<1>5. reply' \in Replies
  BY <1>1, <1>3, AckTyped, Typed DEF InHand, Inv
<1>6. QED
  BY <1>1, <1>2, <1>3, <1>4, <1>5, RestStep

\* The timer of the transaction is stopped before the last one is started.
LEMMA DoneInHand ==
    ASSUME NEW x, InHand(x), x.State \in Armed
    PROVE  LET done == [StopTimer(x) EXCEPT !.State = "done", !.RecvHead = <<>>]
           IN  InHand(done) /\ SameData(x, done)
<1> DEFINE s == StopTimer(x)
           done == [s EXCEPT !.State = "done", !.RecvHead = <<>>]
<1>1. s \in Context /\ s.mem = "live" /\ Stopped(s) /\ Counted(s, 2) /\ SameData(x, s)
  BY StopInHand
<1> HIDE DEF s
<1>2. "done" \in States /\ <<>> \in Seq(AllPackets)
  BY EmptySeq DEF States
<1>3. done \in Context
  BY <1>1, <1>2, StateTyped
<1>4. /\ done.mem = "live" /\ done.State = "done"
      /\ done.timer = s.timer /\ done.due = s.due
      /\ done.RefCount = s.RefCount /\ done.lost = s.lost
      /\ done.lateEnter = s.lateEnter /\ done.lateWait = s.lateWait
  BY <1>1 DEF Context
<1>5. SameData(x, done)
  BY <1>1 DEF Context, SameData
<1> HIDE DEF done
<1>6. InHand(done)
  BY <1>1, <1>3, <1>4 DEF InHand, Armed, Stopped, Counted, TimerHolds
<1>7. QED
  BY <1>5, <1>6 DEF done, s

LEMMA GotLastStep == Inv /\ GotLast => Inv'
<1> SUFFICES ASSUME Inv, GotLast PROVE Inv'
  OBVIOUS
<1> DEFINE x == Store(sar[rx.c], rx.pkt)
           done == [StopTimer(x) EXCEPT !.State = "done", !.RecvHead = <<>>]
<1>1. PICK ok \in BOOLEAN :
        /\ sar' = [sar EXCEPT ![rx.c] = Terminate(done, "timewait_recv", ok)]
        /\ reply' = IF ok THEN Ack(x) ELSE Answer(x.key, "stop")
        /\ rx' = [rx EXCEPT !.pc = IF ok THEN "drop" ELSE "unlist",
                            !.status = "completed", !.list = x.RecvHead]
  BY DEF GotLast
<1>2. Expected /\ UNCHANGED <<message, recvList, unload, given, out, packets>>
  BY DEF GotLast
<1>3. /\ rx.pc = "lock" /\ sar[rx.c].State # "destroy"
      /\ InHand(x) /\ x.State = "active" /\ x.ExpectedSeg > 1
  BY <1>2, Stored
<1> HIDE DEF x
<1>4. x.State \in Armed
  BY <1>3 DEF Armed
<1>5. InHand(done)
  BY <1>3, <1>4, DoneInHand
<1> HIDE DEF done
<1> DEFINE y == Terminate(done, "timewait_recv", ok)
           p == IF ok THEN "drop" ELSE "unlist"
<1>6. y \in Context /\ Sound(y, TRUE, p, "none")
  BY <1>5, TerminateInHand
<1> HIDE DEF y
<1>7. p \in {"unlist", "drop"}
  OBVIOUS
<1>8. x \in Context /\ x.RecvHead \in Seq(AllPackets) /\ x.key \in Keys \cup {None}
  BY <1>3 DEF InHand, Context
<1> HIDE DEF p
<1>9. rx' \in Rxs /\ rx'.pc = p /\ rx'.c = rx.c /\ rx'.pkt = rx.pkt
  <2>1. rx' = [rx EXCEPT !.pc = p, !.status = "completed", !.list = x.RecvHead]
    BY <1>1 DEF p
  <2>2. rx \in Rxs
    BY Typed DEF Inv
  <2>3. QED
    BY <1>7, <1>8, <2>1, <2>2 DEF Rxs
<1>10. reply' \in Replies
  BY <1>1, <1>8, AckTyped, AnswerTyped
<1>11. out' \in Int
  BY <1>2 DEF Inv, TypeOK
<1>12. sar' = [sar EXCEPT ![rx.c] = y]
  BY <1>1 DEF y
<1>13. QED
  BY <1>2, <1>3, <1>6, <1>7, <1>9, <1>10, <1>11, <1>12, LeaveStep

\* The event thread is with no context, and changes none.
LEMMA IdleStep ==
    ASSUME Inv, rx.c = None, rx' = Idle, out' \in Int, reply' \in Replies,
           UNCHANGED <<message, sar, recvList, unload, given, packets>>
    PROVE  Inv'
<1>1. TypeOK'
  BY Typed, IdleTyped DEF Inv, TypeOK, Replies, Rxs
<1>2. NoTwice'
  BY DEF Inv, NoTwice
<1>3. \A d \in Contexts : RxOf(d)' = RxOf(d) /\ UnOf(d)' = UnOf(d)
  BY RmppAssumption DEF RxOf, UnOf, Idle, RmppAssumption
<1>4. AllSound'
  BY <1>3, TouchNone DEF Inv
<1>5. RxKnows' /\ UnloadKnows'
  BY DEF Inv, RxKnows, UnloadKnows, Idle
<1>6. QED
  BY <1>1, <1>2, <1>4, <1>5 DEF Inv

LEMMA RejectNewStep == Inv /\ RejectNew => Inv'
<1> SUFFICES ASSUME Inv, RejectNew PROVE Inv'
  OBVIOUS
<1>1. rx.c = None /\ rx.pkt \in AllPackets
  BY DEF Inv, RxKnows, RejectNew
<1>2. reply' \in Replies /\ out' \in Int
  BY <1>1, AnswerTyped DEF RejectNew, Discard, Inv, TypeOK, AllPackets
<1>3. QED
  BY <1>1, <1>2, IdleStep DEF RejectNew, Discard

LEMMA NoRoomStep == Inv /\ NoRoom => Inv'
<1> SUFFICES ASSUME Inv, NoRoom PROVE Inv'
  OBVIOUS
<1>1. rx.c = None /\ rx.pkt \in AllPackets
  BY DEF Inv, RxKnows, NoRoom
<1>2. reply' \in Replies /\ out' \in Int
  BY <1>1, AnswerTyped DEF NoRoom, Discard, Inv, TypeOK, AllPackets
<1>3. QED
  BY <1>1, <1>2, IdleStep DEF NoRoom, Discard

LEMMA ArriveStep == Inv /\ (\E p \in Packets : Arrive(p)) => Inv'
<1> SUFFICES ASSUME Inv, NEW p \in Packets, Arrive(p) PROVE Inv'
  OBVIOUS
<1>1. p \in AllPackets
  BY PacketsTyped DEF Inv
<1>2. /\ rx.pc = "idle" /\ unload.pc = "off" /\ rx.c = None /\ unload.c = None
      /\ UNCHANGED <<message, recvList, unload, reply, given>>
      /\ packets' = packets + 1 /\ out' = out + 1
  BY DEF Arrive, Inv, RxKnows, UnloadKnows
<1>3. NoTwice' /\ UnloadKnows'
  <2>1. NoTwice'
    BY <1>2 DEF Inv, NoTwice
  <2>2. UnloadKnows'
    BY <1>2 DEF Inv, UnloadKnows
  <2>3. QED
    BY <2>1, <2>2
<1>4. CASE rx' = [Idle EXCEPT !.pc = "new", !.pkt = p] /\ UNCHANGED sar
  <2>1. rx' \in Rxs /\ rx'.pc = "new" /\ rx'.c = None /\ rx'.pkt = p
    <3>1. Idle.c = None
      BY DEF Idle
    <3>2. QED
      BY <1>1, <1>4, <3>1, IdleTyped DEF Rxs
  <2>2. TypeOK'
    BY <1>2, <1>4, <2>1, Typed DEF Inv, TypeOK, Replies, Rxs
  <2>3. \A d \in Contexts : RxOf(d)' = RxOf(d) /\ UnOf(d)' = UnOf(d)
    BY <1>2, <2>1, RmppAssumption DEF RxOf, UnOf, RmppAssumption
  <2>4. AllSound'
    BY <1>2, <1>4, <2>3, TouchNone DEF Inv
  <2>5. RxKnows'
    BY <1>1, <2>1 DEF RxKnows
  <2>6. QED
    BY <1>3, <2>2, <2>4, <2>5 DEF Inv
<1>5. ASSUME NEW i \in Matches(p),
             rx' = [Idle EXCEPT !.pc = "lock", !.pkt = p, !.c = recvList[i]],
             sar' = [sar EXCEPT ![recvList[i]] = Increment(@)]
      PROVE  Inv'
  <2>a. i \in DOMAIN recvList /\ recvList \in Seq(Contexts)
    BY DEF Matches, Inv, TypeOK
  <2>b. PICK c \in Contexts : c = recvList[i]
    BY <2>a
  <2> DEFINE x == sar[c]
             y == Increment(x)
  <2>1. c \in Contexts /\ Listed(c)
    BY <2>a, <2>b DEF Listed
  <2>2. x \in Context
    BY <2>1 DEF Inv, TypeOK
  <2>3. RxOf(c) = "none" /\ UnOf(c) = "none"
    BY <1>2, <2>1, RmppAssumption DEF RxOf, UnOf, RmppAssumption
  <2>4. Sound(x, TRUE, "none", "none")
    <3>1. Sound(x, Listed(c), "none", "none")
      BY <2>1, <2>3 DEF Inv, AllSound
    <3>2. QED
      BY <2>1, <3>1, SoundSame
  <2>5. sar' = [sar EXCEPT ![c] = y]
    BY <1>5, <2>b
  <2> HIDE DEF x
  <2>6. x.mem = "live" /\ Staged(x, TRUE, "none", "none")
    BY <2>2, <2>4, HeldIsLive
  <2>7. x.RefCount \in Int /\ x.RefCount + 1 \in Int /\ TimerHolds(x) \in Nat /\ x.lost \in Nat
    BY <2>2, HoldsNat DEF Context
  <2>8. /\ y \in Context /\ y.mem = x.mem /\ y.State = x.State
        /\ y.ExpectedSeg = x.ExpectedSeg
        /\ y.RefCount = x.RefCount + 1 /\ y.lost = x.lost
        /\ y.timer = x.timer /\ y.due = x.due
        /\ y.lateEnter = x.lateEnter /\ y.lateWait = x.lateWait
    BY <2>2, <2>7 DEF Increment, Context
  <2> HIDE DEF y
  <2>9. Staged(y, TRUE, "lock", "none") /\ y.State # "created"
    BY <2>6, <2>8 DEF Staged, Armed, Waiting, Stopped
  <2>10. Counted(y, 2)
    <3>1. Counted(x, 1)
      BY <2>4 DEF Sound, Others
    <3>2. TimerHolds(y) = TimerHolds(x)
      BY <2>8 DEF TimerHolds
    <3>3. QED
      BY <2>6, <2>7, <2>8, <3>1, <3>2 DEF Counted
  <2>11. Sound(y, TRUE, "lock", "none")
    BY <2>6, <2>8, <2>9, <2>10, Two DEF Sound
  <2>12. rx' \in Rxs /\ rx'.pc = "lock" /\ rx'.c = c /\ rx'.pkt = p
    <3>1. rx' = [Idle EXCEPT !.pc = "lock", !.pkt = p, !.c = c]
      BY <1>5, <2>b
    <3>2. QED
      BY <1>1, <2>1, <3>1, IdleTyped DEF Rxs
  <2>13. TypeOK'
    BY <1>2, <2>5, <2>8, <2>12, Typed DEF Inv, TypeOK, Replies, Rxs
  <2>14. AllSound'
    <3>1. \A d : Listed(d)' <=> Listed(d)
      BY <1>2 DEF Listed
    <3>2. RxOf(c)' = "lock" /\ UnOf(c)' = "none"
      BY <1>2, <2>3, <2>12 DEF RxOf, UnOf
    <3>3. Sound(y, Listed(c)', RxOf(c)', UnOf(c)')
      <4>1. TRUE <=> Listed(c)'
        BY <2>1, <3>1
      <4>2. Sound(y, Listed(c)', "lock", "none")
        BY <2>11, <4>1, SoundSame
      <4>3. QED
        BY <3>2, <4>2
    <3>4. \A d \in Contexts \ {c} : RxOf(d)' = RxOf(d) /\ UnOf(d)' = UnOf(d)
      BY <1>2, <2>12, RmppAssumption DEF RxOf, UnOf, RmppAssumption
    <3>5. QED
      BY <2>1, <2>5, <3>1, <3>3, <3>4, Touch DEF Inv
  <2>15. RxKnows'
    <3>1. sar'[c] = y
      BY <2>1, <2>5 DEF Inv, TypeOK
    <3>2. c # None
      BY <2>1, RmppAssumption DEF RmppAssumption
    <3>3. QED
      BY <1>1, <2>9, <2>12, <3>1, <3>2 DEF RxKnows
  <2>16. QED
    BY <1>3, <2>13, <2>14, <2>15 DEF Inv
<1>6. QED
  BY <1>4, <1>5 DEF Arrive

\* The event thread gives its reference to a context back.
LEMMA DropStep ==
    ASSUME Inv, NEW c \in Contexts, rx.c = c, rx.pc \in {"lock", "drop"},
           sar[c].State # "created",
           sar' = [sar EXCEPT ![c] = Decrement(@)],
           rx' \in Rxs, rx'.c = None, rx'.pc \in {"idle", "new"},
           rx'.pc = "new" => rx'.pkt \in AllPackets,
           UNCHANGED <<message, recvList, unload, reply, packets>>,
           given' \subseteq Keys, out' \in Int
    PROVE  Inv'
<1> DEFINE x == sar[c]
           y == Decrement(x)
<1>1. x \in Context
  BY DEF Inv, TypeOK
<1>2. Listed(c) \in BOOLEAN
  BY DEF Listed
<1>3. UnOf(c) = "none" /\ RxOf(c) = rx.pc /\ unload.pc = "off"
  BY RmppAssumption DEF Inv, UnloadKnows, UnOf, RxOf, RmppAssumption
<1>4. Sound(x, Listed(c), rx.pc, "none")
  BY <1>3 DEF Inv, AllSound
<1> HIDE DEF x
<1>5. x.mem = "live"
  BY <1>1, <1>4, HeldIsLive
<1>6. "none" \in UnloadPcs
  BY DEF UnloadPcs
<1>7. Sound(y, Listed(c), "none", "none")
  BY <1>1, <1>2, <1>4, <1>5, <1>6, DropSound DEF x
<1>8. y \in Context
  BY <1>1, <1>5, Decremented
<1> HIDE DEF y
<1>9. sar' = [sar EXCEPT ![c] = y]
  BY DEF x, y
<1>10. TypeOK'
  BY <1>8, <1>9, Typed DEF Inv, TypeOK, Replies, Rxs
<1>11. NoTwice' /\ UnloadKnows'
  <2>1. NoTwice'
    BY DEF Inv, NoTwice
  <2>2. UnloadKnows'
    BY <1>3 DEF Inv, UnloadKnows
  <2>3. QED
    BY <2>1, <2>2
<1>12. AllSound'
  <2>1. \A d : (Listed(d)' <=> Listed(d)) /\ UnOf(d)' = UnOf(d)
    BY DEF Listed, UnOf
  <2>2. RxOf(c)' = "none" /\ \A d \in Contexts \ {c} : RxOf(d)' = RxOf(d)
    BY RmppAssumption DEF RxOf, RmppAssumption
  <2>3. Sound(y, Listed(c)', RxOf(c)', UnOf(c)')
    <3>1. Sound(y, Listed(c)', "none", "none")
      BY <1>7, <2>1, SoundSame
    <3>2. QED
      BY <1>3, <2>1, <2>2, <3>1
  <2>4. QED
    BY <1>9, <2>1, <2>2, <2>3, Touch DEF Inv
<1>13. RxKnows'
  BY DEF RxKnows
<1>14. QED
  BY <1>10, <1>11, <1>12, <1>13 DEF Inv

LEMMA SkipDestroyedStep == Inv /\ SkipDestroyed => Inv'
<1> SUFFICES ASSUME Inv, SkipDestroyed PROVE Inv'
  OBVIOUS
<1>1. rx.c \in Contexts /\ rx.pkt \in AllPackets /\ rx.pc = "lock"
  BY DEF SkipDestroyed, Inv, TypeOK, RxKnows
<1>2. rx' = [rx EXCEPT !.pc = "new", !.c = None] /\ rx \in Rxs
  BY Typed DEF SkipDestroyed, Inv
<1>3. rx' \in Rxs /\ rx'.c = None /\ rx'.pc = "new" /\ rx'.pkt = rx.pkt
  BY <1>2 DEF Rxs
<1>4. given' \subseteq Keys /\ out' \in Int
  BY DEF SkipDestroyed, Inv, TypeOK
<1>5. QED
  BY <1>1, <1>3, <1>4, DropStep DEF SkipDestroyed

LEMMA RxDropStep == Inv /\ RxDrop => Inv'
<1> SUFFICES ASSUME Inv, RxDrop PROVE Inv'
  OBVIOUS
<1>1. rx.c \in Contexts /\ rx.pkt \in AllPackets /\ rx.pc = "drop"
  BY DEF RxDrop, Inv, TypeOK, RxKnows
<1>2. sar[rx.c].State # "created"
  <2>1. sar[rx.c] \in Context /\ Sound(sar[rx.c], Listed(rx.c), "drop", UnOf(rx.c))
    BY <1>1 DEF Inv, TypeOK, AllSound, RxOf
  <2>2. Staged(sar[rx.c], Listed(rx.c), "drop", UnOf(rx.c))
    BY <2>1, HeldIsLive
  <2>3. QED
    BY <2>2 DEF Staged
<1>3. rx' \in Rxs /\ rx'.c = None /\ rx'.pc = "idle"
  BY IdleTyped DEF RxDrop, Idle
<1>4. given' \subseteq Keys
  BY <1>1 DEF RxDrop, Inv, TypeOK, AllPackets
<1>5. out' \in Int
  <2> DEFINE n == CASE rx.status = "completed" -> Len(rx.list)
                    [] rx.status = "reject" -> 1
                    [] OTHER -> 0
  <2>1. rx.list \in Seq(AllPackets) /\ out \in Int
    BY DEF Inv, TypeOK
  <2>2. Len(rx.list) \in Int
    BY <2>1, LenProperties
  <2>3. n \in Int
    BY <2>2
  <2>4. out' = out - n
    BY DEF RxDrop
  <2> HIDE DEF n
  <2>5. QED
    BY <2>1, <2>3, <2>4
<1>6. QED
  BY <1>1, <1>2, <1>3, <1>4, <1>5, DropStep DEF RxDrop

LEMMA NewTyped ==
    ASSUME NEW x \in Context, NEW m \in {"free", "live", "reap"}, NEW k \in Keys \cup {None},
           NEW n \in Int
    PROVE  [x EXCEPT !.mem = m, !.key = k, !.RefCount = n] \in Context
BY DEF Context

LEMMA CreateStep == Inv /\ (\E c \in Contexts : Create(c)) => Inv'
<1> SUFFICES ASSUME Inv, NEW c \in Contexts, Create(c) PROVE Inv'
  OBVIOUS
<1> DEFINE k == rx.pkt.key
           y == [Unused EXCEPT !.mem = "live", !.key = k, !.RefCount = 2]
<1>1. /\ rx.pc = "new" /\ rx.c = None /\ rx.pkt \in AllPackets
      /\ rx.pkt.type = "data" /\ rx.pkt.seg = 1
      /\ sar[c].mem = "free" /\ sar' = [sar EXCEPT ![c] = y]
      /\ recvList' = <<c>> \o recvList
      /\ rx' = [rx EXCEPT !.pc = "lock", !.c = c]
      /\ UNCHANGED <<message, unload, reply, given, out, packets>>
  BY DEF Create, Inv, RxKnows
<1>2. unload.pc = "off" /\ unload.c = None
  BY <1>1 DEF Inv, UnloadKnows
<1>3. RxOf(c) = "none" /\ UnOf(c) = "none"
  BY <1>1, <1>2, RmppAssumption DEF RxOf, UnOf, RmppAssumption
<1>4. ~Listed(c)
  <2>1. Sound(sar[c], Listed(c), "none", "none") /\ sar[c] \in Context
    BY <1>3 DEF Inv, AllSound, TypeOK
  <2>2. QED
    BY <1>1, <2>1, HeldIsLive
<1>5. k \in Keys
  BY <1>1 DEF AllPackets
<1>6. /\ y \in Context /\ y.mem = "live" /\ y.State = "created" /\ y.ExpectedSeg = 1
      /\ y.RefCount = 2 /\ y.lost = 0 /\ y.timer = "off" /\ y.due = "none"
      /\ y.lateEnter = 0 /\ y.lateWait = 0
  <2>1. <<>> \in Seq(AllPackets)
    BY EmptySeq
  <2>2. Unused \in Context
    BY FreshSound
  <2>3. y \in Context
    <3>1. "live" \in {"free", "live", "reap"} /\ 2 \in Int /\ k \in Keys \cup {None}
      BY <1>5
    <3>2. QED
      BY <2>2, <3>1, NewTyped
  <2>4. QED
    BY <2>3 DEF Unused
<1> HIDE DEF y
<1>7. Sound(y, TRUE, "lock", "none")
  <2>1. TimerHolds(y) = 0
    BY <1>6 DEF TimerHolds, One
  <2>2. Counted(y, 2)
    BY <1>6, <2>1 DEF Counted
  <2>3. Staged(y, TRUE, "lock", "none")
    BY <1>6 DEF Staged, Armed, Stopped
  <2>4. QED
    BY <1>6, <2>2, <2>3, Two DEF Sound
<1>8. /\ recvList' \in Seq(Contexts) /\ NoTwice' /\ Listed(c)'
      /\ \A d \in Contexts \ {c} : Listed(d)' <=> Listed(d)
  BY <1>1, <1>4, Inserted DEF Inv
<1>9. rx' \in Rxs /\ rx'.pc = "lock" /\ rx'.c = c /\ rx'.pkt = rx.pkt
  <2>1. rx \in Rxs
    BY Typed DEF Inv
  <2>2. QED
    BY <1>1, <2>1 DEF Rxs
<1>10. TypeOK'
  BY <1>1, <1>6, <1>8, <1>9, Typed DEF Inv, TypeOK, Replies, Rxs
<1>11. AllSound'
  <2>1. RxOf(c)' = "lock" /\ UnOf(c)' = "none"
    BY <1>1, <1>3, <1>9 DEF RxOf, UnOf
  <2>2. \A d \in Contexts \ {c} : RxOf(d)' = RxOf(d) /\ UnOf(d)' = UnOf(d)
    BY <1>1, <1>9, RmppAssumption DEF RxOf, UnOf, RmppAssumption
  <2>3. Sound(y, Listed(c)', RxOf(c)', UnOf(c)')
    <3>1. Sound(y, Listed(c)', "lock", "none")
      BY <1>7, <1>8, SoundSame
    <3>2. QED
      BY <2>1, <3>1
  <2>4. QED
    BY <1>1, <1>8, <2>2, <2>3, Touch DEF Inv
<1>12. RxKnows'
  BY <1>1, <1>9, RmppAssumption DEF RxKnows, RmppAssumption
<1>13. UnloadKnows'
  BY <1>1, <1>2 DEF Inv, UnloadKnows
<1>14. QED
  BY <1>8, <1>10, <1>11, <1>12, <1>13 DEF Inv

LEMMA RxUnlistStep == Inv /\ RxUnlist => Inv'
<1> SUFFICES ASSUME Inv, RxUnlist PROVE Inv'
  OBVIOUS
<1>1. PICK c \in Contexts : c = rx.c
  BY DEF RxUnlist, Inv, RxKnows, TypeOK
<1>2. /\ rx.pc = "unlist" /\ Unlist(c)
      /\ sar' = [sar EXCEPT ![c] = Decrement(@)]
      /\ rx' = [rx EXCEPT !.pc = "drop"]
      /\ UNCHANGED <<message, unload, reply, given, out, packets>>
  BY <1>1 DEF RxUnlist
<1>3. /\ recvList' \in Seq(Contexts) /\ NoTwice'
      /\ Listed(c) /\ ~Listed(c)'
      /\ \A d \in Contexts \ {c} : Listed(d)' <=> Listed(d)
  BY <1>2, Unlisted DEF Inv
<1>4. unload.pc = "off" /\ UnOf(c) = "none" /\ RxOf(c) = "unlist" /\ rx.pkt \in AllPackets
  BY <1>1, <1>2, RmppAssumption DEF Inv, UnloadKnows, RxKnows, UnOf, RxOf, RmppAssumption
<1> DEFINE x == sar[c]
           y == Decrement(x)
<1>5. x \in Context
  BY DEF Inv, TypeOK
<1>6. Sound(x, TRUE, "unlist", "none")
  <2>1. Sound(x, Listed(c), "unlist", "none")
    BY <1>4 DEF Inv, AllSound
  <2>2. QED
    BY <1>3, <2>1, SoundSame
<1>7. sar' = [sar EXCEPT ![c] = y]
  BY <1>2
<1> HIDE DEF x
<1>8. x.mem = "live"
  BY <1>5, <1>6, HeldIsLive
<1>9. "none" \in UnloadPcs /\ "unlist" \in RxPcs /\ "drop" \in RxPcs
  BY DEF UnloadPcs, RxPcs
<1>10. Sound(y, FALSE, "drop", "none")
  BY <1>5, <1>6, <1>8, <1>9, UnlistSound
<1>11. y \in Context /\ y.State = x.State
  BY <1>5, <1>8, Decremented
<1> HIDE DEF y
<1>12. rx' \in Rxs /\ rx'.pc = "drop" /\ rx'.c = c /\ rx'.pkt = rx.pkt
  <2>1. rx \in Rxs
    BY Typed DEF Inv
  <2>2. QED
    BY <1>1, <1>2, <2>1 DEF Rxs
<1>13. TypeOK'
  BY <1>2, <1>3, <1>7, <1>11, <1>12, Typed DEF Inv, TypeOK, Replies, Rxs
<1>14. AllSound'
  <2>1. RxOf(c)' = "drop" /\ UnOf(c)' = "none"
    BY <1>2, <1>4, <1>12 DEF RxOf, UnOf
  <2>2. \A d \in Contexts \ {c} : RxOf(d)' = RxOf(d) /\ UnOf(d)' = UnOf(d)
    BY <1>1, <1>2, <1>12 DEF RxOf, UnOf
  <2>3. Sound(y, Listed(c)', RxOf(c)', UnOf(c)')
    <3>1. Sound(y, Listed(c)', "drop", "none")
      BY <1>3, <1>10, SoundSame
    <3>2. QED
      BY <2>1, <3>1
  <2>4. QED
    BY <1>3, <1>7, <2>2, <2>3, Touch DEF Inv
<1>15. RxKnows'
  BY <1>1, <1>4, <1>12, RmppAssumption DEF RxKnows, RmppAssumption
<1>16. UnloadKnows'
  BY <1>2, <1>4 DEF Inv, UnloadKnows
<1>17. QED
  BY <1>3, <1>13, <1>14, <1>15, <1>16 DEF Inv

-----------------------------------------------------------------------------
\* The steps of the callbacks.

LEMMA CallbackStep ==
    ASSUME Inv, NEW c \in Contexts, NEW y \in Context, sar' = [sar EXCEPT ![c] = y],
           y.State \in {sar[c].State, "destroy"}, Sound(y, Listed(c), RxOf(c), UnOf(c)),
           UNCHANGED <<message, recvList, rx, unload, given, packets>>,
           reply' \in Replies, out' \in Int
    PROVE  Inv'
<1>1. TypeOK'
  BY Typed DEF Inv, TypeOK, Replies, Rxs
<1>2. NoTwice'
  BY DEF Inv, NoTwice
<1>3. AllSound'
  BY TouchOnly DEF Inv
<1>4. RxKnows'
  <2>1. sar'[c] = y /\ \A d \in Contexts \ {c} : sar'[d] = sar[d]
    BY DEF Inv, TypeOK
  <2>2. rx.pc = "lock" => rx.c \in Contexts
    BY DEF Inv, RxKnows, TypeOK
  <2>3. QED
    BY <2>1, <2>2 DEF Inv, RxKnows
<1>5. UnloadKnows'
  BY DEF Inv, UnloadKnows
<1>6. QED
  BY <1>1, <1>2, <1>3, <1>4, <1>5 DEF Inv

\* What is known of any context.
LEMMA OfContext ==
    ASSUME Inv, NEW c \in Contexts
    PROVE  /\ sar[c] \in Context /\ Sound(sar[c], Listed(c), RxOf(c), UnOf(c))
           /\ reply \in Replies /\ out \in Int
BY DEF Inv, TypeOK, AllSound, Replies

LEMMA FireStep == \A c \in Contexts : Inv /\ Fire(c) => Inv'
<1> SUFFICES ASSUME NEW c \in Contexts, Inv, Fire(c) PROVE Inv'
  OBVIOUS
<1> DEFINE y == [sar[c] EXCEPT !.timer = "fired", !.due = "enter"]
<1>1. y \in Context /\ y.State = sar[c].State /\ Sound(y, Listed(c), RxOf(c), UnOf(c))
  BY OfContext, FireSound DEF Fire
<1>2. sar' = [sar EXCEPT ![c] = y]
  BY DEF Fire, Inv, TypeOK
<1> HIDE DEF y
<1>3. reply' \in Replies /\ out' \in Int
  BY OfContext DEF Fire
<1>4. QED
  BY <1>1, <1>2, <1>3, CallbackStep DEF Fire

LEMMA EnterStep == \A c \in Contexts : Inv /\ Enter(c) => Inv'
<1> SUFFICES ASSUME NEW c \in Contexts, Inv, Enter(c) PROVE Inv'
  OBVIOUS
<1> DEFINE x == sar[c]
           y == Entered(x)
<1>1. y \in Context /\ y.State = x.State /\ Sound(y, Listed(c), RxOf(c), UnOf(c))
  BY OfContext, EnterSound DEF Enter
<1>2. sar' = [sar EXCEPT ![c] = y]
  BY DEF Enter
<1> HIDE DEF y
<1>3. reply' \in Replies /\ out' \in Int
  BY OfContext DEF Enter
<1>4. QED
  BY <1>1, <1>2, <1>3, CallbackStep DEF Enter

LEMMA LateEnterStep == \A c \in Contexts : Inv /\ LateEnter(c) => Inv'
<1> SUFFICES ASSUME NEW c \in Contexts, Inv, LateEnter(c) PROVE Inv'
  OBVIOUS
<1> DEFINE x == sar[c]
           y == EnteredLate(x)
<1>1. y \in Context /\ y.State = x.State /\ Sound(y, Listed(c), RxOf(c), UnOf(c))
  BY OfContext, LateEnterSound DEF LateEnter
<1>2. sar' = [sar EXCEPT ![c] = y]
  BY DEF LateEnter
<1> HIDE DEF y
<1>3. reply' \in Replies /\ out' \in Int
  BY OfContext DEF LateEnter
<1>4. QED
  BY <1>1, <1>2, <1>3, CallbackStep DEF LateEnter

LEMMA StaleStep == \A c \in Contexts : Inv /\ Stale(c) => Inv'
<1> SUFFICES ASSUME NEW c \in Contexts, Inv, Stale(c) PROVE Inv'
  OBVIOUS
<1> DEFINE y == Returned(sar[c])
<1>1. y \in Context /\ y.State = sar[c].State /\ Sound(y, Listed(c), RxOf(c), UnOf(c))
  BY OfContext, StaleSound DEF Stale
<1>2. sar' = [sar EXCEPT ![c] = y]
  BY DEF Stale
<1> HIDE DEF y
<1>3. reply' \in Replies /\ out' \in Int
  BY OfContext DEF Stale
<1>4. QED
  BY <1>1, <1>2, <1>3, CallbackStep DEF Stale

LEMMA ExpireStep == \A c \in Contexts : Inv /\ Expire(c) => Inv'
<1> SUFFICES ASSUME NEW c \in Contexts, Inv, Expire(c) PROVE Inv'
  OBVIOUS
<1> DEFINE x == sar[c]
           y == [Destroy(x) EXCEPT !.due = "unlist"]
<1>1. y \in Context /\ y.State = "destroy" /\ Sound(y, Listed(c), RxOf(c), UnOf(c))
  BY OfContext, ExpireSound DEF Expire
<1>2. sar' = [sar EXCEPT ![c] = y]
  BY DEF Expire
<1>3. x \in Context /\ x.key \in Keys \cup {None} /\ x.RecvHead \in Seq(AllPackets)
  BY OfContext DEF Context
<1> HIDE DEF x, y
<1>4. reply' \in Replies
  BY <1>3, OfContext, AnswerTyped DEF Expire, x
<1>5. out' \in Int
  <2>1. Len(x.RecvHead) \in Int
    BY <1>3, LenProperties
  <2>2. out' = out - Len(x.RecvHead)
    BY DEF Expire, x
  <2>3. QED
    BY <2>1, <2>2, OfContext
<1>6. QED
  BY <1>1, <1>2, <1>4, <1>5, CallbackStep DEF Expire

LEMMA ExpireDropStep == \A c \in Contexts : Inv /\ ExpireDrop(c) => Inv'
<1> SUFFICES ASSUME NEW c \in Contexts, Inv, ExpireDrop(c) PROVE Inv'
  OBVIOUS
<1> DEFINE y == Decrement([sar[c] EXCEPT !.due = "none"])
<1>1. y \in Context /\ y.State = sar[c].State /\ Sound(y, Listed(c), RxOf(c), UnOf(c))
  <2> DEFINE x == sar[c]
  <2>1. /\ x \in Context /\ Sound(x, Listed(c), RxOf(c), UnOf(c))
        /\ x.due = "drop" \/ (x.due = "wait" /\ x.State = "destroy")
    BY OfContext DEF ExpireDrop
  <2> HIDE DEF x
  <2>2. LET z == Decrement([x EXCEPT !.due = "none"])
        IN  z \in Context /\ z.State = x.State /\ Sound(z, Listed(c), RxOf(c), UnOf(c))
    BY <2>1, ExpireDropSound
  <2>3. QED
    BY <2>2 DEF x
<1>2. sar' = [sar EXCEPT ![c] = y]
  BY DEF ExpireDrop
<1> HIDE DEF y
<1>3. reply' \in Replies /\ out' \in Int
  BY OfContext DEF ExpireDrop
<1>4. QED
  BY <1>1, <1>2, <1>3, CallbackStep DEF ExpireDrop

LEMMA ExpireUnlistStep == \A c \in Contexts : Inv /\ ExpireUnlist(c) => Inv'
<1> SUFFICES ASSUME NEW c \in Contexts, Inv, ExpireUnlist(c) PROVE Inv'
  OBVIOUS
<1> DEFINE x == sar[c]
           y == Decrement([x EXCEPT !.due = "drop"])
<1>1. /\ x.due = "unlist" /\ Unlist(c) /\ sar' = [sar EXCEPT ![c] = y]
      /\ UNCHANGED <<message, rx, unload, reply, given, out, packets>>
  BY DEF ExpireUnlist
<1>2. /\ recvList' \in Seq(Contexts) /\ NoTwice'
      /\ Listed(c) /\ ~Listed(c)'
      /\ \A d \in Contexts \ {c} : Listed(d)' <=> Listed(d)
  BY <1>1, Unlisted DEF Inv
<1>3. x \in Context /\ Sound(x, TRUE, RxOf(c), UnOf(c))
  BY <1>2, OfContext, SoundSame
<1>4. y \in Context /\ y.State = x.State /\ Sound(y, FALSE, RxOf(c), UnOf(c))
  BY <1>1, <1>3, ExpireUnlistSound
<1> HIDE DEF y
<1>5. TypeOK'
  BY <1>1, <1>2, <1>4, Typed DEF Inv, TypeOK, Replies, Rxs
<1>6. \A d : RxOf(d)' = RxOf(d) /\ UnOf(d)' = UnOf(d)
  BY <1>1 DEF RxOf, UnOf
<1>7. AllSound'
  <2>1. Sound(y, Listed(c)', RxOf(c)', UnOf(c)')
    BY <1>2, <1>4, <1>6, SoundSame
  <2>2. QED
    BY <1>1, <1>2, <1>6, <2>1, Touch DEF Inv
<1>8. RxKnows'
  <2>1. sar'[c] = y /\ \A d \in Contexts \ {c} : sar'[d] = sar[d]
    BY <1>1 DEF Inv, TypeOK
  <2>2. rx.pc = "lock" => rx.c \in Contexts
    BY DEF Inv, RxKnows, TypeOK
  <2>3. QED
    BY <1>1, <1>4, <2>1, <2>2 DEF Inv, RxKnows
<1>9. UnloadKnows'
  BY <1>1 DEF Inv, UnloadKnows
<1>10. QED
  BY <1>2, <1>5, <1>7, <1>8, <1>9 DEF Inv

LEMMA ReapStep == \A c \in Contexts : Inv /\ Reap(c) => Inv'
<1> SUFFICES ASSUME NEW c \in Contexts, Inv, Reap(c) PROVE Inv'
  OBVIOUS
<1> DEFINE x == sar[c]
<1>1. /\ x.mem = "reap" /\ sar' = [sar EXCEPT ![c] = Unused]
      /\ out' = out - Len(x.RecvHead)
      /\ UNCHANGED <<message, recvList, rx, unload, reply, given, packets>>
  BY DEF Reap
<1>2. /\ x \in Context /\ Sound(x, Listed(c), RxOf(c), UnOf(c))
      /\ reply \in Replies /\ out \in Int
  BY OfContext
<1>3. ~Listed(c) /\ RxOf(c) = "none" /\ UnOf(c) = "none"
  BY <1>1, <1>2, HeldIsLive
<1>4. Unused \in Context /\ Sound(Unused, Listed(c), RxOf(c), UnOf(c))
  BY <1>3, FreshSound
<1>5. TypeOK'
  <2>1. x.RecvHead \in Seq(AllPackets)
    BY <1>2 DEF Context
  <2>2. Len(x.RecvHead) \in Int
    BY <2>1, LenProperties
  <2>3. out' \in Int
    BY <1>1, <1>2, <2>2
  <2>4. QED
    BY <1>1, <1>4, <2>3, Typed DEF Inv, TypeOK, Replies, Rxs
<1>6. NoTwice'
  BY <1>1 DEF Inv, NoTwice
<1>7. AllSound'
  BY <1>1, <1>4, TouchOnly DEF Inv
<1>8. RxKnows'
  <2>1. \A d \in Contexts \ {c} : sar'[d] = sar[d]
    BY <1>1 DEF Inv, TypeOK
  <2>2. rx.pc = "lock" => rx.c \in Contexts \ {c}
    BY <1>3 DEF Inv, RxKnows, TypeOK, RxOf
  <2>3. QED
    BY <1>1, <2>1, <2>2 DEF Inv, RxKnows
<1>9. UnloadKnows'
  BY <1>1 DEF Inv, UnloadKnows
<1>10. QED
  BY <1>5, <1>6, <1>7, <1>8, <1>9 DEF Inv

-----------------------------------------------------------------------------
\* The steps of the unloader.

\* No event thread is left when the unloader is at work.
LEMMA NoRx ==
    ASSUME Inv, unload.pc # "off"
    PROVE  /\ rx.pc = "idle" /\ rx.c = None
           /\ \A c \in Contexts : RxOf(c) = "none"
BY RmppAssumption DEF Inv, UnloadKnows, RxKnows, RxOf, RmppAssumption

LEMMA UnloaderStep ==
    ASSUME Inv, NEW c \in Contexts, NEW y \in Context, sar' = [sar EXCEPT ![c] = y],
           unload.pc # "off", unload.c \in {None, c},
           unload' \in [pc : {"off", "scan", "stop", "unlist", "reap", "done"},
                        c : Contexts \cup {None}, armed : BOOLEAN],
           \/ unload'.c = c /\ unload'.pc \in {"stop", "unlist", "reap"}
           \/ unload'.c = None /\ unload'.pc = "scan",
           unload'.pc = "stop" => unload'.armed,
           recvList' \in Seq(Contexts), NoTwice',
           \A d \in Contexts \ {c} : Listed(d)' <=> Listed(d),
           NEW u, u = (IF unload'.c = c THEN unload'.pc ELSE "none"),
           Sound(y, Listed(c)', "none", u),
           UNCHANGED <<message, rx, reply, given, packets>>, out' \in Int
    PROVE  Inv'
<1>1. /\ rx.pc = "idle" /\ rx.c = None
      /\ \A d \in Contexts : RxOf(d) = "none"
  BY NoRx
<1>2. TypeOK'
  BY Typed DEF Inv, TypeOK, Replies, Rxs
<1>3. AllSound'
  <2>1. RxOf(c)' = "none" /\ UnOf(c)' = u
    BY <1>1, RmppAssumption DEF RxOf, UnOf, RmppAssumption
  <2>2. \A d \in Contexts \ {c} : RxOf(d)' = RxOf(d) /\ UnOf(d)' = UnOf(d)
    BY <1>1, RmppAssumption DEF RxOf, UnOf, RmppAssumption
  <2>3. Sound(y, Listed(c)', RxOf(c)', UnOf(c)')
    BY <2>1
  <2>4. QED
    BY <2>2, <2>3, Touch DEF Inv
<1>4. RxKnows'
  BY <1>1 DEF RxKnows
<1>5. UnloadKnows'
  BY <1>1, RmppAssumption DEF UnloadKnows, RmppAssumption
<1>6. QED
  BY <1>2, <1>3, <1>4, <1>5 DEF Inv

\* The context that the unloader is at.
LEMMA Unloads ==
    ASSUME Inv, unload.pc \in {"stop", "unlist", "reap"}
    PROVE  /\ unload.c \in Contexts
           /\ sar[unload.c] \in Context
           /\ Sound(sar[unload.c], Listed(unload.c), "none", unload.pc)
<1>1. unload.c \in Contexts
  BY DEF Inv, UnloadKnows, TypeOK
<1>2. RxOf(unload.c) = "none" /\ UnOf(unload.c) = unload.pc
  BY <1>1, NoRx DEF UnOf
<1>3. QED
  BY <1>1, <1>2, OfContext

LEMMA UnloadStep == Inv /\ Unload => Inv'
<1> SUFFICES ASSUME Inv, Unload PROVE Inv'
  OBVIOUS
<1>1. /\ unload.pc = "off" /\ unload.c = None /\ rx.pc = "idle" /\ rx.c = None
      /\ unload' = [unload EXCEPT !.pc = "scan"]
      /\ UNCHANGED <<message, sar, recvList, rx, reply, given, out, packets>>
  BY DEF Unload, Inv, UnloadKnows, RxKnows
<1>2. TypeOK'
  BY <1>1 DEF Inv, TypeOK
<1>3. unload'.pc = "scan" /\ unload'.c = None
  BY <1>1 DEF Inv, TypeOK
<1>4. NoTwice' /\ RxKnows'
  BY <1>1 DEF Inv, NoTwice, RxKnows
<1>5. AllSound'
  <2>1. \A d \in Contexts : RxOf(d)' = RxOf(d) /\ UnOf(d)' = UnOf(d)
    BY <1>1, <1>3, RmppAssumption DEF RxOf, UnOf, RmppAssumption
  <2>2. QED
    BY <1>1, <2>1, TouchNone DEF Inv
<1>6. UnloadKnows'
  BY <1>1, <1>3 DEF UnloadKnows
<1>7. QED
  BY <1>2, <1>4, <1>5, <1>6 DEF Inv

LEMMA UnloadedStep == Inv /\ Unloaded => Inv'
<1> SUFFICES ASSUME Inv, Unloaded PROVE Inv'
  OBVIOUS
<1>1. /\ unload.pc = "scan" /\ unload.c = None /\ rx.pc = "idle" /\ rx.c = None
      /\ unload' = [unload EXCEPT !.pc = "done"]
      /\ UNCHANGED <<message, sar, recvList, rx, reply, given, out, packets>>
  BY DEF Unloaded, Inv, UnloadKnows, RxKnows
<1>2. TypeOK'
  BY <1>1 DEF Inv, TypeOK
<1>3. unload'.pc = "done" /\ unload'.c = None
  BY <1>1 DEF Inv, TypeOK
<1>4. NoTwice' /\ RxKnows'
  BY <1>1 DEF Inv, NoTwice, RxKnows
<1>5. AllSound'
  <2>1. \A d \in Contexts : RxOf(d)' = RxOf(d) /\ UnOf(d)' = UnOf(d)
    BY <1>1, <1>3, RmppAssumption DEF RxOf, UnOf, RmppAssumption
  <2>2. QED
    BY <1>1, <2>1, TouchNone DEF Inv
<1>6. UnloadKnows'
  BY <1>1, <1>3 DEF UnloadKnows
<1>7. QED
  BY <1>2, <1>4, <1>5, <1>6 DEF Inv

LEMMA UnloadDestroyStep == Inv /\ UnloadDestroy => Inv'
<1> SUFFICES ASSUME Inv, UnloadDestroy PROVE Inv'
  OBVIOUS
<1>1. recvList \in Seq(Contexts) /\ recvList # <<>>
  BY DEF UnloadDestroy, Inv, TypeOK
<1>2. 1 \in DOMAIN recvList /\ recvList[1] \in Contexts
  BY <1>1, EmptySeq, LenProperties, ElementOfSeq
<1>3. PICK c \in Contexts : c = recvList[1]
  BY <1>2
<1> DEFINE x == sar[c]
           y == Destroy(Increment(x))
<1>4. /\ unload.pc = "scan" /\ x.State # "destroy"
      /\ unload' = [pc |-> "stop", c |-> c, armed |-> x.State \in Armed]
      /\ sar' = [sar EXCEPT ![c] = y]
      /\ out' = out - Len(x.RecvHead)
      /\ UNCHANGED <<message, recvList, rx, reply, given, packets>>
  BY <1>3 DEF UnloadDestroy
<1>5. unload.c = None
  BY <1>4 DEF Inv, UnloadKnows
<1>6. RxOf(c) = "none" /\ UnOf(c) = "none"
  BY <1>4, <1>5, NoRx, RmppAssumption DEF UnOf, RmppAssumption
<1>7. Listed(c) /\ x \in Context /\ Sound(x, Listed(c), "none", "none") /\ out \in Int
  BY <1>2, <1>3, <1>6, OfContext DEF Listed
<1>8. Sound(x, TRUE, "none", "none")
  BY <1>7, SoundSame
<1> HIDE DEF x
<1>9. y \in Context /\ x.State \in Armed /\ Sound(y, TRUE, "none", "stop")
  BY <1>4, <1>7, <1>8, UnloadDestroySound
<1> HIDE DEF y
<1>10. /\ unload' \in [pc : {"off", "scan", "stop", "unlist", "reap", "done"},
                       c : Contexts \cup {None}, armed : BOOLEAN]
       /\ unload'.c = c /\ unload'.pc = "stop" /\ unload'.armed
  BY <1>4, <1>9
<1>11. recvList' \in Seq(Contexts) /\ NoTwice' /\ \A d : Listed(d)' <=> Listed(d)
  BY <1>1, <1>4 DEF Inv, NoTwice, Listed
<1>12. Sound(y, Listed(c)', "none", "stop")
  BY <1>7, <1>9, <1>11, SoundSame
<1>13. out' \in Int
  <2>1. x.RecvHead \in Seq(AllPackets)
    BY <1>7 DEF Context
  <2>2. Len(x.RecvHead) \in Int
    BY <2>1, LenProperties
  <2>3. QED
    BY <1>4, <1>7, <2>2
<1>14. QED
  BY <1>4, <1>5, <1>9, <1>10, <1>11, <1>12, <1>13, UnloaderStep

LEMMA UnloadStopStep == Inv /\ UnloadStop => Inv'
<1> SUFFICES ASSUME Inv, UnloadStop PROVE Inv'
  OBVIOUS
<1>1. PICK c \in Contexts : c = unload.c
  BY Unloads DEF UnloadStop
<1> DEFINE x == sar[c]
           y == StopTimer(x)
<1>2. unload.pc = "stop" /\ unload.armed
  BY DEF UnloadStop, Inv, UnloadKnows
<1>3. /\ sar' = [sar EXCEPT ![c] = y]
      /\ unload' = [unload EXCEPT !.pc = "unlist"]
      /\ UNCHANGED <<message, recvList, rx, reply, given, out, packets>>
  BY <1>1, <1>2 DEF UnloadStop
<1>4. x \in Context /\ Sound(x, Listed(c), "none", "stop")
  BY <1>1, <1>2, Unloads
<1> HIDE DEF x
<1>5. Listed(c)
  <2>1. Staged(x, Listed(c), "none", "stop")
    BY <1>4, HeldIsLive
  <2>2. QED
    BY <1>4, <2>1 DEF Staged, Armed, Context, States
<1>6. Sound(x, TRUE, "none", "stop")
  BY <1>4, <1>5, SoundSame
<1>7. y \in Context /\ Sound(y, TRUE, "none", "unlist")
  BY <1>4, <1>6, UnloadStopSound
<1> HIDE DEF y
<1>8. /\ unload' \in [pc : {"off", "scan", "stop", "unlist", "reap", "done"},
                      c : Contexts \cup {None}, armed : BOOLEAN]
      /\ unload'.c = c /\ unload'.pc = "unlist"
  BY <1>1, <1>3 DEF Inv, TypeOK
<1>9. /\ recvList' \in Seq(Contexts) /\ NoTwice' /\ out' \in Int
      /\ \A d : Listed(d)' <=> Listed(d)
  BY <1>3 DEF Inv, TypeOK, NoTwice, Listed
<1>10. Sound(y, Listed(c)', "none", "unlist")
  BY <1>5, <1>7, <1>9, SoundSame
<1>11. QED
  BY <1>1, <1>2, <1>3, <1>7, <1>8, <1>9, <1>10, UnloaderStep

LEMMA UnloadUnlistStep == Inv /\ UnloadUnlist => Inv'
<1> SUFFICES ASSUME Inv, UnloadUnlist PROVE Inv'
  OBVIOUS
<1>1. PICK c \in Contexts : c = unload.c
  BY Unloads DEF UnloadUnlist
<1> DEFINE x == sar[c]
           y == Decrement(x)
<1>2. /\ unload.pc = "unlist" /\ Unlist(c)
      /\ sar' = [sar EXCEPT ![c] = y]
      /\ unload' = [unload EXCEPT !.pc = "reap"]
      /\ UNCHANGED <<message, rx, reply, given, out, packets>>
  BY <1>1 DEF UnloadUnlist
<1>3. /\ recvList' \in Seq(Contexts) /\ NoTwice'
      /\ Listed(c) /\ ~Listed(c)'
      /\ \A d \in Contexts \ {c} : Listed(d)' <=> Listed(d)
  BY <1>2, Unlisted DEF Inv
<1>4. x \in Context /\ Sound(x, Listed(c), "none", "unlist")
  BY <1>1, <1>2, Unloads
<1> HIDE DEF x
<1>5. Sound(x, TRUE, "none", "unlist")
  BY <1>3, <1>4, SoundSame
<1>6. x.mem = "live"
  BY <1>4, <1>5, HeldIsLive
<1>7. /\ "none" \in RxPcs /\ "unlist" \in UnloadPcs /\ "reap" \in UnloadPcs
  BY DEF UnloadPcs, RxPcs
<1>8. Sound(y, FALSE, "none", "reap")
  BY <1>4, <1>5, <1>6, <1>7, UnlistSound
<1>9. y \in Context
  BY <1>4, <1>6, Decremented
<1> HIDE DEF y
<1>10. /\ unload' \in [pc : {"off", "scan", "stop", "unlist", "reap", "done"},
                       c : Contexts \cup {None}, armed : BOOLEAN]
       /\ unload'.c = c /\ unload'.pc = "reap"
  BY <1>1, <1>2 DEF Inv, TypeOK
<1>11. Sound(y, Listed(c)', "none", "reap")
  BY <1>3, <1>8, SoundSame
<1>12. out' \in Int
  BY <1>2 DEF Inv, TypeOK
<1>13. QED
  BY <1>1, <1>2, <1>3, <1>9, <1>10, <1>11, <1>12, UnloaderStep

LEMMA UnloadReapStep == Inv /\ UnloadReap => Inv'
<1> SUFFICES ASSUME Inv, UnloadReap PROVE Inv'
  OBVIOUS
<1>1. PICK c \in Contexts : c = unload.c
  BY Unloads DEF UnloadReap
<1> DEFINE x == sar[c]
<1>2. /\ unload.pc = "reap" /\ Quiet(x)
      /\ sar' = [sar EXCEPT ![c] = Unused]
      /\ out' = out - Len(x.RecvHead)
      /\ unload' = [pc |-> "scan", c |-> None, armed |-> FALSE]
      /\ UNCHANGED <<message, recvList, rx, reply, given, packets>>
  BY <1>1 DEF UnloadReap
<1>3. x \in Context /\ Sound(x, Listed(c), "none", "reap") /\ out \in Int
  BY <1>1, <1>2, Unloads, OfContext
<1> HIDE DEF x
<1>4. ~Listed(c)
  <2>1. Staged(x, Listed(c), "none", "reap")
    BY <1>3, HeldIsLive
  <2>2. QED
    BY <1>2, <1>3, <2>1 DEF Quiet, Staged, Armed, Context, States
<1>5. Unused \in Context
  BY FreshSound
<1>6. /\ recvList' \in Seq(Contexts) /\ NoTwice'
      /\ \A d : Listed(d)' <=> Listed(d)
  BY <1>2 DEF Inv, TypeOK, NoTwice, Listed
<1>7. Sound(Unused, Listed(c)', "none", "none")
  BY <1>4, <1>6, FreshSound
<1>8. unload'.c = None /\ unload'.pc = "scan" /\ c # None
  BY <1>2, RmppAssumption DEF RmppAssumption
<1>9. unload' \in [pc : {"off", "scan", "stop", "unlist", "reap", "done"},
                   c : Contexts \cup {None}, armed : BOOLEAN]
  BY <1>2
<1>10. out' \in Int
  <2>1. x.RecvHead \in Seq(AllPackets)
    BY <1>3 DEF Context
  <2>2. Len(x.RecvHead) \in Int
    BY <2>1, LenProperties
  <2>3. QED
    BY <1>2, <1>3, <2>2
<1>11. QED
  BY <1>1, <1>2, <1>5, <1>6, <1>7, <1>8, <1>9, <1>10, UnloaderStep

-----------------------------------------------------------------------------
\* The invariant is inductive.

LEMMA InvInit == Init => Inv
<1> SUFFICES ASSUME Init PROVE Inv
  OBVIOUS
<1>1. <<>> \in Seq(AllPackets) /\ <<>> \in Seq(Contexts)
  BY EmptySeq
<1>2. rx = Idle /\ rx \in Rxs /\ rx.pc = "idle" /\ rx.c = None
  BY IdleTyped DEF Init, Idle
<1>3. unload.pc = "off" /\ unload.c = None
  BY DEF Init
<1>4. TypeOK
  <2>1. sar \in [Contexts -> Context]
    BY FreshSound DEF Init
  <2>2. reply \in Replies
    BY DEF Init, Replies
  <2>3. QED
    BY <1>1, <1>2, <2>1, <2>2, Typed DEF Init
<1>5. NoTwice
  BY DEF Init, NoTwice
<1>6. AllSound
  <2>1. \A c \in Contexts : ~Listed(c) /\ RxOf(c) = "none" /\ UnOf(c) = "none"
    BY <1>2, <1>3, RmppAssumption DEF Init, Listed, RxOf, UnOf, RmppAssumption
  <2>2. \A c \in Contexts : sar[c] = Unused
    BY DEF Init
  <2>3. QED
    BY <2>1, <2>2, FreshSound DEF AllSound
<1>7. RxKnows /\ UnloadKnows
  BY <1>2, <1>3 DEF RxKnows, UnloadKnows
<1>8. QED
  BY <1>4, <1>5, <1>6, <1>7 DEF Inv

LEMMA InvStutter == Inv /\ UNCHANGED vars => Inv'
<1> SUFFICES ASSUME Inv, UNCHANGED vars PROVE Inv'
  OBVIOUS
<1>1. TypeOK' /\ NoTwice' /\ RxKnows' /\ UnloadKnows'
  BY DEF Inv, TypeOK, NoTwice, RxKnows, UnloadKnows, vars
<1>2. AllSound'
  <2>1. \A d \in Contexts : RxOf(d)' = RxOf(d) /\ UnOf(d)' = UnOf(d)
    BY DEF RxOf, UnOf, vars
  <2>2. QED
    BY <2>1, TouchNone DEF Inv, vars
<1>3. QED
  BY <1>1, <1>2 DEF Inv

LEMMA InvNext == Inv /\ [Next]_vars => Inv'
<1> SUFFICES ASSUME Inv, [Next]_vars PROVE Inv'
  OBVIOUS
<1>1. CASE \E p \in Packets : Arrive(p)
  BY <1>1, ArriveStep
<1>2. CASE Process
  BY <1>2, SkipDestroyedStep, RejectNewStep, NoRoomStep, CreateStep, BadStep, IgnoreStep,
     AckAgainStep, MisplacedAckStep, AbortedStep, UnexpectedStep, NoTimerStep,
     InconsistentStep, GotLastStep, ProceedStep, RxUnlistStep, RxDropStep DEF Process
<1>3. CASE \E c \in Contexts : Fire(c) \/ Callback(c) \/ Reap(c)
  BY <1>3, FireStep, EnterStep, LateEnterStep, StaleStep, ExpireStep, ExpireUnlistStep,
     ExpireDropStep, ReapStep DEF Callback
<1>4. CASE Unload \/ Unloading
  BY <1>4, UnloadStep, UnloadDestroyStep, UnloadStopStep, UnloadUnlistStep, UnloadReapStep,
     UnloadedStep DEF Unloading
<1>5. CASE UNCHANGED vars
  BY <1>5, InvStutter
<1>6. QED
  BY <1>1, <1>2, <1>3, <1>4, <1>5 DEF Next

LEMMA Invariance == Spec => []Inv
BY InvInit, InvNext, PTL DEF Spec

\* The variables have their types; every counter of a context that is counted down
\* in a callback, lateEnter and lateWait, stays a natural number.
THEOREM TypeCorrect == Spec => []TypeOK
<1>1. Inv => TypeOK
  BY DEF Inv
<1>2. QED
  BY <1>1, Invariance, PTL

\* What Holders counts is what Sound does.
LEMMA HoldersAre ==
    ASSUME Inv, NEW c \in Contexts
    PROVE  /\ Holders(c) = Others(Listed(c), RxOf(c), UnOf(c)) + TimerHolds(sar[c])
           /\ Counted(sar[c], Others(Listed(c), RxOf(c), UnOf(c)))
           /\ TimerHolds(sar[c]) \in Nat
<1>1. rx.c = c <=> RxOf(c) # "none"
  BY DEF RxOf, Inv, TypeOK
<1>2. unload.c = c <=> UnOf(c) # "none"
  BY DEF UnOf, Inv, TypeOK
<1>3. One(Listed(c)) = IF Listed(c) THEN 1 ELSE 0
  BY DEF One
<1>4. /\ One(rx.c = c) = IF RxOf(c) = "none" THEN 0 ELSE 1
      /\ One(unload.c = c) = IF UnOf(c) = "none" THEN 0 ELSE 1
  BY <1>1, <1>2 DEF One
<1>5. Others(Listed(c), RxOf(c), UnOf(c))
        = One(Listed(c)) + One(rx.c = c) + One(unload.c = c)
  BY <1>3, <1>4 DEF Others
<1>6. Counted(sar[c], Others(Listed(c), RxOf(c), UnOf(c))) /\ TimerHolds(sar[c]) \in Nat
  BY OfContext, HoldsNat DEF Sound
<1>7. QED
  BY <1>5, <1>6 DEF Holders

\* The reference count of a live context is always the number of those who will
\* give a reference back, and of those that nobody gives back (gsasar2.c).
THEOREM CountsAreRight == Spec => []RefsCounted
<1>1. Inv => RefsCounted
  <2> SUFFICES ASSUME Inv, NEW c \in Contexts, sar[c].mem = "live"
               PROVE  /\ sar[c].RefCount = Holders(c) + sar[c].lost
                      /\ sar[c].RefCount > 0
    BY DEF RefsCounted
  <2>1. QED
    BY HoldersAre DEF Counted
<1>2. QED
  BY <1>1, Invariance, PTL

\* A context that anybody still refers to is not with the reaper and not freed.
THEOREM NoUseAfterFree == Spec => []HeldLives
<1>1. Inv => HeldLives
  <2> SUFFICES ASSUME Inv, NEW c \in Contexts, sar[c].mem # "live"
               PROVE  Holders(c) = 0
    BY DEF HeldLives
  <2>1. QED
    BY HoldersAre DEF Counted
<1>2. QED
  BY <1>1, Invariance, PTL

\* A context in a state with a timer has one that runs or a callback that will find
\* it; one that is being destroyed has a timer only as long as the unloader is at it.
THEOREM EveryWaitEnds == Spec => []TimerRuns
<1>1. Inv => TimerRuns
  <2> SUFFICES ASSUME Inv, NEW c \in Contexts
               PROVE  LET x == sar[c]
                      IN  /\ x.mem = "live" /\ x.State \in Armed
                               => x.timer = "on" \/ x.due \in {"enter", "wait"}
                          /\ x.timer = "on" /\ x.State = "destroy" => unload.c = c
    BY DEF TimerRuns
  <2> DEFINE x == sar[c]
  <2>1. x \in Context /\ Sound(x, Listed(c), RxOf(c), UnOf(c))
    BY OfContext
  <2>2. ASSUME x.mem = "live", x.State \in Armed
        PROVE  x.timer = "on" \/ x.due \in {"enter", "wait"}
    BY <2>1, <2>2 DEF Sound, Staged, Waiting
  <2>3. ASSUME x.timer = "on", x.State = "destroy"
        PROVE  unload.c = c
    <3> HIDE DEF x
    <3>1. Staged(x, Listed(c), RxOf(c), UnOf(c))
      BY <2>1, <2>3, HeldIsLive
    <3>2. UnOf(c) = "stop"
      BY <2>3, <3>1 DEF Staged
    <3>3. QED
      BY <3>2 DEF UnOf
  <2>4. QED
    BY <2>2, <2>3
<1>2. QED
  BY <1>1, Invariance, PTL
=============================================================================
