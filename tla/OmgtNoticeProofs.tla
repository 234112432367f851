-------------------------- MODULE OmgtNoticeProofs --------------------------
(***************************************************************************)
(* Theorems about OmgtNotice, for any traps, registrations, messages,     *)
(* retries, buffers and room in the sockets, whatever is lost, delayed    *)
(* and reordered, and also where the lock is taken by a time-out.         *)
(***************************************************************************)
EXTENDS OmgtNotice, FiniteSetTheorems, TLAPS

\* Messages that are listed or on their way have been allocated.
AllAsked ==
    /\ \A m \in pending : asked[m] # None
    /\ \A x \in requests : asked[x[1]] # None

\* So have the registrations that are listed, being made, or walked along.
Allocated ==
    /\ \A r \in regs : trap[r] # None
    /\ upc \in {"qp", "post", "timer"} => cur \in Regs /\ trap[cur] # None
    /\ tpc = "reregister" => walk \subseteq Regs /\ \A r \in walk : trap[r] # None
    /\ tpc = "repost" => \A m \in walk : m \in Msgs => asked[m] # None
    /\ AllAsked

\* The message of a registration is listed and points back.
Linked(r) == regmsg[r] # None => regmsg[r] \in pending /\ owner[regmsg[r]] = r

\* The one being made is linked before it is listed.
AllLinked ==
    /\ upc # "closed" => \A r \in regs : Linked(r)
    /\ upc = "timer" => Linked(cur)

Inv == TypeOK /\ Allocated /\ AllLinked

-----------------------------------------------------------------------------
(* The helpers. *)

LEMMA Fresh == FreshMsgs \subseteq {m \in Msgs : asked[m] = None}
  BY DEF FreshMsgs

LEMMA FreshR == FreshRegs \subseteq {r \in Regs : trap[r] = None}
  BY DEF FreshRegs

\* Initially.
LEMMA InitInv == Init => Inv
<1> SUFFICES ASSUME Init PROVE Inv
  OBVIOUS
<1>1. RegsOK /\ MsgsOK
  BY NoticeAssumption DEF Init, RegsOK, MsgsOK
<1>2. PortOK
  <2>1. in = <<>> /\ out = <<>> /\ sem = 1 /\ timer = FALSE /\ polled = FALSE
    BY DEF Init
  <2>2. /\ in \in Seq({"on", "off", "timer", "shutdown"}) /\ Len(in) <= RoomIn
        /\ out \in Seq(Traps \cup Regs) /\ Len(out) <= RoomOut /\ sem \in Nat
    BY <2>1, NoticeAssumption
  <2>3. QED
    BY <2>1, <2>2 DEF PortOK
<1>3. QpOK /\ ThreadOK
  BY DEF Init, QpOK, ThreadOK
<1>4. UserOK
  BY DEF Init, UserOK
<1>5. SaOK
  <2>1. told = {} /\ subs = {} /\ event = FALSE /\ left = MaxEvents
    BY DEF Init
  <2>2. left \in 0..MaxEvents
    BY <2>1, NoticeAssumption
  <2>3. QED
    BY <2>1, <2>2 DEF SaOK
<1>6. Allocated /\ AllLinked
  BY DEF Init, Allocated, AllAsked, AllLinked, Linked
<1>7. QED
  BY <1>1, <1>2, <1>3, <1>4, <1>5, <1>6 DEF Inv, TypeOK

\* What a send adds is typed, and within the buffers of the queue pair.
LEMMA PostOK ==
    ASSUME MsgsOK, NEW m \in Msgs, NEW n \in 0..MaxRetries, Post(m, n)
    PROVE  /\ sending' \subseteq Msgs /\ cnt' \in Int /\ cnt' <= SendBufs
           /\ requests' \subseteq Msgs \X (0..MaxRetries)
           /\ requests' \subseteq requests \cup {<<m, n>>}
  BY NoticeAssumption DEF MsgsOK, Post, NoBuffers

\* A new message is typed, and allocated.
LEMMA NewMsgOK ==
    ASSUME MsgsOK, NEW m \in Msgs, NEW r \in Regs \cup {None}, NEW a \in Asked,
           NewMsg(m, r, a)
    PROVE  MsgsOK'
<1>1. Post(m, MaxRetries)
  BY DEF NewMsg
<1>2. /\ sending' \subseteq Msgs /\ cnt' \in Int /\ cnt' <= SendBufs
      /\ requests' \subseteq Msgs \X (0..MaxRetries)
  BY <1>1, PostOK, NoticeAssumption
<1>3. /\ pending' \subseteq Msgs /\ asked' \in [Msgs -> Asked \cup {None}]
      /\ owner' \in [Msgs -> Regs \cup {None}]
      /\ retries' \in [Msgs -> 0..MaxRetries]
  BY NoticeAssumption DEF MsgsOK, NewMsg
<1>4. QED
  BY <1>2, <1>3 DEF MsgsOK

LEMMA NewMsgAsked ==
    ASSUME MsgsOK, AllAsked, NEW m \in Msgs, NEW r, NEW a \in Asked, NewMsg(m,
            r, a)
    PROVE  AllAsked'
<1>1. asked' = [asked EXCEPT ![m] = a] /\ pending' = pending \cup {m}
  BY DEF NewMsg
<1>2. requests' \subseteq requests \cup {<<m, MaxRetries>>}
  BY PostOK, NoticeAssumption DEF NewMsg
<1>3. a # None
  BY NoticeAssumption
<1>4. QED
  BY <1>1, <1>2, <1>3 DEF AllAsked, MsgsOK

\* An allocated registration has a trap to ask for.
LEMMA AskedTyped ==
    ASSUME RegsOK, NEW r \in Regs, trap[r] # None
    PROVE  Subscription(r) \in Asked /\ Cancellation(r) \in Asked
  BY DEF RegsOK, Subscription, Cancellation, Asked

-----------------------------------------------------------------------------
(* The user's thread, and its reader. *)

LEMMA StepRegister ==
    ASSUME Inv, NEW t \in Traps, NEW r \in Regs, Register(t, r)
    PROVE  Inv'
<1> USE DEF Inv, TypeOK
<1>1. RegsOK'
  BY FreshR, NoticeAssumption DEF RegsOK, MsgsOK, Register
<1>2. PortOK'
  BY FreshR, NoticeAssumption DEF PortOK, Register, Lock
<1>3. UserOK'
  BY FreshR DEF UserOK, RegsOK, Register
<1>4. Allocated'
  BY FreshR, NoticeAssumption DEF Allocated, AllAsked, RegsOK, MsgsOK,
      ThreadOK, UserOK, Register, msgVars, thread
<1>5. AllLinked'
  BY FreshR, NoticeAssumption DEF AllLinked, Linked, RegsOK, MsgsOK, Allocated,
      AllAsked, Register, msgVars
<1>6. MsgsOK' /\ QpOK' /\ ThreadOK' /\ SaOK'
  BY DEF MsgsOK, QpOK, ThreadOK, SaOK, Register, msgVars, thread, sa
<1>7. QED
  BY <1>1, <1>2, <1>3, <1>4, <1>5, <1>6

LEMMA StepCreateQp ==
    ASSUME Inv, CreateQp
    PROVE  Inv'
<1> USE DEF Inv, TypeOK
<1>1. PortOK'
  BY NoticeAssumption DEF PortOK, CreateQp, ToThread
<1>2. UserOK'
  BY DEF UserOK, CreateQp
<1>3. Allocated'
  BY NoticeAssumption DEF Allocated, AllAsked, RegsOK, MsgsOK, ThreadOK,
      UserOK, CreateQp, regVars, msgVars, thread
<1>4. AllLinked'
  BY NoticeAssumption DEF AllLinked, Linked, RegsOK, MsgsOK, Allocated,
      AllAsked, CreateQp, regVars, msgVars
<1>5. RegsOK' /\ MsgsOK' /\ QpOK' /\ ThreadOK' /\ SaOK'
  BY DEF RegsOK, MsgsOK, QpOK, ThreadOK, SaOK, CreateQp, regVars, msgVars,
      thread, sa
<1>6. QED
  BY <1>1, <1>2, <1>3, <1>4, <1>5

LEMMA StepPostRegister ==
    ASSUME Inv, NEW m \in Msgs, PostRegister(m)
    PROVE  Inv'
<1> USE DEF Inv, TypeOK
<1>1. RegsOK'
  BY Fresh, NoticeAssumption DEF RegsOK, MsgsOK, PostRegister, Subscription
<1>2. MsgsOK'
  <2>1. Subscription(cur) \in Asked /\ cur \in Regs /\ asked[m] = None /\ m \in Msgs
    BY Fresh, AskedTyped DEF Allocated, PostRegister
  <2>2. NewMsg(m, cur, Subscription(cur))
    BY DEF PostRegister
  <2>3. QED
    BY <2>1, <2>2, NewMsgOK
<1>3. QpOK'
  BY Fresh DEF QpOK, MsgsOK, PostRegister, NewMsg, Post, NoBuffers
<1>4. UserOK'
  BY Fresh DEF UserOK, PostRegister
<1>5. Allocated'
  <2>1. Subscription(cur) \in Asked
    BY Fresh, AskedTyped DEF Allocated, PostRegister
  <2>2. NewMsg(m, cur, Subscription(cur))
    BY DEF PostRegister
  <2>3. AllAsked'
    BY <2>1, <2>2, Fresh, NewMsgAsked DEF Allocated, PostRegister
  <2>4. QED
    BY <2>1, <2>2, <2>3, NoticeAssumption DEF ThreadOK, UserOK, Allocated,
        MsgsOK, NewMsg, RegsOK, PostRegister, regVars, thread, user
<1>6. AllLinked'
  BY Fresh, NoticeAssumption DEF AllLinked, Linked, RegsOK, MsgsOK, Allocated,
      AllAsked, PostRegister, NewMsg, Subscription
<1>7. PortOK' /\ ThreadOK' /\ SaOK'
  BY DEF PortOK, ThreadOK, SaOK, PostRegister, thread, sa
<1>8. QED
  BY <1>1, <1>2, <1>3, <1>4, <1>5, <1>6, <1>7

LEMMA StepAddReg ==
    ASSUME Inv, AddReg
    PROVE  Inv'
<1> USE DEF Inv, TypeOK
<1>1. RegsOK'
  BY NoticeAssumption DEF RegsOK, Allocated, AddReg
<1>2. PortOK'
  BY NoticeAssumption DEF PortOK, AddReg, ToThread, Unlock
<1>3. UserOK'
  BY DEF UserOK, AddReg
<1>4. Allocated'
  BY NoticeAssumption DEF Allocated, AllAsked, RegsOK, MsgsOK, ThreadOK,
      UserOK, AddReg, msgVars, thread
<1>5. AllLinked'
  BY NoticeAssumption DEF AllLinked, Linked, RegsOK, MsgsOK, Allocated,
      AllAsked, AddReg, msgVars
<1>6. MsgsOK' /\ QpOK' /\ ThreadOK' /\ SaOK'
  BY DEF MsgsOK, QpOK, ThreadOK, SaOK, AddReg, msgVars, thread, sa
<1>7. QED
  BY <1>1, <1>2, <1>3, <1>4, <1>5, <1>6

LEMMA StepUnregister ==
    ASSUME Inv, NEW r \in Regs, Unregister(r)
    PROVE  Inv'
<1> USE DEF Inv, TypeOK
<1>1. RegsOK'
  BY Fresh, NoticeAssumption DEF RegsOK, MsgsOK, Unregister, DropReg,
      Cancellation
<1>2. MsgsOK'
  <2>1. CASE regmsg[r] # None
    BY <2>1, NoticeAssumption DEF Unregister, DropReg, Free, RegsOK, MsgsOK,
        ThreadOK, UserOK, regVars, msgVars, thread, user, sa
  <2>2. CASE regmsg[r] = None
    <3>1. PICK m \in FreshMsgs : NewMsg(m, None, Cancellation(r))
      BY <2>2 DEF Unregister, DropReg
    <3>2. Cancellation(r) \in Asked /\ m \in Msgs
      BY Fresh, AskedTyped DEF Allocated, RegsOK, Unregister
    <3>3. QED
      BY <3>1, <3>2, NewMsgOK
  <2>3. QED
    BY <2>1, <2>2
<1>3. QpOK'
  BY Fresh DEF QpOK, MsgsOK, Unregister, DropReg, NewMsg, Post, NoBuffers
<1>4. PortOK'
  BY Fresh, NoticeAssumption DEF PortOK, Unregister, DropReg, Lock
<1>5. UserOK'
  BY Fresh DEF UserOK, Unregister, DropReg
<1>6. Allocated'
  <2>1. CASE regmsg[r] # None
    BY <2>1 DEF Allocated, AllAsked, Unregister, DropReg, Free, RegsOK, MsgsOK,
        ThreadOK, UserOK, regVars, msgVars, thread, user, sa
  <2>2. CASE regmsg[r] = None
    <3>1. PICK m \in FreshMsgs : NewMsg(m, None, Cancellation(r))
      BY <2>2 DEF Unregister, DropReg
    <3>2. Cancellation(r) \in Asked /\ m \in Msgs
      BY Fresh, AskedTyped DEF Allocated, RegsOK, Unregister
    <3>3. AllAsked'
      BY <3>1, <3>2, Fresh, NewMsgAsked DEF Allocated
    <3>4. QED
      BY <2>2, <3>1, <3>2, <3>3, NoticeAssumption DEF Allocated, NewMsg,
          MsgsOK, Unregister, DropReg, RegsOK, ThreadOK, UserOK, regVars,
          msgVars, thread, user, sa
  <2>3. QED
    BY <2>1, <2>2
<1>7. AllLinked'
  BY Fresh, NoticeAssumption DEF AllLinked, Linked, RegsOK, MsgsOK, Allocated,
      AllAsked, Unregister, DropReg, NewMsg, Cancellation, Free
<1>8. ThreadOK' /\ SaOK'
  BY DEF ThreadOK, SaOK, Unregister, DropReg, thread, sa
<1>9. QED
  BY <1>1, <1>2, <1>3, <1>4, <1>5, <1>6, <1>7, <1>8

LEMMA StepUnregistered ==
    ASSUME Inv, Unregistered
    PROVE  Inv'
<1> USE DEF Inv, TypeOK
<1>1. PortOK'
  BY NoticeAssumption DEF PortOK, Unregistered, ToThread, Unlock
<1>2. UserOK'
  BY DEF UserOK, Unregistered
<1>3. Allocated'
  BY NoticeAssumption DEF Allocated, AllAsked, RegsOK, MsgsOK, ThreadOK,
      UserOK, Unregistered, regVars, msgVars, thread
<1>4. AllLinked'
  BY NoticeAssumption DEF AllLinked, Linked, RegsOK, MsgsOK, Allocated,
      AllAsked, Unregistered, regVars, msgVars
<1>5. RegsOK' /\ MsgsOK' /\ QpOK' /\ ThreadOK' /\ SaOK'
  BY DEF RegsOK, MsgsOK, QpOK, ThreadOK, SaOK, Unregistered, regVars, msgVars,
      thread, sa
<1>6. QED
  BY <1>1, <1>2, <1>3, <1>4, <1>5

LEMMA StepClose ==
    ASSUME Inv, Close
    PROVE  Inv'
<1> USE DEF Inv, TypeOK
<1>1. UserOK'
  BY DEF UserOK, Close
<1>2. Allocated'
  BY NoticeAssumption DEF Allocated, AllAsked, RegsOK, MsgsOK, ThreadOK,
      UserOK, Close, regVars, msgVars, thread
<1>3. AllLinked'
  BY NoticeAssumption DEF AllLinked, Linked, RegsOK, MsgsOK, Allocated,
      AllAsked, Close, regVars, msgVars
<1>4. RegsOK' /\ MsgsOK' /\ QpOK' /\ PortOK' /\ ThreadOK' /\ SaOK'
  BY DEF RegsOK, MsgsOK, QpOK, PortOK, ThreadOK, SaOK, Close, regVars, msgVars,
      thread, sa
<1>5. QED
  BY <1>1, <1>2, <1>3, <1>4

LEMMA StepClearRegs ==
    ASSUME Inv, ClearRegs
    PROVE  Inv'
<1> USE DEF Inv, TypeOK
<1>1. PortOK'
  BY NoticeAssumption DEF PortOK, ClearRegs, Lock
<1>2. UserOK'
  BY DEF UserOK, ClearRegs
<1>3. Allocated'
  BY NoticeAssumption DEF Allocated, AllAsked, RegsOK, MsgsOK, ThreadOK,
      UserOK, ClearRegs, regVars, msgVars, thread
<1>4. AllLinked'
  BY NoticeAssumption DEF AllLinked, Linked, RegsOK, MsgsOK, Allocated,
      AllAsked, ClearRegs, regVars, msgVars
<1>5. RegsOK' /\ MsgsOK' /\ QpOK' /\ ThreadOK' /\ SaOK'
  BY DEF RegsOK, MsgsOK, QpOK, ThreadOK, SaOK, ClearRegs, regVars, msgVars,
      thread, sa
<1>6. QED
  BY <1>1, <1>2, <1>3, <1>4, <1>5

LEMMA StepClearReg ==
    ASSUME Inv, NEW r \in Regs, ClearReg(r)
    PROVE  Inv'
<1> USE DEF Inv, TypeOK
<1>1. RegsOK'
  BY Fresh, NoticeAssumption DEF RegsOK, MsgsOK, ClearReg, DropReg, Cancellation
<1>2. MsgsOK'
  <2>1. CASE regmsg[r] # None
    BY <2>1, NoticeAssumption DEF ClearReg, DropReg, Free, RegsOK, MsgsOK,
        ThreadOK, UserOK, regVars, msgVars, thread, user, sa
  <2>2. CASE regmsg[r] = None
    <3>1. PICK m \in FreshMsgs : NewMsg(m, None, Cancellation(r))
      BY <2>2 DEF ClearReg, DropReg
    <3>2. Cancellation(r) \in Asked /\ m \in Msgs
      BY Fresh, AskedTyped DEF Allocated, RegsOK, ClearReg
    <3>3. QED
      BY <3>1, <3>2, NewMsgOK
  <2>3. QED
    BY <2>1, <2>2
<1>3. QpOK'
  BY Fresh DEF QpOK, MsgsOK, ClearReg, DropReg, NewMsg, Post, NoBuffers
<1>4. UserOK'
  BY Fresh DEF UserOK, ClearReg, DropReg
<1>5. Allocated'
  <2>1. CASE regmsg[r] # None
    BY <2>1 DEF Allocated, AllAsked, ClearReg, DropReg, Free, RegsOK, MsgsOK,
        ThreadOK, UserOK, regVars, msgVars, thread, user, sa
  <2>2. CASE regmsg[r] = None
    <3>1. PICK m \in FreshMsgs : NewMsg(m, None, Cancellation(r))
      BY <2>2 DEF ClearReg, DropReg
    <3>2. Cancellation(r) \in Asked /\ m \in Msgs
      BY Fresh, AskedTyped DEF Allocated, RegsOK, ClearReg
    <3>3. AllAsked'
      BY <3>1, <3>2, Fresh, NewMsgAsked DEF Allocated
    <3>4. QED
      BY <2>2, <3>1, <3>2, <3>3, NoticeAssumption DEF Allocated, NewMsg,
          MsgsOK, ClearReg, DropReg, RegsOK, ThreadOK, UserOK, regVars,
          msgVars, thread, user, sa
  <2>3. QED
    BY <2>1, <2>2
<1>6. AllLinked'
  BY Fresh, NoticeAssumption DEF AllLinked, Linked, RegsOK, MsgsOK, Allocated,
      AllAsked, ClearReg, DropReg, NewMsg, Cancellation, Free
<1>7. PortOK' /\ ThreadOK' /\ SaOK'
  BY DEF PortOK, ThreadOK, SaOK, ClearReg, DropReg, thread, sa
<1>8. QED
  BY <1>1, <1>2, <1>3, <1>4, <1>5, <1>6, <1>7

LEMMA StepCleared ==
    ASSUME Inv, Cleared
    PROVE  Inv'
<1> USE DEF Inv, TypeOK
<1>1. PortOK'
  BY NoticeAssumption DEF PortOK, Cleared, Unlock
<1>2. UserOK'
  BY DEF UserOK, Cleared
<1>3. Allocated'
  BY NoticeAssumption DEF Allocated, AllAsked, RegsOK, MsgsOK, ThreadOK,
      UserOK, Cleared, regVars, msgVars, thread
<1>4. AllLinked'
  BY NoticeAssumption DEF AllLinked, Linked, RegsOK, MsgsOK, Allocated,
      AllAsked, Cleared, regVars, msgVars
<1>5. RegsOK' /\ MsgsOK' /\ QpOK' /\ ThreadOK' /\ SaOK'
  BY DEF RegsOK, MsgsOK, QpOK, ThreadOK, SaOK, Cleared, regVars, msgVars,
      thread, sa
<1>6. QED
  BY <1>1, <1>2, <1>3, <1>4, <1>5

LEMMA StepStopMonitor ==
    ASSUME Inv, StopMonitor
    PROVE  Inv'
<1> USE DEF Inv, TypeOK
<1>1. PortOK'
  BY NoticeAssumption DEF PortOK, StopMonitor, ToThread
<1>2. UserOK'
  BY DEF UserOK, StopMonitor
<1>3. Allocated'
  BY NoticeAssumption DEF Allocated, AllAsked, RegsOK, MsgsOK, ThreadOK,
      UserOK, StopMonitor, regVars, msgVars, thread
<1>4. AllLinked'
  BY NoticeAssumption DEF AllLinked, Linked, RegsOK, MsgsOK, Allocated,
      AllAsked, StopMonitor, regVars, msgVars
<1>5. RegsOK' /\ MsgsOK' /\ QpOK' /\ ThreadOK' /\ SaOK'
  BY DEF RegsOK, MsgsOK, QpOK, ThreadOK, SaOK, StopMonitor, regVars, msgVars,
      thread, sa
<1>6. QED
  BY <1>1, <1>2, <1>3, <1>4, <1>5

LEMMA StepShutdown ==
    ASSUME Inv, Shutdown
    PROVE  Inv'
<1> USE DEF Inv, TypeOK
<1>1. PortOK'
  BY NoticeAssumption DEF PortOK, Shutdown, ToThread
<1>2. UserOK'
  BY DEF UserOK, Shutdown
<1>3. Allocated'
  BY NoticeAssumption DEF Allocated, AllAsked, RegsOK, MsgsOK, ThreadOK,
      UserOK, Shutdown, regVars, msgVars, thread
<1>4. AllLinked'
  BY NoticeAssumption DEF AllLinked, Linked, RegsOK, MsgsOK, Allocated,
      AllAsked, Shutdown, regVars, msgVars
<1>5. RegsOK' /\ MsgsOK' /\ QpOK' /\ ThreadOK' /\ SaOK'
  BY DEF RegsOK, MsgsOK, QpOK, ThreadOK, SaOK, Shutdown, regVars, msgVars,
      thread, sa
<1>6. QED
  BY <1>1, <1>2, <1>3, <1>4, <1>5

LEMMA StepJoin ==
    ASSUME Inv, Join
    PROVE  Inv'
<1> USE DEF Inv, TypeOK
<1>1. MsgsOK'
  BY NoticeAssumption DEF MsgsOK, Join
<1>2. UserOK'
  BY DEF UserOK, Join
<1>3. Allocated'
  BY NoticeAssumption DEF Allocated, AllAsked, RegsOK, MsgsOK, ThreadOK,
      UserOK, Join, regVars, thread
<1>4. AllLinked'
  BY NoticeAssumption DEF AllLinked, Linked, RegsOK, MsgsOK, Allocated,
      AllAsked, Join, regVars
<1>5. RegsOK' /\ QpOK' /\ PortOK' /\ ThreadOK' /\ SaOK'
  BY DEF RegsOK, QpOK, PortOK, ThreadOK, SaOK, Join, regVars, thread, sa
<1>6. QED
  BY <1>1, <1>2, <1>3, <1>4, <1>5

LEMMA StepGetReport ==
    ASSUME Inv, GetReport
    PROVE  Inv'
<1> USE DEF Inv, TypeOK
<1>1. PortOK'
  BY NoticeAssumption DEF PortOK, GetReport
<1>2. RegsOK' /\ MsgsOK' /\ QpOK' /\ ThreadOK' /\ UserOK' /\ SaOK' /\ Allocated' /\ AllLinked'
  BY DEF RegsOK, MsgsOK, QpOK, ThreadOK, UserOK, SaOK, Allocated, AllLinked,
      Linked, AllAsked, GetReport, regVars, msgVars, thread, user, sa
<1>3. QED
  BY <1>1, <1>2

-----------------------------------------------------------------------------
(* The port thread. *)

LEMMA StepTakeMessage ==
    ASSUME Inv, TakeMessage
    PROVE  Inv'
<1> USE DEF Inv, TypeOK
<1>1. PortOK'
  <2>1. /\ in \in Seq({"on", "off", "timer", "shutdown"}) /\ in # <<>>
        /\ in' = Tail(in)
    BY DEF TakeMessage, PortOK
  <2>2. /\ in' \in Seq({"on", "off", "timer",
          "shutdown"}) /\ Len(in') = Len(in) - 1
        /\ Len(in) \in Nat
    BY <2>1
  <2>3. timer' \in BOOLEAN
    BY DEF TakeMessage, PortOK
  <2>4. polled' \in BOOLEAN
    BY DEF TakeMessage, PortOK
  <2>5. Len(in') <= RoomIn
    BY <2>2, NoticeAssumption DEF PortOK
  <2>6. QED
    BY <2>2, <2>3, <2>4, <2>5 DEF TakeMessage, PortOK
<1>2. ThreadOK'
  BY DEF ThreadOK, TakeMessage
<1>3. Allocated'
  BY NoticeAssumption DEF Allocated, AllAsked, RegsOK, MsgsOK, ThreadOK,
      UserOK, TakeMessage, regVars, msgVars, user
<1>4. RegsOK' /\ MsgsOK' /\ QpOK' /\ UserOK' /\ SaOK' /\ AllLinked'
  BY DEF RegsOK, MsgsOK, QpOK, UserOK, SaOK, AllLinked, Linked, TakeMessage,
      regVars, msgVars, user, sa
<1>5. QED
  BY <1>1, <1>2, <1>3, <1>4

LEMMA StepProcessGetResp ==
    ASSUME Inv, NEW x \in answers, ProcessGetResp(x)
    PROVE  Inv'
<1> USE DEF Inv, TypeOK
<1>1. RegsOK'
  BY NoticeAssumption DEF RegsOK, MsgsOK, ProcessGetResp, Find, Complete
<1>2. MsgsOK'
  BY NoticeAssumption DEF MsgsOK, ProcessGetResp, Find, Free
<1>3. QpOK'
  BY DEF QpOK, MsgsOK, ProcessGetResp
<1>4. PortOK'
  BY NoticeAssumption DEF PortOK, ProcessGetResp, Section, Unlock
<1>5. Allocated'
  BY NoticeAssumption DEF Allocated, AllAsked, RegsOK, MsgsOK, ThreadOK,
      UserOK, ProcessGetResp, Find, Free, thread, user
<1>6. AllLinked'
  BY NoticeAssumption DEF AllLinked, Linked, RegsOK, MsgsOK, Allocated,
      AllAsked, ProcessGetResp, Find, Complete, Free, user
<1>7. ThreadOK' /\ UserOK' /\ SaOK'
  BY DEF ThreadOK, UserOK, SaOK, ProcessGetResp, thread, user, sa
<1>8. QED
  BY <1>1, <1>2, <1>3, <1>4, <1>5, <1>6, <1>7

LEMMA StepProcessReport ==
    ASSUME Inv, NEW t \in Traps, ProcessReport(t)
    PROVE  Inv'
<1> USE DEF Inv, TypeOK
<1>1. QpOK'
  BY DEF QpOK, MsgsOK, ProcessReport, msgVars
<1>2. ThreadOK'
  BY DEF ThreadOK, ProcessReport
<1>3. Allocated'
  BY NoticeAssumption DEF Allocated, AllAsked, RegsOK, MsgsOK, ThreadOK,
      UserOK, ProcessReport, regVars, msgVars, user
<1>4. RegsOK' /\ MsgsOK' /\ PortOK' /\ UserOK' /\ SaOK' /\ AllLinked'
  BY DEF RegsOK, MsgsOK, PortOK, UserOK, SaOK, AllLinked, Linked,
      ProcessReport, regVars, msgVars, user, sa
<1>5. QED
  BY <1>1, <1>2, <1>3, <1>4

LEMMA StepPassOn ==
    ASSUME Inv, NEW t \in Traps, PassOn(t)
    PROVE  Inv'
<1> USE DEF Inv, TypeOK
<1>1. PortOK'
  BY NoticeAssumption DEF PortOK, PassOn, ToUser
<1>2. ThreadOK'
  BY DEF ThreadOK, PassOn
<1>3. Allocated'
  BY NoticeAssumption DEF Allocated, AllAsked, RegsOK, MsgsOK, ThreadOK,
      UserOK, PassOn, regVars, msgVars, user
<1>4. RegsOK' /\ MsgsOK' /\ QpOK' /\ UserOK' /\ SaOK' /\ AllLinked'
  BY DEF RegsOK, MsgsOK, QpOK, UserOK, SaOK, AllLinked, Linked, PassOn,
      regVars, msgVars, user, sa
<1>5. QED
  BY <1>1, <1>2, <1>3, <1>4

LEMMA StepSendDone ==
    ASSUME Inv, NEW m \in Msgs, SendDone(m)
    PROVE  Inv'
<1> USE DEF Inv, TypeOK
<1>1. MsgsOK'
  BY NoticeAssumption DEF MsgsOK, SendDone
<1>2. QpOK'
  BY DEF QpOK, MsgsOK, SendDone
<1>3. PortOK'
  BY NoticeAssumption DEF PortOK, SendDone, Section, Unlock
<1>4. RegsOK' /\ ThreadOK' /\ UserOK' /\ SaOK' /\ Allocated' /\ AllLinked'
  BY DEF RegsOK, ThreadOK, UserOK, SaOK, Allocated, AllLinked, Linked,
      AllAsked, SendDone, regVars, thread, user, sa
<1>5. QED
  BY <1>1, <1>2, <1>3, <1>4

LEMMA StepReplyDone ==
    ASSUME Inv, ReplyDone
    PROVE  Inv'
<1> USE DEF Inv, TypeOK
<1>1. MsgsOK'
  BY NoticeAssumption DEF MsgsOK, ReplyDone
<1>2. QpOK'
  BY DEF QpOK, MsgsOK, ReplyDone
<1>3. PortOK'
  BY NoticeAssumption DEF PortOK, ReplyDone, Section, Unlock
<1>4. RegsOK' /\ ThreadOK' /\ UserOK' /\ SaOK' /\ Allocated' /\ AllLinked'
  BY DEF RegsOK, ThreadOK, UserOK, SaOK, Allocated, AllLinked, Linked,
      AllAsked, ReplyDone, regVars, thread, user, sa
<1>5. QED
  BY <1>1, <1>2, <1>3, <1>4

LEMMA StepPollTimeout ==
    ASSUME Inv, PollTimeout
    PROVE  Inv'
<1> USE DEF Inv, TypeOK
<1>1. PortOK'
  BY NoticeAssumption DEF PortOK, PollTimeout, Lock
<1>2. ThreadOK'
  BY DEF ThreadOK, RegsOK, MsgsOK, PollTimeout
<1>3. Allocated'
  BY NoticeAssumption DEF Allocated, AllAsked, RegsOK, MsgsOK, ThreadOK,
      UserOK, PollTimeout, regVars, msgVars, user
<1>4. RegsOK' /\ MsgsOK' /\ QpOK' /\ UserOK' /\ SaOK' /\ AllLinked'
  BY DEF RegsOK, MsgsOK, QpOK, UserOK, SaOK, AllLinked, Linked, PollTimeout,
      regVars, msgVars, user, sa
<1>5. QED
  BY <1>1, <1>2, <1>3, <1>4

LEMMA StepRepost ==
    ASSUME Inv, NEW m \in Msgs, Repost(m)
    PROVE  Inv'
<1> USE DEF Inv, TypeOK
<1>1. MsgsOK'
  BY NoticeAssumption DEF MsgsOK, Repost, CountDown, Post, NoBuffers
<1>2. QpOK'
  BY DEF QpOK, MsgsOK, Repost, Post, NoBuffers
<1>3. ThreadOK'
  BY DEF ThreadOK, Repost
<1>4. Allocated'
  <2>1. requests' \subseteq requests \cup {<<m, retries[m] - 1>>}
    BY DEF Repost, Post, MsgsOK
  <2>2. asked[m] # None
    BY DEF Allocated, Repost
  <2>3. AllAsked'
    BY <2>1, <2>2 DEF Allocated, AllAsked, Repost
  <2>4. QED
    BY <2>3 DEF Allocated, Repost, RegsOK, MsgsOK, ThreadOK, UserOK, regVars,
        user
<1>5. RegsOK' /\ PortOK' /\ UserOK' /\ SaOK' /\ AllLinked'
  BY DEF RegsOK, PortOK, UserOK, SaOK, AllLinked, Linked, Repost, regVars,
      user, sa
<1>6. QED
  BY <1>1, <1>2, <1>3, <1>4, <1>5

LEMMA StepGiveUp ==
    ASSUME Inv, NEW m \in Msgs, GiveUp(m)
    PROVE  Inv'
<1> USE DEF Inv, TypeOK
<1>1. RegsOK'
  BY NoticeAssumption DEF RegsOK, MsgsOK, GiveUp
<1>2. MsgsOK'
  BY NoticeAssumption DEF MsgsOK, GiveUp, Free
<1>3. PortOK'
  <2>1. CASE owner[m] # None
    <3>1. owner[m] \in Traps \cup Regs
      BY <2>1 DEF MsgsOK
    <3>2. ToUser(owner[m])
      BY <2>1 DEF GiveUp
    <3>3. out' \in Seq(Traps \cup Regs) /\ Len(out') <= RoomOut
      BY <3>1, <3>2, NoticeAssumption DEF PortOK, ToUser
    <3>4. QED
      BY <3>3 DEF GiveUp, PortOK
  <2>2. CASE owner[m] = None
    BY <2>2 DEF GiveUp, PortOK
  <2>3. QED
    BY <2>1, <2>2
<1>4. ThreadOK'
  BY DEF ThreadOK, GiveUp
<1>5. SaOK'
  BY NoticeAssumption DEF SaOK, MsgsOK, GiveUp, sa
<1>6. Allocated'
  BY NoticeAssumption DEF Allocated, AllAsked, RegsOK, MsgsOK, ThreadOK,
      UserOK, GiveUp, Free, user
<1>7. AllLinked'
  <2>1. \A o \in Regs : Linked(o) => Linked(o)'
    <3>1. SUFFICES ASSUME NEW o \in Regs, Linked(o), regmsg'[o] # None
                   PROVE  regmsg'[o] \in pending' /\ owner'[regmsg'[o]] = o
      BY DEF Linked
    <3>2. o # None /\ regmsg[o] \in Msgs \cup {None}
      BY NoticeAssumption DEF RegsOK
    <3>3. regmsg'[o] = regmsg[o] /\ owner[m] # o
      BY <3>1, <3>2 DEF GiveUp, RegsOK
    <3>4. regmsg[o] \in pending /\ owner[regmsg[o]] = o /\ regmsg[o] # m
      BY <3>1, <3>3 DEF Linked
    <3>5. QED
      BY <3>3, <3>4 DEF GiveUp, Free, MsgsOK
  <2>2. upc' = upc /\ cur' = cur /\ regs' = regs
    BY DEF GiveUp, user
  <2>3. QED
    BY <2>1, <2>2 DEF AllLinked, Allocated, RegsOK
<1>8. QpOK' /\ UserOK'
  BY DEF QpOK, UserOK, GiveUp, user
<1>9. QED
  BY <1>1, <1>2, <1>3, <1>4, <1>5, <1>6, <1>7, <1>8

LEMMA StepReposted ==
    ASSUME Inv, Reposted
    PROVE  Inv'
<1> USE DEF Inv, TypeOK
<1>1. PortOK'
  <2>1. timer' \in BOOLEAN
    BY DEF Reposted, ThreadOK
  <2>2. sem' \in Nat
    BY DEF Reposted, PortOK, Unlock
  <2>3. QED
    BY <2>1, <2>2 DEF Reposted, PortOK
<1>2. ThreadOK'
  BY DEF ThreadOK, Reposted
<1>3. Allocated'
  BY NoticeAssumption DEF Allocated, AllAsked, RegsOK, MsgsOK, ThreadOK,
      UserOK, Reposted, regVars, msgVars, user
<1>4. RegsOK' /\ MsgsOK' /\ QpOK' /\ UserOK' /\ SaOK' /\ AllLinked'
  BY DEF RegsOK, MsgsOK, QpOK, UserOK, SaOK, AllLinked, Linked, Reposted,
      regVars, msgVars, user, sa
<1>5. QED
  BY <1>1, <1>2, <1>3, <1>4

LEMMA StepSmEvent ==
    ASSUME Inv, SmEvent
    PROVE  Inv'
<1> USE DEF Inv, TypeOK
<1>1. PortOK'
  BY NoticeAssumption DEF PortOK, SmEvent, Lock
<1>2. ThreadOK'
  BY DEF ThreadOK, RegsOK, MsgsOK, SmEvent
<1>3. SaOK'
  BY NoticeAssumption DEF SaOK, SmEvent
<1>4. Allocated'
  BY NoticeAssumption DEF Allocated, AllAsked, RegsOK, MsgsOK, ThreadOK,
      UserOK, SmEvent, regVars, msgVars, user
<1>5. RegsOK' /\ MsgsOK' /\ QpOK' /\ UserOK' /\ AllLinked'
  BY DEF RegsOK, MsgsOK, QpOK, UserOK, AllLinked, Linked, SmEvent, regVars,
      msgVars, user
<1>6. QED
  BY <1>1, <1>2, <1>3, <1>4, <1>5

LEMMA StepReregister ==
    ASSUME Inv, NEW r \in Regs, NEW m \in Msgs, Reregister(r, m)
    PROVE  Inv'
<1> USE DEF Inv, TypeOK
<1>1. RegsOK'
  BY Fresh, NoticeAssumption DEF RegsOK, MsgsOK, Reregister, Subscription
<1>2. MsgsOK'
  <2>1. Subscription(r) \in Asked
    BY Fresh, AskedTyped DEF Allocated, Reregister
  <2>2. NewMsg(m, r, Subscription(r))
    BY DEF Reregister
  <2>3. QED
    BY <2>1, <2>2, NewMsgOK
<1>3. QpOK'
  BY Fresh DEF QpOK, MsgsOK, Reregister, NewMsg, Post, NoBuffers
<1>4. PortOK'
  BY Fresh, NoticeAssumption DEF PortOK, Reregister, ToThread
<1>5. ThreadOK'
  BY Fresh DEF ThreadOK, Reregister
<1>6. Allocated'
  <2>1. Subscription(r) \in Asked
    BY Fresh, AskedTyped DEF Allocated, Reregister
  <2>2. NewMsg(m, r, Subscription(r))
    BY DEF Reregister
  <2>3. AllAsked'
    BY <2>1, <2>2, Fresh, NewMsgAsked DEF Allocated, Reregister
  <2>4. QED
    BY <2>1, <2>2, <2>3, NoticeAssumption DEF ThreadOK, UserOK, Allocated,
        MsgsOK, NewMsg, RegsOK, Reregister, regVars, thread, user
<1>7. AllLinked'
  BY Fresh, NoticeAssumption DEF AllLinked, Linked, RegsOK, MsgsOK, Allocated,
      AllAsked, Reregister, NewMsg, Subscription, user
<1>8. UserOK' /\ SaOK'
  BY DEF UserOK, SaOK, Reregister, user, sa
<1>9. QED
  BY <1>1, <1>2, <1>3, <1>4, <1>5, <1>6, <1>7, <1>8

LEMMA StepReregistered ==
    ASSUME Inv, Reregistered
    PROVE  Inv'
<1> USE DEF Inv, TypeOK
<1>1. PortOK'
  BY NoticeAssumption DEF PortOK, Reregistered, Unlock
<1>2. ThreadOK'
  BY DEF ThreadOK, Reregistered
<1>3. Allocated'
  BY NoticeAssumption DEF Allocated, AllAsked, RegsOK, MsgsOK, ThreadOK,
      UserOK, Reregistered, regVars, msgVars, user
<1>4. RegsOK' /\ MsgsOK' /\ QpOK' /\ UserOK' /\ SaOK' /\ AllLinked'
  BY DEF RegsOK, MsgsOK, QpOK, UserOK, SaOK, AllLinked, Linked, Reregistered,
      regVars, msgVars, user, sa
<1>5. QED
  BY <1>1, <1>2, <1>3, <1>4

-----------------------------------------------------------------------------
(* The queue pair, the SA and the SM. *)

LEMMA StepTransmitted ==
    ASSUME Inv, NEW m \in Msgs, Transmitted(m)
    PROVE  Inv'
<1> USE DEF Inv, TypeOK
<1>1. QpOK'
  BY DEF QpOK, MsgsOK, Transmitted, msgVars
<1>2. RegsOK' /\ MsgsOK' /\ PortOK' /\ ThreadOK' /\ UserOK' /\ SaOK' /\ Allocated' /\ AllLinked'
  BY DEF RegsOK, MsgsOK, PortOK, ThreadOK, UserOK, SaOK, Allocated, AllLinked,
      Linked, AllAsked, Transmitted, regVars, msgVars, thread, user, sa
<1>3. QED
  BY <1>1, <1>2

LEMMA StepSaTakes ==
    ASSUME Inv, NEW x \in requests, SaTakes(x)
    PROVE  Inv'
<1> USE DEF Inv, TypeOK
<1>1. MsgsOK'
  BY NoticeAssumption DEF MsgsOK, SaTakes
<1>2. QpOK'
  BY DEF QpOK, MsgsOK, SaTakes
<1>3. SaOK'
  <2>1. x[1] \in Msgs /\ asked[x[1]] \in Asked
    BY DEF MsgsOK, Allocated, AllAsked
  <2>2. asked[x[1]].trap \in Traps
    BY <2>1 DEF Asked
  <2>3. subs' \subseteq Traps
    BY <2>2 DEF SaTakes, SaOK
  <2>4. QED
    BY <2>3 DEF SaTakes, SaOK
<1>4. Allocated'
  BY NoticeAssumption DEF Allocated, AllAsked, RegsOK, MsgsOK, ThreadOK,
      UserOK, SaTakes, regVars, thread, user
<1>5. RegsOK' /\ PortOK' /\ ThreadOK' /\ UserOK' /\ AllLinked'
  BY DEF RegsOK, PortOK, ThreadOK, UserOK, AllLinked, Linked, SaTakes, regVars,
      thread, user
<1>6. QED
  BY <1>1, <1>2, <1>3, <1>4, <1>5

LEMMA StepSaReports ==
    ASSUME Inv, NEW t \in Traps, SaReports(t)
    PROVE  Inv'
<1> USE DEF Inv, TypeOK
<1>1. QpOK'
  BY DEF QpOK, MsgsOK, SaReports, msgVars
<1>2. SaOK'
  BY NoticeAssumption DEF SaOK, SaReports
<1>3. RegsOK' /\ MsgsOK' /\ PortOK' /\ ThreadOK' /\ UserOK' /\ Allocated' /\ AllLinked'
  BY DEF RegsOK, MsgsOK, PortOK, ThreadOK, UserOK, Allocated, AllLinked,
      Linked, AllAsked, SaReports, regVars, msgVars, thread, user
<1>4. QED
  BY <1>1, <1>2, <1>3

LEMMA StepSmChanges ==
    ASSUME Inv, SmChanges
    PROVE  Inv'
<1> USE DEF Inv, TypeOK
<1>1. SaOK'
  BY NoticeAssumption DEF SaOK, SmChanges
<1>2. RegsOK' /\ MsgsOK' /\ QpOK' /\ PortOK' /\ ThreadOK' /\ UserOK' /\ Allocated' /\ AllLinked'
  BY DEF RegsOK, MsgsOK, QpOK, PortOK, ThreadOK, UserOK, Allocated, AllLinked,
      Linked, AllAsked, SmChanges, regVars, msgVars, thread, user
<1>3. QED
  BY <1>1, <1>2

-----------------------------------------------------------------------------
(* The specification. *)

LEMMA Stutter == ASSUME Inv, UNCHANGED vars PROVE Inv'
<1> USE DEF vars, regVars, msgVars, thread, user, sa
<1>1. TypeOK'
  BY DEF Inv, TypeOK, RegsOK, MsgsOK, QpOK, PortOK, ThreadOK, UserOK, SaOK
<1>2. Allocated'
  BY DEF Inv, Allocated, AllAsked
<1>3. AllLinked'
  BY DEF Inv, AllLinked, Linked
<1>4. QED
  BY <1>1, <1>2, <1>3 DEF Inv

LEMMA ThreadStepInv == ASSUME Inv, ThreadStep PROVE Inv'
  BY StepTakeMessage, StepReplyDone, StepPollTimeout, StepReposted,
      StepSmEvent, StepReregistered, StepProcessGetResp, StepProcessReport,
      StepPassOn, StepSendDone, StepRepost, StepGiveUp,
      StepReregister DEF ThreadStep

LEMMA UserStepInv == ASSUME Inv, UserStep PROVE Inv'
  BY StepCreateQp, StepAddReg, StepUnregistered, StepClearRegs, StepCleared,
      StepStopMonitor, StepShutdown, StepJoin, StepPostRegister,
      StepClearReg DEF UserStep

LEMMA EnvironmentInv == ASSUME Inv, Environment PROVE Inv'
  BY StepTransmitted, StepSaTakes, StepSaReports, StepSmChanges DEF Environment

\* The strengthened invariant: links, and what is allocated, hold in every state.
THEOREM Invariance == Spec => []Inv
<1>1. Inv /\ [Next]_vars => Inv'
  <2> SUFFICES ASSUME Inv, [Next]_vars PROVE Inv'
    OBVIOUS
  <2>1. CASE UNCHANGED vars
    BY <2>1, Stutter
  <2>2. CASE Next
    BY <2>2, ThreadStepInv, UserStepInv, EnvironmentInv, StepClose,
        StepGetReport,
       StepUnregister, StepRegister DEF Next, Unregister
  <2>3. QED
    BY <2>1, <2>2
<1>2. QED
  BY <1>1, InitInv, PTL DEF Spec

\* post_send_sa_msg never counts more outstanding sends than there are buffers, and
\* never counts the retries of a message below zero.
THEOREM TypeCorrect == Spec => []TypeOK
<1>1. Inv => TypeOK
  BY DEF Inv
<1>2. QED
  BY <1>1, Invariance, PTL

\* Until the port is closed, the message that a registration points at is on the
\* list and is its own: userspace_unregister frees it once, whatever answers,
\* time-outs, retries and changes of the SM have come before.
THEOREM NoMessageFreedTwice == Spec => []RegMsgLive
<1>1. Inv => RegMsgLive
  BY DEF Inv, AllLinked, Linked, RegMsgLive
<1>2. QED
  BY <1>1, Invariance, PTL

-----------------------------------------------------------------------------
(* The SA knows of the registrations, as long as the user's thread never   *)
(* waits for room in the socket: only then does the port thread give up    *)
(* on the lock and forget a change of the SM.                              *)

UserHolds == upc \in {"qp", "post", "timer", "untimer", "clear"}
ThreadHolds == tpc \in {"repost", "reregister"}

LockKept ==
    /\ ~(UserHolds /\ ThreadHolds)
    /\ sem = IF UserHolds \/ ThreadHolds THEN 0 ELSE 1

\* Answers are to messages that were sent, and a message asks what the
\* registration it points at asks.
Asks ==
    /\ \A x \in answers : x[1] \in Msgs /\ asked[x[1]] # None
    /\ \A m \in pending : owner[m] # None =>
           owner[m] \in Regs /\ trap[owner[m]] # None /\ asked[m] = Subscription(owner[m])

\* The disjuncts of SubscribedOrTold, and the message that the SA has yet to answer.
Knows(r) ==
    \/ trap[r] \in subs \/ upc = "closed"
    \/ r \in told \/ event \/ (tpc = "reregister" /\ r \in walk)
    \/ \E m \in Msgs : asked[m] = Cancellation(r)

Unanswered(r) == \E m \in pending : owner[m] = r /\ \A x \in answers : x[1] # m

Known(r) == Knows(r) \/ Unanswered(r)

AllKnown == (\A r \in regs : Known(r)) /\ (upc = "timer" => Known(cur))

NoticeInv == LockKept /\ Asks /\ AllKnown

LEMMA NoticeInit == Init => NoticeInv
  BY DEF Init, NoticeInv, LockKept, UserHolds, ThreadHolds, Asks, AllKnown

\* The lock is held by one thread at most.
LEMMA LockNext ==
    ASSUME LockKept, ~UserStuck, Next
    PROVE  LockKept'
<1> USE DEF LockKept, UserHolds, ThreadHolds
<1>1. ASSUME UNCHANGED <<sem, upc, tpc>> PROVE LockKept'
  BY <1>1
<1>2. CASE \/ ReplyDone \/ GetReport \/ Environment
           \/ \E x \in answers : ProcessGetResp(x)
           \/ \E m \in Msgs : SendDone(m) \/ Repost(m) \/ GiveUp(m)
           \/ \E r \in Regs, m \in Msgs : Reregister(r, m)
  BY <1>1, <1>2 DEF ReplyDone, GetReport, Environment, ProcessGetResp, SendDone, Repost,
      GiveUp, Reregister, Section, Transmitted, SaTakes, SaReports, SmChanges, thread, user
<1>3. CASE TakeMessage \/ \E t \in Traps : ProcessReport(t) \/ PassOn(t)
  BY <1>3 DEF TakeMessage, ProcessReport, PassOn, user
<1>4. CASE PollTimeout \/ Reposted \/ SmEvent \/ Reregistered
  BY <1>4 DEF PollTimeout, Reposted, SmEvent, Reregistered, Lock, Unlock, user
<1>5. CASE CreateQp \/ AddReg \/ Unregistered \/ \E m \in Msgs : PostRegister(m)
  BY <1>5 DEF CreateQp, AddReg, Unregistered, PostRegister, Unlock, thread
<1>6. CASE ClearRegs \/ Cleared \/ StopMonitor \/ Shutdown \/ Join \/ Close
  BY <1>6 DEF ClearRegs, Cleared, StopMonitor, Shutdown, Join, Close, Lock, Unlock, thread
<1>7. CASE \/ \E r \in Regs : ClearReg(r) \/ Unregister(r)
           \/ \E t \in Traps, r \in Regs : Register(t, r)
  BY <1>7 DEF ClearReg, Unregister, DropReg, Register, Lock, thread
<1>8. QED
  BY <1>2, <1>3, <1>4, <1>5, <1>6, <1>7 DEF Next, ThreadStep, UserStep, Register

\* What a new message leaves of what was asked before.
LEMMA NewMsgKeeps ==
    ASSUME Inv, NEW m \in FreshMsgs, NEW r, NEW a \in Asked, NewMsg(m, r, a)
    PROVE  /\ m \in Msgs /\ m \notin pending
           /\ pending' = pending \cup {m}
           /\ asked'[m] = a /\ owner'[m] = r
           /\ \A o \in Msgs : o # m => asked'[o] = asked[o] /\ owner'[o] = owner[o]
           /\ \A o \in Msgs : asked[o] # None => asked'[o] = asked[o]
<1>1. m \in Msgs /\ asked[m] = None
  BY Fresh
<1>2. asked \in [Msgs -> Asked \cup {None}] /\ owner \in [Msgs -> Regs \cup {None}]
  BY DEF Inv, TypeOK, MsgsOK
<1>3. m \notin pending
  BY <1>1 DEF Inv, Allocated, AllAsked
<1>4. QED
  BY <1>1, <1>2, <1>3 DEF NewMsg

\* Nor does a message that is freed change what the others ask.
LEMMA FreeKeeps ==
    ASSUME Inv, NEW m \in Msgs, Free(m)
    PROVE  /\ pending' = pending \ {m}
           /\ \A o \in Msgs : o # m => owner'[o] = owner[o]
  BY DEF Inv, TypeOK, MsgsOK, Free

LEMMA AsksNewMsg ==
    ASSUME Inv, Asks, NEW m \in FreshMsgs, NEW r \in Regs \cup {None}, NEW a \in Asked,
           NewMsg(m, r, a), r # None => trap[r] # None /\ a = Subscription(r),
           UNCHANGED <<answers, trap>>
    PROVE  Asks'
<1>1. /\ \A x \in answers : x[1] \in Msgs /\ asked'[x[1]] # None
  BY NewMsgKeeps DEF Asks
<1>2. ASSUME NEW o \in pending', owner'[o] # None
      PROVE  /\ owner'[o] \in Regs /\ trap[owner'[o]] # None
             /\ asked'[o] = Subscription(owner'[o])
  <2>1. CASE o = m
    BY <1>2, <2>1, NewMsgKeeps
  <2>2. CASE o # m
    <3>1. o \in pending /\ o \in Msgs /\ asked[o] # None
      BY <2>2, NewMsgKeeps DEF Inv, TypeOK, MsgsOK, Allocated, AllAsked
    <3>2. owner'[o] = owner[o] /\ asked'[o] = asked[o]
      BY <2>2, <3>1, NewMsgKeeps
    <3>3. QED
      BY <1>2, <3>1, <3>2 DEF Asks
  <2>3. QED
    BY <2>1, <2>2
<1>3. QED
  BY <1>1, <1>2 DEF Asks, Subscription

LEMMA AsksFree ==
    ASSUME Inv, Asks, NEW m \in Msgs, Free(m), answers' \subseteq answers,
           UNCHANGED <<trap, asked>>
    PROVE  Asks'
<1>1. pending \subseteq Msgs
  BY DEF Inv, TypeOK, MsgsOK
<1>2. QED
  BY <1>1, FreeKeeps DEF Asks, Subscription

LEMMA AsksNext ==
    ASSUME Inv, Asks, Next
    PROVE  Asks'
<1>1. ASSUME UNCHANGED <<answers, asked, pending, owner, trap>> PROVE Asks'
  BY <1>1 DEF Asks, Subscription
<1>2. ASSUME NEW t \in Traps, NEW r \in Regs, Register(t, r) PROVE Asks'
  <2>1. /\ trap[r] = None /\ trap' = [trap EXCEPT ![r] = t]
        /\ UNCHANGED <<answers, asked, pending, owner>>
    BY <1>2, FreshR DEF Register, msgVars
  <2>2. trap \in [Regs -> Traps \cup {None}]
    BY DEF Inv, TypeOK, RegsOK
  <2>3. \A o \in Regs : trap[o] # None => trap'[o] = trap[o]
    BY <2>1, <2>2
  <2>4. QED
    BY <2>1, <2>3 DEF Asks, Subscription
<1>3. ASSUME NEW m \in Msgs, PostRegister(m) PROVE Asks'
  <2>1. /\ m \in FreshMsgs /\ NewMsg(m, cur, Subscription(cur))
        /\ UNCHANGED <<answers, trap>>
    BY <1>3 DEF PostRegister
  <2>2. cur \in Regs /\ trap[cur] # None
    BY <1>3 DEF PostRegister, Inv, Allocated
  <2>3. Subscription(cur) \in Asked
    BY <2>2, AskedTyped DEF Inv, TypeOK
  <2>4. QED
    BY <2>1, <2>2, <2>3, AsksNewMsg
<1>4. ASSUME NEW r \in Regs, NEW m \in Msgs, Reregister(r, m) PROVE Asks'
  <2>1. /\ m \in FreshMsgs /\ NewMsg(m, r, Subscription(r))
        /\ UNCHANGED <<answers, trap>>
    BY <1>4 DEF Reregister
  <2>2. trap[r] # None
    BY <1>4 DEF Reregister, Inv, Allocated
  <2>3. Subscription(r) \in Asked
    BY <2>2, AskedTyped DEF Inv, TypeOK
  <2>4. QED
    BY <2>1, <2>2, <2>3, AsksNewMsg
<1>5. ASSUME NEW r \in regs, DropReg(r) PROVE Asks'
  <2>1. r \in Regs /\ trap[r] # None /\ UNCHANGED <<answers, trap>>
    BY <1>5 DEF DropReg, Inv, TypeOK, RegsOK, Allocated
  <2>2. CASE regmsg[r] # None /\ Free(regmsg[r]) /\ UNCHANGED asked
    <3>1. regmsg[r] \in Msgs
      BY <2>1, <2>2 DEF Inv, TypeOK, RegsOK
    <3>2. QED
      BY <2>1, <2>2, <3>1, AsksFree
  <2>3. CASE \E m \in FreshMsgs : NewMsg(m, None, Cancellation(r))
    <3>1. Cancellation(r) \in Asked
      BY <2>1, AskedTyped DEF Inv, TypeOK
    <3>2. QED
      BY <2>1, <2>3, <3>1, AsksNewMsg
  <2>4. QED
    BY <1>5, <2>2, <2>3 DEF DropReg
<1>6. ASSUME NEW m \in Msgs, GiveUp(m) PROVE Asks'
  BY <1>6, AsksFree DEF GiveUp
<1>7. ASSUME NEW x \in answers, ProcessGetResp(x) PROVE Asks'
  <2>1. answers' \subseteq answers /\ UNCHANGED <<trap, asked>>
    BY <1>7 DEF ProcessGetResp
  <2>2. CASE UNCHANGED <<pending, owner>>
    BY <2>1, <2>2 DEF Asks, Subscription
  <2>3. CASE \E m \in Find(x) : Free(m)
    <3>1. Find(x) \subseteq Msgs
      BY DEF Find, Inv, TypeOK, MsgsOK
    <3>2. QED
      BY <2>1, <2>3, <3>1, AsksFree
  <2>4. QED
    BY <1>7, <2>2, <2>3 DEF ProcessGetResp
<1>8. ASSUME NEW x \in requests, SaTakes(x) PROVE Asks'
  <2>1. x[1] \in Msgs /\ asked[x[1]] # None
    BY DEF Inv, TypeOK, MsgsOK, Allocated, AllAsked
  <2>2. answers' = answers \cup {x} /\ UNCHANGED <<asked, pending, owner, trap>>
    BY <1>8 DEF SaTakes, regVars
  <2>3. QED
    BY <2>1, <2>2 DEF Asks, Subscription
<1>9. CASE Join
  BY <1>9 DEF Join, regVars, Asks
<1>10. CASE \/ TakeMessage \/ ReplyDone \/ PollTimeout \/ Reposted \/ SmEvent \/ Reregistered
            \/ \E t \in Traps : ProcessReport(t) \/ PassOn(t)
            \/ \E m \in Msgs : SendDone(m) \/ Repost(m)
  BY <1>1, <1>10 DEF TakeMessage, ReplyDone, PollTimeout, Reposted, SmEvent, Reregistered,
      ProcessReport, PassOn, SendDone, Repost, regVars, msgVars
<1>11. CASE \/ CreateQp \/ AddReg \/ Unregistered \/ ClearRegs \/ Cleared
            \/ StopMonitor \/ Shutdown \/ Close \/ GetReport \/ SmChanges
            \/ \E m \in Msgs : Transmitted(m)
            \/ \E t \in Traps : SaReports(t)
  BY <1>1, <1>11 DEF CreateQp, AddReg, Unregistered, ClearRegs, Cleared, StopMonitor,
      Shutdown, Close, GetReport, SmChanges, Transmitted, SaReports, regVars, msgVars
<1>12. ASSUME NEW r \in Regs, ClearReg(r) \/ Unregister(r) PROVE Asks'
  BY <1>5, <1>12 DEF ClearReg, Unregister
<1>13. QED
  BY <1>2, <1>3, <1>4, <1>6, <1>7, <1>8, <1>9, <1>10, <1>11, <1>12
     DEF Next, ThreadStep, UserStep, Environment, Register

\* Registrations that are listed, and the one being listed.
Listed(r) == r \in regs \/ (upc = "timer" /\ r = cur)

LEMMA ListedKnown ==
    ASSUME Inv, AllKnown, NEW r, Listed(r)
    PROVE  /\ Known(r) /\ r \in Regs /\ trap[r] # None
           /\ Cancellation(r) # None
<1>1. Known(r) /\ r \in Regs /\ trap[r] # None
  BY DEF Listed, AllKnown, Inv, TypeOK, RegsOK, Allocated
<1>2. QED
  BY <1>1, AskedTyped, NoticeAssumption DEF Inv, TypeOK

\* The SA does not forget, nor does the user, while nothing is freed.
LEMMA KnownKept ==
    ASSUME NEW r, Known(r), Cancellation(r) # None,
           pending \subseteq pending', pending \subseteq Msgs,
           \A m \in Msgs : asked[m] # None => asked'[m] = asked[m],
           \A m \in pending : owner'[m] = owner[m],
           trap'[r] = trap[r], answers' \subseteq answers, subs' = subs, told \subseteq told',
           event => event', upc = "closed" => upc' = "closed",
           tpc = "reregister" /\ r \in walk => tpc' = "reregister" /\ r \in walk'
    PROVE  Known(r)'
<1>1. Cancellation(r)' = Cancellation(r)
  BY DEF Cancellation
<1>2. Knows(r) => Knows(r)'
  BY <1>1 DEF Knows
<1>3. Unanswered(r) => Unanswered(r)'
  BY DEF Unanswered
<1>4. QED
  BY <1>2, <1>3 DEF Known

\* Steps that touch neither the messages nor what is registered.
LEMMA KnownFrame ==
    ASSUME Inv, AllKnown,
           UNCHANGED <<regs, trap, cur, subs, told, event, pending, owner, asked, answers>>,
           upc = "closed" => upc' = "closed", upc' = "timer" => upc = "timer",
           tpc = "reregister" => tpc' = "reregister" /\ walk' = walk
    PROVE  AllKnown'
<1>1. ASSUME NEW r, Listed(r) PROVE Known(r)'
  <2>1. Known(r) /\ Cancellation(r) # None
    BY <1>1, ListedKnown
  <2>2. pending \subseteq Msgs
    BY DEF Inv, TypeOK, MsgsOK
  <2>3. QED
    BY <2>1, <2>2, KnownKept
<1>2. QED
  BY <1>1 DEF AllKnown, Listed

\* A new message is on its way for the registration it points at.
LEMMA KnownNewMsg ==
    ASSUME Inv, Asks, AllKnown, NEW m \in FreshMsgs, NEW r, NEW a \in Asked, NewMsg(m, r, a),
           UNCHANGED <<trap, answers, subs, told, event>>, upc # "closed"
    PROVE  /\ Unanswered(r)'
           /\ \A o : /\ Listed(o)
                     /\ tpc = "reregister" /\ o \in walk => tpc' = "reregister" /\ o \in walk'
                     => Known(o)'
<1>1. /\ m \in Msgs /\ pending' = pending \cup {m} /\ owner'[m] = r /\ m \notin pending
      /\ \A o \in Msgs : o # m => owner'[o] = owner[o]
      /\ \A o \in Msgs : asked[o] # None => asked'[o] = asked[o]
  BY NewMsgKeeps
<1>2. asked[m] = None /\ pending \subseteq Msgs
  BY Fresh DEF Inv, TypeOK, MsgsOK
<1>3. Unanswered(r)'
  BY <1>1, <1>2 DEF Asks, Unanswered
<1>4. ASSUME NEW o, Listed(o),
             tpc = "reregister" /\ o \in walk => tpc' = "reregister" /\ o \in walk'
      PROVE  Known(o)'
  <2>1. Known(o) /\ Cancellation(o) # None
    BY <1>4, ListedKnown
  <2>2. \A q \in pending : owner'[q] = owner[q]
    BY <1>1, <1>2
  <2>3. QED
    BY <1>1, <1>2, <1>4, <2>1, <2>2, KnownKept
<1>5. QED
  BY <1>3, <1>4

\* A message that is freed matters to the registration it points at, if the SA
\* has not answered it.
LEMMA KnownFree ==
    ASSUME Inv, AllKnown, NEW m \in Msgs, Free(m), answers' \subseteq answers,
           UNCHANGED <<trap, asked, subs, event, tpc>>, told \subseteq told',
           upc # "closed", tpc # "reregister",
           NEW r, Listed(r), owner[m] # r \/ \E x \in answers : x[1] = m
    PROVE  Known(r)'
<1>1. Known(r)
  BY ListedKnown
<1>2. Knows(r) => Knows(r)'
  BY DEF Knows, Cancellation
<1>3. Unanswered(r) => Unanswered(r)'
  BY FreeKeeps DEF Unanswered, Inv, TypeOK, MsgsOK
<1>4. QED
  BY <1>1, <1>2, <1>3 DEF Known


\* The registration that the user's thread makes.
LEMMA KnownUser ==
    ASSUME Inv, NoticeInv,
           \/ \E t \in Traps, r \in Regs : Register(t, r)
           \/ \E m \in Msgs : PostRegister(m)
           \/ AddReg
    PROVE  AllKnown'
<1> USE DEF NoticeInv
<1>1. ASSUME NEW t \in Traps, NEW r \in Regs, Register(t, r) PROVE AllKnown'
  <2>1. /\ trap[r] = None /\ trap' = [trap EXCEPT ![r] = t]
        /\ UNCHANGED <<regs, subs, told, event, pending, owner, asked, answers, tpc, walk>>
        /\ upc = "idle" /\ upc' # "timer"
    BY <1>1, FreshR DEF Register, msgVars, thread, sa
  <2>2. trap \in [Regs -> Traps \cup {None}] /\ pending \subseteq Msgs
    BY DEF Inv, TypeOK, RegsOK, MsgsOK
  <2>3. ASSUME NEW o \in regs PROVE Known(o)'
    <3>1. Known(o) /\ o \in Regs /\ trap[o] # None /\ Cancellation(o) # None
      BY ListedKnown DEF Listed
    <3>2. trap'[o] = trap[o]
      BY <2>1, <2>2, <3>1
    <3>3. QED
      BY <2>1, <2>2, <3>1, <3>2, KnownKept
  <2>4. QED
    BY <2>1, <2>3 DEF AllKnown
<1>2. ASSUME NEW m \in Msgs, PostRegister(m) PROVE AllKnown'
  <2>1. /\ m \in FreshMsgs /\ NewMsg(m, cur, Subscription(cur)) /\ upc = "post"
        /\ UNCHANGED <<regs, trap, cur, answers, subs, told, event, tpc, walk>>
    BY <1>2 DEF PostRegister, thread, sa
  <2>2. Subscription(cur) \in Asked
    BY <2>1, AskedTyped DEF Inv, TypeOK, Allocated
  <2>3. Unanswered(cur)' /\ \A o \in regs : Known(o)'
    BY <2>1, <2>2, KnownNewMsg DEF Listed
  <2>4. QED
    BY <2>1, <2>3 DEF AllKnown, Known
<1>3. CASE AddReg
  <2>1. /\ upc = "timer" /\ upc' = "idle" /\ regs' = regs \cup {cur}
        /\ UNCHANGED <<trap, subs, told, event, pending, owner, asked, answers, tpc, walk>>
    BY <1>3 DEF AddReg, msgVars, thread, sa
  <2>2. pending \subseteq Msgs
    BY DEF Inv, TypeOK, MsgsOK
  <2>3. ASSUME NEW o, Listed(o) PROVE Known(o)'
    <3>1. Known(o) /\ Cancellation(o) # None
      BY <2>3, ListedKnown
    <3>2. QED
      BY <2>1, <2>2, <3>1, KnownKept
  <2>4. QED
    BY <2>1, <2>3 DEF AllKnown, Listed
<1>4. QED
  BY <1>1, <1>2, <1>3

\* A registration that is dropped takes no message but its own with it.
LEMMA KnownDrop ==
    ASSUME Inv, NoticeInv, upc \in {"idle", "clear"}, tpc # "reregister",
           NEW r \in regs, DropReg(r)
    PROVE  AllKnown'
<1> USE DEF NoticeInv
<1>1. /\ regs' = regs \ {r} /\ upc' # "timer" /\ r \in Regs /\ trap[r] # None
      /\ UNCHANGED <<trap, answers, told, subs, event, tpc, walk>>
  BY DEF DropReg, thread, sa, Inv, TypeOK, RegsOK, Allocated
<1>2. CASE regmsg[r] # None /\ Free(regmsg[r]) /\ UNCHANGED asked
  <2>1. owner[regmsg[r]] = r /\ regmsg[r] \in Msgs
    BY <1>1, <1>2 DEF Inv, AllLinked, Linked, TypeOK, RegsOK
  <2>2. ASSUME NEW o \in regs, o # r PROVE Known(o)'
    BY <1>1, <1>2, <2>1, <2>2, KnownFree DEF Listed
  <2>3. QED
    BY <1>1, <2>2 DEF AllKnown
<1>3. CASE \E m \in FreshMsgs : NewMsg(m, None, Cancellation(r))
  <2>1. Cancellation(r) \in Asked
    BY <1>1, AskedTyped DEF Inv, TypeOK
  <2>2. \A o \in regs : Known(o)'
    BY <1>1, <1>3, <2>1, KnownNewMsg DEF Listed
  <2>3. QED
    BY <1>1, <2>2 DEF AllKnown
<1>4. QED
  BY <1>2, <1>3 DEF DropReg

\* An answer completes a message that the SA has taken.
LEMMA KnownAnswer ==
    ASSUME Inv, NoticeInv, NEW x \in answers, ProcessGetResp(x)
    PROVE  AllKnown'
<1> USE DEF NoticeInv
<1>1. /\ UNCHANGED <<regs, trap, cur, asked, subs, told, event, tpc, walk, upc>>
      /\ answers' \subseteq answers /\ tpc = "poll"
  BY DEF ProcessGetResp, thread, user, sa
<1>2. pending \subseteq Msgs
  BY DEF Inv, TypeOK, MsgsOK
<1>3. ASSUME NEW r, Listed(r) PROVE Known(r)'
  <2>1. Known(r) /\ Cancellation(r) # None
    BY <1>3, ListedKnown
  <2>2. CASE UNCHANGED <<pending, owner>>
    BY <1>1, <1>2, <2>1, <2>2, KnownKept
  <2>3. CASE \E m \in Find(x) : Free(m)
    <3>1. PICK m \in Find(x) : Free(m)
      BY <2>3
    <3>2. m \in Msgs /\ x[1] = m
      BY <1>2, <3>1 DEF Find, Tid
    <3>3. CASE upc = "closed"
      BY <1>1, <3>3 DEF Known, Knows
    <3>4. CASE upc # "closed"
      BY <1>1, <1>3, <3>1, <3>2, <3>4, KnownFree
    <3>5. QED
      BY <3>3, <3>4
  <2>4. QED
    BY <2>2, <2>3 DEF ProcessGetResp
<1>4. QED
  BY <1>1, <1>3 DEF AllKnown, Listed

\* A message that is given up is one whose owner is told.
LEMMA KnownGiveUp ==
    ASSUME Inv, NoticeInv, NEW m \in Msgs, GiveUp(m)
    PROVE  AllKnown'
<1> USE DEF NoticeInv
<1>1. /\ UNCHANGED <<regs, trap, cur, asked, subs, event, tpc, upc, answers>>
      /\ told \subseteq told' /\ tpc = "repost" /\ Free(m)
      /\ owner[m] # None => owner[m] \in told'
  BY DEF GiveUp, user, sa
<1>2. ASSUME NEW r, Listed(r) PROVE Known(r)'
  <2>1. CASE upc = "closed" \/ r \in told'
    BY <1>1, <2>1 DEF Known, Knows
  <2>2. CASE upc # "closed" /\ r \notin told'
    <3>1. r # None
      BY <1>2, ListedKnown, NoticeAssumption
    <3>2. owner[m] # r
      BY <1>1, <2>2, <3>1
    <3>3. QED
      BY <1>1, <1>2, <2>2, <3>2, KnownFree
  <2>3. QED
    BY <2>1, <2>2
<1>3. QED
  BY <1>1, <1>2 DEF AllKnown, Listed

\* The SA takes a subscription or a cancellation.
LEMMA KnownTaken ==
    ASSUME Inv, NoticeInv, NEW x \in requests, SaTakes(x)
    PROVE  AllKnown'
<1> USE DEF NoticeInv
<1>1. /\ UNCHANGED <<regs, trap, cur, asked, pending, owner, told, event, tpc, walk, upc>>
      /\ answers' = answers \cup {x}
      /\ subs' = IF asked[x[1]].subscribe THEN subs \cup {asked[x[1]].trap}
                                          ELSE subs \ {asked[x[1]].trap}
  BY DEF SaTakes, regVars, thread, user
<1>2. x[1] \in Msgs /\ asked[x[1]] \in Asked
  BY DEF Inv, TypeOK, MsgsOK, Allocated, AllAsked
<1>3. ASSUME NEW r, Listed(r) PROVE Known(r)'
  <2>1. Known(r) /\ r \in Regs /\ trap[r] # None
    BY <1>3, ListedKnown
  <2>2. Cancellation(r)' = Cancellation(r)
    BY <1>1 DEF Cancellation
  <2>3. CASE Unanswered(r)
    <3>1. PICK m \in pending : owner[m] = r /\ \A y \in answers : y[1] # m
      BY <2>3 DEF Unanswered
    <3>2. CASE x[1] = m
      <4>1. asked[m] = Subscription(r)
        BY <2>1, <3>1, NoticeAssumption DEF Asks
      <4>2. trap[r] \in subs'
        BY <1>1, <3>2, <4>1 DEF Subscription
      <4>3. QED
        BY <1>1, <4>2 DEF Known, Knows
    <3>3. CASE x[1] # m
      BY <1>1, <3>1, <3>3 DEF Known, Unanswered
    <3>4. QED
      BY <3>2, <3>3
  <2>4. CASE trap[r] \in subs
    <3>1. CASE trap[r] \in subs'
      BY <1>1, <3>1 DEF Known, Knows
    <3>2. CASE trap[r] \notin subs'
      <4>1. asked[x[1]] = Cancellation(r)
        BY <1>1, <1>2, <2>4, <3>2 DEF Asked, Cancellation
      <4>2. QED
        BY <1>1, <1>2, <2>2, <4>1 DEF Known, Knows
    <3>3. QED
      BY <3>1, <3>2
  <2>5. CASE Knows(r) /\ trap[r] \notin subs
    BY <1>1, <2>2, <2>5 DEF Known, Knows
  <2>6. QED
    BY <2>1, <2>3, <2>4, <2>5 DEF Known
<1>4. QED
  BY <1>1, <1>3 DEF AllKnown, Listed

\* A change of the SM is not lost: the lock is free, or its holder gives it back.
LEMMA KnownSmChange ==
    ASSUME Inv, NoticeInv, ~UserStuck, SmChanges \/ SmEvent
    PROVE  AllKnown'
<1> USE DEF NoticeInv
<1>1. CASE SmChanges
  BY <1>1 DEF SmChanges, AllKnown, Known, Knows
<1>2. CASE SmEvent
  <2>1. sem > 0 /\ tpc' = "reregister" /\ walk' = regs /\ UNCHANGED <<regs, upc>>
    BY <1>2 DEF SmEvent, Lock, regVars, user
  <2>2. upc # "timer"
    BY <2>1 DEF LockKept, UserHolds
  <2>3. QED
    BY <2>1, <2>2 DEF AllKnown, Known, Knows
<1>3. QED
  BY <1>1, <1>2

\* Each registration walked along gets a message of its own.
LEMMA KnownReregister ==
    ASSUME Inv, NoticeInv, NEW r \in Regs, NEW m \in Msgs, Reregister(r, m)
    PROVE  AllKnown'
<1> USE DEF NoticeInv
<1>1. /\ m \in FreshMsgs /\ NewMsg(m, r, Subscription(r)) /\ walk' = walk \ {r}
      /\ tpc = "reregister" /\ r \in walk
      /\ UNCHANGED <<regs, trap, cur, answers, subs, told, event, tpc, upc>>
  BY DEF Reregister, user, sa
<1>2. upc # "timer"
  BY <1>1 DEF LockKept, UserHolds, ThreadHolds
<1>3. CASE upc = "closed"
  BY <1>1, <1>3 DEF AllKnown, Known, Knows
<1>4. CASE upc # "closed"
  <2>1. Subscription(r) \in Asked
    BY <1>1, AskedTyped DEF Inv, TypeOK, Allocated
  <2>2. Unanswered(r)' /\ \A o \in regs : o # r => Known(o)'
    BY <1>1, <1>4, <2>1, KnownNewMsg DEF Listed
  <2>3. QED
    BY <1>1, <1>2, <2>2 DEF AllKnown, Known
<1>5. QED
  BY <1>3, <1>4

LEMMA KnownNext ==
    ASSUME Inv, NoticeInv, ~UserStuck, Next
    PROVE  AllKnown'
<1> USE DEF NoticeInv
<1>1. CASE \/ TakeMessage \/ ReplyDone \/ PollTimeout \/ Reposted
           \/ \E t \in Traps : ProcessReport(t) \/ PassOn(t)
           \/ \E m \in Msgs : SendDone(m) \/ Repost(m)
  BY <1>1, KnownFrame DEF TakeMessage, ReplyDone, PollTimeout, Reposted, ProcessReport,
      PassOn, SendDone, Repost, regVars, msgVars, user, sa
<1>2. CASE \/ CreateQp \/ Unregistered \/ ClearRegs \/ Cleared
           \/ StopMonitor \/ Shutdown \/ Close \/ GetReport
           \/ \E m \in Msgs : Transmitted(m)
           \/ \E t \in Traps : SaReports(t)
  BY <1>2, KnownFrame DEF CreateQp, Unregistered, ClearRegs, Cleared, StopMonitor, Shutdown,
      Close, GetReport, Transmitted, SaReports, regVars, msgVars, thread, user, sa
<1>3. CASE Reregistered
  <2>1. /\ walk = {}
        /\ UNCHANGED <<regs, trap, cur, subs, told, event, pending, owner, asked, answers, upc>>
    BY <1>3 DEF Reregistered, regVars, msgVars, user, sa
  <2>2. pending \subseteq Msgs
    BY DEF Inv, TypeOK, MsgsOK
  <2>3. ASSUME NEW r, Listed(r) PROVE Known(r)'
    <3>1. Known(r) /\ Cancellation(r) # None
      BY <2>3, ListedKnown
    <3>2. QED
      BY <2>1, <2>2, <3>1, KnownKept
  <2>4. QED
    BY <2>1, <2>3 DEF AllKnown, Listed
<1>4. CASE Join
  BY <1>4 DEF Join, AllKnown, Known, Knows
<1>5. ASSUME NEW r \in Regs, ClearReg(r) \/ Unregister(r) PROVE AllKnown'
  <2>1. upc \in {"idle", "clear"} /\ r \in regs /\ DropReg(r)
    BY <1>5 DEF ClearReg, Unregister
  <2>2. tpc # "reregister"
    BY <1>5 DEF ClearReg, Unregister, LockKept, UserHolds, ThreadHolds
  <2>3. QED
    BY <2>1, <2>2, KnownDrop
<1>6. QED
  BY <1>1, <1>2, <1>3, <1>4, <1>5, KnownUser, KnownAnswer, KnownGiveUp, KnownTaken,
     KnownSmChange, KnownReregister DEF Next, ThreadStep, UserStep, Environment

\* As long as the user's thread never waits for room in the socket while it holds
\* the lock, a registration of an open port is known to the SA, or to be told to
\* its user, or is on its way: reregister_traps, which forgets a change of the SM
\* when it cannot have the lock in time, then always has it.
THEOREM RegistrationsKnown == Spec /\ []~UserStuck => []SubscribedOrTold
<1>1. Inv /\ NoticeInv /\ ~UserStuck /\ [Next]_vars => NoticeInv'
  <2> SUFFICES ASSUME Inv, NoticeInv, ~UserStuck, [Next]_vars PROVE NoticeInv'
    OBVIOUS
  <2>1. CASE UNCHANGED vars
    <3>1. UNCHANGED <<regs, trap, cur, subs, told, event, pending, owner, asked, answers,
                      upc, tpc, walk, sem>>
      BY <2>1 DEF vars, regVars, msgVars, thread, user, sa
    <3>2. LockKept' /\ Asks'
      BY <3>1 DEF NoticeInv, LockKept, UserHolds, ThreadHolds, Asks, Subscription
    <3>3. AllKnown'
      BY <3>1, KnownFrame DEF NoticeInv
    <3>4. QED
      BY <3>2, <3>3 DEF NoticeInv
  <2>2. CASE Next
    BY <2>2, LockNext, AsksNext, KnownNext DEF NoticeInv
  <2>3. QED
    BY <2>1, <2>2
<1>2. NoticeInv => SubscribedOrTold
  BY DEF NoticeInv, AllKnown, Known, Knows, Unanswered, SubscribedOrTold
<1>3. QED
  BY <1>1, <1>2, NoticeInit, Invariance, PTL DEF Spec

\* As long as the user's thread never waits for room while it holds the lock,
\* omgt_lock_sem excludes: the sections of the two threads never overlap, although
\* most callers do not look at what it returns.
THEOREM LockExcludes == Spec /\ []~UserStuck => []LockKept
<1>1. ASSUME LockKept, ~UserStuck, [Next]_vars PROVE LockKept'
  <2>1. CASE UNCHANGED vars
    BY <1>1, <2>1 DEF vars, thread, user, LockKept, UserHolds, ThreadHolds
  <2>2. QED
    BY <1>1, <2>1, LockNext
<1>2. Init => LockKept
  BY DEF Init, LockKept, UserHolds, ThreadHolds
<1>3. QED
  BY <1>1, <1>2, PTL DEF Spec

-----------------------------------------------------------------------------
(* The count of sends.                                                     *)

CountInv ==
    /\ IsFiniteSet(sending) /\ cnt <= Cardinality(sending)
    /\ \A m \in sending : asked[m] # None

LEMMA Counted ==
    ASSUME MsgsOK, CountInv, NEW m \in Msgs, NEW n, m \notin sending, Post(m, n)
    PROVE  /\ IsFiniteSet(sending)' /\ (cnt <= Cardinality(sending))'
           /\ sending' \subseteq sending \cup {m}
<1>1. CASE UNCHANGED <<sending, cnt>>
  BY <1>1 DEF CountInv
<1>2. CASE sending' = sending \cup {m} /\ cnt' = cnt + 1
  <2>1. /\ IsFiniteSet(sending') /\ Cardinality(sending') = Cardinality(sending) + 1
        /\ Cardinality(sending) \in Nat
    BY <1>2, FS_AddElement, FS_CardinalityType DEF CountInv
  <2>2. cnt \in Int /\ cnt <= Cardinality(sending)
    BY DEF CountInv, MsgsOK
  <2>3. QED
    BY <1>2, <2>1, <2>2
<1>3. QED
  BY <1>1, <1>2 DEF Post

LEMMA CountNewMsg ==
    ASSUME Inv, CountInv, NEW m \in FreshMsgs, NEW r, NEW a \in Asked, NewMsg(m, r, a)
    PROVE  CountInv'
<1>1. m \in Msgs /\ asked[m] = None
  BY Fresh
<1>2. m \notin sending /\ Post(m, MaxRetries) /\ MsgsOK
  BY <1>1 DEF CountInv, NewMsg, Inv, TypeOK
<1>3. /\ IsFiniteSet(sending)' /\ (cnt <= Cardinality(sending))'
      /\ sending' \subseteq sending \cup {m}
  BY <1>1, <1>2, Counted
<1>4. /\ asked'[m] # None /\ sending \subseteq Msgs
      /\ \A o \in Msgs : asked[o] # None => asked'[o] = asked[o]
  BY NewMsgKeeps, NoticeAssumption DEF Inv, TypeOK, MsgsOK
<1>5. \A o \in sending' : asked'[o] # None
  BY <1>3, <1>4 DEF CountInv
<1>6. QED
  BY <1>3, <1>5 DEF CountInv

LEMMA CountFrame ==
    ASSUME CountInv, UNCHANGED <<asked, sending, cnt>>
    PROVE  CountInv'
  BY DEF CountInv

LEMMA CountNext ==
    ASSUME Inv, CountInv, Next
    PROVE  CountInv'
<1>1. CASE \/ TakeMessage \/ PollTimeout \/ Reposted \/ SmEvent \/ Reregistered \/ GetReport
           \/ Environment \/ \E x \in answers : ProcessGetResp(x)
           \/ \E t \in Traps : ProcessReport(t) \/ PassOn(t)
           \/ \E m \in Msgs : GiveUp(m)
           \/ CreateQp \/ AddReg \/ Unregistered \/ ClearRegs \/ Cleared
           \/ StopMonitor \/ Shutdown \/ Join \/ Close
           \/ \E r \in Regs, t \in Traps : Register(t, r)
  <2>1. UNCHANGED <<asked, sending, cnt>>
    BY <1>1 DEF TakeMessage, PollTimeout, Reposted, SmEvent, Reregistered, GetReport,
       Environment, Transmitted, SaTakes, SaReports, SmChanges, ProcessGetResp,
       ProcessReport, PassOn, GiveUp, CreateQp, AddReg, Unregistered, ClearRegs, Cleared,
       StopMonitor, Shutdown, Join, Close, Register, msgVars
  <2>2. QED
    BY <2>1, CountFrame
<1>2. CASE ReplyDone
  <2>1. UNCHANGED <<asked, sending>> /\ cnt' = cnt - 1 /\ cnt \in Int
    BY <1>2 DEF ReplyDone, Inv, TypeOK, MsgsOK
  <2>2. Cardinality(sending) \in Nat
    BY FS_CardinalityType DEF CountInv
  <2>3. QED
    BY <2>1, <2>2 DEF CountInv
<1>3. ASSUME NEW m \in Msgs, SendDone(m) PROVE CountInv'
  <2>1. /\ UNCHANGED asked /\ sending' = sending \ {m} /\ m \in sending
        /\ cnt' = cnt - 1 /\ cnt \in Int
    BY <1>3 DEF SendDone, Inv, TypeOK, MsgsOK, QpOK
  <2>2. /\ Cardinality(sending) \in Nat /\ IsFiniteSet(sending')
        /\ Cardinality(sending') = Cardinality(sending) - 1
    BY <2>1, FS_CardinalityType, FS_RemoveElement DEF CountInv
  <2>3. QED
    BY <2>1, <2>2 DEF CountInv
<1>4. ASSUME NEW m \in Msgs, Repost(m) PROVE CountInv'
  <2>1. CASE UNCHANGED <<sending, cnt>>
    <3>1. UNCHANGED asked
      BY <1>4 DEF Repost
    <3>2. QED
      BY <2>1, <3>1, CountFrame
  <2>2. CASE m \notin sending /\ Post(m, retries[m] - 1)
    <3>1. UNCHANGED asked /\ MsgsOK
      BY <1>4 DEF Repost, Inv, TypeOK
    <3>2. asked[m] # None
      BY <1>4 DEF Repost, Inv, Allocated
    <3>3. /\ IsFiniteSet(sending)' /\ (cnt <= Cardinality(sending))'
          /\ sending' \subseteq sending \cup {m}
      BY <2>2, <3>1, Counted
    <3>4. QED
      BY <3>1, <3>2, <3>3 DEF CountInv
  <2>3. QED
    BY <1>4, <2>1, <2>2 DEF Repost
<1>5. ASSUME NEW m \in Msgs, PostRegister(m) PROVE CountInv'
  <2>1. m \in FreshMsgs /\ NewMsg(m, cur, Subscription(cur)) /\ Subscription(cur) \in Asked
    BY <1>5, AskedTyped DEF PostRegister, Inv, TypeOK, Allocated
  <2>2. QED
    BY <2>1, CountNewMsg
<1>6. ASSUME NEW r \in Regs, ClearReg(r) \/ Unregister(r) PROVE CountInv'
  <2>1. r \in regs /\ DropReg(r)
    BY <1>6 DEF ClearReg, Unregister
  <2>2. CASE UNCHANGED <<asked, sending, cnt>>
    BY <2>2, CountFrame
  <2>3. ASSUME NEW m \in FreshMsgs, NewMsg(m, None, Cancellation(r)) PROVE CountInv'
    <3>1. Cancellation(r) \in Asked
      BY <2>1, AskedTyped DEF Inv, TypeOK, Allocated, RegsOK
    <3>2. QED
      BY <2>3, <3>1, CountNewMsg
  <2>4. QED
    BY <2>1, <2>2, <2>3 DEF DropReg
<1>7. ASSUME NEW r \in Regs, NEW m \in Msgs, Reregister(r, m) PROVE CountInv'
  <2>1. m \in FreshMsgs /\ NewMsg(m, r, Subscription(r)) /\ Subscription(r) \in Asked
    BY <1>7, AskedTyped DEF Reregister, Inv, TypeOK, Allocated
  <2>2. QED
    BY <2>1, CountNewMsg
<1>8. QED
  BY <1>1, <1>2, <1>3, <1>4, <1>5, <1>6, <1>7 DEF Next, ThreadStep, UserStep

\* A send is counted down at the latest when it completes, however many answers to
\* reports are counted down without having been counted: while post_send_sa_msg
\* refuses, the queue pair holds as many registrations as it has buffers.
THEOREM BuffersInUse == Spec => [](NoBuffers => Cardinality(sending) >= SendBufs)
<1>1. ASSUME Inv, CountInv, [Next]_vars PROVE CountInv'
  <2>1. CASE UNCHANGED vars
    BY <1>1, <2>1, CountFrame DEF vars, msgVars
  <2>2. QED
    BY <1>1, <2>1, CountNext
<1>2. Init => CountInv
  <2> SUFFICES ASSUME Init PROVE CountInv
    OBVIOUS
  <2>1. sending = {} /\ cnt = 0
    BY DEF Init
  <2>2. IsFiniteSet(sending) /\ Cardinality(sending) = 0
    BY <2>1, FS_EmptySet
  <2>3. QED
    BY <2>1, <2>2 DEF CountInv
<1>3. ASSUME Inv, CountInv PROVE NoBuffers => Cardinality(sending) >= SendBufs
  <2>1. Cardinality(sending) \in Nat /\ cnt \in Int /\ cnt <= Cardinality(sending)
    BY <1>3, FS_CardinalityType DEF CountInv, Inv, TypeOK, MsgsOK
  <2>2. QED
    BY <2>1, NoticeAssumption DEF NoBuffers
<1>4. QED
  BY <1>1, <1>2, <1>3, Invariance, PTL DEF Spec

=============================================================================
