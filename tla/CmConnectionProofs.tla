------------------------- MODULE CmConnectionProofs -------------------------
(***************************************************************************)
(* Theorems about CmConnection, for any number of calls, answers, queue    *)
(* pairs and retries and whatever is lost, delayed, repeated and           *)
(* reordered.                                                              *)
(***************************************************************************)
EXTENDS CmConnection, TLAPS

\* Who a message in flight can be from and for.
MailOK(m) ==
    /\ m.type = "REQ" => m.from \in Calls /\ state[m.from] # "UNUSED"
    /\ m.type \in {"MRA_REQ", "REP"} =>
           m.to \in Calls /\ m.from \in Answers /\ peer[m.from] = m.to
    /\ m.type = "MRA_REP" => m.to \in Answers
    /\ m.type = "RTU" => <<m.from, m.to>> \in met
    /\ m.type \in {"REJ_REQ", "STALE_REQ"} => m.to \in Calls
    /\ m.type \in {"REJ_REP", "STALE_REP"} => m.to \in Answers
    /\ m.type \in {"DREQ", "DREP"} =>
           <<m.to, m.from>> \in met \/ <<m.from, m.to>> \in met

NetOK == \A m \in net : MailOK(m)

\* An answer is for the call its REQ named; a call that knows an answer's ID
\* has it from a message of that answer.
PeerOK ==
    /\ \A p \in Answers :
           /\ peer[p] \in Calls \cup {None}
           /\ peer[p] = None <=> state[p] = "UNUSED"
           /\ peer[p] # None => state[peer[p]] # "UNUSED"
    /\ \A k \in Calls :
           /\ peer[k] \in Answers \cup {None}
           /\ peer[k] # None => peer[peer[k]] = k
           /\ state[k] \in Offered => peer[k] # None

\* The RemoteCommID of a call is settled once it is accepted.
MetOK ==
    \A k \in Calls, p \in Answers :
        <<k, p>> \in met => state[k] \notin {"UNUSED"} \cup Calling \cup Offered

Inv == TypeOK /\ NetOK /\ PeerOK /\ MetOK /\ PartnersAgree /\ TimersRun
       /\ PendingIsRinging

-----------------------------------------------------------------------------
(* Initially. *)

LEMMA StatesInit == Init => StatesOK
BY DEF Init, StatesOK, Ceps, CallStates, AnswerStates

LEMMA InvInit == Init => Inv
<1> SUFFICES ASSUME Init PROVE Inv
  OBVIOUS
<1>1. CepsOK
  <2>1. retries \in [Ceps -> 0 .. MaxRetries]
    <3>1. 0 \in 0 .. MaxRetries
      BY CmAssumption DEF CmAssumption
    <3> QED
      BY <3>1 DEF Init
  <2> QED
    BY <2>1 DEF Init, CepsOK
<1>2. ListOK /\ net \subseteq Messages /\ met \subseteq Calls \X Answers
  <2>1. listening = FALSE /\ pending = <<>> /\ net = {} /\ met = {}
    BY DEF Init
  <2>2. listening \in BOOLEAN
    BY <2>1
  <2>3. pending \in Seq(Answers)
    BY <2>1
  <2> QED
    BY <2>1, <2>2, <2>3 DEF ListOK
<1>3. NetOK /\ PeerOK /\ MetOK
  BY DEF Init, NetOK, PeerOK, MetOK, Ceps, Offered
<1>4. PartnersAgree /\ TimersRun
  BY DEF Init, PartnersAgree, TimersRun, Ceps, Timed, Calling, Replied,
      Disconnecting
<1>5. PendingIsRinging
  <2>1. pending = <<>> /\ Len(pending) = 0 /\ 1 .. Len(pending) = {}
    <3>1. pending = <<>>
      BY DEF Init
    <3> QED
      BY <3>1
  <2>2. {pending[i] : i \in 1 .. Len(pending)} = {}
    BY <2>1
  <2>3. {p \in Answers : state[p] \in Ringing} = {}
    BY DEF Init, Ringing, Ceps
  <2>4. Len(pending) <= Backlog
    BY <2>1, CmAssumption
  <2> QED
    BY <2>1, <2>2, <2>3, <2>4 DEF PendingIsRinging
<1> QED
  BY <1>1, <1>2, <1>3, <1>4, <1>5, StatesInit DEF Inv, TypeOK

-----------------------------------------------------------------------------
(* Types are preserved. *)

\* Calls and answers are told apart.
LEMMA Sides ==
  /\ \A k \in Calls : k \in Ceps /\ k \notin Answers /\ k # None
  /\ \A p \in Answers : p \in Ceps /\ p \notin Calls /\ p # None
BY CmAssumption DEF CmAssumption, Ceps

\* One call, one answer, or either goes to a state its side has.
LEMMA CallGoes ==
  ASSUME StatesOK, NEW k \in Calls, NEW s \in CallStates, To(k, s)
  PROVE  StatesOK'
BY Sides DEF StatesOK, To, Ceps

LEMMA AnswerGoes ==
  ASSUME StatesOK, NEW p \in Answers, NEW s \in AnswerStates, To(p, s)
  PROVE  StatesOK'
BY Sides DEF StatesOK, To, Ceps

LEMMA CepGoes ==
  ASSUME StatesOK, NEW n \in Ceps, NEW s \in CallStates \cap AnswerStates,
          To(n, s)
  PROVE  StatesOK'
BY CallGoes, AnswerGoes DEF Ceps

LEMMA NoneGoes ==
  ASSUME StatesOK, UNCHANGED state
  PROVE  StatesOK'
BY DEF StatesOK

\* The two sides of a message, as far as NetOK knows them.
LEMMA Receivers ==
  ASSUME Inv, NEW m \in net
  PROVE  /\ m \in Messages
         /\ m.type \in {"MRA_REQ", "REP", "REJ_REQ",
                 "STALE_REQ"} => m.to \in Calls
         /\ m.type \in {"MRA_REP", "REJ_REP", "STALE_REP",
                 "RTU"} => m.to \in Answers
         /\ m.type \in {"DREQ", "DREP"} => m.to \in Ceps
         /\ m.type = "REQ" => m.from \in Calls
<1> SUFFICES ASSUME TypeOK, NetOK PROVE
         /\ m \in Messages
         /\ m.type \in {"MRA_REQ", "REP", "REJ_REQ",
                 "STALE_REQ"} => m.to \in Calls
         /\ m.type \in {"MRA_REP", "REJ_REP", "STALE_REP",
                 "RTU"} => m.to \in Answers
         /\ m.type \in {"DREQ", "DREP"} => m.to \in Ceps
         /\ m.type = "REQ" => m.from \in Calls
  BY DEF Inv
<1>1. m \in Messages
  BY DEF TypeOK
<1>2. met \subseteq Calls \X Answers
  BY DEF TypeOK
<1>3. m.type = "RTU" => m.to \in Answers
  BY <1>2 DEF NetOK, MailOK
<1>4. m.type \in {"DREQ", "DREP"} => m.to \in Ceps
  BY <1>2 DEF NetOK, MailOK, Ceps
<1>5. m.type \in {"MRA_REQ", "REP", "REJ_REQ", "STALE_REQ"} => m.to \in Calls
  BY DEF NetOK, MailOK
<1>6. m.type \in {"MRA_REP", "REJ_REP", "STALE_REP"} => m.to \in Answers
  BY DEF NetOK, MailOK
<1>7. m.type = "REQ" => m.from \in Calls
  BY DEF NetOK, MailOK
<1> QED
  BY <1>1, <1>3, <1>4, <1>5, <1>6, <1>7

\* Each side stays in the states of its side.
LEMMA StatesStep ==
  ASSUME Inv, Next
  PROVE  StatesOK'
<1>s. StatesOK
  BY DEF Inv, TypeOK
<1>h. pending # <<>> => Head(pending) \in Answers
  BY DEF Inv, TypeOK, ListOK
<1>c. \A n \in Ceps : state[n] \in Calling => n \in Calls
  BY <1>s DEF StatesOK, Calling, AnswerStates, Ceps
<1>p. \A n \in Ceps : state[n] \in Replied => n \in Answers
  BY <1>s DEF StatesOK, Replied, CallStates, Ceps
<1>1. ASSUME NEW k \in Calls, NEW q \in ClientQPs, Connect(k, q) PROVE StatesOK'
  BY <1>1, <1>s, CallGoes DEF Connect, ToIdle, ToTimewait, CallStates,
      AnswerStates, cepVars
<1>2. ASSUME NEW k \in Calls, AcceptA(k) PROVE StatesOK'
  BY <1>2, <1>s, CallGoes DEF AcceptA, ToIdle, ToTimewait, CallStates,
      AnswerStates, cepVars
<1>3. ASSUME NEW k \in Calls, RejectA(k) PROVE StatesOK'
  BY <1>3, <1>s, CallGoes DEF RejectA, ToIdle, ToTimewait, CallStates,
      AnswerStates, cepVars
<1>4. ASSUME NEW k \in Calls, CancelA(k) PROVE StatesOK'
  BY <1>4, <1>s, CallGoes DEF CancelA, ToIdle, ToTimewait, CallStates,
      AnswerStates, cepVars
<1>5. CASE Listen
  BY <1>5, <1>s, NoneGoes DEF Listen, ToIdle, ToTimewait, CallStates,
      AnswerStates, cepVars
<1>6. CASE RejectP
  BY <1>6, <1>s, <1>h, AnswerGoes DEF RejectP, ToIdle, ToTimewait, CallStates,
      AnswerStates, cepVars
<1>7. CASE CancelListen
  BY <1>7, <1>s, Sides DEF CancelListen, StatesOK, CallStates, AnswerStates,
      Ceps
<1>8. ASSUME NEW q \in ServerQPs, AcceptP(q) PROVE StatesOK'
  BY <1>8, <1>s, <1>h, AnswerGoes DEF AcceptP, ToIdle, ToTimewait, CallStates,
      AnswerStates, cepVars
<1>9. ASSUME NEW p \in Answers, CancelP(p) PROVE StatesOK'
  BY <1>9, <1>s, AnswerGoes, NoneGoes DEF CancelP, ToIdle, ToTimewait,
      CallStates, AnswerStates, cepVars
<1>10. ASSUME NEW p \in Answers, CommEstablished(p) PROVE StatesOK'
  BY <1>10, <1>s, AnswerGoes, NoneGoes DEF CommEstablished, BecomeEstablished,
      ToIdle, ToTimewait, CallStates, AnswerStates, cepVars
<1>11. ASSUME NEW n \in Ceps, Disconnect(n) PROVE StatesOK'
  BY <1>11, <1>s, CepGoes, CallGoes, NoneGoes, Sides DEF Disconnect,
      DisconnectA, ToIdle, ToTimewait, CallStates, AnswerStates, cepVars,
      StatesOK, Ceps
<1>12. ASSUME NEW n \in Ceps, Destroy(n) PROVE StatesOK'
  BY <1>12, <1>s, CepGoes, CallGoes, NoneGoes, Sides DEF Destroy, DisconnectA,
      ToIdle, ToTimewait, CallStates, AnswerStates, cepVars, StatesOK, Ceps
<1>13. ASSUME NEW n \in Ceps, ReqTimeout(n) PROVE StatesOK'
  BY <1>13, <1>s, <1>c, CallGoes, CepGoes DEF ReqTimeout, ToIdle, ToTimewait,
      CallStates, AnswerStates, cepVars
<1>14. ASSUME NEW n \in Ceps, RepTimeout(n) PROVE StatesOK'
  BY <1>14, <1>s, <1>p, AnswerGoes, CepGoes DEF RepTimeout, ToIdle,
      ToTimewait, CallStates, AnswerStates, cepVars
<1>15. ASSUME NEW n \in Ceps, DreqTimeout(n) PROVE StatesOK'
  BY <1>15, <1>s, CepGoes, CallGoes, NoneGoes, Sides DEF DreqTimeout, ToIdle,
      ToTimewait, CallStates, AnswerStates, cepVars, StatesOK, Ceps
<1>16. ASSUME NEW n \in Ceps, TimewaitOver(n) PROVE StatesOK'
  BY <1>16, <1>s, CepGoes DEF TimewaitOver, ToIdle, ToTimewait, CallStates,
      AnswerStates, cepVars
<1>17. ASSUME NEW m \in net, m.type = "REQ", RefuseReq(m) PROVE StatesOK'
  BY <1>17, <1>s, NoneGoes DEF RefuseReq, ToIdle, ToTimewait, CallStates,
      AnswerStates, cepVars
<1>18. ASSUME NEW m \in net, NEW p \in Answers, m.type = "REQ", TakeReq(m,
        p) PROVE StatesOK'
  BY <1>18, <1>s, AnswerGoes, NoneGoes DEF TakeReq, ToIdle, ToTimewait,
      CallStates, AnswerStates, cepVars
<1>19. ASSUME NEW m \in net, NEW p \in Answers, m.type = "REQ", DupReq(m,
        p) PROVE StatesOK'
  BY <1>19, <1>s, AnswerGoes, NoneGoes DEF DupReq, ToIdle, ToTimewait,
      CallStates, AnswerStates, cepVars
<1>20. ASSUME NEW m \in net, NEW p \in Answers, m.type = "REQ", StaleReq(m,
        p) PROVE StatesOK'
  BY <1>20, <1>s, AnswerGoes, NoneGoes DEF StaleReq, ToIdle, ToTimewait,
      CallStates, AnswerStates, cepVars
<1>21. ASSUME NEW m \in net, RcvMraReq(m) PROVE StatesOK'
  BY <1>21, <1>s, Receivers, CallGoes, NoneGoes DEF RcvMraReq, Discard,
      ToIdle, ToTimewait, CallStates, AnswerStates, cepVars
<1>22. ASSUME NEW m \in net, m.type = "REP", TakeRep(m, m.to) PROVE StatesOK'
  BY <1>22, <1>s, Receivers, CallGoes, NoneGoes DEF TakeRep, ToIdle,
      ToTimewait, CallStates, AnswerStates, cepVars
<1>23. ASSUME NEW m \in net, m.type = "REP", StaleRep(m, m.to) PROVE StatesOK'
  BY <1>23, <1>s, NoneGoes DEF StaleRep, ToIdle, ToTimewait, CallStates,
      AnswerStates, cepVars
<1>24. ASSUME NEW m \in net, m.type = "REP", DupRep(m, m.to) PROVE StatesOK'
  BY <1>24, <1>s, Receivers, CallGoes, NoneGoes DEF DupRep, ToIdle,
      ToTimewait, CallStates, AnswerStates, cepVars
<1>25. ASSUME NEW m \in net, RcvMraRep(m) PROVE StatesOK'
  BY <1>25, <1>s, Receivers, AnswerGoes, NoneGoes DEF RcvMraRep, Discard,
      ToIdle, ToTimewait, CallStates, AnswerStates, cepVars
<1>26. ASSUME NEW m \in net, RcvRtu(m) PROVE StatesOK'
  BY <1>26, <1>s, Receivers, AnswerGoes, NoneGoes DEF RcvRtu,
      BecomeEstablished, Discard, ToIdle, ToTimewait, CallStates,
      AnswerStates, cepVars
<1>27. ASSUME NEW m \in net, RcvRejReq(m) PROVE StatesOK'
  BY <1>27, <1>s, Receivers, CallGoes, NoneGoes DEF RcvRejReq, Discard,
      ToIdle, ToTimewait, CallStates, AnswerStates, cepVars
<1>28. ASSUME NEW m \in net, RcvRejRep(m) PROVE StatesOK'
  BY <1>28, <1>s, Receivers, AnswerGoes, NoneGoes DEF RcvRejRep, Discard,
      ToIdle, ToTimewait, CallStates, AnswerStates, cepVars
<1>29. ASSUME NEW m \in net, RcvDreq(m) PROVE StatesOK'
  BY <1>29, <1>s, Receivers, CepGoes, NoneGoes DEF RcvDreq, CrossedDreq,
      Discard, ToIdle, ToTimewait, CallStates, AnswerStates, cepVars
<1>30. ASSUME NEW m \in net, RcvDrep(m) PROVE StatesOK'
  BY <1>30, <1>s, Receivers, CepGoes, NoneGoes DEF RcvDrep, Discard, ToIdle,
      ToTimewait, CallStates, AnswerStates, cepVars
<1> QED BY <1>1, <1>2, <1>3, <1>4, <1>5, <1>6, <1>7, <1>8, <1>9, <1>10, <1>11,
          <1>12, <1>13, <1>14, <1>15, <1>16, <1>17, <1>18, <1>19, <1>20,
          <1>21, <1>22, <1>23, <1>24, <1>25, <1>26, <1>27, <1>28, <1>29,
          <1>30 DEF Next, Receive, RcvReq, RcvRep, Timeout

\* The head of the list is a CEP that rings.
LEMMA HeadRings ==
  ASSUME Inv, pending # <<>>
  PROVE  Head(pending) \in Answers /\ state[Head(pending)] \in Ringing
<1>1. pending \in Seq(Answers) /\ Len(pending) \in Nat /\ Len(pending) >= 1
  BY DEF Inv, TypeOK, ListOK
<1>2. Head(pending) = pending[1] /\ 1 \in 1 .. Len(pending)
  BY <1>1
<1>3. Head(pending) \in {pending[i] : i \in 1 .. Len(pending)}
  BY <1>2
<1> QED
  BY <1>3 DEF Inv, PendingIsRinging

\* Retries stay within their bound.
LEMMA Retried ==
  ASSUME CepsOK, NEW n \in Ceps, RetriesLeft(n), Retry(n)
  PROVE  retries' \in [Ceps -> 0 .. MaxRetries]
<1>1. retries[n] + 1 \in 0 .. MaxRetries
  BY CmAssumption DEF CepsOK, RetriesLeft
<1> QED
  BY <1>1 DEF CepsOK, Retry

LEMMA NotRetried ==
  ASSUME CepsOK, NEW n \in Ceps, NoRetries(n)
  PROVE  retries' \in [Ceps -> 0 .. MaxRetries]
<1>1. 0 \in 0 .. MaxRetries
  BY CmAssumption
<1> QED
  BY <1>1 DEF CepsOK, NoRetries

\* The fields of the CEPs keep their types.
LEMMA CepsStep ==
  ASSUME Inv, Next
  PROVE  CepsOK'
<1>t. CepsOK
  BY DEF Inv, TypeOK
<1>h. pending # <<>> => Head(pending) \in Answers
  BY DEF Inv, TypeOK, ListOK
<1>m. \A m \in net : /\ m.from \in Ceps \cup {None}
                     /\ m.qp \in QPs \cup {None}
  BY DEF Inv, TypeOK, Messages
<1>1. ASSUME NEW k \in Calls, NEW q \in ClientQPs, Connect(k, q) PROVE CepsOK'
  <2>1. qp' \in [Ceps -> QPs \cup {None}]
    BY <1>1, <1>t DEF Connect, CepsOK, ToIdle, ToTimewait, QPs, cepVars
  <2>2. retries' \in [Ceps -> 0 .. MaxRetries]
    BY <1>1, <1>t, Sides, Retried, NotRetried DEF Connect, CepsOK, cepVars
  <2>3. timer' \in [Ceps -> BOOLEAN]
    BY <1>1, <1>t DEF Connect, CepsOK, TimerStart, TimerStop, ToTimewait,
        cepVars
  <2> QED
    BY <1>1, <1>t, <2>1, <2>2, <2>3 DEF Connect, CepsOK, ToIdle, ToTimewait,
        cepVars
<1>2. ASSUME NEW k \in Calls, AcceptA(k) PROVE CepsOK'
  BY <1>2, <1>t DEF AcceptA, cepVars, CepsOK
<1>3. ASSUME NEW k \in Calls, RejectA(k) PROVE CepsOK'
  <2>1. qp' \in [Ceps -> QPs \cup {None}]
    BY <1>3, <1>t DEF RejectA, CepsOK, ToIdle, ToTimewait, QPs, cepVars
  <2>2. remote' \in [Ceps -> QPs \cup {None}]
    BY <1>3, <1>t DEF RejectA, CepsOK, ToIdle, ToTimewait, QPs, cepVars
  <2> QED
    BY <1>3, <1>t, <2>1, <2>2 DEF RejectA, CepsOK, ToIdle, ToTimewait, cepVars
<1>4. ASSUME NEW k \in Calls, CancelA(k) PROVE CepsOK'
  <2>1. qp' \in [Ceps -> QPs \cup {None}]
    BY <1>4, <1>t DEF CancelA, CepsOK, ToIdle, ToTimewait, QPs, cepVars
  <2>2. remote' \in [Ceps -> QPs \cup {None}]
    BY <1>4, <1>t DEF CancelA, CepsOK, ToIdle, ToTimewait, QPs, cepVars
  <2>3. timer' \in [Ceps -> BOOLEAN]
    BY <1>4, <1>t DEF CancelA, CepsOK, TimerStart, TimerStop, ToTimewait,
        cepVars
  <2> QED
    BY <1>4, <1>t, <2>1, <2>2, <2>3 DEF CancelA, CepsOK, ToIdle, ToTimewait,
        cepVars
<1>5. CASE Listen
  BY <1>5, <1>t DEF Listen, cepVars, CepsOK
<1>6. CASE RejectP
  <2>1. qp' \in [Ceps -> QPs \cup {None}]
    BY <1>6, <1>t DEF RejectP, CepsOK, ToIdle, ToTimewait, QPs, cepVars
  <2>2. remote' \in [Ceps -> QPs \cup {None}]
    BY <1>6, <1>t DEF RejectP, CepsOK, ToIdle, ToTimewait, QPs, cepVars
  <2> QED
    BY <1>6, <1>t, <2>1, <2>2 DEF RejectP, CepsOK, ToIdle, ToTimewait, cepVars
<1>7. CASE CancelListen
  <2>1. qp' \in [Ceps -> QPs \cup {None}]
    BY <1>7, <1>t DEF CancelListen, CepsOK, ToIdle, ToTimewait, QPs, cepVars
  <2>2. remote' \in [Ceps -> QPs \cup {None}]
    BY <1>7, <1>t DEF CancelListen, CepsOK, ToIdle, ToTimewait, QPs, cepVars
  <2> QED
    BY <1>7, <1>t, <2>1, <2>2 DEF CancelListen, CepsOK, ToIdle, ToTimewait,
        cepVars
<1>8. ASSUME NEW q \in ServerQPs, AcceptP(q) PROVE CepsOK'
  <2>1. qp' \in [Ceps -> QPs \cup {None}]
    BY <1>8, <1>t DEF AcceptP, CepsOK, ToIdle, ToTimewait, QPs, cepVars
  <2>2. retries' \in [Ceps -> 0 .. MaxRetries]
    BY <1>8, <1>t, <1>h, Sides, Retried, NotRetried DEF AcceptP, CepsOK, cepVars
  <2>3. timer' \in [Ceps -> BOOLEAN]
    BY <1>8, <1>t DEF AcceptP, CepsOK, TimerStart, TimerStop, ToTimewait,
        cepVars
  <2> QED
    BY <1>8, <1>t, <2>1, <2>2, <2>3 DEF AcceptP, CepsOK, ToIdle, ToTimewait,
        cepVars
<1>9. ASSUME NEW p \in Answers, CancelP(p) PROVE CepsOK'
  <2>1. qp' \in [Ceps -> QPs \cup {None}]
    BY <1>9, <1>t DEF CancelP, CepsOK, ToIdle, ToTimewait, QPs, cepVars
  <2>2. remote' \in [Ceps -> QPs \cup {None}]
    BY <1>9, <1>t DEF CancelP, CepsOK, ToIdle, ToTimewait, QPs, cepVars
  <2>3. timer' \in [Ceps -> BOOLEAN]
    BY <1>9, <1>t DEF CancelP, CepsOK, TimerStart, TimerStop, ToTimewait,
        cepVars
  <2> QED
    BY <1>9, <1>t, <2>1, <2>2, <2>3 DEF CancelP, CepsOK, ToIdle, ToTimewait,
        cepVars
<1>10. ASSUME NEW p \in Answers, CommEstablished(p) PROVE CepsOK'
  <2>1. timer' \in [Ceps -> BOOLEAN]
    BY <1>10, <1>t DEF CommEstablished, BecomeEstablished, CepsOK, TimerStart,
        TimerStop, ToTimewait, cepVars
  <2> QED
    BY <1>10, <1>t, <2>1 DEF CommEstablished, BecomeEstablished, CepsOK, ToIdle,
        ToTimewait, cepVars
<1>11. ASSUME NEW n \in Ceps, Disconnect(n) PROVE CepsOK'
  <2>1. retries' \in [Ceps -> 0 .. MaxRetries]
    BY <1>11, <1>t, Sides, Retried, NotRetried DEF Disconnect, DisconnectA,
        CepsOK, cepVars
  <2>2. timer' \in [Ceps -> BOOLEAN]
    BY <1>11, <1>t DEF Disconnect, DisconnectA, CepsOK, TimerStart, TimerStop,
        ToTimewait, cepVars
  <2> QED
    BY <1>11, <1>t, <2>1, <2>2 DEF Disconnect, DisconnectA, CepsOK, ToIdle,
        ToTimewait, cepVars
<1>12. ASSUME NEW n \in Ceps, Destroy(n) PROVE CepsOK'
  <2>1. retries' \in [Ceps -> 0 .. MaxRetries]
    BY <1>12, <1>t, Sides, Retried, NotRetried DEF Destroy, DisconnectA,
        CepsOK, cepVars
  <2>2. timer' \in [Ceps -> BOOLEAN]
    BY <1>12, <1>t DEF Destroy, DisconnectA, CepsOK, TimerStart, TimerStop,
        ToTimewait, cepVars
  <2>3. doomed' \in [Ceps -> BOOLEAN]
    BY <1>12, <1>t DEF Destroy, DisconnectA, CepsOK, cepVars
  <2> QED
    BY <1>12, <1>t, <2>1, <2>2, <2>3 DEF Destroy, DisconnectA, CepsOK, ToIdle,
        ToTimewait, cepVars
<1>13. ASSUME NEW n \in Ceps, ReqTimeout(n) PROVE CepsOK'
  <2>1. qp' \in [Ceps -> QPs \cup {None}]
    BY <1>13, <1>t DEF ReqTimeout, CepsOK, ToIdle, ToTimewait, QPs, cepVars
  <2>2. remote' \in [Ceps -> QPs \cup {None}]
    BY <1>13, <1>t DEF ReqTimeout, CepsOK, ToIdle, ToTimewait, QPs, cepVars
  <2>3. retries' \in [Ceps -> 0 .. MaxRetries]
    BY <1>13, <1>t, Sides, Retried, NotRetried DEF ReqTimeout, CepsOK, cepVars
  <2>4. timer' \in [Ceps -> BOOLEAN]
    BY <1>13, <1>t DEF ReqTimeout, CepsOK, TimerStart, TimerStop, ToTimewait,
        cepVars
  <2> QED
    BY <1>13, <1>t, <2>1, <2>2, <2>3, <2>4 DEF ReqTimeout, CepsOK, ToIdle,
        ToTimewait, cepVars
<1>14. ASSUME NEW n \in Ceps, RepTimeout(n) PROVE CepsOK'
  <2>1. retries' \in [Ceps -> 0 .. MaxRetries]
    BY <1>14, <1>t, Sides, Retried, NotRetried DEF RepTimeout, CepsOK, cepVars
  <2>2. timer' \in [Ceps -> BOOLEAN]
    BY <1>14, <1>t DEF RepTimeout, CepsOK, TimerStart, TimerStop, ToTimewait,
        cepVars
  <2> QED
    BY <1>14, <1>t, <2>1, <2>2 DEF RepTimeout, CepsOK, ToIdle, ToTimewait,
        cepVars
<1>15. ASSUME NEW n \in Ceps, DreqTimeout(n) PROVE CepsOK'
  <2>1. retries' \in [Ceps -> 0 .. MaxRetries]
    BY <1>15, <1>t, Sides, Retried, NotRetried DEF DreqTimeout, CepsOK, cepVars
  <2>2. timer' \in [Ceps -> BOOLEAN]
    BY <1>15, <1>t DEF DreqTimeout, CepsOK, TimerStart, TimerStop, ToTimewait,
        cepVars
  <2> QED
    BY <1>15, <1>t, <2>1, <2>2 DEF DreqTimeout, CepsOK, ToIdle, ToTimewait,
        cepVars
<1>16. ASSUME NEW n \in Ceps, TimewaitOver(n) PROVE CepsOK'
  <2>1. qp' \in [Ceps -> QPs \cup {None}]
    BY <1>16, <1>t DEF TimewaitOver, CepsOK, ToIdle, ToTimewait, QPs, cepVars
  <2>2. remote' \in [Ceps -> QPs \cup {None}]
    BY <1>16, <1>t DEF TimewaitOver, CepsOK, ToIdle, ToTimewait, QPs, cepVars
  <2>3. retries' \in [Ceps -> 0 .. MaxRetries]
    BY <1>16, <1>t, Sides, Retried, NotRetried DEF TimewaitOver, CepsOK, cepVars
  <2>4. timer' \in [Ceps -> BOOLEAN]
    BY <1>16, <1>t DEF TimewaitOver, CepsOK, TimerStart, TimerStop, ToTimewait,
        cepVars
  <2> QED
    BY <1>16, <1>t, <2>1, <2>2, <2>3, <2>4 DEF TimewaitOver, CepsOK, ToIdle,
        ToTimewait, cepVars
<1>17. ASSUME NEW m \in net, m.type = "REQ", RefuseReq(m) PROVE CepsOK'
  BY <1>17, <1>t DEF RefuseReq, cepVars, CepsOK
<1>18. ASSUME NEW m \in net, NEW p \in Answers, m.type = "REQ", TakeReq(m,
        p) PROVE CepsOK'
  <2>1. peer' \in [Ceps -> Ceps \cup {None}]
    BY <1>18, <1>t, Receivers, Sides DEF TakeReq, CepsOK, cepVars
  <2>2. remote' \in [Ceps -> QPs \cup {None}]
    BY <1>18, <1>t, <1>m DEF TakeReq, CepsOK, ToIdle, ToTimewait, QPs, cepVars
  <2> QED
    BY <1>18, <1>t, <2>1, <2>2 DEF TakeReq, CepsOK, ToIdle, ToTimewait, cepVars
<1>19. ASSUME NEW m \in net, NEW p \in Answers, m.type = "REQ", DupReq(m,
        p) PROVE CepsOK'
  <2>1. timer' \in [Ceps -> BOOLEAN]
    BY <1>19, <1>t DEF DupReq, CepsOK, TimerStart, TimerStop, ToTimewait,
        cepVars
  <2> QED
    BY <1>19, <1>t, <2>1 DEF DupReq, CepsOK, ToIdle, ToTimewait, cepVars
<1>20. ASSUME NEW m \in net, NEW p \in Answers, m.type = "REQ", StaleReq(m,
        p) PROVE CepsOK'
  BY <1>20, <1>t DEF StaleReq, cepVars, CepsOK
<1>21. ASSUME NEW m \in net, RcvMraReq(m) PROVE CepsOK'
  <2>1. peer' \in [Ceps -> Ceps \cup {None}]
    BY <1>21, <1>t, Receivers, <1>m DEF RcvMraReq, Discard, CepsOK, cepVars
  <2>2. timer' \in [Ceps -> BOOLEAN]
    BY <1>21, <1>t DEF RcvMraReq, Discard, CepsOK, TimerStart, TimerStop,
        ToTimewait, cepVars
  <2> QED
    BY <1>21, <1>t, <2>1, <2>2 DEF RcvMraReq, Discard, CepsOK, ToIdle,
        ToTimewait,
        cepVars
<1>22. ASSUME NEW m \in net, m.type = "REP", TakeRep(m, m.to) PROVE CepsOK'
  <2>1. peer' \in [Ceps -> Ceps \cup {None}]
    BY <1>22, <1>t, Receivers, <1>m DEF TakeRep, CepsOK, cepVars
  <2>2. remote' \in [Ceps -> QPs \cup {None}]
    BY <1>22, <1>t, <1>m DEF TakeRep, CepsOK, ToIdle, ToTimewait, QPs, cepVars
  <2>3. timer' \in [Ceps -> BOOLEAN]
    BY <1>22, <1>t DEF TakeRep, CepsOK, TimerStart, TimerStop, ToTimewait,
        cepVars
  <2> QED
    BY <1>22, <1>t, <2>1, <2>2, <2>3 DEF TakeRep, CepsOK, ToIdle, ToTimewait,
        cepVars
<1>23. ASSUME NEW m \in net, m.type = "REP", StaleRep(m, m.to) PROVE CepsOK'
  BY <1>23, <1>t DEF StaleRep, cepVars, CepsOK
<1>24. ASSUME NEW m \in net, m.type = "REP", DupRep(m, m.to) PROVE CepsOK'
  BY <1>24, <1>t DEF DupRep, cepVars, CepsOK
<1>25. ASSUME NEW m \in net, RcvMraRep(m) PROVE CepsOK'
  <2>1. timer' \in [Ceps -> BOOLEAN]
    BY <1>25, <1>t DEF RcvMraRep, Discard, CepsOK, TimerStart, TimerStop,
        ToTimewait, cepVars
  <2> QED
    BY <1>25, <1>t, <2>1 DEF RcvMraRep, Discard, CepsOK, ToIdle, ToTimewait,
        cepVars
<1>26. ASSUME NEW m \in net, RcvRtu(m) PROVE CepsOK'
  <2>1. timer' \in [Ceps -> BOOLEAN]
    BY <1>26, <1>t DEF RcvRtu, BecomeEstablished, Discard, CepsOK, TimerStart,
        TimerStop, ToTimewait, cepVars
  <2> QED
    BY <1>26, <1>t, <2>1 DEF RcvRtu, BecomeEstablished, Discard, CepsOK, ToIdle,
        ToTimewait, cepVars
<1>27. ASSUME NEW m \in net, RcvRejReq(m) PROVE CepsOK'
  <2>1. qp' \in [Ceps -> QPs \cup {None}]
    BY <1>27, <1>t DEF RcvRejReq, Discard, CepsOK, ToIdle, ToTimewait, QPs,
        cepVars
  <2>2. remote' \in [Ceps -> QPs \cup {None}]
    BY <1>27, <1>t DEF RcvRejReq, Discard, CepsOK, ToIdle, ToTimewait, QPs,
        cepVars
  <2>3. timer' \in [Ceps -> BOOLEAN]
    BY <1>27, <1>t DEF RcvRejReq, Discard, CepsOK, TimerStart, TimerStop,
        ToTimewait, cepVars
  <2> QED
    BY <1>27, <1>t, <2>1, <2>2, <2>3 DEF RcvRejReq, Discard, CepsOK, ToIdle,
        ToTimewait, cepVars
<1>28. ASSUME NEW m \in net, RcvRejRep(m) PROVE CepsOK'
  <2>1. qp' \in [Ceps -> QPs \cup {None}]
    BY <1>28, <1>t DEF RcvRejRep, Discard, CepsOK, ToIdle, ToTimewait, QPs,
        cepVars
  <2>2. remote' \in [Ceps -> QPs \cup {None}]
    BY <1>28, <1>t DEF RcvRejRep, Discard, CepsOK, ToIdle, ToTimewait, QPs,
        cepVars
  <2>3. timer' \in [Ceps -> BOOLEAN]
    BY <1>28, <1>t DEF RcvRejRep, Discard, CepsOK, TimerStart, TimerStop,
        ToTimewait, cepVars
  <2> QED
    BY <1>28, <1>t, <2>1, <2>2, <2>3 DEF RcvRejRep, Discard, CepsOK, ToIdle,
        ToTimewait, cepVars
<1>29. ASSUME NEW m \in net, RcvDreq(m) PROVE CepsOK'
  <2>1. timer' \in [Ceps -> BOOLEAN]
    BY <1>29, <1>t DEF RcvDreq, CrossedDreq, Discard, CepsOK, TimerStart,
        TimerStop, ToTimewait, cepVars
  <2> QED
    BY <1>29, <1>t, <2>1 DEF RcvDreq, CrossedDreq, Discard, CepsOK, ToIdle,
        ToTimewait, cepVars
<1>30. ASSUME NEW m \in net, RcvDrep(m) PROVE CepsOK'
  <2>1. timer' \in [Ceps -> BOOLEAN]
    BY <1>30, <1>t DEF RcvDrep, Discard, CepsOK, TimerStart, TimerStop,
        ToTimewait, cepVars
  <2> QED
    BY <1>30, <1>t, <2>1 DEF RcvDrep, Discard, CepsOK, ToIdle, ToTimewait,
        cepVars
<1> QED BY <1>1, <1>2, <1>3, <1>4, <1>5, <1>6, <1>7, <1>8, <1>9, <1>10, <1>11,
          <1>12, <1>13, <1>14, <1>15, <1>16, <1>17, <1>18, <1>19, <1>20,
          <1>21, <1>22, <1>23, <1>24, <1>25, <1>26, <1>27, <1>28, <1>29,
          <1>30 DEF Next, Receive, RcvReq, RcvRep, Timeout

-----------------------------------------------------------------------------
(* Timers. *)

LEMMA Starts ==
  ASSUME TimersRun, StatesOK, CepsOK, NEW n \in Ceps, NEW s \in Timed,
         To(n, s), TimerStart(n)
  PROVE  TimersRun'
BY DEF TimersRun, StatesOK, CepsOK, To, TimerStart

LEMMA Stops ==
  ASSUME TimersRun, StatesOK, CepsOK, NEW n \in Ceps, NEW s, s \notin Timed,
         To(n, s), TimerStop(n)
  PROVE  TimersRun'
BY DEF TimersRun, StatesOK, CepsOK, To, TimerStop

LEMMA Stays ==
  ASSUME TimersRun, StatesOK, CepsOK, NEW n \in Ceps, NEW s,
         s \in Timed <=> state[n] \in Timed, To(n, s), UNCHANGED timer
  PROVE  TimersRun'
BY DEF TimersRun, StatesOK, CepsOK, To

LEMMA Refresh ==
  ASSUME TimersRun, StatesOK, CepsOK, NEW n \in Ceps, state[n] \in Timed,
         UNCHANGED state, TimerStart(n)
  PROVE  TimersRun'
BY DEF TimersRun, StatesOK, CepsOK, TimerStart

LEMMA Rests ==
  ASSUME TimersRun, UNCHANGED <<state, timer>>
  PROVE  TimersRun'
BY DEF TimersRun

\* Every hand-over leaves the timers right.
LEMMA TimersStep ==
  ASSUME Inv, Next
  PROVE  TimersRun'
<1>t. TimersRun
  BY DEF Inv
<1>y. StatesOK /\ CepsOK
  BY DEF Inv, TypeOK
<1>h. pending # <<>> => Head(pending) \in Answers /\ state[Head(pending)] \in Ringing
  BY HeadRings
<1>r. \A m \in net : m.type # "REQ" => m.to \in Ceps
  BY Receivers, Sides DEF Messages, Types
<1>1. ASSUME NEW k \in Calls, NEW q \in ClientQPs, Connect(k,
        q) PROVE TimersRun'
  BY <1>1, <1>t, <1>y, Starts, Sides DEF Connect, ToIdle, ToTimewait, cepVars,
      Timed, Calling, Replied, Offered, Ringing
<1>2. ASSUME NEW k \in Calls, AcceptA(k) PROVE TimersRun'
  BY <1>2, <1>t, <1>y, Stays, Sides DEF AcceptA, ToIdle, ToTimewait, cepVars,
      Timed,
      Calling, Replied, Offered, Ringing
<1>3. ASSUME NEW k \in Calls, RejectA(k) PROVE TimersRun'
  BY <1>3, <1>t, <1>y, Stays, Sides DEF RejectA, ToIdle, ToTimewait, cepVars,
      Timed,
      Calling, Replied, Offered, Ringing
<1>4. ASSUME NEW k \in Calls, CancelA(k) PROVE TimersRun'
  BY <1>4, <1>t, <1>y, Stops, Sides DEF CancelA, ToIdle, ToTimewait, cepVars,
      Timed,
      Calling, Replied, Offered, Ringing
<1>5. CASE Listen
  BY <1>5, <1>t, <1>y, Rests DEF Listen, ToIdle, ToTimewait, cepVars, Timed,
      Calling, Replied, Offered, Ringing
<1>6. CASE RejectP
  BY <1>6, <1>t, <1>y, <1>h, Stays, Sides DEF RejectP, ToIdle, ToTimewait,
      cepVars,
      Timed, Calling, Replied, Offered, Ringing
<1>7. CASE CancelListen
  BY <1>7, <1>t, <1>y, Sides DEF CancelListen, TimersRun, Timed, Calling,
      Replied, Ringing, StatesOK, CepsOK, Ceps
<1>8. ASSUME NEW q \in ServerQPs, AcceptP(q) PROVE TimersRun'
  BY <1>8, <1>t, <1>y, <1>h, Starts, Sides DEF AcceptP, ToIdle, ToTimewait,
      cepVars,
      Timed, Calling, Replied, Offered, Ringing
<1>9. ASSUME NEW p \in Answers, CancelP(p) PROVE TimersRun'
  BY <1>9, <1>t, <1>y, Stops, Sides DEF CancelP, ToIdle, ToTimewait, cepVars,
      Timed,
      Calling, Replied, Offered, Ringing
<1>10. ASSUME NEW p \in Answers, CommEstablished(p) PROVE TimersRun'
  BY <1>10, <1>t, <1>y, Stops, Sides DEF CommEstablished, BecomeEstablished,
      ToIdle,
      ToTimewait, cepVars, Timed, Calling, Replied, Offered, Ringing
<1>11. ASSUME NEW n \in Ceps, Disconnect(n) PROVE TimersRun'
  BY <1>11, <1>t, <1>y, Starts, Stays, Rests DEF Disconnect, DisconnectA,
      ToIdle,
      ToTimewait, cepVars, Timed, Calling, Replied, Offered, Ringing,
      Disconnecting
<1>12. ASSUME NEW n \in Ceps, Destroy(n) PROVE TimersRun'
  BY <1>12, <1>t, <1>y, Starts, Stays, Rests DEF Destroy, DisconnectA, ToIdle,
      ToTimewait, cepVars, Timed, Calling, Replied, Offered, Ringing,
      Disconnecting
<1>13. ASSUME NEW n \in Ceps, ReqTimeout(n) PROVE TimersRun'
  BY <1>13, <1>t, <1>y, Starts, Stops DEF ReqTimeout, ToIdle, ToTimewait,
      cepVars,
      Timed, Calling, Replied, Offered, Ringing
<1>14. ASSUME NEW n \in Ceps, RepTimeout(n) PROVE TimersRun'
  BY <1>14, <1>t, <1>y, Starts, Stops DEF RepTimeout, ToIdle, ToTimewait,
      cepVars,
      Timed, Calling, Replied, Offered, Ringing
<1>15. ASSUME NEW n \in Ceps, DreqTimeout(n) PROVE TimersRun'
  BY <1>15, <1>t, <1>y, Starts, Refresh DEF DreqTimeout, ToIdle, ToTimewait,
      cepVars, Timed, Calling, Replied, Offered, Ringing
<1>16. ASSUME NEW n \in Ceps, TimewaitOver(n) PROVE TimersRun'
  BY <1>16, <1>t, <1>y, Stops DEF TimewaitOver, ToIdle, ToTimewait, cepVars,
      Timed,
      Calling, Replied, Offered, Ringing
<1>17. ASSUME NEW m \in net, m.type = "REQ", RefuseReq(m) PROVE TimersRun'
  BY <1>17, <1>t, <1>y, Rests DEF RefuseReq, ToIdle, ToTimewait, cepVars, Timed,
      Calling, Replied, Offered, Ringing
<1>18. ASSUME NEW m \in net, NEW p \in Answers, m.type = "REQ", TakeReq(m,
        p) PROVE TimersRun'
  BY <1>18, <1>t, <1>y, Stays, Sides DEF TakeReq, ToIdle, ToTimewait, cepVars,
      Timed, Calling, Replied, Offered, Ringing
<1>19. ASSUME NEW m \in net, NEW p \in Answers, m.type = "REQ", DupReq(m,
        p) PROVE TimersRun'
  BY <1>19, <1>t, <1>y, Stays, Refresh, Rests, Sides DEF DupReq, ToIdle,
      ToTimewait,
      cepVars, Timed, Calling, Replied, Offered, Ringing
<1>20. ASSUME NEW m \in net, NEW p \in Answers, m.type = "REQ", StaleReq(m,
        p) PROVE TimersRun'
  BY <1>20, <1>t, <1>y, Stays, Rests, Sides DEF StaleReq, ToIdle, ToTimewait,
      cepVars, Timed, Calling, Replied, Offered, Ringing, Disconnecting
<1>21. ASSUME NEW m \in net, RcvMraReq(m) PROVE TimersRun'
  BY <1>21, <1>t, <1>y, <1>r, Starts, Stops, Stays, Rests, Sides DEF RcvMraReq,
      Discard, ToIdle, ToTimewait, cepVars, Timed, Calling, Replied, Offered,
      Ringing
<1>22. ASSUME NEW m \in net, m.type = "REP", TakeRep(m, m.to) PROVE TimersRun'
  BY <1>22, <1>t, <1>y, <1>r, Starts, Stops, Stays, Rests, Sides DEF TakeRep,
      ToIdle, ToTimewait, cepVars, Timed, Calling, Replied, Offered, Ringing
<1>23. ASSUME NEW m \in net, m.type = "REP", StaleRep(m, m.to) PROVE TimersRun'
  BY <1>23, <1>t, <1>y, Rests DEF StaleRep, ToIdle, ToTimewait, cepVars, Timed,
      Calling, Replied, Offered, Ringing
<1>24. ASSUME NEW m \in net, m.type = "REP", DupRep(m, m.to) PROVE TimersRun'
  BY <1>24, <1>t, <1>y, <1>r, Starts, Stops, Stays, Rests, Sides DEF DupRep,
      ToIdle,
      ToTimewait, cepVars, Timed, Calling, Replied, Offered, Ringing,
      Disconnecting
<1>25. ASSUME NEW m \in net, RcvMraRep(m) PROVE TimersRun'
  BY <1>25, <1>t, <1>y, <1>r, Starts, Stops, Stays, Rests, Sides DEF RcvMraRep,
      Discard, ToIdle, ToTimewait, cepVars, Timed, Calling, Replied, Offered,
      Ringing
<1>26. ASSUME NEW m \in net, RcvRtu(m) PROVE TimersRun'
  BY <1>26, <1>t, <1>y, <1>r, Starts, Stops, Stays, Rests, Sides DEF RcvRtu,
      BecomeEstablished, Discard, ToIdle, ToTimewait, cepVars, Timed, Calling,
      Replied, Offered, Ringing
<1>27. ASSUME NEW m \in net, RcvRejReq(m) PROVE TimersRun'
  BY <1>27, <1>t, <1>y, <1>r, Starts, Stops, Stays, Rests, Sides DEF RcvRejReq,
      Discard, ToIdle, ToTimewait, cepVars, Timed, Calling, Replied, Offered,
      Ringing, Disconnecting
<1>28. ASSUME NEW m \in net, RcvRejRep(m) PROVE TimersRun'
  BY <1>28, <1>t, <1>y, <1>r, Starts, Stops, Stays, Rests, Sides DEF RcvRejRep,
      Discard, ToIdle, ToTimewait, cepVars, Timed, Calling, Replied, Offered,
      Ringing, Disconnecting
<1>29. ASSUME NEW m \in net, RcvDreq(m) PROVE TimersRun'
  BY <1>29, <1>t, <1>y, <1>r, Starts, Stops, Stays, Rests, Sides DEF RcvDreq,
      CrossedDreq, Discard, ToIdle, ToTimewait, cepVars, Timed, Calling,
      Replied, Offered, Ringing, Disconnecting
<1>30. ASSUME NEW m \in net, RcvDrep(m) PROVE TimersRun'
  BY <1>30, <1>t, <1>y, <1>r, Starts, Stops, Stays, Rests, Sides DEF RcvDrep,
      Discard, ToIdle, ToTimewait, cepVars, Timed, Calling, Replied, Offered,
      Ringing
<1> QED BY <1>1, <1>2, <1>3, <1>4, <1>5, <1>6, <1>7, <1>8, <1>9, <1>10, <1>11,
          <1>12, <1>13, <1>14, <1>15, <1>16, <1>17, <1>18, <1>19, <1>20,
          <1>21, <1>22, <1>23, <1>24, <1>25, <1>26, <1>27, <1>28, <1>29,
          <1>30 DEF Next, Receive, RcvReq, RcvRep, Timeout

-----------------------------------------------------------------------------
(* The list of the listener. *)

Listed(s) == {s[i] : i \in 1 .. Len(s)}
Once(s) == \A i, j \in 1 .. Len(s) : s[i] = s[j] => i = j

LEMMA ListedAppend ==
  ASSUME NEW s \in Seq(Answers), NEW p \in Answers
  PROVE  /\ Listed(Append(s, p)) = Listed(s) \cup {p}
         /\ Once(s) /\ p \notin Listed(s) => Once(Append(s, p))
<1> DEFINE t == Append(s, p)
<1>1. /\ Len(t) = Len(s) + 1 /\ Len(s) \in Nat
      /\ \A i \in 1 .. Len(s) : t[i] = s[i]
      /\ t[Len(s) + 1] = p
  OBVIOUS
<1>2. 1 .. Len(t) = (1 .. Len(s)) \cup {Len(s) + 1}
  BY <1>1
<1> HIDE DEF t
<1>3. Listed(t) = Listed(s) \cup {p}
  BY <1>1, <1>2 DEF Listed
<1>4. ASSUME Once(s), p \notin Listed(s) PROVE Once(t)
  BY <1>1, <1>2, <1>4 DEF Once, Listed
<1> QED
  BY <1>3, <1>4 DEF t

LEMMA ListedTail ==
  ASSUME NEW s \in Seq(Answers), s # <<>>, Once(s)
  PROVE  /\ Listed(Tail(s)) = Listed(s) \ {Head(s)}
         /\ Once(Tail(s))
<1> DEFINE t == Tail(s)
<1>1. /\ Len(s) \in Nat /\ Len(s) >= 1 /\ Len(t) = Len(s) - 1
      /\ \A i \in 1 .. Len(t) : t[i] = s[i + 1]
      /\ Head(s) = s[1]
  OBVIOUS
<1> HIDE DEF t
<1>2. \A i \in 1 .. Len(t) : i + 1 \in 1 .. Len(s) /\ i + 1 # 1
  BY <1>1
<1>3. \A i \in 1 .. Len(s) : i # 1 => i - 1 \in 1 .. Len(t) /\ s[i] = t[i - 1]
  BY <1>1
<1>4. Listed(t) \subseteq Listed(s) \ {Head(s)}
  <2> SUFFICES ASSUME NEW i \in 1 .. Len(t) PROVE t[i] \in Listed(s) \ {Head(s)}
    BY DEF Listed
  <2>1. t[i] = s[i + 1] /\ i + 1 \in 1 .. Len(s) /\ 1 \in 1 .. Len(s) /\ i + 1 # 1
    BY <1>1, <1>2
  <2>2. s[i + 1] # s[1]
    BY <2>1 DEF Once
  <2> QED
    BY <1>1, <2>1, <2>2 DEF Listed
<1>5. Listed(s) \ {Head(s)} \subseteq Listed(t)
  BY <1>1, <1>3 DEF Listed
<1>6. Once(t)
  <2> SUFFICES ASSUME NEW i \in 1 .. Len(t), NEW j \in 1 .. Len(t), t[i] = t[j]
               PROVE  i = j
    BY DEF Once
  <2>1. s[i + 1] = s[j + 1] /\ i + 1 \in 1 .. Len(s) /\ j + 1 \in 1 .. Len(s)
    BY <1>1, <1>2
  <2>2. i + 1 = j + 1
    BY <2>1 DEF Once
  <2> QED
    BY <2>2
<1> QED
  BY <1>4, <1>5, <1>6 DEF t

LEMMA ListKept ==
  ASSUME PendingIsRinging, UNCHANGED <<state, pending, listening>>
  PROVE  PendingIsRinging'
BY DEF PendingIsRinging

LEMMA ListStill ==
  ASSUME PendingIsRinging, StatesOK, UNCHANGED <<pending, listening>>,
         NEW n \in Ceps, NEW s, To(n, s),
         n \in Answers => (s \in Ringing <=> state[n] \in Ringing)
  PROVE  PendingIsRinging'
<1>1. {p \in Answers : state'[p] \in Ringing} = {p \in Answers : state[p] \in Ringing}
  BY Sides DEF To, StatesOK
<1> QED
  BY <1>1 DEF PendingIsRinging

LEMMA HeadLeaves ==
  ASSUME PendingIsRinging, StatesOK, listening, pending # <<>>,
         pending \in Seq(Answers), pending' = Tail(pending),
         listening' = listening, NEW s, s \notin Ringing, To(Head(pending), s)
  PROVE  PendingIsRinging'
<1>1. Once(pending) /\ Len(pending) <= Backlog
      /\ Listed(pending) = {p \in Answers : state[p] \in Ringing}
  BY DEF PendingIsRinging, Once, Listed
<1>2. Listed(pending') = Listed(pending) \ {Head(pending)} /\ Once(pending')
  BY <1>1, ListedTail
<1>3. Head(pending) \in Answers
  OBVIOUS
<1>4. {p \in Answers : state'[p] \in Ringing}
          = {p \in Answers : state[p] \in Ringing} \ {Head(pending)}
  BY <1>3, Sides DEF To, StatesOK
<1>5. Len(pending') <= Backlog
  BY <1>1, CmAssumption
<1> QED
  BY <1>1, <1>2, <1>4, <1>5 DEF PendingIsRinging, Once, Listed

\* The list follows the states.
LEMMA PendingStep ==
  ASSUME Inv, Next
  PROVE  PendingIsRinging'
<1>p. PendingIsRinging
  BY DEF Inv
<1>y. StatesOK
  BY DEF Inv, TypeOK
<1>l. pending \in Seq(Answers) /\ Len(pending) \in Nat
  BY DEF Inv, TypeOK, ListOK
<1>r. \A m \in net : m.type # "REQ" => m.to \in Ceps
  BY Receivers, Sides DEF Messages, Types
<1>1. ASSUME NEW k \in Calls, NEW q \in ClientQPs, Connect(k,
        q) PROVE PendingIsRinging'
  BY <1>1, <1>p, <1>y, Sides, ListKept, ListStill DEF Connect, ToIdle,
      ToTimewait, cepVars, Listener, Calling, Replied, Offered, Ringing,
      Disconnecting
<1>2. ASSUME NEW k \in Calls, AcceptA(k) PROVE PendingIsRinging'
  BY <1>2, <1>p, <1>y, Sides, ListKept, ListStill DEF AcceptA, ToIdle,
      ToTimewait, cepVars, Listener, Calling, Replied, Offered, Ringing,
      Disconnecting
<1>3. ASSUME NEW k \in Calls, RejectA(k) PROVE PendingIsRinging'
  BY <1>3, <1>p, <1>y, Sides, ListKept, ListStill DEF RejectA, ToIdle,
      ToTimewait, cepVars, Listener, Calling, Replied, Offered, Ringing,
      Disconnecting
<1>4. ASSUME NEW k \in Calls, CancelA(k) PROVE PendingIsRinging'
  BY <1>4, <1>p, <1>y, Sides, ListKept, ListStill DEF CancelA, ToIdle,
      ToTimewait, cepVars, Listener, Calling, Replied, Offered, Ringing,
      Disconnecting
<1>5. CASE Listen
  BY <1>5, <1>p DEF Listen, PendingIsRinging, cepVars
<1>6. CASE RejectP
  BY <1>6, <1>p, <1>y, <1>l, HeadLeaves DEF RejectP, ToIdle, Ringing
<1>7. CASE CancelListen
  <2>1. pending' = <<>> /\ Listed(pending') = {} /\ Once(pending') /\ Len(pending') = 0
    BY <1>7 DEF CancelListen, Listed, Once
  <2>2. {p \in Answers : state'[p] \in Ringing} = {}
    BY <1>7, Sides DEF CancelListen, Ringing
  <2> QED
    BY <2>1, <2>2, CmAssumption DEF PendingIsRinging, Listed, Once
<1>8. ASSUME NEW q \in ServerQPs, AcceptP(q) PROVE PendingIsRinging'
  BY <1>8, <1>p, <1>y, <1>l, HeadLeaves DEF AcceptP, Ringing
<1>9. ASSUME NEW p \in Answers, CancelP(p) PROVE PendingIsRinging'
  BY <1>9, <1>p, <1>y, Sides, ListKept, ListStill DEF CancelP, ToIdle,
      ToTimewait, cepVars, Listener, Calling, Replied, Offered, Ringing,
      Disconnecting
<1>10. ASSUME NEW p \in Answers, CommEstablished(p) PROVE PendingIsRinging'
  BY <1>10, <1>p, <1>y, Sides, ListKept, ListStill DEF CommEstablished,
      BecomeEstablished, ToIdle, ToTimewait, cepVars, Listener, Calling,
      Replied, Offered, Ringing, Disconnecting
<1>11. ASSUME NEW n \in Ceps, Disconnect(n) PROVE PendingIsRinging'
  BY <1>11, <1>p, <1>y, ListKept, ListStill DEF Disconnect, DisconnectA,
      ToIdle, ToTimewait, cepVars, Listener, Calling, Replied, Offered,
      Ringing, Disconnecting
<1>12. ASSUME NEW n \in Ceps, Destroy(n) PROVE PendingIsRinging'
  BY <1>12, <1>p, <1>y, ListKept, ListStill DEF Destroy, DisconnectA, ToIdle,
      ToTimewait, cepVars, Listener, Calling, Replied, Offered, Ringing,
      Disconnecting
<1>13. ASSUME NEW n \in Ceps, ReqTimeout(n) PROVE PendingIsRinging'
  BY <1>13, <1>p, <1>y, ListKept, ListStill DEF ReqTimeout, ToIdle,
      ToTimewait, cepVars, Listener, Calling, Replied, Offered, Ringing,
      Disconnecting
<1>14. ASSUME NEW n \in Ceps, RepTimeout(n) PROVE PendingIsRinging'
  BY <1>14, <1>p, <1>y, ListKept, ListStill DEF RepTimeout, ToIdle,
      ToTimewait, cepVars, Listener, Calling, Replied, Offered, Ringing,
      Disconnecting
<1>15. ASSUME NEW n \in Ceps, DreqTimeout(n) PROVE PendingIsRinging'
  BY <1>15, <1>p, <1>y, ListKept, ListStill DEF DreqTimeout, ToIdle,
      ToTimewait, cepVars, Listener, Calling, Replied, Offered, Ringing,
      Disconnecting
<1>16. ASSUME NEW n \in Ceps, TimewaitOver(n) PROVE PendingIsRinging'
  BY <1>16, <1>p, <1>y, ListKept, ListStill DEF TimewaitOver, ToIdle,
      ToTimewait, cepVars, Listener, Calling, Replied, Offered, Ringing,
      Disconnecting
<1>17. ASSUME NEW m \in net, m.type = "REQ",
        RefuseReq(m) PROVE PendingIsRinging'
  BY <1>17, <1>p, <1>y, ListKept, ListStill DEF RefuseReq, ToIdle, ToTimewait,
      cepVars, Listener, Calling, Replied, Offered, Ringing, Disconnecting
<1>18. ASSUME NEW m \in net, NEW p \in Answers, m.type = "REQ", TakeReq(m,
        p) PROVE PendingIsRinging'
  <2>1. /\ pending' = Append(pending, p) /\ listening /\ listening' = listening
        /\ Len(pending) < Backlog /\ state[p] = "UNUSED"
    BY <1>18, CmAssumption, <1>l DEF TakeReq, Full
  <2>2. PICK r \in Ringing : To(p, r)
    BY <1>18 DEF TakeReq, Ringing
  <2>3. {o \in Answers : state'[o] \in Ringing}
            = {o \in Answers : state[o] \in Ringing} \cup {p}
    BY <2>2, <1>y, Sides DEF To, StatesOK
  <2>4. p \notin Listed(pending)
    BY <2>1, <1>p DEF PendingIsRinging, Listed, Ringing
  <2>5. Listed(pending') = Listed(pending) \cup {p} /\ Once(pending')
    BY <2>1, <2>4, <1>p, <1>l, ListedAppend DEF PendingIsRinging, Once
  <2>6. Len(pending') <= Backlog
    BY <2>1, <1>l, CmAssumption
  <2> QED
    BY <1>p, <2>1, <2>3, <2>5, <2>6 DEF PendingIsRinging, Listed, Once
<1>19. ASSUME NEW m \in net, NEW p \in Answers, m.type = "REQ", DupReq(m,
        p) PROVE PendingIsRinging'
  BY <1>19, <1>p, <1>y, Sides, ListKept, ListStill DEF DupReq, ToIdle,
      ToTimewait, cepVars, Listener, Calling, Replied, Offered, Ringing,
      Disconnecting
<1>20. ASSUME NEW m \in net, NEW p \in Answers, m.type = "REQ", StaleReq(m,
        p) PROVE PendingIsRinging'
  BY <1>20, <1>p, <1>y, Sides, ListKept, ListStill DEF StaleReq, ToIdle,
      ToTimewait, cepVars, Listener, Calling, Replied, Offered, Ringing,
      Disconnecting
<1>21. ASSUME NEW m \in net, RcvMraReq(m) PROVE PendingIsRinging'
  BY <1>21, <1>p, <1>y, <1>r, Sides, ListKept, ListStill DEF RcvMraReq,
      Discard, ToIdle, ToTimewait, cepVars, Listener, Calling, Replied,
      Offered, Ringing, Disconnecting
<1>22. ASSUME NEW m \in net, m.type = "REP", TakeRep(m,
        m.to) PROVE PendingIsRinging'
  BY <1>22, <1>p, <1>y, <1>r, Sides, ListKept, ListStill DEF TakeRep, ToIdle,
      ToTimewait, cepVars, Listener, Calling, Replied, Offered, Ringing,
      Disconnecting
<1>23. ASSUME NEW m \in net, m.type = "REP", StaleRep(m,
        m.to) PROVE PendingIsRinging'
  BY <1>23, <1>p, <1>y, ListKept, ListStill DEF StaleRep, ToIdle, ToTimewait,
      cepVars, Listener, Calling, Replied, Offered, Ringing, Disconnecting
<1>24. ASSUME NEW m \in net, m.type = "REP", DupRep(m,
        m.to) PROVE PendingIsRinging'
  BY <1>24, <1>p, <1>y, <1>r, Sides, ListKept, ListStill DEF DupRep, ToIdle,
      ToTimewait, cepVars, Listener, Calling, Replied, Offered, Ringing,
      Disconnecting
<1>25. ASSUME NEW m \in net, RcvMraRep(m) PROVE PendingIsRinging'
  BY <1>25, <1>p, <1>y, <1>r, Sides, ListKept, ListStill DEF RcvMraRep,
      Discard, ToIdle, ToTimewait, cepVars, Listener, Calling, Replied,
      Offered, Ringing, Disconnecting
<1>26. ASSUME NEW m \in net, RcvRtu(m) PROVE PendingIsRinging'
  BY <1>26, <1>p, <1>y, <1>r, Sides, ListKept, ListStill DEF RcvRtu,
      BecomeEstablished, Discard, ToIdle, ToTimewait, cepVars, Listener,
      Calling, Replied, Offered, Ringing, Disconnecting
<1>27. ASSUME NEW m \in net, RcvRejReq(m) PROVE PendingIsRinging'
  BY <1>27, <1>p, <1>y, <1>r, Sides, ListKept, ListStill DEF RcvRejReq,
      Discard, ToIdle, ToTimewait, cepVars, Listener, Calling, Replied,
      Offered, Ringing, Disconnecting
<1>28. ASSUME NEW m \in net, RcvRejRep(m) PROVE PendingIsRinging'
  BY <1>28, <1>p, <1>y, <1>r, Sides, ListKept, ListStill DEF RcvRejRep,
      Discard, ToIdle, ToTimewait, cepVars, Listener, Calling, Replied,
      Offered, Ringing, Disconnecting
<1>29. ASSUME NEW m \in net, RcvDreq(m) PROVE PendingIsRinging'
  BY <1>29, <1>p, <1>y, <1>r, Sides, ListKept, ListStill DEF RcvDreq,
      CrossedDreq, Discard, ToIdle, ToTimewait, cepVars, Listener, Calling,
      Replied, Offered, Ringing, Disconnecting
<1>30. ASSUME NEW m \in net, RcvDrep(m) PROVE PendingIsRinging'
  BY <1>30, <1>p, <1>y, <1>r, Sides, ListKept, ListStill DEF RcvDrep, Discard,
      ToIdle, ToTimewait, cepVars, Listener, Calling, Replied, Offered,
      Ringing, Disconnecting
<1> QED BY <1>1, <1>2, <1>3, <1>4, <1>5, <1>6, <1>7, <1>8, <1>9, <1>10, <1>11,
          <1>12, <1>13, <1>14, <1>15, <1>16, <1>17, <1>18, <1>19, <1>20,
          <1>21, <1>22, <1>23, <1>24, <1>25, <1>26, <1>27, <1>28, <1>29,
          <1>30 DEF Next, Receive, RcvReq, RcvRep, Timeout

-----------------------------------------------------------------------------
(* What a step leaves behind: no CEP is taken twice and no call goes back,  *)
(* an ID once learned stays, and who becomes connected has been accepted.   *)

Early == {"UNUSED"} \cup Calling \cup Offered
Connected == {"ESTABLISHED"} \cup Disconnecting

Forward ==
    \A n \in Ceps : /\ state[n] # "UNUSED" => state'[n] # "UNUSED"
                    /\ n \in Calls /\ state[n] \notin Early => state'[n] \notin Early

LEMMA ForwardTo ==
  ASSUME StatesOK, NEW n \in Ceps, NEW s, s # "UNUSED", To(n, s),
         n \in Calls /\ state[n] \notin Early => s \notin Early
  PROVE  Forward
BY DEF StatesOK, To, Forward

LEMMA ForwardNone ==
  ASSUME UNCHANGED state
  PROVE  Forward
BY DEF Forward

\* No CEP is taken twice and no call goes back.
LEMMA ForwardStep ==
  ASSUME Inv, Next
  PROVE  Forward
<1>y. StatesOK
  BY DEF Inv, TypeOK
<1>h. pending # <<>> => Head(pending) \in Answers /\ state[Head(pending)] \in Ringing
  BY HeadRings
<1>r. \A m \in net : m.type # "REQ" => m.to \in Ceps
  BY Receivers, Sides DEF Messages, Types
<1>1. ASSUME NEW k \in Calls, NEW q \in ClientQPs, Connect(k, q) PROVE Forward
  BY <1>1, <1>y, Sides, ForwardTo, ForwardNone DEF Connect, ToIdle,
      ToTimewait, cepVars, Early, Calling, Replied, Offered, Ringing,
      Disconnecting
<1>2. ASSUME NEW k \in Calls, AcceptA(k) PROVE Forward
  BY <1>2, <1>y, Sides, ForwardTo, ForwardNone DEF AcceptA, ToIdle,
      ToTimewait, cepVars, Early, Calling, Replied, Offered, Ringing,
      Disconnecting
<1>3. ASSUME NEW k \in Calls, RejectA(k) PROVE Forward
  BY <1>3, <1>y, Sides, ForwardTo, ForwardNone DEF RejectA, ToIdle,
      ToTimewait, cepVars, Early, Calling, Replied, Offered, Ringing,
      Disconnecting
<1>4. ASSUME NEW k \in Calls, CancelA(k) PROVE Forward
  BY <1>4, <1>y, Sides, ForwardTo, ForwardNone DEF CancelA, ToIdle,
      ToTimewait, cepVars, Early, Calling, Replied, Offered, Ringing,
      Disconnecting
<1>5. CASE Listen
  BY <1>5, ForwardNone DEF Listen, ToIdle, ToTimewait, cepVars, Early,
      Calling, Replied, Offered, Ringing, Disconnecting
<1>6. CASE RejectP
  BY <1>6, <1>y, <1>h, Sides, ForwardTo DEF RejectP, ToIdle, ToTimewait,
      cepVars, Early, Calling, Replied, Offered, Ringing, Disconnecting
<1>7. CASE CancelListen
  BY <1>7, Sides DEF CancelListen, Forward, Early, Ringing, Calling, Offered
<1>8. ASSUME NEW q \in ServerQPs, AcceptP(q) PROVE Forward
  BY <1>8, <1>y, <1>h, Sides, ForwardTo DEF AcceptP, ToIdle, ToTimewait,
      cepVars, Early, Calling, Replied, Offered, Ringing, Disconnecting
<1>9. ASSUME NEW p \in Answers, CancelP(p) PROVE Forward
  BY <1>9, <1>y, Sides, ForwardTo, ForwardNone DEF CancelP, ToIdle,
      ToTimewait, cepVars, Early, Calling, Replied, Offered, Ringing,
      Disconnecting
<1>10. ASSUME NEW p \in Answers, CommEstablished(p) PROVE Forward
  BY <1>10, <1>y, Sides, ForwardTo, ForwardNone DEF CommEstablished,
      BecomeEstablished, ToIdle, ToTimewait, cepVars, Early, Calling, Replied,
      Offered, Ringing, Disconnecting
<1>11. ASSUME NEW n \in Ceps, Disconnect(n) PROVE Forward
  BY <1>11, <1>y, Sides, ForwardTo, ForwardNone DEF Disconnect, DisconnectA,
      ToIdle, ToTimewait, cepVars, Early, Calling, Replied, Offered, Ringing,
      Disconnecting
<1>12. ASSUME NEW n \in Ceps, Destroy(n) PROVE Forward
  BY <1>12, <1>y, Sides, ForwardTo, ForwardNone DEF Destroy, DisconnectA,
      ToIdle, ToTimewait, cepVars, Early, Calling, Replied, Offered, Ringing,
      Disconnecting
<1>13. ASSUME NEW n \in Ceps, ReqTimeout(n) PROVE Forward
  BY <1>13, <1>y, Sides, ForwardTo, ForwardNone DEF ReqTimeout, ToIdle,
      ToTimewait, cepVars, Early, Calling, Replied, Offered, Ringing,
      Disconnecting
<1>14. ASSUME NEW n \in Ceps, RepTimeout(n) PROVE Forward
  BY <1>14, <1>y, Sides, ForwardTo, ForwardNone DEF RepTimeout, ToIdle,
      ToTimewait, cepVars, Early, Calling, Replied, Offered, Ringing,
      Disconnecting
<1>15. ASSUME NEW n \in Ceps, DreqTimeout(n) PROVE Forward
  BY <1>15, <1>y, Sides, ForwardTo, ForwardNone DEF DreqTimeout, ToIdle,
      ToTimewait, cepVars, Early, Calling, Replied, Offered, Ringing,
      Disconnecting
<1>16. ASSUME NEW n \in Ceps, TimewaitOver(n) PROVE Forward
  BY <1>16, <1>y, Sides, ForwardTo, ForwardNone DEF TimewaitOver, ToIdle,
      ToTimewait, cepVars, Early, Calling, Replied, Offered, Ringing,
      Disconnecting
<1>17. ASSUME NEW m \in net, m.type = "REQ", RefuseReq(m) PROVE Forward
  BY <1>17, ForwardNone DEF RefuseReq, ToIdle, ToTimewait, cepVars, Early,
      Calling, Replied, Offered, Ringing, Disconnecting
<1>18. ASSUME NEW m \in net, NEW p \in Answers, m.type = "REQ", TakeReq(m,
        p) PROVE Forward
  BY <1>18, <1>y, Sides, ForwardTo, ForwardNone DEF TakeReq, ToIdle,
      ToTimewait, cepVars, Early, Calling, Replied, Offered, Ringing,
      Disconnecting
<1>19. ASSUME NEW m \in net, NEW p \in Answers, m.type = "REQ", DupReq(m,
        p) PROVE Forward
  BY <1>19, <1>y, Sides, ForwardTo, ForwardNone DEF DupReq, ToIdle,
      ToTimewait, cepVars, Early, Calling, Replied, Offered, Ringing,
      Disconnecting
<1>20. ASSUME NEW m \in net, NEW p \in Answers, m.type = "REQ", StaleReq(m,
        p) PROVE Forward
  BY <1>20, <1>y, Sides, ForwardTo, ForwardNone DEF StaleReq, ToIdle,
      ToTimewait, cepVars, Early, Calling, Replied, Offered, Ringing,
      Disconnecting
<1>21. ASSUME NEW m \in net, RcvMraReq(m) PROVE Forward
  BY <1>21, <1>y, <1>r, Sides, ForwardTo, ForwardNone DEF RcvMraReq, Discard,
      ToIdle, ToTimewait, cepVars, Early, Calling, Replied, Offered, Ringing,
      Disconnecting
<1>22. ASSUME NEW m \in net, m.type = "REP", TakeRep(m, m.to) PROVE Forward
  BY <1>22, <1>y, <1>r, Sides, ForwardTo, ForwardNone DEF TakeRep, ToIdle,
      ToTimewait, cepVars, Early, Calling, Replied, Offered, Ringing,
      Disconnecting
<1>23. ASSUME NEW m \in net, m.type = "REP", StaleRep(m, m.to) PROVE Forward
  BY <1>23, ForwardNone DEF StaleRep, ToIdle, ToTimewait, cepVars, Early,
      Calling, Replied, Offered, Ringing, Disconnecting
<1>24. ASSUME NEW m \in net, m.type = "REP", DupRep(m, m.to) PROVE Forward
  BY <1>24, <1>y, <1>r, Sides, ForwardTo, ForwardNone DEF DupRep, ToIdle,
      ToTimewait, cepVars, Early, Calling, Replied, Offered, Ringing,
      Disconnecting
<1>25. ASSUME NEW m \in net, RcvMraRep(m) PROVE Forward
  BY <1>25, <1>y, <1>r, Sides, ForwardTo, ForwardNone DEF RcvMraRep, Discard,
      ToIdle, ToTimewait, cepVars, Early, Calling, Replied, Offered, Ringing,
      Disconnecting
<1>26. ASSUME NEW m \in net, RcvRtu(m) PROVE Forward
  BY <1>26, <1>y, <1>r, Sides, ForwardTo, ForwardNone DEF RcvRtu,
      BecomeEstablished, Discard, ToIdle, ToTimewait, cepVars, Early, Calling,
      Replied, Offered, Ringing, Disconnecting
<1>27. ASSUME NEW m \in net, RcvRejReq(m) PROVE Forward
  BY <1>27, <1>y, <1>r, Sides, ForwardTo, ForwardNone DEF RcvRejReq, Discard,
      ToIdle, ToTimewait, cepVars, Early, Calling, Replied, Offered, Ringing,
      Disconnecting
<1>28. ASSUME NEW m \in net, RcvRejRep(m) PROVE Forward
  BY <1>28, <1>y, <1>r, Sides, ForwardTo, ForwardNone DEF RcvRejRep, Discard,
      ToIdle, ToTimewait, cepVars, Early, Calling, Replied, Offered, Ringing,
      Disconnecting
<1>29. ASSUME NEW m \in net, RcvDreq(m) PROVE Forward
  BY <1>29, <1>y, <1>r, Sides, ForwardTo, ForwardNone DEF RcvDreq,
      CrossedDreq, Discard, ToIdle, ToTimewait, cepVars, Early, Calling,
      Replied, Offered, Ringing, Disconnecting
<1>30. ASSUME NEW m \in net, RcvDrep(m) PROVE Forward
  BY <1>30, <1>y, <1>r, Sides, ForwardTo, ForwardNone DEF RcvDrep, Discard,
      ToIdle, ToTimewait, cepVars, Early, Calling, Replied, Offered, Ringing,
      Disconnecting
<1> QED BY <1>1, <1>2, <1>3, <1>4, <1>5, <1>6, <1>7, <1>8, <1>9, <1>10, <1>11,
          <1>12, <1>13, <1>14, <1>15, <1>16, <1>17, <1>18, <1>19, <1>20,
          <1>21, <1>22, <1>23, <1>24, <1>25, <1>26, <1>27, <1>28, <1>29,
          <1>30 DEF Next, Receive, RcvReq, RcvRep, Timeout

\* A call that learns an ID learns that of an answer to it; an answer learns
\* the ID of the call with its REQ.
CallSettled(k) ==
    \/ peer'[k] = peer[k] /\ (state'[k] \in Offered => state[k] \in Offered)
    \/ state[k] \in Calling /\ peer'[k] \in Answers /\ peer[peer'[k]] = k

AnswerSettled(p) ==
    \/ peer'[p] = peer[p] /\ (state'[p] = "UNUSED" <=> state[p] = "UNUSED")
    \/ /\ state[p] = "UNUSED" /\ state'[p] # "UNUSED"
       /\ peer'[p] \in Calls /\ state[peer'[p]] # "UNUSED"

Settled == /\ \A k \in Calls : CallSettled(k)
           /\ \A p \in Answers : AnswerSettled(p)

LEMMA SettledNone ==
  ASSUME UNCHANGED <<state, peer>>
  PROVE  Settled
BY DEF Settled, CallSettled, AnswerSettled

LEMMA SettledTo ==
  ASSUME StatesOK, UNCHANGED peer, NEW n \in Ceps, NEW s, To(n, s),
         n \in Calls /\ s \in Offered => state[n] \in Offered,
         n \in Answers => (s = "UNUSED" <=> state[n] = "UNUSED")
  PROVE  Settled
<1>1. \A o \in Ceps : state'[o] = IF o = n THEN s ELSE state[o]
  BY DEF StatesOK, To
<1> QED
  BY <1>1, Sides DEF Settled, CallSettled, AnswerSettled

LEMMA SettledLearns ==
  ASSUME StatesOK, CepsOK, NEW k \in Calls, NEW s, To(k, s),
          state[k] \in Calling,
         NEW p \in Answers, peer[p] = k, peer' = [peer EXCEPT ![k] = p]
  PROVE  Settled
<1>1. \A o \in Ceps : /\ state'[o] = IF o = k THEN s ELSE state[o]
                      /\ peer'[o] = IF o = k THEN p ELSE peer[o]
  BY DEF StatesOK, CepsOK, To
<1> QED
  BY <1>1, Sides DEF Settled, CallSettled, AnswerSettled

\* IDs are learned once.
LEMMA SettledStep ==
  ASSUME Inv, Next
  PROVE  Settled
<1>y. StatesOK /\ CepsOK
  BY DEF Inv, TypeOK
<1>h. pending # <<>> => Head(pending) \in Answers /\ state[Head(pending)] \in Ringing
  BY HeadRings
<1>r. \A m \in net : m.type # "REQ" => m.to \in Ceps
  BY Receivers, Sides DEF Messages, Types
<1>m. \A m \in net : MailOK(m)
  BY DEF Inv, NetOK
<1>1. ASSUME NEW k \in Calls, NEW q \in ClientQPs, Connect(k, q) PROVE Settled
  BY <1>1, <1>y, Sides, SettledTo, SettledNone DEF Connect, ToIdle,
      ToTimewait, cepVars, Calling, Replied, Offered, Ringing, Disconnecting
<1>2. ASSUME NEW k \in Calls, AcceptA(k) PROVE Settled
  BY <1>2, <1>y, Sides, SettledTo, SettledNone DEF AcceptA, ToIdle,
      ToTimewait, cepVars, Calling, Replied, Offered, Ringing, Disconnecting
<1>3. ASSUME NEW k \in Calls, RejectA(k) PROVE Settled
  BY <1>3, <1>y, Sides, SettledTo, SettledNone DEF RejectA, ToIdle,
      ToTimewait, cepVars, Calling, Replied, Offered, Ringing, Disconnecting
<1>4. ASSUME NEW k \in Calls, CancelA(k) PROVE Settled
  BY <1>4, <1>y, Sides, SettledTo, SettledNone DEF CancelA, ToIdle,
      ToTimewait, cepVars, Calling, Replied, Offered, Ringing, Disconnecting
<1>5. CASE Listen
  BY <1>5, SettledNone DEF Listen, ToIdle, ToTimewait, cepVars, Calling,
      Replied, Offered, Ringing, Disconnecting
<1>6. CASE RejectP
  BY <1>6, <1>y, <1>h, Sides, SettledTo DEF RejectP, ToIdle, ToTimewait,
      cepVars, Calling, Replied, Offered, Ringing, Disconnecting
<1>7. CASE CancelListen
  <2>1. \A k \in Calls : state'[k] = state[k] /\ peer'[k] = peer[k]
    BY <1>7, Sides DEF CancelListen
  <2>2. \A p \in Answers : peer'[p] = peer[p]
            /\ (state'[p] = "UNUSED" <=> state[p] = "UNUSED")
    BY <1>7, Sides DEF CancelListen, Ringing
  <2> QED
    BY <2>1, <2>2 DEF Settled, CallSettled, AnswerSettled
<1>8. ASSUME NEW q \in ServerQPs, AcceptP(q) PROVE Settled
  BY <1>8, <1>y, <1>h, Sides, SettledTo DEF AcceptP, ToIdle, ToTimewait,
      cepVars, Calling, Replied, Offered, Ringing, Disconnecting
<1>9. ASSUME NEW p \in Answers, CancelP(p) PROVE Settled
  BY <1>9, <1>y, Sides, SettledTo, SettledNone DEF CancelP, ToIdle,
      ToTimewait, cepVars, Calling, Replied, Offered, Ringing, Disconnecting
<1>10. ASSUME NEW p \in Answers, CommEstablished(p) PROVE Settled
  BY <1>10, <1>y, Sides, SettledTo, SettledNone DEF CommEstablished,
      BecomeEstablished, ToIdle, ToTimewait, cepVars, Calling, Replied,
      Offered, Ringing, Disconnecting
<1>11. ASSUME NEW n \in Ceps, Disconnect(n) PROVE Settled
  BY <1>11, <1>y, Sides, SettledTo, SettledNone DEF Disconnect, DisconnectA,
      ToIdle, ToTimewait, cepVars, Calling, Replied, Offered, Ringing,
      Disconnecting
<1>12. ASSUME NEW n \in Ceps, Destroy(n) PROVE Settled
  BY <1>12, <1>y, Sides, SettledTo, SettledNone DEF Destroy, DisconnectA,
      ToIdle, ToTimewait, cepVars, Calling, Replied, Offered, Ringing,
      Disconnecting
<1>13. ASSUME NEW n \in Ceps, ReqTimeout(n) PROVE Settled
  BY <1>13, <1>y, Sides, SettledTo, SettledNone DEF ReqTimeout, ToIdle,
      ToTimewait, cepVars, Calling, Replied, Offered, Ringing, Disconnecting
<1>14. ASSUME NEW n \in Ceps, RepTimeout(n) PROVE Settled
  BY <1>14, <1>y, Sides, SettledTo, SettledNone DEF RepTimeout, ToIdle,
      ToTimewait, cepVars, Calling, Replied, Offered, Ringing, Disconnecting
<1>15. ASSUME NEW n \in Ceps, DreqTimeout(n) PROVE Settled
  BY <1>15, <1>y, Sides, SettledTo, SettledNone DEF DreqTimeout, ToIdle,
      ToTimewait, cepVars, Calling, Replied, Offered, Ringing, Disconnecting
<1>16. ASSUME NEW n \in Ceps, TimewaitOver(n) PROVE Settled
  BY <1>16, <1>y, Sides, SettledTo, SettledNone DEF TimewaitOver, ToIdle,
      ToTimewait, cepVars, Calling, Replied, Offered, Ringing, Disconnecting
<1>17. ASSUME NEW m \in net, m.type = "REQ", RefuseReq(m) PROVE Settled
  BY <1>17, SettledNone DEF RefuseReq, ToIdle, ToTimewait, cepVars, Calling,
      Replied, Offered, Ringing, Disconnecting
<1>18. ASSUME NEW m \in net, NEW p \in Answers, m.type = "REQ", TakeReq(m,
        p) PROVE Settled
  <2>1. m.from \in Calls /\ state[m.from] # "UNUSED"
    BY <1>18, <1>m DEF MailOK
  <2>2. PICK s \in Ringing : To(p, s)
    BY <1>18 DEF TakeReq, Ringing
  <2>3. \A o \in Ceps : /\ state'[o] = IF o = p THEN s ELSE state[o]
                        /\ peer'[o] = IF o = p THEN m.from ELSE peer[o]
    BY <1>18, <2>2, <1>y DEF TakeReq, To, StatesOK, CepsOK
  <2>4. state[p] = "UNUSED" /\ s # "UNUSED"
    BY <1>18 DEF TakeReq, Ringing
  <2> QED
    BY <2>1, <2>3, <2>4, Sides DEF Settled, CallSettled, AnswerSettled
<1>19. ASSUME NEW m \in net, NEW p \in Answers, m.type = "REQ", DupReq(m,
        p) PROVE Settled
  BY <1>19, <1>y, Sides, SettledTo, SettledNone DEF DupReq, ToIdle,
      ToTimewait, cepVars, Calling, Replied, Offered, Ringing, Disconnecting
<1>20. ASSUME NEW m \in net, NEW p \in Answers, m.type = "REQ", StaleReq(m,
        p) PROVE Settled
  BY <1>20, <1>y, Sides, SettledTo, SettledNone DEF StaleReq, ToIdle,
      ToTimewait, cepVars, Calling, Replied, Offered, Ringing, Disconnecting
<1>21. ASSUME NEW m \in net, RcvMraReq(m) PROVE Settled
  <2>1. m.to \in Calls /\ m.from \in Answers /\ peer[m.from] = m.to
    BY <1>21, <1>m DEF MailOK, RcvMraReq
  <2> QED
    BY <1>21, <1>y, <2>1, SettledLearns, SettledNone DEF RcvMraReq, Discard,
        Calling, cepVars
<1>22. ASSUME NEW m \in net, m.type = "REP", TakeRep(m, m.to) PROVE Settled
  <2>1. m.to \in Calls /\ m.from \in Answers /\ peer[m.from] = m.to
    BY <1>22, <1>m DEF MailOK
  <2> QED
    BY <1>22, <1>y, <2>1, SettledLearns DEF TakeRep
<1>23. ASSUME NEW m \in net, m.type = "REP", StaleRep(m, m.to) PROVE Settled
  BY <1>23, SettledNone DEF StaleRep, ToIdle, ToTimewait, cepVars, Calling,
      Replied, Offered, Ringing, Disconnecting
<1>24. ASSUME NEW m \in net, m.type = "REP", DupRep(m, m.to) PROVE Settled
  BY <1>24, <1>y, <1>r, Sides, SettledTo, SettledNone DEF DupRep, ToIdle,
      ToTimewait, cepVars, Calling, Replied, Offered, Ringing, Disconnecting
<1>25. ASSUME NEW m \in net, RcvMraRep(m) PROVE Settled
  BY <1>25, <1>y, <1>r, Sides, SettledTo, SettledNone DEF RcvMraRep, Discard,
      ToIdle, ToTimewait, cepVars, Calling, Replied, Offered, Ringing,
      Disconnecting
<1>26. ASSUME NEW m \in net, RcvRtu(m) PROVE Settled
  BY <1>26, <1>y, <1>r, Sides, SettledTo, SettledNone DEF RcvRtu,
      BecomeEstablished, Discard, ToIdle, ToTimewait, cepVars, Calling,
      Replied, Offered, Ringing, Disconnecting
<1>27. ASSUME NEW m \in net, RcvRejReq(m) PROVE Settled
  BY <1>27, <1>y, <1>r, Sides, SettledTo, SettledNone DEF RcvRejReq, Discard,
      ToIdle, ToTimewait, cepVars, Calling, Replied, Offered, Ringing,
      Disconnecting
<1>28. ASSUME NEW m \in net, RcvRejRep(m) PROVE Settled
  BY <1>28, <1>y, <1>r, Sides, SettledTo, SettledNone DEF RcvRejRep, Discard,
      ToIdle, ToTimewait, cepVars, Calling, Replied, Offered, Ringing,
      Disconnecting
<1>29. ASSUME NEW m \in net, RcvDreq(m) PROVE Settled
  BY <1>29, <1>y, <1>r, Sides, SettledTo, SettledNone DEF RcvDreq,
      CrossedDreq, Discard, ToIdle, ToTimewait, cepVars, Calling, Replied,
      Offered, Ringing, Disconnecting
<1>30. ASSUME NEW m \in net, RcvDrep(m) PROVE Settled
  BY <1>30, <1>y, <1>r, Sides, SettledTo, SettledNone DEF RcvDrep, Discard,
      ToIdle, ToTimewait, cepVars, Calling, Replied, Offered, Ringing,
      Disconnecting
<1> QED BY <1>1, <1>2, <1>3, <1>4, <1>5, <1>6, <1>7, <1>8, <1>9, <1>10, <1>11,
          <1>12, <1>13, <1>14, <1>15, <1>16, <1>17, <1>18, <1>19, <1>20,
          <1>21, <1>22, <1>23, <1>24, <1>25, <1>26, <1>27, <1>28, <1>29,
          <1>30 DEF Next, Receive, RcvReq, RcvRep, Timeout

-----------------------------------------------------------------------------
(* Who becomes connected has been accepted. *)

CallJoined(k) ==
    state'[k] \in Connected => state[k] \in Connected \/ <<k, peer[k]>> \in met'

AnswerJoined(p) ==
    state'[p] \in Connected => state[p] \in Connected \/ <<peer[p], p>> \in met

Joined == /\ \A k \in Calls : CallJoined(k)
          /\ \A p \in Answers : AnswerJoined(p)

LEMMA JoinedNone ==
  ASSUME UNCHANGED state
  PROVE  Joined
BY DEF Joined, CallJoined, AnswerJoined

LEMMA JoinedTo ==
  ASSUME StatesOK, NEW n \in Ceps, NEW s, To(n, s),
         s \in Connected => state[n] \in Connected
  PROVE  Joined
<1>1. \A o \in Ceps : state'[o] = IF o = n THEN s ELSE state[o]
  BY DEF StatesOK, To
<1> QED
  BY <1>1, Sides DEF Joined, CallJoined, AnswerJoined

LEMMA JoinedMet ==
  ASSUME StatesOK, NEW p \in Answers, NEW s, To(p, s), <<peer[p], p>> \in met
  PROVE  Joined
<1>1. \A o \in Ceps : state'[o] = IF o = p THEN s ELSE state[o]
  BY DEF StatesOK, To
<1> QED
  BY <1>1, Sides DEF Joined, CallJoined, AnswerJoined

LEMMA JoinedStep ==
  ASSUME Inv, Next
  PROVE  Joined
<1>y. StatesOK
  BY DEF Inv, TypeOK
<1>h. pending # <<>> => Head(pending) \in Answers /\ state[Head(pending)] \in Ringing
  BY HeadRings
<1>r. \A m \in net : m.type # "REQ" => m.to \in Ceps
  BY Receivers, Sides DEF Messages, Types
<1>m. \A m \in net : MailOK(m)
  BY DEF Inv, NetOK
<1>1. ASSUME NEW k \in Calls, NEW q \in ClientQPs, Connect(k, q) PROVE Joined
  BY <1>1, <1>y, Sides, JoinedTo, JoinedNone DEF Connect, ToIdle, ToTimewait,
      cepVars, Connected, Calling, Replied, Offered, Ringing, Disconnecting
<1>2. ASSUME NEW k \in Calls, AcceptA(k) PROVE Joined
  <2>1. \A o \in Ceps : o # k => state'[o] = state[o]
    BY <1>2, <1>y DEF AcceptA, To, StatesOK
  <2>2. <<k, peer[k]>> \in met'
    BY <1>2 DEF AcceptA
  <2> QED
    BY <2>1, <2>2, Sides DEF Joined, CallJoined, AnswerJoined
<1>3. ASSUME NEW k \in Calls, RejectA(k) PROVE Joined
  BY <1>3, <1>y, Sides, JoinedTo, JoinedNone DEF RejectA, ToIdle, ToTimewait,
      cepVars, Connected, Calling, Replied, Offered, Ringing, Disconnecting
<1>4. ASSUME NEW k \in Calls, CancelA(k) PROVE Joined
  BY <1>4, <1>y, Sides, JoinedTo, JoinedNone DEF CancelA, ToIdle, ToTimewait,
      cepVars, Connected, Calling, Replied, Offered, Ringing, Disconnecting
<1>5. CASE Listen
  BY <1>5, JoinedNone DEF Listen, ToIdle, ToTimewait, cepVars, Connected,
      Calling, Replied, Offered, Ringing, Disconnecting
<1>6. CASE RejectP
  BY <1>6, <1>y, <1>h, Sides, JoinedTo DEF RejectP, ToIdle, ToTimewait,
      cepVars, Connected, Calling, Replied, Offered, Ringing, Disconnecting
<1>7. CASE CancelListen
  BY <1>7, Sides DEF CancelListen, Joined, CallJoined, AnswerJoined, Ringing,
      Connected, Disconnecting
<1>8. ASSUME NEW q \in ServerQPs, AcceptP(q) PROVE Joined
  BY <1>8, <1>y, <1>h, Sides, JoinedTo DEF AcceptP, ToIdle, ToTimewait,
      cepVars, Connected, Calling, Replied, Offered, Ringing, Disconnecting
<1>9. ASSUME NEW p \in Answers, CancelP(p) PROVE Joined
  BY <1>9, <1>y, Sides, JoinedTo, JoinedNone DEF CancelP, ToIdle, ToTimewait,
      cepVars, Connected, Calling, Replied, Offered, Ringing, Disconnecting
<1>10. ASSUME NEW p \in Answers, CommEstablished(p) PROVE Joined
  <2>1. PICK k \in Calls : state[k] \in Connected /\ peer[k] = p
    BY <1>10 DEF CommEstablished, Connected, Disconnecting
  <2>2. <<k, p>> \in met /\ peer[p] = k
    BY <2>1 DEF Inv, PartnersAgree, Connected
  <2> QED
    BY <1>10, <2>2, <1>y, JoinedMet DEF CommEstablished, BecomeEstablished
<1>11. ASSUME NEW n \in Ceps, Disconnect(n) PROVE Joined
  BY <1>11, <1>y, Sides, JoinedTo, JoinedNone DEF Disconnect, DisconnectA,
      ToIdle, ToTimewait, cepVars, Connected, Calling, Replied, Offered,
      Ringing, Disconnecting
<1>12. ASSUME NEW n \in Ceps, Destroy(n) PROVE Joined
  BY <1>12, <1>y, Sides, JoinedTo, JoinedNone DEF Destroy, DisconnectA,
      ToIdle, ToTimewait, cepVars, Connected, Calling, Replied, Offered,
      Ringing, Disconnecting
<1>13. ASSUME NEW n \in Ceps, ReqTimeout(n) PROVE Joined
  BY <1>13, <1>y, Sides, JoinedTo, JoinedNone DEF ReqTimeout, ToIdle,
      ToTimewait, cepVars, Connected, Calling, Replied, Offered, Ringing,
      Disconnecting
<1>14. ASSUME NEW n \in Ceps, RepTimeout(n) PROVE Joined
  BY <1>14, <1>y, Sides, JoinedTo, JoinedNone DEF RepTimeout, ToIdle,
      ToTimewait, cepVars, Connected, Calling, Replied, Offered, Ringing,
      Disconnecting
<1>15. ASSUME NEW n \in Ceps, DreqTimeout(n) PROVE Joined
  BY <1>15, <1>y, Sides, JoinedTo, JoinedNone DEF DreqTimeout, ToIdle,
      ToTimewait, cepVars, Connected, Calling, Replied, Offered, Ringing,
      Disconnecting
<1>16. ASSUME NEW n \in Ceps, TimewaitOver(n) PROVE Joined
  BY <1>16, <1>y, Sides, JoinedTo, JoinedNone DEF TimewaitOver, ToIdle,
      ToTimewait, cepVars, Connected, Calling, Replied, Offered, Ringing,
      Disconnecting
<1>17. ASSUME NEW m \in net, m.type = "REQ", RefuseReq(m) PROVE Joined
  BY <1>17, JoinedNone DEF RefuseReq, ToIdle, ToTimewait, cepVars, Connected,
      Calling, Replied, Offered, Ringing, Disconnecting
<1>18. ASSUME NEW m \in net, NEW p \in Answers, m.type = "REQ", TakeReq(m,
        p) PROVE Joined
  BY <1>18, <1>y, Sides, JoinedTo, JoinedNone DEF TakeReq, ToIdle, ToTimewait,
      cepVars, Connected, Calling, Replied, Offered, Ringing, Disconnecting
<1>19. ASSUME NEW m \in net, NEW p \in Answers, m.type = "REQ", DupReq(m,
        p) PROVE Joined
  BY <1>19, <1>y, Sides, JoinedTo, JoinedNone DEF DupReq, ToIdle, ToTimewait,
      cepVars, Connected, Calling, Replied, Offered, Ringing, Disconnecting
<1>20. ASSUME NEW m \in net, NEW p \in Answers, m.type = "REQ", StaleReq(m,
        p) PROVE Joined
  BY <1>20, <1>y, Sides, JoinedTo, JoinedNone DEF StaleReq, ToIdle,
      ToTimewait, cepVars, Connected, Calling, Replied, Offered, Ringing,
      Disconnecting
<1>21. ASSUME NEW m \in net, RcvMraReq(m) PROVE Joined
  BY <1>21, <1>y, <1>r, Sides, JoinedTo, JoinedNone DEF RcvMraReq, Discard,
      ToIdle, ToTimewait, cepVars, Connected, Calling, Replied, Offered,
      Ringing, Disconnecting
<1>22. ASSUME NEW m \in net, m.type = "REP", TakeRep(m, m.to) PROVE Joined
  BY <1>22, <1>y, <1>r, Sides, JoinedTo, JoinedNone DEF TakeRep, ToIdle,
      ToTimewait, cepVars, Connected, Calling, Replied, Offered, Ringing,
      Disconnecting
<1>23. ASSUME NEW m \in net, m.type = "REP", StaleRep(m, m.to) PROVE Joined
  BY <1>23, JoinedNone DEF StaleRep, ToIdle, ToTimewait, cepVars, Connected,
      Calling, Replied, Offered, Ringing, Disconnecting
<1>24. ASSUME NEW m \in net, m.type = "REP", DupRep(m, m.to) PROVE Joined
  BY <1>24, <1>y, <1>r, Sides, JoinedTo, JoinedNone DEF DupRep, ToIdle,
      ToTimewait, cepVars, Connected, Calling, Replied, Offered, Ringing,
      Disconnecting
<1>25. ASSUME NEW m \in net, RcvMraRep(m) PROVE Joined
  BY <1>25, <1>y, <1>r, Sides, JoinedTo, JoinedNone DEF RcvMraRep, Discard,
      ToIdle, ToTimewait, cepVars, Connected, Calling, Replied, Offered,
      Ringing, Disconnecting
<1>26. ASSUME NEW m \in net, RcvRtu(m) PROVE Joined
  <2>1. m.type = "RTU" /\ m.to \in Answers /\ <<m.from, m.to>> \in met
    BY <1>26, <1>m, Receivers DEF RcvRtu, MailOK
  <2>2. peer[m.to] = m.from
    BY <2>1, <1>y DEF Inv, TypeOK, PartnersAgree
  <2> QED
    BY <1>26, <2>1, <2>2, <1>y, JoinedMet, JoinedNone
    DEF RcvRtu, BecomeEstablished, Discard, cepVars
<1>27. ASSUME NEW m \in net, RcvRejReq(m) PROVE Joined
  BY <1>27, <1>y, <1>r, Sides, JoinedTo, JoinedNone DEF RcvRejReq, Discard,
      ToIdle, ToTimewait, cepVars, Connected, Calling, Replied, Offered,
      Ringing, Disconnecting
<1>28. ASSUME NEW m \in net, RcvRejRep(m) PROVE Joined
  BY <1>28, <1>y, <1>r, Sides, JoinedTo, JoinedNone DEF RcvRejRep, Discard,
      ToIdle, ToTimewait, cepVars, Connected, Calling, Replied, Offered,
      Ringing, Disconnecting
<1>29. ASSUME NEW m \in net, RcvDreq(m) PROVE Joined
  BY <1>29, <1>y, <1>r, Sides, JoinedTo, JoinedNone DEF RcvDreq, CrossedDreq,
      Discard, ToIdle, ToTimewait, cepVars, Connected, Calling, Replied,
      Offered, Ringing, Disconnecting
<1>30. ASSUME NEW m \in net, RcvDrep(m) PROVE Joined
  BY <1>30, <1>y, <1>r, Sides, JoinedTo, JoinedNone DEF RcvDrep, Discard,
      ToIdle, ToTimewait, cepVars, Connected, Calling, Replied, Offered,
      Ringing, Disconnecting
<1> QED BY <1>1, <1>2, <1>3, <1>4, <1>5, <1>6, <1>7, <1>8, <1>9, <1>10, <1>11,
          <1>12, <1>13, <1>14, <1>15, <1>16, <1>17, <1>18, <1>19, <1>20,
          <1>21, <1>22, <1>23, <1>24, <1>25, <1>26, <1>27, <1>28, <1>29,
          <1>30 DEF Next, Receive, RcvReq, RcvRep, Timeout

\* met grows with the calls accepted only.
LEMMA MetStep ==
  ASSUME Inv, Next
  PROVE  met' = met \/ \E k \in Calls : AcceptA(k)
<1>1. ASSUME NEW k \in Calls, NEW q \in ClientQPs, Connect(k,
        q) PROVE UNCHANGED met
  BY <1>1 DEF Connect
<1>2. ASSUME NEW k \in Calls, AcceptA(k) PROVE \E o \in Calls : AcceptA(o)
  BY <1>2
<1>3. ASSUME NEW k \in Calls, RejectA(k) PROVE UNCHANGED met
  BY <1>3 DEF RejectA
<1>4. ASSUME NEW k \in Calls, CancelA(k) PROVE UNCHANGED met
  BY <1>4 DEF CancelA
<1>5. CASE Listen
  BY <1>5 DEF Listen
<1>6. CASE RejectP
  BY <1>6 DEF RejectP
<1>7. CASE CancelListen
  BY <1>7 DEF CancelListen
<1>8. ASSUME NEW q \in ServerQPs, AcceptP(q) PROVE UNCHANGED met
  BY <1>8 DEF AcceptP
<1>9. ASSUME NEW p \in Answers, CancelP(p) PROVE UNCHANGED met
  BY <1>9 DEF CancelP
<1>10. ASSUME NEW p \in Answers, CommEstablished(p) PROVE UNCHANGED met
  BY <1>10 DEF CommEstablished, BecomeEstablished
<1>11. ASSUME NEW n \in Ceps, Disconnect(n) PROVE UNCHANGED met
  BY <1>11 DEF Disconnect, DisconnectA
<1>12. ASSUME NEW n \in Ceps, Destroy(n) PROVE UNCHANGED met
  BY <1>12 DEF Destroy, DisconnectA
<1>13. ASSUME NEW n \in Ceps, ReqTimeout(n) PROVE UNCHANGED met
  BY <1>13 DEF ReqTimeout
<1>14. ASSUME NEW n \in Ceps, RepTimeout(n) PROVE UNCHANGED met
  BY <1>14 DEF RepTimeout
<1>15. ASSUME NEW n \in Ceps, DreqTimeout(n) PROVE UNCHANGED met
  BY <1>15 DEF DreqTimeout
<1>16. ASSUME NEW n \in Ceps, TimewaitOver(n) PROVE UNCHANGED met
  BY <1>16 DEF TimewaitOver
<1>17. ASSUME NEW m \in net, m.type = "REQ", RefuseReq(m) PROVE UNCHANGED met
  BY <1>17 DEF RefuseReq
<1>18. ASSUME NEW m \in net, NEW p \in Answers, m.type = "REQ", TakeReq(m,
        p) PROVE UNCHANGED met
  BY <1>18 DEF TakeReq
<1>19. ASSUME NEW m \in net, NEW p \in Answers, m.type = "REQ", DupReq(m,
        p) PROVE UNCHANGED met
  BY <1>19 DEF DupReq
<1>20. ASSUME NEW m \in net, NEW p \in Answers, m.type = "REQ", StaleReq(m,
        p) PROVE UNCHANGED met
  BY <1>20 DEF StaleReq
<1>21. ASSUME NEW m \in net, RcvMraReq(m) PROVE UNCHANGED met
  BY <1>21 DEF RcvMraReq, Discard
<1>22. ASSUME NEW m \in net, m.type = "REP", TakeRep(m,
        m.to) PROVE UNCHANGED met
  BY <1>22 DEF TakeRep
<1>23. ASSUME NEW m \in net, m.type = "REP", StaleRep(m,
        m.to) PROVE UNCHANGED met
  BY <1>23 DEF StaleRep
<1>24. ASSUME NEW m \in net, m.type = "REP", DupRep(m, m.to) PROVE UNCHANGED met
  BY <1>24 DEF DupRep
<1>25. ASSUME NEW m \in net, RcvMraRep(m) PROVE UNCHANGED met
  BY <1>25 DEF RcvMraRep, Discard
<1>26. ASSUME NEW m \in net, RcvRtu(m) PROVE UNCHANGED met
  BY <1>26 DEF RcvRtu, BecomeEstablished, Discard
<1>27. ASSUME NEW m \in net, RcvRejReq(m) PROVE UNCHANGED met
  BY <1>27 DEF RcvRejReq, Discard
<1>28. ASSUME NEW m \in net, RcvRejRep(m) PROVE UNCHANGED met
  BY <1>28 DEF RcvRejRep, Discard
<1>29. ASSUME NEW m \in net, RcvDreq(m) PROVE UNCHANGED met
  BY <1>29 DEF RcvDreq, CrossedDreq, Discard
<1>30. ASSUME NEW m \in net, RcvDrep(m) PROVE UNCHANGED met
  BY <1>30 DEF RcvDrep, Discard
<1> QED BY <1>1, <1>2, <1>3, <1>4, <1>5, <1>6, <1>7, <1>8, <1>9, <1>10, <1>11,
          <1>12, <1>13, <1>14, <1>15, <1>16, <1>17, <1>18, <1>19, <1>20,
          <1>21, <1>22, <1>23, <1>24, <1>25, <1>26, <1>27, <1>28, <1>29,
          <1>30 DEF Next, Receive, RcvReq, RcvRep, Timeout

LEMMA Remembered ==
  ASSUME Inv, Next
  PROVE  met \subseteq met' /\ met' \subseteq Calls \X Answers
<1>1. met \subseteq Calls \X Answers
  BY DEF Inv, TypeOK
<1>2. ASSUME NEW k \in Calls, AcceptA(k)
      PROVE  met \subseteq met' /\ met' \subseteq Calls \X Answers
  <2>1. peer[k] \in Answers
    BY <1>2 DEF AcceptA, Inv, PeerOK
  <2> QED
    BY <1>1, <1>2, <2>1 DEF AcceptA
<1> QED
  BY <1>1, <1>2, MetStep

LEMMA PeerStep ==
  ASSUME Inv, Next
  PROVE  PeerOK'
<1>1. PeerOK
  BY DEF Inv
<1>2. Forward /\ Settled
  BY ForwardStep, SettledStep
<1>3. ASSUME NEW p \in Answers
      PROVE  /\ peer'[p] \in Calls \cup {None}
             /\ peer'[p] = None <=> state'[p] = "UNUSED"
             /\ peer'[p] # None => state'[peer'[p]] # "UNUSED"
             /\ peer[p] # None => peer'[p] = peer[p]
  <2>1. AnswerSettled(p)
    BY <1>2 DEF Settled
  <2>2. /\ peer[p] \in Calls \cup {None}
        /\ peer[p] = None <=> state[p] = "UNUSED"
        /\ peer[p] # None => state[peer[p]] # "UNUSED"
    BY <1>1 DEF PeerOK
  <2>3. \A k \in Calls : state[k] # "UNUSED" => state'[k] # "UNUSED"
    BY <1>2, Sides DEF Forward
  <2> QED
    BY <2>1, <2>2, <2>3, Sides DEF AnswerSettled
<1>4. ASSUME NEW k \in Calls
      PROVE  /\ peer'[k] \in Answers \cup {None}
             /\ peer'[k] # None => peer'[peer'[k]] = k
             /\ state'[k] \in Offered => peer'[k] # None
  <2>1. CallSettled(k)
    BY <1>2 DEF Settled
  <2>2. /\ peer[k] \in Answers \cup {None}
        /\ peer[k] # None => peer[peer[k]] = k
        /\ state[k] \in Offered => peer[k] # None
    BY <1>1 DEF PeerOK
  <2>3. \A p \in Answers : peer[p] = k => peer'[p] = k
    BY <1>3, Sides
  <2> QED
    BY <2>1, <2>2, <2>3, Sides DEF CallSettled
<1> QED
  BY <1>3, <1>4 DEF PeerOK

LEMMA MetOKStep ==
  ASSUME Inv, Next
  PROVE  MetOK'
<1> SUFFICES ASSUME NEW k \in Calls, NEW p \in Answers, <<k, p>> \in met'
             PROVE  state'[k] \notin Early
  BY DEF MetOK, Early
<1>1. CASE <<k, p>> \in met
  BY <1>1, ForwardStep, Sides DEF Inv, MetOK, Early, Forward
<1>2. CASE <<k, p>> \notin met
  <2>1. PICK o \in Calls : AcceptA(o)
    BY <1>2, MetStep
  <2>2. k = o
    BY <1>2, <2>1 DEF AcceptA
  <2>3. StatesOK
    BY DEF Inv, TypeOK
  <2>4. state'[k] = "ESTABLISHED"
    BY <2>1, <2>2, <2>3, Sides DEF AcceptA, To, StatesOK
  <2> QED
    BY <2>4 DEF Early, Calling, Offered
<1> QED
  BY <1>1, <1>2

LEMMA PartnersStep ==
  ASSUME Inv, Next
  PROVE  PartnersAgree'
<1>1. PartnersAgree /\ PeerOK /\ MetOK
  BY DEF Inv
<1>2. Settled /\ Joined /\ met \subseteq met'
  BY SettledStep, JoinedStep, Remembered
<1>3. ASSUME NEW k \in Calls, NEW p \in Answers, <<k, p>> \in met
      PROVE  peer'[k] = p /\ peer'[p] = k
  <2>1. peer[k] = p /\ peer[p] = k
    BY <1>1, <1>3 DEF PartnersAgree
  <2>2. state[k] \notin Calling
    BY <1>1, <1>3 DEF MetOK
  <2>3. state[p] # "UNUSED"
    BY <1>1, <2>1, Sides DEF PeerOK
  <2> QED
    BY <1>2, <2>1, <2>2, <2>3 DEF Settled, CallSettled, AnswerSettled
<1>4. ASSUME NEW k \in Calls, NEW p \in Answers, <<k, p>> \in met', <<k,
        p>> \notin met
      PROVE  peer'[k] = p /\ peer'[p] = k
  <2>1. PICK o \in Calls : AcceptA(o)
    BY <1>4, MetStep
  <2>2. k = o /\ p = peer[k] /\ UNCHANGED peer /\ state[k] \in Offered
    BY <1>4, <2>1 DEF AcceptA
  <2>3. peer[p] = k
    BY <1>1, <2>2, Sides DEF PeerOK
  <2> QED
    BY <2>2, <2>3
<1>5. ASSUME NEW k \in Calls, state'[k] \in Connected
      PROVE  <<k, peer'[k]>> \in met'
  <2>1. <<k, peer[k]>> \in met'
    BY <1>1, <1>2, <1>5 DEF PartnersAgree, Connected, Joined, CallJoined
  <2>2. peer[k] \in Answers
    BY <2>1, Remembered
  <2> QED
    BY <1>3, <1>4, <2>1, <2>2
<1>6. ASSUME NEW p \in Answers, state'[p] \in Connected
      PROVE  <<peer'[p], p>> \in met'
  <2>1. <<peer[p], p>> \in met'
    BY <1>1, <1>2, <1>6 DEF PartnersAgree, Connected, Joined, AnswerJoined
  <2>2. peer[p] \in Calls
    BY <2>1, Remembered
  <2> QED
    BY <1>3, <1>4, <2>1, <2>2
<1> QED
  BY <1>3, <1>4, <1>5, <1>6 DEF PartnersAgree, Connected

-----------------------------------------------------------------------------
(* The messages. *)

\* A message is well formed and its sides are right after a step.
Mailed(x) == x \in Messages /\ MailOK(x)'

LEMMA Wraps ==
  ASSUME NEW t \in Types, NEW a \in Ceps \cup {None},
          NEW b \in Ceps \cup {None},
         NEW q \in QPs \cup {None}
  PROVE  /\ Message(t, a, b, q) \in Messages
         /\ Message(t, a, b, q).type = t
         /\ Message(t, a, b, q).to = a
         /\ Message(t, a, b, q).from = b
BY DEF Message, Messages

LEMMA MailedReq ==
  ASSUME NEW k \in Calls, state'[k] # "UNUSED", NEW q \in QPs \cup {None}
  PROVE  Mailed(Req(k, q))
<1>1. "REQ" \in Types /\ k \in Ceps \cup {None}
  BY Sides DEF Types
<1> QED
  BY <1>1, Wraps DEF Mailed, MailOK, Req

LEMMA MailedBack ==
  ASSUME NEW k \in Calls, NEW p \in Answers, peer'[p] = k,
          NEW q \in QPs \cup {None},
         NEW t \in {"MRA_REQ", "REP"}
  PROVE  Mailed(Message(t, k, p, q))
<1>1. t \in Types /\ k \in Ceps \cup {None} /\ p \in Ceps \cup {None}
  BY Sides DEF Types
<1> QED
  BY <1>1, Wraps DEF Mailed, MailOK

LEMMA MailedMraReq ==
  ASSUME NEW k \in Calls, NEW p \in Answers, peer'[p] = k
  PROVE  Mailed(Msg("MRA_REQ", k, p))
BY MailedBack DEF Msg

LEMMA MailedMraRep ==
  ASSUME NEW p \in Answers, NEW k \in Calls
  PROVE  Mailed(Msg("MRA_REP", p, k))
<1>1. "MRA_REP" \in Types /\ k \in Ceps \cup {None} /\ p \in Ceps \cup {None}
  BY Sides DEF Types
<1> QED
  BY <1>1, Wraps DEF Mailed, MailOK, Msg

LEMMA MailedRtu ==
  ASSUME NEW p \in Answers, NEW k \in Calls, <<k, p>> \in met'
  PROVE  Mailed(Msg("RTU", p, k))
<1>1. "RTU" \in Types /\ k \in Ceps \cup {None} /\ p \in Ceps \cup {None}
  BY Sides DEF Types
<1> QED
  BY <1>1, Wraps DEF Mailed, MailOK, Msg

LEMMA MailedRejReq ==
  ASSUME NEW k \in Calls, NEW t \in {"REJ_REQ", "STALE_REQ"}
  PROVE  Mailed(Msg(t, k, None))
<1>1. t \in Types /\ k \in Ceps \cup {None}
  BY Sides DEF Types
<1> QED
  BY <1>1, Wraps DEF Mailed, MailOK, Msg

LEMMA MailedRejRep ==
  ASSUME NEW p \in Answers, NEW t \in {"REJ_REP", "STALE_REP"}
  PROVE  Mailed(Msg(t, p, None))
<1>1. t \in Types /\ p \in Ceps \cup {None}
  BY Sides DEF Types
<1> QED
  BY <1>1, Wraps DEF Mailed, MailOK, Msg

LEMMA MailedDreq ==
  ASSUME NEW n \in Ceps, NEW o \in Ceps, NEW t \in {"DREQ", "DREP"},
         <<n, o>> \in met' \/ <<o, n>> \in met'
  PROVE  Mailed(Msg(t, o, n))
<1>1. t \in Types
  BY DEF Types
<1> QED
  BY <1>1, Wraps DEF Mailed, MailOK, Msg

\* What was in flight stays right.
LEMMA MailStays ==
  ASSUME Inv, Next, NEW m \in net
  PROVE  Mailed(m)
<1>1. m \in Messages /\ MailOK(m)
  BY DEF Inv, TypeOK, NetOK
<1>2. Forward /\ Settled /\ met \subseteq met'
  BY ForwardStep, SettledStep, Remembered
<1>3. ASSUME m.from \in Answers, peer[m.from] = m.to, m.to \in Calls
      PROVE  peer'[m.from] = m.to
  <2>1. state[m.from] # "UNUSED"
    BY <1>3, Sides DEF Inv, PeerOK
  <2> QED
    BY <1>2, <1>3, <2>1 DEF Settled, AnswerSettled
<1>4. m.from \in Calls /\ state[m.from] # "UNUSED" => state'[m.from] # "UNUSED"
  BY <1>2, Sides DEF Forward
<1>5. MailOK(m)'
  <2> SUFFICES
        /\ m.type = "REQ" => m.from \in Calls /\ state'[m.from] # "UNUSED"
        /\ m.type \in {"MRA_REQ", "REP"} =>
               m.to \in Calls /\ m.from \in Answers /\ peer'[m.from] = m.to
        /\ m.type = "MRA_REP" => m.to \in Answers
        /\ m.type = "RTU" => <<m.from, m.to>> \in met'
        /\ m.type \in {"REJ_REQ", "STALE_REQ"} => m.to \in Calls
        /\ m.type \in {"REJ_REP", "STALE_REP"} => m.to \in Answers
        /\ m.type \in {"DREQ", "DREP"} =>
               <<m.to, m.from>> \in met' \/ <<m.from, m.to>> \in met'
    BY DEF MailOK
  <2> QED
    BY <1>1, <1>2, <1>3, <1>4 DEF MailOK
<1> QED
  BY <1>1, <1>5 DEF Mailed

MailDone == net' \subseteq Messages /\ NetOK'

LEMMA MailDoneBy ==
  ASSUME Inv, Next, NEW ms, \A x \in ms : Mailed(x), net' \subseteq net \cup ms
  PROVE  MailDone
<1>1. \A x \in net' : Mailed(x)
  BY MailStays
<1>2. \A x \in net' : MailOK(x)'
  BY <1>1 DEF Mailed
<1> QED
  BY <1>1, <1>2 DEF Mailed, MailDone, NetOK

LEMMA MailSame ==
  ASSUME Inv, Next, net' \subseteq net
  PROVE  MailDone
<1>1. \A x \in net' : Mailed(x)
  BY MailStays
<1>2. \A x \in net' : MailOK(x)'
  BY <1>1 DEF Mailed
<1> QED
  BY <1>1, <1>2 DEF Mailed, MailDone, NetOK

LEMMA SendsOne ==
  ASSUME Inv, Next, NEW x, Mailed(x), Send({x})
  PROVE  MailDone
<1>1. \A y \in {x} : Mailed(y)
  OBVIOUS
<1>2. net' \subseteq net \cup {x}
  BY DEF Send
<1> QED
  BY <1>1, <1>2, MailDoneBy

LEMMA AnswersOne ==
  ASSUME Inv, Next, NEW m, NEW x, Mailed(x), Answer(m, {x})
  PROVE  MailDone
<1>1. \A y \in {x} : Mailed(y)
  OBVIOUS
<1>2. net' \subseteq net \cup {x}
  BY DEF Answer
<1> QED
  BY <1>1, <1>2, MailDoneBy

\* The ID of its peer that a CEP answers with.
LEMMA PeersKnown ==
  ASSUME Inv
  PROVE  /\ \A k \in Calls : state[k] \in Offered => peer[k] \in Answers
         /\ \A p \in Answers : state[p] # "UNUSED" => peer[p] \in Calls
         /\ \A k \in Calls : state[k] \in Connected =>
                peer[k] \in Answers /\ <<k, peer[k]>> \in met
         /\ \A p \in Answers : state[p] \in Connected =>
                peer[p] \in Calls /\ <<peer[p], p>> \in met
<1>1. PeerOK /\ PartnersAgree /\ met \subseteq Calls \X Answers
  BY DEF Inv, TypeOK
<1>2. \A k \in Calls : state[k] \in Connected => <<k, peer[k]>> \in met
  BY <1>1 DEF PartnersAgree, Connected
<1>3. \A p \in Answers : state[p] \in Connected => <<peer[p], p>> \in met
  BY <1>1 DEF PartnersAgree, Connected
<1> QED
  BY <1>1, <1>2, <1>3 DEF PeerOK

LEMMA PeersConnected ==
  ASSUME Inv, NEW n \in Ceps, state[n] \in Connected
  PROVE  peer[n] \in Ceps /\ (<<n, peer[n]>> \in met \/ <<peer[n], n>> \in met)
BY PeersKnown, Sides DEF Ceps

\* A DREQ is from the peer of the CEP it is for.
LEMMA DreqPeer ==
  ASSUME Inv, NEW m \in net, m.type = "DREQ"
  PROVE  /\ m.to \in Ceps /\ peer[m.to] \in Ceps
         /\ <<m.to, peer[m.to]>> \in met \/ <<peer[m.to], m.to>> \in met
<1>1. <<m.to, m.from>> \in met \/ <<m.from, m.to>> \in met
  BY DEF Inv, NetOK, MailOK
<1>2. PartnersAgree /\ met \subseteq Calls \X Answers
  BY DEF Inv, TypeOK
<1>3. CASE <<m.to, m.from>> \in met
  <2>1. m.to \in Calls /\ m.from \in Answers
    BY <1>2, <1>3
  <2>2. peer[m.to] = m.from
    BY <1>2, <1>3, <2>1 DEF PartnersAgree
  <2> QED
    BY <1>3, <2>1, <2>2, Sides
<1>4. CASE <<m.from, m.to>> \in met
  <2>1. m.from \in Calls /\ m.to \in Answers
    BY <1>2, <1>4
  <2>2. peer[m.to] = m.from
    BY <1>2, <1>4, <2>1 DEF PartnersAgree
  <2> QED
    BY <1>4, <2>1, <2>2, Sides
<1> QED
  BY <1>1, <1>3, <1>4

\* Every message is well formed and between the right sides.
LEMMA MailStep ==
  ASSUME Inv, Next
  PROVE  MailDone
<1>y. StatesOK
  BY DEF Inv, TypeOK
<1>c. CepsOK
  BY DEF Inv, TypeOK
<1>g. met \subseteq met'
  BY Remembered
<1>h. pending # <<>> => Head(pending) \in Answers /\ state[Head(pending)] \in Ringing
  BY HeadRings
<1>m. \A m \in net : MailOK(m)
  BY DEF Inv, NetOK
<1>1. ASSUME NEW k \in Calls, NEW q \in ClientQPs, Connect(k, q) PROVE MailDone
  <2>1. Mailed(Req(k, q))
    <3>1. state'[k] # "UNUSED"
      BY <1>1, <1>y, Sides DEF Connect, To, StatesOK
    <3> QED
      BY <3>1, MailedReq DEF QPs
  <2> QED
    BY <1>1, <2>1, SendsOne DEF Connect
<1>2. ASSUME NEW k \in Calls, AcceptA(k) PROVE MailDone
  <2>1. peer[k] \in Answers /\ <<k, peer[k]>> \in met'
    BY <1>2, PeersKnown DEF AcceptA
  <2>2. Mailed(Msg("RTU", peer[k], k))
    BY <2>1, MailedRtu
  <2> QED
    BY <1>2, <2>2, SendsOne DEF AcceptA
<1>3. ASSUME NEW k \in Calls, RejectA(k) PROVE MailDone
  <2>1. Mailed(Msg("REJ_REP", peer[k], None))
    BY <1>3, PeersKnown, MailedRejRep DEF RejectA
  <2> QED
    BY <1>3, <2>1, SendsOne DEF RejectA
<1>4. ASSUME NEW k \in Calls, CancelA(k) PROVE MailDone
  BY <1>4, MailSame DEF CancelA, Send, Answer, cepVars
<1>5. CASE Listen
  BY <1>5, MailSame DEF Listen, Send, Answer, cepVars
<1>6. CASE RejectP
  <2>1. Mailed(Msg("REJ_REQ", peer[Head(pending)], None))
    BY <1>6, <1>h, PeersKnown, MailedRejReq DEF RejectP, Ringing
  <2> QED
    BY <1>6, <2>1, SendsOne DEF RejectP
<1>7. CASE CancelListen
  BY <1>7, MailSame DEF CancelListen, Send, Answer, cepVars
<1>8. ASSUME NEW q \in ServerQPs, AcceptP(q) PROVE MailDone
  <2> DEFINE p == Head(pending)
  <2>1. p \in Answers /\ peer[p] \in Calls /\ peer'[p] = peer[p]
    BY <1>8, <1>h, PeersKnown DEF AcceptP, Ringing
  <2>2. Mailed(Message("REP", peer[p], p, q))
    BY <2>1, MailedBack DEF QPs
  <2> QED
    BY <1>8, <2>2, SendsOne DEF AcceptP
<1>9. ASSUME NEW p \in Answers, CancelP(p) PROVE MailDone
  BY <1>9, MailSame DEF CancelP, Send, Answer, cepVars
<1>10. ASSUME NEW p \in Answers, CommEstablished(p) PROVE MailDone
  BY <1>10, MailSame DEF CommEstablished, BecomeEstablished, Send, Answer,
      cepVars
<1>11. ASSUME NEW n \in Ceps, Disconnect(n) PROVE MailDone
  <2>1. CASE state[n] \in Connected
    <3>1. Mailed(Msg("DREQ", peer[n], n)) /\ Mailed(Msg("DREP", peer[n], n))
      BY <2>1, <1>g, PeersConnected, MailedDreq
    <3> QED
      BY <1>11, <3>1, MailDoneBy, MailSame DEF Disconnect, DisconnectA, Send
  <2>2. CASE state[n] \notin Connected
    BY <1>11, <2>2, MailSame DEF Disconnect, DisconnectA, Connected,
        Disconnecting
  <2> QED
    BY <2>1, <2>2
<1>12. ASSUME NEW n \in Ceps, Destroy(n) PROVE MailDone
  <2>1. CASE state[n] \in Connected
    <3>1. Mailed(Msg("DREQ", peer[n], n)) /\ Mailed(Msg("DREP", peer[n], n))
      BY <2>1, <1>g, PeersConnected, MailedDreq
    <3> QED
      BY <1>12, <3>1, MailDoneBy, MailSame DEF Destroy, DisconnectA, Send
  <2>2. CASE state[n] \notin Connected
    BY <1>12, <2>2, MailSame DEF Destroy, DisconnectA, Connected, Disconnecting
  <2> QED
    BY <2>1, <2>2
<1>13. ASSUME NEW n \in Ceps, ReqTimeout(n) PROVE MailDone
  <2>1. n \in Calls /\ peer[n] \in Answers \cup {None}
    BY <1>13, <1>y, Sides DEF ReqTimeout, StatesOK, Calling, AnswerStates,
        Ceps, Inv, PeerOK
  <2>2. Mailed(Req(n, qp[n]))
    <3>1. state'[n] # "UNUSED"
      BY <1>13, ForwardStep, Sides DEF ReqTimeout, Calling, Forward
    <3>2. qp[n] \in QPs \cup {None}
      BY <1>c DEF CepsOK
    <3> QED
      BY <2>1, <3>1, <3>2, MailedReq
  <2>3. \A x \in {Msg("REJ_REP", p,
          None) : p \in {peer[n]} \ {None}} : Mailed(x)
    BY <2>1, MailedRejRep
  <2> QED
    BY <1>13, <2>2, <2>3, MailDoneBy DEF ReqTimeout, Send
<1>14. ASSUME NEW n \in Ceps, RepTimeout(n) PROVE MailDone
  <2>1. n \in Answers /\ state[n] # "UNUSED"
    BY <1>14, <1>y, Sides DEF RepTimeout, StatesOK, Replied, CallStates, Ceps
  <2>2. peer[n] \in Calls /\ peer'[n] = peer[n]
    BY <1>14, <2>1, PeersKnown DEF RepTimeout
  <2>3. qp[n] \in QPs \cup {None}
    BY <1>c DEF CepsOK
  <2>4. Mailed(Rep(n)) /\ Mailed(Msg("REJ_REQ", peer[n], None))
    BY <2>1, <2>2, <2>3, MailedBack, MailedRejReq DEF Rep
  <2> QED
    BY <1>14, <2>4, SendsOne DEF RepTimeout
<1>15. ASSUME NEW n \in Ceps, DreqTimeout(n) PROVE MailDone
  <2>1. Mailed(Msg("DREQ", peer[n], n))
    BY <1>15, <1>g, PeersConnected, MailedDreq DEF DreqTimeout, Connected,
        Disconnecting
  <2> QED
    BY <1>15, <2>1, MailDoneBy, MailSame DEF DreqTimeout, Send
<1>16. ASSUME NEW n \in Ceps, TimewaitOver(n) PROVE MailDone
  BY <1>16, MailSame DEF TimewaitOver, Send, Answer, cepVars
<1>17. ASSUME NEW m \in net, m.type = "REQ", RefuseReq(m) PROVE MailDone
  <2>1. Mailed(Msg("REJ_REQ", m.from, None))
    BY <1>17, Receivers, MailedRejReq
  <2> QED
    BY <1>17, <2>1, AnswersOne DEF RefuseReq
<1>18. ASSUME NEW m \in net, NEW p \in Answers, m.type = "REQ", TakeReq(m,
        p) PROVE MailDone
  <2>1. peer'[p] = m.from
    BY <1>18, <1>c, Sides DEF TakeReq, CepsOK
  <2>2. Mailed(Msg("MRA_REQ", m.from, p))
    BY <1>18, <2>1, Receivers, MailedMraReq
  <2> QED
    BY <1>18, <2>2, MailDoneBy, MailSame DEF TakeReq, Answer
<1>19. ASSUME NEW m \in net, NEW p \in Answers, m.type = "REQ", DupReq(m,
        p) PROVE MailDone
  <2>1. peer[p] \in Calls /\ peer'[p] = peer[p] /\ peer[p] = m.from
    BY <1>19, Receivers DEF DupReq
  <2>2. qp[p] \in QPs \cup {None}
    BY <1>c, Sides DEF CepsOK
  <2>3. Mailed(Rep(p)) /\ Mailed(Msg("MRA_REQ", m.from, p))
    BY <2>1, <2>2, MailedBack, MailedMraReq DEF Rep
  <2> QED
    BY <1>19, <2>3, MailDoneBy, MailSame DEF DupReq, Answer
<1>20. ASSUME NEW m \in net, NEW p \in Answers, m.type = "REQ", StaleReq(m,
        p) PROVE MailDone
  <2>1. Mailed(Msg("STALE_REQ", m.from, None))
    BY <1>20, Receivers, MailedRejReq
  <2>2. state[p] = "ESTABLISHED" => Mailed(Msg("DREQ", peer[p], p))
    BY <1>g, PeersConnected, MailedDreq, Sides DEF Connected
  <2> QED
    BY <1>20, <2>1, <2>2, MailDoneBy, MailSame DEF StaleReq, Answer
<1>21. ASSUME NEW m \in net, RcvMraReq(m) PROVE MailDone
  BY <1>21, MailSame DEF RcvMraReq, Discard, Send, Answer, cepVars
<1>22. ASSUME NEW m \in net, m.type = "REP", TakeRep(m, m.to) PROVE MailDone
  BY <1>22, MailSame DEF TakeRep, Send, Answer, cepVars
<1>23. ASSUME NEW m \in net, m.type = "REP", StaleRep(m, m.to) PROVE MailDone
  <2>1. Mailed(Msg("STALE_REP", m.from, None))
    BY <1>23, <1>m, MailedRejRep DEF MailOK
  <2> QED
    BY <1>23, <2>1, AnswersOne DEF StaleRep
<1>24. ASSUME NEW m \in net, m.type = "REP", DupRep(m, m.to) PROVE MailDone
  <2>1. m.to \in Calls /\ m.from \in Answers
    BY <1>24, <1>m DEF MailOK
  <2>2. Mailed(Msg("REJ_REP", m.from, None))
    BY <2>1, MailedRejRep
  <2>3. state[m.to] \in Offered => Mailed(Msg("MRA_REP", peer[m.to], m.to))
    BY <2>1, PeersKnown, MailedMraRep
  <2>4. state[m.to] = "ESTABLISHED" => Mailed(Msg("RTU", peer[m.to], m.to))
    BY <2>1, <1>g, PeersKnown, MailedRtu DEF Connected
  <2> QED
    BY <1>24, <2>2, <2>3, <2>4, MailDoneBy, MailSame DEF DupRep, Answer
<1>25. ASSUME NEW m \in net, RcvMraRep(m) PROVE MailDone
  BY <1>25, MailSame DEF RcvMraRep, Discard, Send, Answer, cepVars
<1>26. ASSUME NEW m \in net, RcvRtu(m) PROVE MailDone
  BY <1>26, MailSame DEF RcvRtu, BecomeEstablished, Discard, Send, Answer,
      cepVars
<1>27. ASSUME NEW m \in net, RcvRejReq(m) PROVE MailDone
  BY <1>27, MailSame DEF RcvRejReq, Discard, Send, Answer, cepVars
<1>28. ASSUME NEW m \in net, RcvRejRep(m) PROVE MailDone
  BY <1>28, MailSame DEF RcvRejRep, Discard, Send, Answer, cepVars
<1>29. ASSUME NEW m \in net, RcvDreq(m) PROVE MailDone
  <2>1. m.type = "DREQ"
    BY <1>29 DEF RcvDreq
  <2>2. Mailed(Msg("DREP", peer[m.to], m.to))
    BY <2>1, <1>g, DreqPeer, MailedDreq
  <2> QED
    BY <1>29, <2>2, MailDoneBy, MailSame DEF RcvDreq, CrossedDreq, Discard,
        Answer
<1>30. ASSUME NEW m \in net, RcvDrep(m) PROVE MailDone
  BY <1>30, MailSame DEF RcvDrep, Discard, Send, Answer, cepVars
<1> QED BY <1>1, <1>2, <1>3, <1>4, <1>5, <1>6, <1>7, <1>8, <1>9, <1>10, <1>11,
          <1>12, <1>13, <1>14, <1>15, <1>16, <1>17, <1>18, <1>19, <1>20,
          <1>21, <1>22, <1>23, <1>24, <1>25, <1>26, <1>27, <1>28, <1>29,
          <1>30 DEF Next, Receive, RcvReq, RcvRep, Timeout

-----------------------------------------------------------------------------
(* The invariant, and the theorems. *)

\* The list stays a list of answers.
LEMMA ListOKStep ==
  ASSUME Inv, Next
  PROVE  ListOK'
<1>o. ListOK
  BY DEF Inv, TypeOK
<1>1. ASSUME NEW k \in Calls, NEW q \in ClientQPs, Connect(k, q) PROVE ListOK'
  BY <1>1, <1>o DEF Connect, ListOK, cepVars, Listener
<1>2. ASSUME NEW k \in Calls, AcceptA(k) PROVE ListOK'
  BY <1>2, <1>o DEF AcceptA, ListOK, cepVars, Listener
<1>3. ASSUME NEW k \in Calls, RejectA(k) PROVE ListOK'
  BY <1>3, <1>o DEF RejectA, ListOK, cepVars, Listener
<1>4. ASSUME NEW k \in Calls, CancelA(k) PROVE ListOK'
  BY <1>4, <1>o DEF CancelA, ListOK, cepVars, Listener
<1>5. CASE Listen
  BY <1>5, <1>o DEF Listen, ListOK, cepVars, Listener
<1>6. CASE RejectP
  BY <1>6, <1>o DEF RejectP, ListOK
<1>7. CASE CancelListen
  <2>1. pending' = <<>> /\ listening' = FALSE
    BY <1>7 DEF CancelListen
  <2>2. pending' \in Seq(Answers)
    BY <2>1
  <2> QED
    BY <2>1, <2>2 DEF ListOK
<1>8. ASSUME NEW q \in ServerQPs, AcceptP(q) PROVE ListOK'
  BY <1>8, <1>o DEF AcceptP, ListOK
<1>9. ASSUME NEW p \in Answers, CancelP(p) PROVE ListOK'
  BY <1>9, <1>o DEF CancelP, ListOK, cepVars, Listener
<1>10. ASSUME NEW p \in Answers, CommEstablished(p) PROVE ListOK'
  BY <1>10, <1>o DEF CommEstablished, BecomeEstablished, ListOK, cepVars,
      Listener
<1>11. ASSUME NEW n \in Ceps, Disconnect(n) PROVE ListOK'
  BY <1>11, <1>o DEF Disconnect, DisconnectA, ListOK, cepVars, Listener
<1>12. ASSUME NEW n \in Ceps, Destroy(n) PROVE ListOK'
  BY <1>12, <1>o DEF Destroy, DisconnectA, ListOK, cepVars, Listener
<1>13. ASSUME NEW n \in Ceps, ReqTimeout(n) PROVE ListOK'
  BY <1>13, <1>o DEF ReqTimeout, ListOK, cepVars, Listener
<1>14. ASSUME NEW n \in Ceps, RepTimeout(n) PROVE ListOK'
  BY <1>14, <1>o DEF RepTimeout, ListOK, cepVars, Listener
<1>15. ASSUME NEW n \in Ceps, DreqTimeout(n) PROVE ListOK'
  BY <1>15, <1>o DEF DreqTimeout, ListOK, cepVars, Listener
<1>16. ASSUME NEW n \in Ceps, TimewaitOver(n) PROVE ListOK'
  BY <1>16, <1>o DEF TimewaitOver, ListOK, cepVars, Listener
<1>17. ASSUME NEW m \in net, m.type = "REQ", RefuseReq(m) PROVE ListOK'
  BY <1>17, <1>o DEF RefuseReq, ListOK, cepVars, Listener
<1>18. ASSUME NEW m \in net, NEW p \in Answers, m.type = "REQ", TakeReq(m,
        p) PROVE ListOK'
  BY <1>18, <1>o DEF TakeReq, ListOK
<1>19. ASSUME NEW m \in net, NEW p \in Answers, m.type = "REQ", DupReq(m,
        p) PROVE ListOK'
  BY <1>19, <1>o DEF DupReq, ListOK, cepVars, Listener
<1>20. ASSUME NEW m \in net, NEW p \in Answers, m.type = "REQ", StaleReq(m,
        p) PROVE ListOK'
  BY <1>20, <1>o DEF StaleReq, ListOK, cepVars, Listener
<1>21. ASSUME NEW m \in net, RcvMraReq(m) PROVE ListOK'
  BY <1>21, <1>o DEF RcvMraReq, Discard, ListOK, cepVars, Listener
<1>22. ASSUME NEW m \in net, m.type = "REP", TakeRep(m, m.to) PROVE ListOK'
  BY <1>22, <1>o DEF TakeRep, ListOK, cepVars, Listener
<1>23. ASSUME NEW m \in net, m.type = "REP", StaleRep(m, m.to) PROVE ListOK'
  BY <1>23, <1>o DEF StaleRep, ListOK, cepVars, Listener
<1>24. ASSUME NEW m \in net, m.type = "REP", DupRep(m, m.to) PROVE ListOK'
  BY <1>24, <1>o DEF DupRep, ListOK, cepVars, Listener
<1>25. ASSUME NEW m \in net, RcvMraRep(m) PROVE ListOK'
  BY <1>25, <1>o DEF RcvMraRep, Discard, ListOK, cepVars, Listener
<1>26. ASSUME NEW m \in net, RcvRtu(m) PROVE ListOK'
  BY <1>26, <1>o DEF RcvRtu, BecomeEstablished, Discard, ListOK, cepVars,
      Listener
<1>27. ASSUME NEW m \in net, RcvRejReq(m) PROVE ListOK'
  BY <1>27, <1>o DEF RcvRejReq, Discard, ListOK, cepVars, Listener
<1>28. ASSUME NEW m \in net, RcvRejRep(m) PROVE ListOK'
  BY <1>28, <1>o DEF RcvRejRep, Discard, ListOK, cepVars, Listener
<1>29. ASSUME NEW m \in net, RcvDreq(m) PROVE ListOK'
  BY <1>29, <1>o DEF RcvDreq, CrossedDreq, Discard, ListOK, cepVars, Listener
<1>30. ASSUME NEW m \in net, RcvDrep(m) PROVE ListOK'
  BY <1>30, <1>o DEF RcvDrep, Discard, ListOK, cepVars, Listener
<1> QED BY <1>1, <1>2, <1>3, <1>4, <1>5, <1>6, <1>7, <1>8, <1>9, <1>10, <1>11,
          <1>12, <1>13, <1>14, <1>15, <1>16, <1>17, <1>18, <1>19, <1>20,
          <1>21, <1>22, <1>23, <1>24, <1>25, <1>26, <1>27, <1>28, <1>29,
          <1>30 DEF Next, Receive, RcvReq, RcvRep, Timeout

LEMMA InvStep ==
  ASSUME Inv, [Next]_vars
  PROVE  Inv'
<1>1. CASE Next
  <2>1. StatesOK' /\ CepsOK' /\ ListOK'
    BY <1>1, StatesStep, CepsStep, ListOKStep
  <2>2. net' \subseteq Messages /\ NetOK'
    BY <1>1, MailStep DEF MailDone
  <2>3. met' \subseteq Calls \X Answers
    BY <1>1, Remembered
  <2>4. PeerOK' /\ MetOK' /\ PartnersAgree'
    BY <1>1, PeerStep, MetOKStep, PartnersStep
  <2>5. TimersRun' /\ PendingIsRinging'
    BY <1>1, TimersStep, PendingStep
  <2>6. TypeOK'
    BY <2>1, <2>2, <2>3 DEF TypeOK
  <2> QED
    BY <2>2, <2>4, <2>5, <2>6 DEF Inv
<1>2. CASE UNCHANGED vars
  <2>1. UNCHANGED <<state, peer, qp, remote, retries, timer, doomed>>
        /\ UNCHANGED <<listening, pending, net, met>>
    BY <1>2 DEF vars, cepVars
  <2>2. TypeOK'
    BY <2>1 DEF Inv, TypeOK, StatesOK, CepsOK, ListOK
  <2>3. NetOK' /\ PeerOK'
    BY <2>1 DEF Inv, NetOK, MailOK, PeerOK
  <2>4. MetOK' /\ PartnersAgree'
    BY <2>1 DEF Inv, MetOK, PartnersAgree
  <2>5. TimersRun' /\ PendingIsRinging'
    BY <2>1, Rests, ListKept DEF Inv
  <2> QED
    BY <2>2, <2>3, <2>4, <2>5 DEF Inv
<1> QED
  BY <1>1, <1>2

\* Every behaviour keeps the invariant.
THEOREM Invariant == Spec => []Inv
BY InvInit, InvStep, PTL DEF Spec

\* Every field of every CEP keeps its type, and each side of a connection stays
\* in the states of its side, although no handler checks that a message is
\* from the other side (FindLocalCommID takes any ID).
THEOREM TypeCorrect == Spec => []TypeOK
<1>1. Inv => TypeOK
  BY DEF Inv
<1> QED
  BY <1>1, Invariant, PTL

\* CepSetState, CmTimerStart and CmTimerStop keep state and timer together in
\* every hand-over between a user, a message and a time-out.
THEOREM TimersAlwaysRun == Spec => []TimersRun
<1>1. Inv => TimersRun
  BY DEF Inv
<1> QED
  BY <1>1, Invariant, PTL

\* The listener's list is exactly its CEPs that ring, within the backlog.
THEOREM PendingAlwaysRings == Spec => []PendingIsRinging
<1>1. Inv => PendingIsRinging
  BY DEF Inv
<1> QED
  BY <1>1, Invariant, PTL

\* A call and an answer that were connected are connected to each other only.
THEOREM PartnersAlwaysAgree == Spec => []PartnersAgree
<1>1. Inv => PartnersAgree
  BY DEF Inv
<1> QED
  BY <1>1, Invariant, PTL

-----------------------------------------------------------------------------
(* End points. *)

LEMMA PointsKept ==
  ASSUME EndPointsUnique, UNCHANGED <<qp, remote>>
  PROVE  EndPointsUnique'
BY DEF EndPointsUnique

LEMMA PointsGone ==
  ASSUME EndPointsUnique, CepsOK, NEW n \in Ceps, ToIdle(n)
  PROVE  EndPointsUnique'
<1>1. \A o \in Ceps : /\ qp'[o] = IF o = n THEN None ELSE qp[o]
                      /\ remote'[o] = IF o = n THEN None ELSE remote[o]
  BY DEF CepsOK, ToIdle
<1> QED
  BY <1>1, Sides DEF EndPointsUnique

\* An end point enters its map when no other CEP has it.
LEMMA PointEnters ==
  ASSUME EndPointsUnique, CepsOK, NEW n \in Ceps, NEW q,
          \A o \in Ceps : qp[o] # q,
         qp' = [qp EXCEPT ![n] = q], UNCHANGED remote
  PROVE  EndPointsUnique'
<1>1. \A o \in Ceps : qp'[o] = IF o = n THEN q ELSE qp[o]
  BY DEF CepsOK
<1> QED
  BY <1>1 DEF EndPointsUnique

LEMMA RemoteEnters ==
  ASSUME EndPointsUnique, CepsOK, NEW n \in Ceps, NEW q,
         \/ n \in Calls /\ \A o \in Calls : remote[o] # q
         \/ n \in Answers /\ \A o \in Answers : remote[o] # q,
         remote' = [remote EXCEPT ![n] = q], UNCHANGED qp
  PROVE  EndPointsUnique'
<1>1. \A o \in Ceps : remote'[o] = IF o = n THEN q ELSE remote[o]
  BY DEF CepsOK
<1>2. \A o, x \in Ceps : qp'[o] = qp'[x] /\ qp'[o] # None => o = x
  BY DEF EndPointsUnique
<1>3. \A o, x \in Calls : remote'[o] = remote'[x] /\ remote'[o] # None => o = x
  BY <1>1, Sides DEF EndPointsUnique
<1>4. \A o,
        x \in Answers : remote'[o] = remote'[x] /\ remote'[o] # None => o = x
  BY <1>1, Sides DEF EndPointsUnique
<1> QED
  BY <1>2, <1>3, <1>4 DEF EndPointsUnique

LEMMA PointsStep ==
  ASSUME Inv, EndPointsUnique, Next
  PROVE  EndPointsUnique'
<1>y. StatesOK /\ CepsOK
  BY DEF Inv, TypeOK
<1>h. pending # <<>> => Head(pending) \in Answers /\ state[Head(pending)] \in Ringing
  BY HeadRings
<1>r. \A m \in net : m.type # "REQ" => m.to \in Ceps
  BY Receivers, Sides DEF Messages, Types
<1>e. EndPointsUnique
  OBVIOUS
<1>1. ASSUME NEW k \in Calls, NEW q \in ClientQPs, Connect(k,
        q) PROVE EndPointsUnique'
  BY <1>1, <1>e, <1>y, Sides, PointEnters DEF Connect
<1>2. ASSUME NEW k \in Calls, AcceptA(k) PROVE EndPointsUnique'
  BY <1>2, <1>e, <1>y, Sides, PointsGone, PointsKept DEF AcceptA, ToTimewait,
      cepVars
<1>3. ASSUME NEW k \in Calls, RejectA(k) PROVE EndPointsUnique'
  BY <1>3, <1>e, <1>y, Sides, PointsGone, PointsKept DEF RejectA, ToTimewait,
      cepVars
<1>4. ASSUME NEW k \in Calls, CancelA(k) PROVE EndPointsUnique'
  BY <1>4, <1>e, <1>y, Sides, PointsGone, PointsKept DEF CancelA, ToTimewait,
      cepVars
<1>5. CASE Listen
  BY <1>5, <1>e, <1>y, Sides, PointsGone, PointsKept DEF Listen, ToTimewait,
      cepVars
<1>6. CASE RejectP
  BY <1>6, <1>e, <1>y, <1>h, Sides, PointsGone DEF RejectP
<1>7. CASE CancelListen
  <2>1. \A o \in Ceps : /\ qp'[o] = qp[o] \/ qp'[o] = None
                        /\ remote'[o] = remote[o] \/ remote'[o] = None
    BY <1>7 DEF CancelListen
  <2> QED
    BY <2>1, <1>e, Sides DEF EndPointsUnique
<1>8. ASSUME NEW q \in ServerQPs, AcceptP(q) PROVE EndPointsUnique'
  BY <1>8, <1>e, <1>y, <1>h, Sides, PointEnters DEF AcceptP
<1>9. ASSUME NEW p \in Answers, CancelP(p) PROVE EndPointsUnique'
  BY <1>9, <1>e, <1>y, Sides, PointsGone, PointsKept DEF CancelP, ToTimewait,
      cepVars
<1>10. ASSUME NEW p \in Answers, CommEstablished(p) PROVE EndPointsUnique'
  BY <1>10, <1>e, <1>y, Sides, PointsGone, PointsKept DEF CommEstablished,
      BecomeEstablished, ToTimewait, cepVars
<1>11. ASSUME NEW n \in Ceps, Disconnect(n) PROVE EndPointsUnique'
  BY <1>11, <1>e, <1>y, Sides, PointsGone, PointsKept DEF Disconnect,
      DisconnectA, ToTimewait, cepVars
<1>12. ASSUME NEW n \in Ceps, Destroy(n) PROVE EndPointsUnique'
  BY <1>12, <1>e, <1>y, Sides, PointsGone, PointsKept DEF Destroy,
      DisconnectA, ToTimewait, cepVars
<1>13. ASSUME NEW n \in Ceps, ReqTimeout(n) PROVE EndPointsUnique'
  BY <1>13, <1>e, <1>y, Sides, PointsGone, PointsKept DEF ReqTimeout,
      ToTimewait, cepVars
<1>14. ASSUME NEW n \in Ceps, RepTimeout(n) PROVE EndPointsUnique'
  BY <1>14, <1>e, <1>y, Sides, PointsGone, PointsKept DEF RepTimeout,
      ToTimewait, cepVars
<1>15. ASSUME NEW n \in Ceps, DreqTimeout(n) PROVE EndPointsUnique'
  BY <1>15, <1>e, <1>y, Sides, PointsGone, PointsKept DEF DreqTimeout,
      ToTimewait, cepVars
<1>16. ASSUME NEW n \in Ceps, TimewaitOver(n) PROVE EndPointsUnique'
  BY <1>16, <1>e, <1>y, Sides, PointsGone, PointsKept DEF TimewaitOver,
      ToTimewait, cepVars
<1>17. ASSUME NEW m \in net, m.type = "REQ", RefuseReq(m) PROVE EndPointsUnique'
  BY <1>17, <1>e, <1>y, Sides, PointsGone, PointsKept DEF RefuseReq,
      ToTimewait, cepVars
<1>18. ASSUME NEW m \in net, NEW p \in Answers, m.type = "REQ", TakeReq(m,
        p) PROVE EndPointsUnique'
  BY <1>18, <1>e, <1>y, Sides, RemoteEnters DEF TakeReq, Known
<1>19. ASSUME NEW m \in net, NEW p \in Answers, m.type = "REQ", DupReq(m,
        p) PROVE EndPointsUnique'
  BY <1>19, <1>e, <1>y, Sides, PointsGone, PointsKept DEF DupReq, ToTimewait,
      cepVars
<1>20. ASSUME NEW m \in net, NEW p \in Answers, m.type = "REQ", StaleReq(m,
        p) PROVE EndPointsUnique'
  BY <1>20, <1>e, <1>y, Sides, PointsGone, PointsKept DEF StaleReq,
      ToTimewait, cepVars
<1>21. ASSUME NEW m \in net, RcvMraReq(m) PROVE EndPointsUnique'
  BY <1>21, <1>e, <1>y, <1>r, PointsGone, PointsKept DEF RcvMraReq, Discard,
      ToTimewait, cepVars
<1>22. ASSUME NEW m \in net, m.type = "REP", TakeRep(m,
        m.to) PROVE EndPointsUnique'
  <2>1. m.to \in Calls
    BY <1>22, Receivers
  <2> QED
    BY <1>22, <1>e, <1>y, <2>1, Sides, RemoteEnters DEF TakeRep
<1>23. ASSUME NEW m \in net, m.type = "REP", StaleRep(m,
        m.to) PROVE EndPointsUnique'
  BY <1>23, <1>e, <1>y, Sides, PointsGone, PointsKept DEF StaleRep,
      ToTimewait, cepVars
<1>24. ASSUME NEW m \in net, m.type = "REP", DupRep(m,
        m.to) PROVE EndPointsUnique'
  BY <1>24, <1>e, <1>y, <1>r, PointsGone, PointsKept DEF DupRep, ToTimewait,
      cepVars
<1>25. ASSUME NEW m \in net, RcvMraRep(m) PROVE EndPointsUnique'
  BY <1>25, <1>e, <1>y, <1>r, PointsGone, PointsKept DEF RcvMraRep, Discard,
      ToTimewait, cepVars
<1>26. ASSUME NEW m \in net, RcvRtu(m) PROVE EndPointsUnique'
  BY <1>26, <1>e, <1>y, <1>r, PointsGone, PointsKept DEF RcvRtu,
      BecomeEstablished, Discard, ToTimewait, cepVars
<1>27. ASSUME NEW m \in net, RcvRejReq(m) PROVE EndPointsUnique'
  BY <1>27, <1>e, <1>y, <1>r, PointsGone, PointsKept DEF RcvRejReq, Discard,
      ToTimewait, cepVars
<1>28. ASSUME NEW m \in net, RcvRejRep(m) PROVE EndPointsUnique'
  BY <1>28, <1>e, <1>y, <1>r, PointsGone, PointsKept DEF RcvRejRep, Discard,
      ToTimewait, cepVars
<1>29. ASSUME NEW m \in net, RcvDreq(m) PROVE EndPointsUnique'
  BY <1>29, <1>e, <1>y, <1>r, PointsGone, PointsKept DEF RcvDreq, CrossedDreq,
      Discard, ToTimewait, cepVars
<1>30. ASSUME NEW m \in net, RcvDrep(m) PROVE EndPointsUnique'
  BY <1>30, <1>e, <1>y, <1>r, PointsGone, PointsKept DEF RcvDrep, Discard,
      ToTimewait, cepVars
<1> QED BY <1>1, <1>2, <1>3, <1>4, <1>5, <1>6, <1>7, <1>8, <1>9, <1>10, <1>11,
          <1>12, <1>13, <1>14, <1>15, <1>16, <1>17, <1>18, <1>19, <1>20,
          <1>21, <1>22, <1>23, <1>24, <1>25, <1>26, <1>27, <1>28, <1>29,
          <1>30 DEF Next, Receive, RcvReq, RcvRep, Timeout

\* No queue pair is in two connections of its node: what iba_cm_connect,
\* iba_cm_accept, ProcessReq and ProcessRep look up in the maps of end points
\* is enough, whatever repeats, and whatever is cancelled or timed out.
THEOREM EndPointsAlwaysUnique == Spec => []EndPointsUnique
<1>1. Init => EndPointsUnique
  BY Sides DEF Init, EndPointsUnique
<1>2. ASSUME Inv, EndPointsUnique, [Next]_vars PROVE EndPointsUnique'
  <2>1. CASE Next
    BY <1>2, <2>1, PointsStep
  <2>2. CASE UNCHANGED vars
    BY <1>2, <2>2, PointsKept DEF vars, cepVars
  <2> QED
    BY <1>2, <2>1, <2>2
<1> QED
  BY <1>1, <1>2, Invariant, PTL DEF Spec

-----------------------------------------------------------------------------
(* The rendezvous. *)

LEMMA CallPhases ==
  /\ CallPhase("UNUSED") = "none"
  /\ \A s \in Calling \cup Offered : CallPhase(s) = "calling"
  /\ CallPhase("ESTABLISHED") = "open"
  /\ \A s \in Disconnecting \cup {"TIMEWAIT", "IDLE"} : CallPhase(s) = "closed"
  /\ \A s : s # "UNUSED" => CallPhase(s) # "none"
BY DEF CallPhase, Calling, Offered, Disconnecting

LEMMA AnswerPhases ==
  /\ AnswerPhase("UNUSED") = "none"
  /\ \A s \in Ringing \cup Replied : AnswerPhase(s) = "ringing"
  /\ AnswerPhase("ESTABLISHED") = "open"
  /\ \A s \in Disconnecting \cup {"TIMEWAIT",
          "IDLE"} : AnswerPhase(s) = "closed"
BY DEF AnswerPhase, Ringing, Replied, Disconnecting

Caller == [p \in Answers |-> peer[p]]
Stutter == UNCHANGED Rendezvous!vars
Same == UNCHANGED <<Caller, met>>

LEMMA StuttersNone ==
  ASSUME UNCHANGED state, Same
  PROVE  Stutter
BY DEF Stutter, Same, Caller, Rendezvous!vars

LEMMA OneMoves ==
  ASSUME StatesOK, NEW n \in Ceps, NEW s, To(n, s)
  PROVE  \A o \in Ceps : state'[o] = IF o = n THEN s ELSE state[o]
BY DEF StatesOK, To

LEMMA StuttersTo ==
  ASSUME StatesOK, NEW n \in Ceps, NEW s, To(n, s), Same,
         n \in Calls => CallPhase(s) = CallPhase(state[n]),
         n \in Answers => AnswerPhase(s) = AnswerPhase(state[n])
  PROVE  Stutter
<1>1. \A o \in Ceps : state'[o] = IF o = n THEN s ELSE state[o]
  BY OneMoves
<1>2. \A k \in Calls : CallPhase(state'[k]) = CallPhase(state[k])
  BY <1>1, Sides
<1>3. \A p \in Answers : AnswerPhase(state'[p]) = AnswerPhase(state[p])
  BY <1>1, Sides
<1> QED
  BY <1>2, <1>3 DEF Stutter, Same, Caller, Rendezvous!vars

\* What one CEP's move looks like from above.
LEMMA CallMoves ==
  ASSUME StatesOK, NEW k \in Calls, NEW s, To(k, s)
  PROVE  /\ [o \in Calls |-> CallPhase(state[o])]'
                = [[o \in Calls |-> CallPhase(state[o])] EXCEPT ![k] = CallPhase(s)]
         /\ UNCHANGED [p \in Answers |-> AnswerPhase(state[p])]
<1>1. \A o \in Ceps : state'[o] = IF o = k THEN s ELSE state[o]
  BY OneMoves, Sides
<1>2. \A o \in Calls : CallPhase(state'[o]) = IF o = k THEN CallPhase(s)
                                              ELSE CallPhase(state[o])
  BY <1>1, Sides
<1>3. \A p \in Answers : AnswerPhase(state'[p]) = AnswerPhase(state[p])
  BY <1>1, Sides
<1> QED
  BY <1>2, <1>3

LEMMA AnswerMoves ==
  ASSUME StatesOK, NEW p \in Answers, NEW s, To(p, s)
  PROVE  /\ [o \in Answers |-> AnswerPhase(state[o])]'
                = [[o \in Answers |-> AnswerPhase(state[o])] EXCEPT ![p] = AnswerPhase(s)]
         /\ UNCHANGED [k \in Calls |-> CallPhase(state[k])]
<1>1. \A o \in Ceps : state'[o] = IF o = p THEN s ELSE state[o]
  BY OneMoves, Sides
<1>2. \A o \in Answers : AnswerPhase(state'[o]) = IF o = p THEN AnswerPhase(s)
                                                  ELSE AnswerPhase(state[o])
  BY <1>1, Sides
<1>3. \A k \in Calls : CallPhase(state'[k]) = CallPhase(state[k])
  BY <1>1, Sides
<1> QED
  BY <1>2, <1>3

Abstract == Stutter \/ Rendezvous!Next

LEMMA CallCloses ==
  ASSUME StatesOK, NEW k \in Calls, NEW s, To(k, s), Same,
         CallPhase(s) = "closed", CallPhase(state[k]) \in {"calling", "open"}
  PROVE  Abstract
<1>1. Rendezvous!CloseCall(k)
  BY CallMoves DEF Same, Caller, Rendezvous!CloseCall
<1> QED
  BY <1>1 DEF Abstract, Rendezvous!Next

LEMMA AnswerCloses ==
  ASSUME StatesOK, NEW p \in Answers, NEW s, To(p, s), Same,
         AnswerPhase(s) = "closed", AnswerPhase(state[p]) \in {"ringing",
                 "open"}
  PROVE  Abstract
<1>1. Rendezvous!CloseAnswers({p})
  <2>1. \A o \in Ceps : state'[o] = IF o = p THEN s ELSE state[o]
    BY OneMoves, Sides
  <2>2. \A o \in Answers : AnswerPhase(state'[o]) = IF o \in {p} THEN "closed"
                                                    ELSE AnswerPhase(state[o])
    BY <2>1, Sides
  <2>3. \A k \in Calls : CallPhase(state'[k]) = CallPhase(state[k])
    BY <2>1, Sides
  <2> QED
    BY <2>2, <2>3 DEF Same, Caller, Rendezvous!CloseAnswers
<1>2. {p} \in SUBSET Answers
  OBVIOUS
<1> QED
  BY <1>1, <1>2 DEF Abstract, Rendezvous!Next

LEMMA AnswerOpens ==
  ASSUME StatesOK, NEW p \in Answers, To(p, "ESTABLISHED"), Same,
         state[p] \in Replied, <<peer[p], p>> \in met
  PROVE  Abstract
<1>1. Rendezvous!Confirm(p)
  BY AnswerMoves, AnswerPhases DEF Same, Caller, Rendezvous!Confirm
<1> QED
  BY <1>1 DEF Abstract, Rendezvous!Next

LEMMA RendezvousStep ==
  ASSUME Inv, Next
  PROVE  Abstract
<1>y. StatesOK /\ CepsOK
  BY DEF Inv, TypeOK
<1>h. pending # <<>> => Head(pending) \in Answers /\ state[Head(pending)] \in Ringing
  BY HeadRings
<1>r. \A m \in net : m.type # "REQ" => m.to \in Ceps
  BY Receivers, Sides DEF Messages, Types
<1>m. \A m \in net : MailOK(m)
  BY DEF Inv, NetOK
<1>1. ASSUME NEW k \in Calls, NEW q \in ClientQPs, Connect(k, q) PROVE Abstract
  <2>1. Rendezvous!Place(k)
    BY <1>1, <1>y, CallMoves, CallPhases DEF Connect, Rendezvous!Place, Calling
  <2> QED
    BY <2>1 DEF Abstract, Rendezvous!Next
<1>2. ASSUME NEW k \in Calls, AcceptA(k) PROVE Abstract
  <2>1. peer[k] \in Answers /\ peer[peer[k]] = k
    BY <1>2, PeersKnown, Sides DEF AcceptA, Inv, PeerOK
  <2>2. Rendezvous!Meet(k, peer[k])
    BY <1>2, <1>y, <2>1, CallMoves, CallPhases DEF AcceptA, Rendezvous!Meet
  <2> QED
    BY <2>1, <2>2 DEF Abstract, Rendezvous!Next
<1>3. ASSUME NEW k \in Calls, RejectA(k) PROVE Abstract
  BY <1>3, <1>y, CallPhases, CallCloses DEF RejectA, ToIdle, ToTimewait,
      cepVars, Calling, Replied, Offered, Ringing, Disconnecting, Same,
      Caller, Abstract
<1>4. ASSUME NEW k \in Calls, CancelA(k) PROVE Abstract
  BY <1>4, <1>y, CallPhases, CallCloses DEF CancelA, ToIdle, ToTimewait,
      cepVars, Calling, Replied, Offered, Ringing, Disconnecting, Same,
      Caller, Abstract
<1>5. CASE Listen
  BY <1>5, StuttersNone DEF Listen, ToIdle, ToTimewait, cepVars, Calling,
      Replied, Offered, Ringing, Disconnecting, Same, Caller, Abstract
<1>6. CASE RejectP
  BY <1>6, <1>y, <1>h, Sides, AnswerPhases, AnswerCloses DEF RejectP, ToIdle,
      ToTimewait, cepVars, Calling, Replied, Offered, Ringing, Disconnecting,
      Same, Caller, Abstract
<1>7. CASE CancelListen
  <2> DEFINE gone == {p \in Answers : state[p] \in Ringing}
  <2>1. \A p \in Answers : AnswerPhase(state'[p]) = IF p \in gone THEN "closed"
                                                    ELSE AnswerPhase(state[p])
    BY <1>7, Sides, AnswerPhases DEF CancelListen
  <2>2. \A k \in Calls : state'[k] = state[k]
    BY <1>7, Sides DEF CancelListen
  <2>3. \A p \in gone : AnswerPhase(state[p]) = "ringing"
    BY AnswerPhases
  <2>4. UNCHANGED <<Caller, met>>
    BY <1>7 DEF CancelListen, Caller
  <2>5. Rendezvous!CloseAnswers(gone)
    BY <2>1, <2>2, <2>3, <2>4 DEF Caller, Rendezvous!CloseAnswers
  <2>6. gone \in SUBSET Answers
    OBVIOUS
  <2> QED
    BY <2>5, <2>6 DEF Abstract, Rendezvous!Next
<1>8. ASSUME NEW q \in ServerQPs, AcceptP(q) PROVE Abstract
  BY <1>8, <1>y, <1>h, Sides, AnswerPhases, StuttersTo DEF AcceptP, ToIdle,
      ToTimewait, cepVars, Calling, Replied, Offered, Ringing, Disconnecting,
      Same, Caller, Abstract
<1>9. ASSUME NEW p \in Answers, CancelP(p) PROVE Abstract
  BY <1>9, <1>y, AnswerPhases, AnswerCloses DEF CancelP, ToIdle, ToTimewait,
      cepVars, Calling, Replied, Offered, Ringing, Disconnecting, Same,
      Caller, Abstract
<1>10. ASSUME NEW p \in Answers, CommEstablished(p) PROVE Abstract
  <2>1. PICK k \in Calls : state[k] \in Connected /\ peer[k] = p
    BY <1>10 DEF CommEstablished, Connected, Disconnecting
  <2>2. <<k, p>> \in met /\ peer[p] = k
    BY <2>1 DEF Inv, PartnersAgree, Connected
  <2> QED
    BY <1>10, <2>2, <1>y, AnswerOpens
    DEF CommEstablished, BecomeEstablished, Same, Caller
<1>11. ASSUME NEW n \in Ceps, Disconnect(n) PROVE Abstract
  BY <1>11, <1>y, Sides, CallPhases, AnswerPhases, StuttersTo, StuttersNone,
      CallCloses, AnswerCloses DEF Disconnect, DisconnectA, ToIdle,
      ToTimewait, cepVars, Calling, Replied, Offered, Ringing, Disconnecting,
      Same, Caller, Abstract
<1>12. ASSUME NEW n \in Ceps, Destroy(n) PROVE Abstract
  BY <1>12, <1>y, Sides, CallPhases, AnswerPhases, StuttersTo, StuttersNone,
      CallCloses, AnswerCloses DEF Destroy, DisconnectA, ToIdle, ToTimewait,
      cepVars, Calling, Replied, Offered, Ringing, Disconnecting, Same,
      Caller, Abstract
<1>13. ASSUME NEW n \in Ceps, ReqTimeout(n) PROVE Abstract
  <2>1. n \in Calls /\ Same
    BY <1>13, <1>y, Sides DEF ReqTimeout, StatesOK, Calling, AnswerStates,
        Ceps, Same, Caller
  <2> QED
    BY <1>13, <1>y, <2>1, Sides, CallPhases, StuttersTo, CallCloses
    DEF ReqTimeout, ToIdle, Calling, Abstract
<1>14. ASSUME NEW n \in Ceps, RepTimeout(n) PROVE Abstract
  <2>1. n \in Answers /\ Same
    BY <1>14, <1>y, Sides DEF RepTimeout, StatesOK, Replied, CallStates, Ceps,
        Same, Caller
  <2> QED
    BY <1>14, <1>y, <2>1, Sides, AnswerPhases, StuttersTo, AnswerCloses
    DEF RepTimeout, ToTimewait, Replied, Abstract
<1>15. ASSUME NEW n \in Ceps, DreqTimeout(n) PROVE Abstract
  BY <1>15, <1>y, Sides, CallPhases, AnswerPhases, StuttersTo, StuttersNone,
      CallCloses, AnswerCloses DEF DreqTimeout, ToIdle, ToTimewait, cepVars,
      Calling, Replied, Offered, Ringing, Disconnecting, Same, Caller,
      Abstract
<1>16. ASSUME NEW n \in Ceps, TimewaitOver(n) PROVE Abstract
  BY <1>16, <1>y, Sides, CallPhases, AnswerPhases, StuttersTo, StuttersNone,
      CallCloses, AnswerCloses DEF TimewaitOver, ToIdle, ToTimewait, cepVars,
      Calling, Replied, Offered, Ringing, Disconnecting, Same, Caller,
      Abstract
<1>17. ASSUME NEW m \in net, m.type = "REQ", RefuseReq(m) PROVE Abstract
  BY <1>17, StuttersNone DEF RefuseReq, ToIdle, ToTimewait, cepVars, Calling,
      Replied, Offered, Ringing, Disconnecting, Same, Caller, Abstract
<1>18. ASSUME NEW m \in net, NEW p \in Answers, m.type = "REQ", TakeReq(m,
        p) PROVE Abstract
  <2>1. m.from \in Calls /\ state[m.from] # "UNUSED"
    BY <1>18, <1>m DEF MailOK
  <2>2. PICK s \in Ringing : To(p, s)
    BY <1>18 DEF TakeReq, Ringing
  <2>3. Caller' = [Caller EXCEPT ![p] = m.from]
    BY <1>18, <1>y, Sides DEF TakeReq, Caller, CepsOK
  <2>4. Rendezvous!Ring(p, m.from)
    BY <1>18, <1>y, <2>1, <2>2, <2>3, AnswerMoves, AnswerPhases, CallPhases
    DEF TakeReq, Caller, Rendezvous!Ring
  <2> QED
    BY <2>1, <2>4 DEF Abstract, Rendezvous!Next
<1>19. ASSUME NEW m \in net, NEW p \in Answers, m.type = "REQ", DupReq(m,
        p) PROVE Abstract
  BY <1>19, <1>y, Sides, AnswerPhases, StuttersTo, StuttersNone,
      AnswerCloses DEF DupReq, ToIdle, ToTimewait, cepVars, Calling, Replied,
      Offered, Ringing, Disconnecting, Same, Caller, Abstract
<1>20. ASSUME NEW m \in net, NEW p \in Answers, m.type = "REQ", StaleReq(m,
        p) PROVE Abstract
  BY <1>20, <1>y, Sides, AnswerPhases, StuttersTo, StuttersNone,
      AnswerCloses DEF StaleReq, ToIdle, ToTimewait, cepVars, Calling,
      Replied, Offered, Ringing, Disconnecting, Same, Caller, Abstract
<1>21. ASSUME NEW m \in net, RcvMraReq(m) PROVE Abstract
  <2>1. Same
    BY <1>21, <1>y, Receivers, Sides DEF RcvMraReq, Discard, cepVars, Same,
        Caller, CepsOK
  <2> QED
    BY <1>21, <1>y, <2>1, Receivers, Sides, CallPhases, StuttersTo, StuttersNone
    DEF RcvMraReq, Discard, cepVars, Calling, Abstract
<1>22. ASSUME NEW m \in net, m.type = "REP", TakeRep(m, m.to) PROVE Abstract
  <2>1. Same
    BY <1>22, <1>y, Receivers, Sides DEF TakeRep, Same, Caller, CepsOK
  <2> QED
    BY <1>22, <1>y, <2>1, Receivers, Sides, CallPhases, StuttersTo
    DEF TakeRep, Offered, Abstract
<1>23. ASSUME NEW m \in net, m.type = "REP", StaleRep(m, m.to) PROVE Abstract
  BY <1>23, StuttersNone DEF StaleRep, ToIdle, ToTimewait, cepVars, Calling,
      Replied, Offered, Ringing, Disconnecting, Same, Caller, Abstract
<1>24. ASSUME NEW m \in net, m.type = "REP", DupRep(m, m.to) PROVE Abstract
  BY <1>24, <1>y, <1>r, Receivers, Sides, CallPhases, AnswerPhases,
      StuttersTo, StuttersNone, CallCloses, AnswerCloses DEF DupRep, ToIdle,
      ToTimewait, cepVars, Calling, Replied, Offered, Ringing, Disconnecting,
      Same, Caller, Abstract
<1>25. ASSUME NEW m \in net, RcvMraRep(m) PROVE Abstract
  BY <1>25, <1>y, <1>r, Receivers, Sides, CallPhases, AnswerPhases,
      StuttersTo, StuttersNone, CallCloses, AnswerCloses DEF RcvMraRep,
      Discard, ToIdle, ToTimewait, cepVars, Calling, Replied, Offered,
      Ringing, Disconnecting, Same, Caller, Abstract
<1>26. ASSUME NEW m \in net, RcvRtu(m) PROVE Abstract
  <2>1. m.type = "RTU" /\ m.to \in Answers /\ <<m.from, m.to>> \in met
    BY <1>26, <1>m, Receivers DEF RcvRtu, MailOK
  <2>2. peer[m.to] = m.from
    BY <2>1 DEF Inv, TypeOK, PartnersAgree
  <2> QED
    BY <1>26, <2>1, <2>2, <1>y, AnswerOpens, StuttersNone
    DEF RcvRtu, BecomeEstablished, Discard, cepVars, Same, Caller, Abstract
<1>27. ASSUME NEW m \in net, RcvRejReq(m) PROVE Abstract
  BY <1>27, <1>y, <1>r, Receivers, Sides, CallPhases, AnswerPhases,
      StuttersTo, StuttersNone, CallCloses, AnswerCloses DEF RcvRejReq,
      Discard, ToIdle, ToTimewait, cepVars, Calling, Replied, Offered,
      Ringing, Disconnecting, Same, Caller, Abstract
<1>28. ASSUME NEW m \in net, RcvRejRep(m) PROVE Abstract
  BY <1>28, <1>y, <1>r, Receivers, Sides, CallPhases, AnswerPhases,
      StuttersTo, StuttersNone, CallCloses, AnswerCloses DEF RcvRejRep,
      Discard, ToIdle, ToTimewait, cepVars, Calling, Replied, Offered,
      Ringing, Disconnecting, Same, Caller, Abstract
<1>29. ASSUME NEW m \in net, RcvDreq(m) PROVE Abstract
  BY <1>29, <1>y, <1>r, Receivers, Sides, CallPhases, AnswerPhases,
      StuttersTo, StuttersNone, CallCloses, AnswerCloses DEF RcvDreq,
      CrossedDreq, Discard, ToIdle, ToTimewait, cepVars, Calling, Replied,
      Offered, Ringing, Disconnecting, Same, Caller, Abstract
<1>30. ASSUME NEW m \in net, RcvDrep(m) PROVE Abstract
  BY <1>30, <1>y, <1>r, Receivers, Sides, CallPhases, AnswerPhases,
      StuttersTo, StuttersNone, CallCloses, AnswerCloses DEF RcvDrep, Discard,
      ToIdle, ToTimewait, cepVars, Calling, Replied, Offered, Ringing,
      Disconnecting, Same, Caller, Abstract
<1> QED BY <1>1, <1>2, <1>3, <1>4, <1>5, <1>6, <1>7, <1>8, <1>9, <1>10, <1>11,
          <1>12, <1>13, <1>14, <1>15, <1>16, <1>17, <1>18, <1>19, <1>20,
          <1>21, <1>22, <1>23, <1>24, <1>25, <1>26, <1>27, <1>28, <1>29,
          <1>30 DEF Next, Receive, RcvReq, RcvRep, Timeout

LEMMA RendezvousInit ==
  ASSUME Init
  PROVE  Rendezvous!Init
<1>1. \A n \in Ceps : state[n] = "UNUSED" /\ peer[n] = None
  BY DEF Init
<1>2. met = {}
  BY DEF Init
<1> QED
  BY <1>1, <1>2, Sides, CallPhases, AnswerPhases DEF Rendezvous!Init

LEMMA RendezvousNext ==
  ASSUME Inv, [Next]_vars
  PROVE  Stutter \/ Rendezvous!Next
<1>1. CASE Next
  BY <1>1, RendezvousStep DEF Abstract
<1>2. CASE UNCHANGED vars
  BY <1>2, StuttersNone DEF vars, cepVars, Same, Caller
<1> QED
  BY <1>1, <1>2

\* Whatever the network does, the handlers and timers of both nodes come to
\* calls that meet at most one answer each, servers that are connected only to
\* the client that accepted them, and nothing closed that opens again.
THEOREM Refinement == Spec => ImplementsRendezvous
<1>1. Inv /\ [Next]_vars => [Rendezvous!Next]_(Rendezvous!vars)
  BY RendezvousNext DEF Stutter
<1> QED
  BY <1>1, RendezvousInit, Invariant, PTL DEF Spec, ImplementsRendezvous,
      Rendezvous!Spec

\* What a step may do to the two sides of a call.
CallsGoOn ==
  \A k \in Calls :
    /\ CallPhase(state[k]) = "open" => CallPhase(state'[k]) \in {"open", "closed"}
    /\ CallPhase(state[k]) = "closed" => CallPhase(state'[k]) = "closed"

AnswersGoOn ==
  \A p \in Answers :
    /\ AnswerPhase(state[p]) = "open" => AnswerPhase(state'[p]) \in {"open", "closed"}
    /\ AnswerPhase(state[p]) = "closed" => AnswerPhase(state'[p]) = "closed"
    /\ AnswerPhase(state'[p]) = "open" => <<peer[p], p>> \in met

MeetsOnTime ==
  /\ met \subseteq met'
  /\ \A k \in Calls, p \in Answers :
       <<k, p>> \in met' \ met => CallPhase(state[k]) = "calling" /\ peer[p] = k

OneWay == CallsGoOn /\ AnswersGoOn /\ MeetsOnTime

\* A step of the rendezvous is one of these, for functions of any kind.
LEMMA RendezvousOneWay ==
  ASSUME TypeOK, PartnersAgree, Rendezvous!Next
  PROVE  OneWay
<1> DEFINE call   == [k \in Calls |-> CallPhase(state[k])]
           answer == [p \in Answers |-> AnswerPhase(state[p])]
<1>c. /\ \A k \in Calls : call[k] = CallPhase(state[k]) /\ call'[k] = CallPhase(state'[k])
      /\ DOMAIN call = Calls /\ DOMAIN call' = Calls
  OBVIOUS
<1>a. /\ \A p \in Answers : answer[p] = AnswerPhase(state[p]) /\ answer'[p] = AnswerPhase(state'[p])
      /\ DOMAIN answer = Answers /\ DOMAIN answer' = Answers
  OBVIOUS
<1>p. \A p \in Answers : Caller[p] = peer[p]
  BY DEF Caller
<1>o. \A p \in Answers : AnswerPhase(state[p]) = "open" => <<peer[p], p>> \in met
  <2> SUFFICES ASSUME NEW p \in Answers, AnswerPhase(state[p]) = "open"
               PROVE  state[p] = "ESTABLISHED"
    BY DEF PartnersAgree
  <2> QED
    BY DEF AnswerPhase
<1>1. ASSUME UNCHANGED <<answer, met>>,
             \E k \in Calls : \E s : call' = [call EXCEPT ![k] = s]
               /\ (call[k] = "open" => s \in {"open", "closed"})
               /\ (call[k] = "closed" => s = "closed")
      PROVE  OneWay
  <2> HIDE DEF call, answer
  <2>1. CallsGoOn
    BY <1>1, <1>c DEF CallsGoOn
  <2>2. AnswersGoOn
    BY <1>1, <1>a, <1>o DEF AnswersGoOn
  <2> QED
    BY <1>1, <2>1, <2>2 DEF OneWay, MeetsOnTime
<1>2. ASSUME UNCHANGED <<call, met>>,
             \A p \in Answers :
               /\ answer[p] = "open" => answer'[p] \in {"open", "closed"}
               /\ answer[p] = "closed" => answer'[p] = "closed"
               /\ answer'[p] = "open" => answer[p] = "open" \/ <<peer[p], p>> \in met
      PROVE  OneWay
  <2> HIDE DEF call, answer
  <2>1. CallsGoOn
    BY <1>2, <1>c DEF CallsGoOn
  <2>2. AnswersGoOn
    BY <1>2, <1>a, <1>o DEF AnswersGoOn
  <2> QED
    BY <1>2, <2>1, <2>2 DEF OneWay, MeetsOnTime
<1>3. ASSUME NEW k \in Calls, Rendezvous!Place(k) PROVE OneWay
  BY <1>1, <1>3 DEF Rendezvous!Place
<1>4. ASSUME NEW k \in Calls, Rendezvous!CloseCall(k) PROVE OneWay
  BY <1>1, <1>4 DEF Rendezvous!CloseCall
<1>5. ASSUME NEW p \in Answers, Rendezvous!Confirm(p) PROVE OneWay
  <2>1. UNCHANGED <<call, met>> /\ answer' = [answer EXCEPT ![p] = "open"]
        /\ answer[p] = "ringing" /\ <<peer[p], p>> \in met
    BY <1>5, <1>p DEF Rendezvous!Confirm
  <2> HIDE DEF call, answer
  <2> QED
    BY <1>2, <1>a, <2>1
<1>6. ASSUME NEW p \in Answers, NEW k \in Calls, Rendezvous!Ring(p, k) PROVE OneWay
  <2>1. UNCHANGED <<call, met>> /\ answer' = [answer EXCEPT ![p] = "ringing"]
        /\ answer[p] = "none"
    BY <1>6 DEF Rendezvous!Ring
  <2> HIDE DEF call, answer
  <2> QED
    BY <1>2, <1>a, <2>1
<1>7. ASSUME NEW p \in Answers, NEW k \in Calls, Rendezvous!Meet(k, p) PROVE OneWay
  <2>1. /\ call[k] = "calling" /\ peer[p] = k
        /\ call' = [call EXCEPT ![k] = "open"]
        /\ met' = met \cup {<<k, p>>} /\ UNCHANGED answer
    BY <1>7, <1>p DEF Rendezvous!Meet
  <2> HIDE DEF call, answer
  <2>2. CallsGoOn
    BY <1>c, <2>1 DEF CallsGoOn
  <2>3. AnswersGoOn
    BY <1>a, <1>o, <2>1 DEF AnswersGoOn
  <2>4. MeetsOnTime
    BY <1>c, <2>1 DEF MeetsOnTime
  <2> QED
    BY <2>2, <2>3, <2>4 DEF OneWay
<1>8. ASSUME NEW S \in SUBSET Answers, Rendezvous!CloseAnswers(S) PROVE OneWay
  <2>1. /\ UNCHANGED <<call, met>>
        /\ \A p \in S : answer[p] \in {"ringing", "open"}
        /\ answer' = [p \in Answers |-> IF p \in S THEN "closed" ELSE answer[p]]
    BY <1>8 DEF Rendezvous!CloseAnswers
  <2> HIDE DEF call, answer
  <2> QED
    BY <1>2, <1>a, <2>1
<1> QED
  BY <1>3, <1>4, <1>5, <1>6, <1>7, <1>8 DEF Rendezvous!Next

\* What the rendezvous comes to for the CEPs themselves: an established or
\* closed side never goes back to calling or ringing, a client meets an answer
\* only while its call is waiting and only one made for it, which is then
\* never unmade, and a server is established only after its own caller has
\* accepted it. It holds although IDs and queue pairs are used again and a
\* message of an earlier time may come at any moment.
THEOREM NothingReopens == Spec => [][OneWay]_vars
<1>1. Inv /\ [Next]_vars => [OneWay]_vars
  <2> SUFFICES ASSUME Inv, Next PROVE OneWay \/ UNCHANGED vars
    OBVIOUS
  <2>0. TypeOK /\ PartnersAgree
    BY DEF Inv
  <2>1. CASE Rendezvous!Next
    BY <2>0, <2>1, RendezvousOneWay
  <2>2. CASE Stutter
    <3>1. UNCHANGED met
      BY <2>2 DEF Stutter, Rendezvous!vars
    <3>2. \A k \in Calls : CallPhase(state'[k]) = CallPhase(state[k])
      <4> SUFFICES ASSUME NEW k \in Calls
                   PROVE  CallPhase(state'[k]) = CallPhase(state[k])
        OBVIOUS
      <4>1. [o \in Calls |-> CallPhase(state'[o])] = [o \in Calls |-> CallPhase(state[o])]
        BY <2>2 DEF Stutter, Rendezvous!vars
      <4> QED
        BY <4>1
    <3>3. \A p \in Answers : AnswerPhase(state'[p]) = AnswerPhase(state[p])
      <4> SUFFICES ASSUME NEW p \in Answers
                   PROVE  AnswerPhase(state'[p]) = AnswerPhase(state[p])
        OBVIOUS
      <4>1. [o \in Answers |-> AnswerPhase(state'[o])] = [o \in Answers |-> AnswerPhase(state[o])]
        BY <2>2 DEF Stutter, Rendezvous!vars
      <4> QED
        BY <4>1
    <3>4. \A p \in Answers : AnswerPhase(state[p]) = "open" => <<peer[p], p>> \in met
      BY <2>0 DEF PartnersAgree, AnswerPhase
    <3> QED
      BY <3>1, <3>2, <3>3, <3>4 DEF OneWay, CallsGoOn, AnswersGoOn, MeetsOnTime
  <2> QED
    BY <2>1, <2>2, RendezvousNext
<1> QED
  BY <1>1, Invariant, PTL DEF Spec
=============================================================================
