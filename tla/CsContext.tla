----------------------------- MODULE CsContext ------------------------------
(***************************************************************************)
(* The pool of contexts for reliable requests (Esm/ib/src/cs/cs_context.c).*)
(* A context holds a request until it is answered or given up. Threads get *)
(* a context, waiting for one if need be, and send; one thread hands the   *)
(* answers in, one ages the requests and sends again, and completions are  *)
(* told by a call-back, which may issue the next request, or by a queue    *)
(* that a poller reads.                                                    *)
(*                                                                         *)
(* A request stands for its lid and tid. Retries are not stepped. What is  *)
(* done under the lock is one step, except for an ageing pass, which takes *)
(* the time once and keeps the lock from entry to entry.                   *)
(***************************************************************************)
EXTENDS Integers, Sequences, FiniteSets

CONSTANTS Entries,       \* the pool
          Requests, Polled, \* requests; those that go to the resp_queue
          Users,         \* threads that wait for a context
          Early,         \* requests hashed by cs_cntxt_get: those given a mad
          Depth,         \* hashTableDepth
          BucketOf,      \* the bucket of the lid of a request
          MaxRetries,    \* maxRetries
          Timeout,       \* defaultTimeout in ticks
          TimeoutAdder,  \* timeoutAdder in ticks
          MaxLag,        \* bound on the ticks that an ageing pass takes
          None           \* no request, no entry

ASSUME ConstantsAssumption ==
  /\ Polled \cup Early \subseteq Requests /\ None \notin Requests \cup Entries
  /\ Depth \in Nat \ {0} /\ BucketOf \in [Requests -> 0..Depth - 1]
  /\ MaxRetries \in Nat \ {0} /\ Timeout \in Nat \ {0}
  /\ TimeoutAdder \in Nat /\ MaxLag \in Nat
  /\ IsFiniteSet(Entries) /\ IsFiniteSet(Users)

VARIABLES
  errorOnSendFail, \* a field the user of the pool sets
  entry,      \* the contexts
  free_list,  \* those that are free
  numWaiters, \* waiters that a retired context is to wake
  sema,       \* freeContextWaitSema
  resp_queue, \* completed requests of the poller
  pass,       \* the bucket the ageing pass is at, Depth if there is no pass
  todo,       \* entries of that bucket it has yet to look at
  lag,        \* ticks since it took the time
  user,       \* what each user is at
  reading,    \* the entry the poller has taken off the queue
  sent,       \* requests sent, which may be answered at any time, also twice
  outcome     \* what has become of each request

poolVars == <<free_list, numWaiters, sema>>
passVars == <<pass, todo, lag>>
vars == <<errorOnSendFail, entry, poolVars, resp_queue, passVars, user, reading, sent, outcome>>

Blank == [mad |-> None, hashed |-> FALSE, sendFailed |-> FALSE, retries |-> 0, age |-> 0]
Idle == [pc |-> "idle", req |-> None, ent |-> None]

Unlocked == pass = Depth
Done == {"answered", "failed"}
MaxAge == Timeout + TimeoutAdder + MaxLag
Hashed(b) == {e \in Entries : entry[e].hashed /\ BucketOf[entry[e].mad] = b}

-----------------------------------------------------------------------------
(* Entries: cntxt_reserve, cs_cntxt_send_mad_nolock, cs_cntxt_retire_nolock. *)

\* Mutant: an attempt that fails is not counted.
AttemptedUncounted(x, ok) ==
  [x EXCEPT !.hashed = TRUE, !.sendFailed = ~ok, !.retries = IF ok THEN @ + 1 ELSE @]

Reserved(r) == [Blank EXCEPT !.mad = r, !.hashed = TRUE]

\* An entry after an attempt to send its request.
Attempted(x, ok) == [x EXCEPT !.hashed = TRUE, !.sendFailed = ~ok, !.retries = @ + 1]

OnItsWay(r, ok) == sent' = IF ok THEN sent \cup {r} ELSE sent

\* Mutant: the waiter that is woken stays counted.
WakeUncounted ==
  IF numWaiters > 0
  THEN sema' = sema + 1 /\ UNCHANGED numWaiters
  ELSE UNCHANGED <<numWaiters, sema>>

\* A waiter is woken for the entry that has become free.
Wake ==
  IF numWaiters > 0
  THEN numWaiters' = numWaiters - 1 /\ sema' = sema + 1
  ELSE UNCHANGED <<numWaiters, sema>>

Retire(e) == free_list' = free_list \cup {e} /\ Wake

-----------------------------------------------------------------------------
(* cntxt_release. The call-back is told under the lock, and may issue the    *)
(* next request.                                                             *)

Fresh == {r \in Requests \ Polled : outcome[r] = "new"}

\* cs_entxt_reuse_nolock and a send: the entry is not retired.
CallbackReuses(e, r, ok) ==
  /\ entry' = [entry EXCEPT ![e] = Attempted(Reserved(r), ok)]
  /\ OnItsWay(r, ok)
  /\ UNCHANGED poolVars

\* cs_cntxt_get_nolock, of another entry, or of any once this one is retired.
CallbackGets(e, f, r, ok) ==
  /\ f \in free_list \cup {e}
  /\ entry' = [entry EXCEPT ![e] = Blank, ![f] = Attempted(Reserved(r), ok)]
  /\ free_list' = (free_list \cup {e}) \ {f}
  /\ Wake
  /\ OnItsWay(r, ok)

\* cs_cntxt_send_mad_nolock of the same message: the entry is retired even so.
CallbackResends(e, ok) ==
  /\ entry' = [entry EXCEPT ![e] = Blank]
  /\ Retire(e)
  /\ OnItsWay(entry[e].mad, ok)

CallbackReturns(e) ==
  /\ entry' = [entry EXCEPT ![e] = Blank]
  /\ Retire(e)
  /\ UNCHANGED sent

\* The poller looks at nothing but the message of an entry in its queue.
Queue(e) ==
  /\ entry' = [entry EXCEPT ![e] = [Blank EXCEPT !.mad = entry[e].mad]]
  /\ resp_queue' = Append(resp_queue, e)
  /\ UNCHANGED sent
  /\ UNCHANGED poolVars

Release(e, result) ==
  LET q == entry[e].mad IN
  \/ /\ q \in Polled
     /\ Queue(e)
     /\ outcome' = [outcome EXCEPT ![q] = result]
  \/ /\ q \notin Polled
     /\ CallbackReturns(e) \/ \E ok \in BOOLEAN : CallbackResends(e, ok)
     /\ outcome' = [outcome EXCEPT ![q] = result]
     /\ UNCHANGED resp_queue
  \/ /\ q \notin Polled
     /\ \E r \in Fresh, ok \in BOOLEAN :
          /\ CallbackReuses(e, r, ok) \/ \E f \in Entries : CallbackGets(e, f, r, ok)
          /\ outcome' = [outcome EXCEPT ![q] = result, ![r] = "asked"]
     /\ UNCHANGED resp_queue

-----------------------------------------------------------------------------
(* cs_cntxt_timeout_entry, and the release that its callers do.              *)

Resend(e, age) ==
  \E ok \in BOOLEAN :
    IF ok \/ ~errorOnSendFail
    THEN /\ entry' = [entry EXCEPT ![e] = Attempted([entry[e] EXCEPT !.age = age], ok)]
         /\ OnItsWay(entry[e].mad, ok)
         /\ UNCHANGED <<poolVars, resp_queue, outcome>>
    ELSE Release(e, "failed")

\* Mutant: one attempt too many.
ExpireLate(e, age) ==
  IF entry[e].retries <= MaxRetries
  THEN Resend(e, age)
  ELSE Release(e, "failed")

Expire(e, age) ==
  IF entry[e].retries < MaxRetries
  THEN Resend(e, age)
  ELSE Release(e, "failed")

-----------------------------------------------------------------------------
(* cs_cntxt_age. The pass took the time lag ticks ago; an entry reserved     *)
(* since, in a bucket yet to come, makes the unsigned difference wrap.       *)

Expired(e) ==
  LET since == entry[e].age - lag
  IN  since < 0 \/ since >= Timeout + (IF entry[e].sendFailed THEN 0 ELSE TimeoutAdder)

StartPass ==
  /\ Unlocked
  /\ pass' = 0 /\ todo' = Hashed(0) /\ lag' = 0
  /\ UNCHANGED <<errorOnSendFail, entry, poolVars, resp_queue, user, reading, sent, outcome>>

\* In any order; what call-backs insert in this bucket is not looked at.
AgeEntry(e) ==
  /\ e \in todo /\ todo' = todo \ {e}
  /\ IF Expired(e) THEN Expire(e, lag)
     ELSE UNCHANGED <<entry, poolVars, resp_queue, sent, outcome>>
  /\ UNCHANGED <<errorOnSendFail, pass, lag, user, reading>>

NextBucket ==
  /\ pass < Depth /\ todo = {}
  /\ pass' = pass + 1
  /\ IF pass' = Depth THEN todo' = {} /\ lag' = 0 ELSE todo' = Hashed(pass') /\ UNCHANGED lag
  /\ UNCHANGED <<errorOnSendFail, entry, poolVars, resp_queue, user, reading, sent, outcome>>

AgeStep == StartPass \/ NextBucket \/ \E e \in Entries : AgeEntry(e)

\* Time passes, also between a get and the send.
Tick ==
  /\ Unlocked \/ lag < MaxLag
  /\ entry' = [e \in Entries |->
       IF entry[e].hashed /\ entry[e].age < MaxAge
       THEN [entry[e] EXCEPT !.age = @ + 1] ELSE entry[e]]
  /\ lag' = IF Unlocked THEN lag ELSE lag + 1
  /\ UNCHANGED <<errorOnSendFail, poolVars, resp_queue, pass, todo, user, reading, sent, outcome>>

-----------------------------------------------------------------------------
(* cs_cntxt_find_release, cs_cntxt_find_release_error: an answer, or word    *)
(* that a message was not answered; without an entry it is dropped.          *)

\* Mutant: the tid is not compared.
MatchesLid(e, r) == entry[e].hashed /\ BucketOf[entry[e].mad] = BucketOf[r]

Matches(e, r) == entry[e].hashed /\ entry[e].mad = r

Arrive(r) ==
  /\ Unlocked /\ r \in sent
  /\ UNCHANGED <<errorOnSendFail, passVars, user, reading>>

FindRelease(r) ==
  /\ Arrive(r)
  /\ \E e \in Entries : Matches(e, r) /\ Release(e, "answered")

FindReleaseError(r) ==
  /\ Arrive(r)
  /\ \E e \in Entries : Matches(e, r) /\ Expire(e, 0)

-----------------------------------------------------------------------------
(* A user: cs_cntxt_get_wait, then a send under the lock.                    *)

Asks(u, r) ==
  \/ user[u].pc = "idle" /\ r \in Fresh
  \/ user[u].pc = "getting" /\ user[u].req = r

\* Mutant: without a mad, too, the entry is put on a hash list at once.
GottenHashed(r) == Reserved(r)

\* An entry as cs_cntxt_get returns it: with a mad it is on its hash list, without
\* one the send will put it there.
Gotten(r) == IF r \in Early THEN Reserved(r) ELSE [Blank EXCEPT !.mad = r]

\* cs_cntxt_get with wait
Get(u, r) ==
  /\ Unlocked /\ Asks(u, r)
  /\ outcome' = [outcome EXCEPT ![r] = "asked"]
  /\ \/ /\ \E e \in free_list :
             /\ free_list' = free_list \ {e}
             /\ entry' = [entry EXCEPT ![e] = Gotten(r)]
             /\ user' = [user EXCEPT ![u] = [pc |-> "holding", req |-> r, ent |-> e]]
        /\ UNCHANGED numWaiters
     \/ /\ free_list = {}
        /\ numWaiters' = numWaiters + 1
        /\ user' = [user EXCEPT ![u] = [pc |-> "waiting", req |-> r, ent |-> None]]
        /\ UNCHANGED <<entry, free_list>>
  /\ UNCHANGED <<errorOnSendFail, sema, resp_queue, passVars, reading, sent>>

\* cs_psema
Wait(u) ==
  /\ user[u].pc = "waiting" /\ sema > 0
  /\ sema' = sema - 1
  /\ user' = [user EXCEPT ![u].pc = "getting"]
  /\ UNCHANGED <<errorOnSendFail, entry, free_list, numWaiters, resp_queue, passVars, reading,
                 sent, outcome>>

\* A send that fails is left to the time-outs, or the entry is retired. The code
\* does not look whether the entry is still the user's: one on a hash list may have
\* been sent, released and got by another meanwhile. What the send then does to
\* the links of the free list is not modelled.
Send(u) ==
  LET e == user[u].ent
      r == user[u].req
  IN
  /\ Unlocked /\ user[u].pc = "holding"
  /\ user' = [user EXCEPT ![u] = Idle]
  /\ \/ /\ \E ok \in BOOLEAN :
             /\ entry' = [entry EXCEPT ![e] = Attempted(entry[e], ok)]
             /\ OnItsWay(entry[e].mad, ok)
        /\ UNCHANGED <<poolVars, outcome>>
     \/ /\ entry' = [entry EXCEPT ![e] = Blank]
        /\ Retire(e)
        /\ outcome' = [outcome EXCEPT ![r] = "failed"]
        /\ UNCHANGED sent
  /\ UNCHANGED <<errorOnSendFail, resp_queue, passVars, reading>>

-----------------------------------------------------------------------------
(* The poller: senderWantsResponse and resp_queue. It does not wait.         *)

\* cs_cntxt_get_nolock and a send.
Submit(r) ==
  /\ Unlocked /\ r \in Polled /\ outcome[r] = "new"
  /\ outcome' = [outcome EXCEPT ![r] = "asked"]
  /\ \E e \in free_list, ok \in BOOLEAN :
       /\ free_list' = free_list \ {e}
       /\ entry' = [entry EXCEPT ![e] = Attempted(Reserved(r), ok)]
       /\ OnItsWay(r, ok)
  /\ UNCHANGED <<errorOnSendFail, numWaiters, sema, resp_queue, passVars, user, reading>>

Read ==
  /\ reading = None /\ resp_queue # <<>>
  /\ reading' = Head(resp_queue) /\ resp_queue' = Tail(resp_queue)
  /\ UNCHANGED <<errorOnSendFail, entry, poolVars, passVars, user, sent, outcome>>

\* cs_cntxt_retire
RetireRead ==
  /\ Unlocked /\ reading # None
  /\ reading' = None
  /\ entry' = [entry EXCEPT ![reading] = Blank]
  /\ Retire(reading)
  /\ UNCHANGED <<errorOnSendFail, resp_queue, passVars, user, sent, outcome>>

\* cs_entxt_reuse_nolock and a send.
ReuseRead(r) ==
  /\ Unlocked /\ reading # None
  /\ outcome[r] = "new"
  /\ outcome' = [outcome EXCEPT ![r] = "asked"]
  /\ reading' = None
  /\ \E ok \in BOOLEAN :
       /\ entry' = [entry EXCEPT ![reading] = Attempted(Reserved(r), ok)]
       /\ OnItsWay(r, ok)
  /\ UNCHANGED <<errorOnSendFail, poolVars, resp_queue, passVars, user>>

Poller == Read \/ RetireRead \/ \E r \in Requests : ReuseRead(r)

-----------------------------------------------------------------------------

\* cs_cntxt_instance_init
Init ==
  /\ errorOnSendFail \in BOOLEAN
  /\ entry = [e \in Entries |-> Blank]
  /\ free_list = Entries /\ numWaiters = 0 /\ sema = 0 /\ resp_queue = <<>>
  /\ pass = Depth /\ todo = {} /\ lag = 0
  /\ user = [u \in Users |-> Idle] /\ reading = None
  /\ sent = {}
  /\ outcome = [r \in Requests |-> "new"]

UserStep(u) == Wait(u) \/ Send(u) \/ \E r \in Requests : user[u].pc = "getting" /\ Get(u, r)

Next ==
  \/ AgeStep \/ Tick
  \/ \E r \in Requests : FindRelease(r) \/ FindReleaseError(r) \/ Submit(r)
  \/ \E u \in Users : Wait(u) \/ Send(u) \/ \E r \in Requests : Get(u, r)
  \/ Poller

\* Time passes, the pool is aged again and again, and each thread that wants
\* the lock gets it in the end. Whether a message is answered, and whether a
\* user asks for anything, is not up to the program.
Fairness ==
  /\ WF_vars(AgeStep) /\ WF_vars(Tick)
  /\ \A u \in Users : SF_vars(UserStep(u))
  /\ SF_vars(Poller)

Spec == Init /\ [][Next]_vars /\ Fairness

-----------------------------------------------------------------------------
(* Properties. *)

States == [mad : Requests \cup {None}, hashed : BOOLEAN, sendFailed : BOOLEAN,
           retries : 0..MaxRetries, age : 0..MaxAge]

UserStates == [pc : {"idle", "getting", "waiting", "holding"},
               req : Requests \cup {None}, ent : Entries \cup {None}]

\* Every variable has its type; between two calls no context has counted more than
\* maxRetries attempts. (A call-back that sends its message again at the last one
\* makes it maxRetries + 1 before cntxt_release clears the context.)
TypeOK ==
  /\ errorOnSendFail \in BOOLEAN
  /\ entry \in [Entries -> States]
  /\ free_list \subseteq Entries /\ numWaiters \in Nat /\ sema \in Nat
  /\ resp_queue \in Seq(Entries)
  /\ pass \in 0..Depth /\ todo \subseteq Entries /\ lag \in 0..MaxLag
  /\ user \in [Users -> UserStates]
  /\ reading \in Entries \cup {None}
  /\ sent \subseteq Requests
  /\ outcome \in [Requests -> {"new", "asked"} \cup Done]

Holds(u, e) == user[u].pc = "holding" /\ user[u].ent = e
InQueue(e) == \E i \in 1..Len(resp_queue) : resp_queue[i] = e
Waiting == {u \in Users : user[u].pc = "waiting"}
Getting == {u \in Users : user[u].pc = "getting"}

\* An entry is free, or it is in one place: in the hands of one user, in the
\* queue once, with the poller, or on its hash list alone. None is lost, none is
\* retired while somebody has it, and the queue has room ("this should not
\* fail", cs_context.c:272). For a user this rests on the entry being on no hash
\* list before it is sent (Early = {}), or being sent before it is due.
OneOwner ==
  \A e \in Entries :
    /\ e \in free_list <=> entry[e].mad = None
    /\ e \notin free_list =>
         entry[e].hashed \/ InQueue(e) \/ reading = e \/ \E u \in Users : Holds(u, e)
    /\ e \in free_list \/ entry[e].hashed => ~InQueue(e) /\ reading # e
    /\ InQueue(e) => reading # e
    /\ \A u \in Users : Holds(u, e) =>
         /\ e \notin free_list /\ ~InQueue(e) /\ reading # e
         /\ \A v \in Users : Holds(v, e) => v = u
    /\ \A i, j \in 1..Len(resp_queue) : resp_queue[i] = e /\ resp_queue[j] = e => i = j

\* A thread that waits is counted, or its wake-up is there; and as long as one
\* is counted there are no more free entries than threads woken to take them.
WaitersServed ==
  /\ numWaiters + sema = Cardinality(Waiting)
  /\ numWaiters > 0 => Cardinality(free_list) <= sema + Cardinality(Getting)

\* A request is answered by its own answer, once, and never after it was given
\* up: late answers, answers to what was sent again and errors that cross an
\* answer are dropped.
CompletesOnce ==
  [][\A r \in Requests :
       /\ outcome[r] \in Done => outcome'[r] = outcome[r]
       /\ outcome[r] # "answered" /\ outcome'[r] = "answered" =>
            outcome[r] = "asked" /\ r \in sent /\ ~(\E e \in Entries : Matches(e, r))']_vars

\* Callers "can depend on eventually getting a callback" (cs_context.h:61), and
\* a thread gets its context, whatever is lost: with finitely many requests,
\* none is left in the end.
EveryRequestEnds ==
  (\E r \in Requests : outcome[r] = "asked") ~> (\A r \in Requests : outcome[r] # "asked")

=============================================================================
