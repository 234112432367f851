-------------------------- MODULE CsContextProofs ---------------------------
(***************************************************************************)
(* Theorems about CsContext, for any pool, any requests, users and bounds: *)
(* types, the places of the entries, the waiters, and how requests end.    *)
(* They hold where a user sends what cs_cntxt_get has hashed before it is  *)
(* due, and so where cs_cntxt_get hashes nothing.                          *)
(***************************************************************************)
EXTENDS CsContext, SequenceTheorems, FiniteSetTheorems, TLAPS

-----------------------------------------------------------------------------
(* The hypothesis. *)

\* What a user holds is not due. cs_cntxt_get hashes an entry that is given a mad
\* and drops the lock (cs_context.c:646, :673), cs_cntxt_send_mad takes it again
\* (:439): nothing in between sees to this but the user's own haste.
InTime ==
  \A u \in Users, e \in Entries :
    Holds(u, e) /\ entry[e].hashed => entry[e].age < Timeout + TimeoutAdder

-----------------------------------------------------------------------------
(* The inductive invariant. *)

\* Free entries are blank.
FreeInv == \A e \in Entries : e \in free_list <=> entry[e].mad = None

\* No entry is lost.
OwnedInv ==
  \A e \in Entries : e \notin free_list =>
    entry[e].hashed \/ InQueue(e) \/ reading = e \/ \E u \in Users : Holds(u, e)

\* No entry is in two places; one that a user holds may be hashed already.
ApartInv ==
  /\ \A e \in Entries : e \in free_list \/ entry[e].hashed => ~InQueue(e) /\ reading # e
  /\ \A e \in Entries : InQueue(e) => reading # e
  /\ \A u \in Users, e \in Entries : Holds(u, e) =>
       /\ e \notin free_list /\ ~InQueue(e) /\ reading # e
       /\ \A v \in Users : Holds(v, e) => v = u

OnceInv == \A i, j \in 1..Len(resp_queue) : resp_queue[i] = resp_queue[j] => i = j

\* Each hashed entry has a request of its own, which waits for an answer.
HashInv ==
  /\ \A e \in Entries : entry[e].hashed => entry[e].mad # None /\ outcome[entry[e].mad] = "asked"
  /\ \A e, f \in Entries :
       entry[e].hashed /\ entry[f].hashed /\ entry[e].mad = entry[f].mad => e = f
  /\ \A e \in todo : entry[e].hashed
  /\ \A r \in sent : outcome[r] # "new"

\* The request of a user who has not sent it yet is the user's alone.
UserInv ==
  \A u \in Users : user[u].pc # "idle" =>
    /\ user[u].req \in Requests \ sent /\ outcome[user[u].req] = "asked"
    /\ \A v \in Users : user[v].pc # "idle" /\ user[v].req = user[u].req => v = u
    /\ \A e \in Entries : entry[e].hashed /\ entry[e].mad = user[u].req => Holds(u, e)

\* What a user holds has not been sent; no pass took the time before it was got.
HoldInv ==
  \A u \in Users, e \in Entries : Holds(u, e) =>
    /\ entry[e].mad = user[u].req /\ entry[e].retries = 0 /\ ~entry[e].sendFailed
    /\ entry[e].hashed => lag <= entry[e].age /\ entry[e].mad \in Early

EntInv == \A u \in Users : user[u].pc = "holding" => user[u].ent \in Entries

PassInv == Unlocked => lag = 0 /\ todo = {}

IInv == /\ TypeOK /\ FreeInv /\ OwnedInv /\ ApartInv /\ OnceInv
        /\ HashInv /\ UserInv /\ HoldInv /\ EntInv /\ PassInv

-----------------------------------------------------------------------------
(* Entries. *)

LEMMA EntryTypes ==
  /\ Blank \in States
  /\ \A r \in Requests : Reserved(r) \in States /\ [Blank EXCEPT !.mad = r] \in States
  /\ \A x \in States, ok \in BOOLEAN : x.retries < MaxRetries => Attempted(x, ok) \in States
<1>1. MaxAge \in Nat /\ MaxRetries \in Nat /\ 0 \in 0..MaxAge /\ 0 \in 0..MaxRetries
  BY ConstantsAssumption DEF ConstantsAssumption, MaxAge
<1>2. Blank \in States
  BY <1>1 DEF Blank, States
<1>3. ASSUME NEW r \in Requests PROVE Reserved(r) \in States /\ [Blank EXCEPT !.mad = r] \in States
  BY <1>1 DEF Reserved, Blank, States
<1>4. ASSUME NEW x \in States, NEW ok \in BOOLEAN, x.retries < MaxRetries
      PROVE  Attempted(x, ok) \in States
  <2>1. x.retries + 1 \in 0..MaxRetries
    BY <1>1, <1>4 DEF States
  <2> QED
    BY <2>1, <1>4 DEF Attempted, States
<1> QED
  BY <1>2, <1>3, <1>4

LEMMA EntryFields ==
  /\ Blank.mad = None /\ ~Blank.hashed /\ ~Blank.sendFailed /\ Blank.retries = 0 /\ Blank.age = 0
  /\ \A r : /\ Reserved(r).mad = r /\ Reserved(r).hashed /\ ~Reserved(r).sendFailed
            /\ Reserved(r).retries = 0 /\ Reserved(r).age = 0
  /\ \A x \in States, ok \in BOOLEAN :
       /\ Attempted(x, ok).mad = x.mad /\ Attempted(x, ok).hashed
       /\ Attempted(x, ok).age = x.age
BY DEF Blank, Reserved, Attempted, States

-----------------------------------------------------------------------------
(* cntxt_release. *)

\* An entry that an answer or a time-out completes, and what stays as it is.
Releasing(e) ==
  /\ e \in Entries /\ entry[e].hashed /\ \A u \in Users : ~Holds(u, e)
  /\ UNCHANGED <<errorOnSendFail, user, reading, pass, lag>>
  /\ todo' \subseteq todo \ {e}

\* The entry is freed; the next request, if there is one, takes f.
Moves(e, f, x) ==
  /\ entry' = [entry EXCEPT ![e] = Blank, ![f] = x]
  /\ free_list' = (free_list \cup {e}) \ {f}

Frees(e) ==
  /\ entry' = [entry EXCEPT ![e] = Blank]
  /\ free_list' = free_list \cup {e}

Ends(q, result) == outcome' = [outcome EXCEPT ![q] = result]
EndsFor(q, result, r) == outcome' = [outcome EXCEPT ![q] = result, ![r] = "asked"]

\* What is known of an entry that is released.
LEMMA ReleasingFacts ==
  ASSUME IInv, NEW e \in Entries, Releasing(e)
  PROVE  /\ TypeOK /\ e \notin free_list /\ free_list \subseteq Entries
         /\ entry[e].mad \in Requests /\ outcome[entry[e].mad] = "asked"
         /\ entry[e].mad # None /\ entry[e] \in States
         /\ \A u \in Users, y \in Entries : Holds(u, y)' <=> Holds(u, y)
         /\ \A u \in Users, y \in Entries : Holds(u, y) => y # e
         /\ \A u \in Users : user[u].pc # "idle" => user[u].req # entry[e].mad
         /\ EntInv' /\ PassInv'
<1>1. TypeOK /\ FreeInv /\ HashInv /\ UserInv /\ EntInv /\ PassInv
  BY DEF IInv
<1>2. entry[e].hashed /\ \A u \in Users : ~Holds(u, e)
  BY DEF Releasing
<1>3. entry[e] \in States /\ free_list \subseteq Entries
  BY <1>1 DEF TypeOK
<1>4. entry[e].mad # None /\ outcome[entry[e].mad] = "asked"
  BY <1>1, <1>2 DEF HashInv
<1>5. entry[e].mad \in Requests /\ e \notin free_list
  BY <1>1, <1>3, <1>4 DEF FreeInv, States
<1>6. \A u \in Users : user[u].pc # "idle" => user[u].req # entry[e].mad
  BY <1>1, <1>2 DEF UserInv
<1>7. \A u \in Users, y \in Entries : Holds(u, y)' <=> Holds(u, y)
  BY DEF Holds, Releasing
<1>8. EntInv' /\ PassInv'
  BY <1>1 DEF EntInv, PassInv, Releasing, Unlocked
<1> QED
  BY <1>1, <1>2, <1>3, <1>4, <1>5, <1>6, <1>7, <1>8

\* A call-back issues the next request, with the same entry or another.
LEMMA ReleaseMoves ==
  ASSUME IInv, NEW e \in Entries, Releasing(e), NEW result \in Done,
         NEW r \in Fresh, NEW ok \in BOOLEAN, NEW f \in free_list \cup {e},
         Moves(e, f, Attempted(Reserved(r), ok)), OnItsWay(r, ok),
         EndsFor(entry[e].mad, result, r), UNCHANGED resp_queue,
         numWaiters' \in Nat, sema' \in Nat
  PROVE  IInv'
<1> DEFINE x == Attempted(Reserved(r), ok)
<1> DEFINE q == entry[e].mad
<1>1. /\ TypeOK /\ e \notin free_list /\ free_list \subseteq Entries /\ f \in Entries
      /\ q \in Requests /\ outcome[q] = "asked"
      /\ \A u \in Users, y \in Entries : Holds(u, y)' <=> Holds(u, y)
      /\ EntInv' /\ PassInv'
  BY ReleasingFacts
<1>2. /\ x.mad = r /\ x.hashed /\ x \in States
      /\ Blank.mad = None /\ ~Blank.hashed /\ Blank \in States
  <2>1. r \in Requests /\ 0 < MaxRetries
    BY ConstantsAssumption DEF ConstantsAssumption, Fresh
  <2>2. Reserved(r) \in States /\ Reserved(r).retries = 0 /\ Reserved(r).mad = r
    BY <2>1, EntryTypes, EntryFields
  <2> QED
    BY <2>1, <2>2, EntryTypes, EntryFields
<1>3. r \in Requests /\ outcome[r] = "new" /\ r # q /\ r # None
  BY <1>1, ConstantsAssumption DEF Fresh, ConstantsAssumption
<1>4. \A y \in Entries : entry'[y] = IF y = f THEN x ELSE IF y = e THEN Blank ELSE entry[y]
  BY <1>1 DEF TypeOK, Moves
<1>5. entry' \in [Entries -> States] /\ free_list' = (free_list \cup {e}) \ {f}
  BY <1>1, <1>2 DEF TypeOK, Moves
<1> HIDE DEF x
<1>6. /\ outcome' \in [Requests -> {"new", "asked"} \cup Done]
      /\ \A s \in Requests : outcome'[s] = IF s = r THEN "asked" ELSE IF s = q THEN result ELSE outcome[s]
  BY <1>1, <1>3 DEF TypeOK, EndsFor
<1>7. sent' \subseteq Requests /\ sent \subseteq sent' /\ sent' \subseteq sent \cup {r}
  BY <1>1, <1>3 DEF OnItsWay, TypeOK
<1>8. \A y \in Entries : InQueue(y)' <=> InQueue(y)
  BY DEF InQueue
<1>9. /\ user' = user /\ reading' = reading /\ lag' = lag /\ todo' \subseteq todo \ {e}
      /\ entry[e].hashed /\ \A u \in Users : ~Holds(u, e)
  BY DEF Releasing
<1>10. TypeOK'
  BY <1>1, <1>5, <1>6, <1>7 DEF TypeOK, Releasing
<1>11. FreeInv'
  BY <1>1, <1>2, <1>3, <1>4, <1>5 DEF FreeInv, IInv
<1>12. OwnedInv'
  BY <1>1, <1>2, <1>4, <1>5, <1>8, <1>9 DEF OwnedInv, IInv
<1>13. ApartInv'
  <2>1. \A y \in Entries : y \in free_list' \/ entry'[y].hashed => y \in free_list \/ entry[y].hashed
    BY <1>1, <1>2, <1>4, <1>5, <1>9
  <2>2. ApartInv
    BY DEF IInv
  <2>3. \A y \in Entries : y \in free_list' \/ entry'[y].hashed => ~InQueue(y) /\ reading # y
    BY <2>1, <2>2 DEF ApartInv
  <2>4. ASSUME NEW u \in Users, NEW y \in Entries, Holds(u, y)
        PROVE  y \notin free_list'
    BY <2>2, <2>4, <1>5, <1>9 DEF ApartInv
  <2> QED
    BY <2>2, <2>3, <2>4, <1>1, <1>8, <1>9 DEF ApartInv
<1>14. OnceInv'
  BY DEF OnceInv, IInv
<1>15. HashInv'
  <2>1. HashInv
    BY DEF IInv
  <2>2. \A y \in Entries : entry'[y].hashed =>
          \/ y = f /\ entry'[y].mad = r
          \/ y # f /\ y # e /\ entry[y].hashed /\ entry'[y].mad = entry[y].mad
    BY <1>2, <1>4
  <2>3. \A y \in Entries : entry[y].hashed =>
          /\ entry[y].mad \in Requests /\ entry[y].mad # r
          /\ y # e => entry[y].mad # q
    <3>1. entry \in [Entries -> States]
      BY <1>1 DEF TypeOK
    <3> QED
      BY <2>1, <3>1, <1>3, <1>9 DEF HashInv, States
  <2>4. \A y \in Entries : entry'[y].hashed => entry'[y].mad # None /\ outcome'[entry'[y].mad] = "asked"
    BY <2>1, <2>2, <2>3, <1>3, <1>6 DEF HashInv
  <2>5. \A y, z \in Entries :
          entry'[y].hashed /\ entry'[z].hashed /\ entry'[y].mad = entry'[z].mad => y = z
    BY <2>1, <2>2, <2>3 DEF HashInv
  <2>6. \A y \in todo' : entry'[y].hashed
    BY <2>1, <1>1, <1>2, <1>4, <1>9 DEF HashInv, TypeOK
  <2>7. \A s \in sent' : outcome'[s] # "new"
    BY <2>1, <1>6, <1>7 DEF HashInv, Done
  <2> QED
    BY <2>4, <2>5, <2>6, <2>7 DEF HashInv
<1>16. UserInv'
  <2>1. UserInv
    BY DEF IInv
  <2> SUFFICES ASSUME NEW u \in Users, user[u].pc # "idle"
               PROVE  /\ user[u].req \in Requests \ sent' /\ outcome'[user[u].req] = "asked"
                      /\ \A y \in Entries : entry'[y].hashed /\ entry'[y].mad = user[u].req => Holds(u, y)
    BY <2>1, <1>1, <1>9 DEF UserInv
  <2>2. user[u].req \in Requests /\ user[u].req # r /\ user[u].req # q
    BY <2>1, <1>3, ReleasingFacts DEF UserInv
  <2> QED
    BY <2>1, <2>2, <1>2, <1>4, <1>6, <1>7 DEF UserInv
<1>17. HoldInv'
  <2>1. ASSUME NEW u \in Users, NEW y \in Entries, Holds(u, y)
        PROVE  entry'[y] = entry[y]
    BY <2>1, <1>1, <1>4, <1>9 DEF ApartInv, IInv
  <2> QED
    BY <2>1, <1>1, <1>9 DEF HoldInv, IInv
<1> QED
  BY <1>10, <1>11, <1>12, <1>13, <1>14, <1>15, <1>16, <1>17, <1>1 DEF IInv

\* A call-back that issues no new request.
LEMMA ReleaseFrees ==
  ASSUME IInv, NEW e \in Entries, Releasing(e), NEW result \in Done, Frees(e),
         sent \subseteq sent', sent' \subseteq sent \cup {entry[e].mad},
         Ends(entry[e].mad, result), UNCHANGED resp_queue,
         numWaiters' \in Nat, sema' \in Nat
  PROVE  IInv'
<1> DEFINE q == entry[e].mad
<1>1. /\ TypeOK /\ e \notin free_list /\ free_list \subseteq Entries
      /\ q \in Requests /\ outcome[q] = "asked"
      /\ \A u \in Users, y \in Entries : Holds(u, y)' <=> Holds(u, y)
      /\ EntInv' /\ PassInv'
  BY ReleasingFacts
<1>2. Blank.mad = None /\ ~Blank.hashed /\ Blank \in States
  BY EntryTypes, EntryFields
<1>4. \A y \in Entries : entry'[y] = IF y = e THEN Blank ELSE entry[y]
  BY <1>1 DEF TypeOK, Frees
<1>5. entry' \in [Entries -> States] /\ free_list' = free_list \cup {e}
  BY <1>1, <1>2 DEF TypeOK, Frees
<1>6. /\ outcome' \in [Requests -> {"new", "asked"} \cup Done]
      /\ \A s \in Requests : outcome'[s] = IF s = q THEN result ELSE outcome[s]
  BY <1>1 DEF TypeOK, Ends
<1>7. sent' \subseteq Requests
  BY <1>1 DEF TypeOK
<1>8. \A y \in Entries : InQueue(y)' <=> InQueue(y)
  BY DEF InQueue
<1>9. /\ user' = user /\ reading' = reading /\ lag' = lag /\ todo' \subseteq todo \ {e}
      /\ entry[e].hashed /\ \A u \in Users : ~Holds(u, e)
  BY DEF Releasing
<1>10. TypeOK'
  BY <1>1, <1>5, <1>6, <1>7 DEF TypeOK, Releasing
<1>11. FreeInv'
  BY <1>1, <1>2, <1>4, <1>5 DEF FreeInv, IInv
<1>12. OwnedInv'
  BY <1>1, <1>2, <1>4, <1>5, <1>8, <1>9 DEF OwnedInv, IInv
<1>13. ApartInv'
  <2>1. \A y \in Entries : y \in free_list' \/ entry'[y].hashed => y \in free_list \/ entry[y].hashed
    BY <1>1, <1>2, <1>4, <1>5, <1>9
  <2>2. ApartInv
    BY DEF IInv
  <2>3. \A y \in Entries : y \in free_list' \/ entry'[y].hashed => ~InQueue(y) /\ reading # y
    BY <2>1, <2>2 DEF ApartInv
  <2>4. ASSUME NEW u \in Users, NEW y \in Entries, Holds(u, y)
        PROVE  y \notin free_list'
    BY <2>2, <2>4, <1>5, <1>9 DEF ApartInv
  <2> QED
    BY <2>2, <2>3, <2>4, <1>1, <1>8, <1>9 DEF ApartInv
<1>14. OnceInv'
  BY DEF OnceInv, IInv
<1>15. HashInv'
  <2>1. HashInv
    BY DEF IInv
  <2>2. \A y \in Entries : entry'[y].hashed =>
          y # e /\ entry[y].hashed /\ entry'[y].mad = entry[y].mad
    BY <1>2, <1>4
  <2>3. \A y \in Entries : entry[y].hashed /\ y # e => entry[y].mad \in Requests /\ entry[y].mad # q
    <3>1. entry \in [Entries -> States]
      BY <1>1 DEF TypeOK
    <3> QED
      BY <2>1, <3>1, <1>9 DEF HashInv, States
  <2>4. \A y \in Entries : entry'[y].hashed => entry'[y].mad # None /\ outcome'[entry'[y].mad] = "asked"
    BY <2>1, <2>2, <2>3, <1>6 DEF HashInv
  <2>5. \A y, z \in Entries :
          entry'[y].hashed /\ entry'[z].hashed /\ entry'[y].mad = entry'[z].mad => y = z
    BY <2>1, <2>2 DEF HashInv
  <2>6. \A y \in todo' : entry'[y].hashed
    BY <2>1, <1>1, <1>4, <1>9 DEF HashInv, TypeOK
  <2>7. \A s \in sent' : outcome'[s] # "new"
    BY <2>1, <1>1, <1>6, <1>7 DEF HashInv, Done
  <2> QED
    BY <2>4, <2>5, <2>6, <2>7 DEF HashInv
<1>16. UserInv'
  <2>1. UserInv
    BY DEF IInv
  <2> SUFFICES ASSUME NEW u \in Users, user[u].pc # "idle"
               PROVE  /\ user[u].req \in Requests \ sent' /\ outcome'[user[u].req] = "asked"
                      /\ \A y \in Entries : entry'[y].hashed /\ entry'[y].mad = user[u].req => Holds(u, y)
    BY <2>1, <1>1, <1>9 DEF UserInv
  <2>2. user[u].req \in Requests /\ user[u].req # q
    BY <2>1, ReleasingFacts DEF UserInv
  <2> QED
    BY <2>1, <2>2, <1>2, <1>4, <1>6, <1>7 DEF UserInv
<1>17. HoldInv'
  <2>1. ASSUME NEW u \in Users, NEW y \in Entries, Holds(u, y)
        PROVE  entry'[y] = entry[y]
    BY <2>1, <1>1, <1>4, <1>9
  <2> QED
    BY <2>1, <1>1, <1>9 DEF HoldInv, IInv
<1> QED
  BY <1>10, <1>11, <1>12, <1>13, <1>14, <1>15, <1>16, <1>17, <1>1 DEF IInv

\* What an entry in the queue has become.
QueuedEntry(e) == [Blank EXCEPT !.mad = entry[e].mad]

\* What is queued is completed, and on no hash list.
LEMMA ReleaseQueues ==
  ASSUME IInv, NEW e \in Entries, Releasing(e), NEW result \in Done,
         Queue(e), Ends(entry[e].mad, result)
  PROVE  IInv'
<1> DEFINE q == entry[e].mad
<1> DEFINE x == QueuedEntry(e)
<1>1. /\ TypeOK /\ e \notin free_list /\ free_list \subseteq Entries
      /\ q \in Requests /\ q # None /\ outcome[q] = "asked"
      /\ \A u \in Users, y \in Entries : Holds(u, y)' <=> Holds(u, y)
      /\ EntInv' /\ PassInv'
  BY ReleasingFacts
<1>2. x.mad = q /\ ~x.hashed /\ x \in States
  BY <1>1, EntryTypes, EntryFields DEF QueuedEntry, States, Blank
<1>3. entry' = [entry EXCEPT ![e] = x]
  BY DEF Queue, QueuedEntry
<1> HIDE DEF x
<1>4. \A y \in Entries : entry'[y] = IF y = e THEN x ELSE entry[y]
  BY <1>1, <1>3 DEF TypeOK
<1>5. entry' \in [Entries -> States] /\ free_list' = free_list /\ sent' = sent
  BY <1>1, <1>2, <1>3 DEF TypeOK, Queue, poolVars
<1>6. /\ outcome' \in [Requests -> {"new", "asked"} \cup Done]
      /\ \A s \in Requests : outcome'[s] = IF s = q THEN result ELSE outcome[s]
  BY <1>1 DEF TypeOK, Ends
<1>7. /\ resp_queue' \in Seq(Entries) /\ Len(resp_queue') = Len(resp_queue) + 1
      /\ \A i \in 1..Len(resp_queue) : resp_queue'[i] = resp_queue[i]
      /\ resp_queue'[Len(resp_queue) + 1] = e
      /\ Len(resp_queue) \in Nat
  BY <1>1 DEF TypeOK, Queue
<1>8. \A y \in Entries : InQueue(y)' <=> (InQueue(y) \/ y = e)
  BY <1>7 DEF InQueue
<1>9. /\ user' = user /\ reading' = reading /\ lag' = lag /\ todo' \subseteq todo \ {e}
      /\ entry[e].hashed /\ \A u \in Users : ~Holds(u, e)
  BY DEF Releasing
<1>10. TypeOK'
  BY <1>1, <1>5, <1>6, <1>7 DEF TypeOK, Releasing, Queue, poolVars
<1>11. FreeInv'
  BY <1>1, <1>2, <1>4, <1>5 DEF FreeInv, IInv
<1>12. OwnedInv'
  BY <1>1, <1>2, <1>4, <1>5, <1>8, <1>9 DEF OwnedInv, IInv
<1>13. ApartInv'
  <2>2. ApartInv
    BY DEF IInv
  <2>3. \A y \in Entries : y \in free_list' \/ entry'[y].hashed =>
          y # e /\ (y \in free_list \/ entry[y].hashed)
    BY <1>1, <1>2, <1>4, <1>5, <1>9
  <2>4. \A y \in Entries : y \in free_list' \/ entry'[y].hashed => ~InQueue(y)' /\ reading # y
    BY <2>2, <2>3, <1>8 DEF ApartInv
  <2>5. \A y \in Entries : InQueue(y)' => reading # y
    BY <2>2, <1>8, <1>9 DEF ApartInv
  <2>6. \A u \in Users, y \in Entries : Holds(u, y) => y \notin free_list' /\ ~InQueue(y)'
    BY <2>2, <1>5, <1>8, <1>9 DEF ApartInv
  <2> QED
    BY <2>2, <2>4, <2>5, <2>6, <1>1, <1>9 DEF ApartInv
<1>14. OnceInv'
  <2>1. ASSUME NEW i \in 1..Len(resp_queue) PROVE resp_queue[i] # e
    BY <1>9 DEF IInv, ApartInv, InQueue
  <2> QED
    BY <2>1, <1>7 DEF OnceInv, IInv
<1>15. HashInv'
  <2>1. HashInv
    BY DEF IInv
  <2>2. \A y \in Entries : entry'[y].hashed =>
          y # e /\ entry[y].hashed /\ entry'[y].mad = entry[y].mad
    BY <1>2, <1>4
  <2>3. \A y \in Entries : entry[y].hashed /\ y # e => entry[y].mad \in Requests /\ entry[y].mad # q
    <3>1. entry \in [Entries -> States]
      BY <1>1 DEF TypeOK
    <3> QED
      BY <2>1, <3>1, <1>9 DEF HashInv, States
  <2>4. \A y \in Entries : entry'[y].hashed => entry'[y].mad # None /\ outcome'[entry'[y].mad] = "asked"
    BY <2>1, <2>2, <2>3, <1>6 DEF HashInv
  <2>5. \A y, z \in Entries :
          entry'[y].hashed /\ entry'[z].hashed /\ entry'[y].mad = entry'[z].mad => y = z
    BY <2>1, <2>2 DEF HashInv
  <2>6. \A y \in todo' : entry'[y].hashed
    BY <2>1, <1>1, <1>4, <1>9 DEF HashInv, TypeOK
  <2>7. \A s \in sent' : outcome'[s] # "new"
    BY <2>1, <1>1, <1>5, <1>6 DEF HashInv, Done, TypeOK
  <2> QED
    BY <2>4, <2>5, <2>6, <2>7 DEF HashInv
<1>16. UserInv'
  <2>1. UserInv
    BY DEF IInv
  <2> SUFFICES ASSUME NEW u \in Users, user[u].pc # "idle"
               PROVE  /\ user[u].req \in Requests \ sent' /\ outcome'[user[u].req] = "asked"
                      /\ \A y \in Entries : entry'[y].hashed /\ entry'[y].mad = user[u].req => Holds(u, y)
    BY <2>1, <1>1, <1>9 DEF UserInv
  <2>2. user[u].req \in Requests /\ user[u].req # q
    BY <2>1, ReleasingFacts DEF UserInv
  <2> QED
    BY <2>1, <2>2, <1>2, <1>4, <1>5, <1>6 DEF UserInv
<1>17. HoldInv'
  <2>1. ASSUME NEW u \in Users, NEW y \in Entries, Holds(u, y)
        PROVE  entry'[y] = entry[y]
    BY <2>1, <1>1, <1>4, <1>9
  <2> QED
    BY <2>1, <1>1, <1>9 DEF HoldInv, IInv
<1> QED
  BY <1>10, <1>11, <1>12, <1>13, <1>14, <1>15, <1>16, <1>17, <1>1 DEF IInv

-----------------------------------------------------------------------------
(* Time-outs. *)

WakeTypes == numWaiters' \in Nat /\ sema' \in Nat

LEMMA WakeIsTyped ==
  ASSUME TypeOK, Wake
  PROVE  WakeTypes
<1>1. numWaiters \in Nat /\ sema \in Nat
  BY DEF TypeOK
<1> QED
  BY <1>1 DEF Wake, WakeTypes

\* Whatever becomes of an entry that is released, the invariant holds.
LEMMA ReleaseKeepsInv ==
  ASSUME IInv, NEW e \in Entries, Releasing(e), NEW result \in Done, Release(e, result)
  PROVE  IInv'
<1> DEFINE q == entry[e].mad
<1>1. TypeOK /\ e \notin free_list
  BY ReleasingFacts
<1>2. numWaiters \in Nat /\ sema \in Nat
  BY <1>1 DEF TypeOK
<1>3. CASE Queue(e) /\ Ends(q, result)
  BY <1>3, ReleaseQueues
<1>4. CASE /\ CallbackReturns(e) \/ \E ok \in BOOLEAN : CallbackResends(e, ok)
           /\ Ends(q, result) /\ UNCHANGED resp_queue
  <2>1. Frees(e) /\ Wake
    BY <1>4 DEF CallbackReturns, CallbackResends, Retire, Frees
  <2>2. sent \subseteq sent' /\ sent' \subseteq sent \cup {q}
    BY <1>4 DEF CallbackReturns, CallbackResends, OnItsWay
  <2>3. WakeTypes
    BY <2>1, <1>1, WakeIsTyped
  <2> QED
    BY <1>4, <2>1, <2>2, <2>3, ReleaseFrees DEF WakeTypes
<1>5. ASSUME NEW r \in Fresh, NEW ok \in BOOLEAN,
             CallbackReuses(e, r, ok) \/ \E f \in Entries : CallbackGets(e, f, r, ok),
             EndsFor(q, result, r), UNCHANGED resp_queue
      PROVE  IInv'
  <2>1. CASE CallbackReuses(e, r, ok)
    <3>1. Moves(e, e, Attempted(Reserved(r), ok))
      <4>1. entry' = [entry EXCEPT ![e] = Attempted(Reserved(r), ok)] /\ free_list' = free_list
        BY <2>1 DEF CallbackReuses, poolVars
      <4>2. [entry EXCEPT ![e] = Blank, ![e] = Attempted(Reserved(r), ok)]
              = [entry EXCEPT ![e] = Attempted(Reserved(r), ok)]
        OBVIOUS
      <4>3. (free_list \cup {e}) \ {e} = free_list
        BY <1>1
      <4> QED
        BY <4>1, <4>2, <4>3 DEF Moves
    <3>2. OnItsWay(r, ok) /\ numWaiters' \in Nat /\ sema' \in Nat
      BY <2>1, <1>2 DEF CallbackReuses, poolVars
    <3> QED
      BY <3>1, <3>2, <1>5, ReleaseMoves
  <2>2. ASSUME NEW f \in Entries, CallbackGets(e, f, r, ok)
        PROVE  IInv'
    <3>1. f \in free_list \cup {e} /\ Moves(e, f, Attempted(Reserved(r), ok)) /\ OnItsWay(r, ok) /\ Wake
      BY <2>2 DEF CallbackGets, Moves
    <3>2. WakeTypes
      BY <3>1, <1>1, WakeIsTyped
    <3> QED
      BY <3>1, <3>2, <1>5, ReleaseMoves DEF WakeTypes
  <2> QED
    BY <1>5, <2>1, <2>2
<1>6. \/ Queue(e) /\ Ends(q, result)
      \/ /\ CallbackReturns(e) \/ \E ok \in BOOLEAN : CallbackResends(e, ok)
         /\ Ends(q, result) /\ UNCHANGED resp_queue
      \/ \E r \in Fresh, ok \in BOOLEAN :
           /\ CallbackReuses(e, r, ok) \/ \E f \in Entries : CallbackGets(e, f, r, ok)
           /\ EndsFor(q, result, r) /\ UNCHANGED resp_queue
  BY DEF Release, Ends, EndsFor
<1> QED
  BY <1>3, <1>4, <1>5, <1>6

Aged(e, age) == [entry[e] EXCEPT !.age = age]

\* A request that is sent again stays in its place.
LEMMA ResendKeepsInv ==
  ASSUME IInv, NEW e \in Entries, Releasing(e), entry[e].retries < MaxRetries,
         NEW age \in 0..MaxLag, NEW ok \in BOOLEAN,
         entry' = [entry EXCEPT ![e] = Attempted(Aged(e, age), ok)],
         OnItsWay(entry[e].mad, ok), UNCHANGED <<poolVars, resp_queue, outcome>>
  PROVE  IInv'
<1> DEFINE q == entry[e].mad
<1> DEFINE x == Attempted(Aged(e, age), ok)
<1>1. /\ TypeOK /\ e \notin free_list /\ free_list \subseteq Entries
      /\ q \in Requests /\ q # None /\ outcome[q] = "asked" /\ entry[e] \in States
      /\ \A u \in Users, y \in Entries : Holds(u, y)' <=> Holds(u, y)
      /\ EntInv' /\ PassInv'
  BY ReleasingFacts
<1>2. x.mad = q /\ x.hashed /\ x \in States
  <2>1. age \in 0..MaxAge
    BY ConstantsAssumption DEF ConstantsAssumption, MaxAge
  <2>2. Aged(e, age) \in States /\ Aged(e, age).mad = q /\ Aged(e, age).retries < MaxRetries
    BY <1>1, <2>1 DEF Aged, States
  <2> QED
    BY <2>2, EntryTypes, EntryFields
<1> HIDE DEF x
<1>4. \A y \in Entries : entry'[y] = IF y = e THEN x ELSE entry[y]
  BY <1>1 DEF TypeOK, x
<1>5. entry' \in [Entries -> States]
  BY <1>1, <1>2 DEF TypeOK, x
<1>7. sent' \subseteq Requests /\ sent' \subseteq sent \cup {q}
  BY <1>1 DEF TypeOK, OnItsWay
<1>8. \A y \in Entries : InQueue(y)' <=> InQueue(y)
  BY DEF InQueue
<1>9. /\ user' = user /\ reading' = reading /\ lag' = lag /\ todo' \subseteq todo \ {e}
      /\ entry[e].hashed /\ \A u \in Users : ~Holds(u, e)
      /\ free_list' = free_list
  BY DEF Releasing, poolVars
<1>10. TypeOK'
  BY <1>1, <1>5, <1>7 DEF TypeOK, Releasing, poolVars
<1>11. FreeInv'
  BY <1>1, <1>2, <1>4, <1>9 DEF FreeInv, IInv
<1>12. OwnedInv'
  BY <1>1, <1>2, <1>4, <1>8, <1>9 DEF OwnedInv, IInv
<1>13. ApartInv'
  <2>1. \A y \in Entries : entry'[y].hashed => entry[y].hashed
    BY <1>4, <1>9
  <2> QED
    BY <2>1, <1>1, <1>8, <1>9 DEF ApartInv, IInv
<1>14. OnceInv'
  BY DEF OnceInv, IInv
<1>15. HashInv'
  <2>1. HashInv
    BY DEF IInv
  <2>2. \A y \in Entries : entry'[y].hashed => entry[y].hashed /\ entry'[y].mad = entry[y].mad
    BY <1>2, <1>4, <1>9
  <2>3. \A y \in todo' : entry'[y].hashed
    BY <2>1, <1>1, <1>4, <1>9 DEF HashInv, TypeOK
  <2> QED
    BY <2>1, <2>2, <2>3, <1>1, <1>7 DEF HashInv
<1>16. UserInv'
  <2>1. UserInv
    BY DEF IInv
  <2>2. \A u \in Users : user[u].pc # "idle" => user[u].req # q
    BY ReleasingFacts
  <2>3. \A y \in Entries : entry'[y].hashed => entry[y].hashed /\ entry'[y].mad = entry[y].mad
    BY <1>2, <1>4, <1>9
  <2> QED
    BY <2>1, <2>2, <2>3, <1>1, <1>7, <1>9 DEF UserInv
<1>17. HoldInv'
  <2>1. ASSUME NEW u \in Users, NEW y \in Entries, Holds(u, y)
        PROVE  entry'[y] = entry[y]
    BY <2>1, <1>1, <1>4, <1>9
  <2> QED
    BY <2>1, <1>1, <1>9 DEF HoldInv, IInv
<1> QED
  BY <1>10, <1>11, <1>12, <1>13, <1>14, <1>15, <1>16, <1>17, <1>1 DEF IInv

LEMMA ExpireKeepsInv ==
  ASSUME IInv, NEW e \in Entries, Releasing(e), NEW age \in 0..MaxLag, Expire(e, age)
  PROVE  IInv'
<1>1. "failed" \in Done
  BY DEF Done
<1>2. CASE Release(e, "failed")
  BY <1>1, <1>2, ReleaseKeepsInv
<1>3. CASE entry[e].retries < MaxRetries /\ Resend(e, age)
  BY <1>2, <1>3, ResendKeepsInv DEF Resend, Aged
<1> QED
  BY <1>2, <1>3 DEF Expire

-----------------------------------------------------------------------------
(* Ageing. *)

\* An ageing pass leaves what a user holds alone.
LEMMA HeldIsNotDue ==
  ASSUME IInv, InTime, NEW e \in Entries, entry[e].hashed, Expired(e)
  PROVE  \A u \in Users : ~Holds(u, e)
<1> SUFFICES ASSUME NEW u \in Users, Holds(u, e)
             PROVE  FALSE
  OBVIOUS
<1>1. lag <= entry[e].age /\ entry[e].age < Timeout + TimeoutAdder /\ ~entry[e].sendFailed
  BY DEF HoldInv, IInv, InTime
<1>2. entry[e].age \in Nat /\ lag \in Nat
  <2>1. entry[e] \in States /\ lag \in 0..MaxLag
    BY DEF IInv, TypeOK
  <2> QED
    BY <2>1, ConstantsAssumption DEF States, ConstantsAssumption, MaxAge
<1> DEFINE a == entry[e].age
<1>3. a - lag < 0 \/ a - lag >= Timeout + TimeoutAdder
  BY <1>1 DEF Expired
<1> HIDE DEF a
<1> QED
  BY <1>1, <1>2, <1>3, ConstantsAssumption DEF ConstantsAssumption, a

LEMMA AgeEntryKeepsInv ==
  ASSUME IInv, InTime, NEW e \in Entries, AgeEntry(e)
  PROVE  IInv'
<1>1. TypeOK /\ HashInv
  BY DEF IInv
<1>2. /\ e \in todo /\ entry[e].hashed /\ todo' = todo \ {e} /\ lag \in 0..MaxLag
      /\ UNCHANGED <<errorOnSendFail, user, reading, pass, lag>>
  BY <1>1 DEF AgeEntry, HashInv, TypeOK
<1>3. CASE Expired(e)
  <2>1. Releasing(e) /\ Expire(e, lag)
    BY <1>2, <1>3, HeldIsNotDue DEF Releasing, AgeEntry
  <2> QED
    BY <1>2, <2>1, ExpireKeepsInv
<1>4. CASE ~Expired(e)
  <2>1. UNCHANGED <<errorOnSendFail, entry, poolVars, resp_queue, pass, lag, user, reading, sent, outcome>>
    BY <1>4 DEF AgeEntry
  <2>2. TypeOK'
    BY <1>1, <1>2, <2>1 DEF TypeOK, poolVars
  <2>3. FreeInv' /\ OwnedInv' /\ ApartInv' /\ OnceInv'
    BY <2>1 DEF IInv, FreeInv, OwnedInv, ApartInv, OnceInv, Holds, InQueue, poolVars
  <2>4. HashInv' /\ UserInv' /\ HoldInv' /\ EntInv' /\ PassInv'
    BY <1>2, <2>1 DEF IInv, HashInv, UserInv, HoldInv, EntInv, PassInv, Holds, Unlocked
  <2> QED
    BY <2>2, <2>3, <2>4 DEF IInv
<1> QED
  BY <1>3, <1>4

LEMMA PassKeepsInv ==
  ASSUME IInv, StartPass \/ NextBucket
  PROVE  IInv'
<1>1. UNCHANGED <<errorOnSendFail, entry, poolVars, resp_queue, user, reading, sent, outcome>>
  BY DEF StartPass, NextBucket
<1>2. TypeOK /\ Depth \in Nat \ {0} /\ MaxLag \in Nat
  BY ConstantsAssumption DEF IInv, ConstantsAssumption
<1>3. /\ pass' \in 0..Depth /\ lag' \in 0..MaxLag
      /\ lag' <= lag \/ lag' = 0
      /\ todo' = {} \/ todo' = Hashed(pass')
      /\ pass' = Depth => todo' = {} /\ lag' = 0
  BY <1>2 DEF StartPass, NextBucket, TypeOK, Unlocked
<1>4. TypeOK'
  <2>1. todo' \subseteq Entries
    BY <1>3 DEF Hashed
  <2>2. pass' \in 0..Depth /\ lag' \in 0..MaxLag
    BY <1>3
  <2> QED
    BY <2>1, <2>2, <1>1, <1>2 DEF TypeOK, poolVars
<1>5. FreeInv' /\ OwnedInv' /\ ApartInv' /\ OnceInv'
  BY <1>1 DEF IInv, FreeInv, OwnedInv, ApartInv, OnceInv, Holds, InQueue, poolVars
<1>6. UserInv' /\ EntInv' /\ PassInv'
  BY <1>1, <1>3 DEF IInv, UserInv, EntInv, PassInv, Unlocked, Holds
<1>7. HashInv'
  BY <1>1, <1>3 DEF IInv, HashInv, Hashed
<1>8. HoldInv'
  <2>1. \A e \in Entries : entry[e].age \in Nat
    BY <1>2, ConstantsAssumption DEF TypeOK, States, MaxAge, ConstantsAssumption
  <2>2. lag \in Nat /\ lag' \in Nat
    BY <1>2, <1>3 DEF TypeOK
  <2>3. ASSUME NEW u \in Users, NEW e \in Entries, Holds(u, e), entry[e].hashed
        PROVE  lag' <= entry[e].age
    <3>1. lag <= entry[e].age
      BY <2>3 DEF IInv, HoldInv
    <3> QED
      BY <3>1, <2>1, <2>2, <1>2, <1>3 DEF StartPass, NextBucket
  <2> QED
    BY <2>3, <1>1 DEF IInv, HoldInv, Holds
<1> QED
  BY <1>4, <1>5, <1>6, <1>7, <1>8 DEF IInv

LEMMA TickKeepsInv ==
  ASSUME IInv, InTime, Tick
  PROVE  IInv'
<1>1. UNCHANGED <<errorOnSendFail, poolVars, resp_queue, pass, todo, user, reading, sent, outcome>>
  BY DEF Tick
<1>2. TypeOK /\ MaxLag \in Nat /\ MaxAge \in Nat /\ Timeout + TimeoutAdder <= MaxAge
  BY ConstantsAssumption DEF IInv, ConstantsAssumption, MaxAge
<1>3. \A e \in Entries : entry[e] \in States /\ entry[e].age \in Nat
  BY <1>2 DEF TypeOK, States
<1>4. lag \in Nat /\ lag' \in 0..MaxLag /\ (lag' = lag + 1 \/ lag' = lag)
  BY <1>2 DEF Tick, TypeOK
<1> DEFINE x(e) == [entry[e] EXCEPT !.age = @ + 1]
<1>5. \A e \in Entries :
        entry'[e] = IF entry[e].hashed /\ entry[e].age < MaxAge THEN x(e) ELSE entry[e]
  BY DEF Tick
<1>6. \A e \in Entries : entry[e].age < MaxAge =>
        /\ x(e) \in States /\ x(e).mad = entry[e].mad /\ x(e).hashed = entry[e].hashed
        /\ x(e).retries = entry[e].retries /\ x(e).sendFailed = entry[e].sendFailed
        /\ x(e).age = entry[e].age + 1
  <2> SUFFICES ASSUME NEW e \in Entries, entry[e].age < MaxAge
               PROVE  /\ x(e) \in States /\ x(e).mad = entry[e].mad /\ x(e).hashed = entry[e].hashed
                      /\ x(e).retries = entry[e].retries /\ x(e).sendFailed = entry[e].sendFailed
                      /\ x(e).age = entry[e].age + 1
    OBVIOUS
  <2>1. entry[e].age + 1 \in 0..MaxAge
    BY <1>2, <1>3
  <2> QED
    BY <2>1, <1>3 DEF States
<1> HIDE DEF x
<1>7. \A e \in Entries :
        /\ entry'[e] \in States /\ entry'[e].mad = entry[e].mad /\ entry'[e].hashed = entry[e].hashed
        /\ entry'[e].retries = entry[e].retries /\ entry'[e].sendFailed = entry[e].sendFailed
        /\ entry[e].hashed /\ entry[e].age < MaxAge => entry'[e].age = entry[e].age + 1
  BY <1>3, <1>5, <1>6
<1>8. entry' \in [Entries -> States]
  <2>1. entry' = [e \in Entries |-> entry'[e]]
    BY DEF Tick
  <2> QED
    BY <2>1, <1>7
<1>9. TypeOK'
  BY <1>1, <1>2, <1>4, <1>8 DEF TypeOK, poolVars
<1>10. FreeInv' /\ OwnedInv' /\ ApartInv' /\ OnceInv'
  BY <1>1, <1>7 DEF IInv, FreeInv, OwnedInv, ApartInv, OnceInv, Holds, InQueue, poolVars
<1>11. UserInv' /\ EntInv'
  BY <1>1, <1>7 DEF IInv, UserInv, EntInv, Holds
<1>12. PassInv'
  BY <1>1 DEF IInv, PassInv, Unlocked, Tick
<1>13. HashInv'
  BY <1>1, <1>2, <1>7 DEF IInv, HashInv, TypeOK
<1>14. HoldInv'
  <2>1. HoldInv
    BY DEF IInv
  <2> SUFFICES ASSUME NEW u \in Users, NEW e \in Entries, Holds(u, e), entry[e].hashed
               PROVE  lag' <= entry'[e].age
    BY <2>1, <1>1, <1>7 DEF HoldInv, Holds
  <2>2. lag <= entry[e].age
    BY <2>1 DEF HoldInv
  <2>3. entry[e].age < Timeout + TimeoutAdder
    BY DEF InTime
  <2> DEFINE a == entry[e].age
  <2>4. a \in Nat
    BY <1>3
  <2>5. a < MaxAge => entry'[e].age = a + 1
    BY <1>7
  <2> HIDE DEF a
  <2> QED
    BY <2>2, <2>3, <2>4, <2>5, <1>2, <1>4, ConstantsAssumption DEF a, ConstantsAssumption
<1> QED
  BY <1>9, <1>10, <1>11, <1>12, <1>13, <1>14 DEF IInv

-----------------------------------------------------------------------------
(* Users. *)

\* What a user may ask for is nobody else's, and not on its way.
LEMMA AskedAlone ==
  ASSUME IInv, NEW u \in Users, NEW r \in Requests, Asks(u, r)
  PROVE  /\ r \notin sent /\ outcome[r] \in {"new", "asked"}
         /\ \A v \in Users : v # u /\ user[v].pc # "idle" => user[v].req # r
         /\ \A e \in Entries : entry[e].hashed => entry[e].mad # r
         /\ \A e \in Entries : ~Holds(u, e)
<1>1. HashInv /\ UserInv
  BY DEF IInv
<1>2. CASE user[u].pc = "idle" /\ r \in Fresh
  BY <1>1, <1>2 DEF HashInv, UserInv, Fresh, Holds
<1>3. CASE user[u].pc = "getting" /\ user[u].req = r
  BY <1>1, <1>3 DEF UserInv, Holds
<1> QED
  BY <1>2, <1>3 DEF Asks

\* A free entry is in nobody's hands.
LEMMA FreeAlone ==
  ASSUME IInv, NEW e \in free_list
  PROVE  /\ e \in Entries /\ entry[e].mad = None /\ ~entry[e].hashed /\ e \notin todo
         /\ ~InQueue(e) /\ reading # e /\ \A u \in Users : ~Holds(u, e)
<1>1. e \in Entries /\ entry[e].mad = None
  BY DEF IInv, TypeOK, FreeInv
<1>2. ~entry[e].hashed /\ e \notin todo
  BY <1>1 DEF IInv, HashInv
<1> QED
  BY <1>1, <1>2 DEF IInv, ApartInv

LEMMA GetTakesKeepsInv ==
  ASSUME IInv, NEW u \in Users, NEW r \in Requests, Asks(u, r), Unlocked, NEW e \in free_list,
         free_list' = free_list \ {e}, entry' = [entry EXCEPT ![e] = Gotten(r)],
         user' = [user EXCEPT ![u] = [pc |-> "holding", req |-> r, ent |-> e]],
         Ends(r, "asked"),
         UNCHANGED <<errorOnSendFail, numWaiters, sema, resp_queue, passVars, reading, sent>>
  PROVE  IInv'
<1> DEFINE w == [pc |-> "holding", req |-> r, ent |-> e]
<1> DEFINE x == Gotten(r)
<1>1. /\ TypeOK /\ e \in Entries
      /\ r # None /\ r \notin sent /\ sent' = sent /\ reading' = reading /\ todo' = todo /\ lag' = lag
      /\ pass' = pass /\ free_list' = free_list \ {e}
  BY FreeAlone, AskedAlone, ConstantsAssumption DEF IInv, ConstantsAssumption, passVars
<1>2. /\ x \in States /\ x.mad = r /\ x.retries = 0 /\ ~x.sendFailed /\ x.age = 0
      /\ x.hashed => r \in Early
  <2>1. x \in States
    BY EntryTypes DEF Gotten
  <2>2. CASE r \in Early
    <3>1. x = Reserved(r)
      BY <2>2 DEF Gotten
    <3> QED
      BY <2>1, <2>2, <3>1, EntryFields
  <2>3. CASE r \notin Early
    <3>1. x = [Blank EXCEPT !.mad = r]
      BY <2>3 DEF Gotten
    <3> QED
      BY <2>1, <3>1 DEF Blank
  <2> QED
    BY <2>2, <2>3
<1>3. w \in UserStates /\ w.pc = "holding" /\ w.req = r /\ w.ent = e
  BY <1>1 DEF UserStates
<1>4. entry' \in [Entries -> States] /\ user' \in [Users -> UserStates]
  BY <1>1, <1>2, <1>3 DEF TypeOK
<1>5. /\ \A y \in Entries : entry'[y] = IF y = e THEN x ELSE entry[y]
      /\ \A v \in Users : user'[v] = IF v = u THEN w ELSE user[v]
  BY <1>1 DEF TypeOK
<1> HIDE DEF w, x
<1>6. /\ outcome' \in [Requests -> {"new", "asked"} \cup Done]
      /\ \A s \in Requests : outcome'[s] = IF s = r THEN "asked" ELSE outcome[s]
  BY <1>1 DEF TypeOK, Ends
<1>7. \A v \in Users, y \in Entries : Holds(v, y)' <=> (IF v = u THEN y = e ELSE Holds(v, y))
  BY <1>3, <1>5 DEF Holds
<1>8. \A y \in Entries : InQueue(y)' <=> InQueue(y)
  BY DEF InQueue
<1>9. \A y \in Entries : ~Holds(u, y)
  BY AskedAlone
<1>10. TypeOK'
  BY <1>1, <1>4, <1>6 DEF TypeOK, passVars
<1>11. FreeInv'
  BY <1>1, <1>2, <1>5 DEF IInv, FreeInv
<1>12. OwnedInv'
  BY <1>1, <1>5, <1>7, <1>8, <1>9 DEF IInv, OwnedInv
<1>13. ApartInv'
  <2>1. \A y \in Entries : y \in free_list' \/ entry'[y].hashed => ~InQueue(y) /\ reading # y
    BY <1>1, <1>5, FreeAlone DEF IInv, ApartInv
  <2>2. \A v \in Users : ~Holds(v, e)
    BY FreeAlone
  <2>3. ASSUME NEW v \in Users, NEW y \in Entries, Holds(v, y)'
        PROVE  /\ y \notin free_list' /\ ~InQueue(y) /\ reading # y
               /\ \A t \in Users : Holds(t, y)' => t = v
    BY <2>2, <2>3, <1>1, <1>7, <1>9, FreeAlone DEF IInv, ApartInv
  <2>4. \A y \in Entries : InQueue(y) => reading # y
    BY DEF IInv, ApartInv
  <2> QED
    BY <2>1, <2>3, <2>4, <1>1, <1>8 DEF ApartInv
<1>14. OnceInv'
  BY DEF IInv, OnceInv
<1>15. HashInv'
  <2>1. HashInv
    BY DEF IInv
  <2>2. \A y \in Entries : entry[y].hashed => entry[y].mad # r /\ entry[y].mad \in Requests
    <3>1. entry \in [Entries -> States]
      BY <1>1 DEF TypeOK
    <3> QED
      BY <2>1, <3>1, AskedAlone DEF HashInv, States
  <2>3. \A y \in Entries : entry'[y].hashed => entry'[y].mad # None /\ outcome'[entry'[y].mad] = "asked"
    BY <2>1, <2>2, <1>1, <1>2, <1>5, <1>6 DEF HashInv
  <2>4. \A y, z \in Entries :
          entry'[y].hashed /\ entry'[z].hashed /\ entry'[y].mad = entry'[z].mad => y = z
    BY <2>1, <2>2, <1>2, <1>5 DEF HashInv
  <2>5. \A y \in todo' : entry'[y].hashed
    BY <2>1, <1>1, <1>5, FreeAlone DEF HashInv, TypeOK
  <2>6. \A s \in sent' : outcome'[s] # "new"
    BY <2>1, <1>1, <1>6 DEF HashInv, TypeOK
  <2> QED
    BY <2>3, <2>4, <2>5, <2>6 DEF HashInv
<1>16. UserInv'
  <2>1. UserInv
    BY DEF IInv
  <2>2. \A v \in Users : v # u /\ user[v].pc # "idle" => user[v].req # r
    BY AskedAlone
  <2>3. \A y \in Entries : entry[y].hashed => entry[y].mad # r
    BY AskedAlone
  <2> SUFFICES ASSUME NEW v \in Users, user'[v].pc # "idle"
               PROVE  /\ user'[v].req \in Requests \ sent' /\ outcome'[user'[v].req] = "asked"
                      /\ \A t \in Users : user'[t].pc # "idle" /\ user'[t].req = user'[v].req => t = v
                      /\ \A y \in Entries : entry'[y].hashed /\ entry'[y].mad = user'[v].req => Holds(v, y)'
    BY DEF UserInv
  <2>4. CASE v = u
    BY <2>2, <2>3, <2>4, <1>1, <1>3, <1>5, <1>6, <1>7
  <2>5. CASE v # u
    BY <2>1, <2>2, <2>5, <1>1, <1>2, <1>3, <1>5, <1>6, <1>7 DEF UserInv
  <2> QED
    BY <2>4, <2>5
<1>17. HoldInv'
  <2>1. lag = 0
    BY DEF IInv, PassInv
  <2>2. \A v \in Users, y \in Entries : Holds(v, y)' =>
          \/ v = u /\ y = e
          \/ v # u /\ y # e /\ Holds(v, y)
    BY <1>7, FreeAlone
  <2> QED
    BY <2>1, <2>2, <1>1, <1>2, <1>3, <1>5, ConstantsAssumption DEF IInv, HoldInv, ConstantsAssumption
<1>18. EntInv' /\ PassInv'
  BY <1>1, <1>3, <1>5 DEF IInv, EntInv, PassInv, Unlocked
<1> QED
  BY <1>10, <1>11, <1>12, <1>13, <1>14, <1>15, <1>16, <1>17, <1>18 DEF IInv

LEMMA GetWaitsKeepsInv ==
  ASSUME IInv, NEW u \in Users, NEW r \in Requests, Asks(u, r),
         numWaiters' = numWaiters + 1,
         user' = [user EXCEPT ![u] = [pc |-> "waiting", req |-> r, ent |-> None]],
         Ends(r, "asked"),
         UNCHANGED <<errorOnSendFail, entry, free_list, sema, resp_queue, passVars, reading, sent>>
  PROVE  IInv'
<1> DEFINE w == [pc |-> "waiting", req |-> r, ent |-> None]
<1>1. /\ TypeOK /\ r \notin sent /\ sent' = sent /\ reading' = reading /\ todo' = todo /\ lag' = lag
      /\ pass' = pass /\ free_list' = free_list /\ entry' = entry
      /\ \A y \in Entries : ~Holds(u, y)
  BY AskedAlone DEF IInv, passVars
<1>2. w \in UserStates /\ w.pc = "waiting" /\ w.req = r
  BY DEF UserStates
<1>3. /\ user' \in [Users -> UserStates]
      /\ \A v \in Users : user'[v] = IF v = u THEN w ELSE user[v]
  BY <1>1, <1>2 DEF TypeOK
<1> HIDE DEF w
<1>4. /\ outcome' \in [Requests -> {"new", "asked"} \cup Done]
      /\ \A s \in Requests : outcome'[s] = IF s = r THEN "asked" ELSE outcome[s]
  BY <1>1 DEF TypeOK, Ends
<1>5. \A v \in Users, y \in Entries : Holds(v, y)' <=> Holds(v, y)
  BY <1>1, <1>2, <1>3 DEF Holds
<1>6. \A y \in Entries : InQueue(y)' <=> InQueue(y)
  BY DEF InQueue
<1>7. TypeOK'
  <2>1. numWaiters' \in Nat
    BY <1>1 DEF TypeOK
  <2> QED
    BY <2>1, <1>1, <1>3, <1>4 DEF TypeOK, passVars
<1>8. FreeInv' /\ OwnedInv' /\ ApartInv' /\ OnceInv'
  <2>1. FreeInv' /\ OnceInv'
    BY <1>1 DEF IInv, FreeInv, OnceInv
  <2>2. OwnedInv'
    BY <1>1, <1>5, <1>6 DEF IInv, OwnedInv
  <2>3. ApartInv'
    BY <1>1, <1>5, <1>6 DEF IInv, ApartInv
  <2> QED
    BY <2>1, <2>2, <2>3
<1>9. HashInv'
  <2>1. HashInv
    BY DEF IInv
  <2>2. \A y \in Entries : entry[y].hashed => entry[y].mad \in Requests
    BY <2>1, <1>1 DEF HashInv, TypeOK, States
  <2>3. \A y \in Entries : entry[y].hashed => outcome'[entry[y].mad] = "asked"
    BY <2>1, <2>2, <1>4 DEF HashInv
  <2> QED
    BY <2>1, <2>3, <1>1, <1>4 DEF HashInv, TypeOK
<1>10. UserInv'
  <2>1. UserInv
    BY DEF IInv
  <2>2. /\ \A v \in Users : v # u /\ user[v].pc # "idle" => user[v].req # r
        /\ \A y \in Entries : entry[y].hashed => entry[y].mad # r
    BY AskedAlone
  <2> SUFFICES ASSUME NEW v \in Users, user'[v].pc # "idle"
               PROVE  /\ user'[v].req \in Requests \ sent /\ outcome'[user'[v].req] = "asked"
                      /\ \A t \in Users : user'[t].pc # "idle" /\ user'[t].req = user'[v].req => t = v
                      /\ \A y \in Entries : entry[y].hashed /\ entry[y].mad = user'[v].req => Holds(v, y)
    BY <1>1, <1>5 DEF UserInv
  <2>3. CASE v = u
    BY <2>2, <2>3, <1>1, <1>2, <1>3, <1>4
  <2>4. CASE v # u
    BY <2>1, <2>2, <2>4, <1>1, <1>2, <1>3, <1>4 DEF UserInv
  <2> QED
    BY <2>3, <2>4
<1>11. HoldInv'
  <2>1. \A v \in Users, y \in Entries : Holds(v, y) => user'[v] = user[v]
    BY <1>1, <1>3
  <2> QED
    BY <2>1, <1>1, <1>5 DEF IInv, HoldInv
<1>12. EntInv' /\ PassInv'
  BY <1>1, <1>2, <1>3 DEF IInv, EntInv, PassInv, Unlocked
<1> QED
  BY <1>7, <1>8, <1>9, <1>10, <1>11, <1>12 DEF IInv

LEMMA GetKeepsInv ==
  ASSUME IInv, NEW u \in Users, NEW r \in Requests, Get(u, r)
  PROVE  IInv'
<1>1. Asks(u, r) /\ Unlocked /\ Ends(r, "asked")
  BY DEF Get, Ends
<1>2. CASE free_list = {}
  <2>1. ~(\E e \in free_list : TRUE)
    BY <1>2
  <2> QED
    BY <2>1, <1>1, GetWaitsKeepsInv DEF Get
<1>3. CASE free_list # {}
  <2>1. PICK e \in free_list :
             /\ free_list' = free_list \ {e} /\ entry' = [entry EXCEPT ![e] = Gotten(r)]
             /\ user' = [user EXCEPT ![u] = [pc |-> "holding", req |-> r, ent |-> e]]
    BY <1>3 DEF Get
  <2>2. UNCHANGED <<errorOnSendFail, numWaiters, sema, resp_queue, passVars, reading, sent>>
    BY <1>3 DEF Get
  <2> QED
    BY <2>1, <2>2, <1>1, GetTakesKeepsInv
<1> QED
  BY <1>2, <1>3

LEMMA WaitKeepsInv ==
  ASSUME IInv, NEW u \in Users, Wait(u)
  PROVE  IInv'
<1>1. /\ UNCHANGED <<errorOnSendFail, entry, free_list, numWaiters, resp_queue, passVars, reading,
                     sent, outcome>>
      /\ TypeOK /\ user[u].pc = "waiting"
  BY DEF IInv, Wait
<1>2. /\ user' \in [Users -> UserStates]
      /\ \A v \in Users : /\ user'[v].req = user[v].req /\ user'[v].ent = user[v].ent
                          /\ user'[v].pc = IF v = u THEN "getting" ELSE user[v].pc
  <2>1. user' = [user EXCEPT ![u].pc = "getting"]
    BY DEF Wait
  <2> QED
    BY <2>1, <1>1 DEF TypeOK, UserStates
<1>3. \A v \in Users, y \in Entries : Holds(v, y)' <=> Holds(v, y)
  BY <1>1, <1>2 DEF Holds
<1>4. TypeOK'
  <2>1. sema' \in Nat
    BY <1>1 DEF Wait, TypeOK
  <2> QED
    BY <2>1, <1>1, <1>2 DEF TypeOK, passVars
<1>5. FreeInv' /\ OwnedInv' /\ ApartInv' /\ OnceInv'
  BY <1>1, <1>3 DEF IInv, FreeInv, OwnedInv, ApartInv, OnceInv, InQueue
<1>6. HashInv' /\ PassInv'
  BY <1>1 DEF IInv, HashInv, PassInv, Unlocked, passVars
<1>7. UserInv'
  BY <1>1, <1>2, <1>3 DEF IInv, UserInv
<1>8. HoldInv' /\ EntInv'
  BY <1>1, <1>2, <1>3 DEF IInv, HoldInv, EntInv, passVars
<1> QED
  BY <1>4, <1>5, <1>6, <1>7, <1>8 DEF IInv

\* What a user holds is the user's alone.
LEMMA HeldAlone ==
  ASSUME IInv, NEW u \in Users, NEW e, user[u].pc = "holding", e = user[u].ent, NEW r, r = user[u].req
  PROVE  /\ e \in Entries /\ Holds(u, e) /\ \A y \in Entries : Holds(u, y) => y = e
         /\ r \in Requests \ sent /\ r # None /\ outcome[r] = "asked"
         /\ entry[e] \in States /\ entry[e].mad = r /\ entry[e].retries = 0
         /\ e \notin free_list /\ ~InQueue(e) /\ reading # e
         /\ \A v \in Users : Holds(v, e) => v = u
         /\ \A v \in Users : user[v].pc # "idle" /\ user[v].req = r => v = u
         /\ \A y \in Entries : entry[y].hashed /\ entry[y].mad = r => y = e
<1>1. e \in Entries /\ Holds(u, e) /\ \A y \in Entries : Holds(u, y) => y = e
  BY DEF IInv, EntInv, Holds
<1>2. /\ r \in Requests \ sent /\ outcome[r] = "asked"
      /\ \A v \in Users : user[v].pc # "idle" /\ user[v].req = r => v = u
      /\ \A y \in Entries : entry[y].hashed /\ entry[y].mad = r => y = e
  BY <1>1 DEF IInv, UserInv
<1>3. entry[e] \in States /\ entry[e].mad = r /\ entry[e].retries = 0 /\ r # None
  BY <1>1, <1>2, ConstantsAssumption DEF IInv, HoldInv, TypeOK, ConstantsAssumption
<1>4. e \notin free_list /\ ~InQueue(e) /\ reading # e /\ \A v \in Users : Holds(v, e) => v = u
  BY <1>1 DEF IInv, ApartInv
<1> QED
  BY <1>1, <1>2, <1>3, <1>4

LEMMA SendTriesKeepsInv ==
  ASSUME IInv, NEW u \in Users, user[u].pc = "holding", Unlocked, NEW e, e = user[u].ent,
         NEW ok \in BOOLEAN, user' = [user EXCEPT ![u] = Idle],
         entry' = [entry EXCEPT ![e] = Attempted(entry[e], ok)], OnItsWay(entry[e].mad, ok),
         UNCHANGED <<poolVars, outcome, errorOnSendFail, resp_queue, passVars, reading>>
  PROVE  IInv'
<1> DEFINE r == user[u].req
<1> DEFINE x == Attempted(entry[e], ok)
<1>1. /\ TypeOK /\ e \in Entries /\ Holds(u, e) /\ \A y \in Entries : Holds(u, y) => y = e
      /\ r \in Requests \ sent /\ r # None /\ outcome[r] = "asked"
      /\ entry[e] \in States /\ entry[e].mad = r /\ entry[e].retries = 0
      /\ e \notin free_list /\ ~InQueue(e) /\ reading # e
      /\ \A v \in Users : Holds(v, e) => v = u
      /\ \A v \in Users : user[v].pc # "idle" /\ user[v].req = r => v = u
      /\ \A y \in Entries : entry[y].hashed /\ entry[y].mad = r => y = e
  BY HeldAlone DEF IInv
<1>2. x.mad = r /\ x.hashed /\ x \in States
  BY <1>1, EntryTypes, EntryFields, ConstantsAssumption DEF ConstantsAssumption
<1>3. /\ entry' \in [Entries -> States]
      /\ \A y \in Entries : entry'[y] = IF y = e THEN x ELSE entry[y]
  BY <1>1, <1>2 DEF TypeOK
<1> HIDE DEF x
<1>4. Idle \in UserStates /\ Idle.pc = "idle"
  BY DEF Idle, UserStates
<1>5. /\ user' \in [Users -> UserStates]
      /\ \A v \in Users : user'[v] = IF v = u THEN Idle ELSE user[v]
  BY <1>1, <1>4 DEF TypeOK
<1>6. \A v \in Users, y \in Entries : Holds(v, y)' <=> (v # u /\ Holds(v, y))
  BY <1>4, <1>5 DEF Holds
<1>7. \A y \in Entries : InQueue(y)' <=> InQueue(y)
  BY DEF InQueue
<1>8. /\ reading' = reading /\ todo' = todo /\ lag' = lag /\ pass' = pass
      /\ free_list' = free_list /\ outcome' = outcome /\ todo = {}
      /\ sent' \subseteq sent \cup {r} /\ sent' \subseteq Requests
  BY <1>1 DEF passVars, poolVars, IInv, PassInv, OnItsWay, TypeOK
<1>9. TypeOK'
  BY <1>1, <1>3, <1>5, <1>8 DEF TypeOK, passVars, poolVars
<1>10. FreeInv' /\ OnceInv'
  BY <1>1, <1>2, <1>3, <1>8 DEF IInv, FreeInv, OnceInv
<1>11. OwnedInv'
  BY <1>1, <1>2, <1>3, <1>6, <1>7, <1>8 DEF IInv, OwnedInv
<1>12. ApartInv'
  BY <1>1, <1>3, <1>6, <1>7, <1>8 DEF IInv, ApartInv
<1>13. HashInv'
  <2>1. HashInv
    BY DEF IInv
  <2>2. \A y, z \in Entries :
          entry'[y].hashed /\ entry'[z].hashed /\ entry'[y].mad = entry'[z].mad => y = z
    BY <2>1, <1>1, <1>2, <1>3 DEF HashInv
  <2>3. \A y \in Entries : entry'[y].hashed => entry'[y].mad # None /\ outcome'[entry'[y].mad] = "asked"
    BY <2>1, <1>1, <1>2, <1>3, <1>8 DEF HashInv
  <2> QED
    BY <2>1, <2>2, <2>3, <1>1, <1>8 DEF HashInv
<1>14. UserInv'
  <2>1. UserInv
    BY DEF IInv
  <2> SUFFICES ASSUME NEW v \in Users, v # u, user[v].pc # "idle"
               PROVE  /\ user[v].req \in Requests \ sent' /\ outcome[user[v].req] = "asked"
                      /\ \A t \in Users : user'[t].pc # "idle" /\ user'[t].req = user[v].req => t = v
                      /\ \A y \in Entries : entry'[y].hashed /\ entry'[y].mad = user[v].req => Holds(v, y)
    BY <1>4, <1>5, <1>6, <1>8 DEF UserInv
  <2>2. user[v].req # r
    BY <1>1
  <2> QED
    BY <2>1, <2>2, <1>1, <1>2, <1>3, <1>4, <1>5, <1>8 DEF UserInv
<1>15. HoldInv'
  <2>1. \A v \in Users, y \in Entries : Holds(v, y)' =>
          Holds(v, y) /\ entry'[y] = entry[y] /\ user'[v] = user[v]
    BY <1>1, <1>3, <1>5, <1>6
  <2> QED
    BY <2>1, <1>8 DEF IInv, HoldInv
<1>16. EntInv' /\ PassInv'
  BY <1>4, <1>5, <1>8 DEF IInv, EntInv, PassInv, Unlocked
<1> QED
  BY <1>9, <1>10, <1>11, <1>12, <1>13, <1>14, <1>15, <1>16 DEF IInv

LEMMA SendFailsKeepsInv ==
  ASSUME IInv, NEW u \in Users, user[u].pc = "holding", Unlocked, NEW e, e = user[u].ent,
         user' = [user EXCEPT ![u] = Idle], Frees(e), Wake, Ends(user[u].req, "failed"),
         UNCHANGED <<sent, errorOnSendFail, resp_queue, passVars, reading>>
  PROVE  IInv'
<1> DEFINE r == user[u].req
<1>1. /\ TypeOK /\ e \in Entries /\ Holds(u, e) /\ \A y \in Entries : Holds(u, y) => y = e
      /\ r \in Requests \ sent /\ r # None /\ outcome[r] = "asked"
      /\ entry[e].mad = r
      /\ e \notin free_list /\ ~InQueue(e) /\ reading # e
      /\ \A v \in Users : Holds(v, e) => v = u
      /\ \A v \in Users : user[v].pc # "idle" /\ user[v].req = r => v = u
      /\ \A y \in Entries : entry[y].hashed /\ entry[y].mad = r => y = e
  BY HeldAlone DEF IInv
<1>2. Blank.mad = None /\ ~Blank.hashed /\ Blank \in States
  BY EntryTypes, EntryFields
<1>3. /\ entry' \in [Entries -> States] /\ free_list' = free_list \cup {e}
      /\ \A y \in Entries : entry'[y] = IF y = e THEN Blank ELSE entry[y]
  BY <1>1, <1>2 DEF TypeOK, Frees
<1>4. Idle \in UserStates /\ Idle.pc = "idle"
  BY DEF Idle, UserStates
<1>5. /\ user' \in [Users -> UserStates]
      /\ \A v \in Users : user'[v] = IF v = u THEN Idle ELSE user[v]
  BY <1>1, <1>4 DEF TypeOK
<1>6. \A v \in Users, y \in Entries : Holds(v, y)' <=> (v # u /\ Holds(v, y))
  BY <1>4, <1>5 DEF Holds
<1>7. \A y \in Entries : InQueue(y)' <=> InQueue(y)
  BY DEF InQueue
<1>8. /\ reading' = reading /\ todo' = todo /\ lag' = lag /\ pass' = pass
      /\ todo = {} /\ sent' = sent
  BY DEF passVars, IInv, PassInv
<1>9. /\ outcome' \in [Requests -> {"new", "asked"} \cup Done]
      /\ \A s \in Requests : outcome'[s] = IF s = r THEN "failed" ELSE outcome[s]
  <2>1. "failed" \in Done
    BY DEF Done
  <2> QED
    BY <2>1, <1>1 DEF TypeOK, Ends
<1>10. TypeOK'
  <2>1. WakeTypes
    BY <1>1, WakeIsTyped
  <2> QED
    BY <2>1, <1>1, <1>3, <1>5, <1>8, <1>9 DEF TypeOK, passVars, WakeTypes
<1>11. FreeInv' /\ OnceInv'
  BY <1>1, <1>2, <1>3 DEF IInv, FreeInv, OnceInv
<1>12. OwnedInv'
  BY <1>1, <1>2, <1>3, <1>6, <1>7, <1>8 DEF IInv, OwnedInv
<1>13. ApartInv'
  <2>1. ApartInv
    BY DEF IInv
  <2>2. \A y \in Entries : y \in free_list' \/ entry'[y].hashed => ~InQueue(y) /\ reading # y
    BY <2>1, <1>1, <1>2, <1>3 DEF ApartInv
  <2>3. ASSUME NEW v \in Users, NEW y \in Entries, v # u, Holds(v, y)
        PROVE  y \notin free_list'
    BY <2>1, <2>3, <1>1, <1>3 DEF ApartInv
  <2> QED
    BY <2>1, <2>2, <2>3, <1>6, <1>7, <1>8 DEF ApartInv
<1>14. HashInv'
  <2>1. HashInv
    BY DEF IInv
  <2>2. \A y \in Entries : entry'[y].hashed =>
          /\ y # e /\ entry[y].hashed /\ entry'[y].mad = entry[y].mad
          /\ entry[y].mad # r /\ entry[y].mad \in Requests
    <3>1. entry \in [Entries -> States]
      BY <1>1 DEF TypeOK
    <3> QED
      BY <3>1, <2>1, <1>1, <1>2, <1>3 DEF HashInv, States
  <2>3. \A y \in Entries : entry'[y].hashed => entry'[y].mad # None /\ outcome'[entry'[y].mad] = "asked"
    BY <2>1, <2>2, <1>9 DEF HashInv
  <2>4. \A s \in sent' : outcome'[s] # "new"
    BY <2>1, <1>1, <1>8, <1>9 DEF HashInv, TypeOK
  <2> QED
    BY <2>1, <2>2, <2>3, <2>4, <1>8 DEF HashInv
<1>15. UserInv'
  <2>1. UserInv
    BY DEF IInv
  <2> SUFFICES ASSUME NEW v \in Users, v # u, user[v].pc # "idle"
               PROVE  /\ user[v].req \in Requests \ sent /\ outcome'[user[v].req] = "asked"
                      /\ \A t \in Users : user'[t].pc # "idle" /\ user'[t].req = user[v].req => t = v
                      /\ \A y \in Entries : entry'[y].hashed /\ entry'[y].mad = user[v].req => Holds(v, y)
    BY <1>4, <1>5, <1>6, <1>8 DEF UserInv
  <2>2. user[v].req # r
    BY <1>1
  <2> QED
    BY <2>1, <2>2, <1>1, <1>2, <1>3, <1>4, <1>5, <1>9 DEF UserInv
<1>16. HoldInv'
  <2>1. \A v \in Users, y \in Entries : Holds(v, y)' =>
          Holds(v, y) /\ entry'[y] = entry[y] /\ user'[v] = user[v]
    BY <1>1, <1>3, <1>5, <1>6
  <2> QED
    BY <2>1, <1>8 DEF IInv, HoldInv
<1>17. EntInv' /\ PassInv'
  BY <1>4, <1>5, <1>8 DEF IInv, EntInv, PassInv, Unlocked
<1> QED
  BY <1>10, <1>11, <1>12, <1>13, <1>14, <1>15, <1>16, <1>17 DEF IInv

LEMMA SendKeepsInv ==
  ASSUME IInv, NEW u \in Users, Send(u)
  PROVE  IInv'
<1> DEFINE e == user[u].ent
<1>1. /\ Unlocked /\ user[u].pc = "holding" /\ user' = [user EXCEPT ![u] = Idle]
      /\ UNCHANGED <<errorOnSendFail, resp_queue, passVars, reading>>
  BY DEF Send
<1>2. CASE /\ \E ok \in BOOLEAN : /\ entry' = [entry EXCEPT ![e] = Attempted(entry[e], ok)]
                                  /\ OnItsWay(entry[e].mad, ok)
           /\ UNCHANGED <<poolVars, outcome>>
  BY <1>1, <1>2, SendTriesKeepsInv
<1>3. CASE Frees(e) /\ Wake /\ Ends(user[u].req, "failed") /\ UNCHANGED sent
  BY <1>1, <1>3, SendFailsKeepsInv
<1> QED
  BY <1>2, <1>3 DEF Send, Retire, Frees, Ends

-----------------------------------------------------------------------------
(* The poller. *)

\* A request that is new is sent with an entry that is free, or that the poller has.
LEMMA StartKeepsInv ==
  ASSUME IInv, Unlocked, NEW r \in Requests, outcome[r] = "new", NEW ok \in BOOLEAN,
         NEW e \in Entries, e \in free_list \/ reading = e,
         reading' \in {reading, None}, reading' # e, reading' = reading \/ reading = e,
         free_list' = free_list \ {e},
         entry' = [entry EXCEPT ![e] = Attempted(Reserved(r), ok)],
         OnItsWay(r, ok), Ends(r, "asked"),
         UNCHANGED <<errorOnSendFail, numWaiters, sema, resp_queue, passVars, user>>
  PROVE  IInv'
<1> DEFINE x == Attempted(Reserved(r), ok)
<1>1. /\ TypeOK /\ ~entry[e].hashed /\ ~InQueue(e) /\ \A u \in Users : ~Holds(u, e)
      /\ r # None
  <2>1. CASE e \in free_list
    BY <2>1, FreeAlone, ConstantsAssumption DEF ConstantsAssumption, IInv
  <2>2. CASE reading = e
    BY <2>2, ConstantsAssumption DEF ConstantsAssumption, IInv, ApartInv
  <2> QED
    BY <2>1, <2>2
<1>2. x.mad = r /\ x.hashed /\ x \in States
  <2>1. 0 < MaxRetries
    BY ConstantsAssumption DEF ConstantsAssumption
  <2>2. Reserved(r) \in States /\ Reserved(r).retries = 0 /\ Reserved(r).mad = r
    BY EntryTypes, EntryFields
  <2> QED
    BY <2>1, <2>2, EntryTypes, EntryFields
<1>3. /\ entry' \in [Entries -> States]
      /\ \A y \in Entries : entry'[y] = IF y = e THEN x ELSE entry[y]
  BY <1>1, <1>2 DEF TypeOK
<1> HIDE DEF x
<1>4. /\ outcome' \in [Requests -> {"new", "asked"} \cup Done]
      /\ \A s \in Requests : outcome'[s] = IF s = r THEN "asked" ELSE outcome[s]
  BY <1>1 DEF TypeOK, Ends
<1>5. \A y \in Entries : InQueue(y)' <=> InQueue(y)
  BY DEF InQueue
<1>6. /\ user' = user /\ todo' = todo /\ lag' = lag /\ pass' = pass /\ todo = {}
      /\ \A u \in Users, y \in Entries : Holds(u, y)' <=> Holds(u, y)
  BY DEF passVars, IInv, PassInv, Holds
<1>7. sent' \subseteq Requests /\ sent \subseteq sent' /\ sent' \subseteq sent \cup {r}
  BY <1>1 DEF OnItsWay, TypeOK
<1>8. TypeOK'
  BY <1>1, <1>3, <1>4, <1>6, <1>7 DEF TypeOK, passVars
<1>9. FreeInv' /\ OnceInv'
  BY <1>1, <1>2, <1>3 DEF IInv, FreeInv, OnceInv
<1>10. OwnedInv'
  BY <1>1, <1>2, <1>3, <1>5, <1>6 DEF IInv, OwnedInv
<1>11. ApartInv'
  <2>1. ApartInv
    BY DEF IInv
  <2>2. None \notin Entries
    BY ConstantsAssumption DEF ConstantsAssumption
  <2>3. \A y \in Entries : y \in free_list' \/ entry'[y].hashed => ~InQueue(y) /\ reading' # y
    BY <2>1, <2>2, <1>1, <1>3 DEF ApartInv
  <2>4. \A y \in Entries : InQueue(y) => reading' # y
    BY <2>1, <2>2 DEF ApartInv
  <2>5. \A u \in Users, y \in Entries : Holds(u, y) => y \notin free_list' /\ reading' # y
    BY <2>1, <2>2, <1>1 DEF ApartInv
  <2> QED
    BY <2>1, <2>3, <2>4, <2>5, <1>5, <1>6 DEF ApartInv
<1>12. HashInv'
  <2>1. HashInv
    BY DEF IInv
  <2>2. \A y \in Entries : entry[y].hashed => entry[y].mad # r /\ entry[y].mad \in Requests
    <3>1. entry \in [Entries -> States]
      BY <1>1 DEF TypeOK
    <3> QED
      BY <2>1, <3>1 DEF HashInv, States
  <2>3. \A y \in Entries : entry'[y].hashed => entry'[y].mad # None /\ outcome'[entry'[y].mad] = "asked"
    BY <2>1, <2>2, <1>1, <1>2, <1>3, <1>4 DEF HashInv
  <2>4. \A y, z \in Entries :
          entry'[y].hashed /\ entry'[z].hashed /\ entry'[y].mad = entry'[z].mad => y = z
    BY <2>1, <2>2, <1>2, <1>3 DEF HashInv
  <2>5. \A s \in sent' : outcome'[s] # "new"
    BY <2>1, <1>4, <1>7 DEF HashInv
  <2> QED
    BY <2>3, <2>4, <2>5, <1>6 DEF HashInv
<1>13. UserInv'
  <2>1. UserInv
    BY DEF IInv
  <2> SUFFICES ASSUME NEW u \in Users, user[u].pc # "idle"
               PROVE  /\ user[u].req \in Requests \ sent' /\ outcome'[user[u].req] = "asked"
                      /\ \A y \in Entries : entry'[y].hashed /\ entry'[y].mad = user[u].req => Holds(u, y)
    BY <2>1, <1>6 DEF UserInv
  <2>2. user[u].req \in Requests /\ user[u].req # r
    BY <2>1 DEF UserInv
  <2> QED
    BY <2>1, <2>2, <1>2, <1>3, <1>4, <1>7 DEF UserInv
<1>14. HoldInv'
  <2>1. ASSUME NEW u \in Users, NEW y \in Entries, Holds(u, y)
        PROVE  entry'[y] = entry[y]
    BY <2>1, <1>1, <1>3
  <2> QED
    BY <2>1, <1>6 DEF HoldInv, IInv
<1>15. EntInv' /\ PassInv'
  BY <1>6 DEF IInv, EntInv, PassInv, Unlocked
<1> QED
  BY <1>8, <1>9, <1>10, <1>11, <1>12, <1>13, <1>14, <1>15 DEF IInv

LEMMA ReadKeepsInv ==
  ASSUME IInv, Read
  PROVE  IInv'
<1>1. /\ reading = None /\ resp_queue # <<>> /\ TypeOK
      /\ reading' = Head(resp_queue) /\ resp_queue' = Tail(resp_queue)
      /\ UNCHANGED <<errorOnSendFail, entry, poolVars, passVars, user, sent, outcome>>
  BY DEF Read, IInv
<1>2. resp_queue \in Seq(Entries)
  BY <1>1 DEF TypeOK
<1> DEFINE n == Len(resp_queue)
<1>3. n \in Nat \ {0} /\ reading' = resp_queue[1] /\ reading' \in Entries
  BY <1>1, <1>2, EmptySeq, HeadTailProperties
<1>4. /\ resp_queue' \in Seq(Entries) /\ Len(resp_queue') = n - 1
      /\ \A i \in 1..n - 1 : resp_queue'[i] = resp_queue[i + 1]
  BY <1>1, <1>2, HeadTailProperties
<1>5. OnceInv
  BY DEF IInv
<1>6. \A y \in Entries : InQueue(y)' => InQueue(y) /\ y # reading'
  <2> SUFFICES ASSUME NEW y \in Entries, InQueue(y)'
               PROVE  InQueue(y) /\ y # reading'
    OBVIOUS
  <2>1. PICK i \in 1..n - 1 : resp_queue'[i] = y
    BY <1>4 DEF InQueue
  <2>2. i + 1 \in 1..n /\ 1 \in 1..n /\ i + 1 # 1 /\ resp_queue[i + 1] = y
    BY <2>1, <1>3, <1>4
  <2>3. InQueue(y)
    BY <2>2 DEF InQueue
  <2>4. resp_queue[i + 1] # resp_queue[1]
    BY <2>2, <1>5 DEF OnceInv
  <2> QED
    BY <2>2, <2>3, <2>4, <1>3
<1>7. \A y \in Entries : InQueue(y) => InQueue(y)' \/ y = reading'
  <2> SUFFICES ASSUME NEW y \in Entries, NEW i \in 1..n, resp_queue[i] = y, i # 1
               PROVE  InQueue(y)'
    BY <1>3 DEF InQueue
  <2>1. i - 1 \in 1..n - 1 /\ (i - 1) + 1 = i
    BY <1>3
  <2> DEFINE j == i - 1
  <2>2. j \in 1..n - 1 /\ resp_queue'[j] = y
    BY <2>1, <1>4
  <2> QED
    BY <2>2, <1>4 DEF InQueue
<1>8. InQueue(reading')
  BY <1>3 DEF InQueue
<1>9. \A u \in Users, y \in Entries : Holds(u, y)' <=> Holds(u, y)
  BY <1>1 DEF Holds
<1>10. TypeOK'
  BY <1>1, <1>3, <1>4 DEF TypeOK, poolVars, passVars
<1>11. FreeInv'
  BY <1>1 DEF IInv, FreeInv, poolVars
<1>12. OwnedInv'
  <2>1. None \notin Entries
    BY ConstantsAssumption DEF ConstantsAssumption
  <2> QED
    BY <2>1, <1>1, <1>7, <1>9 DEF IInv, OwnedInv, poolVars
<1>13. ApartInv'
  <2>1. ApartInv
    BY DEF IInv
  <2>2. \A y \in Entries : y \in free_list \/ entry[y].hashed => ~InQueue(y)' /\ reading' # y
    BY <2>1, <1>6, <1>8 DEF ApartInv
  <2>3. \A u \in Users, y \in Entries : Holds(u, y) => y \notin free_list /\ ~InQueue(y)' /\ reading' # y
    BY <2>1, <1>6, <1>8 DEF ApartInv
  <2> QED
    BY <2>1, <2>2, <2>3, <1>1, <1>6, <1>9 DEF ApartInv, poolVars
<1>14. OnceInv'
  <2> SUFFICES ASSUME NEW i \in 1..n - 1, NEW j \in 1..n - 1, resp_queue'[i] = resp_queue'[j]
               PROVE  i = j
    BY <1>4 DEF OnceInv
  <2>1. i + 1 \in 1..n /\ j + 1 \in 1..n /\ resp_queue[i + 1] = resp_queue[j + 1]
    BY <1>3, <1>4
  <2>2. i + 1 = j + 1
    BY <2>1, <1>5 DEF OnceInv
  <2> QED
    BY <2>2
<1>15. HashInv' /\ UserInv'
  BY <1>1, <1>9 DEF IInv, HashInv, UserInv, passVars
<1>16. HoldInv' /\ EntInv' /\ PassInv'
  BY <1>1, <1>9 DEF IInv, HoldInv, EntInv, PassInv, Unlocked, passVars
<1> QED
  BY <1>10, <1>11, <1>12, <1>13, <1>14, <1>15, <1>16 DEF IInv

LEMMA RetireReadKeepsInv ==
  ASSUME IInv, RetireRead
  PROVE  IInv'
<1> DEFINE e == reading
<1>1. /\ TypeOK /\ Unlocked /\ reading' = None /\ None \notin Entries
      /\ entry' = [entry EXCEPT ![e] = Blank] /\ free_list' = free_list \cup {e} /\ Wake
      /\ UNCHANGED <<errorOnSendFail, resp_queue, passVars, user, sent, outcome>>
  BY ConstantsAssumption DEF RetireRead, Retire, IInv, ConstantsAssumption
<1>2. /\ e \in Entries /\ e \notin free_list /\ ~entry[e].hashed /\ ~InQueue(e)
      /\ \A u \in Users : ~Holds(u, e)
  <2>1. e \in Entries
    BY <1>1 DEF RetireRead, TypeOK
  <2> QED
    BY <2>1 DEF IInv, ApartInv
<1>3. Blank.mad = None /\ ~Blank.hashed /\ Blank \in States
  BY EntryTypes, EntryFields
<1>4. /\ entry' \in [Entries -> States]
      /\ \A y \in Entries : entry'[y] = IF y = e THEN Blank ELSE entry[y]
  BY <1>1, <1>2, <1>3 DEF TypeOK
<1>5. \A y \in Entries : InQueue(y)' <=> InQueue(y)
  BY <1>1 DEF InQueue
<1>6. /\ user' = user /\ todo' = todo /\ lag' = lag /\ pass' = pass /\ todo = {}
      /\ sent' = sent /\ outcome' = outcome
      /\ \A u \in Users, y \in Entries : Holds(u, y)' <=> Holds(u, y)
  BY <1>1 DEF passVars, IInv, PassInv, Holds
<1>7. TypeOK'
  <2>1. WakeTypes
    BY <1>1, WakeIsTyped
  <2> QED
    BY <2>1, <1>1, <1>2, <1>4 DEF TypeOK, passVars, WakeTypes
<1>8. FreeInv' /\ OnceInv'
  BY <1>1, <1>3, <1>4 DEF IInv, FreeInv, OnceInv
<1>9. OwnedInv'
  BY <1>1, <1>2, <1>3, <1>4, <1>5, <1>6 DEF IInv, OwnedInv
<1>10. ApartInv'
  <2>1. ApartInv
    BY DEF IInv
  <2>2. \A y \in Entries : y \in free_list' \/ entry'[y].hashed => ~InQueue(y)
    BY <2>1, <1>1, <1>2, <1>3, <1>4 DEF ApartInv
  <2>3. \A u \in Users, y \in Entries : Holds(u, y) => y \notin free_list' /\ ~InQueue(y)
    BY <2>1, <1>1, <1>2 DEF ApartInv
  <2> QED
    BY <2>1, <2>2, <2>3, <1>1, <1>5, <1>6 DEF ApartInv
<1>11. HashInv'
  BY <1>3, <1>4, <1>6 DEF IInv, HashInv
<1>12. UserInv'
  BY <1>3, <1>4, <1>6 DEF IInv, UserInv
<1>13. HoldInv'
  <2>1. ASSUME NEW u \in Users, NEW y \in Entries, Holds(u, y)
        PROVE  entry'[y] = entry[y]
    BY <2>1, <1>2, <1>4
  <2> QED
    BY <2>1, <1>6 DEF HoldInv, IInv
<1>14. EntInv' /\ PassInv'
  BY <1>6 DEF IInv, EntInv, PassInv, Unlocked
<1> QED
  BY <1>7, <1>8, <1>9, <1>10, <1>11, <1>12, <1>13, <1>14 DEF IInv

LEMMA PollerKeepsInv ==
  ASSUME IInv, Poller
  PROVE  IInv'
<1>1. None \notin Entries
  BY ConstantsAssumption DEF ConstantsAssumption
<1>2. ASSUME NEW r \in Requests, ReuseRead(r)
      PROVE  IInv'
  <2>1. /\ Unlocked /\ outcome[r] = "new" /\ reading' = None /\ Ends(r, "asked")
        /\ UNCHANGED <<errorOnSendFail, poolVars, resp_queue, passVars, user>>
    BY <1>2 DEF ReuseRead, Ends
  <2>2. reading \in Entries /\ reading \notin free_list
    BY <1>2 DEF ReuseRead, IInv, TypeOK, ApartInv
  <2>3. PICK ok \in BOOLEAN : /\ entry' = [entry EXCEPT ![reading] = Attempted(Reserved(r), ok)]
                              /\ OnItsWay(r, ok)
    BY <1>2 DEF ReuseRead
  <2>4. PICK e \in Entries : e = reading
    BY <2>2
  <2>5. free_list' = free_list \ {e}
    BY <2>1, <2>2, <2>4 DEF poolVars
  <2> QED
    BY <1>1, <2>1, <2>3, <2>4, <2>5, StartKeepsInv DEF poolVars
<1> QED
  BY <1>2, ReadKeepsInv, RetireReadKeepsInv DEF Poller

LEMMA SubmitKeepsInv ==
  ASSUME IInv, NEW r \in Requests, Submit(r)
  PROVE  IInv'
<1>1. /\ Unlocked /\ outcome[r] = "new" /\ Ends(r, "asked")
      /\ UNCHANGED <<errorOnSendFail, numWaiters, sema, resp_queue, passVars, user, reading>>
  BY DEF Submit, Ends
<1>2. PICK e \in free_list, ok \in BOOLEAN :
        /\ free_list' = free_list \ {e}
        /\ entry' = [entry EXCEPT ![e] = Attempted(Reserved(r), ok)]
        /\ OnItsWay(r, ok)
  BY DEF Submit
<1>3. e \in Entries /\ reading # e
  BY FreeAlone
<1> QED
  BY <1>1, <1>2, <1>3, StartKeepsInv

-----------------------------------------------------------------------------
(* Answers, and all together. *)

\* What has been sent is in no user's hands.
LEMMA ArriveReleases ==
  ASSUME IInv, NEW r \in Requests, Arrive(r), NEW e \in Entries, Matches(e, r)
  PROVE  Releasing(e)
<1>1. \A u \in Users : ~Holds(u, e)
  BY DEF IInv, HoldInv, UserInv, Holds, Matches, Arrive
<1>2. todo' \subseteq todo \ {e}
  BY DEF Arrive, passVars, IInv, PassInv
<1> QED
  BY <1>1, <1>2 DEF Releasing, Arrive, Matches, passVars

LEMMA ArrivalKeepsInv ==
  ASSUME IInv, NEW r \in Requests, FindRelease(r) \/ FindReleaseError(r)
  PROVE  IInv'
<1>1. Arrive(r) /\ "answered" \in Done /\ 0 \in 0..MaxLag
  BY ConstantsAssumption DEF FindRelease, FindReleaseError, Done, ConstantsAssumption
<1>2. ASSUME NEW e \in Entries, Matches(e, r), Release(e, "answered")
      PROVE  IInv'
  BY <1>1, <1>2, ArriveReleases, ReleaseKeepsInv
<1>3. ASSUME NEW e \in Entries, Matches(e, r), Expire(e, 0)
      PROVE  IInv'
  BY <1>1, <1>3, ArriveReleases, ExpireKeepsInv
<1> QED
  BY <1>2, <1>3 DEF FindRelease, FindReleaseError

LEMMA StepKeepsInv ==
  ASSUME IInv, InTime, [Next]_vars
  PROVE  IInv'
<1>1. CASE AgeStep
  BY <1>1, PassKeepsInv, AgeEntryKeepsInv DEF AgeStep
<1>2. CASE Tick
  BY <1>2, TickKeepsInv
<1>3. CASE \E r \in Requests : FindRelease(r) \/ FindReleaseError(r) \/ Submit(r)
  BY <1>3, ArrivalKeepsInv, SubmitKeepsInv
<1>4. CASE \E u \in Users : Wait(u) \/ Send(u) \/ \E r \in Requests : Get(u, r)
  BY <1>4, WaitKeepsInv, SendKeepsInv, GetKeepsInv
<1>5. CASE Poller
  BY <1>5, PollerKeepsInv
<1>6. CASE UNCHANGED vars
  <2>1. UNCHANGED <<errorOnSendFail, entry, free_list, numWaiters, sema, resp_queue, pass, todo, lag,
                    user, reading, sent, outcome>>
    BY <1>6 DEF vars, poolVars, passVars
  <2>2. TypeOK' /\ FreeInv' /\ OwnedInv' /\ ApartInv' /\ OnceInv'
    BY <2>1 DEF IInv, TypeOK, FreeInv, OwnedInv, ApartInv, OnceInv, Holds, InQueue
  <2>3. HashInv' /\ UserInv' /\ HoldInv' /\ EntInv' /\ PassInv'
    BY <2>1 DEF IInv, HashInv, UserInv, HoldInv, EntInv, PassInv, Holds, Unlocked
  <2> QED
    BY <2>2, <2>3 DEF IInv
<1> QED
  BY <1>1, <1>2, <1>3, <1>4, <1>5, <1>6 DEF Next

LEMMA InitInv == Init => IInv
<1> SUFFICES ASSUME Init PROVE IInv
  OBVIOUS
<1>1. Blank \in States /\ Blank.mad = None /\ ~Blank.hashed /\ None \notin Entries
  BY EntryTypes, EntryFields, ConstantsAssumption DEF ConstantsAssumption
<1>2. Idle \in UserStates /\ Idle.pc = "idle"
  BY DEF Idle, UserStates
<1>3. TypeOK
  BY <1>1, <1>2, ConstantsAssumption DEF Init, TypeOK, ConstantsAssumption
<1>4. FreeInv /\ OwnedInv /\ ApartInv /\ OnceInv
  BY <1>1, <1>2 DEF Init, FreeInv, OwnedInv, ApartInv, OnceInv, Holds, InQueue
<1>5. HashInv /\ UserInv /\ HoldInv /\ EntInv /\ PassInv
  BY <1>1, <1>2 DEF Init, HashInv, UserInv, HoldInv, EntInv, PassInv, Holds, Unlocked
<1> QED
  BY <1>3, <1>4, <1>5 DEF IInv

LEMMA Invariance == Spec /\ []InTime => []IInv
<1>1. IInv /\ InTime /\ [Next]_vars => IInv'
  BY StepKeepsInv
<1> QED
  BY InitInv, <1>1, PTL DEF Spec

\* What no cs_cntxt_get has hashed is on no list while a user holds it.
LEMMA UnhashedIsInTime ==
  ASSUME Early = {}
  PROVE  Spec => []InTime
<1>1. IInv => InTime
  BY DEF IInv, HoldInv, InTime
<1>2. IInv /\ [Next]_vars => IInv'
  BY <1>1, StepKeepsInv
<1> QED
  BY InitInv, <1>1, <1>2, PTL DEF Spec

-----------------------------------------------------------------------------
(* Theorems. *)

\* Where users send in time every variable has its type; between two calls no
\* context has counted more than maxRetries attempts (cs_cntxt_timeout_entry).
THEOREM TypeCorrect == Spec /\ []InTime => []TypeOK
<1>1. IInv => TypeOK
  BY DEF IInv
<1> QED
  BY <1>1, Invariance, PTL

\* Where users send what cs_cntxt_get has hashed before it is due, every entry of
\* the pool is free or in exactly one place: no release, retire, reuse or
\* call-back loses one or gives it to two.
THEOREM EntriesOwned == Spec /\ []InTime => []OneOwner
<1>1. IInv => OneOwner
  BY DEF IInv, FreeInv, OwnedInv, ApartInv, OnceInv, OneOwner
<1> QED
  BY <1>1, Invariance, PTL

\* What a release does to the requests.
LEMMA ReleaseOutcomes ==
  ASSUME IInv, NEW e \in Entries, Releasing(e), NEW result \in Done, Release(e, result)
  PROVE  /\ entry[e].mad \in Requests /\ outcome[entry[e].mad] = "asked"
         /\ outcome'[entry[e].mad] = result
         /\ \A s \in Requests : s # entry[e].mad =>
              outcome'[s] = outcome[s] \/ (outcome[s] = "new" /\ outcome'[s] = "asked")
<1> DEFINE q == entry[e].mad
<1>1. TypeOK /\ q \in Requests /\ outcome[q] = "asked"
  BY ReleasingFacts
<1>2. \/ Ends(q, result)
      \/ \E r \in Fresh : EndsFor(q, result, r)
  BY DEF Release, Ends, EndsFor
<1>3. CASE Ends(q, result)
  BY <1>1, <1>3 DEF Ends, TypeOK
<1>4. ASSUME NEW r \in Fresh, EndsFor(q, result, r)
      PROVE  /\ outcome'[q] = result
             /\ \A s \in Requests : s # q =>
                  outcome'[s] = outcome[s] \/ (outcome[s] = "new" /\ outcome'[s] = "asked")
  BY <1>1, <1>4 DEF EndsFor, TypeOK, Fresh
<1> QED
  BY <1>1, <1>2, <1>3, <1>4

\* The outcome of r after a step: as it was, given up or answered.
Progress(r) ==
  \/ outcome'[r] = outcome[r]
  \/ outcome[r] = "new" /\ outcome'[r] = "asked"
  \/ outcome[r] = "asked" /\ outcome'[r] = "failed"
  \/ outcome[r] = "asked" /\ outcome'[r] = "answered" /\ r \in sent

LEMMA ExpireProgress ==
  ASSUME IInv, NEW e \in Entries, Releasing(e), NEW age, Expire(e, age)
  PROVE  \A r \in Requests : Progress(r)
<1>1. CASE UNCHANGED outcome
  BY <1>1 DEF Progress
<1>2. CASE Release(e, "failed")
  BY <1>2, ReleaseOutcomes DEF Progress, Done
<1> QED
  BY <1>1, <1>2 DEF Expire, Resend

LEMMA StepProgress ==
  ASSUME IInv, InTime, Next
  PROVE  \A r \in Requests : Progress(r)
<1>1. TypeOK
  BY DEF IInv
<1>2. CASE UNCHANGED outcome
  BY <1>2 DEF Progress
<1>3. ASSUME NEW r \in Requests, outcome[r] \in {"new", "asked"}, Ends(r, "asked")
      PROVE  \A s \in Requests : Progress(s)
  BY <1>1, <1>3 DEF Progress, Ends, TypeOK
<1>4. ASSUME NEW e \in Entries, AgeEntry(e)
      PROVE  \A r \in Requests : Progress(r)
  <2>1. CASE Expired(e)
    <3>1. e \in todo /\ entry[e].hashed
      BY <1>4 DEF IInv, HashInv, AgeEntry
    <3>2. Releasing(e) /\ Expire(e, lag)
      BY <1>4, <2>1, <3>1, HeldIsNotDue DEF Releasing, AgeEntry
    <3> QED
      BY <3>2, ExpireProgress
  <2>2. CASE ~Expired(e)
    BY <1>2, <1>4, <2>2 DEF AgeEntry
  <2> QED
    BY <2>1, <2>2
<1>5. CASE AgeStep
  BY <1>2, <1>4, <1>5 DEF AgeStep, StartPass, NextBucket
<1>6. CASE Tick
  BY <1>2, <1>6 DEF Tick
<1>7. ASSUME NEW q \in Requests, FindRelease(q)
      PROVE  \A r \in Requests : Progress(r)
  <2>1. PICK e \in Entries : Matches(e, q) /\ Release(e, "answered")
    BY <1>7 DEF FindRelease
  <2>2. q \in sent /\ Releasing(e) /\ entry[e].mad = q
    BY <1>7, <2>1, ArriveReleases DEF FindRelease, Arrive, Matches
  <2> QED
    BY <2>1, <2>2, ReleaseOutcomes DEF Progress, Done
<1>8. ASSUME NEW q \in Requests, FindReleaseError(q)
      PROVE  \A r \in Requests : Progress(r)
  <2>1. PICK e \in Entries : Matches(e, q) /\ Expire(e, 0)
    BY <1>8 DEF FindReleaseError
  <2>2. Releasing(e)
    BY <1>8, <2>1, ArriveReleases DEF FindReleaseError
  <2> QED
    BY <2>1, <2>2, ExpireProgress
<1>9. ASSUME NEW q \in Requests, Submit(q)
      PROVE  \A r \in Requests : Progress(r)
  BY <1>3, <1>9 DEF Submit, Ends
<1>10. ASSUME NEW u \in Users, Send(u)
       PROVE  \A r \in Requests : Progress(r)
  <2>1. user[u].req \in Requests /\ outcome[user[u].req] = "asked"
    BY <1>10, HeldAlone DEF Send
  <2>2. UNCHANGED outcome \/ Ends(user[u].req, "failed")
    BY <1>10 DEF Send, Ends
  <2>3. CASE Ends(user[u].req, "failed")
    BY <1>1, <2>1, <2>3 DEF Progress, Ends, TypeOK
  <2> QED
    BY <1>2, <2>2, <2>3
<1>11. ASSUME NEW u \in Users, NEW q \in Requests, Get(u, q)
       PROVE  \A r \in Requests : Progress(r)
  <2>1. Asks(u, q) /\ Ends(q, "asked")
    BY <1>11 DEF Get, Ends
  <2> QED
    BY <1>3, <2>1, AskedAlone
<1>12. CASE Poller
  <2>1. ASSUME NEW q \in Requests, ReuseRead(q)
        PROVE  \A r \in Requests : Progress(r)
    BY <1>3, <2>1 DEF ReuseRead, Ends
  <2> QED
    BY <1>2, <1>12, <2>1 DEF Poller, Read, RetireRead
<1>13. \A u \in Users : Wait(u) => UNCHANGED outcome
  BY DEF Wait
<1> QED
  BY <1>2, <1>5, <1>6, <1>7, <1>8, <1>9, <1>10, <1>11, <1>12, <1>13 DEF Next

\* Where users send in time, a request is answered once, by its own answer, and
\* not after it was given up: no late, repeated or crossing answer finds an entry
\* (cs_cntxt_find_nolock).
THEOREM RequestsCompleteOnce == Spec /\ []InTime => CompletesOnce
<1> DEFINE A == \A r \in Requests :
                  /\ outcome[r] \in Done => outcome'[r] = outcome[r]
                  /\ outcome[r] # "answered" /\ outcome'[r] = "answered" =>
                       outcome[r] = "asked" /\ r \in sent /\ ~(\E e \in Entries : Matches(e, r))'
<1>1. ASSUME IInv, IInv', InTime, Next
      PROVE  A
  <2> SUFFICES ASSUME NEW r \in Requests
               PROVE  /\ outcome[r] \in Done => outcome'[r] = outcome[r]
                      /\ outcome[r] # "answered" /\ outcome'[r] = "answered" =>
                           /\ outcome[r] = "asked" /\ r \in sent
                           /\ ~(\E e \in Entries : Matches(e, r))'
    OBVIOUS
  <2>1. Progress(r)
    BY <1>1, StepProgress
  <2>2. outcome'[r] = "answered" => ~(\E e \in Entries : Matches(e, r))'
    BY <1>1 DEF IInv, HashInv, Matches
  <2> QED
    BY <2>1, <2>2 DEF Progress, Done
<1>2. IInv /\ IInv' /\ InTime /\ [Next]_vars => [A]_vars
  BY <1>1
<1>3. CompletesOnce <=> [][A]_vars
  BY DEF CompletesOnce
<1> QED
  BY <1>2, <1>3, Invariance, PTL DEF Spec

-----------------------------------------------------------------------------
(* The waiters. *)

FreeContexts == Cardinality(free_list)

\* The steps of the pool, as far as threads wait for it.
Settled == UNCHANGED <<numWaiters, sema, Waiting, Getting>> /\ free_list' \subseteq free_list
Freed(e) == Wake /\ UNCHANGED <<Waiting, Getting>> /\ free_list' \subseteq free_list \cup {e}
Taken(u, e) ==
  /\ UNCHANGED <<numWaiters, sema, Waiting>>
  /\ e \in free_list /\ free_list' = free_list \ {e}
  /\ Getting' = Getting \ {u}
Queued(u) ==
  /\ numWaiters' = numWaiters + 1 /\ UNCHANGED sema
  /\ u \notin Waiting /\ Waiting' = Waiting \cup {u}
  /\ free_list' = {} /\ Getting' = Getting \ {u}
Woken(u) ==
  /\ sema > 0 /\ sema' = sema - 1 /\ UNCHANGED <<numWaiters, free_list>>
  /\ u \in Waiting /\ Waiting' = Waiting \ {u}
  /\ u \notin Getting /\ Getting' = Getting \cup {u}

LEMMA PoolIsFinite ==
  ASSUME TypeOK
  PROVE  /\ IsFiniteSet(free_list) /\ IsFiniteSet(Waiting) /\ IsFiniteSet(Getting)
         /\ FreeContexts \in Nat /\ Cardinality(Waiting) \in Nat /\ Cardinality(Getting) \in Nat
         /\ numWaiters \in Nat /\ sema \in Nat
<1>1. free_list \in SUBSET Entries /\ Waiting \in SUBSET Users /\ Getting \in SUBSET Users
  BY DEF TypeOK, Waiting, Getting
<1>2. IsFiniteSet(Entries) /\ IsFiniteSet(Users)
  BY ConstantsAssumption DEF ConstantsAssumption
<1>3. IsFiniteSet(free_list) /\ IsFiniteSet(Waiting) /\ IsFiniteSet(Getting)
  BY <1>1, <1>2, FS_Subset
<1> QED
  BY <1>3, FS_CardinalityType DEF FreeContexts, TypeOK

LEMMA PoolSteps ==
  ASSUME TypeOK, TypeOK', WaitersServed, NEW u, NEW e,
         Settled \/ Freed(e) \/ Taken(u, e) \/ Queued(u) \/ Woken(u)
  PROVE  WaitersServed'
<1>1. /\ IsFiniteSet(free_list) /\ IsFiniteSet(Waiting) /\ IsFiniteSet(Getting)
      /\ FreeContexts \in Nat /\ Cardinality(Waiting) \in Nat /\ Cardinality(Getting) \in Nat
      /\ numWaiters \in Nat /\ sema \in Nat
  BY PoolIsFinite
<1>2. (/\ IsFiniteSet(free_list) /\ IsFiniteSet(Waiting) /\ IsFiniteSet(Getting)
       /\ FreeContexts \in Nat /\ Cardinality(Waiting) \in Nat /\ Cardinality(Getting) \in Nat
       /\ numWaiters \in Nat /\ sema \in Nat)'
  BY PoolIsFinite, PTL
<1>3. PICK n \in Nat, s \in Nat, w \in Nat, g \in Nat, f \in Nat :
        /\ n = numWaiters /\ s = sema /\ f = FreeContexts
        /\ w = Cardinality(Waiting) /\ g = Cardinality(Getting)
  BY <1>1
<1>4. PICK n2 \in Nat, s2 \in Nat, w2 \in Nat, g2 \in Nat, f2 \in Nat :
        /\ n2 = numWaiters' /\ s2 = sema' /\ f2 = FreeContexts'
        /\ w2 = Cardinality(Waiting)' /\ g2 = Cardinality(Getting)'
  BY <1>2
<1>5. n + s = w /\ (n > 0 => f <= s + g)
  BY <1>3 DEF WaitersServed, FreeContexts
<1> SUFFICES n2 + s2 = w2 /\ (n2 > 0 => f2 <= s2 + g2)
  BY <1>4 DEF WaitersServed, FreeContexts
<1>6. CASE Settled
  <2>1. n2 = n /\ s2 = s /\ w2 = w /\ g2 = g
    BY <1>3, <1>4, <1>6 DEF Settled
  <2>2. f2 <= f
    BY <1>1, <1>3, <1>4, <1>6, FS_Subset DEF Settled, FreeContexts
  <2> QED
    BY <1>5, <2>1, <2>2
<1>7. CASE Freed(e)
  <2>1. w2 = w /\ g2 = g
    BY <1>3, <1>4, <1>7 DEF Freed
  <2>2. f2 <= f + 1
    <3>1. /\ IsFiniteSet(free_list \cup {e})
          /\ Cardinality(free_list \cup {e}) = IF e \in free_list THEN f ELSE f + 1
      BY <1>1, <1>3, FS_AddElement DEF FreeContexts
    <3>2. f2 <= Cardinality(free_list \cup {e})
      BY <3>1, <1>4, <1>7, FS_Subset DEF Freed, FreeContexts
    <3> QED
      BY <3>1, <3>2
  <2>3. IF n > 0 THEN n2 = n - 1 /\ s2 = s + 1 ELSE n2 = n /\ s2 = s
    BY <1>3, <1>4, <1>7 DEF Freed, Wake
  <2> QED
    BY <1>5, <2>1, <2>2, <2>3
<1>8. CASE Taken(u, e)
  <2>1. n2 = n /\ s2 = s /\ w2 = w
    BY <1>3, <1>4, <1>8 DEF Taken
  <2>2. f2 = f - 1
    BY <1>1, <1>3, <1>4, <1>8, FS_RemoveElement DEF Taken, FreeContexts
  <2>3. g2 = g - 1 \/ g2 = g
    BY <1>1, <1>3, <1>4, <1>8, FS_RemoveElement DEF Taken
  <2> QED
    BY <1>5, <2>1, <2>2, <2>3
<1>9. CASE Queued(u)
  <2>1. n2 = n + 1 /\ s2 = s
    BY <1>3, <1>4, <1>9 DEF Queued
  <2>2. w2 = w + 1
    BY <1>1, <1>3, <1>4, <1>9, FS_AddElement DEF Queued
  <2>3. f2 = 0
    BY <1>4, <1>9, FS_EmptySet DEF Queued, FreeContexts
  <2> QED
    BY <1>5, <2>1, <2>2, <2>3
<1>10. CASE Woken(u)
  <2>1. n2 = n /\ s > 0 /\ s2 = s - 1 /\ f2 = f
    BY <1>3, <1>4, <1>10 DEF Woken, FreeContexts
  <2>2. w2 = w - 1 /\ g2 = g + 1
    BY <1>1, <1>3, <1>4, <1>10, FS_AddElement, FS_RemoveElement DEF Woken
  <2> QED
    BY <1>5, <2>1, <2>2
<1> QED
  BY <1>6, <1>7, <1>8, <1>9, <1>10

LEMMA ReleaseWakes ==
  ASSUME NEW e, NEW result, Release(e, result), UNCHANGED user
  PROVE  Settled \/ Freed(e)
<1>1. UNCHANGED <<Waiting, Getting>>
  BY DEF Waiting, Getting
<1>2. CASE Queue(e) \/ (\E r \in Fresh, ok \in BOOLEAN : CallbackReuses(e, r, ok))
  BY <1>1, <1>2 DEF Queue, CallbackReuses, poolVars, Settled
<1>3. CASE CallbackReturns(e) \/ (\E ok \in BOOLEAN : CallbackResends(e, ok))
  BY <1>1, <1>3 DEF CallbackReturns, CallbackResends, Retire, Freed
<1>4. CASE \E r \in Fresh, ok \in BOOLEAN, f \in Entries : CallbackGets(e, f, r, ok)
  BY <1>1, <1>4 DEF CallbackGets, Freed
<1> QED
  BY <1>2, <1>3, <1>4 DEF Release

LEMMA ExpireWakes ==
  ASSUME NEW e, NEW age, Expire(e, age), UNCHANGED user
  PROVE  Settled \/ Freed(e)
<1>1. CASE Release(e, "failed")
  BY <1>1, ReleaseWakes
<1>2. CASE UNCHANGED poolVars
  BY <1>2 DEF poolVars, Settled, Waiting, Getting
<1> QED
  BY <1>1, <1>2 DEF Expire, Resend

LEMMA StepServes ==
  ASSUME IInv, IInv', WaitersServed, [Next]_vars
  PROVE  WaitersServed'
<1>1. TypeOK /\ TypeOK'
  BY DEF IInv
<1>2. CASE Settled
  BY <1>1, <1>2, PoolSteps
<1>3. ASSUME NEW e, Freed(e)
      PROVE  WaitersServed'
  BY <1>1, <1>3, PoolSteps
<1>4. CASE UNCHANGED <<poolVars, user>>
  BY <1>2, <1>4 DEF poolVars, Settled, Waiting, Getting
<1>5. CASE AgeStep
  <2>1. ASSUME NEW e \in Entries, AgeEntry(e)
        PROVE  WaitersServed'
    BY <1>2, <1>3, <1>4, <2>1, ExpireWakes DEF AgeEntry
  <2> QED
    BY <1>4, <1>5, <2>1 DEF AgeStep, StartPass, NextBucket
<1>6. ASSUME NEW r \in Requests, FindRelease(r) \/ FindReleaseError(r)
      PROVE  WaitersServed'
  BY <1>2, <1>3, <1>6, ReleaseWakes, ExpireWakes DEF FindRelease, FindReleaseError, Arrive
<1>7. ASSUME NEW r \in Requests, Submit(r)
      PROVE  WaitersServed'
  <2>1. Settled
    BY <1>7 DEF Submit, Settled, Waiting, Getting
  <2> QED
    BY <1>2, <2>1
<1>8. ASSUME NEW u \in Users, Wait(u)
      PROVE  WaitersServed'
  <2>1. user[u].pc = "waiting" /\ \A v \in Users : user'[v].pc = IF v = u THEN "getting" ELSE user[v].pc
    <3>1. user' = [user EXCEPT ![u].pc = "getting"] /\ user[u].pc = "waiting"
      BY <1>8 DEF Wait
    <3> QED
      BY <3>1, <1>1 DEF TypeOK, UserStates
  <2>2. Woken(u)
    BY <1>8, <2>1 DEF Wait, Woken, Waiting, Getting
  <2> QED
    BY <1>1, <2>2, PoolSteps
<1>9. ASSUME NEW u \in Users, Send(u)
      PROVE  WaitersServed'
  <2>1. UNCHANGED <<Waiting, Getting>>
    <3>1. user[u].pc = "holding" /\ user' = [user EXCEPT ![u] = Idle] /\ Idle.pc = "idle"
      BY <1>9 DEF Send, Idle
    <3>2. \A v \in Users : user'[v] = IF v = u THEN Idle ELSE user[v]
      BY <3>1, <1>1 DEF TypeOK
    <3> QED
      BY <3>1, <3>2 DEF Waiting, Getting
  <2> QED
    BY <1>2, <1>3, <1>9, <2>1 DEF Send, Settled, Freed, Retire, poolVars
<1>10. ASSUME NEW u \in Users, NEW r \in Requests, Get(u, r)
       PROVE  WaitersServed'
  <2>1. user[u].pc \in {"idle", "getting"}
    BY <1>10 DEF Get, Asks
  <2>2. CASE free_list = {}
    <3>1. /\ numWaiters' = numWaiters + 1 /\ sema' = sema /\ free_list' = {}
          /\ user' = [user EXCEPT ![u] = [pc |-> "waiting", req |-> r, ent |-> None]]
      BY <1>10, <2>2 DEF Get
    <3>2. \A v \in Users : user'[v].pc = IF v = u THEN "waiting" ELSE user[v].pc
      BY <3>1, <1>1 DEF TypeOK
    <3>3. Queued(u)
      BY <2>1, <3>1, <3>2 DEF Queued, Waiting, Getting
    <3> QED
      BY <1>1, <3>3, PoolSteps
  <2>3. CASE free_list # {}
    <3>1. PICK e \in free_list :
            /\ free_list' = free_list \ {e} /\ numWaiters' = numWaiters /\ sema' = sema
            /\ user' = [user EXCEPT ![u] = [pc |-> "holding", req |-> r, ent |-> e]]
      BY <1>10, <2>3 DEF Get
    <3>2. \A v \in Users : user'[v].pc = IF v = u THEN "holding" ELSE user[v].pc
      BY <3>1, <1>1 DEF TypeOK
    <3>3. Taken(u, e)
      BY <2>1, <3>1, <3>2 DEF Taken, Waiting, Getting
    <3> QED
      BY <1>1, <3>3, PoolSteps
  <2> QED
    BY <2>2, <2>3
<1>11. CASE Poller
  <2>1. CASE RetireRead
    <3>1. Freed(reading)
      BY <2>1 DEF RetireRead, Retire, Freed, Waiting, Getting
    <3> QED
      BY <1>3, <3>1
  <2>2. ASSUME NEW r \in Requests, ReuseRead(r)
        PROVE  WaitersServed'
    BY <1>4, <2>2 DEF ReuseRead
  <2> QED
    BY <1>4, <1>11, <2>1, <2>2 DEF Poller, Read
<1>12. CASE Tick \/ UNCHANGED vars
  BY <1>4, <1>12 DEF Tick, vars
<1> QED
  BY <1>5, <1>6, <1>7, <1>8, <1>9, <1>10, <1>11, <1>12 DEF Next

\* Where users send in time, a thread that waits for a context is counted or
\* woken, and what is freed while one is counted goes to a thread that was woken
\* (cs_cntxt_retire_nolock).
THEOREM WaitersAreServed == Spec /\ []InTime => []WaitersServed
<1>1. Init => WaitersServed
  <2> SUFFICES ASSUME Init PROVE WaitersServed
    OBVIOUS
  <2>1. numWaiters = 0 /\ sema = 0 /\ Waiting = {} /\ Idle.pc = "idle"
    BY DEF Init, Idle, Waiting
  <2> QED
    BY <2>1, FS_EmptySet DEF WaitersServed
<1>2. IInv /\ IInv' /\ WaitersServed /\ [Next]_vars => WaitersServed'
  BY StepServes
<1> QED
  BY <1>1, <1>2, Invariance, PTL DEF Spec

-----------------------------------------------------------------------------

\* Where every message is built in place (cs_cntxt_get with mad = NULL) nothing
\* rests on the users: an entry is on no hash list before cs_cntxt_send_mad takes
\* the lock, and no ageing pass or answer finds one that a user holds.
THEOREM NoneHashedEarly ==
  ASSUME Early = {}
  PROVE  Spec => /\ []TypeOK /\ []OneOwner /\ []WaitersServed
                 /\ CompletesOnce
<1>1. Spec => []InTime
  BY UnhashedIsInTime
<1> QED
  BY <1>1, TypeCorrect, EntriesOwned, WaitersAreServed, RequestsCompleteOnce, PTL
=============================================================================
