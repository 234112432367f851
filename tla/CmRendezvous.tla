---------------------------- MODULE CmRendezvous ----------------------------
(***************************************************************************)
(* What the communication manager promises to its two users, whatever the *)
(* network does: a client's call meets at most one answer of the server,  *)
(* the server has a connection only if the client accepted that very      *)
(* answer, and what is closed stays closed.  No messages and no timers.   *)
(***************************************************************************)
EXTENDS Naturals

CONSTANTS Calls, Answers, None

VARIABLES
    call,    \* what the client has of each of its calls
    answer,  \* what the server has of each of its answers
    caller,  \* the call each answer is for
    met      \* the calls accepted by the client, with the answer accepted

vars == <<call, answer, caller, met>>

Init ==
    /\ call = [k \in Calls |-> "none"]
    /\ answer = [p \in Answers |-> "none"]
    /\ caller = [p \in Answers |-> None]
    /\ met = {}

Place(k) ==
    /\ call[k] = "none"
    /\ call' = [call EXCEPT ![k] = "calling"]
    /\ UNCHANGED <<answer, caller, met>>

\* A call may ring more than once, and after its client has given up.
Ring(p, k) ==
    /\ answer[p] = "none" /\ call[k] # "none"
    /\ answer' = [answer EXCEPT ![p] = "ringing"]
    /\ caller' = [caller EXCEPT ![p] = k]
    /\ UNCHANGED <<call, met>>

Meet(k, p) ==
    /\ call[k] = "calling" /\ caller[p] = k
    /\ call' = [call EXCEPT ![k] = "open"]
    /\ met' = met \cup {<<k, p>>}
    /\ UNCHANGED <<answer, caller>>

Confirm(p) ==
    /\ answer[p] = "ringing" /\ <<caller[p], p>> \in met
    /\ answer' = [answer EXCEPT ![p] = "open"]
    /\ UNCHANGED <<call, caller, met>>

CloseCall(k) ==
    /\ call[k] \in {"calling", "open"}
    /\ call' = [call EXCEPT ![k] = "closed"]
    /\ UNCHANGED <<answer, caller, met>>

\* The listener may drop several answers at once.
CloseAnswers(S) ==
    /\ \A p \in S : answer[p] \in {"ringing", "open"}
    /\ answer' = [p \in Answers |-> IF p \in S THEN "closed" ELSE answer[p]]
    /\ UNCHANGED <<call, caller, met>>

Next ==
    \/ \E k \in Calls : Place(k) \/ CloseCall(k)
    \/ \E p \in Answers : Confirm(p)
    \/ \E k \in Calls, p \in Answers : Ring(p, k) \/ Meet(k, p)
    \/ \E S \in SUBSET Answers : CloseAnswers(S)

Spec == Init /\ [][Next]_vars
=============================================================================
