----------------------------- MODULE TableStore -----------------------------
(***************************************************************************)
(* What the shared-memory tables of opasadb promise: each table is a       *)
(* register whose value is replaced as a whole, and a reader that opens it *)
(* gets a private copy of the value of that moment, which stays as it is   *)
(* until the reader closes or re-opens the table.                          *)
(***************************************************************************)
CONSTANTS Readers, Tables, Values, Absent

VARIABLES latest,   \* latest[k]: the published value of table k, or Absent
          held      \* held[r][k]: the copy reader r has, or Absent

storeVars == <<latest, held>>

StoreInit ==
  /\ latest = [k \in Tables |-> Absent]
  /\ held = [r \in Readers |-> [k \in Tables |-> Absent]]

\* One table gets a new value, or has none for a while.
Publish(k) ==
  /\ \E v \in Values \cup {Absent} : latest' = [latest EXCEPT ![k] = v]
  /\ UNCHANGED held

\* The store is closed: no table can be opened any more.
Withdraw ==
  /\ latest' = [k \in Tables |-> Absent]
  /\ UNCHANGED held

Open(r, k) ==
  /\ latest[k] # Absent
  /\ held' = [held EXCEPT ![r][k] = latest[k]]
  /\ UNCHANGED latest

Close(r, k) ==
  /\ held' = [held EXCEPT ![r][k] = Absent]
  /\ UNCHANGED latest

CloseAll(r) ==
  /\ held' = [held EXCEPT ![r] = [k \in Tables |-> Absent]]
  /\ UNCHANGED latest

StoreNext ==
  \/ Withdraw
  \/ \E k \in Tables : Publish(k)
  \/ \E r \in Readers : CloseAll(r)
  \/ \E r \in Readers, k \in Tables : Open(r, k) \/ Close(r, k)

StoreSpec == StoreInit /\ [][StoreNext]_storeVars

=============================================================================
