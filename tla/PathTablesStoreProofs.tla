------------------------ MODULE PathTablesStoreProofs ------------------------
(***************************************************************************)
(* Theorems about PathTables under one incarnation of the writer           *)
(* (MaxStarts = 1): an answer matches its query, and the tables implement  *)
(* the register store of TableStore.                                       *)
(***************************************************************************)
EXTENDS MCPathTables, PathTablesProofs

-----------------------------------------------------------------------------
(* The invariant of PathTablesProofs, in one name. *)

Inv == TypeInv /\ SafeInv

LEMMA InvInductive ==
  ASSUME MaxStarts = 1
  PROVE  /\ Init => Inv
         /\ Inv /\ [Next]_vars => Inv'
BY TypeInit, SafeInit, TypeNext, SafeNext DEF Inv

WriterNext ==
  \/ CreateWriter \/ CloseWriter \/ CrashWriter \/ WriterStep
  \/ \E f \in Fabrics : StartPublish(f)

-----------------------------------------------------------------------------
(* Answers. *)

\* The record about to be copied is in a mapped table and matches the query.
Copying ==
  \A r \in Readers : rpc[r] = "copy" =>
    /\ rmap[r]["path"] # None
    /\ Matches(Record(View(r, "path"), ridx[r]), rq[r])

AnswerInv ==
  /\ rans = [r \in Readers |-> rans[r]]
  /\ Copying
  /\ AnswerMatchesQuery

\* What reader r has in hand.
Hand(r) == <<rpc[r], rmap[r], rq[r], ridx[r], rans[r]>>

LEMMA HandTypes ==
  ASSUME Inv
  PROVE  /\ rpc \in [Readers -> ReaderPCs]
         /\ rtab \in [Readers -> Tables]
         /\ rmap \in [Readers -> [Tables -> Objects \cup {None}]]
         /\ rq \in [Readers -> Queries]
         /\ ridx \in [Readers -> Nat]
BY DEF Inv, TypeInv, TypeOK, ReaderTypeOK

LEMMA OneAnswer ==
  ASSUME NEW r \in Readers, ReaderStep(r) \/ ReaderCalls(r)
  PROVE  rans' = rans \/ \E a : rans' = [rans EXCEPT ![r] = a]
BY DEF ReaderStep, ReaderCalls, CreateReader, CloseReader, BeginQuery, Forget, MapTable,
       CreateFails, ReopenFails, CacheCount, CheckPort, CheckSubnet, CheckVFab, CheckPath,
       CopyPath, Again, Fail, Reopen, Faults

\* A reader keeps to itself.
LEMMA OthersKeep ==
  ASSUME Inv, AnswerInv, NEW r \in Readers, ReaderStep(r) \/ ReaderCalls(r),
         NEW s \in Readers, s # r
  PROVE  UNCHANGED Hand(s)
<1>a. /\ rpc = [t \in Readers |-> rpc[t]]
      /\ rmap = [t \in Readers |-> rmap[t]]
      /\ rq = [t \in Readers |-> rq[t]]
      /\ ridx = [t \in Readers |-> ridx[t]]
      /\ rans = [t \in Readers |-> rans[t]]
  BY HandTypes DEF AnswerInv
<1>1. rpc' = rpc \/ \E pc : rpc' = [rpc EXCEPT ![r] = pc]
  BY DEF ReaderStep, ReaderCalls, CreateReader, CloseReader, BeginQuery, Forget, MapTable,
         CreateFails, ReopenFails, CacheCount, CheckPort, CheckSubnet, CheckVFab, CheckPath,
         CopyPath, Again, Fail, Goto, Reopen, Faults
<1>2. \/ rmap' = rmap
      \/ \E m : rmap' = [rmap EXCEPT ![r] = m]
      \/ \E k, o : rmap' = [rmap EXCEPT ![r][k] = o]
  BY DEF ReaderStep, ReaderCalls, CreateReader, CloseReader, BeginQuery, Forget, MapTable,
         CreateFails, ReopenFails, CacheCount, CheckPort, CheckSubnet, CheckVFab, CheckPath,
         CopyPath, Reopen, Faults
<1>3. rq' = rq \/ \E q : rq' = [rq EXCEPT ![r] = q]
  BY DEF ReaderStep, ReaderCalls, CreateReader, CloseReader, BeginQuery, Forget, MapTable,
         CreateFails, ReopenFails, CacheCount, CheckPort, CheckSubnet, CheckVFab, CheckPath,
         CopyPath
<1>4. ridx' = ridx \/ \E i : ridx' = [ridx EXCEPT ![r] = i]
  BY DEF ReaderStep, ReaderCalls, CreateReader, CloseReader, BeginQuery, Forget, MapTable,
         CreateFails, ReopenFails, CacheCount, CheckPort, CheckSubnet, CheckVFab, CheckPath,
         CopyPath, Reopen, Faults
<1>5. rans' = rans \/ \E a : rans' = [rans EXCEPT ![r] = a]
  BY OneAnswer
<1>6. rmap'[s] = rmap[s]
  BY <1>a, <1>2
<1>7. rpc'[s] = rpc[s] /\ rq'[s] = rq[s] /\ ridx'[s] = ridx[s] /\ rans'[s] = rans[s]
  BY <1>a, <1>1, <1>3, <1>4, <1>5
<1> QED
  BY <1>6, <1>7 DEF Hand

\* A step that neither finds a path nor returns one.
Quiet(r) ==
  /\ \E pc : pc # "copy" /\ rpc' = [rpc EXCEPT ![r] = pc]
  /\ \/ UNCHANGED <<rans, rq>>
     \/ \E code : code # "ok" /\ rans' = [rans EXCEPT ![r] = Failed(code)]

LEMMA MostStepsQuiet ==
  ASSUME NEW r \in Readers,
         \/ MapTable(r) \/ CreateFails(r) \/ ReopenFails(r) \/ CacheCount(r)
         \/ CheckPort(r) \/ CheckSubnet(r) \/ CheckVFab(r) \/ ReaderCalls(r)
  PROVE  Quiet(r)
<1>1. ASSUME NEW code, code # "ok", Again(r, code) \/ Fail(r, code), rq' = rq PROVE Quiet(r)
  BY <1>1, Zenon DEF Again, Fail, Goto, Quiet
<1>2. ASSUME NEW k, Reopen(r, k), rq' = rq PROVE Quiet(r)
  BY <1>2, Zenon DEF Reopen, Goto, Quiet
<1>3. ASSUME Forget(r) PROVE Quiet(r)
  BY <1>3 DEF Forget, Goto, Quiet
<1>4. ASSUME NEW pc, pc # "copy", Goto(r, pc), UNCHANGED <<rans, rq>> PROVE Quiet(r)
  BY <1>4, Zenon DEF Goto, Quiet
<1>5. CASE MapTable(r)
  BY <1>5, <1>4 DEF MapTable
<1>6. CASE CreateFails(r) \/ CloseReader(r)
  BY <1>6, <1>3 DEF CreateFails, CloseReader
<1>7. CASE ReopenFails(r)
  BY <1>7, <1>1 DEF ReopenFails
<1>8. CASE CacheCount(r)
  BY <1>8, <1>1, <1>4 DEF CacheCount
<1>9. CASE CheckPort(r)
  BY <1>9, <1>1, <1>2, <1>4 DEF CheckPort, Faults
<1>10. CASE CheckSubnet(r)
  BY <1>10, <1>2, <1>4 DEF CheckSubnet
<1>11. CASE CheckVFab(r)
  BY <1>11, <1>1, <1>2, <1>4 DEF CheckVFab, Faults
<1>12. CASE CreateReader(r)
  BY <1>12, <1>4 DEF CreateReader
<1>13. CASE \E q \in Queries : BeginQuery(r, q)
  BY <1>13 DEF BeginQuery, Goto, Quiet
<1> QED
  BY <1>5, <1>6, <1>7, <1>8, <1>9, <1>10, <1>11, <1>12, <1>13 DEF ReaderCalls

\* The reader that steps has a path that matches, or none.
LEMMA OwnAnswer ==
  ASSUME Inv, AnswerInv, NEW r \in Readers, ReaderStep(r) \/ ReaderCalls(r)
  PROVE  /\ rpc'[r] = "copy" =>
              /\ rmap'[r]["path"] # None
              /\ Matches(Record(mem["path"][rmap'[r]["path"]], ridx'[r]), rq'[r])
         /\ rans'[r].code = "ok" =>
              /\ rans'[r].dst = rq'[r].dst
              /\ rq'[r].kind = "pkey" => rans'[r].vf = rq'[r].vf
<1>a. /\ rpc \in [Readers -> ReaderPCs]
      /\ ridx \in [Readers -> Nat]
      /\ rans = [t \in Readers |-> rans[t]]
  BY HandTypes DEF AnswerInv
<1>b. rans[r].code = "ok" =>
        /\ rans[r].dst = rq[r].dst
        /\ rq[r].kind = "pkey" => rans[r].vf = rq[r].vf
  BY DEF AnswerInv, AnswerMatchesQuery
<1>c. "path" \in Tables
  BY DEF Tables
<1>1. CASE Quiet(r)
  <2>1. rpc'[r] # "copy"
    BY <1>1, <1>a DEF Quiet
  <2>2. CASE UNCHANGED <<rans, rq>>
    BY <2>1, <2>2, <1>b
  <2>3. ASSUME NEW code, code # "ok", rans' = [rans EXCEPT ![r] = Failed(code)]
        PROVE  rans'[r].code # "ok"
    <3>1. rans'[r] = Failed(code)
      BY <2>3, <1>a
    <3> QED
      BY <3>1, <2>3 DEF Failed
  <2> QED
    BY <1>1, <2>1, <2>2, <2>3 DEF Quiet
<1>2. CASE CheckPath(r)
  <2>1. rpc[r] = "path" /\ rq' = rq
    BY <1>2 DEF CheckPath
  <2>2. CASE Changed(r, "path") /\ Reopen(r, "path")
    BY <2>2, <2>1, <1>a, <1>b DEF Reopen, Goto
  <2>3. CASE ~Changed(r, "path")
    <3> DEFINE h == ChainHead(View(r, "vfab"), ridx[r], rq[r].dst)
    <3>1. rmap[r]["path"] # None
      <4>1. rpc[r] \in Opened
        BY <2>1 DEF Opened
      <4> QED
        BY <2>3, <4>1, <1>c, UnchangedMapped DEF Inv
    <3>2. CASE \E pc \in {"null", "overrun"} : Faults(r, pc)
      BY <3>2, <2>1, <1>a, <1>b DEF Faults, Goto
    <3>3. CASE Again(r, "enoent")
      <4>1. rpc'[r] # "copy"
        BY <3>3, <1>a DEF Again, Fail, Goto
      <4>2. rans' = rans \/ rans' = [rans EXCEPT ![r] = Failed("enoent")]
        BY <3>3 DEF Again, Fail
      <4>3. rans'[r] = rans[r] \/ rans'[r] = Failed("enoent")
        BY <4>2, <1>a
      <4>4. Failed("enoent").code # "ok"
        BY DEF Failed
      <4> QED
        BY <4>1, <4>3, <4>4, <2>1, <1>b
    <3>4. CASE /\ Matches(Record(View(r, "path"), h), rq[r])
               /\ Goto(r, "copy")
               /\ ridx' = [ridx EXCEPT ![r] = h]
               /\ UNCHANGED <<rmap, rans>>
      <4>1. ridx'[r] = h
        BY <3>4, <1>a
      <4> QED
        BY <4>1, <3>1, <3>4, <2>1, <1>b DEF View
    <3> QED
      BY <1>2, <2>3, <3>2, <3>3, <3>4 DEF CheckPath
  <2> QED
    BY <1>2, <2>2, <2>3 DEF CheckPath
<1>3. CASE CopyPath(r)
  <2> DEFINE p == Record(View(r, "path"), ridx[r])
  <2>1. /\ rpc[r] = "copy" /\ rpc' = [rpc EXCEPT ![r] = "ready"] /\ rq' = rq
        /\ rans' = [rans EXCEPT ![r] = [code |-> "ok", vf |-> p.vf, dst |-> p.dst]]
    BY <1>3 DEF CopyPath, Goto
  <2>2. Matches(p, rq[r])
    BY <2>1 DEF AnswerInv, Copying
  <2>3. rpc'[r] = "ready" /\ rans'[r] = [code |-> "ok", vf |-> p.vf, dst |-> p.dst]
    BY <2>1, <1>a
  <2> HIDE DEF p
  <2> QED
    BY <2>1, <2>2, <2>3 DEF Matches
<1> QED
  BY <1>1, <1>2, <1>3, MostStepsQuiet DEF ReaderStep

LEMMA AnswerNext ==
  ASSUME MaxStarts = 1, Inv, AnswerInv, [Next]_vars
  PROVE  AnswerInv'
<1>1. CASE UNCHANGED vars
  BY <1>1 DEF vars, memVars, readerVars, AnswerInv, Copying, AnswerMatchesQuery, View
<1>2. ASSUME NEW r \in Readers, ReaderStep(r) \/ ReaderCalls(r) PROVE AnswerInv'
  <2>1. mem' = mem
    BY <1>2, ReaderFrame DEF memVars
  <2>2. rans' = [t \in Readers |-> rans'[t]]
    BY <1>2, OneAnswer DEF AnswerInv
  <2>3. ASSUME NEW s \in Readers
        PROVE  /\ rpc'[s] = "copy" =>
                    /\ rmap'[s]["path"] # None
                    /\ Matches(Record(mem["path"][rmap'[s]["path"]], ridx'[s]), rq'[s])
               /\ rans'[s].code = "ok" =>
                    /\ rans'[s].dst = rq'[s].dst
                    /\ rq'[s].kind = "pkey" => rans'[s].vf = rq'[s].vf
    <3>1. CASE s = r
      BY <3>1, <1>2, OwnAnswer
    <3>2. CASE s # r
      BY <3>2, <1>2, OthersKeep DEF Hand, AnswerInv, Copying, AnswerMatchesQuery, View
    <3> QED
      BY <3>1, <3>2
  <2> QED
    BY <2>1, <2>2, <2>3 DEF AnswerInv, Copying, AnswerMatchesQuery, View
<1>3. CASE WriterNext
  <2>1. UNCHANGED readerVars
    BY <1>3, WriterFrame DEF WriterNext
  <2>2. \A r \in Readers : rpc[r] = "copy" =>
          mem'["path"][rmap[r]["path"]] = mem["path"][rmap[r]["path"]]
    <3>1. TAKE r \in Readers
    <3>2. HAVE rpc[r] = "copy"
    <3>3. "path" \in Tables /\ rmap[r]["path"] # None
      BY <3>2 DEF AnswerInv, Copying, Tables
    <3> QED
      BY <3>3, <1>3, WriterFreezes DEF WriterNext, Inv
  <2>3. Copying'
    BY <2>1, <2>2 DEF readerVars, AnswerInv, Copying, View
  <2> QED
    BY <2>1, <2>3 DEF readerVars, AnswerInv, AnswerMatchesQuery
<1> QED
  BY <1>1, <1>2, <1>3 DEF Next, WriterNext

\* Under one incarnation of the writer a path that a query returns goes to the
\* destination asked for and has the pkey asked for, whatever was published
\* between the look-ups of op_ppath_find_path.
THEOREM AnswersMatch ==
  ASSUME MaxStarts = 1
  PROVE  Spec => []AnswerMatchesQuery
<1>1. Init => Inv /\ AnswerInv
  <2> SUFFICES ASSUME Init PROVE AnswerInv
    BY InvInductive
  <2>1. /\ rans = [r \in Readers |-> Failed("none")]
        /\ rpc = [r \in Readers |-> "closed"]
    BY DEF Init
  <2>2. rans = [r \in Readers |-> rans[r]]
    BY <2>1
  <2>3. \A r \in Readers : rpc[r] # "copy" /\ rans[r].code # "ok"
    BY <2>1 DEF Failed
  <2> QED
    BY <2>2, <2>3 DEF AnswerInv, Copying, AnswerMatchesQuery
<1>2. Inv /\ AnswerInv /\ [Next]_vars => Inv' /\ AnswerInv'
  BY InvInductive, AnswerNext
<1>3. AnswerInv => AnswerMatchesQuery
  BY DEF AnswerInv
<1> QED
  BY <1>1, <1>2, <1>3, PTL DEF Spec

-----------------------------------------------------------------------------
(* The register store. *)

\* The variables of the store, as the tables show them.
latest == [k \in Tables |-> Latest(k)]
held   == [r \in Readers |-> [k \in Tables |-> Held(r, k)]]

Stutter == latest' = latest /\ held' = held

\* The object of a published name, where there is one.
Published(k) == <<dir[k][name[k]], name[k]>>

LEMMA StoreTypes ==
  ASSUME TypeInv
  PROVE  /\ name \in [Tables -> Nat] /\ wcount \in [Tables -> Nat]
         /\ \A k \in Tables : name[k] \in 0..MaxCount
         /\ dir \in [Tables -> [1..MaxCount -> 0..MaxStarts]]
         /\ mem \in [Tables -> [Objects -> Views]]
         /\ rtab \in [Readers -> Tables]
         /\ rmap \in [Readers -> [Tables -> Objects \cup {None}]]
BY BoundsAssumption DEF TypeInv, TypeOK, SharedTypeOK, WriterTypeOK, ReaderTypeOK

\* A published table that can be opened has a view.
LEMMA OpenableTable ==
  ASSUME TypeInv, NEW k \in Tables, ~Unopenable(k)
  PROVE  /\ Published(k) \in Objects
         /\ Latest(k) = mem[k][Published(k)]
         /\ Latest(k) \in Views
<1>1. name[k] \in 1..MaxCount /\ dir[k][name[k]] \in 1..MaxStarts
  <2>1. name[k] # 0 /\ dir[k][name[k]] # 0
    BY DEF Unopenable
  <2>2. name[k] \in 1..MaxCount
    BY <2>1, StoreTypes, BoundsAssumption
  <2>3. dir[k][name[k]] \in 0..MaxStarts
    BY <2>2, StoreTypes
  <2> QED
    BY <2>1, <2>2, <2>3, BoundsAssumption
<1>2. Published(k) \in Objects
  BY <1>1 DEF Published, Objects
<1> QED
  BY <1>2, StoreTypes DEF Latest, Published

LEMMA LatestType == TypeInv => \A k \in Tables : Latest(k) \in Views \cup {Absent}
BY OpenableTable DEF Latest

LEMMA LatestTypeNext == TypeInv' => (\A k \in Tables : Latest(k) \in Views \cup {Absent})'
BY LatestType, PTL

\* A step that leaves the published object of a table alone.
LEMMA LatestKept ==
  ASSUME NEW k \in Tables,
         name'[k] = name[k],
         name[k] # 0 => /\ dir'[k][name[k]] = dir[k][name[k]]
                        /\ mem'[k][Published(k)] = mem[k][Published(k)]
  PROVE  Latest(k)' = Latest(k)
<1>1. Unopenable(k)' = Unopenable(k)
  BY DEF Unopenable
<1>2. CASE name[k] = 0
  BY <1>1, <1>2 DEF Latest, Unopenable
<1>3. CASE name[k] # 0
  BY <1>1, <1>3 DEF Latest, Published
<1> QED
  BY <1>2, <1>3

\* What readers hold survives every step of the writer.
LEMMA WriterKeepsHeld ==
  ASSUME MaxStarts = 1, Inv, WriterNext
  PROVE  held' = held
<1>1. rmap' = rmap
  BY WriterFrame DEF WriterNext, readerVars
<1>2. ASSUME NEW r \in Readers, NEW k \in Tables PROVE Held(r, k)' = Held(r, k)
  <2>1. rmap[r][k] # None => mem'[k][rmap[r][k]] = mem[k][rmap[r][k]]
    BY WriterFreezes DEF WriterNext, Inv
  <2> QED
    BY <1>1, <2>1 DEF Held
<1> QED
  BY <1>2 DEF held

LEMMA StutterStep ==
  ASSUME MaxStarts = 1, Inv, WriterNext, \A k \in Tables : Latest(k)' = Latest(k)
  PROVE  Stutter
BY WriterKeepsHeld DEF Stutter, latest

LEMMA PublishStep ==
  ASSUME MaxStarts = 1, Inv, WriterNext, NEW k \in Tables,
         \A j \in Tables : j # k => Latest(j)' = Latest(j)
  PROVE  Store!Publish(k)
<1>1. Latest(k)' \in Views \cup {Absent}
  <2>1. TypeInv'
    BY TypeWriter DEF Inv, WriterNext
  <2> QED
    BY <2>1, LatestTypeNext
<1>2. latest' = [latest EXCEPT ![k] = Latest(k)']
  BY DEF latest
<1> QED
  BY <1>1, <1>2, WriterKeepsHeld DEF latest, held, Store!Publish

LEMMA WithdrawStep ==
  ASSUME MaxStarts = 1, Inv, WriterNext, \A k \in Tables : Latest(k)' = Absent
  PROVE  Store!Withdraw
<1>1. latest' = [k \in Tables |-> Absent]
  BY DEF latest
<1> QED
  BY <1>1, WriterKeepsHeld DEF latest, held, Store!Withdraw

\* Every step of the writer publishes, withdraws, or does not show.
LEMMA WriterStores ==
  ASSUME MaxStarts = 1, Inv, WriterNext
  PROVE  Stutter \/ Store!StoreNext
<1>a. /\ TypeInv /\ Counts /\ Building
      /\ name \in [Tables -> Nat] /\ wcount \in [Tables -> Nat]
      /\ \A k \in Tables : name[k] \in 0..MaxCount
      /\ dir \in [Tables -> [1..MaxCount -> 0..MaxStarts]]
      /\ mem \in [Tables -> [Objects -> Views]]
  BY StoreTypes DEF Inv, SafeInv
<1>1. CASE CreateWriter
  <2>1. \A k \in Tables : name'[k] = 0
    BY <1>1 DEF CreateWriter
  <2>2. \A k \in Tables : Latest(k)' = Absent
    BY <2>1 DEF Latest, Unopenable
  <2> QED
    BY <2>2, WithdrawStep DEF Store!StoreNext
<1>2. CASE CloseWriter
  <2>1. /\ name' = name
        /\ \A k \in Tables : name[k] \in 1..MaxCount => dir'[k][name[k]] = 0
    BY <1>2 DEF CloseWriter, sharedVars
  <2>2. ASSUME NEW k \in Tables PROVE Unopenable(k)'
    BY <2>1, <1>a DEF Unopenable
  <2>3. \A k \in Tables : Latest(k)' = Absent
    BY <2>2 DEF Latest
  <2> QED
    BY <2>3, WithdrawStep DEF Store!StoreNext
<1>3. CASE \/ CrashWriter \/ \E f \in Fabrics : StartPublish(f)
           \/ \E k \in Tables : PublishCount(k)
  <2>1. UNCHANGED <<name, dir, mem>>
    BY <1>3 DEF CrashWriter, StartPublish, PublishCount, sharedVars, memVars
  <2>2. \A k \in Tables : Latest(k)' = Latest(k)
    BY <2>1, LatestKept
  <2> QED
    BY <2>2, StutterStep
<1>4. ASSUME NEW k \in Tables, InitTable(k) \/ InitTableFails(k)
      PROVE  Stutter
  <2> DEFINE n == wcount[k] + 1
  <2>1. /\ name' = name
        /\ \E i : dir' = [dir EXCEPT ![k][n] = i] \/ dir' = dir
        /\ \E i : mem' = [mem EXCEPT ![k][<<i, n>>] = Blank] \/ mem' = mem
    BY <1>4 DEF InitTable, InitTableFails, Bump, sharedVars
  <2>2. name[k] < n
    BY <1>a DEF Counts
  <2> HIDE DEF n
  <2>3. ASSUME NEW j \in Tables, name[j] # 0
        PROVE  /\ dir'[j][name[j]] = dir[j][name[j]]
               /\ mem'[j][Published(j)] = mem[j][Published(j)]
    <3>1. j = k => name[j] # n /\ \A i : <<i, n>> # Published(j)
      BY <2>2, <1>a DEF Published
    <3>2. dir'[j][name[j]] = dir[j][name[j]]
      <4>1. ASSUME NEW i, dir' = [dir EXCEPT ![k][n] = i]
            PROVE  dir'[j][name[j]] = dir[j][name[j]]
        BY <4>1, <3>1, <1>a
      <4> QED
        BY <4>1, <2>1
    <3>3. mem'[j][Published(j)] = mem[j][Published(j)]
      <4>1. ASSUME NEW i, mem' = [mem EXCEPT ![k][<<i, n>>] = Blank]
            PROVE  mem'[j][Published(j)] = mem[j][Published(j)]
        BY <4>1, <3>1, <1>a
      <4> QED
        BY <4>1, <2>1
    <3> QED
      BY <3>2, <3>3
  <2>4. \A j \in Tables : Latest(j)' = Latest(j)
    BY <2>1, <2>3, LatestKept
  <2> QED
    BY <2>4, StutterStep
<1>5. CASE FillTables
  <2>1. /\ UNCHANGED <<name, dir>>
        /\ mem' = [k \in Tables |-> [mem[k] EXCEPT ![wmap[k]] = wfab]]
    BY <1>5 DEF FillTables, sharedVars
  <2>2. ASSUME NEW k \in Tables PROVE mem'[k][Published(k)] = mem[k][Published(k)]
    <3>1. name[k] < wcount[k] /\ wmap[k][2] = wcount[k]
      <4>1. wpc = 5
        BY <1>5 DEF FillTables, FillAt
      <4>2. InitAt(k) \in 1..4
        BY StepNumbers
      <4>3. Building
        BY <1>a
      <4> QED
        BY <4>1, <4>2, <4>3 DEF Building, FillAt
    <3>2. Published(k) # wmap[k]
      BY <3>1, <1>a DEF Published
    <3> QED
      BY <2>1, <3>2, <1>a
  <2>3. \A k \in Tables : Latest(k)' = Latest(k)
    BY <2>1, <2>2, LatestKept
  <2> QED
    BY <2>3, StutterStep
<1>6. ASSUME NEW k \in Tables, UnlinkOld(k) \/ PublishName(k)
      PROVE  Store!Publish(k)
  <2>1. /\ mem' = mem
        /\ name' = name \/ name' = [name EXCEPT ![k] = wcount[k]]
        /\ dir' = dir \/ dir' = [dir EXCEPT ![k][name[k]] = 0]
    BY <1>6 DEF UnlinkOld, PublishName, OldName, sharedVars, memVars
  <2>2. ASSUME NEW j \in Tables, j # k
        PROVE  name'[j] = name[j] /\ dir'[j] = dir[j]
    BY <2>1, <2>2, <1>a
  <2>3. \A j \in Tables : j # k => Latest(j)' = Latest(j)
    BY <2>1, <2>2, LatestKept
  <2> QED
    BY <2>3, PublishStep
<1> QED
  BY <1>1, <1>2, <1>3, <1>4, <1>5, <1>6 DEF WriterNext, WriterStep, Store!StoreNext

\* Every step of a reader opens or closes tables, or does not show.
LEMMA ReaderStores ==
  ASSUME Inv, NEW r \in Readers, ReaderStep(r) \/ ReaderCalls(r)
  PROVE  Stutter \/ Store!StoreNext
<1>a. /\ TypeInv
      /\ rmap \in [Readers -> [Tables -> Objects \cup {None}]]
      /\ rtab \in [Readers -> Tables]
  BY StoreTypes DEF Inv
<1>b. UNCHANGED <<name, dir, mem>>
  BY ReaderFrame DEF sharedVars, memVars
<1>c. latest' = latest
  BY <1>b DEF latest, Latest, Unopenable
<1>1. CASE rmap' = rmap
  BY <1>1, <1>b, <1>c DEF Stutter, held, Held
<1>2. ASSUME NEW k \in Tables, NEW o, rmap' = [rmap EXCEPT ![r][k] = o],
             NEW v, v = IF o = None THEN Absent ELSE mem[k][o]
      PROVE  held' = [held EXCEPT ![r][k] = v]
  <2>1. /\ rmap'[r][k] = o
        /\ \A s \in Readers, j \in Tables : s # r \/ j # k => rmap'[s][j] = rmap[s][j]
    BY <1>a, <1>2, UpdateNested, Zenon
  <2>2. Held(r, k)' = v
    BY <2>1, <1>2, <1>b DEF Held
  <2>3. \A s \in Readers, j \in Tables : s # r \/ j # k => Held(s, j)' = Held(s, j)
    BY <2>1, <1>b DEF Held
  <2>4. held' = [s \in Readers |-> [j \in Tables |-> IF s = r /\ j = k THEN v ELSE Held(s, j)]]
    BY <2>2, <2>3 DEF held
  <2>5. [s \in Readers |-> [j \in Tables |-> IF s = r /\ j = k THEN v ELSE Held(s, j)]]
          = [held EXCEPT ![r][k] = v]
    BY DEF held
  <2> QED
    BY <2>4, <2>5, Zenon
<1>3. CASE MapTable(r)
  <2>1. PICK k \in Tables : k = rtab[r]
    BY <1>a
  <2>2. PICK o : o = Published(k)
    OBVIOUS
  <2>3. ~Unopenable(k) /\ rmap' = [rmap EXCEPT ![r][k] = o]
    BY <1>3, <2>1, <2>2 DEF MapTable, Unopenable, Published
  <2>4. PICK v : v = mem[k][o]
    OBVIOUS
  <2>5. o # None
    BY <2>2, <2>3, <1>a, OpenableTable DEF Objects, None
  <2>6. held' = [held EXCEPT ![r][k] = v]
    BY <2>3, <2>4, <2>5, <1>2
  <2>7. latest[k] = v /\ v # Absent
    BY <2>2, <2>3, <2>4, <1>a, OpenableTable, AbsentAssumption DEF latest
  <2>8. Store!Open(r, k)
    BY <2>6, <2>7, <1>c DEF latest, held, Store!Open
  <2> QED
    BY <2>8 DEF Store!StoreNext
<1>4. ASSUME NEW k \in Tables, Reopen(r, k) PROVE Store!StoreNext
  <2>1. held' = [held EXCEPT ![r][k] = Absent]
    BY <1>2, <1>4 DEF Reopen
  <2>2. Store!Close(r, k)
    BY <2>1, <1>c DEF latest, held, Store!Close
  <2> QED
    BY <2>2 DEF Store!StoreNext
<1>5. CASE Forget(r)
  <2>1. rmap' = [rmap EXCEPT ![r] = Unmapped]
    BY <1>5 DEF Forget
  <2>2. \A k \in Tables : Held(r, k)' = Absent
    BY <2>1, <1>a DEF Held, Unmapped
  <2>3. \A s \in Readers, k \in Tables : s # r => Held(s, k)' = Held(s, k)
    BY <2>1, <1>a, <1>b DEF Held
  <2>4. held' = [held EXCEPT ![r] = [k \in Tables |-> Absent]]
    BY <2>2, <2>3 DEF held
  <2>5. Store!CloseAll(r)
    BY <2>4, <1>c DEF latest, held, Store!CloseAll
  <2> QED
    BY <2>5 DEF Store!StoreNext
<1>6. \/ rmap' = rmap \/ MapTable(r) \/ Forget(r)
      \/ \E k \in Tables : Reopen(r, k)
  BY DEF ReaderStep, ReaderCalls, CreateReader, CloseReader, BeginQuery,
         CreateFails, ReopenFails, CacheCount, CheckPort, CheckSubnet, CheckVFab, CheckPath,
         CopyPath, Faults, Tables
<1> QED
  BY <1>1, <1>3, <1>4, <1>5, <1>6

\* Under one incarnation of the writer the tables implement the register
\* store: each publication of op_ppath_publish replaces a value as a whole,
\* and what op_ppath_create_reader or a re-open has mapped is a private copy of
\* the value of that moment.
THEOREM TablesImplementStore ==
  ASSUME MaxStarts = 1
  PROVE  Spec => ImplementsStore
<1>1. Init => Inv /\ Store!StoreInit
  <2> SUFFICES ASSUME Init PROVE Store!StoreInit
    BY InvInductive
  <2>1. \A k \in Tables : name[k] = 0 /\ \A r \in Readers : rmap[r][k] = None
    BY DEF Init, Unmapped
  <2>2. \A k \in Tables : Latest(k) = Absent /\ \A r \in Readers : Held(r, k) = Absent
    BY <2>1 DEF Latest, Unopenable, Held
  <2> QED
    BY <2>2 DEF Store!StoreInit
<1>2. Inv /\ [Next]_vars => [Store!StoreNext]_(Store!storeVars)
  <2> SUFFICES ASSUME Inv, [Next]_vars PROVE Stutter \/ Store!StoreNext
    BY DEF Stutter, latest, held, Store!storeVars
  <2>1. CASE UNCHANGED vars
    BY <2>1 DEF vars, sharedVars, memVars, readerVars, Stutter, latest, held, Latest,
                Unopenable, Held
  <2>2. CASE \E r \in Readers : ReaderStep(r) \/ ReaderCalls(r)
    BY <2>2, ReaderStores
  <2>3. CASE WriterNext
    BY <2>3, WriterStores
  <2> QED
    BY <2>1, <2>2, <2>3 DEF Next, WriterNext
<1> QED
  BY <1>1, <1>2, InvInductive, PTL DEF Spec, ImplementsStore, Store!StoreSpec

=============================================================================
