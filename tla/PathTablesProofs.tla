-------------------------- MODULE PathTablesProofs --------------------------
(***************************************************************************)
(* Theorems about PathTables, for every number of readers, fabrics,        *)
(* retries and publications: type correctness and the coherence of what is *)
(* published for any number of incarnations of the writer, and the safety  *)
(* of the readers under one incarnation (MaxStarts = 1).                   *)
(***************************************************************************)
EXTENDS PathTables, WellFoundedInduction, TLAPS

-----------------------------------------------------------------------------
(* Look-ups. *)

\* Every view has the fields the look-ups read.
LEMMA ViewType ==
  ASSUME NEW f \in Views
  PROVE  f.vfabs \in Seq(VFabs) /\ f.paths \in Seq([vf : VFabs, dst : Dests])
<1>1. CASE f \in Fabrics
  BY <1>1, FabricsAssumption DEF FabricsAssumption
<1>2. CASE f = Blank
  <2>1. f.vfabs = <<>> /\ f.paths = <<>>
    BY <1>2 DEF Blank
  <2> QED
    BY <2>1
<1> QED
  BY <1>1, <1>2 DEF Views

\* IndexIn returns a position, or 0.
LEMMA IndexInNat ==
  ASSUME NEW S, NEW seq \in Seq(S), NEW s
  PROVE  IndexIn(s, seq) \in Nat
<1>1. DOMAIN seq \subseteq Nat
  OBVIOUS
<1>2. CASE \E i \in DOMAIN seq : seq[i] = s
  <2>1. (CHOOSE i \in DOMAIN seq : seq[i] = s) \in DOMAIN seq
    BY <1>2
  <2> QED
    BY <1>1, <1>2, <2>1 DEF IndexIn
<1>3. CASE ~\E i \in DOMAIN seq : seq[i] = s
  BY <1>3 DEF IndexIn
<1> QED
  BY <1>2, <1>3

\* ChainHead returns a position of a path record, or 0.
LEMMA ChainHeadNat ==
  ASSUME NEW f \in Views, NEW i, NEW d
  PROVE  ChainHead(f, i, d) \in Nat
<1> DEFINE mine == {j \in DOMAIN f.paths :
                      i \in DOMAIN f.vfabs /\ f.paths[j] = [vf |-> f.vfabs[i], dst |-> d]}
           h == CHOOSE j \in mine : \A m \in mine : m <= j
<1>1. mine \subseteq Nat
  BY ViewType
<1>2. ChainHead(f, i, d) = IF mine = {} THEN 0 ELSE h
  BY DEF ChainHead
<1>3. ASSUME mine # {} PROVE h \in Nat
  <2> DEFINE n == Len(f.paths)
             mirror == {n - j : j \in mine}
  <2>1. n \in Nat /\ mine \subseteq 1..n
    BY ViewType
  <2>2. mirror \in SUBSET Nat /\ mirror # {}
    BY <2>1, <1>3
  <2>3. PICK x \in mirror : \A y \in mirror : x <= y
    <3> HIDE DEF mirror
    <3>1. PICK x \in mirror : \A y \in mirror : <<y, x>> \notin OpToRel(<, Nat)
      BY <2>2, NatLessThanWellFounded, WFMin
    <3>2. x \in Nat /\ \A y \in mirror : y \in Nat /\ ~(y < x)
      BY <2>2, <3>1 DEF OpToRel
    <3>3. \A y \in mirror : x <= y
      BY <3>2
    <3> QED
      BY <3>3
  <2>4. PICK j \in mine : x = n - j
    BY <2>3
  <2>5. \A m \in mine : m <= j
    <3>1. TAKE m \in mine
    <3>2. n - m \in mirror
      OBVIOUS
    <3>3. x <= n - m
      BY <3>2, <2>3
    <3> QED
      BY <3>3, <2>1, <2>4
  <2> QED
    BY <1>1, <2>5
<1> QED
  BY <1>2, <1>3

-----------------------------------------------------------------------------
(* Type correctness. *)

\* A table that is still to be initialized has a count to bump.
Room == wpc \in 1..4 => \A k \in Tables : InitAt(k) >= wpc => wcount[k] < MaxCount

\* The loop is entered again only while retries are left.
Tries == \A r \in Readers : rpc[r] = "port" => rtry[r] <= MaxRetries

\* A writer that runs has an incarnation number.
Born == wpc # Down => start >= 1

TypeInv == TypeOK /\ Room /\ Tries /\ Born

\* The steps of a publication, in numbers.
LEMMA StepNumbers ==
  \A k \in Tables :
    /\ InitAt(k) \in 1..4
    /\ UnlinkAt(k) \in 6..12
    /\ NameAt(k) \in 7..13
    /\ CountAt(k) \in 14..17
    /\ \A j \in Tables : InitAt(j) = InitAt(k) => j = k
BY DEF Tables, InitAt, InitPos, UnlinkAt, NameAt, CountAt, PublishPos

LEMMA NoQueryType == NoQuery \in Queries
<1>1. PICK v \in VFabs, d \in Dests : TRUE
  BY NonEmptyAssumption
<1>2. [kind |-> "sid", vf |-> v, dst |-> d] \in Queries
  BY DEF Queries
<1> QED
  BY <1>2 DEF NoQuery

LEMMA TypeInit == Init => TypeInv
<1> SUFFICES ASSUME Init PROVE TypeInv
  OBVIOUS
<1> USE BoundsAssumption DEF Init
<1>1. SharedTypeOK
  <2>1. Blank \in Views
    BY DEF Views
  <2>2. dir \in [Tables -> [1..MaxCount -> 0..MaxStarts]]
    OBVIOUS
  <2>3. mem \in [Tables -> [Objects -> Views]]
    BY <2>1
  <2>4. exists \in BOOLEAN
    BY Zenon
  <2>5. /\ name \in [Tables -> 0..MaxCount]
        /\ count \in [Tables -> 0..MaxCount]
    OBVIOUS
  <2> QED
    BY <2>2, <2>3, <2>4, <2>5 DEF SharedTypeOK
<1>2. WriterTypeOK
  BY DEF WriterTypeOK, Views, Down, Idle, None
<1>3. ReaderTypeOK
  BY NoQueryType DEF ReaderTypeOK, Unmapped, ReaderPCs, Tables
<1>4. Room /\ Tries /\ Born
  BY DEF Room, Tries, Born, Down
<1> QED
  BY <1>1, <1>2, <1>3, <1>4 DEF TypeInv, TypeOK

\* The writer leaves the readers' variables alone.
LEMMA WriterFrame ==
  ASSUME \/ CreateWriter \/ CloseWriter \/ CrashWriter \/ WriterStep
         \/ \E f \in Fabrics : StartPublish(f)
  PROVE  UNCHANGED readerVars
BY DEF CreateWriter, CloseWriter, CrashWriter, WriterStep, StartPublish, InitTable,
       InitTableFails, UnlinkOld, PublishName, PublishCount, FillTables

\* What the ten steps of op_ppath_publish leave alone.
LEMMA PublishFrame ==
  ASSUME NEW k \in Tables, UnlinkOld(k) \/ PublishName(k) \/ PublishCount(k)
  PROVE  /\ wpc \in 6..17
         /\ wpc' = wpc + 1
         /\ UNCHANGED <<exists, mem, start, wcount, wmap, wfab>>
<1>1. wpc \in 6..17
  BY StepNumbers DEF UnlinkOld, PublishName, PublishCount
<1>2. wpc' = wpc + 1
  BY DEF UnlinkOld, PublishName, PublishCount
<1>3. UNCHANGED <<exists, mem, start, wcount, wmap, wfab>>
  BY DEF UnlinkOld, PublishName, PublishCount, sharedVars, memVars
<1> QED
  BY <1>1, <1>2, <1>3

LEMMA DirUpdate ==
  ASSUME SharedTypeOK, NEW k \in Tables, NEW n, NEW i \in 0..MaxStarts
  PROVE  [dir EXCEPT ![k][n] = i] \in [Tables -> [1..MaxCount -> 0..MaxStarts]]
<1>1. dir[k] \in [1..MaxCount -> 0..MaxStarts]
  BY DEF SharedTypeOK
<1>2. [dir[k] EXCEPT ![n] = i] \in [1..MaxCount -> 0..MaxStarts]
  BY <1>1
<1> QED
  BY <1>2 DEF SharedTypeOK

LEMMA TypeWriter ==
  ASSUME TypeInv,
         \/ CreateWriter \/ CloseWriter \/ CrashWriter \/ WriterStep
         \/ \E f \in Fabrics : StartPublish(f)
  PROVE  TypeInv'
<1> DEFINE Shared == SharedTypeOK /\ WriterTypeOK /\ Room /\ Born
<1> Shared
  BY DEF TypeInv, TypeOK
<1>1. ASSUME CreateWriter PROVE Shared'
  BY <1>1, BoundsAssumption
     DEF CreateWriter, SharedTypeOK, WriterTypeOK, Room, Born, memVars, Down, Idle
<1>2. ASSUME CloseWriter PROVE Shared'
  BY <1>2, BoundsAssumption
     DEF CloseWriter, SharedTypeOK, WriterTypeOK, Room, Born, sharedVars, Down, Idle
<1>3. ASSUME CrashWriter PROVE Shared'
  BY <1>3, BoundsAssumption
     DEF CrashWriter, SharedTypeOK, WriterTypeOK, Room, Born, sharedVars, memVars, Down, Idle
<1>4. ASSUME NEW f \in Fabrics, StartPublish(f) PROVE Shared'
  BY <1>4, BoundsAssumption
     DEF StartPublish, SharedTypeOK, WriterTypeOK, Room, Born, sharedVars, memVars,
         Down, Idle, Views
<1>5. ASSUME NEW k \in Tables, InitTable(k) PROVE Shared'
  <2>1. /\ wpc \in 1..4 /\ wpc' = wpc + 1 /\ wcount[k] < MaxCount /\ start >= 1
        /\ UNCHANGED <<exists, name, count, start, wfab>>
    BY <1>5, StepNumbers DEF InitTable, Room, Born, Down, sharedVars
  <2> DEFINE n == wcount[k] + 1
             i == IF dir[k][n] = 0 THEN start ELSE dir[k][n]
  <2>2. /\ wcount' = [wcount EXCEPT ![k] = n]
        /\ dir' = [dir EXCEPT ![k][n] = i]
        /\ mem' = [mem EXCEPT ![k][<<i, n>>] = Blank]
        /\ wmap' = [wmap EXCEPT ![k] = <<i, n>>]
    BY <1>5 DEF InitTable, Bump
  <2>3. n \in 1..MaxCount /\ i \in 1..MaxStarts
    BY <2>1, BoundsAssumption DEF SharedTypeOK, WriterTypeOK
  <2> HIDE DEF n, i
  <2>4. <<i, n>> \in Objects /\ Blank \in Views
    BY <2>3 DEF Objects, Views
  <2>5. SharedTypeOK'
    BY <2>1, <2>2, <2>3, <2>4 DEF SharedTypeOK
  <2>6. WriterTypeOK'
    BY <2>1, <2>2, <2>3, <2>4 DEF WriterTypeOK, Idle
  <2>7. Room'
    BY <1>5, <2>1, <2>2, StepNumbers DEF Room, WriterTypeOK, InitTable
  <2>8. Born'
    BY <2>1 DEF Born
  <2> QED
    BY <2>5, <2>6, <2>7, <2>8
<1>6. ASSUME NEW k \in Tables, InitTableFails(k) PROVE Shared'
  <2>1. /\ wpc \in 1..4 /\ wpc' = 6 /\ wcount[k] < MaxCount /\ start >= 1
        /\ wcount' = [wcount EXCEPT ![k] = wcount[k] + 1]
        /\ wmap' = [wmap EXCEPT ![k] = None]
        /\ UNCHANGED <<exists, name, count, mem, start, wfab>>
    BY <1>6, StepNumbers
       DEF InitTableFails, Bump, Room, Born, Down, sharedVars, PublishStart
  <2>2. dir' \in [Tables -> [1..MaxCount -> 0..MaxStarts]]
    <3>1. 0 \in 0..MaxStarts
      BY BoundsAssumption
    <3>2. dir' = dir \/ dir' = [dir EXCEPT ![k][Bump(wcount[k])] = 0]
      BY <1>6 DEF InitTableFails
    <3>3. [dir EXCEPT ![k][Bump(wcount[k])] = 0] \in [Tables -> [1..MaxCount -> 0..MaxStarts]]
      BY <3>1, DirUpdate, Zenon
    <3> QED
      BY <3>2, <3>3, Zenon DEF SharedTypeOK
  <2>3. SharedTypeOK'
    BY <2>1, <2>2 DEF SharedTypeOK
  <2>4. wcount' \in [Tables -> 0..MaxCount]
    BY <2>1, BoundsAssumption DEF WriterTypeOK
  <2>5. WriterTypeOK'
    BY <2>1, <2>4 DEF WriterTypeOK, Idle
  <2> QED
    BY <2>1, <2>3, <2>5 DEF Room, Born
<1>7. ASSUME NEW k \in Tables, UnlinkOld(k) \/ PublishName(k) \/ PublishCount(k)
      PROVE  Shared'
  <2>1. dir' \in [Tables -> [1..MaxCount -> 0..MaxStarts]]
    <3>1. 0 \in 0..MaxStarts
      BY BoundsAssumption
    <3>2. dir' = dir \/ dir' = [dir EXCEPT ![k][name[k]] = 0]
      BY <1>7 DEF UnlinkOld, PublishName, PublishCount, OldName, memVars
    <3>3. [dir EXCEPT ![k][name[k]] = 0] \in [Tables -> [1..MaxCount -> 0..MaxStarts]]
      BY <3>1, DirUpdate, Zenon
    <3> QED
      BY <3>2, <3>3, Zenon DEF SharedTypeOK
  <2>2. name' \in [Tables -> 0..MaxCount]
    BY <1>7 DEF UnlinkOld, PublishName, PublishCount, sharedVars, SharedTypeOK, WriterTypeOK
  <2>3. count' \in [Tables -> 0..MaxCount]
    BY <1>7 DEF UnlinkOld, PublishName, PublishCount, sharedVars, SharedTypeOK, WriterTypeOK
  <2>4. SharedTypeOK'
    BY <1>7, <2>1, <2>2, <2>3, PublishFrame DEF SharedTypeOK
  <2>5. WriterTypeOK'
    BY <1>7, PublishFrame DEF WriterTypeOK, Idle
  <2>6. Room' /\ Born'
    BY <1>7, PublishFrame DEF Room, Born, Down
  <2> QED
    BY <2>4, <2>5, <2>6
<1>8. ASSUME FillTables PROVE Shared'
  <2>1. mem' \in [Tables -> [Objects -> Views]]
    BY <1>8 DEF FillTables, SharedTypeOK, WriterTypeOK
  <2>2. /\ wpc = 5 /\ wpc' = 6
        /\ UNCHANGED <<exists, name, count, dir, start, wcount, wmap, wfab>>
    BY <1>8 DEF FillTables, FillAt, sharedVars
  <2> QED
    BY <2>1, <2>2 DEF SharedTypeOK, WriterTypeOK, Room, Born, Down, Idle
<1>9. ReaderTypeOK' /\ Tries'
  BY WriterFrame DEF TypeInv, TypeOK, ReaderTypeOK, Tries, readerVars
<1> QED
  BY <1>1, <1>2, <1>3, <1>4, <1>5, <1>6, <1>7, <1>8, <1>9 DEF WriterStep, TypeInv, TypeOK

\* The readers leave the writer and the shared memory alone.
LEMMA ReaderFrame ==
  ASSUME NEW r \in Readers, ReaderStep(r) \/ ReaderCalls(r)
  PROVE  UNCHANGED <<sharedVars, memVars, writerVars>>
BY DEF ReaderStep, ReaderCalls, CreateReader, CloseReader, BeginQuery, Forget, MapTable,
       CreateFails, ReopenFails, CacheCount, CheckPort, CheckSubnet, CheckVFab, CheckPath,
       CopyPath

\* Where the query's loop and its early returns lead.
LEMMA AgainType ==
  ASSUME TypeInv, NEW r \in Readers, NEW code, Again(r, code) \/ Fail(r, code)
  PROVE  \E pc \in {"port", "ready"} :
           /\ rpc' = [rpc EXCEPT ![r] = pc]
           /\ pc = "port" => rtry[r] <= MaxRetries
BY DEF Again, Fail, Goto, RetriesLeft

LEMMA ReopenType ==
  ASSUME TypeInv, NEW r \in Readers, NEW k \in Tables, Reopen(r, k)
  PROVE  /\ rpc' = [rpc EXCEPT ![r] = "map"]
         /\ rtab' \in [Readers -> Tables]
         /\ rmap' \in [Readers -> [Tables -> Objects \cup {None}]]
         /\ ridx' = ridx
BY DEF Reopen, Goto, TypeInv, TypeOK, ReaderTypeOK

LEMMA TypeReader ==
  ASSUME TypeInv, NEW r \in Readers, ReaderStep(r) \/ ReaderCalls(r)
  PROVE  TypeInv'
<1> DEFINE RInv == ReaderTypeOK /\ Tries
<1> USE BoundsAssumption DEF ReaderTypeOK, Tries, Goto, ReaderPCs
<1>a. RInv /\ SharedTypeOK
  BY DEF TypeInv, TypeOK
<1>1. ASSUME CreateReader(r) PROVE RInv'
  BY <1>1, <1>a DEF CreateReader
<1>2. ASSUME Forget(r) PROVE RInv'
  BY <1>2, <1>a, NoQueryType DEF Forget, Unmapped, Tables
<1>3. ASSUME NEW q \in Queries, BeginQuery(r, q) PROVE RInv'
  BY <1>3, <1>a DEF BeginQuery
<1>4. ASSUME MapTable(r) PROVE RInv'
  BY <1>4, <1>a DEF MapTable, Objects, SharedTypeOK
<1>5. ASSUME ReopenFails(r) PROVE RInv'
  BY <1>5, <1>a DEF ReopenFails, Again, Fail, RetriesLeft
<1>6. ASSUME CacheCount(r) PROVE RInv'
  <2>1. /\ rcount' \in [Readers -> [Tables -> 0..MaxCount]]
        /\ UNCHANGED <<rmap, rq, rtry, ridx>>
    BY <1>6, <1>a DEF CacheCount, SharedTypeOK
  <2>2. CASE rpc[r] = "count"
    <3>1. Again(r, "enoent") /\ UNCHANGED rtab
      BY <1>6, <2>2 DEF CacheCount
    <3> QED
      BY <3>1, <2>1, <1>a, AgainType
  <2>3. CASE rpc[r] = "createcount"
    <3>1. rtab' \in [Readers -> Tables]
      BY <1>6, <2>3, <1>a DEF CacheCount, Following, Tables
    <3>2. \E pc \in {"ready", "createmap"} : rpc' = [rpc EXCEPT ![r] = pc]
      BY <1>6, <2>3 DEF CacheCount
    <3> QED
      BY <3>1, <3>2, <2>1, <1>a
  <2> QED
    BY <1>6, <2>2, <2>3 DEF CacheCount
<1>7. ASSUME CheckPort(r) PROVE RInv'
  <2>1. /\ rtry' \in [Readers -> 0..(MaxRetries + 1)]
        /\ \A s \in Readers : s # r => rtry'[s] = rtry[s]
        /\ UNCHANGED <<rcount, rq>>
    BY <1>7, <1>a DEF CheckPort, NextTry
  <2>2. CASE Reopen(r, "port")
    BY <2>1, <2>2, <1>a, ReopenType DEF Tables
  <2>3. CASE \E pc \in {"null", "subnet", "ready"} :
               Goto(r, pc) /\ UNCHANGED <<rtab, rmap, ridx>>
    BY <2>1, <2>3, <1>a
  <2> QED
    BY <1>7, <2>2, <2>3 DEF CheckPort, Faults, Fail
<1>8. ASSUME CheckSubnet(r) PROVE RInv'
  <2>1. UNCHANGED <<rcount, rq, rtry>>
    BY <1>8 DEF CheckSubnet
  <2>2. CASE Reopen(r, "subnet")
    BY <2>1, <2>2, <1>a, ReopenType DEF Tables
  <2>3. CASE Goto(r, "vfab") /\ UNCHANGED <<rtab, rmap, ridx>>
    BY <2>1, <2>3, <1>a
  <2> QED
    BY <1>8, <2>2, <2>3 DEF CheckSubnet
<1>9. ASSUME CheckVFab(r) PROVE RInv'
  <2>1. UNCHANGED <<rcount, rq, rtry>>
    BY <1>9 DEF CheckVFab
  <2>2. CASE Reopen(r, "vfab")
    BY <2>1, <2>2, <1>a, ReopenType DEF Tables
  <2>3. CASE Faults(r, "null")
    BY <2>1, <2>3, <1>a DEF Faults
  <2>4. CASE \E pc \in {"ready", "path"}, i \in Nat :
               /\ Goto(r, pc) /\ UNCHANGED <<rtab, rmap>>
               /\ ridx' = [ridx EXCEPT ![r] = i]
    BY <2>1, <2>4, <1>a
  <2>5. ASSUME ~Reopen(r, "vfab"), ~Faults(r, "null")
        PROVE  \E pc \in {"ready", "path"}, i \in Nat :
                 /\ Goto(r, pc) /\ UNCHANGED <<rtab, rmap>>
                 /\ ridx' = [ridx EXCEPT ![r] = i]
    <3> DEFINE by == IF rq[r].kind = "pkey" THEN "vfab" ELSE "subnet"
               i == IndexIn(rq[r].vf, View(r, by).vfabs)
    <3>1. /\ ~Null(r, {by})
          /\ IF i = 0 THEN Fail(r, "einval") ELSE Goto(r, "path") /\ UNCHANGED rans
          /\ ridx' = [ridx EXCEPT ![r] = i]
          /\ UNCHANGED <<rtab, rmap>>
      BY <1>9, <2>5 DEF CheckVFab
    <3>2. View(r, by) \in Views
      BY <3>1, <1>a DEF Null, View, SharedTypeOK, Tables
    <3>3. i \in Nat
      BY <3>2, ViewType, IndexInNat
    <3> HIDE DEF i
    <3> QED
      BY <3>1, <3>3 DEF Fail
  <2> QED
    BY <2>2, <2>3, <2>4, <2>5
<1>10. ASSUME CheckPath(r) PROVE RInv'
  <2>1. UNCHANGED <<rcount, rq, rtry>>
    BY <1>10 DEF CheckPath
  <2>2. CASE Reopen(r, "path")
    BY <2>1, <2>2, <1>a, ReopenType DEF Tables
  <2>3. CASE \E pc \in {"null", "overrun"} : Faults(r, pc)
    BY <2>1, <2>3, <1>a DEF Faults
  <2>4. CASE \E h \in Nat :
               /\ (Goto(r, "copy") /\ UNCHANGED rans) \/ Again(r, "enoent")
               /\ ridx' = [ridx EXCEPT ![r] = h]
               /\ UNCHANGED <<rtab, rmap>>
    <3>1. PICK h \in Nat :
            /\ (Goto(r, "copy") /\ UNCHANGED rans) \/ Again(r, "enoent")
            /\ ridx' = [ridx EXCEPT ![r] = h]
            /\ UNCHANGED <<rtab, rmap>>
      BY <2>4
    <3>2. CASE Goto(r, "copy")
      BY <3>1, <3>2, <2>1, <1>a
    <3>3. CASE Again(r, "enoent")
      BY <3>1, <3>3, <2>1, <1>a, AgainType
    <3> QED
      BY <3>1, <3>2, <3>3
  <2>5. ASSUME ~Reopen(r, "path"), ~\E pc \in {"null", "overrun"} : Faults(r, pc)
        PROVE  \E h \in Nat :
                 /\ (Goto(r, "copy") /\ UNCHANGED rans) \/ Again(r, "enoent")
                 /\ ridx' = [ridx EXCEPT ![r] = h]
                 /\ UNCHANGED <<rtab, rmap>>
    <3> DEFINE h == ChainHead(View(r, "vfab"), ridx[r], rq[r].dst)
    <3>1. /\ ~Null(r, {"vfab", "path"})
          /\ (Goto(r, "copy") /\ UNCHANGED rans) \/ Again(r, "enoent")
          /\ ridx' = [ridx EXCEPT ![r] = h]
          /\ UNCHANGED <<rtab, rmap>>
      BY <1>10, <2>5 DEF CheckPath
    <3>2. View(r, "vfab") \in Views
      BY <3>1, <1>a DEF Null, View, SharedTypeOK, Tables
    <3>3. h \in Nat
      BY <3>2, ChainHeadNat
    <3> HIDE DEF h
    <3> QED
      BY <3>1, <3>3
  <2> QED
    BY <2>2, <2>3, <2>4, <2>5
<1>11. ASSUME CopyPath(r) PROVE RInv'
  BY <1>11, <1>a DEF CopyPath
<1>12. SharedTypeOK' /\ WriterTypeOK' /\ Room' /\ Born'
  BY ReaderFrame
     DEF TypeInv, TypeOK, SharedTypeOK, WriterTypeOK, Room, Born, sharedVars, memVars, writerVars
<1> QED
  BY <1>1, <1>2, <1>3, <1>4, <1>5, <1>6, <1>7, <1>8, <1>9, <1>10, <1>11, <1>12
     DEF ReaderStep, ReaderCalls, CloseReader, CreateFails, TypeInv, TypeOK

LEMMA TypeNext ==
  ASSUME TypeInv, [Next]_vars
  PROVE  TypeInv'
<1>1. CASE UNCHANGED vars
  BY <1>1 DEF TypeInv, TypeOK, SharedTypeOK, WriterTypeOK, ReaderTypeOK, Room, Tries, Born,
              vars, sharedVars, memVars, writerVars, readerVars
<1>2. CASE \E r \in Readers : ReaderStep(r) \/ ReaderCalls(r)
  BY <1>2, TypeReader
<1>3. CASE \/ CreateWriter \/ CloseWriter \/ CrashWriter \/ WriterStep
           \/ \E f \in Fabrics : StartPublish(f)
  BY <1>3, TypeWriter
<1> QED
  BY <1>1, <1>2, <1>3 DEF Next


\* TypeOK holds in every reachable state, whatever the number of incarnations.
THEOREM TypeCorrect == Spec => []TypeOK
<1>1. Init => TypeInv
  BY TypeInit
<1>2. TypeInv /\ [Next]_vars => TypeInv'
  BY TypeNext
<1>3. TypeInv => TypeOK
  BY DEF TypeInv
<1> QED
  BY <1>1, <1>2, <1>3, PTL DEF Spec

-----------------------------------------------------------------------------
(* One incarnation of the writer: what is mapped stays, what is read is    *)
(* mapped.                                                                 *)

\* A number is given to an object once: the counts of the unpublished tables
\* run ahead of the published names, and the names ahead of what is mapped.
Counts ==
  \A k \in Tables : count[k] <= wcount[k] /\ name[k] <= wcount[k]

Building ==
  \A k \in Tables : wpc \in 1..FillAt /\ InitAt(k) < wpc =>
                      name[k] < wcount[k] /\ wmap[k][2] = wcount[k]

Mapped ==
  \A r \in Readers, k \in Tables :
    rmap[r][k][2] <= name[k] /\ rcount[r][k] <= count[k]

\* Nobody has a table before the incarnation.
Unborn ==
  /\ exists => start # 0
  /\ start = 0 => \A r \in Readers : rpc[r] = "closed"
  /\ \A r \in Readers : rpc[r] = "closed" =>
       /\ rtab[r] = "port"
       /\ \A k \in Tables : rmap[r][k] = None /\ rcount[r][k] = 0

\* A table that an open reader does not have mapped has a stale count.
Opened   == {"ready", "port", "subnet", "vfab", "path", "copy", "map", "count"}
Creating == {"createmap", "createcount"}

\* The tables are opened in this order.
OpenPos == [port |-> 1, path |-> 2, subnet |-> 3, vfab |-> 4]

Stale ==
  \A r \in Readers, k \in Tables :
    /\ rpc[r] \in Opened /\ rmap[r][k] = None => rcount[r][k] < count[k]
    /\ rpc[r] \in Creating /\ OpenPos[k] < OpenPos[rtab[r]] => rmap[r][k] # None

\* A table that the next step of a reader relies on is mapped.
Relied ==
  \A r \in Readers :
    /\ rpc[r] \in {"count", "createcount"} => rmap[r][rtab[r]] # None
    /\ rpc[r] \in {"vfab", "path"} => rmap[r]["subnet"] # None
    /\ rpc[r] = "path" => rmap[r]["vfab"] # None
    /\ rpc[r] # "null"

SafeInv == Counts /\ Building /\ Mapped /\ Unborn /\ Stale /\ Relied

LEMMA SafeInit == Init => SafeInv
BY DEF Init, SafeInv, Counts, Building, Mapped, Unborn, Stale, Relied, Opened, Creating,
       Unmapped, None, FillAt, Down

\* A running writer only ever raises the names and the counts.
LEMMA Raises ==
  ASSUME TypeInv, SafeInv,
         CloseWriter \/ CrashWriter \/ WriterStep \/ \E f \in Fabrics : StartPublish(f)
  PROVE  /\ \A k \in Tables : name[k] <= name'[k] /\ count[k] <= count'[k]
         /\ Counts' /\ Building'
         /\ exists' = exists /\ start' = start
<1> DEFINE Goal == /\ \A k \in Tables : name[k] <= name'[k] /\ count[k] <= count'[k]
                   /\ Counts' /\ Building'
                   /\ exists' = exists /\ start' = start
<1>a. /\ name \in [Tables -> Nat] /\ count \in [Tables -> Nat] /\ wcount \in [Tables -> Nat]
      /\ wmap \in [Tables -> Objects \cup {None}]
      /\ wpc \in 0..18 /\ Counts /\ Building
  BY BoundsAssumption
     DEF TypeInv, TypeOK, SharedTypeOK, WriterTypeOK, SafeInv, Idle
<1>1. ASSUME CloseWriter \/ CrashWriter PROVE Goal
  BY <1>1, <1>a DEF CloseWriter, CrashWriter, sharedVars, Down, Counts, Building, FillAt
<1>2. ASSUME NEW f \in Fabrics, StartPublish(f) PROVE Goal
  BY <1>2, <1>a, StepNumbers DEF StartPublish, sharedVars, Counts, Building, FillAt
<1>3. ASSUME NEW k \in Tables, InitTable(k) PROVE Goal
  <2>1. /\ wpc = InitAt(k) /\ wpc' = wpc + 1
        /\ UNCHANGED <<exists, name, count, start>>
        /\ wcount' = [wcount EXCEPT ![k] = wcount[k] + 1]
        /\ \E i : wmap' = [wmap EXCEPT ![k] = <<i, wcount[k] + 1>>]
    BY <1>3 DEF InitTable, Bump, sharedVars
  <2>2. Counts'
    BY <2>1, <1>a DEF Counts
  <2>3. Building'
    BY <2>1, <1>a, StepNumbers DEF Building, FillAt, Counts
  <2> QED
    BY <2>1, <2>2, <2>3, <1>a
<1>4. ASSUME NEW k \in Tables, InitTableFails(k) PROVE Goal
  BY <1>4, <1>a DEF InitTableFails, Bump, PublishStart, sharedVars, Counts, Building, FillAt
<1>5. ASSUME NEW k \in Tables, UnlinkOld(k) \/ PublishName(k) \/ PublishCount(k)
      PROVE  Goal
  <2>1. Building'
    BY <1>5, PublishFrame DEF Building, FillAt
  <2>2. /\ \A j \in Tables : name[j] <= name'[j] /\ count[j] <= count'[j]
        /\ Counts'
    BY <1>5, <1>a, PublishFrame
       DEF UnlinkOld, PublishName, PublishCount, sharedVars, Counts
  <2> QED
    BY <1>5, <2>1, <2>2, PublishFrame
<1>6. ASSUME FillTables PROVE Goal
  BY <1>6, <1>a DEF FillTables, FillAt, sharedVars, Counts, Building
<1> QED
  BY <1>1, <1>2, <1>3, <1>4, <1>5, <1>6 DEF WriterStep

LEMMA SafeWriter ==
  ASSUME MaxStarts = 1, TypeInv, SafeInv,
         \/ CreateWriter \/ CloseWriter \/ CrashWriter \/ WriterStep
         \/ \E f \in Fabrics : StartPublish(f)
  PROVE  SafeInv'
<1>a. /\ name \in [Tables -> Nat] /\ count \in [Tables -> Nat] /\ wcount \in [Tables -> Nat]
      /\ start \in {0, 1}
      /\ rcount \in [Readers -> [Tables -> Nat]]
      /\ \A r \in Readers, k \in Tables : rmap[r][k][2] \in Nat
  BY BoundsAssumption
     DEF TypeInv, TypeOK, SharedTypeOK, WriterTypeOK, ReaderTypeOK, Objects, None
<1>b. UNCHANGED <<rpc, rtab, rmap, rcount>>
  BY WriterFrame DEF readerVars
<1>1. CASE CreateWriter
  <2>1. /\ start = 0 /\ start' = 1 /\ wpc' = 18
        /\ \A k \in Tables : name'[k] = 0 /\ count'[k] = 0 /\ wcount'[k] = 0
    BY <1>1, <1>a DEF CreateWriter, Idle
  <2>2. \A r \in Readers : rpc[r] = "closed"
    BY <2>1 DEF SafeInv, Unborn
  <2>3. \A r \in Readers, k \in Tables : rmap[r][k] = None /\ rcount[r][k] = 0
    BY <2>2 DEF SafeInv, Unborn
  <2>4. Counts' /\ Building' /\ Mapped'
    BY <2>1, <2>3, <1>b DEF Counts, Building, Mapped, FillAt, None
  <2>5. Unborn'
    BY <2>1, <1>b DEF SafeInv, Unborn
  <2>6. Stale' /\ Relied'
    BY <2>2, <1>b DEF Stale, Relied, Opened, Creating
  <2> QED
    BY <2>4, <2>5, <2>6 DEF SafeInv
<1>2. CASE CloseWriter \/ CrashWriter \/ WriterStep \/ \E f \in Fabrics : StartPublish(f)
  <2>1. /\ \A k \in Tables : name[k] <= name'[k] /\ count[k] <= count'[k]
        /\ Counts' /\ Building'
        /\ exists' = exists /\ start' = start
    BY <1>2, Raises
  <2>2. /\ name' \in [Tables -> Nat] /\ count' \in [Tables -> Nat]
    <3>1. TypeInv'
      BY TypeWriter
    <3> QED
      BY <3>1, BoundsAssumption DEF TypeInv, TypeOK, SharedTypeOK
  <2>3. Mapped'
    BY <2>1, <2>2, <1>a, <1>b DEF SafeInv, Mapped
  <2>4. Unborn' /\ Relied'
    BY <2>1, <1>b DEF SafeInv, Unborn, Relied
  <2>5. Stale'
    BY <2>1, <2>2, <1>a, <1>b DEF SafeInv, Stale
  <2> QED
    BY <2>1, <2>3, <2>4, <2>5 DEF SafeInv
<1> QED
  BY <1>1, <1>2

\* What a reader has mapped is not what the writer is clearing or filling.
LEMMA WriterFreezes ==
  ASSUME MaxStarts = 1, TypeInv, SafeInv,
         \/ CreateWriter \/ CloseWriter \/ CrashWriter \/ WriterStep
         \/ \E f \in Fabrics : StartPublish(f),
         NEW r \in Readers, NEW k \in Tables, rmap[r][k] # None
  PROVE  mem'[k][rmap[r][k]] = mem[k][rmap[r][k]]
<1>a. /\ wcount \in [Tables -> Nat] /\ name \in [Tables -> Nat]
      /\ mem \in [Tables -> [Objects -> Views]]
      /\ rmap[r][k] \in Objects /\ rmap[r][k][2] \in Nat
  <2>1. /\ wcount \in [Tables -> 0..MaxCount] /\ name \in [Tables -> 0..MaxCount]
        /\ mem \in [Tables -> [Objects -> Views]]
    BY DEF TypeInv, TypeOK, SharedTypeOK, WriterTypeOK
  <2>2. rmap[r][k] \in Objects
    BY DEF TypeInv, TypeOK, ReaderTypeOK
  <2>3. rmap[r][k][2] \in Nat
    BY <2>2 DEF Objects
  <2> QED
    BY <2>1, <2>2, <2>3, BoundsAssumption
<1>b. rmap[r][k][2] <= name[k] /\ name[k] <= wcount[k]
  BY DEF SafeInv, Mapped, Counts
<1>1. ASSUME NEW j \in Tables, InitTable(j) PROVE mem'[k][rmap[r][k]] = mem[k][rmap[r][k]]
  <2>1. PICK i : mem' = [mem EXCEPT ![j][<<i, wcount[j] + 1>>] = Blank]
    BY <1>1 DEF InitTable, Bump
  <2>2. j = k => <<i, wcount[j] + 1>> # rmap[r][k]
    BY <1>a, <1>b
  <2> QED
    BY <2>1, <2>2, <1>a
<1>2. ASSUME FillTables PROVE mem'[k][rmap[r][k]] = mem[k][rmap[r][k]]
  <2>1. mem' = [l \in Tables |-> [mem[l] EXCEPT ![wmap[l]] = wfab]]
    BY <1>2 DEF FillTables
  <2>2. wmap[k] # rmap[r][k]
    <3>1. name[k] < wcount[k] /\ wmap[k][2] = wcount[k]
      BY <1>2, StepNumbers DEF FillTables, FillAt, SafeInv, Building
    <3> QED
      BY <3>1, <1>a, <1>b
  <2> QED
    BY <2>1, <2>2, <1>a
<1>3. ASSUME ~\E j \in Tables : InitTable(j), ~FillTables PROVE mem' = mem
  BY <1>3 DEF CreateWriter, CloseWriter, CrashWriter, StartPublish, WriterStep,
              InitTableFails, UnlinkOld, PublishName, PublishCount, memVars
<1> QED
  BY <1>1, <1>2, <1>3


\* What a reader has mapped, and what it remembers, in numbers.
LEMMA ReaderTypes ==
  ASSUME TypeInv
  PROVE  /\ name \in [Tables -> Nat] /\ count \in [Tables -> Nat]
         /\ rtab \in [Readers -> Tables]
         /\ rpc \in [Readers -> ReaderPCs]
         /\ rmap \in [Readers -> [Tables -> Objects \cup {None}]]
         /\ rcount \in [Readers -> [Tables -> Nat]]
BY BoundsAssumption DEF TypeInv, TypeOK, SharedTypeOK, ReaderTypeOK

\* The parts of the invariant that the steps of a reader can disturb.
ReaderInv == Mapped /\ Unborn /\ Stale /\ Relied

\* A mapped table is not the null object.
LEMMA MappedNotNone ==
  ASSUME NEW i, NEW n \in Nat, n # 0
  PROVE  <<i, n>> # None
BY DEF None

\* A step that changes neither mappings nor remembered counts, within a call.
LEMMA SafeMove ==
  ASSUME TypeInv, SafeInv, NEW r \in Readers, NEW pc \in Opened \cup {"overrun"},
         rpc' = [rpc EXCEPT ![r] = pc],
         rpc[r] \in Opened,
         UNCHANGED <<exists, name, count, start, rtab, rmap, rcount>>,
         pc # "count",
         pc \in {"vfab", "path"} => rmap[r]["subnet"] # None,
         pc = "path" => rmap[r]["vfab"] # None
  PROVE  ReaderInv'
<1>a. /\ rpc \in [Readers -> ReaderPCs]
      /\ Mapped /\ Unborn /\ Stale /\ Relied
  BY ReaderTypes DEF SafeInv
<1>1. Mapped'
  BY <1>a DEF Mapped
<1>2. Unborn'
  BY <1>a DEF Unborn, Opened
<1>3. Stale'
  BY <1>a DEF Stale, Opened, Creating
<1>4. Relied'
  BY <1>a DEF Relied, Opened
<1> QED
  BY <1>1, <1>2, <1>3, <1>4 DEF ReaderInv

\* What an update of one entry of the readers' mappings does to the others.
LEMMA UpdateNested ==
  ASSUME NEW S, NEW f \in [Readers -> [Tables -> S]],
         NEW r \in Readers, NEW k \in Tables, NEW v,
         NEW g, g = [f EXCEPT ![r][k] = v]
  PROVE  /\ g[r][k] = v
         /\ \A s \in Readers, j \in Tables : s # r \/ j # k => g[s][j] = f[s][j]
<1>1. g = [f EXCEPT ![r] = [f[r] EXCEPT ![k] = v]]
  OBVIOUS
<1>2. f[r] \in [Tables -> S]
  OBVIOUS
<1>3. /\ g[r] = [f[r] EXCEPT ![k] = v]
      /\ \A s \in Readers : s # r => g[s] = f[s]
  BY <1>1
<1>4. \A j \in Tables : g[r][j] = IF j = k THEN v ELSE f[r][j]
  BY <1>2, <1>3
<1> QED
  BY <1>3, <1>4

\* A changed table is unmapped: its count is stale.
LEMMA SafeReopen ==
  ASSUME TypeInv, SafeInv, NEW r \in Readers, NEW k \in Tables,
         rpc[r] \in Opened, Changed(r, k), Reopen(r, k),
         UNCHANGED <<exists, name, count, start, rcount>>
  PROVE  ReaderInv'
<1>a. /\ rpc \in [Readers -> ReaderPCs]
      /\ rtab \in [Readers -> Tables]
      /\ rmap \in [Readers -> [Tables -> Objects \cup {None}]]
      /\ name \in [Tables -> Nat] /\ count \in [Tables -> Nat]
      /\ rcount \in [Readers -> [Tables -> Nat]]
      /\ Mapped /\ Unborn /\ Stale /\ Relied
  BY ReaderTypes DEF SafeInv
<1>b. /\ rpc' = [rpc EXCEPT ![r] = "map"]
      /\ rtab' = [rtab EXCEPT ![r] = k]
      /\ rmap' = [rmap EXCEPT ![r][k] = None]
  BY DEF Reopen, Goto
<1>c. rcount[r][k] < count[k]
  <2>1. rcount[r][k] # count[k] /\ rcount[r][k] <= count[k]
    BY <1>a DEF Changed, Mapped
  <2>2. count[k] \in Nat
    BY <1>a
  <2>3. rcount[r][k] \in Nat
    BY <1>a
  <2> QED
    BY <2>1, <2>2, <2>3
<1>d. /\ rmap'[r][k] = None
      /\ \A s \in Readers, j \in Tables : s # r \/ j # k => rmap'[s][j] = rmap[s][j]
  BY <1>a, <1>b, UpdateNested, Zenon
<1>1. Mapped'
  <2>1. ASSUME NEW s \in Readers, NEW j \in Tables
        PROVE  rmap'[s][j][2] <= name[j] /\ rcount[s][j] <= count[j]
    <3>1. CASE s # r \/ j # k
      BY <3>1, <1>a, <1>d DEF Mapped
    <3>2. CASE s = r /\ j = k
      <4>1. rmap'[s][j][2] = 0 /\ name[j] \in Nat
        BY <3>2, <1>a, <1>d DEF None
      <4> QED
        BY <4>1, <1>a DEF Mapped
    <3> QED
      BY <3>1, <3>2
  <2> QED
    BY <2>1 DEF Mapped
<1>2. Unborn'
  BY <1>a, <1>b, <1>d DEF Unborn, Opened
<1>3. Stale'
  BY <1>a, <1>b, <1>c, <1>d DEF Stale, Opened, Creating
<1>4. Relied'
  BY <1>a, <1>b, <1>d DEF Relied
<1> QED
  BY <1>1, <1>2, <1>3, <1>4 DEF ReaderInv


\* A table with the published count is mapped.
LEMMA UnchangedMapped ==
  ASSUME TypeInv, SafeInv, NEW r \in Readers, NEW k \in Tables,
         rpc[r] \in Opened, ~Changed(r, k)
  PROVE  rmap[r][k] # None
<1>1. rcount[r][k] = count[k] /\ count[k] \in Nat
  BY ReaderTypes DEF Changed
<1>2. rmap[r][k] = None => rcount[r][k] < count[k]
  BY DEF SafeInv, Stale
<1> QED
  BY <1>1, <1>2

\* op_ppath_create_reader and the open of a table.
LEMMA SafeOpen ==
  ASSUME TypeInv, SafeInv, NEW r \in Readers,
         CreateReader(r) \/ MapTable(r) \/ CacheCount(r) \/ Forget(r)
  PROVE  ReaderInv'
<1>a. /\ rpc \in [Readers -> ReaderPCs]
      /\ rtab \in [Readers -> Tables]
      /\ rmap \in [Readers -> [Tables -> Objects \cup {None}]]
      /\ name \in [Tables -> Nat] /\ count \in [Tables -> Nat]
      /\ rcount \in [Readers -> [Tables -> Nat]]
  BY ReaderTypes
<1>b. Mapped /\ Unborn /\ Stale /\ Relied
  BY DEF SafeInv
<1>c. UNCHANGED <<exists, name, count, start>>
  BY DEF CreateReader, MapTable, CacheCount, Forget, sharedVars, writerVars
<1>1. ASSUME CreateReader(r) PROVE ReaderInv'
  <2>1. /\ rpc[r] = "closed" /\ exists /\ rpc' = [rpc EXCEPT ![r] = "createmap"]
        /\ UNCHANGED <<rtab, rmap, rcount>>
    BY <1>1 DEF CreateReader, Goto
  <2>2. rtab[r] = "port"
    BY <1>b, <2>1 DEF Unborn
  <2>3. Mapped' /\ Unborn'
    BY <1>a, <1>b, <1>c, <2>1 DEF Mapped, Unborn
  <2>4. Stale'
    BY <1>a, <1>b, <1>c, <2>1, <2>2 DEF Stale, Opened, Creating, OpenPos, Tables
  <2>5. Relied'
    BY <1>a, <1>b, <2>1 DEF Relied
  <2> QED
    BY <2>3, <2>4, <2>5 DEF ReaderInv
<1>2. ASSUME MapTable(r) PROVE ReaderInv'
  <2> DEFINE k == rtab[r]
             o == <<dir[k][name[k]], name[k]>>
             pc == IF rpc[r] = "map" THEN "count" ELSE "createcount"
  <2>1. /\ rpc[r] \in {"createmap", "map"} /\ name[k] # 0
        /\ rpc' = [rpc EXCEPT ![r] = pc]
        /\ rmap' = [rmap EXCEPT ![r][k] = o]
        /\ UNCHANGED <<rtab, rcount>>
    BY <1>2 DEF MapTable, Goto
  <2>2. k \in Tables /\ o[2] = name[k] /\ o # None
    BY <1>a, <2>1 DEF None
  <2> HIDE DEF k, o
  <2>3. /\ rmap'[r][k] = o
        /\ \A s \in Readers, j \in Tables : s # r \/ j # k => rmap'[s][j] = rmap[s][j]
    BY <1>a, <2>1, <2>2, UpdateNested, Zenon
  <2>4. Mapped'
    <3>1. ASSUME NEW s \in Readers, NEW j \in Tables
          PROVE  rmap'[s][j][2] <= name[j] /\ rcount[s][j] <= count[j]
      <4>1. CASE s # r \/ j # k
        BY <4>1, <1>b, <2>3 DEF Mapped
      <4>2. CASE s = r /\ j = k
        <5>1. rmap'[s][j][2] = name[j] /\ name[j] \in Nat
          BY <4>2, <1>a, <2>2, <2>3
        <5> QED
          BY <5>1, <1>b DEF Mapped
      <4> QED
        BY <4>1, <4>2
    <3> QED
      BY <3>1, <1>c, <2>1 DEF Mapped
  <2>5. Unborn'
    BY <1>a, <1>b, <1>c, <2>1, <2>3 DEF Unborn
  <2>6. Stale'
    BY <1>a, <1>b, <1>c, <2>1, <2>2, <2>3 DEF Stale, Opened, Creating
  <2>7. Relied'
    BY <1>a, <1>b, <2>1, <2>2, <2>3 DEF Relied, k
  <2> QED
    BY <2>4, <2>5, <2>6, <2>7 DEF ReaderInv
<1>3. ASSUME CacheCount(r) PROVE ReaderInv'
  <2> DEFINE k == rtab[r]
  <2>1. k \in Tables /\ rcount' = [rcount EXCEPT ![r][k] = count[k]] /\ UNCHANGED rmap
    BY <1>3, <1>a DEF CacheCount
  <2>2. rpc[r] \in {"count", "createcount"}
    BY <1>3 DEF CacheCount
  <2>3. rmap[r][k] # None
    BY <1>b, <2>2 DEF Relied
  <2>4. /\ rcount'[r][k] = count[k]
        /\ \A s \in Readers, j \in Tables : s # r \/ j # k => rcount'[s][j] = rcount[s][j]
    BY <1>a, <2>1, UpdateNested, Zenon
  <2>5. Mapped'
    <3>1. ASSUME NEW s \in Readers, NEW j \in Tables
          PROVE  rcount'[s][j] <= count[j]
      <4>1. CASE s # r \/ j # k
        BY <4>1, <1>b, <2>4 DEF Mapped
      <4>2. CASE s = r /\ j = k
        BY <4>2, <1>a, <2>4
      <4> QED
        BY <4>1, <4>2
    <3> QED
      BY <3>1, <1>b, <1>c, <2>1 DEF Mapped
  <2>6. CASE rpc[r] = "count"
    <3>1. UNCHANGED rtab /\ \E pc \in {"port", "ready"} : rpc' = [rpc EXCEPT ![r] = pc]
      BY <1>3, <2>6 DEF CacheCount, Again, Fail, Goto
    <3>2. Unborn'
      BY <1>a, <1>b, <1>c, <2>1, <2>4, <2>6, <3>1 DEF Unborn
    <3>3. Stale'
      BY <1>a, <1>b, <1>c, <2>1, <2>3, <2>4, <2>6, <3>1 DEF Stale, Opened, Creating
    <3>4. Relied'
      BY <1>a, <1>b, <2>1, <3>1 DEF Relied
    <3> QED
      BY <2>5, <3>2, <3>3, <3>4 DEF ReaderInv
  <2>7. CASE rpc[r] = "createcount"
    <3>1. /\ rpc' = [rpc EXCEPT ![r] = IF k = "vfab" THEN "ready" ELSE "createmap"]
          /\ rtab' = [rtab EXCEPT ![r] = Following[k]]
      BY <1>3, <2>7 DEF CacheCount, Goto
    <3>2. \A j \in Tables : OpenPos[j] < OpenPos[k] => rmap[r][j] # None
      BY <1>b, <2>7 DEF Stale, Creating
    <3>3. /\ k = "vfab" => \A j \in Tables : rmap[r][j] # None
          /\ k # "vfab" => \A j \in Tables :
                              OpenPos[j] < OpenPos[Following[k]] => rmap[r][j] # None
      BY <2>1, <2>3, <3>2 DEF OpenPos, Following, Tables
    <3> HIDE DEF k
    <3>4. Unborn'
      BY <1>a, <1>b, <1>c, <2>1, <2>4, <2>7, <3>1 DEF Unborn
    <3>5. Stale'
      <4>1. CASE k = "vfab"
        BY <4>1, <1>a, <1>b, <1>c, <2>1, <2>4, <3>1, <3>3 DEF Stale, Opened, Creating
      <4>2. CASE k # "vfab"
        BY <4>2, <1>a, <1>b, <1>c, <2>1, <2>4, <3>1, <3>3 DEF Stale, Opened, Creating
      <4> QED
        BY <4>1, <4>2
    <3>6. Relied'
      BY <1>a, <1>b, <2>1, <3>1 DEF Relied
    <3> QED
      BY <2>5, <3>4, <3>5, <3>6 DEF ReaderInv
  <2> QED
    BY <2>2, <2>6, <2>7
<1>4. ASSUME Forget(r) PROVE ReaderInv'
  <2>1. /\ rpc' = [rpc EXCEPT ![r] = "closed"]
        /\ rtab' = [rtab EXCEPT ![r] = "port"]
        /\ rmap' = [rmap EXCEPT ![r] = Unmapped]
        /\ rcount' = [rcount EXCEPT ![r] = [k \in Tables |-> 0]]
    BY <1>4 DEF Forget, Goto
  <2>2. \A k \in Tables : rmap'[r][k] = None /\ rcount'[r][k] = 0
    BY <1>a, <2>1 DEF Unmapped
  <2>3. \A s \in Readers : s # r => /\ rpc'[s] = rpc[s] /\ rtab'[s] = rtab[s]
                                    /\ rmap'[s] = rmap[s] /\ rcount'[s] = rcount[s]
    BY <1>a, <2>1
  <2>4. rpc'[r] = "closed" /\ rtab'[r] = "port"
    BY <1>a, <2>1
  <2>5. Mapped'
    <3>1. ASSUME NEW j \in Tables PROVE None[2] <= name[j] /\ 0 <= count[j]
      BY <1>a DEF None
    <3> QED
      BY <3>1, <1>b, <1>c, <2>2, <2>3 DEF Mapped
  <2>6. Unborn'
    BY <1>b, <1>c, <2>2, <2>3, <2>4 DEF Unborn
  <2>7. Stale'
    BY <1>b, <1>c, <2>3, <2>4 DEF Stale, Opened, Creating
  <2>8. Relied'
    BY <1>b, <2>3, <2>4 DEF Relied
  <2> QED
    BY <2>5, <2>6, <2>7, <2>8 DEF ReaderInv
<1> QED
  BY <1>1, <1>2, <1>3, <1>4


\* op_ppath_find_path.
LEMMA SafeQuery ==
  ASSUME TypeInv, SafeInv, NEW r \in Readers,
         \/ ReopenFails(r) \/ CheckPort(r) \/ CheckSubnet(r) \/ CheckVFab(r)
         \/ CheckPath(r) \/ CopyPath(r) \/ \E q \in Queries : BeginQuery(r, q)
  PROVE  ReaderInv'
<1> DEFINE Move(pc) == rpc' = [rpc EXCEPT ![r] = pc] /\ UNCHANGED <<rtab, rmap>>
<1>a. rpc[r] \in {"map", "ready", "port", "subnet", "vfab", "path", "copy"}
  BY DEF ReopenFails, CheckPort, CheckSubnet, CheckVFab, CheckPath, CopyPath, BeginQuery
<1>b. UNCHANGED <<exists, name, count, start, rcount>>
  BY DEF ReopenFails, CheckPort, CheckSubnet, CheckVFab, CheckPath, CopyPath, BeginQuery,
         sharedVars, writerVars
<1>c. rpc[r] \in Opened
  BY <1>a DEF Opened
<1>d. Relied
  BY DEF SafeInv
<1>e. ASSUME NEW pc \in {"ready", "port", "copy", "overrun"}, Move(pc) PROVE ReaderInv'
  BY <1>e, <1>b, <1>c, SafeMove DEF Opened
<1>f. {"port", "subnet", "vfab", "path"} \subseteq Tables
  BY DEF Tables
<1>1. CASE ReopenFails(r)
  <2>1. \E pc \in {"port", "ready"} : Move(pc)
    BY <1>1 DEF ReopenFails, Again, Fail, Goto
  <2> QED
    BY <2>1, <1>e
<1>2. CASE CheckPort(r)
  <2>1. CASE Changed(r, "port") /\ Reopen(r, "port")
    BY <2>1, <1>b, <1>c, <1>f, SafeReopen
  <2>2. CASE ~Changed(r, "port") /\ rmap[r]["port"] = None
    BY <2>2, <1>c, <1>f, UnchangedMapped
  <2>3. CASE \E pc \in {"subnet", "ready"} : Move(pc)
    BY <2>3, <1>b, <1>c, SafeMove DEF Opened
  <2> QED
    BY <1>2, <2>1, <2>2, <2>3 DEF CheckPort, Null, Goto, Fail
<1>3. CASE CheckSubnet(r)
  <2>1. CASE Changed(r, "subnet") /\ Reopen(r, "subnet")
    BY <2>1, <1>b, <1>c, <1>f, SafeReopen
  <2>2. CASE ~Changed(r, "subnet") /\ Move("vfab")
    <3>1. rmap[r]["subnet"] # None
      BY <2>2, <1>c, <1>f, UnchangedMapped
    <3> QED
      BY <2>2, <3>1, <1>b, <1>c, SafeMove DEF Opened
  <2> QED
    BY <1>3, <2>1, <2>2 DEF CheckSubnet, Goto
<1>4. CASE CheckVFab(r)
  <2> DEFINE by == IF rq[r].kind = "pkey" THEN "vfab" ELSE "subnet"
  <2>1. CASE Changed(r, "vfab") /\ Reopen(r, "vfab")
    BY <2>1, <1>b, <1>c, <1>f, SafeReopen
  <2>2. CASE ~Changed(r, "vfab")
    <3>1. rpc[r] = "vfab" /\ rmap[r]["vfab"] # None /\ rmap[r]["subnet"] # None
      BY <1>4, <2>2, <1>c, <1>d, <1>f, UnchangedMapped DEF CheckVFab, Relied
    <3>2. ~Null(r, {by})
      BY <3>1 DEF Null
    <3>3. \E pc \in {"path", "ready"} : Move(pc)
      BY <1>4, <2>2, <3>2 DEF CheckVFab, Goto, Fail
    <3> QED
      BY <3>1, <3>3, <1>b, <1>c, SafeMove DEF Opened
  <2> QED
    BY <1>4, <2>1, <2>2 DEF CheckVFab
<1>5. CASE CheckPath(r)
  <2>1. CASE Changed(r, "path") /\ Reopen(r, "path")
    BY <2>1, <1>b, <1>c, <1>f, SafeReopen
  <2>2. CASE ~Changed(r, "path")
    <3>1. rmap[r]["path"] # None /\ rmap[r]["vfab"] # None
      BY <1>5, <2>2, <1>c, <1>d, <1>f, UnchangedMapped DEF CheckPath, Relied
    <3>2. ~Null(r, {"vfab", "path"})
      BY <3>1 DEF Null
    <3>3. \E pc \in {"copy", "port", "ready", "overrun"} : Move(pc)
      BY <1>5, <2>2, <3>2 DEF CheckPath, Faults, Again, Fail, Goto
    <3> QED
      BY <3>3, <1>e
  <2> QED
    BY <1>5, <2>1, <2>2 DEF CheckPath
<1>6. CASE CopyPath(r) \/ \E q \in Queries : BeginQuery(r, q)
  <2>1. \E pc \in {"ready", "port"} : Move(pc)
    BY <1>6 DEF CopyPath, BeginQuery, Goto
  <2> QED
    BY <2>1, <1>e
<1> QED
  BY <1>1, <1>2, <1>3, <1>4, <1>5, <1>6

LEMMA SafeReader ==
  ASSUME TypeInv, SafeInv, NEW r \in Readers, ReaderStep(r) \/ ReaderCalls(r)
  PROVE  SafeInv'
<1>1. ReaderInv'
  BY SafeOpen, SafeQuery DEF ReaderStep, ReaderCalls, CreateFails, CloseReader
<1>2. Counts' /\ Building'
  BY ReaderFrame DEF SafeInv, Counts, Building, sharedVars, writerVars
<1> QED
  BY <1>1, <1>2 DEF ReaderInv, SafeInv

\* SafeInv is inductive under one incarnation of the writer.
LEMMA SafeNext ==
  ASSUME MaxStarts = 1, TypeInv, SafeInv, [Next]_vars
  PROVE  SafeInv'
<1>1. CASE UNCHANGED vars
  BY <1>1 DEF vars, sharedVars, memVars, writerVars, readerVars, SafeInv, Counts, Building,
              Mapped, Unborn, Stale, Relied
<1>2. CASE \E r \in Readers : ReaderStep(r) \/ ReaderCalls(r)
  BY <1>2, SafeReader
<1> QED
  BY <1>1, <1>2, SafeWriter DEF Next

\* Under one incarnation of the writer no query of op_ppath_find_path reads a
\* table that a failed re-open left unmapped.
THEOREM ReadsAreMapped ==
  ASSUME MaxStarts = 1
  PROVE  Spec => []NoNullRead
<1>1. Init => TypeInv /\ SafeInv
  BY TypeInit, SafeInit
<1>2. TypeInv /\ SafeInv /\ [Next]_vars => TypeInv' /\ SafeInv'
  BY TypeNext, SafeNext
<1>3. SafeInv => NoNullRead
  BY DEF SafeInv, Relied, NoNullRead
<1> QED
  BY <1>1, <1>2, <1>3, PTL DEF Spec

\* Under one incarnation of the writer what a reader has mapped is never
\* cleared or filled again.
THEOREM PublishedTablesNeverChange ==
  ASSUME MaxStarts = 1
  PROVE  Spec => FrozenTables
<1> DEFINE Frozen == \A r \in Readers, k \in Tables :
                       rmap[r][k] # None => mem'[k][rmap[r][k]] = mem[k][rmap[r][k]]
<1>1. Init => TypeInv /\ SafeInv
  BY TypeInit, SafeInit
<1>2. TypeInv /\ SafeInv /\ [Next]_vars => TypeInv' /\ SafeInv'
  BY TypeNext, SafeNext
<1>3. TypeInv /\ SafeInv /\ [Next]_vars => [Frozen]_vars
  <2> SUFFICES ASSUME TypeInv, SafeInv, [Next]_vars PROVE Frozen
    OBVIOUS
  <2>1. CASE UNCHANGED vars
    BY <2>1 DEF vars, memVars
  <2>2. CASE \E r \in Readers : ReaderStep(r) \/ ReaderCalls(r)
    BY <2>2, ReaderFrame DEF memVars
  <2> QED
    BY <2>1, <2>2, WriterFreezes DEF Next
<1> QED
  BY <1>1, <1>2, <1>3, PTL DEF Spec, FrozenTables

-----------------------------------------------------------------------------
(* No table fails to be created: what is published is one view, however    *)
(* often the writer is closed, crashes and is started again.               *)

\* From its initialization on, a table's name is one behind until it is
\* published, and so is its count.
Unnamed(k)   == InitAt(k) < wpc /\ wpc <= NameAt(k)
Uncounted(k) == InitAt(k) < wpc /\ wpc <= CountAt(k)

Numbers ==
  wpc # Down => \A k \in Tables :
    /\ wcount[k] = IF Unnamed(k) THEN name[k] + 1 ELSE name[k]
    /\ wcount[k] = IF Uncounted(k) THEN count[k] + 1 ELSE count[k]

\* A table that has been initialized is mapped under the name it will have.
Built ==
  wpc \in 1..17 => \A k \in Tables : InitAt(k) < wpc =>
    wmap[k] \in Objects /\ wmap[k] = <<dir[k][wcount[k]], wcount[k]>>

Filled == wpc \in 6..17 => \A k \in Tables : mem[k][wmap[k]] = wfab

Handed == wpc \in 1..17 => wfab \in Fabrics

CoherentInv == Numbers /\ Built /\ Filled /\ Handed /\ PublishedCoherent

LEMMA WriterTypes ==
  ASSUME TypeInv
  PROVE  /\ name \in [Tables -> Nat] /\ count \in [Tables -> Nat] /\ wcount \in [Tables -> Nat]
         /\ dir \in [Tables -> [1..MaxCount -> 0..MaxStarts]]
         /\ mem \in [Tables -> [Objects -> Views]]
         /\ wmap \in [Tables -> Objects \cup {None}]
         /\ wpc \in 0..18 /\ start \in Nat
BY BoundsAssumption DEF TypeInv, TypeOK, SharedTypeOK, WriterTypeOK, Idle

LEMMA CoherentInit == Init => CoherentInv
BY DEF Init, CoherentInv, Numbers, Built, Filled, Handed, PublishedCoherent, AtRest, Down, Idle

\* The steps outside a publication.
LEMMA CoherentRest ==
  ASSUME TypeInv, CoherentInv,
         CreateWriter \/ CloseWriter \/ CrashWriter \/ \E f \in Fabrics : StartPublish(f)
  PROVE  CoherentInv'
<1>1. CASE CloseWriter \/ CrashWriter
  BY <1>1 DEF CloseWriter, CrashWriter, CoherentInv, Numbers, Built, Filled, Handed,
              PublishedCoherent, AtRest, Down, Idle
<1>2. CASE CreateWriter
  <2>1. wpc' = 18 /\ \A k \in Tables : name'[k] = 0 /\ count'[k] = 0 /\ wcount'[k] = 0
    BY <1>2 DEF CreateWriter, Idle
  <2>2. \A k \in Tables : ~Unnamed(k)' /\ ~Uncounted(k)'
    BY <2>1, StepNumbers DEF Unnamed, Uncounted
  <2> QED
    BY <2>1, <2>2 DEF CoherentInv, Numbers, Built, Filled, Handed, PublishedCoherent
<1>3. ASSUME NEW f \in Fabrics, StartPublish(f) PROVE CoherentInv'
  <2>1. /\ wpc = 18 /\ wpc' = 1 /\ wfab' = f
        /\ UNCHANGED <<name, count, wcount>>
    BY <1>3 DEF StartPublish, Idle, sharedVars
  <2>2. \A k \in Tables : /\ ~Unnamed(k) /\ ~Uncounted(k)
                          /\ ~Unnamed(k)' /\ ~Uncounted(k)' /\ ~(InitAt(k) < 1)
    BY <2>1, StepNumbers DEF Unnamed, Uncounted
  <2>3. Numbers'
    BY <2>1, <2>2 DEF CoherentInv, Numbers, Down
  <2> QED
    BY <2>1, <2>2, <2>3, <1>3
       DEF CoherentInv, Built, Filled, Handed, PublishedCoherent, AtRest, Idle
<1> QED
  BY <1>1, <1>2, <1>3

LEMMA CoherentInitTable ==
  ASSUME TypeInv, CoherentInv, NEW k \in Tables, InitTable(k)
  PROVE  CoherentInv'
<1> DEFINE n == wcount[k] + 1
           i == IF dir[k][n] = 0 THEN start ELSE dir[k][n]
<1>1. /\ wpc = InitAt(k) /\ wpc \in 1..4 /\ wpc' = wpc + 1
      /\ wcount' = [wcount EXCEPT ![k] = n]
      /\ dir' = [dir EXCEPT ![k][n] = i]
      /\ wmap' = [wmap EXCEPT ![k] = <<i, n>>]
      /\ UNCHANGED <<name, count, wfab, start>>
  BY StepNumbers DEF InitTable, Bump, sharedVars
<1>2. /\ n \in 1..MaxCount /\ i \in 1..MaxStarts
  <2>1. wcount[k] < MaxCount /\ start >= 1
    BY <1>1, StepNumbers DEF TypeInv, Room, Born, Down
  <2>2. n \in 1..MaxCount
    BY <2>1, WriterTypes, BoundsAssumption
  <2>3. dir[k][n] \in 0..MaxStarts /\ start \in 0..MaxStarts
    BY <2>2, WriterTypes DEF TypeInv, TypeOK, WriterTypeOK
  <2> QED
    BY <2>1, <2>2, <2>3, BoundsAssumption
<1> HIDE DEF n, i
<1>3. Numbers'
  <2>1. ASSUME NEW j \in Tables
        PROVE  /\ wcount'[j] = IF Unnamed(j)' THEN name[j] + 1 ELSE name[j]
               /\ wcount'[j] = IF Uncounted(j)' THEN count[j] + 1 ELSE count[j]
    <3>1. /\ wcount[j] = IF Unnamed(j) THEN name[j] + 1 ELSE name[j]
          /\ wcount[j] = IF Uncounted(j) THEN count[j] + 1 ELSE count[j]
      BY <1>1 DEF CoherentInv, Numbers, Down
    <3>2. CASE j = k
      <4>1. ~Unnamed(j) /\ ~Uncounted(j) /\ Unnamed(j)' /\ Uncounted(j)'
        BY <3>2, <1>1, StepNumbers DEF Unnamed, Uncounted
      <4>2. wcount'[j] = wcount[j] + 1
        BY <3>2, <1>1, WriterTypes DEF n
      <4> QED
        BY <3>1, <4>1, <4>2
    <3>3. CASE j # k
      <4>1. InitAt(j) # wpc
        BY <3>3, <1>1, StepNumbers
      <4>2. (Unnamed(j)' <=> Unnamed(j)) /\ (Uncounted(j)' <=> Uncounted(j))
        BY <4>1, <1>1, StepNumbers DEF Unnamed, Uncounted
      <4>3. wcount'[j] = wcount[j]
        BY <3>3, <1>1, WriterTypes
      <4> QED
        BY <3>1, <4>2, <4>3
    <3> QED
      BY <3>2, <3>3
  <2> QED
    BY <2>1, <1>1 DEF Numbers
<1>4. Built'
  <2>1. ASSUME NEW j \in Tables, InitAt(j) < wpc'
        PROVE  wmap'[j] \in Objects /\ wmap'[j] = <<dir'[j][wcount'[j]], wcount'[j]>>
    <3>1. CASE j = k
      <4>1. wmap'[j] = <<i, n>> /\ wcount'[j] = n
        BY <3>1, <1>1, WriterTypes
      <4>2. dir'[j][n] = i
        BY <3>1, <1>1, <1>2, WriterTypes
      <4> QED
        BY <4>1, <4>2, <1>2 DEF Objects
    <3>2. CASE j # k
      <4>1. InitAt(j) < wpc
        BY <3>2, <2>1, <1>1, StepNumbers
      <4>2. wmap[j] \in Objects /\ wmap[j] = <<dir[j][wcount[j]], wcount[j]>>
        BY <4>1, <1>1 DEF CoherentInv, Built
      <4>3. wmap'[j] = wmap[j] /\ wcount'[j] = wcount[j] /\ dir'[j] = dir[j]
        BY <3>2, <1>1, WriterTypes
      <4> QED
        BY <4>2, <4>3
    <3> QED
      BY <3>1, <3>2
  <2> QED
    BY <2>1 DEF Built
<1> QED
  BY <1>1, <1>3, <1>4
     DEF CoherentInv, Filled, Handed, PublishedCoherent, AtRest, Idle

LEMMA CoherentFill ==
  ASSUME TypeInv, CoherentInv, FillTables
  PROVE  CoherentInv'
<1>1. /\ wpc = 5 /\ wpc' = 6
      /\ mem' = [k \in Tables |-> [mem[k] EXCEPT ![wmap[k]] = wfab]]
      /\ UNCHANGED <<name, count, wcount, dir, wmap, wfab>>
  BY DEF FillTables, FillAt, sharedVars
<1>2. ASSUME NEW k \in Tables
      PROVE  /\ wmap[k] \in Objects /\ wmap[k] = <<dir[k][wcount[k]], wcount[k]>>
             /\ Unnamed(k) <=> Unnamed(k)'
             /\ Uncounted(k) <=> Uncounted(k)'
  <2>1. InitAt(k) < wpc /\ wpc \in 1..17
    BY <1>1, StepNumbers
  <2>2. wmap[k] \in Objects /\ wmap[k] = <<dir[k][wcount[k]], wcount[k]>>
    BY <2>1 DEF CoherentInv, Built
  <2>3. (Unnamed(k) <=> Unnamed(k)') /\ (Uncounted(k) <=> Uncounted(k)')
    BY <1>1, StepNumbers DEF Unnamed, Uncounted
  <2> QED
    BY <2>2, <2>3
<1>3. Filled'
  <2>1. \A k \in Tables : mem'[k][wmap[k]] = wfab
    BY <1>1, <1>2, WriterTypes
  <2> QED
    BY <2>1, <1>1 DEF Filled
<1>4. Numbers' /\ Built'
  BY <1>1, <1>2 DEF CoherentInv, Numbers, Built, Down
<1> QED
  BY <1>1, <1>3, <1>4 DEF CoherentInv, Handed, PublishedCoherent, AtRest, Idle

\* No two steps of op_ppath_publish have the same number.
LEMMA PublishNumbers ==
  \A j, k \in Tables :
    /\ UnlinkAt(k) # NameAt(j) /\ UnlinkAt(k) < NameAt(k)
    /\ NameAt(j) = NameAt(k) => j = k
    /\ CountAt(j) = CountAt(k) => j = k
BY DEF Tables, UnlinkAt, NameAt, CountAt, PublishPos

\* op_ppath_publish: the name that is unlinked is not the new one.
LEMMA CoherentPublish ==
  ASSUME TypeInv, CoherentInv,
         NEW k \in Tables, UnlinkOld(k) \/ PublishName(k) \/ PublishCount(k)
  PROVE  CoherentInv'
<1>1. /\ wpc \in 6..17 /\ wpc' = wpc + 1
      /\ UNCHANGED <<mem, wcount, wmap, wfab>>
  BY PublishFrame
<1>2. /\ name \in [Tables -> Nat] /\ count \in [Tables -> Nat] /\ wcount \in [Tables -> Nat]
      /\ dir \in [Tables -> [1..MaxCount -> 0..MaxStarts]]
  BY WriterTypes
<1>3. ASSUME NEW j \in Tables
      PROVE  /\ wcount[j] = IF wpc <= NameAt(j) THEN name[j] + 1 ELSE name[j]
             /\ wcount[j] = IF wpc <= CountAt(j) THEN count[j] + 1 ELSE count[j]
             /\ wmap[j] \in Objects /\ wmap[j] = <<dir[j][wcount[j]], wcount[j]>>
             /\ mem[j][wmap[j]] = wfab
  <2>1. InitAt(j) < wpc
    BY <1>1, StepNumbers
  <2>2. wpc # Down /\ wpc \in 1..17
    BY <1>1 DEF Down
  <2> QED
    BY <2>1, <2>2, <1>1 DEF CoherentInv, Numbers, Built, Filled, Unnamed, Uncounted
<1>4. ASSUME NEW j \in Tables
      PROVE  /\ wcount[j] = IF wpc' <= NameAt(j) THEN name'[j] + 1 ELSE name'[j]
             /\ wcount[j] = IF wpc' <= CountAt(j) THEN count'[j] + 1 ELSE count'[j]
             /\ dir'[j][wcount[j]] = dir[j][wcount[j]]
  <2>1. CASE UnlinkOld(k)
    <3>1. /\ wpc = UnlinkAt(k) /\ UNCHANGED <<name, count>>
          /\ dir' = dir \/ dir' = [dir EXCEPT ![k][name[k]] = 0]
      BY <2>1 DEF UnlinkOld, OldName, sharedVars
    <3>2. wpc # NameAt(j) /\ wpc < 14 /\ wpc <= NameAt(k)
      BY <3>1, PublishNumbers, StepNumbers
    <3>3. name[k] # wcount[k]
      BY <3>2, <1>2, <1>3
    <3>4. dir'[j][wcount[j]] = dir[j][wcount[j]]
      <4>1. CASE j # k
        BY <4>1, <3>1, <1>2
      <4>2. ASSUME j = k, dir' = [dir EXCEPT ![k][name[k]] = 0]
            PROVE  dir'[j][wcount[j]] = dir[j][wcount[j]]
        <5>1. dir'[k] = [dir[k] EXCEPT ![name[k]] = 0]
          BY <4>2, <1>2
        <5>2. wcount[k] # name[k]
          BY <3>3
        <5> QED
          BY <4>2, <5>1, <5>2, <1>2
      <4> QED
        BY <4>1, <4>2, <3>1
    <3>5. (wpc' <= NameAt(j) <=> wpc <= NameAt(j)) /\ (wpc' <= CountAt(j) <=> wpc <= CountAt(j))
      BY <3>2, <1>1, StepNumbers
    <3> QED
      BY <3>1, <3>4, <3>5, <1>3
  <2>2. CASE PublishName(k)
    <3>1. /\ wpc = NameAt(k) /\ UNCHANGED <<count, dir>>
          /\ name' = IF count[k] # wcount[k] THEN [name EXCEPT ![k] = wcount[k]] ELSE name
      BY <2>2 DEF PublishName, memVars
    <3>2. wpc < 14
      BY <3>1, StepNumbers
    <3>3. count[k] # wcount[k]
      <4>1. wpc <= CountAt(k)
        BY <3>2, <1>1, StepNumbers
      <4>2. wcount[k] = count[k] + 1 /\ count[k] \in Nat
        BY <4>1, <1>2, <1>3
      <4> QED
        BY <4>2
    <3>4. name'[j] = IF j = k THEN wcount[j] ELSE name[j]
      BY <3>1, <3>3, <1>2
    <3>5. wpc' <= CountAt(j) <=> wpc <= CountAt(j)
      BY <3>2, <1>1, StepNumbers
    <3>6. wpc' <= NameAt(j) <=> wpc <= NameAt(j) /\ j # k
      BY <3>1, <1>1, PublishNumbers, StepNumbers
    <3> QED
      BY <3>1, <3>4, <3>5, <3>6, <1>3
  <2>3. CASE PublishCount(k)
    <3>1. /\ wpc = CountAt(k) /\ UNCHANGED <<name, dir>>
          /\ count' = [count EXCEPT ![k] = wcount[k]]
      BY <2>3 DEF PublishCount, memVars
    <3>2. wpc > 13
      BY <3>1, StepNumbers
    <3>3. count'[j] = IF j = k THEN wcount[j] ELSE count[j]
      BY <3>1, <1>2
    <3>4. wpc' <= NameAt(j) <=> wpc <= NameAt(j)
      BY <3>2, <1>1, StepNumbers
    <3>5. wpc' <= CountAt(j) <=> wpc <= CountAt(j) /\ j # k
      BY <3>1, <1>1, PublishNumbers, StepNumbers
    <3> QED
      BY <3>1, <3>3, <3>4, <3>5, <1>3
  <2> QED
    BY <2>1, <2>2, <2>3
<1>5. Numbers'
  <2>1. ASSUME NEW j \in Tables
        PROVE  (Unnamed(j)' <=> wpc' <= NameAt(j)) /\ (Uncounted(j)' <=> wpc' <= CountAt(j))
    BY <1>1, StepNumbers DEF Unnamed, Uncounted
  <2> QED
    BY <2>1, <1>1, <1>4 DEF Numbers
<1>6. Built' /\ Filled' /\ Handed'
  <2>1. wfab \in Fabrics
    <3>1. wpc \in 1..17
      BY <1>1
    <3> QED
      BY <3>1 DEF CoherentInv, Handed
  <2> QED
    BY <2>1, <1>1, <1>3, <1>4 DEF Built, Filled, Handed
<1>7. PublishedCoherent'
  <2>1. SUFFICES ASSUME wpc' = 18
                 PROVE  \E f \in Fabrics : \A j \in Tables :
                          /\ ~Unopenable(j)'
                          /\ mem'[j][<<dir'[j][name'[j]], name'[j]>>] = f
    BY DEF PublishedCoherent, AtRest, Idle
  <2>2. wfab \in Fabrics
    <3>1. wpc \in 1..17
      BY <1>1
    <3> QED
      BY <3>1 DEF CoherentInv, Handed
  <2>3. ASSUME NEW j \in Tables
        PROVE  /\ ~Unopenable(j)'
               /\ mem'[j][<<dir'[j][name'[j]], name'[j]>>] = wfab
    <3>1. name'[j] = wcount[j]
      BY <2>1, <1>4, StepNumbers
    <3>2. wmap[j] = <<dir'[j][name'[j]], name'[j]>>
      BY <3>1, <1>3, <1>4
    <3>3. name'[j] # 0 /\ dir'[j][name'[j]] # 0
      BY <3>2, <1>3 DEF Objects
    <3> QED
      BY <3>2, <3>3, <1>1, <1>3 DEF Unopenable
  <2> QED
    BY <2>2, <2>3
<1> QED
  BY <1>5, <1>6, <1>7 DEF CoherentInv

LEMMA CoherentNext ==
  ASSUME ShmMayFail = FALSE, TypeInv, CoherentInv, [Next]_vars
  PROVE  CoherentInv'
<1>1. CASE UNCHANGED <<sharedVars, memVars, writerVars>>
  <2>1. UNCHANGED <<name, count, dir, mem, wpc, wcount, wmap, wfab>>
    BY <1>1 DEF sharedVars, memVars, writerVars
  <2> QED
    BY <2>1 DEF CoherentInv, Numbers, Unnamed, Uncounted, Built, Filled, Handed,
                PublishedCoherent, AtRest, Unopenable
<1>2. CASE UNCHANGED vars
  BY <1>1, <1>2 DEF vars
<1>3. CASE \E r \in Readers : ReaderStep(r) \/ ReaderCalls(r)
  BY <1>1, <1>3, ReaderFrame
<1>4. ASSUME NEW k \in Tables PROVE ~InitTableFails(k)
  BY DEF InitTableFails
<1> QED
  BY <1>2, <1>3, <1>4, CoherentRest, CoherentInitTable, CoherentFill, CoherentPublish
     DEF Next, WriterStep

\* When no table fails to be created, what the readers find between two
\* publications is one view in all four tables, or nothing, for any number of
\* closes, crashes and restarts of the writer.
THEOREM PublishedIsOneView ==
  ASSUME ShmMayFail = FALSE
  PROVE  Spec => []PublishedCoherent
<1>1. Init => TypeInv /\ CoherentInv
  BY TypeInit, CoherentInit
<1>2. TypeInv /\ CoherentInv /\ [Next]_vars => TypeInv' /\ CoherentInv'
  BY TypeNext, CoherentNext
<1>3. CoherentInv => PublishedCoherent
  BY DEF CoherentInv
<1> QED
  BY <1>1, <1>2, <1>3, PTL DEF Spec

=============================================================================
