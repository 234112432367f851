----------------------------- MODULE PathTables -----------------------------
(***************************************************************************)
(* The shared-memory path tables of opasadb/lib/path: one writer (the      *)
(* scanner thread of the dsap provider) builds port, subnet, vfab and path *)
(* tables in private, then publishes them by storing their names and       *)
(* update counts in a shared table; readers in other processes map the     *)
(* published tables, and re-open a table whose update count has changed.   *)
(* There is no lock between writer and readers: every access to the shared *)
(* table and every shm_open or shm_unlink is a step of its own.            *)
(*                                                                         *)
(* What a table holds is abstracted to the fabric (a view) it was built    *)
(* from; a shared-memory object is <<i, n>>, number n created by the i-th  *)
(* incarnation of the writer.                                              *)
(***************************************************************************)
EXTENDS Integers, Sequences, FiniteSets

CONSTANTS Readers,      \* processes that query paths
          VFabs,        \* virtual fabrics; each has one service ID, one pkey
          Dests,        \* destination GIDs
          Fabrics,      \* the views a sweep may hand to dsap_publish_paths
          MaxRetries,   \* MAX_RETRIES, 5 in the code
          MaxCount,     \* bound on every update count (2^32 - 1 in the code)
          MaxStarts,    \* bound on the incarnations of the writer
          ShmMayFail    \* creating a shared-memory object may fail

Blank == [up |-> FALSE, pkeys |-> {}, vfabs |-> <<>>, paths |-> <<>>]

Views == Fabrics \cup {Blank}

ASSUME BoundsAssumption ==
  /\ MaxRetries \in Nat
  /\ MaxCount \in Nat
  /\ MaxStarts \in Nat \ {0}
  /\ ShmMayFail \in BOOLEAN

ASSUME NonEmptyAssumption == VFabs # {} /\ Dests # {}

ASSUME FabricsAssumption ==
  Fabrics \subseteq [up : BOOLEAN,            \* the source port is active
                     pkeys : SUBSET VFabs,    \* pkeys of the source port
                     vfabs : Seq(VFabs),      \* vfabs, in the SM's order
                     paths : Seq([vf : VFabs, dst : Dests])]

Tables  == {"port", "subnet", "vfab", "path"}
Objects == (1..MaxStarts) \X (1..MaxCount)
None    == <<0, 0>>
Queries == [kind : {"sid", "pkey"}, vf : VFabs, dst : Dests]

VARIABLES
  exists,   \* the well-known shared table has been created
  name,     \* name[k]: number in the published name of table k, 0 for ""
  count,    \* count[k]: published update count of table k
  dir,      \* dir[k][n]: incarnation that created object n, 0 if unlinked
  mem,      \* mem[k][o]: contents of object o
  start,    \* incarnation of the writer, 0 before the first
  wpc,      \* next step of the writer
  wcount,   \* update counts (and names) of the unpublished tables
  wmap,     \* objects the writer has mapped for writing
  wfab,     \* the view being published
  rpc,      \* next step of each reader
  rtab,     \* the table a reader is opening
  rmap,     \* objects a reader has mapped
  rcount,   \* update counts a reader cached
  rq,       \* the query in progress
  rtry,     \* iterations of the loop of the call in progress
  ridx,     \* index into the vfab table, then into the path table
  rans      \* outcome of the last call

sharedVars == <<exists, name, count>>
memVars    == <<dir, mem>>
writerVars == <<start, wpc, wcount, wmap, wfab>>
readerVars == <<rpc, rtab, rmap, rcount, rq, rtry, ridx, rans>>
vars == <<sharedVars, memVars, writerVars, readerVars>>

-----------------------------------------------------------------------------
(* What the table look-ups return. *)

\* Position of s in the sequence, 0 if it is not there.
IndexIn(s, seq) ==
  IF \E i \in DOMAIN seq : seq[i] = s
  THEN CHOOSE i \in DOMAIN seq : seq[i] = s ELSE 0

\* Head of the hash chain of vfab i for destination d: add_path links each
\* record in front of the earlier ones.
ChainHead(f, i, d) ==
  LET mine == {j \in DOMAIN f.paths :
                 i \in DOMAIN f.vfabs /\ f.paths[j] = [vf |-> f.vfabs[i], dst |-> d]}
  IN  IF mine = {} THEN 0 ELSE CHOOSE j \in mine : \A m \in mine : m <= j

\* What an undisturbed query finds in the tables of one fabric.
Answer(f, q) ==
  LET i == IndexIn(q.vf, f.vfabs)
  IN  IF f.up /\ ChainHead(f, i, q.dst) # 0 THEN f.paths[ChainHead(f, i, q.dst)].vf ELSE "none"

-----------------------------------------------------------------------------
(* The writer: dsap_scanner, dsap_publish_paths, op_ppath_*. *)

\* The order in which dsap_publish_paths initializes the tables, and the
\* order in which op_ppath_publish publishes them.
InitPos    == [subnet |-> 1, port |-> 2, vfab |-> 3, path |-> 4]
PublishPos == [port |-> 1, subnet |-> 2, vfab |-> 3, path |-> 4]

\* dsap_publish_paths and op_ppath_publish are a straight-line program.
Down         == 0                        \* no writer process
InitAt(k)    == InitPos[k]
FillAt       == 5
PublishStart == 6                        \* "exit:" of dsap_publish_paths
UnlinkAt(k)  == 4 + 2 * PublishPos[k]
NameAt(k)    == 5 + 2 * PublishPos[k]
CountAt(k)   == 13 + PublishPos[k]
Idle         == 18                       \* between publications

\* BUMP_COUNT; the counts stay below 2^32, so that it never skips 0.
NoBump(c) == IF c = 0 THEN 1 ELSE c
Bump(c)   == c + 1

\* op_ppath_create_writer: the shared table is created or re-used, and cleared.
CreateWriter ==
  /\ wpc = Down /\ start < MaxStarts
  /\ exists' = TRUE
  /\ name' = [k \in Tables |-> 0]
  /\ count' = [k \in Tables |-> 0]
  /\ wcount' = [k \in Tables |-> 0]
  /\ start' = start + 1
  /\ wpc' = Idle
  /\ UNCHANGED <<memVars, wmap, wfab, readerVars>>

\* A sweep has ended with something to publish.
StartPublish(f) ==
  /\ wpc = Idle
  /\ \A k \in Tables : wcount[k] < MaxCount
  /\ wpc' = 1
  /\ wfab' = f
  /\ UNCHANGED <<sharedVars, memVars, start, wcount, wmap, readerVars>>

\* op_ppath_initialize_*: a new object, or the old one of that name, cleared.
InitTable(k) ==
  /\ wpc = InitAt(k)
  /\ LET n == Bump(wcount[k])
         i == IF dir[k][n] = 0 THEN start ELSE dir[k][n]
     IN  /\ wcount' = [wcount EXCEPT ![k] = n]
         /\ dir' = [dir EXCEPT ![k][n] = i]
         /\ mem' = [mem EXCEPT ![k][<<i, n>>] = Blank]
         /\ wmap' = [wmap EXCEPT ![k] = <<i, n>>]
  /\ wpc' = wpc + 1
  /\ UNCHANGED <<sharedVars, start, wfab, readerVars>>

\* The open of a new table fails: the count has been bumped and the name
\* changed, the object is unlinked if it had been opened, and
\* dsap_publish_paths goes to "exit:", where it publishes all the same.
InitTableFails(k) ==
  /\ ShmMayFail
  /\ wpc = InitAt(k)
  /\ wcount' = [wcount EXCEPT ![k] = Bump(@)]
  /\ dir' \in {dir, [dir EXCEPT ![k][Bump(wcount[k])] = 0]}
  /\ wmap' = [wmap EXCEPT ![k] = None]
  /\ wpc' = PublishStart
  /\ UNCHANGED <<sharedVars, mem, start, wfab, readerVars>>

\* Mutant: the records go to the tables that are published already.
FillInPlace ==
  /\ wpc = FillAt
  /\ mem' = [k \in Tables |->
               IF name[k] = 0 THEN [mem[k] EXCEPT ![wmap[k]] = wfab]
               ELSE [mem[k] EXCEPT ![<<dir[k][name[k]], name[k]>>] = wfab]]
  /\ wpc' = wpc + 1
  /\ UNCHANGED <<sharedVars, dir, start, wcount, wmap, wfab, readerVars>>

\* op_ppath_add_*: the four new tables receive the records of the view.
FillTables ==
  /\ wpc = FillAt
  /\ mem' = [k \in Tables |-> [mem[k] EXCEPT ![wmap[k]] = wfab]]
  /\ wpc' = wpc + 1
  /\ UNCHANGED <<sharedVars, dir, start, wcount, wmap, wfab, readerVars>>

\* The name that shm_unlink gets; mutant: the one just about to be published.
NewName(k) == wcount[k]
OldName(k) == name[k]

\* op_ppath_publish: the old object of a changed table loses its name.
UnlinkOld(k) ==
  /\ wpc = UnlinkAt(k)
  /\ dir' = IF count[k] # wcount[k] /\ OldName(k) # 0
            THEN [dir EXCEPT ![k][OldName(k)] = 0] ELSE dir
  /\ wpc' = wpc + 1
  /\ UNCHANGED <<sharedVars, mem, start, wcount, wmap, wfab, readerVars>>

\* op_ppath_publish: strcpy of the new name. A reader that meets it half
\* copied finds no object, as it does between the unlink and this step.
PublishName(k) ==
  /\ wpc = NameAt(k)
  /\ name' = IF count[k] # wcount[k] THEN [name EXCEPT ![k] = wcount[k]] ELSE name
  /\ wpc' = wpc + 1
  /\ UNCHANGED <<exists, count, memVars, start, wcount, wmap, wfab, readerVars>>

PublishCount(k) ==
  /\ wpc = CountAt(k)
  /\ count' = [count EXCEPT ![k] = wcount[k]]
  /\ wpc' = wpc + 1
  /\ UNCHANGED <<exists, name, memVars, start, wcount, wmap, wfab, readerVars>>

\* op_ppath_close_writer at the end of the scanner: every table is unlinked,
\* the shared table is not.
CloseWriter ==
  /\ wpc = Idle
  /\ dir' = [k \in Tables |->
               [n \in 1..MaxCount |-> IF n \in {name[k], wcount[k]} THEN 0 ELSE dir[k][n]]]
  /\ wmap' = [k \in Tables |-> None]
  /\ wpc' = Down
  /\ UNCHANGED <<sharedVars, mem, start, wcount, wfab, readerVars>>

\* The writer's process dies between any two steps.
CrashWriter ==
  /\ wpc # Down
  /\ wmap' = [k \in Tables |-> None]
  /\ wpc' = Down
  /\ UNCHANGED <<sharedVars, memVars, start, wcount, wfab, readerVars>>

WriterStep ==
  \/ \E k \in Tables : \/ InitTable(k) \/ InitTableFails(k)
                       \/ UnlinkOld(k) \/ PublishName(k) \/ PublishCount(k)
  \/ FillTables

-----------------------------------------------------------------------------
(* The readers: op_ppath_create_reader, op_ppath_find_path. *)

\* The order in which op_ppath_create_reader opens the tables.
Following == [port |-> "path", path |-> "subnet", subnet |-> "vfab", vfab |-> "port"]

Unmapped == [k \in Tables |-> None]

NoQuery == CHOOSE q \in Queries : TRUE

\* The mapped contents of table k.
View(r, k) == mem[k][rmap[r][k]]

\* The path record at index j; beyond the records the mapping is zeros.
Record(f, j) ==
  IF j \in DOMAIN f.paths THEN f.paths[j] ELSE [vf |-> "none", dst |-> "none"]

Failed(code) == [code |-> code, vf |-> "none", dst |-> "none"]

Goto(r, pc) == rpc' = [rpc EXCEPT ![r] = pc]

\* op_ppath_find_path returns code with no path.
Fail(r, code) ==
  /\ Goto(r, "ready")
  /\ rans' = [rans EXCEPT ![r] = Failed(code)]

\* retries <= MAX_RETRIES; mutant: one iteration more.
OneTryMore(r)  == rtry[r] <= MaxRetries + 1
RetriesLeft(r) == rtry[r] <= MaxRetries

\* retries++; mutant: not counted.
SameTry(n) == n
NextTry(n) == n + 1

\* The condition of the query's loop, when no valid path was found.
Again(r, code) ==
  IF RetriesLeft(r) THEN Goto(r, "port") /\ UNCHANGED rans ELSE Fail(r, code)

\* op_ppath_create_reader: the shared table is mapped, the loop entered.
CreateReader(r) ==
  /\ rpc[r] = "closed" /\ exists
  /\ Goto(r, "createmap")
  /\ rtry' = [rtry EXCEPT ![r] = 1]
  /\ UNCHANGED <<sharedVars, memVars, writerVars, rtab, rmap, rcount, rq, ridx, rans>>

\* open_ppath_table, first half: shm_open of the name now published.
MapTable(r) ==
  LET k == rtab[r]
      n == name[k]
  IN  /\ rpc[r] \in {"createmap", "map"}
      /\ n # 0 /\ dir[k][n] # 0
      /\ rmap' = [rmap EXCEPT ![r][k] = <<dir[k][n], n>>]
      /\ Goto(r, IF rpc[r] = "map" THEN "count" ELSE "createcount")
      /\ UNCHANGED <<sharedVars, memVars, writerVars, rtab, rcount, rq, rtry, ridx, rans>>

Unopenable(k) == name[k] # 0 => dir[k][name[k]] = 0

\* op_ppath_close_reader, with the memset of the next op_ppath_create_reader:
\* nothing is mapped, nothing is remembered.
Forget(r) ==
  /\ Goto(r, "closed")
  /\ rtab' = [rtab EXCEPT ![r] = "port"]
  /\ rmap' = [rmap EXCEPT ![r] = Unmapped]
  /\ rcount' = [rcount EXCEPT ![r] = [k \in Tables |-> 0]]
  /\ rq' = [rq EXCEPT ![r] = NoQuery]
  /\ rtry' = [rtry EXCEPT ![r] = 0]
  /\ ridx' = [ridx EXCEPT ![r] = 0]
  /\ rans' = [rans EXCEPT ![r] = Failed("none")]
  /\ UNCHANGED <<sharedVars, memVars, writerVars>>

\* op_ppath_create_reader cannot open a table: do ... while (0) ends.
CreateFails(r) ==
  /\ rpc[r] = "createmap" /\ Unopenable(rtab[r])
  /\ Forget(r)

\* Mutant: the count is cached before the open.
ReopenFailsCached(r) ==
  /\ rpc[r] = "map" /\ Unopenable(rtab[r])
  /\ rcount' = [rcount EXCEPT ![r][rtab[r]] = count[rtab[r]]]
  /\ IF rtab[r] = "path" THEN Again(r, "eio") ELSE Fail(r, "eio")
  /\ UNCHANGED <<sharedVars, memVars, writerVars, rtab, rmap, rq, rtry, ridx>>

\* A query that cannot re-open the path table tries again, the others return.
ReopenFails(r) ==
  /\ rpc[r] = "map" /\ Unopenable(rtab[r])
  /\ IF rtab[r] = "path" THEN Again(r, "eio") ELSE Fail(r, "eio")
  /\ UNCHANGED <<sharedVars, memVars, writerVars, rtab, rmap, rcount, rq, rtry, ridx>>

\* open_ppath_table, second half: the update count is read and cached.
CacheCount(r) ==
  LET k == rtab[r]
  IN  /\ rcount' = [rcount EXCEPT ![r][k] = count[k]]
      /\ \/ /\ rpc[r] = "count"
            /\ Again(r, "enoent")
            /\ UNCHANGED rtab
         \/ /\ rpc[r] = "createcount"
            /\ Goto(r, IF rtab[r] = "vfab" THEN "ready" ELSE "createmap")
            /\ rtab' = [rtab EXCEPT ![r] = Following[@]]
            /\ UNCHANGED rans
      /\ UNCHANGED <<sharedVars, memVars, writerVars, rmap, rq, rtry, ridx>>

BeginQuery(r, q) ==
  /\ rpc[r] = "ready"
  /\ Goto(r, "port")
  /\ rq' = [rq EXCEPT ![r] = q]
  /\ rtry' = [rtry EXCEPT ![r] = 0]
  /\ ridx' = [ridx EXCEPT ![r] = 0]
  /\ rans' = [rans EXCEPT ![r] = Failed("none")]
  /\ UNCHANGED <<sharedVars, memVars, writerVars, rtab, rmap, rcount>>

\* validate_X_table: the published count is not the cached one.
Changed(r, k) == rcount[r][k] # count[k]

\* reopen_ppath_table: close the mapping, then open.
Reopen(r, k) ==
  /\ rmap' = [rmap EXCEPT ![r][k] = None]
  /\ rtab' = [rtab EXCEPT ![r] = k]
  /\ Goto(r, "map")
  /\ UNCHANGED <<ridx, rans>>

\* A table the query is about to read is not mapped.
Null(r, ks) == \E k \in ks : rmap[r][k] = None

Faults(r, pc) == Goto(r, pc) /\ UNCHANGED <<rtab, rmap, ridx, rans>>

\* The top of the loop: find the port of the source GID, check its pkeys.
CheckPort(r) ==
  /\ rpc[r] = "port"
  /\ rtry' = [rtry EXCEPT ![r] = NextTry(@)]
  /\ IF Changed(r, "port") THEN Reopen(r, "port")
     ELSE IF Null(r, {"port"}) THEN Faults(r, "null")
     ELSE /\ LET f == View(r, "port")
             IN  IF f.up /\ (rq[r].kind = "pkey" => rq[r].vf \in f.pkeys)
                 THEN Goto(r, "subnet") /\ UNCHANGED rans
                 ELSE Fail(r, "einval")
          /\ UNCHANGED <<rtab, rmap, ridx>>
  /\ UNCHANGED <<sharedVars, memVars, writerVars, rcount, rq>>

CheckSubnet(r) ==
  /\ rpc[r] = "subnet"
  /\ IF Changed(r, "subnet") THEN Reopen(r, "subnet")
     ELSE Goto(r, "vfab") /\ UNCHANGED <<rtab, rmap, ridx, rans>>
  /\ UNCHANGED <<sharedVars, memVars, writerVars, rcount, rq, rtry>>

\* Find the vfab: by pkey in the vfab table, by service ID in the subnet table.
CheckVFab(r) ==
  LET by == IF rq[r].kind = "pkey" THEN "vfab" ELSE "subnet"
  IN  /\ rpc[r] = "vfab"
      /\ IF Changed(r, "vfab") THEN Reopen(r, "vfab")
         ELSE IF Null(r, {by}) THEN Faults(r, "null")
         ELSE LET i == IndexIn(rq[r].vf, View(r, by).vfabs)
              IN  /\ IF i = 0 THEN Fail(r, "einval")
                     ELSE Goto(r, "path") /\ UNCHANGED rans
                  /\ ridx' = [ridx EXCEPT ![r] = i]
                  /\ UNCHANGED <<rtab, rmap>>
      /\ UNCHANGED <<sharedVars, memVars, writerVars, rcount, rq, rtry>>

\* The GIDs match and so does the pkey, if the query has one; mutant: no
\* look at the pkey.
MatchesGid(p, q) == p.dst = q.dst
Matches(p, q)    == p.dst = q.dst /\ (q.kind = "pkey" => p.vf = q.vf)

\* Follow the vfab's chain into the path table. The records behind the head
\* of a chain have its vfab and destination and match no better. An index past
\* the end of a table reads the zeros after its last record, or faults.
CheckPath(r) ==
  /\ rpc[r] = "path"
  /\ IF Changed(r, "path") THEN Reopen(r, "path")
     ELSE IF Null(r, {"vfab", "path"}) THEN Faults(r, "null")
     ELSE LET v == View(r, "vfab")
              t == View(r, "path")
              h == ChainHead(v, ridx[r], rq[r].dst)
          IN  \/ /\ ridx[r] > Len(v.vfabs) \/ h > Len(t.paths)
                 /\ Faults(r, "overrun")
              \/ /\ IF h # 0 /\ Matches(Record(t, h), rq[r])
                    THEN Goto(r, "copy") /\ UNCHANGED rans
                    ELSE Again(r, "enoent")
                 /\ ridx' = [ridx EXCEPT ![r] = h]
                 /\ UNCHANGED <<rtab, rmap>>
  /\ UNCHANGED <<sharedVars, memVars, writerVars, rcount, rq, rtry>>

\* *result = path_record->path
CopyPath(r) ==
  /\ rpc[r] = "copy"
  /\ LET p == Record(View(r, "path"), ridx[r])
     IN  rans' = [rans EXCEPT ![r] = [code |-> "ok", vf |-> p.vf, dst |-> p.dst]]
  /\ Goto(r, "ready")
  /\ UNCHANGED <<sharedVars, memVars, writerVars, rtab, rmap, rcount, rq, rtry, ridx>>

CloseReader(r) == rpc[r] = "ready" /\ Forget(r)

\* One step of a call in progress.
ReaderStep(r) ==
  \/ MapTable(r) \/ CreateFails(r) \/ ReopenFails(r) \/ CacheCount(r)
  \/ CheckPort(r) \/ CheckSubnet(r) \/ CheckVFab(r) \/ CheckPath(r) \/ CopyPath(r)

ReaderCalls(r) ==
  \/ CreateReader(r) \/ CloseReader(r)
  \/ \E q \in Queries : BeginQuery(r, q)

-----------------------------------------------------------------------------

Init ==
  /\ exists = FALSE
  /\ name = [k \in Tables |-> 0]
  /\ count = [k \in Tables |-> 0]
  /\ dir = [k \in Tables |-> [n \in 1..MaxCount |-> 0]]
  /\ mem = [k \in Tables |-> [o \in Objects |-> Blank]]
  /\ start = 0
  /\ wpc = Down
  /\ wcount = [k \in Tables |-> 0]
  /\ wmap = [k \in Tables |-> None]
  /\ wfab = Blank
  /\ rpc = [r \in Readers |-> "closed"]
  /\ rtab = [r \in Readers |-> "port"]
  /\ rmap = [r \in Readers |-> Unmapped]
  /\ rcount = [r \in Readers |-> [k \in Tables |-> 0]]
  /\ rq = [r \in Readers |-> NoQuery]
  /\ rtry = [r \in Readers |-> 0]
  /\ ridx = [r \in Readers |-> 0]
  /\ rans = [r \in Readers |-> Failed("none")]

Next ==
  \/ CreateWriter \/ CloseWriter \/ CrashWriter \/ WriterStep
  \/ \E f \in Fabrics : StartPublish(f)
  \/ \E r \in Readers : ReaderStep(r) \/ ReaderCalls(r)

\* A call in progress is run by a thread of its own.
Fairness == \A r \in Readers : WF_vars(ReaderStep(r))

Spec == Init /\ [][Next]_vars /\ Fairness

-----------------------------------------------------------------------------
(* Properties. *)

ReaderPCs == {"closed", "createmap", "createcount", "ready", "port", "subnet",
              "vfab", "path", "copy", "map", "count", "null", "overrun"}

SharedTypeOK ==
  /\ exists \in BOOLEAN
  /\ name \in [Tables -> 0..MaxCount]
  /\ count \in [Tables -> 0..MaxCount]
  /\ dir \in [Tables -> [1..MaxCount -> 0..MaxStarts]]
  /\ mem \in [Tables -> [Objects -> Views]]

WriterTypeOK ==
  /\ start \in 0..MaxStarts
  /\ wpc \in 0..Idle
  /\ wcount \in [Tables -> 0..MaxCount]
  /\ wmap \in [Tables -> Objects \cup {None}]
  /\ wfab \in Views

ReaderTypeOK ==
  /\ rpc \in [Readers -> ReaderPCs]
  /\ rtab \in [Readers -> Tables]
  /\ rmap \in [Readers -> [Tables -> Objects \cup {None}]]
  /\ rcount \in [Readers -> [Tables -> 0..MaxCount]]
  /\ rq \in [Readers -> Queries]
  /\ rtry \in [Readers -> 0..(MaxRetries + 1)]
  /\ ridx \in [Readers -> Nat]

\* Every variable has its type.
TypeOK == SharedTypeOK /\ WriterTypeOK /\ ReaderTypeOK

\* What a reader has mapped is never written again, whatever the writer does
\* meanwhile: published tables "will never change"
\* (opasadb_path_private.h:107-108). It takes names that never repeat: an object
\* is cleared by op_ppath_initialize_* and filled under its name.
FrozenTables ==
  [][\A r \in Readers, k \in Tables :
       rmap[r][k] # None => mem'[k][rmap[r][k]] = mem[k][rmap[r][k]]]_vars

\* A query never reads a table that a failed re-open left unmapped
\* (op_ppath_find_path returns or loops with the pointer NULL): the cached
\* update count still differs from the published one, so that the table is
\* opened again before it is read.
NoNullRead == \A r \in Readers : rpc[r] # "null"

\* A path that a query returns goes to the destination asked for and, when
\* the query gives a pkey, has that pkey, even if publications came between
\* the look-ups of op_ppath_find_path.
AnswerMatchesQuery ==
  \A r \in Readers :
    rans[r].code = "ok" =>
      /\ rans[r].dst = rq[r].dst
      /\ rq[r].kind = "pkey" => rans[r].vf = rq[r].vf

AtRest == wpc = Idle

\* When the writer is between publications, the four published tables exist
\* and hold the same view, or nothing has been published by this incarnation.
PublishedCoherent ==
  AtRest =>
    \/ \A k \in Tables : name[k] = 0
    \/ \E f \in Fabrics : \A k \in Tables :
         /\ ~Unopenable(k)
         /\ mem[k][<<dir[k][name[k]], name[k]>>] = f

\* The calls of a query end, however often the tables are published meanwhile
\* and however many of them cannot be opened: the loop counts its iterations.
Querying == {"port", "subnet", "vfab", "path", "copy", "map", "count"}

QueryReturns ==
  \A r \in Readers : rpc[r] \in Querying ~> rpc[r] \notin Querying

=============================================================================
