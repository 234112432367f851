---------------------------- MODULE DsapScanner ----------------------------
(***************************************************************************)
(* The scanner thread of the dsap provider (Dsap/src/dsap_scan_fabric.c).  *)
(* Two kinds of threads post port events into a ring: the notice thread of *)
(* the port, from the notices of the SM, and the ibacm thread that opens   *)
(* and closes the port. The scanner applies them one at a time to the      *)
(* topology it keeps, sweeps the whole fabric when asked to or when its    *)
(* timer runs out, and publishes the topology.                             *)
(*                                                                         *)
(* There is one source port and one subnet. The paths to a destination     *)
(* (one query for each vfab and service ID) are fetched or missed as one.  *)
(***************************************************************************)
EXTENDS Integers, Sequences, FiniteSets

CONSTANTS Dests,      \* GIDs that go in and out of service
          RingSize,   \* SCAN_RING_SIZE: one slot of it stays empty
          Answers,    \* what the SA may answer, see below
          MayStop,    \* the provider may be unloaded
          MaxChanges  \* bound on the steps of the environment

\* "ok": the records asked for. "busy": MAD_STATUS_BUSY. "empty": no records,
\* which is also how a busy answer without records is taken. "fail": no
\* answer, or no memory.
ASSUME ConstantsAssumption ==
  /\ RingSize \in Nat \ {0, 1}
  /\ Answers \subseteq {"ok", "busy", "empty", "fail"} /\ "ok" \in Answers
  /\ MayStop \in BOOLEAN
  /\ MaxChanges \in Nat

VARIABLES
  port,      \* the local port: opened without endpoint, open, being closed
  fabric,    \* the destinations the SM has in service
  notices,   \* notices of the SM on their way to the notice thread
  changes,   \* steps of the environment so far
  healthy,   \* the SA answers and there is memory, from now on
  ring,      \* dsap_scan_port_ring
  rescan,    \* dsap_scanner_rescan
  signaled,  \* ev_signaled of dsap_scanner_event
  posted,    \* threads between inserting an event and triggering
  spc,       \* next step of the scanner
  topo,      \* the topology it keeps
  todo,      \* destinations whose paths are still to be queried
  job,       \* what the queries are for
  publish,   \* there is something to publish
  timed,     \* timeout_sec is not 0
  recent,    \* the last sweep began less than scan_delay ago
  pub,       \* the published tables
  cpc        \* next step of dsap_scanner_cleanup

envVars     == <<port, fabric, notices, changes, healthy>>
eventVars   == <<ring, rescan, signaled>>
scannerVars == <<spc, topo, todo, job, publish, timed, recent, pub>>
vars == <<envVars, eventVars, posted, scannerVars, cpc>>

Threads == {"notice", "acm"}
Event(type, d) == [type |-> type, dst |-> d]
PortEvent(type) == Event(type, "none")

\* port_event_type_t; the own port is not told apart in an event about it.
Notices == [type : {"dst_up", "dst_down"}, dst : Dests]
Events  == Notices \cup
           [type : {"src_up", "src_down", "port_rescan", "full_rescan"}, dst : {"none"}]

NoTables == [src |-> FALSE, paths |-> {}]

\* subnet: there is one; src: with the source port; keyed: that has a pkey;
\* listed: the sweep has read its destination ports; vfabs: and the virtual
\* fabrics of the pkey.
NoTopology == [subnet |-> FALSE, src |-> FALSE, keyed |-> FALSE, listed |-> FALSE,
               vfabs |-> FALSE, dsts |-> {}, paths |-> {}]

end == cpc # "run"                       \* dsap_scanner_end

Active == port # "closed"                \* IBV_PORT_ACTIVE
Keyed  == port \in {"open", "closing"}   \* the port has endpoints

\* The outcomes of an SA query; with the port closed there is none to send it.
Outcomes == IF ~Active THEN {"fail"} ELSE IF healthy THEN {"ok"} ELSE Answers

\* What a complete sweep would publish now.
Current == [src |-> Active, paths |-> IF Keyed THEN fabric ELSE {}]

-----------------------------------------------------------------------------
(* dsap_port_event: the insertion, and the trigger after the unlock. *)

\* Mutant: the last slot is used too.
InsertLast(e) ==
  IF Len(ring) = RingSize
  THEN ring' = <<>> /\ rescan' = TRUE
  ELSE ring' = Append(ring, e) /\ UNCHANGED rescan

\* A full ring is emptied, and a full scan asked for.
Insert(e) ==
  IF Len(ring) + 1 = RingSize
  THEN ring' = <<>> /\ rescan' = TRUE
  ELSE ring' = Append(ring, e) /\ UNCHANGED rescan

Post(t, e) ==
  /\ t \notin posted
  /\ posted' = posted \cup {t}
  /\ Insert(e)
  /\ UNCHANGED signaled

Trigger(t) ==
  /\ t \in posted
  /\ posted' = posted \ {t}
  /\ signaled' = TRUE
  /\ UNCHANGED <<envVars, ring, rescan, scannerVars, cpc>>

-----------------------------------------------------------------------------
(* The SM, the notice thread and the ibacm thread. *)

Change == changes < MaxChanges /\ changes' = changes + 1

\* A destination goes in or out of service; the SM sends a notice.
FabricChange(d) ==
  /\ Change
  /\ fabric' = IF d \in fabric THEN fabric \ {d} ELSE fabric \cup {d}
  /\ notices' = IF Active
                THEN Append(notices, Event(IF d \in fabric THEN "dst_down" ELSE "dst_up", d))
                ELSE notices
  /\ UNCHANGED <<port, healthy, eventVars, posted, scannerVars, cpc>>

\* report_notice_callback in the notice thread.
ReportNotice ==
  /\ notices # <<>>
  /\ Post("notice", Head(notices))
  /\ notices' = Tail(notices)
  /\ UNCHANGED <<port, fabric, changes, healthy, scannerVars, cpc>>

\* The SM changes or wants clients to register again (dsap_handle_event of the
\* provider), or stops answering (dsap_take_action).
SmChange(t) ==
  /\ Change /\ Active
  /\ Post(t, PortEvent("full_rescan"))
  /\ UNCHANGED <<port, fabric, notices, healthy, scannerVars, cpc>>

\* dsap_open_port, dsap_open_endpoint: the first endpoint brings the event.
OpenPort ==
  /\ Change /\ port = "closed" /\ "acm" \notin posted
  /\ port' = "opening"
  /\ UNCHANGED <<fabric, notices, healthy, eventVars, posted, scannerVars, cpc>>

OpenEndpoint ==
  /\ port = "opening"
  /\ port' = "open"
  /\ Post("acm", PortEvent("src_up"))
  /\ UNCHANGED <<fabric, notices, changes, healthy, scannerVars, cpc>>

\* dsap_close_port: the event first, then the end of the notice thread and of
\* the active state.
ClosePort ==
  /\ Change /\ port = "open"
  /\ port' = "closing"
  /\ Post("acm", PortEvent("src_down"))
  /\ UNCHANGED <<fabric, notices, healthy, scannerVars, cpc>>

PortClosed ==
  /\ port = "closing" /\ posted = {}
  /\ port' = "closed"
  /\ notices' = <<>>
  /\ UNCHANGED <<fabric, changes, healthy, eventVars, posted, scannerVars, cpc>>

\* The SA has been busy or out of reach, or memory short, and is no longer
\* once the environment is done, a bound like MaxChanges.
SaRecovers ==
  /\ ~healthy /\ changes = MaxChanges
  /\ healthy' = TRUE
  /\ UNCHANGED <<port, fabric, notices, changes, eventVars, posted, scannerVars, cpc>>

\* scan_delay seconds have passed since the last sweep began.
TimePasses ==
  /\ recent /\ recent' = FALSE
  /\ UNCHANGED <<envVars, eventVars, posted, spc, topo, todo, job, publish, timed, pub, cpc>>

-----------------------------------------------------------------------------
(* dsap_scanner: the loop, and dsap_process_port_events. *)

Goto(pc) == spc' = pc

LoopTop ==
  /\ spc = "top"
  /\ Goto(IF end THEN "exited" ELSE "events")
  /\ UNCHANGED <<envVars, eventVars, posted, topo, todo, job, publish, timed, recent, pub, cpc>>

Take(type) ==
  /\ spc = "events"
  /\ ring # <<>> /\ Head(ring).type = type
  /\ ring' = Tail(ring)
  /\ UNCHANGED <<envVars, posted, timed, recent, pub, cpc>>

\* dsap_full_rescan
FullRescan == rescan' = TRUE /\ signaled' = TRUE

TakeDstUp ==
  /\ Take("dst_up")
  /\ IF topo.src THEN Goto("query") /\ UNCHANGED <<rescan, signaled>>
     ELSE FullRescan /\ UNCHANGED spc
  /\ todo' = {Head(ring).dst}
  /\ UNCHANGED <<topo, job, publish>>

TakeDstDown ==
  /\ Take("dst_down")
  /\ LET d == Head(ring).dst
     IN  /\ topo' = [topo EXCEPT !.dsts = @ \ {d}, !.paths = @ \ {d}]
         /\ publish' = (publish \/ d \in topo.dsts)
  /\ UNCHANGED <<rescan, signaled, spc, todo, job>>

\* Mutant: a port that comes up is published and not scanned.
SrcUpPublished ==
  /\ Take("src_up")
  /\ publish' = TRUE
  /\ UNCHANGED <<rescan, signaled, spc, topo, todo, job>>

TakeSrcUp ==
  /\ Take("src_up")
  /\ publish' = TRUE
  /\ rescan' = TRUE
  /\ UNCHANGED <<signaled, spc, topo, todo, job>>

TakeSrcDown ==
  /\ Take("src_down")
  /\ topo' = [topo EXCEPT !.src = FALSE, !.keyed = FALSE, !.paths = {}]
  /\ publish' = (publish \/ topo.src)
  /\ UNCHANGED <<rescan, signaled, spc, todo, job>>

\* dsap_src_port_rescan: the pkeys and paths of the source port start afresh.
TakePortRescan ==
  /\ Take("port_rescan")
  /\ \/ /\ ~topo.src
        /\ UNCHANGED <<rescan, signaled, spc, topo, todo, job>>
     \/ /\ topo.src /\ ~Active
        /\ FullRescan
        /\ UNCHANGED <<spc, topo, todo, job>>
     \/ /\ topo.src /\ Active
        /\ topo' = [topo EXCEPT !.keyed = Keyed, !.paths = {}]
        /\ todo' = topo.dsts
        /\ job' = "rescan"
        /\ Goto("paths")
        /\ UNCHANGED <<rescan, signaled>>
  /\ UNCHANGED publish

\* The rest of the ring is left: the sweep will drop it.
TakeFullRescan ==
  /\ Take("full_rescan")
  /\ FullRescan
  /\ Goto("decide")
  /\ UNCHANGED <<topo, todo, job, publish>>

NoMoreEvents ==
  /\ spc = "events" /\ ring = <<>>
  /\ Goto("decide")
  /\ UNCHANGED <<envVars, eventVars, posted, topo, todo, job, publish, timed, recent, pub, cpc>>

\* dsap_dst_port_up, before the path queries.
QueryDst ==
  /\ spc = "query"
  /\ \E a \in Outcomes :
       IF a = "ok" /\ todo \subseteq fabric
       THEN /\ topo' = [topo EXCEPT !.dsts = @ \cup todo, !.paths = @ \ todo]
            /\ job' = "up"
            /\ Goto("paths")
            /\ UNCHANGED <<rescan, signaled>>
       ELSE FullRescan /\ Goto("events") /\ UNCHANGED <<topo, job>>
  /\ UNCHANGED <<envVars, ring, posted, todo, publish, timed, recent, pub, cpc>>

\* Mutant: the sweep leaves timeout_sec as it is.
EndSweepUntimed ==
  /\ rescan' = FALSE
  /\ publish' = TRUE
  /\ UNCHANGED timed
  /\ Goto("publish")

\* The end of the FBUSY loop.
EndSweep ==
  /\ rescan' = FALSE
  /\ publish' = TRUE
  /\ timed' = TRUE
  /\ Goto("publish")

\* dsap_for_each_dst_port, dsap_for_each_virtual_fabric: no query without a
\* vfab that matches a pkey; a destination that is not found has no paths.
QueryPaths(d) ==
  /\ spc = "paths" /\ d \in todo /\ ~end
  /\ \E a \in Outcomes :
       \/ /\ a \in {"ok", "empty"} \/ ~(topo.vfabs /\ topo.keyed)
          /\ topo' = IF a = "ok" /\ d \in fabric /\ topo.vfabs /\ topo.keyed
                     THEN [topo EXCEPT !.paths = @ \cup {d}] ELSE topo
          /\ todo' = todo \ {d}
          /\ UNCHANGED <<eventVars, spc, publish, timed>>
       \/ /\ a \in {"busy", "fail"} /\ topo.vfabs /\ topo.keyed
          /\ IF job # "sweep"
             THEN /\ Insert(PortEvent("port_rescan")) /\ signaled' = TRUE
                  /\ Goto("events")
                  /\ UNCHANGED <<publish, timed>>
             ELSE /\ IF a = "fail" THEN EndSweep
                     ELSE Goto("busy") /\ UNCHANGED <<rescan, publish, timed>>
                  /\ UNCHANGED <<ring, signaled>>
          /\ UNCHANGED <<topo, todo>>
  /\ UNCHANGED <<envVars, posted, job, recent, pub, cpc>>

PathsDone ==
  /\ spc = "paths" /\ (todo = {} \/ end)
  /\ IF job = "sweep" THEN EndSweep
     ELSE publish' = TRUE /\ Goto("events") /\ UNCHANGED <<rescan, timed>>
  /\ UNCHANGED <<envVars, ring, signaled, posted, topo, todo, job, recent, pub, cpc>>

-----------------------------------------------------------------------------
(* dsap_scanner: the sweep. *)

\* The events in the ring are dropped, the sweep will see what they announce.
\* A sweep soon after the last one is put off.
Decide ==
  /\ spc = "decide"
  /\ IF ~rescan THEN Goto("publish") /\ UNCHANGED <<ring, topo, timed, recent>>
     ELSE /\ ring' = <<>>
          /\ IF recent THEN timed' = TRUE /\ Goto("delay") /\ UNCHANGED <<topo, recent>>
             ELSE /\ recent' = TRUE
                  /\ topo' = NoTopology
                  /\ Goto("ports")
                  /\ UNCHANGED timed
  /\ UNCHANGED <<envVars, rescan, signaled, posted, todo, job, publish, pub, cpc>>

\* dsap_add_src_ports; without a source port there is no subnet to scan.
AddSrcPorts ==
  /\ spc = "ports"
  /\ \/ /\ topo' = [topo EXCEPT !.subnet = Active, !.src = Active, !.keyed = Keyed]
        /\ IF Active THEN Goto("dsts") /\ UNCHANGED <<rescan, publish, timed>> ELSE EndSweep
     \/ /\ ~healthy /\ "fail" \in Answers
        /\ timed' = TRUE
        /\ Goto("delay")
        /\ UNCHANGED <<rescan, publish, topo>>
  /\ UNCHANGED <<envVars, ring, signaled, posted, todo, job, recent, pub, cpc>>

\* dsap_scan_subnets. The own port is in every list of destination ports, and
\* a port that is there already makes the query fail (FDUPLICATE).
ScanDsts ==
  /\ spc = "dsts"
  /\ \/ /\ end
        /\ EndSweep
        /\ UNCHANGED topo
     \/ /\ ~end
        /\ \E a \in Outcomes :
             \/ /\ a = "ok" /\ ~topo.listed
                /\ topo' = [topo EXCEPT !.listed = TRUE, !.dsts = fabric]
                /\ Goto("vfabs")
                /\ UNCHANGED <<rescan, publish, timed>>
             \/ /\ a = "ok" /\ topo.listed
                /\ \E more \in SUBSET fabric : topo' = [topo EXCEPT !.dsts = @ \cup more]
                /\ EndSweep
             \/ /\ a = "busy"
                /\ Goto("busy")
                /\ UNCHANGED <<rescan, topo, publish, timed>>
             \/ /\ a \in {"empty", "fail"}
                /\ EndSweep
                /\ UNCHANGED topo
  /\ UNCHANGED <<envVars, ring, signaled, posted, todo, job, recent, pub, cpc>>

\* dsap_add_vfinfo_records: only a busy SM makes it fail.
ScanVFabs ==
  /\ spc = "vfabs"
  /\ \E a \in Outcomes :
       IF a = "busy" THEN Goto("busy") /\ UNCHANGED <<topo, todo, job>>
       ELSE /\ topo' = [topo EXCEPT !.vfabs = (a = "ok" /\ topo.keyed)]
            /\ todo' = topo.dsts
            /\ job' = "sweep"
            /\ Goto("paths")
  /\ UNCHANGED <<envVars, eventVars, posted, publish, timed, recent, pub, cpc>>

\* The FBUSY loop: a wait that a trigger cuts short, and another scan.
BusyWait ==
  /\ spc = "busy"
  /\ IF end THEN EndSweep /\ UNCHANGED signaled
     ELSE signaled' = FALSE /\ Goto("dsts") /\ UNCHANGED <<rescan, publish, timed>>
  /\ UNCHANGED <<envVars, ring, posted, topo, todo, job, recent, pub, cpc>>

\* dsap_publish_paths: without a subnet no table is made, the old ones stay.
Publish ==
  /\ spc = "publish"
  /\ pub' = IF publish /\ topo.subnet THEN [src |-> topo.src, paths |-> topo.paths] ELSE pub
  /\ publish' = FALSE
  /\ Goto("delay")
  /\ UNCHANGED <<envVars, eventVars, posted, topo, todo, job, timed, recent, cpc>>

\* Mutant: the wait begins without a look at ev_signaled.
DelayBlindly ==
  /\ spc = "delay"
  /\ signaled' = FALSE
  /\ Goto("wait")
  /\ UNCHANGED <<envVars, ring, rescan, posted, topo, todo, job, publish, timed, recent, pub, cpc>>

\* delay_scan: the time is up already, the event is signaled already, or wait.
Delay ==
  /\ spc = "delay"
  /\ \/ /\ timed
        /\ rescan' = TRUE
        /\ Goto("top")
        /\ UNCHANGED signaled
     \/ /\ signaled
        /\ signaled' = FALSE
        /\ Goto("top")
        /\ UNCHANGED rescan
     \/ /\ ~signaled
        /\ Goto("wait")
        /\ UNCHANGED <<rescan, signaled>>
  /\ UNCHANGED <<envVars, ring, posted, topo, todo, job, publish, timed, recent, pub, cpc>>

\* The wait ends with a trigger or with the time. One may cross the other.
Wake ==
  /\ spc = "wait"
  /\ \/ signaled /\ UNCHANGED rescan
     \/ timed /\ rescan' = TRUE
  /\ signaled' = FALSE
  /\ Goto("top")
  /\ UNCHANGED <<envVars, ring, posted, topo, todo, job, publish, timed, recent, pub, cpc>>

ScannerStep ==
  \/ LoopTop \/ NoMoreEvents
  \/ TakeDstUp \/ TakeDstDown \/ TakeSrcUp \/ TakeSrcDown \/ TakePortRescan \/ TakeFullRescan
  \/ QueryDst \/ PathsDone \/ \E d \in Dests : QueryPaths(d)
  \/ Decide \/ AddSrcPorts \/ ScanDsts \/ ScanVFabs \/ BusyWait
  \/ Publish \/ Delay \/ Wake

-----------------------------------------------------------------------------
(* dsap_scanner_cleanup: end, trigger, join, close. *)

SetEnd ==
  /\ MayStop /\ cpc = "run"
  /\ cpc' = "trigger"
  /\ UNCHANGED <<envVars, eventVars, posted, scannerVars>>

\* Mutant: the scanner is joined without a trigger.
EndQuietly ==
  /\ cpc = "trigger"
  /\ cpc' = "join"
  /\ UNCHANGED <<envVars, eventVars, posted, scannerVars>>

TriggerEnd ==
  /\ cpc = "trigger"
  /\ signaled' = TRUE
  /\ cpc' = "join"
  /\ UNCHANGED <<envVars, ring, rescan, posted, scannerVars>>

\* The scanner is joined, the writer of the tables closed.
Join ==
  /\ cpc = "join" /\ spc = "exited"
  /\ pub' = NoTables
  /\ cpc' = "closed"
  /\ UNCHANGED <<envVars, eventVars, posted, spc, topo, todo, job, publish, timed, recent>>

-----------------------------------------------------------------------------

Init ==
  /\ port = "closed" /\ fabric = {} /\ notices = <<>> /\ changes = 0
  /\ healthy = (Answers = {"ok"})
  /\ ring = <<>> /\ rescan = FALSE /\ signaled = FALSE /\ posted = {}
  /\ spc = "top" /\ topo = NoTopology /\ todo = {} /\ job = "sweep"
  /\ publish = FALSE /\ timed = FALSE /\ recent = FALSE /\ pub = NoTables
  /\ cpc = "run"

Next ==
  \/ ScannerStep
  \/ \E d \in Dests : FabricChange(d)
  \/ ReportNotice \/ OpenPort \/ OpenEndpoint \/ ClosePort \/ PortClosed \/ SaRecovers \/ TimePasses
  \/ \E t \in Threads : SmChange(t) \/ Trigger(t)
  \/ SetEnd \/ TriggerEnd \/ Join

\* The threads run, time passes, and notices arrive; when the port is opened
\* or closed and what happens in the fabric is not up to the program.
Fairness ==
  /\ WF_vars(ScannerStep)
  /\ WF_vars(TriggerEnd) /\ WF_vars(Join)
  /\ WF_vars(ReportNotice) /\ WF_vars(PortClosed) /\ WF_vars(TimePasses)
  /\ \A t \in Threads : WF_vars(Trigger(t))

Spec == Init /\ [][Next]_vars /\ Fairness

-----------------------------------------------------------------------------
(* Properties. *)

Steps == {"top", "events", "query", "paths", "decide", "ports", "dsts", "vfabs", "busy",
          "publish", "delay", "wait", "exited"}

Topologies == [subnet : BOOLEAN, src : BOOLEAN, keyed : BOOLEAN, listed : BOOLEAN,
               vfabs : BOOLEAN, dsts : SUBSET Dests, paths : SUBSET Dests]
Tables == [src : BOOLEAN, paths : SUBSET Dests]

\* Every variable has its type; the ring has room for RingSize - 1 events.
TypeOK ==
  /\ port \in {"closed", "opening", "open", "closing"}
  /\ fabric \subseteq Dests
  /\ notices \in Seq(Notices)
  /\ changes \in 0..MaxChanges /\ healthy \in BOOLEAN
  /\ ring \in Seq(Events) /\ Len(ring) < RingSize
  /\ rescan \in BOOLEAN /\ signaled \in BOOLEAN
  /\ posted \subseteq Threads
  /\ spc \in Steps
  /\ topo \in Topologies
  /\ todo \subseteq Dests
  /\ job \in {"sweep", "rescan", "up"}
  /\ publish \in BOOLEAN /\ timed \in BOOLEAN /\ recent \in BOOLEAN
  /\ pub \in Tables
  /\ cpc \in {"run", "trigger", "join", "closed"}

\* The scanner never waits for its event with an event in the ring that its
\* poster has already triggered: the event "wakes up scanner thread"
\* (dsap_scan_fabric.c:58).
NoLostWakeup == spc = "wait" /\ ~signaled /\ posted = {} => ring = <<>>

\* Nothing is under way that could still reach the scanner.
AtRest ==
  /\ spc = "wait" /\ ~signaled /\ posted = {}
  /\ notices = <<>> /\ ring = <<>> /\ ~rescan /\ ~end

\* When the local port is open and every event and notice has been dealt with,
\* the published tables show the fabric as it is, in whatever order changes,
\* notices, queries and sweeps came.
SettledIsCurrent == AtRest /\ port = "open" => pub = Current

\* dsap_scanner_cleanup returns: the scanner is not left waiting when it is
\* told to end, whatever it does at that moment and whatever the SA answers.
CleanupReturns == cpc = "trigger" ~> cpc = "closed"

\* Once the fabric is quiet and the SA has recovered, the published tables show
\* the fabric and stay so, even if the ring ran over, queries failed, a notice
\* was taken for another or the port was closed in the middle of a sweep: the
\* periodic sweep makes up for it, unless the scanner is told to end.
CatchesUp == <>healthy => <>[](end \/ (port = "open" => pub = Current))

=============================================================================
