------------------------- MODULE DsapScannerProofs -------------------------
(***************************************************************************)
(* Theorems about DsapScanner, for every set of destinations and every     *)
(* size of the ring.                                                       *)
(***************************************************************************)
EXTENDS DsapScanner, SequenceTheorems, TLAPS

-----------------------------------------------------------------------------
(* Type correctness. *)

\* An event about the port, or a notice, is an event.
LEMMA EventTypes ==
  /\ \A type \in {"src_up", "src_down", "port_rescan", "full_rescan"} :
       PortEvent(type) \in Events
  /\ Notices \subseteq Events
  /\ \A d \in Dests, type \in {"dst_up", "dst_down"} : Event(type, d) \in Notices
  /\ \A e \in Events : e.type \in {"dst_up", "dst_down"} => e.dst \in Dests
BY DEF PortEvent, Event, Events, Notices

\* dsap_port_event keeps one slot of the ring empty.
LEMMA InsertType ==
  ASSUME ring \in Seq(Events), Len(ring) < RingSize, rescan \in BOOLEAN,
         NEW e \in Events, Insert(e)
  PROVE  ring' \in Seq(Events) /\ Len(ring') < RingSize /\ rescan' \in BOOLEAN
<1>1. RingSize \in Nat /\ RingSize > 1
  BY ConstantsAssumption DEF ConstantsAssumption
<1>2. CASE Len(ring) + 1 = RingSize
  BY <1>1, <1>2 DEF Insert
<1>3. CASE Len(ring) + 1 # RingSize
  <2>1. ring' = Append(ring, e) /\ rescan' = rescan
    BY <1>3 DEF Insert
  <2>2. Append(ring, e) \in Seq(Events) /\ Len(Append(ring, e)) = Len(ring) + 1
    OBVIOUS
  <2>3. Len(ring) \in Nat
    OBVIOUS
  <2> QED
    BY <1>1, <1>3, <2>1, <2>2, <2>3
<1> QED
  BY <1>2, <1>3

\* The scanner takes events that are in the ring and makes it shorter.
LEMMA TakeType ==
  ASSUME ring \in Seq(Events), Len(ring) < RingSize, NEW type, Take(type)
  PROVE  /\ ring' \in Seq(Events) /\ Len(ring') < RingSize
         /\ Head(ring) \in Events /\ Head(ring).type = type
<1>1. RingSize \in Nat
  BY ConstantsAssumption DEF ConstantsAssumption
<1>2. ring # <<>> /\ ring' = Tail(ring) /\ Head(ring).type = type
  BY DEF Take
<1>3. Head(ring) \in Events /\ Tail(ring) \in Seq(Events) /\ Len(Tail(ring)) = Len(ring) - 1
  BY <1>2, HeadTailProperties
<1>4. Len(ring) \in Nat
  OBVIOUS
<1> QED
  BY <1>1, <1>2, <1>3, <1>4

LEMMA TypeInit == Init => TypeOK
<1> SUFFICES ASSUME Init PROVE TypeOK
  OBVIOUS
<1> USE DEF Init
<1>1. changes \in 0..MaxChanges /\ Len(ring) < RingSize
  BY ConstantsAssumption DEF ConstantsAssumption
<1>2. topo \in Topologies /\ pub \in Tables
  BY DEF NoTopology, NoTables, Topologies, Tables
<1>3. notices \in Seq(Notices) /\ ring \in Seq(Events)
  OBVIOUS
<1>4. spc \in Steps
  BY DEF Steps
<1> QED
  BY <1>1, <1>2, <1>3, <1>4 DEF TypeOK

\* The steps of the SM, the ibacm thread and the notice thread.
LEMMA TypeEnvironment ==
  ASSUME TypeOK,
         \/ \E d \in Dests : FabricChange(d)
         \/ ReportNotice \/ OpenPort \/ OpenEndpoint \/ ClosePort \/ PortClosed \/ SaRecovers \/ TimePasses
         \/ \E t \in Threads : SmChange(t) \/ Trigger(t)
         \/ SetEnd \/ TriggerEnd \/ Join
  PROVE  TypeOK'
<1> USE DEF TypeOK
<1>0. MaxChanges \in Nat
  BY ConstantsAssumption DEF ConstantsAssumption
<1>1. ASSUME NEW d \in Dests, FabricChange(d) PROVE TypeOK'
  <2>1. notices' \in Seq(Notices)
    <3> DEFINE e == Event(IF d \in fabric THEN "dst_down" ELSE "dst_up", d)
    <3>1. e \in Notices
      BY EventTypes
    <3>2. notices' = IF Active THEN Append(notices, e) ELSE notices
      BY <1>1 DEF FabricChange
    <3> HIDE DEF e
    <3> QED
      BY <3>1, <3>2
  <2>2. fabric' \subseteq Dests /\ changes' \in 0..MaxChanges
    BY <1>0, <1>1 DEF FabricChange, Change
  <2> QED
    BY <1>1, <2>1, <2>2 DEF FabricChange, eventVars, scannerVars
<1>2. CASE ReportNotice
  <2>1. Head(notices) \in Notices /\ Tail(notices) \in Seq(Notices)
    BY <1>2, HeadTailProperties DEF ReportNotice
  <2>2. ring' \in Seq(Events) /\ Len(ring') < RingSize /\ rescan' \in BOOLEAN
    BY <1>2, <2>1, EventTypes, InsertType DEF ReportNotice, Post
  <2> QED
    BY <1>2, <2>1, <2>2 DEF ReportNotice, Post, scannerVars, Threads
<1>3. CASE OpenPort
  BY <1>0, <1>3 DEF OpenPort, Change, eventVars, scannerVars
<1>4. CASE OpenEndpoint
  <2>1. ring' \in Seq(Events) /\ Len(ring') < RingSize /\ rescan' \in BOOLEAN
    BY <1>4, EventTypes, InsertType DEF OpenEndpoint, Post
  <2> QED
    BY <1>4, <2>1 DEF OpenEndpoint, Post, scannerVars, Threads
<1>5. CASE ClosePort
  <2>1. ring' \in Seq(Events) /\ Len(ring') < RingSize /\ rescan' \in BOOLEAN
    BY <1>5, EventTypes, InsertType DEF ClosePort, Post
  <2> QED
    BY <1>0, <1>5, <2>1 DEF ClosePort, Change, Post, scannerVars, Threads
<1>6. CASE PortClosed
  BY <1>6 DEF PortClosed, eventVars, scannerVars
<1>7. CASE TimePasses
  BY <1>7 DEF TimePasses, envVars, eventVars
<1>8. ASSUME NEW t \in Threads, SmChange(t) PROVE TypeOK'
  <2>1. ring' \in Seq(Events) /\ Len(ring') < RingSize /\ rescan' \in BOOLEAN
    BY <1>8, EventTypes, InsertType DEF SmChange, Post
  <2> QED
    BY <1>0, <1>8, <2>1 DEF SmChange, Change, Post, scannerVars, Threads
<1>9. ASSUME NEW t \in Threads, Trigger(t) PROVE TypeOK'
  BY <1>9 DEF Trigger, envVars, scannerVars
<1>10. CASE SetEnd
  BY <1>10 DEF SetEnd, envVars, eventVars, scannerVars
<1>11. CASE TriggerEnd
  BY <1>11 DEF TriggerEnd, envVars, scannerVars
<1>12. CASE Join
  BY <1>12 DEF Join, envVars, eventVars, NoTables, Tables
<1>13. CASE SaRecovers
  BY <1>13 DEF SaRecovers, eventVars, scannerVars
<1> QED
  BY <1>1, <1>2, <1>3, <1>4, <1>5, <1>6, <1>7, <1>8, <1>9, <1>10, <1>11, <1>12, <1>13

\* The steps of the scanner with the events.
LEMMA TypeScannerEvents ==
  ASSUME TypeOK,
         \/ LoopTop \/ NoMoreEvents
         \/ TakeDstUp \/ TakeDstDown \/ TakeSrcUp \/ TakeSrcDown
         \/ TakePortRescan \/ TakeFullRescan
  PROVE  TypeOK'
<1> USE DEF TypeOK, Goto, Steps
<1>1. CASE LoopTop
  BY <1>1 DEF LoopTop, envVars, eventVars
<1>2. CASE NoMoreEvents
  BY <1>2 DEF NoMoreEvents, envVars, eventVars
<1>3. CASE TakeDstUp
  <2>1. Take("dst_up")
    BY <1>3 DEF TakeDstUp
  <2>2. ring' \in Seq(Events) /\ Len(ring') < RingSize /\ Head(ring).dst \in Dests
    BY <2>1, TakeType, EventTypes
  <2>3. todo' = {Head(ring).dst}
    BY <1>3, Zenon DEF TakeDstUp
  <2>4. rescan' \in BOOLEAN /\ signaled' \in BOOLEAN /\ spc' \in Steps
    <3>1. /\ \/ UNCHANGED <<rescan, signaled>>
             \/ rescan' = TRUE /\ signaled' = TRUE
          /\ spc' = "query" \/ spc' = spc
      <4> HIDE DEF TypeOK, Steps
      <4> QED
        BY <1>3, Zenon DEF TakeDstUp, FullRescan
    <3> QED
      BY <3>1
  <2>5. UNCHANGED <<envVars, posted, timed, recent, pub, cpc, topo, job, publish>>
    BY <1>3, <2>1, Zenon DEF TakeDstUp, Take
  <2> QED
    <3> HIDE DEF Goto, Steps
    <3> QED
      BY <2>2, <2>3, <2>4, <2>5 DEF envVars
<1>4. CASE TakeDstDown
  <2>1. Take("dst_down")
    BY <1>4 DEF TakeDstDown
  <2>2. ring' \in Seq(Events) /\ Len(ring') < RingSize
    BY <2>1, TakeType
  <2>3. topo' \in Topologies /\ publish' \in BOOLEAN
    <3>1. \E e : topo' = [topo EXCEPT !.dsts = @ \ {e}, !.paths = @ \ {e}]
      <4> HIDE DEF TypeOK, Goto, Steps
      <4> QED
        BY <1>4, Zenon DEF TakeDstDown
    <3>2. topo' \in Topologies
      BY <3>1 DEF Topologies
    <3>3. publish' = (publish \/ Head(ring).dst \in topo.dsts)
      BY <1>4, Zenon DEF TakeDstDown
    <3> QED
      BY <3>2, <3>3
  <2>4. UNCHANGED <<envVars, posted, timed, recent, pub, cpc, rescan, signaled, spc, todo, job>>
    BY <1>4, <2>1, Zenon DEF TakeDstDown, Take
  <2> QED
    <3> HIDE DEF Goto, Steps
    <3> QED
      BY <2>2, <2>3, <2>4 DEF envVars
<1>5. CASE TakeSrcUp
  <2>1. Take("src_up")
    BY <1>5 DEF TakeSrcUp
  <2>2. ring' \in Seq(Events) /\ Len(ring') < RingSize
    BY <2>1, TakeType
  <2> QED
    BY <1>5, <2>1, <2>2 DEF TakeSrcUp, Take, envVars
<1>6. CASE TakeSrcDown
  <2>1. Take("src_down")
    BY <1>6 DEF TakeSrcDown
  <2>2. ring' \in Seq(Events) /\ Len(ring') < RingSize
    BY <2>1, TakeType
  <2>3. topo' \in Topologies /\ publish' \in BOOLEAN
    <3>1. topo' = [topo EXCEPT !.src = FALSE, !.keyed = FALSE, !.paths = {}]
      BY <1>6, Zenon DEF TakeSrcDown
    <3>2. publish' = (publish \/ topo.src)
      BY <1>6, Zenon DEF TakeSrcDown
    <3> QED
      BY <3>1, <3>2 DEF Topologies
  <2>4. UNCHANGED <<envVars, posted, timed, recent, pub, cpc, rescan, signaled, spc, todo, job>>
    BY <1>6, <2>1, Zenon DEF TakeSrcDown, Take
  <2> QED
    <3> HIDE DEF Goto, Steps
    <3> QED
      BY <2>2, <2>3, <2>4 DEF envVars
<1>7. CASE TakePortRescan
  <2>1. Take("port_rescan")
    BY <1>7 DEF TakePortRescan
  <2>2. ring' \in Seq(Events) /\ Len(ring') < RingSize
    BY <2>1, TakeType
  <2>3. topo' \in Topologies /\ todo' \subseteq Dests
    <3>1. Keyed \in BOOLEAN
      BY DEF Keyed
    <3>2. \/ topo' = topo /\ todo' = todo
          \/ topo' = [topo EXCEPT !.keyed = Keyed, !.paths = {}] /\ todo' = topo.dsts
      BY <1>7, Zenon DEF TakePortRescan
    <3> QED
      BY <3>1, <3>2 DEF Topologies
  <2>4. /\ rescan' \in BOOLEAN /\ signaled' \in BOOLEAN
        /\ spc' \in Steps /\ job' \in {"sweep", "rescan", "up"}
    <3>1. /\ \/ UNCHANGED <<rescan, signaled>>
             \/ rescan' = TRUE /\ signaled' = TRUE
          /\ \/ UNCHANGED <<spc, job>>
             \/ spc' = "paths" /\ job' = "rescan"
      <4> HIDE DEF TypeOK, Steps
      <4> QED
        BY <1>7, Zenon DEF TakePortRescan, FullRescan
    <3> QED
      BY <3>1
  <2>5. UNCHANGED <<envVars, posted, timed, recent, pub, cpc, publish>>
    BY <1>7, <2>1, Zenon DEF TakePortRescan, Take
  <2> QED
    <3> HIDE DEF Goto, Steps
    <3> QED
      BY <2>2, <2>3, <2>4, <2>5 DEF envVars
<1>8. CASE TakeFullRescan
  <2>1. Take("full_rescan")
    BY <1>8 DEF TakeFullRescan
  <2>2. ring' \in Seq(Events) /\ Len(ring') < RingSize
    BY <2>1, TakeType
  <2> QED
    BY <1>8, <2>1, <2>2 DEF TakeFullRescan, Take, FullRescan, envVars
<1> QED
  BY <1>1, <1>2, <1>3, <1>4, <1>5, <1>6, <1>7, <1>8

\* The steps of the scanner with the topology, the queries and the waits.
LEMMA TypeScannerSweep ==
  ASSUME TypeOK,
         \/ QueryDst \/ PathsDone \/ \E d \in Dests : QueryPaths(d)
         \/ Decide \/ AddSrcPorts \/ ScanDsts \/ ScanVFabs \/ BusyWait
         \/ Publish \/ Delay \/ Wake
  PROVE  TypeOK'
<1> USE DEF TypeOK, Goto, Steps
<1>1. CASE QueryDst
  <2>1. topo' \in Topologies
    <3>1. topo' = topo \/ topo' = [topo EXCEPT !.dsts = @ \cup todo, !.paths = @ \ todo]
      <4> HIDE DEF TypeOK, Goto, Steps
      <4> QED
        BY <1>1, Zenon DEF QueryDst
    <3> QED
      BY <3>1 DEF Topologies
  <2>2. rescan' \in BOOLEAN /\ signaled' \in BOOLEAN
    <3>1. \/ UNCHANGED <<rescan, signaled>>
          \/ rescan' = TRUE /\ signaled' = TRUE
      <4> HIDE DEF TypeOK, Goto, Steps
      <4> QED
        BY <1>1, Zenon DEF QueryDst, FullRescan
    <3> QED
      BY <3>1
  <2>3. spc' \in Steps /\ job' \in {"sweep", "rescan", "up"}
    <3>1. (spc' = "paths" /\ job' = "up") \/ (spc' = "events" /\ job' = job)
      <4> HIDE DEF TypeOK, Steps
      <4> QED
        BY <1>1, Zenon DEF QueryDst
    <3> QED
      BY <3>1
  <2>4. UNCHANGED <<envVars, ring, posted, todo, publish, timed, recent, pub, cpc>>
    BY <1>1, Zenon DEF QueryDst
  <2> QED
    <3> HIDE DEF Goto, Steps
    <3> QED
      BY <2>1, <2>2, <2>3, <2>4 DEF envVars
<1>2. CASE PathsDone
  <2>1. rescan' \in BOOLEAN /\ publish' \in BOOLEAN /\ timed' \in BOOLEAN /\ spc' \in Steps
    <3>1. EndSweep \/ (publish' = TRUE /\ Goto("events") /\ UNCHANGED <<rescan, timed>>)
      <4> HIDE DEF TypeOK, Goto, Steps
      <4> QED
        BY <1>2, Zenon DEF PathsDone
    <3> QED
      BY <3>1 DEF EndSweep
  <2>2. UNCHANGED <<envVars, ring, signaled, posted, topo, todo, job, recent, pub, cpc>>
    BY <1>2, Zenon DEF PathsDone
  <2> QED
    <3> HIDE DEF Goto, Steps
    <3> QED
      BY <2>1, <2>2 DEF envVars
<1>3. ASSUME NEW d \in Dests, QueryPaths(d) PROVE TypeOK'
  <2>1. \/ /\ topo' = topo \/ topo' = [topo EXCEPT !.paths = @ \cup {d}]
           /\ todo' = todo \ {d}
           /\ UNCHANGED <<eventVars, spc, publish, timed>>
        \/ /\ \/ /\ Insert(PortEvent("port_rescan")) /\ signaled' = TRUE
                 /\ Goto("events")
                 /\ UNCHANGED <<publish, timed>>
              \/ /\ EndSweep \/ (Goto("busy") /\ UNCHANGED <<rescan, publish, timed>>)
                 /\ UNCHANGED <<ring, signaled>>
           /\ UNCHANGED <<topo, todo>>
    <3> HIDE DEF TypeOK, Goto, Steps
    <3> QED
      BY <1>3, Zenon DEF QueryPaths
  <2>2. topo' \in Topologies /\ todo' \subseteq Dests
    BY <2>1, <1>3 DEF Topologies
  <2>3. ring' \in Seq(Events) /\ Len(ring') < RingSize /\ rescan' \in BOOLEAN
    BY <2>1, EventTypes, InsertType DEF eventVars, EndSweep
  <2>4. spc' \in Steps /\ publish' \in BOOLEAN /\ timed' \in BOOLEAN /\ signaled' \in BOOLEAN
    BY <2>1 DEF eventVars, EndSweep
  <2>5. UNCHANGED <<envVars, posted, job, recent, pub, cpc>>
    BY <1>3, Zenon DEF QueryPaths
  <2> QED
    <3> HIDE DEF Goto, Steps
    <3> QED
      BY <2>2, <2>3, <2>4, <2>5 DEF envVars
<1>4. CASE Decide
  <2>1. ring' \in Seq(Events) /\ Len(ring') < RingSize
    <3>1. ring' = ring \/ ring' = <<>>
      <4> HIDE DEF TypeOK, Goto, Steps
      <4> QED
        BY <1>4, Zenon DEF Decide
    <3>2. <<>> \in Seq(Events) /\ Len(<<>>) < RingSize
      BY ConstantsAssumption, EmptySeq DEF ConstantsAssumption
    <3>3. ring \in Seq(Events) /\ Len(ring) < RingSize
      OBVIOUS
    <3> QED
      BY <3>1, <3>2, <3>3, Zenon
  <2>2. topo' \in Topologies
    <3>1. topo' = topo \/ topo' = NoTopology
      <4> HIDE DEF TypeOK, Goto, Steps
      <4> QED
        BY <1>4, Zenon DEF Decide
    <3>2. NoTopology \in Topologies
      BY DEF NoTopology, Topologies
    <3>3. topo \in Topologies
      OBVIOUS
    <3> QED
      BY <3>1, <3>2, <3>3, Zenon
  <2> QED
    BY <1>4, <2>1, <2>2 DEF Decide, envVars
<1>5. CASE AddSrcPorts
  <2>1. topo' \in Topologies
    <3>1. Active \in BOOLEAN /\ Keyed \in BOOLEAN
      BY DEF Active, Keyed
    <3>2. \/ topo' = topo
          \/ topo' = [topo EXCEPT !.subnet = Active, !.src = Active, !.keyed = Keyed]
      BY <1>5, Zenon DEF AddSrcPorts
    <3> QED
      BY <3>1, <3>2 DEF Topologies
  <2>2. /\ rescan' \in BOOLEAN /\ publish' \in BOOLEAN /\ timed' \in BOOLEAN
        /\ spc' \in Steps
    <3>1. \/ Goto("dsts") /\ UNCHANGED <<rescan, publish, timed>>
          \/ EndSweep
          \/ timed' = TRUE /\ Goto("delay") /\ UNCHANGED <<rescan, publish>>
      <4> HIDE DEF TypeOK, Goto, Steps
      <4> QED
        BY <1>5, Zenon DEF AddSrcPorts
    <3> QED
      BY <3>1 DEF EndSweep
  <2>3. UNCHANGED <<envVars, ring, signaled, posted, todo, job, recent, pub, cpc>>
    BY <1>5, Zenon DEF AddSrcPorts
  <2> QED
    <3> HIDE DEF Goto, Steps
    <3> QED
      BY <2>1, <2>2, <2>3 DEF envVars
<1>6. CASE ScanDsts
  <2>1. topo' \in Topologies
    <3>1. \/ topo' = topo
          \/ topo' = [topo EXCEPT !.listed = TRUE, !.dsts = fabric]
          \/ \E more \in SUBSET fabric : topo' = [topo EXCEPT !.dsts = @ \cup more]
      <4> HIDE DEF TypeOK, Goto, Steps
      <4> QED
        BY <1>6, Zenon DEF ScanDsts
    <3> QED
      BY <3>1 DEF Topologies
  <2>2. rescan' \in BOOLEAN /\ publish' \in BOOLEAN /\ timed' \in BOOLEAN /\ spc' \in Steps
    <3>1. \/ EndSweep
          \/ (Goto("vfabs") \/ Goto("busy")) /\ UNCHANGED <<rescan, publish, timed>>
      <4> HIDE DEF TypeOK, Goto, Steps
      <4> QED
        BY <1>6 DEF ScanDsts
    <3>2. CASE EndSweep
      BY <3>2 DEF EndSweep
    <3>3. CASE (Goto("vfabs") \/ Goto("busy")) /\ UNCHANGED <<rescan, publish, timed>>
      BY <3>3
    <3> QED
      BY <3>1, <3>2, <3>3
  <2>3. UNCHANGED <<envVars, ring, signaled, posted, todo, job, recent, pub, cpc>>
    BY <1>6, Zenon DEF ScanDsts
  <2> QED
    <3> HIDE DEF Goto, Steps
    <3> QED
      BY <2>1, <2>2, <2>3 DEF envVars
<1>7. CASE ScanVFabs
  <2>1. /\ topo' \in Topologies /\ todo' \subseteq Dests
        /\ job' \in {"sweep", "rescan", "up"} /\ spc' \in Steps
    <3>1. \/ spc' = "busy" /\ UNCHANGED <<topo, todo, job>>
          \/ \E b \in BOOLEAN :
               /\ topo' = [topo EXCEPT !.vfabs = b]
               /\ todo' = topo.dsts /\ job' = "sweep" /\ spc' = "paths"
      <4> HIDE DEF TypeOK, Steps
      <4>1. \A a : (a = "ok" /\ topo.keyed) \in BOOLEAN
        OBVIOUS
      <4> QED
        BY <1>7, <4>1, Zenon DEF ScanVFabs
    <3> QED
      BY <3>1 DEF Topologies
  <2>2. UNCHANGED <<envVars, eventVars, posted, publish, timed, recent, pub, cpc>>
    BY <1>7, Zenon DEF ScanVFabs
  <2> QED
    <3> HIDE DEF Goto, Steps
    <3> QED
      BY <2>1, <2>2 DEF envVars, eventVars
<1>8. CASE BusyWait
  <2>1. /\ rescan' \in BOOLEAN /\ publish' \in BOOLEAN /\ timed' \in BOOLEAN
        /\ spc' \in Steps /\ signaled' \in BOOLEAN
    <3>1. \/ EndSweep /\ UNCHANGED signaled
          \/ signaled' = FALSE /\ Goto("dsts") /\ UNCHANGED <<rescan, publish, timed>>
      <4> HIDE DEF TypeOK, Goto, Steps
      <4> QED
        BY <1>8, Zenon DEF BusyWait
    <3> QED
      BY <3>1 DEF EndSweep
  <2>2. UNCHANGED <<envVars, ring, posted, topo, todo, job, recent, pub, cpc>>
    BY <1>8, Zenon DEF BusyWait
  <2> QED
    <3> HIDE DEF Goto, Steps
    <3> QED
      BY <2>1, <2>2 DEF envVars
<1>9. CASE Publish
  <2>1. pub' \in Tables
    <3>1. pub' = pub \/ pub' = [src |-> topo.src, paths |-> topo.paths]
      <4> HIDE DEF TypeOK, Goto, Steps
      <4> QED
        BY <1>9, Zenon DEF Publish
    <3> QED
      BY <3>1 DEF Tables, Topologies
  <2>2. publish' = FALSE /\ spc' \in Steps
    BY <1>9 DEF Publish
  <2>3. UNCHANGED <<envVars, eventVars, posted, topo, todo, job, timed, recent, cpc>>
    BY <1>9, Zenon DEF Publish
  <2> QED
    <3> HIDE DEF Goto, Steps
    <3> QED
      BY <2>1, <2>2, <2>3 DEF envVars, eventVars
<1>10. CASE Delay
  <2>1. rescan' \in BOOLEAN /\ signaled' \in BOOLEAN /\ spc' \in Steps
    BY <1>10 DEF Delay
  <2>2. UNCHANGED <<envVars, ring, posted, topo, todo, job, publish, timed, recent, pub, cpc>>
    BY <1>10, Zenon DEF Delay
  <2> QED
    <3> HIDE DEF Goto, Steps
    <3> QED
      BY <2>1, <2>2 DEF envVars
<1>11. CASE Wake
  <2>1. rescan' \in BOOLEAN /\ signaled' \in BOOLEAN /\ spc' \in Steps
    BY <1>11 DEF Wake
  <2>2. UNCHANGED <<envVars, ring, posted, topo, todo, job, publish, timed, recent, pub, cpc>>
    BY <1>11, Zenon DEF Wake
  <2> QED
    <3> HIDE DEF Goto, Steps
    <3> QED
      BY <2>1, <2>2 DEF envVars
<1> QED
  BY <1>1, <1>2, <1>3, <1>4, <1>5, <1>6, <1>7, <1>8, <1>9, <1>10, <1>11

\* Every variable keeps its type, and the ring of dsap_port_event never holds
\* more than RingSize - 1 events, for every number of destinations and
\* whatever the SA answers.
THEOREM TypeCorrect == Spec => []TypeOK
<1>1. Init => TypeOK
  BY TypeInit
<1>2. TypeOK /\ [Next]_vars => TypeOK'
  <2> SUFFICES ASSUME TypeOK, [Next]_vars PROVE TypeOK'
    OBVIOUS
  <2>1. CASE Next
    BY <2>1, TypeEnvironment, TypeScannerEvents, TypeScannerSweep, Zenon DEF Next, ScannerStep
  <2>2. CASE UNCHANGED vars
    BY <2>2 DEF TypeOK, vars, envVars, eventVars, scannerVars
  <2> QED
    BY <2>1, <2>2
<1> QED
  BY <1>1, <1>2, PTL DEF Spec

-----------------------------------------------------------------------------
(* No lost wake-up, as long as the SM is never busy. *)

\* The places of the scanner from which it looks at the ring before it waits.
LooksAgain == \/ spc \in {"top", "events", "query", "exited"}
              \/ spc = "paths" /\ job # "sweep"

\* An event in the ring is seen: its poster has yet to trigger, or has done so
\* and the scanner has not used the trigger up, or the scanner has and is on
\* its way to the ring. The wait for a busy SM, which uses up a trigger and
\* does not look at the ring, is not reached.
Seen ==
  /\ spc # "busy"
  /\ ring # <<>> => posted # {} \/ signaled \/ LooksAgain

\* Whoever posts has the trigger before him.
LEMMA SeenEnvironment ==
  ASSUME Seen,
         \/ \E d \in Dests : FabricChange(d)
         \/ ReportNotice \/ OpenPort \/ OpenEndpoint \/ ClosePort \/ PortClosed \/ SaRecovers \/ TimePasses
         \/ \E t \in Threads : SmChange(t) \/ Trigger(t)
         \/ SetEnd \/ TriggerEnd \/ Join
  PROVE  Seen'
<1> USE DEF Seen, LooksAgain
<1>1. ASSUME NEW d \in Dests, FabricChange(d) PROVE Seen'
  BY <1>1 DEF FabricChange, eventVars, scannerVars
<1>2. ASSUME NEW t, NEW e, Post(t, e), UNCHANGED scannerVars PROVE Seen'
  BY <1>2 DEF Post, scannerVars
<1>3. CASE ReportNotice
  BY <1>2, <1>3 DEF ReportNotice
<1>4. CASE OpenPort
  BY <1>4 DEF OpenPort, eventVars, scannerVars
<1>5. CASE OpenEndpoint
  BY <1>2, <1>5 DEF OpenEndpoint
<1>6. CASE ClosePort
  BY <1>2, <1>6 DEF ClosePort
<1>7. CASE PortClosed
  BY <1>7 DEF PortClosed, eventVars, scannerVars
<1>8. CASE TimePasses
  BY <1>8 DEF TimePasses, eventVars
<1>9. ASSUME NEW t \in Threads, SmChange(t) PROVE Seen'
  BY <1>2, <1>9 DEF SmChange
<1>10. ASSUME NEW t \in Threads, Trigger(t) PROVE Seen'
  BY <1>10 DEF Trigger, scannerVars
<1>11. CASE SetEnd
  BY <1>11 DEF SetEnd, eventVars, scannerVars
<1>12. CASE TriggerEnd
  BY <1>12 DEF TriggerEnd, scannerVars
<1>13. CASE Join
  BY <1>13 DEF Join, eventVars
<1>14. CASE SaRecovers
  BY <1>14 DEF SaRecovers, eventVars, scannerVars
<1> QED
  BY <1>1, <1>3, <1>4, <1>5, <1>6, <1>7, <1>8, <1>9, <1>10, <1>11, <1>12, <1>13, <1>14

\* The scanner leaves the places where it looks at the ring with the ring empty
\* or the event triggered, and uses a trigger up only to come back to them.
LEMMA SeenScanner ==
  ASSUME Seen, "busy" \notin Answers, ScannerStep
  PROVE  Seen'
<1> USE DEF Seen, LooksAgain, Goto
<1>0. "busy" \notin Outcomes
  BY DEF Outcomes
<1>1. CASE LoopTop
  BY <1>1 DEF LoopTop, eventVars
<1>2. CASE NoMoreEvents
  BY <1>2 DEF NoMoreEvents, eventVars
<1>3. CASE TakeDstUp
  BY <1>3 DEF TakeDstUp, Take
<1>4. CASE TakeDstDown
  BY <1>4 DEF TakeDstDown, Take
<1>5. CASE TakeSrcUp
  BY <1>5 DEF TakeSrcUp, Take
<1>6. CASE TakeSrcDown
  BY <1>6 DEF TakeSrcDown, Take
<1>7. CASE TakePortRescan
  BY <1>7 DEF TakePortRescan, Take
<1>8. CASE TakeFullRescan
  BY <1>8 DEF TakeFullRescan, Take, FullRescan
<1>9. CASE QueryDst
  BY <1>9 DEF QueryDst
<1>10. CASE PathsDone
  BY <1>10 DEF PathsDone, EndSweep
<1>11. ASSUME NEW d \in Dests, QueryPaths(d) PROVE Seen'
  BY <1>0, <1>11 DEF QueryPaths, EndSweep, eventVars
<1>12. CASE Decide
  BY <1>12 DEF Decide
<1>13. CASE AddSrcPorts
  BY <1>13 DEF AddSrcPorts, EndSweep
<1>14. CASE ScanDsts
  BY <1>0, <1>14 DEF ScanDsts, EndSweep
<1>15. CASE ScanVFabs
  BY <1>0, <1>15 DEF ScanVFabs, eventVars
<1>16. CASE BusyWait
  BY <1>16 DEF BusyWait
<1>17. CASE Publish
  BY <1>17 DEF Publish, eventVars
<1>18. CASE Delay
  BY <1>18 DEF Delay
<1>19. CASE Wake
  BY <1>19 DEF Wake
<1> QED
  BY <1>1, <1>2, <1>3, <1>4, <1>5, <1>6, <1>7, <1>8, <1>9, <1>10, <1>11, <1>12,
     <1>13, <1>14, <1>15, <1>16, <1>17, <1>18, <1>19 DEF ScannerStep

\* As long as the SM is never busy, the scanner never waits with an event in
\* the ring whose poster has triggered, in every interleaving of any number of
\* events with EventWaitOnSeconds and a sweep.
THEOREM NoWakeupIsLost ==
  ASSUME "busy" \notin Answers
  PROVE  Spec => []NoLostWakeup
<1>1. Init => Seen
  BY DEF Init, Seen
<1>2. Seen /\ [Next]_vars => Seen'
  <2> SUFFICES ASSUME Seen, [Next]_vars PROVE Seen'
    OBVIOUS
  <2>1. CASE Next
    BY <2>1, SeenEnvironment, SeenScanner, Zenon DEF Next
  <2>2. CASE UNCHANGED vars
    BY <2>2 DEF Seen, LooksAgain, vars, eventVars, scannerVars
  <2> QED
    BY <2>1, <2>2
<1>3. Seen => NoLostWakeup
  BY DEF Seen, LooksAgain, NoLostWakeup
<1> QED
  BY <1>1, <1>2, <1>3, PTL DEF Spec

-----------------------------------------------------------------------------
(* What is published once nothing is under way, as long as the SA answers   *)
(* and the ring does not run over in the middle of a sweep.                 *)

Room == Len(ring) + 1 < RingSize

About(e, d) == e.type \in {"dst_up", "dst_down"} /\ e.dst = d
Says(e, d)  == e.type = "dst_up" <=> d \in fabric

\* An event about d is on its way to the scanner.
Pending(d) ==
  \/ \E i \in 1..Len(ring) : About(ring[i], d)
  \/ \E i \in 1..Len(notices) : About(notices[i], d)

SrcUpComes == \E i \in 1..Len(ring) : ring[i].type = "src_up"

\* The last notice about a destination says how it is.
Announced ==
  \A d \in Dests, i \in 1..Len(notices) :
    About(notices[i], d) /\ (\A j \in 1..Len(notices) : j > i => ~About(notices[j], d))
      => Says(notices[i], d)

\* So does the last event, unless the port has been closed since.
Queued ==
  port = "open" => \A d \in Dests, i \in 1..Len(ring) :
    /\ About(ring[i], d)
    /\ \A j \in 1..Len(ring) : j > i => ~About(ring[j], d) /\ ring[j].type # "src_up"
    /\ \A j \in 1..Len(notices) : ~About(notices[j], d)
    => Says(ring[i], d)

\* A port that has been closed and is open again has its event in the ring too.
DownThenUp ==
  port = "open" => \A i \in 1..Len(ring) : ring[i].type = "src_down" =>
    \E j \in 1..Len(ring) : j > i /\ ring[j].type = "src_up"

Silent == ~Active => notices = <<>>

Pipeline == Announced /\ Queued /\ DownThenUp /\ Silent

\* A sweep is in progress; dsap_scanner_rescan, set at its beginning, is
\* cleared at its end, so that elsewhere it announces another one.
Sweeping == spc \in {"ports", "dsts", "vfabs"} \/ (spc = "paths" /\ job = "sweep")

\* The ring does not run over in a sweep: rescan is set then as ever, but the
\* end of the sweep clears it.
SweepHasRoom == Sweeping => Room

\* The topology is empty when a sweep begins, and paths are asked for once.
Shape ==
  /\ spc # "busy"
  /\ topo.paths \subseteq topo.dsts
  /\ spc = "ports" => topo = NoTopology
  /\ spc = "dsts" => ~topo.listed
  /\ spc \in {"dsts", "vfabs"} => topo.paths = {}
  /\ spc = "paths" => todo \subseteq topo.dsts \ topo.paths

\* With the port open and no other sweep to come, the topology is that of the
\* fabric, but for what the present step is about and for what is pending.
Settling == port = "open" /\ ~end /\ (~rescan \/ Sweeping) /\ ~SrcUpComes

Scanned ==
  spc # "ports" =>
    topo.subnet /\ topo.src /\ topo.keyed /\ (spc \notin {"dsts", "vfabs"} => topo.vfabs)

DstsKnown ==
  spc \notin {"ports", "dsts"} => \A d \in Dests :
    Pending(d) \/ (d \in topo.dsts <=> d \in fabric) \/ (spc = "query" /\ d \in todo)

PathsKnown ==
  spc \notin {"ports", "dsts", "vfabs"} => \A d \in Dests :
    Pending(d) \/ (d \in topo.paths <=> d \in fabric) \/ (spc \in {"query", "paths"} /\ d \in todo)

Shown ==
  /\ spc \notin {"ports", "dsts", "vfabs", "paths"} =>
       publish \/ pub = [src |-> topo.src, paths |-> topo.paths]
  /\ spc \in {"delay", "wait"} => ~publish

Known == Scanned /\ DstsKnown /\ PathsKnown /\ Shown

Tracked == Settling => Known

SettledInv == Pipeline /\ Shape /\ Tracked

-----------------------------------------------------------------------------
(* The ring. *)

LEMMA Appended ==
  ASSUME TypeOK, Room, NEW e, Insert(e)
  PROVE  /\ Len(ring) \in Nat /\ Len(ring') = Len(ring) + 1
         /\ \A i \in 1..Len(ring) : ring'[i] = ring[i]
         /\ ring'[Len(ring) + 1] = e
         /\ UNCHANGED rescan
<1>1. ring' = Append(ring, e) /\ UNCHANGED rescan
  BY DEF Room, Insert
<1>2. ring \in Seq(Events)
  BY DEF TypeOK
<1> QED
  BY <1>1, <1>2

\* Without room for it, the ring is dropped and another scan asked for.
LEMMA Overrun ==
  ASSUME TypeOK, NEW e, Insert(e), ~Room
  PROVE  ring' = <<>> /\ rescan' = TRUE
<1>1. Len(ring) \in Nat /\ Len(ring) < RingSize /\ RingSize \in Nat
  BY ConstantsAssumption DEF TypeOK
<1> QED
  BY <1>1 DEF Room, Insert

LEMMA Taken ==
  ASSUME TypeOK, NEW type, Take(type)
  PROVE  /\ Len(ring) \in Nat /\ Len(ring') = Len(ring) - 1 /\ Len(ring) > 0
         /\ \A i \in 1..(Len(ring) - 1) : ring'[i] = ring[i + 1]
         /\ Head(ring) = ring[1] /\ ring[1].type = type
<1>1. ring' = Tail(ring) /\ ring # <<>> /\ Head(ring).type = type
  BY DEF Take
<1>2. ring \in Seq(Events)
  BY DEF TypeOK
<1> QED
  BY <1>1, <1>2

LEMMA NoticeQueue ==
  ASSUME TypeOK
  PROVE  notices \in Seq(Notices) /\ Len(notices) \in Nat
BY DEF TypeOK

\* An event about the port comes in.
LEMMA PipelinePortEvent ==
  ASSUME TypeOK, Pipeline, NEW e, Insert(e), UNCHANGED <<notices, fabric>>,
         \A d : ~About(e, d), port' = "open" => port = "open" \/ e.type = "src_up",
         e.type = "src_down" => port' # "open", Active => Active'
  PROVE  Pipeline'
<1> USE DEF Pipeline
<1>1. Announced'
  BY DEF Announced, About, Says
<1>2. Queued'
  <2> SUFFICES ASSUME port' = "open", NEW d \in Dests, NEW i \in 1..Len(ring'),
                      About(ring'[i], d),
                      \A j \in 1..Len(ring') : j > i => ~About(ring'[j], d) /\ ring'[j].type # "src_up",
                      \A j \in 1..Len(notices) : ~About(notices[j], d)
               PROVE  Says(ring'[i], d)
    BY DEF Queued, About, Says
  <2>0. Room
    <3>1. ring' # <<>>
      OBVIOUS
    <3> QED
      BY <3>1, Overrun
  <2>1. i \in 1..Len(ring) /\ ring'[i] = ring[i]
    BY <2>0, Appended
  <2>2. e.type # "src_up" /\ port = "open"
    BY <2>0, <2>1, Appended
  <2>3. \A j \in 1..Len(ring) : j > i => ~About(ring[j], d) /\ ring[j].type # "src_up"
    BY <2>0, Appended
  <2> QED
    BY <2>1, <2>2, <2>3 DEF Queued
<1>3. DownThenUp'
  <2> SUFFICES ASSUME port' = "open", NEW i \in 1..Len(ring'), ring'[i].type = "src_down"
               PROVE  \E j \in 1..Len(ring') : j > i /\ ring'[j].type = "src_up"
    BY DEF DownThenUp
  <2>0. Room
    <3>1. ring' # <<>>
      OBVIOUS
    <3> QED
      BY <3>1, Overrun
  <2>1. i \in 1..Len(ring) /\ ring'[i] = ring[i]
    BY <2>0, Appended
  <2>2. CASE e.type = "src_up"
    BY <2>0, <2>1, <2>2, Appended
  <2>3. CASE port = "open"
    BY <2>0, <2>1, <2>3, Appended DEF DownThenUp
  <2> QED
    BY <2>2, <2>3
<1>4. Silent'
  BY DEF Silent
<1> QED
  BY <1>1, <1>2, <1>3, <1>4

\* A notice goes from the SM into the ring.
LEMMA PipelineReport ==
  ASSUME TypeOK, Pipeline, ReportNotice
  PROVE  Pipeline'
<1> USE DEF Pipeline
<1>1. /\ notices # <<>> /\ notices' = Tail(notices) /\ Insert(Head(notices))
      /\ UNCHANGED <<port, fabric>>
  BY DEF ReportNotice, Post
<1>2. /\ Len(notices) > 0 /\ Len(notices') = Len(notices) - 1 /\ Len(notices) \in Nat
      /\ \A i \in 1..(Len(notices) - 1) : notices'[i] = notices[i + 1]
      /\ Head(notices) = notices[1] /\ notices[1] \in Notices
  BY <1>1, NoticeQueue
<1>3. notices[1].type # "src_up" /\ notices[1].type # "src_down"
  BY <1>2 DEF Notices
<1>4. Announced'
  <2> SUFFICES ASSUME NEW d \in Dests, NEW i \in 1..Len(notices'), About(notices'[i], d),
                      \A j \in 1..Len(notices') : j > i => ~About(notices'[j], d)
               PROVE  Says(notices'[i], d)
    BY <1>1 DEF Announced, About, Says
  <2>1. i + 1 \in 1..Len(notices) /\ notices'[i] = notices[i + 1]
    BY <1>2
  <2>2. \A j \in 1..Len(notices) : j > i + 1 => ~About(notices[j], d)
    <3> SUFFICES ASSUME NEW j \in 1..Len(notices), j > i + 1 PROVE ~About(notices[j], d)
      OBVIOUS
    <3>1. j - 1 \in 1..Len(notices') /\ j - 1 > i /\ notices'[j - 1] = notices[j]
      BY <1>2
    <3> QED
      BY <3>1
  <2>3. Says(notices[i + 1], d)
    BY <2>1, <2>2 DEF Announced
  <2> QED
    BY <2>1, <2>3
<1>5. Silent'
  BY <1>1, <1>2 DEF Silent, Active
<1>6. CASE ~Room
  <2>1. ring' = <<>>
    BY <1>1, <1>6, Overrun
  <2>2. Queued' /\ DownThenUp'
    BY <2>1 DEF Queued, DownThenUp
  <2> QED
    BY <1>4, <1>5, <2>2
<1>7. CASE Room
  <2>1. /\ Len(ring) \in Nat /\ Len(ring') = Len(ring) + 1
        /\ \A i \in 1..Len(ring) : ring'[i] = ring[i]
        /\ ring'[Len(ring) + 1] = notices[1]
    BY <1>1, <1>2, <1>7, Appended
  <2>2. Queued'
    <3> SUFFICES ASSUME port = "open", NEW d \in Dests, NEW i \in 1..Len(ring'),
                        About(ring'[i], d),
                        \A j \in 1..Len(ring') : j > i => ~About(ring'[j], d) /\ ring'[j].type # "src_up",
                        \A j \in 1..Len(notices') : ~About(notices'[j], d)
                 PROVE  Says(ring'[i], d)
      BY <1>1 DEF Queued, About, Says
    <3>0. \A j \in 1..Len(notices) : j > 1 => ~About(notices[j], d)
      <4> SUFFICES ASSUME NEW j \in 1..Len(notices), j > 1 PROVE ~About(notices[j], d)
        OBVIOUS
      <4>1. j - 1 \in 1..Len(notices') /\ notices'[j - 1] = notices[j]
        BY <1>2
      <4> QED
        BY <4>1
    <3>1. CASE i = Len(ring) + 1
      <4>1. 1 \in 1..Len(notices) /\ About(notices[1], d)
        BY <1>2, <2>1, <3>1
      <4> QED
        BY <2>1, <3>0, <3>1, <4>1 DEF Announced
    <3>2. CASE i # Len(ring) + 1
      <4>1. i \in 1..Len(ring) /\ ring'[i] = ring[i]
        BY <2>1, <3>2
      <4>2. ~About(notices[1], d)
        BY <2>1, <4>1
      <4>3. \A j \in 1..Len(notices) : ~About(notices[j], d)
        BY <3>0, <4>2
      <4>4. \A j \in 1..Len(ring) : j > i => ~About(ring[j], d) /\ ring[j].type # "src_up"
        BY <2>1
      <4> QED
        BY <4>1, <4>3, <4>4 DEF Queued
    <3> QED
      BY <3>1, <3>2
  <2>3. DownThenUp'
    BY <1>1, <1>3, <2>1 DEF DownThenUp
  <2> QED
    BY <1>4, <1>5, <2>2, <2>3
<1> QED
  BY <1>6, <1>7

\* The scanner takes an event.
LEMMA PipelineTake ==
  ASSUME TypeOK, Pipeline, NEW type, Take(type)
  PROVE  Pipeline'
<1> USE DEF Pipeline
<1>1. UNCHANGED <<port, fabric, notices>>
  BY DEF Take, envVars
<1>2. Announced' /\ Silent'
  BY <1>1 DEF Announced, Silent, Says, About, Active
<1>3. Queued'
  <2> SUFFICES ASSUME port = "open", NEW d \in Dests, NEW i \in 1..Len(ring'),
                      About(ring'[i], d),
                      \A j \in 1..Len(ring') : j > i => ~About(ring'[j], d) /\ ring'[j].type # "src_up",
                      \A j \in 1..Len(notices) : ~About(notices[j], d)
               PROVE  Says(ring'[i], d)
    BY <1>1 DEF Queued, About, Says
  <2>1. i + 1 \in 1..Len(ring) /\ ring'[i] = ring[i + 1]
    BY Taken
  <2>2. ASSUME NEW j \in 1..Len(ring), j > i + 1
        PROVE  ~About(ring[j], d) /\ ring[j].type # "src_up"
    <3>1. j - 1 \in 1..Len(ring') /\ j - 1 > i /\ ring'[j - 1] = ring[j]
      BY <2>2, Taken
    <3> QED
      BY <3>1
  <2> QED
    BY <2>1, <2>2 DEF Queued
<1>4. DownThenUp'
  <2> SUFFICES ASSUME port = "open", NEW i \in 1..Len(ring'), ring'[i].type = "src_down"
               PROVE  \E j \in 1..Len(ring') : j > i /\ ring'[j].type = "src_up"
    BY <1>1 DEF DownThenUp
  <2>1. i + 1 \in 1..Len(ring) /\ ring[i + 1].type = "src_down"
    BY Taken
  <2>2. PICK j \in 1..Len(ring) : j > i + 1 /\ ring[j].type = "src_up"
    BY <2>1 DEF DownThenUp
  <2>3. j - 1 \in 1..Len(ring') /\ j - 1 > i /\ ring'[j - 1] = ring[j]
    BY <2>2, Taken
  <2> QED
    BY <2>2, <2>3
<1> QED
  BY <1>2, <1>3, <1>4

\* Nothing comes in, and the ring is left alone or dropped.
LEMMA PipelineFrame ==
  ASSUME Pipeline, ring' = ring \/ ring' = <<>>, UNCHANGED <<fabric, notices>>,
         port' = "open" => port = "open", Active => Active'
  PROVE  Pipeline'
<1> USE DEF Pipeline
<1>1. Announced' /\ Silent'
  BY DEF Announced, Silent, Says, About
<1>2. CASE ring' = ring
  BY <1>1, <1>2 DEF Queued, DownThenUp, Says, About
<1>3. CASE ring' = <<>>
  <2>1. Queued' /\ DownThenUp'
    BY <1>3 DEF Queued, DownThenUp
  <2> QED
    BY <1>1, <2>1
<1> QED
  BY <1>2, <1>3

\* A change that the SM reports: the notice is the last one about it.
LEMMA PipelineChange ==
  ASSUME TypeOK, Pipeline, NEW d \in Dests, FabricChange(d)
  PROVE  Pipeline'
<1> USE DEF Pipeline
<1>1. UNCHANGED <<port, ring>> /\ \A o \in Dests : o # d => (o \in fabric' <=> o \in fabric)
  BY DEF FabricChange, eventVars
<1>2. CASE ~Active
  <2>1. notices' = <<>>
    BY <1>2 DEF FabricChange, Silent
  <2> QED
    BY <1>1, <1>2, <2>1 DEF Announced, Queued, DownThenUp, Silent, Active
<1>3. CASE Active
  <2>1. PICK e : /\ notices' = Append(notices, e) /\ e.dst = d
                 /\ e.type = IF d \in fabric THEN "dst_down" ELSE "dst_up"
    BY <1>3 DEF FabricChange, Event
  <2>2. /\ Len(notices) \in Nat /\ Len(notices') = Len(notices) + 1
        /\ \A i \in 1..Len(notices) : notices'[i] = notices[i]
        /\ notices'[Len(notices) + 1] = e
    BY <2>1, NoticeQueue
  <2>3. About(e, d) /\ \A o : o # d => ~About(e, o)
    BY <2>1 DEF About
  <2>4. Says(e, d)'
    BY <2>1 DEF Says, FabricChange
  <2>5. Announced'
    <3> SUFFICES ASSUME NEW o \in Dests, NEW i \in 1..Len(notices'), About(notices'[i], o),
                        \A j \in 1..Len(notices') : j > i => ~About(notices'[j], o)
                 PROVE  notices'[i].type = "dst_up" <=> o \in fabric'
      BY DEF Announced, About, Says
    <3>1. CASE i = Len(notices) + 1
      BY <2>2, <2>3, <2>4, <3>1 DEF Says
    <3>2. CASE i # Len(notices) + 1
      <4>1. i \in 1..Len(notices) /\ notices'[i] = notices[i] /\ o # d
        BY <2>2, <2>3, <3>2
      <4>2. \A j \in 1..Len(notices) : j > i => ~About(notices[j], o)
        BY <2>2
      <4> QED
        BY <1>1, <4>1, <4>2 DEF Announced, Says
    <3> QED
      BY <3>1, <3>2
  <2>6. Queued'
    <3> SUFFICES ASSUME port = "open", NEW o \in Dests, NEW i \in 1..Len(ring),
                        About(ring[i], o),
                        \A j \in 1..Len(ring) : j > i => ~About(ring[j], o) /\ ring[j].type # "src_up",
                        \A j \in 1..Len(notices') : ~About(notices'[j], o)
                 PROVE  ring[i].type = "dst_up" <=> o \in fabric'
      BY <1>1 DEF Queued, About, Says
    <3>1. o # d /\ \A j \in 1..Len(notices) : ~About(notices[j], o)
      BY <2>2, <2>3
    <3> QED
      BY <1>1, <3>1 DEF Queued, Says
  <2>7. DownThenUp' /\ Silent'
    BY <1>1, <1>3 DEF DownThenUp, Silent, Active
  <2> QED
    BY <2>5, <2>6, <2>7
<1> QED
  BY <1>2, <1>3

LEMMA PortEvents == \A type, d : type \notin {"dst_up", "dst_down"} =>
                      ~About(PortEvent(type), d) /\ PortEvent(type).type = type
BY DEF PortEvent, Event, About

\* The steps outside the scanner.
LEMMA PipelineEnvironment ==
  ASSUME TypeOK, Pipeline,
         \/ \E d \in Dests : FabricChange(d)
         \/ ReportNotice \/ OpenPort \/ OpenEndpoint \/ ClosePort \/ PortClosed \/ SaRecovers \/ TimePasses
         \/ \E t \in Threads : SmChange(t) \/ Trigger(t)
         \/ SetEnd \/ TriggerEnd \/ Join
  PROVE  Pipeline'
<1>1. CASE OpenPort \/ SaRecovers \/ TimePasses \/ SetEnd \/ TriggerEnd \/ Join \/ \E t \in Threads : Trigger(t)
  <2>1. /\ ring' = ring /\ UNCHANGED <<fabric, notices>>
        /\ port' = port \/ port' = "opening"
    BY <1>1 DEF OpenPort, SaRecovers, TimePasses, SetEnd, TriggerEnd, Join, Trigger, envVars, eventVars
  <2> QED
    BY <2>1, PipelineFrame DEF Active
<1>2. CASE PortClosed
  BY <1>2 DEF PortClosed, Pipeline, Announced, Queued, DownThenUp, Silent
<1>3. CASE OpenEndpoint
  <2>1. /\ Insert(PortEvent("src_up")) /\ UNCHANGED <<notices, fabric>>
        /\ port = "opening" /\ port' = "open"
    BY <1>3 DEF OpenEndpoint, Post
  <2> QED
    BY <2>1, PortEvents, PipelinePortEvent DEF Active
<1>4. CASE ClosePort
  <2>1. /\ Insert(PortEvent("src_down")) /\ UNCHANGED <<notices, fabric>>
        /\ port = "open" /\ port' = "closing"
    BY <1>4 DEF ClosePort, Post
  <2> QED
    BY <2>1, PortEvents, PipelinePortEvent DEF Active
<1>5. ASSUME NEW t \in Threads, SmChange(t) PROVE Pipeline'
  <2>1. Insert(PortEvent("full_rescan")) /\ UNCHANGED <<notices, fabric, port>>
    BY <1>5 DEF SmChange, Post
  <2> QED
    BY <2>1, PortEvents, PipelinePortEvent DEF Active
<1> QED
  BY <1>1, <1>2, <1>3, <1>4, <1>5, PipelineReport, PipelineChange

\* The steps of the scanner.
LEMMA PipelineScanner ==
  ASSUME TypeOK, Pipeline, ScannerStep
  PROVE  Pipeline'
<1>1. ASSUME NEW type, Take(type) PROVE Pipeline'
  BY <1>1, PipelineTake
<1>2. CASE TakeDstUp \/ TakeDstDown \/ TakeSrcUp \/ TakeSrcDown \/ TakePortRescan \/ TakeFullRescan
  BY <1>1, <1>2 DEF TakeDstUp, TakeDstDown, TakeSrcUp, TakeSrcDown, TakePortRescan, TakeFullRescan
<1>3. ASSUME NEW d \in Dests, QueryPaths(d) PROVE Pipeline'
  <2>1. UNCHANGED <<port, fabric, notices>> /\ (ring' = ring \/ Insert(PortEvent("port_rescan")))
    BY <1>3, Zenon DEF QueryPaths, envVars, eventVars
  <2>2. CASE ring' = ring
    BY <2>1, <2>2, PipelineFrame DEF Active
  <2>3. CASE Insert(PortEvent("port_rescan"))
    BY <2>1, <2>3, PortEvents, PipelinePortEvent DEF Active
  <2> QED
    BY <2>1, <2>2, <2>3
<1>4. CASE \/ LoopTop \/ NoMoreEvents \/ QueryDst \/ PathsDone
           \/ Decide \/ AddSrcPorts \/ ScanDsts \/ ScanVFabs \/ BusyWait
           \/ Publish \/ Delay \/ Wake
  <2>1. UNCHANGED <<port, fabric, notices>> /\ (ring' = ring \/ ring' = <<>>)
    BY <1>4, Zenon DEF LoopTop, NoMoreEvents, QueryDst, PathsDone, Decide, AddSrcPorts, ScanDsts,
       ScanVFabs, BusyWait, Publish, Delay, Wake, envVars, eventVars
  <2> QED
    BY <2>1, PipelineFrame DEF Active
<1> QED
  BY <1>2, <1>3, <1>4 DEF ScannerStep

-----------------------------------------------------------------------------
(* The topology. *)

LEMMA SameRing ==
  ASSUME UNCHANGED <<ring, notices>>
  PROVE  (SrcUpComes' <=> SrcUpComes) /\ \A d : Pending(d)' <=> Pending(d)
BY DEF SrcUpComes, Pending

LEMMA GrownRing ==
  ASSUME TypeOK, Room, NEW e, Insert(e), UNCHANGED notices
  PROVE  /\ SrcUpComes => SrcUpComes'
         /\ e.type = "src_up" => SrcUpComes'
         /\ \A d : Pending(d) => Pending(d)'
<1>1. \A i \in 1..Len(ring) : i \in 1..Len(ring')
  BY Appended
<1>2. Len(ring) + 1 \in 1..Len(ring')
  BY Appended
<1> QED
  BY <1>1, <1>2, Appended DEF SrcUpComes, Pending

\* An event is taken: what it is about is no longer pending, if it was the
\* last, and is as the event says.
LEMMA TakenRing ==
  ASSUME TypeOK, Pipeline, NEW type, Take(type)
  PROVE  /\ SrcUpComes => SrcUpComes' \/ type = "src_up"
         /\ \A d : Pending(d) => Pending(d)' \/ About(ring[1], d)
         /\ \A d \in Dests : port = "open" /\ ~SrcUpComes /\ About(ring[1], d) =>
              Pending(d)' \/ Says(ring[1], d)
         /\ type = "src_down" /\ port = "open" => SrcUpComes'
         /\ UNCHANGED notices
<1>0. UNCHANGED notices
  BY DEF Take, envVars
<1>1. \A i \in 1..Len(ring) : i # 1 => i - 1 \in 1..Len(ring') /\ ring'[i - 1] = ring[i]
  BY Taken
<1>2. SrcUpComes => SrcUpComes' \/ type = "src_up"
  BY <1>1, Taken DEF SrcUpComes
<1>3. ASSUME NEW d, Pending(d) PROVE Pending(d)' \/ About(ring[1], d)
  BY <1>0, <1>1, <1>3 DEF Pending
<1>4. ASSUME NEW d \in Dests, port = "open", ~SrcUpComes, About(ring[1], d), ~Pending(d)'
      PROVE  Says(ring[1], d)
  <2>1. 1 \in 1..Len(ring)
    BY Taken
  <2>2. \A j \in 1..Len(ring) : j > 1 => ~About(ring[j], d) /\ ring[j].type # "src_up"
    BY <1>1, <1>4 DEF Pending, SrcUpComes
  <2>3. \A j \in 1..Len(notices) : ~About(notices[j], d)
    BY <1>0, <1>4 DEF Pending
  <2> QED
    BY <1>4, <2>1, <2>2, <2>3 DEF Pipeline, Queued
<1>5. ASSUME type = "src_down", port = "open" PROVE SrcUpComes'
  <2>1. 1 \in 1..Len(ring) /\ ring[1].type = "src_down"
    BY <1>5, Taken
  <2>2. PICK j \in 1..Len(ring) : j > 1 /\ ring[j].type = "src_up"
    BY <1>5, <2>1 DEF Pipeline, DownThenUp
  <2> QED
    BY <1>1, <2>2 DEF SrcUpComes
<1> QED
  BY <1>0, <1>2, <1>3, <1>4, <1>5

-----------------------------------------------------------------------------
(* The shape of the topology. *)

\* With an SA that answers, no query finds it busy.
LEMMA NeverBusy ==
  ASSUME Answers = {"ok"}
  PROVE  Outcomes \subseteq {"ok", "fail"} /\ (Active => Outcomes = {"ok"})
BY DEF Outcomes

LEMMA ShapeEvents ==
  ASSUME TypeOK, Shape,
         TakeDstUp \/ TakeDstDown \/ TakeSrcUp \/ TakeSrcDown \/ TakePortRescan \/ TakeFullRescan
  PROVE  Shape'
<1> USE DEF Shape, Take, Goto
<1>0. topo \in Topologies
  BY DEF TypeOK
<1>1. CASE TakeDstUp
  BY <1>1 DEF TakeDstUp
<1>2. CASE TakeDstDown
  BY <1>0, <1>2 DEF TakeDstDown, Topologies
<1>3. CASE TakeSrcUp
  BY <1>3 DEF TakeSrcUp
<1>4. CASE TakeSrcDown
  BY <1>0, <1>4 DEF TakeSrcDown, Topologies
<1>5. CASE TakePortRescan
  <2>1. CASE UNCHANGED <<spc, topo, todo>>
    BY <1>5, <2>1 DEF TakePortRescan
  <2>2. CASE ~UNCHANGED <<spc, topo, todo>>
    BY <1>0, <1>5, <2>2 DEF TakePortRescan, Topologies
  <2> QED
    BY <2>1, <2>2
<1>6. CASE TakeFullRescan
  BY <1>6 DEF TakeFullRescan
<1> QED
  BY <1>1, <1>2, <1>3, <1>4, <1>5, <1>6

LEMMA ShapeSweep ==
  ASSUME TypeOK, Shape, Answers = {"ok"},
         \/ LoopTop \/ NoMoreEvents \/ QueryDst \/ PathsDone \/ \E d \in Dests : QueryPaths(d)
         \/ Decide \/ AddSrcPorts \/ ScanDsts \/ ScanVFabs \/ BusyWait \/ Publish \/ Delay \/ Wake
  PROVE  Shape'
<1> USE NeverBusy DEF Shape, Goto
<1>0. topo \in Topologies /\ todo \subseteq Dests /\ fabric \subseteq Dests
  BY DEF TypeOK
<1>1. CASE LoopTop \/ NoMoreEvents \/ PathsDone \/ BusyWait \/ Publish \/ Delay \/ Wake
  BY <1>1 DEF LoopTop, NoMoreEvents, PathsDone, BusyWait, Publish, Delay, Wake, EndSweep
<1>2. CASE QueryDst
  <2>1. \/ /\ topo' = [topo EXCEPT !.dsts = topo.dsts \cup todo, !.paths = topo.paths \ todo]
           /\ UNCHANGED todo /\ spc' = "paths"
        \/ UNCHANGED topo /\ spc' = "events"
    BY <1>2 DEF QueryDst
  <2>2. CASE UNCHANGED topo /\ spc' = "events"
    BY <2>2
  <2>3. CASE /\ topo' = [topo EXCEPT !.dsts = topo.dsts \cup todo, !.paths = topo.paths \ todo]
             /\ UNCHANGED todo /\ spc' = "paths"
    <3>1. topo'.dsts = topo.dsts \cup todo /\ topo'.paths = topo.paths \ todo
      BY <1>0, <2>3 DEF Topologies
    <3> QED
      BY <2>3, <3>1
  <2> QED
    BY <2>1, <2>2, <2>3
<1>3. ASSUME NEW d \in Dests, QueryPaths(d) PROVE Shape'
  <2>1. \/ topo' = [topo EXCEPT !.paths = topo.paths \cup {d}] /\ todo' = todo \ {d} /\ UNCHANGED spc
        \/ UNCHANGED topo /\ todo' = todo \ {d} /\ UNCHANGED spc
        \/ UNCHANGED topo /\ spc' \in {"events", "publish"}
    BY <1>3 DEF QueryPaths, EndSweep
  <2>2. d \in todo /\ spc = "paths"
    BY <1>3 DEF QueryPaths
  <2> QED
    BY <1>0, <2>1, <2>2 DEF Topologies
<1>4. CASE Decide
  BY <1>4 DEF Decide, NoTopology
<1>5. CASE AddSrcPorts
  <2>1. /\ topo' = topo \/ topo' = [topo EXCEPT !.subnet = Active, !.src = Active, !.keyed = Keyed]
        /\ spc' \in {"dsts", "publish", "delay"} /\ topo = NoTopology
    BY <1>5 DEF AddSrcPorts, EndSweep
  <2>2. topo'.paths = topo.paths /\ topo'.dsts = topo.dsts /\ topo'.listed = topo.listed
    BY <1>0, <2>1 DEF Topologies
  <2>3. topo.paths = {} /\ topo.dsts = {} /\ ~topo.listed
    BY <2>1 DEF NoTopology
  <2> QED
    BY <2>1, <2>2, <2>3
<1>6. CASE ScanDsts
  BY <1>0, <1>6 DEF ScanDsts, EndSweep, Topologies
<1>7. CASE ScanVFabs
  BY <1>0, <1>7 DEF ScanVFabs, Topologies
<1> QED
  BY <1>1, <1>2, <1>3, <1>4, <1>5, <1>6, <1>7

-----------------------------------------------------------------------------
(* The topology is that of the fabric. *)

\* The steps that leave the scanner alone.
LEMMA TrackedFrame ==
  ASSUME Tracked, UNCHANGED <<rescan, spc, topo, todo, job, publish, pub>>,
         end => end', port' = "open" => port = "open" \/ SrcUpComes', SrcUpComes => SrcUpComes',
         \A d \in Dests : Pending(d)' \/ (~Pending(d) /\ (d \in fabric' <=> d \in fabric))
  PROVE  Tracked'
<1> SUFFICES ASSUME Settling' PROVE Known'
  BY DEF Tracked
<1>1. Known
  BY DEF Tracked, Settling, Sweeping
<1> QED
  BY <1>1 DEF Known, Scanned, DstsKnown, PathsKnown, Shown

LEMMA TrackedEnvironment ==
  ASSUME TypeOK, SweepHasRoom, Pipeline, Tracked,
         \/ \E d \in Dests : FabricChange(d)
         \/ ReportNotice \/ OpenPort \/ OpenEndpoint \/ ClosePort \/ PortClosed \/ SaRecovers \/ TimePasses
         \/ \E t \in Threads : SmChange(t) \/ Trigger(t)
         \/ SetEnd \/ TriggerEnd \/ Join
  PROVE  Tracked'
<1>1. ASSUME NEW d \in Dests, FabricChange(d) PROVE Tracked'
  <2>1. /\ UNCHANGED <<port, ring, cpc, rescan, spc, topo, todo, job, publish, pub>>
        /\ \A o \in Dests : o # d => (o \in fabric' <=> o \in fabric)
    BY <1>1 DEF FabricChange, eventVars, scannerVars
  <2>2. SrcUpComes' <=> SrcUpComes
    BY <2>1 DEF SrcUpComes
  <2>3. CASE Active
    <3>1. PICK e : notices' = Append(notices, e) /\ About(e, d) /\ \A o : o # d => ~About(e, o)
      BY <1>1, <2>3 DEF FabricChange, Event, About
    <3>2. /\ Len(notices) \in Nat /\ Len(notices') = Len(notices) + 1
          /\ \A i \in 1..Len(notices) : notices'[i] = notices[i]
          /\ notices'[Len(notices) + 1] = e
      BY <3>1, NoticeQueue
    <3>3. Pending(d)'
      BY <3>1, <3>2 DEF Pending, About
    <3>4. ASSUME NEW o \in Dests, o # d, Pending(o) PROVE Pending(o)'
      <4>1. CASE \E i \in 1..Len(ring) : About(ring[i], o)
        BY <2>1, <4>1 DEF Pending
      <4>2. CASE \E i \in 1..Len(notices) : About(notices[i], o)
        BY <3>2, <4>2 DEF Pending
      <4> QED
        BY <3>4, <4>1, <4>2 DEF Pending
    <3> QED
      BY <2>1, <2>2, <3>3, <3>4, TrackedFrame DEF end
  <2>4. CASE ~Active
    BY <2>1, <2>4 DEF Tracked, Settling, Active
  <2> QED
    BY <2>3, <2>4
<1>2. CASE ReportNotice
  <2>1. /\ notices # <<>> /\ notices' = Tail(notices) /\ Insert(Head(notices))
        /\ UNCHANGED <<port, fabric, cpc, spc, topo, todo, job, publish, pub>>
    BY <1>2 DEF ReportNotice, Post, scannerVars
  <2>2. /\ Len(notices') = Len(notices) - 1 /\ Len(notices) \in Nat
        /\ \A i \in 1..(Len(notices) - 1) : notices'[i] = notices[i + 1]
        /\ Head(notices) = notices[1]
    BY <2>1, NoticeQueue
  <2> SUFFICES ASSUME Room PROVE Tracked'
    BY <2>1, Overrun DEF SweepHasRoom, Sweeping, Tracked, Settling
  <2>3. /\ Len(ring) \in Nat /\ Len(ring') = Len(ring) + 1 /\ UNCHANGED rescan
        /\ \A i \in 1..Len(ring) : ring'[i] = ring[i]
        /\ ring'[Len(ring) + 1] = notices[1]
    BY <2>1, <2>2, Appended
  <2>4. SrcUpComes => SrcUpComes'
    BY <2>3 DEF SrcUpComes
  <2>5. ASSUME NEW d, Pending(d) PROVE Pending(d)'
    <3>1. CASE \E i \in 1..Len(ring) : About(ring[i], d)
      BY <2>3, <3>1 DEF Pending
    <3>2. CASE \E i \in 1..Len(notices) : About(notices[i], d)
      <4>1. PICK i \in 1..Len(notices) : About(notices[i], d)
        BY <3>2
      <4>2. CASE i = 1
        BY <2>3, <4>1, <4>2 DEF Pending
      <4>3. CASE i # 1
        <5>1. i - 1 \in 1..Len(notices') /\ notices'[i - 1] = notices[i]
          BY <2>2, <4>3
        <5> QED
          BY <4>1, <5>1 DEF Pending
      <4> QED
        BY <4>2, <4>3
    <3> QED
      BY <2>5, <3>1, <3>2 DEF Pending
  <2> QED
    BY <2>1, <2>3, <2>4, <2>5, TrackedFrame DEF end
<1>3. CASE OpenPort \/ SaRecovers \/ TimePasses \/ SetEnd \/ TriggerEnd \/ \E t \in Threads : Trigger(t)
  <2>1. /\ UNCHANGED <<ring, notices, fabric, rescan, spc, topo, todo, job, publish, pub>>
        /\ port' = port \/ port' = "opening"
        /\ end => end'
    BY <1>3 DEF OpenPort, SaRecovers, TimePasses, SetEnd, TriggerEnd, Trigger, envVars, eventVars,
       scannerVars, end
  <2> QED
    BY <2>1, SameRing, TrackedFrame
<1>4. CASE OpenEndpoint \/ \E t \in Threads : SmChange(t)
  <2>1. PICK e : /\ Insert(e)
                 /\ port' = "open" => port = "open" \/ e.type = "src_up"
                 /\ UNCHANGED <<notices, fabric, cpc, spc, topo, todo, job, publish, pub>>
    BY <1>4, PortEvents DEF OpenEndpoint, SmChange, Post, scannerVars
  <2> SUFFICES ASSUME Room PROVE Tracked'
    BY <2>1, Overrun DEF SweepHasRoom, Sweeping, Tracked, Settling
  <2>2. UNCHANGED rescan
    BY <2>1, Appended
  <2> QED
    BY <2>1, <2>2, GrownRing, TrackedFrame DEF end
<1>5. CASE ClosePort \/ PortClosed \/ Join
  BY <1>5 DEF ClosePort, PortClosed, Join, Tracked, Settling, end
<1> QED
  BY <1>1, <1>2, <1>3, <1>4, <1>5

\* What holds of a step of the scanner after which the port is open and no
\* other sweep is to come: its queries are answered.
LEMMA SettlingStep ==
  ASSUME Answers = {"ok"}, Settling', UNCHANGED <<port, cpc>>
  PROVE  /\ port = "open" /\ Active /\ Keyed /\ ~end
         /\ Outcomes = {"ok"}
         /\ ~rescan' \/ Sweeping'
         /\ ~SrcUpComes'
BY NeverBusy DEF Settling, Active, Keyed, end

\* The steps that leave the ring alone.
LEMMA SameRingSettling ==
  ASSUME Tracked, Settling', UNCHANGED <<port, cpc, ring, notices>>, ~rescan \/ Sweeping
  PROVE  Known /\ \A d : Pending(d)' <=> Pending(d)
BY SameRing DEF Tracked, Settling, end

LEMMA TrackedQueries ==
  ASSUME TypeOK, Shape, Tracked, Answers = {"ok"},
         LoopTop \/ NoMoreEvents \/ QueryDst \/ PathsDone \/ \E d \in Dests : QueryPaths(d)
  PROVE  Tracked'
<1> SUFFICES ASSUME Settling' PROVE Known'
  BY DEF Tracked
<1> USE DEF Known, Goto
<1>0. /\ topo \in Topologies /\ todo \subseteq Dests /\ spc \in Steps
      /\ job \in {"sweep", "rescan", "up"}
  BY DEF TypeOK
<1>1. CASE LoopTop \/ NoMoreEvents
  <2>1. /\ UNCHANGED <<port, fabric, cpc, ring, notices, rescan, topo, todo, job, publish, pub>>
        /\ spc \in {"top", "events"} /\ spc' \in {"exited", "events", "decide"}
    BY <1>1 DEF LoopTop, NoMoreEvents, envVars, eventVars
  <2>2. Known /\ \A d : Pending(d)' <=> Pending(d)
    BY <2>1, SettlingStep, SameRingSettling DEF Sweeping
  <2> QED
    BY <2>1, <2>2 DEF Scanned, DstsKnown, PathsKnown, Shown
<1>2. CASE QueryDst
  <2>1. UNCHANGED <<port, fabric, cpc, ring, notices, todo, publish, pub>> /\ spc = "query"
    BY <1>2 DEF QueryDst, envVars
  <2>2. \/ /\ topo' = [topo EXCEPT !.dsts = topo.dsts \cup todo, !.paths = topo.paths \ todo]
           /\ todo \subseteq fabric
           /\ job' = "up" /\ spc' = "paths" /\ UNCHANGED rescan
        \/ rescan' = TRUE /\ spc' = "events"
    BY <1>2 DEF QueryDst, FullRescan
  <2>3. /\ topo' = [topo EXCEPT !.dsts = topo.dsts \cup todo, !.paths = topo.paths \ todo]
        /\ todo \subseteq fabric
        /\ job' = "up" /\ spc' = "paths" /\ UNCHANGED rescan
    BY <2>1, <2>2, SettlingStep DEF Sweeping
  <2>4. Known /\ \A d : Pending(d)' <=> Pending(d)
    BY <2>1, <2>3, SettlingStep, SameRingSettling DEF Sweeping
  <2>5. /\ topo'.dsts = topo.dsts \cup todo /\ topo'.paths = topo.paths \ todo
        /\ topo'.subnet = topo.subnet /\ topo'.src = topo.src
        /\ topo'.keyed = topo.keyed /\ topo'.vfabs = topo.vfabs
    BY <1>0, <2>3 DEF Topologies
  <2>6. Scanned' /\ Shown'
    BY <2>1, <2>3, <2>4, <2>5 DEF Scanned, Shown
  <2>7. DstsKnown' /\ PathsKnown'
    BY <2>1, <2>3, <2>4, <2>5 DEF DstsKnown, PathsKnown
  <2> QED
    BY <2>6, <2>7
<1>3. CASE PathsDone
  <2>1. /\ UNCHANGED <<port, fabric, cpc, ring, notices, topo, todo, job, pub>>
        /\ spc = "paths" /\ (todo = {} \/ end) /\ publish' = TRUE
        /\ \/ job = "sweep" /\ spc' = "publish"
           \/ job # "sweep" /\ spc' = "events" /\ UNCHANGED rescan
    BY <1>3 DEF PathsDone, EndSweep, envVars
  <2>2. todo = {}
    BY <2>1, SettlingStep
  <2>3. Known /\ \A d : Pending(d)' <=> Pending(d)
    BY <2>1, SettlingStep, SameRingSettling DEF Sweeping
  <2> QED
    BY <2>1, <2>2, <2>3 DEF Scanned, DstsKnown, PathsKnown, Shown
<1>4. ASSUME NEW d \in Dests, QueryPaths(d) PROVE Known'
  <2>1. UNCHANGED <<port, fabric, cpc, notices, job, pub>> /\ spc = "paths" /\ d \in todo
    BY <1>4 DEF QueryPaths, envVars
  <2>2. Outcomes = {"ok"}
    BY <2>1, SettlingStep
  <2>3. /\ topo' = IF d \in fabric /\ topo.vfabs /\ topo.keyed
                   THEN [topo EXCEPT !.paths = topo.paths \cup {d}] ELSE topo
        /\ todo' = todo \ {d}
        /\ UNCHANGED <<ring, rescan, spc, publish>>
    BY <1>4, <2>2 DEF QueryPaths, eventVars
  <2>4. Known /\ \A o : Pending(o)' <=> Pending(o)
    BY <2>1, <2>3, SettlingStep, SameRingSettling DEF Sweeping
  <2>5. topo.vfabs /\ topo.keyed /\ d \in topo.dsts /\ d \notin topo.paths
    BY <2>1, <2>4 DEF Scanned, Shape
  <2>6. /\ topo'.dsts = topo.dsts
        /\ topo'.paths = IF d \in fabric THEN topo.paths \cup {d} ELSE topo.paths
        /\ topo'.subnet = topo.subnet /\ topo'.src = topo.src
        /\ topo'.keyed = topo.keyed /\ topo'.vfabs = topo.vfabs
    BY <1>0, <2>3, <2>5 DEF Topologies
  <2>7. Scanned' /\ Shown'
    BY <2>1, <2>3, <2>4, <2>6 DEF Scanned, Shown
  <2>8. DstsKnown' /\ PathsKnown'
    BY <2>1, <2>3, <2>4, <2>5, <2>6 DEF DstsKnown, PathsKnown
  <2> QED
    BY <2>7, <2>8
<1> QED
  BY <1>1, <1>2, <1>3, <1>4

LEMMA TrackedSweep ==
  ASSUME TypeOK, Shape, Tracked, Answers = {"ok"},
         Decide \/ AddSrcPorts \/ ScanDsts \/ ScanVFabs \/ BusyWait \/ Publish \/ Delay \/ Wake
  PROVE  Tracked'
<1> SUFFICES ASSUME Settling' PROVE Known'
  BY DEF Tracked
<1> USE DEF Known, Goto
<1>0. topo \in Topologies /\ fabric \subseteq Dests /\ rescan \in BOOLEAN /\ publish \in BOOLEAN
  BY DEF TypeOK
<1>1. CASE Decide
  <2>1. UNCHANGED <<port, fabric, cpc, notices, rescan, todo, job, publish, pub>> /\ spc = "decide"
    BY <1>1 DEF Decide, envVars
  <2>2. \/ ~rescan /\ spc' = "publish" /\ UNCHANGED <<ring, topo>>
        \/ rescan /\ spc' = "delay"
        \/ spc' = "ports"
    BY <1>1 DEF Decide
  <2>3. CASE ~rescan /\ spc' = "publish" /\ UNCHANGED <<ring, topo>>
    <3>1. Known /\ \A d : Pending(d)' <=> Pending(d)
      BY <2>1, <2>3, SameRingSettling
    <3> QED
      BY <2>1, <2>3, <3>1 DEF Scanned, DstsKnown, PathsKnown, Shown
  <2>4. CASE rescan /\ spc' = "delay"
    BY <2>1, <2>4, SettlingStep DEF Sweeping
  <2>5. CASE spc' = "ports"
    BY <2>5 DEF Scanned, DstsKnown, PathsKnown, Shown
  <2> QED
    BY <2>2, <2>3, <2>4, <2>5
<1>2. CASE AddSrcPorts
  <2>1. UNCHANGED <<port, fabric, cpc, ring, notices, todo, job, pub>> /\ spc = "ports"
    BY <1>2 DEF AddSrcPorts, envVars
  <2>2. topo' = [topo EXCEPT !.subnet = Active, !.src = Active, !.keyed = Keyed] /\ spc' = "dsts"
    BY <1>2, <2>1, SettlingStep DEF AddSrcPorts
  <2>3. topo'.subnet /\ topo'.src /\ topo'.keyed
    BY <1>0, <2>1, <2>2, SettlingStep DEF Topologies
  <2> QED
    BY <2>2, <2>3 DEF Scanned, DstsKnown, PathsKnown, Shown
<1>3. CASE ScanDsts
  <2>1. UNCHANGED <<port, fabric, cpc, ring, notices, todo, job, pub>> /\ spc = "dsts"
    BY <1>3 DEF ScanDsts, envVars
  <2>2. topo' = [topo EXCEPT !.listed = TRUE, !.dsts = fabric] /\ spc' = "vfabs"
    BY <1>3, <2>1, SettlingStep DEF ScanDsts, Shape
  <2>3. Known
    BY <2>1, SameRingSettling DEF Sweeping
  <2>4. /\ topo'.dsts = fabric /\ topo'.subnet = topo.subnet /\ topo'.src = topo.src
        /\ topo'.keyed = topo.keyed
    BY <1>0, <2>2 DEF Topologies
  <2> QED
    BY <2>1, <2>2, <2>3, <2>4 DEF Scanned, DstsKnown, PathsKnown, Shown
<1>4. CASE ScanVFabs
  <2>1. UNCHANGED <<port, fabric, cpc, ring, notices, rescan, publish, pub>> /\ spc = "vfabs"
    BY <1>4 DEF ScanVFabs, envVars, eventVars
  <2>2. /\ topo' = [topo EXCEPT !.vfabs = (TRUE /\ topo.keyed)]
        /\ todo' = topo.dsts /\ job' = "sweep" /\ spc' = "paths"
    BY <1>4, <2>1, SettlingStep DEF ScanVFabs
  <2>3. Known /\ \A d : Pending(d)' <=> Pending(d)
    BY <2>1, SameRingSettling DEF Sweeping
  <2>4. /\ topo'.dsts = topo.dsts /\ topo'.paths = topo.paths /\ (topo.keyed => topo'.vfabs)
        /\ topo'.subnet = topo.subnet /\ topo'.src = topo.src /\ topo'.keyed = topo.keyed
    BY <1>0, <2>2 DEF Topologies
  <2>5. topo.paths = {}
    BY <2>1 DEF Shape
  <2>6. Scanned' /\ DstsKnown' /\ Shown'
    BY <2>1, <2>2, <2>3, <2>4 DEF Scanned, DstsKnown, Shown
  <2>7. PathsKnown'
    BY <2>1, <2>2, <2>3, <2>4, <2>5 DEF PathsKnown, DstsKnown
  <2> QED
    BY <2>6, <2>7
<1>5. CASE BusyWait
  BY <1>5 DEF BusyWait, Shape
<1>6. CASE Publish
  <2>1. /\ UNCHANGED <<port, fabric, cpc, ring, notices, rescan, topo, todo, job>>
        /\ spc = "publish" /\ spc' = "delay" /\ ~publish'
        /\ pub' = IF publish /\ topo.subnet THEN [src |-> topo.src, paths |-> topo.paths] ELSE pub
    BY <1>6 DEF Publish, envVars, eventVars
  <2>2. Known /\ \A d : Pending(d)' <=> Pending(d)
    BY <2>1, SettlingStep, SameRingSettling DEF Sweeping
  <2>3. Scanned' /\ Shown'
    BY <2>1, <2>2 DEF Scanned, Shown
  <2>4. DstsKnown' /\ PathsKnown'
    BY <2>1, <2>2 DEF DstsKnown, PathsKnown
  <2> QED
    BY <2>3, <2>4
<1>7. CASE Delay \/ Wake
  <2>1. /\ UNCHANGED <<port, fabric, cpc, ring, notices, topo, todo, job, publish, pub>>
        /\ spc \in {"delay", "wait"} /\ spc' \in {"top", "wait"}
        /\ rescan' = TRUE \/ UNCHANGED rescan
    BY <1>7 DEF Delay, Wake, envVars
  <2>2. UNCHANGED rescan
    BY <2>1, SettlingStep DEF Sweeping
  <2>3. Known /\ \A d : Pending(d)' <=> Pending(d)
    BY <2>1, <2>2, SettlingStep, SameRingSettling DEF Sweeping
  <2> QED
    BY <2>1, <2>3 DEF Scanned, DstsKnown, PathsKnown, Shown
<1> QED
  BY <1>1, <1>2, <1>3, <1>4, <1>5, <1>6, <1>7

LEMMA TrackedEvents ==
  ASSUME TypeOK, Pipeline, Shape, Tracked, Answers = {"ok"},
         TakeDstUp \/ TakeDstDown \/ TakeSrcUp \/ TakeSrcDown \/ TakePortRescan \/ TakeFullRescan
  PROVE  Tracked'
<1> SUFFICES ASSUME Settling' PROVE Known'
  BY DEF Tracked
<1> USE DEF Known, Goto
<1>0. topo \in Topologies /\ rescan \in BOOLEAN /\ publish \in BOOLEAN
  BY DEF TypeOK
<1>1. PICK type : Take(type)
  BY DEF TakeDstUp, TakeDstDown, TakeSrcUp, TakeSrcDown, TakePortRescan, TakeFullRescan
<1>2. /\ UNCHANGED <<port, fabric, cpc, pub>> /\ spc = "events"
      /\ Head(ring) = ring[1] /\ ring[1].type = type
  BY <1>1, Taken DEF Take, envVars
<1>3. /\ port = "open" /\ Active /\ Keyed /\ ~end
      /\ ~rescan' \/ Sweeping'
      /\ ~SrcUpComes'
  BY <1>2, SettlingStep
<1>4. CASE TakeSrcUp \/ TakeFullRescan
  BY <1>2, <1>3, <1>4 DEF TakeSrcUp, TakeFullRescan, FullRescan, Sweeping
<1>5. CASE TakeSrcDown
  <2>1. Take("src_down")
    BY <1>5 DEF TakeSrcDown
  <2> QED
    BY <1>3, <2>1, TakenRing
\* Otherwise the topology is that of the fabric before the step.
<1>6. ASSUME type # "src_up", UNCHANGED rescan
      PROVE  Known /\ ~SrcUpComes
  <2>1. ~SrcUpComes
    BY <1>1, <1>3, <1>6, TakenRing
  <2>2. ~rescan
    BY <1>2, <1>3, <1>6 DEF TakeDstUp, TakeDstDown, TakeSrcUp, TakeSrcDown, TakePortRescan,
       TakeFullRescan, Sweeping
  <2> QED
    BY <1>3, <2>1, <2>2 DEF Tracked, Settling
<1>7. CASE TakeDstUp
  <2>1. /\ type = "dst_up" /\ todo' = {ring[1].dst} /\ UNCHANGED <<topo, job, publish>>
        /\ spc' = "query" /\ UNCHANGED rescan
    BY <1>2, <1>3, <1>7 DEF TakeDstUp, Take, FullRescan, Sweeping
  <2>2. Known
    BY <1>6, <2>1
  <2>3. \A d : Pending(d) => Pending(d)' \/ d \in todo'
    BY <1>1, <2>1, TakenRing DEF About
  <2> QED
    BY <1>2, <2>1, <2>2, <2>3 DEF Scanned, DstsKnown, PathsKnown, Shown
<1>8. CASE TakeDstDown
  <2>0. PICK o : o = ring[1].dst
    OBVIOUS
  <2>1. /\ type = "dst_down"
        /\ topo' = [topo EXCEPT !.dsts = topo.dsts \ {o}, !.paths = topo.paths \ {o}]
        /\ publish' = (publish \/ o \in topo.dsts)
        /\ UNCHANGED <<rescan, spc, todo, job>>
    BY <1>2, <1>8, <2>0 DEF TakeDstDown, Take
  <2>2. Known /\ ~SrcUpComes
    BY <1>6, <2>1
  <2>3. /\ topo'.dsts = topo.dsts \ {o} /\ topo'.paths = topo.paths \ {o}
        /\ topo'.subnet = topo.subnet /\ topo'.src = topo.src
        /\ topo'.keyed = topo.keyed /\ topo'.vfabs = topo.vfabs
    BY <1>0, <2>1 DEF Topologies
  <2>4. \A d : Pending(d) => Pending(d)' \/ d = o
    BY <1>1, <1>2, <2>0, <2>1, TakenRing DEF About
  <2>5. o \in Dests => Pending(o)' \/ o \notin fabric
    BY <1>1, <1>2, <1>3, <2>0, <2>1, <2>2, TakenRing DEF About, Says
  <2>6. Scanned'
    BY <1>2, <2>1, <2>2, <2>3 DEF Scanned
  <2>7. DstsKnown' /\ PathsKnown'
    BY <1>2, <2>1, <2>2, <2>3, <2>4, <2>5 DEF DstsKnown, PathsKnown
  <2>8. Shown'
    <3>1. CASE o \in topo.dsts
      BY <1>2, <2>1, <3>1 DEF Shown
    <3>2. CASE o \notin topo.dsts
      <4>1. topo'.paths = topo.paths
        BY <2>3, <3>2 DEF Shape
      <4> QED
        BY <1>0, <1>2, <2>1, <2>2, <2>3, <3>2, <4>1 DEF Shown
    <3> QED
      BY <3>1, <3>2
  <2> QED
    BY <2>6, <2>7, <2>8
<1>9. CASE TakePortRescan
  <2>1. type = "port_rescan" /\ UNCHANGED publish /\ (UNCHANGED rescan \/ rescan' = TRUE)
    BY <1>2, <1>9 DEF TakePortRescan, Take, FullRescan
  <2>2. ~(rescan' = TRUE /\ UNCHANGED spc)
    BY <1>2, <1>3 DEF Sweeping
  <2>3. UNCHANGED rescan
    BY <1>3, <1>9, <2>1, <2>2 DEF TakePortRescan, FullRescan
  <2>4. Known
    BY <1>6, <2>1, <2>3
  <2>5. /\ topo' = [topo EXCEPT !.keyed = Keyed, !.paths = {}]
        /\ todo' = topo.dsts /\ spc' = "paths"
    BY <1>2, <1>3, <1>9, <2>4 DEF TakePortRescan, Scanned
  <2>6. /\ topo'.dsts = topo.dsts /\ topo'.paths = {} /\ topo'.keyed = Keyed
        /\ topo'.subnet = topo.subnet /\ topo'.src = topo.src /\ topo'.vfabs = topo.vfabs
    BY <1>0, <2>5 DEF Topologies
  <2>7. \A d : Pending(d) => Pending(d)'
    BY <1>1, <1>2, <2>1, TakenRing DEF About
  <2>8. Scanned' /\ Shown'
    BY <1>2, <1>3, <2>4, <2>5, <2>6 DEF Scanned, Shown
  <2>9. DstsKnown' /\ PathsKnown'
    BY <1>2, <2>4, <2>5, <2>6, <2>7 DEF DstsKnown, PathsKnown
  <2> QED
    BY <2>8, <2>9
<1> QED
  BY <1>4, <1>5, <1>7, <1>8, <1>9

\* With an SA that answers, whenever the port is open and every event and
\* notice has been dealt with, what is published shows the fabric as it is, as
\* long as the ring does not run over in the middle of a sweep, whose end would
\* forget it; the periodic sweep makes up for that (CatchesUp).
THEOREM WhatSettlesIsCurrent ==
  ASSUME Answers = {"ok"}
  PROVE  Spec /\ []SweepHasRoom => []SettledIsCurrent
<1>1. Init => SettledInv
  <2> SUFFICES ASSUME Init PROVE SettledInv
    OBVIOUS
  <2>1. Pipeline
    BY DEF Init, Pipeline, Announced, Queued, DownThenUp, Silent
  <2>2. Shape
    BY DEF Init, Shape, NoTopology
  <2>3. Tracked
    BY DEF Init, Tracked, Settling
  <2> QED
    BY <2>1, <2>2, <2>3 DEF SettledInv
<1>2. TypeOK /\ SweepHasRoom /\ SettledInv /\ [Next]_vars => SettledInv'
  <2> SUFFICES ASSUME TypeOK, SweepHasRoom, Pipeline, Shape, Tracked, [Next]_vars
               PROVE  Pipeline' /\ Shape' /\ Tracked'
    BY DEF SettledInv
  <2>1. CASE ScannerStep
    <3>1. Shape'
      BY <2>1, ShapeEvents, ShapeSweep, Zenon DEF ScannerStep
    <3>2. Tracked'
      BY <2>1, TrackedEvents, TrackedQueries, TrackedSweep, Zenon DEF ScannerStep
    <3> QED
      BY <2>1, <3>1, <3>2, PipelineScanner
  <2>2. CASE \/ \E d \in Dests : FabricChange(d)
             \/ ReportNotice \/ OpenPort \/ OpenEndpoint \/ ClosePort \/ PortClosed \/ SaRecovers \/ TimePasses
             \/ \E t \in Threads : SmChange(t) \/ Trigger(t)
             \/ SetEnd \/ TriggerEnd \/ Join
    <3>1. UNCHANGED <<spc, topo, todo>>
      BY <2>2, Zenon DEF FabricChange, ReportNotice, OpenPort, OpenEndpoint, ClosePort, PortClosed,
         SaRecovers, TimePasses, SmChange, Trigger, SetEnd, TriggerEnd, Join, scannerVars
    <3>2. Shape'
      BY <3>1 DEF Shape
    <3> QED
      BY <2>2, <3>2, PipelineEnvironment, TrackedEnvironment
  <2>3. CASE UNCHANGED vars
    <3>1. /\ UNCHANGED <<port, fabric, notices, ring, rescan, spc, topo, todo, job, publish, pub, cpc>>
      BY <2>3 DEF vars, envVars, eventVars, scannerVars
    <3>2. Shape'
      BY <3>1 DEF Shape
    <3> QED
      BY <3>1, <3>2, SameRing, PipelineFrame, TrackedFrame DEF Active, end
  <2> QED
    BY <2>1, <2>2, <2>3, Zenon DEF Next
<1>3. TypeOK /\ SettledInv => SettledIsCurrent
  <2> SUFFICES ASSUME TypeOK, SettledInv, AtRest, port = "open" PROVE pub = Current
    BY DEF SettledIsCurrent
  <2>1. ~SrcUpComes /\ \A d \in Dests : ~Pending(d)
    BY DEF AtRest, SrcUpComes, Pending
  <2>2. Known /\ spc = "wait"
    BY <2>1 DEF SettledInv, Tracked, Settling, AtRest
  <2>3. topo.src /\ pub = [src |-> topo.src, paths |-> topo.paths]
    BY <2>2 DEF Known, Scanned, Shown
  <2>4. topo.paths = fabric
    BY <2>1, <2>2 DEF Known, PathsKnown, TypeOK, Topologies
  <2>5. topo.src = TRUE
    BY <2>3 DEF TypeOK, Topologies
  <2> QED
    BY <2>3, <2>4, <2>5 DEF Current, Active, Keyed
<1> QED
  BY <1>1, <1>2, <1>3, TypeCorrect, PTL DEF Spec

-----------------------------------------------------------------------------
(* A scanner that sleeps while a port is open has a sweep to come, whatever *)
(* the SA answers and however often the ring runs over.                     *)

SweepArmed == spc = "wait" /\ Keyed => timed \/ signaled \/ posted # {}

\* Until the first sweep has set the time-out, the port that was opened is in
\* the ring or a full scan is asked for: what empties the ring asks for one,
\* and the end of a sweep, which takes the request back, sets the time-out.
Asked == Keyed /\ ~timed => rescan \/ SrcUpComes

\* And until then, past the place where the scanner decides on a sweep, an
\* event or a request is from a thread that triggers or has triggered.
Heard ==
  \/ timed \/ signaled \/ posted # {}
  \/ /\ spc = "decide" => ring = <<>> \/ rescan
     /\ spc \in {"publish", "delay", "wait"} => ring = <<>> /\ ~rescan

ArmedInv == Asked /\ Heard

LEMMA SrcUpKept ==
  ASSUME TypeOK, NEW e, Insert(e), rescan \/ SrcUpComes \/ e.type = "src_up"
  PROVE  rescan' \/ SrcUpComes'
<1>1. CASE Room
  <2>1. \A i \in 1..Len(ring) : i \in 1..Len(ring') /\ ring'[i] = ring[i]
    BY <1>1, Appended
  <2>2. Len(ring) + 1 \in 1..Len(ring') /\ ring'[Len(ring) + 1] = e
    BY <1>1, Appended
  <2>3. UNCHANGED rescan
    BY <1>1, Appended
  <2> QED
    BY <2>1, <2>2, <2>3 DEF SrcUpComes
<1>2. CASE ~Room
  BY <1>2, Overrun
<1> QED
  BY <1>1, <1>2

LEMMA SrcUpTaken ==
  ASSUME TypeOK, NEW type, Take(type), SrcUpComes, type # "src_up"
  PROVE  SrcUpComes'
<1>1. \A i \in 1..Len(ring) : i # 1 => i - 1 \in 1..Len(ring') /\ ring'[i - 1] = ring[i]
  BY Taken
<1>2. PICK i \in 1..Len(ring) : ring[i].type = "src_up"
  BY DEF SrcUpComes
<1>3. i # 1
  BY <1>2, Taken
<1> QED
  BY <1>1, <1>2, <1>3 DEF SrcUpComes

\* A post keeps both, whoever makes it.
LEMMA ArmedPost ==
  ASSUME TypeOK, ArmedInv, NEW t, NEW e, Post(t, e), UNCHANGED scannerVars,
         Keyed' => Keyed \/ e.type = "src_up"
  PROVE  ArmedInv'
<1>1. Asked'
  BY SrcUpKept DEF ArmedInv, Asked, Post, scannerVars
<1>2. posted' # {}
  BY DEF Post
<1> QED
  BY <1>1, <1>2 DEF ArmedInv, Heard

LEMMA ArmedEnvironment ==
  ASSUME TypeOK, ArmedInv,
         \/ \E d \in Dests : FabricChange(d)
         \/ ReportNotice \/ OpenPort \/ OpenEndpoint \/ ClosePort \/ PortClosed \/ SaRecovers \/ TimePasses
         \/ \E t \in Threads : SmChange(t) \/ Trigger(t)
         \/ SetEnd \/ TriggerEnd \/ Join
  PROVE  ArmedInv'
<1>0. ASSUME UNCHANGED <<ring, rescan, timed, spc>>, Keyed' => Keyed,
             signaled' \/ UNCHANGED <<signaled, posted>>
      PROVE  ArmedInv'
  BY <1>0 DEF ArmedInv, Asked, Heard, SrcUpComes
<1>1. ASSUME NEW d \in Dests, FabricChange(d) PROVE ArmedInv'
  BY <1>0, <1>1 DEF FabricChange, eventVars, scannerVars, Keyed
<1>3. CASE ReportNotice
  BY <1>3, ArmedPost DEF ReportNotice, Keyed
<1>4. CASE OpenPort
  BY <1>0, <1>4 DEF OpenPort, eventVars, scannerVars, Keyed
<1>5. CASE OpenEndpoint
  <2>1. Post("acm", PortEvent("src_up")) /\ UNCHANGED scannerVars
    BY <1>5 DEF OpenEndpoint
  <2>2. PortEvent("src_up").type = "src_up"
    BY DEF PortEvent, Event
  <2> QED
    BY <2>1, <2>2, ArmedPost
<1>6. CASE ClosePort
  BY <1>6, ArmedPost DEF ClosePort, Keyed
<1>7. CASE PortClosed
  BY <1>0, <1>7 DEF PortClosed, eventVars, scannerVars, Keyed
<1>8. CASE TimePasses
  BY <1>0, <1>8 DEF TimePasses, envVars, eventVars, Keyed
<1>9. ASSUME NEW t \in Threads, SmChange(t) PROVE ArmedInv'
  BY <1>9, ArmedPost DEF SmChange, Keyed
<1>10. ASSUME NEW t \in Threads, Trigger(t) PROVE ArmedInv'
  BY <1>0, <1>10 DEF Trigger, envVars, scannerVars, Keyed
<1>11. CASE SetEnd
  BY <1>0, <1>11 DEF SetEnd, envVars, eventVars, scannerVars, Keyed
<1>12. CASE TriggerEnd
  BY <1>0, <1>12 DEF TriggerEnd, envVars, scannerVars, Keyed
<1>13. CASE Join
  BY <1>0, <1>13 DEF Join, envVars, eventVars, Keyed
<1>14. CASE SaRecovers
  BY <1>0, <1>14 DEF SaRecovers, eventVars, scannerVars, Keyed
<1> QED
  BY <1>1, <1>3, <1>4, <1>5, <1>6, <1>7, <1>8, <1>9, <1>10, <1>11, <1>12, <1>13, <1>14

\* Where the scanner still comes to the ring, or knows that it will sweep.
LEMMA HeardElsewhere ==
  ASSUME spc' \notin {"decide", "publish", "delay", "wait"} \/ timed'
  PROVE  Heard'
BY DEF Heard

LEMMA ArmedScanner ==
  ASSUME TypeOK, ArmedInv, ScannerStep
  PROVE  ArmedInv'
<1> USE DEF Goto
<1>a. Asked /\ Heard
  BY DEF ArmedInv
<1>k. Keyed' <=> Keyed
  BY DEF ScannerStep, LoopTop, NoMoreEvents, TakeDstUp, TakeDstDown, TakeSrcUp,
     TakeSrcDown, TakePortRescan, TakeFullRescan, Take, QueryDst, PathsDone,
     QueryPaths, Decide, AddSrcPorts, ScanDsts, ScanVFabs, BusyWait, Publish,
     Delay, Wake, envVars, Keyed
<1>s. ASSUME UNCHANGED ring, rescan => rescan', timed => timed' PROVE Asked'
  BY <1>a, <1>k, <1>s DEF Asked, SrcUpComes
<1>e. ASSUME EndSweep, UNCHANGED ring PROVE ArmedInv'
  BY <1>e, HeardElsewhere DEF EndSweep, ArmedInv, Asked
<1>t. ASSUME NEW type, Take(type), type # "src_up", rescan => rescan' PROVE Asked'
  BY <1>a, <1>k, <1>t, SrcUpTaken DEF Asked, Take
<1>1. CASE LoopTop
  <2>1. Asked'
    BY <1>1, <1>s DEF LoopTop, eventVars
  <2>2. spc' \in {"exited", "events"}
    BY <1>1 DEF LoopTop
  <2> QED
    BY <2>1, <2>2, HeardElsewhere DEF ArmedInv
<1>2. CASE NoMoreEvents
  <2>1. Asked'
    BY <1>2, <1>s DEF NoMoreEvents, eventVars
  <2>2. spc' = "decide" /\ ring' = <<>>
    BY <1>2 DEF NoMoreEvents, eventVars
  <2> QED
    BY <2>1, <2>2 DEF ArmedInv, Heard
<1>3. CASE TakeDstUp
  <2>1. Take("dst_up") /\ (rescan => rescan') /\ spc' \in {"events", "query"}
    BY <1>3 DEF TakeDstUp, Take, FullRescan
  <2> QED
    BY <2>1, <1>t, HeardElsewhere DEF ArmedInv
<1>4. CASE TakeDstDown
  <2>1. Take("dst_down") /\ (rescan => rescan') /\ spc' = "events"
    BY <1>4 DEF TakeDstDown, Take
  <2> QED
    BY <2>1, <1>t, HeardElsewhere DEF ArmedInv
<1>5. CASE TakeSrcUp
  BY <1>5, HeardElsewhere DEF TakeSrcUp, Take, ArmedInv, Asked
<1>6. CASE TakeSrcDown
  <2>1. Take("src_down") /\ (rescan => rescan') /\ spc' = "events"
    BY <1>6 DEF TakeSrcDown, Take
  <2> QED
    BY <2>1, <1>t, HeardElsewhere DEF ArmedInv
<1>7. CASE TakePortRescan
  <2>1. Take("port_rescan") /\ (rescan => rescan') /\ spc' \in {"events", "paths"}
    BY <1>7 DEF TakePortRescan, Take, FullRescan
  <2> QED
    BY <2>1, <1>t, HeardElsewhere DEF ArmedInv
<1>8. CASE TakeFullRescan
  BY <1>8 DEF TakeFullRescan, FullRescan, ArmedInv, Asked, Heard
<1>9. CASE QueryDst
  <2>1. UNCHANGED ring /\ (rescan => rescan') /\ UNCHANGED timed /\ spc' \in {"events", "paths"}
    BY <1>9 DEF QueryDst, FullRescan
  <2> QED
    BY <2>1, <1>s, HeardElsewhere DEF ArmedInv
<1>10. CASE PathsDone
  <2>1. UNCHANGED ring
    BY <1>10 DEF PathsDone
  <2>2. CASE job = "sweep"
    BY <1>10, <1>e, <2>1, <2>2 DEF PathsDone
  <2>3. CASE job # "sweep"
    <3>1. UNCHANGED <<ring, rescan, timed>> /\ spc' = "events"
      BY <1>10, <2>3 DEF PathsDone
    <3> QED
      BY <3>1, <1>s, HeardElsewhere DEF ArmedInv
  <2> QED
    BY <2>2, <2>3
<1>11. ASSUME NEW d \in Dests, QueryPaths(d) PROVE ArmedInv'
  <2>1. \/ UNCHANGED <<ring, rescan, timed>> /\ spc' \in {"paths", "busy"}
        \/ Insert(PortEvent("port_rescan")) /\ spc' = "events" /\ UNCHANGED timed
        \/ EndSweep /\ UNCHANGED ring
    BY <1>11 DEF QueryPaths, eventVars
  <2>2. CASE UNCHANGED <<ring, rescan, timed>> /\ spc' \in {"paths", "busy"}
    BY <2>2, <1>s, HeardElsewhere DEF ArmedInv
  <2>3. CASE Insert(PortEvent("port_rescan")) /\ spc' = "events" /\ UNCHANGED timed
    <3>1. Asked'
      BY <1>a, <1>k, <2>3, SrcUpKept DEF Asked
    <3> QED
      BY <3>1, <2>3, HeardElsewhere DEF ArmedInv
  <2> QED
    BY <2>1, <2>2, <2>3, <1>e
<1>12. CASE Decide
  <2>1. CASE rescan
    <3>1. rescan' /\ (spc' = "ports" \/ timed')
      BY <1>12, <2>1 DEF Decide
    <3> QED
      BY <3>1, HeardElsewhere DEF ArmedInv, Asked
  <2>2. CASE ~rescan
    <3>1. UNCHANGED <<ring, rescan, timed, signaled, posted>> /\ spc = "decide"
      BY <1>12, <2>2 DEF Decide
    <3> QED
      BY <1>a, <1>s, <2>2, <3>1 DEF ArmedInv, Heard
  <2> QED
    BY <2>1, <2>2
<1>13. CASE AddSrcPorts
  <2>1. \/ EndSweep /\ UNCHANGED ring
        \/ UNCHANGED <<ring, rescan, timed>> /\ spc' = "dsts"
        \/ UNCHANGED <<ring, rescan>> /\ timed' = TRUE
    BY <1>13 DEF AddSrcPorts
  <2>2. CASE UNCHANGED <<ring, rescan, timed>> /\ spc' = "dsts"
    BY <2>2, <1>s, HeardElsewhere DEF ArmedInv
  <2>3. CASE UNCHANGED <<ring, rescan>> /\ timed' = TRUE
    BY <2>3, HeardElsewhere DEF ArmedInv, Asked
  <2>4. CASE EndSweep /\ UNCHANGED ring
    BY <2>4, <1>e
  <2> QED
    BY <2>1, <2>2, <2>3, <2>4, Zenon
<1>14. CASE ScanDsts
  <2>1. \/ EndSweep /\ UNCHANGED ring
        \/ UNCHANGED <<ring, rescan, timed>> /\ spc' \in {"vfabs", "busy"}
    BY <1>14 DEF ScanDsts
  <2>2. CASE UNCHANGED <<ring, rescan, timed>> /\ spc' \in {"vfabs", "busy"}
    BY <2>2, <1>s, HeardElsewhere DEF ArmedInv
  <2> QED
    BY <2>1, <2>2, <1>e
<1>15. CASE ScanVFabs
  <2>1. UNCHANGED <<ring, rescan, timed>> /\ spc' \in {"busy", "paths"}
    BY <1>15 DEF ScanVFabs, eventVars
  <2> QED
    BY <2>1, <1>s, HeardElsewhere DEF ArmedInv
<1>16. CASE BusyWait
  <2>1. \/ EndSweep /\ UNCHANGED ring
        \/ UNCHANGED <<ring, rescan, timed>> /\ spc' = "dsts"
    BY <1>16 DEF BusyWait
  <2>2. CASE UNCHANGED <<ring, rescan, timed>> /\ spc' = "dsts"
    BY <2>2, <1>s, HeardElsewhere DEF ArmedInv
  <2> QED
    BY <2>1, <2>2, <1>e
<1>17. CASE Publish
  <2>1. UNCHANGED <<ring, rescan, timed, signaled, posted>> /\ spc = "publish" /\ spc' = "delay"
    BY <1>17 DEF Publish, eventVars
  <2> QED
    BY <1>a, <1>s, <2>1 DEF ArmedInv, Heard
<1>18. CASE Delay
  <2>1. UNCHANGED <<ring, timed, posted>> /\ (rescan => rescan')
    BY <1>18 DEF Delay
  <2>2. spc' = "top" \/ (spc = "delay" /\ spc' = "wait" /\ UNCHANGED <<rescan, signaled>>)
    BY <1>18 DEF Delay
  <2> QED
    BY <1>a, <1>s, <2>1, <2>2 DEF ArmedInv, Heard
<1>19. CASE Wake
  <2>1. UNCHANGED <<ring, timed>> /\ (rescan => rescan') /\ spc' = "top"
    BY <1>19 DEF Wake
  <2> QED
    BY <1>s, <2>1, HeardElsewhere DEF ArmedInv
<1> QED
  BY <1>1, <1>2, <1>3, <1>4, <1>5, <1>6, <1>7, <1>8, <1>9, <1>10, <1>11, <1>12,
     <1>13, <1>14, <1>15, <1>16, <1>17, <1>18, <1>19 DEF ScannerStep

\* A scanner that waits while the port has endpoints has its time-out set, or
\* a trigger reaches it: rings that run over, queries that fail, a busy SM
\* whose wait uses triggers up, and requests that the end of a sweep takes
\* back never leave it asleep with no sweep to come. It is what the repair of
\* all these by the periodic sweep rests on.
THEOREM SleepIsNotForEver == Spec => []SweepArmed
<1>1. Init => ArmedInv
  BY DEF Init, ArmedInv, Asked, Heard, Keyed
<1>2. TypeOK /\ ArmedInv /\ [Next]_vars => ArmedInv'
  <2> SUFFICES ASSUME TypeOK, ArmedInv, [Next]_vars PROVE ArmedInv'
    OBVIOUS
  <2>1. CASE Next
    BY <2>1, ArmedEnvironment, ArmedScanner, Zenon DEF Next
  <2>2. CASE UNCHANGED vars
    BY <2>2 DEF ArmedInv, Asked, Heard, Keyed, SrcUpComes, vars, envVars, eventVars, scannerVars
  <2> QED
    BY <2>1, <2>2
<1>3. ArmedInv => SweepArmed
  BY DEF ArmedInv, Asked, Heard, SweepArmed, SrcUpComes
<1> QED
  BY <1>1, <1>2, <1>3, TypeCorrect, PTL DEF Spec

=============================================================================
