---------------------------- MODULE AgentProofs ----------------------------
(***************************************************************************)
(* The safety of the agent's life cycle, for any number of reader          *)
(* goroutines and of faults.                                               *)
(***************************************************************************)
EXTENDS AgentEvents, TLAPS

(* What each stage of main has set up, and what has not been undone yet. *)
Attached == {"cgroup", "undo", "notify", "run", "close_tc"}
Before   == {"down", "config", "load", "seed", "iface", "qdisc", "filter"}

FilterStage ==
    /\ pc \in Attached => filter = "own"
    /\ filter = "own" => pc \in Attached
    /\ pc \in Before => filter # "kept"

LinkStage ==
    /\ link = "attached" => pc \in {"notify", "run", "close_tc", "close_cgroup"}
    /\ pc \in {"notify", "run"} => link = "attached"
    /\ pc \in {"iface", "qdisc", "filter", "cgroup", "notify", "run", "close_tc",
               "close_cgroup"} => proxy = "set"

ObjsStage ==
    /\ pc \in {"seed", "iface", "qdisc", "filter", "cgroup", "notify", "run",
               "close_tc", "close_cgroup", "close_objs"} => objs = "open"
    /\ pc \in {"filter", "cgroup", "notify", "run"} => qdisc = "clsact"

ReaderStage ==
    \A r \in Readers : rd[r] # "none" => pc \in {"run", "close_tc", "close_cgroup",
                                                 "close_objs", "sync"}

IInv ==
    /\ TypeOK
    /\ FilterStage
    /\ LinkStage
    /\ ObjsStage
    /\ ReaderStage
    /\ StaleOnlyIfAbrupt

(* The invariant holds in the initial state, before any process was started. *)
LEMMA InitIInv == Init => IInv
BY AgentAssumption
   DEF Init, IInv, TypeOK, FilterStage, LinkStage, ObjsStage, ReaderStage,
       StaleOnlyIfAbrupt, Attached, Before, Starting, Closing

(* How a process may end without breaking the invariant: it has no filter it *)
(* could delete, or it ends abruptly.                                        *)
LEMMA ExitIInv ==
    ASSUME IInv, NEW how \in {"not started", "fatal", "late fatal", "orderly", "killed"},
           Exit(how), faults' \in 0..MaxFaults,
           filter # "own" \/ how \in {"killed", "fatal"}
    PROVE  IInv'
BY DEF Exit, IInv, TypeOK, FilterStage, LinkStage, ObjsStage, ReaderStage,
       StaleOnlyIfAbrupt, Attached, Before, Starting, Closing

(* A fault stays within the budget. *)
LEMMA FaultBounded == ASSUME TypeOK, Fault PROVE faults' \in 0..MaxFaults
<1>1. MaxFaults \in Nat /\ faults \in 0..MaxFaults
  BY AgentAssumption DEF TypeOK
<1>2. faults < MaxFaults /\ faults' = faults + 1
  BY DEF Fault
<1>3. QED
  BY <1>1, <1>2

(* Every step of main, of a reader goroutine and of the environment keeps    *)
(* the invariant.                                                            *)
LEMMA NextIInv == IInv /\ [Next]_vars => IInv'
<1> SUFFICES ASSUME IInv, [Next]_vars PROVE IInv'
  OBVIOUS
<1> USE DEF IInv
<1>1. CASE Start
  BY <1>1 DEF Start, TypeOK, FilterStage, LinkStage, ObjsStage, ReaderStage,
              StaleOnlyIfAbrupt, Attached, Before, Starting, Closing
<1>2. CASE LoadConfig \/ LoadObjects \/ writeProxyConfig \/ InterfaceByName
  BY <1>2 DEF LoadConfig, LoadObjects, writeProxyConfig, InterfaceByName, Goto,
              TypeOK, FilterStage, LinkStage, ObjsStage, ReaderStage,
              StaleOnlyIfAbrupt, Attached, Before, Starting, Closing
<1>3. CASE QdiscAdd \/ FilterAdd \/ attachCgroup
  BY <1>3 DEF QdiscAdd, FilterAdd, attachCgroup, Goto,
              TypeOK, FilterStage, LinkStage, ObjsStage, ReaderStage,
              StaleOnlyIfAbrupt, Attached, Before, Starting, Closing
<1>4. CASE FilterExists
  <2>1. filter # "own"
    BY <1>4 DEF FilterExists, FilterStage, Attached
  <2>2. QED
    BY <1>4, <2>1, ExitIInv DEF FilterExists, TypeOK
<1>5. CASE UndoAttach \/ CloseTC
  <2>1. faults' \in 0..MaxFaults
    BY <1>5, FaultBounded DEF UndoAttach, CloseTC, FilterDel, TypeOK
  <2>2. QED
    BY <1>5, <2>1 DEF UndoAttach, CloseTC, FilterDel, TypeOK, FilterStage, LinkStage,
              ObjsStage, ReaderStage, StaleOnlyIfAbrupt, Attached, Before, Starting, Closing
<1>6. CASE StartReaders
  BY <1>6 DEF StartReaders, TypeOK, FilterStage, LinkStage, ObjsStage, ReaderStage,
              StaleOnlyIfAbrupt, Attached, Before, Starting, Closing
<1>7. CASE MainReturns \/ CloseCgroup \/ CloseObjs
  BY <1>7 DEF MainReturns, CloseCgroup, CloseObjs, Goto, TypeOK, FilterStage, LinkStage,
              ObjsStage, ReaderStage, StaleOnlyIfAbrupt, Attached, Before, Starting, Closing
<1>8. CASE MainExits
  <2>1. filter # "own"
    BY <1>8 DEF MainExits, FilterStage, Attached
  <2>2. QED
    BY <1>8, <2>1, ExitIInv DEF MainExits, TypeOK
<1>9. CASE Signal
  BY <1>9 DEF Signal, TypeOK, FilterStage, LinkStage, ObjsStage, ReaderStage,
              StaleOnlyIfAbrupt, Attached, Before, Starting, Closing
<1>10. CASE StartFails
  <2>1. filter # "own"
    BY <1>10 DEF StartFails, FilterStage, Attached
  <2>2. QED
    BY <1>10, <2>1, ExitIInv, FaultBounded DEF StartFails
<1>11. CASE AttachCgroupFails
  <2>1. faults' \in 0..MaxFaults
    BY <1>11, FaultBounded DEF AttachCgroupFails
  <2>2. QED
    BY <1>11, <2>1 DEF AttachCgroupFails, TypeOK, FilterStage, LinkStage, ObjsStage,
              ReaderStage, StaleOnlyIfAbrupt, Attached, Before, Starting, Closing
<1>12. CASE Kill
  BY <1>12, ExitIInv, FaultBounded DEF Kill
<1>13. ASSUME NEW r \in Readers, NewReaderFails(r) PROVE IInv'
  BY <1>13, ExitIInv, FaultBounded DEF NewReaderFails
<1>14. ASSUME NEW r \in Readers, NewReader(r) \/ ReaderStops(r) PROVE IInv'
  BY <1>14 DEF NewReader, ReaderStops, TypeOK, FilterStage, LinkStage, ObjsStage,
               ReaderStage, StaleOnlyIfAbrupt, Attached, Before, Starting, Closing
<1>15. ASSUME NEW r \in Readers, NewReaderLate(r) PROVE IInv'
  \* Only in stage "sync" are the objects closed, and then the filter is gone.
  <2>1. pc = "sync"
    BY <1>15 DEF NewReaderLate, ReaderStage, ObjsStage
  <2>2. filter # "own"
    BY <2>1 DEF FilterStage, Attached
  <2>3. QED
    BY <1>15, <2>2, ExitIInv DEF NewReaderLate, TypeOK
<1>16. CASE UNCHANGED vars
  <2>1. TypeOK'
    BY <1>16 DEF vars, TypeOK
  <2>2. ReaderStage'
    BY <1>16 DEF vars, ReaderStage
  <2>3. (FilterStage /\ LinkStage /\ ObjsStage /\ StaleOnlyIfAbrupt)'
    BY <1>16 DEF vars, FilterStage, LinkStage, ObjsStage, StaleOnlyIfAbrupt
  <2>4. QED
    BY <2>1, <2>2, <2>3
<1>17. QED
  BY <1>1, <1>2, <1>3, <1>4, <1>5, <1>6, <1>7, <1>8, <1>9, <1>10, <1>11, <1>12, <1>13,
     <1>14, <1>15, <1>16
  DEF Next, Main, Reader, Faulty

(* The invariant holds throughout the agent's life. *)
LEMMA SpecIInv == Spec => []IInv
BY InitIInv, NextIInv, PTL DEF Spec

(* The filter, the link, the objects and the readers are always in one of    *)
(* their states, through every fault, kill and restart.                      *)
THEOREM AgentTypeCorrect == Spec => []TypeOK
<1>1. IInv => TypeOK
  BY DEF IInv
<1>2. QED
  BY <1>1, SpecIInv, PTL

(* An agent that has reported itself started owns the filter on the          *)
(* interface, has the connect hook attached and its objects open.            *)
THEOREM AgentHooked == Spec => []RunningIsHooked
<1>1. IInv => RunningIsHooked
  BY DEF IInv, FilterStage, LinkStage, ObjsStage, RunningIsHooked, Attached
<1>2. QED
  BY <1>1, SpecIInv, PTL

(* The connect hook is attached only while proxy_config holds the address. *)
THEOREM AgentSeeded == Spec => []HookedIsSeeded
<1>1. IInv => HookedIsSeeded
  BY DEF IInv, LinkStage, HookedIsSeeded
<1>2. QED
  BY <1>1, SpecIInv, PTL

(* No error path of NewManager, no orderly shutdown and no late reader       *)
(* goroutine leaves a filter behind.                                         *)
THEOREM AgentLeavesNothing == Spec => []StaleOnlyIfAbrupt
<1>1. IInv => StaleOnlyIfAbrupt
  BY DEF IInv
<1>2. QED
  BY <1>1, SpecIInv, PTL

-----------------------------------------------------------------------------
(* A filter that its process could not or did not delete. *)
Lost == {"kept", "stale"}

(* What a step may do to the filter of the interface: a lost filter stays    *)
(* lost and no process gets into its run state any more, and a filter gets   *)
(* lost by a fault only: a kill, a reader that fails to open, a FilterDel    *)
(* that fails.                                                               *)
FilterFate ==
    /\ filter \in Lost => filter' \in Lost /\ pc' # "run"
    /\ filter \notin Lost /\ filter' \in Lost => faults' = faults + 1

LEMMA NextFate == IInv /\ [Next]_vars => FilterFate
<1> SUFFICES ASSUME IInv, [Next]_vars PROVE FilterFate OBVIOUS
<1> USE DEF IInv
<1>0. /\ filter \in Lost => pc \notin Attached
      /\ filter = "own" => pc \in Attached
      /\ filter \in {"none", "own", "kept", "stale"}
  BY DEF FilterStage, Lost, TypeOK
<1>1. CASE Start \/ LoadConfig \/ LoadObjects \/ writeProxyConfig \/ InterfaceByName \/ QdiscAdd
           \/ FilterAdd \/ attachCgroup \/ AttachCgroupFails \/ StartReaders \/ MainReturns
           \/ CloseCgroup \/ CloseObjs \/ Signal
  BY <1>0, <1>1
  DEF Start, LoadConfig, LoadObjects, writeProxyConfig, InterfaceByName, QdiscAdd, FilterAdd,
      attachCgroup, AttachCgroupFails, StartReaders, MainReturns, CloseCgroup, CloseObjs, Signal,
      Goto, FilterFate, Lost, Attached
<1>2. CASE UndoAttach \/ CloseTC
  BY <1>0, <1>2 DEF UndoAttach, CloseTC, FilterDel, Fault, FilterFate, Lost, Attached
<1>3. CASE FilterExists \/ MainExits
  \* The process that ends has no filter of its own.
  BY <1>0, <1>3 DEF FilterExists, MainExits, Exit, FilterFate, Lost, Attached
<1>4. CASE StartFails \/ Kill \/ \E r \in Readers : NewReaderFails(r)
  BY <1>0, <1>4 DEF StartFails, Kill, NewReaderFails, Fault, Exit, FilterFate, Lost
<1>5. ASSUME NEW r \in Readers, NewReader(r) \/ ReaderStops(r) PROVE FilterFate
  <2>1. UNCHANGED <<filter, pc>> BY <1>5 DEF NewReader, ReaderStops
  <2>q. QED BY <1>0, <2>1 DEF FilterFate, Attached
<1>6. ASSUME NEW r \in Readers, NewReaderLate(r) PROVE FilterFate
  <2>1. pc = "sync" BY <1>6 DEF NewReaderLate, ReaderStage, ObjsStage
  <2>q. QED BY <1>0, <1>6, <2>1 DEF NewReaderLate, Exit, FilterFate, Lost, Attached
<1>7. CASE UNCHANGED vars BY <1>0, <1>7 DEF vars, FilterFate, Attached
<1>q. QED
  BY <1>1, <1>2, <1>3, <1>4, <1>5, <1>6, <1>7 DEF Next, Main, Reader, Faulty

(* A lost filter is lost for good, and the agent with it: with any number of *)
(* restarts no process gets past FilterAdd.  Without a fault no filter is    *)
(* lost; with fair scheduling this is why RecoversUnlessStale holds.         *)
THEOREM AgentFilterFate == Spec => [][FilterFate]_vars
BY SpecIInv, NextFate, PTL DEF Spec

-----------------------------------------------------------------------------
(* The agent with its redirect events in flight takes no step that the agent *)
(* alone could not take.                                                     *)
LEMMA EventsStep == [eventsNext]_eventsVars => [Next]_vars
BY DEF eventsNext, Emit, LogEvent, AgentStep, eventsVars

(* What holds of the agent's life holds while connections are diverted,      *)
(* before a reader is open, while it reads and while the process ends.       *)
THEOREM EventsSafe ==
    eventsSpec => [](TypeOK /\ RunningIsHooked /\ HookedIsSeeded /\ StaleOnlyIfAbrupt)
<1>1. IInv => TypeOK /\ RunningIsHooked /\ HookedIsSeeded /\ StaleOnlyIfAbrupt
  BY DEF IInv, FilterStage, LinkStage, ObjsStage, RunningIsHooked, HookedIsSeeded, Attached
<1>2. eventsInit => Init
  BY DEF eventsInit
<1>3. QED
  BY <1>1, <1>2, InitIInv, NextIInv, EventsStep, PTL DEF eventsSpec
=============================================================================
