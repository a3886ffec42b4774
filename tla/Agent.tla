------------------------------- MODULE Agent -------------------------------
(***************************************************************************)
(* The life of the agent on one node: main (cmd/ai-interceptor/main.go),   *)
(* NewManager and Close (manager.go) with their error paths, the start and *)
(* the end of the two reader goroutines (reader.go), and the DaemonSet     *)
(* that starts a process again whenever the last one ended.                *)
(*                                                                         *)
(* The kernel drops a process's maps, programs and cgroup link with the    *)
(* process.  The clsact qdisc and the TC filter belong to the interface of *)
(* the host (hostNetwork: true) and stay until somebody deletes them.      *)
(***************************************************************************)
EXTENDS Naturals

CONSTANTS
    Readers,        \* the goroutines ReadDNSEvents and ReadRedirectEvents
    MaxFaults       \* bound: failures and kills in a behaviour

ASSUME AgentAssumption == MaxFaults \in Nat

VARIABLES
    pc,         \* where the main goroutine is
    objs,       \* the BPF objects of this process
    proxy,      \* does proxy_config[0] of these objects hold the proxy address?
    qdisc,      \* the clsact qdisc of the interface
    filter,     \* the TC filter of the interface: this process's own, one whose
                \* deletion by this process failed, or that of an earlier process
    link,       \* the cgroup link of this process
    rd,         \* state of the reader goroutines
    ctx,        \* done once SIGTERM or SIGINT has arrived
    left,       \* history: how the process ended that left a filter behind
    faults      \* number of faults so far

vars == <<pc, objs, proxy, qdisc, filter, link, rd, ctx, left, faults>>

Starting == {"config", "load", "seed", "iface", "qdisc", "filter", "cgroup", "notify"}
Closing  == {"undo", "close_tc", "close_cgroup", "close_objs", "sync"}

-----------------------------------------------------------------------------
Init ==
    /\ pc = "down"
    /\ objs = "closed"
    /\ proxy = "zero"
    /\ qdisc = "none"
    /\ filter = "none"
    /\ link = "none"
    /\ rd = [r \in Readers |-> "none"]
    /\ ctx = "live"
    /\ left = "nobody"
    /\ faults = 0

Fault == faults < MaxFaults /\ faults' = faults + 1

(* The process is gone; what is left of its filter is nobody's. *)
Exit(how) ==
    /\ pc' = "down"
    /\ objs' = "closed"
    /\ proxy' = "zero"
    /\ filter' = IF filter = "none" THEN "none" ELSE "stale"
    /\ link' = "none"
    /\ rd' = [r \in Readers |-> "none"]
    /\ ctx' = "live"
    /\ left' = CASE filter = "own"     -> how
                [] filter = "kept"    -> "filter not deleted"
                [] OTHER              -> left
    /\ UNCHANGED qdisc

(* kubelet starts the container. *)
Start ==
    /\ pc = "down"
    /\ pc' = "config"
    /\ UNCHANGED <<objs, proxy, qdisc, filter, link, rd, ctx, left, faults>>

Goto(from, to) ==
    /\ pc = from
    /\ pc' = to
    /\ UNCHANGED <<rd, ctx, left, faults>>

(* config.Load and logger.New *)
LoadConfig ==
    /\ Goto("config", "load")
    /\ UNCHANGED <<objs, proxy, qdisc, filter, link>>

LoadObjects ==
    /\ Goto("load", "seed")
    /\ objs' = "open"
    /\ UNCHANGED <<proxy, qdisc, filter, link>>

\* A plausible slip: the error of the map update is dropped.
writeProxyConfigUnchecked ==
    /\ Goto("seed", "iface")
    /\ proxy' \in {"zero", "set"}
    /\ UNCHANGED <<objs, qdisc, filter, link>>

writeProxyConfig ==
    /\ Goto("seed", "iface")
    /\ proxy' = "set"
    /\ UNCHANGED <<objs, qdisc, filter, link>>

InterfaceByName ==
    /\ Goto("iface", "qdisc")
    /\ UNCHANGED <<objs, proxy, qdisc, filter, link>>

\* A plausible slip: EEXIST is an error.
QdiscAddStrict ==
    \/ /\ qdisc = "none"
       /\ Goto("qdisc", "filter")
       /\ qdisc' = "clsact"
       /\ UNCHANGED <<objs, proxy, filter, link>>
    \/ pc = "qdisc" /\ qdisc = "clsact" /\ Exit("not started") /\ UNCHANGED faults

(* attachTC, first half: EEXIST is as good as success. *)
QdiscAdd ==
    /\ Goto("qdisc", "filter")
    /\ qdisc' = "clsact"
    /\ UNCHANGED <<objs, proxy, filter, link>>

\* A plausible slip: EEXIST is tolerated as it is for the qdisc.
FilterAddLax ==
    /\ Goto("filter", "cgroup")
    /\ filter' = IF filter = "none" THEN "own" ELSE filter
    /\ UNCHANGED <<objs, proxy, qdisc, link>>

(* attachTC, second half.  FilterAdd asks the kernel for a new filter: it    *)
(* fails with EEXIST when one with this handle and priority is there.        *)
FilterAdd ==
    /\ filter = "none"
    /\ Goto("filter", "cgroup")
    /\ filter' = "own"
    /\ UNCHANGED <<objs, proxy, qdisc, link>>

FilterExists ==
    /\ pc = "filter"
    /\ filter # "none"
    /\ Exit("not started")
    /\ UNCHANGED faults

attachCgroup ==
    /\ Goto("cgroup", "notify")
    /\ link' = "attached"
    /\ UNCHANGED <<objs, proxy, qdisc, filter>>

(* One of the steps before fails: NewManager closes the objects and returns  *)
(* the error, and main ends in log.Fatal or panic.                           *)
StartFails ==
    /\ pc \in {"config", "load", "seed", "iface", "qdisc", "filter"}
    /\ Fault
    /\ Exit("not started")

\* A plausible slip: the error path forgets the links.
AttachCgroupFailsNoUndo ==
    /\ pc = "cgroup"
    /\ Fault
    /\ Exit("not started")

(* attachCgroup fails: closeLinks is next. *)
AttachCgroupFails ==
    /\ pc = "cgroup"
    /\ Fault
    /\ pc' = "undo"
    /\ UNCHANGED <<objs, proxy, qdisc, filter, link, rd, ctx, left>>

(* tcAttachment.Close; its error is ignored. *)
FilterDel ==
    \/ filter' = "none" /\ UNCHANGED faults
    \/ filter' = "kept" /\ Fault

UndoAttach ==
    /\ pc = "undo"
    /\ FilterDel
    /\ pc' = "sync"
    /\ objs' = "closed"
    /\ UNCHANGED <<proxy, qdisc, link, rd, ctx, left>>

(* signal.NotifyContext, and the two go statements. *)
StartReaders ==
    /\ pc = "notify"
    /\ pc' = "run"
    /\ rd' = [r \in Readers |-> "opening"]
    /\ UNCHANGED <<objs, proxy, qdisc, filter, link, ctx, left, faults>>

-----------------------------------------------------------------------------
(* The reader goroutines. *)

NewReader(r) ==
    /\ rd[r] = "opening"
    /\ objs = "open"
    /\ rd' = [rd EXCEPT ![r] = "reading"]
    /\ UNCHANGED <<pc, objs, proxy, qdisc, filter, link, ctx, left, faults>>

\* A plausible slip: the error is logged and the loop starts on a nil reader.
NewReaderFailsLogged(r) ==
    /\ rd[r] = "opening"
    /\ objs = "open"
    /\ Fault
    /\ rd' = [rd EXCEPT ![r] = "nil reader"]
    /\ UNCHANGED <<pc, objs, proxy, qdisc, filter, link, ctx, left>>

(* log.Fatal ends the process, the deferred mgr.Close is not run. *)
NewReaderFails(r) ==
    /\ rd[r] = "opening"
    /\ objs = "open"
    /\ Fault
    /\ Exit("fatal")

(* The goroutine gets to run only after main has closed the objects. *)
NewReaderLate(r) ==
    /\ rd[r] = "opening"
    /\ objs = "closed"
    /\ Exit("late fatal")
    /\ UNCHANGED faults

(* The helper goroutine closes the reader, the loop sees ErrClosed. *)
ReaderStops(r) ==
    /\ rd[r] = "reading"
    /\ ctx = "done"
    /\ rd' = [rd EXCEPT ![r] = "done"]
    /\ UNCHANGED <<pc, objs, proxy, qdisc, filter, link, ctx, left, faults>>

-----------------------------------------------------------------------------
(* The end. *)

Signal ==
    /\ pc = "run"
    /\ ctx = "live"
    /\ ctx' = "done"
    /\ UNCHANGED <<pc, objs, proxy, qdisc, filter, link, rd, left, faults>>

(* main returns and its deferred calls run: mgr.Close, in closeLinks the     *)
(* links in the order of their attachment, then the objects.                 *)
MainReturns ==
    /\ ctx = "done"
    /\ Goto("run", "close_tc")
    /\ UNCHANGED <<objs, proxy, qdisc, filter, link>>

CloseTC ==
    /\ pc = "close_tc"
    /\ FilterDel
    /\ pc' = "close_cgroup"
    /\ UNCHANGED <<objs, proxy, qdisc, link, rd, ctx, left>>

CloseCgroup ==
    /\ Goto("close_cgroup", "close_objs")
    /\ link' = "none"
    /\ UNCHANGED <<objs, proxy, qdisc, filter>>

CloseObjs ==
    /\ Goto("close_objs", "sync")
    /\ objs' = "closed"
    /\ UNCHANGED <<proxy, qdisc, filter, link>>

(* log.Sync, and the process ends, whatever the goroutines are doing. *)
MainExits ==
    /\ pc = "sync"
    /\ Exit("orderly")
    /\ UNCHANGED faults

(* SIGKILL, the memory limit of the pod, a panic, or a SIGTERM that arrives  *)
(* before NotifyContext: the process ends at once.                           *)
Kill ==
    /\ pc # "down"
    /\ Fault
    /\ Exit("killed")

-----------------------------------------------------------------------------
Main ==
    \/ Start \/ LoadConfig \/ LoadObjects \/ writeProxyConfig \/ InterfaceByName
    \/ QdiscAdd \/ FilterAdd \/ FilterExists \/ attachCgroup \/ UndoAttach
    \/ StartReaders \/ MainReturns \/ CloseTC \/ CloseCgroup \/ CloseObjs \/ MainExits

Reader(r) == NewReader(r) \/ NewReaderLate(r) \/ ReaderStops(r)

Faulty ==
    \/ StartFails \/ AttachCgroupFails \/ Kill
    \/ \E r \in Readers : NewReaderFails(r)

Next == Main \/ Signal \/ Faulty \/ \E r \in Readers : Reader(r)

(* The process runs and the DaemonSet restarts it; no signal has to come. *)
Fairness ==
    /\ WF_vars(Main)
    /\ \A r \in Readers : WF_vars(Reader(r))

Spec == Init /\ [][Next]_vars /\ Fairness

-----------------------------------------------------------------------------
(* Properties *)

(* Every resource of the agent, and each reader goroutine, is in one of the  *)
(* states that main.go, manager.go and reader.go bring it into.              *)
TypeOK ==
    /\ pc \in Starting \cup Closing \cup {"down", "run"}
    /\ objs \in {"closed", "open"}
    /\ proxy \in {"zero", "set"}
    /\ qdisc \in {"none", "clsact"}
    /\ filter \in {"none", "own", "kept", "stale"}
    /\ link \in {"none", "attached"}
    /\ rd \in [Readers -> {"none", "opening", "reading", "done"}]
    /\ ctx \in {"live", "done"}
    /\ left \in {"nobody", "not started", "fatal", "late fatal", "orderly",
                 "killed", "filter not deleted"}
    /\ faults \in 0..MaxFaults

(* An agent that reports itself started is not deaf or mute: the filter on   *)
(* the interface is its own, writing to its own ring buffer, the connect     *)
(* hook is attached and the objects both work on are open, after every       *)
(* history of failures, kills and restarts.                                  *)
RunningIsHooked ==
    pc = "run" => /\ filter = "own"
                  /\ link = "attached"
                  /\ objs = "open"
                  /\ qdisc = "clsact"

(* The connect hook never runs with an empty proxy_config, which would send  *)
(* AI traffic to 0.0.0.0:0: a lookup in an array map does not return NULL,   *)
(* so the program's own check does not prevent it.                           *)
HookedIsSeeded == link = "attached" => proxy = "set"

(* A filter is left behind only by a process that was killed, whose reader   *)
(* failed to open, or whose FilterDel failed: never by an error path of      *)
(* NewManager, by an orderly shutdown, or by a reader goroutine that gets to *)
(* run so late that it finds the objects closed.                             *)
StaleOnlyIfAbrupt ==
    filter = "stale" => left \in {"killed", "fatal", "filter not deleted"}

(* A filter that was left behind is the only thing that keeps the agent from *)
(* coming back: otherwise it is running again and again.                     *)
RecoversUnlessStale == []<>(pc = "run" \/ filter = "stale")

(* "The agent runs as a DaemonSet (one pod per node). It attaches two eBPF   *)
(* programs to the host" (README.md, Architecture).  A process that was      *)
(* killed leaves its filter behind, and every later one fails in FilterAdd.  *)
KeepsRunning == []<>(pc = "run")
=============================================================================
