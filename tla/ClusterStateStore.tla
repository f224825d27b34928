------------------------- MODULE ClusterStateStore --------------------------
(***************************************************************************)
(* mq/cluster_state_store.go: the shared root of the cluster state is a    *)
(* single pointer.  Do (called by the raft FSM goroutine for each log      *)
(* entry) and NextSegmentID (called by leader-side handlers) each run a    *)
(* load / copy-and-modify / compare-and-swap loop on it.  Every new root   *)
(* is a freshly allocated ClusterState, so a pointer is identified here by *)
(* a version number that is never reused (Go's GC rules out ABA).          *)
(*                                                                         *)
(* The namespace/topic/segment tree is abstracted to the set of log        *)
(* indices whose command effect it contains; the catalog transitions are   *)
(* modelled in ClusterCatalog.                                             *)
(***************************************************************************)
EXTENDS Naturals, Sequences, FiniteSets

CONSTANTS
    Log,              \* Log[i] \in {Cmd, NoCmd}: command of raft entry i
    Cmd, NoCmd,       \* model values: a command / a nil command
    Allocators,       \* goroutines calling NextSegmentID
    MaxAllocations    \* bound on NextSegmentID calls per allocator

ASSUME Log \in Seq({Cmd, NoCmd})
ASSUME MaxAllocations \in Nat

VARIABLES
    ptr,        \* the shared pointer: [ver, index, segID, effects]
    nextVer,    \* next fresh pointer identity (allocation of &ClusterState{})
    applier,    \* raft FSM goroutine: [pc, state] ; pc \in {"load","cas","idle"}
    applied,    \* number of log entries whose Do has returned
    alloc,      \* alloc[a]: [pc, state, calls]
    issued      \* history: issued[a] = ids NextSegmentID returned to a

vars == <<ptr, nextVer, applier, applied, alloc, issued>>

Snapshot == [ver : Nat, index : Nat, segID : Nat, effects : SUBSET Nat]

\* The catalog effect of a command: a nil command leaves the tree alone
\* (Do copies the state and only sets Index), any other command is
\* dispatched to its transition function.
Transition(state, i) ==
    IF Log[i] = NoCmd THEN state.effects ELSE state.effects \cup {i}

\* NewClusterStateStore: the root is an empty ClusterState.
Init ==
    /\ ptr = [ver |-> 0, index |-> 0, segID |-> 0, effects |-> {}]
    /\ nextVer = 1
    /\ applier = [pc |-> "idle", state |-> ptr]
    /\ applied = 0
    /\ alloc = [a \in Allocators |-> [pc |-> "idle", state |-> ptr, calls |-> 0]]
    /\ issued = [a \in Allocators |-> <<>>]

-----------------------------------------------------------------------------
(* Do(index, cmd): raft hands entries to the FSM one at a time, in order.  *)

\* raft calls Do for the next entry.
DoStart ==
    /\ applier.pc = "idle"
    /\ applied < Len(Log)
    /\ applier' = [applier EXCEPT !.pc = "load"]
    /\ UNCHANGED <<ptr, nextVer, applied, alloc, issued>>

\* state := atomic.LoadPointer(&s.ptr)
DoLoad ==
    /\ applier.pc = "load"
    /\ applier' = [pc |-> "cas", state |-> ptr]
    /\ UNCHANGED <<ptr, nextVer, applied, alloc, issued>>

\* Mutant: Do publishes with atomic.StorePointer instead of the CAS.
DoStoreWithoutCAS ==
    LET i == applied + 1
        s == applier.state
    IN /\ applier.pc = "cas"
       /\ ptr' = [ver |-> nextVer, index |-> i, segID |-> s.segID,
                  effects |-> Transition(s, i)]
       /\ nextVer' = nextVer + 1
       /\ applier' = [applier EXCEPT !.pc = "idle"]
       /\ applied' = i
       /\ UNCHANGED <<alloc, issued>>

\* next := transition(state) (or a copy), next.Index = index, then the CAS:
\* on success Do returns, on failure it loops back to the load.
DoCAS ==
    LET i == applied + 1
        s == applier.state
    IN /\ applier.pc = "cas"
       /\ IF ptr.ver = s.ver
            THEN /\ ptr' = [ver |-> nextVer, index |-> i, segID |-> s.segID,
                            effects |-> Transition(s, i)]
                 /\ nextVer' = nextVer + 1
                 /\ applier' = [applier EXCEPT !.pc = "idle"]
                 /\ applied' = i
            ELSE /\ applier' = [applier EXCEPT !.pc = "load"]
                 /\ UNCHANGED <<ptr, nextVer, applied>>
       /\ UNCHANGED <<alloc, issued>>

-----------------------------------------------------------------------------
(* NextSegmentID()                                                         *)

AllocStart(a) ==
    /\ alloc[a].pc = "idle"
    /\ alloc[a].calls < MaxAllocations
    /\ alloc' = [alloc EXCEPT ![a].pc = "load", ![a].calls = @ + 1]
    /\ UNCHANGED <<ptr, nextVer, applier, applied, issued>>

\* state := atomic.LoadPointer(&s.ptr); *next = *state
AllocLoad(a) ==
    /\ alloc[a].pc = "load"
    /\ alloc' = [alloc EXCEPT ![a].pc = "cas", ![a].state = ptr]
    /\ UNCHANGED <<ptr, nextVer, applier, applied, issued>>

\* Mutant: NextSegmentID publishes with a plain store instead of the CAS.
AllocStoreWithoutCAS(a) ==
    LET s == alloc[a].state
    IN /\ alloc[a].pc = "cas"
       /\ ptr' = [s EXCEPT !.ver = nextVer, !.segID = @ + 1]
       /\ nextVer' = nextVer + 1
       /\ alloc' = [alloc EXCEPT ![a].pc = "idle"]
       /\ issued' = [issued EXCEPT ![a] = Append(@, s.segID + 1)]
       /\ UNCHANGED <<applier, applied>>

\* Mutant: a failed CAS retries with the state it loaded before.
AllocRetryStale(a) ==
    LET s == alloc[a].state
    IN /\ alloc[a].pc = "cas"
       /\ IF ptr.ver = s.ver
            THEN /\ ptr' = [s EXCEPT !.ver = nextVer, !.segID = @ + 1]
                 /\ nextVer' = nextVer + 1
                 /\ alloc' = [alloc EXCEPT ![a].pc = "idle"]
                 /\ issued' = [issued EXCEPT ![a] = Append(@, s.segID + 1)]
            ELSE UNCHANGED <<ptr, nextVer, alloc, issued>>
       /\ UNCHANGED <<applier, applied>>

\* Mutant: returns state.CurrentSegmentID (the loaded value) after the CAS.
AllocReturnsLoaded(a) ==
    LET s == alloc[a].state
    IN /\ alloc[a].pc = "cas"
       /\ IF ptr.ver = s.ver
            THEN /\ ptr' = [s EXCEPT !.ver = nextVer, !.segID = @ + 1]
                 /\ nextVer' = nextVer + 1
                 /\ alloc' = [alloc EXCEPT ![a].pc = "idle"]
                 /\ issued' = [issued EXCEPT ![a] = Append(@, s.segID)]
            ELSE /\ alloc' = [alloc EXCEPT ![a].pc = "load"]
                 /\ UNCHANGED <<ptr, nextVer, issued>>
       /\ UNCHANGED <<applier, applied>>

\* next.CurrentSegmentID += 1; CAS; on success return next.CurrentSegmentID.
\* The single `next` allocated before the loop is a fresh pointer.
AllocCAS(a) ==
    LET s == alloc[a].state
    IN /\ alloc[a].pc = "cas"
       /\ IF ptr.ver = s.ver
            THEN /\ ptr' = [s EXCEPT !.ver = nextVer, !.segID = @ + 1]
                 /\ nextVer' = nextVer + 1
                 /\ alloc' = [alloc EXCEPT ![a].pc = "idle"]
                 /\ issued' = [issued EXCEPT ![a] = Append(@, s.segID + 1)]
            ELSE /\ alloc' = [alloc EXCEPT ![a].pc = "load"]
                 /\ UNCHANGED <<ptr, nextVer, issued>>
       /\ UNCHANGED <<applier, applied>>

Next ==
    \/ DoStart \/ DoLoad \/ DoCAS
    \/ \E a \in Allocators : AllocStart(a) \/ AllocLoad(a) \/ AllocCAS(a)

\* Go schedules every runnable goroutine eventually.
Fairness ==
    /\ WF_vars(DoLoad) /\ WF_vars(DoCAS)
    /\ \A a \in Allocators : WF_vars(AllocLoad(a)) /\ WF_vars(AllocCAS(a))

Spec == Init /\ [][Next]_vars /\ Fairness

-----------------------------------------------------------------------------
(* Properties                                                              *)


\* Spec 3 invariant 1: NextSegmentID never hands the same segment id to two
\* calls, whatever the interleaving of allocators and raft applies, and the
\* counter in the root covers every id handed out.
AllIssued == UNION {{issued[a][k] : k \in DOMAIN issued[a]} : a \in Allocators}
UniqueSegmentIDs ==
    /\ Cardinality(AllIssued) = ptr.segID
    /\ \A a, b \in Allocators : \A j \in DOMAIN issued[a], k \in DOMAIN issued[b] :
          (a = b /\ j = k) \/ issued[a][j] # issued[b][k]

\* Spec 3 invariant 7 and 5: the root's log index never goes back, and the
\* catalog never loses an applied command, even when a NextSegmentID CAS
\* races a raft apply.
IndexNeverRegresses ==
    [][/\ ptr'.index >= ptr.index
       /\ ptr.effects \subseteq ptr'.effects]_ptr

\* Every NextSegmentID call returns: the CAS loop is lock-free because a
\* failed CAS means some other caller's CAS succeeded and the bounded
\* model has finitely many of those.
AllocationsReturn ==
    \A a \in Allocators : alloc[a].pc = "load" ~> alloc[a].pc = "idle"

\* The store implements the atomic store of AtomicClusterState: a CAS that
\* succeeds is the atomic step, loads and failed CASes are stuttering.
Atomic == INSTANCE AtomicClusterState
    WITH root <- [index |-> ptr.index, segID |-> ptr.segID, effects |-> ptr.effects]
AtomicRefinement == Atomic!Spec
=============================================================================
