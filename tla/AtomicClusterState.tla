------------------------- MODULE AtomicClusterState -------------------------
(***************************************************************************)
(* What the ClusterStateStore promises its callers (spec 4.1): the root    *)
(* snapshot changes only by whole, atomic steps.  Do(index, cmd) installs  *)
(* the successor of the current root for the next log entry, and           *)
(* NextSegmentID() bumps the segment-id counter inside the root and hands  *)
(* the fresh value to exactly one caller.                                  *)
(***************************************************************************)
EXTENDS Naturals, Sequences

CONSTANTS
    Log,          \* the replicated log: Log[i] is Cmd or NoCmd (nil command)
    Cmd, NoCmd,   \* model values: a state-changing command / a nil command
    Allocators    \* goroutines that may call NextSegmentID

VARIABLES
    root,         \* [index, segID, effects]: the current snapshot
    issued        \* issued[a]: ids returned to allocator a, in order

vars == <<root, issued>>

\* Indices of the log whose command changes the catalog.
EffectsUpTo(n) == {i \in 1..n : Log[i] = Cmd}

Init ==
    /\ root = [index |-> 0, segID |-> 0, effects |-> {}]
    /\ issued = [a \in Allocators |-> <<>>]

\* One raft apply, atomically.
Apply ==
    /\ root.index < Len(Log)
    /\ root' = [root EXCEPT !.index = @ + 1,
                            !.effects = EffectsUpTo(root.index + 1)]
    /\ UNCHANGED issued

\* One NextSegmentID call, atomically.
Allocate(a) ==
    /\ root' = [root EXCEPT !.segID = @ + 1]
    /\ issued' = [issued EXCEPT ![a] = Append(@, root.segID + 1)]

Next == Apply \/ \E a \in Allocators : Allocate(a)

Spec == Init /\ [][Next]_vars
=============================================================================
