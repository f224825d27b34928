------------------------ MODULE ConsumerGroupForward ------------------------
(***************************************************************************)
(* Request forwarding between nodes.  Two forms are modelled:              *)
(*  - the leader check at the top of every leader-only handler             *)
(*    (CreateConsumerGroup, OpenSegment, SegmentRotate, ...): a node that  *)
(*    is not the raft leader forwards the request once to the leader it   *)
(*    knows, with LeaderOnly set;                                          *)
(*  - Subscribe and ConsumerGroupWait, served by the primary node of the  *)
(*    group's offset-commits segment: another node forwards the request   *)
(*    once with DoNotForward set.                                          *)
(* Every node decides from its own view: the raft term it last heard of   *)
(* (raftNode.State(), raftNode.Leader()) and the catalog it has applied   *)
(* (clusterState.Current()).  Both are prefixes of histories the cluster  *)
(* appends to, and nodes lag behind them independently.  The group runtime *)
(* (s.groups) is started and stopped by code outside src/; it is modelled  *)
(* from spec 4.4: present on a node while that node's view makes it a      *)
(* primary of the group's offsets segment.                                 *)
(***************************************************************************)
EXTENDS Naturals, Sequences, FiniteSets

CONSTANTS
    Nodes,             \* node ids (model values)
    Reqs,              \* concurrent client requests (model values)
    None,              \* raftNode.Leader() == "": no leader known
    MaxTerms,          \* bound on raft elections
    MaxCatalogChanges  \* bound on catalog updates of the group

Kinds == {"leader_op", "subscribe", "wait"}

\* The group's entry in a catalog snapshot: does the consumer group exist,
\* and the primaries of its open offset-commits segments.
Catalog == [group : BOOLEAN, prim : SUBSET Nodes]

VARIABLES
    terms,    \* terms[t]: the leader elected in term t, or None
    known,    \* known[n]: the last term node n has heard of
    cat,      \* cat[i]: the group's catalog entry after the i-th update
    applied,  \* applied[n]: the catalog updates node n has applied
    running,  \* running[n]: the group runtime is in s.groups on node n
    req,      \* req[r]: the state of request r
    subs      \* subs[n]: s.subscriptions of node n (by request)

vars == <<terms, known, cat, applied, running, req, subs>>
env == <<terms, known, cat, applied, running>>

-----------------------------------------------------------------------------
(* A node's view                                                           *)

\* s.raftNode.State() == raft.Leader and s.raftNode.Leader()
IsLeader(n) == terms[known[n]] = n
LeaderOf(n) == terms[known[n]]

\* s.clusterState.Current(), reduced to the group's entry
View(n) == cat[applied[n]]

\* The node a request is being handled on.
At(r) == req[r].path[Len(req[r].path)]

\* The request returns `result` to its client: every node on its path
\* returns (a forwarder returns the forwarded call's reply as it is).
Finish(r, result) == req' = [req EXCEPT ![r].pc = "done", ![r].result = result]

\* request.LeaderOnly / request.DoNotForward = true; the forwarded call
\* runs on `to`.
Forward(r, to) ==
    req' = [req EXCEPT ![r].path = Append(@, to), ![r].flag = TRUE]

Init ==
    /\ terms \in {<<l>> : l \in Nodes}
    /\ known = [n \in Nodes |-> 1]
    /\ cat \in {<<[group |-> TRUE, prim |-> {p}]>> : p \in Nodes}
    /\ applied = [n \in Nodes |-> 1]
    /\ running \in {f \in [Nodes -> BOOLEAN] : \A n \in Nodes : f[n] => n \in cat[1].prim}
    /\ req \in [Reqs -> [kind : Kinds, path : {<<o>> : o \in Nodes},
                         flag : {FALSE}, pc : {"handle"}, result : {"none"},
                         ctxDone : {FALSE}, closed : {FALSE}]]
    /\ subs = [n \in Nodes |-> {}]

-----------------------------------------------------------------------------
(* The leader check of a leader-only handler                               *)

\* Not the leader: with LeaderOnly set, errNotALeader; no leader known,
\* errNoLeaderElected; s.pool.Get fails, couldNotDialLeaderError; else the
\* request goes to the leader with LeaderOnly set.  On the leader the
\* handler runs (ClusterCatalog models what it does there).
LeaderOpHandle(r) ==
    LET n == At(r)
    IN /\ req[r].kind = "leader_op" /\ req[r].pc = "handle"
       /\ \/ IsLeader(n) /\ Finish(r, "served")
          \/ ~IsLeader(n) /\ req[r].flag /\ Finish(r, "not_a_leader")
          \/ ~IsLeader(n) /\ ~req[r].flag /\ LeaderOf(n) = None /\ Finish(r, "no_leader")
          \/ ~IsLeader(n) /\ ~req[r].flag /\ LeaderOf(n) \in Nodes
             /\ (Finish(r, "dial_failed") \/ Forward(r, LeaderOf(n)))
       /\ UNCHANGED <<env, subs>>

-----------------------------------------------------------------------------
(* Subscribe (server_consumer_group_subscribe.go) and ConsumerGroupWait    *)
(* (server_consumer_group_wait.go)                                         *)

\* The lookup both handlers start with, on the node's own snapshot: an
\* error when the group is missing or its offsets segment is not exactly
\* one; otherwise the segment's primary.
LookupError(c) ==
    CASE ~c.group -> "not_found"
      [] c.prim = {} -> "not_assigned"
      [] Cardinality(c.prim) > 1 -> "multiple"
      [] OTHER -> "none"

Primary(c) == CHOOSE p \in c.prim : TRUE

\* Not the primary: with DoNotForward set, errWontForward; the dial may
\* fail; else the request goes to the primary with DoNotForward set (a
\* forwarded Subscribe then relays the primary's stream until it ends).
ForwardToPrimary(r, p) ==
    \/ req[r].flag /\ Finish(r, "wont_forward")
    \/ ~req[r].flag /\ (Finish(r, "dial_failed") \/ Forward(r, p))

\* Subscribe: on the primary, the group must be running in s.groups; the
\* subscription is registered in s.subscriptions and streamed.
SubscribeHandle(r) ==
    LET n == At(r)
        c == View(n)
    IN /\ req[r].kind = "subscribe" /\ req[r].pc = "handle"
       /\ \/ LookupError(c) # "none" /\ Finish(r, LookupError(c)) /\ UNCHANGED subs
          \/ LookupError(c) = "none" /\ Primary(c) # n
             /\ ForwardToPrimary(r, Primary(c)) /\ UNCHANGED subs
          \/ LookupError(c) = "none" /\ Primary(c) = n /\ ~running[n]
             /\ Finish(r, "not_running") /\ UNCHANGED subs
          \/ LookupError(c) = "none" /\ Primary(c) = n /\ running[n]
             /\ req' = [req EXCEPT ![r].pc = "stream"]
             /\ subs' = [subs EXCEPT ![n] = @ \cup {r}]
       /\ UNCHANGED env

\* ConsumerGroupWait: on the primary, poll s.groups.
WaitHandle(r) ==
    LET n == At(r)
        c == View(n)
    IN /\ req[r].kind = "wait" /\ req[r].pc = "handle"
       /\ \/ LookupError(c) # "none" /\ Finish(r, LookupError(c))
          \/ LookupError(c) = "none" /\ Primary(c) # n /\ ForwardToPrimary(r, Primary(c))
          \/ LookupError(c) = "none" /\ Primary(c) = n /\ req' = [req EXCEPT ![r].pc = "poll"]
       /\ UNCHANGED <<env, subs>>

\* Mutant: the poll loop without the select on ctx.Done().
WaitPollIgnoreCtx(r) ==
    /\ req[r].pc = "poll"
    /\ running[At(r)] /\ Finish(r, "ok")
    /\ UNCHANGED <<env, subs>>

\* One poll that ends the loop: the runtime is there (reply OK), or the
\* context is done (ctx.Err()); otherwise the loop sleeps and repeats.
WaitPoll(r) ==
    /\ req[r].pc = "poll"
    /\ \/ running[At(r)] /\ Finish(r, "ok")
       \/ ~running[At(r)] /\ req[r].ctxDone /\ Finish(r, "canceled")
    /\ UNCHANGED <<env, subs>>

\* The goroutine `<-ctx.Done(); subscription.Close()`.
CloseOnCancel(r) ==
    /\ req[r].pc = "stream" /\ req[r].ctxDone /\ ~req[r].closed
    /\ req' = [req EXCEPT ![r].closed = TRUE]
    /\ UNCHANGED <<env, subs>>

\* subscription.Next() returns ErrSubscriptionClosed: the handler returns
\* and its deferred Close and delete(s.subscriptions) run.
StreamEnd(r) ==
    /\ req[r].pc = "stream" /\ req[r].closed
    /\ Finish(r, "closed")
    /\ subs' = [subs EXCEPT ![At(r)] = @ \ {r}]
    /\ UNCHANGED env

-----------------------------------------------------------------------------
(* Environment                                                             *)

\* The client's context is cancelled (it goes away, or gives up).
ClientCancel(r) ==
    /\ req[r].pc # "done" /\ ~req[r].ctxDone
    /\ req' = [req EXCEPT ![r].ctxDone = TRUE]
    /\ UNCHANGED <<env, subs>>

\* Raft elects a leader in a new term, or the term has none (yet).
Elect ==
    /\ Len(terms) < MaxTerms
    /\ \E l \in Nodes \cup {None} : terms' = Append(terms, l)
    /\ UNCHANGED <<known, cat, applied, running, req, subs>>

\* A node hears of a later term.
LearnTerm(n) ==
    /\ known[n] < Len(terms)
    /\ known' = [known EXCEPT ![n] = @ + 1]
    /\ UNCHANGED <<terms, cat, applied, running, req, subs>>

\* The catalog updates the leader applies to the group (ClusterCatalog):
\* ConsumerGroupCreate, SegmentOpen of an offsets segment, SegmentClose or
\* SegmentDelete of one, ConsumerGroupDelete (which leaves the segments).
CatalogSteps(c) ==
    {[c EXCEPT !.group = TRUE], [c EXCEPT !.group = FALSE]}
    \cup {[c EXCEPT !.prim = @ \cup {p}] : p \in Nodes}
    \cup {[c EXCEPT !.prim = @ \ {p}] : p \in c.prim}

CatalogUpdate ==
    /\ Len(cat) < MaxCatalogChanges
    /\ \E c \in CatalogSteps(cat[Len(cat)]) \ {cat[Len(cat)]} : cat' = Append(cat, c)
    /\ UNCHANGED <<terms, known, applied, running, req, subs>>

\* A node applies the next catalog update.
ApplyCatalog(n) ==
    /\ applied[n] < Len(cat)
    /\ applied' = [applied EXCEPT ![n] = @ + 1]
    /\ UNCHANGED <<terms, known, cat, running, req, subs>>

\* Spec 4.4: the runtime is created when the node is primary for the
\* group's offsets segment (in its view) and destroyed when it is not.
PrimaryHere(n) == View(n).group /\ n \in View(n).prim

RuntimeStart(n) ==
    /\ ~running[n] /\ PrimaryHere(n)
    /\ running' = [running EXCEPT ![n] = TRUE]
    /\ UNCHANGED <<terms, known, cat, applied, req, subs>>

RuntimeStop(n) ==
    /\ running[n] /\ ~PrimaryHere(n)
    /\ running' = [running EXCEPT ![n] = FALSE]
    /\ UNCHANGED <<terms, known, cat, applied, req, subs>>

Next ==
    \/ \E r \in Reqs :
         \/ LeaderOpHandle(r) \/ SubscribeHandle(r) \/ WaitHandle(r)
         \/ WaitPoll(r) \/ CloseOnCancel(r) \/ StreamEnd(r)
         \/ ClientCancel(r)
    \/ Elect \/ CatalogUpdate
    \/ \E n \in Nodes : LearnTerm(n) \/ ApplyCatalog(n)
                       \/ RuntimeStart(n) \/ RuntimeStop(n)

\* The handler goroutines, the context goroutine and the poll loop are
\* scheduled fairly; the client, raft, the catalog and the runtime are not.
Fairness ==
    \A r \in Reqs :
        /\ WF_vars(LeaderOpHandle(r) \/ SubscribeHandle(r) \/ WaitHandle(r))
        /\ WF_vars(WaitPoll(r))
        /\ WF_vars(CloseOnCancel(r))
        /\ WF_vars(StreamEnd(r))

Spec == Init /\ [][Next]_vars /\ Fairness

-----------------------------------------------------------------------------
(* Properties                                                              *)

TypeOK ==
    /\ terms \in Seq(Nodes \cup {None}) /\ cat \in Seq(Catalog)
    /\ known \in [Nodes -> 1..Len(terms)] /\ applied \in [Nodes -> 1..Len(cat)]
    /\ running \in [Nodes -> BOOLEAN]
    /\ subs \in [Nodes -> SUBSET Reqs]
    /\ \A r \in Reqs : req[r].pc \in {"handle", "poll", "stream", "done"}

\* Spec 5 (cancellation: closing a subscription wakes a blocked Next): once a client cancels, its request
\* ends, whether it is polling for the group runtime (the select on
\* ctx.Done()) or streaming a subscription (the goroutine that closes it),
\* and no subscription of it stays in s.subscriptions.
CancelledRequestsEnd ==
    \A r \in Reqs :
        req[r].ctxDone ~> (req[r].pc = "done" /\ \A n \in Nodes : r \notin subs[n])

=============================================================================
