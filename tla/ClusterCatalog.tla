--------------------------- MODULE ClusterCatalog ---------------------------
(***************************************************************************)
(* The leader-side catalog handlers of mq/server_*.go over the replicated  *)
(* cluster state.  Each handler runs on the node that believes it is the  *)
(* raft leader, holds that node's transaction lock (beginTransaction) for *)
(* its whole run, reads a snapshot with clusterState.Current() and then    *)
(* issues raft Apply/Barrier calls one by one.  An Apply or Barrier        *)
(* succeeds while the node is still leader and fails (ErrNotLeader /       *)
(* ErrLeadershipLost) after leadership has moved.  Raft itself, and the    *)
(* lock-free store (ClusterStateStore, shown atomic there), are abstracted *)
(* to one atomic update of the root `cs` per successful Apply.  Every     *)
(* node reads that one root: a new leader whose FSM still lags the log   *)
(* (OpenSegment takes no barrier) is not modelled.                        *)
(***************************************************************************)
EXTENDS Naturals, Sequences, FiniteSets

CONSTANTS
    Nodes,            \* node ids (model values)
    NodeOrder,        \* state.Nodes: the nodes in catalog order
    Namespaces,       \* namespace names
    GroupNames,       \* consumer-group names
    TopicNames,       \* topic names
    Shards,           \* Shards[t]: configured shard count of topic t
    Times,            \* values time.Now() may return
    MaxSegmentID,     \* bound on NextSegmentID
    MaxLeaderChanges, \* bound on raft leadership changes
    InitTopics,       \* topics that exist at start (CreateTopic is not modelled)
    AmqpNodes,        \* nodes serving an AMQP 0-9-1 connection
    NoGroup, Idle     \* model values

ASSUME NodeOrder \in Seq(Nodes) /\ {NodeOrder[i] : i \in DOMAIN NodeOrder} = Nodes

GroupIds == Namespaces \X GroupNames
TopicIds == Namespaces \X TopicNames
GroupRec == [createdAt : Times, bindings : SUBSET TopicNames]
Segment == [id : Nat, owner : GroupIds \cup TopicIds,
            kind : {"topic", "offsets"}, primary : Nodes]

VARIABLES
    cs,             \* the current ClusterState root (committed and applied)
    leader,         \* the raft leader
    leaderChanges,  \* number of leadership changes so far
    handler,        \* handler[n]: the request node n is serving, or Idle
    decl            \* decl[n]: a QueueDeclare of an AMQP connection on node n
                    \* that has built its request, or Idle

vars == <<cs, leader, leaderChanges, handler, decl>>

-----------------------------------------------------------------------------
(* Lookups on a snapshot                                                   *)

\* state.FindOpenSegmentsFor(kind, namespace, name)
FindOpenSegmentsFor(state, kind, owner) ==
    {s \in state.open : s.kind = kind /\ s.owner = owner}

\* state.CountSegmentsPerNode(): open segments whose primary is the node.
CountSegmentsPerNode(state, n) == Cardinality({s \in state.open : s.primary = n})

\* The primary loop of CreateConsumerGroup: the first ALIVE node in
\* state.Nodes whose count is strictly below every earlier ALIVE node's;
\* Idle (primaryNodeID == 0) when no node is ALIVE.
PickPrimary(state) ==
    LET alive == {i \in DOMAIN NodeOrder : state.nodes[NodeOrder[i]] = "ALIVE"}
        cnt(i) == CountSegmentsPerNode(state, NodeOrder[i])
        best == {i \in alive : \A k \in alive :
                   (k < i => cnt(k) > cnt(i)) /\ (k > i => cnt(k) >= cnt(i))}
    IN IF best = {} THEN Idle ELSE NodeOrder[CHOOSE i \in best : TRUE]

-----------------------------------------------------------------------------
(* Transition functions applied by Do (cluster_state_do_*.go)              *)

\* Mutant: a new group is created without CreatedAt (zero time).
DoCreateConsumerGroupZeroTime(state, g, rec) ==
    [state EXCEPT
        !.namespaces = @ \cup {g[1]},
        !.groups[g] = [createdAt |-> IF @ = NoGroup THEN 0 ELSE @.createdAt,
                       bindings |-> rec.bindings]]

\* doCreateConsumerGroup: creates the namespace when absent, replaces the
\* bindings (and size), keeps CreatedAt once set.
DoCreateConsumerGroup(state, g, rec) ==
    [state EXCEPT
        !.namespaces = @ \cup {g[1]},
        !.groups[g] = [createdAt |-> IF @ = NoGroup THEN rec.createdAt
                                     ELSE @.createdAt,
                       bindings |-> rec.bindings]]

\* isEmpty: no topic and no consumer group left in the namespace.
IsEmpty(state, ns) ==
    /\ \A t \in TopicNames : <<ns, t>> \notin state.topics
    /\ \A n \in GroupNames : state.groups[<<ns, n>>] = NoGroup

\* doDeleteConsumerGroup: no-op when absent; drops the namespace when it
\* becomes empty.
DoDeleteConsumerGroup(state, g) ==
    IF g[1] \notin state.namespaces \/ state.groups[g] = NoGroup THEN state
    ELSE LET next == [state EXCEPT !.groups[g] = NoGroup]
         IN IF IsEmpty(next, g[1])
              THEN [next EXCEPT !.namespaces = @ \ {g[1]}]
              ELSE next

\* doDeleteNamespace: drops the namespace with its topics and groups and,
\* as spec 3 says of owner deletes, their open segments.
DoDeleteNamespace(state, ns) ==
    [state EXCEPT !.namespaces = @ \ {ns},
                  !.topics = {t \in @ : t[1] # ns},
                  !.open = {s \in @ : s.owner[1] # ns},
                  !.groups = [g \in GroupIds |-> IF g[1] = ns THEN NoGroup ELSE @[g]]]

\* doCreateNamespace: adds the namespace, empty.
DoCreateNamespace(state, ns) == [state EXCEPT !.namespaces = @ \cup {ns}]

\* doOpenSegment / doDeleteSegment (OPEN) / doCloseSegment
DoOpenSegment(state, seg) == [state EXCEPT !.open = @ \cup {seg}]

DoDeleteOpenSegment(state, id) == [state EXCEPT !.open = {s \in @ : s.id # id}]

DoCloseSegment(state, id) ==
    [state EXCEPT !.open = {s \in @ : s.id # id},
                  !.closed = @ \cup {s \in state.open : s.id = id}]

-----------------------------------------------------------------------------
(* Handlers.  handler[n].pc is "idle" when node n holds no transaction.    *)

IdleHandler == [op |-> "none", pc |-> "idle", arg |-> Idle, rec |-> Idle,
                state |-> Idle, todo |-> {}, reply |-> 0]

Init ==
    /\ cs = [namespaces |-> Namespaces, topics |-> InitTopics,
             groups |-> [g \in GroupIds |-> NoGroup],
             open |-> {}, closed |-> {}, segID |-> 0,
             nodes |-> [n \in Nodes |-> "ALIVE"]]
    /\ leader \in Nodes
    /\ leaderChanges = 0
    /\ handler = [n \in Nodes |-> IdleHandler]
    /\ decl = [n \in Nodes |-> Idle]

\* s.raftNode.State() == raft.Leader, as seen at the top of a handler and
\* by every Apply/Barrier future.
Leading(n) == n = leader

\* Handler n returns (with a reply or an error) and releases the lock.
Return(n) == handler' = [handler EXCEPT ![n] = IdleHandler]

\* Handler n returns a segment id (SegmentID of the response).
ReturnSegment(n, id) == handler' = [handler EXCEPT ![n] = [IdleHandler EXCEPT !.reply = id]]
Goto(n, pc) == handler' = [handler EXCEPT ![n].pc = pc]

\* A request begins on the leader: beginTransaction, state := Current().
Begin(n, op, pc, arg, rec, todo) ==
    /\ handler[n].pc = "idle"
    /\ Leading(n)
    /\ handler' = [handler EXCEPT ![n] = [op |-> op, pc |-> pc, arg |-> arg, rec |-> rec,
                                          state |-> cs, todo |-> todo, reply |-> 0]]

\* The request's own Barrier(timeout): fails once leadership moved.  After
\* it CreateConsumerGroup reloads the state, SegmentRotate opens a segment.
BarrierNext == [cg_create |-> "reconcile", seg_rotate |-> "open"]

Barrier(n) ==
    /\ handler[n].pc = "barrier"
    /\ IF Leading(n) THEN Goto(n, BarrierNext[handler[n].op]) ELSE Return(n)
    /\ UNCHANGED <<cs, leader, leaderChanges, decl>>

(* CreateConsumerGroup (server_create_consumer_group.go)                   *)

\* Leader check, Validate, tx, the binding-topic lookups on the snapshot
\* (the namespace itself is created by the Apply when absent),
\* CreatedAt: time.Now().
CreateConsumerGroup(n, g, binds, now) ==
    /\ \A t \in binds : <<g[1], t>> \in cs.topics
    /\ Begin(n, "cg_create", "apply", g, [createdAt |-> now, bindings |-> binds,
                                               from |-> "client"], {})
    /\ UNCHANGED <<cs, leader, leaderChanges, decl>>

\* s.Apply(ClusterCommandConsumerGroupCreate)
CreateApply(n) ==
    LET h == handler[n]
    IN /\ h.op = "cg_create" /\ h.pc = "apply"
       /\ IF Leading(n)
            THEN /\ cs' = DoCreateConsumerGroup(cs, h.arg, h.rec)
                 /\ Goto(n, "barrier")
            ELSE /\ Return(n) /\ UNCHANGED cs
       /\ UNCHANGED <<leader, leaderChanges, decl>>

\* After the barrier: reload the state and look for the group's open
\* offset-commits segment; none: pick a primary (none ALIVE: reply OK
\* without one); more than one: panic.
CreateReconcile(n) ==
    LET h == handler[n]
        open == FindOpenSegmentsFor(cs, "offsets", h.arg)
    IN /\ h.op = "cg_create" /\ h.pc = "reconcile"
       /\ CASE Cardinality(open) = 0 /\ PickPrimary(cs) # Idle ->
                 handler' = [handler EXCEPT ![n].pc = "open",
                                            ![n].state = cs,
                                            ![n].todo = {PickPrimary(cs)}]
            [] Cardinality(open) = 0 -> Return(n)
            [] Cardinality(open) = 1 -> Return(n)
            [] OTHER -> Goto(n, "panicked")
       /\ UNCHANGED <<cs, leader, leaderChanges, decl>>

\* txSegmentOpen(state, primary, group, OFFSET_COMMITS), whose body is not
\* in the repository; it is taken to do what doOpenSegment does: an open
\* segment of the group on that primary in `state` is returned as is, otherwise
\* NextSegmentID() (the local store, whatever raft does) and Apply; a
\* failed Apply is returned as "segment open failed", else OK.
CreateOpenSegment(n) ==
    LET h == handler[n]
        p == CHOOSE p \in h.todo : TRUE
        seg == [id |-> cs.segID + 1, owner |-> h.arg, kind |-> "offsets", primary |-> p]
    IN /\ h.op = "cg_create" /\ h.pc = "open"
       /\ CASE \E s \in FindOpenSegmentsFor(h.state, "offsets", h.arg) : s.primary = p ->
                 Return(n) /\ UNCHANGED cs
            [] Leading(n) ->
                 cs' = DoOpenSegment([cs EXCEPT !.segID = @ + 1], seg) /\ Return(n)
            [] OTHER -> cs' = [cs EXCEPT !.segID = @ + 1] /\ Return(n)
       /\ UNCHANGED <<leader, leaderChanges, decl>>

(* DeleteConsumerGroup (server_consumer_group_delete.go)                   *)

\* The namespace and the group must exist in the snapshot; the open
\* offset-commits segments to delete are taken from that same snapshot.
DeleteConsumerGroup(n, g) ==
    /\ g[1] \in cs.namespaces
    /\ cs.groups[g] # NoGroup
    /\ Begin(n, "cg_delete", "apply", g, Idle,
             {s.id : s \in FindOpenSegmentsFor(cs, "offsets", g)})
    /\ UNCHANGED <<cs, leader, leaderChanges, decl>>

\* s.Apply(ClusterCommandConsumerGroupDelete)
DeleteApply(n) ==
    LET h == handler[n]
    IN /\ h.op = "cg_delete" /\ h.pc = "apply"
       /\ IF Leading(n)
            THEN /\ cs' = DoDeleteConsumerGroup(cs, h.arg)
                 /\ Goto(n, "segments")
            ELSE /\ Return(n) /\ UNCHANGED cs
       /\ UNCHANGED <<leader, leaderChanges, decl>>

\* One iteration of the loop: s.Apply(ClusterCommandSegmentDelete{OPEN});
\* an error returns at once, the rest of the loop is skipped.
DeleteSegments(n) ==
    LET h == handler[n]
    IN /\ h.op = "cg_delete" /\ h.pc = "segments"
       /\ IF h.todo = {}
            THEN Return(n) /\ UNCHANGED cs
            ELSE \E id \in h.todo :
                   IF Leading(n)
                     THEN /\ cs' = DoDeleteOpenSegment(cs, id)
                          /\ handler' = [handler EXCEPT ![n].todo = @ \ {id}]
                     ELSE Return(n) /\ UNCHANGED cs
       /\ UNCHANGED <<leader, leaderChanges, decl>>

(* CreateNamespace and DeleteNamespace (server_namespace_delete.go)        *)

\* CreateNamespace: leader check, tx, Apply(ClusterCommandNamespaceCreate).
CreateNamespace(n, ns) ==
    /\ Begin(n, "ns_create", "apply", ns, Idle, {})
    /\ UNCHANGED <<cs, leader, leaderChanges, decl>>

\* s.Apply(ClusterCommandNamespaceCreate)
CreateNamespaceApply(n) ==
    LET h == handler[n]
    IN /\ h.op = "ns_create" /\ h.pc = "apply"
       /\ cs' = IF Leading(n) THEN DoCreateNamespace(cs, h.arg) ELSE cs
       /\ Return(n)
       /\ UNCHANGED <<leader, leaderChanges, decl>>

DeleteNamespace(n, ns) ==
    /\ ns \in cs.namespaces
    /\ Begin(n, "ns_delete", "apply", ns, Idle, {})
    /\ UNCHANGED <<cs, leader, leaderChanges, decl>>

\* s.Apply(ClusterCommandNamespaceDelete)
DeleteNamespaceApply(n) ==
    LET h == handler[n]
    IN /\ h.op = "ns_delete" /\ h.pc = "apply"
       /\ cs' = IF Leading(n) THEN DoDeleteNamespace(cs, h.arg) ELSE cs
       /\ Return(n)
       /\ UNCHANGED <<leader, leaderChanges, decl>>

(* OpenSegment (server_open_segment.go), SegmentRotate                     *)
(* (server_segment_rotate.go)                                              *)

\* doOpenSegment(state, nodeID, topic) (SegmentRotate's txOpenSegment is
\* the same with the state it is given): the node's open segment of the
\* topic in `state`; else, when the topic already has Shards open
\* segments, a random one of them; else NextSegmentID() and Apply.
OpenTopicSegment(n, state, node, topic) ==
    LET open == FindOpenSegmentsFor(state, "topic", topic)
        own == {s \in open : s.primary = node}
        seg == [id |-> cs.segID + 1, owner |-> topic, kind |-> "topic", primary |-> node]
    IN CASE topic \notin state.topics -> Return(n) /\ UNCHANGED cs
         [] own # {} -> ReturnSegment(n, (CHOOSE s \in own : TRUE).id) /\ UNCHANGED cs
         [] Shards[topic[2]] > 0 /\ Cardinality(open) >= Shards[topic[2]] ->
              \E s \in open : ReturnSegment(n, s.id) /\ UNCHANGED cs
         [] Leading(n) -> /\ cs' = DoOpenSegment([cs EXCEPT !.segID = @ + 1], seg)
                          /\ ReturnSegment(n, seg.id)
         [] OTHER -> cs' = [cs EXCEPT !.segID = @ + 1] /\ Return(n)

\* OpenSegment on the leader: tx, Current(), doOpenSegment.
OpenSegment(n, node, topic) ==
    /\ Begin(n, "seg_open", "open", topic, node, {})
    /\ UNCHANGED <<cs, leader, leaderChanges, decl>>

OpenSegmentReply(n) ==
    LET h == handler[n]
    IN /\ h.op = "seg_open" /\ h.pc = "open"
       /\ OpenTopicSegment(n, h.state, h.rec, h.arg)
       /\ UNCHANGED <<leader, leaderChanges, decl>>

\* SegmentRotate on the leader: state := Current(); an open old segment
\* must have the node as primary and is closed (Apply, Barrier); a closed
\* one goes straight to txOpenSegment; an unknown id is an error.
SegmentRotate(n, id, node) ==
    LET old == {s \in cs.open \cup cs.closed : s.id = id}
        isOpen == \E s \in cs.open : s.id = id
    IN /\ old # {}
       /\ isOpen => \E s \in cs.open : s.id = id /\ s.primary = node
       /\ Begin(n, "seg_rotate", IF isOpen THEN "apply" ELSE "open", id,
                [node |-> node, topic |-> (CHOOSE s \in old : TRUE).owner], {})
       /\ UNCHANGED <<cs, leader, leaderChanges, decl>>

\* s.Apply(CloseSegmentCommand)
RotateClose(n) ==
    LET h == handler[n]
    IN /\ h.op = "seg_rotate" /\ h.pc = "apply"
       /\ IF Leading(n)
            THEN /\ cs' = DoCloseSegment(cs, h.arg)
                 /\ Goto(n, "barrier")
            ELSE /\ Return(n) /\ UNCHANGED cs
       /\ UNCHANGED <<leader, leaderChanges, decl>>

\* txOpenSegment(state, request.NodeID, oldSegment.Topic), with the state
\* read at the top of the handler.  txOpenSegment is not in the
\* repository; it is taken to be doOpenSegment on the state it is given.
RotateOpen(n) ==
    LET h == handler[n]
    IN /\ h.op = "seg_rotate" /\ h.pc = "open"
       /\ OpenTopicSegment(n, h.state, h.rec.node, h.rec.topic)
       /\ UNCHANGED <<leader, leaderChanges, decl>>

(* QueueDeclare (handleAMQPv0ChannelMethod, server_amqp_v0.go), a client  *)
(* of CreateConsumerGroup on any node.  Passive declares and the error     *)
(* replies change no catalog state and are left to AmqpV0Session.         *)

\* state := Current(); the vhost must exist (else ChannelClose NotFound);
\* an existing group's bindings are copied into the request, which
\* CreateConsumerGroup will store in place of the group's bindings.
QueueDeclare(n, g) ==
    /\ decl[n] = Idle
    /\ g[1] \in cs.namespaces
    /\ decl' = [decl EXCEPT ![n] =
                 [group |-> g,
                  bindings |-> IF cs.groups[g] = NoGroup THEN {}
                               ELSE cs.groups[g].bindings]]
    /\ UNCHANGED <<cs, leader, leaderChanges, handler>>

\* s.CreateConsumerGroup(ctx, request): served by, or forwarded to, the
\* leader (LeaderOnly), where it runs as CreateConsumerGroup does.
QueueDeclareCreate(n, now) ==
    LET d == decl[n]
    IN /\ d # Idle
       /\ \A t \in d.bindings : <<d.group[1], t>> \in cs.topics
       /\ Begin(leader, "cg_create", "apply", d.group,
                [createdAt |-> now, bindings |-> d.bindings, from |-> "amqp"], {})
       /\ decl' = [decl EXCEPT ![n] = Idle]
       /\ UNCHANGED <<cs, leader, leaderChanges>>

\* The forwarded call fails (dial error, no leader elected): the connection
\* is closed with InternalError "create failed".
QueueDeclareFail(n) ==
    /\ decl[n] # Idle
    /\ decl' = [decl EXCEPT ![n] = Idle]
    /\ UNCHANGED <<cs, leader, leaderChanges, handler>>

(* Environment                                                             *)

\* Raft elects another leader; handlers running elsewhere keep running.
LeaderChange ==
    /\ leaderChanges < MaxLeaderChanges
    /\ \E m \in Nodes \ {leader} : leader' = m
    /\ leaderChanges' = leaderChanges + 1
    /\ UNCHANGED <<cs, handler, decl>>

Next ==
    \/ \E n \in Nodes :
         \/ \E g \in GroupIds, b \in SUBSET TopicNames, t \in Times :
              CreateConsumerGroup(n, g, b, t)
         \/ CreateApply(n) \/ Barrier(n)
         \/ CreateReconcile(n) \/ CreateOpenSegment(n)
         \/ \E g \in GroupIds : DeleteConsumerGroup(n, g)
         \/ DeleteApply(n) \/ DeleteSegments(n)
         \/ \E ns \in Namespaces : CreateNamespace(n, ns) \/ DeleteNamespace(n, ns)
         \/ CreateNamespaceApply(n) \/ DeleteNamespaceApply(n)
         \/ \E node \in Nodes, t \in TopicIds : OpenSegment(n, node, t)
         \/ \E id \in 1..MaxSegmentID, node \in Nodes : SegmentRotate(n, id, node)
         \/ OpenSegmentReply(n) \/ RotateClose(n) \/ RotateOpen(n)
    \/ \E n \in AmqpNodes :
         \/ \E g \in GroupIds : QueueDeclare(n, g)
         \/ \E t \in Times : QueueDeclareCreate(n, t)
         \/ QueueDeclareFail(n)
    \/ LeaderChange

Spec == Init /\ [][Next]_vars

\* Bounds the model: states past the last segment id are not explored.
StateConstraint == cs.segID <= MaxSegmentID

-----------------------------------------------------------------------------
(* Properties                                                              *)

\* Spec 5 (QueueDeclare -> ConsumerGroupCreate, QueueBind -> binding
\* updates of the group) and the binding copy in QueueDeclare: declaring a
\* queue that exists leaves its bindings alone, so when a redeclare's
\* CreateConsumerGroup is applied, every binding the group has then stays.
RedeclareKeepsBindings ==
    [][\A n \in Nodes :
         LET h == handler[n]
         IN /\ h.op = "cg_create" /\ h.pc = "apply" /\ h.rec.from = "amqp"
            /\ handler'[n].pc = "barrier"
            /\ cs.groups[h.arg] # NoGroup
            => cs.groups[h.arg].bindings \subseteq cs'.groups[h.arg].bindings]_vars

State == [namespaces : SUBSET Namespaces, topics : SUBSET TopicIds,
          groups : [GroupIds -> GroupRec \cup {NoGroup}],
          open : SUBSET Segment, closed : SUBSET Segment,
          segID : Nat, nodes : [Nodes -> {"ALIVE", "DEAD"}]]

TypeOK ==
    /\ cs \in State
    /\ leader \in Nodes
    /\ \A n \in Nodes : handler[n].pc \in
          {"idle", "apply", "barrier", "reconcile", "open", "segments", "panicked"}
    /\ decl \in [Nodes -> {Idle} \cup [group : GroupIds, bindings : SUBSET TopicNames]]

\* Spec 3 invariant 2, asserted by the panic in CreateConsumerGroup and the
\* "assigned to multiple nodes" error of Subscribe/ConsumerGroupWait: a
\* consumer group never has two open offset-commits segments, and no
\* handler reaches that panic.
AtMostOneOffsetsSegment ==
    /\ \A g \in GroupIds : Cardinality(FindOpenSegmentsFor(cs, "offsets", g)) <= 1
    /\ \A n \in Nodes : handler[n].pc # "panicked"

\* Spec 3 lifecycle: deleting a consumer group deletes its open
\* offset-commits segment, so an open offsets segment always belongs to an
\* existing group, except while DeleteConsumerGroup is between its group
\* delete and its segment deletes.
NoOrphanOffsetsSegment ==
    \A s \in cs.open :
        s.kind = "offsets" =>
            \/ cs.groups[s.owner] # NoGroup
            \/ \E n \in Nodes : /\ handler[n].op = "cg_delete"
                                /\ handler[n].pc = "segments"
                                /\ handler[n].arg = s.owner

\* Spec 3 (segment rotation): the segment id OpenSegment or SegmentRotate
\* replies with is open when the reply is sent, so the node writes its
\* messages to a segment that accepts them.
ReplySegmentOpen ==
    [][\A n \in Nodes :
         handler'[n].reply # 0 /\ handler[n].pc # "idle" =>
             \E s \in cs'.open : s.id = handler'[n].reply]_vars

=============================================================================
