------------------------- MODULE MC_ClusterCatalog --------------------------
EXTENDS ClusterCatalog

CONSTANTS n1, n2, ns1, t1   \* model values naming nodes, the namespace and the topic

MCNodeOrder == <<n1, n2>>
MCShards == [t \in TopicNames |-> 1]
MCInitTopics == {<<ns1, t1>>}

\* Bound of the catalog run: QueueDeclares are explored only before the
\* leadership change, so no declare is pending (built, or running on the
\* leader) once leadership has moved.
MCDeclareBeforeLeaderChange ==
    leaderChanges > 0 =>
        \A n \in Nodes : /\ decl[n] = Idle
                         /\ handler[n].op = "cg_create" => handler[n].rec.from = "client"
=============================================================================
