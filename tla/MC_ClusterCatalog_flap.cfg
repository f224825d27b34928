\* Two leadership changes: a leader can lose leadership while a
\* CreateConsumerGroup is between its reconcile and its segment open, and
\* regain it after the other node has served a CreateConsumerGroup.
CONSTANTS
    n1 = n1
    n2 = n2
    ns1 = ns1
    t1 = t1
    Nodes = {n1, n2}
    NodeOrder <- MCNodeOrder
    Namespaces = {ns1}
    GroupNames = {g1}
    TopicNames = {t1}
    Shards <- MCShards
    InitTopics <- MCInitTopics
    Times = {1, 2}
    MaxSegmentID = 2
    MaxLeaderChanges = 2
    AmqpNodes = {}
    NoGroup = NoGroup
    Idle = Idle
SPECIFICATION Spec
CONSTRAINT StateConstraint
INVARIANT AtMostOneOffsetsSegment
