CONSTANTS
    n1 = n1
    n2 = n2
    ns1 = ns1
    t1 = t1
    Nodes = {n1, n2}
    NodeOrder <- MCNodeOrder
    Namespaces = {ns1}
    GroupNames = {g1}
    TopicNames = {t1}
    Shards <- MCShards
    InitTopics <- MCInitTopics
    Times = {1, 2}
    MaxSegmentID = 2
    MaxLeaderChanges = 0
    AmqpNodes = {n2}
    NoGroup = NoGroup
    Idle = Idle
SPECIFICATION Spec
CONSTRAINT StateConstraint
PROPERTY RedeclareKeepsBindings
