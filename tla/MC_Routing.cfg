CONSTANTS
    Absent = Absent
    NilHeaders = NilHeaders
    NoInput = NoInput
    MaxPatternLen = 5
    MaxKeyLen = 5
    TopicNames = {t1, t2}
    HeaderNames = {h1, h2}
    HeaderValues = {v1}
    MaxBindings = 2
SPECIFICATION Spec
INVARIANT RoutingKeyMatchesSpecOnNonEmptySegments
INVARIANT KeyBindingsMatchSpec
\* Enumeration of inputs: it ends when the strings and the binding list reach their bounds.
CHECK_DEADLOCK FALSE
