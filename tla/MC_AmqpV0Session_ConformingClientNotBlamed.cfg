\* Two channels, up to two unread frames in flight towards the server.
\* The connection may end (ServeAMQPv0 returns), so deadlock is not an error.
CONSTANTS
    c1 = c1
    c2 = c2
    Channels = {c1, c2}
    MaxQueue = 2
SPECIFICATION Spec
CHECK_DEADLOCK FALSE
INVARIANT ConformingClientNotBlamed
