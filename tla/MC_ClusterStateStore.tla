----------------------- MODULE MC_ClusterStateStore -------------------------
EXTENDS ClusterStateStore

\* Three raft entries, the middle one a nil command (Do with cmd == nil).
MCLog == <<Cmd, NoCmd, Cmd>>
=============================================================================
