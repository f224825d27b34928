-------------------------- MODULE MC_AmqpV1Session --------------------------
EXTENDS AmqpV1Session

\* Idle timeouts a client proposes: too short, accepted, too long.
MCIdleTimeouts == {500, 60000, 4000000}
=============================================================================
