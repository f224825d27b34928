---------------------------- MODULE AmqpV0Session ----------------------------
(***************************************************************************)
(* One AMQP 0-9-1 connection served by Server.ServeAMQPv0                  *)
(* (mq/server_amqp_v0.go).  A receiver goroutine moves frames from the     *)
(* socket into the `frames` channel; the serving loop takes them one at a  *)
(* time, keeps the map `channels` (id -> readyState | closingState) and    *)
(* answers on the same socket.  TCP and the `frames` channel are FIFO, so  *)
(* the two directions are modelled as sequences.  The peer is a client    *)
(* that follows the AMQP 0-9-1 channel rules (channel.close: "after        *)
(* sending this method, any received methods except Close and Close-OK    *)
(* MUST be discarded"; a Close is always answered with Close-Ok).          *)
(*                                                                         *)
(* handleAMQPv0ChannelMethod reads the cluster state and calls             *)
(* CreateTopic / DeleteTopic / CreateConsumerGroup; its outcome is         *)
(* abstracted to the set of results the code can return for each method.  *)
(***************************************************************************)
EXTENDS Naturals, Sequences

CONSTANTS
    Channels,   \* channel ids other than 0 (model values)
    MaxQueue    \* bound on frames in flight in each direction

\* The methods handleAMQPv0ChannelMethod serves, and what each may return:
\* nil (reply, or nothing with no-wait), a ChannelClose (vhost or passive
\* lookup failed) or a ConnectionClose with InternalError (CreateTopic /
\* DeleteTopic / CreateConsumerGroup failed).  Its SyntaxError closes
\* (an argument such as "shards" or "size" of the wrong type, and every
\* other method, the `default` case) are not outcomes here: the modelled
\* client sends only these three methods, with well-typed arguments.
Methods == {"ExchangeDeclare", "QueueDeclare", "ExchangeDelete"}
Outcomes == [ExchangeDeclare |-> {"ok", "channel_close", "connection_close"},
             QueueDeclare    |-> {"ok", "channel_close", "connection_close"},
             ExchangeDelete  |-> {"ok", "connection_close"}]

VARIABLES
    toServer,   \* frames sent by the client, not yet handled by the loop
    toClient,   \* frames sent by the server, not yet read by the client
    channels,   \* the server's map: channels[c] \in {"absent","ready","closing"}
    conn,       \* "open" while ServeAMQPv0 runs, "closed" once it returned
    closeCode,  \* reply code of the ConnectionClose the server sent, or "none"
    cli,        \* cli[c]: the client's view of channel c
    pending,    \* pending[c]: the client awaits the reply to a method on c
    cliConn,    \* the client's view of the connection
    sockErr     \* the error transport.Receive returned: "none", "eof", "malformed"

vars == <<toServer, toClient, channels, conn, closeCode, cli, pending, cliConn, sockErr>>

\* Channel 0, the connection's own channel.
Zero == "zero"

\* A frame: its channel, its method, and the no-wait bit of a method.
Frame(c, m) == [ch |-> c, m |-> m, nowait |-> FALSE]

MethodFrame(c, m, nowait) == [ch |-> c, m |-> m, nowait |-> nowait]

Init ==
    /\ toServer = <<>> /\ toClient = <<>>
    /\ channels = [c \in Channels |-> "absent"]
    /\ conn = "open" /\ closeCode = "none"
    /\ cli = [c \in Channels |-> "closed"]
    /\ pending = [c \in Channels |-> FALSE]
    /\ cliConn = "open"
    /\ sockErr = "none"

-----------------------------------------------------------------------------
(* The serving loop: each action takes the head of toServer.              *)

In == Head(toServer)

\* transport.Send: blocks while the client has MaxQueue unread frames
\* (TCP back-pressure); a send error is not modelled.
Send(f) == Len(toClient) < MaxQueue /\ toClient' = Append(toClient, f)

\* forceCloseAMQPv0: send ConnectionClose(code) and return.
ForceClose(code) ==
    /\ Send(Frame(Zero, "ConnectionClose"))
    /\ conn' = "closed" /\ closeCode' = code
    /\ UNCHANGED channels

Take == toServer' = Tail(toServer)

ClientSide == UNCHANGED <<cli, pending, cliConn, sockErr>>

\* Channel 0, ConnectionClose with a success code: ConnectionCloseOk, return.
SrvConnectionClose ==
    /\ conn = "open" /\ toServer # <<>>
    /\ In = Frame(Zero, "ConnectionClose")
    /\ Take /\ Send(Frame(Zero, "ConnectionCloseOk"))
    /\ conn' = "closed"
    /\ UNCHANGED <<channels, closeCode>> /\ ClientSide

\* HeartbeatFrame on channel 0: nothing to do.
SrvHeartbeat ==
    /\ conn = "open" /\ toServer # <<>>
    /\ In = Frame(Zero, "Heartbeat")
    /\ Take
    /\ UNCHANGED <<toClient, channels, conn, closeCode>> /\ ClientSide

\* ChannelOpen: an id already in the map is a ChannelError; otherwise the
\* channel is added as readyState and ChannelOpenOk sent.
SrvChannelOpen ==
    /\ conn = "open" /\ toServer # <<>>
    /\ In.m = "ChannelOpen"
    /\ Take
    /\ LET c == In.ch IN
       IF channels[c] # "absent"
         THEN ForceClose("ChannelError")
         ELSE /\ channels' = [channels EXCEPT ![c] = "ready"]
              /\ Send(Frame(c, "ChannelOpenOk"))
              /\ UNCHANGED <<conn, closeCode>>
    /\ ClientSide

\* Mutant: the channel is not deleted from the map.
SrvChannelCloseKeep ==
    /\ conn = "open" /\ toServer # <<>>
    /\ In.m = "ChannelClose"
    /\ Take
    /\ LET c == In.ch IN
       IF channels[c] = "absent"
         THEN ForceClose("ChannelError")
         ELSE Send(Frame(c, "ChannelCloseOk")) /\ UNCHANGED <<channels, conn, closeCode>>
    /\ ClientSide

\* Mutant: ChannelCloseOk is never sent.
SrvChannelCloseNoReply ==
    /\ conn = "open" /\ toServer # <<>>
    /\ In.m = "ChannelClose"
    /\ Take
    /\ LET c == In.ch IN
       IF channels[c] = "absent"
         THEN ForceClose("ChannelError")
         ELSE /\ channels' = [channels EXCEPT ![c] = "absent"]
              /\ UNCHANGED <<toClient, conn, closeCode>>
    /\ ClientSide

\* ChannelClose: unknown id is a ChannelError; otherwise (ready or
\* closing alike) the channel is deleted and ChannelCloseOk sent.
SrvChannelClose ==
    /\ conn = "open" /\ toServer # <<>>
    /\ In.m = "ChannelClose"
    /\ Take
    /\ LET c == In.ch IN
       IF channels[c] = "absent"
         THEN ForceClose("ChannelError")
         ELSE /\ channels' = [channels EXCEPT ![c] = "absent"]
              /\ Send(Frame(c, "ChannelCloseOk"))
              /\ UNCHANGED <<conn, closeCode>>
    /\ ClientSide

\* ChannelCloseOk: unknown id is a ChannelError, a channel that is not
\* closing a SyntaxError; otherwise the channel is deleted.
SrvChannelCloseOk ==
    /\ conn = "open" /\ toServer # <<>>
    /\ In.m = "ChannelCloseOk"
    /\ Take
    /\ LET c == In.ch IN
       CASE channels[c] = "absent" -> ForceClose("ChannelError")
         [] channels[c] = "ready" -> ForceClose("SyntaxError")
         [] OTHER -> /\ channels' = [channels EXCEPT ![c] = "absent"]
                     /\ UNCHANGED <<toClient, conn, closeCode>>
    /\ ClientSide

\* Any other method: unknown id is a ChannelError; otherwise
\* handleAMQPv0ChannelMethod runs, whatever the channel's state.  A
\* returned ChannelClose marks the channel closing and is sent; a returned
\* ConnectionClose is sent and the loop returns.
SrvMethod ==
    /\ conn = "open" /\ toServer # <<>>
    /\ In.m \in Methods
    /\ Take
    /\ LET c == In.ch IN
       IF channels[c] = "absent"
         THEN ForceClose("ChannelError")
         ELSE \E r \in Outcomes[In.m] :
                CASE r = "ok" /\ In.nowait ->
                       UNCHANGED <<toClient, channels, conn, closeCode>>
                  [] r = "ok" ->
                       /\ Send(Frame(c, In.m \o "Ok"))
                       /\ UNCHANGED <<channels, conn, closeCode>>
                  [] r = "channel_close" ->
                       /\ channels' = [channels EXCEPT ![c] = "closing"]
                       /\ Send(Frame(c, "ChannelClose"))
                       /\ UNCHANGED <<conn, closeCode>>
                  [] OTHER -> ForceClose("InternalError")
    /\ ClientSide

\* The heartbeats ticker: a HeartbeatFrame is sent on channel 0.
SrvHeartbeatTick ==
    /\ conn = "open"
    /\ Send(Frame(Zero, "Heartbeat"))
    /\ UNCHANGED <<toServer, channels, conn, closeCode>> /\ ClientSide

\* errc: the receiver goroutine's Receive failed.  The loop selects errc
\* at random among the ready cases, so frames already in `frames` may be
\* left unhandled.  A malformed frame is answered with ConnectionClose
\* (FrameError); any other error returns without a word to the peer.
SrvReceiveError ==
    /\ conn = "open" /\ sockErr # "none"
    /\ IF sockErr = "malformed"
         THEN ForceClose("FrameError")
         ELSE conn' = "closed" /\ UNCHANGED <<toClient, channels, closeCode>>
    /\ UNCHANGED toServer /\ ClientSide

\* s.closeC: the server shuts down, ConnectionForced.
SrvShutdown ==
    /\ conn = "open"
    /\ ForceClose("ConnectionForced")
    /\ UNCHANGED toServer /\ ClientSide

-----------------------------------------------------------------------------
(* The client: sends while it has not closed the connection, within the   *)
(* bound, and reads toClient in order.                                     *)

ServerSide == UNCHANGED <<channels, conn, closeCode>>

\* After a bad frame the receiver goroutine reads nothing more, so later
\* frames of the client are not modelled.
CanSend == cliConn = "open" /\ sockErr = "none" /\ Len(toServer) < MaxQueue

ClientSend(f) == toServer' = Append(toServer, f)

ClientOpen(c) ==
    /\ CanSend /\ cli[c] = "closed"
    /\ ClientSend(Frame(c, "ChannelOpen"))
    /\ cli' = [cli EXCEPT ![c] = "opening"]
    /\ UNCHANGED <<toClient, pending, cliConn, sockErr>> /\ ServerSide

\* A synchronous method waits for its reply; a no-wait one does not.
ClientMethod(c, m, nowait) ==
    /\ CanSend /\ cli[c] = "open" /\ ~pending[c]
    /\ ClientSend(MethodFrame(c, m, nowait))
    /\ pending' = [pending EXCEPT ![c] = ~nowait]
    /\ UNCHANGED <<toClient, cli, cliConn, sockErr>> /\ ServerSide

ClientClose(c) ==
    /\ CanSend /\ cli[c] = "open"
    /\ ClientSend(Frame(c, "ChannelClose"))
    /\ cli' = [cli EXCEPT ![c] = "closing"]
    /\ UNCHANGED <<toClient, pending, cliConn, sockErr>> /\ ServerSide

ClientHeartbeat ==
    /\ CanSend
    /\ ClientSend(Frame(Zero, "Heartbeat"))
    /\ UNCHANGED <<toClient, cli, pending, cliConn, sockErr>> /\ ServerSide

ClientConnectionClose ==
    /\ CanSend
    /\ ClientSend(Frame(Zero, "ConnectionClose"))
    /\ cliConn' = "closing"
    /\ UNCHANGED <<toClient, cli, pending, sockErr>> /\ ServerSide

\* The client reads the next frame.  A Close is answered with Close-Ok in
\* every state (also when its own Close crossed it); replies on a channel
\* the client is closing are discarded; a ConnectionClose or
\* ConnectionCloseOk ends the connection.
ClientReceive ==
    /\ toClient # <<>> /\ sockErr # "eof"
    /\ LET f == Head(toClient)
           c == f.ch
       IN /\ toClient' = Tail(toClient)
          /\ CASE f.m \in {"ConnectionClose", "ConnectionCloseOk"} ->
                    /\ cliConn' = "closed"
                    /\ UNCHANGED <<toServer, cli, pending>>
               [] f.m = "ChannelOpenOk" ->
                    /\ cli' = [cli EXCEPT ![c] = "open"]
                    /\ UNCHANGED <<toServer, pending, cliConn>>
               [] f.m = "ChannelClose" ->
                    /\ IF cliConn = "open"
                         THEN ClientSend(Frame(c, "ChannelCloseOk"))
                         ELSE UNCHANGED toServer
                    /\ cli' = [cli EXCEPT ![c] = IF @ = "closing" THEN @ ELSE "closed"]
                    /\ pending' = [pending EXCEPT ![c] = FALSE]
                    /\ UNCHANGED cliConn
               [] f.m = "Heartbeat" ->
                    UNCHANGED <<toServer, cli, pending, cliConn>>
               [] f.m = "ChannelCloseOk" ->
                    /\ cli' = [cli EXCEPT ![c] = "closed"]
                    /\ pending' = [pending EXCEPT ![c] = FALSE]
                    /\ UNCHANGED <<toServer, cliConn>>
               [] OTHER ->
                    /\ pending' = [pending EXCEPT ![c] = FALSE]
                    /\ UNCHANGED <<toServer, cli, cliConn>>
    /\ ServerSide /\ UNCHANGED sockErr

\* The client sends a frame transport.Receive rejects as malformed.
ClientMalformed ==
    /\ CanSend
    /\ sockErr' = "malformed"
    /\ UNCHANGED <<toServer, toClient, cli, pending, cliConn>> /\ ServerSide

\* The client's connection breaks: Receive returns an error (EOF, reset)
\* and the client reads nothing more.
ClientReset ==
    /\ cliConn # "closed" /\ sockErr = "none"
    /\ sockErr' = "eof" /\ cliConn' = "closed"
    /\ UNCHANGED <<toServer, toClient, cli, pending>> /\ ServerSide

-----------------------------------------------------------------------------

Next ==
    \/ SrvConnectionClose \/ SrvHeartbeat \/ SrvChannelOpen
    \/ SrvChannelClose \/ SrvChannelCloseOk \/ SrvMethod \/ SrvShutdown
    \/ SrvHeartbeatTick \/ SrvReceiveError
    \/ \E c \in Channels :
          \/ ClientOpen(c) \/ ClientClose(c)
          \/ \E m \in Methods, nw \in BOOLEAN : ClientMethod(c, m, nw)
    \/ ClientHeartbeat \/ ClientConnectionClose \/ ClientReceive
    \/ ClientMalformed \/ ClientReset

\* The serving loop and the client's reader run whenever they have a frame
\* (or, for the loop, an error on errc).  A heartbeat tick can keep the
\* loop's Send blocked for a while, but the loop's select picks among its
\* ready cases uniformly at random and the ticker fires once a period, so
\* a frame or error that is ready again and again is handled: strong
\* fairness for the loop.
Fairness ==
    /\ SF_vars(SrvConnectionClose \/ SrvHeartbeat \/ SrvChannelOpen
               \/ SrvChannelClose \/ SrvChannelCloseOk \/ SrvMethod)
    /\ SF_vars(SrvReceiveError)
    /\ WF_vars(ClientReceive)

Spec == Init /\ [][Next]_vars /\ Fairness

-----------------------------------------------------------------------------
(* Properties                                                              *)

\* Once every frame sent has been read, the server's map and the client
\* agree on every channel: ServeAMQPv0 holds a channel exactly when the
\* client has it open, and none is left closingState.
ChannelViewsAgree ==
    conn = "open" /\ toServer = <<>> /\ toClient = <<>> =>
        \A c \in Channels :
            /\ channels[c] = "absent" <=> cli[c] = "closed"
            /\ channels[c] = "ready" <=> cli[c] = "open"

\* A channel the client closes is eventually closed for it (Close-Ok
\* received) or the connection ends: the serving loop answers every
\* ChannelClose.
CloseCompletes ==
    \A c \in Channels : cli[c] = "closing" ~> cli[c] = "closed" \/ cliConn = "closed"

\* AMQP 0-9-1 reserves ChannelError and SyntaxError for a peer that breaks
\* the protocol: ServeAMQPv0 never closes the connection of a conforming
\* client with either code.
ConformingClientNotBlamed == closeCode \notin {"ChannelError", "SyntaxError"}

====
