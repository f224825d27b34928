--------------------------- MODULE AmqpV1Session ----------------------------
(***************************************************************************)
(* mq/server_amqp_v1.go (ServeAMQPv1) and mq/amqp/v1/transport.go          *)
(* (Transport.Receive).  The server reads the client's Open, negotiates    *)
(* the idle timeout, then starts a reader goroutine that decodes frames    *)
(* into the `frames` channel and reports its first error on                *)
(* `receiveErrors`, while the serving loop selects on shutdown, frames and *)
(* the heartbeat ticker.                                                   *)
(*                                                                         *)
(* A frame on the wire is a record: its 8-byte header (size, data offset,  *)
(* type) and the size-8 bytes that follow it (`rest`: the extended header  *)
(* and then the body).  Body bytes are tokens: "00" the descriptor         *)
(* constructor, a descriptor name, "f" the performative's fields.          *)
(***************************************************************************)
EXTENDS Naturals, Sequences

CONSTANTS
    Width,            \* bits of the uint32 arithmetic of Receive (checked narrower)
    FrameMax,         \* t.frameMax (MinMaxFrameSize)
    IdleTimeouts,     \* idle timeouts (ms) a client may propose in its Open
    MaxQueue,         \* unread frames a TCP direction holds before Send blocks
    MaxPerformatives, \* bound on the client's performatives
    ClientMaySilence  \* whether the client may stop sending

Modulus == 2 ^ Width

\* Go uint32 arithmetic: results wrap modulo 2^Width.
U(x) == x % Modulus

\* The descriptor switch of Receive: descriptor token -> frame kind.
Performative ==
    [open |-> "Open", begin |-> "Begin", attach |-> "Attach", close |-> "Close"]

VARIABLES
    wire,           \* client -> server frames not yet read
    toClient,       \* server -> client frames not yet read
    srv,            \* "expect_open", "serving", "closed", "errored", "crashed"
    idle,           \* negotiated idle timeout (0 before negotiation)
    reader,         \* reader goroutine: "none", "running", "stopped"
    frames,         \* the frames channel
    receiveErrors,  \* the receiveErrors channel (capacity 1)
    cli,            \* client: "start", "open", "silent"
    sent            \* history: descriptors the client sent after Open

vars == <<wire, toClient, srv, idle, reader, frames, receiveErrors,
          cli, sent>>

\* A frame as a client writes it: data offset 2, no extended header; `idle`
\* is the idle-time-out field of an Open, 0 in any other frame.
WireFrame(body) ==
    [size |-> 8 + Len(body), doff |-> 2, type |-> 0, rest |-> body, idle |-> 0]

EmptyFrame == WireFrame(<<>>)

PerformativeFrame(d) == WireFrame(<<"00", d, "f">>)

OpenFrame(t) == [PerformativeFrame("open") EXCEPT !.idle = t]

Init ==
    /\ wire = <<>> /\ toClient = <<>>
    /\ srv = "expect_open" /\ idle = 0
    /\ reader = "none" /\ frames = <<>> /\ receiveErrors = <<>>
    /\ cli = "start" /\ sent = <<>>

-----------------------------------------------------------------------------
(* Transport.Receive                                                       *)

Err(e) == [ok |-> FALSE, err |-> e]

\* Receive on one frame: the size check, dataSize = Size-8 and the slice
\* t.data[:dataSize-(4*doff-8)] in uint32 arithmetic, then the descriptor
\* constructor, the descriptor and the fields.  A size below 8 makes
\* dataSize wrap and ReadFull wait for ~2^32 bytes; a data offset below 2
\* makes the slice reach past this frame's bytes.  A client that follows
\* AMQP 1.0 produces neither; both are kept as outcomes of their own.
Receive(f) ==
    LET dataSize == U(f.size - 8)
        n == U(dataSize - U(4 * f.doff - 8))
        buf == SubSeq(f.rest, 1, n)
    IN CASE f.size > FrameMax -> Err("frame_too_big")
         [] f.size < 8 -> Err("blocked")
         [] f.type \notin {0, 1} -> Err("malformed")
         [] n > dataSize -> Err("past_frame")
         [] Len(buf) < 2 -> Err("read_descriptor")
         [] buf[1] # "00" -> Err("malformed")
         [] buf[2] \notin DOMAIN Performative -> Err("malformed")
         [] Len(buf) < 3 -> Err("unmarshal")
         [] OTHER -> [ok |-> TRUE, kind |-> Performative[buf[2]]]

-----------------------------------------------------------------------------
(* The serving goroutine                                                   *)

\* transport.Send: blocks while the client has MaxQueue unread frames.
Send(fs) == Len(toClient) + Len(fs) <= MaxQueue /\ toClient' = toClient \o fs

\* Expect(&clientOpen), then the idle-timeout check: below 1000 ms or above
\* 3600000 ms the server sends its Open and a Close and returns; otherwise
\* it answers with the client's timeout and starts the reader goroutine.
ExpectOpen ==
    /\ srv = "expect_open" /\ wire # <<>>
    /\ wire' = Tail(wire)
    /\ LET r == Receive(Head(wire)) IN
       IF ~r.ok \/ r.kind # "Open"
         THEN srv' = "errored" /\ UNCHANGED <<toClient, idle, reader>>
         ELSE LET t == Head(wire).idle IN
              IF t < 1000 \/ t > 3600000
                THEN /\ Send(<<"Open", "Close">>)
                     /\ srv' = "closed" /\ UNCHANGED <<idle, reader>>
                ELSE /\ Send(<<"Open">>)
                     /\ srv' = "serving" /\ idle' = t /\ reader' = "running"
    /\ UNCHANGED <<frames, receiveErrors, cli, sent>>

\* A decoded frame: panic("wip") ends the process.
SrvFrame ==
    /\ srv = "serving" /\ frames # <<>>
    /\ frames' = Tail(frames) /\ srv' = "crashed"
    /\ UNCHANGED <<wire, toClient, idle, reader, receiveErrors, cli, sent>>

\* The heartbeat ticker: transport.Send(nil), an empty frame.
SrvHeartbeat ==
    /\ srv = "serving"
    /\ Send(<<"Empty">>)
    /\ UNCHANGED <<wire, srv, idle, reader, frames, receiveErrors, cli, sent>>

\* s.closed: forceCloseAMQPv1 sends Close and returns.
SrvShutdown ==
    /\ srv = "serving"
    /\ Send(<<"Close">>) /\ srv' = "closed"
    /\ UNCHANGED <<wire, idle, reader, frames, receiveErrors, cli, sent>>

-----------------------------------------------------------------------------
(* The reader goroutine                                                    *)

\* transport.Receive, then `frames <- frame` (capacity 64, larger than any
\* bounded run), or `receiveErrors <- err` and return.
ReaderReceive ==
    /\ reader = "running" /\ wire # <<>>
    /\ wire' = Tail(wire)
    /\ LET r == Receive(Head(wire)) IN
       IF r.ok
         THEN /\ frames' = Append(frames, r.kind)
              /\ UNCHANGED <<reader, receiveErrors>>
         ELSE /\ receiveErrors' = <<r.err>> /\ reader' = "stopped"
              /\ UNCHANGED frames
    /\ UNCHANGED <<toClient, srv, idle, cli, sent>>

\* The read deadline (2 x idle timeout) passes with no byte from a silent
\* client: Receive fails with a timeout.
ReaderTimeout ==
    /\ reader = "running" /\ wire = <<>> /\ cli = "silent"
    /\ receiveErrors' = <<"timeout">> /\ reader' = "stopped"
    /\ UNCHANGED <<wire, toClient, srv, idle, frames, cli, sent>>

-----------------------------------------------------------------------------
(* An AMQP 1.0 client: Open first, then performatives and, between them,   *)
(* empty frames as heartbeats; it reads what the server sends.             *)

ClientSide == UNCHANGED <<toClient, srv, idle, reader, frames, receiveErrors>>

ClientOpen ==
    /\ cli = "start"
    /\ \E t \in IdleTimeouts :
         wire' = <<OpenFrame(t)>>
    /\ cli' = "open" /\ UNCHANGED sent /\ ClientSide

ClientPerformative ==
    /\ cli = "open" /\ Len(wire) < MaxQueue /\ Len(sent) < MaxPerformatives
    /\ \E d \in {"begin", "attach", "close"} :
         /\ wire' = Append(wire, PerformativeFrame(d))
         /\ sent' = Append(sent, d)
    /\ UNCHANGED cli /\ ClientSide

ClientHeartbeat ==
    /\ cli = "open" /\ Len(wire) < MaxQueue
    /\ wire' = Append(wire, EmptyFrame)
    /\ UNCHANGED <<cli, sent>> /\ ClientSide

ClientSilent ==
    /\ ClientMaySilence /\ cli = "open"
    /\ cli' = "silent"
    /\ UNCHANGED <<wire, sent>> /\ ClientSide

ClientRead ==
    /\ toClient # <<>>
    /\ toClient' = Tail(toClient)
    /\ UNCHANGED <<wire, srv, idle, reader, frames, receiveErrors, cli, sent>>

Next ==
    \/ ExpectOpen \/ SrvFrame \/ SrvHeartbeat \/ SrvShutdown
    \/ ReaderReceive \/ ReaderTimeout
    \/ ClientOpen \/ ClientPerformative \/ ClientHeartbeat \/ ClientSilent
    \/ ClientRead

\* The serving loop, the reader goroutine and the client's reads are
\* always scheduled again; the ticker keeps firing.
Fairness ==
    /\ WF_vars(ExpectOpen) /\ WF_vars(SrvFrame) /\ WF_vars(SrvHeartbeat)
    /\ WF_vars(ReaderReceive) /\ WF_vars(ReaderTimeout) /\ WF_vars(ClientRead)

Spec == Init /\ [][Next]_vars /\ Fairness

-----------------------------------------------------------------------------
(* Properties                                                              *)

\* Spec 4.6 and its propagation policy ("frame-level errors close the
\* enclosing scope"): once the reader goroutine has stopped on an error,
\* ServeAMQPv1 eventually returns instead of serving a connection nobody
\* reads any more.
ReaderFailureEndsConnection ==
    reader = "stopped" ~> srv \in {"closed", "errored", "crashed"}
=============================================================================
