------------------------------- MODULE Attach --------------------------------
(***************************************************************************)
(* One attach connection, end to end: the session's subscription, the two  *)
(* goroutines of serveAttach (server.go), the socket, the Attachment's     *)
(* read loop (client.go) and the program that consumes its Output.         *)
(*                                                                         *)
(* As in Session, the terminal is a version number.  A message that tells  *)
(* of a resize becomes two frames, the size and the repaint behind it.     *)
(* The session is reduced to what one subscription shows of it.            *)
(***************************************************************************)
EXTENDS Naturals, Sequences

CONSTANTS
  SubBuffer,    \* capacity of Subscription.ch
  WireBuffer,   \* frames the socket holds in each direction
  ClientBuffer, \* capacity of Attachment.output
  MaxVersion,   \* bound: number of terminal versions
  MaxInputs,    \* bound: input frames the client sends
  MaxResizes    \* bound: resize frames the client sends

ASSUME BuffersAssumption == {SubBuffer, WireBuffer, ClientBuffer} \subseteq Nat \ {0}
ASSUME BoundsAssumption == {MaxVersion, MaxInputs, MaxResizes} \subseteq Nat

VARIABLES
  \* --- the session, as this subscription shows it
  version,      \* version of the terminal
  resyncs,      \* Subscription.resync
  queue,        \* Subscription.ch
  missed,       \* Subscription.missed
  finished,     \* Subscription.done
  viewed,       \* the viewer's size statement stands
  hungup,       \* the PTY has lost its slave side, or its master is closed
  exited,       \* Session.done is closed
  \* --- serveAttach
  pump,         \* its output goroutine: "range", "select" or "ended"
  held,         \* frames the pump has still to write for the message it took
  reader,       \* its frame loop: "read", "write", "join" or "ended"
  detached,     \* the detached channel is closed
  serverClosed, \* the server closed the connection
  daemonDied,   \* and everything in it went with it
  \* --- the socket
  down, up,     \* frames in flight to the client, and to the server
  \* --- the client
  clientClosed, \* Attachment.Close closed the connection
  loop,         \* Attachment.readLoop: "read" or "ended"
  hand,         \* the message it is about to put on output, as a sequence
  output,       \* Attachment.output
  exitSeen,     \* Attachment.exited holds the exit code
  shown,        \* version of the last frame the program consumed
  inputs,       \* input frames sent so far
  resizes       \* resize frames sent so far

session == <<version, resyncs, queue, missed, finished, viewed, hungup, exited>>
serving == <<pump, held, reader, detached, serverClosed, daemonDied>>
wires   == <<down, up>>
client  == <<clientClosed, loop, hand, output, exitSeen, shown, inputs, resizes>>
vars    == <<session, serving, wires, client>>

Msg(kind, v) == [kind |-> kind, version |-> v]
Frame(type, v) == [type |-> type, version |-> v]
Exited == Frame("exited", 0)

\* The snapshot has arrived: AttachWith answered with a live subscription, or
\* with a finished one for a session that is over.
Init ==
  /\ version = 0 /\ resyncs \in BOOLEAN /\ queue = << >> /\ missed = FALSE
  /\ \/ finished = FALSE /\ exited = FALSE /\ viewed \in BOOLEAN
     \/ finished = TRUE /\ exited \in BOOLEAN /\ viewed = FALSE
  /\ hungup \in BOOLEAN /\ (finished <=> (exited \/ hungup))
  /\ pump = "range" /\ held = << >> /\ reader = "read"
  /\ detached = FALSE /\ serverClosed = FALSE /\ daemonDied = FALSE
  /\ down = << >> /\ up = << >>
  /\ clientClosed = FALSE /\ loop = "read" /\ hand = << >> /\ output = << >>
  /\ exitSeen = FALSE /\ shown = 0 /\ inputs = 0 /\ resizes = 0

-----------------------------------------------------------------------------
(***************************************************************************)
(* The session.                                                            *)
(***************************************************************************)

\* deliver: the terminal has moved on.  A full plain subscription is dropped, with
\* its statement; a full resyncing one is owed state.
Deliver(kind) ==
  /\ ~hungup /\ version < MaxVersion /\ version' = version + 1
  /\ LET open == ~finished /\ ~missed
         full == open /\ Len(queue) >= SubBuffer
     IN /\ queue' = IF open /\ ~full THEN Append(queue, Msg(kind, version + 1)) ELSE queue
        /\ missed' = (missed \/ (full /\ resyncs))
        /\ finished' = (finished \/ (full /\ ~resyncs))
        /\ viewed' = (viewed /\ ~(full /\ ~resyncs))
  /\ UNCHANGED <<resyncs, hungup, exited, serving, wires, client>>

\* flushResyncsLocked, from the timer.
Resynchronize ==
  /\ missed /\ Len(queue) < SubBuffer
  /\ missed' = FALSE /\ queue' = Append(queue, Msg("resync", version))
  /\ UNCHANGED <<version, resyncs, finished, viewed, hungup, exited, serving, wires,
                 client>>

\* Mutant of Evict: the final state is sent without making room for it.
EvictNothing == queue

\* The last call makes room for the final state.
Evict == IF Len(queue) >= SubBuffer THEN Tail(queue) ELSE queue

\* The stream ends: the read loop returns, or close() takes the subscription.  A
\* subscription owed state gets it, at the cost of its oldest message.
EndStream ==
  /\ ~hungup /\ hungup' = TRUE
  /\ finished' = TRUE /\ missed' = FALSE
  /\ queue' = IF missed THEN Append(Evict, Msg("resync", version)) ELSE queue
  /\ UNCHANGED <<version, resyncs, viewed, exited, serving, wires, client>>

\* waitLoop: the child is reaped.
Exit ==
  /\ ~exited /\ ~daemonDied /\ exited' = TRUE
  /\ UNCHANGED <<version, resyncs, queue, missed, finished, viewed, hungup, serving,
                 wires, client>>

-----------------------------------------------------------------------------
(***************************************************************************)
(* serveAttach: the output pump.                                           *)
(***************************************************************************)

\* The frames one message is written as.
FramesOf(m) ==
  CASE m.kind = "resync"  -> <<Frame("snapshot", m.version)>>
    [] m.kind = "repaint" -> <<Frame("resize", m.version), Frame("output", m.version)>>
    [] m.kind = "bytes"   -> <<Frame("output", m.version)>>

Broken == clientClosed \/ serverClosed

\* Mutant of PumpTake: an exit cuts the stream short.
PumpTakeEager ==
  /\ pump = "range" /\ held = << >>
  /\ \/ /\ queue # << >> /\ held' = FramesOf(Head(queue)) /\ queue' = Tail(queue)
        /\ UNCHANGED pump
     \/ /\ exited /\ pump' = "select"
        /\ UNCHANGED <<held, queue>>
  /\ UNCHANGED <<version, resyncs, missed, finished, viewed, hungup, exited, reader,
                 detached, serverClosed, daemonDied, wires, client>>

\* The pump takes a message off the subscription, or finds it over.
PumpTake ==
  /\ pump = "range" /\ held = << >>
  /\ \/ /\ queue # << >> /\ held' = FramesOf(Head(queue)) /\ queue' = Tail(queue)
        /\ UNCHANGED pump
     \/ /\ queue = << >> /\ finished /\ pump' = "select"
        /\ UNCHANGED <<held, queue>>
  /\ UNCHANGED <<version, resyncs, missed, finished, viewed, hungup, exited, reader,
                 detached, serverClosed, daemonDied, wires, client>>

\* It writes a frame: the write blocks while the socket is full, and fails on a
\* connection that is gone, which the pump then closes.
PumpWrite ==
  /\ pump = "range" /\ held # << >>
  /\ \/ /\ ~Broken /\ Len(down) < WireBuffer
        /\ down' = Append(down, Head(held)) /\ held' = Tail(held)
        /\ UNCHANGED <<pump, serverClosed>>
     \/ /\ Broken /\ pump' = "ended" /\ held' = << >> /\ serverClosed' = TRUE
        /\ UNCHANGED down
  /\ UNCHANGED <<session, reader, detached, daemonDied, up, client>>

\* Mutant of PumpSelect: polls the exit instead of waiting for it.
PumpPolls ==
  /\ pump = "select" /\ pump' = "ended"
  /\ IF exited /\ ~Broken /\ Len(down) < WireBuffer THEN down' = Append(down, Exited)
                                                    ELSE UNCHANGED down
  /\ UNCHANGED <<session, held, reader, detached, serverClosed, daemonDied, up, client>>

\* The stream is over: announce the exit, waiting for it if need be, or leave if
\* the client did.  With both true the select picks either.
PumpSelect ==
  /\ pump = "select" /\ pump' = "ended"
  /\ \/ exited /\ ~Broken /\ Len(down) < WireBuffer /\ down' = Append(down, Exited)
     \/ exited /\ Broken /\ UNCHANGED down
     \/ detached /\ UNCHANGED down
  /\ UNCHANGED <<session, held, reader, detached, serverClosed, daemonDied, up, client>>

-----------------------------------------------------------------------------
(***************************************************************************)
(* serveAttach: the frame loop.                                            *)
(***************************************************************************)

\* Mutant of Leave: detaches without closing the subscription.
LeaveSubscribed ==
  /\ detached' = TRUE /\ reader' = "join"
  /\ UNCHANGED <<finished, missed, viewed>>

\* detach() and sub.Close(): the stream ends and the viewer's statement retires.
Leave ==
  /\ detached' = TRUE /\ reader' = "join"
  /\ finished' = TRUE /\ missed' = FALSE /\ viewed' = FALSE

\* A frame arrives, or the connection ends: the client's hang-up is seen behind
\* the frames it sent, the server's own close at once.
ReadFrame ==
  /\ reader = "read"
  /\ \/ /\ up # << >> /\ ~serverClosed /\ up' = Tail(up)
        /\ \/ Head(up) = "input" /\ reader' = "write" /\ UNCHANGED viewed
           \/ Head(up) = "resize" /\ viewed' = (viewed \/ ~finished) /\ UNCHANGED reader
        /\ UNCHANGED <<finished, missed, detached>>
     \/ /\ serverClosed \/ (clientClosed /\ up = << >>)
        /\ Leave /\ UNCHANGED up
  /\ UNCHANGED <<version, resyncs, queue, hungup, exited, pump, held, serverClosed, daemonDied,
                 down, client>>

\* Session.Write returns once the child has taken the input.
WriteInput ==
  /\ reader = "write" /\ reader' = "read"
  /\ UNCHANGED <<session, pump, held, detached, serverClosed, daemonDied, wires, client>>

\* Session.Write fails: nobody is at the other end of the PTY any more.
WriteFails ==
  /\ reader = "write" /\ hungup /\ Leave
  /\ UNCHANGED <<version, resyncs, queue, hungup, exited, pump, held, serverClosed, daemonDied,
                 wires, client>>

\* <-done, and serveConn's deferred close of the connection.
Join ==
  /\ reader = "join" /\ pump = "ended"
  /\ reader' = "ended" /\ serverClosed' = TRUE
  /\ UNCHANGED <<session, pump, held, detached, daemonDied, wires, client>>

-----------------------------------------------------------------------------
(***************************************************************************)
(* The client.                                                             *)
(***************************************************************************)

\* Mutant of ClientRead: a resync takes a route of its own, past the queue.
ClientReadSideways ==
  /\ loop = "read" /\ hand = << >> /\ ~clientClosed /\ down # << >> /\ down' = Tail(down)
  /\ \/ Head(down).type = "snapshot" /\ output' = <<Head(down)>> \o output
        /\ UNCHANGED <<exitSeen, hand>>
     \/ Head(down).type \in {"output", "resize"} /\ hand' = <<Head(down)>>
        /\ UNCHANGED <<exitSeen, output>>
     \/ Head(down) = Exited /\ exitSeen' = TRUE /\ UNCHANGED <<hand, output>>
  /\ UNCHANGED <<session, serving, up, clientClosed, loop, shown, inputs, resizes>>

\* readLoop reads a frame: the exit code goes to its own channel, everything else
\* on to output.
ClientRead ==
  /\ loop = "read" /\ hand = << >> /\ ~clientClosed /\ down # << >> /\ down' = Tail(down)
  /\ \/ Head(down) # Exited /\ hand' = <<Head(down)>> /\ UNCHANGED exitSeen
     \/ Head(down) = Exited /\ exitSeen' = TRUE /\ UNCHANGED hand
  /\ UNCHANGED <<session, serving, up, clientClosed, loop, output, shown, inputs, resizes>>

ClientPut ==
  /\ hand # << >> /\ Len(output) < ClientBuffer
  /\ output' = Append(output, Head(hand)) /\ hand' = << >>
  /\ UNCHANGED <<session, serving, wires, clientClosed, loop, exitSeen, shown, inputs,
                 resizes>>

\* Mutant of ClientEnd: a connection the server closed is given up with frames unread.
ClientEndEarly ==
  /\ loop = "read" /\ hand = << >> /\ Broken
  /\ loop' = "ended"
  /\ UNCHANGED <<session, serving, wires, clientClosed, hand, output, exitSeen, shown,
                 inputs, resizes>>

\* readLoop's read fails: it closes output.  Closing the connection as well has no
\* effect by then: one of its ends is closed and the other has been read out.
ClientEnd ==
  /\ loop = "read" /\ hand = << >>
  /\ clientClosed \/ (serverClosed /\ down = << >>)
  /\ loop' = "ended"
  /\ UNCHANGED <<session, serving, wires, clientClosed, hand, output, exitSeen, shown,
                 inputs, resizes>>

\* External: the program takes a message from Output.
Consume ==
  /\ output # << >> /\ output' = Tail(output) /\ shown' = Head(output).version
  /\ UNCHANGED <<session, serving, wires, clientClosed, loop, hand, exitSeen, inputs,
                 resizes>>

\* Attachment.Close
ClientClose ==
  /\ ~clientClosed /\ clientClosed' = TRUE
  /\ UNCHANGED <<session, serving, wires, loop, hand, output, exitSeen, shown, inputs,
                 resizes>>

\* Attachment.Write and Attachment.Resize: a frame, once the socket has room.
SendInput ==
  /\ ~Broken /\ Len(up) < WireBuffer /\ up' = Append(up, "input")
  /\ inputs < MaxInputs /\ inputs' = inputs + 1
  /\ UNCHANGED <<session, serving, down, clientClosed, loop, hand, output, exitSeen, shown,
                 resizes>>

SendResize ==
  /\ ~Broken /\ Len(up) < WireBuffer /\ up' = Append(up, "resize")
  /\ resizes < MaxResizes /\ resizes' = resizes + 1
  /\ UNCHANGED <<session, serving, down, clientClosed, loop, hand, output, exitSeen, shown,
                 inputs>>

\* External: the daemon dies, with its session; what it had written is still read.
DaemonDies ==
  /\ ~daemonDied /\ daemonDied' = TRUE
  /\ queue' = << >> /\ missed' = FALSE /\ finished' = TRUE /\ viewed' = FALSE
  /\ hungup' = TRUE
  /\ pump' = "ended" /\ held' = << >> /\ reader' = "ended" /\ serverClosed' = TRUE
  /\ up' = << >>
  /\ UNCHANGED <<version, resyncs, exited, detached, down, client>>

-----------------------------------------------------------------------------
\* The session, the daemon and the client's read loop.
Carry ==
  \/ Deliver("bytes") \/ Deliver("repaint") \/ Resynchronize \/ EndStream \/ Exit
  \/ PumpTake \/ PumpWrite \/ PumpSelect
  \/ ReadFrame \/ WriteInput \/ WriteFails \/ Join
  \/ ClientRead \/ ClientPut \/ ClientEnd \/ DaemonDies

\* The program that holds the Attachment.
Use == Consume \/ ClientClose \/ SendInput \/ SendResize

Next == Carry \/ Use

Spec == Init /\ [][Next]_vars

-----------------------------------------------------------------------------
(***************************************************************************)
(* Properties.                                                             *)
(***************************************************************************)

Frames == [type : {"output", "resize", "snapshot", "exited"}, version : Nat]

\* The types of the connection's state; no buffer exceeds its capacity.
TypeOK ==
  /\ version \in Nat /\ shown \in Nat /\ inputs \in Nat /\ resizes \in Nat
  /\ queue \in Seq([kind : {"bytes", "repaint", "resync"}, version : Nat])
  /\ {held, down, hand, output} \subseteq Seq(Frames) /\ up \in Seq({"input", "resize"})
  /\ Len(queue) <= SubBuffer /\ Len(down) <= WireBuffer /\ Len(up) <= WireBuffer
  /\ Len(output) <= ClientBuffer /\ Len(hand) <= 1 /\ Len(held) <= 2
  /\ {resyncs, missed, finished, viewed, hungup, exited, detached, serverClosed,
      clientClosed, exitSeen, daemonDied} \subseteq BOOLEAN
  /\ pump \in {"range", "select", "ended"} /\ loop \in {"read", "ended"}
  /\ reader \in {"read", "write", "join", "ended"}

\* What is still to be shown, oldest first: what the client has read and, unless
\* it hung up, what is on the socket, what the pump holds and the next message.
Pipeline ==
  output \o hand \o
    IF clientClosed THEN << >>
    ELSE down \o held \o (IF queue = << >> THEN << >> ELSE FramesOf(Head(queue)))

\* Frame b may follow frame a: a size is followed by its own repaint, everything
\* else by something newer or by the exit, and the exit by nothing.
Follows(a, b) ==
  /\ a # Exited
  /\ IF a.type = "resize" THEN b = Frame("output", a.version)
                          ELSE b = Exited \/ b.version > a.version

\* One stream, in terminal order: no output ever lands on top of the state that
\* superseded it, a size reaches the client just ahead of the repaint drawn for it,
\* and the exit is announced behind all of it (the Message comment in client.go,
\* serveAttach's pump).
InTerminalOrder ==
  /\ \A i \in 1..Len(Pipeline) - 1 : Follows(Pipeline[i], Pipeline[i + 1])
  /\ Pipeline # << >> => Pipeline[1] = Exited \/ Pipeline[1].version >= shown

\* The exit closes the story: when Exited yields, everything the session said is
\* already in Output (serveAttach announces it behind the stream).
ExitIsLast ==
  exitSeen => hand = << >> /\ down = << >> /\ held = << >> /\ queue = << >>

\* A client's hang-up is noticed, both goroutines of serveAttach end and the size
\* statement retires, whatever the session, the pump and the socket are doing.
HangUpRetires == clientClosed ~> (reader = "ended" /\ pump = "ended" /\ ~viewed)

\* What was written to the socket is still shown, to a program that stays: frames in
\* flight outlive the server's close and the daemon's death (readLoop ends on a read
\* error, which comes behind the frames; Output yields what is in it before it ends).
WrittenIsShown ==
  \A v \in 1..MaxVersion :
    (\E i \in DOMAIN down : down[i].version = v) ~> (shown >= v \/ clientClosed)

\* A client that only watches learns of the exit (serveAttach: the pump waits for
\* Done, it does not poll), one that was dropped for lag too, unless the daemon dies.
WatchersLearnOfTheExit ==
  (exited /\ finished /\ inputs = 0)
    ~> (exitSeen \/ clientClosed \/ inputs > 0 \/ daemonDied)
=============================================================================
