------------------------------ MODULE EventFeed ------------------------------
(***************************************************************************)
(* One subscribe connection, from Engine.publish to the program: the       *)
(* engine's EventSubscription, serveSubscribe with its pump and the        *)
(* goroutine that notices a hang-up (server.go), the socket, and the       *)
(* EventStream with its read loop (client.go).                             *)
(*                                                                         *)
(* Events are numbered in the order in which they are published; Engine    *)
(* says which they are.  Module Feed is what all this promises.            *)
(***************************************************************************)
EXTENDS Integers, Sequences

CONSTANTS
  FeedBuffer,    \* the subscription's channel capacity
  SocketBuffer,  \* frames the socket holds
  ClientBuffer,  \* capacity of EventStream.events
  MaxEvents      \* bound: events published

ASSUME CapacityAssumption == {FeedBuffer, SocketBuffer, ClientBuffer} \subseteq Nat \ {0}
ASSUME MaxEventsAssumption == MaxEvents \in Nat

VARIABLES
  \* --- the engine
  published,     \* events published so far
  engineClosed,
  \* --- EventSubscription
  registered,    \* in Engine.subs
  done, lagged,
  ch,            \* its channel
  \* --- serveSubscribe
  server,        \* where it stands
  hand,          \* the frames it is writing
  watching,      \* the goroutine that waits for the hang-up runs
  \* --- the connection
  down,          \* frames in flight
  hungUp,        \* the client closed its end
  \* --- Client.Subscribe and EventStream
  stream,        \* what the program knows: "asked", "open" or "ended"
  reading,       \* readLoop runs
  inbox,         \* the event readLoop is passing on
  events,        \* its channel
  heard,         \* the last event the program received
  base           \* history: events published before Engine.Subscribe

engine       == <<published, engineClosed>>
subscription == <<registered, done, lagged, ch>>
serving      == <<server, hand, watching>>
connection   == <<down, hungUp>>
program      == <<stream, reading, inbox, events, heard>>
vars         == <<engine, subscription, serving, connection, program, base>>

Ack    == 0     \* a Response frame
Lagged == -1    \* an Error frame; an event's frame is its number

\* The daemon's end is closed: serveConn returned.
Gone == server = "done"

Init ==
  /\ published = 0 /\ engineClosed = FALSE
  /\ registered = FALSE /\ done = FALSE /\ lagged = FALSE /\ ch = << >>
  /\ server = "request" /\ hand = << >> /\ watching = FALSE
  /\ down = << >> /\ hungUp = FALSE
  /\ stream = "asked" /\ reading = FALSE /\ inbox = << >> /\ events = << >>
  /\ heard = 0 /\ base = 0

-----------------------------------------------------------------------------
(***************************************************************************)
(* The engine's side of the subscription.                                  *)
(***************************************************************************)

\* Mutant of Publish: a full subscription just misses the event.
PublishLossy ==
  /\ ~engineClosed /\ published < MaxEvents /\ published' = published + 1
  /\ ch' = IF registered /\ ~done /\ Len(ch) < FeedBuffer
           THEN Append(ch, published + 1) ELSE ch
  /\ UNCHANGED <<engineClosed, registered, done, lagged, serving, connection, program, base>>

\* Mutant of Publish: a full subscription is dropped, its channel is left open.
PublishDropping ==
  /\ ~engineClosed /\ published < MaxEvents /\ published' = published + 1
  /\ \/ /\ registered /\ ~done /\ Len(ch) < FeedBuffer
        /\ ch' = Append(ch, published + 1) /\ UNCHANGED <<registered, done, lagged>>
     \/ /\ registered /\ ~done /\ Len(ch) = FeedBuffer
        /\ lagged' = TRUE /\ registered' = FALSE /\ UNCHANGED <<ch, done>>
     \/ /\ ~(registered /\ ~done) /\ UNCHANGED subscription
  /\ UNCHANGED <<engineClosed, serving, connection, program, base>>

\* Engine.publish and deliver: a subscription without room is dropped.
Publish ==
  /\ ~engineClosed /\ published < MaxEvents /\ published' = published + 1
  /\ \/ /\ registered /\ ~done /\ Len(ch) < FeedBuffer
        /\ ch' = Append(ch, published + 1) /\ UNCHANGED <<registered, done, lagged>>
     \/ /\ registered /\ ~done /\ Len(ch) = FeedBuffer
        /\ lagged' = TRUE /\ done' = TRUE /\ registered' = FALSE /\ UNCHANGED ch
     \/ /\ ~(registered /\ ~done) /\ UNCHANGED subscription
  /\ UNCHANGED <<engineClosed, serving, connection, program, base>>

\* Engine.Close takes the subscriptions under the lock and finishes them after it;
\* nothing reaches them in between.
CloseEngine ==
  /\ ~engineClosed /\ engineClosed' = TRUE
  /\ done' = (done \/ registered) /\ registered' = FALSE
  /\ UNCHANGED <<published, lagged, ch, serving, connection, program, base>>

\* EventSubscription.Close
CloseSubscription == registered' = FALSE /\ done' = TRUE /\ UNCHANGED <<lagged, ch>>

-----------------------------------------------------------------------------
(***************************************************************************)
(* serveSubscribe.                                                         *)
(***************************************************************************)

\* Engine.Subscribe; on a closed engine the subscription is finished at once.
ServeSubscribe ==
  /\ server = "request" /\ server' = "write" /\ hand' = <<Ack>>
  /\ registered' = ~engineClosed /\ done' = engineClosed /\ base' = published
  /\ UNCHANGED <<engine, lagged, ch, watching, connection, program>>

\* Writes a frame; behind the ack the other goroutine starts, and behind the error
\* frame there is nothing more to do.  A write to a client that hung up fails, and
\* the deferred Close runs.
Write ==
  /\ server = "write"
  /\ \/ /\ ~hungUp /\ Len(down) < SocketBuffer
        /\ down' = Append(down, Head(hand)) /\ hand' = << >>
        /\ watching' = (watching \/ Head(hand) = Ack)
        /\ server' = IF Head(hand) = Lagged THEN "done" ELSE "pump"
        /\ \/ Head(hand) = Lagged /\ CloseSubscription
           \/ Head(hand) # Lagged /\ UNCHANGED subscription
     \/ /\ hungUp /\ server' = "done" /\ hand' = << >>
        /\ CloseSubscription /\ UNCHANGED <<down, watching>>
  /\ UNCHANGED <<engine, hungUp, program, base>>

\* The range over sub.Events(): the next event, or the end of the channel, which is
\* told to the client only when the subscription lagged.
Pump ==
  /\ server = "pump"
  /\ \/ /\ ch # << >> /\ hand' = <<Head(ch)>> /\ ch' = Tail(ch)
        /\ server' = "write" /\ UNCHANGED <<registered, done, lagged>>
     \/ /\ ch = << >> /\ done /\ lagged
        /\ hand' = <<Lagged>> /\ server' = "write" /\ UNCHANGED subscription
     \/ /\ ch = << >> /\ done /\ ~lagged
        /\ server' = "done" /\ CloseSubscription /\ UNCHANGED hand
  /\ UNCHANGED <<engine, watching, connection, program, base>>

\* Mutant of Watch: the feed does not read from its client.
WatchNothing == FALSE /\ UNCHANGED vars

\* The goroutine's ReadFrame fails: the client hung up, or the connection closed.
Watch ==
  /\ watching /\ (hungUp \/ Gone) /\ watching' = FALSE /\ CloseSubscription
  /\ UNCHANGED <<engine, server, hand, connection, program, base>>

-----------------------------------------------------------------------------
(***************************************************************************)
(* Client.Subscribe and EventStream.                                       *)
(***************************************************************************)

\* Subscribe reads the ack and starts readLoop, or fails on a connection that ends
\* without one.
ReadAck ==
  /\ stream = "asked"
  /\ \/ /\ down # << >> /\ Head(down) = Ack /\ down' = Tail(down)
        /\ stream' = "open" /\ reading' = TRUE /\ heard' = base
     \/ /\ down = << >> /\ Gone
        /\ stream' = "ended" /\ UNCHANGED <<down, reading, heard>>
  /\ UNCHANGED <<engine, subscription, serving, hungUp, inbox, events, base>>

\* readLoop: the next event, or the end of the feed: an error frame, a connection
\* closed by either side.  The channel closes behind what is in it.
ReadLoop ==
  /\ reading /\ inbox = << >>
  /\ \/ /\ ~hungUp /\ down # << >> /\ Head(down) # Lagged
        /\ inbox' = <<Head(down)>> /\ down' = Tail(down) /\ UNCHANGED reading
     \/ /\ ~hungUp /\ down # << >> /\ Head(down) = Lagged
        /\ reading' = FALSE /\ down' = Tail(down) /\ UNCHANGED inbox
     \/ /\ hungUp \/ (down = << >> /\ Gone)
        /\ reading' = FALSE /\ UNCHANGED <<down, inbox>>
  /\ UNCHANGED <<engine, subscription, serving, hungUp, stream, events, heard, base>>

\* readLoop passes the event on, once there is room.
PassOn ==
  /\ inbox # << >> /\ Len(events) < ClientBuffer
  /\ events' = Append(events, Head(inbox)) /\ inbox' = << >>
  /\ UNCHANGED <<engine, subscription, serving, connection, stream, reading, heard, base>>

\* The program receives an event from Events, or finds it closed.
Receive ==
  /\ stream = "open"
  /\ \/ /\ events # << >> /\ heard' = Head(events) /\ events' = Tail(events)
        /\ UNCHANGED stream
     \/ /\ events = << >> /\ ~reading
        /\ stream' = "ended" /\ UNCHANGED <<heard, events>>
  /\ UNCHANGED <<engine, subscription, serving, connection, reading, inbox, base>>

\* EventStream.Close
CloseStream ==
  /\ stream = "open" /\ ~hungUp /\ hungUp' = TRUE
  /\ UNCHANGED <<engine, subscription, serving, down, program, base>>

\* External: the daemon dies; what it had written is still read.
DaemonDies ==
  /\ ~Gone /\ server' = "done" /\ watching' = FALSE /\ hand' = << >>
  /\ engineClosed' = TRUE /\ CloseSubscription
  /\ UNCHANGED <<published, connection, program, base>>

-----------------------------------------------------------------------------
Next ==
  \/ Publish \/ CloseEngine
  \/ ServeSubscribe \/ Write \/ Pump \/ Watch
  \/ ReadAck \/ ReadLoop \/ PassOn \/ Receive \/ CloseStream
  \/ DaemonDies

\* Goroutines that are not blocked run on.  Nothing is assumed of the engine, and
\* of the program only that it receives until its stream ends.
Fairness ==
  /\ WF_vars(ServeSubscribe) /\ WF_vars(Write) /\ WF_vars(Pump) /\ WF_vars(Watch)
  /\ WF_vars(ReadAck) /\ WF_vars(ReadLoop) /\ WF_vars(PassOn) /\ WF_vars(Receive)

Spec == Init /\ [][Next]_vars
FairSpec == Spec /\ Fairness

-----------------------------------------------------------------------------
(***************************************************************************)
(* Properties.                                                             *)
(***************************************************************************)

Frames == {Ack, Lagged} \cup 1..MaxEvents

TypeOK ==
  /\ published \in 0..MaxEvents /\ {engineClosed, registered, done, lagged} \subseteq BOOLEAN
  /\ ch \in Seq(1..MaxEvents) /\ Len(ch) <= FeedBuffer
  /\ server \in {"request", "write", "pump", "done"}
  /\ hand \in Seq(Frames) /\ Len(hand) <= 1 /\ (server = "write") = (hand # << >>)
  /\ {watching, hungUp, reading} \subseteq BOOLEAN
  /\ down \in Seq(Frames) /\ Len(down) <= SocketBuffer
  /\ stream \in {"asked", "open", "ended"}
  /\ inbox \in Seq(1..MaxEvents) /\ Len(inbox) <= 1
  /\ events \in Seq(1..MaxEvents) /\ Len(events) <= ClientBuffer
  /\ heard \in 0..MaxEvents /\ base \in 0..MaxEvents

Promise == INSTANCE Feed WITH published <- published, heard <- heard, stream <- stream

\* Client.Subscribe "returns once the daemon has acked, so no event after that is
\* missed": what the program receives is every event from the subscription on, in
\* order and without a gap, through three buffers, a drop for lag and a hang-up.
ImplementsFeed == Promise!FeedSpec

\* An event published to an open stream is heard, or the stream ends and says so;
\* a drop for lag in particular never looks like silence.
NewsArrives ==
  \A k \in 1..MaxEvents :
    stream = "open" /\ base < k /\ k <= published ~> heard >= k \/ stream = "ended"

\* "Closing the connection unsubscribes": a hang-up takes the subscription off the
\* engine and ends both of the daemon's goroutines, events or no events.
HangUpUnsubscribes == hungUp ~> ~registered /\ Gone /\ ~watching
==============================================================================
