-------------------------- MODULE InteractiveProofs --------------------------
(***************************************************************************)
(* TLAPS proofs about an attach connection and Interactive on top of it,   *)
(* for any buffers and any number of versions, inputs and resizes.  The    *)
(* argument: whatever the pump took is one stream, spread over the pump,   *)
(* the socket and the client, and the queue continues it; a frame moves    *)
(* along the stream without changing it.                                   *)
(***************************************************************************)
EXTENDS Interactive, SequenceTheorems, TLAPS

Messages == [kind : {"bytes", "repaint", "resync"}, version : Nat]

\* What the pump took off the subscription and the program has not consumed yet.
Stream == output \o hand \o down \o held

\* Every frame may follow the one in front of it.
Chain(s) == \A i \in 1..Len(s) - 1 : Follows(s[i], s[i + 1])

\* The version of the newest frame the pump took.
Tip == IF Stream = << >> THEN shown ELSE Stream[Len(Stream)].version

TypeInv ==
  /\ version \in Nat /\ shown \in Nat /\ inputs \in Nat /\ resizes \in Nat
  /\ queue \in Seq(Messages) /\ Len(queue) <= SubBuffer
  /\ held \in Seq(Frames) /\ Len(held) <= 2
  /\ down \in Seq(Frames) /\ Len(down) <= WireBuffer
  /\ hand \in Seq(Frames) /\ Len(hand) <= 1
  /\ output \in Seq(Frames) /\ Len(output) <= ClientBuffer
  /\ up \in Seq({"input", "resize"}) /\ Len(up) <= WireBuffer
  /\ {resyncs, missed, finished, viewed, hungup, exited, detached, serverClosed,
      clientClosed, exitSeen, daemonDied} \subseteq BOOLEAN
  /\ pump \in {"range", "select", "ended"} /\ loop \in {"read", "ended"}
  /\ reader \in {"read", "write", "join", "ended"}

\* Every message is newer than the ones in front of it.
Rising(q) == \A i, j \in 1..Len(q) : i < j => q[i].version < q[j].version

\* The queue holds ever newer versions; a subscription that is owed state is behind
\* the terminal, and one that is over is owed nothing.
QueueInv ==
  /\ Rising(queue)
  /\ \A i \in 1..Len(queue) : queue[i].version <= version
  /\ missed => \A i \in 1..Len(queue) : queue[i].version < version
  /\ finished => ~missed

\* The stream is in order, from what the program last saw.
StreamInv ==
  /\ Chain(Stream)
  /\ Stream # << >> => Stream[1] = Exited \/ Stream[1].version >= shown
  /\ pump # "ended" /\ Stream # << >> => Stream[Len(Stream)].type \in {"output", "snapshot"}

\* While the pump runs, the queue continues the stream.
TipInv ==
  pump = "range" =>
    /\ Tip <= version
    /\ missed => Tip < version
    /\ queue # << >> => Tip < queue[1].version

\* How the stream ends.
PumpInv ==
  /\ pump # "range" => held = << >>
  /\ pump # "range" /\ ~clientClosed => queue = << >> /\ finished
  /\ serverClosed => pump = "ended"
  /\ exitSeen \/ (\E i \in 1..Len(down) : down[i] = Exited) =>
       pump = "ended" /\ queue = << >> /\ finished /\ exited
  /\ exitSeen => hand = << >> /\ down = << >>

\* Why the server hangs up on a client that is still there.
HangInv ==
  /\ reader = "write" \/ (\E i \in 1..Len(up) : up[i] = "input") => inputs > 0
  /\ (serverClosed \/ reader \in {"join", "ended"}) /\ ~clientClosed /\ ~daemonDied =>
       inputs > 0 /\ hungup
  /\ loop = "ended" => clientClosed \/ serverClosed

\* The attach connection, whatever program uses it.
AttachInv == TypeInv /\ QueueInv /\ StreamInv /\ TipInv /\ PumpInv /\ HangInv

\* Interactive closes the connection by returning only.
TerminalInv ==
  /\ mode = "terminal" => (clientClosed <=> screen = "returned")
  /\ mode = "terminal" /\ screen # "returned" =>
       /\ typist \in {"send", "sendLast"} => typed
       /\ typist = "sendLast" => pressed
       /\ typist = "done" => pressed \/ typed
       /\ inputs > 0 => typed
  /\ result # "none" => screen = "returned"
  /\ ResultIsHonest

IInv == AttachInv /\ TerminalInv

-----------------------------------------------------------------------------
(***************************************************************************)
(* Sequences of frames.                                                    *)
(***************************************************************************)

\* The index facts that the proofs about sequences use.
LEMMA ReadOff ==
  ASSUME NEW S, NEW q \in Seq(S), q # << >>
  PROVE  /\ Len(q) \in Nat \ {0} /\ 1 \in 1..Len(q) /\ Len(q) \in 1..Len(q)
         /\ Head(q) = q[1] /\ q[1] \in S /\ q[Len(q)] \in S
         /\ Tail(q) \in Seq(S) /\ Len(Tail(q)) = Len(q) - 1 /\ Len(Tail(q)) \in Nat
         /\ \A i \in 1..Len(Tail(q)) : Tail(q)[i] = q[i + 1] /\ i + 1 \in 1..Len(q)
<1>1. Len(q) \in Nat \ {0} /\ Tail(q) \in Seq(S) /\ Len(Tail(q)) = Len(q) - 1
      /\ \A i \in 1..Len(Tail(q)) : Tail(q)[i] = q[i + 1]
  BY HeadTailProperties, EmptySeq
<1>2. Head(q) = q[1] /\ 1 \in 1..Len(q) /\ Len(q) \in 1..Len(q)
  BY <1>1
<1>3. q[1] \in S /\ q[Len(q)] \in S
  BY <1>2, ElementOfSeq
<1>4. Len(Tail(q)) \in Nat /\ \A i \in 1..Len(Tail(q)) : i + 1 \in 1..Len(q)
  BY <1>1
<1> QED BY <1>1, <1>2, <1>3, <1>4

\* Concatenation, index by index.
LEMMA Joined ==
  ASSUME NEW S, NEW a \in Seq(S), NEW b \in Seq(S)
  PROVE  /\ a \o b \in Seq(S) /\ Len(a \o b) = Len(a) + Len(b) /\ Len(a) \in Nat /\ Len(b) \in Nat
         /\ \A i \in 1..Len(a) : (a \o b)[i] = a[i]
         /\ \A i \in 1..Len(b) : (a \o b)[Len(a) + i] = b[i]
         /\ a # << >> => a \o b # << >>
<1>1. Len(a) \in Nat /\ Len(b) \in Nat
  BY LenProperties
<1>2. /\ a \o b \in Seq(S) /\ Len(a \o b) = Len(a) + Len(b)
      /\ \A i \in 1..Len(a) + Len(b) :
           (a \o b)[i] = IF i <= Len(a) THEN a[i] ELSE b[i - Len(a)]
  BY ConcatProperties
<1>3. \A i \in 1..Len(a) : i \in 1..Len(a) + Len(b) /\ i <= Len(a)
  BY <1>1
<1>4. \A i \in 1..Len(b) : /\ Len(a) + i \in 1..Len(a) + Len(b) /\ ~(Len(a) + i <= Len(a))
                         /\ (Len(a) + i) - Len(a) = i
  BY <1>1
<1>5. a # << >> => a \o b # << >>
  BY ConcatEqualIffEmpty
<1> QED BY <1>1, <1>2, <1>3, <1>4, <1>5

\* A frame that moves from the front of one sequence to the end of another.
LEMMA MoveHead ==
  ASSUME NEW S, NEW a \in Seq(S), NEW b \in Seq(S), b # << >>
  PROVE  Append(a, Head(b)) \o Tail(b) = a \o b
<1>1. /\ Head(b) \in S /\ Tail(b) \in Seq(S) /\ <<Head(b)>> \in Seq(S)
      /\ Len(b) \in Nat \ {0} /\ Len(Tail(b)) = Len(b) - 1 /\ Head(b) = b[1]
      /\ \A i \in 1..Len(Tail(b)) : Tail(b)[i] = b[i + 1]
  BY ReadOff
<1>2. <<Head(b)>> \o Tail(b) = b
  <2> DEFINE c == <<Head(b)>> \o Tail(b)
  <2>1. /\ c \in Seq(S) /\ Len(c) = 1 + Len(Tail(b)) /\ c[1] = Head(b)
        /\ \A i \in 1..Len(Tail(b)) : c[1 + i] = Tail(b)[i]
    <3>1. Len(<<Head(b)>>) = 1 /\ <<Head(b)>>[1] = Head(b) /\ 1 \in 1..1
      OBVIOUS
    <3> QED BY <1>1, <3>1, Joined
  <2> HIDE DEF c
  <2>2. \A i \in 1..Len(b) : i = 1 \/ (i - 1 \in 1..Len(Tail(b)) /\ 1 + (i - 1) = i)
    BY <1>1
  <2>3. Len(c) = Len(b) /\ \A i \in 1..Len(c) : c[i] = b[i]
    <3>1. Len(c) = Len(b)
      BY <1>1, <2>1
    <3>2. \A i \in 1..Len(Tail(b)) : c[1 + i] = b[1 + i]
      BY <1>1, <2>1
    <3> QED BY <1>1, <2>1, <2>2, <3>1, <3>2
  <2>4. c = b
    BY <2>1, <2>3, SeqEqual
  <2> QED BY <2>4 DEF c
<1>3. Append(a, Head(b)) = a \o <<Head(b)>>
  BY <1>1, AppendIsConcat
<1>4. (a \o <<Head(b)>>) \o Tail(b) = a \o (<<Head(b)>> \o Tail(b))
  BY <1>1, ConcatAssociative
<1> QED BY <1>2, <1>3, <1>4

\* Taking the first frame off a concatenation.
LEMMA TailOfJoined ==
  ASSUME NEW S, NEW a \in Seq(S), NEW b \in Seq(S), a # << >>
  PROVE  Tail(a) \o b = Tail(a \o b) /\ (a \o b)[1] = a[1] /\ a \o b # << >>
<1>1. /\ Tail(a) \in Seq(S) /\ Len(a) \in Nat \ {0} /\ Len(Tail(a)) = Len(a) - 1 /\ 1 \in 1..Len(a)
      /\ \A i \in 1..Len(Tail(a)) : Tail(a)[i] = a[i + 1] /\ i + 1 \in 1..Len(a)
  BY ReadOff
<1> DEFINE c == a \o b
<1> DEFINE d == Tail(a) \o b
<1>2. /\ c \in Seq(S) /\ c # << >> /\ Len(c) = Len(a) + Len(b) /\ Len(b) \in Nat
      /\ \A i \in 1..Len(a) : c[i] = a[i]
      /\ \A i \in 1..Len(b) : c[Len(a) + i] = b[i]
  BY Joined
<1>3. /\ d \in Seq(S) /\ Len(d) = Len(Tail(a)) + Len(b)
      /\ \A i \in 1..Len(Tail(a)) : d[i] = Tail(a)[i]
      /\ \A i \in 1..Len(b) : d[Len(Tail(a)) + i] = b[i]
  BY <1>1, Joined
<1> HIDE DEF c, d
<1>4. /\ Tail(c) \in Seq(S) /\ Len(Tail(c)) = Len(c) - 1
      /\ \A i \in 1..Len(Tail(c)) : Tail(c)[i] = c[i + 1]
  BY <1>2, ReadOff
<1>5. Len(d) = Len(Tail(c))
  BY <1>1, <1>2, <1>3, <1>4
<1>6. ASSUME NEW i \in 1..Len(d) PROVE d[i] = Tail(c)[i]
  <2>1. Tail(c)[i] = c[i + 1]
    BY <1>4, <1>5, <1>6
  <2>2. CASE i \in 1..Len(Tail(a))
    BY <2>1, <2>2, <1>1, <1>2, <1>3
  <2>3. CASE i \notin 1..Len(Tail(a))
    <3> DEFINE k == i - Len(Tail(a))
    <3>1. k \in 1..Len(b) /\ i = Len(Tail(a)) + k /\ i + 1 = Len(a) + k
      BY <2>3, <1>1, <1>2, <1>3, <1>6
    <3> HIDE DEF k
    <3> QED BY <2>1, <3>1, <1>2, <1>3
  <2> QED BY <2>2, <2>3
<1>7. d = Tail(c)
  BY <1>3, <1>4, <1>5, <1>6, SeqEqual
<1> QED BY <1>1, <1>2, <1>7 DEF c, d

\* What is in front of a part of a chain is a chain, and so is what is behind its head.
LEMMA ChainFront ==
  ASSUME NEW a \in Seq(Frames), NEW b \in Seq(Frames), Chain(a \o b)
  PROVE  Chain(a)
<1>1. /\ Len(a \o b) = Len(a) + Len(b) /\ Len(a) \in Nat /\ Len(b) \in Nat
      /\ \A i \in 1..Len(a) : (a \o b)[i] = a[i]
  BY Joined
<1>2. \A i \in 1..Len(a) - 1 : i \in 1..Len(a) /\ i + 1 \in 1..Len(a) /\ i \in 1..Len(a \o b) - 1
  BY <1>1
<1> QED BY <1>1, <1>2 DEF Chain

LEMMA ChainTail ==
  ASSUME NEW a \in Seq(Frames), a # << >>, Chain(a)
  PROVE  Chain(Tail(a))
<1>1. /\ Len(a) \in Nat \ {0} /\ Len(Tail(a)) = Len(a) - 1
      /\ \A i \in 1..Len(Tail(a)) : Tail(a)[i] = a[i + 1]
  BY ReadOff
<1>2. \A i \in 1..Len(Tail(a)) - 1 : /\ i \in 1..Len(Tail(a)) /\ i + 1 \in 1..Len(Tail(a))
                                   /\ i + 1 \in 1..Len(a) - 1
  BY <1>1
<1> QED BY <1>1, <1>2 DEF Chain

\* Two chains are one if the second may follow the first.
LEMMA ChainJoined ==
  ASSUME NEW a \in Seq(Frames), NEW b \in Seq(Frames), Chain(a), Chain(b),
         a # << >> /\ b # << >> => Follows(a[Len(a)], b[1])
  PROVE  Chain(a \o b)
<1> DEFINE c == a \o b
<1>1. /\ Len(c) = Len(a) + Len(b) /\ Len(a) \in Nat /\ Len(b) \in Nat
      /\ \A i \in 1..Len(a) : c[i] = a[i]
      /\ \A i \in 1..Len(b) : c[Len(a) + i] = b[i]
  BY Joined
<1> HIDE DEF c
<1>2. ASSUME NEW i \in 1..Len(c) - 1 PROVE Follows(c[i], c[i + 1])
  <2>1. CASE i \in 1..Len(a) - 1
    <3>1. i \in 1..Len(a) /\ i + 1 \in 1..Len(a)
      BY <2>1, <1>1
    <3> QED BY <2>1, <3>1, <1>1 DEF Chain
  <2>2. CASE i = Len(a)
    <3>1. Len(a) # 0 /\ Len(b) # 0 /\ 1 \in 1..Len(b) /\ i \in 1..Len(a)
      BY <2>2, <1>1, <1>2
    <3>2. a # << >> /\ b # << >>
      BY <3>1
    <3> QED BY <2>2, <3>1, <3>2, <1>1
  <2>3. CASE i > Len(a)
    <3> DEFINE k == i - Len(a)
    <3>1. /\ k \in 1..Len(b) - 1 /\ k \in 1..Len(b) /\ k + 1 \in 1..Len(b)
          /\ i = Len(a) + k /\ i + 1 = Len(a) + (k + 1)
      BY <2>3, <1>1, <1>2
    <3> HIDE DEF k
    <3> QED BY <3>1, <1>1 DEF Chain
  <2> QED BY <2>1, <2>2, <2>3, <1>1, <1>2
<1> QED BY <1>2 DEF Chain, c
\* The frames of a message: all of its version, in order, and ending on output.
LEMMA FramesAre ==
  ASSUME NEW m \in Messages
  PROVE  /\ FramesOf(m) \in Seq(Frames) /\ Len(FramesOf(m)) \in {1, 2} /\ FramesOf(m) # << >>
         /\ Chain(FramesOf(m)) /\ FramesOf(m)[1] # Exited /\ FramesOf(m)[1].version = m.version
         /\ FramesOf(m)[Len(FramesOf(m))].version = m.version
         /\ FramesOf(m)[Len(FramesOf(m))].type \in {"output", "snapshot"}
<1>1. m.version \in Nat /\ m.kind \in {"bytes", "repaint", "resync"}
  BY DEF Messages
<1>2. \A t \in {"output", "resize", "snapshot"} :
        /\ Frame(t, m.version) \in Frames /\ Frame(t, m.version) # Exited
        /\ Frame(t, m.version).version = m.version /\ Frame(t, m.version).type = t
  BY <1>1 DEF Frame, Frames, Exited
<1>3. CASE m.kind = "repaint"
  <2> DEFINE f == <<Frame("resize", m.version), Frame("output", m.version)>>
  <2>1. FramesOf(m) = f
    BY <1>3 DEF FramesOf
  <2>2. /\ f \in Seq(Frames) /\ Len(f) = 2 /\ f[1] = Frame("resize", m.version)
        /\ f[2] = Frame("output", m.version) /\ f # << >>
    BY <1>2
  <2> HIDE DEF f
  <2>3. Chain(f)
    <3>1. \A i \in 1..Len(f) - 1 : i = 1
      BY <2>2
    <3>2. Follows(f[1], f[1 + 1])
      BY <2>2, <1>2 DEF Follows
    <3> QED BY <3>1, <3>2 DEF Chain
  <2> QED BY <2>1, <2>2, <2>3, <1>2
<1>4. CASE m.kind # "repaint"
  <2>1. PICK t \in {"output", "snapshot"} : FramesOf(m) = <<Frame(t, m.version)>>
    BY <1>1, <1>4 DEF FramesOf
  <2> DEFINE f == <<Frame(t, m.version)>>
  <2>2. /\ f \in Seq(Frames) /\ Len(f) = 1 /\ f[1] = Frame(t, m.version) /\ f # << >>
    BY <1>2
  <2> HIDE DEF f
  <2>3. Chain(f)
    <3>1. 1..Len(f) - 1 = {}
      BY <2>2
    <3> QED BY <3>1 DEF Chain
  <2> QED BY <2>1, <2>2, <2>3, <1>2 DEF f
<1> QED BY <1>3, <1>4

-----------------------------------------------------------------------------
(***************************************************************************)
(* The stream.                                                             *)
(***************************************************************************)

\* The exit is a frame.
LEMMA ExitedIs == Exited \in Frames /\ Exited.version = 0 /\ Exited.type = "exited"
BY DEF Exited, Frame, Frames

\* What the stream is made of.
LEMMA StreamIs ==
  ASSUME TypeInv
  PROVE  /\ Stream \in Seq(Frames) /\ (output \o hand) \in Seq(Frames)
         /\ ((output \o hand) \o down) \in Seq(Frames) /\ Len(Stream) \in Nat
         /\ (Stream # << >> => Len(Stream) \in 1..Len(Stream) /\ Stream[Len(Stream)] \in Frames)
         /\ output \in Seq(Frames) /\ hand \in Seq(Frames)
         /\ down \in Seq(Frames) /\ held \in Seq(Frames) /\ queue \in Seq(Messages)
         /\ Tip \in Nat
<1>1. /\ output \in Seq(Frames) /\ hand \in Seq(Frames) /\ down \in Seq(Frames)
      /\ held \in Seq(Frames) /\ queue \in Seq(Messages) /\ shown \in Nat
  BY DEF TypeInv
<1>2. (output \o hand) \in Seq(Frames)
  BY <1>1, Joined
<1>3. ((output \o hand) \o down) \in Seq(Frames)
  BY <1>1, <1>2, Joined
<1>4. Stream \in Seq(Frames)
  BY <1>1, <1>3, Joined DEF Stream
<1>5. Stream # << >> => Len(Stream) \in 1..Len(Stream) /\ Stream[Len(Stream)] \in Frames
  BY <1>4, ReadOff
<1>6. Tip \in Nat
  BY <1>1, <1>5 DEF Tip, Frames
<1>7. Len(Stream) \in Nat
  BY <1>4, LenProperties
<1> QED BY <1>1, <1>2, <1>3, <1>4, <1>5, <1>6, <1>7

\* A step that leaves the stream alone.
LEMMA StreamStays ==
  ASSUME AttachInv, Stream' = Stream, shown' = shown, pump' = pump \/ pump' = "ended"
  PROVE  StreamInv' /\ Tip' = Tip
BY DEF AttachInv, StreamInv, Tip

\* The pump drops what it holds.
LEMMA StreamCut ==
  ASSUME AttachInv, held' = << >>, UNCHANGED <<output, hand, down, shown>>, pump' = "ended"
  PROVE  StreamInv'
<1> DEFINE a == (output \o hand) \o down
<1>1. a \in Seq(Frames) /\ held \in Seq(Frames) /\ Stream = a \o held
  BY StreamIs DEF AttachInv, Stream
<1>2. Stream' = a
  <2>1. Stream' = a \o << >>
    BY DEF Stream
  <2> QED BY <2>1, <1>1, ConcatEmptySeq
<1>3. Chain(a) /\ (a # << >> => a \o held # << >> /\ (a \o held)[1] = a[1])
  BY <1>1, ChainFront, TailOfJoined DEF AttachInv, StreamInv
<1> HIDE DEF a
<1> QED BY <1>1, <1>2, <1>3 DEF AttachInv, StreamInv

\* A frame moves on: from the pump to the socket, on to the read loop, and on to the
\* program's channel.
LEMMA StreamMoves ==
  ASSUME AttachInv,
         \/ /\ held # << >> /\ down' = Append(down, Head(held)) /\ held' = Tail(held)
            /\ UNCHANGED <<output, hand>>
         \/ /\ hand = << >> /\ down # << >> /\ hand' = <<Head(down)>> /\ down' = Tail(down)
            /\ UNCHANGED <<output, held>>
         \/ /\ hand # << >> /\ output' = Append(output, Head(hand)) /\ hand' = << >>
            /\ UNCHANGED <<down, held>>
  PROVE  Stream' = Stream
<1> DEFINE a == output \o hand
<1>1. /\ output \in Seq(Frames) /\ hand \in Seq(Frames) /\ down \in Seq(Frames)
      /\ held \in Seq(Frames) /\ a \in Seq(Frames) /\ Len(hand) <= 1
  BY StreamIs DEF AttachInv, TypeInv
<1> HIDE DEF a
<1>2. CASE /\ held # << >> /\ down' = Append(down, Head(held)) /\ held' = Tail(held)
           /\ UNCHANGED <<output, hand>>
  <2>1. /\ Head(held) \in Frames /\ Tail(held) \in Seq(Frames) /\ <<Head(held)>> \in Seq(Frames)
        /\ a \o down \in Seq(Frames)
    BY <1>1, <1>2, ReadOff, StreamIs DEF AttachInv, a
  <2>2. Append(down, Head(held)) = down \o <<Head(held)>>
    BY <1>1, <2>1, AppendIsConcat
  <2>3. a \o (down \o <<Head(held)>>) = (a \o down) \o <<Head(held)>>
    <3> DEFINE b == <<Head(held)>>
    <3>1. a \in Seq(Frames) /\ down \in Seq(Frames) /\ b \in Seq(Frames)
      BY <1>1, <2>1
    <3> HIDE DEF b
    <3>2. (a \o down) \o b = a \o (down \o b)
      BY <3>1, ConcatAssociative, SMTT(20)
    <3> QED BY <3>2 DEF b
  <2>4. (a \o down) \o <<Head(held)>> = Append(a \o down, Head(held))
    BY <2>1, AppendIsConcat
  <2>5. Append(a \o down, Head(held)) \o Tail(held) = (a \o down) \o held
    BY <1>1, <1>2, <2>1, MoveHead
  <2>6. Stream' = (a \o Append(down, Head(held))) \o Tail(held)
    BY <1>2 DEF Stream, a
  <2> QED BY <2>2, <2>3, <2>4, <2>5, <2>6 DEF Stream, a
<1>3. CASE /\ hand = << >> /\ down # << >> /\ hand' = <<Head(down)>> /\ down' = Tail(down)
           /\ UNCHANGED <<output, held>>
  <2>1. Head(down) \in Frames /\ a = output
    BY <1>1, <1>3, ReadOff, ConcatEmptySeq DEF a
  <2>2. output \o <<Head(down)>> = Append(output, Head(down))
    BY <1>1, <2>1, AppendIsConcat
  <2>3. Append(output, Head(down)) \o Tail(down) = output \o down
    BY <1>1, <1>3, MoveHead
  <2>4. Stream' = ((output \o <<Head(down)>>) \o Tail(down)) \o held
    BY <1>3 DEF Stream
  <2> QED BY <2>1, <2>2, <2>3, <2>4 DEF Stream, a
<1>4. CASE /\ hand # << >> /\ output' = Append(output, Head(hand)) /\ hand' = << >>
           /\ UNCHANGED <<down, held>>
  <2>1. Tail(hand) = << >>
    <3>1. Tail(hand) \in Seq(Frames) /\ Len(Tail(hand)) = Len(hand) - 1 /\ Len(hand) \in Nat \ {0}
      BY <1>1, <1>4, ReadOff
    <3>2. Len(Tail(hand)) = 0
      BY <3>1, <1>1
    <3> QED BY <3>1, <3>2, EmptySeq
  <2>2. Append(output, Head(hand)) \o Tail(hand) = output \o hand
    BY <1>1, <1>4, MoveHead
  <2>3. Stream' = ((Append(output, Head(hand)) \o << >>) \o down) \o held
    BY <1>4 DEF Stream
  <2> QED BY <2>1, <2>2, <2>3 DEF Stream
<1> QED BY <1>2, <1>3, <1>4
-----------------------------------------------------------------------------
(***************************************************************************)
(* The session's actions.                                                  *)
(***************************************************************************)

\* A queued message has a version.
LEMMA MessagesAre ==
  ASSUME NEW q \in Seq(Messages)
  PROVE  /\ \A i \in 1..Len(q) : q[i] \in Messages /\ q[i].version \in Nat
         /\ q # << >> => q[1].version \in Nat
<1>1. \A m \in Messages : m.version \in Nat
  BY DEF Messages
<1>2. \A i \in 1..Len(q) : q[i] \in Messages
  BY ElementOfSeq
<1>3. q # << >> => 1 \in 1..Len(q)
  BY ReadOff
<1> QED BY <1>1, <1>2, <1>3

\* The newest version goes to the end of the queue.
LEMMA QueueGrows ==
  ASSUME NEW q \in Seq(Messages), Rising(q), NEW m \in Messages,
         \A i \in 1..Len(q) : q[i].version < m.version
  PROVE  /\ Append(q, m) \in Seq(Messages) /\ Rising(Append(q, m))
         /\ Len(Append(q, m)) = Len(q) + 1 /\ Len(q) \in Nat
         /\ \A i \in 1..Len(Append(q, m)) : Append(q, m)[i].version <= m.version
         /\ Append(q, m)[1] = IF q = << >> THEN m ELSE q[1]
<1> DEFINE p == Append(q, m)
<1>1. /\ p \in Seq(Messages) /\ Len(p) = Len(q) + 1 /\ p[Len(q) + 1] = m /\ Len(q) \in Nat
      /\ \A i \in 1..Len(q) : p[i] = q[i]
  BY AppendProperties, LenProperties
<1> HIDE DEF p
<1>2. m.version \in Nat /\ \A i \in 1..Len(q) : q[i].version \in Nat
  BY MessagesAre DEF Messages
<1>3. \A i \in 1..Len(p) : i \in 1..Len(q) \/ i = Len(q) + 1
  BY <1>1
<1>4. \A i \in 1..Len(p) : p[i].version <= m.version
  BY <1>1, <1>2, <1>3
<1>5. Rising(p)
  <2>1. SUFFICES ASSUME NEW i \in 1..Len(p), NEW j \in 1..Len(p), i < j
                 PROVE  p[i].version < p[j].version
    BY DEF Rising
  <2>2. i \in 1..Len(q)
    BY <2>1, <1>1
  <2> QED BY <2>1, <2>2, <1>1, <1>3 DEF Rising
<1>6. p[1] = IF q = << >> THEN m ELSE q[1]
  <2>1. CASE q = << >>
    BY <2>1, <1>1
  <2>2. CASE q # << >>
    <3>1. 1 \in 1..Len(q)
      BY <2>2, ReadOff
    <3> QED BY <2>2, <3>1, <1>1
  <2> QED BY <2>1, <2>2
<1> QED BY <1>1, <1>4, <1>5, <1>6 DEF p

\* The oldest message leaves the queue.
LEMMA QueueShrinks ==
  ASSUME NEW q \in Seq(Messages), Rising(q), q # << >>
  PROVE  /\ Tail(q) \in Seq(Messages) /\ Rising(Tail(q)) /\ Len(Tail(q)) = Len(q) - 1
         /\ Len(q) \in Nat \ {0} /\ Head(q) = q[1] /\ q[1] \in Messages /\ 1 \in 1..Len(q)
         /\ \A i \in 1..Len(Tail(q)) : /\ q[1].version < Tail(q)[i].version
                                     /\ \E j \in 1..Len(q) : Tail(q)[i] = q[j]
<1>1. /\ Len(q) \in Nat \ {0} /\ 1 \in 1..Len(q) /\ Head(q) = q[1] /\ q[1] \in Messages
      /\ Tail(q) \in Seq(Messages) /\ Len(Tail(q)) = Len(q) - 1
      /\ \A i \in 1..Len(Tail(q)) : Tail(q)[i] = q[i + 1] /\ i + 1 \in 1..Len(q)
  BY ReadOff
<1>2. /\ \A i \in 1..Len(Tail(q)) : 1 < i + 1
      /\ \A i, j \in 1..Len(Tail(q)) : i < j => i + 1 < j + 1
  BY <1>1
<1>3. Rising(Tail(q)) /\ \A i \in 1..Len(Tail(q)) : q[1].version < Tail(q)[i].version
  BY <1>1, <1>2 DEF Rising
<1> QED BY <1>1, <1>3

\* What a step of the session leaves alone, but for the queue.
LEMMA SessionKeeps ==
  ASSUME AttachInv, UNCHANGED <<resyncs, serving, wires, client>>,
         version' \in Nat, queue' \in Seq(Messages), Len(queue') <= SubBuffer,
         {missed, finished, viewed, hungup, exited}' \subseteq BOOLEAN,
         QueueInv', TipInv', finished => finished' /\ queue' = queue, hungup => hungup',
         exited => exited'
  PROVE  AttachInv'
<1>1. UNCHANGED <<resyncs, pump, held, reader, detached, serverClosed, daemonDied, down, up,
                  clientClosed, loop, hand, output, exitSeen, shown, inputs, resizes>>
  BY DEF serving, wires, client
<1>2. TypeInv'
  <2>1. {resyncs, missed, finished, viewed, hungup, exited, detached, serverClosed,
         clientClosed, exitSeen, daemonDied}' \subseteq BOOLEAN
    BY <1>1 DEF AttachInv, TypeInv
  <2> QED BY <1>1, <2>1 DEF AttachInv, TypeInv
<1>3. StreamInv'
  BY <1>1, StreamStays DEF Stream
<1>4. PumpInv'
  BY <1>1 DEF AttachInv, PumpInv
<1>5. HangInv'
  BY <1>1 DEF AttachInv, HangInv
<1> QED BY <1>2, <1>3, <1>4, <1>5 DEF AttachInv

LEMMA DeliverKeeps ==
  ASSUME AttachInv, NEW kind \in {"bytes", "repaint"}, Deliver(kind)
  PROVE  AttachInv'
<1>1. /\ version' = version + 1 /\ UNCHANGED <<resyncs, hungup, exited, serving, wires, client>>
      /\ UNCHANGED <<pump, held, down, hand, output, shown>>
  BY DEF Deliver, serving, wires, client
<1>2. /\ version \in Nat /\ queue \in Seq(Messages) /\ Len(queue) <= SubBuffer /\ SubBuffer \in Nat
      /\ {missed, finished, viewed, hungup, exited, resyncs} \subseteq BOOLEAN /\ Len(queue) \in Nat
  BY BuffersAssumption, LenProperties DEF AttachInv, TypeInv
<1>3. /\ \/ queue' = queue
         \/ /\ queue' = Append(queue, Msg(kind, version + 1)) /\ Len(queue) < SubBuffer
            /\ ~missed' /\ ~finished
      /\ finished => finished' /\ (missed' <=> missed)
      /\ finished' => finished \/ ~missed'
      /\ {missed', finished', viewed'} \subseteq BOOLEAN
  <2> DEFINE open == ~finished /\ ~missed
  <2> DEFINE full == open /\ Len(queue) >= SubBuffer
  <2>1. /\ queue' = IF open /\ ~full THEN Append(queue, Msg(kind, version + 1)) ELSE queue
        /\ missed' = (missed \/ (full /\ resyncs))
        /\ finished' = (finished \/ (full /\ ~resyncs))
        /\ viewed' = (viewed /\ ~(full /\ ~resyncs))
    BY <1>1 DEF Deliver
  <2>2. {missed', finished', viewed'} \subseteq BOOLEAN
    BY <2>1, <1>2
  <2>3. open /\ ~full => Len(queue) < SubBuffer /\ ~missed' /\ ~finished
    BY <2>1, <1>2
  <2>4. /\ finished => finished' /\ (missed' <=> missed)
        /\ finished' => finished \/ ~missed'
    BY <2>1, <1>2
  <2> QED BY <2>1, <2>2, <2>3, <2>4
<1>4. Msg(kind, version + 1) \in Messages /\ Msg(kind, version + 1).version = version'
  BY <1>1, <1>2 DEF Msg, Messages
<1>5. \A i \in 1..Len(queue) : queue[i].version \in Nat /\ queue[i].version < version'
  <2>1. \A i \in 1..Len(queue) : queue[i].version \in Nat /\ queue[i].version <= version
    BY <1>2, MessagesAre DEF AttachInv, QueueInv
  <2> QED BY <1>1, <1>2, <2>1
<1>6. Tip' = Tip /\ Tip \in Nat
  BY <1>1, StreamStays, StreamIs DEF Stream, AttachInv
<1>7. CASE queue' = queue
  <2>1. QueueInv'
    <3>1. \A i \in 1..Len(queue') : queue'[i].version < version' /\ queue'[i].version <= version'
      BY <1>1, <1>2, <1>5, <1>7
    <3>2. finished' => ~missed'
      BY <1>3 DEF AttachInv, QueueInv
    <3> QED BY <1>7, <3>1, <3>2 DEF AttachInv, QueueInv
  <2>2. TipInv'
    <3>1. pump = "range" => Tip <= version /\ (queue # << >> => Tip < queue[1].version)
      BY DEF AttachInv, TipInv
    <3>2. Tip <= version => Tip <= version' /\ Tip < version'
      BY <1>1, <1>2, <1>6
    <3> QED BY <3>1, <3>2, <1>1, <1>6, <1>7 DEF TipInv
  <2> QED BY <1>1, <1>2, <1>3, <1>7, <2>1, <2>2, SessionKeeps
<1>8. CASE /\ queue' = Append(queue, Msg(kind, version + 1)) /\ Len(queue) < SubBuffer
           /\ ~missed' /\ ~finished
  <2>1. /\ queue' \in Seq(Messages) /\ Rising(queue') /\ Len(queue') = Len(queue) + 1
        /\ \A i \in 1..Len(queue') : queue'[i].version <= version'
        /\ queue'[1] = IF queue = << >> THEN Msg(kind, version + 1) ELSE queue[1]
    BY <1>2, <1>4, <1>5, <1>8, QueueGrows DEF AttachInv, QueueInv
  <2>2. QueueInv' /\ Len(queue') <= SubBuffer
    BY <1>2, <1>8, <2>1 DEF QueueInv
  <2>3. TipInv'
    <3>1. pump = "range" => Tip <= version /\ (queue # << >> => Tip < queue[1].version)
      BY DEF AttachInv, TipInv
    <3>2. Tip <= version => Tip <= version' /\ Tip < version'
      BY <1>1, <1>2, <1>6
    <3>3. pump = "range" => Tip < queue'[1].version
      BY <2>1, <3>1, <3>2, <1>4
    <3> QED BY <3>1, <3>2, <3>3, <1>1, <1>6, <1>8 DEF TipInv
  <2> QED BY <1>1, <1>2, <1>3, <1>8, <2>1, <2>2, <2>3, SessionKeeps
<1> QED BY <1>3, <1>7, <1>8

\* A subscription that is owed state gets it: from the timer, or when its stream ends.
LEMMA OwedState ==
  ASSUME AttachInv, missed, NEW q \in {queue, Tail(queue)}, Len(q) < SubBuffer,
         q = queue \/ queue # << >>, queue' = Append(q, Msg("resync", version)), missed' = FALSE,
         UNCHANGED <<version, resyncs, exited, serving, wires, client>>,
         {finished, viewed, hungup}' \subseteq BOOLEAN, hungup => hungup'
  PROVE  AttachInv'
<1>1. /\ UNCHANGED <<pump, held, down, hand, output, shown>> /\ ~finished
  BY DEF serving, wires, client, AttachInv, QueueInv
<1>2. /\ version \in Nat /\ queue \in Seq(Messages) /\ SubBuffer \in Nat
      /\ {missed, exited} \subseteq BOOLEAN
  BY BuffersAssumption DEF AttachInv, TypeInv
<1>3. Msg("resync", version) \in Messages /\ Msg("resync", version).version = version
  BY <1>2 DEF Msg, Messages
<1>4. Rising(queue) /\ \A i \in 1..Len(queue) : queue[i].version < version
  BY DEF AttachInv, QueueInv
<1>5. /\ q \in Seq(Messages) /\ Rising(q) /\ \A i \in 1..Len(q) : q[i].version < version
      /\ q # << >> => q = queue \/ queue[1].version < q[1].version
  <2>1. CASE q = queue
    BY <2>1, <1>2, <1>4
  <2>2. CASE q = Tail(queue) /\ queue # << >>
    <3>1. q # << >> => 1 \in 1..Len(q)
      BY <2>2, <1>2, <1>4, QueueShrinks, ReadOff
    <3> QED BY <2>2, <3>1, <1>2, <1>4, QueueShrinks
  <2> QED BY <2>1, <2>2
<1>6. /\ queue' \in Seq(Messages) /\ Rising(queue') /\ Len(queue') = Len(q) + 1 /\ Len(q) \in Nat
      /\ \A i \in 1..Len(queue') : queue'[i].version <= version
      /\ queue'[1] = IF q = << >> THEN Msg("resync", version) ELSE q[1]
  BY <1>3, <1>5, QueueGrows
<1>7. QueueInv' /\ Len(queue') <= SubBuffer
  BY <1>2, <1>6 DEF QueueInv
<1>8. TipInv'
  <2>1. Tip' = Tip /\ Tip \in Nat
    BY <1>1, StreamStays, StreamIs DEF Stream, AttachInv
  <2>2. pump = "range" => Tip <= version /\ Tip < version /\ (queue # << >> => Tip < queue[1].version)
    BY DEF AttachInv, TipInv
  <2>3. q # << >> => queue # << >> /\ queue[1].version \in Nat /\ q[1].version \in Nat
    <3>1. q # << >> => queue # << >>
      OBVIOUS
    <3> QED BY <3>1, <1>2, <1>5, MessagesAre
  <2>4. pump = "range" /\ q # << >> => Tip < q[1].version
    BY <2>1, <2>2, <2>3, <1>5
  <2>5. pump = "range" => Tip < queue'[1].version
    BY <2>2, <2>4, <1>3, <1>6
  <2> QED BY <1>1, <2>1, <2>2, <2>5 DEF TipInv
<1> QED BY <1>1, <1>2, <1>6, <1>7, <1>8, SessionKeeps

LEMMA ResynchronizeKeeps == AttachInv /\ Resynchronize => AttachInv'
<1> SUFFICES ASSUME AttachInv, Resynchronize PROVE AttachInv'
  OBVIOUS
<1>1. /\ missed /\ Len(queue) < SubBuffer /\ queue' = Append(queue, Msg("resync", version))
      /\ missed' = FALSE /\ UNCHANGED <<version, resyncs, finished, viewed, hungup, exited>>
      /\ UNCHANGED <<serving, wires, client>>
  BY DEF Resynchronize
<1>2. {finished, viewed, hungup}' \subseteq BOOLEAN
  BY <1>1 DEF AttachInv, TypeInv
<1> QED BY <1>1, <1>2, OwedState

LEMMA EndStreamKeeps == AttachInv /\ EndStream => AttachInv'
<1> SUFFICES ASSUME AttachInv, EndStream PROVE AttachInv'
  OBVIOUS
<1>1. /\ ~hungup /\ hungup' = TRUE /\ finished' = TRUE /\ missed' = FALSE
      /\ queue' = (IF missed THEN Append(Evict, Msg("resync", version)) ELSE queue)
      /\ UNCHANGED <<version, resyncs, viewed, exited, serving, wires, client>>
      /\ UNCHANGED <<pump, held, down, hand, output, shown>>
  BY DEF EndStream, serving, wires, client
<1>2. /\ queue \in Seq(Messages) /\ Len(queue) <= SubBuffer /\ SubBuffer \in Nat \ {0}
      /\ Len(queue) \in Nat /\ version \in Nat /\ {viewed, exited} \subseteq BOOLEAN
  BY BuffersAssumption, LenProperties DEF AttachInv, TypeInv
<1>3. {finished, viewed, hungup}' \subseteq BOOLEAN
  BY <1>1, <1>2
<1>4. CASE missed
  <2>1. CASE Len(queue) >= SubBuffer
    <3>1. Evict = Tail(queue) /\ Len(queue) # 0
      BY <2>1, <1>2 DEF Evict
    <3>2. queue # << >>
      BY <3>1
    <3>3. Len(Tail(queue)) < SubBuffer
      BY <1>2, <3>2, ReadOff
    <3> QED BY <1>1, <1>3, <1>4, <3>1, <3>2, <3>3, OwedState
  <2>2. CASE Len(queue) < SubBuffer
    <3>1. Evict = queue
      BY <2>2, <1>2 DEF Evict
    <3> QED BY <1>1, <1>3, <1>4, <2>2, <3>1, OwedState
  <2> QED BY <2>1, <2>2, <1>2
<1>5. CASE ~missed
  <2>1. queue' = queue
    BY <1>1, <1>5
  <2>2. QueueInv'
    BY <1>1, <2>1 DEF AttachInv, QueueInv
  <2>3. TipInv'
    <3>1. Tip' = Tip
      BY <1>1, StreamStays DEF Stream
    <3> QED BY <1>1, <2>1, <3>1 DEF AttachInv, TipInv
  <2> QED BY <1>1, <1>2, <1>3, <2>1, <2>2, <2>3, SessionKeeps
<1> QED BY <1>4, <1>5

LEMMA ExitKeeps == AttachInv /\ Exit => AttachInv'
<1> SUFFICES ASSUME AttachInv, Exit PROVE AttachInv'
  OBVIOUS
<1>1. /\ exited' = TRUE /\ UNCHANGED <<version, resyncs, queue, missed, finished, viewed, hungup>>
      /\ UNCHANGED <<serving, wires, client>> /\ UNCHANGED <<pump, held, down, hand, output, shown>>
  BY DEF Exit, serving, wires, client
<1>2. version \in Nat /\ queue \in Seq(Messages) /\ Len(queue) <= SubBuffer
      /\ {missed, finished, viewed, hungup, exited}' \subseteq BOOLEAN
  BY <1>1 DEF AttachInv, TypeInv
<1>3. QueueInv'
  BY <1>1 DEF AttachInv, QueueInv
<1>4. TipInv'
  <2>1. Tip' = Tip
    BY <1>1, StreamStays DEF Stream
  <2> QED BY <1>1, <2>1 DEF AttachInv, TipInv
<1> QED BY <1>1, <1>2, <1>3, <1>4, SessionKeeps
-----------------------------------------------------------------------------
(***************************************************************************)
(* The pump's actions.                                                     *)
(***************************************************************************)

\* The stream does not hold the exit while the pump runs.
LEMMA NoExitYet ==
  ASSUME AttachInv, pump # "ended"
  PROVE  \A i \in 1..Len(Stream) : Stream[i] # Exited
<1>1. Len(Stream) \in Nat
  BY StreamIs DEF AttachInv
<1>2. SUFFICES ASSUME NEW i \in 1..Len(Stream), Stream[i] = Exited PROVE FALSE
  OBVIOUS
<1>3. CASE i = Len(Stream)
  <2>1. Stream # << >>
    BY <1>1, <1>2
  <2>2. Stream[i].type \in {"output", "snapshot"}
    BY <1>3, <2>1 DEF AttachInv, StreamInv
  <2> QED BY <1>2, <2>2, ExitedIs
<1>4. CASE i # Len(Stream)
  <2>1. i \in 1..Len(Stream) - 1
    BY <1>1, <1>2, <1>4
  <2>2. Follows(Stream[i], Stream[i + 1])
    BY <2>1 DEF AttachInv, StreamInv, Chain
  <2> QED BY <1>2, <2>2 DEF Follows
<1> QED BY <1>3, <1>4

\* What a step of the pump leaves alone.
LEMMA PumpKeeps ==
  ASSUME AttachInv,
         UNCHANGED <<version, resyncs, missed, finished, viewed, hungup, exited, reader, detached,
                     daemonDied, up, client>>,
         queue' \in Seq(Messages), Len(queue') <= SubBuffer,
         held' \in Seq(Frames), Len(held') <= 2, down' \in Seq(Frames), Len(down') <= WireBuffer,
         pump' \in {"range", "select", "ended"}, serverClosed' \in BOOLEAN,
         QueueInv', StreamInv', TipInv', PumpInv', serverClosed => serverClosed',
         serverClosed' => serverClosed \/ clientClosed
  PROVE  AttachInv'
<1>1. UNCHANGED <<clientClosed, loop, hand, output, exitSeen, shown, inputs, resizes>>
  BY DEF client
<1>2. TypeInv'
  <2>1. {resyncs, missed, finished, viewed, hungup, exited, detached, serverClosed,
         clientClosed, exitSeen, daemonDied}' \subseteq BOOLEAN
    BY <1>1 DEF AttachInv, TypeInv
  <2> QED BY <1>1, <2>1 DEF AttachInv, TypeInv
<1>3. HangInv'
  BY <1>1 DEF AttachInv, HangInv
<1> QED BY <1>2, <1>3 DEF AttachInv

\* A message leaves the queue and joins the stream.
LEMMA StreamGrows ==
  ASSUME AttachInv, pump = "range", held = << >>, queue # << >>,
         held' = FramesOf(Head(queue)), UNCHANGED <<pump, output, hand, down, shown>>
  PROVE  StreamInv' /\ Tip' = queue[1].version
<1>1. /\ queue \in Seq(Messages) /\ Head(queue) = queue[1] /\ queue[1] \in Messages
      /\ queue[1].version \in Nat /\ shown \in Nat
  BY ReadOff, MessagesAre DEF AttachInv, TypeInv
<1> DEFINE f == FramesOf(queue[1])
<1>2. /\ f \in Seq(Frames) /\ Len(f) \in {1, 2} /\ f # << >> /\ Chain(f) /\ f[1] # Exited
      /\ f[1].version = queue[1].version /\ f[Len(f)].version = queue[1].version
      /\ f[Len(f)].type \in {"output", "snapshot"}
  BY <1>1, FramesAre
<1>3. held' = f
  BY <1>1
<1> HIDE DEF f
<1>4. Stream \in Seq(Frames) /\ Stream' = Stream \o f
  <2>1. Stream \in Seq(Frames) /\ ((output \o hand) \o down) \in Seq(Frames)
    BY StreamIs DEF AttachInv
  <2>2. Stream = (output \o hand) \o down
    BY <2>1, ConcatEmptySeq DEF Stream
  <2> QED BY <1>3, <2>1, <2>2 DEF Stream
<1>5. /\ Len(Stream') = Len(Stream) + Len(f) /\ Len(Stream) \in Nat
      /\ \A i \in 1..Len(Stream) : Stream'[i] = Stream[i]
      /\ \A i \in 1..Len(f) : Stream'[Len(Stream) + i] = f[i]
      /\ Stream' \in Seq(Frames)
  BY <1>2, <1>4, Joined
<1>6. Tip < queue[1].version /\ Tip \in Nat
  BY StreamIs DEF AttachInv, TipInv
<1>7. Stream' # << >> /\ Stream'[Len(Stream')] = f[Len(f)]
  <2>1. Len(f) \in 1..Len(f) /\ Len(Stream') # 0
    BY <1>2, <1>5
  <2> QED BY <2>1, <1>5
<1>8. Chain(Stream')
  <2>1. Stream # << >> => Follows(Stream[Len(Stream)], f[1])
    <3>1. SUFFICES ASSUME Stream # << >> PROVE Follows(Stream[Len(Stream)], f[1])
      OBVIOUS
    <3>2. Stream[Len(Stream)].type \in {"output", "snapshot"} /\ Tip = Stream[Len(Stream)].version
      BY <3>1 DEF AttachInv, StreamInv, Tip
    <3>3. f[1].version > Stream[Len(Stream)].version
      BY <3>2, <1>2, <1>6, <1>1
    <3> QED BY <3>2, <3>3, ExitedIs DEF Follows
  <2> QED BY <2>1, <1>2, <1>4, ChainJoined DEF AttachInv, StreamInv
<1>9. Stream'[1] = Exited \/ Stream'[1].version >= shown
  <2>1. CASE Stream = << >>
    <3>1. Len(Stream) = 0 /\ 1 \in 1..Len(f) /\ 0 + 1 = 1
      BY <2>1, <1>2
    <3>2. Stream'[1] = f[1]
      BY <3>1, <1>5
    <3>3. Tip = shown
      BY <2>1 DEF Tip
    <3> QED BY <3>2, <3>3, <1>2, <1>6, <1>1
  <2>2. CASE Stream # << >>
    <3>1. 1 \in 1..Len(Stream)
      BY <2>2, <1>4, ReadOff
    <3> QED BY <2>2, <3>1, <1>5 DEF AttachInv, StreamInv
  <2> QED BY <2>1, <2>2
<1>10. Tip' = queue[1].version
  BY <1>2, <1>7 DEF Tip
<1> QED BY <1>2, <1>7, <1>8, <1>9, <1>10 DEF StreamInv

LEMMA PumpTakeKeeps == AttachInv /\ PumpTake => AttachInv'
<1> SUFFICES ASSUME AttachInv, PumpTake PROVE AttachInv'
  OBVIOUS
<1>1. /\ pump = "range" /\ held = << >>
      /\ UNCHANGED <<version, resyncs, missed, finished, viewed, hungup, exited, reader, detached,
                     serverClosed, daemonDied, up, client, down, hand, output, shown, clientClosed,
                     exitSeen>>
  BY DEF PumpTake, wires, client
<1>2. /\ queue \in Seq(Messages) /\ Len(queue) <= SubBuffer /\ SubBuffer \in Nat /\ Len(queue) \in Nat
      /\ down \in Seq(Frames) /\ Len(down) <= WireBuffer /\ serverClosed \in BOOLEAN
      /\ version \in Nat /\ Tip \in Nat
  BY BuffersAssumption, LenProperties, StreamIs DEF AttachInv, TypeInv
<1>3. CASE queue # << >> /\ held' = FramesOf(Head(queue)) /\ queue' = Tail(queue) /\ pump' = pump
  <2>1. StreamInv' /\ Tip' = queue[1].version
    BY <1>1, <1>3, StreamGrows
  <2>2. /\ queue' \in Seq(Messages) /\ Rising(queue') /\ Len(queue') = Len(queue) - 1
        /\ Head(queue) = queue[1] /\ queue[1] \in Messages /\ 1 \in 1..Len(queue)
        /\ \A i \in 1..Len(queue') : /\ queue[1].version < queue'[i].version
                                   /\ \E j \in 1..Len(queue) : queue'[i] = queue[j]
    BY <1>2, <1>3, QueueShrinks DEF AttachInv, QueueInv
  <2>3. QueueInv' /\ Len(queue') <= SubBuffer
    BY <1>1, <1>2, <2>2 DEF AttachInv, QueueInv
  <2>4. TipInv'
    <3>1. queue[1].version <= version /\ (missed => queue[1].version < version)
      BY <2>2 DEF AttachInv, QueueInv
    <3>2. queue' # << >> => queue[1].version < queue'[1].version
      BY <2>2, ReadOff
    <3> QED BY <1>1, <2>1, <3>1, <3>2 DEF TipInv
  <2>5. held' \in Seq(Frames) /\ Len(held') <= 2
    <3>1. Len(held') \in {1, 2} /\ held' \in Seq(Frames)
      BY <1>3, <2>2, FramesAre
    <3>2. \A n \in {1, 2} : n <= 2
      OBVIOUS
    <3> QED BY <3>1, <3>2
  <2>6. PumpInv'
    BY <1>1, <1>3 DEF AttachInv, PumpInv
  <2> QED BY <1>1, <1>2, <1>3, <2>1, <2>2, <2>3, <2>4, <2>5, <2>6, PumpKeeps DEF AttachInv
<1>4. CASE queue = << >> /\ finished /\ pump' = "select" /\ UNCHANGED <<held, queue>>
  <2>1. StreamInv'
    BY <1>1, <1>4 DEF AttachInv, StreamInv, Stream
  <2>2. QueueInv' /\ TipInv'
    BY <1>1, <1>4 DEF AttachInv, QueueInv, TipInv
  <2>3. PumpInv'
    BY <1>1, <1>4 DEF AttachInv, PumpInv
  <2>4. held' \in Seq(Frames) /\ Len(held') <= 2
    BY <1>1, <1>4
  <2> QED BY <1>1, <1>2, <1>4, <2>1, <2>2, <2>3, <2>4, PumpKeeps
<1> QED BY <1>3, <1>4 DEF PumpTake

LEMMA PumpWriteKeeps == AttachInv /\ PumpWrite => AttachInv'
<1> SUFFICES ASSUME AttachInv, PumpWrite PROVE AttachInv'
  OBVIOUS
<1>1. /\ pump = "range" /\ held # << >>
      /\ UNCHANGED <<version, resyncs, queue, missed, finished, viewed, hungup, exited, reader, detached,
                     daemonDied, up, client, hand, output, shown, clientClosed, exitSeen>>
  BY DEF PumpWrite, session, client
<1>2. /\ queue \in Seq(Messages) /\ Len(queue) <= SubBuffer /\ serverClosed \in BOOLEAN
      /\ down \in Seq(Frames) /\ Len(down) <= WireBuffer /\ WireBuffer \in Nat /\ Len(down) \in Nat
      /\ held \in Seq(Frames) /\ Len(held) <= 2
  BY BuffersAssumption, LenProperties DEF AttachInv, TypeInv
<1>3. QueueInv'
  BY <1>1 DEF AttachInv, QueueInv
<1>4. CASE /\ ~Broken /\ Len(down) < WireBuffer /\ down' = Append(down, Head(held))
           /\ held' = Tail(held) /\ UNCHANGED <<pump, serverClosed>>
  <2>1. StreamInv' /\ Tip' = Tip
    <3>1. Stream' = Stream
      BY <1>1, <1>4, StreamMoves
    <3> QED BY <1>1, <1>4, <3>1, StreamStays
  <2>2. TipInv'
    BY <1>1, <1>4, <2>1 DEF AttachInv, TipInv
  <2>3. /\ held' \in Seq(Frames) /\ Len(held') = Len(held) - 1 /\ Head(held) \in Frames
        /\ Head(held) = held[1] /\ 1 \in 1..Len(held) /\ Len(held) \in Nat
    BY <1>1, <1>2, <1>4, ReadOff
  <2>4. /\ down' \in Seq(Frames) /\ Len(down') = Len(down) + 1
        /\ \A i \in 1..Len(down) : down'[i] = down[i]
        /\ down'[Len(down) + 1] = Head(held)
    BY <1>2, <1>4, <2>3, AppendProperties
  <2>5. Head(held) # Exited
    <3> DEFINE a == (output \o hand) \o down
    <3>1. a \in Seq(Frames) /\ Stream = a \o held
      BY StreamIs DEF AttachInv, Stream
    <3> HIDE DEF a
    <3>2. Stream[Len(a) + 1] = held[1] /\ Len(a) + 1 \in 1..Len(Stream)
      BY <1>2, <2>3, <3>1, Joined
    <3> QED BY <1>1, <2>3, <3>2, NoExitYet
  <2>6. PumpInv'
    <3>1. ~exitSeen /\ \A i \in 1..Len(down) : down[i] # Exited
      BY <1>1 DEF AttachInv, PumpInv
    <3>2. \A i \in 1..Len(down') : i \in 1..Len(down) \/ i = Len(down) + 1
      BY <1>2, <2>4
    <3>3. \A i \in 1..Len(down') : down'[i] # Exited
      BY <2>4, <2>5, <3>1, <3>2
    <3> QED BY <1>1, <1>4, <3>1, <3>3 DEF AttachInv, PumpInv
  <2>7. Len(held') <= 2 /\ Len(down') <= WireBuffer
    BY <1>2, <1>4, <2>3, <2>4
  <2> QED BY <1>1, <1>2, <1>3, <1>4, <2>1, <2>2, <2>3, <2>4, <2>6, <2>7, PumpKeeps
<1>5. CASE Broken /\ pump' = "ended" /\ held' = << >> /\ serverClosed' = TRUE /\ UNCHANGED down
  <2>1. clientClosed
    BY <1>1, <1>5 DEF Broken, AttachInv, PumpInv
  <2>2. StreamInv' /\ TipInv'
    BY <1>1, <1>5, StreamCut DEF TipInv
  <2>3. PumpInv'
    BY <1>1, <1>5, <2>1 DEF AttachInv, PumpInv
  <2>4. held' \in Seq(Frames) /\ Len(held') <= 2
    BY <1>5
  <2> QED BY <1>1, <1>2, <1>3, <1>5, <2>1, <2>2, <2>3, <2>4, PumpKeeps
<1> QED BY <1>4, <1>5 DEF PumpWrite

LEMMA PumpSelectKeeps == AttachInv /\ PumpSelect => AttachInv'
<1> SUFFICES ASSUME AttachInv, PumpSelect PROVE AttachInv'
  OBVIOUS
<1>1. /\ pump = "select" /\ pump' = "ended" /\ held = << >>
      /\ UNCHANGED <<version, resyncs, queue, missed, finished, viewed, hungup, exited, held, reader,
                     detached, serverClosed, daemonDied, up, client, hand, output, shown,
                     clientClosed, exitSeen>>
  BY DEF PumpSelect, session, client, AttachInv, PumpInv
<1>2. /\ queue \in Seq(Messages) /\ Len(queue) <= SubBuffer /\ serverClosed \in BOOLEAN
      /\ down \in Seq(Frames) /\ Len(down) <= WireBuffer /\ WireBuffer \in Nat /\ Len(down) \in Nat
      /\ held' \in Seq(Frames) /\ Len(held') <= 2
  BY <1>1, BuffersAssumption, LenProperties DEF AttachInv, TypeInv
<1>3. QueueInv' /\ TipInv'
  BY <1>1 DEF AttachInv, QueueInv, TipInv
<1>4. CASE exited /\ ~Broken /\ Len(down) < WireBuffer /\ down' = Append(down, Exited)
  <2>1. /\ down' \in Seq(Frames) /\ Len(down') = Len(down) + 1
    BY <1>2, <1>4, ExitedIs, AppendProperties
  <2>2. Stream' = Stream \o <<Exited>> /\ Stream \in Seq(Frames)
    <3> DEFINE a == output \o hand
    <3> DEFINE e == <<Exited>>
    <3>1. /\ a \in Seq(Frames) /\ a \o down \in Seq(Frames) /\ Stream \in Seq(Frames)
          /\ e \in Seq(Frames)
      BY StreamIs, ExitedIs DEF AttachInv
    <3>2. down' = down \o e
      BY <1>2, <1>4, ExitedIs, AppendIsConcat
    <3>3. Stream = (a \o down) \o << >> /\ Stream' = (a \o down') \o << >>
      BY <1>1 DEF Stream
    <3> HIDE DEF a, e
    <3>4. a \o (down \o e) = (a \o down) \o e /\ (a \o (down \o e)) \in Seq(Frames)
      <4>1. (a \o down) \o e = a \o (down \o e)
        <5>1. a \in Seq(Frames) /\ down \in Seq(Frames) /\ e \in Seq(Frames)
          BY <1>2, <3>1
        <5> QED BY <5>1, ConcatAssociative
      <4>2. (a \o down) \o e \in Seq(Frames)
        BY <3>1, Joined
      <4> QED BY <4>1, <4>2
    <3>5. Stream = a \o down /\ Stream' = (a \o down) \o e
      BY <3>1, <3>2, <3>3, <3>4, ConcatEmptySeq
    <3> QED BY <3>1, <3>5 DEF e
  <2>3. StreamInv'
    <3> DEFINE e == <<Exited>>
    <3>1. e \in Seq(Frames) /\ Len(e) = 1 /\ e[1] = Exited /\ e # << >> /\ Stream' = Stream \o e
      BY <2>2, ExitedIs
    <3> HIDE DEF e
    <3>2. Chain(e)
      <4>1. 1..Len(e) - 1 = {}
        BY <3>1
      <4> QED BY <4>1 DEF Chain
    <3>3. Stream # << >> => Follows(Stream[Len(Stream)], Exited)
      <4>1. Stream # << >> => Stream[Len(Stream)].type \in {"output", "snapshot"}
        BY <1>1 DEF AttachInv, StreamInv
      <4> QED BY <4>1, ExitedIs DEF Follows
    <3>4. Chain(Stream')
      BY <2>2, <3>1, <3>2, <3>3, ChainJoined DEF AttachInv, StreamInv
    <3>5. Stream'[1] = Exited \/ Stream'[1].version >= shown
      <4>1. CASE Stream = << >>
        <5>1. Stream' = e
          BY <4>1, <3>1, ConcatEmptySeq
        <5> QED BY <5>1, <3>1
      <4>2. CASE Stream # << >>
        <5>1. Stream'[1] = Stream[1]
          BY <4>2, <2>2, <3>1, TailOfJoined
        <5> QED BY <5>1, <4>2 DEF AttachInv, StreamInv
      <4> QED BY <4>1, <4>2
    <3> QED BY <1>1, <3>4, <3>5 DEF StreamInv
  <2>4. PumpInv'
    <3>1. queue = << >> /\ finished /\ ~serverClosed /\ ~exitSeen
      BY <1>1, <1>4 DEF Broken, AttachInv, PumpInv
    <3> QED BY <1>1, <1>4, <3>1 DEF PumpInv
  <2>5. Len(down') <= WireBuffer
    BY <1>2, <1>4, <2>1
  <2> QED BY <1>1, <1>2, <1>3, <2>1, <2>3, <2>4, <2>5, PumpKeeps
<1>5. CASE UNCHANGED down
  <2>1. StreamInv'
    BY <1>1, <1>5, StreamStays DEF Stream
  <2>2. PumpInv'
    BY <1>1, <1>5 DEF AttachInv, PumpInv
  <2> QED BY <1>1, <1>2, <1>3, <1>5, <2>1, <2>2, PumpKeeps
<1> QED BY <1>4, <1>5 DEF PumpSelect
-----------------------------------------------------------------------------
(***************************************************************************)
(* The frame loop's actions.                                               *)
(***************************************************************************)

\* What a step of the frame loop leaves alone.
LEMMA ReaderKeeps ==
  ASSUME AttachInv,
         UNCHANGED <<version, resyncs, queue, hungup, exited, pump, held, daemonDied, down, client>>,
         up' \in Seq({"input", "resize"}), Len(up') <= WireBuffer,
         {missed, finished, viewed, detached, serverClosed}' \subseteq BOOLEAN,
         reader' \in {"read", "write", "join", "ended"},
         finished => finished', missed' => missed /\ ~finished', serverClosed => serverClosed',
         serverClosed' => pump = "ended", HangInv'
  PROVE  AttachInv'
<1>1. UNCHANGED <<clientClosed, loop, hand, output, exitSeen, shown, inputs, resizes>>
  BY DEF client
<1>2. TypeInv'
  <2>1. {resyncs, missed, finished, viewed, hungup, exited, detached, serverClosed,
         clientClosed, exitSeen, daemonDied}' \subseteq BOOLEAN
    BY <1>1 DEF AttachInv, TypeInv
  <2> QED BY <1>1, <2>1 DEF AttachInv, TypeInv
<1>3. StreamInv' /\ Tip' = Tip
  BY <1>1, StreamStays DEF Stream
<1>4. QueueInv'
  BY DEF AttachInv, QueueInv
<1>5. TipInv'
  BY <1>3 DEF AttachInv, TipInv
<1>6. PumpInv'
  BY <1>1 DEF AttachInv, PumpInv
<1> QED BY <1>2, <1>3, <1>4, <1>5, <1>6 DEF AttachInv

\* The loop leaves: the subscription is over, and the pump may end with it.
LEMMA LeaveKeeps ==
  ASSUME AttachInv, Leave, up' = up,
         UNCHANGED <<version, resyncs, queue, hungup, exited, pump, held, serverClosed, daemonDied,
                     down, client>>,
         clientClosed \/ daemonDied \/ (inputs > 0 /\ hungup)
  PROVE  AttachInv'
<1>1. /\ detached' = TRUE /\ reader' = "join" /\ finished' = TRUE /\ missed' = FALSE /\ viewed' = FALSE
      /\ UNCHANGED <<clientClosed, loop, inputs>>
  BY DEF Leave, client
<1>2. /\ up' \in Seq({"input", "resize"}) /\ Len(up') <= WireBuffer /\ serverClosed' \in BOOLEAN
      /\ serverClosed => pump = "ended"
  BY DEF AttachInv, TypeInv, PumpInv
<1>3. HangInv'
  BY <1>1 DEF AttachInv, HangInv
<1> QED BY <1>1, <1>2, <1>3, ReaderKeeps

LEMMA ReadFrameKeeps == AttachInv /\ ReadFrame => AttachInv'
<1> SUFFICES ASSUME AttachInv, ReadFrame PROVE AttachInv'
  OBVIOUS
<1>1. /\ reader = "read"
      /\ UNCHANGED <<version, resyncs, queue, hungup, exited, pump, held, serverClosed, daemonDied,
                     down, client, clientClosed, loop, inputs>>
  BY DEF ReadFrame, client
<1>2. /\ up \in Seq({"input", "resize"}) /\ Len(up) <= WireBuffer /\ WireBuffer \in Nat
      /\ Len(up) \in Nat /\ {missed, finished, viewed, detached, serverClosed} \subseteq BOOLEAN
      /\ serverClosed => pump = "ended"
      /\ finished => ~missed
  BY BuffersAssumption, LenProperties DEF AttachInv, TypeInv, PumpInv, QueueInv
<1>3. CASE /\ up # << >> /\ up' = Tail(up)
           /\ \/ Head(up) = "input" /\ reader' = "write" /\ UNCHANGED viewed
              \/ Head(up) = "resize" /\ viewed' = (viewed \/ ~finished) /\ UNCHANGED reader
           /\ UNCHANGED <<finished, missed, detached>>
  <2>1. /\ up' \in Seq({"input", "resize"}) /\ Len(up') = Len(up) - 1 /\ Head(up) = up[1]
        /\ 1 \in 1..Len(up)
        /\ \A i \in 1..Len(up') : up'[i] = up[i + 1] /\ i + 1 \in 1..Len(up)
    BY <1>2, <1>3, ReadOff
  <2>2. HangInv'
    <3>1. (\E i \in 1..Len(up) : up[i] = "input") => inputs > 0
      BY DEF AttachInv, HangInv
    <3>2. (\E i \in 1..Len(up') : up'[i] = "input") => inputs > 0
      BY <2>1, <3>1
    <3>3. reader' = "write" => inputs > 0
      BY <1>1, <1>3, <2>1, <3>1
    <3>4. reader' \notin {"join", "ended"}
      BY <1>1, <1>3
    <3> QED BY <1>1, <3>2, <3>3, <3>4 DEF AttachInv, HangInv
  <2>3. {missed, finished, viewed, detached, serverClosed}' \subseteq BOOLEAN
    BY <1>1, <1>2, <1>3
  <2>4. Len(up') <= WireBuffer
    BY <1>2, <2>1
  <2>5. reader' \in {"read", "write", "join", "ended"}
    BY <1>1, <1>3
  <2> QED BY <1>1, <1>2, <1>3, <2>1, <2>2, <2>3, <2>4, <2>5, ReaderKeeps
<1>4. CASE (serverClosed \/ (clientClosed /\ up = << >>)) /\ Leave /\ UNCHANGED up
  <2>1. clientClosed \/ daemonDied \/ (inputs > 0 /\ hungup)
    BY <1>4 DEF AttachInv, HangInv
  <2> QED BY <1>1, <1>4, <2>1, LeaveKeeps
<1> QED BY <1>3, <1>4 DEF ReadFrame

LEMMA WriteInputKeeps == AttachInv /\ WriteInput => AttachInv'
<1> SUFFICES ASSUME AttachInv, WriteInput PROVE AttachInv'
  OBVIOUS
<1>1. /\ reader' = "read"
      /\ UNCHANGED <<version, resyncs, queue, missed, finished, viewed, hungup, exited, pump, held,
                     detached, serverClosed, daemonDied, down, up, client, clientClosed, loop, inputs>>
  BY DEF WriteInput, session, wires, client
<1>2. /\ up' \in Seq({"input", "resize"}) /\ Len(up') <= WireBuffer
      /\ {missed, finished, viewed, detached, serverClosed}' \subseteq BOOLEAN
      /\ serverClosed => pump = "ended"
  BY <1>1 DEF AttachInv, TypeInv, PumpInv, QueueInv
<1>3. HangInv'
  BY <1>1 DEF AttachInv, HangInv
<1>4. missed' => ~finished'
  BY <1>1 DEF AttachInv, QueueInv
<1>5. serverClosed' => pump = "ended"
  BY <1>1 DEF AttachInv, PumpInv
<1> QED BY <1>1, <1>2, <1>3, <1>4, <1>5, ReaderKeeps

LEMMA WriteFailsKeeps == AttachInv /\ WriteFails => AttachInv'
<1> SUFFICES ASSUME AttachInv, WriteFails PROVE AttachInv'
  OBVIOUS
<1>1. /\ Leave /\ up' = up
      /\ UNCHANGED <<version, resyncs, queue, hungup, exited, pump, held, serverClosed, daemonDied,
                     down, client>>
  BY DEF WriteFails, wires
<1>2. inputs > 0 /\ hungup
  BY DEF WriteFails, AttachInv, HangInv
<1> QED BY <1>1, <1>2, LeaveKeeps

LEMMA JoinKeeps == AttachInv /\ Join => AttachInv'
<1> SUFFICES ASSUME AttachInv, Join PROVE AttachInv'
  OBVIOUS
<1>1. /\ reader = "join" /\ reader' = "ended" /\ pump = "ended" /\ serverClosed' = TRUE
      /\ UNCHANGED <<version, resyncs, queue, missed, finished, viewed, hungup, exited, pump, held,
                     detached, daemonDied, down, up, client, clientClosed, loop, inputs>>
  BY DEF Join, session, wires, client
<1>2. /\ up' \in Seq({"input", "resize"}) /\ Len(up') <= WireBuffer
      /\ {missed, finished, viewed, detached, serverClosed}' \subseteq BOOLEAN
  BY <1>1 DEF AttachInv, TypeInv
<1>3. HangInv'
  BY <1>1 DEF AttachInv, HangInv
<1>4. missed' => ~finished'
  BY <1>1 DEF AttachInv, QueueInv
<1> QED BY <1>1, <1>2, <1>3, <1>4, ReaderKeeps

\* The daemon dies, with the pump and the frame loop.
LEMMA DaemonDiesKeeps == AttachInv /\ DaemonDies => AttachInv'
<1> SUFFICES ASSUME AttachInv, DaemonDies PROVE AttachInv'
  OBVIOUS
<1>1. /\ daemonDied' = TRUE /\ queue' = << >> /\ missed' = FALSE /\ finished' = TRUE
      /\ viewed' = FALSE /\ hungup' = TRUE /\ pump' = "ended" /\ held' = << >> /\ reader' = "ended"
      /\ serverClosed' = TRUE /\ up' = << >>
      /\ UNCHANGED <<version, resyncs, exited, detached, down, clientClosed, loop, hand, output,
                     exitSeen, shown, inputs, resizes>>
  BY DEF DaemonDies, client
<1>2. TypeInv'
  <2>1. {resyncs, missed, finished, viewed, hungup, exited, detached, serverClosed,
         clientClosed, exitSeen, daemonDied}' \subseteq BOOLEAN
    BY <1>1 DEF AttachInv, TypeInv
  <2>2. /\ queue' \in Seq(Messages) /\ held' \in Seq(Frames) /\ up' \in Seq({"input", "resize"})
        /\ Len(queue') = 0 /\ Len(held') = 0 /\ Len(up') = 0
    BY <1>1
  <2>3. SubBuffer \in Nat /\ WireBuffer \in Nat
    BY BuffersAssumption
  <2>4. Len(queue') <= SubBuffer /\ Len(held') <= 2 /\ Len(up') <= WireBuffer
    BY <2>2, <2>3
  <2> QED BY <1>1, <2>1, <2>2, <2>4 DEF AttachInv, TypeInv
<1>3. QueueInv'
  <2>1. 1..Len(queue') = {}
    BY <1>1
  <2> QED BY <1>1, <2>1 DEF QueueInv, Rising
<1>4. StreamInv' /\ TipInv'
  BY <1>1, StreamCut DEF TipInv
<1>5. PumpInv'
  BY <1>1 DEF AttachInv, PumpInv
<1>6. HangInv'
  <2>1. 1..Len(up') = {}
    BY <1>1
  <2> QED BY <1>1, <2>1 DEF AttachInv, HangInv
<1> QED BY <1>2, <1>3, <1>4, <1>5, <1>6 DEF AttachInv

-----------------------------------------------------------------------------
(***************************************************************************)
(* The client's actions.                                                   *)
(***************************************************************************)

\* What a step of the client leaves alone.
LEMMA ClientKeeps ==
  ASSUME AttachInv, UNCHANGED <<session, serving, inputs, resizes>>,
         up' = up, clientClosed => clientClosed', clientClosed' \in BOOLEAN,
         loop' = loop \/ (loop' = "ended" /\ (clientClosed \/ serverClosed)),
         hand' \in Seq(Frames), Len(hand') <= 1, output' \in Seq(Frames), Len(output') <= ClientBuffer,
         down' \in Seq(Frames), Len(down') <= WireBuffer, shown' \in Nat, exitSeen' \in BOOLEAN,
         StreamInv', pump = "range" => Tip' = Tip,
         \A i \in 1..Len(down') : \E j \in 1..Len(down) : down'[i] = down[j],
         exitSeen' => /\ hand' = << >> /\ down' = << >>
                      /\ exitSeen \/ (\E i \in 1..Len(down) : down[i] = Exited)
  PROVE  AttachInv'
<1>1. UNCHANGED <<version, resyncs, queue, missed, finished, viewed, hungup, exited, pump, held, reader,
                  detached, serverClosed, daemonDied>>
  BY DEF session, serving
<1>2. TypeInv'
  <2>1. {resyncs, missed, finished, viewed, hungup, exited, detached, serverClosed,
         clientClosed, exitSeen, daemonDied}' \subseteq BOOLEAN
    BY <1>1 DEF AttachInv, TypeInv
  <2> QED BY <1>1, <2>1 DEF AttachInv, TypeInv
<1>3. QueueInv' /\ TipInv'
  BY <1>1 DEF AttachInv, QueueInv, TipInv
<1>4. PumpInv'
  <2>1. exitSeen' \/ (\E i \in 1..Len(down') : down'[i] = Exited) =>
          exitSeen \/ (\E i \in 1..Len(down) : down[i] = Exited)
    OBVIOUS
  <2>2. pump # "range" /\ ~clientClosed' => queue = << >> /\ finished
    BY DEF AttachInv, PumpInv
  <2> QED BY <1>1, <2>1, <2>2 DEF AttachInv, PumpInv
<1>5. HangInv'
  BY <1>1 DEF AttachInv, HangInv
<1> QED BY <1>2, <1>3, <1>4, <1>5 DEF AttachInv

LEMMA ClientReadKeeps == AttachInv /\ ClientRead => AttachInv'
<1> SUFFICES ASSUME AttachInv, ClientRead PROVE AttachInv'
  OBVIOUS
<1>1. /\ loop = "read" /\ hand = << >> /\ ~clientClosed /\ down # << >> /\ down' = Tail(down)
      /\ UNCHANGED <<session, serving, inputs, resizes, up, clientClosed, loop, output, shown, pump, held>>
  BY DEF ClientRead, serving
<1>2. /\ down \in Seq(Frames) /\ Len(down) <= WireBuffer /\ WireBuffer \in Nat /\ output \in Seq(Frames)
      /\ Len(output) <= ClientBuffer /\ shown \in Nat /\ {clientClosed, exitSeen} \subseteq BOOLEAN
      /\ held \in Seq(Frames)
  BY BuffersAssumption DEF AttachInv, TypeInv
<1>3. /\ down' \in Seq(Frames) /\ Len(down') = Len(down) - 1 /\ Len(down) \in Nat \ {0}
      /\ Head(down) = down[1] /\ 1 \in 1..Len(down) /\ Head(down) \in Frames
      /\ \A i \in 1..Len(down') : down'[i] = down[i + 1] /\ i + 1 \in 1..Len(down)
  BY <1>1, <1>2, ReadOff
<1>4. /\ Len(down') <= WireBuffer
      /\ \A i \in 1..Len(down') : \E j \in 1..Len(down) : down'[i] = down[j]
  BY <1>2, <1>3
<1>5. ~exitSeen
  BY <1>1 DEF AttachInv, PumpInv
<1>6. CASE Head(down) # Exited /\ hand' = <<Head(down)>> /\ UNCHANGED exitSeen
  <2>1. Stream' = Stream
    BY <1>1, <1>6, StreamMoves
  <2>2. StreamInv' /\ Tip' = Tip
    BY <1>1, <2>1, StreamStays
  <2>3. hand' \in Seq(Frames) /\ Len(hand') <= 1
    BY <1>3, <1>6
  <2> QED BY <1>1, <1>2, <1>3, <1>4, <1>5, <1>6, <2>2, <2>3, ClientKeeps
<1>7. CASE Head(down) = Exited /\ exitSeen' = TRUE /\ UNCHANGED hand
  <2>1. \E i \in 1..Len(down) : down[i] = Exited
    BY <1>3, <1>7
  <2>2. pump = "ended" /\ held = << >>
    BY <2>1 DEF AttachInv, PumpInv
  <2>3. Stream = output \o down
    <3>1. output \o down \in Seq(Frames)
      BY <1>2, Joined
    <3>2. output \o hand = output
      BY <1>1, <1>2, ConcatEmptySeq
    <3>3. Stream = (output \o down) \o << >>
      BY <2>2, <3>2 DEF Stream
    <3> QED BY <3>1, <3>3, ConcatEmptySeq
  <2>4. /\ Len(output \o down) = Len(output) + Len(down) /\ Len(output) \in Nat
        /\ \A i \in 1..Len(down) : (output \o down)[Len(output) + i] = down[i]
    BY <1>2, Joined
  <2>5. Len(down) = 1
    <3>1. SUFFICES ASSUME Len(down) # 1 PROVE FALSE
      OBVIOUS
    <3>2. Len(output) + 1 \in 1..Len(output \o down) - 1
      BY <3>1, <1>3, <2>4
    <3>3. Follows((output \o down)[Len(output) + 1], (output \o down)[(Len(output) + 1) + 1])
      BY <3>2, <2>3 DEF AttachInv, StreamInv, Chain
    <3>4. (output \o down)[Len(output) + 1] = Exited
      BY <1>3, <1>7, <2>4
    <3> QED BY <3>3, <3>4 DEF Follows
  <2>6. down' = << >>
    <3>1. Len(down') = 0
      BY <1>3, <2>5
    <3> QED BY <3>1, <1>3, EmptySeq
  <2>7. Stream' = output
    BY <1>1, <1>2, <1>7, <2>2, <2>6, ConcatEmptySeq DEF Stream
  <2>8. StreamInv'
    <3>1. Chain(output) /\ (output # << >> => Stream # << >> /\ Stream[1] = output[1])
      BY <1>2, <2>3, ChainFront, TailOfJoined DEF AttachInv, StreamInv
    <3> QED BY <1>1, <2>2, <2>7, <3>1 DEF AttachInv, StreamInv
  <2>9. hand' = << >> /\ hand' \in Seq(Frames) /\ Len(hand') <= 1
    BY <1>1, <1>7
  <2> QED BY <1>1, <1>2, <1>3, <1>4, <1>7, <2>1, <2>2, <2>6, <2>8, <2>9, ClientKeeps
<1> QED BY <1>6, <1>7 DEF ClientRead

LEMMA ClientPutKeeps == AttachInv /\ ClientPut => AttachInv'
<1> SUFFICES ASSUME AttachInv, ClientPut PROVE AttachInv'
  OBVIOUS
<1>1. /\ hand # << >> /\ Len(output) < ClientBuffer /\ output' = Append(output, Head(hand))
      /\ hand' = << >>
      /\ UNCHANGED <<session, serving, inputs, resizes, up, down, clientClosed, loop, exitSeen, shown,
                     pump, held>>
  BY DEF ClientPut, serving, wires
<1>2. /\ hand \in Seq(Frames) /\ output \in Seq(Frames) /\ down \in Seq(Frames) /\ shown \in Nat
      /\ Len(down) <= WireBuffer /\ {clientClosed, exitSeen} \subseteq BOOLEAN /\ ClientBuffer \in Nat
  BY BuffersAssumption DEF AttachInv, TypeInv
<1>3. Head(hand) \in Frames
  BY <1>1, <1>2, ReadOff
<1>4. output' \in Seq(Frames) /\ Len(output') = Len(output) + 1 /\ Len(output) \in Nat
  BY <1>1, <1>2, <1>3, AppendProperties, LenProperties
<1>5. StreamInv' /\ Tip' = Tip
  BY <1>1, StreamMoves, StreamStays
<1>6. ~exitSeen
  BY <1>1 DEF AttachInv, PumpInv
<1>7. Len(output') <= ClientBuffer /\ hand' \in Seq(Frames) /\ Len(hand') <= 1
  BY <1>1, <1>2, <1>4
<1> QED BY <1>1, <1>2, <1>4, <1>5, <1>6, <1>7, ClientKeeps
LEMMA ClientEndKeeps == AttachInv /\ ClientEnd => AttachInv'
<1> SUFFICES ASSUME AttachInv, ClientEnd PROVE AttachInv'
  OBVIOUS
<1>1. /\ loop' = "ended" /\ (clientClosed \/ serverClosed)
      /\ UNCHANGED <<session, serving, inputs, resizes, up, down, clientClosed, hand, output, exitSeen,
                     shown, pump, held>>
  BY DEF ClientEnd, serving, wires
<1>2. StreamInv' /\ Tip' = Tip
  BY <1>1, StreamStays DEF Stream
<1>3. /\ hand' \in Seq(Frames) /\ Len(hand') <= 1 /\ output' \in Seq(Frames)
      /\ Len(output') <= ClientBuffer /\ down' \in Seq(Frames) /\ Len(down') <= WireBuffer
      /\ shown' \in Nat /\ {clientClosed, exitSeen}' \subseteq BOOLEAN
  BY <1>1 DEF AttachInv, TypeInv
<1>4. exitSeen' => hand' = << >> /\ down' = << >>
  BY <1>1 DEF AttachInv, PumpInv
<1> QED BY <1>1, <1>2, <1>3, <1>4, ClientKeeps

-----------------------------------------------------------------------------
(***************************************************************************)
(* The program's actions.                                                  *)
(***************************************************************************)

\* The program takes the front of the stream.
LEMMA ConsumeKeeps == AttachInv /\ Consume => AttachInv'
<1> SUFFICES ASSUME AttachInv, Consume PROVE AttachInv'
  OBVIOUS
<1>1. /\ output # << >> /\ output' = Tail(output) /\ shown' = Head(output).version
      /\ UNCHANGED <<session, serving, inputs, resizes, up, down, clientClosed, loop, hand, exitSeen,
                     pump, held>>
  BY DEF Consume, serving, wires
<1>2. /\ output \in Seq(Frames) /\ hand \in Seq(Frames) /\ down \in Seq(Frames) /\ held \in Seq(Frames)
      /\ Len(output) <= ClientBuffer /\ ClientBuffer \in Nat /\ Len(hand) <= 1
      /\ Len(down) <= WireBuffer /\ {clientClosed, exitSeen} \subseteq BOOLEAN
  BY BuffersAssumption DEF AttachInv, TypeInv
<1>3. /\ output' \in Seq(Frames) /\ Len(output') = Len(output) - 1 /\ Head(output) = output[1]
      /\ output[1] \in Frames /\ Len(output) \in Nat
  BY <1>1, <1>2, ReadOff
<1>4. Stream' = Tail(Stream) /\ Stream # << >> /\ Stream[1] = output[1] /\ Stream \in Seq(Frames)
  <2> DEFINE a == output \o hand
  <2>1. a \in Seq(Frames) /\ a \o down \in Seq(Frames) /\ Stream \in Seq(Frames)
    BY StreamIs DEF AttachInv
  <2>2. Tail(output) \o hand = Tail(a) /\ a[1] = output[1] /\ a # << >>
    BY <1>1, <1>2, TailOfJoined
  <2> HIDE DEF a
  <2>3. Tail(a) \o down = Tail(a \o down) /\ (a \o down)[1] = a[1] /\ a \o down # << >>
    BY <1>2, <2>1, <2>2, TailOfJoined
  <2>4. /\ Tail(a \o down) \o held = Tail((a \o down) \o held)
        /\ ((a \o down) \o held)[1] = (a \o down)[1] /\ (a \o down) \o held # << >>
    BY <1>2, <2>1, <2>3, TailOfJoined
  <2> QED BY <1>1, <2>1, <2>2, <2>3, <2>4 DEF Stream, a
<1>5. /\ Len(Stream) \in Nat \ {0} /\ Len(Stream') = Len(Stream) - 1 /\ Stream' \in Seq(Frames)
      /\ \A i \in 1..Len(Stream') : Stream'[i] = Stream[i + 1]
  BY <1>4, ReadOff
<1>6. shown' = Stream[1].version /\ shown' \in Nat
  BY <1>1, <1>3, <1>4 DEF Frames
<1>7. Chain(Stream')
  BY <1>4, ChainTail DEF AttachInv, StreamInv
<1>8. ASSUME Stream' = << >> PROVE StreamInv' /\ Tip' = Tip
  <2>1. Len(Stream) = 1
    <3>1. Len(Stream') = 0
      BY <1>8
    <3> QED BY <3>1, <1>5
  <2>2. Tip' = Tip
    BY <1>4, <1>6, <1>8, <2>1 DEF Tip
  <2> QED BY <1>7, <1>8, <2>2 DEF StreamInv
<1>9. ASSUME Stream' # << >> PROVE StreamInv' /\ Tip' = Tip
  <2>1. /\ Len(Stream') \in Nat \ {0} /\ 1 \in 1..Len(Stream') /\ Len(Stream') \in 1..Len(Stream')
        /\ 1 \in 1..Len(Stream) - 1 /\ Len(Stream') + 1 = Len(Stream)
    <3>1. Len(Stream') \in Nat \ {0}
      BY <1>5, <1>9, EmptySeq
    <3> QED BY <3>1, <1>5
  <2>2. Stream'[1] = Stream[2] /\ Stream'[Len(Stream')] = Stream[Len(Stream)]
    BY <2>1, <1>5
  <2>3. Tip' = Tip
    BY <1>4, <1>9, <2>2 DEF Tip
  <2>4. Stream'[1] = Exited \/ Stream'[1].version >= shown'
    <3>1. Follows(Stream[1], Stream[1 + 1])
      BY <2>1 DEF AttachInv, StreamInv, Chain
    <3>2. Stream'[1] \in Frames
      BY <2>1, <1>5, ElementOfSeq
    <3>3. CASE Stream[1].type = "resize"
      <4>1. Stream[2] = Frame("output", Stream[1].version)
        BY <3>1, <3>3 DEF Follows
      <4>2. Stream[2].version = Stream[1].version
        BY <4>1 DEF Frame
      <4> QED BY <4>2, <2>2, <1>6
    <3>4. CASE Stream[1].type # "resize"
      <4>1. Stream[2] = Exited \/ Stream[2].version > Stream[1].version
        BY <3>1, <3>4 DEF Follows
      <4>2. Stream'[1].version \in Nat
        BY <3>2 DEF Frames
      <4> QED BY <4>1, <4>2, <2>2, <1>6
    <3> QED BY <3>3, <3>4
  <2>5. pump' # "ended" => Stream'[Len(Stream')].type \in {"output", "snapshot"}
    BY <1>1, <1>4, <2>2 DEF AttachInv, StreamInv
  <2> QED BY <1>7, <2>3, <2>4, <2>5 DEF StreamInv
<1>10. StreamInv' /\ Tip' = Tip
  BY <1>8, <1>9
<1>11. /\ hand' \in Seq(Frames) /\ Len(hand') <= 1 /\ Len(output') <= ClientBuffer
       /\ down' \in Seq(Frames) /\ Len(down') <= WireBuffer /\ {clientClosed, exitSeen}' \subseteq BOOLEAN
  BY <1>1, <1>2, <1>3
<1>12. exitSeen' => hand' = << >> /\ down' = << >>
  BY <1>1 DEF AttachInv, PumpInv
<1> QED BY <1>1, <1>3, <1>6, <1>10, <1>11, <1>12, ClientKeeps

\* The program hangs up, as Attachment.Close or by Interactive's return.
LEMMA HangUpKeeps ==
  ASSUME AttachInv, clientClosed' = TRUE,
         UNCHANGED <<session, serving, wires, loop, hand, output, exitSeen, shown, inputs, resizes>>
  PROVE  AttachInv'
<1>1. UNCHANGED <<up, down, pump, held>>
  BY DEF serving, wires
<1>2. StreamInv' /\ Tip' = Tip
  BY <1>1, StreamStays DEF Stream
<1>3. /\ hand' \in Seq(Frames) /\ Len(hand') <= 1 /\ output' \in Seq(Frames)
      /\ Len(output') <= ClientBuffer /\ down' \in Seq(Frames) /\ Len(down') <= WireBuffer
      /\ shown' \in Nat /\ exitSeen' \in BOOLEAN
  BY <1>1 DEF AttachInv, TypeInv
<1>4. exitSeen' => hand' = << >> /\ down' = << >>
  BY <1>1 DEF AttachInv, PumpInv
<1> QED BY <1>1, <1>2, <1>3, <1>4, ClientKeeps

\* What only counts, or sends, leaves the stream alone.
LEMMA SendKeeps ==
  ASSUME AttachInv,
         UNCHANGED <<session, serving, down, clientClosed, loop, hand, output, exitSeen, shown>>,
         inputs' \in Nat, inputs' >= inputs, resizes' \in Nat,
         \/ up' = up
         \/ /\ Len(up) < WireBuffer
            /\ \E f \in {"input", "resize"} :
                 up' = Append(up, f) /\ (f = "input" => inputs' > 0)
  PROVE  AttachInv'
<1>1. UNCHANGED <<version, resyncs, queue, missed, finished, viewed, hungup, exited, pump, held, reader,
                  detached, serverClosed, daemonDied>>
  BY DEF session, serving
<1>2. /\ up \in Seq({"input", "resize"}) /\ Len(up) <= WireBuffer /\ WireBuffer \in Nat
      /\ inputs \in Nat
  BY BuffersAssumption DEF AttachInv, TypeInv
<1>3. /\ up' \in Seq({"input", "resize"}) /\ Len(up') <= WireBuffer
      /\ (\E i \in 1..Len(up') : up'[i] = "input") =>
           inputs' > 0 \/ (\E i \in 1..Len(up) : up[i] = "input")
  <2>1. CASE up' = up
    BY <2>1, <1>2
  <2>2. CASE Len(up) < WireBuffer /\ up' # up
    <3>1. PICK f \in {"input", "resize"} : up' = Append(up, f) /\ (f = "input" => inputs' > 0)
      BY <2>2
    <3>2. /\ up' \in Seq({"input", "resize"}) /\ Len(up') = Len(up) + 1 /\ Len(up) \in Nat
          /\ up'[Len(up) + 1] = f /\ \A i \in 1..Len(up) : up'[i] = up[i]
      BY <3>1, <1>2, AppendProperties, LenProperties
    <3>3. \A i \in 1..Len(up') : i \in 1..Len(up) \/ i = Len(up) + 1
      BY <3>2
    <3>4. Len(up') <= WireBuffer
      BY <2>2, <3>2, <1>2
    <3> QED BY <3>1, <3>2, <3>3, <3>4
  <2> QED BY <2>1, <2>2
<1>4. TypeInv'
  <2>1. {resyncs, missed, finished, viewed, hungup, exited, detached, serverClosed,
         clientClosed, exitSeen, daemonDied}' \subseteq BOOLEAN
    BY <1>1 DEF AttachInv, TypeInv
  <2> QED BY <1>1, <1>3, <2>1 DEF AttachInv, TypeInv
<1>5. StreamInv' /\ Tip' = Tip
  BY <1>1, StreamStays DEF Stream
<1>6. QueueInv' /\ TipInv' /\ PumpInv'
  BY <1>1, <1>5 DEF AttachInv, QueueInv, TipInv, PumpInv
<1>7. HangInv'
  <2>1. inputs > 0 => inputs' > 0
    BY <1>2
  <2> QED BY <1>1, <1>3, <2>1 DEF AttachInv, HangInv
<1> QED BY <1>4, <1>5, <1>6, <1>7 DEF AttachInv

LEMMA SendInputKeeps == AttachInv /\ SendInput => AttachInv'
<1> SUFFICES ASSUME AttachInv, SendInput PROVE AttachInv'
  OBVIOUS
<1>1. /\ Len(up) < WireBuffer /\ up' = Append(up, "input") /\ inputs' = inputs + 1
      /\ UNCHANGED <<session, serving, down, clientClosed, loop, hand, output, exitSeen, shown, resizes>>
  BY DEF SendInput
<1>2. inputs \in Nat /\ resizes \in Nat
  BY DEF AttachInv, TypeInv
<1>3. inputs' \in Nat /\ inputs' >= inputs /\ inputs' > 0 /\ resizes' \in Nat
  BY <1>1, <1>2
<1> QED BY <1>1, <1>3, SendKeeps

LEMMA SendResizeKeeps == AttachInv /\ SendResize => AttachInv'
<1> SUFFICES ASSUME AttachInv, SendResize PROVE AttachInv'
  OBVIOUS
<1>1. /\ Len(up) < WireBuffer /\ up' = Append(up, "resize") /\ resizes' = resizes + 1
      /\ UNCHANGED <<session, serving, down, clientClosed, loop, hand, output, exitSeen, shown, inputs>>
  BY DEF SendResize
<1>2. inputs \in Nat /\ resizes \in Nat
  BY DEF AttachInv, TypeInv
<1>3. inputs' \in Nat /\ inputs' >= inputs /\ resizes' \in Nat
  BY <1>1, <1>2
<1> QED BY <1>1, <1>3, SendKeeps

LEMMA CarryKeeps == AttachInv /\ Carry => AttachInv'
BY DeliverKeeps, ResynchronizeKeeps, EndStreamKeeps, ExitKeeps, PumpTakeKeeps, PumpWriteKeeps,
   PumpSelectKeeps, ReadFrameKeeps, WriteInputKeeps, WriteFailsKeeps, JoinKeeps, ClientReadKeeps,
   ClientPutKeeps, ClientEndKeeps, DaemonDiesKeeps DEF Carry

LEMMA UseKeeps == AttachInv /\ Use => AttachInv'
BY ConsumeKeeps, HangUpKeeps, SendInputKeeps, SendResizeKeeps DEF Use, ClientClose

\* Nothing of the connection changes.
LEMMA AttachStays ==
  ASSUME AttachInv, UNCHANGED <<session, serving, wires, client>>
  PROVE  AttachInv'
<1>1. /\ UNCHANGED <<session, serving, down, clientClosed, loop, hand, output, exitSeen, shown>>
      /\ up' = up /\ inputs' = inputs /\ resizes' = resizes
  BY DEF wires, client
<1>2. inputs \in Nat /\ resizes \in Nat
  BY DEF AttachInv, TypeInv
<1>3. inputs' \in Nat /\ inputs' >= inputs /\ resizes' \in Nat
  BY <1>1, <1>2
<1> QED BY <1>1, <1>3, SendKeeps

-----------------------------------------------------------------------------
(***************************************************************************)
(* Interactive.                                                            *)
(***************************************************************************)

\* What the connection does of its own never takes back an end, and hangs nobody up.
LEMMA CarryIsMonotone ==
  ASSUME Carry
  PROVE  /\ clientClosed' = clientClosed /\ inputs' = inputs
         /\ (serverClosed => serverClosed') /\ (exited => exited')
         /\ (daemonDied => daemonDied') /\ (hungup => hungup')
<1>1. CASE \/ Deliver("bytes") \/ Deliver("repaint") \/ Resynchronize \/ EndStream \/ Exit
  BY <1>1 DEF Deliver, Resynchronize, EndStream, Exit, serving, client
<1>2. CASE PumpTake \/ PumpWrite \/ PumpSelect
  BY <1>2 DEF PumpTake, PumpWrite, PumpSelect, session, client
<1>3. CASE ReadFrame \/ WriteInput \/ WriteFails \/ Join
  BY <1>3 DEF ReadFrame, WriteInput, WriteFails, Join, session, client
<1>4. CASE ClientRead \/ ClientPut \/ ClientEnd
  BY <1>4 DEF ClientRead, ClientPut, ClientEnd, session, serving
<1>5. CASE DaemonDies
  BY <1>5 DEF DaemonDies, client
<1> QED BY <1>1, <1>2, <1>3, <1>4, <1>5 DEF Carry

\* A step that leaves Interactive alone, or only its keyboard and signals.
LEMMA TerminalKeeps ==
  ASSUME TerminalInv, mode' = mode, screen' = screen, result' = result, pressed => pressed',
         mode = "terminal" => clientClosed' = clientClosed,
         typed => typed', exited => exited', daemonDied => daemonDied',
         mode = "terminal" /\ screen # "returned" =>
           /\ typist' \in {"send", "sendLast"} => typed'
           /\ typist' = "sendLast" => pressed'
           /\ typist' = "done" => pressed' \/ typed'
           /\ inputs' > 0 => typed'
  PROVE  TerminalInv'
BY DEF TerminalInv, ResultIsHonest

LEMMA CarryKeepsTerminal == IInv /\ Carry /\ UNCHANGED terminal => TerminalInv'
<1> SUFFICES ASSUME IInv, Carry, UNCHANGED terminal PROVE TerminalInv'
  OBVIOUS
<1>1. UNCHANGED <<mode, typist, screen, result, pressed, typed>> /\ TerminalInv
  BY DEF terminal, IInv
<1>2. mode = "terminal" /\ screen # "returned" =>
        /\ typist \in {"send", "sendLast"} => typed
        /\ typist = "sendLast" => pressed
        /\ typist = "done" => pressed \/ typed
        /\ inputs > 0 => typed
  BY <1>1 DEF TerminalInv
<1> QED BY <1>1, <1>2, CarryIsMonotone, TerminalKeeps

\* Another program's use of the connection leaves Interactive's story untold.
LEMMA UseKeepsTerminal == IInv /\ mode = "library" /\ Use /\ UNCHANGED terminal => TerminalInv'
<1> SUFFICES ASSUME IInv, mode = "library", Use, UNCHANGED terminal PROVE TerminalInv'
  OBVIOUS
<1>1. UNCHANGED <<mode, typist, screen, result, pressed, typed>> /\ TerminalInv
  BY DEF terminal, IInv
<1>2. UNCHANGED <<exited, daemonDied>>
  BY DEF Use, Consume, ClientClose, SendInput, SendResize, session, serving
<1> QED BY <1>1, <1>2, TerminalKeeps

LEMMA ReadStdinKeeps == IInv /\ ReadStdin => IInv'
<1> SUFFICES ASSUME IInv, ReadStdin PROVE IInv'
  OBVIOUS
<1>1. /\ UNCHANGED vars /\ UNCHANGED <<mode, screen, result>>
      /\ \/ typist' = "send" /\ pressed' = pressed
         \/ pressed' = TRUE
      /\ (typed => typed') /\ (typist' # "done" => typed') /\ typist' \in {"send", "sendLast", "done"}
  BY DEF ReadStdin
<1>2. UNCHANGED <<session, serving, wires, client>>
  BY <1>1 DEF vars
<1>3. AttachInv'
  BY <1>2, AttachStays DEF IInv
<1>4. UNCHANGED <<clientClosed, exited, daemonDied, inputs>>
  BY <1>2 DEF session, serving, client
<1>5. mode = "terminal" /\ screen # "returned" => (inputs' > 0 => typed')
  BY <1>1, <1>4 DEF IInv, TerminalInv
<1>6. TerminalInv'
  BY <1>1, <1>4, <1>5, TerminalKeeps DEF IInv
<1> QED BY <1>3, <1>6 DEF IInv

\* The keyboard's goroutine ends behind the detach key, or on a write of what was typed.
LEMMA ForwardKeeps == IInv /\ Forward => IInv'
<1> SUFFICES ASSUME IInv, Forward PROVE IInv'
  OBVIOUS
<1>1. /\ mode = "terminal" /\ typist \in {"send", "sendLast"}
      /\ UNCHANGED <<mode, screen, result, pressed, typed>>
  BY DEF Forward
<1>2. TerminalInv /\ AttachInv
  BY DEF IInv
<1>3. screen # "returned" => typed /\ (typist = "sendLast" => pressed)
  BY <1>1, <1>2 DEF TerminalInv
<1>4. CASE SendInput /\ typist' = IF typist = "send" THEN "stdin" ELSE "done"
  <2>1. AttachInv'
    BY <1>2, <1>4, SendInputKeeps
  <2>2. UNCHANGED <<clientClosed, exited, daemonDied>>
    BY <1>4 DEF SendInput, session, serving
  <2>3. TerminalInv'
    BY <1>1, <1>2, <1>3, <1>4, <2>2, TerminalKeeps
  <2> QED BY <2>1, <2>3 DEF IInv
<1>5. CASE Broken /\ typist' = "done" /\ UNCHANGED vars
  <2>1. UNCHANGED <<session, serving, wires, client>>
    BY <1>5 DEF vars
  <2>2. AttachInv'
    BY <1>2, <2>1, AttachStays
  <2>3. UNCHANGED <<clientClosed, exited, daemonDied>>
    BY <2>1 DEF session, serving, client
  <2>4. TerminalInv'
    BY <1>1, <1>2, <1>3, <1>5, <2>3, TerminalKeeps
  <2> QED BY <2>2, <2>4 DEF IInv
<1> QED BY <1>4, <1>5 DEF Forward

LEMMA WinchKeeps == IInv /\ (Winch \/ TakeWinch) => IInv'
<1> SUFFICES ASSUME IInv, Winch \/ TakeWinch PROVE IInv'
  OBVIOUS
<1>1. /\ UNCHANGED vars /\ UNCHANGED <<mode, typist, result, pressed, typed>>
      /\ screen' = screen \/ (screen = "select" /\ screen' = "resizing")
  BY DEF Winch, TakeWinch, Selecting
<1>2. UNCHANGED <<session, serving, wires, client>>
  BY <1>1 DEF vars
<1>3. AttachInv'
  BY <1>2, AttachStays DEF IInv
<1>4. UNCHANGED <<clientClosed, serverClosed, exited, daemonDied, hungup, inputs>>
  BY <1>2 DEF session, serving, client
<1>5. TerminalInv'
  BY <1>1, <1>4 DEF IInv, TerminalInv, ResultIsHonest
<1> QED BY <1>3, <1>5 DEF IInv

LEMMA StateSizeKeeps == IInv /\ StateSize => IInv'
<1> SUFFICES ASSUME IInv, StateSize PROVE IInv'
  OBVIOUS
<1>1. /\ screen = "resizing" /\ screen' = "select"
      /\ UNCHANGED <<mode, typist, result, pressed, typed>>
      /\ UNCHANGED <<session, serving, down, clientClosed, loop, hand, output, exitSeen, shown, inputs>>
      /\ resizes' = resizes + 1
      /\ up' = up \/ (Len(up) < WireBuffer /\ up' = Append(up, "resize"))
  BY DEF StateSize, SendResize, wires
<1>2. inputs \in Nat /\ resizes \in Nat /\ AttachInv
  BY DEF IInv, AttachInv, TypeInv
<1>3. inputs' \in Nat /\ inputs' >= inputs /\ resizes' \in Nat
  BY <1>1, <1>2
<1>4. AttachInv'
  BY <1>1, <1>2, <1>3, SendKeeps
<1>5. UNCHANGED <<clientClosed, serverClosed, exited, daemonDied, hungup, inputs>>
  BY <1>1 DEF session, serving
<1>6. TerminalInv'
  BY <1>1, <1>5 DEF IInv, TerminalInv, ResultIsHonest
<1> QED BY <1>4, <1>6 DEF IInv

\* Interactive returns, and what it says of it is so.
LEMMA ReturnKeeps ==
  ASSUME IInv, NEW r, Return(r), r \in {"exited", "detached", "lost"},
         r = "exited" => exited, r = "detached" => pressed \/ typed,
         r = "lost" => daemonDied \/ typed
  PROVE  IInv'
<1>1. /\ screen' = "returned" /\ result' = r /\ clientClosed' = TRUE
      /\ UNCHANGED <<session, serving, wires, loop, hand, output, exitSeen, shown, inputs, resizes>>
      /\ UNCHANGED <<mode, typist, pressed, typed>>
  BY DEF Return
<1>2. AttachInv'
  BY <1>1, HangUpKeeps DEF IInv
<1>3. UNCHANGED <<serverClosed, exited, daemonDied, hungup, inputs>>
  BY <1>1 DEF session, serving
<1>4. TerminalInv'
  BY <1>1, <1>3 DEF TerminalInv, ResultIsHonest
<1> QED BY <1>2, <1>4 DEF IInv

\* The user left, or the connection broke under what was typed.
LEMMA TakeInputDoneKeeps == IInv /\ TakeInputDone => IInv'
<1> SUFFICES ASSUME IInv, TakeInputDone PROVE IInv'
  OBVIOUS
<1>1. mode = "terminal" /\ screen = "select" /\ typist = "done" /\ Return("detached")
  BY DEF TakeInputDone, Selecting
<1>2. pressed \/ typed
  BY <1>1 DEF IInv, TerminalInv
<1> QED BY <1>1, <1>2, ReturnKeeps

\* The exit code has come through the connection, so the process has exited.
LEMMA TakeExitedKeeps == IInv /\ TakeExited => IInv'
<1> SUFFICES ASSUME IInv, TakeExited PROVE IInv'
  OBVIOUS
<1>1. exitSeen /\ Return("exited")
  BY DEF TakeExited
<1>2. exited
  BY <1>1 DEF IInv, AttachInv, PumpInv
<1> QED BY <1>1, <1>2, ReturnKeeps

\* The read loop ended on a connection that Interactive did not close.
LEMMA TakeClosedKeeps == IInv /\ TakeClosed => IInv'
<1> SUFFICES ASSUME IInv, TakeClosed PROVE IInv'
  OBVIOUS
<1>1. mode = "terminal" /\ screen = "select" /\ loop = "ended" /\ Return("lost")
  BY DEF TakeClosed, Selecting
<1>2. ~clientClosed
  BY <1>1 DEF IInv, TerminalInv
<1>3. serverClosed
  BY <1>1, <1>2 DEF IInv, AttachInv, HangInv
<1>4. daemonDied \/ (inputs > 0 /\ hungup)
  BY <1>2, <1>3 DEF IInv, AttachInv, HangInv
<1>5. inputs > 0 => typed
  BY <1>1 DEF IInv, TerminalInv
<1> QED BY <1>1, <1>4, <1>5, ReturnKeeps

LEMMA TakeOutputKeeps == IInv /\ TakeOutput => IInv'
<1> SUFFICES ASSUME IInv, TakeOutput PROVE IInv'
  OBVIOUS
<1>1. Consume /\ UNCHANGED <<mode, typist, screen, result, pressed, typed>> /\ TerminalInv
  BY DEF TakeOutput, terminal, IInv
<1>2. AttachInv'
  BY <1>1, ConsumeKeeps DEF IInv
<1>3. UNCHANGED <<clientClosed, serverClosed, exited, daemonDied, hungup, inputs>>
  BY <1>1 DEF Consume, session, serving
<1>4. TerminalInv'
  BY <1>1, <1>3 DEF TerminalInv, ResultIsHonest
<1> QED BY <1>2, <1>4 DEF IInv

-----------------------------------------------------------------------------
(***************************************************************************)
(* The invariant.                                                          *)
(***************************************************************************)

LEMMA InitIInv == InitInteractive => IInv
<1> SUFFICES ASSUME InitInteractive PROVE IInv
  OBVIOUS
<1>1. /\ version = 0 /\ resyncs \in BOOLEAN /\ queue = << >> /\ missed = FALSE
      /\ {finished, exited, viewed, hungup} \subseteq BOOLEAN
      /\ pump = "range" /\ held = << >> /\ reader = "read"
      /\ detached = FALSE /\ serverClosed = FALSE /\ daemonDied = FALSE
      /\ down = << >> /\ up = << >>
      /\ clientClosed = FALSE /\ loop = "read" /\ hand = << >> /\ output = << >>
      /\ exitSeen = FALSE /\ shown = 0 /\ inputs = 0 /\ resizes = 0
  BY DEF InitInteractive, Init
<1>2. typist = "stdin" /\ screen = "select" /\ result = "none" /\ ~typed
  BY DEF InitInteractive
<1>3. TypeInv
  <2>1. SubBuffer \in Nat /\ WireBuffer \in Nat /\ ClientBuffer \in Nat
    BY BuffersAssumption
  <2>2. \A S : << >> \in Seq(S) /\ Len(<< >>) = 0
    BY EmptySeq
  <2>3. {resyncs, missed, finished, viewed, hungup, exited, detached, serverClosed,
         clientClosed, exitSeen, daemonDied} \subseteq BOOLEAN
    BY <1>1
  <2>4. /\ queue \in Seq(Messages) /\ Len(queue) <= SubBuffer
        /\ held \in Seq(Frames) /\ Len(held) <= 2 /\ down \in Seq(Frames) /\ Len(down) <= WireBuffer
        /\ hand \in Seq(Frames) /\ Len(hand) <= 1 /\ output \in Seq(Frames) /\ Len(output) <= ClientBuffer
        /\ up \in Seq({"input", "resize"}) /\ Len(up) <= WireBuffer
    BY <1>1, <2>1, <2>2
  <2> QED BY <1>1, <2>3, <2>4 DEF TypeInv
<1>4. Stream = << >>
  BY <1>1 DEF Stream
<1>5. StreamInv /\ TipInv
  <2>1. Tip = 0
    BY <1>1, <1>4 DEF Tip
  <2>2. Chain(Stream)
    <3>1. 1..Len(Stream) - 1 = {}
      BY <1>4
    <3> QED BY <3>1 DEF Chain
  <2> QED BY <1>1, <1>4, <2>1, <2>2 DEF StreamInv, TipInv
<1>6. 1..Len(queue) = {} /\ 1..Len(down) = {} /\ 1..Len(up) = {}
  BY <1>1
<1>7. QueueInv /\ PumpInv /\ HangInv
  BY <1>1, <1>6 DEF QueueInv, Rising, PumpInv, HangInv
<1>8. TerminalInv
  BY <1>1, <1>2 DEF TerminalInv, ResultIsHonest
<1> QED BY <1>3, <1>5, <1>7, <1>8 DEF IInv, AttachInv

LEMMA NextKeeps == IInv /\ [NextInteractive]_allVars => IInv'
<1> SUFFICES ASSUME IInv, [NextInteractive]_allVars PROVE IInv'
  OBVIOUS
<1>1. CASE Carry /\ UNCHANGED terminal
  BY <1>1, CarryKeeps, CarryKeepsTerminal DEF IInv
<1>2. CASE mode = "library" /\ Use /\ UNCHANGED terminal
  BY <1>2, UseKeeps, UseKeepsTerminal DEF IInv
<1>3. CASE UNCHANGED allVars
  <2>1. UNCHANGED <<session, serving, wires, client>> /\ UNCHANGED <<mode, typist, screen, result, pressed, typed>>
    BY <1>3 DEF allVars, vars, terminal
  <2>2. AttachInv'
    BY <2>1, AttachStays DEF IInv
  <2>3. UNCHANGED <<clientClosed, serverClosed, exited, daemonDied, hungup, inputs>>
    BY <2>1 DEF session, serving, client
  <2>4. TerminalInv'
    BY <2>1, <2>3 DEF IInv, TerminalInv, ResultIsHonest
  <2> QED BY <2>2, <2>4 DEF IInv
<1> QED BY <1>1, <1>2, <1>3, ReadStdinKeeps, ForwardKeeps, WinchKeeps, StateSizeKeeps,
           TakeInputDoneKeeps, TakeExitedKeeps, TakeOutputKeeps, TakeClosedKeeps DEF NextInteractive

LEMMA IInvHolds == SpecInteractive => []IInv
BY InitIInv, NextKeeps, PTL DEF SpecInteractive

-----------------------------------------------------------------------------
(***************************************************************************)
(* The theorems.                                                           *)
(***************************************************************************)

\* The types of the connection's state, on any connection and under any program; no
\* buffer of session, socket or client exceeds its capacity (the channel sends, the
\* blocking writes).
THEOREM TypeCorrect == SpecInteractive => []TypeOK
<1>1. TypeInv => TypeOK
  BY DEF TypeInv, TypeOK, Messages
<1>2. IInv => TypeOK
  BY <1>1 DEF IInv, AttachInv
<1> QED BY <1>2, IInvHolds, PTL

\* What is still to be shown is in order.
LEMMA PipelineInOrder ==
  ASSUME AttachInv
  PROVE  Chain(Pipeline) /\ (Pipeline # << >> => Pipeline[1] = Exited \/ Pipeline[1].version >= shown)
<1> DEFINE a == output \o hand
<1> DEFINE next == IF queue = << >> THEN << >> ELSE FramesOf(Head(queue))
<1>1. /\ a \in Seq(Frames) /\ down \in Seq(Frames) /\ held \in Seq(Frames) /\ queue \in Seq(Messages)
      /\ a \o down \in Seq(Frames) /\ Stream \in Seq(Frames) /\ Stream = (a \o down) \o held
      /\ shown \in Nat
  BY StreamIs DEF AttachInv, TypeInv, Stream
<1>2. /\ Chain(Stream)
      /\ Stream # << >> => Stream[1] = Exited \/ Stream[1].version >= shown
  BY DEF AttachInv, StreamInv
<1>3. CASE clientClosed
  <2>1. Pipeline = a
    <3>1. Pipeline = a \o << >>
      BY <1>3 DEF Pipeline
    <3> HIDE DEF a
    <3> QED BY <3>1, <1>1, ConcatEmptySeq
  <2> HIDE DEF a
  <2>2. Chain(a)
    BY <1>1, <1>2, ChainFront
  <2>3. a # << >> => Stream # << >> /\ Stream[1] = a[1]
    BY <1>1, TailOfJoined
  <2> QED BY <1>2, <2>1, <2>2, <2>3
<1>4. CASE ~clientClosed
  <2>1. /\ next \in Seq(Frames) /\ Chain(next)
        /\ next # << >> => /\ next[1] # Exited /\ next[1].version > Tip
                           /\ pump = "range" /\ next[1].version \in Nat
    <3>1. CASE queue = << >>
      <4>1. next = << >>
        BY <3>1
      <4> HIDE DEF next
      <4>2. next \in Seq(Frames) /\ 1..Len(next) - 1 = {}
        BY <4>1, EmptySeq
      <4> QED BY <4>1, <4>2 DEF Chain
    <3>2. CASE queue # << >>
      <4>1. next = FramesOf(Head(queue)) /\ Head(queue) = queue[1] /\ queue[1] \in Messages
        BY <3>2, <1>1, ReadOff
      <4>2. /\ next \in Seq(Frames) /\ Chain(next) /\ next[1] # Exited
            /\ next[1].version = queue[1].version
        BY <4>1, FramesAre
      <4>3. pump = "range" /\ Tip < queue[1].version
        BY <3>2, <1>4 DEF AttachInv, PumpInv, TipInv
      <4>4. queue[1].version \in Nat
        BY <4>1 DEF Messages
      <4>5. Tip \in Nat
        BY StreamIs DEF AttachInv
      <4> QED BY <4>2, <4>3, <4>4, <4>5
    <3> QED BY <3>1, <3>2
  <2>2. Pipeline = Stream \o next
    <3>1. Pipeline = a \o ((down \o held) \o next)
      BY <1>4 DEF Pipeline
    <3>2. down \o held \in Seq(Frames)
      BY <1>1, Joined
    <3> HIDE DEF a, next
    <3>3. a \o ((down \o held) \o next) = (a \o (down \o held)) \o next
      <4> DEFINE c == down \o held
      <4>1. a \in Seq(Frames) /\ c \in Seq(Frames) /\ next \in Seq(Frames)
        BY <1>1, <2>1, <3>2
      <4> HIDE DEF c
      <4>2. a \o (c \o next) = (a \o c) \o next
        BY <4>1, ConcatAssociative, SMTT(20)
      <4> QED BY <4>2 DEF c
    <3>4. a \o (down \o held) = (a \o down) \o held
      BY <1>1, ConcatAssociative, SMTT(20)
    <3> QED BY <1>1, <3>1, <3>3, <3>4
  <2> HIDE DEF a, next
  <2>3. Stream # << >> /\ next # << >> => Follows(Stream[Len(Stream)], next[1])
    <3> SUFFICES ASSUME Stream # << >>, next # << >> PROVE Follows(Stream[Len(Stream)], next[1])
      OBVIOUS
    <3>1. Stream[Len(Stream)].type \in {"output", "snapshot"} /\ Tip = Stream[Len(Stream)].version
      BY <2>1 DEF AttachInv, StreamInv, Tip
    <3>2. Stream[Len(Stream)] # Exited
      BY <3>1, ExitedIs
    <3> QED BY <2>1, <3>1, <3>2 DEF Follows
  <2>4. Chain(Pipeline)
    BY <1>1, <1>2, <2>1, <2>2, <2>3, ChainJoined
  <2>5. CASE Stream # << >>
    <3>1. (Stream \o next)[1] = Stream[1]
      BY <1>1, <2>1, <2>5, TailOfJoined
    <3> QED BY <1>2, <2>2, <2>4, <2>5, <3>1
  <2>6. CASE Stream = << >>
    <3>1. Pipeline = next
      BY <2>1, <2>2, <2>6, ConcatEmptySeq
    <3>2. Tip = shown
      BY <2>6 DEF Tip
    <3> QED BY <1>1, <2>1, <2>4, <3>1, <3>2
  <2> QED BY <2>5, <2>6
<1> QED BY <1>3, <1>4

\* One stream, in terminal order, from the session's queue to the program: no output
\* lands on top of the state that superseded it, a size is followed by its own
\* repaint, and the exit comes behind all of it (Message in client.go, serveAttach).
THEOREM OrderKept == SpecInteractive => []InTerminalOrder
<1>1. IInv => InTerminalOrder
  BY PipelineInOrder DEF IInv, InTerminalOrder, Chain
<1> QED BY <1>1, IInvHolds, PTL

\* When the exit code is there, everything the session said is in Output (the pump
\* announces the exit behind the stream; readLoop puts a message on before the next).
THEOREM ExitComesLast == SpecInteractive => []ExitIsLast
<1>1. IInv => ExitIsLast
  BY DEF IInv, AttachInv, PumpInv, ExitIsLast
<1> QED BY <1>1, IInvHolds, PTL

\* What Interactive says of how it ended is so (interactive.go's select).
THEOREM ResultHonest == SpecInteractive => []ResultIsHonest
<1>1. IInv => ResultIsHonest
  BY DEF IInv, TerminalInv
<1> QED BY <1>1, IInvHolds, PTL

==============================================================================
