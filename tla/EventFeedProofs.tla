--------------------------- MODULE EventFeedProofs ---------------------------
(***************************************************************************)
(* TLAPS proofs about EventFeed: it implements Feed, for every capacity of *)
(* its three buffers and any number of events.  The argument follows one   *)
(* event from the subscription's channel to the program: at each place the *)
(* numbers go on where those of the next place downstream end.             *)
(***************************************************************************)
EXTENDS EventFeed, SequenceTheorems, TLAPS

\* q holds the events after n, one by one.
Run(q, n) == \A i \in 1..Len(q) : q[i] = n + i

\* So do the frames of q from position k on, none of them later than p, except
\* that the last one may say the feed lagged.
Sequel(q, k, n, p) ==
  \A i \in k..Len(q) : (q[i] = n + i /\ n + i <= p) \/ (i = Len(q) /\ q[i] = Lagged)

\* The event in front of the frames in flight, and the last one of them; the ack
\* counts as the event before the first.
Origin == IF stream = "asked" THEN base - 1 ELSE heard + Len(events) + Len(inbox)
Sent   == Origin + Len(down)

\* The program's end: what it has been passed follows what it has heard.
ProgramInv ==
  /\ stream = "open" =>
       /\ Run(events, heard) /\ Run(inbox, heard + Len(events))
       /\ heard + Len(events) + Len(inbox) <= published
  /\ inbox # << >> => reading
  /\ reading => stream = "open"
  /\ stream = "asked" => ~hungUp /\ inbox = << >> /\ events = << >>
  /\ base <= published

\* The connection: behind the ack, if that has not been read, the frames follow
\* what readLoop has taken.
WireInv ==
  /\ stream = "asked" /\ down # << >> => down[1] = Ack /\ Sequel(down, 2, base - 1, published)
  /\ stream = "open" /\ reading /\ ~hungUp => Sequel(down, 1, Origin, published)

\* The daemon's end, while anyone listens: the frame in hand follows those on the
\* wire, the channel follows it, and a subscription still registered has it all.
ServerInv ==
  /\ registered => ~done
  /\ server = "request" => stream = "asked" /\ down = << >> /\ ch = << >> /\ ~registered
  /\ server \in {"write", "pump"} /\ ~hungUp =>
       /\ stream = "asked" \/ (stream = "open" /\ reading)
       /\ \A i \in 1..Len(down) : down[i] # Lagged
       /\ hand = <<Ack>> <=> (stream = "asked" /\ down = << >>)
       /\ hand # << >> => hand[1] \in {Ack, Lagged, Sent + 1}
       /\ hand = <<Lagged>> => ch = << >> /\ ~registered
       /\ hand # <<Lagged>> =>
            /\ Run(ch, Sent + Len(hand)) /\ Sent + Len(hand) + Len(ch) <= published
            /\ registered => Sent + Len(hand) + Len(ch) = published

IInv == TypeOK /\ ProgramInv /\ WireInv /\ ServerInv

-----------------------------------------------------------------------------
(***************************************************************************)
(* Sequences of event numbers.                                             *)
(***************************************************************************)

\* A run goes on with the next number (deliver, EventStream's channel).
LEMMA RunAppend ==
  ASSUME NEW q \in Seq(Int), NEW n \in Int, Run(q, n), NEW e \in Int, e = n + Len(q) + 1
  PROVE  Run(Append(q, e), n)
BY DEF Run

\* A run loses its head, which is the next number (every receive from a channel).
LEMMA RunTail ==
  ASSUME NEW q \in Seq(Int), NEW n \in Int, Run(q, n), q # << >>
  PROVE  Head(q) = n + 1 /\ Run(Tail(q), n + 1)
BY DEF Run

\* A write puts the next event, or the error frame, behind frames without one.
LEMMA SequelAppend ==
  ASSUME NEW q \in Seq(Int), NEW k \in Nat \ {0}, NEW n \in Int, NEW p \in Int,
         Sequel(q, k, n, p), \A i \in 1..Len(q) : q[i] # Lagged,
         NEW e \in Int, e = Lagged \/ (e = n + Len(q) + 1 /\ e <= p)
  PROVE  Sequel(Append(q, e), k, n, p)
BY DEF Sequel

\* A read takes the first frame: the next event, or the error frame.
LEMMA SequelTail ==
  ASSUME NEW q \in Seq(Int), NEW n \in Int, NEW p \in Int, Sequel(q, 1, n, p), q # << >>
  PROVE  /\ Head(q) = Lagged \/ (Head(q) = n + 1 /\ n + 1 <= p)
         /\ Sequel(Tail(q), 1, n + 1, p)
BY DEF Sequel

\* Behind the ack the frames are a sequel of their own (ReadAck).
LEMMA SequelAck ==
  ASSUME NEW q \in Seq(Int), NEW n \in Int, NEW p \in Int, Sequel(q, 2, n, p), q # << >>
  PROVE  Sequel(Tail(q), 1, n + 1, p)
BY DEF Sequel

\* More published events spoil nothing.
LEMMA SequelGrows ==
  ASSUME NEW q \in Seq(Int), NEW k \in Nat, NEW n \in Int, NEW p \in Int,
         NEW r \in Int, p <= r, Sequel(q, k, n, p)
  PROVE  Sequel(q, k, n, r)
BY DEF Sequel

\* A buffer of one, as the code's locals are modelled.
LEMMA Singleton ==
  ASSUME NEW S, NEW q \in Seq(S), q # << >>, Len(q) <= 1
  PROVE  Len(q) = 1 /\ q = <<q[1]>> /\ Head(q) = q[1] /\ q[1] \in S
<1>1. Len(q) = 1
  <2>1. Len(q) \in Nat \ {0}
    BY EmptySeq
  <2> QED BY <2>1
<1>2. q[1] \in S
  BY <1>1, ElementOfSeq
<1>3. <<q[1]>> \in Seq(S) /\ Len(<<q[1]>>) = 1
  BY <1>2
<1>4. q = <<q[1]>>
  BY <1>1, <1>3, SeqEqual
<1> QED BY <1>1, <1>2, <1>4

\* What the type invariant says of the numbers and of the sequences.
LEMMA Ints ==
  ASSUME TypeOK
  PROVE  /\ published \in Nat /\ heard \in Nat /\ base \in Nat
         /\ Len(events) \in Nat /\ Len(inbox) \in Nat /\ Len(down) \in Nat
         /\ Len(ch) \in Nat /\ Len(hand) \in Nat /\ Origin \in Int /\ Sent \in Int
BY MaxEventsAssumption DEF TypeOK, Origin, Sent

LEMMA Seqs ==
  ASSUME TypeOK
  PROVE  /\ ch \in Seq(Int) /\ hand \in Seq(Int) /\ down \in Seq(Int)
         /\ inbox \in Seq(Int) /\ events \in Seq(Int)
<1>1. Frames \subseteq Int /\ 1..MaxEvents \subseteq Int
  BY MaxEventsAssumption DEF Frames, Ack, Lagged
<1>2. /\ ch \in Seq(1..MaxEvents) /\ hand \in Seq(Frames) /\ down \in Seq(Frames)
      /\ inbox \in Seq(1..MaxEvents) /\ events \in Seq(1..MaxEvents)
  BY DEF TypeOK
<1> QED BY <1>1, <1>2, SeqMonotonic

-----------------------------------------------------------------------------
(***************************************************************************)
(* Every action keeps the invariant.                                       *)
(***************************************************************************)

\* Engine.publish: a registered subscription gets the event or is dropped.
LEMMA PublishKeeps == IInv /\ Publish => IInv'
<1> SUFFICES ASSUME IInv, Publish PROVE IInv'
  OBVIOUS
<1>1. /\ published' = published + 1
      /\ UNCHANGED <<base, server, hand, down, hungUp, stream, reading, inbox, events, heard>>
  BY DEF Publish, serving, connection, program
<1>2. /\ published \in Nat /\ heard \in Nat /\ base \in Nat
      /\ Len(events) \in Nat /\ Len(inbox) \in Nat /\ Len(ch) \in Nat /\ Len(hand) \in Nat
      /\ Origin \in Int /\ Sent \in Int /\ UNCHANGED <<Origin, Sent>> /\ FeedBuffer \in Nat
  BY <1>1, Ints, CapacityAssumption DEF IInv, Origin, Sent
<1>3. ch \in Seq(1..MaxEvents) /\ ch \in Seq(Int) /\ down \in Seq(Int)
  BY Seqs DEF IInv, TypeOK
<1>4. TypeOK'
  <2>1. published' \in 0..MaxEvents /\ published + 1 \in 1..MaxEvents
    BY <1>2, MaxEventsAssumption DEF Publish
  <2>2. {engineClosed, registered, done, lagged}' \subseteq BOOLEAN
    BY DEF IInv, TypeOK, Publish, subscription
  <2>3. ch' \in Seq(1..MaxEvents) /\ Len(ch') <= FeedBuffer
    <3>1. CASE ch' = ch
      BY <3>1 DEF IInv, TypeOK
    <3>2. CASE Len(ch) < FeedBuffer /\ ch' = Append(ch, published + 1)
      BY <3>2, <2>1, <1>2, <1>3, CapacityAssumption
    <3> QED BY <3>1, <3>2 DEF Publish, subscription
  <2> QED BY <1>1, <2>1, <2>2, <2>3 DEF IInv, TypeOK, Publish, serving
<1>5. ProgramInv'
  BY <1>1, <1>2 DEF IInv, ProgramInv
<1>6. WireInv'
  BY <1>1, <1>2, <1>3, SequelGrows DEF IInv, WireInv
<1>7. ServerInv'
  <2>1. CASE registered /\ ~done /\ Len(ch) < FeedBuffer
    <3>1. UNCHANGED <<registered, done>> /\ ch' = Append(ch, published + 1)
      <4>1. Len(ch) # FeedBuffer
        BY <2>1, <1>2
      <4> QED BY <2>1, <4>1 DEF Publish
    <3>2. Len(ch') = Len(ch) + 1
      BY <3>1, <1>2, <1>3
    <3>3. \A n \in Int : Run(ch, n) /\ published = n + Len(ch) => Run(ch', n)
      BY <3>1, <1>2, <1>3, RunAppend
    <3> QED BY <1>1, <1>2, <2>1, <3>1, <3>2, <3>3 DEF IInv, ServerInv
  <2>2. CASE ~(registered /\ ~done /\ Len(ch) < FeedBuffer)
    <3>1. ~registered' /\ ch' = ch
      BY <2>2 DEF IInv, ServerInv, Publish, subscription
    <3> QED BY <1>1, <1>2, <3>1 DEF IInv, ServerInv
  <2> QED BY <2>1, <2>2
<1> QED BY <1>4, <1>5, <1>6, <1>7 DEF IInv

\* Engine.Close: the subscription is taken out and finished.
LEMMA CloseEngineKeeps == IInv /\ CloseEngine => IInv'
<1> SUFFICES ASSUME IInv, CloseEngine PROVE IInv'
  OBVIOUS
<1> USE DEF engine, subscription, serving, connection, program
<1>1. TypeOK'
  BY DEF IInv, TypeOK, CloseEngine
<1>2. ProgramInv' /\ WireInv'
  BY DEF IInv, ProgramInv, WireInv, CloseEngine, Run, Sequel, Origin
<1>3. ServerInv'
  BY DEF IInv, ServerInv, CloseEngine, Origin, Sent, Run
<1> QED BY <1>1, <1>2, <1>3 DEF IInv

\* Engine.Subscribe: the feed starts behind what was published.
LEMMA ServeSubscribeKeeps == IInv /\ ServeSubscribe => IInv'
<1> SUFFICES ASSUME IInv, ServeSubscribe PROVE IInv'
  OBVIOUS
<1> USE DEF engine, subscription, serving, connection, program
<1>1. TypeOK'
  BY DEF IInv, TypeOK, ServeSubscribe, Frames
<1>2. ProgramInv' /\ WireInv'
  BY Ints, Seqs DEF IInv, ProgramInv, WireInv, ServerInv, ServeSubscribe, Run
<1>3. ServerInv'
  <2>1. /\ server' = "write" /\ hand' = <<Ack>> /\ registered' = ~engineClosed
        /\ done' = engineClosed /\ base' = published
        /\ UNCHANGED <<ch, down, stream, hungUp, published>>
    BY DEF ServeSubscribe
  <2>2. stream = "asked" /\ down = << >> /\ ch = << >> /\ published \in Nat
    BY Ints DEF IInv, ServerInv, ServeSubscribe
  <2>3. Len(hand') = 1 /\ hand' # << >> /\ hand'[1] = Ack /\ hand' # <<Lagged>>
    BY <2>1 DEF Ack, Lagged
  <2>4. Len(down') = 0 /\ Len(ch') = 0 /\ Sent' = published - 1
    BY <2>1, <2>2 DEF Origin, Sent
  <2>5. Run(ch', published)
    BY <2>4 DEF Run
  <2>6. registered' => ~done'
    BY <2>1
  <2> QED BY <2>1, <2>2, <2>3, <2>4, <2>5, <2>6 DEF ServerInv
<1> QED BY <1>1, <1>2, <1>3 DEF IInv

\* A frame goes on the wire, or fails to.
LEMMA WriteKeeps == IInv /\ Write => IInv'
<1> SUFFICES ASSUME IInv, Write PROVE IInv'
  OBVIOUS
<1> USE DEF engine, subscription, serving, connection, program
<1>1. TypeOK'
  <2>1. /\ hand' = << >> /\ server' \in {"pump", "done"}
        /\ UNCHANGED <<published, engineClosed, stream, reading, inbox, events, heard, base, hungUp>>
    BY DEF Write
  <2>4. ch' = ch
    BY DEF Write, CloseSubscription
  <2>5. hand' \in Seq(Frames) /\ Len(hand') = 0
    BY <2>1
  <2>2. {registered, done, lagged, watching}' \subseteq BOOLEAN
    BY DEF IInv, TypeOK, Write, CloseSubscription
  <2>3. down' \in Seq(Frames) /\ Len(down') <= SocketBuffer
    <3>1. CASE down' = down
      BY <3>1 DEF IInv, TypeOK
    <3>2. CASE Len(down) < SocketBuffer /\ down' = Append(down, Head(hand))
      <4>1. hand \in Seq(Frames) /\ hand # << >> /\ down \in Seq(Frames) /\ SocketBuffer \in Nat
        BY CapacityAssumption DEF IInv, TypeOK, Write
      <4>2. Head(hand) \in Frames
        BY <4>1
      <4> QED BY <3>2, <4>1, <4>2, AppendProperties
    <3> QED BY <3>1, <3>2 DEF Write
  <2> QED BY <2>1, <2>2, <2>3, <2>4, <2>5 DEF IInv, TypeOK
<1>2. CASE hungUp
  <2>1. ProgramInv' /\ WireInv' /\ ServerInv'
    BY <1>2, Ints, Seqs DEF IInv, ProgramInv, WireInv, ServerInv, Write, CloseSubscription
  <2> QED BY <1>1, <2>1 DEF IInv
<1>3. CASE ~hungUp
  <2>1. /\ hand = <<Head(hand)>> /\ Head(hand) = hand[1] /\ hand # << >> /\ Head(hand) \in Int
        /\ server = "write" /\ server' # "request" /\ hungUp' = hungUp /\ stream' = stream
        /\ down' = Append(down, hand[1]) /\ Origin' = Origin /\ Len(down') = Len(down) + 1
        /\ Sent' = Sent + 1 /\ UNCHANGED <<ch, published, reading>> /\ hand' = << >>
        /\ Len(hand) = 1 /\ UNCHANGED base
    <3>1. hand \in Seq(Int) /\ Len(hand) <= 1 /\ hand # << >> /\ down \in Seq(Int)
      BY Seqs DEF IInv, TypeOK, Write
    <3>2. hand = <<Head(hand)>> /\ Head(hand) = hand[1] /\ Head(hand) \in Int /\ Len(hand) = 1
      BY <3>1, Singleton
    <3>3. /\ server = "write" /\ server' # "request" /\ hungUp' = hungUp /\ stream' = stream
          /\ down' = Append(down, hand[1]) /\ hand' = << >>
          /\ UNCHANGED <<ch, published, reading, heard, events, inbox, base>>
      BY <1>3, <3>2 DEF Write, CloseSubscription
    <3>4. Len(down') = Len(down) + 1
      BY <3>1, <3>2, <3>3
    <3>5. Origin' = Origin
      BY <3>3 DEF Origin
    <3> QED BY <3>1, <3>2, <3>3, <3>4, <3>5, Ints DEF IInv, Sent
  <2>2. ProgramInv'
    BY <1>3, <2>1 DEF IInv, ProgramInv, Write, Run
  <2>3. WireInv'
    <3>1. CASE stream = "asked" /\ down = << >>
      BY <3>1, <2>1, <1>3, Ints, Seqs DEF IInv, WireInv, ServerInv, Sequel
    <3>2. CASE stream # "asked" \/ down # << >>
      <4>1. hand[1] = Lagged \/ (hand[1] = Origin + Len(down) + 1 /\ hand[1] <= published)
        <5>1. hand # <<Ack>> /\ hand[1] # Ack /\ hand[1] \in {Ack, Lagged, Sent + 1}
          BY <3>2, <2>1, <1>3 DEF IInv, ServerInv
        <5>2. hand[1] = Sent + 1 /\ hand[1] # Lagged => Sent + 1 <= published
          <6>1. hand # <<Lagged>> => Sent + 1 + Len(ch) <= published
            BY <2>1, <1>3 DEF IInv, ServerInv
          <6> QED BY <6>1, <2>1, Ints DEF IInv
        <5> QED BY <5>1, <5>2, Ints DEF IInv, Sent
      <4>2. /\ down \in Seq(Int) /\ Origin \in Int /\ published \in Int /\ Len(down) \in Nat
            /\ \A i \in 1..Len(down) : down[i] # Lagged
        BY <2>1, <1>3, Ints, Seqs DEF IInv, ServerInv
      <4>3. CASE stream = "asked"
        <5>1. down[1] = Ack /\ Sequel(down, 2, Origin, published) /\ Origin = base - 1
          BY <3>2, <4>3 DEF IInv, WireInv, Origin
        <5>2. Sequel(down', 2, Origin, published)
          BY <5>1, <4>1, <4>2, <2>1, SequelAppend
        <5>3. down'[1] = down[1]
          BY <3>2, <4>3, <4>2, <2>1
        <5> QED BY <5>1, <5>2, <5>3, <4>3, <2>1 DEF WireInv
      <4>4. CASE stream # "asked"
        <5>1. Sequel(down, 1, Origin, published)
          BY <4>4, <2>1, <1>3 DEF IInv, WireInv, ServerInv
        <5>2. Sequel(down', 1, Origin, published)
          BY <5>1, <4>1, <4>2, <2>1, SequelAppend
        <5> QED BY <5>2, <4>4, <2>1 DEF WireInv
      <4> QED BY <4>3, <4>4
    <3> QED BY <3>1, <3>2
  <2>4. ServerInv'
    <3>1. CASE hand[1] = Lagged
      BY <3>1, <2>1, <1>3, Ints, Seqs DEF IInv, ServerInv, Write, CloseSubscription
    <3>2. CASE hand[1] # Lagged
      <4>1. UNCHANGED <<registered, done>> /\ hand # <<Lagged>> /\ hand' # <<Lagged>>
        BY <3>2, <2>1, <1>3 DEF Write, subscription
      <4>2. /\ down' # << >> /\ hand' # <<Ack>> /\ Len(hand') = 0
            /\ \A i \in 1..Len(down') : down'[i] # Lagged
        <5>1. down \in Seq(Int) /\ \A i \in 1..Len(down) : down[i] # Lagged
          BY <2>1, <1>3, Seqs DEF IInv, ServerInv
        <5> QED BY <5>1, <3>2, <2>1
      <4>3. Sent' + Len(hand') = Sent + Len(hand)
        BY <4>2, <2>1, Ints DEF IInv
      <4> QED BY <4>1, <4>2, <4>3, <2>1, <1>3 DEF IInv, ServerInv
    <3> QED BY <3>1, <3>2
  <2> QED BY <1>1, <2>2, <2>3, <2>4 DEF IInv
<1> QED BY <1>2, <1>3

\* The range over the channel: the next event, or its end.
LEMMA PumpKeeps == IInv /\ Pump => IInv'
<1> SUFFICES ASSUME IInv, Pump PROVE IInv'
  OBVIOUS
<1> USE DEF engine, subscription, serving, connection, program
<1>1. TypeOK'
  <2>1. /\ {registered, done, lagged}' \subseteq BOOLEAN /\ server' \in {"write", "done"}
        /\ UNCHANGED <<published, engineClosed, watching, down, hungUp, stream, reading, inbox,
                       events, heard, base>>
    BY DEF IInv, TypeOK, Pump, CloseSubscription
  <2>2. ch \in Seq(1..MaxEvents) /\ Len(ch) <= FeedBuffer /\ hand = << >> /\ FeedBuffer \in Nat
    BY CapacityAssumption DEF IInv, TypeOK, Pump
  <2>3. /\ ch' \in Seq(1..MaxEvents) /\ Len(ch') <= FeedBuffer
        /\ hand' \in Seq(Frames) /\ Len(hand') <= 1 /\ (server' = "write") = (hand' # << >>)
    <3>1. CASE ch # << >>
      <4>1. Head(ch) \in Frames /\ ch' = Tail(ch) /\ hand' = <<Head(ch)>> /\ server' = "write"
        <5>1. Head(ch) \in 1..MaxEvents
          BY <3>1, <2>2, HeadTailProperties
        <5>2. ch' = Tail(ch) /\ hand' = <<Head(ch)>> /\ server' = "write"
          BY <3>1 DEF Pump
        <5> QED BY <5>1, <5>2 DEF Frames
      <4> QED BY <4>1, <3>1, <2>2, HeadTailProperties
    <3>2. CASE ch = << >>
      <4>1. ch' = ch /\ Lagged \in Frames
        BY <3>2 DEF Pump, CloseSubscription, Frames
      <4>2. (hand' = <<Lagged>> /\ server' = "write") \/ (hand' = << >> /\ server' = "done")
        <5>1. (hand' = <<Lagged>> /\ server' = "write") \/ (hand' = hand /\ server' = "done")
          BY <3>2, Zenon DEF Pump
        <5> QED BY <5>1, <2>2
      <4>3. /\ <<Lagged>> \in Seq(Frames) /\ Len(<<Lagged>>) = 1 /\ <<Lagged>> # << >>
            /\ << >> \in Seq(Frames) /\ Len(<< >>) = 0
        BY <4>1
      <4>4. hand' \in Seq(Frames) /\ Len(hand') <= 1 /\ (server' = "write") = (hand' # << >>)
        <5>1. CASE hand' = <<Lagged>> /\ server' = "write"
          BY <5>1, <4>3
        <5>2. CASE hand' = << >> /\ server' = "done"
          BY <5>2, <4>3
        <5> QED BY <5>1, <5>2, <4>2
      <4> QED BY <4>1, <4>4, <2>2
    <3> QED BY <3>1, <3>2
  <2> QED BY <2>1, <2>3 DEF IInv, TypeOK
<1>2. ProgramInv' /\ WireInv'
  BY DEF IInv, ProgramInv, WireInv, Pump, Origin, Run, Sequel
<1>3. ServerInv'
  <2>1. CASE ch # << >>
    <3>1. /\ server = "pump" /\ server' = "write" /\ hand' = <<Head(ch)>> /\ ch' = Tail(ch)
          /\ UNCHANGED <<registered, done, down, hungUp, stream, reading, published, Origin, Sent>>
      BY <2>1 DEF Pump, Origin, Sent
    <3>2. /\ ch \in Seq(1..MaxEvents) /\ ch \in Seq(Int) /\ hand = << >> /\ Len(hand) = 0
          /\ Sent \in Int /\ published \in Int /\ Len(ch) \in Nat
      BY <3>1, Ints, Seqs DEF IInv, TypeOK
    <3>3. /\ Len(hand') = 1 /\ hand'[1] = Head(ch) /\ hand' # << >> /\ Head(ch) >= 1
          /\ Len(ch') = Len(ch) - 1
      <4>1. Head(ch) \in 1..MaxEvents /\ Len(ch') = Len(ch) - 1
        BY <3>1, <3>2, <2>1, HeadTailProperties
      <4> QED BY <4>1, <3>1, MaxEventsAssumption
    <3>4. hand' # <<Ack>> /\ hand' # <<Lagged>> /\ hand # <<Ack>> /\ hand # <<Lagged>>
      BY <3>1, <3>2, <3>3 DEF Ack, Lagged
    <3>5. CASE hungUp
      BY <3>1, <3>5 DEF IInv, ServerInv
    <3>6. CASE ~hungUp
      <4>1. Run(ch, Sent) /\ Sent + Len(ch) <= published /\ (registered => Sent + Len(ch) = published)
        BY <3>1, <3>2, <3>4, <3>6 DEF IInv, ServerInv
      <4>2. Head(ch) = Sent + 1 /\ Run(ch', Sent + 1)
        BY <4>1, <3>1, <3>2, <2>1, RunTail
      <4>3. Sent' + Len(hand') + Len(ch') = Sent + Len(ch) /\ Sent' + Len(hand') = Sent + 1
        <5>1. Sent' = Sent /\ Len(hand') = 1 /\ Len(ch') = Len(ch) - 1
          BY <3>1, <3>3
        <5> HIDE DEF Sent
        <5> QED BY <5>1, <3>2
      <4> QED BY <4>1, <4>2, <4>3, <3>1, <3>3, <3>4, <3>6 DEF IInv, ServerInv
    <3> QED BY <3>5, <3>6
  <2>2. CASE ch = << >>
    <3>1. /\ server = "pump" /\ done /\ ch' = ch
          /\ UNCHANGED <<down, hungUp, stream, reading, published, Origin, Sent>>
      BY <2>2 DEF Pump, CloseSubscription, Origin, Sent
    <3>2. ~registered /\ hand = << >>
      BY <3>1 DEF IInv, ServerInv, TypeOK
    <3>3. hand # <<Ack>>
      BY <3>2
    <3>4. CASE hand' = <<Lagged>> /\ server' = "write" /\ registered' = registered
      <4>1. hand' # <<Ack>> /\ hand'[1] = Lagged
        BY <3>4 DEF Ack, Lagged
      <4> QED BY <2>2, <3>1, <3>2, <3>3, <3>4, <4>1 DEF IInv, ServerInv
    <3>5. CASE server' = "done" /\ registered' = FALSE
      BY <3>5 DEF ServerInv
    <3> QED BY <2>2, <3>2, <3>4, <3>5 DEF Pump, CloseSubscription
  <2> QED BY <2>1, <2>2
<1> QED BY <1>1, <1>2, <1>3 DEF IInv

\* The goroutine that waits for the hang-up closes the subscription.
LEMMA WatchKeeps == IInv /\ Watch => IInv'
<1> SUFFICES ASSUME IInv, Watch PROVE IInv'
  OBVIOUS
<1> USE DEF engine, subscription, serving, connection, program
<1>1. TypeOK'
  BY DEF IInv, TypeOK, Watch, CloseSubscription
<1>2. ProgramInv' /\ WireInv'
  BY DEF IInv, ProgramInv, WireInv, Watch, Origin, Run, Sequel
<1>3. ServerInv'
  BY DEF IInv, ServerInv, Watch, CloseSubscription, Gone, Origin, Sent, Run
<1> QED BY <1>1, <1>2, <1>3 DEF IInv

\* Subscribe reads the ack: the program's stream starts at the subscription.
LEMMA ReadAckKeeps == IInv /\ ReadAck => IInv'
<1> SUFFICES ASSUME IInv, ReadAck PROVE IInv'
  OBVIOUS
<1> USE DEF engine, subscription, serving, connection, program
<1>1. TypeOK'
  <2>1. /\ UNCHANGED <<published, engineClosed, registered, done, lagged, ch, server, hand, watching,
                       hungUp, inbox, events, base>>
        /\ stream' \in {"open", "ended"} /\ heard' \in {heard, base}
    BY DEF ReadAck
  <2>2. reading' \in BOOLEAN
    BY DEF IInv, TypeOK, ReadAck
  <2>3. down' \in Seq(Frames) /\ Len(down') <= SocketBuffer
    <3>1. down \in Seq(Frames) /\ Len(down) <= SocketBuffer /\ SocketBuffer \in Nat
      BY CapacityAssumption DEF IInv, TypeOK
    <3>2. down' = down \/ (down # << >> /\ down' = Tail(down))
      BY DEF ReadAck
    <3> QED BY <3>1, <3>2, HeadTailProperties
  <2> QED BY <2>1, <2>2, <2>3 DEF IInv, TypeOK
<1>2. CASE down = << >>
  <2>1. ProgramInv' /\ WireInv' /\ ServerInv'
    BY <1>2, Ints, Seqs DEF IInv, ProgramInv, WireInv, ServerInv, ReadAck, Gone
  <2> QED BY <1>1, <2>1 DEF IInv
<1>3. CASE down # << >>
  <2>1. /\ stream = "asked" /\ stream' = "open" /\ reading' = TRUE /\ heard' = base
        /\ down' = Tail(down) /\ Len(down') = Len(down) - 1 /\ Len(down) > 0
        /\ inbox = << >> /\ events = << >> /\ ~hungUp
        /\ UNCHANGED <<published, base, ch, hand, server, hungUp, registered, done, inbox, events>>
        /\ Origin' = Origin + 1 /\ Sent' = Sent /\ Origin = base - 1
        /\ \A i \in 1..Len(down') : down'[i] = down[i + 1]
    <3>1. /\ stream = "asked" /\ stream' = "open" /\ reading' = TRUE /\ heard' = base
          /\ down' = Tail(down) /\ inbox = << >> /\ events = << >> /\ ~hungUp
          /\ UNCHANGED <<published, base, ch, hand, server, hungUp, registered, done, inbox, events>>
      BY <1>3 DEF IInv, ProgramInv, ReadAck
    <3>2. /\ Len(down') = Len(down) - 1 /\ Len(down) > 0 /\ base \in Int /\ Len(down) \in Int
          /\ \A i \in 1..Len(down') : down'[i] = down[i + 1]
      BY <1>3, <3>1, Seqs, Ints, HeadTailProperties DEF IInv
    <3>3. Origin = base - 1 /\ Origin' = base
      BY <3>1, <3>2 DEF Origin
    <3> QED BY <3>1, <3>2, <3>3 DEF Sent
  <2>2. ProgramInv'
    BY <2>1, Ints, Seqs DEF IInv, ProgramInv, Run
  <2>3. WireInv'
    BY <1>3, <2>1, Ints, Seqs, SequelAck DEF IInv, WireInv
  <2>4. ServerInv'
    BY <1>3, <2>1, Ints, Seqs DEF IInv, ServerInv
  <2> QED BY <1>1, <2>2, <2>3, <2>4 DEF IInv
<1> QED BY <1>2, <1>3

\* readLoop takes an event off the wire, or stops.
LEMMA ReadLoopKeeps == IInv /\ ReadLoop => IInv'
<1> SUFFICES ASSUME IInv, ReadLoop PROVE IInv'
  OBVIOUS
<1> USE DEF engine, subscription, serving, connection, program
<1>1. stream = "open" /\ reading /\ inbox = << >>
  BY DEF IInv, ProgramInv, ReadLoop
<1>2. CASE reading'
  <2>1. /\ down # << >> /\ Head(down) # Lagged /\ ~hungUp /\ inbox' = <<Head(down)>>
        /\ down' = Tail(down)
    BY <1>1, <1>2 DEF ReadLoop
  <2>2. /\ Head(down) = Origin + 1 /\ Origin + 1 <= published
        /\ Sequel(down', 1, Origin + 1, published)
    BY <1>1, <2>1, Ints, Seqs, SequelTail DEF IInv, WireInv
  <2>3. /\ Origin' = Origin + 1 /\ Len(inbox') = 1 /\ inbox'[1] = Origin + 1
        /\ Origin = heard + Len(events) /\ Len(down') = Len(down) - 1 /\ Len(down) > 0
        /\ Sent' = Sent
        /\ \A i \in 1..Len(down') : down'[i] = down[i + 1]
    <3>1. /\ Len(down') = Len(down) - 1 /\ Len(down) > 0 /\ Len(down) \in Int
          /\ \A i \in 1..Len(down') : down'[i] = down[i + 1]
          /\ heard \in Int /\ Len(events) \in Int
      BY <2>1, Seqs, Ints, HeadTailProperties DEF IInv
    <3>2. Len(inbox') = 1 /\ inbox'[1] = Origin + 1 /\ Len(inbox) = 0
      BY <1>1, <2>1, <2>2
    <3>3. UNCHANGED <<stream, events, heard, base>>
      BY DEF ReadLoop
    <3>4. Origin = heard + Len(events) /\ Origin' = Origin + 1
      BY <1>1, <3>1, <3>2, <3>3 DEF Origin
    <3> QED BY <3>1, <3>2, <3>4 DEF Sent
  <2>4. TypeOK'
    <3>1. UNCHANGED <<published, engineClosed, registered, done, lagged, ch, server, hand, watching,
                      hungUp, stream, reading, events, heard, base>>
      BY <1>1, <1>2, <2>1 DEF ReadLoop
    <3>2. inbox' \in Seq(1..MaxEvents) /\ Len(inbox') <= 1
      <4>1. Origin + 1 \in 1..MaxEvents
        BY <2>2, <2>3, Ints, MaxEventsAssumption DEF IInv, TypeOK
      <4> QED BY <4>1, <2>1, <2>2
    <3>3. down' \in Seq(Frames) /\ Len(down') <= SocketBuffer
      BY <2>1, HeadTailProperties, CapacityAssumption DEF IInv, TypeOK
    <3> QED BY <3>1, <3>2, <3>3 DEF IInv, TypeOK
  <2>5. ProgramInv'
    BY <1>1, <1>2, <2>2, <2>3, Ints, Seqs DEF IInv, ProgramInv, ReadLoop, Run
  <2>6. WireInv'
    BY <1>1, <2>2, <2>3 DEF IInv, WireInv, ReadLoop
  <2>7. ServerInv'
    BY <1>1, <1>2, <2>1, <2>3, Ints, Seqs DEF IInv, ServerInv, ReadLoop
  <2> QED BY <2>4, <2>5, <2>6, <2>7 DEF IInv
<1>3. CASE ~reading'
  <2>1. TypeOK'
    <3>1. /\ UNCHANGED <<published, engineClosed, registered, done, lagged, ch, server, hand, watching,
                         hungUp, stream, inbox, events, heard, base>>
          /\ down' = down \/ (down # << >> /\ down' = Tail(down))
      BY <1>1, <1>3 DEF ReadLoop
    <3>2. reading' \in BOOLEAN
      BY <1>3 DEF IInv, TypeOK, ReadLoop
    <3>3. down' \in Seq(Frames) /\ Len(down') <= SocketBuffer
      <4>1. down \in Seq(Frames) /\ Len(down) <= SocketBuffer /\ SocketBuffer \in Nat
        BY CapacityAssumption DEF IInv, TypeOK
      <4> QED BY <3>1, <4>1, HeadTailProperties
    <3> QED BY <3>1, <3>2, <3>3 DEF IInv, TypeOK
  <2>2. ProgramInv' /\ WireInv'
    BY <1>1, <1>3 DEF IInv, ProgramInv, WireInv, ReadLoop, Run
  <2>3. hungUp \/ Gone
    <3>1. SUFFICES ASSUME down # << >>, Head(down) = Lagged, ~hungUp, ~Gone PROVE FALSE
      BY <1>1, <1>3 DEF ReadLoop
    <3>2. 1 \in 1..Len(down) /\ down[1] = Lagged
      BY <3>1, Ints, Seqs
    <3> QED BY <1>1, <3>1, <3>2 DEF IInv, TypeOK, ServerInv, Gone
  <2>4. ServerInv'
    BY <1>1, <1>3, <2>3 DEF IInv, ServerInv, ReadLoop, Gone
  <2> QED BY <2>1, <2>2, <2>4 DEF IInv
<1> QED BY <1>2, <1>3

\* readLoop passes the event on to the channel.
LEMMA PassOnKeeps == IInv /\ PassOn => IInv'
<1> SUFFICES ASSUME IInv, PassOn PROVE IInv'
  OBVIOUS
<1> USE DEF engine, subscription, serving, connection, program
<1>1. stream = "open" /\ reading
  BY DEF IInv, ProgramInv, PassOn
<1>2. /\ Len(inbox) = 1 /\ Head(inbox) = inbox[1] /\ inbox[1] = heard + Len(events) + 1
      /\ inbox' = << >> /\ Len(inbox') = 0 /\ events' = Append(events, inbox[1])
      /\ Len(events') = Len(events) + 1 /\ inbox[1] \in Int
  <2>1. /\ inbox \in Seq(Int) /\ Len(inbox) <= 1 /\ inbox # << >> /\ events \in Seq(Int)
        /\ heard \in Int /\ inbox' = << >> /\ events' = Append(events, Head(inbox))
    BY Seqs, Ints DEF IInv, TypeOK, PassOn
  <2>2. Len(inbox) = 1 /\ Head(inbox) = inbox[1] /\ inbox[1] \in Int
    BY <2>1, Singleton
  <2>3. inbox[1] = heard + Len(events) + 1
    BY <1>1, <2>2 DEF IInv, ProgramInv, Run
  <2> QED BY <2>1, <2>2, <2>3
<1>3. Origin' = Origin /\ Sent' = Sent
  <2>1. UNCHANGED <<stream, base, heard, down>>
    BY DEF PassOn
  <2>2. heard \in Int /\ Len(events) \in Int
    BY Ints DEF IInv
  <2> QED BY <1>2, <2>1, <2>2 DEF Origin, Sent
<1>4. TypeOK'
  <2>1. UNCHANGED <<published, engineClosed, registered, done, lagged, ch, server, hand, watching,
                    down, hungUp, stream, reading, heard, base>>
    BY DEF PassOn
  <2>2. /\ inbox \in Seq(1..MaxEvents) /\ events \in Seq(1..MaxEvents) /\ inbox # << >>
        /\ Len(events) < ClientBuffer /\ ClientBuffer \in Nat
    BY CapacityAssumption DEF IInv, TypeOK, PassOn
  <2>3. events' \in Seq(1..MaxEvents) /\ Len(events') <= ClientBuffer
    <3>1. inbox[1] \in 1..MaxEvents
      <4>1. 1 \in 1..Len(inbox)
        BY <1>2
      <4> QED BY <2>2, <4>1, ElementOfSeq
    <3>2. Len(events) \in Nat
      BY <2>2
    <3> QED BY <1>2, <2>2, <3>1, <3>2, AppendProperties
  <2> QED BY <1>2, <2>1, <2>3 DEF IInv, TypeOK
<1>5. ProgramInv'
  <2>1. Run(events', heard)
    BY <1>1, <1>2, Ints, Seqs, RunAppend DEF IInv, ProgramInv
  <2>2. /\ UNCHANGED <<hungUp, stream, reading, heard, base, published>>
        /\ base <= published /\ heard + Len(events) + Len(inbox) <= published
    BY <1>1 DEF IInv, ProgramInv, PassOn
  <2>3. heard \in Nat /\ Len(events) \in Nat
    BY Ints DEF IInv
  <2>4. heard' + Len(events') + Len(inbox') <= published'
    BY <1>2, <2>2, <2>3
  <2>5. Run(inbox', heard' + Len(events'))
    <3>1. 1..Len(inbox') = {}
      BY <1>2
    <3> QED BY <3>1 DEF Run
  <2> QED BY <1>1, <1>2, <2>1, <2>2, <2>4, <2>5 DEF ProgramInv
<1>6. WireInv' /\ ServerInv'
  BY <1>1, <1>3 DEF IInv, WireInv, ServerInv, PassOn, Run, Sequel
<1> QED BY <1>4, <1>5, <1>6 DEF IInv

\* The program hears the next event, or of the end.
LEMMA ReceiveKeeps == IInv /\ Receive => IInv'
<1> SUFFICES ASSUME IInv, Receive PROVE IInv'
  OBVIOUS
<1> USE DEF engine, subscription, serving, connection, program
<1>1. TypeOK'
  <2>1. /\ UNCHANGED <<published, engineClosed, registered, done, lagged, ch, server, hand, watching,
                       down, hungUp, reading, inbox, base>>
        /\ stream' \in {"open", "ended"}
    BY DEF Receive
  <2>2. heard \in 0..MaxEvents /\ events \in Seq(1..MaxEvents) /\ Len(events) <= ClientBuffer
        /\ ClientBuffer \in Nat /\ MaxEvents \in Nat
    BY CapacityAssumption, MaxEventsAssumption DEF IInv, TypeOK
  <2>3. heard' \in 0..MaxEvents /\ events' \in Seq(1..MaxEvents) /\ Len(events') <= ClientBuffer
    <3>1. \/ UNCHANGED <<heard, events>>
          \/ events # << >> /\ heard' = Head(events) /\ events' = Tail(events)
      BY DEF Receive
    <3>2. CASE UNCHANGED <<heard, events>>
      BY <2>2, <3>2
    <3>3. CASE events # << >> /\ heard' = Head(events) /\ events' = Tail(events)
      <4>1. heard' \in 1..MaxEvents /\ events' \in Seq(1..MaxEvents) /\ Len(events') = Len(events) - 1
        BY <2>2, <3>3, HeadTailProperties
      <4>2. Len(events) \in Nat
        BY <2>2
      <4> QED BY <2>2, <4>1, <4>2
    <3> QED BY <3>1, <3>2, <3>3
  <2> QED BY <2>1, <2>3 DEF IInv, TypeOK
<1>2. CASE events = << >>
  <2>1. ProgramInv' /\ WireInv' /\ ServerInv'
    BY <1>2 DEF IInv, ProgramInv, WireInv, ServerInv, Receive
  <2> QED BY <1>1, <2>1 DEF IInv
<1>3. CASE events # << >>
  <2>1. /\ stream = "open" /\ heard' = heard + 1 /\ events' = Tail(events)
        /\ Len(events') = Len(events) - 1 /\ Run(events', heard') /\ Len(events) > 0
        /\ UNCHANGED <<stream, reading, inbox, base, down, hungUp, published>>
        /\ heard \in Int /\ Len(events) \in Int /\ Len(inbox) \in Int
    <3>1. events \in Seq(Int) /\ heard \in Int /\ Len(inbox) \in Int
      BY Ints, Seqs DEF IInv
    <3>2. /\ stream = "open" /\ heard' = Head(events) /\ events' = Tail(events)
          /\ UNCHANGED <<stream, reading, inbox, base, down, hungUp, published>>
      BY <1>3 DEF Receive
    <3>3. heard' = heard + 1 /\ Run(events', heard + 1)
      BY <1>3, <3>1, <3>2, RunTail DEF IInv, ProgramInv
    <3>4. Len(events') = Len(events) - 1 /\ Len(events) > 0 /\ Len(events) \in Int
      BY <1>3, <3>1, <3>2, HeadTailProperties, EmptySeq
    <3> QED BY <1>3, <3>1, <3>2, <3>3, <3>4
  <2>5. heard' + Len(events') = heard + Len(events)
    <3>1. heard' = heard + 1 /\ Len(events') = Len(events) - 1 /\ heard \in Int /\ Len(events) \in Int
      BY <2>1
    <3> QED BY <3>1
  <2>2. Origin' = Origin /\ Sent' = Sent
    BY <2>1, <2>5 DEF Origin, Sent
  <2>3. ProgramInv'
    BY <1>3, <2>1, <2>5 DEF IInv, ProgramInv
  <2>4. WireInv' /\ ServerInv'
    BY <1>3, <2>1, <2>2 DEF IInv, WireInv, ServerInv, Receive, Run, Sequel
  <2> QED BY <1>1, <2>3, <2>4 DEF IInv
<1> QED BY <1>2, <1>3

\* A hang-up and the daemon's death end the promise upstream.
LEMMA EndsKeep == IInv /\ (CloseStream \/ DaemonDies) => IInv'
<1> SUFFICES ASSUME IInv, CloseStream \/ DaemonDies PROVE IInv'
  OBVIOUS
<1> USE DEF engine, subscription, serving, connection, program
<1>1. TypeOK'
  <2>1. CASE CloseStream
    BY <2>1 DEF IInv, TypeOK, CloseStream
  <2>2. CASE DaemonDies
    <3>1. /\ UNCHANGED <<published, lagged, ch, down, hungUp, stream, reading, inbox, events, heard, base>>
          /\ server' = "done" /\ hand' = << >> /\ Len(hand') = 0 /\ hand' \in Seq(Frames)
      BY <2>2 DEF DaemonDies, CloseSubscription
    <3>2. {engineClosed, registered, done, watching}' \subseteq BOOLEAN
      BY <2>2 DEF DaemonDies, CloseSubscription
    <3> QED BY <3>1, <3>2 DEF IInv, TypeOK
  <2> QED BY <2>1, <2>2
<1>2. ProgramInv' /\ WireInv'
  BY DEF IInv, ProgramInv, WireInv, CloseStream, DaemonDies, Origin, Run, Sequel
<1>3. ServerInv'
  BY DEF IInv, ServerInv, CloseStream, DaemonDies, CloseSubscription
<1> QED BY <1>1, <1>2, <1>3 DEF IInv

-----------------------------------------------------------------------------
(***************************************************************************)
(* The theorems.                                                           *)
(***************************************************************************)

\* The invariant holds in every reachable state.
LEMMA IInvHolds == Spec => []IInv
<1>1. Init => IInv
  <2> SUFFICES ASSUME Init PROVE IInv
    OBVIOUS
  <2>1. TypeOK
    <3>1. /\ << >> \in Seq(1..MaxEvents) /\ << >> \in Seq(Frames) /\ Len(<< >>) = 0
          /\ 0 \in 0..MaxEvents
      BY EmptySeq, MaxEventsAssumption
    <3>2. 0 <= FeedBuffer /\ 0 <= SocketBuffer /\ 0 <= ClientBuffer
      BY CapacityAssumption
    <3>3. /\ {engineClosed, registered, done, lagged} \subseteq BOOLEAN
          /\ {watching, hungUp, reading} \subseteq BOOLEAN
      BY DEF Init
    <3>4. /\ published = 0 /\ ch = << >> /\ server = "request" /\ hand = << >> /\ down = << >>
          /\ stream = "asked" /\ inbox = << >> /\ events = << >> /\ heard = 0 /\ base = 0
      BY DEF Init
    <3> QED BY <3>1, <3>2, <3>3, <3>4 DEF TypeOK
  <2>2. ProgramInv /\ WireInv /\ ServerInv
    BY DEF Init, ProgramInv, WireInv, ServerInv
  <2> QED BY <2>1, <2>2 DEF IInv
<1>2. IInv /\ [Next]_vars => IInv'
  <2>1. CASE UNCHANGED vars
    BY <2>1 DEF vars, engine, subscription, serving, connection, program, IInv, TypeOK,
                ProgramInv, WireInv, ServerInv, Origin, Sent, Run, Sequel
  <2> QED
    BY <2>1, PublishKeeps, CloseEngineKeeps, ServeSubscribeKeeps, WriteKeeps, PumpKeeps,
       WatchKeeps, ReadAckKeeps, ReadLoopKeeps, PassOnKeeps, ReceiveKeeps, EndsKeep DEF Next
<1> QED BY <1>1, <1>2, PTL DEF Spec

\* Ints, Seqs, and no buffer of the feed outgrows its capacity: neither the engine's
\* publish nor readLoop ever writes past the end of a channel.
THEOREM TypeCorrect == Spec => []TypeOK
<1>1. IInv => TypeOK
  BY DEF IInv
<1> QED BY <1>1, IInvHolds, PTL

\* The connection keeps the promise of module Feed: what a program receives from
\* EventStream.Events is every event after the ack, in order and without a gap,
\* whatever the capacities and wherever lag, hang-up or a dead daemon ends it.
THEOREM FeedImplemented == Spec => ImplementsFeed
<1>1. Init => Promise!FeedInit
  BY DEF Init, Promise!FeedInit
<1>2. IInv /\ [Next]_vars => [Promise!FeedNext]_(Promise!feed)
  <2> SUFFICES ASSUME IInv, [Next]_vars
               PROVE  Promise!FeedNext \/ UNCHANGED <<published, heard, stream>>
    BY DEF Promise!feed
  <2> USE DEF engine, subscription, serving, connection, program
  <2>1. CASE Publish
    BY <2>1 DEF Publish, Promise!FeedNext, Promise!Publish
  <2>2. CASE ReadAck
    BY <2>2, Ints, Seqs DEF IInv, ProgramInv, ReadAck, Promise!FeedNext, Promise!Open, Promise!End
  <2>3. CASE Receive
    <3>1. CASE events = << >>
      BY <2>3, <3>1 DEF Receive, Promise!FeedNext, Promise!End
    <3>2. CASE events # << >>
      <4>1. heard' = heard + 1 /\ Len(events) > 0
        <5>1. events \in Seq(Int) /\ heard \in Int /\ Run(events, heard) /\ heard' = Head(events)
          BY <2>3, <3>2, Ints, Seqs DEF IInv, ProgramInv, Receive
        <5>2. Len(events) > 0
          BY ONLY <3>2, <5>1
        <5> QED BY <3>2, <5>1, <5>2, RunTail
      <4>2. stream = "open" /\ UNCHANGED <<published, stream>>
        BY <2>3, <3>2 DEF IInv, ProgramInv, Receive
      <4>3. heard < published
        <5>1. heard + Len(events) + Len(inbox) <= published
          BY <4>2 DEF IInv, ProgramInv
        <5>2. /\ heard \in Nat /\ published \in Nat /\ Len(events) \in Nat /\ Len(inbox) \in Nat
          BY Ints DEF IInv
        <5> QED BY ONLY <4>1, <5>1, <5>2
      <4> QED BY <4>1, <4>2, <4>3 DEF Promise!FeedNext, Promise!Hear
    <3> QED BY <3>1, <3>2
  <2>4. CASE \/ CloseEngine \/ ServeSubscribe \/ Write \/ Pump \/ Watch \/ ReadLoop
             \/ PassOn \/ CloseStream \/ DaemonDies \/ UNCHANGED vars
    BY <2>4 DEF vars, CloseEngine, ServeSubscribe, Write, Pump, Watch, ReadLoop, PassOn,
                CloseStream, DaemonDies
  <2> QED BY <2>1, <2>2, <2>3, <2>4 DEF Next
<1> QED BY <1>1, <1>2, IInvHolds, PTL DEF Spec, ImplementsFeed, Promise!FeedSpec
==============================================================================
