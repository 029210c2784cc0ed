----------------------------- MODULE RespondProofs -----------------------------
(***************************************************************************)
(* TLAPS proofs about the response loop (session.go), for any queue, any   *)
(* PTY buffer and any number of answers and inputs.  The argument: writeMu *)
(* keeps a half-written chunk to its writer, and an answer's number grows  *)
(* on every leg of its way back from the PTY to the emulator.              *)
(***************************************************************************)
EXTENDS Respond, SequenceTheorems, TLAPS

Units == [from : {"answer", "input"}, n : Nat, part : {1, 2}]
Chunks == [from : {"none", "answer", "input"}, n : Nat, done : {0, 1}]

\* What a writer writes, and how many of those there are so far.
Kind(w) == IF w = "respond" THEN "answer" ELSE "input"
Given(w) == IF w = "respond" THEN answers ELSE inputs

TypeInv ==
  /\ offer \in Nat /\ answers \in Nat /\ inputs \in Nat
  /\ responses \in Seq(Nat) /\ arrived \in Seq(Units)
  /\ chunk \in [Writers -> Chunks] /\ writer \in Writers \cup {"free"}
  /\ closing \in Stages

\* The writers: each has chunks of its own kind, half-written only under writeMu.
WriterInv ==
  /\ \A w \in Writers : chunk[w] = NoChunk \/ (chunk[w].from = Kind(w) /\ chunk[w].n <= Given(w))
  /\ \A w \in Writers : chunk[w].done = 1 => writer = w
  /\ writer # "free" => chunk[writer] # NoChunk

\* While the PTY is open, what arrived ends in the middle of a chunk exactly when the
\* holder of writeMu is in the middle of that chunk.
HalfInv ==
  ~PtyClosed =>
    /\ Len(arrived) % 2 = 1 <=> writer # "free" /\ chunk[writer].done = 1
    /\ writer # "free" /\ chunk[writer].done = 1 =>
         /\ Len(arrived) > 0
         /\ arrived[Len(arrived)].from = chunk[writer].from
         /\ arrived[Len(arrived)].n = chunk[writer].n

\* What arrived is older than what its writer has yet to write.
ArrivedInv ==
  \A w \in Writers : \A i \in 1..Len(arrived) : arrived[i].from = Kind(w) =>
    /\ arrived[i].n <= Given(w)
    /\ chunk[w] # NoChunk /\ chunk[w].done = 0 => arrived[i].n < chunk[w].n
    /\ chunk[w] # NoChunk => arrived[i].n <= chunk[w].n

\* Number m is newer than every answer on its way to the child, or there.
Newer(m) ==
  /\ \A i \in 1..Len(arrived) : arrived[i].from = "answer" => arrived[i].n < m
  /\ chunk["respond"] # NoChunk => chunk["respond"].n < m

\* The queue holds ever newer answers, and the emulator pushes the newest.
QueueInv ==
  /\ \A i, j \in 1..Len(responses) : i < j => responses[i] < responses[j]
  /\ \A i \in 1..Len(responses) : responses[i] <= answers /\ Newer(responses[i])
  /\ offer # 0 => /\ offer = answers /\ Newer(offer)
                  /\ \A i \in 1..Len(responses) : responses[i] < offer

IInv == TypeInv /\ WriterInv /\ HalfInv /\ ArrivedInv /\ QueueInv /\ InputArrivesWhole

-----------------------------------------------------------------------------
(***************************************************************************)
(* Writers, chunks and indices.                                            *)
(***************************************************************************)

LEMMA Parity ==
  \A n \in Nat : n % 2 \in {0, 1} /\ (n % 2 = 0 <=> (n + 1) % 2 = 1)
OBVIOUS

\* A writer's kind is its own, and a chunk that is none is not half-written.
LEMMA WritersAre ==
  /\ Writers = {"respond", "client"} /\ NoChunk \in Chunks /\ NoChunk.done = 0 /\ NoChunk.from = "none"
  /\ \A w \in Writers : Kind(w) \in {"answer", "input"} /\ w # "free"
  /\ \A v, w \in Writers : Kind(v) = Kind(w) => v = w
BY DEF Writers, NoChunk, Chunks, Kind

LEMMA ChunksAre ==
  ASSUME NEW from \in {"answer", "input"}, NEW n \in Nat
  PROVE  /\ Chunk(from, n) \in Chunks /\ Chunk(from, n) # NoChunk
         /\ Chunk(from, n).from = from /\ Chunk(from, n).n = n /\ Chunk(from, n).done = 0
BY DEF Chunk, Chunks, NoChunk

\* The types a step of the proof reads off.
LEMMA Typed ==
  ASSUME TypeInv
  PROVE  /\ \A w \in Writers : /\ chunk[w] \in Chunks /\ chunk[w].n \in Nat
                               /\ chunk[w].done \in {0, 1} /\ Given(w) \in Nat
         /\ DOMAIN arrived = 1..Len(arrived) /\ Len(arrived) \in Nat
         /\ \A i \in 1..Len(arrived) : arrived[i] \in Units /\ arrived[i].n \in Nat
         /\ \A i \in 1..Len(responses) : responses[i] \in Nat
<1>1. \A c \in Chunks : c.n \in Nat /\ c.done \in {0, 1}
  BY DEF Chunks
<1>2. \A u \in Units : u.n \in Nat
  BY DEF Units
<1>3. \A w \in Writers : chunk[w] \in Chunks /\ Given(w) \in Nat
  BY DEF TypeInv, Given
<1>4. DOMAIN arrived = 1..Len(arrived) /\ Len(arrived) \in Nat
  BY LenProperties DEF TypeInv
<1>5. /\ \A i \in 1..Len(arrived) : arrived[i] \in Units
      /\ \A i \in 1..Len(responses) : responses[i] \in Nat
  BY ElementOfSeq DEF TypeInv
<1> QED BY <1>1, <1>2, <1>3, <1>4, <1>5

-----------------------------------------------------------------------------
(***************************************************************************)
(* The emulator's side.                                                    *)
(***************************************************************************)

\* The offer stays or goes, and close() gets on; nothing is written.
LEMMA OfferKeeps ==
  ASSUME IInv, UNCHANGED <<answers, inputs, responses, arrived, chunk, writer>>,
         offer' = offer \/ offer' = 0, PtyClosed => PtyClosed',
         closing' \in Stages
  PROVE  IInv'
<1>1. TypeInv'
  BY DEF IInv, TypeInv
<1>2. WriterInv'
  BY DEF IInv, WriterInv, Given
<1>3. HalfInv'
  BY DEF IInv, HalfInv
<1>4. ArrivedInv'
  BY DEF IInv, ArrivedInv, Given
<1>5. QueueInv'
  BY DEF IInv, QueueInv, Newer
<1>6. InputArrivesWhole'
  BY DEF IInv, InputArrivesWhole
<1> QED BY <1>1, <1>2, <1>3, <1>4, <1>5, <1>6 DEF IInv

\* What holds the lock, waits for it or reads the PTY, and close(), write nothing.
LEMMA LockedKeeps ==
  IInv /\ (Read \/ Enter("read") \/ Enter("resize") \/ Exit \/ Ask \/ Serve \/ ChildReads) => IInv'
<1> SUFFICES ASSUME IInv, Read \/ Enter("read") \/ Enter("resize") \/ Exit \/ Ask \/ Serve \/ ChildReads
             PROVE  IInv'
  OBVIOUS
<1>1. /\ UNCHANGED <<answers, inputs, responses, arrived, chunk, writer, closing>>
      /\ offer' = offer \/ offer' = 0
  BY DEF Read, Enter, Exit, Ask, Serve, ChildReads, locked, queueing, writing
<1>2. closing \in Stages
  BY DEF IInv, TypeInv
<1> QED BY <1>1, <1>2, OfferKeeps DEF PtyClosed

LEMMA CloseKeeps == IInv /\ (CallClose \/ MarkClosed \/ Kill \/ ClosePty \/ ClosePipe) => IInv'
<1> SUFFICES ASSUME IInv, CallClose \/ MarkClosed \/ Kill \/ ClosePty \/ ClosePipe PROVE IInv'
  OBVIOUS
<1>1. /\ UNCHANGED <<answers, inputs, responses, arrived, chunk, writer, offer>>
      /\ closing' \in Stages /\ (PtyClosed => PtyClosed')
  BY DEF CallClose, MarkClosed, Kill, ClosePty, ClosePipe, locked, queueing, writing, PtyClosed,
         Stages
<1> QED BY <1>1, OfferKeeps

\* The newest answer is newer than all there is.
LEMMA AnswerKeeps == IInv /\ Answer => IInv'
<1> SUFFICES ASSUME IInv, Answer PROVE IInv'
  OBVIOUS
<1>1. /\ offer = 0 /\ answers' = answers + 1 /\ (offer' = 0 \/ offer' = answers + 1)
      /\ UNCHANGED <<inputs, responses, arrived, chunk, writer, closing>>
  BY DEF Answer, queueing, writing
<1>2. TypeInv /\ answers \in Nat /\ inputs \in Nat
  BY DEF IInv, TypeInv
<1>3. TypeInv'
  BY <1>1, <1>2 DEF TypeInv
<1>4. \A w \in Writers : Given(w) \in Nat /\ Given(w)' \in Nat /\ Given(w) <= Given(w)'
  BY <1>1, <1>2 DEF Given
<1>5. WriterInv'
  BY <1>1, <1>2, <1>4, Typed DEF IInv, WriterInv
<1>6. HalfInv'
  BY <1>1 DEF IInv, HalfInv, PtyClosed
<1>7. ArrivedInv'
  BY <1>1, <1>2, <1>4, Typed DEF IInv, ArrivedInv
<1>8. QueueInv'
  <2>1. \A i \in 1..Len(responses) : responses[i] <= answers /\ responses[i] <= answers + 1
                                     /\ responses[i] < answers + 1
    BY <1>2, Typed DEF IInv, QueueInv
  <2>2. \A i \in 1..Len(arrived) : arrived[i].from = "answer" => arrived[i].n < answers + 1
    <3>1. "respond" \in Writers /\ Kind("respond") = "answer" /\ Given("respond") = answers
      BY DEF Writers, Kind, Given
    <3> QED BY <1>2, <3>1, Typed DEF IInv, ArrivedInv
  <2>3. chunk["respond"] # NoChunk => chunk["respond"].n < answers + 1
    <3>1. "respond" \in Writers /\ Given("respond") = answers
      BY DEF Writers, Given
    <3> QED BY <1>2, <3>1, Typed DEF IInv, WriterInv
  <2>4. Newer(answers + 1)
    BY <2>2, <2>3 DEF Newer
  <2> QED BY <1>1, <2>1, <2>4 DEF IInv, QueueInv, Newer
<1>9. InputArrivesWhole'
  BY <1>1 DEF IInv, InputArrivesWhole
<1> QED BY <1>3, <1>5, <1>6, <1>7, <1>8, <1>9 DEF IInv

\* The goroutine that reads the pipe queues the answer, or drops it.
LEMMA CollectKeeps == IInv /\ Collect => IInv'
<1> SUFFICES ASSUME IInv, Collect PROVE IInv'
  OBVIOUS
<1>1. UNCHANGED <<answers, inputs, arrived, chunk, writer, closing>>
  BY DEF Collect, writing
<1>2. closing \in Stages /\ TypeInv
  BY DEF IInv, TypeInv
<1>3. CASE responses' = responses
  <2>1. offer' = offer \/ offer' = 0
    BY DEF Collect
  <2> QED BY <1>1, <1>2, <1>3, <2>1, OfferKeeps DEF PtyClosed
<1>4. CASE responses' # responses
  <2>1. offer # 0 /\ offer' = 0 /\ responses' = Append(responses, offer)
    BY <1>4 DEF Collect
  <2>2. /\ responses' \in Seq(Nat) /\ Len(responses') = Len(responses) + 1 /\ Len(responses) \in Nat
        /\ responses'[Len(responses) + 1] = offer
        /\ \A i \in 1..Len(responses) : responses'[i] = responses[i]
    BY <1>2, <2>1, AppendProperties, LenProperties DEF TypeInv
  <2>3. \A i \in 1..Len(responses') : i \in 1..Len(responses) \/ i = Len(responses) + 1
    BY <2>2
  <2>4. TypeInv'
    BY <1>1, <1>2, <2>1, <2>2 DEF TypeInv
  <2>5. WriterInv' /\ ArrivedInv' /\ HalfInv' /\ InputArrivesWhole'
    BY <1>1 DEF IInv, WriterInv, ArrivedInv, HalfInv, InputArrivesWhole, Given, PtyClosed
  <2>6. QueueInv'
    <3>1. /\ offer = answers /\ Newer(offer) /\ answers \in Nat
          /\ \A i \in 1..Len(responses) : responses[i] < offer
      BY <1>2, <2>1 DEF IInv, QueueInv, TypeInv
    <3>2. \A i, j \in 1..Len(responses') : i < j => responses'[i] < responses'[j]
      <4> TAKE i, j \in 1..Len(responses')
      <4> HAVE i < j
      <4>1. i \in 1..Len(responses)
        BY <2>2
      <4>2. CASE j \in 1..Len(responses)
        BY <4>1, <4>2, <2>2 DEF IInv, QueueInv
      <4>3. CASE j = Len(responses) + 1
        BY <4>1, <4>3, <2>2, <3>1
      <4> QED BY <4>2, <4>3, <2>3
    <3>3. \A m : Newer(m) => Newer(m)'
      BY <1>1 DEF Newer
    <3>4. \A i \in 1..Len(responses') : responses'[i] <= answers /\ Newer(responses'[i])
      BY <2>2, <2>3, <3>1 DEF IInv, QueueInv
    <3> QED BY <1>1, <2>1, <3>2, <3>3, <3>4 DEF QueueInv, Newer
  <2> QED BY <2>4, <2>5, <2>6 DEF IInv
<1> QED BY <1>3, <1>4

-----------------------------------------------------------------------------
(***************************************************************************)
(* The writers.                                                            *)
(***************************************************************************)

\* A writer that had nothing to write gets a chunk: the next of its kind.
LEMMA NextChunk ==
  ASSUME IInv, NEW w \in Writers, NEW n \in Nat, chunk[w] = NoChunk,
         chunk' = [chunk EXCEPT ![w] = Chunk(Kind(w), n)],
         UNCHANGED <<arrived, writer, closing>>, n <= Given(w)',
         \A v \in Writers : Given(v)' \in Nat /\ Given(v) <= Given(v)',
         \A i \in 1..Len(arrived) : arrived[i].from = Kind(w) => arrived[i].n < n
  PROVE  /\ chunk' \in [Writers -> Chunks] /\ WriterInv' /\ HalfInv' /\ ArrivedInv' /\ InputArrivesWhole'
         /\ \A v \in Writers : v # w => chunk'[v] = chunk[v]
         /\ chunk'[w] # NoChunk /\ chunk'[w].n = n
<1>1. TypeInv /\ chunk \in [Writers -> Chunks]
  BY DEF IInv, TypeInv
<1>2. /\ chunk'[w] = Chunk(Kind(w), n) /\ chunk' \in [Writers -> Chunks]
      /\ \A v \in Writers : v # w => chunk'[v] = chunk[v]
  BY <1>1, WritersAre, ChunksAre
<1>3. chunk'[w] # NoChunk /\ chunk'[w].from = Kind(w) /\ chunk'[w].n = n /\ chunk'[w].done = 0
  BY <1>2, WritersAre, ChunksAre
<1>4. chunk[w].done = 0 /\ writer # w
  BY WritersAre DEF IInv, WriterInv
<1>5. writer # "free" => writer \in Writers /\ chunk'[writer] = chunk[writer]
  BY <1>1, <1>2, <1>4 DEF TypeInv
<1>6. WriterInv'
  <2>1. ASSUME NEW v \in Writers
        PROVE  chunk'[v] = NoChunk \/ (chunk'[v].from = Kind(v) /\ chunk'[v].n <= Given(v)')
    <3>1. CASE v = w
      BY <3>1, <1>3
    <3>2. CASE v # w
      BY <3>2, <1>1, <1>2, Typed DEF IInv, WriterInv
    <3> QED BY <3>1, <3>2
  <2>2. \A v \in Writers : chunk'[v].done = 1 => writer' = v
    BY <1>2, <1>3 DEF IInv, WriterInv
  <2>3. writer' # "free" => chunk'[writer'] # NoChunk
    BY <1>5 DEF IInv, WriterInv
  <2> QED BY <2>1, <2>2, <2>3 DEF WriterInv
<1>7. HalfInv'
  BY <1>5 DEF IInv, HalfInv, PtyClosed
<1>8. ArrivedInv'
  <2> SUFFICES ASSUME NEW v \in Writers, NEW i \in 1..Len(arrived), arrived[i].from = Kind(v)
               PROVE  /\ arrived[i].n <= Given(v)'
                      /\ chunk'[v] # NoChunk /\ chunk'[v].done = 0 => arrived[i].n < chunk'[v].n
                      /\ chunk'[v] # NoChunk => arrived[i].n <= chunk'[v].n
    BY DEF ArrivedInv
  <2>1. arrived[i].n \in Nat /\ Given(v) \in Nat /\ arrived[i].n <= Given(v)
    BY <1>1, Typed DEF IInv, ArrivedInv
  <2>2. arrived[i].n <= Given(v)'
    BY <2>1
  <2>3. CASE v = w
    BY <2>1, <2>2, <2>3, <1>3
  <2>4. CASE v # w
    BY <2>2, <2>4, <1>2 DEF IInv, ArrivedInv
  <2> QED BY <2>3, <2>4
<1>9. InputArrivesWhole'
  BY DEF IInv, InputArrivesWhole
<1> QED BY <1>2, <1>3, <1>6, <1>7, <1>8, <1>9

LEMMA RespondKeeps == IInv /\ Respond => IInv'
<1> SUFFICES ASSUME IInv, Respond PROVE IInv'
  OBVIOUS
<1>1. /\ chunk["respond"] = NoChunk
      /\ UNCHANGED <<offer, answers, inputs, arrived, writer, closing>>
  BY DEF Respond, locked
<1>2. TypeInv /\ closing \in Stages
  BY DEF IInv, TypeInv
<1>3. CASE responses' = responses /\ chunk' = chunk
  BY <1>1, <1>2, <1>3, OfferKeeps DEF PtyClosed
<1>4. CASE /\ responses # << >> /\ responses' = Tail(responses)
           /\ chunk' = [chunk EXCEPT !["respond"] = Chunk("answer", Head(responses))]
  <2> DEFINE n == Head(responses)
  <2>1. /\ n = responses[1] /\ n \in Nat /\ Len(responses) \in Nat \ {0} /\ 1 \in 1..Len(responses)
        /\ responses' \in Seq(Nat) /\ Len(responses') = Len(responses) - 1
        /\ \A i \in 1..Len(responses') : responses'[i] = responses[i + 1]
    BY <1>2, <1>4, HeadTailProperties, EmptySeq, ElementOfSeq DEF TypeInv
  <2> HIDE DEF n
  <2>2. \A i \in 1..Len(responses') : i + 1 \in 1..Len(responses) /\ 1 < i + 1
    BY <2>1
  <2>3. n <= answers /\ Newer(n) /\ answers \in Nat /\ inputs \in Nat
    BY <1>2, <2>1 DEF IInv, QueueInv, TypeInv
  <2>4. "respond" \in Writers /\ Kind("respond") = "answer"
    BY DEF Writers, Kind
  <2>5. /\ \A v \in Writers : Given(v)' \in Nat /\ Given(v) <= Given(v)'
        /\ n <= Given("respond")'
    BY <1>1, <2>3 DEF Given
  <2>6. chunk' = [chunk EXCEPT !["respond"] = Chunk(Kind("respond"), n)]
    BY <1>4, <2>4 DEF n
  <2>7. \A i \in 1..Len(arrived) : arrived[i].from = Kind("respond") => arrived[i].n < n
    BY <2>3, <2>4 DEF Newer
  <2>8. /\ chunk' \in [Writers -> Chunks] /\ WriterInv' /\ HalfInv' /\ ArrivedInv'
        /\ InputArrivesWhole' /\ chunk'["respond"] # NoChunk /\ chunk'["respond"].n = n
    BY <1>1, <2>1, <2>4, <2>5, <2>6, <2>7, NextChunk
  <2>9. TypeInv'
    BY <1>1, <1>2, <2>1, <2>8 DEF TypeInv
  <2>10. QueueInv'
    <3>1. \A m : n < m /\ Newer(m) => Newer(m)'
      BY <1>1, <2>8 DEF Newer
    <3>2. \A i \in 1..Len(responses') :
            responses'[i] <= answers /\ n < responses'[i] /\ Newer(responses'[i])
      BY <2>1, <2>2 DEF IInv, QueueInv
    <3>3. \A i, j \in 1..Len(responses') : i < j => responses'[i] < responses'[j]
      <4> TAKE i, j \in 1..Len(responses')
      <4> HAVE i < j
      <4>1. i + 1 < j + 1 /\ i + 1 \in 1..Len(responses) /\ j + 1 \in 1..Len(responses)
        BY <2>2
      <4> QED BY <4>1, <2>1 DEF IInv, QueueInv
    <3>4. offer # 0 => /\ offer = answers /\ n < offer /\ Newer(offer)
                       /\ \A i \in 1..Len(responses') : responses'[i] < offer
      BY <2>1, <2>2 DEF IInv, QueueInv
    <3>5. \A i \in 1..Len(responses') : Newer(responses[i])'
      BY <3>1, <3>2 DEF Newer
    <3>6. offer # 0 => Newer(offer)'
      BY <1>1, <3>1, <3>4 DEF Newer
    <3> QED BY <1>1, <3>2, <3>3, <3>4, <3>5, <3>6 DEF QueueInv, Newer
  <2> QED BY <2>8, <2>9, <2>10 DEF IInv
<1> QED BY <1>3, <1>4 DEF Respond

LEMMA InputKeeps == IInv /\ Input => IInv'
<1> SUFFICES ASSUME IInv, Input PROVE IInv'
  OBVIOUS
<1>1. /\ chunk["client"] = NoChunk /\ inputs' = inputs + 1
      /\ chunk' = [chunk EXCEPT !["client"] = Chunk("input", inputs + 1)]
      /\ UNCHANGED <<offer, answers, responses, arrived, writer, closing>>
  BY DEF Input, locked, queueing
<1>2. TypeInv /\ answers \in Nat /\ inputs \in Nat
  BY DEF IInv, TypeInv
<1>3. "client" \in Writers /\ "respond" \in Writers /\ Kind("client") = "input"
  BY DEF Writers, Kind
<1>4. /\ \A v \in Writers : Given(v)' \in Nat /\ Given(v) <= Given(v)'
      /\ inputs + 1 <= Given("client")' /\ inputs + 1 \in Nat /\ Given("client") = inputs
  BY <1>1, <1>2 DEF Given
<1>5. \A i \in 1..Len(arrived) : arrived[i].from = Kind("client") => arrived[i].n < inputs + 1
  <2>1. \A i \in 1..Len(arrived) : arrived[i].from = Kind("client") => arrived[i].n <= inputs
    BY <1>3, <1>4 DEF IInv, ArrivedInv
  <2> QED BY <2>1, <1>2, Typed
<1>6. /\ chunk' \in [Writers -> Chunks] /\ WriterInv' /\ HalfInv' /\ ArrivedInv'
      /\ InputArrivesWhole' /\ chunk'["respond"] = chunk["respond"]
  <2>1. chunk' = [chunk EXCEPT !["client"] = Chunk(Kind("client"), inputs + 1)]
    BY <1>1, <1>3
  <2> QED BY <1>1, <1>3, <1>4, <1>5, <2>1, NextChunk
<1>7. TypeInv'
  BY <1>1, <1>2, <1>4, <1>6 DEF TypeInv
<1>8. QueueInv'
  BY <1>1, <1>6 DEF IInv, QueueInv, Newer
<1> QED BY <1>6, <1>7, <1>8 DEF IInv

\* Whoever takes writeMu starts a chunk: the other one finished its own, or gave it up.
LEMMA LockWriteKeeps == ASSUME IInv, NEW w \in Writers, LockWrite(w) PROVE IInv'
<1>1. /\ chunk[w] # NoChunk /\ writer = "free" /\ writer' = w
      /\ UNCHANGED <<offer, answers, responses, chunk, inputs, arrived, closing>>
  BY DEF LockWrite, locked, queueing
<1>2. \A v \in Writers : v # "free" /\ chunk[v].done = 0
  BY <1>1, WritersAre, Typed DEF IInv, WriterInv
<1>3. TypeInv'
  BY <1>1 DEF IInv, TypeInv
<1>4. WriterInv'
  BY <1>1, <1>2 DEF IInv, WriterInv, Given
<1>5. HalfInv'
  BY <1>1, <1>2 DEF IInv, HalfInv, PtyClosed
<1>6. ArrivedInv' /\ QueueInv' /\ InputArrivesWhole'
  BY <1>1 DEF IInv, ArrivedInv, QueueInv, Newer, Given, InputArrivesWhole
<1> QED BY <1>3, <1>4, <1>5, <1>6 DEF IInv

\* A write fails on a closed PTY: the chunk is given up.
LEMMA GiveUpKeeps ==
  ASSUME IInv, NEW w \in Writers, writer = w, PtyClosed,
         chunk' = [chunk EXCEPT ![w] = NoChunk], writer' = "free",
         UNCHANGED <<offer, answers, responses, inputs, arrived, closing>>
  PROVE  IInv'
<1>1. chunk \in [Writers -> Chunks]
  BY DEF IInv, TypeInv
<1>2. /\ chunk' \in [Writers -> Chunks] /\ chunk'[w] = NoChunk /\ chunk'[w].done = 0
      /\ \A v \in Writers : v # w => chunk'[v] = chunk[v]
  BY <1>1, WritersAre
<1>3. \A v \in Writers : chunk'[v].done = 0
  BY <1>2, Typed DEF IInv, WriterInv
<1>4. TypeInv'
  BY <1>2 DEF IInv, TypeInv
<1>5. WriterInv'
  BY <1>2, <1>3 DEF IInv, WriterInv, Given
<1>6. HalfInv'
  BY DEF HalfInv, PtyClosed
<1>7. ArrivedInv'
  BY <1>2 DEF IInv, ArrivedInv, Given
<1>8. QueueInv'
  <2>1. "respond" \in Writers
    BY DEF Writers
  <2>2. \A m : Newer(m) => Newer(m)'
    BY <1>2, <2>1 DEF Newer
  <2>3. \A i \in 1..Len(responses) : Newer(responses[i])'
    BY <2>2 DEF IInv, QueueInv
  <2>4. offer # 0 => Newer(offer)'
    BY <2>2 DEF IInv, QueueInv
  <2> QED BY <2>3, <2>4 DEF IInv, QueueInv, Newer
<1>9. InputArrivesWhole'
  BY DEF IInv, InputArrivesWhole
<1> QED BY <1>4, <1>5, <1>6, <1>7, <1>8, <1>9 DEF IInv

-----------------------------------------------------------------------------
(***************************************************************************)
(* A unit goes to the PTY.                                                 *)
(***************************************************************************)

\* The unit that writer w puts on the PTY next.
Unit(w) == [from |-> chunk[w].from, n |-> chunk[w].n, part |-> chunk[w].done + 1]

\* What arrived, with that unit behind it, and the chunk as it is then.
Arrives(w) ==
  /\ writer = w /\ ~PtyClosed /\ arrived' = Append(arrived, Unit(w))
  /\ chunk' = [chunk EXCEPT ![w] = IF @.done = 0 THEN [@ EXCEPT !.done = 1] ELSE NoChunk]
  /\ writer' = IF chunk[w].done = 0 THEN w ELSE "free"
  /\ UNCHANGED <<offer, answers, responses, inputs, closing>>

\* The chunk and the unit of the holder of writeMu.
LEMMA UnitIs ==
  ASSUME IInv, NEW w \in Writers, Arrives(w)
  PROVE  /\ chunk[w] # NoChunk /\ chunk[w].from = Kind(w) /\ chunk[w].n \in Nat /\ chunk[w].done \in {0, 1}
         /\ chunk[w].n <= Given(w)
         /\ Unit(w) \in Units /\ Unit(w).from = Kind(w) /\ Unit(w).n = chunk[w].n
         /\ Unit(w).part = chunk[w].done + 1
         /\ arrived' \in Seq(Units) /\ Len(arrived') = Len(arrived) + 1 /\ Len(arrived) \in Nat
         /\ arrived'[Len(arrived) + 1] = Unit(w)
         /\ \A i \in 1..Len(arrived) : arrived'[i] = arrived[i]
         /\ \A i \in 1..Len(arrived') : i \in 1..Len(arrived) \/ i = Len(arrived) + 1
         /\ DOMAIN arrived' = 1..Len(arrived') /\ DOMAIN arrived = 1..Len(arrived)
         /\ chunk' \in [Writers -> Chunks] /\ \A v \in Writers : v # w => chunk'[v] = chunk[v]
         /\ chunk[w].done = 0 => chunk'[w] = [chunk[w] EXCEPT !.done = 1] /\ writer' = w
         /\ chunk[w].done = 1 => chunk'[w] = NoChunk /\ writer' = "free"
<1>1. TypeInv /\ writer = w /\ w # "free" /\ chunk \in [Writers -> Chunks] /\ arrived \in Seq(Units)
  BY WritersAre DEF IInv, TypeInv, Arrives
<1>2. /\ chunk[w] # NoChunk /\ chunk[w].from = Kind(w) /\ chunk[w].n \in Nat /\ chunk[w].done \in {0, 1}
      /\ chunk[w].n <= Given(w)
  BY <1>1, Typed DEF IInv, WriterInv
<1>3. /\ Unit(w) \in Units /\ Unit(w).from = Kind(w) /\ Unit(w).n = chunk[w].n
      /\ Unit(w).part = chunk[w].done + 1
  BY <1>2, WritersAre DEF Unit, Units
<1>4. /\ arrived' \in Seq(Units) /\ Len(arrived') = Len(arrived) + 1 /\ Len(arrived) \in Nat
      /\ arrived'[Len(arrived) + 1] = Unit(w)
      /\ \A i \in 1..Len(arrived) : arrived'[i] = arrived[i]
  BY <1>1, <1>3, AppendProperties, LenProperties DEF Arrives
<1>5. /\ \A i \in 1..Len(arrived') : i \in 1..Len(arrived) \/ i = Len(arrived) + 1
      /\ DOMAIN arrived' = 1..Len(arrived') /\ DOMAIN arrived = 1..Len(arrived)
  BY <1>1, <1>4, LenProperties
<1>6. [chunk[w] EXCEPT !.done = 1] \in Chunks
  BY <1>1 DEF Chunks
<1>7. /\ chunk' \in [Writers -> Chunks] /\ \A v \in Writers : v # w => chunk'[v] = chunk[v]
      /\ chunk[w].done = 0 => chunk'[w] = [chunk[w] EXCEPT !.done = 1] /\ writer' = w
      /\ chunk[w].done = 1 => chunk'[w] = NoChunk /\ writer' = "free"
  BY <1>1, <1>6, WritersAre DEF Arrives
<1> QED BY <1>1, <1>2, <1>3, <1>4, <1>5, <1>7

\* A unit is the second of its chunk exactly when it lands at an even place.
LEMMA UnitLands ==
  ASSUME IInv, NEW w \in Writers, Arrives(w)
  PROVE  /\ chunk[w].done = 0 => Len(arrived) % 2 = 0 /\ (Len(arrived) + 1) % 2 = 1
         /\ chunk[w].done = 1 => /\ Len(arrived) % 2 = 1 /\ (Len(arrived) + 1) % 2 = 0
                                 /\ Len(arrived) \in 1..Len(arrived)
                                 /\ arrived[Len(arrived)].from = Unit(w).from
                                 /\ arrived[Len(arrived)].n = Unit(w).n
<1>1. writer = w /\ w # "free" /\ ~PtyClosed
  BY WritersAre DEF Arrives
<1>2. /\ Len(arrived) \in Nat /\ chunk[w].done \in {0, 1}
      /\ Unit(w).from = chunk[w].from /\ Unit(w).n = chunk[w].n
  BY UnitIs
<1>3. /\ Len(arrived) % 2 = 1 <=> chunk[w].done = 1
      /\ chunk[w].done = 1 => /\ Len(arrived) > 0
                              /\ arrived[Len(arrived)].from = chunk[w].from
                              /\ arrived[Len(arrived)].n = chunk[w].n
  BY <1>1 DEF IInv, HalfInv
<1>4. Len(arrived) > 0 => Len(arrived) \in 1..Len(arrived)
  BY <1>2
<1>5. Len(arrived) % 2 \in {0, 1} /\ (Len(arrived) % 2 = 0 <=> (Len(arrived) + 1) % 2 = 1)
  BY <1>2, Parity
<1>6. (Len(arrived) + 1) % 2 \in {0, 1}
  BY <1>2, Parity
<1> QED BY <1>2, <1>3, <1>4, <1>5, <1>6

\* What has arrived is whole with the unit too.
LEMMA StillWhole == ASSUME IInv, NEW w \in Writers, Arrives(w) PROVE InputArrivesWhole'
<1> DEFINE L == Len(arrived)
<1>1. /\ L \in Nat /\ Len(arrived') = L + 1 /\ arrived'[L + 1] = Unit(w)
      /\ \A i \in 1..L : arrived'[i] = arrived[i]
      /\ \A i \in 1..L + 1 : i \in 1..L \/ i = L + 1
      /\ DOMAIN arrived' = 1..L + 1 /\ DOMAIN arrived = 1..L
      /\ chunk[w].done \in {0, 1} /\ Unit(w).part = chunk[w].done + 1
      /\ Unit(w).from = Kind(w) /\ Unit(w).n = chunk[w].n /\ chunk[w] # NoChunk
  BY UnitIs
<1>2. /\ chunk[w].done = 0 => (L + 1) % 2 = 1
      /\ chunk[w].done = 1 => /\ (L + 1) % 2 = 0 /\ L \in 1..L
                              /\ arrived[L].from = Unit(w).from /\ arrived[L].n = Unit(w).n
  BY UnitLands
<1>3. (L + 1) - 1 = L
  BY <1>1
<1> HIDE DEF L
<1>4. \A i \in 1..L + 1 : arrived'[i].part = IF i % 2 = 1 THEN 1 ELSE 2
  <2>1. \A i \in 1..L : arrived[i].part = IF i % 2 = 1 THEN 1 ELSE 2
    BY <1>1 DEF IInv, InputArrivesWhole
  <2>2. arrived'[L + 1].part = IF (L + 1) % 2 = 1 THEN 1 ELSE 2
    BY <1>1, <1>2
  <2> QED BY <1>1, <2>1, <2>2
<1>5. \A i \in 1..L + 1 : i % 2 = 0 =>
        arrived'[i].from = arrived'[i - 1].from /\ arrived'[i].n = arrived'[i - 1].n
  <2> SUFFICES ASSUME NEW i \in 1..L + 1, i % 2 = 0
               PROVE  arrived'[i].from = arrived'[i - 1].from /\ arrived'[i].n = arrived'[i - 1].n
    OBVIOUS
  <2>1. CASE i \in 1..L
    <3>1. i - 1 \in 1..L
      <4>1. i # 1
        BY Parity
      <4> QED BY <2>1, <4>1, <1>1
    <3>2. arrived[i].from = arrived[i - 1].from /\ arrived[i].n = arrived[i - 1].n
      BY <1>1, <2>1 DEF IInv, InputArrivesWhole
    <3> QED BY <1>1, <2>1, <3>1, <3>2
  <2>2. CASE i = L + 1
    <3>1. i - 1 = L /\ (L + 1) % 2 = 0
      BY <1>3, <2>2
    <3>2. chunk[w].done = 1
      BY <1>1, <1>2, <3>1
    <3> QED BY <1>1, <1>2, <2>2, <3>1, <3>2
  <2> QED BY <1>1, <2>1, <2>2
<1>6. \A i, j \in 1..L + 1 :
        i < j /\ i % 2 = 1 /\ j % 2 = 1 /\ arrived'[i].from = arrived'[j].from =>
          arrived'[i].n < arrived'[j].n
  <2> SUFFICES ASSUME NEW i \in 1..L + 1, NEW j \in 1..L + 1, i < j, i % 2 = 1, j % 2 = 1,
                      arrived'[i].from = arrived'[j].from
               PROVE  arrived'[i].n < arrived'[j].n
    OBVIOUS
  <2>1. i \in 1..L /\ arrived'[i] = arrived[i]
    BY <1>1
  <2>2. CASE j \in 1..L
    BY <1>1, <2>1, <2>2 DEF IInv, InputArrivesWhole
  <2>3. CASE j = L + 1
    <3>1. chunk[w].done = 0
      BY <1>1, <1>2, <2>3
    <3>2. arrived[i].from = Kind(w)
      BY <1>1, <2>1, <2>3
    <3>3. arrived[i].n < chunk[w].n
      BY <1>1, <2>1, <3>1, <3>2 DEF IInv, ArrivedInv, L
    <3> QED BY <1>1, <2>1, <2>3, <3>3
  <2> QED BY <1>1, <2>2, <2>3
<1> QED BY <1>1, <1>4, <1>5, <1>6 DEF InputArrivesWhole

LEMMA ArrivesKeeps == ASSUME IInv, NEW w \in Writers, Arrives(w) PROVE IInv'
<1>1. /\ chunk[w] # NoChunk /\ chunk[w].from = Kind(w) /\ chunk[w].n \in Nat /\ chunk[w].done \in {0, 1}
      /\ chunk[w].n <= Given(w) /\ Unit(w).from = Kind(w) /\ Unit(w).n = chunk[w].n
      /\ arrived' \in Seq(Units) /\ Len(arrived') = Len(arrived) + 1 /\ Len(arrived) \in Nat
      /\ arrived'[Len(arrived) + 1] = Unit(w)
      /\ \A i \in 1..Len(arrived) : arrived'[i] = arrived[i]
      /\ \A i \in 1..Len(arrived') : i \in 1..Len(arrived) \/ i = Len(arrived) + 1
      /\ chunk' \in [Writers -> Chunks] /\ \A v \in Writers : v # w => chunk'[v] = chunk[v]
      /\ chunk[w].done = 0 => chunk'[w] = [chunk[w] EXCEPT !.done = 1] /\ writer' = w
      /\ chunk[w].done = 1 => chunk'[w] = NoChunk /\ writer' = "free"
  BY UnitIs
<1>2. UNCHANGED <<offer, answers, responses, inputs, closing>> /\ writer = w /\ w # "free" /\ ~PtyClosed
  BY WritersAre DEF Arrives
<1>3. /\ chunk[w].done = 0 => /\ chunk'[w] # NoChunk /\ chunk'[w].done = 1
                              /\ chunk'[w].from = Kind(w) /\ chunk'[w].n = chunk[w].n
      /\ chunk[w].done = 1 => chunk'[w].done = 0
  <2>1. chunk[w] \in Chunks
    BY DEF IInv, TypeInv
  <2>2. \A c \in Chunks : /\ [c EXCEPT !.done = 1].done = 1 /\ [c EXCEPT !.done = 1].from = c.from
                          /\ [c EXCEPT !.done = 1].n = c.n
    BY DEF Chunks
  <2>3. chunk[w].done = 0 => /\ chunk'[w].done = 1 /\ chunk'[w].from = Kind(w)
                             /\ chunk'[w].n = chunk[w].n
    BY <1>1, <2>1, <2>2
  <2>4. NoChunk.done = 0 /\ (chunk[w].done = 1 => chunk'[w] = NoChunk)
    BY <1>1, WritersAre
  <2> QED BY <2>3, <2>4
<1>4. \A v \in Writers : Given(v)' = Given(v)
  BY <1>2 DEF Given
<1>5. TypeInv'
  BY <1>1, <1>2 DEF IInv, TypeInv
<1>6. \A v \in Writers : v # w => chunk[v].done = 0
  BY <1>2, Typed DEF IInv, WriterInv
<1>7. WriterInv'
  <2>1. \A v \in Writers : chunk'[v] = NoChunk \/ (chunk'[v].from = Kind(v) /\ chunk'[v].n <= Given(v)')
    BY <1>1, <1>3, <1>4 DEF IInv, WriterInv
  <2>2. \A v \in Writers : chunk'[v].done = 1 => writer' = v
    BY <1>1, <1>3, <1>6
  <2>3. writer' # "free" => chunk'[writer'] # NoChunk
    BY <1>1, <1>3
  <2> QED BY <2>1, <2>2, <2>3 DEF WriterInv
<1>8. HalfInv'
  <2>1. /\ chunk[w].done = 0 => Len(arrived') % 2 = 1
        /\ chunk[w].done = 1 => Len(arrived') % 2 = 0
    BY <1>1, UnitLands
  <2>2. arrived'[Len(arrived')] = Unit(w) /\ Len(arrived') > 0
    BY <1>1
  <2>3. CASE chunk[w].done = 0
    BY <1>1, <1>2, <1>3, <2>1, <2>2, <2>3 DEF HalfInv
  <2>4. CASE chunk[w].done = 1
    BY <1>1, <2>1, <2>4 DEF HalfInv
  <2> QED BY <1>1, <2>3, <2>4
<1>9. ArrivedInv'
  <2> SUFFICES ASSUME NEW v \in Writers, NEW i \in 1..Len(arrived'), arrived'[i].from = Kind(v)
               PROVE  /\ arrived'[i].n <= Given(v)'
                      /\ chunk'[v] # NoChunk /\ chunk'[v].done = 0 => arrived'[i].n < chunk'[v].n
                      /\ chunk'[v] # NoChunk => arrived'[i].n <= chunk'[v].n
    BY DEF ArrivedInv
  <2>1. CASE i \in 1..Len(arrived)
    <3>1. /\ arrived[i].n <= Given(v)
          /\ chunk[v] # NoChunk /\ chunk[v].done = 0 => arrived[i].n < chunk[v].n
          /\ chunk[v] # NoChunk => arrived[i].n <= chunk[v].n
      BY <1>1, <2>1 DEF IInv, ArrivedInv
    <3>2. CASE v = w
      BY <1>1, <1>3, <1>4, <2>1, <3>1, <3>2
    <3>3. CASE v # w
      BY <1>1, <1>4, <2>1, <3>1, <3>3
    <3> QED BY <3>2, <3>3
  <2>2. CASE i = Len(arrived) + 1
    <3>1. v = w /\ arrived'[i].n = chunk[w].n
      BY <1>1, <2>2, WritersAre
    <3>2. chunk'[w] # NoChunk => chunk'[w].n = chunk[w].n /\ chunk'[w].done = 1
      BY <1>1, <1>3
    <3> QED BY <1>1, <1>4, <3>1, <3>2
  <2> QED BY <1>1, <2>1, <2>2
<1>10. QueueInv'
  <2>1. "respond" \in Writers /\ (Kind(w) = "answer" => w = "respond")
    BY DEF Writers, Kind
  <2>2. ASSUME NEW m, Newer(m) PROVE Newer(m)'
    <3>1. \A i \in 1..Len(arrived) : arrived'[i].from = "answer" => arrived'[i].n < m
      BY <1>1, <2>2 DEF Newer
    <3>2. Unit(w).from = "answer" => Unit(w).n < m
      BY <1>1, <2>1, <2>2 DEF Newer
    <3>3. chunk'["respond"] # NoChunk => chunk'["respond"].n < m
      BY <1>1, <1>3, <2>1, <2>2 DEF Newer
    <3> QED BY <1>1, <3>1, <3>2, <3>3 DEF Newer
  <2>3. \A i \in 1..Len(responses) : Newer(responses[i])'
    BY <1>2, <2>2 DEF IInv, QueueInv, Newer
  <2>4. offer # 0 => Newer(offer)'
    BY <1>2, <2>2 DEF IInv, QueueInv, Newer
  <2> QED BY <1>2, <2>3, <2>4 DEF IInv, QueueInv
<1>11. InputArrivesWhole'
  BY StillWhole
<1> QED BY <1>5, <1>7, <1>8, <1>9, <1>10, <1>11 DEF IInv

LEMMA WritePtyKeeps == ASSUME IInv, NEW w \in Writers, WritePty(w) PROVE IInv'
<1>1. UNCHANGED <<offer, answers, responses, inputs, closing>> /\ writer = w
  BY DEF WritePty, locked, queueing
<1>2. CASE PtyClosed
  <2>1. chunk' = [chunk EXCEPT ![w] = NoChunk] /\ writer' = "free" /\ arrived' = arrived
    BY <1>2 DEF WritePty
  <2> QED BY <1>1, <1>2, <2>1, GiveUpKeeps
<1>3. CASE ~PtyClosed
  <2>1. Arrives(w)
    BY <1>1, <1>3 DEF WritePty, Arrives, Unit
  <2> QED BY <2>1, ArrivesKeeps
<1> QED BY <1>2, <1>3

-----------------------------------------------------------------------------
(***************************************************************************)
(* The invariant and the theorem.                                          *)
(***************************************************************************)

LEMMA InitIInv == Init => IInv
<1> SUFFICES ASSUME Init PROVE IInv
  OBVIOUS
<1>1. /\ offer = 0 /\ answers = 0 /\ inputs = 0 /\ responses = << >> /\ arrived = << >>
      /\ chunk = [w \in Writers |-> NoChunk] /\ writer = "free" /\ closing = "open"
  BY DEF Init
<1>2. /\ 1..Len(arrived) = {} /\ 1..Len(responses) = {} /\ DOMAIN arrived = {} /\ Len(arrived) = 0
      /\ arrived \in Seq(Units) /\ responses \in Seq(Nat)
  BY <1>1, EmptySeq
<1>3. chunk \in [Writers -> Chunks] /\ \A w \in Writers : chunk[w] = NoChunk
  BY <1>1, WritersAre
<1>4. TypeInv
  BY <1>1, <1>2, <1>3 DEF TypeInv, Stages
<1>5. WriterInv
  BY <1>1, <1>3, WritersAre DEF WriterInv
<1>6. HalfInv
  <2>1. 0 % 2 = 0
    OBVIOUS
  <2> QED BY <1>1, <1>2, <2>1 DEF HalfInv
<1>7. ArrivedInv /\ QueueInv /\ InputArrivesWhole
  BY <1>1, <1>2 DEF ArrivedInv, QueueInv, InputArrivesWhole
<1> QED BY <1>4, <1>5, <1>6, <1>7 DEF IInv

LEMMA NextKeeps == IInv /\ [Next]_vars => IInv'
<1> SUFFICES ASSUME IInv, [Next]_vars PROVE IInv'
  OBVIOUS
<1>1. CASE \E w \in Writers : LockWrite(w) \/ WritePty(w)
  BY <1>1, LockWriteKeeps, WritePtyKeeps
<1>2. CASE UNCHANGED vars
  <2>1. UNCHANGED <<answers, inputs, responses, arrived, chunk, writer, closing, offer>>
    BY <1>2 DEF vars, locked, queueing, writing
  <2>2. closing \in Stages
    BY DEF IInv, TypeInv
  <2> QED BY <2>1, <2>2, OfferKeeps DEF PtyClosed
<1> QED BY <1>1, <1>2, LockedKeeps, CloseKeeps, AnswerKeeps, CollectKeeps, RespondKeeps, InputKeeps
        DEF Next

LEMMA IInvHolds == Spec => []IInv
BY InitIInv, NextKeeps, PTL DEF Spec

\* What reaches the child is whole chunks, answers and client input never mixed, the
\* answers in the order the emulator gave them and none twice, wherever close() cuts
\* in (respondLoop, Session.Write and its writeMu).
THEOREM ChunksArriveWhole == Spec => []InputArrivesWhole
<1>1. IInv => InputArrivesWhole
  BY DEF IInv
<1> QED BY <1>1, IInvHolds, PTL
==============================================================================
