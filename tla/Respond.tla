------------------------------- MODULE Respond -------------------------------
(***************************************************************************)
(* The emulator's own voice (session.go): answers to queries and in-band   *)
(* resize reports leave the emulator through an unbuffered pipe while the  *)
(* session lock is held, cross a bounded queue, and are written to the PTY *)
(* beside the input of clients.  The child may never read that input.      *)
(***************************************************************************)
EXTENDS Naturals, Sequences

CONSTANTS
  Queue,       \* capacity of the responses channel (256)
  TtyBuffer,   \* units the PTY holds for the child
  MaxAnswers,  \* bound: answers the emulator gives
  MaxInputs    \* bound: writes of clients

ASSUME CapacityAssumption == Queue \in Nat \ {0} /\ TtyBuffer \in Nat \ {0}
ASSUME BoundAssumption == MaxAnswers \in Nat /\ MaxInputs \in Nat

VARIABLES
  \* --- Session.mu
  mu,          \* who holds it: "free", "read" or "resize"
  offer,       \* what the emulator, called by the holder, pushes into its pipe
  answers,     \* answers given so far
  lister,      \* a caller of Size, Snapshot or List: "away" or "waiting"
  reader,      \* readLoop: "reading", "read" (something), "flush" or "ended"
  \* --- respondLoop
  collecting,  \* the goroutine that reads the pipe runs
  responses,   \* the channel
  responding,  \* the loop that writes to the PTY runs
  \* --- Session.writeMu and the PTY
  writer,      \* who holds writeMu: "free", "respond" or "client"
  chunk,       \* for each of the two, the chunk it has to write and how far it got
  inputs,      \* writes clients have begun
  tty,         \* units the child has not read
  arrived,     \* history: everything ever put on the tty
  \* --- close()
  closing      \* how far it got, one of Stages

locked   == <<mu, offer, answers, lister, reader>>
queueing == <<collecting, responses>>
writing  == <<responding, writer, chunk, inputs, tty, arrived>>
vars     == <<locked, queueing, writing, closing>>

\* Two units make a chunk; each write of the code is one chunk.  Answers and inputs
\* are numbered as they are made.
Chunk(from, n) == [from |-> from, n |-> n, done |-> 0]
NoChunk == [from |-> "none", n |-> 0, done |-> 0]
Writers == {"respond", "client"}

\* close() in order: not called, waiting for the session lock, marked closed, the child
\* killed, the PTY master closed, the emulator's pipe closed.
Stages == {"open", "called", "marked", "killed", "hungUp", "closed"}

PtyClosed  == closing \in {"hungUp", "closed"}
PipeClosed == closing = "closed"

Init ==
  /\ mu = "free" /\ offer = 0 /\ answers = 0 /\ lister = "away" /\ reader = "reading"
  /\ collecting = TRUE /\ responses = << >> /\ responding = TRUE
  /\ writer = "free" /\ chunk = [w \in Writers |-> NoChunk] /\ inputs = 0
  /\ tty = << >> /\ arrived = << >> /\ closing = "open"

-----------------------------------------------------------------------------
(***************************************************************************)
(* Under the session lock.                                                 *)
(***************************************************************************)

\* readLoop reads a chunk; on a closed PTY the read fails, and what was held back
\* may still have to be written.
Read ==
  /\ reader = "reading"
  /\ reader' \in IF PtyClosed THEN {"flush", "ended"} ELSE {"read"}
  /\ UNCHANGED <<mu, offer, answers, lister, queueing, writing, closing>>

\* readLoop's write takes the lock and calls emu.Write, Resize and its kin take it
\* and call emu.Resize.
Enter(who) ==
  /\ mu = "free" /\ mu' = who
  /\ who = "read" => reader \in {"read", "flush"}
  /\ who = "resize" => ~PtyClosed
  /\ UNCHANGED <<offer, answers, lister, reader, queueing, writing, closing>>

\* The emulator answers: its write to the pipe returns once it was read, or at once
\* on a closed pipe.
Answer ==
  /\ mu \in {"read", "resize"} /\ offer = 0 /\ answers < MaxAnswers
  /\ answers' = answers + 1 /\ offer' = IF PipeClosed THEN 0 ELSE answers + 1
  /\ UNCHANGED <<mu, lister, reader, queueing, writing, closing>>

Exit ==
  /\ mu \in {"read", "resize"} /\ mu' = "free"
  /\ (offer = 0 \/ PipeClosed) /\ offer' = 0
  /\ reader' = CASE mu = "resize" -> reader
                 [] mu = "read" /\ reader = "read"  -> "reading"
                 [] mu = "read" /\ reader = "flush" -> "ended"
  /\ UNCHANGED <<answers, lister, queueing, writing, closing>>

\* Somebody else needs the lock for a moment, again and again: a listing, a snapshot.
Ask ==
  /\ lister = "away" /\ lister' = "waiting"
  /\ UNCHANGED <<mu, offer, answers, reader, queueing, writing, closing>>

Serve ==
  /\ lister = "waiting" /\ mu = "free" /\ lister' = "away"
  /\ UNCHANGED <<mu, offer, answers, reader, queueing, writing, closing>>

-----------------------------------------------------------------------------
(***************************************************************************)
(* respondLoop and Session.Write.                                          *)
(***************************************************************************)

\* Mutant of Collect: waits for room in the queue.
CollectPatiently ==
  /\ collecting
  /\ \/ /\ offer # 0 /\ ~PipeClosed /\ offer' = 0 /\ UNCHANGED collecting
        /\ Len(responses) < Queue /\ responses' = Append(responses, offer)
     \/ /\ PipeClosed /\ collecting' = FALSE /\ UNCHANGED <<offer, responses>>
  /\ UNCHANGED <<mu, answers, lister, reader, writing, closing>>

\* The goroutine reads the pipe; an answer that finds the queue full is dropped.
\* At the end of the pipe it closes the channel.
Collect ==
  /\ collecting
  /\ \/ /\ offer # 0 /\ ~PipeClosed /\ offer' = 0 /\ UNCHANGED collecting
        /\ responses' = IF Len(responses) < Queue THEN Append(responses, offer)
                        ELSE responses
     \/ /\ PipeClosed /\ collecting' = FALSE /\ UNCHANGED <<offer, responses>>
  /\ UNCHANGED <<mu, answers, lister, reader, writing, closing>>

\* The range over responses: the next chunk, or the end of the channel.
Respond ==
  /\ responding /\ chunk["respond"] = NoChunk
  /\ \/ /\ responses # << >> /\ responses' = Tail(responses)
        /\ chunk' = [chunk EXCEPT !["respond"] = Chunk("answer", Head(responses))]
        /\ UNCHANGED responding
     \/ /\ responses = << >> /\ ~collecting
        /\ responding' = FALSE /\ UNCHANGED <<responses, chunk>>
  /\ UNCHANGED <<locked, collecting, writer, inputs, tty, arrived, closing>>

\* A client's input: an input frame, or the input op.
Input ==
  /\ chunk["client"] = NoChunk /\ inputs < MaxInputs /\ inputs' = inputs + 1
  /\ chunk' = [chunk EXCEPT !["client"] = Chunk("input", inputs + 1)]
  /\ UNCHANGED <<locked, queueing, responding, writer, tty, arrived, closing>>

\* Mutant of LockWrite: writes without writeMu.
LockWriteNever(w) ==
  /\ chunk[w] # NoChunk /\ writer # w /\ writer' = w
  /\ UNCHANGED <<locked, queueing, responding, chunk, inputs, tty, arrived, closing>>

\* writeMu.Lock
LockWrite(w) ==
  /\ chunk[w] # NoChunk /\ writer = "free" /\ writer' = w
  /\ UNCHANGED <<locked, queueing, responding, chunk, inputs, tty, arrived, closing>>

\* ptyFile.Write, unit by unit as the PTY has room; then, or on a PTY that is
\* closed, writeMu is unlocked.  The response loop returns on an error.
WritePty(w) ==
  /\ writer = w
  /\ \/ /\ ~PtyClosed /\ Len(tty) < TtyBuffer
        /\ LET unit == [from |-> chunk[w].from, n |-> chunk[w].n, part |-> chunk[w].done + 1]
           IN tty' = Append(tty, unit) /\ arrived' = Append(arrived, unit)
        /\ chunk' = [chunk EXCEPT ![w] = IF @.done = 0 THEN [@ EXCEPT !.done = 1] ELSE NoChunk]
        /\ writer' = IF chunk[w].done = 0 THEN w ELSE "free"
        /\ UNCHANGED responding
     \/ /\ PtyClosed /\ chunk' = [chunk EXCEPT ![w] = NoChunk] /\ writer' = "free"
        /\ responding' = (responding /\ w # "respond") /\ UNCHANGED <<tty, arrived>>
  /\ UNCHANGED <<locked, queueing, inputs, closing>>

\* External: the child reads its input, if it ever does.
ChildReads ==
  /\ tty # << >> /\ tty' = Tail(tty)
  /\ UNCHANGED <<locked, queueing, responding, writer, chunk, inputs, arrived, closing>>

-----------------------------------------------------------------------------
(***************************************************************************)
(* close().                                                                *)
(***************************************************************************)

\* Engine.Close or Engine.Remove calls close().
CallClose ==
  /\ closing = "open" /\ closing' = "called"
  /\ UNCHANGED <<locked, queueing, writing>>

\* The session is marked closed under the lock.
MarkClosed ==
  /\ closing = "called" /\ mu = "free" /\ closing' = "marked"
  /\ UNCHANGED <<locked, queueing, writing>>

\* s.Kill() takes the lock a second time before it signals the child: what holds it
\* across emu.Write still holds up close() here.
Kill ==
  /\ closing = "marked" /\ mu = "free" /\ closing' = "killed"
  /\ UNCHANGED <<locked, queueing, writing>>

\* The PTY master, and last the emulator's pipe, are closed without the lock.
ClosePty ==
  /\ closing = "killed" /\ closing' = "hungUp"
  /\ UNCHANGED <<locked, queueing, writing>>

\* Mutant of ClosePipe: the emulator's pipe is left open.
ClosePipeNever == FALSE /\ UNCHANGED vars

ClosePipe ==
  /\ closing = "hungUp" /\ closing' = "closed"
  /\ UNCHANGED <<locked, queueing, writing>>

Next ==
  \/ Enter("read") \/ Enter("resize") \/ Answer \/ Exit \/ Ask \/ Serve \/ Read
  \/ Collect \/ Respond \/ Input
  \/ (\E w \in Writers : LockWrite(w) \/ WritePty(w))
  \/ ChildReads \/ CallClose \/ MarkClosed \/ Kill \/ ClosePty \/ ClosePipe

\* Goroutines that are not blocked run on, and whoever waits for a lock that is free
\* again and again gets it, close() included.  Nothing is assumed of the child, of
\* clients, or that the session is ever closed.
Fairness ==
  /\ WF_vars(Exit) /\ SF_vars(Serve) /\ WF_vars(PtyClosed /\ Read)
  /\ SF_vars(Enter("read"))
  /\ WF_vars(Collect) /\ WF_vars(Respond)
  /\ \A w \in Writers : SF_vars(LockWrite(w)) /\ WF_vars(WritePty(w))
  /\ SF_vars(MarkClosed \/ Kill) /\ WF_vars(ClosePty \/ ClosePipe)

Spec == Init /\ [][Next]_vars
FairSpec == Spec /\ Fairness

-----------------------------------------------------------------------------
(***************************************************************************)
(* Properties.                                                             *)
(***************************************************************************)

\* A program that asks and does not read never freezes "every List and Snapshot in
\* the daemon behind one rude program": whoever waits for the session lock gets it,
\* with the queue full and the child deaf.
RudeChildFreezesNobody == lister = "waiting" ~> lister = "away"

\* What reaches the child is whole chunks, answers and client input never mixed, and
\* the answers among them in the order they were given, none twice.
InputArrivesWhole ==
  /\ \A i \in DOMAIN arrived :
       arrived[i].part = IF i % 2 = 1 THEN 1 ELSE 2
  /\ \A i \in DOMAIN arrived : i % 2 = 0 =>
       arrived[i].from = arrived[i - 1].from /\ arrived[i].n = arrived[i - 1].n
  /\ \A i, j \in DOMAIN arrived :
       i < j /\ i % 2 = 1 /\ j % 2 = 1 /\ arrived[i].from = arrived[j].from =>
         arrived[i].n < arrived[j].n

\* close(), once called, gets the session lock both times it needs it, whatever the
\* emulator has to say and however deaf the child is, and ends every goroutine of the
\* session that could hold on to the PTY or to the emulator.
CloseEndsTheGoroutines ==
  closing = "called" ~>
    /\ reader = "ended" /\ ~collecting /\ ~responding /\ mu = "free" /\ writer = "free"
==============================================================================
