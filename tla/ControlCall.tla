----------------------------- MODULE ControlCall ------------------------------
(***************************************************************************)
(* One control connection: the calls of the goroutines that share a Client *)
(* (client.go), the socket, and the daemon's request loop with handle      *)
(* (server.go).                                                            *)
(*                                                                         *)
(* A frame is two units on the socket, its header and its payload, as      *)
(* wire.WriteFrame writes and wire.ReadFrame reads them: a deadline that   *)
(* expires between the two leaves the rest of the frame behind for whoever *)
(* uses the connection next.  A request is the call that makes it; what an *)
(* operation does to sessions is reduced to what its answer depends on.    *)
(***************************************************************************)
EXTENDS Naturals, Sequences

CONSTANTS
  MaxCalls,     \* bound: control calls made over the connection's life
  WireBuffer    \* units the socket holds in each direction

ASSUME CallsAssumption == MaxCalls \in Nat
ASSUME WireAssumption == WireBuffer \in Nat \ {0}

VARIABLES
  \* --- the client
  phase,        \* call -> how far Client.call got
  result,       \* call -> the answer it returned, or Pending or Failed
  op,           \* call -> the operation it asks for
  sent,         \* history: calls whose request was written whole
  timedOut,     \* history: calls the deadline ended
  clientClosed, \* Client.Close closed the connection
  \* --- the socket
  up, down,     \* units in flight to the daemon, and to the client
  \* --- serveConn
  server,       \* where its loop stands
  current,      \* the request it serves
  reply,        \* the answer it is writing
  \* --- what the operations touch
  peer,         \* the session was spawned with peer access
  live,         \* the session is in the registry
  executed      \* history: requests carried out, in order

client  == <<phase, result, op, sent, timedOut, clientClosed>>
wires   == <<up, down>>
serving == <<server, current, reply>>
daemon  == <<peer, live, executed>>
vars    == <<client, wires, serving, daemon>>

\* Calls are numbered in the order in which they take Client.mu.
Calls  == 1..MaxCalls
NoCall == 0

\* What an answer depends on: input needs peer access, remove succeeds always, the
\* rest ("query") needs the session, and a client newer than the daemon sends
\* requests that do not decode.
Ops == {"input", "remove", "query", "unreadable"}

Pending == [call |-> NoCall, ok |-> TRUE]   \* no answer yet
Failed  == [call |-> NoCall, ok |-> FALSE]  \* call returned a transport error

Answer(c, ok) == [call |-> c, ok |-> ok]
Answers == [call : Calls, ok : BOOLEAN]

Header(c)     == [part |-> "header", answer |-> Answer(c, TRUE)]
Payload(c)    == [part |-> "payload", answer |-> Answer(c, TRUE)]
ReplyUnits(a) == <<[part |-> "header", answer |-> a], [part |-> "payload", answer |-> a]>>

InCall == {"header", "payload", "await", "body", "adrift"}

\* Client.mu is free: calls are serialized on the wire.
MuFree == \A c \in Calls : phase[c] \notin InCall

\* The daemon's end of the connection is closed.
Gone == server = "ended"

Init ==
  /\ phase = [c \in Calls |-> "new"] /\ result = [c \in Calls |-> Pending]
  /\ op = [c \in Calls |-> "none"] /\ sent = {} /\ timedOut = {} /\ clientClosed = FALSE
  /\ up = << >> /\ down = << >>
  /\ server = "header" /\ current = NoCall /\ reply = << >>
  /\ peer \in BOOLEAN /\ live = TRUE /\ executed = << >>

-----------------------------------------------------------------------------
(***************************************************************************)
(* Client.call.                                                            *)
(***************************************************************************)

Return(c, a) ==
  /\ phase' = [phase EXCEPT ![c] = "returned"]
  /\ result' = [result EXCEPT ![c] = a]

\* A goroutine makes a call and asks for Client.mu.
Ask(c) ==
  /\ phase[c] = "new" /\ (c > 1 => phase[c - 1] # "new")
  /\ phase' = [phase EXCEPT ![c] = "waiting"]
  /\ \E o \in Ops : op' = [op EXCEPT ![c] = o]
  /\ UNCHANGED <<result, sent, timedOut, clientClosed, wires, serving, daemon>>

\* Mutant of Begin: two goroutines use the connection at once.
BeginUnlocked(c) ==
  /\ phase[c] = "waiting" /\ phase' = [phase EXCEPT ![c] = "header"]
  /\ UNCHANGED <<result, op, sent, timedOut, clientClosed, wires, serving, daemon>>

\* Takes Client.mu, next after the call before it, and sets the deadline.
Begin(c) ==
  /\ phase[c] = "waiting" /\ MuFree
  /\ \A d \in Calls : d < c => phase[d] = "returned"
  /\ phase' = [phase EXCEPT ![c] = "header"]
  /\ UNCHANGED <<result, op, sent, timedOut, clientClosed, wires, serving, daemon>>

\* wire.WriteJSON: header, then payload.  A write blocks while the socket is full
\* and fails on a connection that is closed.
WriteRequest(c) ==
  /\ phase[c] \in {"header", "payload"}
  /\ \/ /\ ~clientClosed /\ ~Gone /\ Len(up) < WireBuffer
        /\ up' = Append(up, IF phase[c] = "header" THEN Header(c) ELSE Payload(c))
        /\ phase' = [phase EXCEPT ![c] = IF @ = "header" THEN "payload" ELSE "await"]
        /\ sent' = IF phase[c] = "payload" THEN sent \cup {c} ELSE sent
        /\ UNCHANGED result
     \/ /\ clientClosed \/ Gone
        /\ Return(c, Failed) /\ UNCHANGED <<up, sent>>
  /\ UNCHANGED <<op, timedOut, clientClosed, down, serving, daemon>>

\* wire.ReadFrame, the header.  Text in its place announces a frame beyond MaxFrame
\* and fails the call, and some of that text may be left for the next one; where
\* the text runs into the next header, it may announce one that never arrives.
ReadHeader(c) ==
  /\ phase[c] = "await" /\ ~clientClosed
  /\ \/ /\ down # << >> /\ Head(down).part = "header"
        /\ down' = Tail(down) /\ phase' = [phase EXCEPT ![c] = "body"]
        /\ UNCHANGED result
     \/ /\ down # << >> /\ Head(down).part = "payload"
        /\ \/ down' \in {down, Tail(down)} /\ Return(c, Failed)
           \/ /\ down' = Tail(down) /\ phase' = [phase EXCEPT ![c] = "adrift"]
              /\ UNCHANGED result
     \/ /\ down = << >> /\ Gone
        /\ Return(c, Failed) /\ UNCHANGED down
  /\ UNCHANGED <<op, sent, timedOut, clientClosed, up, serving, daemon>>

\* wire.ReadFrame, the payload, and the answer in it.
ReadBody(c) ==
  /\ phase[c] \in {"body", "adrift"}
  /\ \/ /\ ~clientClosed /\ down # << >> /\ down' = Tail(down)
        /\ \/ phase[c] = "body" /\ Return(c, Head(down).answer)
           \/ phase[c] = "adrift" /\ UNCHANGED <<phase, result>>
     \/ /\ clientClosed \/ (down = << >> /\ Gone)
        /\ Return(c, Failed) /\ UNCHANGED down
  /\ UNCHANGED <<op, sent, timedOut, clientClosed, up, serving, daemon>>

\* Mutant of Deadline: a transport that ignores SetDeadline.
DeadlineIgnored(c) == FALSE /\ UNCHANGED vars

\* callTimeout has passed, wherever the call is: it fails, the connection stays.
Deadline(c) ==
  /\ phase[c] \in InCall
  /\ Return(c, Failed) /\ timedOut' = timedOut \cup {c}
  /\ UNCHANGED <<op, sent, clientClosed, wires, serving, daemon>>

\* Client.Close waits for the call in progress.
CloseClient ==
  /\ ~clientClosed /\ MuFree /\ clientClosed' = TRUE
  /\ UNCHANGED <<phase, result, op, sent, timedOut, wires, serving, daemon>>

-----------------------------------------------------------------------------
(***************************************************************************)
(* serveConn.                                                              *)
(***************************************************************************)

\* serveConn returns, and closes the connection.
End == server' = "ended" /\ current' = NoCall /\ reply' = << >>

\* The next frame's header; a hang-up ends the loop, behind what was sent.  Text
\* in a header's place announces a frame beyond MaxFrame, which ends the loop, or,
\* where the text runs into the next header, a frame that never arrives.
ServeHeader ==
  /\ server = "header"
  /\ \/ /\ up # << >> /\ Head(up).part = "header"
        /\ up' = Tail(up) /\ server' = "payload" /\ current' = Head(up).answer.call
        /\ UNCHANGED reply
     \/ /\ up # << >> /\ Head(up).part = "payload"
        /\ \/ up' = << >> /\ End
           \/ up' = Tail(up) /\ server' = "starved" /\ UNCHANGED <<current, reply>>
     \/ /\ up = << >> /\ clientClosed /\ End /\ UNCHANGED up
  /\ UNCHANGED <<client, down, daemon>>

Refuse(c) == reply' = ReplyUnits(Answer(c, FALSE))

\* Mutant of ServePayload: what arrives in the payload's place is taken for it.
ServePayloadTrusting ==
  /\ server = "payload" /\ up # << >>
  /\ up' = Tail(up) /\ server' = "handle"
  /\ UNCHANGED <<client, down, current, reply, daemon>>

\* The payload, and decodeRequest.  Bytes of another frame, where the request was
\* cut short, never decode: the daemon waits for more of them or refuses.  So is a
\* request with a field it does not know, and the connection goes on.
ServePayload ==
  /\ server = "payload"
  /\ \/ /\ up # << >> /\ Head(up) = Payload(current) /\ up' = Tail(up)
        /\ \/ /\ op[current] # "unreadable"
              /\ server' = "handle" /\ UNCHANGED reply
           \/ /\ op[current] = "unreadable"
              /\ server' = "write" /\ Refuse(current)
        /\ UNCHANGED current
     \/ /\ up # << >> /\ Head(up) # Payload(current) /\ up' = Tail(up)
        /\ \/ server' = "payload" /\ UNCHANGED reply
           \/ server' = "write" /\ Refuse(current)
        /\ UNCHANGED current
     \/ /\ up = << >> /\ clientClosed /\ End /\ UNCHANGED up
  /\ UNCHANGED <<client, down, daemon>>

\* A frame that never arrives swallows whatever does.
Starve ==
  /\ server = "starved"
  /\ \/ up # << >> /\ up' = Tail(up) /\ UNCHANGED serving
     \/ up = << >> /\ clientClosed /\ End /\ UNCHANGED up
  /\ UNCHANGED <<client, down, daemon>>

\* handle: every operation on one session looks it up first, except remove, which
\* does not mind; input is refused without peer access.  What the operations do to
\* a session is not told apart here, nor are the lines of the audit trail.
Handle ==
  /\ server = "handle" /\ executed' = Append(executed, current)
  /\ live' = (live /\ op[current] # "remove")
  /\ \/ /\ op[current] = "input" /\ live /\ peer
        /\ server' = "type" /\ UNCHANGED reply
     \/ /\ op[current] = "input" => ~(live /\ peer)
        /\ server' = "write"
        /\ reply' = ReplyUnits(Answer(current,
                       op[current] = "remove" \/ (op[current] = "query" /\ live)))
  /\ UNCHANGED <<client, wires, current, peer>>

\* Session.Write returns: the child took the input, or its terminal is gone.  Until
\* then the request loop is stuck in it.
Type ==
  /\ server = "type" /\ server' = "write"
  /\ \E ok \in BOOLEAN : reply' = ReplyUnits(Answer(current, ok))
  /\ UNCHANGED <<client, wires, current, daemon>>

\* Mutant of WriteReply: the answer is written whether or not the socket takes it.
WriteReplyUnbounded ==
  /\ server = "write" /\ ~clientClosed
  /\ down' = down \o reply /\ reply' = << >> /\ server' = "header" /\ current' = NoCall
  /\ UNCHANGED <<client, up, daemon>>

\* wire.WriteJSON of the answer; the write fails once the client has hung up.
WriteReply ==
  /\ server = "write"
  /\ \/ /\ ~clientClosed /\ Len(down) < WireBuffer
        /\ down' = Append(down, Head(reply)) /\ reply' = Tail(reply)
        /\ server' = IF Len(reply) = 1 THEN "header" ELSE "write"
        /\ current' = IF Len(reply) = 1 THEN NoCall ELSE current
     \/ /\ clientClosed /\ End /\ UNCHANGED down
  /\ UNCHANGED <<client, up, daemon>>

\* External: the daemon dies, or the session goes by way of another connection.
DaemonDies ==
  /\ ~Gone /\ End /\ up' = << >>
  /\ UNCHANGED <<client, down, daemon>>

RemovedElsewhere ==
  /\ live /\ live' = FALSE
  /\ UNCHANGED <<client, wires, serving, peer, executed>>

-----------------------------------------------------------------------------
Next ==
  \/ \E c \in Calls :
       Ask(c) \/ Begin(c) \/ WriteRequest(c) \/ ReadHeader(c) \/ ReadBody(c) \/ Deadline(c)
  \/ CloseClient
  \/ ServeHeader \/ ServePayload \/ Starve \/ Handle \/ Type \/ WriteReply
  \/ DaemonDies \/ RemovedElsewhere

\* A goroutine that is not blocked runs on, Client.mu passes to a waiting call, and
\* the deadline passes.  Nothing is assumed of the child that Type waits for, nor
\* that the daemon is ever quick enough.
Fairness ==
  /\ \A c \in Calls :
       /\ WF_vars(Begin(c))
       /\ WF_vars(WriteRequest(c)) /\ WF_vars(ReadHeader(c)) /\ WF_vars(ReadBody(c))
       /\ WF_vars(Deadline(c))
  /\ WF_vars(ServeHeader) /\ WF_vars(ServePayload) /\ WF_vars(Starve)
  /\ WF_vars(Handle) /\ WF_vars(WriteReply)

Spec == Init /\ [][Next]_vars
FairSpec == Spec /\ Fairness

-----------------------------------------------------------------------------
(***************************************************************************)
(* Properties.                                                             *)
(***************************************************************************)

TypeOK ==
  /\ phase \in [Calls -> {"new", "waiting", "returned"} \cup InCall]
  /\ result \in [Calls -> Answers \cup {Pending, Failed}]
  /\ op \in [Calls -> Ops \cup {"none"}] /\ sent \subseteq Calls /\ timedOut \subseteq Calls
  /\ clientClosed \in BOOLEAN /\ Len(up) <= WireBuffer /\ Len(down) <= WireBuffer
  /\ server \in {"header", "payload", "starved", "handle", "type", "write", "ended"}
  /\ current \in Calls \cup {NoCall} /\ Len(reply) <= 2
  /\ peer \in BOOLEAN /\ live \in BOOLEAN /\ executed \in Seq(Calls)

\* Client.call reads whatever response comes next, so a call may return the answer
\* of another one; but never that of a later call, only on a connection on which a
\* deadline has ended an earlier one, and no answer is given out twice.
OnlyLateAnswersStray ==
  \A c \in Calls : LET d == result[c].call IN
    d # NoCall =>
      /\ d <= c /\ (d < c => \E e \in timedOut : e < c)
      /\ \A b \in Calls : b < c => result[b].call < d

\* serveConn carries out a request at most once, in the order of the calls, and
\* only one whose every byte was written: what a deadline cut short is never
\* mistaken for an operation, whatever is written behind it.
OnlyWholeRequestsRun ==
  \A k \in DOMAIN executed :
    /\ executed[k] \in sent
    /\ \A l \in DOMAIN executed : k < l => executed[k] < executed[l]

\* A goroutine that asks for a control call gets it back, whatever the daemon, the
\* child or the goroutines in front of it do: callTimeout bounds them all.
CallsReturn ==
  \A c \in Calls : phase[c] = "waiting" ~> phase[c] = "returned"

\* Client methods present the answer they return as the answer to their request
\* ("Info reports one session"): a successful one is the answer to it.
AnswersMatch ==
  \A c \in Calls : result[c].ok => result[c].call \in {c, NoCall}
=============================================================================
