-------------------------- MODULE ControlCallProofs --------------------------
(***************************************************************************)
(* TLAPS proofs about ControlCall, for any number of calls and any size of *)
(* the socket's buffers.  The argument: what is in flight is ordered, from *)
(* the answers already given, over the answers on their way and the one    *)
(* request in the daemon's hands, to the requests the daemon has not read; *)
(* and while no deadline has ended a call, nothing of an earlier call is   *)
(* in flight any more.                                                     *)
(***************************************************************************)
EXTENDS ControlCall, SequenceTheorems, TLAPS

Units == [part : {"header", "payload"}, answer : Answers]
Requests == {Header(c) : c \in Calls} \cup {Payload(c) : c \in Calls}

CallsIn(q) == {q[i].answer.call : i \in 1..Len(q)}

\* The calls of which something is on the socket or in the daemon's hands.
InFlight == CallsIn(up) \cup CallsIn(down) \cup ({current} \ {NoCall})

\* Units come by call, the header before the payload.
Ordered(q) ==
  \A i, j \in 1..Len(q) : i < j =>
    \/ q[i].answer.call < q[j].answer.call
    \/ q[i].answer = q[j].answer /\ q[i].part = "header" /\ q[j].part = "payload"

TypeInv ==
  /\ TypeOK
  /\ up \in Seq(Requests) /\ down \in Seq(Units) /\ reply \in Seq(Units)

\* Calls take their turns, and one that has not returned has no answer.
TurnsInv ==
  /\ \A c \in Calls : phase[c] \notin {"new", "waiting"} =>
       \A d \in Calls : d < c => phase[d] = "returned"
  /\ \A c \in Calls : phase[c] # "returned" => result[c] = Pending
  /\ clientClosed => \A c \in Calls : phase[c] \in {"new", "waiting", "header", "returned"}

\* What is in flight is no later than the call in progress, later than every answer
\* that was given out, and of no earlier call while no deadline has ended one.
FlightInv ==
  /\ \A c \in Calls : \A x \in InFlight :
       /\ phase[c] \in {"new", "waiting", "header"} => x < c
       /\ phase[c] \in InCall => x <= c
       /\ result[c].call < x
  /\ \A c \in Calls :
       (\A e \in Calls : e < c => phase[e] = "returned" /\ e \notin timedOut) =>
         \A x \in InFlight : c <= x

\* The daemon serves one request at a time, between the requests it has not read
\* and the answers it has given.
ServerInv ==
  /\ (current # NoCall) <=> (server \in {"payload", "handle", "type", "write"})
  /\ server # "write" => reply = << >>
  /\ server = "write" =>
       /\ reply # << >> /\ Len(reply) <= 2 /\ reply[Len(reply)].part = "payload"
       /\ \A i \in 1..Len(reply) : reply[i].answer = reply[1].answer
       /\ reply[1].answer.call = current
       /\ Len(reply) = 2 => reply[1].part = "header"
  /\ Gone => up = << >> \/ clientClosed
  /\ \A x \in CallsIn(up) : \A y \in CallsIn(down) : y < x
  /\ current # NoCall =>
       /\ \A i \in 1..Len(up) :
            \/ current < up[i].answer.call
            \/ current = up[i].answer.call /\ server = "payload" /\ up[i].part = "payload"
       /\ \A i \in 1..Len(down) :
            \/ down[i].answer.call < current
            \/ /\ server = "write" /\ Len(reply) = 1 /\ i = Len(down)
               /\ down[i].part = "header" /\ down[i].answer = reply[1].answer

\* Both directions are in order, and an answer's header has its payload behind it
\* unless the daemon is gone.
WireInv ==
  /\ Ordered(up) /\ Ordered(down)
  /\ \A i \in 1..Len(down) : down[i].part = "header" =>
       \/ i < Len(down) /\ down[i + 1].part = "payload"
       \/ i = Len(down) /\ (Gone \/ (server = "write" /\ Len(reply) = 1))

\* What the call in progress may expect on the socket.
CallInv ==
  \A c \in Calls :
    /\ phase[c] = "payload" =>
         /\ c \notin CallsIn(down) /\ (current = c => server = "payload")
         /\ \A i \in 1..Len(up) : up[i].answer.call = c => up[i].part = "header"
    /\ phase[c] = "body" =>
         /\ down # << >> => down[1].part = "payload"
         /\ down = << >> => Gone \/ Len(reply) = 1
    /\ phase[c] = "await" /\ (\A e \in Calls : e < c => e \notin timedOut) =>
         /\ down # << >> => down[1].part = "header"
         /\ down = << >> => Len(reply) # 1
    /\ phase[c] = "adrift" => \E e \in Calls : e < c /\ e \in timedOut

\* Requests are carried out once, in order, and whole.
ExecutedInv ==
  /\ \A k \in 1..Len(executed) : executed[k] \in sent
  /\ \A k, l \in 1..Len(executed) : k < l => executed[k] < executed[l]
  /\ \A k \in 1..Len(executed) : \A x \in CallsIn(up) : executed[k] < x
  /\ \A k \in 1..Len(executed) : \A c \in Calls :
       phase[c] \in {"new", "waiting", "header", "payload"} => executed[k] < c
  /\ current # NoCall => \A k \in 1..Len(executed) :
       executed[k] <= current /\ (server \in {"payload", "handle"} => executed[k] < current)
  /\ \A i \in 1..Len(up) : up[i].part = "payload" => up[i].answer.call \in sent
  /\ server = "handle" => current \in sent

\* What OnlyLateAnswersStray says of the answers given out.
AnswersInv == OnlyLateAnswersStray

IInv ==
  /\ TypeInv /\ TurnsInv /\ FlightInv /\ ServerInv /\ WireInv /\ CallInv /\ ExecutedInv
  /\ AnswersInv

-----------------------------------------------------------------------------
(***************************************************************************)
(* Units on the socket.                                                    *)
(***************************************************************************)

\* A unit of a request is its header or its payload.
LEMMA RequestUnits ==
  /\ Requests \subseteq Units
  /\ \A u \in Requests : u = Header(u.answer.call) \/ u = Payload(u.answer.call)
  /\ \A c \in Calls : /\ Header(c) \in Requests /\ Payload(c) \in Requests
                     /\ Header(c).answer.call = c /\ Payload(c).answer.call = c
                     /\ Header(c).part = "header" /\ Payload(c).part = "payload"
                     /\ Header(c).answer = Payload(c).answer
<1>1. \A c \in Calls : /\ Header(c).answer = Answer(c, TRUE) /\ Payload(c).answer = Answer(c, TRUE)
                     /\ Header(c).part = "header" /\ Payload(c).part = "payload"
  BY DEF Header, Payload
<1>2. \A c \in Calls : Answer(c, TRUE) \in Answers /\ Answer(c, TRUE).call = c
  BY DEF Answer, Answers
<1>3. \A c \in Calls : Header(c) \in Units /\ Payload(c) \in Units
  BY <1>2 DEF Header, Payload, Units
<1>4. \A u \in Requests : \E c \in Calls : u = Header(c) \/ u = Payload(c)
  BY DEF Requests
<1>5. \A c \in Calls : Header(c) \in Requests /\ Payload(c) \in Requests
  BY DEF Requests
<1>6. ASSUME NEW u \in Requests
      PROVE  u \in Units /\ (u = Header(u.answer.call) \/ u = Payload(u.answer.call))
  <2>1. PICK c \in Calls : u = Header(c) \/ u = Payload(c)
    BY <1>4
  <2>2. u.answer.call = c
    BY <2>1, <1>1, <1>2
  <2> QED BY <2>1, <2>2, <1>3
<1>7. Requests \subseteq Units
  BY <1>6
<1>8. \A c \in Calls : Header(c).answer.call = c /\ Payload(c).answer.call = c
  BY <1>1, <1>2
<1> HIDE DEF Header, Payload
<1> QED BY <1>1, <1>5, <1>6, <1>7, <1>8

\* An answer is two units, its header and its payload (wire.WriteJSON).
LEMMA ReplyUnitsAre ==
  ASSUME NEW c \in Calls, NEW ok \in BOOLEAN, NEW r, r = ReplyUnits(Answer(c, ok))
  PROVE  /\ r \in Seq(Units) /\ r # << >> /\ Len(r) = 2 /\ Len(r) <= 2
         /\ r[1].part = "header" /\ r[Len(r)].part = "payload" /\ r[1].answer.call = c
         /\ \A i \in 1..Len(r) : r[i].answer = r[1].answer
<1>1. Answer(c, ok) \in Answers /\ Answer(c, ok).call = c
  BY DEF Answers, Answer
<1> HIDE DEF Answers, Answer
<1>2. /\ r \in Seq(Units) /\ Len(r) = 2 /\ r # << >> /\ r[1].part = "header"
      /\ r[2].part = "payload" /\ \A i \in 1..2 : r[i].answer = Answer(c, ok)
  BY <1>1 DEF ReplyUnits, Units
<1>3. 1 \in 1..2 /\ 1..Len(r) = 1..2 /\ Len(r) <= 2
  BY <1>2
<1>4. r[1].answer = Answer(c, ok)
  BY <1>2, <1>3
<1> QED BY <1>1, <1>2, <1>3, <1>4

\* Calls are natural numbers, and what a unit answers is one of them.
LEMMA UnitCalls ==
  /\ Calls \subseteq Nat /\ NoCall \notin Calls
  /\ \A u \in Units : u.answer \in Answers /\ u.answer.call \in Calls
                     /\ u.part \in {"header", "payload"}
BY CallsAssumption DEF Calls, NoCall, Units, Answers

\* Writing a unit.
LEMMA CallsInAppend ==
  ASSUME NEW q \in Seq(Units), NEW u \in Units
  PROVE  /\ CallsIn(Append(q, u)) = CallsIn(q) \cup {u.answer.call}
         /\ CallsIn(q) \subseteq Calls
BY UnitCalls DEF CallsIn

\* Reading a unit.
LEMMA CallsInTail ==
  ASSUME NEW q \in Seq(Units), q # << >>
  PROVE  /\ CallsIn(Tail(q)) \subseteq CallsIn(q) /\ Head(q).answer.call \in CallsIn(q)
         /\ Head(q) = q[1] /\ q[1] \in Units /\ 1 \in 1..Len(q) /\ Len(q) \in Nat \ {0}
         /\ Tail(q) \in Seq(Units) /\ Len(Tail(q)) = Len(q) - 1
         /\ \A i \in 1..Len(Tail(q)) : Tail(q)[i] = q[i + 1] /\ i + 1 \in 1..Len(q)
<1>1. Len(q) \in Nat \ {0} /\ Tail(q) \in Seq(Units) /\ Len(Tail(q)) = Len(q) - 1
      /\ \A i \in 1..Len(Tail(q)) : Tail(q)[i] = q[i + 1]
  BY HeadTailProperties, EmptySeq
<1>2. Head(q) = q[1] /\ 1 \in 1..Len(q) /\ q[1] \in Units
  BY <1>1, ElementOfSeq
<1>3. \A i \in 1..Len(Tail(q)) : i + 1 \in 1..Len(q)
  BY <1>1
<1> QED BY <1>1, <1>2, <1>3 DEF CallsIn

\* What is left behind the unit read is no older, and newer behind a payload.
LEMMA OrderedTail ==
  ASSUME NEW q \in Seq(Units), q # << >>, Ordered(q)
  PROVE  /\ Ordered(Tail(q))
         /\ \A i \in 1..Len(Tail(q)) :
              \/ Head(q).answer.call < Tail(q)[i].answer.call
              \/ /\ Head(q).answer = Tail(q)[i].answer
                 /\ Head(q).part = "header" /\ Tail(q)[i].part = "payload"
<1>1. /\ Head(q) = q[1] /\ 1 \in 1..Len(q) /\ Len(Tail(q)) = Len(q) - 1 /\ Len(q) \in Nat
      /\ \A i \in 1..Len(Tail(q)) : Tail(q)[i] = q[i + 1] /\ i + 1 \in 1..Len(q)
  BY CallsInTail
<1>2. \A i \in 1..Len(Tail(q)) : 1 < i + 1
  BY <1>1
<1>3. \A i, j \in 1..Len(Tail(q)) : i < j => i + 1 < j + 1
  BY <1>1
<1> QED BY <1>1, <1>2, <1>3 DEF Ordered

\* A unit newer than all others keeps the order.
LEMMA OrderedAppend ==
  ASSUME NEW q \in Seq(Units), Ordered(q), NEW u \in Units,
         \A i \in 1..Len(q) :
           \/ q[i].answer.call < u.answer.call
           \/ q[i].answer = u.answer /\ q[i].part = "header" /\ u.part = "payload"
  PROVE  Ordered(Append(q, u))
<1> DEFINE p == Append(q, u)
<1>1. /\ Len(p) = Len(q) + 1 /\ p[Len(q) + 1] = u /\ Len(q) \in Nat
      /\ \A i \in 1..Len(q) : p[i] = q[i]
  BY AppendProperties
<1>2. SUFFICES ASSUME NEW i \in 1..Len(p), NEW j \in 1..Len(p), i < j
               PROVE  \/ p[i].answer.call < p[j].answer.call
                      \/ p[i].answer = p[j].answer /\ p[i].part = "header" /\ p[j].part = "payload"
  BY DEF Ordered
<1> HIDE DEF p
<1>3. i \in 1..Len(q) /\ (j = Len(q) + 1 \/ j \in 1..Len(q))
  BY <1>1, <1>2
<1> QED BY <1>1, <1>2, <1>3 DEF Ordered

\* The sequences' types in the form the proofs use.
LEMMA Wires ==
  ASSUME TypeInv
  PROVE  /\ up \in Seq(Units) /\ down \in Seq(Units) /\ reply \in Seq(Units)
         /\ executed \in Seq(Calls) /\ InFlight \subseteq Calls /\ CallsIn(up) \subseteq InFlight
         /\ CallsIn(down) \subseteq InFlight /\ (current # NoCall => current \in InFlight)
         /\ Len(up) \in Nat /\ Len(down) \in Nat /\ Len(reply) \in Nat /\ Len(executed) \in Nat
<1>1. up \in Seq(Units) /\ down \in Seq(Units) /\ reply \in Seq(Units) /\ executed \in Seq(Calls)
  BY RequestUnits, SeqMonotonic DEF TypeInv, TypeOK
<1>2. CallsIn(up) \subseteq Calls /\ CallsIn(down) \subseteq Calls
  BY <1>1, UnitCalls, ElementOfSeq DEF CallsIn
<1>3. current \in Calls \cup {NoCall}
  BY DEF TypeInv, TypeOK
<1> QED BY <1>1, <1>2, <1>3 DEF InFlight

-----------------------------------------------------------------------------
(***************************************************************************)
(* The daemon's actions.                                                   *)
(***************************************************************************)

\* The client does not notice what only takes things out of flight.
LEMMA ServerKeepsCalls ==
  ASSUME TurnsInv, FlightInv, AnswersInv, UNCHANGED client, InFlight' \subseteq InFlight
  PROVE  TurnsInv' /\ FlightInv' /\ AnswersInv'
<1>1. TurnsInv' /\ AnswersInv'
  BY DEF TurnsInv, AnswersInv, OnlyLateAnswersStray, client
<1>2. FlightInv'
  BY DEF FlightInv, client
<1> QED BY <1>1, <1>2

\* serveConn returns.
LEMMA EndKeeps ==
  ASSUME IInv, UNCHANGED <<client, down, daemon>>, End,
         up' = << >> \/ (up' = up /\ clientClosed)
  PROVE  IInv'
<1> USE DEF IInv
<1>1. /\ UNCHANGED <<phase, result, op, sent, timedOut, clientClosed, down, peer, live, executed>>
      /\ UNCHANGED client
      /\ server' = "ended" /\ current' = NoCall /\ reply' = << >>
  BY DEF client, daemon, End
<1>2. /\ CallsIn(up') \subseteq CallsIn(up) /\ up' \in Seq(Requests) /\ Len(up') <= WireBuffer
      /\ Ordered(up') /\ \A i \in 1..Len(up') : i \in 1..Len(up) /\ up'[i] = up[i]
  <2>1. CASE up' = << >>
    <3>1. Len(up') = 0 /\ 1..Len(up') = {} /\ CallsIn(up') = {} /\ WireBuffer \in Nat
      BY <2>1, WireAssumption DEF CallsIn
    <3> QED BY <2>1, <3>1 DEF Ordered
  <2>2. CASE up' = up
    BY <2>2 DEF TypeInv, TypeOK, WireInv
  <2> QED BY <2>1, <2>2
<1>3. TypeInv'
  BY <1>1, <1>2 DEF TypeInv, TypeOK
<1>4. InFlight' \subseteq InFlight
  BY <1>1, <1>2 DEF InFlight
<1>5. ServerInv'
  BY <1>1, <1>2 DEF ServerInv, Gone
<1>6. WireInv'
  BY <1>1, <1>2 DEF WireInv, Gone
<1>7. CallInv'
  <2>1. \A c \in Calls : phase[c] = "payload" =>
          c \notin CallsIn(down) /\ \A i \in 1..Len(up') : up'[i].answer.call = c => up'[i].part = "header"
    BY <1>2 DEF CallInv
  <2>2. /\ \A c \in Calls : phase[c] = "body" /\ down # << >> => down[1].part = "payload"
        /\ \A c \in Calls : phase[c] = "await" /\ (\A e \in Calls : e < c => e \notin timedOut) =>
             (down # << >> => down[1].part = "header")
        /\ \A c \in Calls : phase[c] = "adrift" => \E e \in Calls : e < c /\ e \in timedOut
    BY DEF CallInv
  <2>3. Gone' /\ Len(reply') # 1 /\ \A c \in Calls : current' # c
    BY <1>1, UnitCalls DEF Gone
  <2> QED BY <1>1, <2>1, <2>2, <2>3 DEF CallInv
<1>8. ExecutedInv'
  BY <1>1, <1>2 DEF ExecutedInv
<1> QED BY <1>1, <1>3, <1>4, <1>5, <1>6, <1>7, <1>8, ServerKeepsCalls

\* The loop reads a header, or ends, or is led astray.
LEMMA ServeHeaderKeeps == IInv /\ ServeHeader => IInv'
<1> SUFFICES ASSUME IInv, ServeHeader PROVE IInv'
  OBVIOUS
<1> USE DEF IInv
<1>1. /\ server = "header" /\ current = NoCall /\ reply = << >> /\ reply' = << >>
      /\ UNCHANGED <<phase, result, op, sent, timedOut, clientClosed, down, peer, live, executed>>
      /\ UNCHANGED client /\ ~Gone
  BY DEF ServeHeader, ServerInv, client, daemon, End, Gone
<1>2. /\ up \in Seq(Units) /\ Len(up) \in Nat /\ Len(up) <= WireBuffer /\ WireBuffer \in Nat
      /\ up \in Seq(Requests)
  BY Wires, WireAssumption DEF TypeInv, TypeOK
<1>3. CASE up # << >> /\ Head(up).part = "header" /\ up' = Tail(up) /\ server' = "payload"
           /\ current' = Head(up).answer.call
  <2>1. /\ CallsIn(up') \subseteq CallsIn(up) /\ current' \in CallsIn(up) /\ Len(up') <= Len(up)
        /\ Head(up) = up[1] /\ up' \in Seq(Units) /\ Len(up') \in Nat
        /\ 1 \in 1..Len(up) /\ current' \in Calls /\ current' # NoCall
        /\ \A i \in 1..Len(up') : up'[i] = up[i + 1] /\ i + 1 \in 1..Len(up)
    BY <1>2, <1>3, CallsInTail, UnitCalls
  <2>2. Ordered(up') /\ \A i \in 1..Len(up') :
          current' < up'[i].answer.call \/ (current' = up'[i].answer.call /\ up'[i].part = "payload")
    BY <1>2, <1>3, OrderedTail DEF WireInv
  <2>3. TypeInv'
    <3>1. up' \in Seq(Requests) /\ Len(up') <= WireBuffer
      BY <1>2, <1>3, <2>1, HeadTailProperties
    <3> QED BY <1>1, <1>3, <2>1, <3>1 DEF TypeInv, TypeOK
  <2>4. InFlight' \subseteq InFlight
    BY <1>1, <2>1 DEF InFlight
  <2>5. ServerInv'
    <3>1. \A x \in CallsIn(up') : \A y \in CallsIn(down') : y < x
      BY <1>1, <2>1 DEF ServerInv
    <3>2. \A i \in 1..Len(down') : down'[i].answer.call < current'
      BY <1>1, <2>1 DEF ServerInv, CallsIn
    <3> QED BY <1>1, <1>3, <2>1, <2>2, <3>1, <3>2 DEF ServerInv, Gone
  <2>6. WireInv'
    BY <1>1, <1>3, <2>2 DEF WireInv, Gone
  <2>7. CallInv'
    BY <1>1, <1>3, <2>1 DEF CallInv, Gone
  <2>8. ExecutedInv'
    <3>1. \A i \in 1..Len(up') : up'[i].part = "payload" => up'[i].answer.call \in sent
      BY <2>1 DEF ExecutedInv
    <3>2. \A k \in 1..Len(executed) : executed[k] < current'
      BY <2>1 DEF ExecutedInv
    <3>3. current' \in Nat /\ \A k \in 1..Len(executed) : executed[k] \in Nat
      BY <2>1, UnitCalls, ElementOfSeq DEF TypeInv, TypeOK
    <3>4. \A k \in 1..Len(executed) : executed[k] <= current'
      BY <3>2, <3>3
    <3> QED BY <1>1, <1>3, <2>1, <3>1, <3>2, <3>4 DEF ExecutedInv
  <2> QED BY <2>3, <2>4, <2>5, <2>6, <2>7, <2>8, <1>1, ServerKeepsCalls
<1>4. CASE /\ server' \in {"ended", "starved"} /\ current' = NoCall
           /\ server' = "ended" => up' = << >>
           /\ up' = << >> \/ (up # << >> /\ up' = Tail(up))
  <2>1. /\ CallsIn(up') \subseteq CallsIn(up) /\ up' \in Seq(Requests) /\ Len(up') <= WireBuffer
        /\ Ordered(up')
        /\ \A i \in 1..Len(up') : \E j \in 1..Len(up) : up'[i] = up[j]
    <3>1. CASE up' = << >>
      BY <3>1, <1>2 DEF CallsIn, Ordered
    <3>2. CASE up # << >> /\ up' = Tail(up)
      BY <3>2, <1>2, CallsInTail, OrderedTail, HeadTailProperties DEF WireInv
    <3> QED BY <1>4, <3>1, <3>2
  <2>3. TypeInv'
    BY <1>1, <1>4, <2>1 DEF TypeInv, TypeOK
  <2>4. InFlight' \subseteq InFlight
    BY <1>1, <1>4, <2>1 DEF InFlight
  <2>5. ServerInv'
    <3>1. \A x \in CallsIn(up') : \A y \in CallsIn(down') : y < x
      BY <1>1, <2>1 DEF ServerInv
    <3> QED BY <1>1, <1>4, <3>1 DEF ServerInv, Gone
  <2>6. WireInv'
    BY <1>1, <1>4, <2>1 DEF WireInv, Gone
  <2>7. CallInv'
    BY <1>1, <1>4, <2>1, UnitCalls DEF CallInv, Gone
  <2>8. ExecutedInv'
    BY <1>1, <1>4, <2>1 DEF ExecutedInv
  <2> QED BY <2>3, <2>4, <2>5, <2>6, <2>7, <2>8, <1>1, ServerKeepsCalls
<1> QED BY <1>1, <1>3, <1>4 DEF ServeHeader, End

\* The loop reads a payload: the request's own, or bytes of another frame.
LEMMA ServePayloadKeeps == IInv /\ ServePayload => IInv'
<1> SUFFICES ASSUME IInv, ServePayload PROVE IInv'
  OBVIOUS
<1> USE DEF IInv
<1>1. /\ server = "payload" /\ reply = << >> /\ ~Gone
      /\ UNCHANGED <<phase, result, op, sent, timedOut, clientClosed, down, peer, live, executed>>
      /\ UNCHANGED client
  BY DEF ServePayload, ServerInv, client, daemon, Gone
<1>2. /\ up \in Seq(Units) /\ Len(up) \in Nat /\ Len(up) <= WireBuffer /\ WireBuffer \in Nat
      /\ up \in Seq(Requests) /\ current \in Calls /\ current # NoCall /\ current \in Nat
      /\ down \in Seq(Units) /\ Len(down) \in Nat
  BY <1>1, Wires, WireAssumption, UnitCalls DEF TypeInv, TypeOK, ServerInv
<1>3. CASE up # << >> /\ up' = Tail(up) /\ current' = current
           /\ \/ server' = "payload" /\ reply' = reply /\ Head(up) # Payload(current)
              \/ server' = "handle" /\ reply' = reply /\ Head(up) = Payload(current)
              \/ server' = "write" /\ Refuse(current)
  <2>1. /\ CallsIn(up') \subseteq CallsIn(up) /\ Len(up') <= Len(up)
        /\ Head(up) = up[1] /\ up' \in Seq(Units) /\ Len(up') \in Nat
        /\ 1 \in 1..Len(up) /\ up[1] \in Requests
        /\ \A i \in 1..Len(up') : up'[i] = up[i + 1] /\ i + 1 \in 1..Len(up)
    BY <1>2, <1>3, CallsInTail, ElementOfSeq
  <2>2. /\ Ordered(up')
        /\ up[1].part = "payload" => \A i \in 1..Len(up') : up[1].answer.call < up'[i].answer.call
        /\ \A i \in 1..Len(up') : \/ up[1].answer.call < up'[i].answer.call
                                \/ up[1].answer.call = up'[i].answer.call
    <3>1. Ordered(up) /\ up \in Seq(Units) /\ up # << >> /\ up' = Tail(up)
      BY <1>2, <1>3 DEF WireInv
    <3>2. Head(up) = up[1]
      BY <2>1
    <3> QED BY ONLY <3>1, <3>2, OrderedTail
  <2>3. /\ up[1].answer.call \in Nat /\ current <= up[1].answer.call
        /\ current = up[1].answer.call => up[1] = Payload(current) /\ up[1].part = "payload"
    <3>1. up[1].answer.call \in Nat
      BY <2>1, RequestUnits, UnitCalls
    <3>2. \/ current < up[1].answer.call
          \/ current = up[1].answer.call /\ up[1].part = "payload"
      BY <1>2, <2>1 DEF ServerInv
    <3>3. current = up[1].answer.call => up[1] = Payload(current)
      BY <2>1, <3>2, <1>2, RequestUnits
    <3> QED BY <1>2, <3>1, <3>2, <3>3
  <2>4. \A i \in 1..Len(up') : current < up'[i].answer.call /\ up'[i].answer.call \in Nat
    <3>1. SUFFICES ASSUME NEW i \in 1..Len(up')
                   PROVE  current < up'[i].answer.call /\ up'[i].answer.call \in Nat
      OBVIOUS
    <3>2. up'[i].answer.call \in Nat
      BY <2>1, ElementOfSeq, UnitCalls
    <3> QED BY <3>2, <2>2, <2>3, <1>2
  <2>5. /\ reply' \in Seq(Units) /\ Len(reply') <= 2
        /\ server' # "write" => reply' = << >>
        /\ server' = "write" =>
             /\ reply' # << >> /\ reply'[Len(reply')].part = "payload" /\ Len(reply') = 2
             /\ \A i \in 1..Len(reply') : reply'[i].answer = reply'[1].answer
             /\ reply'[1].answer.call = current /\ reply'[1].part = "header"
    <3>1. CASE reply' = reply /\ server' # "write"
      BY <3>1, <1>1, Wires DEF TypeInv
    <3>2. CASE server' = "write" /\ Refuse(current)
      <4>1. PICK ok \in BOOLEAN : reply' = ReplyUnits(Answer(current, ok))
        BY <3>2 DEF Refuse
      <4> QED BY <1>2, <3>2, <4>1, ReplyUnitsAre
    <3> QED BY <1>3, <3>1, <3>2
  <2>6. TypeInv'
    <3>1. up' \in Seq(Requests) /\ Len(up') <= WireBuffer
      BY <1>2, <1>3, <2>1, HeadTailProperties
    <3> QED BY <1>1, <1>3, <2>1, <2>5, <3>1 DEF TypeInv, TypeOK
  <2>7. InFlight' \subseteq InFlight
    BY <1>1, <1>3, <2>1 DEF InFlight
  <2>8. ServerInv'
    <3>1. \A x \in CallsIn(up') : \A y \in CallsIn(down') : y < x
      BY <1>1, <2>1 DEF ServerInv
    <3>2. \A i \in 1..Len(down') : down'[i].answer.call < current
      BY <1>1, <1>2 DEF ServerInv
    <3> QED BY <1>1, <1>2, <1>3, <2>4, <2>5, <3>1, <3>2 DEF ServerInv, Gone
  <2>9. WireInv'
    BY <1>1, <1>3, <2>2 DEF WireInv, Gone
  <2>10. CallInv'
    <3>1. \A c \in Calls : phase[c] = "payload" =>
            /\ c \notin CallsIn(down) /\ (current = c => server' = "payload")
            /\ \A i \in 1..Len(up') : up'[i].answer.call = c => up'[i].part = "header"
      <4>1. SUFFICES ASSUME NEW c \in Calls, phase[c] = "payload"
                     PROVE  /\ c \notin CallsIn(down) /\ (current = c => server' = "payload")
                            /\ \A i \in 1..Len(up') : up'[i].answer.call = c => up'[i].part = "header"
        OBVIOUS
      <4>2. /\ c \notin CallsIn(down)
            /\ \A i \in 1..Len(up) : up[i].answer.call = c => up[i].part = "header"
        BY <4>1 DEF CallInv
      <4>3. \A x \in InFlight : x <= c
        BY <4>1 DEF FlightInv, InCall
      <4>4. current = c => server' = "payload"
        <5>1. SUFFICES ASSUME current = c PROVE FALSE
          OBVIOUS
        <5>2. up[1].answer.call \in InFlight
          BY <2>1, Wires DEF CallsIn
        <5>3. up[1].answer.call <= c
          BY <4>3, <5>2
        <5>4. up[1].answer.call = c
          BY <5>1, <5>3, <2>3, <1>2
        <5> QED BY <4>2, <5>1, <5>4, <2>1, <2>3
      <4> QED BY <4>2, <4>4, <2>1
    <3>2. \A c \in Calls : phase[c] = "body" => down # << >> \/ Gone \/ Len(reply) = 1
      BY DEF CallInv
    <3>3. Len(reply) = 0 /\ Len(reply') # 1
      BY <1>1, <2>5
    <3>4. \A c \in Calls : phase[c] = "await" /\ (\A e \in Calls : e < c => e \notin timedOut) =>
            /\ down # << >> => down[1].part = "header"
      BY DEF CallInv
    <3>5. \A c \in Calls : phase[c] = "body" => down # << >> /\ down[1].part = "payload"
      BY <1>1, <3>2, <3>3 DEF CallInv
    <3>6. \A c \in Calls : phase[c] = "adrift" => \E e \in Calls : e < c /\ e \in timedOut
      BY DEF CallInv
    <3>7. current' = current /\ UNCHANGED <<phase, down, timedOut>>
      BY <1>1, <1>3
    <3> QED BY <3>1, <3>3, <3>4, <3>5, <3>6, <3>7 DEF CallInv
  <2>11. ExecutedInv'
    <3>1. \A i \in 1..Len(up') : up'[i].part = "payload" => up'[i].answer.call \in sent
      BY <2>1 DEF ExecutedInv
    <3>2. server' = "handle" => current \in sent
      <4>1. SUFFICES ASSUME server' = "handle" PROVE current \in sent
        OBVIOUS
      <4>2. up[1] = Payload(current)
        BY <1>3, <4>1, <2>1
      <4>3. up[1].part = "payload" /\ up[1].answer.call = current
        BY <4>2, <1>2, RequestUnits
      <4> QED BY <4>3, <2>1 DEF ExecutedInv
    <3> QED BY <1>1, <1>2, <1>3, <2>1, <3>1, <3>2 DEF ExecutedInv
  <2> QED BY <2>6, <2>7, <2>8, <2>9, <2>10, <2>11, <1>1, ServerKeepsCalls
<1>4. CASE up' = << >> /\ End
  BY <1>1, <1>4, EndKeeps DEF daemon
<1> QED BY <1>1, <1>3, <1>4 DEF ServePayload

\* What a frame that never arrives swallows was not carried out.
LEMMA StarveKeeps == IInv /\ Starve => IInv'
<1> SUFFICES ASSUME IInv, Starve PROVE IInv'
  OBVIOUS
<1> USE DEF IInv
<1>1. /\ server = "starved" /\ reply = << >> /\ current = NoCall
      /\ UNCHANGED <<phase, result, op, sent, timedOut, clientClosed, down, peer, live, executed>>
      /\ UNCHANGED client /\ reply' = << >> /\ current' = NoCall /\ server' \in {"starved", "ended"}
      /\ server' = "ended" => up' = << >>
      /\ up' = up \/ (up # << >> /\ up' = Tail(up))
  BY DEF Starve, ServerInv, client, daemon, serving, End
<1>2. /\ up \in Seq(Units) /\ Len(up) \in Nat /\ Len(up) <= WireBuffer /\ WireBuffer \in Nat
      /\ up \in Seq(Requests)
  BY Wires, WireAssumption DEF TypeInv, TypeOK
<1>3. /\ CallsIn(up') \subseteq CallsIn(up) /\ up' \in Seq(Requests) /\ Len(up') <= WireBuffer
      /\ Ordered(up')
      /\ \A i \in 1..Len(up') : \E j \in 1..Len(up) : up'[i] = up[j]
  <2>1. CASE up' = up
    BY <2>1, <1>2 DEF WireInv
  <2>2. CASE up # << >> /\ up' = Tail(up)
    BY <2>2, <1>2, CallsInTail, OrderedTail, HeadTailProperties DEF WireInv
  <2> QED BY <1>1, <2>1, <2>2
<1>4. TypeInv'
  BY <1>1, <1>3 DEF TypeInv, TypeOK
<1>5. InFlight' \subseteq InFlight
  BY <1>1, <1>3 DEF InFlight
<1>6. ServerInv'
  <2>1. \A x \in CallsIn(up') : \A y \in CallsIn(down') : y < x
    BY <1>1, <1>3 DEF ServerInv
  <2> QED BY <1>1, <2>1 DEF ServerInv, Gone
<1>7. WireInv'
  BY <1>1, <1>3 DEF WireInv, Gone
<1>8. CallInv'
  BY <1>1, <1>3, UnitCalls DEF CallInv, Gone
<1>9. ExecutedInv'
  BY <1>1, <1>3 DEF ExecutedInv
<1> QED BY <1>1, <1>4, <1>5, <1>6, <1>7, <1>8, <1>9, ServerKeepsCalls

\* A request is carried out.
LEMMA HandleKeeps == IInv /\ Handle => IInv'
<1> SUFFICES ASSUME IInv, Handle PROVE IInv'
  OBVIOUS
<1> USE DEF IInv
<1>1. /\ server = "handle" /\ reply = << >> /\ ~Gone
      /\ UNCHANGED <<phase, result, op, sent, timedOut, clientClosed, up, down, current, peer>>
      /\ UNCHANGED client /\ executed' = Append(executed, current)
  BY DEF Handle, ServerInv, client, wires, Gone
<1>2. /\ current \in Calls /\ current # NoCall /\ current \in Nat /\ executed \in Seq(Calls)
      /\ Len(executed) \in Nat /\ down \in Seq(Units) /\ up \in Seq(Units) /\ Len(reply) = 0
  BY <1>1, Wires, UnitCalls DEF TypeInv, TypeOK, ServerInv
<1>3. /\ reply' \in Seq(Units) /\ Len(reply') <= 2 /\ Len(reply') # 1 /\ server' \in {"type", "write"}
      /\ server' # "write" => reply' = << >>
      /\ server' = "write" =>
           /\ reply' # << >> /\ reply'[Len(reply')].part = "payload" /\ Len(reply') = 2
           /\ \A i \in 1..Len(reply') : reply'[i].answer = reply'[1].answer
           /\ reply'[1].answer.call = current /\ reply'[1].part = "header"
  <2>1. CASE server' = "type" /\ reply' = reply
    BY <2>1, <1>1, <1>2, Wires DEF TypeInv
  <2>2. CASE server' = "write" /\ \E ok \in BOOLEAN : reply' = ReplyUnits(Answer(current, ok))
    <3>1. PICK ok \in BOOLEAN : reply' = ReplyUnits(Answer(current, ok))
      BY <2>2
    <3> QED BY <1>2, <2>2, <3>1, ReplyUnitsAre
  <2>3. server' = "write" => \E ok \in BOOLEAN : reply' = ReplyUnits(Answer(current, ok))
    <3>1. (op[current] = "remove" \/ (op[current] = "query" /\ live)) \in BOOLEAN
      OBVIOUS
    <3> QED BY <3>1 DEF Handle
  <2>4. (server' = "type" /\ reply' = reply) \/ server' = "write"
    BY DEF Handle
  <2> QED BY <2>1, <2>2, <2>3, <2>4
<1>4. TypeInv'
  <2>1. live' \in BOOLEAN
    BY DEF Handle
  <2>2. executed' \in Seq(Calls)
    BY <1>1, <1>2, AppendProperties
  <2> QED BY <1>1, <1>3, <2>1, <2>2 DEF TypeInv, TypeOK
<1>5. InFlight' \subseteq InFlight
  BY <1>1 DEF InFlight
<1>6. \A i \in 1..Len(up) : current < up[i].answer.call
  BY <1>1, <1>2 DEF ServerInv
<1>7. ServerInv'
  <2>1. \A i \in 1..Len(down) : down[i].answer.call < current
    BY <1>1, <1>2 DEF ServerInv
  <2>2. \A x \in CallsIn(up') : \A y \in CallsIn(down') : y < x
    BY <1>1 DEF ServerInv
  <2> QED BY <1>1, <1>2, <1>3, <1>6, <2>1, <2>2 DEF ServerInv, Gone
<1>8. WireInv'
  BY <1>1, <1>3 DEF WireInv, Gone
<1>9. CallInv'
  <2>1. \A c \in Calls : phase[c] = "payload" => current # c
    BY <1>1 DEF CallInv
  <2>2. \A c \in Calls : phase[c] = "body" => down # << >>
    BY <1>1, <1>2 DEF CallInv
  <2> QED BY <1>1, <1>3, <2>1, <2>2 DEF CallInv
<1>10. ExecutedInv'
  <2>1. /\ Len(executed') = Len(executed) + 1 /\ executed'[Len(executed) + 1] = current
        /\ \A k \in 1..Len(executed) : executed'[k] = executed[k] /\ executed[k] \in Nat
        /\ \A k \in 1..Len(executed') : k \in 1..Len(executed) \/ k = Len(executed) + 1
    <3>1. /\ Len(executed') = Len(executed) + 1 /\ executed'[Len(executed) + 1] = current
          /\ \A k \in 1..Len(executed) : executed'[k] = executed[k]
      BY <1>1, <1>2, AppendProperties
    <3>2. \A k \in 1..Len(executed) : executed[k] \in Nat
      BY <1>2, ElementOfSeq, UnitCalls
    <3>3. \A k \in 1..Len(executed') : k \in 1..Len(executed) \/ k = Len(executed) + 1
      BY <3>1, <1>2
    <3> QED BY <3>1, <3>2, <3>3
  <2>2. /\ current \in sent /\ \A k \in 1..Len(executed) : executed[k] < current
    BY <1>1, <1>2 DEF ExecutedInv
  <2>3. \A k \in 1..Len(executed') : executed'[k] \in sent /\ executed'[k] <= current
    BY <1>2, <2>1, <2>2 DEF ExecutedInv
  <2>4. \A k, l \in 1..Len(executed') : k < l => executed'[k] < executed'[l]
    <3>1. SUFFICES ASSUME NEW k \in 1..Len(executed'), NEW l \in 1..Len(executed'), k < l
                   PROVE  executed'[k] < executed'[l]
      OBVIOUS
    <3>2. k \in 1..Len(executed)
      BY <3>1, <2>1, <1>2
    <3> QED BY <3>1, <3>2, <2>1, <2>2 DEF ExecutedInv
  <2>5. \A k \in 1..Len(executed') : \A x \in CallsIn(up) : executed'[k] < x
    <3>1. \A x \in CallsIn(up) : current < x
      BY <1>6 DEF CallsIn
    <3> QED BY <3>1, <2>1 DEF ExecutedInv
  <2>6. \A k \in 1..Len(executed') : \A c \in Calls :
          phase[c] \in {"new", "waiting", "header", "payload"} => executed'[k] < c
    <3>1. \A c \in Calls : phase[c] \in {"new", "waiting", "header", "payload"} => current < c
      <4>1. SUFFICES ASSUME NEW c \in Calls, phase[c] \in {"new", "waiting", "header", "payload"}
                     PROVE  current < c
        OBVIOUS
      <4>2. CASE phase[c] = "payload"
        <5>1. current <= c /\ current # c
          BY <4>2, <1>1, <1>2, Wires DEF FlightInv, InCall, CallInv
        <5> QED BY <5>1, <1>2, UnitCalls
      <4>3. CASE phase[c] # "payload"
        BY <4>1, <4>3, <1>2, Wires DEF FlightInv
      <4> QED BY <4>2, <4>3
    <3> QED BY <3>1, <2>1 DEF ExecutedInv
  <2> QED BY <1>1, <1>3, <2>3, <2>4, <2>5, <2>6 DEF ExecutedInv
<1> QED BY <1>1, <1>4, <1>5, <1>7, <1>8, <1>9, <1>10, ServerKeepsCalls

\* The child has taken the input, or its terminal is gone.
LEMMA TypeKeeps == IInv /\ Type => IInv'
<1> SUFFICES ASSUME IInv, Type PROVE IInv'
  OBVIOUS
<1> USE DEF IInv
<1>1. /\ server = "type" /\ server' = "write" /\ reply = << >> /\ ~Gone
      /\ UNCHANGED <<phase, result, op, sent, timedOut, clientClosed, up, down, current, peer, live,
                     executed>>
      /\ UNCHANGED client
  BY DEF Type, ServerInv, client, wires, daemon, Gone
<1>2. current \in Calls /\ current # NoCall /\ Len(reply) = 0
  BY <1>1 DEF TypeInv, TypeOK, ServerInv
<1>3. /\ reply' \in Seq(Units) /\ Len(reply') <= 2 /\ Len(reply') = 2
      /\ reply' # << >> /\ reply'[Len(reply')].part = "payload"
      /\ \A i \in 1..Len(reply') : reply'[i].answer = reply'[1].answer
      /\ reply'[1].answer.call = current /\ reply'[1].part = "header"
  <2>1. PICK ok \in BOOLEAN : reply' = ReplyUnits(Answer(current, ok))
    BY DEF Type
  <2> QED BY <1>2, <2>1, ReplyUnitsAre
<1>4. TypeInv'
  BY <1>1, <1>3 DEF TypeInv, TypeOK
<1>5. InFlight' \subseteq InFlight
  BY <1>1 DEF InFlight
<1>6. ServerInv'
  <2>1. \A i \in 1..Len(down) : down[i].answer.call < current
    BY <1>1, <1>2 DEF ServerInv
  <2>2. \A i \in 1..Len(up) : current < up[i].answer.call
    BY <1>1, <1>2 DEF ServerInv
  <2>3. \A x \in CallsIn(up') : \A y \in CallsIn(down') : y < x
    BY <1>1 DEF ServerInv
  <2> QED BY <1>1, <1>2, <1>3, <2>1, <2>2, <2>3 DEF ServerInv, Gone
<1>7. WireInv'
  BY <1>1, <1>3 DEF WireInv, Gone
<1>8. CallInv'
  <2>1. \A c \in Calls : phase[c] = "payload" => current # c
    BY <1>1 DEF CallInv
  <2>2. \A c \in Calls : phase[c] = "body" => down # << >>
    BY <1>1, <1>2 DEF CallInv
  <2> QED BY <1>1, <1>3, <2>1, <2>2 DEF CallInv
<1>9. ExecutedInv'
  BY <1>1 DEF ExecutedInv
<1> QED BY <1>1, <1>4, <1>5, <1>6, <1>7, <1>8, <1>9, ServerKeepsCalls

\* The answer goes out unit by unit, and a client that hung up ends the loop.
LEMMA WriteReplyKeeps == IInv /\ WriteReply => IInv'
<1> SUFFICES ASSUME IInv, WriteReply PROVE IInv'
  OBVIOUS
<1> USE DEF IInv
<1>1. /\ server = "write" /\ ~Gone
      /\ UNCHANGED <<phase, result, op, sent, timedOut, clientClosed, up, peer, live, executed>>
      /\ UNCHANGED client
  BY DEF WriteReply, client, daemon, Gone
<1>2. /\ current \in Calls /\ current # NoCall /\ reply \in Seq(Units) /\ reply # << >>
      /\ Len(reply) \in {1, 2} /\ down \in Seq(Units) /\ Len(down) \in Nat /\ WireBuffer \in Nat
      /\ Head(reply) = reply[1] /\ reply[1] \in Units /\ Tail(reply) \in Seq(Units)
      /\ Len(Tail(reply)) = Len(reply) - 1 /\ reply[1].answer.call = current
      /\ Len(reply) = 1 => reply[1].part = "payload" /\ Tail(reply) = << >>
      /\ Len(reply) = 2 => /\ reply[1].part = "header" /\ Tail(reply) # << >>
                           /\ Tail(reply)[1].part = "payload" /\ Tail(reply)[1].answer = reply[1].answer
  <2>1. /\ current \in Calls /\ current # NoCall /\ reply \in Seq(Units) /\ reply # << >>
        /\ Len(reply) <= 2 /\ down \in Seq(Units) /\ Len(down) \in Nat /\ WireBuffer \in Nat
        /\ reply[1].answer.call = current /\ reply[Len(reply)].part = "payload"
        /\ \A i \in 1..Len(reply) : reply[i].answer = reply[1].answer
        /\ Len(reply) = 2 => reply[1].part = "header"
    BY <1>1, Wires, WireAssumption DEF TypeInv, TypeOK, ServerInv
  <2>2. Len(reply) \in {1, 2}
    <3>1. reply \in Seq(Units) /\ reply # << >>
      BY <2>1
    <3>2. Len(reply) \in Nat \ {0}
      BY ONLY <3>1, CallsInTail
    <3>3. Len(reply) <= 2
      BY <2>1
    <3>4. \A n \in Nat \ {0} : n <= 2 => n = 1 \/ n = 2
      OBVIOUS
    <3> QED BY <3>2, <3>3, <3>4
  <2>3. /\ Head(reply) = reply[1] /\ reply[1] \in Units /\ Tail(reply) \in Seq(Units)
        /\ Len(Tail(reply)) = Len(reply) - 1
        /\ \A i \in 1..Len(Tail(reply)) : Tail(reply)[i] = reply[i + 1] /\ i + 1 \in 1..Len(reply)
    BY <2>1, CallsInTail
  <2>4. Len(reply) = 1 => reply[1].part = "payload" /\ Tail(reply) = << >>
    <3>1. Len(reply) = 1 => Len(Tail(reply)) = 0
      BY ONLY <2>3
    <3>2. Tail(reply) \in Seq(Units)
      BY <2>3
    <3>3. Len(Tail(reply)) = 0 => Tail(reply) = << >>
      BY ONLY <3>2, EmptySeq
    <3>4. Len(reply) = 1 => reply[1].part = "payload"
      BY <2>1
    <3> QED BY ONLY <3>1, <3>3, <3>4
  <2>5. Len(reply) = 2 => /\ Tail(reply) # << >> /\ Tail(reply)[1].part = "payload"
                          /\ Tail(reply)[1].answer = reply[1].answer
    <3>1. SUFFICES ASSUME Len(reply) = 2
                   PROVE  /\ Tail(reply) # << >> /\ Tail(reply)[1].part = "payload"
                          /\ Tail(reply)[1].answer = reply[1].answer
      OBVIOUS
    <3>2. Len(Tail(reply)) = 1 /\ 1 \in 1..1 /\ 2 \in 1..2
      BY <3>1, <2>3
    <3>3. Tail(reply)[1] = reply[2]
      BY <2>3, <3>2
    <3> QED BY <3>1, <3>2, <3>3, <2>1, EmptySeq
  <2> QED BY <2>1, <2>2, <2>3, <2>4, <2>5
<1>3. CASE ~clientClosed /\ Len(down) < WireBuffer
  <2>1. /\ down' = Append(down, reply[1]) /\ reply' = Tail(reply)
        /\ server' = (IF Len(reply) = 1 THEN "header" ELSE "write")
        /\ current' = (IF Len(reply) = 1 THEN NoCall ELSE current)
    BY <1>2, <1>3 DEF WriteReply
  <2>2. /\ down' \in Seq(Units) /\ Len(down') = Len(down) + 1 /\ down'[Len(down) + 1] = reply[1]
        /\ \A i \in 1..Len(down) : down'[i] = down[i]
        /\ \A i \in 1..Len(down') : i \in 1..Len(down) \/ i = Len(down) + 1
        /\ CallsIn(down') = CallsIn(down) \cup {current} /\ down' # << >>
    <3>1. /\ down' \in Seq(Units) /\ Len(down') = Len(down) + 1 /\ down'[Len(down) + 1] = reply[1]
          /\ \A i \in 1..Len(down) : down'[i] = down[i]
          /\ CallsIn(down') = CallsIn(down) \cup {current} /\ down' # << >>
      BY <1>2, <2>1, AppendProperties, CallsInAppend
    <3>2. \A i \in 1..Len(down') : i \in 1..Len(down) \/ i = Len(down) + 1
      BY <3>1, <1>2
    <3> QED BY <3>1, <3>2
  <2>3. TypeInv'
    <3>1. server' \in {"header", "write"} /\ current' \in Calls \cup {NoCall} /\ Len(reply') <= 2
      BY <1>2, <2>1
    <3>2. Len(down') <= WireBuffer
      BY <1>2, <1>3, <2>2
    <3> QED BY <1>1, <1>2, <2>1, <2>2, <3>1, <3>2 DEF TypeInv, TypeOK
  <2>4. InFlight' \subseteq InFlight
    BY <1>1, <1>2, <2>1, <2>2 DEF InFlight
  <2>5. \A i \in 1..Len(up) : current < up[i].answer.call
    BY <1>1, <1>2 DEF ServerInv
  <2>6. \A i \in 1..Len(down) :
           \/ down[i].answer.call < current
           \/ /\ Len(reply) = 1 /\ i = Len(down)
              /\ down[i].part = "header" /\ down[i].answer = reply[1].answer
    BY <1>1, <1>2 DEF ServerInv
  <2>7. ServerInv'
    <3>1. \A x \in CallsIn(up') : \A y \in CallsIn(down') : y < x
      BY <1>1, <2>2, <2>5 DEF ServerInv, CallsIn
    <3>2. current' # NoCall => \A i \in 1..Len(down') :
            \/ down'[i].answer.call < current'
            \/ /\ server' = "write" /\ Len(reply') = 1 /\ i = Len(down')
               /\ down'[i].part = "header" /\ down'[i].answer = reply'[1].answer
      <4>1. SUFFICES ASSUME Len(reply) = 2, NEW i \in 1..Len(down')
                     PROVE  \/ down'[i].answer.call < current
                            \/ /\ server' = "write" /\ Len(reply') = 1 /\ i = Len(down')
                               /\ down'[i].part = "header" /\ down'[i].answer = reply'[1].answer
        BY <1>2, <2>1
      <4>2. CASE i \in 1..Len(down)
        BY <4>1, <4>2, <2>2, <2>6
      <4>3. CASE i = Len(down) + 1
        BY <4>1, <4>3, <1>2, <2>1, <2>2
      <4> QED BY <4>2, <4>3, <2>2
    <3>3. server' = "write" =>
            /\ reply' # << >> /\ Len(reply') <= 2 /\ reply'[Len(reply')].part = "payload"
            /\ \A i \in 1..Len(reply') : reply'[i].answer = reply'[1].answer
            /\ reply'[1].answer.call = current' /\ Len(reply') = 1
      <4>1. CASE Len(reply) = 1
        BY <4>1, <2>1
      <4>2. CASE Len(reply) = 2
        <5>1. /\ reply' # << >> /\ Len(reply') = 1 /\ reply'[1].part = "payload"
              /\ reply'[1].answer.call = current /\ current' = current
          BY <4>2, <1>2, <2>1
        <5>2. 1..Len(reply') = {1} /\ Len(reply') <= 2
          BY <5>1
        <5> QED BY <5>1, <5>2
      <4> QED BY <1>2, <4>1, <4>2
    <3>4. (current' # NoCall) <=> (server' \in {"payload", "handle", "type", "write"})
      BY <1>2, <2>1
    <3>5. server' # "write" => reply' = << >>
      BY <1>2, <2>1
    <3>6. ~Gone' /\ (current' # NoCall => current' = current)
      BY <2>1 DEF Gone
    <3> QED BY <1>1, <2>5, <3>1, <3>2, <3>3, <3>4, <3>5, <3>6 DEF ServerInv
  <2>8. WireInv'
    <3>1. Ordered(down')
      <4>1. \A i \in 1..Len(down) :
              \/ down[i].answer.call < reply[1].answer.call
              \/ /\ down[i].answer = reply[1].answer
                 /\ down[i].part = "header" /\ reply[1].part = "payload"
        BY <1>2, <2>6
      <4> QED BY <1>2, <2>1, <4>1, OrderedAppend DEF WireInv
    <3>2. ASSUME NEW i \in 1..Len(down'), down'[i].part = "header"
          PROVE  \/ i < Len(down') /\ down'[i + 1].part = "payload"
                 \/ i = Len(down') /\ server' = "write" /\ Len(reply') = 1
      <4>1. CASE i = Len(down) + 1
        <5>1. Len(reply) = 2
          BY <3>2, <4>1, <1>2, <2>2
        <5> QED BY <4>1, <5>1, <1>2, <2>1, <2>2
      <4>2. CASE i \in 1..Len(down) /\ i < Len(down)
        <5>1. i + 1 \in 1..Len(down) /\ down[i].part = "header" /\ i < Len(down')
          BY <4>2, <1>2, <2>2, <3>2
        <5> QED BY <5>1, <4>2, <2>2 DEF WireInv
      <4>3. CASE i = Len(down) /\ i \in 1..Len(down)
        <5>1. down[i].part = "header"
          BY <3>2, <4>3, <2>2
        <5>2. Len(reply) = 1
          BY <4>3, <5>1, <1>1, <1>2 DEF WireInv
        <5> QED BY <4>3, <5>2, <1>2, <2>2
      <4> QED BY <4>1, <4>2, <4>3, <2>2, <1>2
    <3> QED BY <1>1, <3>1, <3>2 DEF WireInv
  <2>9. CallInv'
    <3>1. ASSUME NEW c \in Calls, phase[c] = "payload"
          PROVE  /\ c \notin CallsIn(down') /\ (current' = c => server' = "payload")
                 /\ \A i \in 1..Len(up) : up[i].answer.call = c => up[i].part = "header"
      <4>1. /\ c \notin CallsIn(down) /\ current # c
            /\ \A i \in 1..Len(up) : up[i].answer.call = c => up[i].part = "header"
        BY <3>1, <1>1 DEF CallInv
      <4> QED BY <4>1, <2>1, <2>2, UnitCalls
    <3>2. ASSUME NEW c \in Calls, phase[c] = "body"
          PROVE  down'[1].part = "payload"
      <4>1. CASE down = << >>
        BY <3>2, <4>1, <1>1, <1>2, <2>2 DEF CallInv
      <4>2. CASE down # << >>
        <5>1. 1 \in 1..Len(down) /\ down[1].part = "payload"
          BY <3>2, <4>2, <1>2, CallsInTail DEF CallInv
        <5> QED BY <5>1, <2>2
      <4> QED BY <4>1, <4>2
    <3>3. ASSUME NEW c \in Calls, phase[c] = "await", \A e \in Calls : e < c => e \notin timedOut
          PROVE  down'[1].part = "header"
      <4>1. CASE down = << >>
        <5>1. Len(reply) # 1 /\ Len(down) = 0
          BY <3>3, <4>1 DEF CallInv
        <5> QED BY <5>1, <1>2, <2>2
      <4>2. CASE down # << >>
        <5>1. 1 \in 1..Len(down) /\ down[1].part = "header"
          BY <3>3, <4>2, <1>2, CallsInTail DEF CallInv
        <5> QED BY <5>1, <2>2
      <4> QED BY <4>1, <4>2
    <3>4. \A c \in Calls : phase[c] = "adrift" => \E e \in Calls : e < c /\ e \in timedOut
      BY DEF CallInv
    <3> QED BY <1>1, <2>2, <3>1, <3>2, <3>3, <3>4 DEF CallInv
  <2>10. ExecutedInv'
    <3>1. current' # NoCall => current' = current /\ server' = "write"
      BY <2>1
    <3>2. server' # "handle"
      BY <2>1
    <3> QED BY <1>1, <1>2, <3>1, <3>2 DEF ExecutedInv
  <2> QED BY <2>3, <2>4, <2>7, <2>8, <2>9, <2>10, <1>1, ServerKeepsCalls
<1>4. CASE clientClosed /\ End /\ down' = down
  BY <1>1, <1>4, EndKeeps DEF daemon
<1> QED BY <1>3, <1>4 DEF WriteReply

\* The daemon dies, or the session goes elsewhere.
LEMMA DaemonDiesKeeps == IInv /\ DaemonDies => IInv'
BY EndKeeps DEF DaemonDies

LEMMA RemovedElsewhereKeeps == IInv /\ RemovedElsewhere => IInv'
<1> SUFFICES ASSUME IInv, RemovedElsewhere PROVE IInv'
  OBVIOUS
<1>1. UNCHANGED <<client, wires, serving, peer, executed>> /\ live' = FALSE
  BY DEF RemovedElsewhere
<1>2. TypeInv' /\ UNCHANGED InFlight
  BY <1>1 DEF IInv, TypeInv, TypeOK, InFlight, client, wires, serving
<1>3. ServerInv' /\ WireInv' /\ CallInv' /\ ExecutedInv'
  BY <1>1 DEF IInv, ServerInv, WireInv, CallInv, ExecutedInv, Gone, client, wires, serving
<1> QED BY <1>1, <1>2, <1>3, ServerKeepsCalls DEF IInv
-----------------------------------------------------------------------------
(***************************************************************************)
(* The client's actions.                                                   *)
(***************************************************************************)

\* Only one call at a time is past Client.mu: those before it have returned, those
\* behind it have not begun.
LEMMA Turn ==
  ASSUME TypeInv, TurnsInv, NEW c \in Calls, phase[c] \in InCall
  PROVE  /\ \A e \in Calls : e < c => phase[e] = "returned"
         /\ \A e \in Calls : e > c => phase[e] \in {"new", "waiting"}
         /\ \A e \in Calls : e # c => phase[e] \in {"new", "waiting", "returned"}
         /\ c \in Nat /\ phase[c] \notin {"new", "waiting", "returned"}
<1>1. phase[c] \notin {"new", "waiting", "returned"}
  BY DEF InCall
<1>2. \A e \in Calls : e < c => phase[e] = "returned"
  BY <1>1 DEF TurnsInv
<1>3. \A e \in Calls : e > c => phase[e] \in {"new", "waiting"}
  <2>1. SUFFICES ASSUME NEW e \in Calls, e > c, phase[e] \notin {"new", "waiting"} PROVE FALSE
    OBVIOUS
  <2>2. c < e
    BY <2>1, UnitCalls
  <2> QED BY <1>1, <2>1, <2>2 DEF TurnsInv
<1>4. \A e \in Calls : e < c \/ e > c \/ e = c
  BY UnitCalls
<1> QED BY <1>1, <1>2, <1>3, <1>4, UnitCalls

\* An answer given out is that of a call no later than the one it was given to.
LEMMA Answered ==
  ASSUME TypeInv, AnswersInv, NEW c \in Calls
  PROVE  result[c].call \in Nat /\ result[c].call <= c
<1>1. result[c] \in Answers \cup {Pending, Failed}
  BY DEF TypeInv, TypeOK
<1>2. result[c].call \in Nat
  <2>1. CASE result[c] \in Answers
    BY <2>1, UnitCalls DEF Answers
  <2>2. CASE result[c] \in {Pending, Failed}
    BY <2>2 DEF Pending, Failed, NoCall
  <2> QED BY <1>1, <2>1, <2>2
<1>3. result[c].call # NoCall => result[c].call <= c
  BY DEF AnswersInv, OnlyLateAnswersStray
<1> QED BY <1>2, <1>3, UnitCalls DEF NoCall

\* The client takes a unit from the socket.
LEMMA ReadKeeps ==
  ASSUME IInv, down # << >>, down' = Tail(down), UNCHANGED <<up, serving, clientClosed>>
  PROVE  /\ down' \in Seq(Units) /\ Len(down') <= WireBuffer
         /\ InFlight' \subseteq InFlight /\ ServerInv' /\ WireInv'
<1> USE DEF IInv
<1>1. /\ UNCHANGED <<up, server, current, reply, clientClosed>> /\ down \in Seq(Units)
      /\ Len(down) <= WireBuffer /\ WireBuffer \in Nat
  BY Wires, WireAssumption DEF serving, TypeInv, TypeOK
<1>2. /\ CallsIn(down') \subseteq CallsIn(down) /\ down' \in Seq(Units) /\ Len(down) \in Nat \ {0}
      /\ Len(down') = Len(down) - 1
      /\ \A i \in 1..Len(down') : down'[i] = down[i + 1] /\ i + 1 \in 1..Len(down)
  BY <1>1, CallsInTail
<1>3. Len(down') <= WireBuffer
  BY <1>1, <1>2
<1>4. InFlight' \subseteq InFlight
  BY <1>1, <1>2 DEF InFlight
<1>5. ServerInv'
  <2>1. \A x \in CallsIn(up') : \A y \in CallsIn(down') : y < x
    BY <1>1, <1>2 DEF ServerInv
  <2>2. ASSUME current # NoCall, NEW i \in 1..Len(down')
        PROVE  \/ down'[i].answer.call < current
               \/ /\ server = "write" /\ Len(reply) = 1 /\ i = Len(down')
                  /\ down'[i].part = "header" /\ down'[i].answer = reply[1].answer
    <3>1. \/ down[i + 1].answer.call < current
          \/ /\ server = "write" /\ Len(reply) = 1 /\ i + 1 = Len(down)
             /\ down[i + 1].part = "header" /\ down[i + 1].answer = reply[1].answer
      BY <1>2, <2>2 DEF ServerInv
    <3>2. i + 1 = Len(down) => i = Len(down')
      <4>1. i \in Nat /\ Len(down) \in Nat /\ Len(down') = Len(down) - 1
        BY <1>2
      <4>2. \A m, n \in Nat : m + 1 = n => m = n - 1
        OBVIOUS
      <4> QED BY <4>1, <4>2
    <3> QED BY <1>2, <3>1, <3>2
  <2> QED BY <1>1, <2>1, <2>2 DEF ServerInv, Gone
<1>6. WireInv'
  <2>1. Ordered(down')
    BY <1>1, OrderedTail DEF WireInv
  <2>2. ASSUME NEW i \in 1..Len(down'), down'[i].part = "header"
        PROVE  \/ i < Len(down') /\ down'[i + 1].part = "payload"
               \/ i = Len(down') /\ (Gone \/ (server = "write" /\ Len(reply) = 1))
    <3>1. \/ i + 1 < Len(down) /\ down[(i + 1) + 1].part = "payload"
          \/ i + 1 = Len(down) /\ (Gone \/ (server = "write" /\ Len(reply) = 1))
      BY <1>2, <2>2 DEF WireInv
    <3>2. i + 1 = Len(down) => i = Len(down')
      <4>1. i \in Nat /\ Len(down) \in Nat /\ Len(down') = Len(down) - 1
        BY <1>2
      <4>2. \A m, n \in Nat : m + 1 = n => m = n - 1
        OBVIOUS
      <4> QED BY <4>1, <4>2
    <3>3. i + 1 < Len(down) => i < Len(down') /\ i + 1 \in 1..Len(down')
      BY <1>2
    <3> QED BY <1>2, <3>1, <3>2, <3>3
  <2> QED BY <1>1, <2>1, <2>2 DEF WireInv, Gone
<1> QED BY <1>2, <1>3, <1>4, <1>5, <1>6

\* A goroutine asks for Client.mu, or takes it.
LEMMA TakesTurn ==
  ASSUME IInv, NEW c \in Calls, phase[c] \in {"new", "waiting"}, NEW s \in {"waiting", "header"},
         phase' = [phase EXCEPT ![c] = s],
         s = "header" => \A d \in Calls : d < c => phase[d] = "returned",
         op' \in [Calls -> Ops \cup {"none"}],
         UNCHANGED <<result, sent, timedOut, clientClosed, wires, serving, daemon>>
  PROVE  IInv'
<1> USE DEF IInv
<1>1. UNCHANGED <<result, sent, timedOut, clientClosed, up, down, server, current, reply, peer, live,
                  executed>>
  BY DEF wires, serving, daemon
<1>2. phase \in [Calls -> {"new", "waiting", "returned"} \cup InCall] /\ "header" \in InCall
  BY DEF TypeInv, TypeOK, InCall
<1>3. /\ phase'[c] = s /\ \A e \in Calls : e # c => phase'[e] = phase[e]
      /\ phase' \in [Calls -> {"new", "waiting", "returned"} \cup InCall]
  BY <1>2
<1>4. TypeInv'
  BY <1>1, <1>3 DEF TypeInv, TypeOK
<1>5. TurnsInv'
  <2>1. ASSUME NEW e \in Calls, phase'[e] \notin {"new", "waiting"}, NEW d \in Calls, d < e
        PROVE  phase'[d] = "returned"
    <3>1. phase[d] = "returned"
      BY <2>1, <1>3 DEF TurnsInv
    <3> QED BY <3>1, <1>3
  <2>2. \A e \in Calls : phase'[e] # "returned" => phase[e] # "returned"
    BY <1>3
  <2>3. clientClosed => \A e \in Calls : phase'[e] \in {"new", "waiting", "header", "returned"}
    BY <1>3 DEF TurnsInv
  <2> QED BY <1>1, <2>1, <2>2, <2>3 DEF TurnsInv
<1>6. FlightInv'
  <2>1. InFlight' = InFlight /\ InFlight \subseteq Nat
    BY <1>1, Wires, UnitCalls DEF InFlight
  <2>2. \A e \in Calls : phase'[e] = "returned" => phase[e] = "returned"
    BY <1>3
  <2>3. ASSUME NEW e \in Calls, NEW x \in InFlight
        PROVE  /\ phase'[e] \in {"new", "waiting", "header"} => x < e
               /\ phase'[e] \in InCall => x <= e
    <3>1. CASE e = c
      BY <3>1, <2>1, <2>3, UnitCalls DEF FlightInv
    <3>2. CASE e # c
      BY <3>2, <1>3 DEF FlightInv
    <3> QED BY <3>1, <3>2
  <2> QED BY <1>1, <2>1, <2>2, <2>3 DEF FlightInv
<1>7. ServerInv' /\ WireInv'
  BY <1>1 DEF ServerInv, WireInv, Gone
<1>8. CallInv'
  <2>1. \A e \in Calls : phase'[e] \in {"payload", "body", "await", "adrift"} => phase'[e] = phase[e]
    BY <1>3
  <2> QED BY <1>1, <2>1 DEF CallInv, Gone
<1>9. ExecutedInv'
  <2>1. \A e \in Calls : phase'[e] \in {"new", "waiting", "header", "payload"} =>
          phase[e] \in {"new", "waiting", "header", "payload"}
    BY <1>3
  <2> QED BY <1>1, <2>1 DEF ExecutedInv
<1>10. AnswersInv'
  BY <1>1 DEF AnswersInv, OnlyLateAnswersStray
<1> QED BY <1>4, <1>5, <1>6, <1>7, <1>8, <1>9, <1>10
\* Client.call returns, with an answer that was the oldest thing in flight or with
\* none, and leaves nothing in flight on a connection that no deadline has spoilt.
LEMMA ReturnKeeps ==
  ASSUME IInv, NEW c \in Calls, phase[c] \in InCall, NEW a \in Answers \cup {Failed}, Return(c, a),
         UNCHANGED <<op, sent, clientClosed, up, serving, daemon>>,
         timedOut \subseteq timedOut', timedOut' \subseteq Calls,
         down' = down \/ (down # << >> /\ down' = Tail(down)),
         a.call # NoCall => a.call \in InFlight /\ \A x \in InFlight' : a.call < x,
         (\E e \in timedOut' : e <= c) \/ InFlight' = {}
  PROVE  IInv'
<1> USE DEF IInv
<1>1. /\ UNCHANGED <<op, sent, clientClosed, up, server, current, reply, peer, live, executed>>
      /\ UNCHANGED serving
  BY DEF serving, daemon
<1>2. /\ down' \in Seq(Units) /\ Len(down') <= WireBuffer /\ InFlight' \subseteq InFlight
      /\ ServerInv' /\ WireInv'
  <2>1. CASE down' = down
    BY <2>1, <1>1, Wires DEF TypeInv, TypeOK, InFlight, ServerInv, WireInv, Gone
  <2>2. CASE down # << >> /\ down' = Tail(down)
    BY <2>2, <1>1, ReadKeeps
  <2> QED BY <2>1, <2>2
<1>3. /\ phase \in [Calls -> {"new", "waiting", "returned"} \cup InCall]
      /\ result \in [Calls -> Answers \cup {Pending, Failed}]
  BY DEF TypeInv, TypeOK
<1>4. /\ phase'[c] = "returned" /\ result'[c] = a
      /\ \A e \in Calls : e # c => phase'[e] = phase[e] /\ result'[e] = result[e]
      /\ phase' \in [Calls -> {"new", "waiting", "returned"} \cup InCall]
      /\ result' \in [Calls -> Answers \cup {Pending, Failed}]
  BY <1>3 DEF Return
<1>5. /\ \A e \in Calls : e < c => phase[e] = "returned"
      /\ \A e \in Calls : e > c => phase[e] \in {"new", "waiting"}
      /\ \A e \in Calls : phase'[e] \in {"new", "waiting", "returned"}
      /\ c \in Nat /\ phase[c] \notin {"new", "waiting", "returned"}
  BY <1>4, Turn
<1>6. a.call \in Nat
  <2>1. CASE a \in Answers
    BY <2>1, UnitCalls DEF Answers
  <2>2. CASE a = Failed
    BY <2>2 DEF Failed, NoCall
  <2> QED BY <2>1, <2>2
<1>7. InFlight \subseteq Nat
  BY Wires, UnitCalls
<1>8. TypeInv'
  BY <1>1, <1>2, <1>4 DEF TypeInv, TypeOK
<1>9. TurnsInv'
  <2>1. ASSUME NEW e \in Calls, phase'[e] \notin {"new", "waiting"}, NEW d \in Calls, d < e
        PROVE  phase'[d] = "returned"
    <3>1. e = c \/ e # c
      OBVIOUS
    <3>2. phase[e] \notin {"new", "waiting"}
      BY <2>1, <1>4, <1>5
    <3> QED BY <2>1, <3>2, <1>4 DEF TurnsInv
  <2>2. \A e \in Calls : phase'[e] # "returned" => result'[e] = Pending
    BY <1>4 DEF TurnsInv
  <2>3. clientClosed => \A e \in Calls : phase'[e] \in {"new", "waiting", "header", "returned"}
    BY <1>5
  <2> QED BY <1>1, <2>1, <2>2, <2>3 DEF TurnsInv
<1>10. FlightInv'
  <2>1. ASSUME NEW e \in Calls, NEW x \in InFlight'
        PROVE  /\ phase'[e] \in {"new", "waiting", "header"} => x < e
               /\ phase'[e] \in InCall => x <= e
               /\ result'[e].call < x
    <3>1. CASE e # c
      BY <2>1, <3>1, <1>2, <1>4 DEF FlightInv
    <3>2. CASE e = c
      <4>1. x \in Nat /\ x # 0
        BY <2>1, <1>2, Wires, UnitCalls DEF NoCall
      <4>2. a.call < x
        BY <4>1, <2>1, <1>6 DEF NoCall
      <4>3. phase'[c] \notin InCall
        BY <1>4 DEF InCall
      <4> QED BY <3>2, <4>2, <4>3, <1>4
    <3> QED BY <3>1, <3>2
  <2>2. ASSUME NEW e \in Calls, NEW x \in InFlight',
               \A d \in Calls : d < e => phase'[d] = "returned" /\ d \notin timedOut'
        PROVE  e <= x
    <3>1. e <= c
      <4>1. PICK d \in timedOut' : d <= c
        BY <2>2
      <4>2. ~(d < e) /\ d \in Nat /\ e \in Nat
        BY <4>1, <2>2, UnitCalls
      <4> QED BY <4>1, <4>2, <1>5
    <3>2. \A d \in Calls : d < e => d # c /\ d \in Nat
      BY <3>1, <1>5, UnitCalls
    <3>3. \A d \in Calls : d < e => phase[d] = "returned" /\ d \notin timedOut
      BY <3>2, <2>2, <1>4
    <3> QED BY <3>3, <2>2, <1>2 DEF FlightInv
  <2> QED BY <2>1, <2>2 DEF FlightInv
<1>11. CallInv'
  BY <1>5 DEF CallInv
<1>12. ExecutedInv'
  <2>1. \A e \in Calls : phase'[e] \in {"new", "waiting", "header", "payload"} =>
          phase[e] \in {"new", "waiting", "header", "payload"}
    BY <1>4
  <2> QED BY <1>1, <2>1 DEF ExecutedInv
<1>13. AnswersInv'
  <2>1. ASSUME NEW e \in Calls, result'[e].call # NoCall
        PROVE  /\ result'[e].call <= e
               /\ result'[e].call < e => \E t \in timedOut' : t < e
               /\ \A b \in Calls : b < e => result'[b].call < result'[e].call
    <3>1. CASE e = c
      <4>1. a.call \in InFlight /\ phase[c] \in InCall
        BY <2>1, <3>1, <1>4
      <4>2. a.call <= c
        BY <4>1 DEF FlightInv
      <4>3. a.call < c => \E t \in timedOut' : t < c
        <5>1. SUFFICES ASSUME a.call < c, \A t \in Calls : t < c => t \notin timedOut PROVE FALSE
          BY DEF TypeInv, TypeOK
        <5>2. c <= a.call
          BY <5>1, <4>1, <1>5 DEF FlightInv
        <5> QED BY <5>1, <5>2, <1>5, <1>6
      <4>4. \A b \in Calls : b < c => result'[b].call < a.call
        <5>1. \A b \in Calls : b < c => b # c
          BY <1>5, UnitCalls
        <5> QED BY <5>1, <4>1, <1>4 DEF FlightInv
      <4> QED BY <3>1, <4>2, <4>3, <4>4, <1>4
    <3>2. CASE e # c
      <4>1. result[e].call # NoCall /\ result'[e] = result[e]
        BY <3>2, <2>1, <1>4
      <4>2. phase[e] = "returned"
        BY <4>1 DEF TurnsInv, Pending
      <4>3. ~(c < e)
        BY <4>2, <1>5, UnitCalls
      <4>4. \A b \in Calls : b < e => result'[b] = result[b]
        BY <4>3, <1>4
      <4> QED BY <4>1, <4>4 DEF AnswersInv, OnlyLateAnswersStray
    <3> QED BY <3>1, <3>2
  <2> QED BY <2>1 DEF AnswersInv, OnlyLateAnswersStray
<1> QED BY <1>2, <1>8, <1>9, <1>10, <1>11, <1>12, <1>13

\* Nothing is in flight any more once the daemon is gone and its answers are read.
LEMMA NothingInFlight ==
  ASSUME IInv, Gone, ~clientClosed, down = << >>
  PROVE  InFlight = {}
<1>1. up = << >> /\ current = NoCall
  BY DEF IInv, ServerInv, Gone
<1>2. Len(up) = 0 /\ Len(down) = 0
  BY <1>1
<1> QED BY <1>1, <1>2 DEF InFlight, CallsIn

\* Client.call waits for a header and reads it, or what stands in its place.
LEMMA ReadHeaderKeeps == ASSUME IInv, NEW c \in Calls, ReadHeader(c) PROVE IInv'
<1> USE DEF IInv
<1>1. /\ phase[c] = "await" /\ ~clientClosed /\ phase[c] \in InCall
      /\ UNCHANGED <<op, sent, timedOut, clientClosed, up, serving, daemon>>
  BY DEF ReadHeader, InCall
<1>2. Failed \in Answers \cup {Failed} /\ Failed.call = NoCall /\ timedOut \subseteq Calls
  BY DEF Failed, TypeInv, TypeOK
<1>3. CASE down # << >> /\ down' = Tail(down) /\ UNCHANGED result
           /\ \E s \in {"body", "adrift"} :
                /\ phase' = [phase EXCEPT ![c] = s]
                /\ s = "body" => down[1].part = "header"
                /\ s = "adrift" => \E e \in Calls : e < c /\ e \in timedOut
  <2>1. PICK s \in {"body", "adrift"} :
          /\ phase' = [phase EXCEPT ![c] = s]
          /\ s = "body" => down[1].part = "header"
          /\ s = "adrift" => \E e \in Calls : e < c /\ e \in timedOut
    BY <1>3
  <2>2. /\ down' \in Seq(Units) /\ Len(down') <= WireBuffer /\ InFlight' \subseteq InFlight
        /\ ServerInv' /\ WireInv'
    BY <1>1, <1>3, ReadKeeps
  <2>3. /\ UNCHANGED <<result, op, sent, timedOut, clientClosed, up, server, current, reply, peer,
                       live, executed>>
    BY <1>1, <1>3 DEF serving, daemon
  <2>4. /\ phase'[c] = s /\ \A e \in Calls : e # c => phase'[e] = phase[e]
        /\ phase' \in [Calls -> {"new", "waiting", "returned"} \cup InCall]
        /\ s \in InCall /\ s \notin {"new", "waiting", "header", "payload", "await", "returned"}
    BY <2>1 DEF TypeInv, TypeOK, InCall
  <2>5. \A e \in Calls : e # c => phase[e] \in {"new", "waiting", "returned"}
    BY <1>1, Turn
  <2>6. TypeInv'
    BY <2>2, <2>3, <2>4 DEF TypeInv, TypeOK
  <2>7. TurnsInv'
    <3>1. \A e \in Calls : /\ phase'[e] \notin {"new", "waiting"} => phase[e] \notin {"new", "waiting"}
                           /\ phase[e] = "returned" => phase'[e] = "returned"
                           /\ phase'[e] = "returned" => phase[e] = "returned"
      BY <1>1, <2>4
    <3>2. ~clientClosed'
      BY <1>1, <2>3
    <3>3. \A e \in Calls : phase[e] # "returned" => result'[e] = Pending
      BY <2>3 DEF TurnsInv
    <3> QED BY <3>1, <3>2, <3>3 DEF TurnsInv
  <2>8. FlightInv'
    <3>1. \A e \in Calls : /\ phase'[e] = "returned" => phase[e] = "returned"
                           /\ phase'[e] \in InCall => phase[e] \in InCall
                           /\ phase'[e] \in {"new", "waiting", "header"} => phase'[e] = phase[e]
      BY <1>1, <2>4
    <3>2. ASSUME NEW e \in Calls, NEW x \in InFlight'
          PROVE  /\ phase'[e] \in {"new", "waiting", "header"} => x < e
                 /\ phase'[e] \in InCall => x <= e
                 /\ result'[e].call < x
      BY <2>2, <2>3, <3>1, <3>2 DEF FlightInv
    <3>3. ASSUME NEW e \in Calls, NEW x \in InFlight',
                 \A d \in Calls : d < e => phase'[d] = "returned" /\ d \notin timedOut'
          PROVE  e <= x
      BY <2>2, <2>3, <3>1, <3>3 DEF FlightInv
    <3> QED BY <3>2, <3>3 DEF FlightInv
  <2>9. CallInv'
    <3>1. \A e \in Calls : phase'[e] \notin {"payload", "await"}
      BY <2>4, <2>5
    <3>2. s = "body" => /\ down' # << >> => down'[1].part = "payload"
                        /\ down' = << >> => Gone \/ Len(reply) = 1
      <4>1. SUFFICES ASSUME s = "body"
                     PROVE  /\ down' # << >> => down'[1].part = "payload"
                            /\ down' = << >> => Gone \/ Len(reply) = 1
        OBVIOUS
      <4>2. /\ 1 \in 1..Len(down) /\ Len(down) \in Nat /\ Len(down') = Len(down) - 1
            /\ \A i \in 1..Len(down') : down'[i] = down[i + 1]
        BY <1>3, Wires, CallsInTail
      <4>3. \/ 1 < Len(down) /\ down[1 + 1].part = "payload"
            \/ 1 = Len(down) /\ (Gone \/ (server = "write" /\ Len(reply) = 1))
        BY <2>1, <4>1, <4>2 DEF WireInv
      <4>4. CASE 1 < Len(down)
        <5>1. 1 \in 1..Len(down') /\ Len(down') # 0
          BY <4>2, <4>4
        <5>2. down' # << >>
          BY <5>1
        <5> QED BY <4>2, <4>3, <4>4, <5>1, <5>2
      <4>5. CASE 1 = Len(down)
        <5>1. Len(down') = 0
          <6>1. Len(down') = Len(down) - 1 /\ Len(down) = 1
            BY <4>2, <4>5
          <6>2. Len(down') = 1 - 1
            BY ONLY <6>1, Zenon
          <6> QED BY ONLY <6>2
        <5>2. down' = << >>
          BY <5>1, <2>2, EmptySeq
        <5> QED BY <4>3, <4>5, <5>2
      <4> QED BY <4>3, <4>4, <4>5
    <3>3. \A e \in Calls : e # c => phase'[e] \notin {"body", "adrift"}
      BY <2>4, <2>5
    <3> QED BY <2>1, <2>3, <2>4, <3>1, <3>2, <3>3 DEF CallInv, Gone
  <2>10. ExecutedInv'
    <3>1. \A e \in Calls : phase'[e] \in {"new", "waiting", "header", "payload"} =>
            phase[e] \in {"new", "waiting", "header", "payload"}
      BY <2>4
    <3> QED BY <2>3, <3>1 DEF ExecutedInv
  <2>11. AnswersInv'
    BY <2>3 DEF AnswersInv, OnlyLateAnswersStray
  <2> QED BY <2>2, <2>6, <2>7, <2>8, <2>9, <2>10, <2>11
<1>4. down # << >> => Head(down) = down[1] /\ (down[1].part = "payload" =>
                                               \E e \in Calls : e < c /\ e \in timedOut)
  <2>1. SUFFICES ASSUME down # << >>
                 PROVE  Head(down) = down[1] /\ (down[1].part # "header" =>
                                                 \E e \in Calls : e < c /\ e \in timedOut)
    OBVIOUS
  <2>2. Head(down) = down[1]
    BY <2>1, Wires, CallsInTail
  <2> QED BY <1>1, <2>1, <2>2 DEF CallInv
<1>5. CASE down # << >> /\ down[1].part = "payload" /\ down' \in {down, Tail(down)} /\ Return(c, Failed)
  <2>1. \E e \in timedOut' : e <= c
    BY <1>1, <1>4, <1>5, UnitCalls, Turn
  <2> QED BY <1>1, <1>2, <1>5, <2>1, ReturnKeeps
<1>6. CASE down = << >> /\ Gone /\ Return(c, Failed) /\ UNCHANGED down
  <2>1. InFlight' = {}
    BY <1>1, <1>6, NothingInFlight DEF InFlight, serving
  <2> QED BY <1>1, <1>2, <1>6, <2>1, ReturnKeeps
<1>7. \/ down # << >> /\ Head(down).part = "header" /\ down' = Tail(down) /\ UNCHANGED result
         /\ phase' = [phase EXCEPT ![c] = "body"]
      \/ down # << >> /\ Head(down).part = "payload" /\ down' = Tail(down) /\ UNCHANGED result
         /\ phase' = [phase EXCEPT ![c] = "adrift"]
      \/ down # << >> /\ Head(down).part = "payload" /\ down' \in {down, Tail(down)}
         /\ Return(c, Failed)
      \/ down = << >> /\ Gone /\ Return(c, Failed) /\ UNCHANGED down
  BY DEF ReadHeader
<1> QED BY <1>3, <1>4, <1>5, <1>6, <1>7
\* Client.call reads its answer: the oldest thing in flight.
LEMMA ReadBodyKeeps == ASSUME IInv, NEW c \in Calls, ReadBody(c) PROVE IInv'
<1> USE DEF IInv
<1>1. /\ phase[c] \in {"body", "adrift"} /\ phase[c] \in InCall /\ ~clientClosed
      /\ UNCHANGED <<op, sent, timedOut, clientClosed, up, serving, daemon>>
  BY DEF ReadBody, InCall, TurnsInv
<1>2. Failed \in Answers \cup {Failed} /\ Failed.call = NoCall /\ timedOut \subseteq Calls
  BY DEF Failed, TypeInv, TypeOK
<1>3. CASE down = << >> /\ Gone /\ Return(c, Failed) /\ UNCHANGED down
  <2>1. InFlight' = {}
    BY <1>1, <1>3, NothingInFlight DEF InFlight, serving
  <2> QED BY <1>1, <1>2, <1>3, <2>1, ReturnKeeps
<1>4. CASE down # << >> /\ down' = Tail(down) /\ UNCHANGED <<phase, result>> /\ phase[c] = "adrift"
  <2>1. /\ down' \in Seq(Units) /\ Len(down') <= WireBuffer /\ InFlight' \subseteq InFlight
        /\ ServerInv' /\ WireInv'
    BY <1>1, <1>4, ReadKeeps
  <2>2. /\ UNCHANGED <<phase, result, op, sent, timedOut, clientClosed, up, server, current, reply,
                       peer, live, executed, client>>
    BY <1>1, <1>4 DEF serving, daemon, client
  <2>3. TypeInv' /\ ExecutedInv'
    BY <2>1, <2>2 DEF TypeInv, TypeOK, ExecutedInv
  <2>4. CallInv'
    <3>1. \A e \in Calls : e # c => phase[e] \in {"new", "waiting", "returned"}
      BY <1>1, Turn
    <3>2. \A e \in Calls : phase[e] = "adrift" => \E d \in Calls : d < e /\ d \in timedOut
      BY DEF CallInv
    <3> QED BY <1>4, <2>2, <3>1, <3>2 DEF CallInv
  <2> QED BY <2>1, <2>2, <2>3, <2>4, <1>1, ServerKeepsCalls
<1>5. CASE down # << >> /\ down' = Tail(down) /\ phase[c] = "body" /\ Return(c, Head(down).answer)
  <2>1. /\ down \in Seq(Units) /\ Head(down) = down[1] /\ down[1] \in Units /\ 1 \in 1..Len(down)
        /\ down[1].answer \in Answers /\ down[1].answer.call \in CallsIn(down)
        /\ InFlight \subseteq Calls
    BY <1>5, Wires, CallsInTail, UnitCalls
  <2>2. down[1].part = "payload"
    BY <1>5 DEF CallInv
  <2> DEFINE d == down[1].answer.call
  <2>3. d \in InFlight /\ d \in Nat /\ d <= c /\ c \in Nat
    <3>1. d \in InFlight
      BY <2>1 DEF InFlight
    <3> QED BY <3>1, <2>1, <1>1, UnitCalls DEF FlightInv
  <2>4. \A x \in CallsIn(down') : d < x
    <3>1. \A i \in 1..Len(Tail(down)) : d < Tail(down)[i].answer.call
      BY <1>5, <2>1, <2>2, OrderedTail DEF WireInv
    <3> QED BY <3>1, <1>5 DEF CallsIn
  <2>5. \A x \in CallsIn(up) : d < x
    BY <2>1 DEF ServerInv
  <2>6. current # NoCall => d < current
    BY <2>1, <2>2 DEF ServerInv
  <2>7. \A x \in InFlight' : d < x /\ x \in InFlight
    <3>1. up' = up /\ current' = current
      BY <1>1 DEF serving
    <3>2. CallsIn(down') \subseteq CallsIn(down)
      BY <1>5, <2>1, CallsInTail
    <3> QED BY <2>4, <2>5, <2>6, <3>1, <3>2 DEF InFlight
  <2>8. (\E e \in timedOut' : e <= c) \/ InFlight' = {}
    <3>1. SUFFICES ASSUME \A e \in timedOut : ~(e <= c), NEW x \in InFlight' PROVE FALSE
      BY <1>1
    <3>2. \A e \in Calls : e < c => phase[e] = "returned" /\ e \notin timedOut
      <4>1. \A e \in Calls : e < c => e <= c
        BY <2>3, UnitCalls
      <4> QED BY <4>1, <3>1, <1>1, Turn
    <3>3. c <= d
      BY <3>2, <2>3 DEF FlightInv
    <3>4. x <= c /\ d < x /\ x \in Nat
      BY <2>7, <2>1, <1>1, UnitCalls DEF FlightInv
    <3> QED BY <3>3, <3>4, <2>3
  <2> HIDE DEF d
  <2>9. down[1].answer.call = d
    BY DEF d
  <2> QED BY <1>1, <1>2, <1>5, <2>1, <2>3, <2>7, <2>8, <2>9, ReturnKeeps
<1>6. \/ down # << >> /\ down' = Tail(down) /\ phase[c] = "body" /\ Return(c, Head(down).answer)
      \/ down # << >> /\ down' = Tail(down) /\ UNCHANGED <<phase, result>> /\ phase[c] = "adrift"
      \/ down = << >> /\ Gone /\ Return(c, Failed) /\ UNCHANGED down
  BY <1>1 DEF ReadBody
<1>7. phase[c] = "body" \/ phase[c] = "adrift"
  BY <1>1
<1> QED BY <1>3, <1>4, <1>5, <1>6

\* The deadline ends a call, and marks the connection.
LEMMA DeadlineKeeps == ASSUME IInv, NEW c \in Calls, Deadline(c) PROVE IInv'
<1> USE DEF IInv
<1>1. /\ phase[c] \in InCall /\ Return(c, Failed) /\ timedOut' = timedOut \cup {c}
      /\ UNCHANGED <<op, sent, clientClosed, up, down, serving, daemon>>
  BY DEF Deadline, wires
<1>2. Failed \in Answers \cup {Failed} /\ Failed.call = NoCall /\ timedOut' \subseteq Calls
  BY <1>1 DEF Failed, TypeInv, TypeOK
<1>3. \E e \in timedOut' : e <= c
  <2>1. c \in timedOut' /\ c \in Nat
    BY <1>1, UnitCalls
  <2> QED BY <2>1
<1> QED BY <1>1, <1>2, <1>3, ReturnKeeps

\* Client.Close finds no call in progress.
LEMMA CloseClientKeeps == IInv /\ CloseClient => IInv'
<1> SUFFICES ASSUME IInv, CloseClient PROVE IInv'
  OBVIOUS
<1> USE DEF IInv
<1>1. /\ MuFree /\ clientClosed' = TRUE
      /\ UNCHANGED <<phase, result, op, sent, timedOut, up, down, server, current, reply, peer, live,
                     executed>>
  BY DEF CloseClient, wires, serving, daemon
<1>2. InFlight' = InFlight
  BY <1>1 DEF InFlight
<1>3. TypeInv' /\ FlightInv' /\ AnswersInv' /\ ExecutedInv'
  BY <1>1, <1>2 DEF TypeInv, TypeOK, FlightInv, AnswersInv, OnlyLateAnswersStray, ExecutedInv
<1>4. TurnsInv'
  <2>1. \A c \in Calls : phase[c] \in {"new", "waiting", "returned"}
    BY <1>1 DEF MuFree, TypeInv, TypeOK
  <2> QED BY <1>1, <2>1 DEF TurnsInv
<1>5. ServerInv' /\ WireInv' /\ CallInv'
  BY <1>1 DEF ServerInv, WireInv, CallInv, Gone
<1> QED BY <1>3, <1>4, <1>5

\* A write on a connection that is closed fails the call: nothing of an earlier one
\* is on the socket then.
LEMMA WriteFails ==
  ASSUME IInv, NEW c \in Calls, phase[c] \in {"header", "payload"}, clientClosed \/ Gone,
         Return(c, Failed), UNCHANGED <<op, sent, timedOut, clientClosed, up, down, serving, daemon>>
  PROVE  IInv'
<1> USE DEF IInv
<1>1. phase[c] \in InCall /\ Failed \in Answers \cup {Failed} /\ Failed.call = NoCall
      /\ timedOut \subseteq Calls
  BY DEF Failed, TypeInv, TypeOK, InCall
<1>2. c \in Nat /\ InFlight \subseteq Nat /\ InFlight' = InFlight
  BY Wires, UnitCalls DEF InFlight, serving
<1>3. \A x \in InFlight : x < c
  <2>1. CASE phase[c] = "header"
    BY <2>1 DEF FlightInv
  <2>2. CASE phase[c] = "payload"
    <3>1. Gone /\ ~clientClosed
      BY <2>2 DEF TurnsInv
    <3>2. up = << >> /\ current = NoCall
      BY <3>1 DEF ServerInv, Gone
    <3>3. CallsIn(up) = {}
      BY <3>2 DEF CallsIn
    <3>4. \A x \in InFlight : x # c /\ x <= c
      BY <2>2, <3>2, <3>3, <1>1 DEF InFlight, CallInv, FlightInv
    <3> QED BY <3>4, <1>2
  <2> QED BY <2>1, <2>2
<1>4. (\E e \in timedOut' : e <= c) \/ InFlight' = {}
  <2>1. SUFFICES ASSUME \A e \in timedOut : ~(e <= c), NEW x \in InFlight PROVE FALSE
    BY <1>2
  <2>2. \A e \in Calls : e < c => phase[e] = "returned" /\ e \notin timedOut
    <3>1. \A e \in Calls : e < c => e <= c
      BY <1>2, UnitCalls
    <3> QED BY <3>1, <2>1, <1>1, Turn
  <2>3. c <= x /\ x < c
    BY <2>2, <1>3 DEF FlightInv
  <2> QED BY <2>3, <1>2
<1> QED BY <1>1, <1>4, ReturnKeeps
\* A request's unit goes out behind everything that is in flight.
LEMMA WriteSends ==
  ASSUME IInv, NEW c \in Calls, phase[c] \in {"header", "payload"}, ~clientClosed, ~Gone,
         Len(up) < WireBuffer,
         up' = Append(up, IF phase[c] = "header" THEN Header(c) ELSE Payload(c)),
         phase' = [phase EXCEPT ![c] = IF @ = "header" THEN "payload" ELSE "await"],
         sent' = (IF phase[c] = "payload" THEN sent \cup {c} ELSE sent),
         UNCHANGED <<result, op, timedOut, clientClosed, down, serving, daemon>>
  PROVE  IInv'
<1> USE DEF IInv
<1> DEFINE u == IF phase[c] = "header" THEN Header(c) ELSE Payload(c)
<1>1. /\ UNCHANGED <<result, op, timedOut, clientClosed, down, server, current, reply, peer, live,
                    executed>>
      /\ phase[c] \in InCall /\ InFlight \subseteq Calls /\ down \in Seq(Units)
  BY Wires DEF serving, daemon, InCall
<1>2. /\ u \in Requests /\ u \in Units /\ u.answer.call = c /\ u.answer = Header(c).answer
      /\ phase[c] = "header" => u.part = "header"
      /\ phase[c] = "payload" => u.part = "payload"
  BY RequestUnits
<1>3. up' = Append(up, u)
  OBVIOUS
<1> HIDE DEF u
<1>4. /\ up' \in Seq(Requests) /\ Len(up') = Len(up) + 1 /\ Len(up) \in Nat /\ up'[Len(up) + 1] = u
      /\ \A i \in 1..Len(up) : up'[i] = up[i]
      /\ \A i \in 1..Len(up') : i \in 1..Len(up) \/ i = Len(up) + 1
      /\ CallsIn(up') = CallsIn(up) \cup {c}
  <2>1. up \in Seq(Requests) /\ up \in Seq(Units) /\ Len(up) \in Nat
    BY Wires DEF TypeInv
  <2>2. /\ up' \in Seq(Requests) /\ Len(up') = Len(up) + 1 /\ up'[Len(up) + 1] = u
        /\ \A i \in 1..Len(up) : up'[i] = up[i]
    BY <2>1, <1>2, <1>3, AppendProperties
  <2>3. CallsIn(up') = CallsIn(up) \cup {c}
    BY <2>1, <1>2, <1>3, CallsInAppend
  <2>4. \A i \in 1..Len(up') : i \in 1..Len(up) \/ i = Len(up) + 1
    BY <2>1, <2>2
  <2> QED BY <2>1, <2>2, <2>3, <2>4
<1>5. /\ phase'[c] = (IF phase[c] = "header" THEN "payload" ELSE "await")
      /\ \A e \in Calls : e # c => phase'[e] = phase[e]
      /\ phase' \in [Calls -> {"new", "waiting", "returned"} \cup InCall]
      /\ phase'[c] \in {"payload", "await"} /\ phase'[c] \in InCall
  BY DEF TypeInv, TypeOK, InCall
<1>6. /\ \A e \in Calls : e < c => phase[e] = "returned"
      /\ \A e \in Calls : e > c => phase[e] \in {"new", "waiting"}
      /\ \A e \in Calls : e # c => phase'[e] \in {"new", "waiting", "returned"}
      /\ c \in Nat /\ phase[c] \notin {"new", "waiting", "returned"}
  BY <1>1, <1>5, Turn
<1>7. InFlight' = InFlight \cup {c}
  BY <1>1, <1>4 DEF InFlight
<1>8. sent \subseteq sent' /\ sent' \subseteq Calls
  BY DEF TypeInv, TypeOK
\* What is in flight already belongs to earlier calls, or is this request's header.
<1>9. /\ \A i \in 1..Len(up) : \/ up[i].answer.call < c
                              \/ /\ phase[c] = "payload" /\ up[i].answer = u.answer
                                 /\ up[i].part = "header"
      /\ \A y \in CallsIn(down) : y < c
      /\ current # NoCall => \/ current < c
                             \/ current = c /\ server = "payload" /\ phase[c] = "payload"
  <2>1. CASE phase[c] = "header"
    <3>1. \A x \in InFlight : x < c
      BY <2>1 DEF FlightInv
    <3>2. \A i \in 1..Len(up) : up[i].answer.call \in CallsIn(up)
      BY DEF CallsIn
    <3> QED BY <3>1, <3>2, Wires
  <2>2. CASE phase[c] = "payload"
    <3>1. \A x \in InFlight : x <= c /\ x \in Nat
      BY <2>2, <1>1, UnitCalls DEF FlightInv
    <3>2. /\ c \notin CallsIn(down) /\ (current = c => server = "payload")
          /\ \A i \in 1..Len(up) : up[i].answer.call = c => up[i].part = "header"
      BY <2>2 DEF CallInv
    <3>3. \A y \in CallsIn(down) : y \in InFlight /\ y # c
      BY <3>2, Wires
    <3>4. \A y \in CallsIn(down) : y < c
      BY <3>1, <3>3, <1>6
    <3>5. current # NoCall => current < c \/ (current = c /\ server = "payload")
      BY <3>1, <3>2, <1>6, Wires
    <3>6. ASSUME NEW i \in 1..Len(up)
          PROVE  up[i].answer.call < c \/ (up[i].answer = u.answer /\ up[i].part = "header")
      <4>1. up[i].answer.call \in InFlight /\ up[i] \in Requests
        BY Wires, ElementOfSeq DEF CallsIn, TypeInv
      <4>2. CASE up[i].answer.call = c
        BY <4>1, <4>2, <3>2, <1>2, RequestUnits
      <4>3. CASE up[i].answer.call # c
        BY <4>1, <4>3, <3>1, <1>6
      <4> QED BY <4>2, <4>3
    <3> QED BY <2>2, <3>4, <3>5, <3>6
  <2> QED BY <2>1, <2>2
<1>10. TypeInv'
  <2>1. Len(up') <= WireBuffer
    BY <1>4, WireAssumption
  <2> QED BY <1>1, <1>4, <1>5, <1>8, <2>1 DEF TypeInv, TypeOK
<1>11. TurnsInv'
  <2>1. ASSUME NEW e \in Calls, phase'[e] \notin {"new", "waiting"}, NEW d \in Calls, d < e
        PROVE  phase'[d] = "returned"
    <3>1. phase[e] \notin {"new", "waiting"}
      BY <2>1, <1>5, <1>6
    <3> QED BY <2>1, <3>1, <1>5, <1>6 DEF TurnsInv
  <2>2. \A e \in Calls : phase'[e] # "returned" => result'[e] = Pending
    BY <1>1, <1>5, <1>6 DEF TurnsInv
  <2>3. ~clientClosed'
    BY <1>1
  <2> QED BY <2>1, <2>2, <2>3 DEF TurnsInv
<1>12. FlightInv'
  <2>1. ASSUME NEW e \in Calls, NEW x \in InFlight
        PROVE  /\ phase'[e] \in {"new", "waiting", "header"} => x < e
               /\ phase'[e] \in InCall => x <= e
               /\ result'[e].call < x
    <3>1. CASE e # c
      BY <2>1, <3>1, <1>1, <1>5 DEF FlightInv
    <3>2. CASE e = c
      BY <2>1, <3>2, <1>1, <1>5 DEF FlightInv
    <3> QED BY <3>1, <3>2
  <2>2. ASSUME NEW e \in Calls
        PROVE  /\ phase'[e] \in {"new", "waiting", "header"} => c < e
               /\ phase'[e] \in InCall => c <= e
               /\ result'[e].call < c
    <3>1. CASE e = c
      <4>1. result[e] = Pending
        BY <3>1, <1>6 DEF TurnsInv
      <4>2. result[e].call < c
        BY <4>1, <1>6, UnitCalls DEF Pending, NoCall
      <4> QED BY <3>1, <4>2, <1>1, <1>5, <1>6
    <3>2. CASE e < c
      <4>1. phase'[e] = "returned"
        BY <3>2, <1>5, <1>6
      <4>2. result[e].call \in Nat /\ result[e].call <= e
        BY Answered
      <4>3. phase'[e] \notin InCall
        BY <4>1 DEF InCall
      <4>4. result[e].call < c /\ e \in Nat
        BY <3>2, <4>2, <1>6, UnitCalls
      <4> QED BY <4>1, <4>3, <4>4, <1>1
    <3>3. CASE e > c
      <4>1. phase[e] \in {"new", "waiting"} /\ phase'[e] = phase[e]
        BY <3>3, <1>5, <1>6, UnitCalls
      <4>2. result[e] = Pending
        BY <4>1 DEF TurnsInv
      <4>3. result[e].call < c
        BY <4>2, <1>6, UnitCalls DEF Pending, NoCall
      <4>4. phase'[e] \notin InCall
        BY <4>1 DEF InCall
      <4> QED BY <3>3, <4>1, <4>3, <4>4, <1>1, <1>6, UnitCalls
    <3> QED BY <3>1, <3>2, <3>3, <1>6, UnitCalls
  <2>3. ASSUME NEW e \in Calls, NEW x \in InFlight',
               \A d \in Calls : d < e => phase'[d] = "returned" /\ d \notin timedOut'
        PROVE  e <= x
    <3>1. e <= c
      BY <2>3, <1>5, <1>6, UnitCalls
    <3>2. \A d \in Calls : d < e => d # c
      BY <3>1, <1>6, UnitCalls
    <3>3. \A d \in Calls : d < e => phase[d] = "returned" /\ d \notin timedOut
      BY <3>2, <2>3, <1>1, <1>5
    <3>4. x \in InFlight => e <= x
      BY <3>3 DEF FlightInv
    <3> QED BY <3>1, <3>4, <1>7
  <2> QED BY <2>1, <2>2, <2>3, <1>7 DEF FlightInv
<1>13. ServerInv'
  <2>1. \A x \in CallsIn(up') : \A y \in CallsIn(down') : y < x
    BY <1>1, <1>4, <1>9 DEF ServerInv
  <2>2. ASSUME current # NoCall, NEW i \in 1..Len(up')
        PROVE  \/ current < up'[i].answer.call
               \/ current = up'[i].answer.call /\ server = "payload" /\ up'[i].part = "payload"
    <3>1. CASE i \in 1..Len(up)
      BY <2>2, <3>1, <1>4 DEF ServerInv
    <3>2. CASE i = Len(up) + 1
      BY <2>2, <3>2, <1>2, <1>4, <1>9
    <3> QED BY <3>1, <3>2, <1>4
  <2> QED BY <1>1, <2>1, <2>2 DEF ServerInv, Gone
<1>14. WireInv'
  <2>1. \A i \in 1..Len(up) : \/ up[i].answer.call < u.answer.call
                            \/ /\ up[i].answer = u.answer
                               /\ up[i].part = "header" /\ u.part = "payload"
    BY <1>2, <1>9
  <2>2. Ordered(up')
    BY <1>2, <1>3, <2>1, Wires, OrderedAppend DEF WireInv
  <2> QED BY <1>1, <2>2 DEF WireInv, Gone
<1>15. CallInv'
  <2>1. phase[c] = "header" =>
          /\ c \notin CallsIn(down) /\ (current = c => server = "payload")
          /\ \A i \in 1..Len(up') : up'[i].answer.call = c => up'[i].part = "header"
    <3>1. SUFFICES ASSUME phase[c] = "header"
                   PROVE  /\ c \notin CallsIn(down) /\ current # c
                          /\ \A i \in 1..Len(up') : up'[i].answer.call = c => up'[i].part = "header"
      OBVIOUS
    <3>2. c \notin CallsIn(down)
      BY <1>6, <1>9
    <3>3. current # c
      BY <3>1, <1>6, <1>9, UnitCalls
    <3>4. \A i \in 1..Len(up) : up[i].answer.call # c
      BY <3>1, <1>6, <1>9
    <3> QED BY <3>1, <3>2, <3>3, <3>4, <1>2, <1>4
  <2>2. (\A e \in Calls : e < c => e \notin timedOut) /\ phase[c] = "payload" =>
          down = << >> /\ Len(reply) # 1
    <3>1. SUFFICES ASSUME \A e \in Calls : e < c => e \notin timedOut, phase[c] = "payload"
                   PROVE  down = << >> /\ Len(reply) # 1
      OBVIOUS
    <3>2. \A x \in InFlight : c <= x
      BY <3>1, <1>6 DEF FlightInv
    <3>3. down = << >>
      <4>1. SUFFICES ASSUME down # << >> PROVE FALSE
        OBVIOUS
      <4>2. down[1].answer.call \in CallsIn(down) /\ down[1].answer.call \in InFlight
        BY <4>1, <1>1, CallsInTail, Wires
      <4>3. down[1].answer.call < c /\ c <= down[1].answer.call /\ down[1].answer.call \in Nat
        BY <4>2, <3>2, <1>1, <1>9, UnitCalls
      <4> QED BY <4>3, <1>6
    <3>4. Len(reply) # 1
      <4>1. SUFFICES ASSUME reply # << >> PROVE Len(reply) # 1
        OBVIOUS
      <4>2. server = "write" /\ current # NoCall
        BY <4>1 DEF ServerInv
      <4>3. current \in InFlight /\ current < c /\ current \in Nat
        BY <4>2, <1>9, <1>1, Wires, UnitCalls
      <4> QED BY <4>3, <3>2, <1>6
    <3> QED BY <3>3, <3>4
  <2>3. \A e \in Calls : e # c => phase'[e] \notin {"payload", "body", "await", "adrift"}
    BY <1>6
  <2>4. /\ phase'[c] = "payload" => phase[c] = "header"
        /\ phase'[c] = "await" => phase[c] = "payload"
        /\ phase'[c] \notin {"body", "adrift"}
    BY <1>5
  <2> QED BY <1>1, <2>1, <2>2, <2>3, <2>4 DEF CallInv
<1>16. ExecutedInv'
  <2>1. \A k \in 1..Len(executed) : executed[k] < c
    BY DEF ExecutedInv
  <2>2. \A k \in 1..Len(executed) : \A x \in CallsIn(up') : executed[k] < x
    BY <2>1, <1>4 DEF ExecutedInv
  <2>3. \A e \in Calls : phase'[e] \in {"new", "waiting", "header", "payload"} =>
          phase[e] \in {"new", "waiting", "header", "payload"}
    BY <1>5
  <2>4. ASSUME NEW i \in 1..Len(up'), up'[i].part = "payload"
        PROVE  up'[i].answer.call \in sent'
    <3>1. CASE i \in 1..Len(up)
      BY <2>4, <3>1, <1>4, <1>8 DEF ExecutedInv
    <3>2. CASE i = Len(up) + 1
      <4>1. u.part = "payload" /\ up'[i] = u
        BY <2>4, <3>2, <1>4
      <4>2. phase[c] = "payload"
        BY <4>1, <1>2
      <4> QED BY <4>1, <4>2, <1>2
    <3> QED BY <3>1, <3>2, <1>4
  <2>5. /\ \A k \in 1..Len(executed) : executed[k] \in sent'
        /\ server = "handle" => current \in sent'
    BY <1>8 DEF ExecutedInv
  <2> QED BY <1>1, <2>2, <2>3, <2>4, <2>5 DEF ExecutedInv
<1>17. AnswersInv'
  BY <1>1 DEF AnswersInv, OnlyLateAnswersStray
<1> QED BY <1>10, <1>11, <1>12, <1>13, <1>14, <1>15, <1>16, <1>17

LEMMA WriteRequestKeeps == ASSUME IInv, NEW c \in Calls, WriteRequest(c) PROVE IInv'
BY WriteFails, WriteSends DEF WriteRequest, IInv, TypeInv, TypeOK
-----------------------------------------------------------------------------
(***************************************************************************)
(* The theorems.                                                           *)
(***************************************************************************)

LEMMA InitIInv == Init => IInv
<1> SUFFICES ASSUME Init PROVE IInv
  OBVIOUS
<1>1. /\ up = << >> /\ down = << >> /\ reply = << >> /\ executed = << >>
      /\ current = NoCall /\ server = "header" /\ sent = {} /\ timedOut = {} /\ clientClosed = FALSE
      /\ \A c \in Calls : phase[c] = "new" /\ result[c] = Pending
  BY DEF Init
<1>2. Len(up) = 0 /\ Len(down) = 0 /\ Len(reply) = 0 /\ Len(executed) = 0
  BY <1>1
<1>3. CallsIn(up) = {} /\ CallsIn(down) = {} /\ InFlight = {}
  BY <1>1, <1>2 DEF CallsIn, InFlight
<1>4. TypeInv
  <2>1. Len(up) <= WireBuffer /\ Len(down) <= WireBuffer /\ Len(reply) <= 2
    BY <1>2, WireAssumption
  <2>2. /\ phase \in [Calls -> {"new", "waiting", "returned"} \cup InCall]
        /\ result \in [Calls -> Answers \cup {Pending, Failed}] /\ op \in [Calls -> Ops \cup {"none"}]
        /\ peer \in BOOLEAN /\ live \in BOOLEAN
    BY DEF Init
  <2>3. /\ up \in Seq(Requests) /\ down \in Seq(Units) /\ reply \in Seq(Units)
        /\ executed \in Seq(Calls)
    BY <1>1
  <2>4. /\ server \in {"header", "payload", "starved", "handle", "type", "write", "ended"}
        /\ current \in Calls \cup {NoCall} /\ sent \subseteq Calls /\ timedOut \subseteq Calls
        /\ clientClosed \in BOOLEAN
    BY <1>1
  <2> QED BY <2>1, <2>2, <2>3, <2>4 DEF TypeInv, TypeOK
<1>5. TurnsInv /\ FlightInv
  BY <1>1, <1>3 DEF TurnsInv, FlightInv
<1>6. ServerInv /\ WireInv
  BY <1>1, <1>2, <1>3 DEF ServerInv, WireInv, Ordered, Gone
<1>7. CallInv /\ ExecutedInv
  BY <1>1, <1>2, <1>3 DEF CallInv, ExecutedInv
<1>8. AnswersInv
  BY <1>1 DEF AnswersInv, OnlyLateAnswersStray, Pending
<1> QED BY <1>4, <1>5, <1>6, <1>7, <1>8 DEF IInv

LEMMA IInvHolds == Spec => []IInv
<1>1. IInv /\ [Next]_vars => IInv'
  <2> SUFFICES ASSUME IInv, [Next]_vars PROVE IInv'
    OBVIOUS
  <2>1. ASSUME NEW c \in Calls, Ask(c) PROVE IInv'
    <3>1. /\ phase[c] \in {"new", "waiting"} /\ phase' = [phase EXCEPT ![c] = "waiting"]
          /\ op' \in [Calls -> Ops \cup {"none"}]
          /\ UNCHANGED <<result, sent, timedOut, clientClosed, wires, serving, daemon>>
      BY <2>1 DEF Ask, IInv, TypeInv, TypeOK
    <3> QED BY <3>1, TakesTurn
  <2>2. ASSUME NEW c \in Calls, Begin(c) PROVE IInv'
    <3>1. /\ phase[c] \in {"new", "waiting"} /\ phase' = [phase EXCEPT ![c] = "header"]
          /\ \A d \in Calls : d < c => phase[d] = "returned"
          /\ op' \in [Calls -> Ops \cup {"none"}]
          /\ UNCHANGED <<result, sent, timedOut, clientClosed, wires, serving, daemon>>
      BY <2>2 DEF Begin, IInv, TypeInv, TypeOK
    <3> QED BY <3>1, TakesTurn
  <2>3. CASE UNCHANGED vars
    BY <2>3 DEF vars, client, wires, serving, daemon, IInv, TypeInv, TypeOK, TurnsInv, FlightInv, InFlight,
         ServerInv, WireInv, CallInv, ExecutedInv, AnswersInv, OnlyLateAnswersStray, Gone
  <2> QED BY <2>1, <2>2, <2>3, WriteRequestKeeps, ReadHeaderKeeps, ReadBodyKeeps, DeadlineKeeps,
             CloseClientKeeps, ServeHeaderKeeps, ServePayloadKeeps, StarveKeeps, HandleKeeps, TypeKeeps,
             WriteReplyKeeps, DaemonDiesKeeps, RemovedElsewhereKeeps DEF Next
<1> QED BY <1>1, InitIInv, PTL DEF Spec

\* The connection's state keeps its types: neither direction of the socket ever holds
\* more than the socket takes, nor the daemon an answer of more than two units.
THEOREM TypeCorrect == Spec => []TypeOK
<1>1. IInv => TypeOK
  BY DEF IInv, TypeInv
<1> QED BY <1>1, IInvHolds, PTL

\* Client.call never returns the answer of a later call, and that of an earlier one
\* only after a deadline; no answer is given out twice.
THEOREM AnswersKeepOrder == Spec => []OnlyLateAnswersStray
<1>1. IInv => OnlyLateAnswersStray
  BY DEF IInv, AnswersInv
<1> QED BY <1>1, IInvHolds, PTL

\* serveConn carries out a request at most once, in the order of the calls, and only
\* one that was written whole.
THEOREM RequestsRunWhole == Spec => []OnlyWholeRequestsRun
<1>1. IInv => OnlyWholeRequestsRun
  <2> SUFFICES ASSUME IInv PROVE OnlyWholeRequestsRun
    OBVIOUS
  <2>1. DOMAIN executed = 1..Len(executed)
    BY Wires DEF IInv
  <2> QED BY <2>1 DEF IInv, ExecutedInv, OnlyWholeRequestsRun
<1> QED BY <1>1, IInvHolds, PTL
==============================================================================
