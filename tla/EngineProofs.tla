---------------------------- MODULE EngineProofs -----------------------------
(***************************************************************************)
(* TLAPS proofs about Engine, for any number of sessions and feeds and any *)
(* feed capacity.                                                          *)
(***************************************************************************)
EXTENDS Engine, TLAPS

\* Every step that is none of Spawn's, Remove's or Close's leaves the registry
\* and everything that can hold a session alone.
Elsewhere == UNCHANGED <<spawning, sclosed>>

\* The goroutines of a session (waitLoop, goIdle, readLoop, the exit watcher).
LEMMA ActivityElsewhere ==
  ASSUME NEW s \in Sessions,
         \/ WaitLoop(s) \/ GoIdle(s) \/ Output(s)
         \/ PublishIdle(s) \/ PublishBusy(s) \/ PublishExited(s)
  PROVE  Elsewhere
BY DEF Elsewhere, spawning, WaitLoop, GoIdle, Output, PublishIdle, PublishBusy,
       PublishExited

\* The operations of the event feeds (Subscribe, EventSubscription.Close).
LEMMA FeedsElsewhere ==
  ASSUME NEW f \in Feeds,
         Subscribe(f) \/ CloseFeed(f) \/ ReceiveEvent(f) \/ FinishFeed(f)
  PROVE  Elsewhere
BY DEF Elsewhere, spawning, children, Subscribe, CloseFeed, ReceiveEvent, FinishFeed

\* The strengthening the registry argument needs: types, and that only Close
\* takes sessions away to close them.
RegistryType ==
  /\ phase \in [Sessions -> Phases] /\ registry \subseteq Sessions
  /\ ~engineClosed => toClose = {}

\* No session outlives everyone who could end it, and a closed engine keeps none:
\* Spawn's second look at closed races Close correctly (Spawn, Remove, Close).
THEOREM SessionsHaveAnOwner == Spec => []NoOrphanSession
<1> DEFINE Inv == RegistryType /\ NoOrphanSession
<1>1. Init => Inv
  BY DEF Init, RegistryType, Phases, NoOrphanSession
<1>2. ASSUME Inv, [Next]_vars PROVE Inv'
  <2> USE <1>2 DEF RegistryType, NoOrphanSession
  <2>1. ASSUME NEW s \in Sessions, SpawnCheck(s) \/ StartSession(s) PROVE Inv'
    BY <2>1 DEF SpawnCheck, StartSession, SpawnTo, Phases, children
  <2>2. ASSUME NEW s \in Sessions, Register(s) PROVE Inv'
    BY <2>2 DEF Register, SpawnTo, Phases, children
  <2>3. ASSUME NEW s \in Sessions, Abandon(s) PROVE Inv'
    BY <2>3 DEF Abandon, SpawnTo, Phases
  <2>4. ASSUME NEW s \in Sessions, Announce(s) PROVE Inv'
    BY <2>4 DEF Announce, SpawnTo, Phases
  <2>5. ASSUME NEW s \in Sessions, Remove(s) PROVE Inv'
    BY <2>5 DEF Remove, children
  <2>6. ASSUME NEW s \in Sessions, RemoveClose(s) PROVE Inv'
    BY <2>6 DEF RemoveClose
  <2>7. ASSUME NEW s \in Sessions, PublishRemoved(s) PROVE Inv'
    BY <2>7 DEF PublishRemoved, children
  <2>8. CASE CloseEngine
    BY <2>8 DEF CloseEngine, children
  <2>9. ASSUME NEW s \in Sessions, CloseTaken(s) PROVE Inv'
    BY <2>9 DEF CloseTaken
  <2>10. CASE Elsewhere
    BY <2>10 DEF Elsewhere, spawning
  <2>11. CASE UNCHANGED vars
    BY <2>10, <2>11 DEF vars, children, Elsewhere
  <2> QED BY <1>2, <2>1, <2>2, <2>3, <2>4, <2>5, <2>6, <2>7, <2>8, <2>9, <2>10,
             <2>11, ActivityElsewhere, FeedsElsewhere DEF Next
<1> QED BY <1>1, <1>2, PTL DEF Spec

-----------------------------------------------------------------------------
(***************************************************************************)
(* Types.                                                                  *)
(***************************************************************************)

\* The types of the event bus.
BusType ==
  /\ esubs \subseteq Feeds /\ edone \subseteq Feeds /\ elagged \subseteq Feeds
  /\ ech \in [Feeds -> Seq(Event)] /\ \A f \in Feeds : Len(ech[f]) <= FeedBuffer
  /\ recent \in Seq(Event) /\ published \in [Sessions -> SUBSET Kinds]

\* publish and deliver keep the types of the bus and fill no feed beyond its
\* capacity.
LEMMA PublishType ==
  ASSUME BusType, NEW kind \in Kinds, NEW s \in Sessions, Publish(kind, s)
  PROVE  BusType'
<1>1. CASE engineClosed
  BY <1>1 DEF Publish, bus, BusType
<1>2. CASE ~engineClosed
  <2> DEFINE event == [kind |-> kind, session |-> s]
             heard == {f \in esubs \ edone : HasRoom(f)}
  <2>1. event \in Event
    BY DEF Event
  <2>2. /\ ech' = [f \in Feeds |-> IF f \in heard THEN Append(ech[f], event) ELSE ech[f]]
        /\ edone' = edone \cup Overrun /\ elagged' = elagged \cup Overrun
        /\ esubs' = esubs \ Overrun
        /\ recent' = Remember(event)
        /\ published' = [published EXCEPT ![s] = @ \cup {kind}]
    BY <1>2, Zenon DEF Publish
  <2>3. Overrun \subseteq Feeds
    BY DEF Overrun, BusType
  <2>4. \A f \in Feeds : ech'[f] \in Seq(Event) /\ Len(ech'[f]) <= FeedBuffer
    BY <2>1, <2>2, FeedBufferAssumption DEF BusType, HasRoom
  <2>5. recent' \in Seq(Event)
    <3> HIDE DEF event
    <3>1. Append(recent, event) \in Seq(Event) /\ Len(Append(recent, event)) # 0
      BY <2>1 DEF BusType
    <3>2. \A q \in Seq(Event) : Len(q) # 0 => Tail(q) \in Seq(Event)
      OBVIOUS
    <3> QED BY <2>2, <3>1, <3>2 DEF Remember
  <2>6. published' \in [Sessions -> SUBSET Kinds]
    BY <2>2 DEF BusType
  <2> HIDE DEF heard, event
  <2> QED BY <2>2, <2>3, <2>4, <2>5, <2>6 DEF BusType
<1> QED BY <1>1, <1>2

\* The types of the rest of the state.
RestType ==
  /\ engineClosed \in BOOLEAN /\ phase \in [Sessions -> Phases]
  /\ registry \subseteq Sessions /\ removing \subseteq Sessions
  /\ removed \subseteq Sessions /\ toClose \subseteq Sessions
  /\ exited \subseteq Sessions /\ sclosed \subseteq Sessions /\ busy \subseteq Sessions
  /\ announcing \subseteq Sessions /\ watching \subseteq Sessions
  /\ idling \in [Sessions -> Nat] /\ activity \in Nat
  /\ ejoined \subseteq Feeds /\ toFinish \subseteq Feeds

\* The engine's state keeps its types, and no feed exceeds its capacity (deliver).
THEOREM TypeCorrect == Spec => []TypeOK
<1>0. TypeOK <=> RestType /\ BusType
  BY DEF TypeOK, RestType, BusType
<1>1. Init => RestType /\ BusType
  <2> SUFFICES ASSUME Init PROVE RestType /\ BusType
    OBVIOUS
  <2>1. RestType
    BY DEF Init, RestType, Phases
  <2>2. << >> \in Seq(Event) /\ Len(<< >>) <= FeedBuffer
    BY FeedBufferAssumption
  <2>3. BusType
    BY <2>2 DEF Init, BusType
  <2> QED BY <2>1, <2>3
<1>2. ASSUME RestType, BusType, [Next]_vars PROVE RestType'
  <2> USE <1>2 DEF RestType
  <2>1. ASSUME NEW s \in Sessions,
               SpawnCheck(s) \/ StartSession(s) \/ Register(s) \/ Abandon(s) \/ Announce(s)
        PROVE  RestType'
    BY <2>1 DEF SpawnCheck, StartSession, Register, Abandon, Announce, SpawnTo, Phases,
                children
  <2>2. ASSUME NEW s \in Sessions, WaitLoop(s) \/ GoIdle(s) \/ Output(s) PROVE RestType'
    BY <2>2 DEF WaitLoop, GoIdle, Output, spawning
  <2>3. ASSUME NEW s \in Sessions, PublishIdle(s) \/ PublishBusy(s) \/ PublishExited(s)
        PROVE  RestType'
    BY <2>3 DEF PublishIdle, PublishBusy, PublishExited, spawning
  <2>4. ASSUME NEW s \in Sessions,
               Remove(s) \/ RemoveClose(s) \/ PublishRemoved(s) \/ CloseTaken(s)
        PROVE  RestType'
    BY <2>4 DEF Remove, RemoveClose, PublishRemoved, CloseTaken, children
  <2>5. CASE CloseEngine
    BY <1>2, <2>5 DEF CloseEngine, children, BusType
  <2>6. ASSUME NEW f \in Feeds,
               Subscribe(f) \/ CloseFeed(f) \/ ReceiveEvent(f) \/ FinishFeed(f)
        PROVE  RestType'
    BY <2>6 DEF Subscribe, CloseFeed, ReceiveEvent, FinishFeed, spawning, children
  <2>7. CASE UNCHANGED vars
    BY <2>7 DEF vars, spawning, children
  <2> QED BY <1>2, <2>1, <2>2, <2>3, <2>4, <2>5, <2>6, <2>7 DEF Next
<1>3. ASSUME RestType, BusType, [Next]_vars PROVE BusType'
  <2>1. ASSUME UNCHANGED bus PROVE BusType'
    BY <1>3, <2>1 DEF bus, BusType
  <2>2. ASSUME NEW s \in Sessions,
               \/ SpawnCheck(s) \/ StartSession(s) \/ Register(s) \/ Abandon(s)
               \/ WaitLoop(s) \/ GoIdle(s) \/ Output(s)
               \/ Remove(s) \/ RemoveClose(s) \/ CloseTaken(s)
        PROVE  BusType'
    BY <2>1, <2>2 DEF SpawnCheck, StartSession, Register, Abandon, WaitLoop, GoIdle,
       Output, Remove, RemoveClose, CloseTaken
  <2>3. ASSUME NEW s \in Sessions,
               \/ Announce(s) \/ PublishIdle(s) \/ PublishBusy(s) \/ PublishExited(s)
               \/ PublishRemoved(s)
        PROVE  BusType'
    BY <1>3, <2>3, PublishType DEF Announce, PublishIdle, PublishBusy, PublishExited,
       PublishRemoved, Kinds
  <2>4. CASE CloseEngine
    BY <1>3, <2>4 DEF CloseEngine, BusType
  <2>5. ASSUME NEW f \in Feeds, Subscribe(f) \/ CloseFeed(f) \/ FinishFeed(f)
        PROVE  BusType'
    BY <1>3, <2>5 DEF Subscribe, CloseFeed, FinishFeed, BusType
  <2>6. ASSUME NEW f \in Feeds, ReceiveEvent(f) PROVE BusType'
    <3>1. ech[f] \in Seq(Event) /\ ech[f] # << >> /\ Len(ech[f]) <= FeedBuffer
      BY <1>3, <2>6 DEF ReceiveEvent, BusType
    <3>2. Tail(ech[f]) \in Seq(Event) /\ Len(Tail(ech[f])) <= FeedBuffer
      BY <3>1, FeedBufferAssumption
    <3>3. ech' \in [Feeds -> Seq(Event)] /\ \A g \in Feeds : Len(ech'[g]) <= FeedBuffer
      BY <1>3, <2>6, <3>2 DEF ReceiveEvent, BusType
    <3> QED BY <1>3, <2>6, <3>3 DEF ReceiveEvent, BusType
  <2>7. CASE UNCHANGED vars
    BY <2>1, <2>7 DEF vars
  <2> QED BY <1>3, <2>2, <2>3, <2>4, <2>5, <2>6, <2>7 DEF Next
<1> QED BY <1>0, <1>1, <1>2, <1>3, PTL DEF Spec

-----------------------------------------------------------------------------
(***************************************************************************)
(* The gate.                                                               *)
(***************************************************************************)

\* The strengthening behind SpawnedBeforeActivity: a gate is open only behind a
\* published spawned event, or on a closed engine, which publishes nothing; and
\* the exit watcher starts behind the gate.
GateInv ==
  /\ \A s \in Sessions :
       /\ phase[s] = "ready" => engineClosed \/ "spawned" \in published[s]
       /\ phase[s] \in {"late", "refused"} => engineClosed
       /\ s \in watching => phase[s] = "ready"
  /\ SpawnedBeforeActivity

\* An event other than spawned goes out only through an open gate, removed
\* excepted (publish).
LEMMA PublishGated ==
  ASSUME TypeOK, GateInv, NEW s \in Sessions, NEW kind \in Kinds, Publish(kind, s),
         kind \in {"idle", "busy", "exited"} => GateOpen(s),
         UNCHANGED <<engineClosed, phase>>, watching' \subseteq watching
  PROVE  GateInv'
<1>1. CASE engineClosed
  BY <1>1 DEF Publish, bus, GateInv, SpawnedBeforeActivity
<1>2. CASE ~engineClosed
  <2>1. published' = [published EXCEPT ![s] = @ \cup {kind}]
    BY <1>2, Zenon DEF Publish
  <2>2. kind \in {"idle", "busy", "exited"} => "spawned" \in published[s]
    BY <1>2 DEF GateInv, GateOpen
  <2> QED BY <2>1, <2>2 DEF GateInv, SpawnedBeforeActivity, TypeOK
<1> QED BY <1>1, <1>2

\* No idle, busy or exited event about a session is published before its spawned
\* event, however its goroutines race Spawn (the ready channel).
THEOREM SpawnedComesFirst == Spec => []SpawnedBeforeActivity
<1>1. Init => GateInv
  BY DEF Init, GateInv, SpawnedBeforeActivity
<1>2. ASSUME TypeOK, GateInv, [Next]_vars PROVE GateInv'
  <2>1. ASSUME NEW s \in Sessions, SpawnCheck(s) \/ StartSession(s) \/ Register(s)
        PROVE  GateInv'
    BY <1>2, <2>1 DEF SpawnCheck, StartSession, Register, SpawnTo, children, bus,
       GateInv, SpawnedBeforeActivity, TypeOK
  <2>2. ASSUME NEW s \in Sessions, Abandon(s) PROVE GateInv'
    BY <1>2, <2>2 DEF Abandon, SpawnTo, bus, GateInv, SpawnedBeforeActivity, TypeOK
  <2>3. ASSUME NEW s \in Sessions, Announce(s) PROVE GateInv'
    <3>1. CASE engineClosed
      BY <1>2, <2>3, <3>1 DEF Announce, SpawnTo, Publish, bus, GateInv,
         SpawnedBeforeActivity, TypeOK
    <3>2. CASE ~engineClosed
      <4>1. published' = [published EXCEPT ![s] = @ \cup {"spawned"}]
        BY <2>3, <3>2, Zenon DEF Announce, Publish
      <4>2. /\ phase' = [phase EXCEPT ![s] = "ready"] /\ watching' = watching \cup {s}
            /\ UNCHANGED engineClosed
        BY <2>3 DEF Announce, SpawnTo
      <4> QED BY <1>2, <4>1, <4>2 DEF GateInv, SpawnedBeforeActivity, TypeOK
    <3> QED BY <3>1, <3>2
  <2>4. ASSUME NEW s \in Sessions, WaitLoop(s) \/ GoIdle(s) \/ Output(s) PROVE GateInv'
    BY <1>2, <2>4 DEF WaitLoop, GoIdle, Output, spawning, bus, GateInv,
       SpawnedBeforeActivity
  <2>5. ASSUME NEW s \in Sessions, PublishIdle(s) \/ PublishBusy(s) PROVE GateInv'
    BY <1>2, <2>5, PublishGated DEF PublishIdle, PublishBusy, spawning, Kinds
  <2>6. ASSUME NEW s \in Sessions, PublishExited(s) PROVE GateInv'
    <3>1. GateOpen(s)
      BY <1>2, <2>6 DEF PublishExited, GateInv, GateOpen
    <3> QED BY <1>2, <2>6, <3>1, PublishGated DEF PublishExited, spawning, Kinds
  <2>7. ASSUME NEW s \in Sessions, PublishRemoved(s) PROVE GateInv'
    BY <1>2, <2>7, PublishGated DEF PublishRemoved, children, Kinds
  <2>8. ASSUME NEW s \in Sessions, Remove(s) \/ RemoveClose(s) \/ CloseTaken(s)
        PROVE  GateInv'
    BY <1>2, <2>8 DEF Remove, RemoveClose, CloseTaken, children, bus, GateInv,
       SpawnedBeforeActivity
  <2>9. CASE CloseEngine
    BY <1>2, <2>9 DEF CloseEngine, children, GateInv, SpawnedBeforeActivity
  <2>10. ASSUME NEW f \in Feeds,
                Subscribe(f) \/ CloseFeed(f) \/ ReceiveEvent(f) \/ FinishFeed(f)
         PROVE  GateInv'
    BY <1>2, <2>10 DEF Subscribe, CloseFeed, ReceiveEvent, FinishFeed, spawning,
       children, GateInv, SpawnedBeforeActivity
  <2>11. CASE UNCHANGED vars
    BY <1>2, <2>11 DEF vars, spawning, children, bus, GateInv, SpawnedBeforeActivity
  <2> QED BY <1>2, <2>1, <2>2, <2>3, <2>4, <2>5, <2>6, <2>7, <2>8, <2>9, <2>10,
             <2>11 DEF Next
<1>3. GateInv => SpawnedBeforeActivity
  BY DEF GateInv
<1> QED BY <1>1, <1>2, <1>3, TypeCorrect, PTL DEF Spec

-----------------------------------------------------------------------------
(***************************************************************************)
(* The feeds.                                                              *)
(***************************************************************************)

\* Queue q is the end of queue r.
EndsIn(q, r) == \E n \in 0..Len(r) : q = SubSeq(r, n + 1, Len(r))

\* An event appended to a feed and to the history keeps the one the end of the
\* other, and the history may then forget its oldest event if the feed does not
\* have it.
LEMMA EndsInAppend ==
  ASSUME NEW r \in Seq(Event), NEW n \in 0..Len(r), NEW e \in Event
  PROVE  /\ EndsIn(Append(SubSeq(r, n + 1, Len(r)), e), Append(r, e))
         /\ n # 0 => EndsIn(Append(SubSeq(r, n + 1, Len(r)), e), Tail(Append(r, e)))
<1> DEFINE q == Append(SubSeq(r, n + 1, Len(r)), e)
           l == Append(r, e)
<1>1. q = SubSeq(l, n + 1, Len(l))
  OBVIOUS
<1>2. n # 0 => q = SubSeq(Tail(l), n, Len(Tail(l)))
  OBVIOUS
<1>3. EndsIn(q, l)
  <2>1. n \in 0..Len(l)
    OBVIOUS
  <2> HIDE DEF q, l
  <2> QED BY <1>1, <2>1 DEF EndsIn
<1>4. n # 0 => EndsIn(q, Tail(l))
  <2>1. n # 0 => n - 1 \in 0..Len(Tail(l)) /\ (n - 1) + 1 = n
    OBVIOUS
  <2> HIDE DEF q, l
  <2> QED BY <1>2, <2>1 DEF EndsIn
<1> QED BY <1>3, <1>4

\* Reading the oldest event of a feed leaves the rest the end of the history.
LEMMA EndsInTail ==
  ASSUME NEW r \in Seq(Event), NEW q \in Seq(Event), EndsIn(q, r), q # << >>
  PROVE  EndsIn(Tail(q), r)
<1>1. PICK n \in 0..Len(r) : q = SubSeq(r, n + 1, Len(r))
  BY DEF EndsIn
<1>2. n < Len(r)
  BY <1>1
<1>3. Tail(q) = SubSeq(r, (n + 1) + 1, Len(r))
  BY <1>1, <1>2
<1>4. n + 1 \in 0..Len(r)
  BY <1>2
<1> QED BY <1>3, <1>4 DEF EndsIn

\* Who is subscribed: nobody on a closed engine, nobody whose feed is done, and a
\* feed nobody subscribed yet is empty and open.
FeedsBookkeeping ==
  /\ engineClosed => esubs = {}
  /\ ~engineClosed => toFinish = {}
  /\ esubs \cap edone = {} /\ toFinish \subseteq ejoined
  /\ \A f \in Feeds \ ejoined : ech[f] = << >> /\ f \notin esubs \cup edone
  /\ Len(recent) <= FeedBuffer

FeedInv == FeedsBookkeeping /\ FeedsHaveNoGaps

\* publish keeps every feed it does not drop the end of the history: a feed with
\* room has not got the event the history forgets (deliver).
LEMMA PublishFeeds ==
  ASSUME TypeOK, FeedInv, NEW kind \in Kinds, NEW s \in Sessions, Publish(kind, s),
         UNCHANGED <<engineClosed, ejoined, toFinish>>
  PROVE  FeedInv'
<1>1. CASE engineClosed
  BY <1>1 DEF Publish, bus, FeedInv, FeedsBookkeeping, FeedsHaveNoGaps
<1>2. CASE ~engineClosed
  <2> DEFINE event == [kind |-> kind, session |-> s]
             heard == {f \in esubs \ edone : HasRoom(f)}
             q == Append(recent, event)
  <2>1. event \in Event
    BY DEF Event
  <2>2. /\ ech' = [f \in Feeds |-> IF f \in heard THEN Append(ech[f], event) ELSE ech[f]]
        /\ edone' = edone \cup Overrun /\ esubs' = esubs \ Overrun
        /\ recent' = IF Len(q) > FeedBuffer THEN Tail(q) ELSE q
    BY <1>2, Zenon DEF Publish, Remember
  <2> HIDE DEF event
  <2>3. Len(q) = Len(recent) + 1 /\ (Len(recent) + 1 > FeedBuffer => Len(recent) = FeedBuffer)
    BY <2>1, FeedBufferAssumption DEF TypeOK, FeedInv, FeedsBookkeeping
  <2>4. Len(recent') <= FeedBuffer
    <3>1. q \in Seq(Event)
      BY <2>1 DEF TypeOK
    <3> HIDE DEF q
    <3> QED BY <2>2, <2>3, <3>1, FeedBufferAssumption
  <2>5. FeedsHaveNoGaps'
    <3> SUFFICES ASSUME NEW f \in esubs' PROVE EndsIn(ech'[f], recent')
      BY DEF FeedsHaveNoGaps, EndsIn
    <3>1. f \in heard /\ f \in esubs /\ f \in Feeds /\ ech'[f] = Append(ech[f], event)
      BY <2>2 DEF Overrun, FeedInv, FeedsBookkeeping, TypeOK
    <3>2. PICK n \in 0..Len(recent) : ech[f] = SubSeq(recent, n + 1, Len(recent))
      BY <3>1 DEF FeedInv, FeedsHaveNoGaps
    <3>3. Len(q) > FeedBuffer => n # 0
      BY <2>3, <3>1, <3>2, FeedBufferAssumption DEF HasRoom, TypeOK
    <3>4. recent \in Seq(Event)
      BY DEF TypeOK
    <3>5. /\ EndsIn(Append(ech[f], event), q)
          /\ n # 0 => EndsIn(Append(ech[f], event), Tail(q))
      BY <2>1, <3>2, <3>4, EndsInAppend
    <3> HIDE DEF q
    <3> QED BY <2>2, <3>1, <3>3, <3>5
  <2>6. FeedsBookkeeping'
    <3>1. Overrun \subseteq esubs /\ Overrun \subseteq Feeds
      BY DEF Overrun, TypeOK
    <3>2. \A f \in Feeds \ ejoined : ech'[f] = ech[f]
      BY <2>2 DEF FeedInv, FeedsBookkeeping
    <3> HIDE DEF q, heard
    <3> QED BY <2>2, <2>4, <3>1, <3>2 DEF FeedInv, FeedsBookkeeping
  <2> QED BY <2>5, <2>6 DEF FeedInv
<1> QED BY <1>1, <1>2

\* A feed still subscribed has missed nothing since its first unread event: one
\* that cannot be given an event is dropped, never skipped (deliver).
THEOREM FeedsMissNothing == Spec => []FeedsHaveNoGaps
<1>1. Init => FeedInv
  BY FeedBufferAssumption DEF Init, FeedInv, FeedsBookkeeping, FeedsHaveNoGaps
<1>2. ASSUME TypeOK, FeedInv, [Next]_vars PROVE FeedInv'
  <2>1. ASSUME UNCHANGED <<bus, engineClosed, ejoined, toFinish>> PROVE FeedInv'
    BY <1>2, <2>1 DEF bus, FeedInv, FeedsBookkeeping, FeedsHaveNoGaps
  <2>2. ASSUME NEW s \in Sessions,
               \/ SpawnCheck(s) \/ StartSession(s) \/ Register(s) \/ Abandon(s)
               \/ WaitLoop(s) \/ GoIdle(s) \/ Output(s)
               \/ Remove(s) \/ RemoveClose(s) \/ CloseTaken(s)
        PROVE  FeedInv'
    BY <2>1, <2>2 DEF SpawnCheck, StartSession, Register, Abandon, WaitLoop, GoIdle,
       Output, Remove, RemoveClose, CloseTaken, spawning
  <2>3. ASSUME NEW s \in Sessions,
               \/ Announce(s) \/ PublishIdle(s) \/ PublishBusy(s) \/ PublishExited(s)
               \/ PublishRemoved(s)
        PROVE  FeedInv'
    BY <1>2, <2>3, PublishFeeds DEF Announce, PublishIdle, PublishBusy, PublishExited,
       PublishRemoved, Kinds, spawning
  <2>4. CASE CloseEngine
    BY <1>2, <2>4 DEF CloseEngine, FeedInv, FeedsBookkeeping, FeedsHaveNoGaps, TypeOK
  <2>5. ASSUME NEW f \in Feeds, Subscribe(f) PROVE FeedInv'
    <3>1. /\ ejoined' = ejoined \cup {f} /\ f \notin ejoined
          /\ edone' = IF engineClosed THEN edone \cup {f} ELSE edone
          /\ esubs' = IF engineClosed THEN esubs ELSE esubs \cup {f}
          /\ UNCHANGED <<ech, recent, engineClosed, toFinish>>
      BY <2>5 DEF Subscribe, spawning
    <3>2. ech[f] = << >> /\ EndsIn(<< >>, recent)
      <4>1. Len(recent) \in 0..Len(recent) /\ << >> = SubSeq(recent, Len(recent) + 1, Len(recent))
        BY <1>2 DEF TypeOK
      <4> QED BY <1>2, <3>1, <4>1 DEF EndsIn, FeedInv, FeedsBookkeeping
    <3>3. FeedsHaveNoGaps'
      BY <1>2, <3>1, <3>2 DEF FeedsHaveNoGaps, EndsIn, FeedInv
    <3>4. FeedsBookkeeping'
      BY <1>2, <3>1 DEF FeedInv, FeedsBookkeeping
    <3> QED BY <3>3, <3>4 DEF FeedInv
  <2>6. ASSUME NEW f \in Feeds, CloseFeed(f) PROVE FeedInv'
    BY <1>2, <2>6 DEF CloseFeed, spawning, FeedInv, FeedsBookkeeping, FeedsHaveNoGaps
  <2>7. ASSUME NEW f \in Feeds, ReceiveEvent(f) PROVE FeedInv'
    <3>1. /\ ech' = [ech EXCEPT ![f] = Tail(@)] /\ ech[f] # << >>
          /\ UNCHANGED <<esubs, ejoined, edone, toFinish, recent, engineClosed>>
      BY <2>7 DEF ReceiveEvent, spawning
    <3>2. FeedsHaveNoGaps'
      <4> SUFFICES ASSUME NEW g \in esubs PROVE EndsIn(ech'[g], recent)
        BY <3>1 DEF FeedsHaveNoGaps, EndsIn
      <4>1. EndsIn(ech[g], recent) /\ g \in Feeds /\ ech[g] \in Seq(Event)
        BY <1>2 DEF FeedInv, FeedsHaveNoGaps, EndsIn, TypeOK
      <4>2. ech'[g] = IF g = f THEN Tail(ech[f]) ELSE ech[g]
        BY <1>2, <3>1, <4>1 DEF TypeOK
      <4>3. recent \in Seq(Event)
        BY <1>2 DEF TypeOK
      <4> QED BY <3>1, <4>1, <4>2, <4>3, EndsInTail
    <3>3. FeedsBookkeeping'
      <4>1. f \in ejoined
        BY <1>2, <3>1 DEF FeedInv, FeedsBookkeeping
      <4>2. \A g \in Feeds \ ejoined : ech'[g] = ech[g]
        BY <1>2, <3>1, <4>1 DEF TypeOK
      <4> QED BY <1>2, <3>1, <4>2 DEF FeedInv, FeedsBookkeeping
    <3> QED BY <3>2, <3>3 DEF FeedInv
  <2>8. ASSUME NEW f \in Feeds, FinishFeed(f) PROVE FeedInv'
    BY <1>2, <2>8 DEF FinishFeed, spawning, FeedInv, FeedsBookkeeping, FeedsHaveNoGaps
  <2>9. CASE UNCHANGED vars
    BY <2>1, <2>9 DEF vars, spawning
  <2> QED BY <1>2, <2>2, <2>3, <2>4, <2>5, <2>6, <2>7, <2>8, <2>9 DEF Next
<1>3. FeedInv => FeedsHaveNoGaps
  BY DEF FeedInv
<1> QED BY <1>1, <1>2, <1>3, TypeCorrect, PTL DEF Spec
=============================================================================
