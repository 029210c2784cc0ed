------------------------------- MODULE Engine --------------------------------
(***************************************************************************)
(* The Engine (engine.go): the registry of sessions, the steps of Spawn,   *)
(* Remove and Close racing each other, and the event feeds.                *)
(*                                                                         *)
(* Each action is one critical section of Engine.mu, or one step of a      *)
(* goroutine between two of them.  A session is reduced to what the engine *)
(* sees of it: its child, whether close() ran, and the idle and busy       *)
(* announcements its goroutines have decided on and not published yet.     *)
(***************************************************************************)
EXTENDS Naturals, Sequences

CONSTANTS
  Sessions,     \* identities Spawn may hand out
  Feeds,        \* identities of the event subscriptions
  FeedBuffer,   \* capacity of each feed's channel
  MaxActivity   \* bound: number of idle/busy transitions

ASSUME FeedBufferAssumption == FeedBuffer \in Nat \ {0}
ASSUME MaxActivityAssumption == MaxActivity \in Nat

VARIABLES
  \* --- registry
  engineClosed, \* Engine.closed
  registry,     \* Engine.sessions
  phase,        \* session -> how far its Spawn got
  removing,     \* sessions Remove took and has not closed yet
  removed,      \* sessions Remove closed and has not announced yet
  toClose,      \* sessions Engine.Close took and has not closed yet
  \* --- sessions
  exited,       \* Session.exited
  sclosed,      \* Session.closed
  busy,         \* Session.busy
  idling,       \* session -> goIdle calls about to publish
  announcing,   \* sessions whose read loop is about to publish busy
  watching,     \* sessions whose exit watcher has not published yet
  activity,     \* idle/busy transitions so far
  \* --- event feeds
  esubs,        \* Engine.subs
  ejoined,      \* every feed Subscribe has returned
  edone,        \* EventSubscription.done
  elagged,      \* EventSubscription.lagged
  ech,          \* EventSubscription.ch
  toFinish,     \* feeds Engine.Close took and has not finished yet
  recent,       \* history: the last FeedBuffer events published
  published     \* history: session -> kinds of event published about it

spawning == <<engineClosed, registry, phase, removing, removed, toClose>>
children == <<exited, sclosed, busy, idling, announcing, watching, activity>>
bus      == <<esubs, edone, elagged, ech, recent, published>>
vars     == <<spawning, children, bus, ejoined, toFinish>>

Kinds == {"spawned", "idle", "busy", "exited", "removed"}
Phases == {"new", "checked", "started", "late", "registered", "ready", "failed", "refused"}

Started(s) == phase[s] \in {"started", "late", "registered", "ready", "refused"}

\* The ready channel of s is closed: Spawn has announced s, or given it up.
GateOpen(s) == phase[s] \in {"ready", "refused"}

Init ==
  /\ engineClosed = FALSE /\ registry = {}
  /\ phase = [s \in Sessions |-> "new"]
  /\ removing = {} /\ removed = {} /\ toClose = {}
  /\ exited = {} /\ sclosed = {} /\ busy = {}
  /\ idling = [s \in Sessions |-> 0]
  /\ announcing = {} /\ watching = {} /\ activity = 0
  /\ esubs = {} /\ ejoined = {} /\ edone = {} /\ elagged = {}
  /\ ech = [f \in Feeds |-> << >>]
  /\ toFinish = {}
  /\ recent = << >> /\ published = [s \in Sessions |-> {}]

-----------------------------------------------------------------------------
(***************************************************************************)
(* The bus.                                                                *)
(***************************************************************************)

\* Mutant of HasRoom: the buffer is taken to be unbounded.
Unbounded(f) == f \in Feeds

\* The send in EventSubscription.deliver would not block.
HasRoom(f) == Len(ech[f]) < FeedBuffer

\* Mutant of Overrun: a full feed silently misses the event.
OverrunIgnored == {}

\* EventSubscription.deliver's default case: the feeds with no room are dropped.
Overrun == {f \in esubs \ edone : ~HasRoom(f)}

\* History of the last FeedBuffer events.
Remember(event) ==
  LET q == Append(recent, event) IN IF Len(q) > FeedBuffer THEN Tail(q) ELSE q

\* Engine.publish: every feed gets the event, unless the engine is closed.
Publish(kind, s) ==
  LET event == [kind |-> kind, session |-> s]
      heard == {f \in esubs \ edone : HasRoom(f)}
  IN IF engineClosed
     THEN UNCHANGED bus
     ELSE /\ ech' = [f \in Feeds |-> IF f \in heard THEN Append(ech[f], event) ELSE ech[f]]
          /\ edone' = edone \cup Overrun /\ elagged' = elagged \cup Overrun
          /\ esubs' = esubs \ Overrun
          /\ recent' = Remember(event)
          /\ published' = [published EXCEPT ![s] = @ \cup {kind}]

\* Mutant of Subscribe: forgets that the engine may be closed.
SubscribeUnchecked(f) ==
  /\ f \notin ejoined /\ ejoined' = ejoined \cup {f} /\ esubs' = esubs \cup {f}
  /\ UNCHANGED <<spawning, children, edone, elagged, ech, toFinish, recent, published>>

Subscribe(f) ==
  /\ f \notin ejoined /\ ejoined' = ejoined \cup {f}
  /\ edone' = IF engineClosed THEN edone \cup {f} ELSE edone
  /\ esubs' = IF engineClosed THEN esubs ELSE esubs \cup {f}
  /\ UNCHANGED <<spawning, children, elagged, ech, toFinish, recent, published>>

\* EventSubscription.Close
CloseFeed(f) ==
  /\ f \in ejoined /\ f \notin edone
  /\ esubs' = esubs \ {f} /\ edone' = edone \cup {f}
  /\ UNCHANGED <<spawning, children, ejoined, elagged, ech, toFinish, recent, published>>

\* External: the feed's reader takes its next event.
ReceiveEvent(f) ==
  /\ ech[f] # << >> /\ ech' = [ech EXCEPT ![f] = Tail(@)]
  /\ UNCHANGED <<spawning, children, esubs, ejoined, edone, elagged, toFinish, recent,
                 published>>

-----------------------------------------------------------------------------
(***************************************************************************)
(* Spawn, one step per lock it takes.                                      *)
(***************************************************************************)

SpawnTo(s, p) == phase' = [phase EXCEPT ![s] = p]

\* Spawn is called and finds the engine open, or refuses.
SpawnCheck(s) ==
  /\ phase[s] = "new"
  /\ SpawnTo(s, IF engineClosed THEN "failed" ELSE "checked")
  /\ UNCHANGED <<engineClosed, registry, removing, removed, toClose, children, bus,
                 ejoined, toFinish>>

\* startSession, which may fail; the child and its goroutines run from here on.
StartSession(s) ==
  /\ phase[s] = "checked"
  /\ \/ SpawnTo(s, "failed") /\ UNCHANGED busy
     \/ SpawnTo(s, "started") /\ busy' = busy \cup {s}
  /\ UNCHANGED <<engineClosed, registry, removing, removed, toClose, exited, sclosed,
                 idling, announcing, watching, activity, bus, ejoined, toFinish>>

\* Mutant of Register: the engine closing during startSession goes unnoticed.
RegisterUnchecked(s) ==
  /\ phase[s] = "started"
  /\ SpawnTo(s, "registered") /\ registry' = registry \cup {s}
  /\ UNCHANGED <<engineClosed, removing, removed, toClose, children, bus, ejoined,
                 toFinish>>

\* The second look at closed, and the registration.
Register(s) ==
  /\ phase[s] = "started"
  /\ \/ engineClosed /\ SpawnTo(s, "late") /\ UNCHANGED registry
     \/ ~engineClosed /\ SpawnTo(s, "registered") /\ registry' = registry \cup {s}
  /\ UNCHANGED <<engineClosed, removing, removed, toClose, children, bus, ejoined,
                 toFinish>>

\* Mutant of Abandon: gives the session up without opening its gate.
AbandonGated(s) ==
  /\ phase[s] = "late" /\ sclosed' = sclosed \cup {s}
  /\ UNCHANGED <<spawning, exited, busy, idling, announcing, watching, activity, bus,
                 ejoined, toFinish>>

\* Too late: close the session just started, then close(ready).
Abandon(s) ==
  /\ phase[s] = "late" /\ sclosed' = sclosed \cup {s} /\ SpawnTo(s, "refused")
  /\ UNCHANGED <<engineClosed, registry, removing, removed, toClose, exited, busy,
                 idling, announcing, watching, activity, bus, ejoined, toFinish>>

\* Mutant of Announce: opens the gate before the spawned event is out.
AnnounceLater(s) ==
  /\ phase[s] = "registered" /\ SpawnTo(s, "ready") /\ watching' = watching \cup {s}
  /\ UNCHANGED <<engineClosed, registry, removing, removed, toClose, exited, sclosed,
                 busy, idling, announcing, activity, bus, ejoined, toFinish>>

\* Publish spawned, close(ready), and leave the exit watcher running.
Announce(s) ==
  /\ phase[s] = "registered" /\ SpawnTo(s, "ready") /\ watching' = watching \cup {s}
  /\ Publish("spawned", s)
  /\ UNCHANGED <<engineClosed, registry, removing, removed, toClose, exited, sclosed,
                 busy, idling, announcing, activity, ejoined, toFinish>>

-----------------------------------------------------------------------------
(***************************************************************************)
(* What a session's goroutines tell the engine.                            *)
(***************************************************************************)

\* waitLoop: the child ends, on its own or killed.
WaitLoop(s) ==
  /\ Started(s) /\ s \notin exited /\ exited' = exited \cup {s}
  /\ UNCHANGED <<spawning, sclosed, busy, idling, announcing, watching, activity, bus,
                 ejoined, toFinish>>

\* goIdle decides; the publication follows, outside the session lock.
GoIdle(s) ==
  /\ Started(s) /\ s \in (busy \ exited) \ sclosed /\ activity < MaxActivity
  /\ busy' = busy \ {s} /\ idling' = [idling EXCEPT ![s] = @ + 1]
  /\ activity' = activity + 1
  /\ UNCHANGED <<spawning, exited, sclosed, announcing, watching, bus, ejoined, toFinish>>

\* readLoop's write flips the session back to busy, and announces it for a live
\* child.  The loop reads no further until that event is published.
Output(s) ==
  /\ Started(s) /\ s \notin busy \cup announcing /\ activity < MaxActivity
  /\ busy' = busy \cup {s}
  /\ announcing' = IF s \in exited THEN announcing ELSE announcing \cup {s}
  /\ activity' = activity + 1
  /\ UNCHANGED <<spawning, exited, sclosed, idling, watching, bus, ejoined, toFinish>>

\* The publish closure Spawn hands to the session waits for the gate.
PublishIdle(s) ==
  /\ idling[s] > 0 /\ GateOpen(s)
  /\ idling' = [idling EXCEPT ![s] = @ - 1]
  /\ Publish("idle", s)
  /\ UNCHANGED <<spawning, exited, sclosed, busy, announcing, watching, activity,
                 ejoined, toFinish>>

PublishBusy(s) ==
  /\ s \in announcing /\ GateOpen(s)
  /\ announcing' = announcing \ {s}
  /\ Publish("busy", s)
  /\ UNCHANGED <<spawning, exited, sclosed, busy, idling, watching, activity, ejoined,
                 toFinish>>

\* The exit watcher.
PublishExited(s) ==
  /\ s \in watching \cap exited
  /\ watching' = watching \ {s}
  /\ Publish("exited", s)
  /\ UNCHANGED <<spawning, exited, sclosed, busy, idling, announcing, activity, ejoined,
                 toFinish>>

-----------------------------------------------------------------------------
(***************************************************************************)
(* Remove and Close.                                                       *)
(***************************************************************************)

\* Remove takes the session; an unknown ID changes nothing.
Remove(s) ==
  /\ s \in registry
  /\ registry' = registry \ {s} /\ removing' = removing \cup {s}
  /\ UNCHANGED <<engineClosed, phase, removed, toClose, children, bus, ejoined, toFinish>>

RemoveClose(s) ==
  /\ s \in removing
  /\ removing' = removing \ {s} /\ removed' = removed \cup {s}
  /\ sclosed' = sclosed \cup {s}
  /\ UNCHANGED <<engineClosed, registry, phase, toClose, exited, busy, idling,
                 announcing, watching, activity, bus, ejoined, toFinish>>

PublishRemoved(s) ==
  /\ s \in removed /\ removed' = removed \ {s}
  /\ Publish("removed", s)
  /\ UNCHANGED <<engineClosed, registry, phase, removing, toClose, children, ejoined,
                 toFinish>>

\* Close marks the engine and takes every session and feed with it.
CloseEngine ==
  /\ ~engineClosed /\ engineClosed' = TRUE
  /\ toClose' = registry /\ registry' = {}
  /\ toFinish' = esubs /\ esubs' = {}
  /\ UNCHANGED <<phase, removing, removed, children, edone, elagged, ech, recent,
                 published, ejoined>>

CloseTaken(s) ==
  /\ s \in toClose /\ toClose' = toClose \ {s} /\ sclosed' = sclosed \cup {s}
  /\ UNCHANGED <<engineClosed, registry, phase, removing, removed, exited, busy, idling,
                 announcing, watching, activity, bus, ejoined, toFinish>>

\* Feeds are finished after the sessions.
FinishFeed(f) ==
  /\ toClose = {} /\ f \in toFinish
  /\ toFinish' = toFinish \ {f} /\ edone' = edone \cup {f}
  /\ UNCHANGED <<spawning, children, esubs, ejoined, elagged, ech, recent, published>>

-----------------------------------------------------------------------------
Next ==
  \/ CloseEngine
  \/ \E s \in Sessions :
       \/ SpawnCheck(s) \/ StartSession(s) \/ Register(s) \/ Abandon(s) \/ Announce(s)
       \/ WaitLoop(s) \/ GoIdle(s) \/ Output(s)
       \/ PublishIdle(s) \/ PublishBusy(s) \/ PublishExited(s)
       \/ Remove(s) \/ RemoveClose(s) \/ PublishRemoved(s) \/ CloseTaken(s)
  \/ \E f \in Feeds : Subscribe(f) \/ CloseFeed(f) \/ ReceiveEvent(f) \/ FinishFeed(f)

\* Goroutines that hold no lock run on, and a child whose session was closed has
\* been killed.  Nothing is assumed of callers, of readers or of a child left alone.
Fairness ==
  /\ \A s \in Sessions :
       /\ WF_vars(StartSession(s)) /\ WF_vars(Register(s)) /\ WF_vars(Abandon(s))
       /\ WF_vars(Announce(s)) /\ WF_vars(s \in sclosed /\ WaitLoop(s))
       /\ WF_vars(PublishIdle(s)) /\ WF_vars(PublishBusy(s)) /\ WF_vars(PublishExited(s))
       /\ WF_vars(RemoveClose(s)) /\ WF_vars(PublishRemoved(s)) /\ WF_vars(CloseTaken(s))
  /\ \A f \in Feeds : WF_vars(FinishFeed(f))

Spec == Init /\ [][Next]_vars
FairSpec == Spec /\ Fairness

-----------------------------------------------------------------------------
(***************************************************************************)
(* Properties.                                                             *)
(***************************************************************************)

Event == [kind : Kinds, session : Sessions]

\* The types of the engine's state.  No feed holds more than its capacity.
TypeOK ==
  /\ engineClosed \in BOOLEAN /\ phase \in [Sessions -> Phases]
  /\ registry \subseteq Sessions /\ removing \subseteq Sessions
  /\ removed \subseteq Sessions /\ toClose \subseteq Sessions
  /\ exited \subseteq Sessions /\ sclosed \subseteq Sessions /\ busy \subseteq Sessions
  /\ announcing \subseteq Sessions /\ watching \subseteq Sessions
  /\ idling \in [Sessions -> Nat] /\ activity \in Nat
  /\ esubs \subseteq Feeds /\ ejoined \subseteq Feeds /\ edone \subseteq Feeds
  /\ elagged \subseteq Feeds /\ toFinish \subseteq Feeds
  /\ ech \in [Feeds -> Seq(Event)] /\ \A f \in Feeds : Len(ech[f]) <= FeedBuffer
  /\ recent \in Seq(Event) /\ published \in [Sessions -> SUBSET Kinds]

\* No idle, busy or exited event about a session is published before its spawned
\* event, however fast its goroutines are (the ready gate in Spawn).
SpawnedBeforeActivity ==
  \A s \in Sessions :
    published[s] \cap {"idle", "busy", "exited"} # {} => "spawned" \in published[s]

\* A feed still subscribed has every event since its first unread one, in order:
\* a feed that could not be given an event is gone (deliver).
FeedsHaveNoGaps ==
  \A f \in esubs : \E n \in 0..Len(recent) : ech[f] = SubSeq(recent, n + 1, Len(recent))

\* No session outlives everyone who could end it: one that Spawn registered and
\* nobody closed yet is in the registry, or taken by a Remove or a Close that will
\* close it.  A closed engine registers nothing (Spawn's second look at closed).
NoOrphanSession ==
  \A s \in Sessions :
    /\ phase[s] \in {"registered", "ready"} /\ s \notin sclosed =>
         s \in registry \cup removing \cup toClose
    /\ engineClosed => s \notin registry

\* A closed engine ends every child, also the one a Spawn was starting meanwhile.
CloseReapsEverySession ==
  \A s \in Sessions : (engineClosed /\ Started(s)) ~> (s \in exited)

\* A closed engine ends every feed, also the one that subscribes too late.
FeedsEndWithTheEngine ==
  \A f \in Feeds : (engineClosed /\ f \in ejoined) ~> (f \in edone)

\* No read loop waits at the gate forever: Spawn opens it on every path.
GatesOpen == \A s \in Sessions : (s \in announcing) ~> (s \notin announcing)
=============================================================================
