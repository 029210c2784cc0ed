------------------------------- MODULE Session -------------------------------
(***************************************************************************)
(* One windrunner Session (session.go): a terminal whose output fans out   *)
(* to subscriptions, and whose size follows the statements of the viewers  *)
(* attached to it.                                                         *)
(*                                                                         *)
(* The terminal is abstracted to a version number: every chunk the read    *)
(* loop writes and every resize that lands makes one new version.  A       *)
(* message is the version it takes a replica to.  Output bytes are a delta *)
(* (they only make sense on the version before), a repaint redraws the     *)
(* screen over an unbroken history, a resync replaces the replica.         *)
(*                                                                         *)
(* Every action below is one critical section of Session.mu.  Receiving    *)
(* from a subscription's channel and the first half of Subscription.Close  *)
(* take no session lock, so they also run while the lock is held across    *)
(* the last call of a stream (lastCall # "none"), the one critical section *)
(* whose outcome depends on a reader draining concurrently.                *)
(***************************************************************************)
EXTENDS Integers, Sequences

CONSTANTS
  Subs,       \* identities of the subscriptions attached over the session's life
  Sizes,      \* terminal geometries of at least 2x2
  SpawnSize,  \* the geometry the session is spawned with
  NoSize,     \* "no statement": a viewer that does not know its geometry
  Buffer,     \* capacity of each subscription's channel
  MaxVersion, \* bound: no output chunk is read beyond this version
  MaxSeq      \* bound: number of size statements made

ASSUME SizesAssumption == SpawnSize \in Sizes /\ NoSize \notin Sizes
ASSUME BufferAssumption == Buffer \in Nat \ {0}
ASSUME BoundsAssumption == MaxVersion \in Nat /\ MaxSeq \in Nat

VARIABLES
  \* --- terminal and size (Session.emu, cols/rows, base*, views, viewSeq)
  version,    \* version of the emulator's state
  size,       \* the terminal's geometry
  base,       \* [size, seq] of the control-plane statement
  views,      \* sub -> [size, seq] of its statement, or NoView
  viewSeq,    \* statement stamp counter
  settling,   \* subs whose retirement left a settleSize goroutine pending
  \* --- subscriptions
  subs,       \* Session.subs
  joined,     \* every subscription AttachWith has returned
  resync,     \* Subscription.resync
  ch,         \* Subscription.ch, buffered messages
  missed,     \* Subscription.missed
  done,       \* Subscription.done: the channel is closed
  lagged,     \* Subscription.lagged
  retire,     \* subs whose retire hook has not been taken yet
  retiring,   \* subs between the two halves of Subscription.Close
  replica,    \* sub -> version its reader shows, or Torn
  cut,        \* history: version at which the session ended a stream, or Live
  \* --- lifecycle
  armed,      \* resyncTimer # nil
  eof,        \* readLoop has returned
  exited,     \* Session.exited
  closed,     \* Session.closed
  ptyClosed,  \* the PTY master is closed
  closing,    \* close(): subscriptions it took and has not finished yet
  lastCall,   \* who holds mu across flushResyncsLocked(true)
  evict       \* subs found full by that flush, about to lose a message

terminal  == <<version, size, base, views, viewSeq, settling>>
streams   == <<subs, joined, resync, ch, missed, done, lagged, retire,
               retiring, replica, cut>>
lifecycle == <<armed, eof, exited, closed, ptyClosed, closing, lastCall, evict>>
vars      == <<terminal, streams, lifecycle>>

Torn   == -1       \* a replica that applied a delta to the wrong version
Live   == -1       \* a stream the session has not ended
NoView == [size |-> NoSize, seq |-> 0]

Bytes(v)   == [kind |-> "bytes", version |-> v]
Repaint(v) == [kind |-> "repaint", version |-> v]
Resync(v)  == [kind |-> "resync", version |-> v]

\* A message applies cleanly to a replica at version v.  A repaint may repeat
\* the version a replica already has: AttachWith broadcasts the repaint of its
\* own resize to the new subscription and then snapshots the same state.
Applies(v, m) ==
  \/ m.kind = "resync"
  \/ m.kind = "bytes" /\ v = m.version - 1
  \/ m.kind = "repaint" /\ v \in {m.version - 1, m.version}

\* The version a reader at version v ends at once it has read the queue q.
Tip(q, v) == IF q = << >> THEN v ELSE q[Len(q)].version

\* A resync waits in the queue q.
Heals(q) == \E i \in 1..Len(q) : q[i].kind = "resync"

MuFree == lastCall = "none"

Init ==
  /\ version = 0 /\ size = SpawnSize
  /\ base = [size |-> SpawnSize, seq |-> 0]
  /\ views = [s \in Subs |-> NoView] /\ viewSeq = 0 /\ settling = {}
  /\ subs = {} /\ joined = {} /\ resync = {}
  /\ ch = [s \in Subs |-> << >>]
  /\ missed = {} /\ done = {} /\ lagged = {} /\ retire = {} /\ retiring = {}
  /\ replica = [s \in Subs |-> 0] /\ cut = [s \in Subs |-> Live]
  /\ armed = FALSE /\ eof = FALSE /\ exited = FALSE
  /\ closed = FALSE /\ ptyClosed = FALSE
  /\ closing = {} /\ lastCall = "none" /\ evict = {}

-----------------------------------------------------------------------------
(***************************************************************************)
(* Delivery and size resolution, under the session lock.                   *)
(***************************************************************************)

\* The viewers of S with a standing statement in V.
Spoke(S, V) == {s \in S : V[s] # NoView}

\* effectiveLocked: the newest statement among the views V and the base B.
Effective(V, B) ==
  LET statements == {B} \cup {V[s] : s \in Spoke(Subs, V)}
  IN (CHOOSE t \in statements : \A u \in statements : t.seq >= u.seq).size

\* Mutant of Open: forgets the debt check, so bytes queue behind a gap.
OpenToDebtors(S) == S \ done

\* deliver's early returns: a finished reader and one in debt get nothing.
Open(S) == (S \ done) \ missed

\* Mutant of Orphaned: a viewer's statement retires and nobody settles the size.
NothingOrphaned(S, V) == {}

\* retireViewerLocked: those of S whose retirement starts a settleSize goroutine.
Orphaned(S, V) == Spoke(S, V)

\* Mutant of Arms: a new debt does not schedule the retry.
ArmsNever(owed) == armed

\* armResyncRetryLocked, for the readers newly owed state.
Arms(owed) == armed \/ (owed # {} /\ ~closed)

\* Subscription.deliver of message m to every subscription of S, where R are
\* the subscriptions holding a retire hook, V the standing views and G the
\* pending settleSize goroutines.  A full reader is dropped, with its statement,
\* or goes into debt if it asked to resync.
Deliver(m, S, R, V, G) ==
  LET full    == {s \in Open(S) : Len(ch[s]) >= Buffer}
      dropped == full \ resync
      owed    == full \cap resync
  IN /\ ch' = [s \in Subs |-> IF s \in Open(S) \ full THEN Append(ch[s], m)
                                                      ELSE ch[s]]
     /\ done' = done \cup dropped
     /\ lagged' = lagged \cup dropped
     /\ retire' = R \ dropped
     /\ subs' = S \ dropped
     /\ views' = [s \in Subs |-> IF s \in dropped THEN NoView ELSE V[s]]
     /\ settling' = G \cup Orphaned(dropped, V)
     /\ missed' = missed \cup owed
     /\ armed' = Arms(owed)

\* Mutant of ApplySize: the terminal moves without broadcasting a repaint.
ApplySizeSilently(S, R, V, B, G) ==
  /\ size' = IF ptyClosed THEN size ELSE Effective(V, B)
  /\ version' = IF size' = size THEN version ELSE version + 1
  /\ subs' = S /\ retire' = R /\ views' = V /\ settling' = G
  /\ UNCHANGED <<ch, done, lagged, missed, armed>>

\* applySizeLocked(effectiveLocked()): move the terminal to the size the
\* statements resolve to and broadcast the repaint.  Setsize fails once the PTY
\* master is closed; the statement stays recorded and nothing moves.
ApplySize(S, R, V, B, G) ==
  LET target == Effective(V, B)
  IN IF target = size \/ ptyClosed
     THEN /\ subs' = S /\ retire' = R /\ views' = V /\ settling' = G
          /\ UNCHANGED <<version, size, ch, done, lagged, missed, armed>>
     ELSE /\ size' = target
          /\ version' = version + 1
          /\ Deliver(Repaint(version + 1), S, R, V, G)

-----------------------------------------------------------------------------
(***************************************************************************)
(* The read loop, the child and the resync timer.                          *)
(***************************************************************************)

\* readLoop's write: one whole-sequence chunk reaches the emulator and every
\* subscription.  The child may write until the last slave side closes; what it
\* left in the PTY is still read after it has exited, and a held-back remnant is
\* written even after the master is closed.
Output ==
  /\ MuFree /\ ~eof /\ version < MaxVersion
  /\ version' = version + 1
  /\ Deliver(Bytes(version + 1), subs, retire, views, settling)
  /\ UNCHANGED <<size, base, viewSeq, joined, resync, retiring, replica, cut,
                 eof, exited, closed, ptyClosed, closing, lastCall, evict>>

\* waitLoop: the child ends, on its own or by Kill's signal, cmd.Wait returns and
\* the exit is recorded.
WaitLoop ==
  /\ MuFree /\ ~exited /\ exited' = TRUE
  /\ UNCHANGED <<terminal, streams, armed, eof, closed, ptyClosed, closing,
                 lastCall, evict>>

\* flushResyncsLocked's cases: who is owed state, and who has no room for it.
Debtors == (subs \cap missed) \ done
FullDebtors == {s \in Debtors : Len(ch[s]) >= Buffer}

\* The armResyncRetryLocked callback: flushResyncsLocked(false) pays every
\* debtor with room and re-arms while one has none.
ResyncTimer ==
  /\ MuFree /\ armed /\ ~closed
  /\ LET paid == Debtors \ FullDebtors
     IN /\ ch' = [s \in Subs |-> IF s \in paid THEN Append(ch[s], Resync(version))
                                              ELSE ch[s]]
        /\ missed' = missed \ paid
  /\ armed' = (FullDebtors # {})
  /\ UNCHANGED <<terminal, subs, joined, resync, done, lagged, retire, retiring,
                 replica, cut, eof, exited, closed, ptyClosed, closing,
                 lastCall, evict>>

-----------------------------------------------------------------------------
(***************************************************************************)
(* The end of a stream: readLoop's return and close() both make a last     *)
(* call, flushResyncsLocked(true), under the lock.  It is two steps here:  *)
(* between finding a debtor's buffer full and evicting its oldest message  *)
(* the reader may drain it, and nothing else can take the lock.            *)
(***************************************************************************)

\* readLoop's read fails: the last slave side of the PTY is gone, which may
\* precede the child's exit (a child that closes its terminal) or follow it (a
\* background job that keeps it), or the master is closed.
ReadError ==
  /\ MuFree /\ ~eof
  /\ lastCall' = "eof" /\ evict' = FullDebtors
  /\ UNCHANGED <<terminal, streams, armed, eof, exited, closed, ptyClosed,
                 closing>>

\* close() enters; idempotent.
CloseSession ==
  /\ MuFree /\ ~closed
  /\ lastCall' = "close" /\ evict' = FullDebtors
  /\ UNCHANGED <<terminal, streams, armed, eof, exited, closed, ptyClosed,
                 closing>>

\* Mutant of Room: the final state is sent without making room for it.
RoomAssumed(s) == ch[s]

\* What is left of a debtor's buffer after the eviction, which takes nothing if
\* the reader emptied it in between.
Room(s) == IF s \in evict /\ ch[s] # << >> THEN Tail(ch[s]) ELSE ch[s]

\* Mutant of PayLastCall: the stream ends without a last call.
NoLastCall ==
  /\ cut' = [s \in Subs |-> IF s \in subs \ done THEN version ELSE cut[s]]
  /\ subs' = {} /\ lastCall' = "none" /\ evict' = {}
  /\ UNCHANGED ch

\* Mutant of PayLastCall: room is made for the final state, which only those who had
\* room already are sent.
EvictOrPay ==
  /\ ch' = [s \in Subs |-> IF s \notin Debtors THEN ch[s]
                          ELSE IF s \in evict THEN Room(s)
                          ELSE Append(ch[s], Resync(version))]
  /\ cut' = [s \in Subs |-> IF s \in subs \ done THEN version ELSE cut[s]]
  /\ subs' = {} /\ lastCall' = "none" /\ evict' = {}

\* Mutant of PayLastCall: a bare receive, which blocks on an emptied buffer.
BareReceive ==
  /\ \A s \in evict \cap Debtors : ch[s] # << >>
  /\ ch' = [s \in Subs |-> IF s \in Debtors THEN Append(Room(s), Resync(version))
                                            ELSE ch[s]]
  /\ cut' = [s \in Subs |-> IF s \in subs \ done THEN version ELSE cut[s]]
  /\ subs' = {} /\ lastCall' = "none" /\ evict' = {}

\* Every debtor is handed the final state and the session lets go of its
\* subscriptions.
PayLastCall ==
  /\ ch' = [s \in Subs |-> IF s \in Debtors THEN Append(Room(s), Resync(version))
                                            ELSE ch[s]]
  /\ cut' = [s \in Subs |-> IF s \in subs \ done THEN version ELSE cut[s]]
  /\ subs' = {} /\ lastCall' = "none" /\ evict' = {}

\* The rest of readLoop's return: every subscription finishes.
FinishStreams ==
  /\ lastCall = "eof"
  /\ PayLastCall
  /\ done' = done \cup subs /\ missed' = missed \ (subs \ done) /\ eof' = TRUE
  /\ UNCHANGED <<terminal, joined, resync, lagged, retire, retiring, replica,
                 armed, exited, closed, ptyClosed, closing>>

\* The rest of close()'s critical section: it takes the subscriptions and the
\* timer with it and finishes them after unlocking.
TakeStreams ==
  /\ lastCall = "close"
  /\ PayLastCall
  /\ missed' = missed \ (subs \ done)
  /\ closed' = TRUE /\ armed' = FALSE /\ closing' = subs
  /\ UNCHANGED <<terminal, joined, resync, done, lagged, retire, retiring,
                 replica, eof, exited, ptyClosed>>

\* close(), unlocked: finish one subscription.
FinishTaken(s) ==
  /\ s \in closing
  /\ closing' = closing \ {s}
  /\ done' = done \cup {s} /\ missed' = missed \ ({s} \ done)
  /\ UNCHANGED <<terminal, subs, joined, resync, ch, lagged, retire, retiring,
                 replica, cut, armed, eof, exited, closed, ptyClosed, lastCall,
                 evict>>

\* close(), last: Kill the child and close the PTY master.
Release ==
  /\ MuFree /\ closed /\ closing = {} /\ ~ptyClosed
  /\ ptyClosed' = TRUE
  /\ UNCHANGED <<terminal, streams, armed, eof, exited, closed, closing,
                 lastCall, evict>>

-----------------------------------------------------------------------------
(***************************************************************************)
(* Viewers: attaching, speaking, reading, leaving.                         *)
(***************************************************************************)

Statement(z) == [size |-> z, seq |-> viewSeq + 1]

\* AttachWith a session that is over: a finished subscription and a snapshot.
AttachOver(s) ==
  /\ exited \/ closed
  /\ done' = done \cup {s} /\ cut' = [cut EXCEPT ![s] = version]
  /\ replica' = [replica EXCEPT ![s] = version]
  /\ UNCHANGED <<terminal, subs, resync, ch, missed, lagged, retire, retiring,
                 armed>>

\* AttachWith a live session: subscribe, let the viewer's statement z land, and
\* only then take the snapshot.
AttachLive(s, z) ==
  /\ ~exited /\ ~closed
  /\ \/ /\ z = NoSize
        /\ subs' = subs \cup {s} /\ retire' = retire \cup {s}
        /\ UNCHANGED <<terminal, ch, missed, done, lagged, armed>>
     \/ /\ z \in Sizes /\ viewSeq < MaxSeq
        /\ viewSeq' = viewSeq + 1
        /\ ApplySize(subs \cup {s}, retire \cup {s},
                     [views EXCEPT ![s] = Statement(z)], base, settling)
        /\ UNCHANGED base
  /\ \E policy \in BOOLEAN : resync' = IF policy THEN resync \cup {s} ELSE resync
  /\ replica' = [replica EXCEPT ![s] = version']
  /\ UNCHANGED <<retiring, cut>>

AttachWith(s, z) ==
  /\ MuFree /\ s \notin joined /\ joined' = joined \cup {s}
  /\ AttachOver(s) \/ AttachLive(s, z)
  /\ UNCHANGED <<eof, exited, closed, ptyClosed, closing, lastCall, evict>>

\* Resize: the control plane rewrites the base.  A size below 2x2 is refused
\* and changes nothing.
Resize(z) ==
  /\ MuFree /\ viewSeq < MaxSeq
  /\ viewSeq' = viewSeq + 1 /\ base' = Statement(z)
  /\ ApplySize(subs, retire, views, Statement(z), settling)
  /\ UNCHANGED <<joined, resync, retiring, replica, cut, eof,
                 exited, closed, ptyClosed, closing, lastCall, evict>>

\* Mutant of ResizeViewer: a statement is recorded whoever makes it.
ResizeViewerUnchecked(s, z) ==
  /\ MuFree /\ s \in joined /\ viewSeq < MaxSeq
  /\ viewSeq' = viewSeq + 1 /\ UNCHANGED base
  /\ ApplySize(subs, retire, [views EXCEPT ![s] = Statement(z)], base, settling)
  /\ UNCHANGED <<joined, resync, retiring, replica, cut, eof,
                 exited, closed, ptyClosed, closing, lastCall, evict>>

\* ResizeViewer: a statement from a subscription no longer attached is dropped.
ResizeViewer(s, z) ==
  /\ MuFree /\ s \in subs /\ viewSeq < MaxSeq
  /\ viewSeq' = viewSeq + 1 /\ UNCHANGED base
  /\ ApplySize(subs, retire, [views EXCEPT ![s] = Statement(z)], base, settling)
  /\ UNCHANGED <<joined, resync, retiring, replica, cut, eof,
                 exited, closed, ptyClosed, closing, lastCall, evict>>

\* External: the reader receives its next message and applies it.  A closed
\* channel still yields what was buffered.
Receive(s) ==
  /\ ch[s] # << >>
  /\ replica' = [replica EXCEPT ![s] = IF Applies(@, Head(ch[s]))
                                       THEN Head(ch[s]).version ELSE Torn]
  /\ ch' = [ch EXCEPT ![s] = Tail(@)]
  /\ UNCHANGED <<terminal, subs, joined, resync, missed, done, lagged, retire,
                 retiring, cut, lifecycle>>

\* Subscription.Close, first half, under the subscription's own lock: end the
\* stream and take the retire hook.
CloseSub(s) ==
  /\ s \in joined /\ (s \notin done \/ s \in retire)
  /\ done' = done \cup {s}
  /\ missed' = missed \ ({s} \ done)
  /\ retire' = retire \ {s}
  /\ retiring' = IF s \in retire THEN retiring \cup {s} ELSE retiring
  /\ UNCHANGED <<terminal, subs, joined, resync, ch, lagged, replica, cut,
                 lifecycle>>

\* Subscription.Close, second half: retireViewer withdraws the statement and
\* leaves the settling to a goroutine of its own.
RetireViewer(s) ==
  /\ MuFree /\ s \in retiring
  /\ retiring' = retiring \ {s}
  /\ subs' = subs \ {s}
  /\ views' = [views EXCEPT ![s] = NoView]
  /\ settling' = settling \cup Orphaned({s}, views)
  /\ UNCHANGED <<version, size, base, viewSeq, joined, resync, ch, missed,
                 done, lagged, retire, replica, cut, lifecycle>>

\* settleSize: re-resolve the size, unless the session is over.
SettleSize(s) ==
  /\ MuFree /\ s \in settling
  /\ \/ /\ closed \/ exited
        /\ settling' = settling \ {s}
        /\ UNCHANGED <<version, size, views, subs, ch, done, lagged, retire,
                       missed, armed>>
     \/ /\ ~closed /\ ~exited
        /\ ApplySize(subs, retire, views, base, settling \ {s})
  /\ UNCHANGED <<base, viewSeq, joined, resync, retiring, replica, cut, eof,
                 exited, closed, ptyClosed, closing, lastCall, evict>>

-----------------------------------------------------------------------------
Next ==
  \/ Output \/ WaitLoop \/ ResyncTimer
  \/ ReadError \/ CloseSession \/ FinishStreams \/ TakeStreams \/ Release
  \/ \E z \in Sizes : Resize(z)
  \/ \E s \in Subs :
       \/ FinishTaken(s) \/ Receive(s) \/ CloseSub(s)
       \/ RetireViewer(s) \/ SettleSize(s)
       \/ \E z \in Sizes \cup {NoSize} : AttachWith(s, z)
       \/ \E z \in Sizes : ResizeViewer(s, z)

\* Goroutines already started run on, and an armed timer fires; the child that
\* close() killed is reaped, and the read of the master it closed fails.  Nothing
\* is assumed of a child left alone, of readers or of callers.
Fairness ==
  /\ WF_vars(ResyncTimer)
  /\ WF_vars(ptyClosed /\ ReadError) /\ WF_vars(FinishStreams) /\ WF_vars(TakeStreams)
  /\ WF_vars(Release)
  /\ WF_vars(ptyClosed /\ WaitLoop)
  /\ \A s \in Subs : /\ WF_vars(FinishTaken(s)) /\ WF_vars(RetireViewer(s))
                     /\ WF_vars(SettleSize(s))

Spec == Init /\ [][Next]_vars
FairSpec == Spec /\ Fairness

-----------------------------------------------------------------------------
(***************************************************************************)
(* Properties.                                                             *)
(***************************************************************************)

Message == [kind : {"bytes", "repaint", "resync"}, version : Nat]

View == [size : Sizes \cup {NoSize}, seq : Nat]

\* The types of the session's state.  No channel ever holds more than its
\* capacity: a send that did not fit would block under the session lock, the last
\* call's send after its eviction included.
TypeOK ==
  /\ version \in Nat /\ size \in Sizes /\ viewSeq \in Nat
  /\ base \in [size : Sizes, seq : Nat]
  /\ views \in [Subs -> View]
  /\ settling \subseteq Subs /\ subs \subseteq Subs /\ joined \subseteq Subs
  /\ resync \subseteq Subs /\ missed \subseteq Subs /\ done \subseteq Subs
  /\ lagged \subseteq Subs /\ retire \subseteq Subs /\ retiring \subseteq Subs
  /\ closing \subseteq Subs /\ evict \subseteq Subs
  /\ ch \in [Subs -> Seq(Message)] /\ \A s \in Subs : Len(ch[s]) <= Buffer
  /\ replica \in [Subs -> Int] /\ cut \in [Subs -> Int]
  /\ armed \in BOOLEAN /\ eof \in BOOLEAN /\ exited \in BOOLEAN /\ closed \in BOOLEAN
  /\ ptyClosed \in BOOLEAN
  /\ lastCall \in {"none", "eof", "close"}

\* A reader that has read everything queued for it shows exactly the terminal:
\* the current state while it is attached and owed nothing, and the state at
\* which the session ended its stream afterwards (deliver, flushResyncsLocked,
\* AttachWith).  Bytes dropped for a slow resyncing reader never reappear behind
\* the state that superseded them.
ReplicaConverges ==
  \A s \in joined : ch[s] = << >> =>
    /\ s \in (subs \ done) \ missed => replica[s] = version
    /\ cut[s] # Live => replica[s] = cut[s]

\* The only gap a stream may show is the message the last call evicts, and the
\* exact state is queued behind it: a replica that applied a delta to the wrong
\* version always has a resync still to read (flushResyncsLocked, force).
GapsHeal == \A s \in Subs : replica[s] = Torn => Heals(ch[s])

\* While an attached reader is owed state the retry is scheduled, whatever
\* closes, drops or resizes ran in between (armResyncRetryLocked).
DebtIsScheduled == Debtors # {} => armed

\* The terminal is the size the standing statements resolve to, except while a
\* settleSize goroutine is still to run (effectiveLocked, applySizeLocked,
\* retireViewerLocked).  settleSize leaves a session that is over alone.
SizeFollowsStatements ==
  settling = {} /\ ~exited /\ ~closed => size = Effective(views, base)

\* No ghost owns the terminal: a standing statement belongs to a viewer that is
\* attached, or whose subscription has still to be closed or is closing
\* (retireViewerLocked, ResizeViewer's check).
StatementsHaveOwners ==
  \A s \in Subs : views[s] # NoView => s \in subs \cup retire \cup retiring

\* Queue q continues a replica at version v: every message applies to what comes
\* before it, or a resync at or after it makes good the gap.
Continues(q, v) ==
  \A i \in 1..Len(q) :
    \/ Applies(IF i = 1 THEN v ELSE q[i - 1].version, q[i])
    \/ \E j \in i..Len(q) : q[j].kind = "resync"

\* Every queue continues its reader's replica and ends where the reader should
\* end: at the terminal while it is attached, at the cut once it is not.
StreamsContinue ==
  \A s \in Subs :
    /\ Continues(ch[s], replica[s])
    /\ s \in (subs \ done) \ missed => Tip(ch[s], replica[s]) = version
    /\ cut[s] # Live => Tip(ch[s], replica[s]) = cut[s] /\ s \in joined \ subs

\* Who is where: a subscription not attached yet has left no trace, an attached
\* one can still be retired, a closed session has none, a finished one owes
\* nothing, and only a resyncing one is ever owed state.
Bookkeeping ==
  /\ \A s \in Subs \ joined :
       /\ ch[s] = << >> /\ cut[s] = Live
       /\ s \notin subs \cup done \cup missed \cup resync
       /\ s \notin retire \cup retiring \cup closing
  /\ subs \subseteq retire \cup retiring
  /\ Spoke(Subs, views) \subseteq retire \cup retiring
  /\ closed => subs = {}
  /\ ptyClosed => closed
  /\ missed \subseteq resync \ done

\* The statements in V and B carry distinct stamps, none newer than n.
Stamped(V, B, n) ==
  /\ B.seq <= n
  /\ \A s \in Spoke(Subs, V) :
       /\ V[s].size \in Sizes /\ V[s].seq \in 1..n /\ B.seq # V[s].seq
       /\ \A u \in Spoke(Subs, V) \ {s} : V[u].seq # V[s].seq

\* While the last call holds the lock no debtor fills up behind its back.
EvictionsCover == lastCall # "none" => FullDebtors \subseteq evict

\* The inductive invariant behind the safety properties above.
IInv ==
  /\ TypeOK /\ Bookkeeping /\ EvictionsCover
  /\ Stamped(views, base, viewSeq)
  /\ StreamsContinue /\ GapsHeal /\ DebtIsScheduled /\ SizeFollowsStatements

\* A debtor with room is paid without waiting for further output, unless its
\* stream ends first (the resync timer).
OwedStateArrives ==
  \A s \in Subs : (s \in missed /\ Len(ch[s]) < Buffer) ~> (s \notin missed)

\* A statement that retired lets go of the terminal: the size comes back to the
\* standing statements (settleSize).
TerminalSettles ==
  (size # Effective(views, base)) ~>
    (size = Effective(views, base) \/ exited \/ closed)

\* The last call never wedges the session lock, however the reader races the
\* eviction (flushResyncsLocked: "Never a bare receive").
LockIsReleased == (lastCall # "none") ~> (lastCall = "none")
=============================================================================
