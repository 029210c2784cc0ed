# Windrunner in TLA+

Windrunner runs programs on pseudo-terminals that outlive the terminals watching
them. This directory holds TLA+ models of the parts of it where goroutines,
readers and connections meet, TLC configurations that check them on small
instances, and TLAPS proofs for instances of any size. Every definition is
translated from the Go source; `PROJECT.json` maps definitions to lines.

## The system

| Part | State | Operations | Talks to |
|---|---|---|---|
| Session (`session.go`) | emulator, size, size statements, subscriptions, timers, lifecycle flags, all under `Session.mu` | read loop, wait loop, attach, detach, resize, viewer resize, resync timer, kill, close | child through the PTY, subscribers through bounded channels, engine through `publish` |
| Metadata (`session.go`, `server.go` describe) | bag, revision | `Metadata`, `Revision`, `SetMetadata`, `SetMetadataIf` | writers in process or over the control connection |
| Engine (`engine.go`) | registry, event feeds, `closed` | `Spawn`, `Remove`, `Close`, `Subscribe`, `publish` | sessions (their goroutines publish through the ready gate), feed readers |
| Attach connection (`server.go`, `client.go`) | two server goroutines, a socket, the Attachment's loop and channels | pump, frame loop, client read loop, hang-up | one subscription, one consuming program |
| Interactive (`interactive.go`) | an input goroutine, a select, a pending SIGWINCH | forward keys, state the size, paint, leave | one Attachment, the user's terminal |
| Control connection (`client.go`, `server.go`) | `Client.mu`, one socket, a 10 s deadline per call | `call`, `serveConn`, `decodeRequest`, `handle` | engine and sessions |
| Event feed over the wire (`server.go`, `client.go`) | an EventSubscription, two server goroutines, an EventStream | `serveSubscribe`, `Subscribe`, `Events`, `Close` | engine feeds |
| Hold-back (`completeBoundary`, `incompleteRuneTail`) | pending bytes | per read | read loop |
| Response loop (`respondLoop`) | 256 queued answers, `writeMu` | emulator pipe to PTY | child, session lock |
| Terminal state (`termstate.go`) | margins and modes to replay | observe, apply, resize, replay | read loop, snapshots, repaints |
| Daemon start-up (`EnsureDaemon`, `runDaemon`) | the socket file | dial, remove, start, poll, listen | the file system, other callers |
| Command line (`main.go`) | none | sub-commands | all of the above |

What is hard here, part by part, and what makes the part correct:

* **Session.** One lock, but readers drain channels without it, statements retire
  from goroutines of their own, and a stream ends in two places (EOF on the PTY,
  `close`). Correct: a replica that has read everything shows the terminal; a slow
  resyncing reader is paid, in order and even without further output; the size
  follows the newest standing statement; no send ever blocks under the lock.
* **Metadata.** A pair is read in two critical sections and used later. Correct: an
  accepted conditional write is not undone by another conditional write.
* **Engine.** `Spawn` gives up the lock while it starts a child, and the child's
  goroutines run from then on. Correct: no orphan children, `spawned` first, feeds
  without gaps, everything ends with the engine.
* **Attach connection.** Two goroutines on each side of a socket that blocks when
  full. Correct: frames arrive in terminal order, the exit comes last, a hang-up is
  noticed and takes the viewer's size with it.
* **Interactive.** A select among five things that become ready together. Correct: it
  returns when it says it does, and says truly why.
* **Control connection.** A deadline may cut a frame in two or give up on an answer
  that is still coming, and the connection is used again. Correct: every call
  returns, torn requests are never carried out, an answer belongs to its call.
* **Event feed.** Three buffers between an event and the program, any of which may be
  full. Correct: every event in order and without a gap until the stream ends, and an
  end rather than silence.
* **Hold-back and terminal state.** Reads end anywhere. Correct: writes end between
  sequences, nothing whole is held back, nothing is held back for ever, and the
  modes read off the stream and replayed into a replica are those of the emulator.
* **Response loop.** The emulator speaks while the session lock is held, to a child that
  may not listen. Correct: nobody waits for the lock for ever, the two writers of the PTY
  do not mix, `close` ends every goroutine.
* **Daemon start-up.** Several programs, one file. Correct: a client's connections reach
  one daemon.

## Modules

| Module | What it is |
|---|---|
| `Session` | one session: streams, resyncs, sizes, lifecycle |
| `MCSession` | `Session` with symmetric subscriptions for TLC |
| `SessionProofs` | its theorems |
| `Metadata`, `MetadataProofs` | the versioned bag and its theorems |
| `Engine`, `EngineProofs` | registry and event feeds, and their theorems |
| `Attach` | one attach connection end to end |
| `Interactive` | `Attach` with either a library program or the interactive terminal at its end |
| `InteractiveProofs` | the theorems about both |
| `ControlCall`, `ControlCallProofs` | one control connection and its theorems |
| `Feed` | abstract: what a program is promised of an event stream |
| `EventFeed` | one subscribe connection end to end; implements `Feed` |
| `EventFeedProofs` | that it does, and its types |
| `TermState` | the mode tracker and its replay, as operators |
| `ReadLoop`, `MCReadLoop` | hold-back, tracker, emulator and a replica; the sequences TLC feeds it |
| `ReadLoopProofs` | the theorems about the hold-back and the tracked modes |
| `Respond`, `RespondProofs` | the emulator's answers, client input, and `close`; its theorem |
| `DaemonStart` | cold starts racing for the socket file |

Definitions named "Mutant of X" are plausible bugs in X. They are never part of a
specification; each shows that a property notices the bug when it replaces X.

### Session

The terminal is a version number: each chunk the read loop writes and each resize
that lands makes a new one. `Bytes(v)` is a delta from `v-1`, `Repaint(v)` redraws
the screen of version `v` over an unbroken history, `Resync(v)` replaces the replica.
`replica[s]` is the version reader `s` shows, `Torn` once it applied a delta to the
wrong version. What the chunks contain is left to `ReadLoop`: one `Output` step is one
call of the read loop's `write`.

Every action is one critical section of `Session.mu`, with one exception. The last
call, `flushResyncsLocked(true)`, looks at a buffer and then evicts from it while the
reader drains without the lock, so it is split: `ReadError`/`CloseSession` find the
full buffers, `FinishStreams`/`TakeStreams` evict, and only lock-free steps
(`Receive`, `CloseSub`, `FinishTaken`) run in between. `Subscription.Close` is two
actions for the same reason (`CloseSub`, `RetireViewer`), and `close()` is four
(`CloseSession`, `TakeStreams`, `FinishTaken`, `Release`). `Kill` only signals the
child; `WaitLoop` may happen at any time, which covers it. `Setsize` failing is
modelled where it does fail: on a closed PTY master.

EOF on the PTY and the recorded exit come in either order: a child may close its
terminal and live on, a background job may keep it open after the child is reaped.

### Metadata

A bag is the set of updates it contains. A writer reads the two halves in two steps,
adds one update and calls `SetMetadataIf`. `RevisionFirst` writers read the revision
before the bag, as a program that embeds the engine can; every other writer is a
client of `describe`, which reads the bag before the revision.

### Engine

`Spawn` is cut at each lock it takes: `SpawnCheck`, `StartSession`, `Register` or
`Abandon`, `Announce`. `GateOpen` is the closed `ready` channel. An idle or busy
transition is two steps, the decision under the session lock and the publication
after it; only the latter waits at the gate. `Remove` and `Close` take sessions under
the lock and close them after it. `CloseFeed` does in one step what
`EventSubscription.Close` does in two: between them the feed is already out of reach
of `publish`, and nothing else can tell.

### Attach

`pump` and `reader` are the two goroutines of `serveAttach`. A message of the
subscription becomes one or two frames (`FramesOf`) which the pump writes one at a
time; a write blocks on a full socket and fails on a closed connection. `Leave` is
`detach()` and `sub.Close()`. The client's loop takes one frame in hand and blocks
until `Output` has room. A connection closed by the client loses what was in flight
to it; one closed by the server is still read to its end, as on a unix socket.
Malformed frames are not sent. The session is reduced to one subscription;
`EndStream` covers the read loop's return and `close()` alike, with the last call as
one step, because `Session` already looks inside it. Once the PTY has lost its slave
side a write to it may fail (it does on Linux) or not. `DaemonDies` may happen at any
time: both goroutines and the session go, what was written to the socket is still read.
`Pipeline` is everything on its way to the program, from the next message of the
queue to `Output`; `InTerminalOrder` says that any two neighbours on it may follow each
other, the exit frame included, and that none is older than what was shown.

### Interactive

`mode` says who holds the Attachment. In mode "library" any program does: it
consumes, types, states sizes and hangs up as it likes (`Use`). In mode "terminal" it is
`Client.Interactive`: `typist` is the input goroutine, `screen` the main loop, each
`Take` action one case of its select. `StateSize` is apart from `TakeWinch` because the
write blocks while the socket is full. The first `Resize` travels on the control
connection before the attach and is not part of this module.

### ControlCall

A call is numbered by the order in which it takes `Client.mu`. A frame is two units, header and
payload, because `WriteFrame` and `ReadFrame` handle them in two steps and a deadline
may fall between them; a torn frame shifts every later one. Text read in a header's
place announces an absurd length, which ends the connection (`MaxFrame`), or, when the text
runs into the next header, a length that never arrives (`Starve`, "adrift"). JSON that
was put together from two requests never decodes: the first half ends inside an object
or a string, and what follows starts with a binary header. Operations are kept
apart only as far as their answers differ: what they do to sessions is in `Session`,
`Metadata` and `Engine`. `Type` is `Session.Write` for an input op; no fairness is
given to it, because the child need not read.

### Feed and EventFeed

Events are numbers, in the order of `publish`. `Feed` has three variables: how many
were published, the last one heard, and whether the stream is asked for, open or
ended; its only way to hear is `heard + 1`. `EventFeed` has the subscription's channel,
the pump's hand, the socket, the read loop's hand and `EventStream.events`, and
implements it under the identity mapping of those three variables, `stream` being what
the program knows.

### TermState and ReadLoop

A token is a byte, except that a parameter's digits are one token. The child emits
whole `Items`; each token knows its place in its item, which the code does not see and
the properties use. What an item may be (`ItemsAssumption`) is said by the grammar of
UTF-8 and ECMA-48, not by the code's automaton: a rune, an ESC sequence with
intermediates, a CSI sequence, or a string ended by BEL or ST. Excluded are the
malformed ones and `ESC ( [`, where `completeBoundary` takes the final for the
beginning of a CSI sequence. `CompleteBoundary` and `Observe` are recursive functions over
the chunk, as the loops are: `observe` and the `observeCSI` it calls are one loop over the
tokens (`ObserveToken`) that keeps what either has read so far (`Reading`).

The emulator is a dependency: it is modelled as executing each item once it is complete,
the tracker as `Observe` on the chunks as they are cut, and `ModesAgree` compares the two.
What an item does to the emulator's modes (`Effect`) does not go by the tracker's reading:
it is a table of whole sequences and their meaning in the manuals of the VT420 and xterm,
RIS, DECSTR, DECSET and DECRST of any number of modes, DECSTBM, and DECSLRM where DECLRMM is
set. That DECSTR puts back everything the tracker follows is taken from `termstate.go`,
which says so (`termstate.go:82-84`); a terminal that keeps its alternate screen over a
DECSTR would part with the tracker there.
`ModesAssumption` keeps the final bytes of these sequences (h, l, p, r, s) to forms the
manuals write out: margins with both parameters in order or with none, mode lists without
gaps, SM and RM of one mode. Nothing is said of the others, whether the tracker follows the
emulator there or not: margins out of order, private forms such as `CSI ? 6 r`, gaps as in
`CSI ? ; 7 h`, and margins with one parameter (see the known departures).
A replica that starts while the emulator stands inside an item misses that item, as a
fresh terminal would. Cells, the cursor and malformed sequences are left out.

### Respond

`mu` is `Session.mu` as far as the emulator is called under it: `offer` is what the
emulator is pushing into its unbuffered pipe, and whoever holds the lock cannot leave
before it is taken. `chunk[w]` is written in two units so that a full PTY stops a write
in the middle. `ChildReads` has no fairness. `close()` is one action for each step that can
wait or that others can see (`Stages`): it takes the lock to mark the session
(`MarkClosed`) and once more in `Kill`, so a read loop stuck inside `emu.Write` would hold
up `close()` itself; then it closes the PTY (`ClosePty`) and the emulator's pipe
(`ClosePipe`) without the lock.

### DaemonStart

Each caller may start one daemon; the path is one shared variable. Removing a socket
file closes nothing. `DialAgain` is the connection an attachment or event stream makes.

## Runs

| Run | Checks | Bounds |
|---|---|---|
| `session_viewers` | types, `ReplicaConverges`, `DebtIsScheduled`, `SizeFollowsStatements`, `StatementsHaveOwners` | 2 viewers, 2 sizes, 2 statements, 1 output chunk, buffers of 1 |
| `session_liveness` | `GapsHeal`, `OwedStateArrives`, `TerminalSettles`, `LockIsReleased` | 1 viewer, a buffer of 2, 2 sizes, 4 versions, 2 statements |
| `metadata_embedded` | types, `NoLostUpdate`, `LandsOnWhatItRead` | 3 writers, 4 revisions |
| `engine_races` | types, `SpawnedBeforeActivity`, `FeedsHaveNoGaps`, `NoOrphanSession`, `CloseReapsEverySession`, `FeedsEndWithTheEngine`, `GatesOpen` | 1 session, 1 feed of 2 events, 3 transitions |
| `attach_end_to_end` | types, `InTerminalOrder`, `ExitIsLast`, `ResultIsHonest`, `HangUpRetires`, `WrittenIsShown`, `WatchersLearnOfTheExit`, `InteractiveReturns` | 2 versions, every buffer 1, 1 input, 1 resize, library and terminal |
| `control_calls` | types, `OnlyLateAnswersStray`, `OnlyWholeRequestsRun`, `CallsReturn` | 3 calls, half a frame in each direction |
| `event_feed` | `ImplementsFeed`, `NewsArrives`, `HangUpUnsubscribes` | 7 events, a feed of 2, socket and client of 1 |
| `read_loop` | `WritesLandWhole`, `HoldbackIsTight`, `ModesAgree` | 4 items of 19 kinds, reads of up to 4 tokens, 6 held back |
| `responses` | `InputArrivesWhole`, `RudeChildFreezesNobody`, `CloseEndsTheGoroutines` | 3 answers, 1 input, a queue of 1, half a chunk in the PTY |

The bounds are the smallest at which the interesting cases happen: a buffer fills
and is drained while it is being evicted from, a viewer is dropped by the
repaint of another viewer's resize (2 viewers, buffer of 1), the terminal moves and
moves back (2 statements), a last call evicts a message with deltas queued behind it and
leaves a torn replica in front of its resync (a buffer of 2; with a buffer of 1 the
eviction empties the queue and no gap can arise), a feed overruns with everything behind
it full (7 events for 6 places: two in the feed, one in the pump's hand, on the socket, in
the read loop's hand and in the client's channel), a resize message is split across a
full socket, a call times out between header and payload while another waits and a third
comes after both, the longest sequence is longer than what is held back and the others are
not, an answer finds the queue, the PTY and the writer busy. Sessions of an engine meet only in
its feeds and in `Close`; one is enough for TLC, and the theorems cover any number.
`session_viewers` has few versions because its properties are proved for every
number of them. Symmetry over subscriptions is used in safety runs only. Deadlock is not
checked: every system here may stop (sessions end, connections close, bounds run out).

Three more runs end in a violation. Each states what a comment or the repository's
README says and shows a behaviour of the code that departs from it:

| Run | What is said | What happens |
|---|---|---|
| `metadata_describe` | "Two writers deriving from one bag cannot silently undo each other" | `describe` pairs an old bag with a newer revision, and the conditional write built on it lands |
| `control_late_answer` | "Info reports one session" | a call that timed out leaves its answer on the connection; the next call returns it as its own, and from then on every call returns its predecessor's |
| `daemon_two_starts` | a Dialer: "every connection it returns must reach the same daemon" | a second cold start removes the socket file of the daemon that has just answered; the first client's next dial reaches the other daemon |

Known departures that follow from the models and have no run of their own:

* An attach between the read loop's return and the recorded exit joins a set nobody
  finishes any more: its stream stays open until `Close` or `Remove`, though `Output`
  says "The channel closes when the session ends" (`session.go:943`).
* An attach after the exit and before the PTY is drained gets a finished stream and
  misses the drained bytes; `Attach` promises "every output byte after it".
* A `Remove` between registration and announcement publishes removed before spawned;
  `SpawnedBeforeActivity` therefore speaks of the other events only (`engine.go:120`).
* A frame loop blocked in a write to a child that does not read never sees the hang-up,
  and the viewer's size stays (`server.go:445`); `HangUpRetires` assumes a child that reads.
* A client that types while the process dies may be detached without an Exited frame
  (`server.go:446`); `WatchersLearnOfTheExit` is about clients that only watch.
* What Interactive returns to a user who typed departs from what `InteractiveResult` says.
  "Detached: the user pressed the detach key; the session runs on" (`interactive.go:16`) is
  returned whenever the input goroutine ends, so also when a write of what the user typed
  fails because the daemon died or closed the connection (`interactive.go:77`, `:89`), if the
  select takes that case before the closed Output. "ConnectionLost: the daemon went away"
  (`interactive.go:20`) is returned whenever Output closes, so also under a daemon that lives
  and could not pass input on to a dying process. TLC reaches both in the instance of
  `attach_end_to_end` as soon as `ResultIsHonest` is stated without its `~typed`; so it is
  stated with it, and claims the documents' meaning for users who typed nothing.
* The end of stdin ends Interactive as Detached, like the detach key (`interactive.go:81`);
  `pressed` stands for both.
* Margins with one parameter, `CSI 5 r`, are kept as no margins (`termstate.go:88`), while
  by DEC's manuals the other one defaults to the last line: a replica seeded then would
  scroll the whole screen.
* An input op for an unknown session leaves no line in the audit trail, which
  `WithAudit` describes as one line per op.

## Fairness

Weak fairness is given to what the Go runtime guarantees: a goroutine that is not
blocked runs, an armed timer fires, a deadline passes, a killed child is reaped, a read of
a closed PTY fails. Strong fairness stands for mutexes (Go's do not starve a waiter) in
`Respond`: the read loop, a caller that lists, each writer of the PTY, and `close()` at
both of its acquisitions. Nothing is assumed of callers, of a child left alone, or of
readers, except that a program attached or subscribed over the wire reads its channel
until it hangs up.
`Interactive!FairInteractive` also assumes that the child reads the input it is sent;
without that `HangUpRetires` fails. The select of Go picks at random among ready cases,
so no case of Interactive's is starved: each has weak fairness of its own.

## Proofs

All theorems hold for any set of subscriptions, sessions, feeds and writers, any
buffer capacities and any bounds, from the named assumptions on constants alone
(capacities are positive, the spawn size is a size, a child's output is well formed, and
its mode and margin sequences have a meaning).

*Session.* The property that matters, `ReplicaConverges`, speaks only of drained
queues and is far from inductive. `IInv` adds what must hold meanwhile:
`StreamsContinue` (each queued message applies to what comes before it, or a resync
behind it makes good the gap, and the queue ends where the reader should end),
`EvictionsCover` (no debtor fills up behind the last call's back, so the eviction
always leaves room), `Bookkeeping` (who may be attached, finished, owed or retired
in which phase), and `Stamped` (distinct stamps, none newer than the counter, which
makes a fresh statement the newest and the resolution deterministic). Each conjunct
has its own step lemma; `Deliver` and `ApplySize` have lemmas of their own, cited by
each of the six actions that broadcast. From `IInvHolds` follow `TypeCorrect`,
`ReadersConverge`, `EveryGapHeals`, `EveryDebtIsScheduled`, `TheSizeFollows` and
`NoGhostOwnsTheTerminal`.

*Metadata.* `CopiesAreCurrent` (a revision-first writer whose revision is still
current holds the current bag) carries `WritesLandOnWhatTheyRead`, whatever other
writers do, and `UpdatesSurvive` when all writers read the revision first. The
hypothesis of the latter is exactly what `describe` lacks.

*Engine.* `SessionsHaveAnOwner` needs that only `Close` takes sessions away;
`SpawnedComesFirst` needs that a gate is open only behind a published spawned event
or on a closed engine; `FeedsMissNothing` needs that a feed is a suffix of the last
events published, of which a feed with room never has the oldest.

*Attach and Interactive.* What the pump took off the subscription and the program has not
consumed is one sequence, `Stream`, however it is spread over pump, socket, read loop and
`Output`; most steps move a frame along it (`StreamMoves`) and change nothing. The
invariant says what the two ends of it do: `StreamInv` (each frame may follow the one in
front of it), `QueueInv` (the queue rises, a subscription owed state is behind the
terminal) and `TipInv` (while the pump runs, the queue continues the stream).
`PumpInv` says how it ends: an exit on the socket or with the client means a pump that
has ended behind an empty queue. `HangInv` says why a server hangs up on a client that is
still there: its daemon died, or input it was sent could not be written, which takes a user
who typed. On that rests Interactive's "lost", and its "detached" on what ends the input
goroutine: the user, or a failed write. From these follow `OrderKept`,
`ExitComesLast` and `ResultHonest`, in both modes and for any buffers.

*Control connection.* Calls have numbers, and at every moment everything on the
connection lies between what was answered and what is yet to be asked: requests behind
the one being served, answers in front of it (`ServerInv`, `FlightInv`), neither
direction out of order (`WireInv`). What a deadline tore is a header without a payload,
and a request gets into `sent` with its payload only (`ExecutedInv`). `AnswersKeepOrder`
and `RequestsRunWhole` follow for any number of calls and any socket.

*Event feed.* `FeedImplemented` is the refinement: under the identity mapping every step
of `EventFeed` is a step of `Feed` or a stutter. The step that matters is `Receive`, which
must hear `heard + 1`; so the invariant says that the program's channel, the read
loop's hand, the socket, the pump's hand and the engine's channel hold one run of
consecutive events, up to the newest while the subscription is registered. A pump that says
Lagged does so behind everything it sent.

*Response loop.* `InputArrivesWhole` speaks of what has arrived. The invariant adds that
the PTY stands inside a chunk exactly when the holder of `writeMu` does (`HalfInv`, void
once the PTY is closed, when nothing arrives any more), and that an answer's number
grows from the PTY over the chunk being written and the queue to the emulator's pipe
(`ArrivedInv`, `QueueInv`), which dropping answers cannot disturb.

*Read loop.* The lemma that carries the proof is `AllKnown`: at every token of a chunk
the automaton of `completeBoundary` is in the state that the token's place in its item
calls for (`WholeState`), or, in an item whose beginning a forced flush has written, in
the state of its unseen rest (`TailState`). So what follows the boundary contains no end
(`HeldNoEnd`), and a boundary inside an item means one too long to hold back (`CutWhole`,
`ForcedLong`). The invariant keeps what is held back and what is unread one stream of
items (`Stream`), and says what can be held back at all (`Held`): with that, whatever was
held back goes out with the next write (`HeldSize`), which is why the hold-back never
outgrows its bound. Both theorems hold after tears too, and for every `ReadMax` and
`MaxHoldback`, however short. They assume the grammar above. That the recursive scan has
the values it should is proved by induction over sets of numbers (`Induct`, from the
well-foundedness of `<`), as the induction theorems that take a predicate cannot be used.

*The tracked modes.* `ModesAgree` compares three readers of the same output: `observe` on
the chunks as they were cut, the emulator, and a replica that started from a snapshot and
was repainted on every resize. The argument has four parts. (1) `observe` takes the
effect of an item only with its last token and then stands between two sequences
(`ItemRead`, for all four kinds of items; a BEL, a backslash or a bracket inside one is
covered by the grammar), so what it keeps of two chunks is what it keeps of their
concatenation when the first one ends there (`Joins`). (2) That effect is the one the
manuals give the sequence (`EffectIs`). For a sequence with another final byte both are
nothing; the others have one of the shapes of `ModesAssumption`, and for each shape the
tokens `observe` takes are followed to its end. The one with a loop is DECSET and DECRST:
the parameters read so far are the modes named so far, and setting one after the other sets them all
(`WithModesIs`, `SetModeIs`). So over a write of whole items the tracker agrees with a
terminal that executes one item after the other (`WholeItems`, along the prefix of whole
items, `Caught`). (3) The sequences `replay` writes, read by `observe`,
set the fields they are for and leave the others alone (`FlagIs`, `RegionIs`, `PartsAre`).
So a replay gives a terminal without margins the modes it was made from, provided that what
`replay` writes only when it is on is not on there already (`Bare`, `ReplayIs`); both of
its uses meet that, a snapshot on a fresh terminal (`SnapshotIs`) and a repaint on one
resized with the session (`RepaintIs`). This needs the modes to be well-formed (`Modes`):
margins are none or make a region, and side margins exist only under DECLRMM, which is
what `apply` keeps (`ObserveOK`). (4) The invariant `Agreed` puts these together: as long
as no write was torn, what is held back or unread starts with the beginning of an item, so
every write is whole items (`IInv` has the rest); the three readers agree; and until the
PTY has ended none of them stands inside an item. The flush at the end of the output writes
the beginning of an item, which changes no mode. After a torn write nothing is claimed:
the rest of the sequence is text for whoever joins there.

Every inductive invariant was checked by TLC on the run's instance before it was proved.

Every invariant and every action property of the passing runs is proved, and so is the
refinement. The types of `EventFeed` are proved only (`TypeCorrect`): its refinement says
more. Model-checked only: the liveness properties, as liveness under fairness is out of
the prover's reach.

## Not modelled

Cells: the emulator is a dependency, and snapshots are modelled by the version or the modes
they carry. JSON and the byte order of frames. Malformed frames, requests of a wrong
shape other than one that does not decode, and malformed escape sequences (in
particular ESC ESC, which `completeBoundary` takes for a whole sequence, and sequences
inside strings, which the tracker reads). The command line beyond the daemon, attach and
control calls it makes. The audit trail and the stdin log, which nothing reads. The 16-bit
sizes of the PTY. A plain client that is dropped for lag hears nothing more until the
exit; a test pins this as historical behaviour, so no property is stated against it.

## Plan

1. `Geometry`: an abstract specification of whose size the terminal has, implemented by
   `Session`; the streams of `Session` and `Attach` against one abstract stream.
2. `ControlCall` with a connection dropped after a timeout, should the code take that way.
