----------------------------- MODULE DaemonStart -----------------------------
(***************************************************************************)
(* Cold starts: callers of EnsureDaemon (client.go) that find no daemon at *)
(* the socket path start one each (runDaemon, main.go).  They share one    *)
(* path in the file system and nothing else.                               *)
(*                                                                         *)
(* A socket file leads to the daemon that bound it.  Removing the file     *)
(* closes nothing: connections stay, and the daemon behind it lives on.    *)
(***************************************************************************)
EXTENDS Naturals

CONSTANTS
  Callers,   \* programs that call EnsureDaemon
  NoDaemon   \* no caller's daemon: no file, no connection

VARIABLES
  file,     \* whose socket the path names; NoDaemon when there is no file
  stale,    \* the file is left over from a daemon that is dead
  caller,   \* caller -> where it is in EnsureDaemon
  conn,     \* caller -> the daemon its control connection reaches
  view,     \* caller -> the daemon its attachment or event stream reaches
  daemon    \* caller -> the daemon it started: where it is in runDaemon

vars == <<file, stale, caller, conn, view, daemon>>

Init ==
  /\ file = NoDaemon /\ stale \in BOOLEAN
  /\ caller = [c \in Callers |-> "dial"]
  /\ conn = [c \in Callers |-> NoDaemon] /\ view = [c \in Callers |-> NoDaemon]
  /\ daemon = [c \in Callers |-> "none"]

\* Somebody answers at the path.
Answers == ~stale /\ file # NoDaemon /\ daemon[file] = "serving"

To(c, s) == caller' = [caller EXCEPT ![c] = s]

-----------------------------------------------------------------------------
(***************************************************************************)
(* EnsureDaemon.                                                           *)
(***************************************************************************)

\* The first dial.
Dial(c) ==
  /\ caller[c] = "dial"
  /\ \/ Answers /\ conn' = [conn EXCEPT ![c] = file] /\ To(c, "connected")
     \/ ~Answers /\ To(c, "remove") /\ UNCHANGED conn
  /\ UNCHANGED <<file, stale, view, daemon>>

\* os.Remove of what is taken to be a dead socket file.
RemoveSocket(c) ==
  /\ caller[c] = "remove" /\ file' = NoDaemon /\ stale' = FALSE /\ To(c, "start")
  /\ UNCHANGED <<conn, view, daemon>>

\* cmd.Start: the daemon is another process from here on.
StartDaemon(c) ==
  /\ caller[c] = "start" /\ To(c, "poll") /\ daemon' = [daemon EXCEPT ![c] = "starting"]
  /\ UNCHANGED <<file, stale, conn, view>>

\* The dials of the loop, and its timeout.
Poll(c) ==
  /\ caller[c] = "poll"
  /\ \/ Answers /\ conn' = [conn EXCEPT ![c] = file] /\ To(c, "connected")
     \/ ~Answers /\ To(c, "failed") /\ UNCHANGED conn
  /\ UNCHANGED <<file, stale, view, daemon>>

\* Attach and Subscribe dial the path once more, each for a connection of its own.
DialAgain(c) ==
  /\ caller[c] = "connected" /\ view[c] = NoDaemon
  /\ Answers /\ view' = [view EXCEPT ![c] = file]
  /\ UNCHANGED <<file, stale, caller, conn, daemon>>

-----------------------------------------------------------------------------
(***************************************************************************)
(* runDaemon.                                                              *)
(***************************************************************************)

\* os.Remove of the path.
RemovePath(d) ==
  /\ daemon[d] = "starting" /\ file' = NoDaemon /\ stale' = FALSE
  /\ daemon' = [daemon EXCEPT ![d] = "removed"]
  /\ UNCHANGED <<caller, conn, view>>

\* net.Listen: it fails when the path exists, and the daemon gives up.
Listen(d) ==
  /\ daemon[d] = "removed"
  /\ \/ /\ file = NoDaemon /\ ~stale /\ file' = d
        /\ daemon' = [daemon EXCEPT ![d] = "serving"]
     \/ /\ file # NoDaemon \/ stale
        /\ daemon' = [daemon EXCEPT ![d] = "gaveUp"] /\ UNCHANGED file
  /\ UNCHANGED <<stale, caller, conn, view>>

Next == \E c \in Callers :
  Dial(c) \/ RemoveSocket(c) \/ StartDaemon(c) \/ Poll(c) \/ DialAgain(c)
  \/ RemovePath(c) \/ Listen(c)

Spec == Init /\ [][Next]_vars

-----------------------------------------------------------------------------
\* The Dialer of a client, UnixDialer of the path here: "every connection it returns
\* must reach the same daemon", that of its control calls and those of its
\* attachments and event streams.
OneDaemon ==
  \A c \in Callers : view[c] \in {conn[c], NoDaemon}
==============================================================================
