----------------------------- MODULE Interactive -----------------------------
(***************************************************************************)
(* Client.Interactive (interactive.go), the loop behind `windrunner        *)
(* attach`, on the attach connection of module Attach: a goroutine that    *)
(* forwards the keyboard, and a select between its end, a change of the    *)
(* window's size, the exit of the process and the output.                  *)
(*                                                                         *)
(* The same connection carries other programs too: mode "library" is any   *)
(* program that holds an Attachment, mode "terminal" is this one.          *)
(***************************************************************************)
EXTENDS Attach

VARIABLES
  mode,     \* "library" or "terminal"
  typist,   \* the input goroutine: "stdin", "send", "sendLast" or "done"
  winch,    \* a SIGWINCH waits in its channel
  screen,   \* the main loop: "select", "resizing" or "returned"
  result,   \* what Interactive returned, "none" before
  pressed,  \* history: the user pressed the detach key, or stdin ended
  typed     \* history: the user typed something to be sent

terminal == <<mode, typist, winch, screen, result, pressed, typed>>
allVars  == <<vars, terminal>>

\* Interactive sizes the session through the control connection first and then
\* attaches plainly: no resync, and no statement of its own.
InitInteractive ==
  /\ Init /\ mode \in {"library", "terminal"}
  /\ mode = "terminal" => ~resyncs /\ ~viewed
  /\ typist = "stdin" /\ winch = FALSE /\ screen = "select" /\ result = "none"
  /\ pressed = FALSE /\ typed = FALSE

-----------------------------------------------------------------------------
(***************************************************************************)
(* The input goroutine.                                                    *)
(***************************************************************************)

Running == mode = "terminal" /\ screen # "returned"

\* A read of stdin: keys, keys up to the detach key, the detach key alone, or an
\* error.
ReadStdin ==
  /\ Running /\ typist = "stdin" /\ inputs < MaxInputs
  /\ \/ typist' = "send" /\ UNCHANGED pressed
     \/ typist' \in {"sendLast", "done"} /\ pressed' = TRUE
  /\ typed' = (typed \/ typist' # "done")
  /\ UNCHANGED <<vars, mode, winch, screen, result>>

\* attachment.Write; the goroutine ends behind the detach key or on an error.
Forward ==
  /\ mode = "terminal" /\ typist \in {"send", "sendLast"}
  /\ \/ SendInput /\ typist' = IF typist = "send" THEN "stdin" ELSE "done"
     \/ Broken /\ typist' = "done" /\ UNCHANGED vars
  /\ UNCHANGED <<mode, winch, screen, result, pressed, typed>>

-----------------------------------------------------------------------------
(***************************************************************************)
(* The main loop.                                                          *)
(***************************************************************************)

\* External: the window changes size; one signal waits at most.
Winch ==
  /\ Running /\ ~winch /\ winch' = TRUE
  /\ resizes + (IF screen = "resizing" THEN 1 ELSE 0) < MaxResizes
  /\ UNCHANGED <<vars, mode, typist, screen, result, pressed, typed>>

\* Returning runs the deferred Close.
Return(r) ==
  /\ screen' = "returned" /\ result' = r /\ clientClosed' = TRUE
  /\ UNCHANGED <<session, serving, wires, loop, hand, output, exitSeen, shown, inputs,
                 resizes, mode, typist, winch, pressed, typed>>

\* The cases of the select; with several ready, any of them is taken.
Selecting == mode = "terminal" /\ screen = "select"

TakeInputDone == Selecting /\ typist = "done" /\ Return("detached")

TakeWinch ==
  /\ Selecting /\ winch /\ winch' = FALSE /\ screen' = "resizing"
  /\ UNCHANGED <<vars, mode, typist, result, pressed, typed>>

TakeExited == Selecting /\ exitSeen /\ Return("exited")

TakeOutput == Selecting /\ Consume /\ UNCHANGED terminal

\* Mutant of TakeClosed: a closed Output is not looked at.
TakeClosedNever == FALSE /\ UNCHANGED allVars

\* Mutant of TakeClosed: a closed Output is taken for the end of the process.
TakeClosedHopeful ==
  Selecting /\ loop = "ended" /\ output = << >> /\ Return("exited")

TakeClosed == Selecting /\ loop = "ended" /\ output = << >> /\ Return("lost")

\* attachment.Resize, whose error is ignored; the loop waits for the socket.
StateSize ==
  /\ mode = "terminal" /\ screen = "resizing" /\ screen' = "select"
  /\ \/ SendResize
     \/ /\ Broken /\ resizes' = resizes + 1
        /\ UNCHANGED <<session, serving, wires, clientClosed, loop, hand, output, exitSeen,
                       shown, inputs>>
  /\ UNCHANGED <<mode, typist, winch, result, pressed, typed>>

-----------------------------------------------------------------------------
NextInteractive ==
  \/ Carry /\ UNCHANGED terminal
  \/ mode = "library" /\ Use /\ UNCHANGED terminal
  \/ ReadStdin \/ Forward \/ Winch \/ StateSize
  \/ TakeInputDone \/ TakeWinch \/ TakeExited \/ TakeOutput \/ TakeClosed

SpecInteractive == InitInteractive /\ [][NextInteractive]_allVars

\* Goroutines that are not blocked run on, a program keeps reading its Output until
\* it hangs up, Interactive's select picks at random among the ready cases, and the
\* child reads its input.
FairInteractive ==
  /\ SpecInteractive
  /\ WF_allVars(Resynchronize /\ UNCHANGED terminal)
  /\ WF_allVars(PumpTake /\ UNCHANGED terminal) /\ WF_allVars(PumpWrite /\ UNCHANGED terminal)
  /\ WF_allVars(PumpSelect /\ UNCHANGED terminal)
  /\ WF_allVars(ReadFrame /\ UNCHANGED terminal)
  /\ WF_allVars((WriteInput \/ WriteFails) /\ UNCHANGED terminal)
  /\ WF_allVars(Join /\ UNCHANGED terminal)
  /\ WF_allVars(ClientRead /\ UNCHANGED terminal) /\ WF_allVars(ClientPut /\ UNCHANGED terminal)
  /\ WF_allVars(ClientEnd /\ UNCHANGED terminal)
  /\ WF_allVars(mode = "library" /\ ~clientClosed /\ Consume /\ UNCHANGED terminal)
  /\ WF_allVars(Forward) /\ WF_allVars(StateSize)
  /\ WF_allVars(TakeInputDone) /\ WF_allVars(TakeExited) /\ WF_allVars(TakeOutput)
  /\ WF_allVars(TakeClosed) /\ WF_allVars(TakeWinch)

-----------------------------------------------------------------------------
(***************************************************************************)
(* Properties.                                                             *)
(***************************************************************************)

\* Interactive says exited only of a process that has exited, and to a user who typed
\* nothing it tells the rest of the truth: detached if the user left, lost if the daemon
\* is gone.  One who typed may hear detached because a write failed, though the documents
\* reserve it for the detach key, and lost because the daemon could not pass input on to
\* a dying process, though they reserve it for a daemon that went away.
ResultIsHonest ==
  /\ result = "exited" => exited
  /\ ~typed => /\ result = "detached" => pressed
               /\ result = "lost" => daemonDied

\* Interactive returns "when the user detaches, the session's process exits, or the
\* connection drops", if the child reads what it is sent: a select that keeps
\* finding output does not starve the others for ever.
InteractiveReturns ==
  mode = "terminal" /\ (pressed \/ exitSeen \/ daemonDied) ~> clientClosed
==============================================================================
