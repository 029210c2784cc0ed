-------------------------------- MODULE Feed ---------------------------------
(***************************************************************************)
(* What a program is promised of an event stream (Client.Subscribe): from  *)
(* the moment it is open, every event the engine publishes, in order, none *)
(* missing and none twice, until the stream ends; and what has been heard  *)
(* when it ends is still without a gap.  Events are numbered as published. *)
(***************************************************************************)
EXTENDS Naturals

VARIABLES
  published,   \* events the engine has published
  heard,       \* the last event the program has received
  stream       \* "asked", "open" or "ended"

feed == <<published, heard, stream>>

FeedInit == published = 0 /\ heard = 0 /\ stream = "asked"

Publish == published' = published + 1 /\ UNCHANGED <<heard, stream>>

\* The stream opens somewhere in what was published so far: nothing later is lost.
Open ==
  /\ stream = "asked" /\ stream' = "open"
  /\ heard' \in 0..published /\ UNCHANGED published

Hear ==
  /\ stream = "open" /\ heard < published /\ heard' = heard + 1
  /\ UNCHANGED <<published, stream>>

End == stream # "ended" /\ stream' = "ended" /\ UNCHANGED <<published, heard>>

FeedNext == Publish \/ Open \/ Hear \/ End

FeedSpec == FeedInit /\ [][FeedNext]_feed
==============================================================================
