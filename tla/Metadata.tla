------------------------------ MODULE Metadata -------------------------------
(***************************************************************************)
(* A session's metadata bag and the writers that derive new bags from it   *)
(* (session.go, and the server's describe).                                *)
(*                                                                         *)
(* A bag is abstracted to the set of updates it contains; an update is     *)
(* named by the revision its write produced.  A writer reads the bag and   *)
(* its revision in two critical sections of Session.mu, adds one update    *)
(* and writes the result back while the revision is still the one read.    *)
(* Writers differ in which half they read first: RevisionFirst writers     *)
(* read Revision and then Metadata; every other writer is a client of the  *)
(* server, whose describe reads Metadata and then Revision.                *)
(***************************************************************************)
EXTENDS Naturals

CONSTANTS
  Writers,        \* callers of SetMetadataIf
  RevisionFirst,  \* those that read the revision before the bag
  MaxRevision     \* bound: no write beyond this revision

ASSUME WritersAssumption == RevisionFirst \subseteq Writers
ASSUME MaxRevisionAssumption == MaxRevision \in Nat

VARIABLES
  bag,       \* Session.metadata
  revision,  \* Session.revision
  accepted,  \* history: updates the session said landed, since the last overwrite
  step,      \* writer -> what it has read: "nothing", "half" or "both"
  copy,      \* writer -> the bag it read
  expected   \* writer -> the revision it read

vars == <<bag, revision, accepted, step, copy, expected>>

Init ==
  /\ revision = 1 /\ bag = {1} /\ accepted = {1}
  /\ step = [w \in Writers |-> "nothing"]
  /\ copy = [w \in Writers |-> {}]
  /\ expected = [w \in Writers |-> 0]

\* Session.Revision
ReadRevision(w) ==
  /\ step[w] = IF w \in RevisionFirst THEN "nothing" ELSE "half"
  /\ expected' = [expected EXCEPT ![w] = revision]
  /\ step' = [step EXCEPT ![w] = IF w \in RevisionFirst THEN "half" ELSE "both"]
  /\ UNCHANGED <<bag, revision, accepted, copy>>

\* Session.Metadata
ReadMetadata(w) ==
  /\ step[w] = IF w \in RevisionFirst THEN "half" ELSE "nothing"
  /\ copy' = [copy EXCEPT ![w] = bag]
  /\ step' = [step EXCEPT ![w] = IF w \in RevisionFirst THEN "both" ELSE "half"]
  /\ UNCHANGED <<bag, revision, accepted, expected>>

\* Mutant of IsCurrent: the conditional write forgets its condition.
AlwaysCurrent(w) == TRUE

\* SetMetadataIf's check.
IsCurrent(w) == expected[w] = revision

\* SetMetadataIf of the bag read plus one update.  Landed or refused, the writer
\* starts over from a fresh read: the server answers either way with a describe.
SetMetadataIf(w) ==
  /\ step[w] = "both" /\ step' = [step EXCEPT ![w] = "nothing"]
  /\ \/ /\ IsCurrent(w) /\ revision < MaxRevision
        /\ revision' = revision + 1
        /\ bag' = copy[w] \cup {revision + 1}
        /\ accepted' = accepted \cup {revision + 1}
     \/ /\ ~IsCurrent(w)
        /\ UNCHANGED <<bag, revision, accepted>>
  /\ UNCHANGED <<copy, expected>>

\* Mutant of SetMetadata: the unconditional write leaves the revision alone.
SetMetadataUnversioned ==
  /\ revision < MaxRevision /\ UNCHANGED revision
  /\ bag' = {revision + 1} /\ accepted' = {revision + 1}
  /\ UNCHANGED <<step, copy, expected>>

\* SetMetadata: an unconditional overwrite, by anyone.
SetMetadata ==
  /\ revision < MaxRevision
  /\ revision' = revision + 1
  /\ bag' = {revision + 1} /\ accepted' = {revision + 1}
  /\ UNCHANGED <<step, copy, expected>>

Next ==
  \/ SetMetadata
  \/ \E w \in Writers : ReadRevision(w) \/ ReadMetadata(w) \/ SetMetadataIf(w)

Spec == Init /\ [][Next]_vars

-----------------------------------------------------------------------------
\* The types of the bag, its revision and what writers hold.  Every write has
\* moved the revision: the bag holds no update newer than it.
TypeOK ==
  /\ revision \in Nat /\ bag \subseteq 1..revision /\ accepted \subseteq 1..revision
  /\ step \in [Writers -> {"nothing", "half", "both"}]
  /\ copy \in [Writers -> SUBSET (1..revision)] /\ expected \in [Writers -> Nat]

\* No accepted write is silently undone by another conditional write
\* (SetMetadataIf: "refuse to let a stale copy overwrite a newer one").
NoLostUpdate == accepted \subseteq bag

\* Whatever other writers do, a write by a revision-first writer lands only on
\* the very bag it was derived from (SetMetadataIf: "guaranteed that nothing else
\* changed the bag in between").
LandsOnWhatItRead ==
  [][\A w \in RevisionFirst :
       SetMetadataIf(w) /\ revision' # revision => copy[w] = bag]_vars

\* The inductive invariant behind LandsOnWhatItRead: what a revision-first writer
\* holds is no newer than the session, and is the current bag if not older.
CopiesAreCurrent ==
  \A w \in RevisionFirst :
    /\ step[w] # "nothing" => expected[w] <= revision
    /\ step[w] = "both" /\ expected[w] = revision => copy[w] = bag
=============================================================================
