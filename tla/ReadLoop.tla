------------------------------ MODULE ReadLoop -------------------------------
(***************************************************************************)
(* What the read loop writes (session.go): the child's output arrives cut  *)
(* anywhere; completeBoundary holds an incomplete tail back, so that what  *)
(* samples the terminal between two writes finds it between two sequences. *)
(* The tracker reads what is written, the emulator executes it, and a      *)
(* viewer attached in between starts from a snapshot.                      *)
(*                                                                         *)
(* The child emits Items, whole runes and sequences.  A unit is one token  *)
(* of an item and knows its place in it; the code sees only the token.     *)
(***************************************************************************)
EXTENDS TermState

CONSTANTS
  Items,        \* sequence of the runes and sequences the child may emit
  ReadMax,      \* tokens one read returns at most (32 KiB)
  MaxHoldback,  \* tokens held back at most (64 KiB)
  MaxItems      \* bound: items emitted

\* The bytes that begin a rune, with its length, and those that continue one.
Leads == [b \in {"C3", "E2", "F0"} |-> CASE b = "C3" -> 2 [] b = "E2" -> 3 [] b = "F0" -> 4]
Continuations == {"A9"}
Ascii(b) == b \notin Continuations \cup DOMAIN Leads

\* External: what a child emits, by ECMA-48 and not by the code's automaton.
IsRune(s) ==
  \/ Len(s) = 1 /\ Ascii(s[1]) /\ s[1] # "ESC"
  \/ /\ s # << >> /\ s[1] \in DOMAIN Leads /\ Len(s) = Leads[s[1]]
     /\ \A i \in 2..Len(s) : s[i] \in Continuations

IsEscape(s) ==
  /\ Len(s) >= 2 /\ s[1] = "ESC" /\ \A i \in 2..Len(s) - 1 : s[i] \in Intermediates
  /\ s[Len(s)] \notin Intermediates \cup {"ESC", "[", "]"} /\ Ascii(s[Len(s)])

IsCSI(s) ==
  /\ Len(s) >= 3 /\ s[1] = "ESC" /\ s[2] = "[" /\ s[Len(s)] \in Finals
  /\ \A i \in 3..Len(s) - 1 : s[i] \notin Finals \cup {"ESC"}

\* A string ends with BEL, or with ST, which is ESC and a backslash.
IsString(s) ==
  /\ Len(s) >= 3 /\ s[1] = "ESC" /\ s[2] = "]"
  /\ \E n \in {Len(s) - 1, Len(s) - 2} :
       /\ n >= 2 /\ \A i \in 3..n : s[i] \notin {"ESC", "BEL"}
       /\ SubSeq(s, n + 1, Len(s)) \in {<<"BEL">>, <<"ESC", "\\">>}

ASSUME ItemsAssumption ==
  /\ Items \in Seq(Seq(STRING))
  /\ \A k \in DOMAIN Items :
       IsRune(Items[k]) \/ IsEscape(Items[k]) \/ IsCSI(Items[k]) \/ IsString(Items[k])

\* RIS and DECSTR; DECSET and DECRST of any number of modes; DECSTBM and DECSLRM with a
\* region or none.
IsReset(s) == s \in {<<"ESC", "c">>, <<"ESC", "[", "!", "p">>}

IsSwitch(s) ==
  \E n \in 1..Len(s) :
    /\ Len(s) = 2 * n + 3 /\ s[1] = "ESC" /\ s[2] = "[" /\ s[3] = "?"
    /\ s[Len(s)] \in {"h", "l"}
    /\ \A j \in 1..n : s[2 * j + 2] \in Digits
    /\ \A j \in 1..n - 1 : s[2 * j + 3] = ";"

IsRegion(s, final) ==
  \E m \in Digits, n \in Digits :
    Numbers[m] < Numbers[n] /\ s = <<"ESC", "[", m, ";", n, final>>

IsNoRegion(s, final) == s = <<"ESC", "[", final>>

\* SM and RM look like DECSET and DECRST but for the question mark.
IsOtherSwitch(s) == \E m \in Digits, final \in {"h", "l"} : s = <<"ESC", "[", m, final>>

\* The sequences with these final bytes that the manuals give a meaning.
ASSUME ModesAssumption ==
  \A k \in DOMAIN Items :
    LET s == Items[k] IN
    IsCSI(s) /\ s[Len(s)] \in {"h", "l", "p", "r", "s"} =>
      \/ IsReset(s) \/ IsSwitch(s) \/ IsOtherSwitch(s)
      \/ \E final \in {"r", "s"} : IsRegion(s, final) \/ IsNoRegion(s, final)

\* The modes a sequence names, and a terminal on which some are set or reset.
Named(s) == {Numbers[s[i]] : i \in {j \in DOMAIN s : s[j] \in Digits}}

WithModes(t, modes, set) ==
  LET To(mode, new, old) == IF mode \in modes THEN new ELSE old IN
  [t EXCEPT !.origin = To(6, set, t.origin), !.autowrapOff = To(7, ~set, t.autowrapOff),
            !.cursorHide = To(25, ~set, t.cursorHide), !.lrEnabled = To(69, set, t.lrEnabled),
            !.left = IF set THEN t.left ELSE To(69, 0, t.left),
            !.right = IF set THEN t.right ELSE To(69, 0, t.right),
            !.alt = IF modes \cap {47, 1047, 1049} # {} THEN set ELSE t.alt]

ASSUME ReadAssumption ==
  ReadMax \in Nat \ {0} /\ MaxHoldback \in Nat /\ ReadMax <= MaxHoldback

VARIABLES
  output,    \* units the child has written and the loop has not read
  emitted,   \* items emitted
  pending,   \* units held back
  ended,     \* the read failed and the loop returned
  midway,    \* history: the emulator stands inside an item
  torn,      \* history: the items of which a write carried only a part
  emu,       \* the modes of the emulator
  tracked,   \* Session.state
  viewer     \* the modes of an attached replica, or <<>> while there is none

vars == <<output, emitted, pending, ended, midway, torn, emu, tracked, viewer>>

Units(k) == [i \in 1..Len(Items[k]) |-> [item |-> k, at |-> i]]

Ends(u) == u.at = Len(Items[u.item])

Tokens(units) == [i \in DOMAIN units |-> Items[units[i].item][units[i].at]]

\* External: what an item does to a terminal's modes, by the manuals of the terminals the
\* emulator imitates and not by the tracker's reading of it.
Effect(t, k) ==
  LET s == Items[k] IN
  CASE IsReset(s)  -> Fresh
    [] IsSwitch(s) -> WithModes(t, Named(s), s[Len(s)] = "h")
    [] IsRegion(s, "r")   -> [t EXCEPT !.top = Numbers[s[3]], !.bottom = Numbers[s[5]]]
    [] IsNoRegion(s, "r") -> [t EXCEPT !.top = 0, !.bottom = 0]
    [] t.lrEnabled /\ IsRegion(s, "s") ->
         [t EXCEPT !.left = Numbers[s[3]], !.right = Numbers[s[5]]]
    [] t.lrEnabled /\ IsNoRegion(s, "s") -> [t EXCEPT !.left = 0, !.right = 0]
    [] OTHER -> t

Init ==
  /\ output = << >> /\ emitted = 0 /\ pending = << >> /\ ended = FALSE
  /\ midway = FALSE /\ torn = {}
  /\ emu = Fresh /\ tracked = Fresh /\ viewer = << >>

-----------------------------------------------------------------------------
(***************************************************************************)
(* completeBoundary.                                                       *)
(***************************************************************************)

\* Mutant of Advance: the byte after ESC ends the sequence, whatever it is.
AdvanceNoIntermediates(state, b) ==
  CASE state = "ground" -> IF b = "ESC" THEN "escape" ELSE "ground"
    [] state = "escape" -> (CASE b = "[" -> "csi" [] b = "]" -> "str" [] OTHER -> "ground")
    [] state = "csi"    -> IF b \in Finals THEN "ground" ELSE "csi"
    [] state = "str"    -> (CASE b = "BEL" -> "ground" [] b = "ESC" -> "strEscape"
                              [] OTHER -> "str")
    [] OTHER            -> IF b = "\\" THEN "ground" ELSE "str"

\* One step of completeBoundary's automaton; "]" stands for the five bytes that open
\* a string.
Advance(state, b) ==
  CASE state = "ground" -> IF b = "ESC" THEN "escape" ELSE "ground"
    [] state = "escape" -> (CASE b = "[" -> "csi" [] b = "]" -> "str"
                              [] b \in Intermediates -> "escape" [] OTHER -> "ground")
    [] state = "csi"    -> IF b \in Finals THEN "ground" ELSE "csi"
    [] state = "str"    -> (CASE b = "BEL" -> "ground" [] b = "ESC" -> "strEscape"
                              [] OTHER -> "str")
    [] state = "strEscape" -> IF b = "\\" THEN "ground" ELSE "str"

\* incompleteRuneTail: how far back the last rune starts, if it is incomplete.
IncompleteRuneTail(chunk) ==
  LET n     == Len(chunk)
      backs == {k \in 1..3 : k <= n /\ chunk[n + 1 - k] \notin Continuations}
      back  == CHOOSE k \in backs : \A l \in backs : k <= l
      lead  == chunk[n + 1 - back]
  IN IF backs # {} /\ lead \in DOMAIN Leads /\ Leads[lead] > back THEN back ELSE 0

\* completeBoundary's loop: the automaton after i tokens, and where the sequence it
\* is in started.
Scan(chunk) ==
  LET scan[i \in 0..Len(chunk)] ==
        IF i = 0 THEN [state |-> "ground", start |-> 0]
        ELSE LET before == scan[i - 1] IN
          [state |-> Advance(before.state, chunk[i]),
           start |-> IF before.state = "ground" THEN i - 1 ELSE before.start]
  IN scan

\* completeBoundary: the length of the longest prefix that ends between sequences
\* and between runes.
CompleteBoundary(chunk) ==
  LET last == Scan(chunk)[Len(chunk)]
  IN IF last.state # "ground" THEN last.start
     ELSE Len(chunk) - IncompleteRuneTail(chunk)

-----------------------------------------------------------------------------
(***************************************************************************)
(* The loop, its child and the rest of the session.                        *)
(***************************************************************************)

\* The modes of a terminal that executes units, from the first item it sees whole.
Execute(t, units, joinedMidway) ==
  LET after[i \in 0..Len(units)] ==
        IF i = 0 THEN [state |-> t, skip |-> joinedMidway]
        ELSE LET before == after[i - 1] IN
          IF ~Ends(units[i]) THEN before
          ELSE [state |-> IF before.skip THEN before.state
                          ELSE Effect(before.state, units[i].item),
                skip  |-> FALSE]
  IN after[Len(units)].state

\* write: the tracker, the emulator and every subscriber get the same chunk.  The
\* emulator finishes an item it has the beginning of; a replica may not have it.
WriteOut(units) ==
  /\ tracked' = Observe(tracked, Tokens(units))
  /\ emu' = Execute(emu, units, FALSE)
  /\ viewer' = IF viewer = << >> THEN << >>
               ELSE [modes |-> Execute(viewer.modes, units, viewer.joinedMidway),
                     joinedMidway |->
                       viewer.joinedMidway /\ \A i \in DOMAIN units : ~Ends(units[i])]
  /\ midway' = ~Ends(units[Len(units)])

\* External: the child writes a rune or a sequence.
Emit ==
  /\ Len(output) < ReadMax /\ emitted < MaxItems /\ ~ended
  /\ emitted' = emitted + 1
  /\ \E k \in DOMAIN Items : output' = output \o Units(k)
  /\ UNCHANGED <<pending, ended, midway, torn, emu, tracked, viewer>>

\* Mutant of Cut: a tail is held back for as long as it takes.
CutNever(chunk) == CompleteBoundary(chunk)

\* How much of a chunk readLoop writes: an unterminated sequence does not dam the
\* stream for ever.
Cut(chunk) ==
  LET cut == CompleteBoundary(chunk) IN
  IF cut = 0 /\ Len(chunk) > MaxHoldback THEN Len(chunk) ELSE cut

\* readLoop, a read that returns n tokens.
Read(n) ==
  /\ ~ended /\ n <= Len(output)
  /\ LET chunk == pending \o SubSeq(output, 1, n)
         cut   == Cut(Tokens(chunk))
     IN /\ output' = SubSeq(output, n + 1, Len(output))
        /\ pending' = SubSeq(chunk, cut + 1, Len(chunk))
        /\ torn' = IF cut > 0 /\ ~Ends(chunk[cut]) THEN torn \cup {chunk[cut].item} ELSE torn
        /\ IF cut > 0 THEN WriteOut(SubSeq(chunk, 1, cut))
           ELSE UNCHANGED <<midway, emu, tracked, viewer>>
  /\ UNCHANGED <<emitted, ended>>

\* readLoop, the read that fails: the remnant is flushed and the loop returns.  The
\* child is gone, with or without having finished what it was writing.
ReadFails ==
  /\ ~ended /\ ended' = TRUE /\ output' = << >> /\ pending' = << >>
  /\ IF pending # << >> THEN WriteOut(pending)
     ELSE UNCHANGED <<midway, emu, tracked, viewer>>
  /\ UNCHANGED <<emitted, torn>>

\* AttachWith, or a resync: a replica starts from a snapshot.
Attach ==
  /\ viewer' = [modes |-> Observe(Fresh, SnapshotOf(tracked)), joinedMidway |-> midway]
  /\ UNCHANGED <<output, emitted, pending, ended, midway, torn, emu, tracked>>

\* applySizeLocked: emulator, tracker and replica lose their margins, the replica is
\* repainted.  A repaint inside a sequence loses that sequence for it.
Resize ==
  /\ ~ended /\ emu' = Resized(emu) /\ tracked' = Resized(tracked)
  /\ viewer' = IF viewer = << >> THEN << >>
               ELSE [modes |-> Observe(Resized(viewer.modes), RepaintOf(tracked')),
                     joinedMidway |-> viewer.joinedMidway \/ midway]
  /\ UNCHANGED <<output, emitted, pending, ended, midway, torn>>

Next ==
  \/ Emit \/ (\E n \in 1..ReadMax : Read(n)) \/ ReadFails \/ Attach \/ Resize

Spec == Init /\ [][Next]_vars

-----------------------------------------------------------------------------
(***************************************************************************)
(* Properties.                                                             *)
(***************************************************************************)

\* "Every write lands on a whole-sequence boundary", unless the child died inside
\* the sequence or the sequence is too long to hold back: only one that is still
\* incomplete beyond maxHoldback tokens is ever torn.
WritesLandWhole == \A k \in torn : Len(Items[k]) > MaxHoldback + 1

\* What is held back is the beginning of one item, never a whole one that a viewer
\* could be shown, and it never outgrows maxHoldback, however the reads fall.
HoldbackIsTight ==
  /\ Len(pending) <= MaxHoldback
  /\ \A i \in DOMAIN pending : ~Ends(pending[i])

\* "The tracker reads the same whole-sequence chunks the emulator does, so the two
\* can not disagree about what was seen", and a replica seeded from a snapshot and
\* repainted on resizes has the modes of the session.
ModesAgree ==
  torn = {} =>
    tracked = emu /\ (viewer # << >> => viewer.modes = emu)
==============================================================================
