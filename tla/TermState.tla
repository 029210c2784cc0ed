------------------------------ MODULE TermState ------------------------------
(***************************************************************************)
(* The modes a snapshot has to carry, and how they are read off the output *)
(* and written back into it (termstate.go), as operators on tokens.  A     *)
(* token is a byte, except that a parameter's digits are one token: no     *)
(* automaton here tells where inside a number a read was cut.  The two     *)
(* nested loops that read the output are one pass over its tokens.         *)
(***************************************************************************)
EXTENDS Integers, Sequences

Numbers == [n \in {"2", "5", "6", "7", "25", "69", "1049"} |->
  CASE n = "2" -> 2 [] n = "5" -> 5 [] n = "6" -> 6 [] n = "7" -> 7
    [] n = "25" -> 25 [] n = "69" -> 69 [] n = "1049" -> 1049]

Digits == DOMAIN Numbers
Intermediates == {"(", "!"}                                       \* 0x20..0x2f
Finals == {"[", "]", "\\", "c", "h", "l", "p", "r", "s", "B"}     \* 0x40..0x7e

\* termState: margins (0 is none), DECLRMM, DECOM, DECAWM, DECTCEM, alternate screen.
Fresh == [top |-> 0, bottom |-> 0, lrEnabled |-> FALSE, left |-> 0, right |-> 0,
          origin |-> FALSE, autowrapOff |-> FALSE, cursorHide |-> FALSE, alt |-> FALSE]

\* termState.apply, one mode of CSI ? ... h or l.
SetMode(t, mode, set) ==
  CASE mode = 6  -> [t EXCEPT !.origin = set]
    [] mode = 7  -> [t EXCEPT !.autowrapOff = ~set]
    [] mode = 25 -> [t EXCEPT !.cursorHide = ~set]
    [] mode \in {47, 1047, 1049} -> [t EXCEPT !.alt = set]
    [] mode = 69 /\ set  -> [t EXCEPT !.lrEnabled = TRUE]
    [] mode = 69 /\ ~set -> [t EXCEPT !.lrEnabled = FALSE, !.left = 0, !.right = 0]
    [] OTHER -> t

\* Mutant of SetModes: of several modes only the first is taken.
SetFirstMode(t, params, set) == IF params = << >> THEN t ELSE SetMode(t, params[1], set)

SetModes(t, params, set) ==
  LET after[k \in 0..Len(params)] ==
        IF k = 0 THEN t ELSE SetMode(after[k - 1], params[k], set)
  IN after[Len(params)]

\* Two parameters that make a margin, or none.
Margin(params) ==
  IF Len(params) >= 2 /\ params[1] >= 1 /\ params[2] > params[1]
  THEN <<params[1], params[2]>> ELSE <<0, 0>>

\* termState.apply.
Apply(t, private, intermediates, params, final) ==
  LET m == Margin(params) IN
  CASE intermediates = <<"!">> /\ final = "p" -> Fresh
    [] intermediates = << >> /\ ~private /\ final = "r" ->
         [t EXCEPT !.top = m[1], !.bottom = m[2]]
    [] intermediates = << >> /\ ~private /\ final = "s" /\ t.lrEnabled ->
         [t EXCEPT !.left = m[1], !.right = m[2]]
    [] intermediates = << >> /\ private /\ final \in {"h", "l"} ->
         SetModes(t, params, final = "h")
    [] OTHER -> t

\* What observe keeps from token to token: the modes, whether it is between sequences,
\* behind an ESC, behind the bracket or further inside a CSI sequence, and what observeCSI
\* has read of that one: the parameter being read is a sequence of none or one.
Reading(t) == [modes |-> t, place |-> "ground", private |-> FALSE, intermediates |-> << >>,
               params |-> << >>, current |-> << >>]

\* termState.observeCSI, one token: any but these ends the sequence without effect.
ObserveCSI(r, b) ==
  LET next == [r EXCEPT !.place = "csi"] IN
  CASE b = "?" /\ r.place = "bracket" -> [next EXCEPT !.private = TRUE]
    [] b \in Digits -> [next EXCEPT !.current = <<Numbers[b]>>]
    [] b = ";" -> [next EXCEPT !.current = << >>,
                     !.params = r.params \o (IF r.current = << >> THEN <<0>> ELSE r.current)]
    [] b \in Intermediates -> [next EXCEPT !.intermediates = r.intermediates \o <<b>>]
    [] b \in Finals ->
         Reading(Apply(r.modes, r.private, r.intermediates, r.params \o r.current, b))
    [] OTHER -> Reading(r.modes)

\* termState.observe, one token.  Behind an ESC only c and [ are consumed with it: another
\* ESC starts over.
ObserveToken(r, b) ==
  CASE r.place \in {"bracket", "csi"} -> ObserveCSI(r, b)
    [] r.place = "escape" /\ b = "c"  -> Reading(Fresh)
    [] r.place = "escape" /\ b = "["  -> [Reading(r.modes) EXCEPT !.place = "bracket"]
    [] r.place \in {"ground", "escape"} /\ b = "ESC" -> [Reading(r.modes) EXCEPT !.place = "escape"]
    [] OTHER -> Reading(r.modes)

\* termState.observe: a sequence the chunk does not complete is forgotten.
Observe(t, chunk) ==
  LET read[i \in 0..Len(chunk)] ==
        IF i = 0 THEN Reading(t) ELSE ObserveToken(read[i - 1], chunk[i])
  IN read[Len(chunk)].modes

\* termState.resize.
Resized(t) == [t EXCEPT !.top = 0, !.bottom = 0, !.left = 0, !.right = 0]

Token(v) == CHOOSE n \in Digits : Numbers[n] = v
Flag(mode, set) == <<"ESC", "[", "?", mode, IF set THEN "h" ELSE "l">>

\* termState.replay: the sequences that reestablish the state.
Replay(t) ==
  Flag("7", ~t.autowrapOff) \o Flag("25", ~t.cursorHide) \o
  (IF t.lrEnabled THEN Flag("69", TRUE) ELSE << >>) \o
  (IF t.lrEnabled /\ t.left > 0
   THEN <<"ESC", "[", Token(t.left), ";", Token(t.right), "s">> ELSE << >>) \o
  (IF t.top > 0 THEN <<"ESC", "[", Token(t.top), ";", Token(t.bottom), "r">> ELSE << >>) \o
  (IF t.origin THEN Flag("6", TRUE) ELSE << >>)

\* What snapshotLocked and screenRepaintLocked say about modes; cells and the parked
\* cursor are left out.
SnapshotOf(t) == (IF t.alt THEN Flag("1049", TRUE) ELSE << >>) \o Replay(t)
RepaintOf(t)  == <<"ESC", "[", "r">> \o Replay(t)
==============================================================================
