----------------------------- MODULE MCReadLoop ------------------------------
(***************************************************************************)
(* ReadLoop with the kinds of output its automata tell apart: text, runes  *)
(* of two to four bytes, ESC sequences with and without an intermediate,   *)
(* CSI sequences that set and reset modes and margins, one that only looks *)
(* so, strings ended both ways, and one sequence longer than is held back. *)
(***************************************************************************)
EXTENDS ReadLoop

MCItems == <<
  <<"B">>, <<"C3", "A9">>, <<"E2", "A9", "A9">>, <<"F0", "A9", "A9", "A9">>,
  <<"ESC", "c">>, <<"ESC", "(", "B">>,
  <<"ESC", "]", "C3", "A9", "BEL">>, <<"ESC", "]", "[", "ESC", "\\">>,
  <<"ESC", "]", "B", "B", "B", "B", "B", "ESC", "\\">>,
  <<"ESC", "[", "2", ";", "5", "r">>, <<"ESC", "[", "2", ";", "5", "s">>,
  <<"ESC", "[", "?", "69", "h">>, <<"ESC", "[", "?", "69", "l">>,
  <<"ESC", "[", "?", "6", ";", "7", "h">>, <<"ESC", "[", "?", "7", ";", "25", "l">>,
  <<"ESC", "[", "?", "1049", "h">>, <<"ESC", "[", "!", "p">>,
  <<"ESC", "[", "7", "l">>, <<"ESC", "[", "s">> >>
==============================================================================
