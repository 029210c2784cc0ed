---------------------------- MODULE ReadLoopProofs -----------------------------
(***************************************************************************)
(* TLAPS proofs about the read loop (session.go) and the modes it tracks   *)
(* (termstate.go), for any well-formed runes and sequences of the meanings *)
(* ModesAssumption names, any reads and any maxHoldback.  The hold-back:   *)
(* at every token the automaton of completeBoundary stands where the item  *)
(* the token is from says (AllKnown), so a boundary is the end of an item, *)
(* except inside an item whose beginning a forced flush wrote (IInv).  The *)
(* modes: what is written begins and ends with an item, observe takes the  *)
(* effect of an item only with its last token (ItemRead), that effect is   *)
(* what the manuals say the sequence does (EffectIs), and so the tracker   *)
(* follows the emulator (WholeItems); the replay a viewer is sent gives a  *)
(* fresh terminal the modes it was made from (ReplayIs); hence the tracked *)
(* modes, the emulator's and the viewer's stay alike (Agreed).  What the   *)
(* scan, observe and Execute compute is proved by induction over sets of   *)
(* numbers (Induct).                                                       *)
(***************************************************************************)
EXTENDS ReadLoop, WellFoundedInduction, TLAPS

\* Induction over the natural numbers, by sets.
Less == {ss \in Nat \X Nat : ss[1] < ss[2]}

\* The natural numbers are well-founded, and so induct as a set.
LEMMA LessWellFounded == IsWellFoundedOn(Less, Nat)
<1>1. OpToRel(<, Nat) = Less
  BY DEF OpToRel, Less
<1> QED BY <1>1, NatLessThanWellFounded

\* Induction from a to b over a set: nothing that a belongs to and every successor
\* inherits misses a number between them.
LEMMA Induct ==
  ASSUME NEW a \in Nat, NEW b \in Nat, NEW T, a \in T,
         \A n \in a..b - 1 : n \in T => n + 1 \in T
  PROVE  a..b \subseteq T
<1> SUFFICES ASSUME (a..b) \ T # {} PROVE FALSE
  OBVIOUS
<1>1. PICK x \in (a..b) \ T : \A y \in (a..b) \ T : ~(<<y, x>> \in Less)
  <2>1. (a..b) \ T \subseteq Nat
    OBVIOUS
  <2> QED BY <2>1, LessWellFounded, WFMin
<1>2. x # a /\ x - 1 \in a..b - 1 /\ <<x - 1, x>> \in Less
  BY DEF Less
<1>3. x - 1 \in T
  BY <1>1, <1>2
<1> QED BY <1>2, <1>3

\* One round of completeBoundary's loop, and its first n rounds.
ScanStep(chunk, f, i) ==
  [state |-> Advance(f[i - 1].state, chunk[i]),
   start |-> IF f[i - 1].state = "ground" THEN i - 1 ELSE f[i - 1].start]

IsScan(chunk, f, n) ==
  /\ f = [i \in 0..n |-> f[i]]
  /\ f[0] = [state |-> "ground", start |-> 0]
  /\ \A i \in 1..n : f[i] = ScanStep(chunk, f, i)

\* The scan of completeBoundary has a value at every length, one token at a time.
LEMMA ScanExists ==
  ASSUME NEW chunk, NEW n \in Nat PROVE \E f : IsScan(chunk, f, n)
<1> DEFINE T == {m \in Nat : \E f : IsScan(chunk, f, m)}
<1>1. 0 \in T
  <2>1. IsScan(chunk, [i \in 0..0 |-> [state |-> "ground", start |-> 0]], 0)
    BY DEF IsScan
  <2> QED BY <2>1
<1>2. ASSUME NEW m \in 0..n - 1, m \in T PROVE m + 1 \in T
  <2>1. PICK f : IsScan(chunk, f, m)
    BY <1>2
  <2> DEFINE g == [i \in 0..m + 1 |-> IF i = m + 1 THEN ScanStep(chunk, f, i) ELSE f[i]]
  <2>2. g = [i \in 0..m + 1 |-> g[i]] /\ g[0] = f[0]
    OBVIOUS
  <2>3. ASSUME NEW i \in 1..m + 1 PROVE g[i] = ScanStep(chunk, g, i)
    <3>1. i - 1 \in 0..m + 1 /\ i - 1 # m + 1 /\ i \in 0..m + 1
      OBVIOUS
    <3>2. g[i - 1] = f[i - 1]
      BY <3>1
    <3>3. ScanStep(chunk, g, i) = ScanStep(chunk, f, i)
      BY <3>2 DEF ScanStep
    <3>4. CASE i = m + 1
      BY <3>1, <3>3, <3>4
    <3>5. CASE i # m + 1
      <4>1. i \in 1..m
        BY <3>5
      <4>2. g[i] = f[i]
        BY <3>1, <3>5
      <4> QED BY <4>1, <4>2, <3>3, <2>1 DEF IsScan
    <3> QED BY <3>4, <3>5
  <2>4. IsScan(chunk, g, m + 1)
    <3> HIDE DEF g
    <3> QED BY <2>1, <2>2, <2>3 DEF IsScan
  <2> QED BY <2>4
<1>3. 0..n \subseteq T
  <2> HIDE DEF T
  <2> QED BY <1>1, <1>2, Induct
<1> QED BY <1>3

\* Scan is that value: the recursion of completeBoundary unfolds one token at a time.
LEMMA ScanIs ==
  ASSUME NEW chunk, Len(chunk) \in Nat PROVE IsScan(chunk, Scan(chunk), Len(chunk))
<1>1. PICK f : IsScan(chunk, f, Len(chunk))
  BY ScanExists
<1> DEFINE Rec(g) == [i \in 0..Len(chunk) |->
     IF i = 0 THEN [state |-> "ground", start |-> 0] ELSE ScanStep(chunk, g, i)]
<1>2. f = Rec(f)
  BY <1>1 DEF IsScan
<1>3. Scan(chunk) = CHOOSE g : g = Rec(g)
  BY DEF Scan, ScanStep
<1>4. Scan(chunk) = Rec(Scan(chunk))
  <2> HIDE DEF Rec
  <2> QED BY <1>2, <1>3
<1> HIDE DEF ScanStep
<1> QED BY <1>4 DEF IsScan

\* The tokens: strings, with those that replay writes named, since the provers do not know
\* that a literal is a string.
Chars == STRING \cup Digits \cup {"ESC", "[", "?", ";", "h", "l", "r", "s"}

\* What the child emits (ItemsAssumption).
IsItem(s) ==
  /\ s \in Seq(Chars)
  /\ IsRune(s) \/ IsEscape(s) \/ IsCSI(s) \/ IsString(s)

\* The automaton after a tokens of an item, seen from its beginning ...
WholeState(s, a) ==
  CASE a = Len(s) \/ IsRune(s)  -> "ground"
    [] a < Len(s) /\ ~IsRune(s) /\ (a = 1 \/ IsEscape(s)) -> "escape"
    [] a < Len(s) /\ ~IsRune(s) /\ a > 1 /\ ~IsEscape(s) /\ IsCSI(s) -> "csi"
    [] OTHER -> IF s[a] = "ESC" THEN "strEscape" ELSE "str"

\* ... and seen from the middle, past its first token.
TailState(s, a) == IF s[a] = "ESC" THEN "escape" ELSE "ground"

\* The automaton of completeBoundary, one state and byte at a time.
LEMMA Steps ==
  /\ \A b : Advance("ground", b) = IF b = "ESC" THEN "escape" ELSE "ground"
  /\ Advance("escape", "[") = "csi" /\ Advance("escape", "]") = "str"
  /\ \A b \in Intermediates : Advance("escape", b) = "escape"
  /\ \A b : b \notin Intermediates \cup {"[", "]"} => Advance("escape", b) = "ground"
  /\ \A b : Advance("csi", b) = IF b \in Finals THEN "ground" ELSE "csi"
  /\ Advance("str", "BEL") = "ground" /\ Advance("str", "ESC") = "strEscape"
  /\ \A b : b \notin {"BEL", "ESC"} => Advance("str", b) = "str"
  /\ Advance("strEscape", "\\") = "ground"
BY DEF Advance, Intermediates

\* How a string ends, and that its terminator occurs nowhere before its end.
LEMMA StringShape ==
  ASSUME NEW s \in Seq(Chars), IsString(s)
  PROVE  /\ s[Len(s)] \in {"BEL", "\\"}
         /\ s[Len(s)] = "BEL" => \A i \in 3..Len(s) - 1 : s[i] \notin {"ESC", "BEL"}
         /\ s[Len(s)] = "\\" =>
              /\ Len(s) >= 4 /\ s[Len(s) - 1] = "ESC"
              /\ \A i \in 3..Len(s) - 2 : s[i] \notin {"ESC", "BEL"}
<1> DEFINE L == Len(s)
<1>0. L \in Nat /\ L >= 3
  BY DEF IsString
<1>1. PICK n \in {L - 1, L - 2} :
        /\ n >= 2 /\ \A i \in 3..n : s[i] \notin {"ESC", "BEL"}
        /\ SubSeq(s, n + 1, L) \in {<<"BEL">>, <<"ESC", "\\">>}
  BY DEF IsString
<1> HIDE DEF L
<1> DEFINE t == SubSeq(s, n + 1, L)
<1>2. /\ n \in Nat /\ L \in Nat /\ n + 1 \in 1..L
      /\ n = L - Len(t) /\ \A i \in 1..L - n : t[i] = s[n + i]
  BY <1>0, <1>1 DEF L
<1> HIDE DEF t
<1>3. CASE t = <<"BEL">>
  <2>1. Len(t) = 1 /\ t[1] = "BEL"
    BY ONLY <1>3
  <2>2. n = L - 1
    BY ONLY <1>0, <1>2, <2>1
  <2>3. s[L] = "BEL"
    BY <1>0, <1>2, <2>1, <2>2
  <2> QED BY <2>2, <2>3, <1>1 DEF L
<1>4. CASE t = <<"ESC", "\\">>
  <2>1. Len(t) = 2 /\ t[1] = "ESC" /\ t[2] = "\\"
    BY ONLY <1>4
  <2>2. n = L - 2
    BY ONLY <1>0, <1>2, <2>1
  <2>3. s[L - 1] = "ESC" /\ s[L] = "\\"
    BY <1>0, <1>2, <2>1, <2>2
  <2> QED BY <1>0, <2>2, <2>3, <1>1 DEF L
<1> QED BY <1>1, <1>3, <1>4 DEF t

\* A rune never leaves the ground state.
LEMMA RuneStep ==
  ASSUME NEW s \in Seq(Chars), IsRune(s)
  PROVE  /\ Len(s) \in 1..4
         /\ \A a \in 1..Len(s) : s[a] # "ESC" /\ WholeState(s, a) = "ground"
         /\ Ascii(s[Len(s)]) => Len(s) = 1
<1>1. Len(s) \in 1..4
  BY DEF IsRune, Leads
<1>2. ASSUME NEW a \in 1..Len(s) PROVE s[a] # "ESC"
  BY <1>1 DEF IsRune, Leads, Continuations
<1>3. \A a : WholeState(s, a) = "ground"
  BY DEF WholeState
<1>4. Ascii(s[Len(s)]) => Len(s) = 1
  BY <1>1 DEF IsRune, Ascii, Leads, Continuations
<1> QED BY <1>1, <1>2, <1>3, <1>4

\* A sequence begins with ESC and has no other ESC than that of its ST; it ends with
\* ASCII.
LEMMA SequenceShape ==
  ASSUME NEW s, IsItem(s), ~IsRune(s)
  PROVE  /\ Len(s) \in Nat /\ Len(s) >= 2 /\ s[1] = "ESC"
         /\ Ascii(s[Len(s)]) /\ s[Len(s)] # "ESC"
         /\ \A a \in 2..Len(s) : s[a] = "ESC" => a = Len(s) - 1 /\ s[Len(s)] = "\\"
<1>1. CASE IsEscape(s)
  BY <1>1 DEF IsItem, IsEscape, Intermediates
<1>2. CASE IsCSI(s)
  BY <1>2 DEF IsItem, IsCSI, Finals, Ascii, Leads, Continuations
<1>3. CASE IsString(s)
  <2>1. Len(s) \in Nat /\ Len(s) >= 3 /\ s[1] = "ESC" /\ s[2] = "]"
    BY <1>3 DEF IsItem, IsString
  <2>2. Ascii(s[Len(s)]) /\ s[Len(s)] # "ESC"
    BY <1>3, StringShape DEF IsItem, Ascii, Leads, Continuations
  <2>3. ASSUME NEW a \in 2..Len(s), s[a] = "ESC" PROVE a = Len(s) - 1 /\ s[Len(s)] = "\\"
    BY <1>3, <2>1, <2>2, <2>3, StringShape DEF IsItem
  <2> QED BY <2>1, <2>2, <2>3
<1> QED BY <1>1, <1>2, <1>3 DEF IsItem

\* At the end of an item the automaton is on the ground, wherever it joined.
LEMMA ItemEnd ==
  ASSUME NEW s, IsItem(s)
  PROVE  /\ Len(s) \in Nat \ {0} /\ s[Len(s)] # "ESC"
         /\ WholeState(s, Len(s)) = "ground" /\ TailState(s, Len(s)) = "ground"
<1>1. Len(s) \in Nat \ {0} /\ s[Len(s)] # "ESC"
  BY RuneStep, SequenceShape DEF IsItem
<1>2. WholeState(s, Len(s)) = "ground"
  BY DEF WholeState
<1> QED BY <1>1, <1>2 DEF TailState

\* The automaton enters an item it sees from its beginning.
LEMMA WholeFirst ==
  ASSUME NEW s, IsItem(s) PROVE Advance("ground", s[1]) = WholeState(s, 1)
<1>1. CASE IsRune(s)
  BY <1>1, RuneStep, Steps DEF IsItem
<1>2. CASE ~IsRune(s)
  BY <1>2, SequenceShape, Steps DEF WholeState
<1> QED BY <1>1, <1>2

\* The automaton follows an item it has seen from its beginning.
LEMMA WholeNext ==
  ASSUME NEW s, IsItem(s), NEW a \in 1..Len(s) - 1
  PROVE  Advance(WholeState(s, a), s[a + 1]) = WholeState(s, a + 1)
<1>1. CASE IsRune(s)
  BY <1>1, RuneStep, Steps DEF IsItem
<1>2. CASE ~IsRune(s)
  <2>1. Len(s) \in Nat /\ Len(s) >= 2 /\ a + 1 \in 2..Len(s) /\ a < Len(s)
    BY <1>2, SequenceShape
  <2>2. CASE IsEscape(s)
    <3>1. WholeState(s, a) = "escape"
      BY <1>2, <2>1, <2>2 DEF WholeState
    <3>2. WholeState(s, a + 1) = IF a + 1 = Len(s) THEN "ground" ELSE "escape"
      BY <1>2, <2>1, <2>2 DEF WholeState
    <3> QED BY <2>1, <2>2, <3>1, <3>2, Steps DEF IsEscape
  <2>3. CASE IsCSI(s) /\ ~IsEscape(s)
    <3>1. WholeState(s, a) = IF a = 1 THEN "escape" ELSE "csi"
      BY <1>2, <2>1, <2>3 DEF WholeState
    <3>2. WholeState(s, a + 1) = IF a + 1 = Len(s) THEN "ground" ELSE "csi"
      BY <1>2, <2>1, <2>3 DEF WholeState
    <3>3. /\ Len(s) >= 3 /\ s[2] = "[" /\ s[Len(s)] \in Finals
          /\ a # 1 /\ a + 1 # Len(s) => s[a + 1] \notin Finals
      BY <2>1, <2>3 DEF IsCSI
    <3> QED BY <2>1, <3>1, <3>2, <3>3, Steps
  <2>4. CASE IsString(s) /\ ~IsEscape(s) /\ ~IsCSI(s)
    <3>1. WholeState(s, a) = IF a = 1 THEN "escape" ELSE IF s[a] = "ESC" THEN "strEscape" ELSE "str"
      BY <1>2, <2>1, <2>4 DEF WholeState
    <3>2. WholeState(s, a + 1) = IF a + 1 = Len(s) THEN "ground"
                                 ELSE IF s[a + 1] = "ESC" THEN "strEscape" ELSE "str"
      BY <1>2, <2>1, <2>4 DEF WholeState
    <3>3. Len(s) >= 3 /\ s[2] = "]"
      BY <2>4 DEF IsString
    <3>4. CASE s[Len(s)] = "BEL"
      <4>1. /\ a # 1 => s[a] # "ESC"
            /\ a + 1 # Len(s) => s[a + 1] \notin {"ESC", "BEL"}
        BY <2>1, <2>4, <3>3, <3>4, StringShape DEF IsItem
      <4> QED BY <2>1, <3>1, <3>2, <3>3, <3>4, <4>1, Steps
    <3>5. CASE s[Len(s)] = "\\"
      <4>1. /\ Len(s) >= 4 /\ s[Len(s) - 1] = "ESC"
            /\ a # 1 /\ a # Len(s) - 1 => s[a] # "ESC"
            /\ a + 1 < Len(s) - 1 => s[a + 1] \notin {"ESC", "BEL"}
        BY <2>1, <2>4, <3>3, <3>5, StringShape DEF IsItem
      <4>2. CASE a + 1 = Len(s)
        BY <2>1, <3>1, <3>2, <3>3, <3>5, <4>1, <4>2, Steps
      <4>3. CASE a + 1 = Len(s) - 1
        BY <2>1, <3>1, <3>2, <3>3, <3>5, <4>1, <4>3, Steps
      <4>4. CASE a + 1 < Len(s) - 1
        BY <2>1, <3>1, <3>2, <3>3, <3>5, <4>1, <4>4, Steps
      <4> QED BY <2>1, <4>2, <4>3, <4>4
    <3> QED BY <2>4, <3>4, <3>5, StringShape DEF IsItem
  <2> QED BY <1>2, <2>2, <2>3, <2>4 DEF IsItem
<1> QED BY <1>1, <1>2

\* On the ground only ESC matters.
LEMMA TailFirst ==
  ASSUME NEW b PROVE Advance("ground", b) = IF b = "ESC" THEN "escape" ELSE "ground"
BY Steps

\* The automaton follows the rest of an item whose beginning was flushed.
LEMMA TailNext ==
  ASSUME NEW s, IsItem(s), NEW a \in 2..Len(s) - 1
  PROVE  Advance(TailState(s, a), s[a + 1]) = TailState(s, a + 1)
<1>1. CASE s[a] # "ESC"
  BY <1>1, TailFirst DEF TailState
<1>2. CASE s[a] = "ESC"
  <2>1. s[a + 1] = "\\"
    BY <1>2, RuneStep, SequenceShape DEF IsItem
  <2> QED BY <1>2, <2>1, Steps DEF TailState, Intermediates
<1> QED BY <1>1, <1>2

\* Inside a sequence the automaton is not on the ground.
LEMMA InnerStates ==
  ASSUME NEW s, IsItem(s), ~IsRune(s), NEW a \in 1..Len(s) - 1
  PROVE  WholeState(s, a) # "ground"
BY SequenceShape DEF WholeState
-----------------------------------------------------------------------------
\* The tokens of a stream and the items they are from.
Unit == {u \in [item : DOMAIN Items, at : Nat] : u.at \in 1..Len(Items[u.item])}
Item(u) == Items[u.item]
Byte(u) == Item(u)[u.at]

\* The child's output: item after item, though the first may have lost its beginning
\* to a forced flush, and then it is one too long to hold back.
Succeeds(u, v) == IF Ends(u) THEN v.at = 1 ELSE v = [item |-> u.item, at |-> u.at + 1]
Flows(c) == \A i \in 1..Len(c) - 1 : Succeeds(c[i], c[i + 1])
Long(k) == Len(Items[k]) > MaxHoldback + 1
Stream(c) == c \in Seq(Unit) /\ Flows(c) /\ (c # << >> /\ c[1].at > 1 => Long(c[1].item))

\* The automaton after i tokens, and that it is where the items say it is.
State(c, i) == Scan(Tokens(c))[i].state
Known(c, i) ==
  /\ c[i].at <= i => State(c, i) = WholeState(Item(c[i]), c[i].at)
  /\ c[i].at > i  => State(c, i) = TailState(Item(c[i]), c[i].at) /\ Long(c[i].item)

\* What the child emits are items.
LEMMA ItemsAre == \A k \in DOMAIN Items : IsItem(Items[k])
<1> SUFFICES ASSUME NEW k \in DOMAIN Items PROVE IsItem(Items[k])
  OBVIOUS
<1>1. Items[k] \in Seq(STRING)
  BY ItemsAssumption
<1>2. Items[k] \in Seq(Chars)
  <2>1. STRING \subseteq Chars
    BY DEF Chars
  <2>2. ASSUME NEW S, NEW R, S \subseteq R, NEW s \in Seq(S) PROVE s \in Seq(R)
    BY <2>2
  <2> QED BY <1>1, <2>1, <2>2
<1> QED BY <1>2, ItemsAssumption DEF IsItem

\* What a unit is: a place in a well-formed item.
LEMMA UnitIs ==
  ASSUME NEW u \in Unit
  PROVE  /\ IsItem(Item(u)) /\ Len(Item(u)) \in Nat \ {0}
         /\ u.item \in DOMAIN Items
         /\ u.at \in 1..Len(Item(u)) /\ (Ends(u) <=> u.at = Len(Item(u)))
         /\ u = [item |-> u.item, at |-> u.at]
<1>1. u \in [item : DOMAIN Items, at : Nat] /\ u.at \in 1..Len(Items[u.item])
  BY DEF Unit
<1>2. IsItem(Item(u))
  BY <1>1, ItemsAre DEF Item
<1>3. Len(Item(u)) \in Nat \ {0}
  BY <1>2, ItemEnd
<1> QED BY <1>1, <1>2, <1>3 DEF Item, Ends

\* The tokens of a sequence of units are their bytes.
LEMMA TokensIs ==
  ASSUME NEW c \in Seq(Unit)
  PROVE  /\ Len(Tokens(c)) = Len(c) /\ Len(c) \in Nat
         /\ \A i \in 1..Len(c) : Tokens(c)[i] = Byte(c[i]) /\ c[i] \in Unit
<1>1. DOMAIN c = 1..Len(c) /\ Len(c) \in Nat
  OBVIOUS
<1>2. DOMAIN Tokens(c) = 1..Len(c)
  BY <1>1 DEF Tokens
<1>3. Tokens(c) = [i \in 1..Len(c) |-> Byte(c[i])]
  BY <1>1 DEF Tokens, Byte, Item
<1>4. Len([i \in 1..Len(c) |-> Byte(c[i])]) = Len(c)
  BY <1>1
<1> QED BY <1>1, <1>3, <1>4

\* The automaton on a stream of units.
LEMMA StateIs ==
  ASSUME NEW c \in Seq(Unit)
  PROVE  /\ State(c, 0) = "ground"
         /\ \A i \in 1..Len(c) : State(c, i) = Advance(State(c, i - 1), Byte(c[i]))
<1>1. IsScan(Tokens(c), Scan(Tokens(c)), Len(c))
  BY TokensIs, ScanIs
<1>2. State(c, 0) = "ground"
  BY <1>1 DEF IsScan, State
<1>3. ASSUME NEW i \in 1..Len(c) PROVE State(c, i) = Advance(State(c, i - 1), Byte(c[i]))
  <2>1. Scan(Tokens(c))[i] = ScanStep(Tokens(c), Scan(Tokens(c)), i)
    BY <1>1 DEF IsScan
  <2>2. Scan(Tokens(c))[i].state = Advance(Scan(Tokens(c))[i - 1].state, Tokens(c)[i])
    BY <2>1 DEF ScanStep
  <2> QED BY <2>2, TokensIs DEF State
<1> QED BY <1>2, <1>3

\* The automaton agrees with the items: at every unit its state is the one the place
\* in the item calls for, and only an item too long to hold back is seen from the middle.
LEMMA AllKnown ==
  ASSUME NEW c, Stream(c) PROVE \A i \in 1..Len(c) : Known(c, i)
<1> DEFINE T == {i \in Nat : i <= Len(c) => Known(c, i)}
<1>0. c \in Seq(Unit) /\ Len(c) \in Nat /\ \A i \in 1..Len(c) : c[i] \in Unit
  BY DEF Stream
<1>1. CASE Len(c) = 0
  BY <1>1
<1>2. CASE Len(c) # 0
  <2>0. c # << >> /\ 1 \in 1..Len(c)
    BY <1>0, <1>2
  <2>1. Known(c, 1)
    <3> DEFINE u == c[1]
               s == Item(u)
    <3>0. u \in Unit
      BY <1>0, <2>0
    <3>1. IsItem(s) /\ u.at \in 1..Len(s) /\ Len(s) \in Nat
      BY <3>0, UnitIs
    <3>2. State(c, 1) = Advance("ground", s[u.at])
      <4>1. State(c, 1) = Advance(State(c, 1 - 1), Byte(c[1]))
        BY <1>0, <2>0, StateIs
      <4> QED BY <1>0, <4>1, StateIs DEF Byte
    <3>3. CASE u.at = 1
      <4>1. State(c, 1) = WholeState(s, u.at)
        BY <3>1, <3>2, <3>3, WholeFirst
      <4> QED BY <3>3, <4>1 DEF Known
    <3>4. CASE u.at > 1
      <4>1. State(c, 1) = TailState(s, u.at)
        BY <3>2, TailFirst DEF TailState
      <4>2. Long(u.item)
        BY <2>0, <3>4 DEF Stream
      <4>3. ~(u.at <= 1)
        BY <3>1, <3>4
      <4> QED BY <4>1, <4>2, <4>3 DEF Known
    <3> QED BY <3>1, <3>3, <3>4
  <2>2. ASSUME NEW i \in 1..Len(c) - 1, Known(c, i) PROVE Known(c, i + 1)
    <3> DEFINE u == c[i]
               v == c[i + 1]
    <3>0. u \in Unit /\ v \in Unit /\ i \in Nat /\ i + 1 \in 1..Len(c) /\ i \in 1..Len(c)
      BY <1>0
    <3>1. /\ IsItem(Item(u)) /\ u.at \in 1..Len(Item(u)) /\ Len(Item(u)) \in Nat \ {0}
          /\ IsItem(Item(v)) /\ v.at \in 1..Len(Item(v)) /\ Len(Item(v)) \in Nat \ {0}
          /\ (Ends(u) <=> u.at = Len(Item(u)))
      BY <3>0, UnitIs
    <3>2. State(c, i + 1) = Advance(State(c, i), Item(v)[v.at])
      <4>1. State(c, i + 1) = Advance(State(c, i + 1 - 1), Byte(c[i + 1]))
        BY <1>0, <3>0, StateIs
      <4>2. i + 1 - 1 = i
        BY <3>0
      <4> QED BY <4>1, <4>2 DEF Byte
    <3>3. Succeeds(u, v)
      BY DEF Stream, Flows
    <3> HIDE DEF u, v
    <3>4. CASE Ends(u)
      <4>1. v.at = 1 /\ u.at = Len(Item(u))
        BY <3>1, <3>3, <3>4 DEF Succeeds
      <4>2. State(c, i) = "ground"
        BY <2>2, <3>1, <4>1, ItemEnd DEF Known, u
      <4>3. State(c, i + 1) = WholeState(Item(v), v.at)
        BY <3>1, <3>2, <4>1, <4>2, WholeFirst
      <4>4. v.at <= i + 1
        BY <3>0, <4>1
      <4> QED BY <3>0, <3>1, <4>3, <4>4 DEF Known, v
    <3>5. CASE ~Ends(u)
      <4>1. v.at = u.at + 1 /\ v.item = u.item /\ Item(v) = Item(u)
        BY <3>3, <3>5 DEF Succeeds, Item
      <4>2. u.at \in 1..Len(Item(u)) - 1
        BY <3>1, <3>5
      <4>3. CASE u.at <= i
        <5>1. State(c, i) = WholeState(Item(u), u.at)
          BY <2>2, <4>3 DEF Known, u
        <5>2. State(c, i + 1) = WholeState(Item(v), v.at)
          BY <3>1, <3>2, <4>1, <4>2, <5>1, WholeNext
        <5>3. v.at <= i + 1 /\ ~(v.at > i + 1)
          BY <3>0, <3>1, <4>1, <4>3
        <5> QED BY <5>2, <5>3 DEF Known, v
      <4>4. CASE u.at > i
        <5>1. State(c, i) = TailState(Item(u), u.at) /\ Long(u.item)
          BY <2>2, <4>4 DEF Known, u
        <5>2. u.at \in 2..Len(Item(u)) - 1
          BY <3>0, <3>1, <4>2, <4>4
        <5>3. State(c, i + 1) = TailState(Item(v), v.at) /\ Long(v.item)
          BY <3>1, <3>2, <4>1, <5>1, <5>2, TailNext
        <5>4. ~(v.at <= i + 1)
          BY <3>0, <3>1, <4>1, <4>4
        <5> QED BY <5>3, <5>4 DEF Known, v
      <4> QED BY <3>0, <3>1, <4>3, <4>4
    <3> QED BY <3>4, <3>5
  <2>3. 1..Len(c) \subseteq T
    <3>1. 1 \in T /\ \A i \in 1..Len(c) - 1 : i \in T => i + 1 \in T
      BY <1>0, <2>1, <2>2
    <3> HIDE DEF T
    <3> QED BY <1>0, <3>1, Induct
  <2> QED BY <1>0, <2>3
<1> QED BY <1>0, <1>1, <1>2

\* Units with no end between them are one item.
LEMMA Run ==
  ASSUME NEW c, Stream(c), NEW a \in 1..Len(c), NEW b \in a..Len(c),
         \A m \in a..b - 1 : ~Ends(c[m])
  PROVE  \A m \in a..b : c[m].item = c[a].item /\ c[m].at = c[a].at + (m - a)
<1> DEFINE T == {m \in Nat : c[m].item = c[a].item /\ c[m].at = c[a].at + (m - a)}
<1>0. /\ a \in Nat /\ b \in Nat /\ Len(c) \in Nat
      /\ \A m \in 1..Len(c) : c[m] \in Unit /\ c[m].at \in Nat
  <2>1. c \in Seq(Unit)
    BY DEF Stream
  <2>2. ASSUME NEW m \in 1..Len(c) PROVE c[m] \in Unit /\ c[m].at \in Nat
    <3>1. c[m] \in Unit
      BY <2>1
    <3> QED BY <3>1, UnitIs
  <2> QED BY <2>1, <2>2
<1>1. a \in T
  BY <1>0
<1>2. ASSUME NEW m \in a..b - 1, m \in T PROVE m + 1 \in T
  <2>1. m \in 1..Len(c) - 1 /\ m \in Nat /\ m \in 1..Len(c)
    BY <1>0
  <2>2. Succeeds(c[m], c[m + 1]) /\ ~Ends(c[m])
    BY <2>1 DEF Stream, Flows
  <2>3. c[m + 1].item = c[m].item /\ c[m + 1].at = c[m].at + 1
    BY <2>2 DEF Succeeds
  <2> QED BY <1>0, <1>2, <2>1, <2>3
<1>3. a..b \subseteq T
  <2> HIDE DEF T
  <2> QED BY <1>0, <1>1, <1>2, Induct
<1> QED BY <1>3

\* Before a unit lies its item, back to the beginning if the stream has it.
LEMMA Back ==
  ASSUME NEW c, Stream(c), NEW i \in 1..Len(c), c[i].at <= i
  PROVE  \A j \in 0..c[i].at - 1 :
           c[i - j].item = c[i].item /\ c[i - j].at = c[i].at - j
<1> DEFINE T == {j \in Nat : c[i - j].item = c[i].item /\ c[i - j].at = c[i].at - j}
<1>0. /\ i \in Nat /\ Len(c) \in Nat /\ c[i].at \in Nat \ {0}
      /\ \A m \in 1..Len(c) : c[m] \in Unit /\ c[m].at \in Nat
  BY UnitIs DEF Stream
<1>1. 0 \in T
  BY <1>0
<1>2. ASSUME NEW j \in 0..(c[i].at - 1) - 1, j \in T PROVE j + 1 \in T
  <2> DEFINE m == i - (j + 1)
  <2>1. j \in Nat /\ m \in 1..Len(c) - 1 /\ m + 1 = i - j
    BY <1>0
  <2>2. Succeeds(c[m], c[m + 1])
    BY <2>1 DEF Stream, Flows
  <2>3. c[m + 1].item = c[i].item /\ c[m + 1].at = c[i].at - j /\ c[i].at - j # 1
    BY <1>0, <1>2, <2>1
  <2>4. c[m].item = c[m + 1].item /\ c[m + 1].at = c[m].at + 1
    BY <2>2, <2>3 DEF Succeeds
  <2>5. c[m].at \in Nat
    BY <1>0, <2>1
  <2>6. c[m].item = c[i].item /\ c[m].at = c[i].at - (j + 1)
    <3>1. j \in Nat /\ c[i].at \in Nat /\ c[m].at \in Nat
      BY <1>0, <2>1, <2>5
    <3>2. c[m].at + 1 = c[i].at - j
      BY ONLY <2>3, <2>4
    <3>3. c[m].item = c[i].item
      BY ONLY <2>3, <2>4
    <3>4. ASSUME NEW x \in Nat, NEW y \in Nat, NEW z \in Nat, x + 1 = y - z
          PROVE  x = y - (z + 1)
      BY ONLY <3>4
    <3>5. c[m].at = c[i].at - (j + 1)
      BY ONLY <3>1, <3>2, <3>4
    <3> QED BY ONLY <3>3, <3>5
  <2> QED BY <2>1, <2>6
<1>3. 0..c[i].at - 1 \subseteq T
  <2>1. 0 \in Nat /\ c[i].at - 1 \in Nat
    BY <1>0
  <2> HIDE DEF T
  <2> QED BY ONLY <2>1, <1>1, <1>2, Induct
<1> QED BY <1>3
-----------------------------------------------------------------------------
\* The last r bytes begin a rune and do not complete it.
Begun(t, r) ==
  /\ r \in 1..3 /\ r <= Len(t)
  /\ t[Len(t) + 1 - r] \in DOMAIN Leads /\ Leads[t[Len(t) + 1 - r]] > r
  /\ \A j \in 1..r - 1 : t[Len(t) + 1 - j] \in Continuations

\* incompleteRuneTail finds the rune that has begun and is incomplete, if there is one.
LEMMA RuneTail ==
  ASSUME NEW t, Len(t) \in Nat
  PROVE  /\ IncompleteRuneTail(t) = 0 \/ Begun(t, IncompleteRuneTail(t))
         /\ \A r : Begun(t, r) => IncompleteRuneTail(t) = r
<1> DEFINE n     == Len(t)
           backs == {k \in 1..3 : k <= n /\ t[n + 1 - k] \notin Continuations}
           back  == CHOOSE k \in backs : \A l \in backs : k <= l
           lead  == t[n + 1 - back]
<1>1. IncompleteRuneTail(t) =
        IF backs # {} /\ lead \in DOMAIN Leads /\ Leads[lead] > back THEN back ELSE 0
  BY DEF IncompleteRuneTail
<1>2. backs \subseteq 1..3
  OBVIOUS
<1>3. backs # {} => back \in backs /\ \A l \in backs : back <= l
  <2> SUFFICES ASSUME backs # {} PROVE \E k \in backs : \A l \in backs : k <= l
    OBVIOUS
  <2> HIDE DEF backs
  <2>1. CASE 1 \in backs
    BY <1>2, <2>1
  <2>2. CASE 1 \notin backs /\ 2 \in backs
    BY <1>2, <2>2
  <2>3. CASE 1 \notin backs /\ 2 \notin backs
    <3>1. \A k \in backs : k = 3
      BY <1>2, <2>3
    <3> QED BY <3>1
  <2> QED BY <2>1, <2>2, <2>3
<1> HIDE DEF back
<1>4. ASSUME IncompleteRuneTail(t) # 0 PROVE Begun(t, IncompleteRuneTail(t))
  <2>1. /\ IncompleteRuneTail(t) = back /\ back \in backs
        /\ lead \in DOMAIN Leads /\ Leads[lead] > back
    BY <1>1, <1>3, <1>4
  <2>2. ASSUME NEW j \in 1..back - 1 PROVE t[n + 1 - j] \in Continuations
    <3>1. j \in 1..3 /\ j <= n /\ ~(back <= j)
      BY <2>1
    <3> QED BY <1>3, <2>1, <3>1
  <2> QED BY <2>1, <2>2 DEF Begun
<1>5. ASSUME NEW r, Begun(t, r) PROVE IncompleteRuneTail(t) = r
  <2>1. r \in backs
    BY <1>5 DEF Begun, Leads, Continuations
  <2>2. back \in backs /\ back <= r
    BY <1>3, <2>1
  <2>3. back = r
    <3> SUFFICES ASSUME back # r PROVE FALSE
      OBVIOUS
    <3>1. back \in 1..r - 1 /\ t[n + 1 - back] \notin Continuations
      BY <2>1, <2>2
    <3> QED BY <1>5, <3>1 DEF Begun
  <2> QED BY <1>1, <1>5, <2>1, <2>3 DEF Begun
<1> QED BY <1>4, <1>5

\* What start says while the automaton is off the ground.
Since(f, i) ==
  f[i].state # "ground" =>
    /\ f[i].start \in 0..i - 1 /\ f[f[i].start].state = "ground"
    /\ \A m \in f[i].start + 1..i : f[m].state # "ground"

\* start is the last place where the automaton was on the ground.
LEMMA ScanStart ==
  ASSUME NEW t, NEW f, NEW n \in Nat, IsScan(t, f, n)
  PROVE  Since(f, n)
<1> DEFINE T == {i \in Nat : Since(f, i)}
<1>1. 0 \in T
  BY DEF Since, IsScan
<1>2. ASSUME NEW i \in 0..n - 1, i \in T PROVE i + 1 \in T
  <2>1. i \in Nat /\ i + 1 \in 1..n /\ i + 1 - 1 = i
    OBVIOUS
  <2>2. f[i + 1] = ScanStep(t, f, i + 1)
    BY <2>1 DEF IsScan
  <2>3. f[i + 1].start = IF f[i].state = "ground" THEN i ELSE f[i].start
    BY <2>1, <2>2 DEF ScanStep
  <2>4. Since(f, i + 1)
    <3> SUFFICES ASSUME f[i + 1].state # "ground"
                 PROVE /\ f[i + 1].start \in 0..i /\ f[f[i + 1].start].state = "ground"
                       /\ \A m \in f[i + 1].start + 1..i + 1 : f[m].state # "ground"
      BY <2>1 DEF Since
    <3>1. CASE f[i].state = "ground"
      BY <2>1, <2>3, <3>1
    <3>2. CASE f[i].state # "ground"
      <4>1. /\ f[i].start \in 0..i - 1 /\ f[f[i].start].state = "ground"
            /\ \A m \in f[i].start + 1..i : f[m].state # "ground"
        BY <1>2, <3>2 DEF Since
      <4> QED BY <2>1, <2>3, <3>2, <4>1
    <3> QED BY <3>1, <3>2
  <2> QED BY <2>1, <2>4
<1>3. 0..n \subseteq T
  <2> HIDE DEF T
  <2> QED BY <1>1, <1>2, Induct
<1> QED BY <1>3

-----------------------------------------------------------------------------
\* The three ways completeBoundary comes to its result.
InSequence(c, cut) ==
  /\ State(c, Len(c)) # "ground" /\ cut \in 0..Len(c) - 1 /\ State(c, cut) = "ground"
  /\ \A m \in cut + 1..Len(c) : State(c, m) # "ground"

InRune(c, cut) ==
  /\ State(c, Len(c)) = "ground" /\ cut \in 0..Len(c) - 1
  /\ Byte(c[cut + 1]) \in DOMAIN Leads /\ Leads[Byte(c[cut + 1])] > Len(c) - cut
  /\ \A m \in cut + 2..Len(c) : Byte(c[m]) \in Continuations

Between(c, cut) ==
  /\ State(c, Len(c)) = "ground" /\ cut = Len(c)
  /\ \A r : ~Begun(Tokens(c), r)

\* What completeBoundary returns: the start of the open sequence, that of the rune
\* begun, or everything.
LEMMA Boundary ==
  ASSUME NEW c \in Seq(Unit), NEW cut, cut = CompleteBoundary(Tokens(c))
  PROVE  InSequence(c, cut) \/ InRune(c, cut) \/ Between(c, cut)
<1> DEFINE t == Tokens(c)
           n == Len(c)
<1>1. n \in Nat /\ Len(t) = n /\ \A i \in 1..n : t[i] = Byte(c[i])
  BY TokensIs
<1>2. cut = IF State(c, n) # "ground" THEN Scan(t)[n].start ELSE n - IncompleteRuneTail(t)
  BY <1>1 DEF CompleteBoundary, State
<1> HIDE DEF t, n
<1>3. CASE State(c, n) # "ground"
  <2>1. Since(Scan(t), n)
    BY <1>1, ScanIs, ScanStart
  <2>2. InSequence(c, cut)
    BY <1>2, <1>3, <2>1 DEF Since, InSequence, State, t, n
  <2> QED BY <2>2
<1>4. CASE State(c, n) = "ground" /\ IncompleteRuneTail(t) # 0
  <2> DEFINE r == IncompleteRuneTail(t)
  <2>1. Begun(t, r)
    BY <1>1, <1>4, RuneTail
  <2> HIDE DEF r
  <2>2. cut = n - r
    BY <1>2, <1>4 DEF r
  <2>3. r \in 1..3 /\ r <= n /\ cut \in 0..n - 1 /\ n + 1 - r = cut + 1 /\ n - cut = r
    BY <1>1, <2>1, <2>2 DEF Begun
  <2>4. cut + 1 \in 1..n /\ t[cut + 1] = Byte(c[cut + 1])
    BY <1>1, <2>3
  <2>5. Byte(c[cut + 1]) \in DOMAIN Leads /\ Leads[Byte(c[cut + 1])] > n - cut
    BY <1>1, <2>1, <2>3, <2>4 DEF Begun
  <2>6. ASSUME NEW m \in cut + 2..n PROVE Byte(c[m]) \in Continuations
    <3>1. n + 1 - m \in 1..r - 1 /\ n + 1 - (n + 1 - m) = m /\ m \in 1..n
      BY <1>1, <2>3
    <3> QED BY <1>1, <2>1, <3>1 DEF Begun
  <2> QED BY <1>4, <2>3, <2>5, <2>6 DEF InRune, n
<1>5. CASE State(c, n) = "ground" /\ IncompleteRuneTail(t) = 0
  <2>1. cut = n
    BY <1>1, <1>2, <1>5
  <2>2. ASSUME NEW r, Begun(t, r) PROVE FALSE
    <3>1. r = 0
      BY <1>1, <1>5, <2>2, RuneTail
    <3> QED BY <2>2, <3>1 DEF Begun
  <2> QED BY <1>5, <2>1, <2>2 DEF Between, t, n
<1> QED BY <1>3, <1>4, <1>5
-----------------------------------------------------------------------------
\* A nonempty set of natural numbers has a least element.
LEMMA Least ==
  ASSUME NEW T, T \subseteq Nat, T # {} PROVE \E x \in T : \A y \in T : x <= y
<1>1. PICK x \in T : \A y \in T : ~(<<y, x>> \in Less)
  BY LessWellFounded, WFMin
<1>2. \A y \in T : ~(y < x)
  BY <1>1 DEF Less
<1> QED BY <1>2

\* A lead byte begins a rune, or is inside a sequence.
LEMMA LeadPlace ==
  ASSUME NEW u \in Unit, Byte(u) \in DOMAIN Leads
  PROVE  /\ IsRune(Item(u)) => u.at = 1 /\ Len(Item(u)) = Leads[Byte(u)]
         /\ ~IsRune(Item(u)) => ~Ends(u)
<1> DEFINE s == Item(u)
<1>1. IsItem(s) /\ u.at \in 1..Len(s) /\ Len(s) \in Nat \ {0} /\ (Ends(u) <=> u.at = Len(s))
  BY UnitIs
<1>2. CASE IsRune(s)
  BY <1>1, <1>2 DEF IsRune, Byte, Ascii, Leads, Continuations
<1>3. CASE ~IsRune(s)
  BY <1>1, <1>3, SequenceShape DEF Byte, Ascii
<1> QED BY <1>2, <1>3

\* After the last token of an item the automaton is on the ground.
LEMMA EndGround ==
  ASSUME NEW c, Stream(c), NEW i \in 1..Len(c), Ends(c[i]) PROVE State(c, i) = "ground"
<1>1. c[i] \in Unit /\ i \in Nat
  BY DEF Stream
<1>2. IsItem(Item(c[i])) /\ c[i].at = Len(Item(c[i])) /\ c[i].at \in Nat
  BY <1>1, UnitIs
<1>3. Known(c, i)
  BY AllKnown
<1> QED BY <1>1, <1>2, <1>3, ItemEnd DEF Known

\* Inside a sequence seen from its beginning it is not, and in a rune it is.
LEMMA InnerNotGround ==
  ASSUME NEW c, Stream(c), NEW i \in 1..Len(c), c[i].at <= i
  PROVE  /\ ~Ends(c[i]) /\ ~IsRune(Item(c[i])) => State(c, i) # "ground"
         /\ IsRune(Item(c[i])) => State(c, i) = "ground"
<1>1. c[i] \in Unit /\ State(c, i) = WholeState(Item(c[i]), c[i].at)
  BY AllKnown DEF Stream, Known
<1>2. /\ IsItem(Item(c[i])) /\ c[i].at \in 1..Len(Item(c[i])) /\ Len(Item(c[i])) \in Nat
      /\ (Ends(c[i]) <=> c[i].at = Len(Item(c[i])))
  BY <1>1, UnitIs
<1>3. CASE IsRune(Item(c[i]))
  BY <1>1, <1>2, <1>3, RuneStep DEF IsItem
<1>4. CASE ~IsRune(Item(c[i])) /\ ~Ends(c[i])
  BY <1>1, <1>2, <1>4, InnerStates
<1> QED BY <1>3, <1>4

\* No item ends in what is held back.
LEMMA HeldNoEnd ==
  ASSUME NEW c, Stream(c), NEW cut, cut = CompleteBoundary(Tokens(c)),
         NEW i \in cut + 1..Len(c)
  PROVE  ~Ends(c[i])
<1>0. c \in Seq(Unit) /\ Len(c) \in Nat /\ \A m \in 1..Len(c) : c[m] \in Unit
  BY DEF Stream
<1>1. CASE InSequence(c, cut)
  BY <1>0, <1>1, EndGround DEF InSequence
<1>2. CASE Between(c, cut)
  BY <1>0, <1>2 DEF Between
<1>3. CASE InRune(c, cut)
  <2> SUFFICES ASSUME Ends(c[i]) PROVE FALSE
    OBVIOUS
  <2>0. cut \in Nat /\ cut + 1 \in 1..Len(c) /\ i \in Nat
    BY <1>0, <1>3 DEF InRune
  <2> DEFINE ends == {m \in cut + 1..Len(c) : Ends(c[m])}
  <2>1. ends \subseteq Nat /\ i \in ends
    BY <1>0, <2>0
  <2>2. PICK m \in ends : \A l \in ends : m <= l
    <3> HIDE DEF ends
    <3> QED BY <2>1, Least
  <2>3. m \in cut + 1..Len(c) /\ m \in Nat /\ m \in 1..Len(c) /\ Ends(c[m])
    BY <1>0, <2>0, <2>2
  <2>4. \A l \in cut + 1..m - 1 : ~Ends(c[l])
    BY <1>0, <2>0, <2>2, <2>3
  <2>5. c[m].item = c[cut + 1].item /\ c[m].at = c[cut + 1].at + (m - (cut + 1))
    <3>1. m \in cut + 1..m
      BY <2>0, <2>3
    <3> QED BY <2>0, <2>3, <2>4, <3>1, Run
  <2>6. Byte(c[m]) \in Continuations \cup DOMAIN Leads
    <3>1. m = cut + 1 \/ m \in cut + 2..Len(c)
      BY <2>0, <2>3, <1>0
    <3> QED BY <1>3, <3>1 DEF InRune
  <2>7. IsRune(Item(c[m]))
    <3>1. IsItem(Item(c[m])) /\ c[m].at = Len(Item(c[m]))
      BY <1>0, <2>3, UnitIs
    <3> QED BY <2>6, <3>1, SequenceShape DEF Byte, Ascii
  <2>8. /\ c[cut + 1].at = 1 /\ Len(Item(c[m])) = Leads[Byte(c[cut + 1])]
    <3>1. Item(c[m]) = Item(c[cut + 1])
      BY <2>5 DEF Item
    <3> QED BY <1>0, <1>3, <2>0, <2>7, <3>1, LeadPlace DEF InRune
  <2>9. c[m].at = m - cut /\ c[m].at = Len(Item(c[m]))
    <3>1. c[m].at = Len(Item(c[m]))
      BY <1>0, <2>3, UnitIs
    <3>2. c[m].at = 1 + (m - (cut + 1))
      BY <2>5, <2>8
    <3> QED BY <2>0, <2>3, <3>1, <3>2
  <2>10. Leads[Byte(c[cut + 1])] > Len(c) - cut /\ Leads[Byte(c[cut + 1])] \in Nat
    BY <1>3 DEF InRune, Leads
  <2> QED BY <1>0, <2>0, <2>3, <2>8, <2>9, <2>10
<1> QED BY <1>0, <1>1, <1>2, <1>3, Boundary

\* What is held back lies in one item.
LEMMA HeldRun ==
  ASSUME NEW c, Stream(c), NEW cut, cut = CompleteBoundary(Tokens(c)),
         NEW i \in cut + 1..Len(c)
  PROVE  /\ cut \in Nat /\ cut + 1 \in 1..Len(c)
         /\ c[i].item = c[cut + 1].item /\ c[i].at = c[cut + 1].at + (i - (cut + 1))
<1>1. Len(c) \in Nat /\ (InSequence(c, cut) \/ InRune(c, cut) \/ Between(c, cut))
  BY Boundary DEF Stream
<1>2. cut \in 0..Len(c)
  BY <1>1 DEF InSequence, InRune, Between
<1>3. cut + 1 \in 1..Len(c) /\ i \in cut + 1..Len(c) /\ i \in cut + 1..i /\ cut \in Nat
  BY <1>1, <1>2
<1>4. \A m \in cut + 1..i - 1 : ~Ends(c[m])
  BY <1>1, <1>3, HeldNoEnd
<1> QED BY <1>3, <1>4, Run

\* completeBoundary cuts inside an item only if that is an item it sees from the middle.
LEMMA CutWhole ==
  ASSUME NEW c, Stream(c), NEW cut, cut = CompleteBoundary(Tokens(c)),
         cut > 0, ~Ends(c[cut])
  PROVE  cut \in 1..Len(c) /\ c[cut].at > cut
<1>0. c \in Seq(Unit) /\ Len(c) \in Nat /\ \A m \in 1..Len(c) : c[m] \in Unit
  BY DEF Stream
<1>1. InSequence(c, cut) \/ InRune(c, cut) \/ Between(c, cut)
  BY <1>0, Boundary
<1>2. cut \in 1..Len(c) /\ cut \in Nat
  BY <1>0, <1>1 DEF InSequence, InRune, Between
<1> DEFINE u == c[cut]
           v == c[cut + 1]
<1>3. u \in Unit /\ IsItem(Item(u)) /\ u.at \in 1..Len(Item(u)) /\ Len(Item(u)) \in Nat
  BY <1>0, <1>2, UnitIs
<1> SUFFICES ASSUME u.at <= cut PROVE FALSE
  BY <1>2, <1>3
<1>4. ASSUME cut < Len(c)
      PROVE  /\ cut + 1 \in 1..Len(c) /\ v \in Unit /\ v.item = u.item /\ Item(v) = Item(u)
             /\ v.at = u.at + 1 /\ v.at <= cut + 1 /\ v.at # 1
  <2>1. cut \in 1..Len(c) - 1 /\ cut + 1 \in 1..Len(c)
    BY <1>0, <1>2, <1>4
  <2>2. Succeeds(u, v) /\ ~Ends(u)
    BY <2>1 DEF Stream, Flows
  <2>3. v.item = u.item /\ v.at = u.at + 1
    BY <2>2 DEF Succeeds
  <2> QED BY <1>0, <1>2, <1>3, <2>1, <2>3 DEF Item
<1>5. CASE InSequence(c, cut)
  <2>1. cut < Len(c) /\ State(c, cut) = "ground" /\ State(c, cut + 1) # "ground"
    BY <1>0, <1>2, <1>5 DEF InSequence
  <2>2. IsRune(Item(u))
    BY <1>2, <2>1, InnerNotGround
  <2>3. State(c, cut + 1) = "ground"
    BY <1>4, <2>1, <2>2, InnerNotGround
  <2> QED BY <2>1, <2>3
<1>6. CASE InRune(c, cut)
  <2>1. cut < Len(c) /\ Byte(v) \in DOMAIN Leads /\ State(c, Len(c)) = "ground"
    BY <1>0, <1>2, <1>6 DEF InRune
  <2>2. ~IsRune(Item(v))
    BY <1>4, <2>1, LeadPlace
  <2>3. /\ Len(c) \in cut + 1..Len(c) /\ Len(c) \in 1..Len(c)
    BY <1>0, <1>2, <2>1
  <2>4. c[Len(c)].item = v.item /\ c[Len(c)].at = v.at + (Len(c) - (cut + 1))
    BY <2>3, HeldRun
  <2>5. c[Len(c)].at <= Len(c) /\ ~Ends(c[Len(c)]) /\ ~IsRune(Item(c[Len(c)]))
    <3>1. Item(c[Len(c)]) = Item(v)
      BY <2>4 DEF Item
    <3>2. v.at \in Nat
      BY <1>3, <1>4, <2>1
    <3>3. c[Len(c)].at <= Len(c)
      BY <1>0, <1>2, <1>4, <2>1, <2>4, <3>2
    <3> QED BY <2>2, <2>3, <3>1, <3>3, HeldNoEnd
  <2> QED BY <2>1, <2>3, <2>5, InnerNotGround
<1>7. CASE Between(c, cut)
  <2>1. cut = Len(c) /\ State(c, cut) = "ground" /\ \A r : ~Begun(Tokens(c), r)
    BY <1>7 DEF Between
  <2>2. IsRune(Item(u))
    BY <1>2, <2>1, InnerNotGround
  <2> DEFINE s == Item(u)
             a == u.at
  <2>3. /\ Len(s) \in Nat /\ a \in Nat /\ 1 <= a /\ a < Len(s) /\ Len(s) <= 4
        /\ a <= cut /\ IsRune(s) /\ Len(s) # 1
    <3>1. a # Len(s)
      BY <1>3, UnitIs
    <3> QED BY <1>3, <2>2, <3>1, RuneStep DEF IsItem
  <2> HIDE DEF s, a
  <2>4. s[1] \in DOMAIN Leads /\ Len(s) = Leads[s[1]] /\ \A i \in 2..Len(s) : s[i] \in Continuations
    BY <2>3 DEF IsRune
  <2>5. ASSUME NEW j \in 0..a - 1 PROVE Byte(c[cut - j]) = s[a - j]
    <3>1. c[cut - j].item = u.item /\ c[cut - j].at = a - j
      BY <1>2, Back DEF a
    <3> QED BY <3>1 DEF Byte, Item, s
  <2>6. Len(Tokens(c)) = cut /\ \A i \in 1..cut : Tokens(c)[i] = Byte(c[i])
    BY <1>0, <2>1, TokensIs
  <2>7. a <= cut /\ a \in Nat /\ a \in 1..3
    BY <2>3
  <2>8. Tokens(c)[cut + 1 - a] = s[1]
    <3>1. a - 1 \in 0..a - 1 /\ cut - (a - 1) = cut + 1 - a /\ a - (a - 1) = 1
      BY <1>2, <2>7
    <3>2. cut + 1 - a \in 1..cut
      BY <1>2, <2>7
    <3> QED BY <2>5, <2>6, <3>1, <3>2
  <2>9. ASSUME NEW j \in 1..a - 1 PROVE Tokens(c)[cut + 1 - j] \in Continuations
    <3>1. j - 1 \in 0..a - 1 /\ cut - (j - 1) = cut + 1 - j /\ a - (j - 1) \in 2..Len(s)
      BY <1>2, <2>3, <2>7
    <3>2. cut + 1 - j \in 1..cut
      BY <1>2, <2>7
    <3> QED BY <2>4, <2>5, <2>6, <3>1, <3>2
  <2>10. Begun(Tokens(c), a)
    BY <2>3, <2>4, <2>6, <2>7, <2>8, <2>9 DEF Begun
  <2> QED BY <2>1, <2>10
<1> QED BY <1>1, <1>5, <1>6, <1>7
-----------------------------------------------------------------------------
\* What is held back: a sequence from its beginning, or a byte with continuations.
Held(p) ==
  p # << >> =>
    \/ p[1].at = 1 /\ ~IsRune(Item(p[1]))
    \/ \A i \in 2..Len(p) : Byte(p[i]) \in Continuations

\* What is held back begins a sequence, or is one lead byte or ESC with continuations.
LEMMA HeldShape ==
  ASSUME NEW c, Stream(c), NEW cut, cut = CompleteBoundary(Tokens(c)), cut < Len(c)
  PROVE  \/ c[cut + 1].at = 1 /\ ~IsRune(Item(c[cut + 1]))
         \/ \A m \in cut + 2..Len(c) : Byte(c[m]) \in Continuations
<1>0. c \in Seq(Unit) /\ Len(c) \in Nat /\ \A m \in 1..Len(c) : c[m] \in Unit
  BY DEF Stream
<1>1. CASE InSequence(c, cut)
  <2> DEFINE v == c[cut + 1]
  <2>1. /\ cut \in 0..Len(c) - 1 /\ cut \in Nat /\ cut + 1 \in 1..Len(c)
        /\ State(c, cut + 1) # "ground"
    BY <1>0, <1>1 DEF InSequence
  <2>2. v \in Unit /\ v.at \in Nat \ {0}
    BY <1>0, <2>1, UnitIs
  <2>3. CASE v.at = 1
    <3>1. v.at <= cut + 1
      BY <2>1, <2>3
    <3>2. ~IsRune(Item(v))
      BY <2>1, <3>1, InnerNotGround
    <3> QED BY <2>3, <3>2
  <2>4. CASE v.at # 1
    <3>1. v.at > cut + 1
      <4>1. CASE cut = 0
        BY <2>2, <2>4, <4>1
      <4>2. CASE cut > 0
        <5>1. cut \in 1..Len(c) - 1
          BY <1>0, <2>1, <4>2
        <5>2. Succeeds(c[cut], v)
          BY <5>1 DEF Stream, Flows
        <5>3. ~Ends(c[cut]) /\ v.at = c[cut].at + 1
          BY <2>4, <5>2 DEF Succeeds
        <5>4. c[cut].at > cut
          BY <4>2, <5>3, CutWhole
        <5>5. c[cut] \in Unit /\ c[cut].at \in Nat
          BY <1>0, <5>1, UnitIs
        <5> QED BY <2>1, <5>3, <5>4, <5>5
      <4> QED BY <2>1, <4>1, <4>2
    <3>2. State(c, cut + 1) = TailState(Item(v), v.at)
      BY <2>1, <3>1, AllKnown DEF Known
    <3>3. Byte(v) = "ESC"
      BY <2>1, <3>2 DEF TailState, Byte
    <3>4. v.at = Len(Item(v)) - 1 /\ Len(Item(v)) \in Nat
      <4>1. IsItem(Item(v)) /\ v.at \in 1..Len(Item(v)) /\ Len(Item(v)) \in Nat
        BY <2>2, UnitIs
      <4>2. v.at \in 2..Len(Item(v))
        BY <2>2, <2>4, <4>1
      <4>3. Item(v)[v.at] = "ESC"
        BY <3>3 DEF Byte
      <4> QED BY <4>1, <4>2, <4>3, RuneStep, SequenceShape DEF IsItem
    <3>5. ASSUME cut + 2 <= Len(c) PROVE FALSE
      <4>1. PICK w \in cut + 1..Len(c) : w = cut + 2 /\ w \in 1..Len(c)
        BY <1>0, <2>1, <3>5
      <4>2. c[w].item = v.item /\ c[w].at = v.at + (w - (cut + 1))
        BY HeldRun
      <4>3. Item(c[w]) = Item(v)
        BY <4>2 DEF Item
      <4>4. w - (cut + 1) = 1
        BY <2>1, <4>1
      <4>5. c[w].at = Len(Item(c[w]))
        BY <2>2, <3>4, <4>2, <4>3, <4>4
      <4>6. Ends(c[w])
        BY <1>0, <4>1, <4>5, UnitIs
      <4> QED BY <4>6, HeldNoEnd
    <3> QED BY <1>0, <2>1, <3>5
  <2> QED BY <2>3, <2>4
<1>2. CASE InRune(c, cut)
  BY <1>2 DEF InRune
<1>3. CASE Between(c, cut)
  BY <1>0, <1>3 DEF Between
<1> QED BY <1>0, <1>1, <1>2, <1>3, Boundary

\* Once something is written, everything held back before is: what is held back next is
\* part of the last read.
LEMMA HeldSize ==
  ASSUME NEW c, Stream(c), NEW cut, cut = CompleteBoundary(Tokens(c)), cut > 0,
         NEW p \in Seq(Unit), Held(p), Len(p) <= Len(c),
         \A i \in 1..Len(p) : c[i] = p[i] /\ ~Ends(p[i])
  PROVE  cut \in 1..Len(c) /\ cut >= Len(p)
<1>0. /\ c \in Seq(Unit) /\ Len(c) \in Nat /\ Len(p) \in Nat
      /\ \A m \in 1..Len(c) : c[m] \in Unit
  BY DEF Stream
<1>1. InSequence(c, cut) \/ InRune(c, cut) \/ Between(c, cut)
  BY <1>0, Boundary
<1>2. cut \in 1..Len(c) /\ cut \in Nat
  BY <1>0, <1>1 DEF InSequence, InRune, Between
<1> SUFFICES ASSUME cut < Len(p) PROVE FALSE
  BY <1>0, <1>2
<1>3. /\ 1 \in 1..Len(p) /\ p # << >> /\ cut < Len(c) /\ cut + 1 \in 2..Len(p)
      /\ cut + 1 \in 1..Len(p) /\ cut \in 1..Len(p) /\ 1 \in 1..Len(c) /\ cut + 1 \in 1..Len(c)
  BY <1>0, <1>2
<1>4. CASE c[1].at = 1 /\ ~IsRune(Item(c[1]))
  <2>1. ASSUME NEW b \in 1..Len(c), \A m \in 1..b - 1 : ~Ends(c[m]), ~Ends(c[b])
        PROVE  State(c, b) # "ground"
    <3>1. b \in 1..b
      BY <1>0
    <3>2. c[b].item = c[1].item /\ c[b].at = c[1].at + (b - 1)
      BY <1>3, <2>1, <3>1, Run
    <3>3. c[b].at <= b /\ ~IsRune(Item(c[b]))
      BY <1>0, <1>4, <3>2 DEF Item
    <3> QED BY <2>1, <3>3, InnerNotGround
  <2>2. CASE InSequence(c, cut)
    <3>1. \A m \in 1..cut - 1 : ~Ends(c[m])
      BY <1>2, <1>3
    <3>2. ~Ends(c[cut])
      BY <1>3
    <3> QED BY <1>2, <2>1, <2>2, <3>1, <3>2 DEF InSequence
  <2>3. CASE InRune(c, cut)
    <3>1. \A m \in 1..Len(c) : ~Ends(c[m])
      <4> SUFFICES ASSUME NEW m \in 1..Len(c) PROVE ~Ends(c[m])
        OBVIOUS
      <4>1. CASE m \in 1..Len(p)
        BY <4>1
      <4>2. CASE m \in cut + 1..Len(c)
        BY <4>2, HeldNoEnd
      <4> QED BY <1>0, <1>2, <4>1, <4>2
    <3>2. Len(c) \in 1..Len(c) /\ \A m \in 1..Len(c) - 1 : ~Ends(c[m])
      BY <1>0, <1>3, <3>1
    <3> QED BY <2>1, <2>3, <3>1, <3>2 DEF InRune
  <2> QED BY <1>1, <1>3, <2>2, <2>3 DEF Between
<1>5. CASE \A i \in 2..Len(p) : Byte(p[i]) \in Continuations
  <2>1. Byte(c[cut + 1]) \in Continuations /\ Byte(c[cut + 1]) # "ESC"
    BY <1>3, <1>5 DEF Continuations
  <2>2. CASE InSequence(c, cut)
    <3>1. State(c, cut + 1) = Advance(State(c, cut + 1 - 1), Byte(c[cut + 1]))
      BY <1>0, <1>3, StateIs
    <3>2. State(c, cut) = "ground" /\ State(c, cut + 1) # "ground" /\ cut + 1 - 1 = cut
      BY <1>0, <1>2, <1>3, <2>2 DEF InSequence
    <3> QED BY <2>1, <3>1, <3>2, TailFirst
  <2>3. CASE InRune(c, cut)
    BY <2>1, <2>3 DEF InRune, Leads, Continuations
  <2> QED BY <1>1, <1>3, <2>2, <2>3 DEF Between
<1> QED BY <1>3, <1>4, <1>5 DEF Held

\* A chunk that has outgrown the hold-back without a boundary lies in one long item.
LEMMA ForcedLong ==
  ASSUME NEW c, Stream(c), NEW cut, cut = CompleteBoundary(Tokens(c)), cut = 0,
         Len(c) > MaxHoldback
  PROVE  Len(c) \in 1..Len(c) /\ Long(c[Len(c)].item)
<1>0. Len(c) \in Nat /\ MaxHoldback \in Nat /\ Len(c) \in 0 + 1..Len(c) /\ Len(c) \in 1..Len(c)
  BY ReadAssumption DEF Stream
<1>1. /\ c[Len(c)].item = c[0 + 1].item
      /\ c[Len(c)].at = c[0 + 1].at + (Len(c) - (0 + 1))
  <2>1. Len(c) \in cut + 1..Len(c)
    BY <1>0
  <2>2. c[Len(c)].item = c[cut + 1].item /\ c[Len(c)].at = c[cut + 1].at + (Len(c) - (cut + 1))
    BY <2>1, HeldRun
  <2> QED BY <2>2
<1>2. 0 + 1 = 1 /\ 1 \in 1..Len(c) /\ c # << >>
  BY <1>0
<1>3. c[1] \in Unit /\ c[Len(c)] \in Unit
  BY <1>0, <1>2 DEF Stream
<1>4. CASE c[1].at > 1
  BY <1>0, <1>1, <1>2, <1>4 DEF Stream
<1>5. CASE c[1].at = 1
  <2>1. c[Len(c)].at = Len(c)
    BY <1>0, <1>1, <1>2, <1>5
  <2>2. ~Ends(c[Len(c)])
    BY <1>0, HeldNoEnd
  <2>3. /\ Len(c) \in 1..Len(Item(c[Len(c)])) /\ Len(c) # Len(Item(c[Len(c)]))
        /\ Len(Item(c[Len(c)])) \in Nat
    BY <1>3, <2>1, <2>2, UnitIs
  <2> QED BY <1>0, <2>3 DEF Long, Item
<1>6. c[1].at \in Nat \ {0}
  BY <1>3, UnitIs
<1> QED BY <1>0, <1>4, <1>5, <1>6
-----------------------------------------------------------------------------
\* The child writes whole items.
Complete(s) == s # << >> => Ends(s[Len(s)])

\* The inductive invariant: what is held back and what is unread are one stream.
IInv ==
  /\ pending \in Seq(Unit) /\ output \in Seq(Unit)
  /\ Stream(pending \o output) /\ Complete(pending \o output)
  /\ Held(pending)
  /\ HoldbackIsTight /\ WritesLandWhole

\* Concatenation of units, by index.
LEMMA Concat ==
  ASSUME NEW c \in Seq(Unit), NEW d \in Seq(Unit)
  PROVE  /\ c \o d \in Seq(Unit) /\ Len(c \o d) = Len(c) + Len(d)
         /\ Len(c) \in Nat /\ Len(d) \in Nat
         /\ \A i \in 1..Len(c) : (c \o d)[i] = c[i]
         /\ \A i \in 1..Len(d) : (c \o d)[Len(c) + i] = d[i]
OBVIOUS

\* The rest of a sequence, by index.
LEMMA Rest ==
  ASSUME NEW c \in Seq(Unit), NEW k \in 0..Len(c)
  PROVE  /\ SubSeq(c, k + 1, Len(c)) \in Seq(Unit)
         /\ Len(SubSeq(c, k + 1, Len(c))) = Len(c) - k
         /\ \A i \in 1..Len(c) - k : SubSeq(c, k + 1, Len(c))[i] = c[k + i]
OBVIOUS

\* What was read is a stream.
LEMMA Prefix ==
  ASSUME NEW s, Stream(s), NEW c \in Seq(Unit), Len(c) <= Len(s),
         \A i \in 1..Len(c) : c[i] = s[i]
  PROVE  Stream(c)
<1>1. Len(c) \in Nat /\ Len(s) \in Nat
  BY DEF Stream
<1>2. Flows(c)
  <2> SUFFICES ASSUME NEW i \in 1..Len(c) - 1 PROVE Succeeds(c[i], c[i + 1])
    BY DEF Flows
  <2>1. i \in 1..Len(s) - 1 /\ c[i] = s[i] /\ c[i + 1] = s[i + 1]
    BY <1>1
  <2> QED BY <2>1 DEF Stream, Flows
<1>3. c # << >> => s # << >> /\ c[1] = s[1]
  BY <1>1 DEF Stream
<1> QED BY <1>2, <1>3 DEF Stream

\* What is left of a stream after a cut is one, if a torn item is a long one.
LEMMA Suffix ==
  ASSUME NEW s, Stream(s), Complete(s), NEW cut \in 0..Len(s),
         cut < Len(s) /\ s[cut + 1].at > 1 => Long(s[cut + 1].item),
         NEW q \in Seq(Unit), Len(q) = Len(s) - cut, \A i \in 1..Len(q) : q[i] = s[cut + i]
  PROVE  Stream(q) /\ Complete(q)
<1>1. Len(q) \in Nat /\ Len(s) \in Nat /\ cut \in Nat /\ s \in Seq(Unit)
  BY DEF Stream
<1>2. Flows(q)
  <2> SUFFICES ASSUME NEW i \in 1..Len(q) - 1 PROVE Succeeds(q[i], q[i + 1])
    BY DEF Flows
  <2>1. cut + i \in 1..Len(s) - 1 /\ cut + (i + 1) = cut + i + 1
    BY <1>1
  <2>2. q[i] = s[cut + i] /\ q[i + 1] = s[cut + i + 1]
    <3>1. i \in 1..Len(q) /\ i + 1 \in 1..Len(q)
      BY <1>1
    <3>2. q[i + 1] = s[cut + (i + 1)]
      BY <3>1
    <3> QED BY <2>1, <3>1, <3>2
  <2> QED BY <2>1, <2>2 DEF Stream, Flows
<1>3. q # << >> => s # << >> /\ q[1] = s[cut + 1] /\ cut < Len(s)
  BY <1>1
<1>4. q # << >> => q[Len(q)] = s[Len(s)]
  <2> SUFFICES ASSUME q # << >> PROVE q[Len(q)] = s[Len(s)]
    OBVIOUS
  <2>1. Len(q) \in 1..Len(q) /\ cut + Len(q) = Len(s)
    BY <1>1
  <2> QED BY <2>1
<1> QED BY <1>2, <1>3, <1>4 DEF Stream, Complete

\* The units of an item.
LEMMA UnitsAre ==
  ASSUME NEW k \in DOMAIN Items
  PROVE  /\ Units(k) \in Seq(Unit) /\ Len(Units(k)) = Len(Items[k]) /\ Len(Items[k]) \in Nat \ {0}
         /\ \A i \in 1..Len(Items[k]) : Units(k)[i] = [item |-> k, at |-> i]
<1>1. IsItem(Items[k])
  BY ItemsAre
<1>2. Len(Items[k]) \in Nat \ {0}
  BY <1>1, ItemEnd
<1>3. \A i \in 1..Len(Items[k]) : [item |-> k, at |-> i] \in Unit
  BY <1>2 DEF Unit
<1> QED BY <1>2, <1>3 DEF Units

\* A stream stays one when the child emits an item.
LEMMA AppendItem ==
  ASSUME NEW s, Stream(s), Complete(s), NEW k \in DOMAIN Items
  PROVE  Stream(s \o Units(k)) /\ Complete(s \o Units(k))
<1>0. PICK q \in Seq(Unit) :
        /\ q = s \o Units(k) /\ Len(q) = Len(s) + Len(Items[k])
        /\ \A i \in 1..Len(s) : q[i] = s[i]
        /\ \A i \in 1..Len(Items[k]) : q[Len(s) + i] = [item |-> k, at |-> i]
  <2>1. s \in Seq(Unit) /\ Units(k) \in Seq(Unit)
    BY UnitsAre DEF Stream
  <2>2. /\ s \o Units(k) \in Seq(Unit) /\ Len(s \o Units(k)) = Len(s) + Len(Units(k))
        /\ \A i \in 1..Len(s) : (s \o Units(k))[i] = s[i]
        /\ \A i \in 1..Len(Units(k)) : (s \o Units(k))[Len(s) + i] = Units(k)[i]
    BY <2>1, Concat
  <2>3. Len(Units(k)) = Len(Items[k])
    BY UnitsAre
  <2>4. \A i \in 1..Len(Items[k]) : (s \o Units(k))[Len(s) + i] = [item |-> k, at |-> i]
    <3> SUFFICES ASSUME NEW i \in 1..Len(Items[k])
                 PROVE (s \o Units(k))[Len(s) + i] = [item |-> k, at |-> i]
      OBVIOUS
    <3>1. (s \o Units(k))[Len(s) + i] = Units(k)[i]
      BY <2>2, <2>3
    <3> QED BY <3>1, UnitsAre
  <2> QED BY <2>2, <2>3, <2>4
<1> DEFINE l == Len(Items[k])
<1>1. Len(q) \in Nat /\ Len(s) \in Nat /\ s \in Seq(Unit) /\ l \in Nat \ {0}
  BY <1>0, UnitsAre DEF Stream
<1>2. ASSUME NEW i \in 1..Len(q), i > Len(s)
      PROVE  q[i] = [item |-> k, at |-> i - Len(s)] /\ (Ends(q[i]) <=> i = Len(q))
  <2>1. i - Len(s) \in 1..Len(Items[k]) /\ Len(s) + (i - Len(s)) = i
    BY <1>0, <1>1, <1>2
  <2>2. q[i] = [item |-> k, at |-> i - Len(s)]
    BY <1>0, <2>1
  <2>3. q[i].at = i - Len(s) /\ q[i].item = k
    BY <2>2
  <2>4. Ends(q[i]) <=> i - Len(s) = Len(Items[k])
    BY <2>3 DEF Ends
  <2>5. i - Len(s) = Len(Items[k]) <=> i = Len(q)
    BY <1>0, <1>1
  <2> QED BY <2>2, <2>4, <2>5
<1>3. Flows(q)
  <2> SUFFICES ASSUME NEW i \in 1..Len(q) - 1 PROVE Succeeds(q[i], q[i + 1])
    BY DEF Flows
  <2>0. i \in Nat /\ i + 1 \in 1..Len(q) /\ i \in 1..Len(q) /\ i # Len(q)
    BY <1>1
  <2>1. CASE i < Len(s)
    <3>1. i \in 1..Len(s) - 1 /\ q[i] = s[i] /\ q[i + 1] = s[i + 1]
      BY <1>0, <1>1, <2>0, <2>1
    <3> QED BY <3>1 DEF Stream, Flows
  <2>2. CASE i = Len(s)
    <3>1. i \in 1..Len(s) /\ q[i] = s[i] /\ s # << >>
      BY <1>0, <1>1, <2>0, <2>2
    <3>2. Ends(q[i])
      BY <2>2, <3>1 DEF Complete
    <3>3. q[i + 1] = [item |-> k, at |-> i + 1 - Len(s)]
      BY <1>1, <1>2, <2>0, <2>2
    <3>4. q[i + 1].at = 1
      BY <1>1, <2>0, <2>2, <3>3
    <3> QED BY <3>2, <3>4 DEF Succeeds
  <2>3. CASE i > Len(s)
    <3>1. q[i] = [item |-> k, at |-> i - Len(s)] /\ ~Ends(q[i])
      BY <1>2, <2>0, <2>3
    <3>2. q[i + 1] = [item |-> k, at |-> i + 1 - Len(s)]
      BY <1>1, <1>2, <2>0, <2>3
    <3>3. q[i].item = k /\ q[i].at + 1 = i + 1 - Len(s)
      BY <1>1, <2>0, <3>1
    <3> QED BY <3>1, <3>2, <3>3 DEF Succeeds
  <2> QED BY <1>1, <2>0, <2>1, <2>2, <2>3
<1>4. Complete(q)
  <2>1. Len(q) \in 1..Len(q) /\ Len(q) > Len(s)
    BY <1>0, <1>1
  <2> QED BY <1>2, <2>1 DEF Complete
<1>5. ASSUME q # << >>, q[1].at > 1 PROVE Long(q[1].item)
  <2>1. CASE Len(s) = 0
    <3>1. 1 \in 1..Len(q) /\ 1 > Len(s) /\ 1 - Len(s) = 1
      BY <1>0, <1>1, <2>1
    <3>2. q[1] = [item |-> k, at |-> 1 - Len(s)]
      BY <1>2, <3>1
    <3>3. q[1].at = 1
      BY <3>1, <3>2
    <3> QED BY <1>5, <3>3
  <2>2. CASE Len(s) # 0
    <3>1. q[1] = s[1] /\ s # << >>
      BY <1>0, <1>1, <2>2
    <3> QED BY <1>5, <3>1 DEF Stream
  <2> QED BY <2>1, <2>2
<1>6. q # << >> /\ q[1].at > 1 => Long(q[1].item)
  BY <1>5
<1>7. q \in Seq(Unit)
  BY <1>0
<1>8. Stream(q)
  BY ONLY <1>3, <1>6, <1>7 DEF Stream
<1>9. q = s \o Units(k)
  BY <1>0
<1> QED BY ONLY <1>4, <1>8, <1>9

\* What readLoop writes, from completeBoundary and the forced flush together.
LEMMA CutIs ==
  ASSUME NEW c, Stream(c), NEW cut, cut = Cut(Tokens(c))
  PROVE  /\ cut \in 0..Len(c) /\ Len(c) \in Nat
         /\ \A i \in cut + 1..Len(c) : ~Ends(c[i])
         /\ cut > 0 /\ ~Ends(c[cut]) => Long(c[cut].item)
         /\ cut < Len(c) =>
              /\ cut = CompleteBoundary(Tokens(c)) /\ (cut = 0 => Len(c) <= MaxHoldback)
              /\ \/ c[cut + 1].at = 1 /\ ~IsRune(Item(c[cut + 1]))
                 \/ \A m \in cut + 2..Len(c) : Byte(c[m]) \in Continuations
<1> DEFINE b == CompleteBoundary(Tokens(c))
<1>1. /\ c \in Seq(Unit) /\ Len(c) \in Nat /\ Len(Tokens(c)) = Len(c) /\ MaxHoldback \in Nat
      /\ cut = IF b = 0 /\ Len(c) > MaxHoldback THEN Len(c) ELSE b
  BY TokensIs, ReadAssumption DEF Stream, Cut
<1>2. b \in 0..Len(c)
  BY <1>1, Boundary DEF InSequence, InRune, Between
<1> HIDE DEF b
<1>3. CASE b = 0 /\ Len(c) > MaxHoldback
  <2>1. cut = Len(c) /\ Long(c[Len(c)].item)
    BY <1>1, <1>3, ForcedLong DEF b
  <2> QED BY <1>1, <2>1
<1>4. CASE ~(b = 0 /\ Len(c) > MaxHoldback)
  <2>1. cut = CompleteBoundary(Tokens(c)) /\ cut \in 0..Len(c)
    BY <1>1, <1>2, <1>4 DEF b
  <2>2. cut = 0 => Len(c) <= MaxHoldback
    BY <1>1, <1>4
  <2>3. ASSUME cut > 0, ~Ends(c[cut]) PROVE Long(c[cut].item)
    <3>1. cut \in 1..Len(c) /\ c[cut].at > cut
      BY <2>1, <2>3, CutWhole
    <3> QED BY <3>1, AllKnown DEF Known
  <2>4. \A i \in cut + 1..Len(c) : ~Ends(c[i])
    BY <2>1, HeldNoEnd
  <2>5. cut < Len(c) =>
          \/ c[cut + 1].at = 1 /\ ~IsRune(Item(c[cut + 1]))
          \/ \A m \in cut + 2..Len(c) : Byte(c[m]) \in Continuations
    BY <2>1, HeldShape
  <2> QED BY <1>1, <2>1, <2>2, <2>3, <2>4, <2>5
<1> QED BY <1>3, <1>4

\* What a read of n tokens finds, the chunk it makes of it, where that is cut, and what is left.
Reads(n, s, chunk, cut, q) ==
  /\ Read(n) /\ s = pending \o output /\ chunk = pending \o SubSeq(output, 1, n)
  /\ cut = Cut(Tokens(chunk)) /\ q = pending' \o output'

\* A read: the chunk is the start of the stream, what it holds back and leaves unread the
\* rest of it.
LEMMA ReadCut ==
  ASSUME IInv, NEW n \in 1..ReadMax, NEW s, NEW chunk, NEW cut, NEW q,
         Reads(n, s, chunk, cut, q)
  PROVE  /\ chunk \in Seq(Unit) /\ Len(chunk) = Len(pending) + n /\ Len(chunk) \in Nat
         /\ s \in Seq(Unit) /\ Len(s) \in Nat /\ Len(chunk) <= Len(s)
         /\ \A i \in 1..Len(pending) : chunk[i] = pending[i]
         /\ \A i \in 1..Len(chunk) : chunk[i] = s[i]
         /\ Stream(chunk) /\ cut \in 0..Len(chunk) /\ cut \in 0..Len(s)
         /\ pending' \in Seq(Unit) /\ Len(pending') = Len(chunk) - cut
         /\ \A i \in 1..Len(chunk) - cut : pending'[i] = chunk[cut + i]
         /\ output' \in Seq(Unit)
         /\ q \in Seq(Unit) /\ Len(q) = Len(s) - cut
         /\ \A i \in 1..Len(q) : q[i] = s[cut + i]
<1> USE DEF Reads
<1> DEFINE r == SubSeq(output, 1, n)
<1>0. pending \in Seq(Unit) /\ output \in Seq(Unit) /\ Stream(s)
  BY DEF IInv
<1>1. /\ n \in Nat /\ n <= Len(output)
      /\ Len(pending) \in Nat /\ Len(output) \in Nat
  BY <1>0, ReadAssumption DEF Read
<1>2. /\ output' = SubSeq(output, n + 1, Len(output))
      /\ pending' = SubSeq(chunk, cut + 1, Len(chunk))
  BY DEF Read
<1>3. r \in Seq(Unit) /\ Len(r) = n /\ \A i \in 1..n : r[i] = output[i]
  BY <1>0, <1>1
<1>4. /\ chunk \in Seq(Unit) /\ Len(chunk) = Len(pending) + n
      /\ s \in Seq(Unit) /\ Len(s) = Len(pending) + Len(output)
      /\ \A i \in 1..Len(pending) : chunk[i] = pending[i]
      /\ \A i \in 1..Len(chunk) : chunk[i] = s[i]
      /\ \A i \in 1..Len(output) : s[Len(pending) + i] = output[i]
  <2> HIDE DEF r
  <2>0. chunk = pending \o r
    BY DEF r
  <2>1. /\ chunk \in Seq(Unit) /\ Len(chunk) = Len(pending) + n
        /\ \A i \in 1..Len(pending) : chunk[i] = pending[i]
        /\ \A i \in 1..n : chunk[Len(pending) + i] = output[i]
    BY <1>0, <1>3, <2>0, Concat
  <2>2. /\ s \in Seq(Unit) /\ Len(s) = Len(pending) + Len(output)
        /\ \A i \in 1..Len(pending) : s[i] = pending[i]
        /\ \A i \in 1..Len(output) : s[Len(pending) + i] = output[i]
    BY <1>0, Concat
  <2>3. ASSUME NEW i \in 1..Len(chunk) PROVE chunk[i] = s[i]
    <3>1. CASE i \in 1..Len(pending)
      BY <2>1, <2>2, <3>1
    <3>2. CASE i \notin 1..Len(pending)
      <4>1. PICK j \in 1..n : i = Len(pending) + j
        <5>1. i - Len(pending) \in 1..n /\ i = Len(pending) + (i - Len(pending))
          BY <1>1, <2>1, <3>2
        <5> QED BY <5>1
      <4>2. j \in 1..Len(output)
        BY <1>1
      <4> QED BY <2>1, <2>2, <4>1, <4>2
    <3> QED BY <3>1, <3>2
  <2> QED BY <2>1, <2>2, <2>3
<1> HIDE DEF r
<1>5. Stream(chunk) /\ Len(chunk) <= Len(s) /\ Len(chunk) \in Nat /\ Len(s) \in Nat
  <2>1. Len(chunk) <= Len(s) /\ Len(chunk) \in Nat /\ Len(s) \in Nat
    BY <1>1, <1>4
  <2> QED BY <1>0, <1>4, <2>1, Prefix
<1>6. cut \in 0..Len(chunk) /\ cut \in 0..Len(s)
  <2>1. cut \in 0..Len(chunk)
    BY <1>5, CutIs
  <2> QED BY <1>5, <2>1
<1>7. /\ pending' \in Seq(Unit) /\ Len(pending') = Len(chunk) - cut
      /\ \A i \in 1..Len(chunk) - cut : pending'[i] = chunk[cut + i]
  BY ONLY <1>2, <1>4, <1>6, Rest
<1>8. /\ output' \in Seq(Unit) /\ Len(output') = Len(output) - n
      /\ \A i \in 1..Len(output) - n : output'[i] = output[n + i]
  <2>1. n \in 0..Len(output)
    BY <1>1
  <2> QED BY <1>0, <1>2, <2>1, Rest
<1>9. /\ q \in Seq(Unit) /\ Len(q) = Len(pending') + Len(output')
      /\ \A i \in 1..Len(pending') : q[i] = pending'[i]
      /\ \A i \in 1..Len(output') : q[Len(pending') + i] = output'[i]
  BY <1>7, <1>8, Concat
<1>10. Len(q) = Len(s) - cut
  BY <1>1, <1>4, <1>6, <1>7, <1>8, <1>9
<1>11. ASSUME NEW i \in 1..Len(q) PROVE q[i] = s[cut + i]
  <2>1. CASE i <= Len(pending')
    <3>1. i \in 1..Len(pending') /\ cut + i \in 1..Len(chunk) /\ i \in 1..Len(chunk) - cut
      BY <1>5, <1>6, <1>7, <2>1
    <3>2. q[i] = pending'[i]
      BY <1>9, <3>1
    <3> QED BY <1>4, <1>7, <3>1, <3>2
  <2>2. CASE i > Len(pending')
    <3>1. PICK j \in 1..Len(output) - n :
            i = Len(pending') + j /\ Len(pending) + (n + j) = cut + i
      <4>1. /\ Len(pending') \in Nat /\ i \in Nat
            /\ Len(pending') = Len(pending) + n - cut
            /\ Len(q) = Len(pending) + Len(output) - cut
        <5>1. /\ Len(chunk) = Len(pending) + n /\ Len(s) = Len(pending) + Len(output)
              /\ Len(pending') = Len(chunk) - cut
          BY ONLY <1>4, <1>7
        <5>2. /\ cut \in Nat /\ cut <= Len(chunk)
          BY ONLY <1>5, <1>6
        <5>3. i \in Nat
          BY ONLY i \in 1..Len(q)
        <5> QED BY ONLY <1>1, <1>5, <1>10, <5>1, <5>2, <5>3
      <4>2. i <= Len(q) /\ Len(q) \in Nat
        BY <1>9
      <4>3. cut \in Nat
        BY <1>6
      <4>4. /\ i - Len(pending') \in 1..Len(output) - n
            /\ i = Len(pending') + (i - Len(pending'))
            /\ Len(pending) + (n + (i - Len(pending'))) = cut + i
        BY ONLY <1>1, <2>2, <4>1, <4>2, <4>3
      <4> QED BY ONLY <4>4
    <3>2. n + j \in 1..Len(output) /\ j \in 1..Len(output')
      BY <1>1, <1>8
    <3>3. q[i] = output'[j]
      BY <1>9, <3>1, <3>2
    <3>4. output'[j] = output[n + j]
      BY <1>8, <3>1
    <3>5. output[n + j] = s[cut + i]
      BY <1>4, <3>1, <3>2
    <3> QED BY <3>3, <3>4, <3>5
  <2>3. i \in Nat /\ Len(pending') \in Nat
    BY ONLY <1>6, <1>5, <1>7, <1>9, i \in 1..Len(q)
  <2> QED BY ONLY <2>1, <2>2, <2>3
<1> QED BY <1>4, <1>5, <1>6, <1>7, <1>8, <1>9, <1>10, <1>11

-----------------------------------------------------------------------------
\* The invariant holds before the first read.
LEMMA InitOK == Init => IInv
<1> SUFFICES ASSUME Init PROVE IInv
  OBVIOUS
<1>1. output = << >> /\ pending = << >> /\ torn = {} /\ pending \o output = << >>
  BY DEF Init
<1>2. Stream(<< >>) /\ Complete(<< >>) /\ Held(<< >>)
  BY DEF Stream, Flows, Complete, Held
<1> QED BY <1>1, <1>2, ReadAssumption DEF IInv, HoldbackIsTight, WritesLandWhole

\* The child emits an item.
LEMMA EmitOK == ASSUME IInv, Emit PROVE IInv'
<1>1. PICK k \in DOMAIN Items : output' = output \o Units(k)
  BY DEF Emit
<1>2. pending' = pending /\ torn' = torn
  BY DEF Emit
<1>3. Units(k) \in Seq(Unit) /\ output \in Seq(Unit) /\ pending \in Seq(Unit)
  BY UnitsAre DEF IInv
<1>4. output' \in Seq(Unit) /\ pending' \o output' = (pending \o output) \o Units(k)
  BY <1>1, <1>2, <1>3
<1>5. Stream(pending' \o output') /\ Complete(pending' \o output')
  <2>1. Stream(pending \o output) /\ Complete(pending \o output)
    BY DEF IInv
  <2>2. Stream((pending \o output) \o Units(k)) /\ Complete((pending \o output) \o Units(k))
    BY <2>1, AppendItem
  <2> QED BY ONLY <1>4, <2>2
<1>6. HoldbackIsTight' /\ WritesLandWhole' /\ Held(pending')
  BY <1>2 DEF IInv, HoldbackIsTight, WritesLandWhole
<1> QED BY <1>2, <1>3, <1>4, <1>5, <1>6 DEF IInv

\* The step that matters: a read of any length, what is written and what is held back.
LEMMA ReadOK == ASSUME IInv, NEW n \in 1..ReadMax, Read(n) PROVE IInv'
<1>0. PICK s, chunk, cut, q :
        /\ s = pending \o output /\ chunk = pending \o SubSeq(output, 1, n)
        /\ cut = Cut(Tokens(chunk)) /\ q = pending' \o output'
        /\ Reads(n, s, chunk, cut, q)
  BY DEF Reads
<1>1. /\ Stream(s) /\ Complete(s)
      /\ pending \in Seq(Unit) /\ Len(pending) \in Nat /\ n \in Nat
      /\ MaxHoldback \in Nat /\ n <= MaxHoldback
  BY <1>0, ReadAssumption DEF IInv
<1>2. torn' = IF cut > 0 /\ ~Ends(chunk[cut]) THEN torn \cup {chunk[cut].item} ELSE torn
  BY <1>0 DEF Read
<1>3. /\ chunk \in Seq(Unit) /\ Len(chunk) = Len(pending) + n /\ Len(chunk) \in Nat
      /\ s \in Seq(Unit) /\ Len(s) \in Nat /\ Len(chunk) <= Len(s)
      /\ \A i \in 1..Len(pending) : chunk[i] = pending[i]
      /\ \A i \in 1..Len(chunk) : chunk[i] = s[i]
      /\ Stream(chunk) /\ cut \in 0..Len(chunk) /\ cut \in 0..Len(s)
      /\ pending' \in Seq(Unit) /\ Len(pending') = Len(chunk) - cut
      /\ \A i \in 1..Len(chunk) - cut : pending'[i] = chunk[cut + i]
      /\ output' \in Seq(Unit)
      /\ q \in Seq(Unit) /\ Len(q) = Len(s) - cut
      /\ \A i \in 1..Len(q) : q[i] = s[cut + i]
  <2>0. Reads(n, s, chunk, cut, q)
    BY <1>0
  <2>1. /\ chunk \in Seq(Unit) /\ Len(chunk) = Len(pending) + n /\ Len(chunk) \in Nat
        /\ s \in Seq(Unit) /\ Len(s) \in Nat /\ Len(chunk) <= Len(s)
        /\ \A i \in 1..Len(pending) : chunk[i] = pending[i]
    BY <2>0, ReadCut
  <2>2. /\ \A i \in 1..Len(chunk) : chunk[i] = s[i]
        /\ Stream(chunk) /\ cut \in 0..Len(chunk) /\ cut \in 0..Len(s)
    BY <2>0, ReadCut
  <2>3. /\ pending' \in Seq(Unit) /\ Len(pending') = Len(chunk) - cut
        /\ \A i \in 1..Len(chunk) - cut : pending'[i] = chunk[cut + i]
        /\ output' \in Seq(Unit)
    BY <2>0, ReadCut
  <2>4. /\ q \in Seq(Unit) /\ Len(q) = Len(s) - cut
        /\ \A i \in 1..Len(q) : q[i] = s[cut + i]
    BY <2>0, ReadCut
  <2> QED BY ONLY <2>1, <2>2, <2>3, <2>4
<1>4. /\ \A i \in cut + 1..Len(chunk) : ~Ends(chunk[i])
      /\ cut > 0 /\ ~Ends(chunk[cut]) => Long(chunk[cut].item)
      /\ cut < Len(chunk) =>
           /\ cut = CompleteBoundary(Tokens(chunk)) /\ (cut = 0 => Len(chunk) <= MaxHoldback)
           /\ \/ chunk[cut + 1].at = 1 /\ ~IsRune(Item(chunk[cut + 1]))
              \/ \A m \in cut + 2..Len(chunk) : Byte(chunk[m]) \in Continuations
  <2>1. cut = Cut(Tokens(chunk)) /\ Stream(chunk)
    BY <1>0, <1>3
  <2> QED BY <2>1, CutIs
<1>5. Stream(q) /\ Complete(q)
  <2>1. ASSUME cut < Len(s), s[cut + 1].at > 1 PROVE Long(s[cut + 1].item)
    <3>1. CASE cut = 0
      <4>1. s # << >> /\ s[1].at > 1 /\ cut + 1 = 1
        BY <1>3, <2>1, <3>1
      <4>2. Stream(s)
        BY <1>1
      <4>3. s[1].at > 1 => Long(s[1].item)
        BY ONLY <4>1, <4>2 DEF Stream
      <4> QED BY ONLY <4>1, <4>3
    <3>2. CASE cut > 0
      <4>1. cut \in 1..Len(s) - 1 /\ cut \in 1..Len(chunk) /\ chunk[cut] = s[cut]
        <5>1. /\ cut \in 0..Len(chunk) /\ Len(chunk) \in Nat /\ Len(s) \in Nat
              /\ \A i \in 1..Len(chunk) : chunk[i] = s[i]
          BY <1>3
        <5> QED BY ONLY <2>1, <3>2, <5>1
      <4>2. Succeeds(s[cut], s[cut + 1])
        BY <1>1, <4>1 DEF Stream, Flows
      <4>3. ~Ends(s[cut]) /\ s[cut + 1].item = s[cut].item
        BY <2>1, <4>2 DEF Succeeds
      <4> QED BY <1>4, <3>2, <4>1, <4>3
    <3> QED BY <1>3, <3>1, <3>2
  <2> QED BY <1>1, <1>3, <2>1, Suffix
<1>6. Held(pending')
  <2> SUFFICES ASSUME pending' # << >>
               PROVE  \/ pending'[1].at = 1 /\ ~IsRune(Item(pending'[1]))
                      \/ \A i \in 2..Len(pending') : Byte(pending'[i]) \in Continuations
    BY DEF Held
  <2>1. cut < Len(chunk) /\ 1 \in 1..Len(chunk) - cut /\ pending'[1] = chunk[cut + 1]
    BY <1>3
  <2>2. ASSUME NEW i \in 2..Len(pending'),
               \A m \in cut + 2..Len(chunk) : Byte(chunk[m]) \in Continuations
        PROVE  Byte(pending'[i]) \in Continuations
    <3>1. i \in 1..Len(chunk) - cut /\ cut + i \in cut + 2..Len(chunk)
      BY <1>3
    <3> QED BY <1>3, <2>2, <3>1
  <2> QED BY <1>4, <2>1, <2>2
<1>7. HoldbackIsTight'
  <2>1. ASSUME NEW i \in DOMAIN pending' PROVE ~Ends(pending'[i])
    <3>1. i \in 1..Len(chunk) - cut /\ cut \in 0..Len(chunk) /\ Len(chunk) \in Nat
      BY <1>3
    <3>2. cut + i \in cut + 1..Len(chunk)
      BY ONLY <3>1
    <3> QED BY <1>3, <1>4, <3>1, <3>2
  <2>2. Len(pending') <= MaxHoldback
    <3>1. CASE cut = Len(chunk)
      BY <1>1, <1>3, <3>1
    <3>2. CASE cut < Len(chunk) /\ cut = 0
      BY <1>3, <1>4, <3>2
    <3>3. CASE cut < Len(chunk) /\ cut > 0
      <4>1. \A i \in 1..Len(pending) : chunk[i] = pending[i] /\ ~Ends(pending[i])
        BY <1>1, <1>3 DEF IInv, HoldbackIsTight
      <4>2. Len(pending) <= Len(chunk)
        BY <1>1, <1>3
      <4>3. cut >= Len(pending)
        <5>1. Held(pending)
          BY DEF IInv
        <5> QED BY <1>1, <1>3, <1>4, <3>3, <4>1, <4>2, <5>1, HeldSize
      <4> QED BY <1>1, <1>3, <4>3
    <3>4. cut \in 0..Len(chunk) /\ Len(chunk) \in Nat
      BY <1>3
    <3> QED BY ONLY <3>1, <3>2, <3>3, <3>4
  <2> QED BY <2>1, <2>2 DEF HoldbackIsTight
<1>8. WritesLandWhole'
  BY <1>2, <1>4 DEF IInv, WritesLandWhole, Long
<1>9. Stream(pending' \o output') /\ Complete(pending' \o output')
  BY <1>0, <1>5
<1> QED BY <1>3, <1>6, <1>7, <1>8, <1>9 DEF IInv

\* The end of the output.
LEMMA ReadFailsOK == ASSUME IInv, ReadFails PROVE IInv'
<1>1. output' = << >> /\ pending' = << >> /\ torn' = torn
  BY DEF ReadFails
<1>2. Stream(<< >>) /\ Complete(<< >>) /\ Held(<< >>)
  BY DEF Stream, Flows, Complete, Held
<1>3. pending' \o output' = << >>
  BY <1>1
<1> QED BY <1>1, <1>2, <1>3, ReadAssumption DEF IInv, HoldbackIsTight, WritesLandWhole

\* Attaching and resizing touch neither the output nor what is held back.
LEMMA UnchangedOK == ASSUME IInv, UNCHANGED <<output, pending, torn>> PROVE IInv'
BY DEF IInv, HoldbackIsTight, WritesLandWhole

\* The inductive invariant holds in every state.
THEOREM Invariance == Spec => []IInv
<1>1. IInv /\ [Next]_vars => IInv'
  <2> SUFFICES ASSUME IInv, [Next]_vars PROVE IInv'
    OBVIOUS
  <2>1. CASE Emit
    BY <2>1, EmitOK
  <2>2. CASE \E n \in 1..ReadMax : Read(n)
    BY <2>2, ReadOK
  <2>3. CASE ReadFails
    BY <2>3, ReadFailsOK
  <2>4. CASE Attach
    BY <2>4, UnchangedOK DEF Attach
  <2>5. CASE Resize
    BY <2>5, UnchangedOK DEF Resize
  <2>6. CASE UNCHANGED vars
    BY <2>6, UnchangedOK DEF vars
  <2> QED BY <2>1, <2>2, <2>3, <2>4, <2>5, <2>6 DEF Next
<1> QED BY InitOK, <1>1, PTL DEF Spec

\* readLoop tears only items it cannot hold back whole, wherever its reads cut the
\* output, and whatever the well-formed runes and sequences are.
THEOREM SequencesLandWhole == Spec => []WritesLandWhole
<1>1. IInv => WritesLandWhole
  BY DEF IInv
<1> QED BY <1>1, Invariance, PTL

\* readLoop holds back at most maxHoldback tokens and never the end of an item, so no
\* whole sequence waits for the next read.
THEOREM LittleIsHeldBack == Spec => []HoldbackIsTight
<1>1. IInv => HoldbackIsTight
  BY DEF IInv
<1> QED BY <1>1, Invariance, PTL
-----------------------------------------------------------------------------
\* The first n rounds of observe's loop.
IsRead(t, chunk, f, n) ==
  /\ f = [i \in 0..n |-> f[i]]
  /\ f[0] = Reading(t)
  /\ \A i \in 1..n : f[i] = ObserveToken(f[i - 1], chunk[i])

\* The loop of observe has a value after every token.
LEMMA ReadExists ==
  ASSUME NEW t, NEW chunk, NEW n \in Nat PROVE \E f : IsRead(t, chunk, f, n)
<1> DEFINE T == {m \in Nat : \E f : IsRead(t, chunk, f, m)}
<1>1. 0 \in T
  <2>1. IsRead(t, chunk, [i \in 0..0 |-> Reading(t)], 0)
    BY DEF IsRead
  <2> QED BY <2>1
<1>2. ASSUME NEW m \in 0..n - 1, m \in T PROVE m + 1 \in T
  <2>1. PICK f : IsRead(t, chunk, f, m)
    BY <1>2
  <2> DEFINE g == [i \in 0..m + 1 |-> IF i = m + 1 THEN ObserveToken(f[m], chunk[i]) ELSE f[i]]
  <2>2. g = [i \in 0..m + 1 |-> g[i]] /\ g[0] = f[0]
    OBVIOUS
  <2>3. ASSUME NEW i \in 1..m + 1 PROVE g[i] = ObserveToken(g[i - 1], chunk[i])
    <3>1. i - 1 \in 0..m + 1 /\ i - 1 # m + 1 /\ i \in 0..m + 1
      OBVIOUS
    <3>2. g[i - 1] = f[i - 1]
      BY <3>1
    <3>3. CASE i = m + 1
      <4>1. g[i] = ObserveToken(f[m], chunk[i]) /\ i - 1 = m
        BY <3>1, <3>3
      <4> QED BY <3>2, <4>1
    <3>4. CASE i # m + 1
      <4>1. i \in 1..m
        BY <3>4
      <4>2. g[i] = f[i]
        BY <3>1, <3>4
      <4> QED BY <4>1, <4>2, <3>2, <2>1 DEF IsRead
    <3> QED BY <3>3, <3>4
  <2>4. IsRead(t, chunk, g, m + 1)
    <3> HIDE DEF g
    <3> QED BY <2>1, <2>2, <2>3 DEF IsRead
  <2> QED BY <2>4
<1>3. 0..n \subseteq T
  <2> HIDE DEF T
  <2> QED BY <1>1, <1>2, Induct
<1> QED BY <1>3

\* observe is that value: its recursion unfolds one token at a time.
LEMMA ReadIs ==
  ASSUME NEW t, NEW chunk, Len(chunk) \in Nat
  PROVE  \E f : IsRead(t, chunk, f, Len(chunk)) /\ Observe(t, chunk) = f[Len(chunk)].modes
<1>1. PICK f : IsRead(t, chunk, f, Len(chunk))
  BY ReadExists
<1> DEFINE Rec(g) == [i \in 0..Len(chunk) |->
     IF i = 0 THEN Reading(t) ELSE ObserveToken(g[i - 1], chunk[i])]
           h == CHOOSE g : g = Rec(g)
<1>2. f = Rec(f)
  BY <1>1 DEF IsRead
<1>3. Observe(t, chunk) = h[Len(chunk)].modes
  BY DEF Observe
<1>4. h = Rec(h)
  <2> HIDE DEF Rec
  <2> QED BY <1>2
<1>5. IsRead(t, chunk, h, Len(chunk))
  <2> HIDE DEF h
  <2> QED BY <1>4 DEF IsRead
<1> QED BY <1>3, <1>5

\* Two readings, of c from token a on and of d, that start alike and read the same k tokens.
Alike(f, c, a, g, d, k) ==
  /\ f[a] = g[0]
  /\ \A j \in 1..k : /\ f[a + j] = ObserveToken(f[a + j - 1], c[a + j])
                     /\ g[j] = ObserveToken(g[j - 1], d[j])
                     /\ c[a + j] = d[j]

\* They end alike.
LEMMA SameRead ==
  ASSUME NEW f, NEW c, NEW a \in Nat, NEW g, NEW d, NEW k \in Nat, Alike(f, c, a, g, d, k)
  PROVE  f[a + k] = g[k]
<1> DEFINE T == {j \in Nat : f[a + j] = g[j]}
<1>1. 0 \in T
  BY DEF Alike
<1>2. ASSUME NEW j \in 0..k - 1, j \in T PROVE j + 1 \in T
  <2>1. j + 1 \in 1..k /\ j + 1 - 1 = j /\ a + (j + 1) - 1 = a + j /\ j + 1 \in Nat
    OBVIOUS
  <2> QED BY <1>2, <2>1 DEF Alike
<1>3. 0..k \subseteq T
  <2> HIDE DEF T
  <2> QED BY <1>1, <1>2, Induct
<1> QED BY <1>3

\* A chunk that leaves observe between two sequences, whatever the modes.
Lands(p) ==
  /\ p \in Seq(Chars)
  /\ \A t : \E f : IsRead(t, p, f, Len(p)) /\ f[Len(p)] = Reading(Observe(t, p))

\* Concatenation of any sequences, by index.
LEMMA ConcatIs ==
  ASSUME NEW S, NEW c \in Seq(S), NEW d \in Seq(S)
  PROVE  /\ c \o d \in Seq(S) /\ Len(c \o d) = Len(c) + Len(d)
         /\ Len(c) \in Nat /\ Len(d) \in Nat
         /\ \A i \in 1..Len(c) : (c \o d)[i] = c[i]
         /\ \A i \in 1..Len(d) : (c \o d)[Len(c) + i] = d[i]
OBVIOUS

\* After such a chunk observe reads the next one as if it began with it.
LEMMA ReadJoin ==
  ASSUME NEW t, NEW p, Lands(p), NEW r \in Seq(Chars), NEW f, IsRead(t, p \o r, f, Len(p \o r)),
         NEW h, IsRead(Observe(t, p), r, h, Len(r))
  PROVE  f[Len(p \o r)] = h[Len(r)]
<1>1. p \in Seq(Chars)
  BY DEF Lands
<1>2. PICK c : c = p \o r
  OBVIOUS
<1>3. /\ Len(c) = Len(p) + Len(r) /\ Len(p) \in Nat /\ Len(r) \in Nat
      /\ \A i \in 1..Len(p) : c[i] = p[i]
      /\ \A i \in 1..Len(r) : c[Len(p) + i] = r[i]
  BY <1>1, <1>2, ConcatIs
<1>4. PICK g : IsRead(t, p, g, Len(p)) /\ g[Len(p)] = Reading(Observe(t, p))
  BY DEF Lands
<1>5. \A i \in 1..Len(c) : f[i] = ObserveToken(f[i - 1], c[i])
  BY <1>2 DEF IsRead
<1>6. f[0] = g[0]
  BY <1>4 DEF IsRead
<1>7. f[Len(p)] = g[Len(p)]
  <2>1. ASSUME NEW j \in 1..Len(p)
        PROVE /\ f[0 + j] = ObserveToken(f[0 + j - 1], c[0 + j])
              /\ g[j] = ObserveToken(g[j - 1], p[j])
              /\ c[0 + j] = p[j]
    <3>1. j \in 1..Len(c) /\ 0 + j = j /\ 0 + j - 1 = j - 1
      BY <1>3
    <3>2. f[j] = ObserveToken(f[j - 1], c[j]) /\ c[j] = p[j]
      BY <1>3, <1>5, <3>1
    <3>3. g[j] = ObserveToken(g[j - 1], p[j])
      BY <1>4 DEF IsRead
    <3> QED BY <3>1, <3>2, <3>3
  <2>2. PICK z \in Nat : z = 0
    OBVIOUS
  <2>3. Alike(f, c, z, g, p, Len(p))
    BY <1>6, <2>1, <2>2 DEF Alike
  <2>4. f[z + Len(p)] = g[Len(p)]
    BY <1>3, <2>3, SameRead
  <2>5. z + Len(p) = Len(p)
    BY <1>3, <2>2
  <2> QED BY <2>4, <2>5
<1>8. f[Len(p)] = h[0]
  BY <1>4, <1>7 DEF IsRead
<1>9. ASSUME NEW j \in 1..Len(r)
      PROVE /\ f[Len(p) + j] = ObserveToken(f[Len(p) + j - 1], c[Len(p) + j])
            /\ h[j] = ObserveToken(h[j - 1], r[j])
            /\ c[Len(p) + j] = r[j]
  <2>1. Len(p) + j \in 1..Len(c)
    BY <1>3
  <2>2. h[j] = ObserveToken(h[j - 1], r[j])
    BY DEF IsRead
  <2>3. f[Len(p) + j] = ObserveToken(f[Len(p) + j - 1], c[Len(p) + j])
    BY <1>5, <2>1
  <2> QED BY <1>3, <2>2, <2>3
<1>10. Alike(f, c, Len(p), h, r, Len(r))
  BY <1>8, <1>9 DEF Alike
<1>11. f[Len(p) + Len(r)] = h[Len(r)]
  BY <1>3, <1>10, SameRead
<1> QED BY <1>2, <1>3, <1>11

\* Hence a chunk after one that lands can be observed on its own ...
LEMMA Joins ==
  ASSUME NEW t, NEW p, Lands(p), NEW r \in Seq(Chars)
  PROVE  Observe(t, p \o r) = Observe(Observe(t, p), r)
<1>1. p \in Seq(Chars) /\ Len(p \o r) \in Nat /\ Len(r) \in Nat
  BY ConcatIs DEF Lands
<1>2. PICK f : IsRead(t, p \o r, f, Len(p \o r)) /\ Observe(t, p \o r) = f[Len(p \o r)].modes
  BY <1>1, ReadIs
<1>3. PICK h : /\ IsRead(Observe(t, p), r, h, Len(r))
               /\ Observe(Observe(t, p), r) = h[Len(r)].modes
  BY <1>1, ReadIs
<1> QED BY <1>2, <1>3, ReadJoin

\* ... and if that one lands, so do both together.
LEMMA LandsConcat ==
  ASSUME NEW p, Lands(p), NEW r, Lands(r) PROVE Lands(p \o r)
<1>1. p \in Seq(Chars) /\ r \in Seq(Chars) /\ p \o r \in Seq(Chars) /\ Len(p \o r) \in Nat
  BY ConcatIs DEF Lands
<1>2. ASSUME NEW t
      PROVE  \E f : /\ IsRead(t, p \o r, f, Len(p \o r))
                    /\ f[Len(p \o r)] = Reading(Observe(t, p \o r))
  <2>1. PICK f : IsRead(t, p \o r, f, Len(p \o r))
    BY <1>1, ReadIs
  <2>2. PICK h : /\ IsRead(Observe(t, p), r, h, Len(r))
                 /\ h[Len(r)] = Reading(Observe(Observe(t, p), r))
    BY DEF Lands
  <2>3. f[Len(p \o r)] = h[Len(r)]
    BY <1>1, <2>1, <2>2, ReadJoin
  <2>4. Observe(t, p \o r) = Observe(Observe(t, p), r)
    BY <1>1, Joins
  <2> QED BY <2>1, <2>2, <2>3, <2>4
<1> QED BY <1>1, <1>2 DEF Lands

\* Nothing observed changes nothing.
LEMMA LandsNothing ==
  Lands(<< >>) /\ \A t : Observe(t, << >>) = t
<1>1. << >> \in Seq(Chars) /\ Len(<< >>) = 0
  OBVIOUS
<1>2. ASSUME NEW t
      PROVE  \E f : /\ IsRead(t, << >>, f, Len(<< >>))
                    /\ f[Len(<< >>)] = Reading(t) /\ Observe(t, << >>) = t
  <2>1. PICK f : /\ IsRead(t, << >>, f, Len(<< >>))
                 /\ Observe(t, << >>) = f[Len(<< >>)].modes
    BY <1>1, ReadIs
  <2>2. f[Len(<< >>)] = Reading(t)
    BY <1>1, <2>1 DEF IsRead
  <2> QED BY <2>1, <2>2 DEF Reading
<1> QED BY <1>1, <1>2 DEF Lands
-----------------------------------------------------------------------------
\* What observe keeps from token to token has these fields, and one of these places.
IsReader(r) ==
  /\ r = [modes |-> r.modes, place |-> r.place, private |-> r.private,
          intermediates |-> r.intermediates, params |-> r.params, current |-> r.current]
  /\ r.place \in {"ground", "escape", "bracket", "csi"}

\* Between two sequences observe keeps nothing but the modes.
LEMMA ReadingIs ==
  ASSUME NEW t
  PROVE  IsReader(Reading(t)) /\ Reading(t).modes = t /\ Reading(t).place = "ground"
BY DEF Reading, IsReader

\* observe outside a CSI sequence, one token.
LEMMA OutsideCSI ==
  ASSUME NEW r, r.place \in {"ground", "escape"}, NEW b, NEW q, q = ObserveToken(r, b)
  PROVE  /\ IsReader(q)
         /\ r.place = "escape" /\ b = "c" => q = Reading(Fresh)
         /\ r.place = "escape" /\ b = "[" => q.place = "bracket" /\ q.modes = r.modes
         /\ b = "ESC" => q.place = "escape" /\ q.modes = r.modes
         /\ b # "ESC" /\ ~(r.place = "escape" /\ b \in {"c", "["}) => q = Reading(r.modes)
<1>1. CASE r.place = "escape" /\ b = "c"
  <2>1. q = Reading(Fresh)
    BY <1>1 DEF ObserveToken
  <2> QED BY <1>1, <2>1, ReadingIs
<1>2. CASE r.place = "escape" /\ b = "["
  <2>1. q = [Reading(r.modes) EXCEPT !.place = "bracket"]
    BY <1>2 DEF ObserveToken
  <2> QED BY <1>2, <2>1 DEF Reading, IsReader
<1>3. CASE b = "ESC"
  <2>1. q = [Reading(r.modes) EXCEPT !.place = "escape"]
    BY <1>3 DEF ObserveToken
  <2> QED BY <1>3, <2>1 DEF Reading, IsReader
<1>4. CASE b # "ESC" /\ ~(r.place = "escape" /\ b \in {"c", "["})
  <2>1. q = Reading(r.modes)
    BY <1>4 DEF ObserveToken
  <2> QED BY <1>4, <2>1, ReadingIs
<1> QED BY <1>1, <1>2, <1>3, <1>4

\* The tokens of a CSI sequence are of one kind each.
LEMMA Kinds ==
  ASSUME NEW b
  PROVE  /\ b \in Digits => b \notin {"?", ";"} \cup Intermediates \cup Finals
         /\ b \in Intermediates => b \notin {"?", ";"} \cup Finals
         /\ b \in Finals => b \notin {"?", ";"}
         /\ ";" \notin Digits /\ "?" \notin Digits
BY DEF Digits, Numbers, Intermediates, Finals

\* observeCSI, one token: only a final byte touches the modes, and it ends the sequence.
LEMMA InsideCSI ==
  ASSUME NEW r, IsReader(r), r.place \in {"bracket", "csi"}, NEW b,
         NEW q, q = ObserveToken(r, b)
  PROVE  /\ IsReader(q)
         /\ b \in Finals => q = Reading(q.modes)
         /\ b \notin Finals => q.modes = r.modes /\ (q.place = "csi" \/ q = Reading(r.modes))
<1>1. q = ObserveCSI(r, b)
  BY DEF ObserveToken
<1> DEFINE next == [r EXCEPT !.place = "csi"]
<1>2. next = [modes |-> r.modes, place |-> "csi", private |-> r.private,
              intermediates |-> r.intermediates, params |-> r.params, current |-> r.current]
  BY DEF IsReader
<1>3. CASE b = "?" /\ r.place = "bracket"
  <2>1. q = [next EXCEPT !.private = TRUE]
    BY <1>1, <1>3, Kinds DEF ObserveCSI
  <2> HIDE DEF next
  <2> QED BY <1>2, <1>3, <2>1 DEF IsReader, Finals
<1>4. CASE b \in Digits
  <2>1. q = [next EXCEPT !.current = <<Numbers[b]>>]
    BY <1>1, <1>4, Kinds DEF ObserveCSI
  <2>2. b \notin Finals
    BY <1>4, Kinds
  <2> HIDE DEF next
  <2> QED BY <1>2, <2>1, <2>2 DEF IsReader
<1>5. CASE b = ";"
  <2>1. q = [next EXCEPT !.current = << >>,
               !.params = r.params \o (IF r.current = << >> THEN <<0>> ELSE r.current)]
    BY <1>1, <1>5, Kinds DEF ObserveCSI
  <2> HIDE DEF next
  <2> QED BY <1>2, <1>5, <2>1 DEF IsReader, Finals
<1>6. CASE b \in Intermediates
  <2>1. q = [next EXCEPT !.intermediates = r.intermediates \o <<b>>]
    BY <1>1, <1>6, Kinds DEF ObserveCSI
  <2>2. b \notin Finals
    BY <1>6, Kinds
  <2> HIDE DEF next
  <2> QED BY <1>2, <2>1, <2>2 DEF IsReader
<1>7. CASE b \in Finals
  <2> DEFINE m == Apply(r.modes, r.private, r.intermediates, r.params \o r.current, b)
  <2>1. q = Reading(m)
    BY <1>1, <1>7, Kinds DEF ObserveCSI
  <2> HIDE DEF m
  <2> QED BY <1>7, <2>1, ReadingIs
<1>8. CASE ~(b = "?" /\ r.place = "bracket") /\ b \notin Digits /\ b # ";"
           /\ b \notin Intermediates /\ b \notin Finals
  <2>1. q = Reading(r.modes)
    BY <1>1, <1>8 DEF ObserveCSI
  <2> QED BY <1>8, <2>1, ReadingIs
<1> QED BY <1>3, <1>4, <1>5, <1>6, <1>7, <1>8

\* observe inside an item: past ESC only behind that very token, in a CSI sequence only in
\* one, and the modes change with the last token only.
Inside(t, s, r, i) ==
  /\ IsReader(r)
  /\ r.place = "ground" => r = Reading(r.modes)
  /\ r.place = "escape" => i >= 1 /\ s[i] = "ESC"
  /\ r.place \in {"bracket", "csi"} => i >= 2 /\ i < Len(s) /\ IsCSI(s)
  /\ i < Len(s) => r.modes = t

\* An item that has a bracket behind an ESC is a CSI sequence, and one that has a c there
\* ends with it.
LEMMA BehindEscape ==
  ASSUME NEW s, IsItem(s), NEW i \in 2..Len(s), s[i - 1] = "ESC"
  PROVE  /\ s[i] = "[" => IsCSI(s) /\ i < Len(s)
         /\ s[i] = "c" => i = Len(s)
<1>1. ~IsRune(s)
  <2>1. Len(s) \in Nat /\ i - 1 \in 1..Len(s)
    BY ItemEnd
  <2> QED BY <2>1, RuneStep DEF IsItem
<1>2. Len(s) \in Nat /\ Len(s) >= 2 /\ s[1] = "ESC"
  BY <1>1, SequenceShape
<1>3. CASE i = 2
  <2>1. CASE IsEscape(s)
    <3>1. s[2] # "["
      BY <1>2, <2>1 DEF IsEscape, Intermediates
    <3>2. ASSUME s[2] = "c" PROVE Len(s) = 2
      <4>1. s[2] \notin Intermediates
        BY <3>2 DEF Intermediates
      <4>2. Len(s) # 2 => 2 \in 2..Len(s) - 1
        BY <1>2
      <4> QED BY <2>1, <4>1, <4>2 DEF IsEscape
    <3> QED BY <1>3, <3>1, <3>2
  <2>2. CASE IsCSI(s)
    BY <1>2, <1>3, <2>2 DEF IsCSI
  <2>3. CASE IsString(s)
    BY <1>2, <1>3, <2>3 DEF IsString
  <2> QED BY <1>1, <2>1, <2>2, <2>3 DEF IsItem
<1>4. CASE i # 2
  <2>1. i - 1 \in 2..Len(s)
    BY <1>2, <1>4
  <2>2. i - 1 = Len(s) - 1 /\ s[Len(s)] = "\\"
    BY <1>1, <2>1, SequenceShape
  <2>3. i = Len(s)
    BY <1>2, <2>2
  <2> QED BY <2>2, <2>3
<1> QED BY <1>3, <1>4

\* observe, one token further inside an item.
LEMMA InsideStep ==
  ASSUME NEW t, NEW s, IsItem(s), NEW i \in 1..Len(s), NEW r, Inside(t, s, r, i - 1)
  PROVE  Inside(t, s, ObserveToken(r, s[i]), i)
<1>0. /\ Len(s) \in Nat /\ i \in Nat /\ i - 1 < Len(s) /\ i - 1 \in Nat
      /\ r.modes = t /\ IsReader(r)
  BY ItemEnd DEF Inside
<1>1. PICK q : q = ObserveToken(r, s[i])
  OBVIOUS
<1>2. CASE r.place \in {"ground", "escape"}
  <2>0. /\ IsReader(q)
        /\ r.place = "escape" /\ s[i] = "c" => q = Reading(Fresh)
        /\ r.place = "escape" /\ s[i] = "[" => q.place = "bracket" /\ q.modes = r.modes
        /\ s[i] = "ESC" => q.place = "escape" /\ q.modes = r.modes
        /\ s[i] # "ESC" /\ ~(r.place = "escape" /\ s[i] \in {"c", "["}) => q = Reading(r.modes)
    BY <1>1, <1>2, OutsideCSI
  <2>1. ASSUME r.place = "escape" PROVE i \in 2..Len(s) /\ s[i - 1] = "ESC"
    BY <1>0, <2>1 DEF Inside
  <2>2. CASE r.place = "escape" /\ s[i] = "c"
    <3>1. i = Len(s)
      BY <2>1, <2>2, BehindEscape
    <3> QED BY <1>0, <1>1, <2>0, <2>2, <3>1, ReadingIs DEF Inside
  <2>3. CASE r.place = "escape" /\ s[i] = "["
    <3>1. IsCSI(s) /\ i < Len(s) /\ i >= 2
      BY <2>1, <2>3, BehindEscape
    <3> QED BY <1>0, <1>1, <2>0, <2>3, <3>1 DEF Inside
  <2>4. CASE s[i] = "ESC"
    BY <1>0, <1>1, <2>0, <2>4 DEF Inside
  <2>5. CASE s[i] # "ESC" /\ ~(r.place = "escape" /\ s[i] \in {"c", "["})
    <3>1. q = Reading(t) /\ q.place = "ground" /\ q.modes = t
      BY <1>0, <2>0, <2>5, ReadingIs
    <3> QED BY <1>1, <2>0, <3>1 DEF Inside
  <2> QED BY <2>2, <2>3, <2>4, <2>5
<1>3. CASE r.place \in {"bracket", "csi"}
  <2>0. /\ IsReader(q)
        /\ s[i] \in Finals => q = Reading(q.modes)
        /\ s[i] \notin Finals => q.modes = r.modes /\ (q.place = "csi" \/ q = Reading(r.modes))
    BY <1>0, <1>1, <1>3, InsideCSI
  <2>1. IsCSI(s) /\ i \in 3..Len(s)
    BY <1>0, <1>3 DEF Inside
  <2>2. CASE i = Len(s)
    <3>1. q = Reading(q.modes) /\ q.place = "ground"
      BY <2>0, <2>1, <2>2, ReadingIs DEF IsCSI
    <3> QED BY <1>0, <1>1, <2>0, <2>2, <3>1 DEF Inside
  <2>3. CASE i # Len(s)
    <3>1. s[i] \notin Finals /\ i < Len(s)
      BY <1>0, <2>1, <2>3 DEF IsCSI
    <3>2. q.modes = t /\ (q.place = "csi" \/ (q = Reading(t) /\ q.place = "ground"))
      BY <1>0, <2>0, <3>1, ReadingIs
    <3> QED BY <1>0, <1>1, <2>0, <2>1, <3>1, <3>2 DEF Inside
  <2> QED BY <2>2, <2>3
<1> QED BY <1>0, <1>2, <1>3 DEF IsReader

\* observe, n tokens inside an item.
LEMMA ItemInside ==
  ASSUME NEW t, NEW s, IsItem(s), NEW n \in 0..Len(s),
         NEW chunk, \A i \in 1..n : chunk[i] = s[i], NEW f, IsRead(t, chunk, f, n)
  PROVE  Inside(t, s, f[n], n)
<1>0. Len(s) \in Nat \ {0} /\ n \in Nat /\ s[Len(s)] # "ESC"
  BY ItemEnd
<1> DEFINE T == {i \in Nat : Inside(t, s, f[i], i)}
<1>1. 0 \in T
  <2>1. f[0] = Reading(t)
    BY DEF IsRead
  <2> QED BY <2>1, ReadingIs DEF Inside
<1>2. ASSUME NEW i \in 0..n - 1, i \in T PROVE i + 1 \in T
  <2>1. PICK k \in 1..n : k = i + 1 /\ k - 1 = i /\ k \in 1..Len(s) /\ k \in Nat
    BY <1>0
  <2>2. f[k] = ObserveToken(f[k - 1], s[k])
    BY DEF IsRead
  <2>3. Inside(t, s, f[k - 1], k - 1)
    BY <1>2, <2>1
  <2>4. Inside(t, s, ObserveToken(f[k - 1], s[k]), k)
    BY <2>1, <2>3, InsideStep
  <2> QED BY <2>1, <2>2, <2>4
<1>3. 0..n \subseteq T
  <2> HIDE DEF T
  <2> QED BY <1>0, <1>1, <1>2, Induct
<1> QED BY <1>0, <1>3

\* observe on the first n tokens of an item: nothing happens to the modes before the last,
\* and behind it observe is between two sequences.
LEMMA ItemRead ==
  ASSUME NEW t, NEW s, IsItem(s), NEW n \in 0..Len(s),
         NEW chunk, \A i \in 1..n : chunk[i] = s[i], NEW f, IsRead(t, chunk, f, n)
  PROVE  /\ n < Len(s) => f[n].modes = t
         /\ n = Len(s) => f[n] = Reading(f[n].modes)
<1>1. Inside(t, s, f[n], n)
  BY ItemInside
<1>2. Len(s) \in Nat /\ s[Len(s)] # "ESC"
  BY ItemEnd
<1> QED BY <1>1, <1>2 DEF Inside, IsReader

\* Behind a whole item observe is between two sequences.
LEMMA ItemLands == ASSUME NEW s, IsItem(s) PROVE Lands(s)
<1>1. s \in Seq(Chars) /\ Len(s) \in Nat
  BY DEF IsItem
<1>2. ASSUME NEW t PROVE \E f : IsRead(t, s, f, Len(s)) /\ f[Len(s)] = Reading(Observe(t, s))
  <2>1. PICK f : IsRead(t, s, f, Len(s)) /\ Observe(t, s) = f[Len(s)].modes
    BY <1>1, ReadIs
  <2>2. PICK n \in 0..Len(s) : n = Len(s)
    BY <1>1
  <2>3. IsRead(t, s, f, n) /\ n \in 0..Len(s) /\ n = Len(s) /\ \A i \in 1..n : s[i] = s[i]
    BY <2>1, <2>2
  <2>4. f[n] = Reading(f[n].modes)
    BY ONLY <2>3, IsItem(s), ItemRead, SMTT(30)
  <2> QED BY <2>1, <2>2, <2>4
<1> QED BY <1>1, <1>2 DEF Lands

\* Observing the beginning of an item changes nothing.
LEMMA ItemBegun ==
  ASSUME NEW t, NEW s, IsItem(s), NEW p, Len(p) \in Nat, Len(p) < Len(s),
         \A i \in 1..Len(p) : p[i] = s[i]
  PROVE  Observe(t, p) = t
<1>1. PICK f : IsRead(t, p, f, Len(p)) /\ Observe(t, p) = f[Len(p)].modes
  BY ReadIs
<1>2. PICK n \in 0..Len(s) : n = Len(p)
  BY ItemEnd
<1>3. f[n].modes = t
  BY <1>1, <1>2, ItemRead
<1> QED BY <1>1, <1>2, <1>3
-----------------------------------------------------------------------------
\* What a terminal keeps of a unit, and the first n rounds of Execute.
ExecuteUnit(before, u) ==
  IF ~Ends(u) THEN before
  ELSE [state |-> IF before.skip THEN before.state ELSE Effect(before.state, u.item),
        skip  |-> FALSE]

IsExecution(t, units, skip, f, n) ==
  /\ f = [i \in 0..n |-> f[i]]
  /\ f[0] = [state |-> t, skip |-> skip]
  /\ \A i \in 1..n : f[i] = ExecuteUnit(f[i - 1], units[i])

\* Execute has a value after every unit.
LEMMA ExecutionExists ==
  ASSUME NEW t, NEW units, NEW skip, NEW n \in Nat
  PROVE  \E f : IsExecution(t, units, skip, f, n)
<1> DEFINE T == {m \in Nat : \E f : IsExecution(t, units, skip, f, m)}
<1>1. 0 \in T
  <2>1. IsExecution(t, units, skip, [i \in 0..0 |-> [state |-> t, skip |-> skip]], 0)
    BY DEF IsExecution
  <2> QED BY <2>1
<1>2. ASSUME NEW m \in 0..n - 1, m \in T PROVE m + 1 \in T
  <2>1. PICK f : IsExecution(t, units, skip, f, m)
    BY <1>2
  <2> DEFINE g == [i \in 0..m + 1 |-> IF i = m + 1 THEN ExecuteUnit(f[m], units[i]) ELSE f[i]]
  <2>2. g = [i \in 0..m + 1 |-> g[i]] /\ g[0] = f[0]
    OBVIOUS
  <2>3. ASSUME NEW i \in 1..m + 1 PROVE g[i] = ExecuteUnit(g[i - 1], units[i])
    <3>1. i - 1 \in 0..m + 1 /\ i - 1 # m + 1 /\ i \in 0..m + 1
      OBVIOUS
    <3>2. g[i - 1] = f[i - 1]
      BY <3>1
    <3>3. CASE i = m + 1
      <4>1. g[i] = ExecuteUnit(f[m], units[i]) /\ i - 1 = m
        BY <3>1, <3>3
      <4> QED BY <3>2, <4>1
    <3>4. CASE i # m + 1
      <4>1. i \in 1..m
        BY <3>4
      <4>2. g[i] = f[i]
        BY <3>1, <3>4
      <4> QED BY <4>1, <4>2, <3>2, <2>1 DEF IsExecution
    <3> QED BY <3>3, <3>4
  <2>4. IsExecution(t, units, skip, g, m + 1)
    <3> HIDE DEF g
    <3> QED BY <2>1, <2>2, <2>3 DEF IsExecution
  <2> QED BY <2>4
<1>3. 0..n \subseteq T
  <2> HIDE DEF T
  <2> QED BY <1>1, <1>2, Induct
<1> QED BY <1>3

\* Execute is that value: its recursion unfolds one unit at a time.
LEMMA ExecutionIs ==
  ASSUME NEW t, NEW units, NEW skip, Len(units) \in Nat
  PROVE  \E f : /\ IsExecution(t, units, skip, f, Len(units))
                /\ Execute(t, units, skip) = f[Len(units)].state
<1>1. PICK f : IsExecution(t, units, skip, f, Len(units))
  BY ExecutionExists
<1> DEFINE Rec(g) == [i \in 0..Len(units) |->
     IF i = 0 THEN [state |-> t, skip |-> skip] ELSE ExecuteUnit(g[i - 1], units[i])]
           h == CHOOSE g : g = Rec(g)
<1>2. f = Rec(f)
  <2>1. f = [i \in 0..Len(units) |-> f[i]]
    BY <1>1 DEF IsExecution
  <2>2. ASSUME NEW i \in 0..Len(units)
        PROVE  f[i] = IF i = 0 THEN [state |-> t, skip |-> skip]
                      ELSE ExecuteUnit(f[i - 1], units[i])
    <3>1. i # 0 => i \in 1..Len(units)
      OBVIOUS
    <3> QED BY <1>1, <3>1 DEF IsExecution
  <2>3. [i \in 0..Len(units) |-> f[i]] = Rec(f)
    BY ONLY <2>2
  <2> QED BY ONLY <2>1, <2>3
<1>3. Execute(t, units, skip) = h[Len(units)].state
  BY DEF Execute, ExecuteUnit
<1>4. h = Rec(h)
  <2> HIDE DEF Rec
  <2> QED BY <1>2
<1>5. IsExecution(t, units, skip, h, Len(units))
  <2> HIDE DEF h
  <2> QED BY <1>4 DEF IsExecution
<1> QED BY <1>3, <1>5

\* Units without an end do nothing.
LEMMA ExecuteBegun ==
  ASSUME NEW t, NEW c, Len(c) \in Nat, \A i \in 1..Len(c) : ~Ends(c[i])
  PROVE  Execute(t, c, FALSE) = t
<1>1. PICK n \in Nat : n = Len(c)
  OBVIOUS
<1>2. PICK f : IsExecution(t, c, FALSE, f, n) /\ Execute(t, c, FALSE) = f[n].state
  BY <1>1, ExecutionIs
<1> DEFINE T == {i \in Nat : f[i].state = t}
<1>3. 0 \in T
  BY <1>2 DEF IsExecution
<1>4. ASSUME NEW i \in 0..n - 1, i \in T PROVE i + 1 \in T
  <2>1. PICK k \in 1..n : k = i + 1 /\ k - 1 = i /\ k \in Nat
    OBVIOUS
  <2>2. f[k] = ExecuteUnit(f[k - 1], c[k]) /\ ~Ends(c[k])
    BY <1>1, <1>2 DEF IsExecution
  <2> QED BY <1>4, <2>1, <2>2 DEF ExecuteUnit
<1>5. 0..n \subseteq T
  <2> HIDE DEF T
  <2> QED BY <1>3, <1>4, Induct
<1>6. f[n].state = t
  BY <1>5
<1> QED BY <1>2, <1>6
-----------------------------------------------------------------------------
\* The numbers a parameter can have; 0 is the one left out.
Values == {0} \cup {Numbers[n] : n \in Digits}

\* The modes a terminal can be in: two margins are none or make a region, and the left one
\* is only kept while DECLRMM is on.
Framed(a, b) == (a = 0 /\ b = 0) \/ (a >= 1 /\ b > a)

ModeRecord ==
  [top : Values, bottom : Values, lrEnabled : BOOLEAN, left : Values, right : Values,
   origin : BOOLEAN, autowrapOff : BOOLEAN, cursorHide : BOOLEAN, alt : BOOLEAN]

Modes ==
  {t \in ModeRecord :
     Framed(t.top, t.bottom) /\ Framed(t.left, t.right) /\ (t.left > 0 => t.lrEnabled)}

\* The numbers are natural, and every one but 0 has a token.
LEMMA ValuesAre ==
  /\ Values \subseteq Nat /\ 0 \in Values /\ \A n \in Digits : Numbers[n] \in Values
  /\ \A v \in Values : v > 0 => Token(v) \in Digits /\ Numbers[Token(v)] = v
<1>1. \A n \in Digits : Numbers[n] \in Nat
  BY DEF Digits, Numbers
<1>2. ASSUME NEW v \in Values, v > 0 PROVE Token(v) \in Digits /\ Numbers[Token(v)] = v
  <2>1. \E n \in Digits : Numbers[n] = v
    BY <1>2 DEF Values
  <2> QED BY <2>1 DEF Token
<1> QED BY <1>1, <1>2 DEF Values

\* What such modes are, field by field.
LEMMA ModesAre ==
  ASSUME NEW t \in Modes
  PROVE  /\ t \in ModeRecord
         /\ t.top \in Values /\ t.bottom \in Values /\ t.left \in Values /\ t.right \in Values
         /\ t.lrEnabled \in BOOLEAN /\ t.origin \in BOOLEAN /\ t.autowrapOff \in BOOLEAN
         /\ t.cursorHide \in BOOLEAN /\ t.alt \in BOOLEAN
         /\ Framed(t.top, t.bottom) /\ Framed(t.left, t.right) /\ (t.left > 0 => t.lrEnabled)
BY DEF Modes, ModeRecord

\* No margins, too.
LEMMA NoMargins == Framed(0, 0) /\ 0 \in Values /\ ~(0 > 0)
BY ValuesAre DEF Framed

\* A terminal starts in such modes.
LEMMA FreshOK == Fresh \in Modes
BY NoMargins DEF Fresh, Modes, ModeRecord

\* A resize leads to one without margins.
LEMMA ResizedOK ==
  ASSUME NEW t \in Modes, NEW r, r = Resized(t)
  PROVE  /\ r \in Modes
         /\ r.top = 0 /\ r.bottom = 0 /\ r.left = 0 /\ r.right = 0
<1>1. r = [t EXCEPT !.top = 0, !.bottom = 0, !.left = 0, !.right = 0]
  BY DEF Resized
<1>2. r \in ModeRecord /\ r.top = 0 /\ r.bottom = 0 /\ r.left = 0 /\ r.right = 0
  BY <1>1, NoMargins DEF Modes, ModeRecord
<1> QED BY <1>2, NoMargins DEF Modes

\* A mode that is set or reset leads to one.
LEMMA SetModeOK ==
  ASSUME NEW t \in Modes, NEW mode, NEW set \in BOOLEAN PROVE SetMode(t, mode, set) \in Modes
<1>0. t \in ModeRecord
  BY ModesAre
<1>1. CASE mode = 69 /\ set
  <2>1. SetMode(t, mode, set) = [t EXCEPT !.lrEnabled = TRUE]
    BY <1>1 DEF SetMode
  <2> QED BY <2>1 DEF Modes, ModeRecord
<1>2. CASE mode = 69 /\ ~set
  <2>1. SetMode(t, mode, set) = [t EXCEPT !.lrEnabled = FALSE, !.left = 0, !.right = 0]
    BY <1>2 DEF SetMode
  <2>2. PICK r : r = SetMode(t, mode, set)
    OBVIOUS
  <2>3. r \in ModeRecord /\ r.top = t.top /\ r.bottom = t.bottom /\ r.left = 0 /\ r.right = 0
    BY <1>0, <2>1, <2>2, NoMargins DEF ModeRecord
  <2> QED BY <2>2, <2>3, NoMargins DEF Modes
<1>3. CASE mode # 69
  <2>1. SetMode(t, mode, set) \in {[t EXCEPT !.origin = set], [t EXCEPT !.autowrapOff = ~set],
                                   [t EXCEPT !.cursorHide = ~set], [t EXCEPT !.alt = set], t}
    BY <1>3 DEF SetMode
  <2> QED BY <2>1 DEF Modes, ModeRecord
<1> QED BY <1>1, <1>2, <1>3

\* The first n rounds of apply's loop over the parameters.
IsSetting(t, params, set, f, n) ==
  /\ f = [k \in 0..n |-> f[k]]
  /\ f[0] = t
  /\ \A k \in 1..n : f[k] = SetMode(f[k - 1], params[k], set)

\* That loop has a value after every parameter.
LEMMA SettingExists ==
  ASSUME NEW t, NEW params, NEW set, NEW n \in Nat
  PROVE  \E f : IsSetting(t, params, set, f, n)
<1> DEFINE T == {m \in Nat : \E f : IsSetting(t, params, set, f, m)}
<1>1. 0 \in T
  <2>1. IsSetting(t, params, set, [k \in 0..0 |-> t], 0)
    BY DEF IsSetting
  <2> QED BY <2>1
<1>2. ASSUME NEW m \in 0..n - 1, m \in T PROVE m + 1 \in T
  <2>1. PICK f : IsSetting(t, params, set, f, m)
    BY <1>2
  <2> DEFINE g == [k \in 0..m + 1 |-> IF k = m + 1 THEN SetMode(f[m], params[k], set) ELSE f[k]]
  <2>2. g = [k \in 0..m + 1 |-> g[k]] /\ g[0] = f[0]
    OBVIOUS
  <2>3. ASSUME NEW k \in 1..m + 1 PROVE g[k] = SetMode(g[k - 1], params[k], set)
    <3>1. k - 1 \in 0..m + 1 /\ k - 1 # m + 1 /\ k \in 0..m + 1
      OBVIOUS
    <3>2. g[k - 1] = f[k - 1]
      BY <3>1
    <3>3. CASE k = m + 1
      <4>1. g[k] = SetMode(f[m], params[k], set) /\ k - 1 = m
        BY <3>1, <3>3
      <4> QED BY <3>2, <4>1
    <3>4. CASE k # m + 1
      <4>1. k \in 1..m
        BY <3>4
      <4>2. g[k] = f[k]
        BY <3>1, <3>4
      <4> QED BY <4>1, <4>2, <3>2, <2>1 DEF IsSetting
    <3> QED BY <3>3, <3>4
  <2>4. IsSetting(t, params, set, g, m + 1)
    <3> HIDE DEF g
    <3> QED BY <2>1, <2>2, <2>3 DEF IsSetting
  <2> QED BY <2>4
<1>3. 0..n \subseteq T
  <2> HIDE DEF T
  <2> QED BY <1>1, <1>2, Induct
<1> QED BY <1>3

\* The loop over the parameters unfolds one parameter at a time.
LEMMA SettingIs ==
  ASSUME NEW t, NEW params, NEW set, Len(params) \in Nat
  PROVE  \E f : /\ IsSetting(t, params, set, f, Len(params))
                /\ SetModes(t, params, set) = f[Len(params)]
<1>1. PICK f : IsSetting(t, params, set, f, Len(params))
  BY SettingExists
<1> DEFINE Rec(g) == [k \in 0..Len(params) |->
     IF k = 0 THEN t ELSE SetMode(g[k - 1], params[k], set)]
           h == CHOOSE g : g = Rec(g)
<1>2. f = Rec(f)
  BY <1>1 DEF IsSetting
<1>3. SetModes(t, params, set) = h[Len(params)]
  BY DEF SetModes
<1>4. h = Rec(h)
  <2> HIDE DEF Rec
  <2> QED BY <1>2
<1>5. IsSetting(t, params, set, h, Len(params))
  <2> HIDE DEF h
  <2> QED BY <1>4 DEF IsSetting
<1> QED BY <1>3, <1>5

\* Any number of them does.
LEMMA SetModesOK ==
  ASSUME NEW t \in Modes, NEW params, Len(params) \in Nat, NEW set \in BOOLEAN
  PROVE  SetModes(t, params, set) \in Modes
<1>1. PICK n \in Nat : n = Len(params)
  OBVIOUS
<1>2. PICK f : IsSetting(t, params, set, f, n) /\ SetModes(t, params, set) = f[n]
  BY <1>1, SettingIs
<1> DEFINE T == {k \in Nat : f[k] \in Modes}
<1>3. 0 \in T
  BY <1>2 DEF IsSetting
<1>4. ASSUME NEW k \in 0..n - 1, k \in T PROVE k + 1 \in T
  <2>1. PICK j \in 1..n : j = k + 1 /\ j - 1 = k /\ j \in Nat
    OBVIOUS
  <2>2. f[j] = SetMode(f[j - 1], params[j], set)
    BY <1>2 DEF IsSetting
  <2> QED BY <1>4, <2>1, <2>2, SetModeOK
<1>5. 0..n \subseteq T
  <2> HIDE DEF T
  <2> QED BY <1>3, <1>4, Induct
<1>6. f[n] \in Modes
  BY <1>5
<1> QED BY <1>2, <1>6

\* One mode is one round.
LEMMA SetModesOne ==
  ASSUME NEW t, NEW v, NEW set PROVE SetModes(t, <<v>>, set) = SetMode(t, v, set)
<1>1. PICK params : params = <<v>>
  OBVIOUS
<1>2. Len(params) = 1 /\ Len(params) \in Nat /\ params[1] = v
  BY <1>1
<1>3. PICK f : /\ IsSetting(t, params, set, f, Len(params))
               /\ SetModes(t, params, set) = f[Len(params)]
  BY <1>2, SettingIs
<1>4. f[1] = SetMode(t, v, set)
  <2>1. 1 \in 1..1 /\ 1 - 1 = 0
    OBVIOUS
  <2>2. f[1] = SetMode(f[0], params[1], set) /\ f[0] = t
    BY <1>2, <1>3, <2>1 DEF IsSetting
  <2> QED BY <1>2, <2>2
<1> QED BY <1>1, <1>2, <1>3, <1>4

\* What two parameters make of margins is a region or none.
LEMMA MarginOK ==
  ASSUME NEW params \in Seq(Values)
  PROVE  /\ Margin(params)[1] \in Values /\ Margin(params)[2] \in Values
         /\ Framed(Margin(params)[1], Margin(params)[2])
<1>1. CASE Len(params) >= 2 /\ params[1] >= 1 /\ params[2] > params[1]
  <2>1. Margin(params) = <<params[1], params[2]>>
    BY <1>1 DEF Margin
  <2>2. params[1] \in Values /\ params[2] \in Values
    BY <1>1
  <2> QED BY <1>1, <2>1, <2>2 DEF Framed
<1>2. CASE ~(Len(params) >= 2 /\ params[1] >= 1 /\ params[2] > params[1])
  <2>1. Margin(params) = <<0, 0>>
    BY <1>2 DEF Margin
  <2> QED BY <2>1, ValuesAre DEF Framed
<1> QED BY <1>1, <1>2

\* A CSI sequence leads from one mode to another.
LEMMA ApplyOK ==
  ASSUME NEW t \in Modes, NEW private, NEW intermediates, NEW params \in Seq(Values), NEW final
  PROVE  Apply(t, private, intermediates, params, final) \in Modes
<1> DEFINE a == Apply(t, private, intermediates, params, final)
           m == Margin(params)
           top == [t EXCEPT !.top = m[1], !.bottom = m[2]]
           left == [t EXCEPT !.left = m[1], !.right = m[2]]
           set == SetModes(t, params, final = "h")
<1>1. a = Fresh \/ a = t \/ a = top \/ (t.lrEnabled /\ a = left) \/ a = set
  BY DEF Apply
<1>2. PICK x \in Values, y \in Values : m[1] = x /\ m[2] = y /\ Framed(x, y)
  BY MarginOK
<1>3. top \in Modes
  BY <1>2 DEF Modes, ModeRecord
<1>4. t.lrEnabled => left \in Modes
  BY <1>2 DEF Modes, ModeRecord
<1>5. set \in Modes
  <2>1. Len(params) \in Nat /\ (final = "h") \in BOOLEAN
    OBVIOUS
  <2> QED BY <2>1, SetModesOK
<1>6. a \in Modes
  <2> HIDE DEF a, top, left, set
  <2> QED BY <1>1, <1>3, <1>4, <1>5, FreshOK
<1> QED BY <1>6

\* What observe keeps, with modes a terminal can be in and parameters that are numbers.
Readers ==
  [modes : Modes, place : {"ground", "escape", "bracket", "csi"}, private : BOOLEAN,
   intermediates : Seq(Intermediates), params : Seq(Values), current : Seq(Values)]

\* Between two sequences that is so.
LEMMA ReadingOK == ASSUME NEW t \in Modes PROVE Reading(t) \in Readers
BY DEF Reading, Readers

\* One token keeps it so.
LEMMA TokenOK ==
  ASSUME NEW r \in Readers, NEW b PROVE ObserveToken(r, b) \in Readers
<1>0. /\ r.modes \in Modes /\ r.params \in Seq(Values) /\ r.current \in Seq(Values)
      /\ r.intermediates \in Seq(Intermediates)
      /\ Reading(r.modes) \in Readers /\ Reading(Fresh) \in Readers
  BY ReadingOK, FreshOK DEF Readers
<1>1. CASE r.place \in {"ground", "escape"}
  <2>1. ObserveToken(r, b) \in {Reading(Fresh), Reading(r.modes),
                                [Reading(r.modes) EXCEPT !.place = "bracket"],
                                [Reading(r.modes) EXCEPT !.place = "escape"]}
    BY <1>1 DEF ObserveToken
  <2>2. /\ [Reading(r.modes) EXCEPT !.place = "bracket"] \in Readers
        /\ [Reading(r.modes) EXCEPT !.place = "escape"] \in Readers
    BY <1>0 DEF Readers
  <2> QED BY <1>0, <2>1, <2>2
<1>2. CASE r.place \in {"bracket", "csi"}
  <2> DEFINE next == [r EXCEPT !.place = "csi"]
             m == Apply(r.modes, r.private, r.intermediates, r.params \o r.current, b)
             more == r.params \o (IF r.current = << >> THEN <<0>> ELSE r.current)
  <2>0. ObserveToken(r, b) = ObserveCSI(r, b)
    BY <1>2 DEF ObserveToken
  <2>1. next \in Readers
    BY DEF Readers
  <2>2. /\ r.params \o r.current \in Seq(Values) /\ << >> \in Seq(Values)
        /\ more \in Seq(Values)
        /\ b \in Digits => <<Numbers[b]>> \in Seq(Values)
        /\ b \in Intermediates => r.intermediates \o <<b>> \in Seq(Intermediates)
    <3>1. 0 \in Values /\ <<0>> \in Seq(Values)
      BY ValuesAre
    <3>2. (IF r.current = << >> THEN <<0>> ELSE r.current) \in Seq(Values)
      BY <1>0, <3>1
    <3> QED BY <1>0, <3>2, ValuesAre
  <2>3. Reading(m) \in Readers
    <3>1. m \in Modes
      BY <1>0, <2>2, ApplyOK
    <3> HIDE DEF m
    <3> QED BY <3>1, ReadingOK
  <2>4. \/ ObserveCSI(r, b) = [next EXCEPT !.private = TRUE]
        \/ b \in Digits /\ ObserveCSI(r, b) = [next EXCEPT !.current = <<Numbers[b]>>]
        \/ ObserveCSI(r, b) = [next EXCEPT !.current = << >>, !.params = more]
        \/ /\ b \in Intermediates
           /\ ObserveCSI(r, b) = [next EXCEPT !.intermediates = r.intermediates \o <<b>>]
        \/ ObserveCSI(r, b) = Reading(m)
        \/ ObserveCSI(r, b) = Reading(r.modes)
    BY Kinds DEF ObserveCSI
  <2> HIDE DEF next, m, more
  <2>5. [next EXCEPT !.private = TRUE] \in Readers
    BY <2>1 DEF Readers
  <2>6. b \in Digits => [next EXCEPT !.current = <<Numbers[b]>>] \in Readers
    BY <2>1, <2>2 DEF Readers
  <2>7. [next EXCEPT !.current = << >>, !.params = more] \in Readers
    BY <2>1, <2>2 DEF Readers
  <2>8. b \in Intermediates =>
          [next EXCEPT !.intermediates = r.intermediates \o <<b>>] \in Readers
    BY <2>1, <2>2 DEF Readers
  <2> QED BY <1>0, <2>0, <2>3, <2>4, <2>5, <2>6, <2>7, <2>8
<1> QED BY <1>0, <1>1, <1>2 DEF Readers

\* Whatever is observed, the modes are ones a terminal can be in.
LEMMA ObserveOK ==
  ASSUME NEW t \in Modes, NEW chunk, Len(chunk) \in Nat PROVE Observe(t, chunk) \in Modes
<1>1. PICK n \in Nat : n = Len(chunk)
  OBVIOUS
<1>2. PICK f : IsRead(t, chunk, f, n) /\ Observe(t, chunk) = f[n].modes
  BY <1>1, ReadIs
<1> DEFINE T == {i \in Nat : f[i] \in Readers}
<1>3. 0 \in T
  BY <1>2, ReadingOK DEF IsRead
<1>4. ASSUME NEW i \in 0..n - 1, i \in T PROVE i + 1 \in T
  <2>1. PICK k \in 1..n : k = i + 1 /\ k - 1 = i /\ k \in Nat
    OBVIOUS
  <2>2. f[k] = ObserveToken(f[k - 1], chunk[k])
    BY <1>2 DEF IsRead
  <2> QED BY <1>4, <2>1, <2>2, TokenOK
<1>5. 0..n \subseteq T
  <2> HIDE DEF T
  <2> QED BY <1>3, <1>4, Induct
<1>6. f[n].modes \in Modes
  BY <1>5 DEF Readers
<1> QED BY <1>2, <1>6
-----------------------------------------------------------------------------
\* What observe keeps inside a CSI sequence without intermediates.
Parsed(t, place, private, params, current) ==
  [modes |-> t, place |-> place, private |-> private, intermediates |-> << >>,
   params |-> params, current |-> current]

\* Its parameters, with the one being read.
Together(params, current) == params \o current

\* A parameter that has been read.
Parameter(b) == <<Numbers[b]>>

\* The tokens of such a sequence, one at a time.
LEMMA ParseOpen ==
  ASSUME NEW t
  PROVE  /\ ObserveToken(Reading(t), "ESC") = Parsed(t, "escape", FALSE, << >>, << >>)
         /\ ObserveToken(Parsed(t, "escape", FALSE, << >>, << >>), "[") =
              Parsed(t, "bracket", FALSE, << >>, << >>)
         /\ ObserveToken(Parsed(t, "bracket", FALSE, << >>, << >>), "?") =
              Parsed(t, "csi", TRUE, << >>, << >>)
<1>1. ObserveToken(Reading(t), "ESC") = Parsed(t, "escape", FALSE, << >>, << >>)
  BY DEF ObserveToken, Reading, Parsed
<1>2. ObserveToken(Parsed(t, "escape", FALSE, << >>, << >>), "[") =
        Parsed(t, "bracket", FALSE, << >>, << >>)
  BY DEF ObserveToken, Reading, Parsed
<1>3. ObserveToken(Parsed(t, "bracket", FALSE, << >>, << >>), "?") =
        Parsed(t, "csi", TRUE, << >>, << >>)
  BY Kinds DEF ObserveToken, ObserveCSI, Parsed
<1> QED BY <1>1, <1>2, <1>3

\* A parameter.
LEMMA ParseDigits ==
  ASSUME NEW t, NEW private, NEW params, NEW current, NEW b \in Digits,
         NEW value, value = Parameter(b)
  PROVE  /\ ObserveToken(Parsed(t, "bracket", private, params, current), b) =
              Parsed(t, "csi", private, params, value)
         /\ ObserveToken(Parsed(t, "csi", private, params, current), b) =
              Parsed(t, "csi", private, params, value)
<1>1. ASSUME NEW place \in {"bracket", "csi"}
      PROVE  ObserveToken(Parsed(t, place, private, params, current), b) =
               Parsed(t, "csi", private, params, value)
  <2>1. PICK r : r = Parsed(t, place, private, params, current)
    OBVIOUS
  <2>2. ObserveToken(r, b) = ObserveCSI(r, b)
    BY <2>1 DEF ObserveToken, Parsed
  <2>3. ObserveCSI(r, b) = [[r EXCEPT !.place = "csi"] EXCEPT !.current = value]
    BY Kinds DEF ObserveCSI, Parameter
  <2>4. ObserveCSI(r, b) = Parsed(t, "csi", private, params, value)
    BY <2>1, <2>3 DEF Parsed
  <2> QED BY <2>1, <2>2, <2>4
<1> QED BY <1>1

\* The semicolon.
LEMMA ParseSemicolon ==
  ASSUME NEW t, NEW private, NEW params, NEW current, current # << >>,
         NEW p, p = Together(params, current)
  PROVE  ObserveToken(Parsed(t, "csi", private, params, current), ";") =
           Parsed(t, "csi", private, p, << >>)
<1>1. PICK r : r = Parsed(t, "csi", private, params, current)
  OBVIOUS
<1>2. /\ ObserveToken(r, ";") = ObserveCSI(r, ";")
      /\ r.current = current /\ r.params = params
  BY <1>1 DEF ObserveToken, Parsed
<1>3. ObserveCSI(r, ";") =
        [[r EXCEPT !.place = "csi"] EXCEPT !.current = << >>, !.params = p]
  BY <1>2, Kinds DEF ObserveCSI, Together
<1>4. ObserveCSI(r, ";") = Parsed(t, "csi", private, p, << >>)
  BY <1>1, <1>3 DEF Parsed
<1> QED BY <1>1, <1>2, <1>4

\* The final byte.
LEMMA ParseFinal ==
  ASSUME NEW t, NEW private, NEW params, NEW current, NEW b \in Finals,
         NEW p, p = Together(params, current)
  PROVE  /\ ObserveToken(Parsed(t, "bracket", private, params, current), b) =
              Reading(Apply(t, private, << >>, p, b))
         /\ ObserveToken(Parsed(t, "csi", private, params, current), b) =
              Reading(Apply(t, private, << >>, p, b))
<1>1. ASSUME NEW place \in {"bracket", "csi"}
      PROVE  ObserveToken(Parsed(t, place, private, params, current), b) =
               Reading(Apply(t, private, << >>, p, b))
  <2>1. PICK r : r = Parsed(t, place, private, params, current)
    OBVIOUS
  <2>2. /\ ObserveToken(r, b) = ObserveCSI(r, b)
        /\ r.modes = t /\ r.private = private /\ r.intermediates = << >>
        /\ r.params = params /\ r.current = current
    BY <2>1 DEF ObserveToken, Parsed
  <2>3. ObserveCSI(r, b) =
          Reading(Apply(r.modes, r.private, r.intermediates, r.params \o r.current, b))
    BY Kinds DEF ObserveCSI
  <2> QED BY <2>1, <2>2, <2>3 DEF Together
<1> QED BY <1>1

\* Two sequences of one element.
LEMMA Pair ==
  ASSUME NEW S, NEW x \in S, NEW y \in S PROVE <<x>> \o <<y>> = <<x, y>>
<1>1. PICK a, b : a = <<x>> /\ b = <<y>>
  OBVIOUS
<1>2. a \in Seq(S) /\ b \in Seq(S) /\ Len(a) = 1 /\ Len(b) = 1 /\ a[1] = x /\ b[1] = y
  BY <1>1
<1>3. PICK q : q = a \o b
  OBVIOUS
<1>4. q \in Seq(S) /\ Len(q) = 2 /\ q[1] = x /\ q[2] = y
  <2>1. /\ q \in Seq(S) /\ Len(q) = Len(a) + Len(b)
        /\ \A i \in 1..Len(a) : q[i] = a[i]
        /\ \A i \in 1..Len(b) : q[Len(a) + i] = b[i]
    BY <1>2, <1>3, ConcatIs
  <2>2. q[1] = a[1] /\ q[1 + 1] = b[1]
    BY <1>2, <2>1
  <2> QED BY <1>2, <2>1, <2>2
<1>5. q = <<x, y>>
  BY <1>4
<1> QED BY <1>1, <1>3, <1>5

\* The tokens replay writes.
LEMMA CharsAre ==
  Digits \cup {"ESC", "[", "?", ";", "h", "l", "r", "s"} \subseteq Chars
BY DEF Chars

-----------------------------------------------------------------------------
\* A tuple of three is a sequence.
LEMMA Three ==
  ASSUME NEW S, NEW a \in S, NEW b \in S, NEW c \in S, NEW s, s = <<a, b, c>>
  PROVE  s \in Seq(S) /\ Len(s) = 3 /\ s[1] = a /\ s[2] = b /\ s[3] = c
OBVIOUS

\* The same of five.
LEMMA Five ==
  ASSUME NEW S, NEW a \in S, NEW b \in S, NEW c \in S, NEW d \in S, NEW e \in S,
         NEW s, s = <<a, b, c, d, e>>
  PROVE  /\ s \in Seq(S) /\ Len(s) = 5
         /\ s[1] = a /\ s[2] = b /\ s[3] = c /\ s[4] = d /\ s[5] = e
OBVIOUS

\* The same of six.
LEMMA Six ==
  ASSUME NEW S, NEW a \in S, NEW b \in S, NEW c \in S, NEW d \in S, NEW e \in S, NEW g \in S,
         NEW s, s = <<a, b, c, d, e, g>>
  PROVE  /\ s \in Seq(S) /\ Len(s) = 6
         /\ s[1] = a /\ s[2] = b /\ s[3] = c /\ s[4] = d /\ s[5] = e /\ s[6] = g
OBVIOUS

\* Nothing before a sequence is that sequence.
LEMMA NothingBefore == \A S : \A p \in Seq(S) : << >> \o p = p
OBVIOUS

\* The first rounds of observe's loop, by index.
LEMMA Rounds ==
  ASSUME NEW t, NEW s, NEW f, NEW n \in Nat, Len(s) = n, IsRead(t, s, f, Len(s))
  PROVE  /\ f[0] = Reading(t)
         /\ n >= 1 => f[1] = ObserveToken(f[0], s[1])
         /\ n >= 2 => f[2] = ObserveToken(f[1], s[2])
         /\ n >= 3 => f[3] = ObserveToken(f[2], s[3])
         /\ n >= 4 => f[4] = ObserveToken(f[3], s[4])
         /\ n >= 5 => f[5] = ObserveToken(f[4], s[5])
         /\ n >= 6 => f[6] = ObserveToken(f[5], s[6])
<1>1. f[0] = Reading(t) /\ \A i \in 1..n : f[i] = ObserveToken(f[i - 1], s[i])
  BY DEF IsRead
<1>2. ASSUME NEW i \in Nat, NEW j \in Nat, j = i + 1, n >= j
      PROVE  f[j] = ObserveToken(f[i], s[j])
  <2>1. j \in 1..n /\ j - 1 = i
    BY <1>2
  <2> QED BY <1>1, <2>1
<1> QED BY <1>1, <1>2

\* One parameter and the final byte.
LEMMA ParseOne ==
  ASSUME NEW t, NEW private, NEW m \in Digits, NEW b \in Finals, NEW p, p = Parameter(m),
         NEW r, r = Parsed(t, "csi", private, << >>, << >>)
  PROVE  ObserveToken(ObserveToken(r, m), b) = Reading(Apply(t, private, << >>, p, b))
<1>1. PICK no : no = << >>
  OBVIOUS
<1>2. ObserveToken(Parsed(t, "csi", private, no, no), m) = Parsed(t, "csi", private, no, p)
  BY ParseDigits
<1>3. p = Together(no, p)
  <2>1. p \in Seq({Numbers[m]})
    BY DEF Parameter
  <2> QED BY <1>1, <2>1, NothingBefore DEF Together
<1>4. ObserveToken(Parsed(t, "csi", private, no, p), b) = Reading(Apply(t, private, << >>, p, b))
  BY ONLY <1>3, b \in Finals, ParseFinal
<1>5. r = Parsed(t, "csi", private, no, no)
  BY <1>1
<1> QED BY <1>2, <1>4, <1>5

\* Such a sequence that is read to its end.
LEMMA FlagReads ==
  ASSUME NEW t, NEW mode \in Digits, NEW b \in {"h", "l"}, NEW s \in Seq(Chars), Len(s) = 5,
         s[1] = "ESC", s[2] = "[", s[3] = "?", s[4] = mode, s[5] = b
  PROVE  /\ Lands(s)
         /\ Observe(t, s) = Apply(t, TRUE, << >>, <<Numbers[mode]>>, b)
<1>1. b \in Finals
  BY DEF Finals
<1>2. Lands(s)
  <2>1. \A i \in 3..4 : s[i] \notin Finals \cup {"ESC"}
    <3>1. "?" \notin Finals \cup {"ESC"}
      BY DEF Finals
    <3>2. mode \notin Finals \cup {"ESC"}
      BY Kinds DEF Digits, Numbers
    <3>3. \A i \in 3..4 : i = 3 \/ i = 4
      OBVIOUS
    <3> QED BY <3>1, <3>2, <3>3
  <2>2. Len(s) >= 3 /\ Len(s) - 1 = 4 /\ s[Len(s)] \in Finals
    BY <1>1
  <2>3. IsCSI(s)
    BY <2>1, <2>2 DEF IsCSI
  <2> QED BY <2>3, ItemLands DEF IsItem
<1>3. PICK n \in Nat : n = 5 /\ Len(s) = n /\ Len(s) \in Nat
  OBVIOUS
<1>4. PICK f : IsRead(t, s, f, Len(s)) /\ Observe(t, s) = f[Len(s)].modes
  BY <1>3, ReadIs
<1>5. /\ f[0] = Reading(t) /\ f[1] = ObserveToken(f[0], "ESC") /\ f[2] = ObserveToken(f[1], "[")
      /\ f[3] = ObserveToken(f[2], "?") /\ f[4] = ObserveToken(f[3], mode)
      /\ f[5] = ObserveToken(f[4], b)
  <2>1. /\ f[0] = Reading(t) /\ f[1] = ObserveToken(f[0], s[1])
        /\ f[2] = ObserveToken(f[1], s[2]) /\ f[3] = ObserveToken(f[2], s[3])
        /\ f[4] = ObserveToken(f[3], s[4]) /\ f[5] = ObserveToken(f[4], s[5])
    <3>1. n >= 1 /\ n >= 2 /\ n >= 3 /\ n >= 4 /\ n >= 5
      BY <1>3
    <3>2. n \in Nat /\ Len(s) = n /\ IsRead(t, s, f, Len(s))
      BY <1>3, <1>4
    <3> QED BY ONLY <3>1, <3>2, Rounds
  <2> QED BY <2>1
<1>6. f[3] = Parsed(t, "csi", TRUE, << >>, << >>)
  BY <1>5, ParseOpen
<1>7. PICK y, p : y = TRUE /\ p = <<Numbers[mode]>>
  OBVIOUS
<1>8. f[5] = Reading(Apply(t, y, << >>, p, b))
  <2>1. f[3] = Parsed(t, "csi", y, << >>, << >>)
    BY <1>6, <1>7
  <2>2. p = Parameter(mode)
    BY <1>7 DEF Parameter
  <2>3. ObserveToken(ObserveToken(f[3], mode), b) = Reading(Apply(t, y, << >>, p, b))
    BY ONLY <1>1, <2>1, <2>2, mode \in Digits, ParseOne
  <2> QED BY <1>5, <2>3
<1>9. Observe(t, s) = Apply(t, y, << >>, p, b)
  <2>1. f[5].modes = Apply(t, y, << >>, p, b)
    BY <1>8, ReadingIs
  <2> QED BY <1>4, <1>3, <2>1
<1> QED BY <1>2, <1>7, <1>9

\* Setting or resetting one mode.
LEMMA FlagIs ==
  ASSUME NEW t, NEW mode \in Digits, NEW set \in BOOLEAN
  PROVE  /\ Lands(Flag(mode, set))
         /\ Observe(t, Flag(mode, set)) = SetMode(t, Numbers[mode], set)
<1>1. PICK b \in {"h", "l"} : b = IF set THEN "h" ELSE "l"
  OBVIOUS
<1>2. PICK e, o, q : e = "ESC" /\ o = "[" /\ q = "?"
  OBVIOUS
<1>3. e \in Chars /\ o \in Chars /\ q \in Chars /\ mode \in Chars /\ b \in Chars
  BY <1>2, CharsAre
<1>4. Flag(mode, set) = <<e, o, q, mode, b>>
  BY <1>1, <1>2 DEF Flag
<1>5. PICK s : s = <<e, o, q, mode, b>>
  OBVIOUS
<1>6. /\ s \in Seq(Chars) /\ Len(s) = 5
      /\ s[1] = e /\ s[2] = o /\ s[3] = q /\ s[4] = mode /\ s[5] = b
  BY <1>3, <1>5, Five
<1>7. Lands(s) /\ Observe(t, s) = Apply(t, TRUE, << >>, <<Numbers[mode]>>, b)
  BY ONLY <1>2, <1>6, b \in {"h", "l"}, mode \in Digits, FlagReads
<1>8. PICK y, p, v : y = TRUE /\ p = <<v>> /\ v = Numbers[mode]
  OBVIOUS
<1>9. Apply(t, y, << >>, p, b) = SetModes(t, p, b = "h")
  <2>1. << >> # <<"!">>
    OBVIOUS
  <2> QED BY <1>1, <1>8, <2>1 DEF Apply
<1>10. PICK z \in BOOLEAN : z = set /\ ((b = "h") <=> z)
  BY <1>1
<1>11. Apply(t, y, << >>, p, b) = SetModes(t, p, z)
  BY <1>9, <1>10
<1>12. SetModes(t, <<v>>, z) = SetMode(t, v, z)
  BY SetModesOne
<1>13. Apply(t, y, << >>, p, b) = SetMode(t, v, set)
  BY <1>8, <1>10, <1>11, <1>12
<1> QED BY <1>4, <1>5, <1>7, <1>8, <1>13

\* A parameter that follows none.
LEMMA FirstParameter ==
  ASSUME NEW b, NEW c, c = Parameter(b), NEW no, no = << >>
  PROVE  c = Together(no, c) /\ c # << >>
<1>1. c \in Seq({Numbers[b]})
  BY DEF Parameter
<1>2. c # << >>
  BY DEF Parameter
<1> QED BY <1>1, <1>2, NothingBefore DEF Together

\* A parameter and the semicolon ...
LEMMA ParseNext ==
  ASSUME NEW t, NEW private, NEW m \in Digits,
         NEW r, r = Parsed(t, "bracket", private, << >>, << >>),
         NEW q, q = ObserveToken(r, m), NEW u, u = ObserveToken(q, ";")
  PROVE  u = Parsed(t, "csi", private, Parameter(m), << >>)
<1>1. PICK no, c : no = << >> /\ c = Parameter(m)
  OBVIOUS
<1>2. r = Parsed(t, "bracket", private, no, no)
  BY <1>1
<1>3. ObserveToken(Parsed(t, "bracket", private, no, no), m) = Parsed(t, "csi", private, no, c)
  BY ONLY <1>1, m \in Digits, ParseDigits
<1>4. c = Together(no, c) /\ c # << >>
  BY ONLY <1>1, FirstParameter
<1>5. ObserveToken(Parsed(t, "csi", private, no, c), ";") = Parsed(t, "csi", private, c, << >>)
  BY ONLY <1>4, ParseSemicolon, ZenonT(30)
<1> QED BY <1>1, <1>2, <1>3, <1>5

\* ... and another one with the final byte.
LEMMA ParseLast ==
  ASSUME NEW t, NEW private, NEW c, NEW n \in Digits, NEW b \in Finals,
         NEW r, r = Parsed(t, "csi", private, c, << >>)
  PROVE  ObserveToken(ObserveToken(r, n), b) =
           Reading(Apply(t, private, << >>, Together(c, Parameter(n)), b))
<1>1. PICK no, d, p : no = << >> /\ d = Parameter(n) /\ p = Together(c, d)
  OBVIOUS
<1>2. ObserveToken(Parsed(t, "csi", private, c, no), n) = Parsed(t, "csi", private, c, d)
  BY ONLY <1>1, n \in Digits, ParseDigits
<1>3. ObserveToken(Parsed(t, "csi", private, c, d), b) = Reading(Apply(t, private, << >>, p, b))
  BY ONLY <1>1, b \in Finals, ParseFinal
<1>4. r = Parsed(t, "csi", private, c, no)
  BY <1>1
<1> QED BY <1>1, <1>2, <1>3, <1>4

\* A sequence without a question mark.
Plain(t, p, b) == Apply(t, FALSE, << >>, p, b)

\* The sequence that sets margins, token by token.
Region(s, m, n, b) ==
  /\ s \in Seq(Chars) /\ Len(s) = 6
  /\ s[1] = "ESC" /\ s[2] = "[" /\ s[3] = m /\ s[4] = ";" /\ s[5] = n /\ s[6] = b

\* It is read to its end.
LEMMA RegionReads ==
  ASSUME NEW t, NEW m \in Digits, NEW n \in Digits, NEW b \in {"r", "s"},
         NEW s, Region(s, m, n, b), NEW p, p = Together(Parameter(m), Parameter(n))
  PROVE  Lands(s) /\ Observe(t, s) = Plain(t, p, b)
<1>0. /\ s \in Seq(Chars) /\ Len(s) = 6
      /\ s[1] = "ESC" /\ s[2] = "[" /\ s[3] = m /\ s[4] = ";" /\ s[5] = n /\ s[6] = b
  BY DEF Region
<1>1. Len(s) = 6
  BY <1>0
<1>2. b \in Finals
  BY DEF Finals
<1>3. Lands(s)
  <2>1. \A i \in 3..5 : s[i] \notin Finals \cup {"ESC"}
    <3>1. ";" \notin Finals \cup {"ESC"}
      BY DEF Finals
    <3>2. m \notin Finals \cup {"ESC"} /\ n \notin Finals \cup {"ESC"}
      BY Kinds DEF Digits, Numbers
    <3>3. \A i \in 3..5 : i = 3 \/ i = 4 \/ i = 5
      BY ONLY TRUE
    <3> QED BY <1>0, <3>1, <3>2, <3>3
  <2>2. Len(s) >= 3 /\ Len(s) - 1 = 5
    BY ONLY <1>1
  <2>3. s[Len(s)] \in Finals
    BY <1>0, <1>2
  <2>4. IsCSI(s)
    BY <1>0, <2>1, <2>2, <2>3 DEF IsCSI
  <2> QED BY <1>0, <2>4, ItemLands DEF IsItem
<1>4. PICK k \in Nat : k = 6 /\ Len(s) = k /\ Len(s) \in Nat
  BY ONLY <1>1
<1>5. PICK f : IsRead(t, s, f, Len(s)) /\ Observe(t, s) = f[Len(s)].modes
  BY <1>0, <1>4, ReadIs
<1>6. /\ f[0] = Reading(t) /\ f[1] = ObserveToken(f[0], "ESC") /\ f[2] = ObserveToken(f[1], "[")
      /\ f[3] = ObserveToken(f[2], m) /\ f[4] = ObserveToken(f[3], ";")
      /\ f[5] = ObserveToken(f[4], n) /\ f[6] = ObserveToken(f[5], b)
  <2>1. /\ f[0] = Reading(t) /\ f[1] = ObserveToken(f[0], s[1])
        /\ f[2] = ObserveToken(f[1], s[2]) /\ f[3] = ObserveToken(f[2], s[3])
        /\ f[4] = ObserveToken(f[3], s[4]) /\ f[5] = ObserveToken(f[4], s[5])
        /\ f[6] = ObserveToken(f[5], s[6])
    <3>1. k >= 1 /\ k >= 2 /\ k >= 3 /\ k >= 4 /\ k >= 5 /\ k >= 6
      BY ONLY <1>4
    <3>2. k \in Nat /\ Len(s) = k /\ IsRead(t, s, f, Len(s))
      BY <1>4, <1>5
    <3> QED BY ONLY <3>1, <3>2, Rounds
  <2> QED BY <1>0, <2>1
<1>7. f[2] = Parsed(t, "bracket", FALSE, << >>, << >>)
  BY <1>6, ParseOpen
<1>8. PICK y : y = FALSE
  OBVIOUS
<1>9. f[6] = Reading(Apply(t, y, << >>, p, b))
  <2>1. f[2] = Parsed(t, "bracket", y, << >>, << >>)
    BY <1>7, <1>8
  <2>2. f[4] = Parsed(t, "csi", y, Parameter(m), << >>)
    <3>1. PICK q, r, u : q = f[2] /\ r = f[3] /\ u = f[4]
      OBVIOUS
    <3>2. q = Parsed(t, "bracket", y, << >>, << >>)
      BY <2>1, <3>1
    <3>3. r = ObserveToken(q, m) /\ u = ObserveToken(r, ";")
      BY <1>6, <3>1
    <3>4. u = Parsed(t, "csi", y, Parameter(m), << >>)
      BY ONLY <3>2, <3>3, m \in Digits, ParseNext
    <3> QED BY <3>1, <3>4
  <2>3. ObserveToken(ObserveToken(f[4], n), b) =
          Reading(Apply(t, y, << >>, Together(Parameter(m), Parameter(n)), b))
    BY ONLY <1>2, <2>2, n \in Digits, ParseLast
  <2> QED BY <1>6, <2>3
<1>10. Observe(t, s) = Apply(t, y, << >>, p, b)
  <2>1. f[6].modes = Apply(t, y, << >>, p, b)
    BY <1>9, ReadingIs
  <2> QED BY <1>4, <1>5, <2>1
<1> QED BY <1>3, <1>8, <1>10 DEF Plain

\* The margins two parameters, or none, make.
Makes(p, x, y) == Margin(p) = <<x, y>>

\* A last row or column behind a first one makes a region.
LEMMA MarginIs ==
  ASSUME NEW x \in Nat, NEW y \in Nat, x > 0, y > x, NEW p, p = <<x, y>>
  PROVE  Makes(p, x, y)
BY DEF Margin, Makes

\* What the two sequences make of it.
Scrolled(t, x, y) == [t EXCEPT !.top = x, !.bottom = y]
Sided(t, x, y) == [t EXCEPT !.left = x, !.right = y]

\* DECSTBM keeps the margins as the scroll region.
LEMMA ScrollIs ==
  ASSUME NEW t, NEW p, NEW x, NEW y, Makes(p, x, y)
  PROVE  Plain(t, p, "r") = Scrolled(t, x, y)
<1>1. PICK m : m = <<x, y>> /\ Margin(p) = m
  BY DEF Makes
<1>2. << >> # <<"!">>
  BY ONLY TRUE
<1> QED BY <1>1, <1>2 DEF Apply, Plain, Scrolled

\* DECSLRM keeps them as the side margins, while DECLRMM is on.
LEMMA SidesAre ==
  ASSUME NEW t, NEW p, NEW x, NEW y, Makes(p, x, y), t.lrEnabled
  PROVE  Plain(t, p, "s") = Sided(t, x, y)
<1>1. PICK m : m = <<x, y>> /\ Margin(p) = m
  BY DEF Makes
<1>2. << >> # <<"!">>
  BY ONLY TRUE
<1> QED BY <1>1, <1>2 DEF Apply, Plain, Sided

\* The letters that set margins.
LEMMA MarginFinals ==
  \A b \in {"r", "s"} : b \in Chars
BY CharsAre

\* Setting the margins.
LEMMA RegionIs ==
  ASSUME NEW t, NEW x \in Values, NEW y \in Values, x > 0, y > x, NEW b \in {"r", "s"},
         NEW s, s = <<"ESC", "[", Token(x), ";", Token(y), b>>
  PROVE  /\ Lands(s)
         /\ b = "r" => Observe(t, s) = Scrolled(t, x, y)
         /\ b = "s" /\ t.lrEnabled => Observe(t, s) = Sided(t, x, y)
<1>1. x \in Nat /\ y \in Nat /\ y > 0
  <2>1. x \in Nat /\ y \in Nat
    BY ValuesAre
  <2> QED BY ONLY <2>1, x > 0, y > x
<1>2. PICK m \in Digits, n \in Digits :
        m = Token(x) /\ n = Token(y) /\ Numbers[m] = x /\ Numbers[n] = y
  BY ONLY <1>1, x \in Values, y \in Values, x > 0, ValuesAre
<1>3. PICK e, o, k : e = "ESC" /\ o = "[" /\ k = ";"
  OBVIOUS
<1>4. e \in Chars /\ o \in Chars /\ k \in Chars /\ m \in Chars /\ n \in Chars /\ b \in Chars
  BY <1>3, CharsAre, MarginFinals
<1>5. s = <<e, o, m, k, n, b>>
  BY <1>2, <1>3
<1>6. /\ s \in Seq(Chars) /\ Len(s) = 6
      /\ s[1] = e /\ s[2] = o /\ s[3] = m /\ s[4] = k /\ s[5] = n /\ s[6] = b
  BY ONLY <1>4, <1>5, Six
<1>7. PICK p : p = Together(Parameter(m), Parameter(n))
  OBVIOUS
<1>8. Lands(s) /\ Observe(t, s) = Plain(t, p, b)
  <2>1. Region(s, m, n, b)
    BY <1>3, <1>6 DEF Region
  <2> QED BY ONLY <1>7, <2>1, m \in Digits, n \in Digits, b \in {"r", "s"}, RegionReads
<1>9. p = <<x, y>>
  <2>1. <<x>> \o <<y>> = <<x, y>>
    BY ONLY <1>1, Pair
  <2> QED BY <1>2, <1>7, <2>1 DEF Together, Parameter
<1>10. Makes(p, x, y)
  BY ONLY <1>1, <1>9, x > 0, y > x, MarginIs
<1>11. Plain(t, p, "r") = Scrolled(t, x, y)
  BY ONLY <1>10, ScrollIs
<1>12. t.lrEnabled => Plain(t, p, "s") = Sided(t, x, y)
  BY ONLY <1>10, SidesAre
<1> QED BY <1>8, <1>11, <1>12

\* Resetting margins, read to the end.
LEMMA NoRegionReads ==
  ASSUME NEW t, NEW s \in Seq(Chars), Len(s) = 3, NEW b \in {"r", "s"},
         s[1] = "ESC", s[2] = "[", s[3] = b
  PROVE  Lands(s) /\ Observe(t, s) = Plain(t, << >>, b)
<1>1. b \in Finals
  BY DEF Finals
<1>2. Lands(s)
  <2>1. Len(s) >= 3 /\ Len(s) - 1 = 2
    BY ONLY Len(s) = 3
  <2>2. \A i \in 3..Len(s) - 1 : FALSE
    BY ONLY Len(s) = 3
  <2>3. s[Len(s)] \in Finals
    BY <1>1
  <2>4. IsCSI(s)
    BY <2>1, <2>2, <2>3 DEF IsCSI
  <2> QED BY <2>4, ItemLands DEF IsItem
<1>3. PICK k \in Nat : k = 3 /\ Len(s) = k /\ Len(s) \in Nat
  BY ONLY Len(s) = 3
<1>4. PICK f : IsRead(t, s, f, Len(s)) /\ Observe(t, s) = f[Len(s)].modes
  BY <1>3, ReadIs
<1>5. /\ f[0] = Reading(t) /\ f[1] = ObserveToken(f[0], "ESC") /\ f[2] = ObserveToken(f[1], "[")
      /\ f[3] = ObserveToken(f[2], b)
  <2>1. /\ f[0] = Reading(t) /\ f[1] = ObserveToken(f[0], s[1])
        /\ f[2] = ObserveToken(f[1], s[2]) /\ f[3] = ObserveToken(f[2], s[3])
    <3>1. k >= 1 /\ k >= 2 /\ k >= 3
      BY ONLY <1>3
    <3>2. k \in Nat /\ Len(s) = k /\ IsRead(t, s, f, Len(s))
      BY <1>3, <1>4
    <3> QED BY ONLY <3>1, <3>2, Rounds
  <2> QED BY <2>1
<1>6. f[2] = Parsed(t, "bracket", FALSE, << >>, << >>)
  BY <1>5, ParseOpen
<1>7. PICK y, no : y = FALSE /\ no = << >>
  OBVIOUS
<1>8. f[2] = Parsed(t, "bracket", y, no, no)
  BY <1>6, <1>7
<1>9. no = Together(no, no)
  <2>1. no = << >>
    BY <1>7
  <2> QED BY ONLY <2>1, NothingBefore DEF Together
<1>10. ObserveToken(Parsed(t, "bracket", y, no, no), b) = Reading(Apply(t, y, << >>, no, b))
  BY ONLY <1>1, <1>9, ParseFinal
<1>11. f[3] = Reading(Apply(t, y, << >>, no, b))
  BY <1>5, <1>8, <1>10
<1>12. Observe(t, s) = Apply(t, y, << >>, no, b)
  <2>1. f[3].modes = Apply(t, y, << >>, no, b)
    BY <1>11, ReadingIs
  <2> QED BY <1>3, <1>4, <2>1
<1> QED BY <1>2, <1>7, <1>12 DEF Plain

\* No parameters make no margins.
LEMMA NoMargin ==
  Makes(<< >>, 0, 0)
BY DEF Margin, Makes

\* Resetting the scroll region.
LEMMA NoRegionIs ==
  ASSUME NEW t, NEW s, s = <<"ESC", "[", "r">>
  PROVE  Lands(s) /\ Observe(t, s) = Scrolled(t, 0, 0)
<1>1. PICK e, o, b : e = "ESC" /\ o = "[" /\ b = "r"
  OBVIOUS
<1>2. e \in Chars /\ o \in Chars /\ b \in Chars
  BY <1>1, CharsAre
<1>3. s = <<e, o, b>>
  BY <1>1
<1>4. s \in Seq(Chars) /\ Len(s) = 3 /\ s[1] = e /\ s[2] = o /\ s[3] = b
  BY <1>2, <1>3, Three
<1>5. PICK no : no = << >>
  OBVIOUS
<1>6. Lands(s) /\ Observe(t, s) = Plain(t, no, b)
  <2>1. Lands(s) /\ Observe(t, s) = Plain(t, << >>, b)
    BY ONLY <1>1, <1>4, NoRegionReads
  <2> QED BY <1>5, <2>1
<1>7. PICK x, y : x = 0 /\ y = 0
  OBVIOUS
<1>8. Makes(no, x, y)
  BY <1>5, <1>7, NoMargin
<1>9. Plain(t, no, b) = Scrolled(t, x, y)
  <2>1. Plain(t, no, "r") = Scrolled(t, x, y)
    BY ONLY <1>8, ScrollIs
  <2> QED BY <1>1, <2>1
<1> QED BY <1>6, <1>7, <1>9
-----------------------------------------------------------------------------
\* Modes with all fields alike are the same.
LEMMA SameModes ==
  ASSUME NEW a \in ModeRecord, NEW b \in ModeRecord,
         a.top = b.top, a.bottom = b.bottom, a.lrEnabled = b.lrEnabled,
         a.left = b.left, a.right = b.right, a.origin = b.origin,
         a.autowrapOff = b.autowrapOff, a.cursorHide = b.cursorHide, a.alt = b.alt
  PROVE  a = b
BY DEF ModeRecord

\* The parts of a replay that depend on what is on.
EnableOf(t) == IF t.lrEnabled THEN Flag("69", TRUE) ELSE << >>
SidesOf(t) ==
  IF t.lrEnabled /\ t.left > 0
  THEN <<"ESC", "[", Token(t.left), ";", Token(t.right), "s">> ELSE << >>
RegionOf(t) ==
  IF t.top > 0 THEN <<"ESC", "[", Token(t.top), ";", Token(t.bottom), "r">> ELSE << >>
HomeOf(t) == IF t.origin THEN Flag("6", TRUE) ELSE << >>

\* What each part of a replay of t gives a terminal in modes y.
Wrapped(y, t) == [y EXCEPT !.autowrapOff = t.autowrapOff]
Hidden(y, t)  == [y EXCEPT !.cursorHide = t.cursorHide]
Enabled(y, t) == [y EXCEPT !.lrEnabled = t.lrEnabled]
Homed(y, t)   == [y EXCEPT !.origin = t.origin]
Switched(y, t) == [y EXCEPT !.alt = t.alt]

\* A mode that is set or reset.
LEMMA ModeFlags ==
  ASSUME NEW y, NEW set
  PROVE  /\ SetMode(y, Numbers["6"], set) = [y EXCEPT !.origin = set]
         /\ SetMode(y, Numbers["7"], set) = [y EXCEPT !.autowrapOff = ~set]
         /\ SetMode(y, Numbers["25"], set) = [y EXCEPT !.cursorHide = ~set]
         /\ SetMode(y, Numbers["1049"], set) = [y EXCEPT !.alt = set]
         /\ SetMode(y, Numbers["69"], TRUE) = [y EXCEPT !.lrEnabled = TRUE]
<1>1. /\ Numbers["6"] = 6 /\ Numbers["7"] = 7 /\ Numbers["25"] = 25
      /\ Numbers["69"] = 69 /\ Numbers["1049"] = 1049
  BY DEF Numbers
<1> QED BY <1>1 DEF SetMode

\* The tokens of those modes.
LEMMA ModeDigits ==
  {"6", "7", "25", "69", "1049"} \subseteq Digits
BY DEF Digits, Numbers

\* One after the other.
LEMMA JoinTwo ==
  ASSUME NEW y, NEW p, Lands(p), NEW a, a = Observe(y, p), NEW q, Lands(q), NEW b, b = Observe(a, q)
  PROVE  Lands(p \o q) /\ Observe(y, p \o q) = b
<1>1. q \in Seq(Chars)
  BY DEF Lands
<1> QED BY <1>1, LandsConcat, Joins

\* The parts of a replay, each on its own.
LEMMA WrapPart ==
  ASSUME NEW y \in ModeRecord, NEW t \in ModeRecord, NEW p, p = Flag("7", ~t.autowrapOff)
  PROVE  Lands(p) /\ Observe(y, p) = Wrapped(y, t)
<1>1. PICK v \in BOOLEAN : (v <=> ~t.autowrapOff) /\ ((~v) <=> t.autowrapOff)
  OBVIOUS
<1>2. p = Flag("7", v)
  <2>1. v = ~t.autowrapOff
    BY <1>1
  <2> QED BY <2>1
<1>3. Lands(Flag("7", v)) /\ Observe(y, Flag("7", v)) = SetMode(y, Numbers["7"], v)
  BY ModeDigits, FlagIs
<1>4. SetMode(y, Numbers["7"], v) = [y EXCEPT !.autowrapOff = ~v]
  BY ModeFlags
<1>5. (~v) = t.autowrapOff
  BY <1>1 DEF ModeRecord
<1> QED BY <1>2, <1>3, <1>4, <1>5 DEF Wrapped

\* The cursor's visibility is always repeated, like autowrap.
LEMMA CursorPart ==
  ASSUME NEW y \in ModeRecord, NEW t \in ModeRecord, NEW p, p = Flag("25", ~t.cursorHide)
  PROVE  Lands(p) /\ Observe(y, p) = Hidden(y, t)
<1>1. PICK v \in BOOLEAN : (v <=> ~t.cursorHide) /\ ((~v) <=> t.cursorHide)
  OBVIOUS
<1>2. p = Flag("25", v)
  <2>1. v = ~t.cursorHide
    BY <1>1
  <2> QED BY <2>1
<1>3. Lands(Flag("25", v)) /\ Observe(y, Flag("25", v)) = SetMode(y, Numbers["25"], v)
  BY ModeDigits, FlagIs
<1>4. SetMode(y, Numbers["25"], v) = [y EXCEPT !.cursorHide = ~v]
  BY ModeFlags
<1>5. (~v) = t.cursorHide
  BY <1>1 DEF ModeRecord
<1> QED BY <1>2, <1>3, <1>4, <1>5 DEF Hidden

\* DECLRMM is repeated only when it is on; a terminal that has it off needs nothing.
LEMMA EnablePart ==
  ASSUME NEW y \in ModeRecord, NEW t \in ModeRecord, y.lrEnabled => t.lrEnabled,
         NEW p, p = EnableOf(t)
  PROVE  Lands(p) /\ Observe(y, p) = Enabled(y, t)
<1>0. PICK e : e = Enabled(y, t)
  OBVIOUS
<1>1. CASE t.lrEnabled
  <2>1. PICK v \in BOOLEAN : v = TRUE
    OBVIOUS
  <2>2. Lands(Flag("69", v)) /\ Observe(y, Flag("69", v)) = SetMode(y, Numbers["69"], v)
    BY ModeDigits, FlagIs
  <2>3. SetMode(y, Numbers["69"], v) = [y EXCEPT !.lrEnabled = TRUE]
    BY <2>1, ModeFlags
  <2>4. e = [y EXCEPT !.lrEnabled = TRUE]
    BY <1>0, <1>1 DEF Enabled, ModeRecord
  <2>5. p = Flag("69", v)
    BY <1>1, <2>1 DEF EnableOf
  <2> QED BY <1>0, <2>2, <2>3, <2>4, <2>5
<1>2. CASE ~t.lrEnabled
  <2>1. y = e
    BY <1>0, <1>2 DEF Enabled, ModeRecord
  <2>2. p = << >>
    BY <1>2 DEF EnableOf
  <2> QED BY <1>0, <2>1, <2>2, LandsNothing
<1> QED BY <1>1, <1>2

\* So is the origin mode.
LEMMA HomePart ==
  ASSUME NEW y \in ModeRecord, NEW t \in ModeRecord, y.origin => t.origin,
         NEW p, p = HomeOf(t)
  PROVE  Lands(p) /\ Observe(y, p) = Homed(y, t)
<1>0. PICK e : e = Homed(y, t)
  OBVIOUS
<1>1. CASE t.origin
  <2>1. PICK v \in BOOLEAN : v = TRUE
    OBVIOUS
  <2>2. Lands(Flag("6", v)) /\ Observe(y, Flag("6", v)) = SetMode(y, Numbers["6"], v)
    BY ModeDigits, FlagIs
  <2>3. SetMode(y, Numbers["6"], v) = [y EXCEPT !.origin = TRUE]
    BY <2>1, ModeFlags
  <2>4. e = [y EXCEPT !.origin = TRUE]
    BY <1>0, <1>1 DEF Homed, ModeRecord
  <2>5. p = Flag("6", v)
    BY <1>1, <2>1 DEF HomeOf
  <2> QED BY <1>0, <2>2, <2>3, <2>4, <2>5
<1>2. CASE ~t.origin
  <2>1. y = e
    BY <1>0, <1>2 DEF Homed, ModeRecord
  <2>2. p = << >>
    BY <1>2 DEF HomeOf
  <2> QED BY <1>0, <2>1, <2>2, LandsNothing
<1> QED BY <1>1, <1>2

\* And the alternate screen.
LEMMA SwitchPart ==
  ASSUME NEW y \in ModeRecord, NEW t \in ModeRecord, y.alt => t.alt,
         NEW p, p = IF t.alt THEN Flag("1049", TRUE) ELSE << >>
  PROVE  Lands(p) /\ Observe(y, p) = Switched(y, t)
<1>0. PICK e : e = Switched(y, t)
  OBVIOUS
<1>1. CASE t.alt
  <2>1. PICK v \in BOOLEAN : v = TRUE
    OBVIOUS
  <2>2. Lands(Flag("1049", v)) /\ Observe(y, Flag("1049", v)) = SetMode(y, Numbers["1049"], v)
    BY ModeDigits, FlagIs
  <2>3. SetMode(y, Numbers["1049"], v) = [y EXCEPT !.alt = TRUE]
    BY <2>1, ModeFlags
  <2>4. e = [y EXCEPT !.alt = TRUE]
    BY <1>0, <1>1 DEF Switched, ModeRecord
  <2>5. p = Flag("1049", v)
    BY <1>1, <2>1
  <2> QED BY <1>0, <2>2, <2>3, <2>4, <2>5
<1>2. CASE ~t.alt
  <2>1. y = e
    BY <1>0, <1>2 DEF Switched, ModeRecord
  <2>2. p = << >>
    BY <1>2
  <2> QED BY <1>0, <2>1, <2>2, LandsNothing
<1> QED BY <1>1, <1>2

\* The side margins, for a terminal that has none yet and agrees on DECLRMM.
LEMMA SidesPart ==
  ASSUME NEW y \in ModeRecord, NEW t \in Modes, y.left = 0, y.right = 0,
         y.lrEnabled = t.lrEnabled,
         NEW p, p = SidesOf(t)
  PROVE  Lands(p) /\ Observe(y, p) = Sided(y, t.left, t.right)
<1>1. /\ t.left \in Values /\ t.right \in Values /\ Framed(t.left, t.right)
      /\ t.left > 0 => t.lrEnabled
  BY ModesAre
<1>2. PICK a \in Values, b \in Values : a = t.left /\ b = t.right
  BY <1>1
<1>3. CASE a > 0
  <2>1. b > a /\ y.lrEnabled
    BY <1>1, <1>2, <1>3 DEF Framed
  <2>2. p = <<"ESC", "[", Token(a), ";", Token(b), "s">>
    BY <1>1, <1>2, <1>3 DEF SidesOf
  <2>3. Lands(p) /\ Observe(y, p) = Sided(y, a, b)
    <3>1. PICK c \in {"r", "s"} : c = "s"
      OBVIOUS
    <3>2. p = <<"ESC", "[", Token(a), ";", Token(b), c>>
      BY <2>2, <3>1
    <3> QED BY ONLY <1>3, <2>1, <3>1, <3>2, a \in Values, b \in Values, RegionIs
  <2> QED BY <1>2, <2>3
<1>4. CASE ~(a > 0)
  <2>1. a = 0 /\ b = 0
    <3>1. a \in Nat /\ Framed(a, b)
      BY <1>1, <1>2, ValuesAre
    <3> QED BY ONLY <1>4, <3>1 DEF Framed
  <2>2. p = << >>
    BY <1>2, <1>4 DEF SidesOf
  <2>3. PICK e : e = Sided(y, a, b)
    OBVIOUS
  <2>4. e = y
    BY <2>1, <2>3 DEF Sided, ModeRecord
  <2> QED BY <1>2, <2>2, <2>3, <2>4, LandsNothing
<1> QED BY <1>3, <1>4

\* The scroll region, for a terminal that has none yet.
LEMMA RegionPart ==
  ASSUME NEW y \in ModeRecord, NEW t \in Modes, y.top = 0, y.bottom = 0,
         NEW p, p = RegionOf(t)
  PROVE  Lands(p) /\ Observe(y, p) = Scrolled(y, t.top, t.bottom)
<1>1. t.top \in Values /\ t.bottom \in Values /\ Framed(t.top, t.bottom)
  BY ModesAre
<1>2. PICK a \in Values, b \in Values : a = t.top /\ b = t.bottom
  BY <1>1
<1>3. CASE a > 0
  <2>1. b > a
    BY <1>1, <1>2, <1>3 DEF Framed
  <2>2. p = <<"ESC", "[", Token(a), ";", Token(b), "r">>
    BY <1>1, <1>2, <1>3 DEF RegionOf
  <2>3. Lands(p) /\ Observe(y, p) = Scrolled(y, a, b)
    <3>1. PICK c \in {"r", "s"} : c = "r"
      OBVIOUS
    <3>2. p = <<"ESC", "[", Token(a), ";", Token(b), c>>
      BY <2>2, <3>1
    <3> QED BY ONLY <1>3, <2>1, <3>1, <3>2, a \in Values, b \in Values, RegionIs
  <2> QED BY <1>2, <2>3
<1>4. CASE ~(a > 0)
  <2>1. a = 0 /\ b = 0
    <3>1. a \in Nat /\ Framed(a, b)
      BY <1>1, <1>2, ValuesAre
    <3> QED BY ONLY <1>4, <3>1 DEF Framed
  <2>2. p = << >>
    BY <1>2, <1>4 DEF RegionOf
  <2>3. PICK e : e = Scrolled(y, a, b)
    OBVIOUS
  <2>4. e = y
    BY <2>1, <2>3 DEF Scrolled, ModeRecord
  <2> QED BY <1>2, <2>2, <2>3, <2>4, LandsNothing
<1> QED BY <1>3, <1>4

\* Every part leaves the rest alone.
LEMMA PartsAre ==
  ASSUME NEW y \in ModeRecord, NEW t \in ModeRecord
  PROVE  /\ Wrapped(y, t) \in ModeRecord /\ Hidden(y, t) \in ModeRecord
         /\ Enabled(y, t) \in ModeRecord /\ Homed(y, t) \in ModeRecord
         /\ Switched(y, t) \in ModeRecord
         /\ Sided(y, t.left, t.right) \in ModeRecord
         /\ Scrolled(y, t.top, t.bottom) \in ModeRecord
<1>1. /\ t.top \in Values /\ t.bottom \in Values /\ t.left \in Values /\ t.right \in Values
      /\ t.lrEnabled \in BOOLEAN /\ t.origin \in BOOLEAN /\ t.autowrapOff \in BOOLEAN
      /\ t.cursorHide \in BOOLEAN /\ t.alt \in BOOLEAN
  BY DEF ModeRecord
<1> QED BY <1>1 DEF ModeRecord, Wrapped, Hidden, Enabled, Homed, Switched, Sided, Scrolled

\* A terminal without margins, with DECLRMM and DECOM only if t has them.
Bare(y, t) ==
  /\ y \in Modes /\ y.top = 0 /\ y.bottom = 0 /\ y.left = 0 /\ y.right = 0
  /\ (y.lrEnabled => t.lrEnabled) /\ (y.origin => t.origin)

\* On such a terminal a replay of t reestablishes t, but for the screen that is shown.
LEMMA ReplayIs ==
  ASSUME NEW t \in Modes, NEW y, Bare(y, t)
  PROVE  Lands(Replay(t)) /\ Observe(y, Replay(t)) = [t EXCEPT !.alt = y.alt]
<1>1. /\ t \in ModeRecord /\ y \in ModeRecord
      /\ y.top = 0 /\ y.bottom = 0 /\ y.left = 0 /\ y.right = 0
      /\ (y.lrEnabled => t.lrEnabled) /\ (y.origin => t.origin)
  BY ModesAre DEF Bare
<1>2. PICK p1, p2, p3, p4, p5, p6 :
        /\ p1 = Flag("7", ~t.autowrapOff)
        /\ p2 = Flag("25", ~t.cursorHide)
        /\ p3 = EnableOf(t) /\ p4 = SidesOf(t) /\ p5 = RegionOf(t) /\ p6 = HomeOf(t)
  OBVIOUS
<1>3. Replay(t) = ((((p1 \o p2) \o p3) \o p4) \o p5) \o p6
  BY <1>2 DEF Replay, EnableOf, SidesOf, RegionOf, HomeOf
<1>4. PICK y1, y2, y3, y4, y5, y6 :
        /\ y1 = Wrapped(y, t) /\ y2 = Hidden(y1, t) /\ y3 = Enabled(y2, t)
        /\ y4 = Sided(y3, t.left, t.right) /\ y5 = Scrolled(y4, t.top, t.bottom)
        /\ y6 = Homed(y5, t)
  OBVIOUS
<1>5. /\ y1 \in ModeRecord /\ y2 \in ModeRecord /\ y3 \in ModeRecord
      /\ y4 \in ModeRecord /\ y5 \in ModeRecord /\ y6 \in ModeRecord
  <2>1. y1 \in ModeRecord
    BY ONLY <1>1, <1>4, PartsAre
  <2>2. y2 \in ModeRecord
    BY ONLY <1>1, <1>4, <2>1, PartsAre
  <2>3. y3 \in ModeRecord
    BY ONLY <1>1, <1>4, <2>2, PartsAre
  <2>4. y4 \in ModeRecord
    BY ONLY <1>1, <1>4, <2>3, PartsAre
  <2>5. y5 \in ModeRecord
    BY ONLY <1>1, <1>4, <2>4, PartsAre
  <2> QED BY ONLY <1>1, <1>4, <2>1, <2>2, <2>3, <2>4, <2>5, PartsAre
<1>6. /\ y2.lrEnabled = y.lrEnabled
      /\ y3.left = 0 /\ y3.right = 0 /\ y3.lrEnabled = t.lrEnabled
      /\ y4.top = 0 /\ y4.bottom = 0 /\ y5.origin = y.origin
  BY ONLY <1>1, <1>4, <1>5 DEF ModeRecord, Wrapped, Hidden, Enabled, Sided, Scrolled, Homed
<1>7. Lands(p1) /\ Observe(y, p1) = y1
  BY ONLY <1>1, <1>2, <1>4, WrapPart
<1>8. Lands(p2) /\ Observe(y1, p2) = y2
  BY ONLY <1>1, <1>2, <1>4, <1>5, CursorPart
<1>9. Lands(p3) /\ Observe(y2, p3) = y3
  BY ONLY <1>1, <1>2, <1>4, <1>5, <1>6, EnablePart
<1>10. Lands(p4) /\ Observe(y3, p4) = y4
  BY ONLY <1>2, <1>4, <1>5, <1>6, t \in Modes, SidesPart
<1>11. Lands(p5) /\ Observe(y4, p5) = y5
  BY ONLY <1>2, <1>4, <1>5, <1>6, t \in Modes, RegionPart
<1>12. Lands(p6) /\ Observe(y5, p6) = y6
  BY ONLY <1>1, <1>2, <1>4, <1>5, <1>6, HomePart
<1>13. Lands(Replay(t)) /\ Observe(y, Replay(t)) = y6
  <2>1. Lands(p1 \o p2) /\ Observe(y, p1 \o p2) = y2
    BY ONLY <1>7, <1>8, JoinTwo
  <2>2. Lands((p1 \o p2) \o p3) /\ Observe(y, (p1 \o p2) \o p3) = y3
    BY ONLY <2>1, <1>9, JoinTwo
  <2>3. Lands(((p1 \o p2) \o p3) \o p4) /\ Observe(y, ((p1 \o p2) \o p3) \o p4) = y4
    BY ONLY <2>2, <1>10, JoinTwo
  <2>4. /\ Lands((((p1 \o p2) \o p3) \o p4) \o p5)
        /\ Observe(y, (((p1 \o p2) \o p3) \o p4) \o p5) = y5
    BY ONLY <2>3, <1>11, JoinTwo
  <2>5. /\ Lands(((((p1 \o p2) \o p3) \o p4) \o p5) \o p6)
        /\ Observe(y, ((((p1 \o p2) \o p3) \o p4) \o p5) \o p6) = y6
    BY ONLY <2>4, <1>12, JoinTwo
  <2> QED BY ONLY <1>3, <2>5
<1>14. PICK r : r = [t EXCEPT !.alt = y.alt]
  OBVIOUS
<1>15. r \in ModeRecord
  BY <1>1, <1>14 DEF ModeRecord
<1>16. /\ y6.top = r.top /\ y6.bottom = r.bottom /\ y6.left = r.left /\ y6.right = r.right
       /\ y6.lrEnabled = r.lrEnabled /\ y6.origin = r.origin /\ y6.alt = r.alt
       /\ y6.autowrapOff = r.autowrapOff /\ y6.cursorHide = r.cursorHide
  BY ONLY <1>1, <1>4, <1>5, <1>14, <1>15
     DEF ModeRecord, Wrapped, Hidden, Enabled, Sided, Scrolled, Homed
<1>17. y6 = r
  BY ONLY <1>5, <1>15, <1>16, SameModes
<1> QED BY <1>13, <1>14, <1>17

\* A replica that starts from a snapshot has the modes of the session ...
LEMMA SnapshotIs ==
  ASSUME NEW t \in Modes PROVE Observe(Fresh, SnapshotOf(t)) = t
<1>1. PICK y : y = Fresh
  OBVIOUS
<1>2. /\ y \in Modes /\ y \in ModeRecord /\ t \in ModeRecord
      /\ y.top = 0 /\ y.bottom = 0 /\ y.left = 0 /\ y.right = 0
      /\ ~y.lrEnabled /\ ~y.origin /\ ~y.alt
  BY <1>1, FreshOK, ModesAre DEF Fresh
<1>3. PICK p, a : p = (IF t.alt THEN Flag("1049", TRUE) ELSE << >>) /\ a = Switched(y, t)
  OBVIOUS
<1>4. Lands(p) /\ Observe(y, p) = a
  BY ONLY <1>2, <1>3, SwitchPart
<1>5. Bare(a, t) /\ a.alt = t.alt
  <2>1. a \in ModeRecord
    BY ONLY <1>2, <1>3, PartsAre
  <2>2. /\ a.top = 0 /\ a.bottom = 0 /\ a.left = 0 /\ a.right = 0
        /\ ~a.lrEnabled /\ ~a.origin /\ a.alt = t.alt
    BY ONLY <1>2, <1>3, <2>1 DEF Switched, ModeRecord
  <2>3. a \in Modes
    BY ONLY <2>1, <2>2, NoMargins DEF Modes
  <2> QED BY <2>2, <2>3 DEF Bare
<1>6. PICK q : q = Replay(t)
  OBVIOUS
<1>7. Lands(q) /\ Observe(a, q) = [t EXCEPT !.alt = a.alt]
  BY ONLY <1>5, <1>6, t \in Modes, ReplayIs
<1>8. [t EXCEPT !.alt = a.alt] = t
  BY <1>2, <1>5 DEF ModeRecord
<1>9. Observe(y, p \o q) = t
  BY ONLY <1>4, <1>7, <1>8, JoinTwo
<1>10. SnapshotOf(t) = p \o q
  BY <1>3, <1>6 DEF SnapshotOf
<1> QED BY <1>1, <1>9, <1>10

\* ... and a repaint of one that was resized with it changes none of them.
LEMMA RepaintIs ==
  ASSUME NEW t \in Modes, t.top = 0, t.bottom = 0, t.left = 0, t.right = 0
  PROVE  Observe(t, RepaintOf(t)) = t
<1>1. PICK p : p = <<"ESC", "[", "r">>
  OBVIOUS
<1>2. t \in ModeRecord
  BY ModesAre
<1>3. Lands(p) /\ Observe(t, p) = t
  <2>1. Lands(p) /\ Observe(t, p) = Scrolled(t, 0, 0)
    BY ONLY <1>1, NoRegionIs
  <2>2. PICK e : e = Scrolled(t, 0, 0)
    OBVIOUS
  <2>3. e = t
    BY <1>2, <2>2 DEF Scrolled, ModeRecord
  <2> QED BY <2>1, <2>2, <2>3
<1>4. Bare(t, t)
  BY DEF Bare
<1>5. PICK q : q = Replay(t)
  OBVIOUS
<1>6. Lands(q) /\ Observe(t, q) = [t EXCEPT !.alt = t.alt]
  BY ONLY <1>4, <1>5, t \in Modes, ReplayIs
<1>7. [t EXCEPT !.alt = t.alt] = t
  BY <1>2 DEF ModeRecord
<1>8. Observe(t, p \o q) = t
  BY ONLY <1>3, <1>6, <1>7, JoinTwo
<1>9. RepaintOf(t) = p \o q
  BY <1>1, <1>5 DEF RepaintOf
<1> QED BY <1>8, <1>9
-----------------------------------------------------------------------------
\* The final bytes of the sequences that change modes.
ModeFinals == {"h", "l", "p", "r", "s"}

\* A c behind an ESC is all of an item.
LEMMA ResetShape ==
  ASSUME NEW s, IsItem(s), Len(s) >= 2, s[Len(s) - 1] = "ESC", s[Len(s)] = "c"
  PROVE  s = <<"ESC", "c">>
<1>1. Len(s) \in Nat /\ Len(s) - 1 \in 1..Len(s)
  BY ItemEnd
<1>2. ~IsRune(s)
  BY <1>1, RuneStep DEF IsItem
<1>3. s[1] = "ESC" /\ \A a \in 2..Len(s) : s[a] = "ESC" => a = Len(s) - 1 /\ s[Len(s)] = "\\"
  BY <1>2, SequenceShape
<1>4. Len(s) = 2
  <2>1. PICK a : a = Len(s) - 1
    OBVIOUS
  <2>2. ~(a \in 2..Len(s))
    <3>1. s[a] = "ESC" /\ s[Len(s)] # "\\"
      BY <2>1
    <3> QED BY ONLY <1>3, <3>1
  <2> QED BY ONLY <1>1, <2>1, <2>2, Len(s) >= 2
<1>5. s \in Seq(Chars)
  BY DEF IsItem
<1>6. s[2] = "c"
  BY <1>4
<1> QED BY ONLY <1>3, <1>4, <1>5, <1>6

\* Any other item that is no CSI sequence with one of them leaves the modes alone.
LEMMA InertItem ==
  ASSUME NEW t, NEW s, IsItem(s), s # <<"ESC", "c">>, ~(IsCSI(s) /\ s[Len(s)] \in ModeFinals)
  PROVE  Observe(t, s) = t
<1>0. Len(s) \in Nat \ {0}
  BY ItemEnd
<1>1. PICK f : IsRead(t, s, f, Len(s)) /\ Observe(t, s) = f[Len(s)].modes
  BY <1>0, ReadIs
<1>2. PICK n \in Nat, m \in Nat : n = Len(s) /\ m = n - 1 /\ m \in 0..Len(s) /\ n \in 1..Len(s)
  BY <1>0
<1>3. PICK r, q : r = f[m] /\ q = f[n] /\ q = ObserveToken(r, s[n])
  BY <1>1, <1>2 DEF IsRead
<1>4. IsRead(t, s, [i \in 0..m |-> f[i]], m)
  BY <1>1, <1>2 DEF IsRead
<1>5. Inside(t, s, r, m)
  <2>1. PICK g : g = [i \in 0..m |-> f[i]]
    OBVIOUS
  <2>2. Inside(t, s, g[m], m)
    BY <1>2, <1>4, <2>1, ItemInside
  <2>3. g[m] = f[m]
    BY <1>2, <2>1
  <2> QED BY <1>3, <2>2, <2>3
<1>6. r.modes = t /\ IsReader(r)
  BY <1>2, <1>5 DEF Inside
<1>7. CASE r.place \in {"ground", "escape"}
  <2>1. ~(r.place = "escape" /\ s[n] = "c")
    <3>1. SUFFICES ASSUME r.place = "escape", s[n] = "c" PROVE FALSE
      OBVIOUS
    <3>2. m >= 1 /\ s[m] = "ESC"
      BY <1>5, <3>1 DEF Inside
    <3>3. Len(s) >= 2 /\ s[Len(s) - 1] = "ESC" /\ s[Len(s)] = "c"
      BY <1>2, <3>1, <3>2
    <3> QED BY <3>3, ResetShape
  <2>2. q.modes = r.modes
    BY <1>3, <1>7, <2>1, OutsideCSI, ReadingIs
  <2> QED BY <1>1, <1>2, <1>3, <1>6, <2>2
<1>8. CASE r.place \in {"bracket", "csi"}
  <2>1. IsCSI(s) /\ s[n] \in Finals /\ s[n] \notin ModeFinals
    BY <1>2, <1>5, <1>8 DEF Inside, IsCSI
  <2>2. q = ObserveCSI(r, s[n])
    BY <1>3, <1>8 DEF ObserveToken
  <2>3. q = Reading(Apply(r.modes, r.private, r.intermediates, r.params \o r.current, s[n]))
    BY <2>1, <2>2, Kinds DEF ObserveCSI
  <2>4. \A y, i, p : Apply(r.modes, y, i, p, s[n]) = r.modes
    BY <2>1 DEF Apply, ModeFinals
  <2>5. q = Reading(r.modes)
    BY <2>3, <2>4
  <2> QED BY <1>1, <1>2, <1>3, <1>6, <2>5, ReadingIs
<1> QED BY <1>6, <1>7, <1>8 DEF IsReader

\* RIS ...
LEMMA FullReset ==
  ASSUME NEW t, NEW s, s = <<"ESC", "c">> PROVE Observe(t, s) = Fresh
<1>1. PICK e, c : e = "ESC" /\ c = "c"
  OBVIOUS
<1>3. Len(s) = 2 /\ s[1] = e /\ s[2] = c
  BY <1>1
<1>4. PICK k \in Nat : k = 2 /\ Len(s) = k
  BY ONLY <1>3
<1>5. PICK f : IsRead(t, s, f, Len(s)) /\ Observe(t, s) = f[Len(s)].modes
  BY <1>4, ReadIs
<1>6. f[0] = Reading(t) /\ f[1] = ObserveToken(f[0], s[1]) /\ f[2] = ObserveToken(f[1], s[2])
  <2>1. k >= 1 /\ k >= 2
    BY ONLY <1>4
  <2>2. k \in Nat /\ Len(s) = k /\ IsRead(t, s, f, Len(s))
    BY <1>4, <1>5
  <2> QED BY ONLY <2>1, <2>2, Rounds
<1>7. f[1] = Parsed(t, "escape", FALSE, << >>, << >>)
  BY ONLY <1>1, <1>3, <1>6, ParseOpen
<1>8. f[1].place = "escape"
  BY ONLY <1>7 DEF Parsed
<1>9. ObserveToken(f[1], "c") = Reading(Fresh)
  BY ONLY <1>8 DEF ObserveToken
<1>10. f[2].modes = Fresh
  BY ONLY <1>1, <1>3, <1>6, <1>9, ReadingIs
<1> QED BY <1>3, <1>5, <1>10

\* ... and DECSTR reset them all.
LEMMA SoftReset ==
  ASSUME NEW t, NEW s, s = <<"ESC", "[", "!", "p">> PROVE Observe(t, s) = Fresh
<1>1. PICK e, o, x, p : e = "ESC" /\ o = "[" /\ x = "!" /\ p = "p"
  OBVIOUS
<1>2. s = <<e, o, x, p>>
  BY <1>1
<1>3. Len(s) = 4 /\ s[1] = e /\ s[2] = o /\ s[3] = x /\ s[4] = p
  BY ONLY <1>2
<1>4. PICK k \in Nat : k = 4 /\ Len(s) = k
  BY ONLY <1>3
<1>5. PICK f : IsRead(t, s, f, Len(s)) /\ Observe(t, s) = f[Len(s)].modes
  BY <1>4, ReadIs
<1>6. /\ f[0] = Reading(t) /\ f[1] = ObserveToken(f[0], s[1]) /\ f[2] = ObserveToken(f[1], s[2])
      /\ f[3] = ObserveToken(f[2], s[3]) /\ f[4] = ObserveToken(f[3], s[4])
  <2>1. k >= 1 /\ k >= 2 /\ k >= 3 /\ k >= 4
    BY ONLY <1>4
  <2>2. k \in Nat /\ Len(s) = k /\ IsRead(t, s, f, Len(s))
    BY <1>4, <1>5
  <2> QED BY ONLY <2>1, <2>2, Rounds
<1>7. f[2] = Parsed(t, "bracket", FALSE, << >>, << >>)
  BY ONLY <1>1, <1>3, <1>6, ParseOpen
<1>8. PICK r : r = f[2] /\ r.place = "bracket" /\ r.intermediates = << >>
  BY ONLY <1>7 DEF Parsed
<1>9. x \in Intermediates /\ p \in Finals
  BY <1>1 DEF Intermediates, Finals
<1>10. PICK v : v = <<x>>
  OBVIOUS
<1>11. PICK q : q = f[3] /\ q.place = "csi" /\ q.intermediates = v
  <2>1. ObserveToken(r, x) = ObserveCSI(r, x)
    BY ONLY <1>8 DEF ObserveToken
  <2>2. ObserveCSI(r, x) =
          [[r EXCEPT !.place = "csi"] EXCEPT !.intermediates = r.intermediates \o <<x>>]
    BY ONLY <1>9, Kinds DEF ObserveCSI
  <2>3. r.intermediates \o <<x>> = v
    <3>1. v \in Seq({x})
      BY ONLY <1>10
    <3> QED BY <1>8, <1>10, <3>1, NothingBefore
  <2>4. ObserveCSI(r, x) = [[r EXCEPT !.place = "csi"] EXCEPT !.intermediates = v]
    BY ONLY <2>2, <2>3
  <2>5. f[3] = ObserveCSI(r, x)
    BY ONLY <1>3, <1>6, <1>8, <2>1
  <2>6. r = Parsed(t, "bracket", FALSE, << >>, << >>)
    BY ONLY <1>7, <1>8
  <2>7. f[3].place = "csi" /\ f[3].intermediates = v
    BY ONLY <2>4, <2>5, <2>6 DEF Parsed
  <2> QED BY ONLY <2>7
<1>12. ObserveToken(q, p) =
         Reading(Apply(q.modes, q.private, q.intermediates, q.params \o q.current, p))
  <2>1. ObserveToken(q, p) = ObserveCSI(q, p)
    BY ONLY <1>11 DEF ObserveToken
  <2>2. ObserveCSI(q, p) =
          Reading(Apply(q.modes, q.private, q.intermediates, q.params \o q.current, p))
    BY ONLY <1>9, Kinds DEF ObserveCSI
  <2> QED BY ONLY <2>1, <2>2
<1>13. \A m, y, a : Apply(m, y, v, a, p) = Fresh
  <2>1. v = <<"!">> /\ p = "p" /\ v # << >>
    BY <1>1, <1>10
  <2> QED BY ONLY <2>1 DEF Apply
<1>14. f[4] = Reading(Fresh)
  BY ONLY <1>3, <1>6, <1>11, <1>12, <1>13
<1>15. f[4].modes = Fresh
  BY ONLY <1>14, ReadingIs
<1> QED BY ONLY <1>4, <1>5, <1>15

\* SM and RM change none of these modes.
LEMMA OtherSwitch ==
  ASSUME NEW t, NEW m \in Digits, NEW b \in {"h", "l"}, NEW s, s = <<"ESC", "[", m, b>>
  PROVE  Observe(t, s) = t
<1>1. PICK e, o : e = "ESC" /\ o = "["
  OBVIOUS
<1>2. s = <<e, o, m, b>>
  BY <1>1
<1>3. Len(s) = 4 /\ s[1] = e /\ s[2] = o /\ s[3] = m /\ s[4] = b
  BY ONLY <1>2
<1>4. PICK k \in Nat : k = 4 /\ Len(s) = k
  BY ONLY <1>3
<1>5. PICK f : IsRead(t, s, f, Len(s)) /\ Observe(t, s) = f[Len(s)].modes
  BY <1>4, ReadIs
<1>6. /\ f[0] = Reading(t) /\ f[1] = ObserveToken(f[0], s[1]) /\ f[2] = ObserveToken(f[1], s[2])
      /\ f[3] = ObserveToken(f[2], s[3]) /\ f[4] = ObserveToken(f[3], s[4])
  <2>1. k >= 1 /\ k >= 2 /\ k >= 3 /\ k >= 4
    BY ONLY <1>4
  <2>2. k \in Nat /\ Len(s) = k /\ IsRead(t, s, f, Len(s))
    BY <1>4, <1>5
  <2> QED BY ONLY <2>1, <2>2, Rounds
<1>7. f[2] = Parsed(t, "bracket", FALSE, << >>, << >>)
  BY ONLY <1>1, <1>3, <1>6, ParseOpen
<1>8. PICK y, no, p : y = FALSE /\ no = << >> /\ p = Parameter(m)
  OBVIOUS
<1>9. f[2] = Parsed(t, "bracket", y, no, no)
  BY <1>7, <1>8
<1>10. f[3] = Parsed(t, "csi", y, no, p)
  BY ONLY <1>3, <1>6, <1>8, <1>9, m \in Digits, ParseDigits
<1>11. p = Together(no, p)
  BY ONLY <1>8, FirstParameter
<1>12. b \in Finals
  BY DEF Finals
<1>13. ObserveToken(f[3], b) = Reading(Apply(t, y, << >>, p, b))
  BY ONLY <1>10, <1>11, <1>12, ParseFinal
<1>14. Apply(t, y, << >>, p, b) = t
  BY <1>8 DEF Apply
<1>15. f[4].modes = t
  BY ONLY <1>3, <1>6, <1>13, <1>14, ReadingIs
<1> QED BY ONLY <1>4, <1>5, <1>15

\* Without DECLRMM the sequence that sets side margins is the one that saves the cursor.
LEMMA SavesCursor ==
  ASSUME NEW t, NEW p, ~t.lrEnabled PROVE Plain(t, p, "s") = t
BY DEF Apply, Plain

\* No parameter that is written out is nothing.
LEMMA NumbersAre == ASSUME NEW d \in Digits PROVE Numbers[d] > 0
<1>1. /\ Numbers["6"] = 6 /\ Numbers["7"] = 7 /\ Numbers["25"] = 25
      /\ Numbers["69"] = 69 /\ Numbers["1049"] = 1049
  BY DEF Numbers
<1>2. Numbers["2"] = 2 /\ Numbers["5"] = 5
  BY DEF Numbers
<1>3. d \in {"2", "5", "6", "7", "25", "69", "1049"}
  BY DEF Digits, Numbers
<1>4. \/ d = "2" \/ d = "5" \/ d = "6" \/ d = "7" \/ d = "25" \/ d = "69" \/ d = "1049"
  BY ONLY <1>3
<1> QED BY ONLY <1>1, <1>2, <1>4

\* A region, or none, that is set.
LEMMA RegionItem ==
  ASSUME NEW t, NEW m \in Digits, NEW n \in Digits, NEW x, NEW y, x = Numbers[m], y = Numbers[n],
         x < y, NEW b \in {"r", "s"},
         NEW s, Region(s, m, n, b)
  PROVE  /\ b = "r" => Observe(t, s) = Scrolled(t, x, y)
         /\ b = "s" /\ t.lrEnabled => Observe(t, s) = Sided(t, x, y)
         /\ b = "s" /\ ~t.lrEnabled => Observe(t, s) = t
<1>1. x \in Nat /\ y \in Nat /\ x > 0
  BY NumbersAre, ValuesAre, m \in Digits, n \in Digits, x = Numbers[m], y = Numbers[n]
<1>3. PICK p : p = Together(Parameter(m), Parameter(n))
  OBVIOUS
<1>4. Lands(s) /\ Observe(t, s) = Plain(t, p, b)
  BY ONLY <1>3, Region(s, m, n, b), m \in Digits, n \in Digits, b \in {"r", "s"}, RegionReads
<1>5. p = <<x, y>>
  <2>1. <<x>> \o <<y>> = <<x, y>>
    BY ONLY <1>1, Pair
  <2> QED BY <1>3, <2>1 DEF Together, Parameter
<1>6. Makes(p, x, y)
  BY ONLY <1>1, <1>5, x < y, MarginIs
<1>7. Plain(t, p, "r") = Scrolled(t, x, y)
  BY ONLY <1>6, ScrollIs
<1>8. t.lrEnabled => Plain(t, p, "s") = Sided(t, x, y)
  BY ONLY <1>6, SidesAre
<1>9. ~t.lrEnabled => Plain(t, p, "s") = t
  BY ONLY SavesCursor
<1> QED BY ONLY <1>4, <1>7, <1>8, <1>9

\* No region, too.
LEMMA NoRegionItem ==
  ASSUME NEW t, NEW b \in {"r", "s"}, NEW s \in Seq(Chars), s = <<"ESC", "[", b>>
  PROVE  /\ b = "r" => Observe(t, s) = Scrolled(t, 0, 0)
         /\ b = "s" /\ t.lrEnabled => Observe(t, s) = Sided(t, 0, 0)
         /\ b = "s" /\ ~t.lrEnabled => Observe(t, s) = t
<1>1. PICK e, o : e = "ESC" /\ o = "["
  OBVIOUS
<1>2. s = <<e, o, b>>
  BY <1>1
<1>3. Len(s) = 3 /\ s[1] = e /\ s[2] = o /\ s[3] = b
  BY ONLY <1>2
<1>4. PICK no, x, y : no = << >> /\ x = 0 /\ y = 0
  OBVIOUS
<1>5. Observe(t, s) = Plain(t, no, b)
  <2>1. Observe(t, s) = Plain(t, << >>, b)
    BY ONLY <1>1, <1>3, s \in Seq(Chars), b \in {"r", "s"}, NoRegionReads
  <2> QED BY <1>4, <2>1
<1>6. Makes(no, x, y)
  BY <1>4, NoMargin
<1>7. Plain(t, no, "r") = Scrolled(t, x, y)
  BY ONLY <1>6, ScrollIs
<1>8. t.lrEnabled => Plain(t, no, "s") = Sided(t, x, y)
  BY ONLY <1>6, SidesAre
<1>9. ~t.lrEnabled => Plain(t, no, "s") = t
  BY ONLY SavesCursor
<1> QED BY ONLY <1>4, <1>5, <1>7, <1>8, <1>9

\* DECSET or DECRST of n modes, token by token.
Switch(s, n) ==
  /\ Len(s) = 2 * n + 3 /\ s[1] = "ESC" /\ s[2] = "[" /\ s[3] = "?"
  /\ s[Len(s)] \in {"h", "l"}
  /\ \A j \in 1..n : s[2 * j + 2] \in Digits
  /\ \A j \in 1..n - 1 : s[2 * j + 3] = ";"

\* The first n of its modes.
Lists(p, s, n) ==
  /\ p \in Seq(Values) /\ Len(p) = n /\ \A j \in 1..n : p[j] = Numbers[s[2 * j + 2]]

\* What observe has read when it has read the n-th mode.
Upto(t, s, r, n) ==
  \E p, c : Lists(p, s, n - 1) /\ c = Parameter(s[2 * n + 2]) /\ r = Parsed(t, "csi", TRUE, p, c)

\* One mode further in the list.
LEMMA ListNext ==
  ASSUME NEW s, NEW n \in Nat \ {0}, NEW p, Lists(p, s, n - 1), s[2 * n + 2] \in Digits,
         NEW q, q = Together(p, Parameter(s[2 * n + 2]))
  PROVE  Lists(q, s, n)
<1>1. PICK v, c : v \in Values /\ v = Numbers[s[2 * n + 2]] /\ c = <<v>>
  BY ValuesAre
<1>2. c = Parameter(s[2 * n + 2])
  BY <1>1 DEF Parameter
<1>3. c \in Seq(Values) /\ Len(c) = 1 /\ c[1] = v /\ p \in Seq(Values) /\ Len(p) = n - 1
  BY <1>1 DEF Lists
<1>4. q = p \o c
  BY <1>2 DEF Together
<1>5. /\ q \in Seq(Values) /\ Len(q) = Len(p) + Len(c)
      /\ \A i \in 1..Len(p) : q[i] = p[i]
      /\ \A i \in 1..Len(c) : q[Len(p) + i] = c[i]
  <2>1. c \in Seq(Values) /\ p \in Seq(Values)
    BY ONLY <1>3
  <2> QED BY ONLY <1>4, <2>1, ConcatIs
<1>6. Len(q) = n
  BY ONLY <1>3, <1>5, n \in Nat \ {0}
<1>7. q[n] = v
  <2>1. q[Len(p) + 1] = c[1]
    BY ONLY <1>3, <1>5
  <2> QED BY ONLY <1>3, <2>1, n \in Nat \ {0}
<1>8. ASSUME NEW j \in 1..n PROVE q[j] = Numbers[s[2 * j + 2]]
  <2>1. CASE j = n
    BY <1>1, <1>7, <2>1
  <2>2. CASE j # n
    <3>1. j \in 1..n - 1
      BY <2>2
    <3> QED BY <1>3, <1>5, <3>1 DEF Lists
  <2> QED BY <2>1, <2>2
<1> QED BY <1>5, <1>6, <1>8 DEF Lists

\* observe reads all of them.
LEMMA SwitchReads ==
  ASSUME NEW t, NEW s, NEW n \in Nat \ {0}, Switch(s, n)
  PROVE  \E p : Lists(p, s, n) /\ Observe(t, s) = Apply(t, TRUE, << >>, p, s[2 * n + 3])
<1>0. /\ Len(s) = 2 * n + 3 /\ Len(s) \in Nat /\ s[1] = "ESC" /\ s[2] = "[" /\ s[3] = "?"
      /\ s[2 * n + 3] \in {"h", "l"}
      /\ \A j \in 1..n : s[2 * j + 2] \in Digits
      /\ \A j \in 1..n - 1 : s[2 * j + 3] = ";"
  <2>1. PICK l : l = 2 * n + 3
    OBVIOUS
  <2>2. l \in Nat
    BY ONLY <2>1, n \in Nat \ {0}
  <2> QED BY <2>1, <2>2 DEF Switch
<1>1. PICK f : IsRead(t, s, f, Len(s)) /\ Observe(t, s) = f[Len(s)].modes
  BY <1>0, ReadIs
<1>2. ASSUME NEW i \in Nat, NEW j, j = i + 1, j <= 2 * n + 3
      PROVE  f[j] = ObserveToken(f[i], s[j])
  <2>1. j \in 1..Len(s) /\ j - 1 = i
    <3>1. PICK l \in Nat : l = Len(s) /\ j <= l
      BY <1>0, <1>2
    <3>2. j \in 1..l /\ j - 1 = i
      BY ONLY <3>1, i \in Nat, j = i + 1
    <3> QED BY <3>1, <3>2
  <2> QED BY <1>1, <2>1 DEF IsRead
<1>3. PICK y, no : y = TRUE /\ no = << >>
  OBVIOUS
<1>4. f[3] = Parsed(t, "csi", y, no, no)
  <2>1. f[0] = Reading(t)
    BY <1>1 DEF IsRead
  <2>2. /\ f[1] = ObserveToken(f[0], s[1]) /\ f[2] = ObserveToken(f[1], s[2])
        /\ f[3] = ObserveToken(f[2], s[3])
    BY <1>2
  <2>3. f[3] = Parsed(t, "csi", TRUE, << >>, << >>)
    BY ONLY <1>0, <2>1, <2>2, ParseOpen
  <2> QED BY <1>3, <2>3
<1> DEFINE T == {j \in Nat : Upto(t, s, f[2 * j + 2], j)}
<1>5. 1 \in T
  <2>1. PICK c, b : b = s[4] /\ c = Parameter(b)
    OBVIOUS
  <2>2. b \in Digits
    <3>1. 1 \in 1..n /\ 2 * 1 + 2 = 4
      OBVIOUS
    <3> QED BY <1>0, <2>1, <3>1
  <2>3. f[4] = ObserveToken(f[3], b)
    BY <1>2, <2>1
  <2>4. f[4] = Parsed(t, "csi", y, no, c)
    BY ONLY <1>4, <2>1, <2>2, <2>3, ParseDigits
  <2>5. Lists(no, s, 0)
    BY <1>3 DEF Lists
  <2>6. Upto(t, s, f[4], 1)
    <3>1. 1 - 1 = 0 /\ 2 * 1 + 2 = 4
      OBVIOUS
    <3>2. Lists(no, s, 1 - 1)
      BY <2>5, <3>1
    <3>3. c = Parameter(s[2 * 1 + 2]) /\ f[4] = Parsed(t, "csi", TRUE, no, c)
      BY <1>3, <2>1, <2>4, <3>1
    <3> QED BY ONLY <3>2, <3>3 DEF Upto
  <2> QED BY <2>6
<1>6. ASSUME NEW j \in 1..n - 1, j \in T PROVE j + 1 \in T
  <2>1. PICK p, c : /\ Lists(p, s, j - 1) /\ c = Parameter(s[2 * j + 2])
                    /\ f[2 * j + 2] = Parsed(t, "csi", TRUE, p, c)
    BY <1>6 DEF Upto
  <2>2. PICK q : c = Parameter(s[2 * j + 2]) /\ q = Together(p, c)
    BY <2>1
  <2>3. Lists(q, s, j)
    <3>1. j \in Nat \ {0} /\ j \in 1..n
      OBVIOUS
    <3>2. s[2 * j + 2] \in Digits
      BY <1>0, <3>1
    <3> QED BY ONLY <2>1, <2>2, <3>1, <3>2, ListNext
  <2>4. f[2 * j + 2] = Parsed(t, "csi", y, p, c)
    BY <1>3, <2>1
  <2>5. PICK u, v, d : u = f[2 * j + 3] /\ v = f[2 * j + 4] /\ d = Parameter(s[2 * j + 4])
    OBVIOUS
  <2>6. u = ObserveToken(f[2 * j + 2], ";") /\ v = ObserveToken(u, s[2 * j + 4])
    <3>1. PICK k \in Nat, l \in Nat, m \in Nat :
            /\ k = 2 * j + 2 /\ l = 2 * j + 3 /\ m = 2 * j + 4
            /\ l = k + 1 /\ m = l + 1 /\ l <= 2 * n + 3 /\ m <= 2 * n + 3
      BY ONLY n \in Nat \ {0}, j \in 1..n - 1
    <3>2. f[l] = ObserveToken(f[k], s[l]) /\ f[m] = ObserveToken(f[l], s[m])
      BY ONLY <1>2, <3>1
    <3>3. s[l] = ";"
      BY <1>0, <3>1
    <3> QED BY ONLY <2>5, <3>1, <3>2, <3>3
  <2>7. c # << >>
    BY ONLY <1>3, <2>2, FirstParameter
  <2>8. u = Parsed(t, "csi", y, q, no)
    <3>1. ObserveToken(Parsed(t, "csi", y, p, c), ";") = Parsed(t, "csi", y, q, << >>)
      BY ONLY <2>2, <2>7, ParseSemicolon, ZenonT(30)
    <3> QED BY ONLY <1>3, <2>4, <2>6, <3>1
  <2>9. s[2 * j + 4] \in Digits
    <3>1. j + 1 \in 1..n /\ 2 * (j + 1) + 2 = 2 * j + 4
      OBVIOUS
    <3> QED BY <1>0, <3>1
  <2>10. v = Parsed(t, "csi", y, q, d)
    <3>1. PICK b \in Digits : b = s[2 * j + 4] /\ d = Parameter(b)
      BY <2>5, <2>9
    <3>2. ObserveToken(Parsed(t, "csi", y, q, no), b) = Parsed(t, "csi", y, q, d)
      BY ONLY <3>1, ParseDigits
    <3> QED BY ONLY <2>6, <2>8, <3>1, <3>2
  <2>11. Upto(t, s, v, j + 1)
    <3>1. PICK k : k = j + 1
      OBVIOUS
    <3>2. k - 1 = j /\ 2 * k + 2 = 2 * j + 4
      BY <3>1
    <3>3. Lists(q, s, k - 1)
      BY <2>3, <3>2
    <3>4. v = Parsed(t, "csi", TRUE, q, d)
      BY ONLY <1>3, <2>10
    <3>5. d = Parameter(s[2 * k + 2])
      BY ONLY <2>5, <3>2
    <3>6. Upto(t, s, v, k)
      BY ONLY <3>3, <3>4, <3>5 DEF Upto
    <3> QED BY ONLY <3>1, <3>6
  <2> QED BY <2>5, <2>11
<1>7. 1..n \subseteq T
  <2> HIDE DEF T
  <2>1. n \in Nat /\ 1 \in Nat
    OBVIOUS
  <2> QED BY ONLY <1>5, <1>6, <2>1, Induct
<1>8. Upto(t, s, f[2 * n + 2], n)
  <2>1. n \in 1..n
    OBVIOUS
  <2> QED BY <1>7, <2>1
<1>9. PICK p, c : /\ Lists(p, s, n - 1) /\ c = Parameter(s[2 * n + 2])
                  /\ f[2 * n + 2] = Parsed(t, "csi", TRUE, p, c)
  BY <1>8 DEF Upto
<1>10. PICK q, b : c = Parameter(s[2 * n + 2]) /\ q = Together(p, c) /\ b = s[2 * n + 3]
  BY <1>9
<1>11. Lists(q, s, n)
  <2>1. n \in 1..n
    OBVIOUS
  <2> QED BY <1>0, <1>9, <1>10, <2>1, ListNext
<1>12. b \in Finals
  BY <1>0, <1>10 DEF Finals
<1>13. f[2 * n + 2] = Parsed(t, "csi", y, p, c)
  BY <1>3, <1>9, <1>10
<1>14. f[2 * n + 3] = ObserveToken(f[2 * n + 2], b)
  BY <1>2, <1>10
<1>15. f[2 * n + 3] = Reading(Apply(t, y, << >>, q, b))
  BY ONLY <1>10, <1>12, <1>13, <1>14, ParseFinal
<1>16. Observe(t, s) = Apply(t, y, << >>, q, b)
  <2>1. f[2 * n + 3].modes = Apply(t, y, << >>, q, b)
    BY <1>15, ReadingIs
  <2>2. Len(s) = 2 * n + 3
    BY <1>0
  <2> QED BY ONLY <1>1, <2>1, <2>2
<1> QED BY <1>3, <1>10, <1>11, <1>16

\* A terminal with these modes in place of its own.
Replaced(t, a, b, c, d, e, g, h) ==
  [t EXCEPT !.origin = a, !.autowrapOff = b, !.cursorHide = c, !.lrEnabled = d,
            !.left = e, !.right = g, !.alt = h]

\* What a terminal becomes, field by field.
LEMMA WithModesIs ==
  ASSUME NEW t \in ModeRecord, NEW M, NEW set \in BOOLEAN, NEW r, r = WithModes(t, M, set)
  PROVE  /\ r \in ModeRecord
         /\ r.top = t.top /\ r.bottom = t.bottom
         /\ r.origin = (IF 6 \in M THEN set ELSE t.origin)
         /\ r.autowrapOff = (IF 7 \in M THEN ~set ELSE t.autowrapOff)
         /\ r.cursorHide = (IF 25 \in M THEN ~set ELSE t.cursorHide)
         /\ r.lrEnabled = (IF 69 \in M THEN set ELSE t.lrEnabled)
         /\ r.left = (IF 69 \in M /\ ~set THEN 0 ELSE t.left)
         /\ r.right = (IF 69 \in M /\ ~set THEN 0 ELSE t.right)
         /\ r.alt = (IF 47 \in M \/ 1047 \in M \/ 1049 \in M THEN set ELSE t.alt)
<1>1. PICK a, b, c, d, e, g, h :
        /\ a = (IF 6 \in M THEN set ELSE t.origin)
        /\ b = (IF 7 \in M THEN ~set ELSE t.autowrapOff)
        /\ c = (IF 25 \in M THEN ~set ELSE t.cursorHide)
        /\ d = (IF 69 \in M THEN set ELSE t.lrEnabled)
        /\ e = (IF 69 \in M /\ ~set THEN 0 ELSE t.left)
        /\ g = (IF 69 \in M /\ ~set THEN 0 ELSE t.right)
        /\ h = (IF 47 \in M \/ 1047 \in M \/ 1049 \in M THEN set ELSE t.alt)
  OBVIOUS
<1>2. r = [t EXCEPT !.origin = a, !.autowrapOff = b, !.cursorHide = c, !.lrEnabled = d,
                    !.left = e, !.right = g, !.alt = h]
  <2>1. (M \cap {47, 1047, 1049} # {}) <=> (47 \in M \/ 1047 \in M \/ 1049 \in M)
    OBVIOUS
  <2>2. /\ (IF set THEN t.left ELSE (IF 69 \in M THEN 0 ELSE t.left)) = e
        /\ (IF set THEN t.right ELSE (IF 69 \in M THEN 0 ELSE t.right)) = g
    BY <1>1
  <2>3. (IF M \cap {47, 1047, 1049} # {} THEN set ELSE t.alt) = h
    BY <1>1, <2>1
  <2>4. r = Replaced(t, IF 6 \in M THEN set ELSE t.origin, IF 7 \in M THEN ~set ELSE t.autowrapOff,
              IF 25 \in M THEN ~set ELSE t.cursorHide, IF 69 \in M THEN set ELSE t.lrEnabled,
              IF set THEN t.left ELSE (IF 69 \in M THEN 0 ELSE t.left),
              IF set THEN t.right ELSE (IF 69 \in M THEN 0 ELSE t.right),
              IF M \cap {47, 1047, 1049} # {} THEN set ELSE t.alt)
    BY DEF WithModes, Replaced
  <2>5. r = Replaced(t, a, b, c, d, e, g, h)
    BY ONLY <1>1, <2>2, <2>3, <2>4
  <2> QED BY ONLY <2>5 DEF Replaced
<1>3. /\ a \in BOOLEAN /\ b \in BOOLEAN /\ c \in BOOLEAN /\ d \in BOOLEAN
      /\ e \in Values /\ g \in Values /\ h \in BOOLEAN
  <2>1. /\ t.origin \in BOOLEAN /\ t.autowrapOff \in BOOLEAN /\ t.cursorHide \in BOOLEAN
        /\ t.lrEnabled \in BOOLEAN /\ t.alt \in BOOLEAN
        /\ t.left \in Values /\ t.right \in Values
    BY DEF ModeRecord
  <2>2. PICK z \in BOOLEAN : z = ~set
    OBVIOUS
  <2>3. a \in BOOLEAN /\ b \in BOOLEAN
    BY ONLY <1>1, <2>1, <2>2, set \in BOOLEAN
  <2>4. c \in BOOLEAN /\ d \in BOOLEAN
    BY ONLY <1>1, <2>1, <2>2, set \in BOOLEAN
  <2>5. e \in Values /\ g \in Values
    BY ONLY <1>1, <2>1, NoMargins
  <2>6. h \in BOOLEAN
    BY ONLY <1>1, <2>1, set \in BOOLEAN
  <2> QED BY ONLY <2>3, <2>4, <2>5, <2>6
<1>4. /\ r \in ModeRecord /\ r.top = t.top /\ r.bottom = t.bottom
      /\ r.origin = a /\ r.autowrapOff = b /\ r.cursorHide = c /\ r.lrEnabled = d
      /\ r.left = e /\ r.right = g /\ r.alt = h
  <2>1. r = [top |-> t.top, bottom |-> t.bottom, lrEnabled |-> d, left |-> e, right |-> g,
             origin |-> a, autowrapOff |-> b, cursorHide |-> c, alt |-> h]
    BY ONLY <1>2, t \in ModeRecord DEF ModeRecord
  <2>2. t.top \in Values /\ t.bottom \in Values
    BY DEF ModeRecord
  <2> QED BY ONLY <1>3, <2>1, <2>2 DEF ModeRecord
<1> QED BY ONLY <1>1, <1>4

\* What one mode does, field by field.
LEMMA SetModeIs ==
  ASSUME NEW t \in ModeRecord, NEW v, NEW set \in BOOLEAN, NEW r, r = SetMode(t, v, set)
  PROVE  /\ r \in ModeRecord
         /\ r.top = t.top /\ r.bottom = t.bottom
         /\ r.origin = (IF v = 6 THEN set ELSE t.origin)
         /\ r.autowrapOff = (IF v = 7 THEN ~set ELSE t.autowrapOff)
         /\ r.cursorHide = (IF v = 25 THEN ~set ELSE t.cursorHide)
         /\ r.lrEnabled = (IF v = 69 THEN set ELSE t.lrEnabled)
         /\ r.left = (IF v = 69 /\ ~set THEN 0 ELSE t.left)
         /\ r.right = (IF v = 69 /\ ~set THEN 0 ELSE t.right)
         /\ r.alt = (IF v = 47 \/ v = 1047 \/ v = 1049 THEN set ELSE t.alt)
<1>1. CASE v = 6
  <2>1. r = [t EXCEPT !.origin = set]
    BY <1>1 DEF SetMode
  <2> QED BY <1>1, <2>1 DEF ModeRecord
<1>2. CASE v = 7
  <2>1. PICK z \in BOOLEAN : z = ~set
    OBVIOUS
  <2>2. r = [t EXCEPT !.autowrapOff = z]
    BY <1>2, <2>1 DEF SetMode
  <2>3. /\ r \in ModeRecord /\ r.autowrapOff = z
        /\ r.top = t.top /\ r.bottom = t.bottom /\ r.origin = t.origin
        /\ r.cursorHide = t.cursorHide /\ r.lrEnabled = t.lrEnabled
        /\ r.left = t.left /\ r.right = t.right /\ r.alt = t.alt
    BY ONLY <2>2, z \in BOOLEAN, t \in ModeRecord DEF ModeRecord
  <2>4. (IF v = 7 THEN ~set ELSE t.autowrapOff) = z
    BY <1>2, <2>1
  <2> QED BY ONLY <1>2, <2>3, <2>4
<1>3. CASE v = 25
  <2>1. PICK z \in BOOLEAN : z = ~set
    OBVIOUS
  <2>2. r = [t EXCEPT !.cursorHide = z]
    BY <1>3, <2>1 DEF SetMode
  <2>3. /\ r \in ModeRecord /\ r.cursorHide = z
        /\ r.top = t.top /\ r.bottom = t.bottom /\ r.origin = t.origin
        /\ r.autowrapOff = t.autowrapOff /\ r.lrEnabled = t.lrEnabled
        /\ r.left = t.left /\ r.right = t.right /\ r.alt = t.alt
    BY ONLY <2>2, z \in BOOLEAN, t \in ModeRecord DEF ModeRecord
  <2>4. (IF v = 25 THEN ~set ELSE t.cursorHide) = z
    BY <1>3, <2>1
  <2> QED BY ONLY <1>3, <2>3, <2>4
<1>4. CASE v \in {47, 1047, 1049}
  <2>1. r = [t EXCEPT !.alt = set]
    BY <1>4 DEF SetMode
  <2> QED BY <1>4, <2>1 DEF ModeRecord
<1>5. CASE v = 69 /\ set
  <2>1. PICK z \in BOOLEAN : z = set /\ z = TRUE
    BY <1>5
  <2>2. r = [t EXCEPT !.lrEnabled = z]
    <3>1. SetMode(t, v, set) = [t EXCEPT !.lrEnabled = TRUE]
      BY <1>5 DEF SetMode
    <3> QED BY ONLY <2>1, <3>1, r = SetMode(t, v, set)
  <2>3. /\ r \in ModeRecord /\ r.lrEnabled = z
        /\ r.top = t.top /\ r.bottom = t.bottom /\ r.origin = t.origin
        /\ r.autowrapOff = t.autowrapOff /\ r.cursorHide = t.cursorHide
        /\ r.left = t.left /\ r.right = t.right /\ r.alt = t.alt
    BY ONLY <2>2, NoMargins, z \in BOOLEAN, t \in ModeRecord DEF ModeRecord
  <2>4. (IF v = 69 THEN set ELSE t.lrEnabled) = z
    BY <1>5, <2>1
  <2>5. /\ r.left = (IF v = 69 /\ ~set THEN 0 ELSE t.left)
        /\ r.right = (IF v = 69 /\ ~set THEN 0 ELSE t.right)
    BY <1>5, <2>3
  <2>6. /\ r.lrEnabled = (IF v = 69 THEN set ELSE t.lrEnabled)
        /\ r.alt = (IF v = 47 \/ v = 1047 \/ v = 1049 THEN set ELSE t.alt)
    <3>1. v # 47 /\ v # 1047 /\ v # 1049
      BY <1>5
    <3>2. r.lrEnabled = (IF v = 69 THEN set ELSE t.lrEnabled)
      BY ONLY <2>3, <2>4
    <3>3. r.alt = (IF v = 47 \/ v = 1047 \/ v = 1049 THEN set ELSE t.alt)
      BY ONLY <2>3, <3>1
    <3> QED BY ONLY <3>2, <3>3
  <2>7. /\ r.origin = (IF v = 6 THEN set ELSE t.origin)
        /\ r.autowrapOff = (IF v = 7 THEN ~set ELSE t.autowrapOff)
        /\ r.cursorHide = (IF v = 25 THEN ~set ELSE t.cursorHide)
    <3>1. v # 6 /\ v # 7 /\ v # 25
      BY <1>5
    <3> QED BY ONLY <2>3, <3>1
  <2> QED BY ONLY <2>3, <2>5, <2>6, <2>7
<1>6. CASE v = 69 /\ ~set
  <2>1. PICK z \in BOOLEAN : z = set /\ z = FALSE
    BY <1>6
  <2>2. r = [t EXCEPT !.lrEnabled = z, !.left = 0, !.right = 0]
    <3>1. SetMode(t, v, set) = [t EXCEPT !.lrEnabled = FALSE, !.left = 0, !.right = 0]
      BY <1>6 DEF SetMode
    <3> QED BY ONLY <2>1, <3>1, r = SetMode(t, v, set)
  <2>3. /\ r \in ModeRecord /\ r.lrEnabled = z
        /\ r.top = t.top /\ r.bottom = t.bottom /\ r.origin = t.origin
        /\ r.autowrapOff = t.autowrapOff /\ r.cursorHide = t.cursorHide
        /\ r.left = 0 /\ r.right = 0 /\ r.alt = t.alt
    BY ONLY <2>2, NoMargins, z \in BOOLEAN, t \in ModeRecord DEF ModeRecord
  <2>4. (IF v = 69 THEN set ELSE t.lrEnabled) = z
    BY <1>6, <2>1
  <2> QED BY ONLY <1>6, <2>3, <2>4
<1>7. CASE v \notin {6, 7, 25, 47, 1047, 1049, 69}
  <2>1. r = t
    BY <1>7 DEF SetMode
  <2> QED BY <1>7, <2>1
<1> QED BY <1>1, <1>2, <1>3, <1>4, <1>5, <1>6, <1>7

\* One more mode, and none.
LEMMA WithMore ==
  ASSUME NEW t \in ModeRecord, NEW M, NEW v, NEW set \in BOOLEAN
  PROVE  SetMode(WithModes(t, M, set), v, set) = WithModes(t, M \cup {v}, set)
<1>1. PICK a, b, c : /\ a = WithModes(t, M, set) /\ b = SetMode(a, v, set)
                     /\ c = WithModes(t, M \cup {v}, set)
  OBVIOUS
<1>2. PICK N : N = M \cup {v}
  OBVIOUS
<1>3. \A x : x \in N <=> x \in M \/ x = v
  BY <1>2
<1>4. c = WithModes(t, N, set)
  BY <1>1, <1>2
<1>5. a \in ModeRecord /\ c \in ModeRecord
  BY ONLY <1>1, <1>4, t \in ModeRecord, set \in BOOLEAN, WithModesIs
<1>6. b \in ModeRecord
  BY ONLY <1>1, <1>5, set \in BOOLEAN, SetModeIs
<1>7. /\ a.top = t.top /\ a.bottom = t.bottom
      /\ a.origin = (IF 6 \in M THEN set ELSE t.origin)
      /\ a.autowrapOff = (IF 7 \in M THEN ~set ELSE t.autowrapOff)
      /\ a.cursorHide = (IF 25 \in M THEN ~set ELSE t.cursorHide)
      /\ a.lrEnabled = (IF 69 \in M THEN set ELSE t.lrEnabled)
      /\ a.left = (IF 69 \in M /\ ~set THEN 0 ELSE t.left)
      /\ a.right = (IF 69 \in M /\ ~set THEN 0 ELSE t.right)
      /\ a.alt = (IF 47 \in M \/ 1047 \in M \/ 1049 \in M THEN set ELSE t.alt)
  BY ONLY <1>1, t \in ModeRecord, set \in BOOLEAN, WithModesIs
<1>8. /\ c.top = t.top /\ c.bottom = t.bottom
      /\ c.origin = (IF 6 \in N THEN set ELSE t.origin)
      /\ c.autowrapOff = (IF 7 \in N THEN ~set ELSE t.autowrapOff)
      /\ c.cursorHide = (IF 25 \in N THEN ~set ELSE t.cursorHide)
      /\ c.lrEnabled = (IF 69 \in N THEN set ELSE t.lrEnabled)
      /\ c.left = (IF 69 \in N /\ ~set THEN 0 ELSE t.left)
      /\ c.right = (IF 69 \in N /\ ~set THEN 0 ELSE t.right)
      /\ c.alt = (IF 47 \in N \/ 1047 \in N \/ 1049 \in N THEN set ELSE t.alt)
  BY ONLY <1>4, t \in ModeRecord, set \in BOOLEAN, WithModesIs
<1>9. /\ b.top = a.top /\ b.bottom = a.bottom
      /\ b.origin = (IF v = 6 THEN set ELSE a.origin)
      /\ b.autowrapOff = (IF v = 7 THEN ~set ELSE a.autowrapOff)
      /\ b.cursorHide = (IF v = 25 THEN ~set ELSE a.cursorHide)
      /\ b.lrEnabled = (IF v = 69 THEN set ELSE a.lrEnabled)
      /\ b.left = (IF v = 69 /\ ~set THEN 0 ELSE a.left)
      /\ b.right = (IF v = 69 /\ ~set THEN 0 ELSE a.right)
      /\ b.alt = (IF v = 47 \/ v = 1047 \/ v = 1049 THEN set ELSE a.alt)
  BY ONLY <1>1, <1>5, set \in BOOLEAN, SetModeIs
<1>10. /\ b.top = c.top /\ b.bottom = c.bottom /\ b.lrEnabled = c.lrEnabled
       /\ b.left = c.left /\ b.right = c.right
  BY ONLY <1>3, <1>7, <1>8, <1>9
<1>11. /\ b.origin = c.origin /\ b.autowrapOff = c.autowrapOff
       /\ b.cursorHide = c.cursorHide /\ b.alt = c.alt
  BY ONLY <1>3, <1>7, <1>8, <1>9
<1>12. b = c
  BY ONLY <1>5, <1>6, <1>10, <1>11, SameModes
<1> QED BY <1>1, <1>12

\* No modes leave a terminal as it is.
LEMMA WithNone ==
  ASSUME NEW t \in ModeRecord, NEW M, M = {}, NEW set \in BOOLEAN PROVE WithModes(t, M, set) = t
<1>1. PICK a : a = WithModes(t, M, set)
  OBVIOUS
<1>2. \A x : x \notin M
  OBVIOUS
<1>3. /\ a \in ModeRecord /\ a.top = t.top /\ a.bottom = t.bottom
      /\ a.origin = t.origin /\ a.autowrapOff = t.autowrapOff
      /\ a.cursorHide = t.cursorHide /\ a.lrEnabled = t.lrEnabled
      /\ a.left = t.left /\ a.right = t.right /\ a.alt = t.alt
  BY ONLY <1>1, <1>2, t \in ModeRecord, set \in BOOLEAN, WithModesIs
<1>4. a = t
  BY ONLY <1>3, t \in ModeRecord, SameModes
<1> QED BY <1>1, <1>4

\* apply's loop sets or resets all of its parameters.
LEMMA SetModesIs ==
  ASSUME NEW t \in ModeRecord, NEW params, NEW n \in Nat, Len(params) = n, NEW set \in BOOLEAN
  PROVE  SetModes(t, params, set) = WithModes(t, {params[j] : j \in 1..n}, set)
<1>1. PICK f : IsSetting(t, params, set, f, n) /\ SetModes(t, params, set) = f[n]
  BY SettingIs
<1> DEFINE M(k) == {params[j] : j \in 1..k}
           T == {k \in Nat : f[k] = WithModes(t, M(k), set)}
<1>2. 0 \in T
  <2>1. M(0) = {}
    OBVIOUS
  <2>2. f[0] = t
    BY <1>1 DEF IsSetting
  <2> HIDE DEF M
  <2>3. WithModes(t, M(0), set) = t
    BY <2>1, WithNone
  <2> QED BY <2>2, <2>3
<1>3. ASSUME NEW k \in 0..n - 1, k \in T PROVE k + 1 \in T
  <2>1. PICK j \in 1..n : j = k + 1 /\ j - 1 = k /\ j \in Nat
    OBVIOUS
  <2>2. f[j] = SetMode(f[k], params[j], set)
    BY <1>1, <2>1 DEF IsSetting
  <2>3. M(j) = M(k) \cup {params[j]}
    BY <2>1
  <2> HIDE DEF M
  <2>4. f[k] = WithModes(t, M(k), set)
    BY <1>3
  <2>5. SetMode(WithModes(t, M(k), set), params[j], set) = WithModes(t, M(k) \cup {params[j]}, set)
    BY WithMore
  <2>6. f[j] = WithModes(t, M(j), set)
    BY ONLY <2>2, <2>3, <2>4, <2>5
  <2> QED BY <2>1, <2>6
<1>4. 0..n \subseteq T
  <2> HIDE DEF T
  <2> QED BY <1>2, <1>3, Induct
<1>5. f[n] = WithModes(t, M(n), set)
  <2> HIDE DEF M
  <2> QED BY <1>4
<1> QED BY <1>1, <1>5

\* A number is even or odd.
LEMMA Halves == ASSUME NEW i \in Nat PROVE \E j \in Nat : i = 2 * j \/ i = 2 * j + 1
<1> DEFINE T == {k \in Nat : \E j \in Nat : k = 2 * j \/ k = 2 * j + 1}
<1>1. 0 \in T
  OBVIOUS
<1>2. ASSUME NEW k \in 0..i - 1, k \in T PROVE k + 1 \in T
  <2>1. PICK j \in Nat : k = 2 * j \/ k = 2 * j + 1
    BY <1>2
  <2>2. k + 1 = 2 * j + 1 \/ k + 1 = 2 * (j + 1)
    BY ONLY <2>1
  <2>3. k + 1 \in Nat /\ j + 1 \in Nat
    OBVIOUS
  <2> QED BY ONLY <2>2, <2>3, j \in Nat
<1>3. 0..i \subseteq T
  <2> HIDE DEF T
  <2> QED BY <1>1, <1>2, Induct
<1> QED BY <1>3

\* These are the modes the sequence names.
LEMMA NamedIs ==
  ASSUME NEW s \in Seq(Chars), NEW n \in Nat \ {0}, Switch(s, n), NEW p, Lists(p, s, n)
  PROVE  Named(s) = {p[j] : j \in 1..n}
<1>0. /\ Len(s) = 2 * n + 3 /\ s[1] = "ESC" /\ s[2] = "[" /\ s[3] = "?"
      /\ s[2 * n + 3] \in {"h", "l"}
      /\ \A j \in 1..n : s[2 * j + 2] \in Digits
      /\ \A j \in 1..n - 1 : s[2 * j + 3] = ";"
      /\ \A j \in 1..n : p[j] = Numbers[s[2 * j + 2]]
      /\ DOMAIN s = 1..Len(s)
  <2>1. PICK l : l = 2 * n + 3
    OBVIOUS
  <2>2. l \in Nat
    BY ONLY <2>1, n \in Nat \ {0}
  <2>3. /\ Len(s) = 2 * n + 3 /\ s[1] = "ESC" /\ s[2] = "[" /\ s[3] = "?"
        /\ s[2 * n + 3] \in {"h", "l"}
        /\ \A j \in 1..n : s[2 * j + 2] \in Digits
        /\ \A j \in 1..n - 1 : s[2 * j + 3] = ";"
    BY <2>1, <2>2 DEF Switch
  <2>4. \A j \in 1..n : p[j] = Numbers[s[2 * j + 2]]
    BY DEF Lists
  <2>5. DOMAIN s = 1..Len(s)
    OBVIOUS
  <2> QED BY ONLY <2>3, <2>4, <2>5
<1>1. "ESC" \notin Digits /\ "[" \notin Digits /\ "?" \notin Digits /\ ";" \notin Digits
      /\ "h" \notin Digits /\ "l" \notin Digits
  <2>1. "?" \notin Digits /\ ";" \notin Digits /\ "[" \notin Digits
        /\ "h" \notin Digits /\ "l" \notin Digits
    BY Kinds DEF Finals
  <2>2. "ESC" \notin Digits
    BY DEF Digits, Numbers
  <2> QED BY <2>1, <2>2
<1>2. ASSUME NEW i \in DOMAIN s, s[i] \in Digits PROVE \E j \in 1..n : i = 2 * j + 2
  <2>1. i \in 1..2 * n + 3 /\ i # 1 /\ i # 2 /\ i # 3 /\ i # 2 * n + 3
    BY <1>0, <1>1, <1>2
  <2>2. PICK j \in Int : i = 2 * j + 2 \/ i = 2 * j + 3
    <3>1. i - 2 \in Nat /\ i = i - 2 + 2
      BY ONLY <2>1, n \in Nat \ {0}
    <3>2. PICK j \in Nat : i - 2 = 2 * j \/ i - 2 = 2 * j + 1
      BY ONLY <3>1, Halves
    <3> QED BY ONLY <3>1, <3>2
  <2>3. i # 2 * j + 3
    <3>1. SUFFICES ASSUME i = 2 * j + 3 PROVE FALSE
      OBVIOUS
    <3>2. j \in 1..n - 1
      BY ONLY <2>1, <3>1, j \in Int, n \in Nat \ {0}
    <3> QED BY <1>0, <1>1, <1>2, <3>1, <3>2
  <2>4. j \in 1..n
    BY ONLY <2>1, <2>2, <2>3, j \in Int, n \in Nat \ {0}
  <2> QED BY <2>2, <2>3, <2>4
<1>3. ASSUME NEW j \in 1..n PROVE 2 * j + 2 \in DOMAIN s
  <2>1. 2 * j + 2 \in 1..2 * n + 3
    BY ONLY j \in 1..n, n \in Nat \ {0}
  <2> QED BY <1>0, <2>1
<1>4. ASSUME NEW x \in Named(s) PROVE x \in {p[j] : j \in 1..n}
  <2>1. PICK i \in DOMAIN s : s[i] \in Digits /\ x = Numbers[s[i]]
    BY <1>4 DEF Named
  <2>2. PICK j \in 1..n : i = 2 * j + 2
    BY <1>2, <2>1
  <2> QED BY <1>0, <2>1, <2>2
<1>5. ASSUME NEW j \in 1..n PROVE p[j] \in Named(s)
  <2>1. PICK i : i = 2 * j + 2
    OBVIOUS
  <2>2. i \in DOMAIN s /\ s[i] \in Digits /\ p[j] = Numbers[s[i]]
    BY <1>0, <1>3, <2>1
  <2> QED BY ONLY <2>2 DEF Named
<1> QED BY ONLY <1>4, <1>5

\* observe sets or resets what a DECSET or DECRST sequence names.
LEMMA SwitchItem ==
  ASSUME NEW t \in ModeRecord, NEW s \in Seq(Chars), IsSwitch(s)
  PROVE  Observe(t, s) = WithModes(t, Named(s), s[Len(s)] = "h")
<1>1. PICK n \in Nat \ {0} : Switch(s, n)
  <2>1. Len(s) \in Nat
    OBVIOUS
  <2>2. PICK n \in 1..Len(s) : Switch(s, n)
    BY DEF IsSwitch, Switch
  <2> QED BY <2>1, <2>2
<1>2. PICK p : Lists(p, s, n) /\ Observe(t, s) = Apply(t, TRUE, << >>, p, s[2 * n + 3])
  BY <1>1, SwitchReads
<1>3. PICK b : b = s[2 * n + 3] /\ b = s[Len(s)] /\ b \in {"h", "l"}
  BY <1>1 DEF Switch
<1>4. PICK set \in BOOLEAN : set = (b = "h")
  OBVIOUS
<1>5. Apply(t, TRUE, << >>, p, b) = SetModes(t, p, b = "h")
  <2>1. << >> # <<"!">>
    OBVIOUS
  <2> QED BY ONLY <1>3, <2>1 DEF Apply
<1>6. Observe(t, s) = SetModes(t, p, set)
  BY ONLY <1>2, <1>3, <1>4, <1>5
<1>7. SetModes(t, p, set) = WithModes(t, {p[j] : j \in 1..n}, set)
  <2>1. Len(p) = n
    BY <1>2 DEF Lists
  <2> QED BY <2>1, SetModesIs
<1>8. Named(s) = {p[j] : j \in 1..n}
  BY <1>1, <1>2, NamedIs
<1>9. Observe(t, s) = WithModes(t, Named(s), set)
  BY ONLY <1>6, <1>7, <1>8
<1> QED BY ONLY <1>3, <1>4, <1>9

\* The sequences with a meaning are told apart by how they end and how long they are.
LEMMA Forms ==
  ASSUME NEW s
  PROVE  /\ IsReset(s) => s[Len(s)] \in {"c", "p"}
         /\ IsSwitch(s) => s[Len(s)] \in {"h", "l"} /\ Len(s) # 4
         /\ IsOtherSwitch(s) => s[Len(s)] \in {"h", "l"} /\ Len(s) = 4
         /\ \A b : IsRegion(s, b) => s[Len(s)] = b /\ Len(s) = 6
         /\ \A b : IsNoRegion(s, b) => s[Len(s)] = b /\ Len(s) = 3
<1>1. ASSUME IsReset(s) PROVE s[Len(s)] \in {"c", "p"}
  <2>1. PICK e, o, x, c, p : e = "ESC" /\ o = "[" /\ x = "!" /\ c = "c" /\ p = "p"
    OBVIOUS
  <2>2. s = <<e, c>> \/ s = <<e, o, x, p>>
    BY <1>1, <2>1 DEF IsReset
  <2>3. CASE s = <<e, c>>
    <3>1. Len(s) = 2 /\ s[2] = c
      BY ONLY <2>3
    <3> QED BY <2>1, <3>1
  <2>4. CASE s = <<e, o, x, p>>
    <3>1. Len(s) = 4 /\ s[4] = p
      BY ONLY <2>4
    <3> QED BY <2>1, <3>1
  <2> QED BY <2>2, <2>3, <2>4
<1>2. ASSUME IsSwitch(s) PROVE s[Len(s)] \in {"h", "l"} /\ Len(s) # 4
  <2>1. PICK n \in 1..Len(s) : Len(s) = 2 * n + 3 /\ s[Len(s)] \in {"h", "l"}
    BY <1>2 DEF IsSwitch
  <2> QED BY <2>1
<1>3. IsOtherSwitch(s) => s[Len(s)] \in {"h", "l"} /\ Len(s) = 4
  BY DEF IsOtherSwitch
<1>4. ASSUME NEW b, IsRegion(s, b) PROVE s[Len(s)] = b /\ Len(s) = 6
  <2>1. PICK m, n, e, o, k : s = <<e, o, m, k, n, b>>
    BY <1>4 DEF IsRegion
  <2> QED BY ONLY <2>1
<1>5. ASSUME NEW b, IsNoRegion(s, b) PROVE s[Len(s)] = b /\ Len(s) = 3
  BY <1>5 DEF IsNoRegion
<1> QED BY ONLY <1>1, <1>2, <1>3, <1>4, <1>5

\* The tracker reads in an item what the emulator does with it.
LEMMA EffectIs ==
  ASSUME NEW t \in Modes, NEW k \in DOMAIN Items
  PROVE  Observe(t, Items[k]) = Effect(t, k)
<1>0. PICK s : s = Items[k]
  OBVIOUS
<1>1. IsItem(s) /\ s \in Seq(Chars) /\ t \in ModeRecord
  BY <1>0, ItemsAre, ModesAre DEF IsItem
<1>2. PICK l : l = s[Len(s)]
  OBVIOUS
<1>3. /\ IsReset(s) => l \in {"c", "p"}
      /\ IsSwitch(s) => l \in {"h", "l"} /\ Len(s) # 4
      /\ IsOtherSwitch(s) => l \in {"h", "l"} /\ Len(s) = 4
      /\ \A b : IsRegion(s, b) => l = b /\ Len(s) = 6
      /\ \A b : IsNoRegion(s, b) => l = b /\ Len(s) = 3
  BY ONLY <1>2, Forms
<1> DEFINE E == CASE IsReset(s) -> Fresh
                  [] IsSwitch(s) -> WithModes(t, Named(s), s[Len(s)] = "h")
                  [] IsRegion(s, "r") -> Scrolled(t, Numbers[s[3]], Numbers[s[5]])
                  [] IsNoRegion(s, "r") -> Scrolled(t, 0, 0)
                  [] t.lrEnabled /\ IsRegion(s, "s") -> Sided(t, Numbers[s[3]], Numbers[s[5]])
                  [] t.lrEnabled /\ IsNoRegion(s, "s") -> Sided(t, 0, 0)
                  [] OTHER -> t
<1>4. Effect(t, k) = E
  BY <1>0 DEF Effect, Scrolled, Sided
<1>5. CASE IsReset(s)
  <2>1. E = Fresh
    <3>1. /\ ~IsSwitch(s) /\ ~IsRegion(s, "r") /\ ~IsRegion(s, "s")
          /\ ~IsNoRegion(s, "r") /\ ~IsNoRegion(s, "s")
      BY <1>3, <1>5
    <3> QED BY <1>5, <3>1
  <2>2. Observe(t, s) = Fresh
    BY <1>5, FullReset, SoftReset DEF IsReset
  <2> QED BY <1>0, <1>4, <2>1, <2>2
<1>6. CASE IsSwitch(s)
  <2>1. E = WithModes(t, Named(s), s[Len(s)] = "h")
    <3>1. /\ ~IsReset(s) /\ ~IsRegion(s, "r") /\ ~IsRegion(s, "s")
          /\ ~IsNoRegion(s, "r") /\ ~IsNoRegion(s, "s")
      BY <1>3, <1>6
    <3> QED BY <1>6, <3>1
  <2>2. Observe(t, s) = WithModes(t, Named(s), s[Len(s)] = "h")
    BY <1>1, <1>6, SwitchItem
  <2> QED BY <1>0, <1>4, <2>1, <2>2
<1>7. ASSUME NEW b \in {"r", "s"}, IsRegion(s, b) PROVE Observe(t, s) = E
  <2>1. PICK m \in Digits, n \in Digits :
          Numbers[m] < Numbers[n] /\ s = <<"ESC", "[", m, ";", n, b>>
    BY <1>7 DEF IsRegion
  <2>2. s[3] = m /\ s[5] = n
    BY <2>1
  <2>3. PICK x, y : x = Numbers[m] /\ y = Numbers[n]
    OBVIOUS
  <2>4. /\ b = "r" => Observe(t, s) = Scrolled(t, x, y)
        /\ b = "s" /\ t.lrEnabled => Observe(t, s) = Sided(t, x, y)
        /\ b = "s" /\ ~t.lrEnabled => Observe(t, s) = t
    <3>1. x < y
      BY ONLY <2>1, <2>3
    <3>2. Region(s, m, n, b)
      <4>1. PICK e, o, g : e = "ESC" /\ o = "[" /\ g = ";"
        OBVIOUS
      <4>2. s = <<e, o, m, g, n, b>>
        BY <2>1, <4>1
      <4>3. Len(s) = 6 /\ s[1] = e /\ s[2] = o /\ s[3] = m /\ s[4] = g /\ s[5] = n /\ s[6] = b
        BY ONLY <4>2
      <4> QED BY ONLY <1>1, <4>1, <4>3 DEF Region
    <3> QED BY ONLY <2>3, <3>1, <3>2, m \in Digits, n \in Digits, b \in {"r", "s"}, RegionItem
  <2>5. /\ ~IsReset(s) /\ ~IsSwitch(s) /\ ~IsNoRegion(s, "r") /\ ~IsNoRegion(s, "s")
        /\ IsRegion(s, "r") <=> b = "r"
        /\ IsRegion(s, "s") <=> b = "s"
    BY <1>3, <1>7
  <2>6. /\ b = "r" => E = Scrolled(t, x, y)
        /\ b = "s" /\ t.lrEnabled => E = Sided(t, x, y)
        /\ b = "s" /\ ~t.lrEnabled => E = t
    BY <2>2, <2>3, <2>5
  <2> QED BY ONLY <2>4, <2>6, b \in {"r", "s"}
<1>8. ASSUME NEW b \in {"r", "s"}, IsNoRegion(s, b) PROVE Observe(t, s) = E
  <2>1. s = <<"ESC", "[", b>>
    BY <1>8 DEF IsNoRegion
  <2>2. /\ b = "r" => Observe(t, s) = Scrolled(t, 0, 0)
        /\ b = "s" /\ t.lrEnabled => Observe(t, s) = Sided(t, 0, 0)
        /\ b = "s" /\ ~t.lrEnabled => Observe(t, s) = t
    BY ONLY <1>1, <2>1, b \in {"r", "s"}, NoRegionItem
  <2>3. /\ ~IsReset(s) /\ ~IsSwitch(s) /\ ~IsRegion(s, "r") /\ ~IsRegion(s, "s")
        /\ IsNoRegion(s, "r") <=> b = "r"
        /\ IsNoRegion(s, "s") <=> b = "s"
    BY <1>3, <1>8
  <2>4. /\ b = "r" => E = Scrolled(t, 0, 0)
        /\ b = "s" /\ t.lrEnabled => E = Sided(t, 0, 0)
        /\ b = "s" /\ ~t.lrEnabled => E = t
    BY <2>3
  <2> QED BY ONLY <2>2, <2>4, b \in {"r", "s"}
<1>9. CASE IsOtherSwitch(s)
  <2>1. E = t
    <3>1. /\ ~IsReset(s) /\ ~IsSwitch(s) /\ ~IsRegion(s, "r") /\ ~IsRegion(s, "s")
          /\ ~IsNoRegion(s, "r") /\ ~IsNoRegion(s, "s")
      BY <1>3, <1>9
    <3> QED BY <3>1
  <2>2. Observe(t, s) = t
    BY <1>9, OtherSwitch DEF IsOtherSwitch
  <2> QED BY <1>0, <1>4, <2>1, <2>2
<1>10. CASE /\ ~IsReset(s) /\ ~IsSwitch(s) /\ ~IsOtherSwitch(s)
            /\ \A b \in {"r", "s"} : ~IsRegion(s, b) /\ ~IsNoRegion(s, b)
  <2>1. E = t
    BY <1>10
  <2>2. ~(IsCSI(s) /\ s[Len(s)] \in ModeFinals)
    BY <1>0, <1>10, ModesAssumption DEF ModeFinals
  <2>3. s # <<"ESC", "c">>
    BY <1>10 DEF IsReset
  <2>4. Observe(t, s) = t
    BY <1>1, <2>2, <2>3, InertItem
  <2> QED BY <1>0, <1>4, <2>1, <2>4
<1> QED BY <1>0, <1>4, <1>5, <1>6, <1>7, <1>8, <1>9, <1>10
-----------------------------------------------------------------------------
\* Sequences of tokens are equal if their tokens are.
LEMMA SameTokens ==
  ASSUME NEW p \in Seq(Chars), NEW c \in Seq(Unit), Len(p) = Len(c),
         \A j \in 1..Len(c) : p[j] = Byte(c[j])
  PROVE  p = Tokens(c)
<1>1. p = [j \in 1..Len(p) |-> p[j]]
  OBVIOUS
<1>2. DOMAIN c = 1..Len(c)
  OBVIOUS
<1>3. Tokens(c) = [j \in 1..Len(c) |-> Byte(c[j])]
  BY <1>2 DEF Tokens, Byte, Item
<1> QED BY <1>1, <1>3

\* After i units of a stream that starts with a beginning: p are the tokens of its whole
\* items, they left observe and Execute with the same modes, and the next unit goes on
\* behind p.
Caught(t, c, f, i, p) ==
  /\ p \in Seq(Chars) /\ Len(p) <= i /\ \A j \in 1..Len(p) : p[j] = Byte(c[j])
  /\ Lands(p) /\ f[i] = [state |-> Observe(t, p), skip |-> FALSE]
  /\ i < Len(c) => c[i + 1].at = i + 1 - Len(p)
  /\ i > 0 /\ Ends(c[i]) => Len(p) = i

\* One unit further.
LEMMA CaughtStep ==
  ASSUME NEW t \in Modes, NEW c, Stream(c), NEW f, IsExecution(t, c, FALSE, f, Len(c)),
         NEW i \in 0..Len(c) - 1, NEW p, Caught(t, c, f, i, p)
  PROVE  \E q : Caught(t, c, f, i + 1, q)
<1>0. /\ c \in Seq(Unit) /\ Len(c) \in Nat /\ \A m \in 1..Len(c) : c[m] \in Unit
      /\ p \in Seq(Chars) /\ Len(p) \in Nat /\ Len(p) <= i /\ i \in Nat
  BY DEF Stream, Caught
<1>1. PICK n \in 1..Len(c) : n = i + 1 /\ n \in Nat /\ i = n - 1
  BY <1>0
<1>2. PICK u \in Unit : u = c[n]
  BY <1>0
<1>3. /\ IsItem(Item(u)) /\ Len(Item(u)) \in Nat \ {0} /\ u.at \in 1..Len(Item(u))
      /\ (Ends(u) <=> u.at = Len(Item(u)))
  BY UnitIs
<1>4. u.at = n - Len(p) /\ f[i] = [state |-> Observe(t, p), skip |-> FALSE]
  <2>1. f[i] = [state |-> Observe(t, p), skip |-> FALSE]
    BY DEF Caught
  <2>2. i < Len(c) /\ i + 1 = n
    BY ONLY <1>0, <1>1
  <2>3. c[i + 1].at = i + 1 - Len(p)
    BY <2>2 DEF Caught
  <2> QED BY <1>2, <2>1, <2>2, <2>3
<1>5. f[n] = ExecuteUnit(f[i], u)
  BY <1>1, <1>2 DEF IsExecution
<1>6. ASSUME n < Len(c)
      PROVE  c[n + 1].at = IF Ends(u) THEN 1 ELSE u.at + 1
  <2>1. n \in 1..Len(c) - 1
    BY <1>0, <1>6
  <2>2. Succeeds(u, c[n + 1])
    BY <1>2, <2>1 DEF Stream, Flows
  <2> QED BY <2>2 DEF Succeeds
<1>7. CASE ~Ends(u)
  <2>1. f[n] = f[i]
    BY <1>5, <1>7 DEF ExecuteUnit
  <2>2. n < Len(c) => c[n + 1].at = n + 1 - Len(p)
    BY <1>0, <1>1, <1>4, <1>6, <1>7
  <2>3. Len(p) <= n /\ \A j \in 1..Len(p) : p[j] = Byte(c[j])
    BY <1>0, <1>1 DEF Caught
  <2>4. Lands(p)
    BY DEF Caught
  <2>5. Caught(t, c, f, n, p)
    BY <1>0, <1>2, <1>4, <1>7, <2>1, <2>2, <2>3, <2>4 DEF Caught
  <2> QED BY <1>1, <2>5
<1>8. CASE Ends(u)
  <2> DEFINE s == Item(u)
  <2>0. s \in Seq(Chars) /\ Lands(s) /\ Lands(p)
    BY <1>3, ItemLands DEF IsItem, Caught
  <2>1. /\ Len(s) \in Nat \ {0} /\ Len(s) = n - Len(p) /\ u.at = Len(s)
        /\ n = Len(p) + Len(s) /\ u.at <= n
    BY <1>0, <1>1, <1>3, <1>4, <1>8
  <2>2. ASSUME NEW j \in 1..Len(s) PROVE Byte(c[Len(p) + j]) = s[j]
    <3>1. Len(p) \in Nat /\ Len(s) \in Nat /\ u.at = Len(s) /\ n = Len(p) + Len(s)
      BY <1>0, <1>1, <2>1
    <3>2. PICK e \in 0..u.at - 1 : n - e = Len(p) + j /\ u.at - e = j
      <4>1. PICK e : e = Len(s) - j
        OBVIOUS
      <4>2. e \in 0..u.at - 1 /\ n - e = Len(p) + j /\ u.at - e = j
        BY ONLY <3>1, <4>1, j \in 1..Len(s)
      <4> QED BY ONLY <4>2
    <3>3. c[n - e].item = u.item /\ c[n - e].at = u.at - e
      BY <1>2, <2>1, <3>2, Back
    <3> QED BY <3>2, <3>3 DEF Byte, Item
  <2> HIDE DEF s
  <2>3. PICK q : q = p \o s
    OBVIOUS
  <2>4. /\ q \in Seq(Chars) /\ Len(q) = n /\ Lands(q)
        /\ \A j \in 1..Len(p) : q[j] = p[j]
        /\ \A j \in 1..Len(s) : q[Len(p) + j] = s[j]
    BY <1>0, <2>0, <2>1, <2>3, ConcatIs, LandsConcat
  <2>5. ASSUME NEW j \in 1..n PROVE q[j] = Byte(c[j])
    <3>1. CASE j \in 1..Len(p)
      BY <2>4, <3>1 DEF Caught
    <3>2. CASE j \notin 1..Len(p)
      <4>1. PICK m \in 1..Len(s) : j = Len(p) + m
        <5>1. j - Len(p) \in 1..Len(s) /\ j = Len(p) + (j - Len(p))
          BY <1>0, <1>1, <2>1, <3>2
        <5> QED BY <5>1
      <4> QED BY <2>2, <2>4, <4>1
    <3> QED BY <3>1, <3>2
  <2>6. Observe(t, q) = Observe(Observe(t, p), s)
    BY <2>0, <2>3, Joins
  <2>7. f[n] = [state |-> Observe(t, q), skip |-> FALSE]
    <3>1. Observe(t, p) \in Modes
      BY <1>0, ObserveOK
    <3>2. Observe(Observe(t, p), s) = Effect(Observe(t, p), u.item)
      BY <3>1, UnitIs, EffectIs DEF s, Item
    <3> QED BY <1>4, <1>5, <1>8, <2>6, <3>2 DEF ExecuteUnit
  <2>8. n < Len(c) => c[n + 1].at = n + 1 - Len(q)
    BY <1>0, <1>6, <1>8, <2>4
  <2>9. Len(q) <= n /\ \A j \in 1..Len(q) : q[j] = Byte(c[j])
    BY <1>1, <2>4, <2>5
  <2>10. Caught(t, c, f, n, q)
    BY <2>4, <2>7, <2>8, <2>9 DEF Caught
  <2> QED BY <1>1, <2>10
<1> QED BY <1>7, <1>8

\* The tracker reads in a write of whole items what a terminal does with them, wherever the
\* items are.
LEMMA WholeItems ==
  ASSUME NEW t \in Modes, NEW c, Stream(c), c # << >> => c[1].at = 1 /\ Ends(c[Len(c)])
  PROVE  Observe(t, Tokens(c)) = Execute(t, c, FALSE)
<1>0. c \in Seq(Unit) /\ Len(c) \in Nat
  BY DEF Stream
<1>1. PICK f : IsExecution(t, c, FALSE, f, Len(c)) /\ Execute(t, c, FALSE) = f[Len(c)].state
  BY <1>0, ExecutionIs
<1> DEFINE T == {i \in Nat : \E p : Caught(t, c, f, i, p)}
<1>2. 0 \in T
  <2>1. f[0] = [state |-> Observe(t, << >>), skip |-> FALSE]
    BY <1>1, LandsNothing DEF IsExecution
  <2>2. << >> \in Seq(Chars) /\ Len(<< >>) = 0 /\ ~(0 > 0)
    OBVIOUS
  <2>3. 0 < Len(c) => c[0 + 1].at = 0 + 1 - Len(<< >>)
    <3>1. 0 < Len(c) => c # << >>
      BY <1>0
    <3> QED BY <3>1
  <2>4. \A j \in 1..Len(<< >>) : << >>[j] = Byte(c[j])
    OBVIOUS
  <2>5. Caught(t, c, f, 0, << >>)
    BY <2>1, <2>2, <2>3, <2>4, LandsNothing DEF Caught
  <2> QED BY <2>5
<1>3. ASSUME NEW i \in 0..Len(c) - 1, i \in T PROVE i + 1 \in T
  <2>1. PICK p : Caught(t, c, f, i, p)
    BY <1>3
  <2>2. \E q : Caught(t, c, f, i + 1, q)
    BY <1>1, <2>1, CaughtStep
  <2> QED BY <2>2
<1>4. 0..Len(c) \subseteq T
  <2> HIDE DEF T
  <2> QED BY <1>0, <1>2, <1>3, Induct
<1>5. PICK p : Caught(t, c, f, Len(c), p)
  BY <1>0, <1>4
<1>6. Len(p) = Len(c)
  <2>1. CASE c = << >>
    <3>1. Len(c) = 0 /\ Len(p) \in Nat /\ Len(p) <= Len(c)
      BY <1>5, <2>1 DEF Caught
    <3> QED BY <3>1
  <2>2. CASE c # << >>
    <3>1. Len(c) > 0
      BY <1>0, <2>2
    <3> QED BY <1>5, <2>2, <3>1 DEF Caught
  <2> QED BY <2>1, <2>2
<1>7. p = Tokens(c)
  BY <1>0, <1>5, <1>6, SameTokens DEF Caught
<1>8. f[Len(c)] = [state |-> Observe(t, p), skip |-> FALSE]
  BY <1>5 DEF Caught
<1>9. f[Len(c)].state = Observe(t, Tokens(c))
  BY <1>7, <1>8
<1> QED BY <1>1, <1>9
-----------------------------------------------------------------------------
\* A stream that starts with the beginning of an item.
Begins(s) == s # << >> => s[1].at = 1

\* What an attached replica shows of a session, unless it joined inside an item.
Shows(v, modes, over) ==
  v # << >> => v.modes = modes /\ (~over => v.joinedMidway = FALSE)

\* The inductive invariant of the modes: as long as no write was torn, the tracker, the
\* emulator and a replica have the same ones, and all stand between two items.
Agreed ==
  torn = {} =>
    /\ Begins(pending \o output)
    /\ tracked \in Modes /\ emu = tracked
    /\ ~ended => midway = FALSE
    /\ Shows(viewer, emu, ended)

\* A write of whole items takes all three to the same modes.
LEMMA WriteAgrees ==
  ASSUME NEW c, Stream(c), c # << >>, c[1].at = 1, Ends(c[Len(c)]), WriteOut(c),
         tracked \in Modes, emu = tracked, Shows(viewer, emu, FALSE)
  PROVE  /\ tracked' \in Modes /\ emu' = tracked' /\ midway' = FALSE
         /\ Shows(viewer', emu', FALSE)
<1>1. Len(Tokens(c)) \in Nat
  BY TokensIs DEF Stream
<1>2. tracked' = Observe(tracked, Tokens(c)) /\ emu' = Execute(emu, c, FALSE)
  BY DEF WriteOut
<1>3. tracked' \in Modes
  BY <1>1, <1>2, ObserveOK
<1>4. emu' = tracked'
  BY <1>2, WholeItems
<1>5. midway' = FALSE
  BY DEF WriteOut
<1>6. ASSUME viewer' # << >>
      PROVE  viewer'.modes = emu' /\ viewer'.joinedMidway = FALSE
  <2>1. viewer # << >>
    BY <1>6 DEF WriteOut
  <2>2. viewer.modes = emu /\ viewer.joinedMidway = FALSE
    BY <2>1 DEF Shows
  <2>3. viewer' = [modes |-> Execute(viewer.modes, c, viewer.joinedMidway),
                   joinedMidway |-> viewer.joinedMidway /\ \A i \in DOMAIN c : ~Ends(c[i])]
    BY <2>1 DEF WriteOut
  <2>4. viewer'.modes = Execute(viewer.modes, c, viewer.joinedMidway)
    BY <2>3
  <2>5. viewer'.joinedMidway = (viewer.joinedMidway /\ \A i \in DOMAIN c : ~Ends(c[i]))
    BY <2>3
  <2>6. viewer'.modes = emu'
    BY <1>2, <2>2, <2>4
  <2>7. viewer'.joinedMidway = FALSE
    BY <2>2, <2>5
  <2> QED BY <2>6, <2>7
<1> QED BY <1>3, <1>4, <1>5, <1>6 DEF Shows

\* Flushing the beginning of an item changes none.
LEMMA FlushAgrees ==
  ASSUME NEW c, Stream(c), c # << >>, c[1].at = 1, \A i \in 1..Len(c) : ~Ends(c[i]), WriteOut(c),
         Shows(viewer, emu, FALSE)
  PROVE  tracked' = tracked /\ emu' = emu /\ Shows(viewer', emu', TRUE)
<1>0. /\ c \in Seq(Unit) /\ Len(c) \in Nat \ {0} /\ \A m \in 1..Len(c) : c[m] \in Unit
      /\ Len(Tokens(c)) = Len(c) /\ \A i \in 1..Len(c) : Tokens(c)[i] = Byte(c[i])
  BY TokensIs DEF Stream
<1>1. PICK s : s = Item(c[1])
  OBVIOUS
<1>2. ASSUME NEW i \in 1..Len(c) PROVE c[i].item = c[1].item /\ c[i].at = i
  <2>1. 1 \in 1..Len(c) /\ Len(c) \in 1..Len(c)
    BY <1>0
  <2>2. \A m \in 1..Len(c) - 1 : ~Ends(c[m])
    BY <1>0
  <2>3. c[i].item = c[1].item /\ c[i].at = 1 + (i - 1)
    BY <1>0, <2>1, <2>2, Run
  <2>4. 1 + (i - 1) = i
    BY <1>0
  <2> QED BY <2>3, <2>4
<1>3. IsItem(s) /\ Len(c) < Len(s)
  <2>1. PICK n \in 1..Len(c) : n = Len(c)
    BY <1>0
  <2>2. c[n] \in Unit /\ c[n].item = c[1].item /\ c[n].at = n /\ ~Ends(c[n])
    BY <1>0, <1>2
  <2>3. /\ IsItem(Item(c[n])) /\ Len(Item(c[n])) \in Nat \ {0}
        /\ c[n].at \in 1..Len(Item(c[n])) /\ (Ends(c[n]) <=> c[n].at = Len(Item(c[n])))
    BY <2>2, UnitIs
  <2>4. Item(c[n]) = s
    BY <1>1, <2>2 DEF Item
  <2> QED BY <1>0, <2>1, <2>2, <2>3, <2>4
<1>4. \A i \in 1..Len(Tokens(c)) : Tokens(c)[i] = s[i]
  BY <1>0, <1>1, <1>2 DEF Byte, Item
<1>5. Observe(tracked, Tokens(c)) = tracked
  BY <1>0, <1>3, <1>4, ItemBegun
<1>6. \A t : Execute(t, c, FALSE) = t
  BY <1>0, ExecuteBegun
<1>7. tracked' = Observe(tracked, Tokens(c)) /\ emu' = Execute(emu, c, FALSE)
  BY DEF WriteOut
<1>8. ASSUME viewer' # << >> PROVE viewer'.modes = emu'
  <2>1. viewer # << >>
    BY <1>8 DEF WriteOut
  <2>2. viewer.modes = emu /\ viewer.joinedMidway = FALSE
    BY <2>1 DEF Shows
  <2>3. viewer'.modes = Execute(viewer.modes, c, viewer.joinedMidway)
    BY <2>1 DEF WriteOut
  <2> QED BY <1>7, <2>2, <2>3
<1> QED BY <1>5, <1>6, <1>7, <1>8 DEF Shows

\* A resize takes all three to the same modes.
LEMMA ResizeAgrees ==
  ASSUME Agreed, Resize PROVE Agreed'
<1> SUFFICES ASSUME torn = {} PROVE Agreed'
  BY DEF Agreed, Resize
<1>1. /\ ~ended /\ ended' = ended /\ midway' = midway /\ torn' = torn
      /\ pending' = pending /\ output' = output
      /\ emu' = Resized(emu) /\ tracked' = Resized(tracked)
  BY DEF Resize
<1>2. /\ Begins(pending \o output) /\ tracked \in Modes /\ emu = tracked /\ midway = FALSE
      /\ Shows(viewer, emu, ended)
  BY <1>1 DEF Agreed
<1>3. PICK r : r = Resized(tracked)
  OBVIOUS
<1>4. r \in Modes /\ r.top = 0 /\ r.bottom = 0 /\ r.left = 0 /\ r.right = 0
  BY <1>2, <1>3, ResizedOK
<1>5. tracked' = r /\ emu' = r
  BY <1>1, <1>2, <1>3
<1>6. Observe(r, RepaintOf(r)) = r
  BY <1>4, RepaintIs
<1>7. ASSUME viewer' # << >> PROVE viewer'.modes = r /\ viewer'.joinedMidway = FALSE
  <2>1. viewer # << >>
    BY <1>7 DEF Resize
  <2>2. viewer.modes = tracked /\ viewer.joinedMidway = FALSE
    BY <1>1, <1>2, <2>1 DEF Shows
  <2>3. viewer' = [modes |-> Observe(Resized(viewer.modes), RepaintOf(tracked')),
                   joinedMidway |-> viewer.joinedMidway \/ midway]
    BY <2>1 DEF Resize
  <2>4. viewer'.modes = Observe(Resized(viewer.modes), RepaintOf(tracked'))
    BY <2>3
  <2>5. viewer'.joinedMidway = (viewer.joinedMidway \/ midway)
    BY <2>3
  <2>6. viewer'.modes = r
    BY <1>3, <1>5, <1>6, <2>2, <2>4
  <2>7. viewer'.joinedMidway = FALSE
    BY <1>2, <2>2, <2>5
  <2> QED BY <2>6, <2>7
<1>8. Shows(viewer', emu', ended')
  BY <1>5, <1>7 DEF Shows
<1> QED BY <1>1, <1>2, <1>4, <1>5, <1>8 DEF Agreed

\* So does a snapshot.
LEMMA AttachAgrees ==
  ASSUME Agreed, Attach PROVE Agreed'
<1> SUFFICES ASSUME torn = {} PROVE Agreed'
  BY DEF Agreed, Attach
<1>1. /\ viewer' = [modes |-> Observe(Fresh, SnapshotOf(tracked)), joinedMidway |-> midway]
      /\ UNCHANGED <<output, emitted, pending, ended, midway, torn, emu, tracked>>
  BY DEF Attach
<1>2. /\ Begins(pending \o output) /\ tracked \in Modes /\ emu = tracked
      /\ (~ended => midway = FALSE)
  BY DEF Agreed
<1>3. viewer'.modes = Observe(Fresh, SnapshotOf(tracked)) /\ viewer'.joinedMidway = midway
  BY <1>1
<1>4. viewer'.modes = tracked
  BY <1>2, <1>3, SnapshotIs
<1>5. Shows(viewer', emu', ended')
  BY <1>1, <1>2, <1>3, <1>4 DEF Shows
<1> QED BY <1>1, <1>2, <1>5 DEF Agreed

\* The modes agree before the first read.
LEMMA InitAgrees == Init => Agreed
<1> SUFFICES ASSUME Init PROVE Agreed
  OBVIOUS
<1>1. pending \o output = << >> /\ midway = FALSE /\ viewer = << >>
  BY DEF Init
<1>2. tracked \in Modes /\ emu = tracked
  BY FreshOK DEF Init
<1> QED BY <1>1, <1>2 DEF Agreed, Begins, Shows

\* The child emits an item.
LEMMA EmitAgrees == ASSUME IInv, Agreed, Emit PROVE Agreed'
<1>1. PICK k \in DOMAIN Items : output' = output \o Units(k)
  BY DEF Emit
<1>2. UNCHANGED <<pending, ended, midway, torn, emu, tracked, viewer>>
  BY DEF Emit
<1>3. ASSUME Begins(pending \o output) PROVE Begins(pending' \o output')
  <2>1. Units(k) \in Seq(Unit) /\ output \in Seq(Unit) /\ pending \in Seq(Unit)
    BY UnitsAre DEF IInv
  <2>2. pending' \o output' = (pending \o output) \o Units(k)
    BY <1>1, <1>2, <2>1
  <2>3. PICK s \in Seq(Unit) : s = pending \o output
    BY <2>1, Concat
  <2>4. PICK q \in Seq(Unit) : q = s \o Units(k)
    BY <2>1, Concat
  <2>5. /\ Len(q) = Len(s) + Len(Items[k]) /\ Len(s) \in Nat /\ Len(Items[k]) \in Nat \ {0}
        /\ \A i \in 1..Len(s) : q[i] = s[i]
        /\ \A i \in 1..Len(Items[k]) : q[Len(s) + i] = [item |-> k, at |-> i]
    <3>1. PICK u \in Seq(Unit) : u = Units(k)
      BY <2>1
    <3>2. /\ Len(u) = Len(Items[k]) /\ Len(Items[k]) \in Nat \ {0}
          /\ \A i \in 1..Len(Items[k]) : u[i] = [item |-> k, at |-> i]
      BY <3>1, UnitsAre
    <3>3. /\ Len(q) = Len(s) + Len(u) /\ Len(s) \in Nat
          /\ \A i \in 1..Len(s) : q[i] = s[i]
          /\ \A i \in 1..Len(u) : q[Len(s) + i] = u[i]
      BY <2>4, <3>1, Concat
    <3> QED BY <3>2, <3>3
  <2>6. q[1].at = 1
    <3>1. CASE s = << >>
      <4>1. Len(s) = 0 /\ 1 \in 1..Len(Items[k]) /\ Len(s) + 1 = 1
        BY <2>5, <3>1
      <4>2. q[1] = [item |-> k, at |-> 1]
        BY <2>5, <4>1
      <4> QED BY <4>2
    <3>2. CASE s # << >>
      <4>1. 1 \in 1..Len(s)
        BY <2>5, <3>2
      <4>2. q[1] = s[1] /\ s[1].at = 1
        BY <1>3, <2>3, <2>5, <3>2, <4>1 DEF Begins
      <4> QED BY <4>2
    <3> QED BY <3>1, <3>2
  <2> QED BY <2>2, <2>3, <2>4, <2>6 DEF Begins
<1> QED BY <1>2, <1>3 DEF Agreed

\* The step that matters: what a read writes, unless it tears an item.
LEMMA ReadAgrees == ASSUME IInv, Agreed, NEW n \in 1..ReadMax, Read(n) PROVE Agreed'
<1>0. PICK s, chunk, cut, q :
        /\ s = pending \o output /\ chunk = pending \o SubSeq(output, 1, n)
        /\ cut = Cut(Tokens(chunk)) /\ q = pending' \o output'
        /\ Reads(n, s, chunk, cut, q)
  BY DEF Reads
<1>1. /\ ~ended /\ ended' = ended
      /\ torn' = IF cut > 0 /\ ~Ends(chunk[cut]) THEN torn \cup {chunk[cut].item} ELSE torn
      /\ cut > 0 => WriteOut(SubSeq(chunk, 1, cut))
      /\ ~(cut > 0) => UNCHANGED <<midway, emu, tracked, viewer>>
  BY <1>0 DEF Read
<1> SUFFICES ASSUME torn' = {} PROVE Agreed'
  BY DEF Agreed
<1>2. torn = {} /\ (cut > 0 => Ends(chunk[cut]))
  BY <1>1
<1>3. /\ Begins(s) /\ tracked \in Modes /\ emu = tracked /\ midway = FALSE
      /\ Shows(viewer, emu, FALSE)
  BY <1>0, <1>1, <1>2 DEF Agreed, Shows
<1>4. /\ chunk \in Seq(Unit) /\ Len(chunk) \in Nat
      /\ s \in Seq(Unit) /\ Len(s) \in Nat /\ Len(chunk) <= Len(s)
      /\ \A i \in 1..Len(chunk) : chunk[i] = s[i]
      /\ Stream(chunk) /\ cut \in 0..Len(chunk) /\ cut \in 0..Len(s)
      /\ q \in Seq(Unit) /\ Len(q) = Len(s) - cut
      /\ \A i \in 1..Len(q) : q[i] = s[cut + i]
  <2>1. Reads(n, s, chunk, cut, q)
    BY <1>0
  <2> QED BY <2>1, ReadCut
<1>5. Stream(s)
  BY <1>0 DEF IInv
<1>6. Begins(q)
  <2> SUFFICES ASSUME q # << >> PROVE q[1].at = 1
    BY DEF Begins
  <2>1. 1 \in 1..Len(q) /\ cut \in Nat /\ cut < Len(s)
    BY <1>4
  <2>2. q[1] = s[cut + 1]
    BY <1>4, <2>1
  <2>3. CASE cut = 0
    <3>1. s # << >> /\ cut + 1 = 1
      BY <1>4, <2>1, <2>3
    <3> QED BY <1>3, <2>2, <3>1 DEF Begins
  <2>4. CASE cut > 0
    <3>1. cut \in 1..Len(s) - 1 /\ cut \in 1..Len(chunk)
      BY <1>4, <2>1, <2>4
    <3>2. Succeeds(s[cut], s[cut + 1])
      BY <1>5, <3>1 DEF Stream, Flows
    <3>3. Ends(s[cut])
      BY <1>2, <1>4, <2>4, <3>1
    <3> QED BY <2>2, <3>2, <3>3 DEF Succeeds
  <2> QED BY <2>1, <2>3, <2>4
<1>7. /\ tracked' \in Modes /\ emu' = tracked' /\ midway' = FALSE
      /\ Shows(viewer', emu', FALSE)
  <2>1. CASE cut > 0
    <3>1. PICK c : c = SubSeq(chunk, 1, cut)
      OBVIOUS
    <3>2. c \in Seq(Unit) /\ Len(c) = cut /\ \A i \in 1..Len(c) : c[i] = chunk[i]
      BY <1>4, <2>1, <3>1
    <3>3. /\ cut \in 1..Len(chunk) /\ Len(c) <= Len(chunk) /\ c # << >>
          /\ 1 \in 1..Len(c) /\ Len(c) \in 1..Len(c) /\ s # << >>
      BY <1>4, <2>1, <3>2
    <3>4. Stream(c)
      BY <1>4, <3>2, <3>3, Prefix
    <3>5. c[1].at = 1 /\ Ends(c[Len(c)])
      <4>1. c[1] = chunk[1] /\ c[Len(c)] = chunk[cut]
        BY ONLY <3>2, <3>3
      <4>2. 1 \in 1..Len(chunk)
        BY ONLY <1>4, <3>3
      <4>3. chunk[1] = s[1]
        BY ONLY <1>4, <4>2
      <4> QED BY <1>2, <1>3, <2>1, <3>3, <4>1, <4>3 DEF Begins
    <3>6. WriteOut(c)
      BY <1>1, <2>1, <3>1
    <3> QED BY <1>3, <3>3, <3>4, <3>5, <3>6, WriteAgrees
  <2>2. CASE ~(cut > 0)
    BY <1>1, <1>3, <2>2
  <2> QED BY <2>1, <2>2
<1>8. Shows(viewer', emu', ended')
  BY <1>7 DEF Shows
<1> QED BY <1>0, <1>6, <1>7, <1>8 DEF Agreed

\* The end of the output, where only the beginning of an item can be left.
LEMMA ReadFailsAgrees == ASSUME IInv, Agreed, ReadFails PROVE Agreed'
<1>1. /\ ~ended /\ ended' = TRUE /\ output' = << >> /\ pending' = << >> /\ torn' = torn
      /\ pending # << >> => WriteOut(pending)
      /\ pending = << >> => UNCHANGED <<midway, emu, tracked, viewer>>
  BY DEF ReadFails
<1> SUFFICES ASSUME torn = {} PROVE Agreed'
  BY <1>1 DEF Agreed
<1>2. /\ Begins(pending \o output) /\ tracked \in Modes /\ emu = tracked
      /\ Shows(viewer, emu, FALSE)
  BY <1>1 DEF Agreed, Shows
<1>3. /\ pending \in Seq(Unit) /\ output \in Seq(Unit) /\ Stream(pending \o output)
      /\ \A i \in DOMAIN pending : ~Ends(pending[i])
  BY DEF IInv, HoldbackIsTight
<1>4. pending' \o output' = << >>
  BY <1>1
<1>5. tracked' = tracked /\ emu' = emu /\ Shows(viewer', emu', TRUE)
  <2>1. CASE pending # << >>
    <3>1. PICK s : s = pending \o output
      OBVIOUS
    <3>2. /\ s \in Seq(Unit) /\ Len(s) = Len(pending) + Len(output)
          /\ Len(pending) \in Nat /\ Len(output) \in Nat
          /\ \A i \in 1..Len(pending) : s[i] = pending[i]
      BY <1>3, <3>1, Concat
    <3>3. /\ Len(pending) <= Len(s) /\ Len(pending) >= 1 /\ s # << >>
          /\ DOMAIN pending = 1..Len(pending)
      BY <1>3, <2>1, <3>2
    <3>4. Stream(pending)
      BY <1>3, <3>1, <3>2, <3>3, Prefix
    <3>5. pending[1].at = 1
      BY <1>2, <3>1, <3>2, <3>3 DEF Begins
    <3>6. \A i \in 1..Len(pending) : ~Ends(pending[i])
      BY <1>3, <3>3
    <3> QED BY <1>1, <1>2, <2>1, <3>4, <3>5, <3>6, FlushAgrees
  <2>2. CASE pending = << >>
    BY <1>1, <1>2, <2>2 DEF Shows
  <2> QED BY <2>1, <2>2
<1>6. Shows(viewer', emu', ended') /\ Begins(pending' \o output')
  BY <1>1, <1>4, <1>5 DEF Shows, Begins
<1>7. tracked' \in Modes /\ emu' = tracked' /\ ended'
  BY <1>1, <1>2, <1>5
<1> QED BY <1>6, <1>7 DEF Agreed

\* The invariant of the modes holds in every state.
THEOREM Agreement == Spec => []Agreed
<1>1. IInv /\ Agreed /\ [Next]_vars => Agreed'
  <2> SUFFICES ASSUME IInv, Agreed, [Next]_vars PROVE Agreed'
    OBVIOUS
  <2>1. CASE Emit
    BY <2>1, EmitAgrees
  <2>2. CASE \E n \in 1..ReadMax : Read(n)
    BY <2>2, ReadAgrees
  <2>3. CASE ReadFails
    BY <2>3, ReadFailsAgrees
  <2>4. CASE Attach
    BY <2>4, AttachAgrees
  <2>5. CASE Resize
    BY <2>5, ResizeAgrees
  <2>6. CASE UNCHANGED vars
    BY <2>6 DEF vars, Agreed
  <2> QED BY <2>1, <2>2, <2>3, <2>4, <2>5, <2>6 DEF Next
<1> QED BY InitAgrees, Invariance, <1>1, PTL DEF Spec

\* Unless a write was torn, the tracker and the emulator are in the same modes, and a
\* replica that attached between any two writes, and was repainted on any resizes, in the
\* ones of the session: however the reads cut the output, and whatever was emitted.
THEOREM ModesAlwaysAgree == Spec => []ModesAgree
<1>1. Agreed => ModesAgree
  BY DEF Agreed, ModesAgree, Shows
<1> QED BY <1>1, Agreement, PTL
================================================================================
