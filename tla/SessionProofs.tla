---------------------------- MODULE SessionProofs ----------------------------
(***************************************************************************)
(* TLAPS proofs about Session: its safety properties hold for every set of *)
(* subscriptions, every set of sizes, every buffer capacity and every      *)
(* bound.  The argument is one inductive invariant, IInv, preserved action *)
(* by action.                                                              *)
(***************************************************************************)
EXTENDS Session, WellFoundedInduction, TLAPS

-----------------------------------------------------------------------------
(***************************************************************************)
(* Queues and replicas.                                                    *)
(***************************************************************************)

\* A queue that continues a replica still does after a message that applies to
\* its last version is queued (deliver).
LEMMA ContinuesAppend ==
  ASSUME NEW q \in Seq(Message), NEW v \in Int, Continues(q, v), NEW m \in Message,
         Applies(Tip(q, v), m)
  PROVE  Continues(Append(q, m), v)
<1> DEFINE p == Append(q, m)
<1>1. /\ p \in Seq(Message) /\ Len(p) = Len(q) + 1 /\ p[Len(p)] = m
      /\ \A i \in 1..Len(q) : p[i] = q[i]
  OBVIOUS
<1>2. SUFFICES ASSUME NEW i \in 1..Len(p)
               PROVE  \/ Applies(IF i = 1 THEN v ELSE p[i - 1].version, p[i])
                      \/ \E j \in i..Len(p) : p[j].kind = "resync"
  BY DEF Continues
<1>3. CASE i = Len(p)
  <2>1. CASE q = << >>
    BY <1>1, <1>3, <2>1 DEF Tip
  <2>2. CASE q # << >>
    <3>1. Len(q) \in 1..Len(q) /\ i # 1 /\ p[i - 1] = q[Len(q)]
      BY <1>1, <1>3, <2>2
    <3> QED BY <3>1, <1>1, <1>3, <2>2 DEF Tip
  <2> QED BY <2>1, <2>2
<1>4. CASE i # Len(p)
  <2>1. i \in 1..Len(q) /\ p[i] = q[i] /\ (i # 1 => p[i - 1] = q[i - 1])
    BY <1>1, <1>4
  <2>2. CASE Applies(IF i = 1 THEN v ELSE q[i - 1].version, q[i])
    BY <2>1, <2>2
  <2>3. CASE \E j \in i..Len(q) : q[j].kind = "resync"
    BY <2>1, <2>3, <1>1
  <2> QED BY <2>1, <2>2, <2>3 DEF Continues
<1> QED BY <1>3, <1>4

\* A queue that ends in a resync continues any replica (flushResyncsLocked).
LEMMA ContinuesResync ==
  ASSUME NEW q \in Seq(Message), NEW v \in Int, NEW w \in Nat
  PROVE  Continues(Append(q, Resync(w)), v)
<1> DEFINE p == Append(q, Resync(w))
<1>1. Len(p) = Len(q) + 1 /\ p[Len(p)].kind = "resync" /\ Len(q) \in Nat
  BY DEF Resync
<1>2. \A i \in 1..Len(p) : Len(p) \in i..Len(p)
  BY <1>1
<1> QED BY <1>1, <1>2 DEF Continues

\* Reading the head of a queue keeps it continuing, and tears the replica only
\* when a resync is still queued (a reader applying Output's messages).
LEMMA ContinuesTail ==
  ASSUME NEW q \in Seq(Message), NEW v \in Int, Continues(q, v), q # << >>,
         NEW w, w = (IF Applies(v, Head(q)) THEN Head(q).version ELSE Torn)
  PROVE  /\ w \in Int /\ Continues(Tail(q), w)
         /\ w = Torn => Heals(Tail(q))
         /\ Tip(Tail(q), w) = Tip(q, v)
<1> DEFINE p == Tail(q)
<1>1. /\ p \in Seq(Message) /\ Len(p) = Len(q) - 1 /\ Len(q) \in Nat \ {0}
      /\ \A i \in 1..Len(p) : p[i] = q[i + 1]
      /\ Head(q) = q[1] /\ q[1] \in Message
  OBVIOUS
<1>2. w \in Int /\ (w = Torn => ~Applies(v, q[1]))
  BY <1>1 DEF Torn, Message
<1>3. ~Applies(v, q[1]) => \E j \in 1..Len(p) : p[j].kind = "resync"
  <2>1. SUFFICES ASSUME ~Applies(v, q[1])
                 PROVE  \E j \in 1..Len(p) : p[j].kind = "resync"
    OBVIOUS
  <2>2. 1 \in 1..Len(q)
    BY <1>1
  <2>3. PICK j \in 1..Len(q) : q[j].kind = "resync"
    BY <2>1, <2>2 DEF Continues
  <2>4. j # 1
    BY <2>1, <2>3 DEF Applies
  <2>5. j - 1 \in 1..Len(p) /\ p[j - 1] = q[j]
    BY <1>1, <2>4
  <2> QED BY <2>3, <2>5
<1>4. Continues(p, w)
  <2>1. SUFFICES ASSUME NEW i \in 1..Len(p)
                 PROVE  \/ Applies(IF i = 1 THEN w ELSE p[i - 1].version, p[i])
                        \/ \E j \in i..Len(p) : p[j].kind = "resync"
    BY DEF Continues
  <2>2. /\ i + 1 \in 1..Len(q) /\ p[i] = q[i + 1] /\ i + 1 # 1
        /\ (i + 1) - 1 = i /\ (i # 1 => p[i - 1] = q[i])
    BY <1>1
  <2>3. CASE i = 1 /\ ~Applies(v, q[1])
    BY <1>3, <2>3
  <2>4. CASE i # 1 \/ Applies(v, q[1])
    <3>1. (IF i = 1 THEN w ELSE p[i - 1].version) = q[i].version
      BY <2>2, <2>4, <1>1
    <3>2. CASE Applies(q[i].version, q[i + 1])
      BY <3>1, <3>2, <2>2
    <3>3. CASE \E j \in (i + 1)..Len(q) : q[j].kind = "resync"
      <4>1. PICK j \in (i + 1)..Len(q) : q[j].kind = "resync"
        BY <3>3
      <4>2. j - 1 \in i..Len(p) /\ p[j - 1] = q[j]
        BY <1>1
      <4> QED BY <4>1, <4>2
    <3> QED BY <2>2, <3>2, <3>3 DEF Continues
  <2> QED BY <2>3, <2>4
<1>5. p = << >> => w = q[Len(q)].version
  <2>1. SUFFICES ASSUME p = << >> PROVE w = q[Len(q)].version
    OBVIOUS
  <2>2. Len(p) = 0 /\ Len(q) = 1
    <3> HIDE DEF p
    <3>1. Len(p) = 0
      BY <2>1
    <3> QED BY <3>1, <1>1
  <2>3. Applies(v, q[1])
    <3> HIDE DEF p
    <3>1. 1..Len(p) = {}
      BY <2>2
    <3> QED BY <1>3, <3>1
  <2> QED BY <2>2, <2>3, <1>1
<1>6. p # << >> => p[Len(p)] = q[Len(q)]
  BY <1>1
<1> QED BY <1>1, <1>2, <1>3, <1>4, <1>5, <1>6 DEF Heals, Tip

-----------------------------------------------------------------------------
(***************************************************************************)
(* The size the statements resolve to.                                     *)
(***************************************************************************)

\* Stamped statements always have a newest one, so the resolved size is a size
\* of the terminal (effectiveLocked).
LEMMA EffectiveIsASize ==
  ASSUME NEW n \in Nat, NEW V \in [Subs -> View],
         NEW B \in [size : Sizes, seq : Nat], B.seq <= n,
         \A s \in Spoke(Subs, V) : V[s].size \in Sizes /\ V[s].seq <= n
  PROVE  Effective(V, B) \in Sizes
<1> DEFINE statements == {B} \cup {V[s] : s \in Spoke(Subs, V)}
           gaps == {k \in Nat : \E t \in statements : t.seq + k = n}
<1>1. \A t \in statements : t.seq \in Nat /\ t.seq <= n /\ t.size \in Sizes
  BY DEF Spoke, View
<1>2. n - B.seq \in gaps
  BY <1>1
<1>3. PICK k \in gaps : \A l \in gaps : ~(<<l, k>> \in OpToRel(<, Nat))
  <2> HIDE DEF gaps
  <2>1. gaps # {} /\ gaps \subseteq Nat
    BY <1>2 DEF gaps
  <2> QED BY <2>1, NatLessThanWellFounded, WFMin
<1>4. \A l \in gaps : k <= l
  <2>1. SUFFICES ASSUME NEW l \in gaps, l < k PROVE FALSE
    OBVIOUS
  <2>2. <<l, k>> \in OpToRel(<, Nat)
    BY <2>1 DEF OpToRel
  <2> QED BY <2>2, <1>3
<1>5. PICK t \in statements : t.seq + k = n
  OBVIOUS
<1>6. \A u \in statements : t.seq >= u.seq
  <2>1. SUFFICES ASSUME NEW u \in statements PROVE t.seq >= u.seq
    OBVIOUS
  <2>2. n - u.seq \in gaps
    BY <1>1
  <2> QED BY <2>2, <1>1, <1>4, <1>5
<1> HIDE DEF statements
<1>7. (CHOOSE x \in statements : \A u \in statements : x.seq >= u.seq) \in statements
  BY <1>5, <1>6
<1> QED BY <1>7, <1>1 DEF Effective, statements

\* The views and the base after each kind of statement still resolve to a size
\* (ResizeViewer and AttachWith, Resize, settleSize).
LEMMA StatementsResolve ==
  ASSUME TypeOK, Stamped(views, base, viewSeq)
  PROVE  /\ Effective(views, base) \in Sizes
         /\ \A z \in Sizes :
              /\ Effective(views, Statement(z)) \in Sizes
              /\ \A s \in Subs :
                   /\ [views EXCEPT ![s] = Statement(z)] \in [Subs -> View]
                   /\ Effective([views EXCEPT ![s] = Statement(z)], base) \in Sizes
<1> USE DEF TypeOK, Stamped
<1>1. viewSeq + 1 \in Nat /\ base.seq <= viewSeq + 1
  OBVIOUS
<1>2. \A s \in Spoke(Subs, views) : views[s].size \in Sizes /\ views[s].seq <= viewSeq + 1
  <2>1. \A s \in Spoke(Subs, views) : views[s].size \in Sizes /\ views[s].seq \in 1..viewSeq
    BY Zenon
  <2>2. viewSeq \in Nat
    BY Zenon
  <2>3. \A k \in 1..viewSeq : k <= viewSeq + 1
    BY <2>2
  <2> QED BY <2>1, <2>3, Zenon
<1>3. Effective(views, base) \in Sizes
  BY <1>1, <1>2, EffectiveIsASize
<1>4. ASSUME NEW z \in Sizes
      PROVE  /\ Effective(views, Statement(z)) \in Sizes
             /\ \A s \in Subs :
                  /\ [views EXCEPT ![s] = Statement(z)] \in [Subs -> View]
                  /\ Effective([views EXCEPT ![s] = Statement(z)], base) \in Sizes
  <2>1. Statement(z) \in [size : Sizes, seq : Nat] /\ Statement(z).seq <= viewSeq + 1
    BY DEF Statement
  <2>2. Effective(views, Statement(z)) \in Sizes
    BY <1>1, <1>2, <2>1, EffectiveIsASize
  <2>3. ASSUME NEW s \in Subs
        PROVE  /\ [views EXCEPT ![s] = Statement(z)] \in [Subs -> View]
               /\ Effective([views EXCEPT ![s] = Statement(z)], base) \in Sizes
    <3> DEFINE V == [views EXCEPT ![s] = Statement(z)]
    <3>1. V \in [Subs -> View]
      BY <2>1 DEF View
    <3>2. ASSUME NEW u \in Spoke(Subs, V)
          PROVE  V[u].size \in Sizes /\ V[u].seq <= viewSeq + 1
      <4>1. CASE u = s
        BY <4>1, <2>1 DEF Spoke, Statement
      <4>2. CASE u # s
        BY <4>2, <1>2 DEF Spoke
      <4> QED BY <4>1, <4>2
    <3> HIDE DEF V
    <3>3. Effective(V, base) \in Sizes
      BY <1>1, <3>1, <3>2, EffectiveIsASize
    <3> QED BY <3>1, <3>3 DEF V
  <2> QED BY <2>2, <2>3
<1> QED BY <1>3, <1>4

-----------------------------------------------------------------------------
(***************************************************************************)
(* Types.                                                                  *)
(***************************************************************************)

\* Every message the session makes is a message.
LEMMA MessageTypes ==
  ASSUME NEW v \in Nat
  PROVE  Bytes(v) \in Message /\ Repaint(v) \in Message /\ Resync(v) \in Message
BY DEF Bytes, Repaint, Resync, Message

\* The part of the type invariant a broadcast touches, after it.
DeliveredType ==
  /\ ch' \in [Subs -> Seq(Message)] /\ \A s \in Subs : Len(ch'[s]) <= Buffer
  /\ done' \subseteq Subs /\ lagged' \subseteq Subs /\ retire' \subseteq Subs
  /\ subs' \subseteq Subs /\ missed' \subseteq Subs /\ settling' \subseteq Subs
  /\ views' \in [Subs -> View]
  /\ armed' \in BOOLEAN

\* A broadcast keeps types and capacities (deliver).
LEMMA DeliverType ==
  ASSUME TypeOK, NEW m \in Message, NEW S \in SUBSET Subs, NEW R \in SUBSET Subs,
         NEW V \in [Subs -> View], NEW G \in SUBSET Subs, Deliver(m, S, R, V, G)
  PROVE  DeliveredType
<1> DEFINE full == {s \in Open(S) : Len(ch[s]) >= Buffer}
<1>1. ch' = [s \in Subs |-> IF s \in Open(S) \ full THEN Append(ch[s], m) ELSE ch[s]]
  BY DEF Deliver
<1>2. ASSUME NEW s \in Subs
      PROVE  ch'[s] \in Seq(Message) /\ Len(ch'[s]) <= Buffer
  <2>1. ch[s] \in Seq(Message) /\ Len(ch[s]) \in Nat /\ Len(ch[s]) <= Buffer
    BY DEF TypeOK
  <2>2. CASE s \in Open(S) \ full
    <3>1. Len(ch[s]) < Buffer /\ ch'[s] = Append(ch[s], m)
      BY <1>1, <2>1, <2>2, BufferAssumption
    <3> QED BY <2>1, <3>1, BufferAssumption
  <2>3. CASE s \notin Open(S) \ full
    BY <1>1, <2>1, <2>3
  <2> QED BY <2>2, <2>3
<1>3. ch' \in [Subs -> Seq(Message)]
  <2> HIDE DEF full
  <2>1. DOMAIN ch' = Subs /\ ch' = [s \in Subs |-> ch'[s]]
    BY <1>1
  <2> QED BY <1>2, <2>1
<1>4. NoView \in View
  BY DEF NoView, View
<1>5. views' \in [Subs -> View]
  BY <1>4 DEF Deliver
<1>6. /\ done' \subseteq Subs /\ lagged' \subseteq Subs /\ retire' \subseteq Subs
      /\ subs' \subseteq Subs /\ missed' \subseteq Subs /\ settling' \subseteq Subs
  BY DEF Deliver, Open, Orphaned, Spoke, TypeOK
<1>7. armed' \in BOOLEAN
  BY DEF Deliver, Arms
<1> QED BY <1>2, <1>3, <1>5, <1>6, <1>7 DEF DeliveredType

\* Applying the resolved size keeps types and capacities (applySizeLocked).
LEMMA ApplySizeType ==
  ASSUME TypeOK, NEW S \in SUBSET Subs, NEW R \in SUBSET Subs,
         NEW V \in [Subs -> View], NEW B \in [size : Sizes, seq : Nat],
         NEW G \in SUBSET Subs, Effective(V, B) \in Sizes, ApplySize(S, R, V, B, G)
  PROVE  /\ version' \in Nat /\ size' \in Sizes
         /\ DeliveredType
<1>1. CASE Effective(V, B) = size \/ ptyClosed
  BY <1>1 DEF ApplySize, TypeOK, DeliveredType
<1>2. CASE ~(Effective(V, B) = size \/ ptyClosed)
  <2>1. /\ Deliver(Repaint(version + 1), S, R, V, G)
        /\ version' = version + 1 /\ size' = Effective(V, B)
    BY <1>2 DEF ApplySize
  <2>2. version + 1 \in Nat /\ Repaint(version + 1) \in Message
    BY MessageTypes DEF TypeOK
  <2> QED BY <2>1, <2>2, DeliverType
<1> QED BY <1>1, <1>2

\* The eviction always leaves room for the final state (flushResyncsLocked, force).
LEMMA RoomForLastCall ==
  ASSUME TypeOK, EvictionsCover, lastCall # "none", NEW s \in Debtors
  PROVE  /\ Room(s) \in Seq(Message) /\ Len(Room(s)) < Buffer
         /\ Append(Room(s), Resync(version)) \in Seq(Message)
         /\ Len(Append(Room(s), Resync(version))) <= Buffer
<1>1. s \in Subs /\ ch[s] \in Seq(Message) /\ Len(ch[s]) \in 0..Buffer
  BY BufferAssumption DEF TypeOK, Debtors
<1>2. Room(s) \in Seq(Message) /\ Len(Room(s)) < Buffer
  <2>1. CASE s \in evict /\ ch[s] # << >>
    <3>1. Tail(ch[s]) \in Seq(Message) /\ Len(Tail(ch[s])) = Len(ch[s]) - 1
      BY <1>1, <2>1
    <3> QED BY <1>1, <2>1, <3>1, BufferAssumption DEF Room
  <2>2. CASE s \in evict /\ ch[s] = << >>
    <3>1. Len(ch[s]) = 0
      BY <2>2
    <3> QED BY <1>1, <2>2, <3>1, BufferAssumption DEF Room
  <2>3. CASE s \notin evict
    BY <1>1, <2>3, BufferAssumption DEF Room, EvictionsCover, FullDebtors
  <2> QED BY <2>1, <2>2, <2>3
<1>3. Resync(version) \in Message
  BY MessageTypes DEF TypeOK
<1> QED BY <1>2, <1>3, BufferAssumption

\* The last call keeps types and capacities.
LEMMA PayLastCallType ==
  ASSUME TypeOK, EvictionsCover, lastCall # "none", PayLastCall
  PROVE  /\ ch' \in [Subs -> Seq(Message)] /\ \A s \in Subs : Len(ch'[s]) <= Buffer
         /\ cut' \in [Subs -> Int] /\ subs' = {} /\ lastCall' = "none" /\ evict' = {}
<1>1. ASSUME NEW s \in Subs
      PROVE  ch'[s] \in Seq(Message) /\ Len(ch'[s]) <= Buffer
  BY RoomForLastCall DEF PayLastCall, TypeOK
<1>2. DOMAIN ch' = Subs /\ ch' = [s \in Subs |-> ch'[s]]
  BY DEF PayLastCall
<1>3. ch' \in [Subs -> Seq(Message)]
  BY <1>1, <1>2
<1> QED BY <1>1, <1>3 DEF PayLastCall, TypeOK

\* A step keeps the types.
LEMMA TypeStep ==
  ASSUME IInv, [Next]_vars
  PROVE  TypeOK'
<1> USE DEF IInv
<1>1. CASE Output
  <2>1. version + 1 \in Nat /\ Bytes(version + 1) \in Message
    BY MessageTypes DEF TypeOK
  <2>2. Deliver(Bytes(version + 1), subs, retire, views, settling)
    BY <1>1 DEF Output
  <2>3. DeliveredType
    BY <2>1, <2>2, DeliverType DEF TypeOK
  <2> QED BY <1>1, <2>1, <2>3 DEF TypeOK, DeliveredType, Output
<1>2. CASE WaitLoop
  BY <1>2 DEF WaitLoop, TypeOK, terminal, streams
<1>3. CASE ResyncTimer
  <2>1. ASSUME NEW s \in Subs
        PROVE  ch'[s] \in Seq(Message) /\ Len(ch'[s]) <= Buffer
    <3>1. ch[s] \in Seq(Message) /\ Len(ch[s]) \in 0..Buffer /\ Resync(version) \in Message
      BY BufferAssumption, MessageTypes DEF TypeOK
    <3>2. CASE s \in Debtors \ FullDebtors
      BY <1>3, <3>1, <3>2, BufferAssumption DEF ResyncTimer, FullDebtors
    <3>3. CASE s \notin Debtors \ FullDebtors
      BY <1>3, <3>1, <3>3 DEF ResyncTimer
    <3> QED BY <3>2, <3>3
  <2>2. ch' = [s \in Subs |-> ch'[s]]
    BY <1>3 DEF ResyncTimer
  <2>3. ch' \in [Subs -> Seq(Message)]
    BY <2>1, <2>2
  <2>4. missed' \subseteq Subs /\ armed' \in BOOLEAN
    BY <1>3 DEF ResyncTimer, TypeOK
  <2> QED BY <1>3, <2>1, <2>3, <2>4 DEF ResyncTimer, TypeOK, terminal
<1>4. CASE ReadError
  BY <1>4 DEF ReadError, TypeOK, terminal, streams, FullDebtors, Debtors
<1>5. CASE CloseSession
  BY <1>5 DEF CloseSession, TypeOK, terminal, streams, FullDebtors, Debtors
<1>6. CASE FinishStreams
  <2>1. lastCall # "none" /\ PayLastCall
    BY <1>6 DEF FinishStreams
  <2> QED BY <1>6, <2>1, PayLastCallType DEF FinishStreams, TypeOK, terminal
<1>7. CASE TakeStreams
  <2>1. lastCall # "none" /\ PayLastCall
    BY <1>7 DEF TakeStreams
  <2> QED BY <1>7, <2>1, PayLastCallType DEF TakeStreams, TypeOK, terminal
<1>8. CASE Release
  BY <1>8 DEF Release, TypeOK, terminal, streams
<1>9. ASSUME NEW z \in Sizes, Resize(z) PROVE TypeOK'
  <2>1. /\ ApplySize(subs, retire, views, Statement(z), settling)
        /\ Effective(views, Statement(z)) \in Sizes
        /\ Statement(z) \in [size : Sizes, seq : Nat]
    BY <1>9, StatementsResolve DEF Resize, Statement, TypeOK
  <2>2. version' \in Nat /\ size' \in Sizes /\ DeliveredType
    BY <2>1, ApplySizeType DEF TypeOK
  <2> QED BY <1>9, <2>1, <2>2 DEF Resize, TypeOK, DeliveredType
<1>10. ASSUME NEW s \in Subs, FinishTaken(s) PROVE TypeOK'
  BY <1>10 DEF FinishTaken, TypeOK, terminal
<1>11. ASSUME NEW s \in Subs, Receive(s) PROVE TypeOK'
  <2>1. /\ ch[s] \in Seq(Message) /\ ch[s] # << >>
        /\ Tail(ch[s]) \in Seq(Message) /\ Len(Tail(ch[s])) = Len(ch[s]) - 1
        /\ Head(ch[s]) \in Message
    BY <1>11 DEF Receive, TypeOK
  <2>2. Head(ch[s]).version \in Int /\ Torn \in Int
    BY <2>1 DEF Message, Torn
  <2>3. ch' \in [Subs -> Seq(Message)] /\ \A u \in Subs : Len(ch'[u]) <= Buffer
    BY <1>11, <2>1, BufferAssumption DEF Receive, TypeOK
  <2>4. replica' \in [Subs -> Int]
    BY <1>11, <2>2 DEF Receive, TypeOK
  <2> QED BY <1>11, <2>3, <2>4 DEF Receive, TypeOK, terminal, lifecycle
<1>12. ASSUME NEW s \in Subs, CloseSub(s) PROVE TypeOK'
  BY <1>12 DEF CloseSub, TypeOK, terminal, lifecycle
<1>13. ASSUME NEW s \in Subs, RetireViewer(s) PROVE TypeOK'
  <2>1. NoView \in View
    BY DEF NoView, View
  <2> QED BY <1>13, <2>1 DEF RetireViewer, TypeOK, lifecycle, Orphaned, Spoke
<1>14. ASSUME NEW s \in Subs, SettleSize(s) PROVE TypeOK'
  <2>1. CASE closed \/ exited
    BY <1>14, <2>1 DEF SettleSize, TypeOK
  <2>2. CASE ~closed /\ ~exited
    <3>1. /\ ApplySize(subs, retire, views, base, settling \ {s})
          /\ Effective(views, base) \in Sizes
      BY <1>14, <2>2, StatementsResolve DEF SettleSize
    <3>2. version' \in Nat /\ size' \in Sizes /\ DeliveredType
      <4>1. settling \ {s} \in SUBSET Subs
        BY DEF TypeOK
      <4> QED BY <3>1, <4>1, ApplySizeType DEF TypeOK
    <3> QED BY <1>14, <3>2 DEF SettleSize, TypeOK, DeliveredType
  <2> QED BY <2>1, <2>2
<1>15. ASSUME NEW s \in Subs, NEW z \in Sizes \cup {NoSize}, AttachWith(s, z)
       PROVE  TypeOK'
  <2>1. CASE AttachOver(s)
    BY <1>15, <2>1 DEF AttachWith, AttachOver, TypeOK, terminal
  <2>2. CASE AttachLive(s, z)
    <3>1. resync' \subseteq Subs
      BY <2>2 DEF AttachLive, TypeOK
    <3>2. CASE z = NoSize
      BY <1>15, <2>2, <3>1, <3>2, SizesAssumption
         DEF AttachWith, AttachLive, TypeOK, terminal
    <3>3. CASE z \in Sizes
      <4> DEFINE V == [views EXCEPT ![s] = Statement(z)]
      <4>1. /\ ApplySize(subs \cup {s}, retire \cup {s}, V, base, settling)
            /\ viewSeq' = viewSeq + 1 /\ UNCHANGED <<base, retiring, cut>>
            /\ replica' = [replica EXCEPT ![s] = version']
        BY <2>2, <3>3, SizesAssumption DEF AttachLive
      <4>2. V \in [Subs -> View] /\ Effective(V, base) \in Sizes
        BY <3>3, StatementsResolve
      <4> HIDE DEF V
      <4>3. version' \in Nat /\ size' \in Sizes /\ DeliveredType
        <5>1. subs \cup {s} \in SUBSET Subs /\ retire \cup {s} \in SUBSET Subs
          BY DEF TypeOK
        <5> QED BY <4>1, <4>2, <5>1, ApplySizeType DEF TypeOK
      <4>4. replica' \in [Subs -> Int]
        BY <4>1, <4>3 DEF TypeOK
      <4>5. joined' \subseteq Subs /\ viewSeq' \in Nat
        BY <1>15, <4>1 DEF AttachWith, TypeOK
      <4>6. UNCHANGED <<eof, exited, closed, ptyClosed, closing, lastCall, evict>>
        BY <1>15 DEF AttachWith
      <4> QED BY <3>1, <4>1, <4>3, <4>4, <4>5, <4>6 DEF TypeOK, DeliveredType
    <3> QED BY <3>2, <3>3
  <2> QED BY <1>15, <2>1, <2>2 DEF AttachWith
<1>16. ASSUME NEW s \in Subs, NEW z \in Sizes, ResizeViewer(s, z) PROVE TypeOK'
  <2> DEFINE V == [views EXCEPT ![s] = Statement(z)]
  <2>1. /\ ApplySize(subs, retire, V, base, settling)
        /\ V \in [Subs -> View] /\ Effective(V, base) \in Sizes
    BY <1>16, StatementsResolve DEF ResizeViewer
  <2> HIDE DEF V
  <2>2. version' \in Nat /\ size' \in Sizes /\ DeliveredType
    BY <2>1, ApplySizeType DEF TypeOK
  <2> QED BY <1>16, <2>2 DEF ResizeViewer, TypeOK, DeliveredType
<1>17. CASE UNCHANGED vars
  BY <1>17 DEF vars, terminal, streams, lifecycle, TypeOK
<1> QED BY <1>1, <1>2, <1>3, <1>4, <1>5, <1>6, <1>7, <1>8, <1>9, <1>10, <1>11,
           <1>12, <1>13, <1>14, <1>15, <1>16, <1>17 DEF Next

-----------------------------------------------------------------------------
(***************************************************************************)
(* What a broadcast does to everything but the queues.                     *)
(***************************************************************************)

\* Of the subscriptions S, those in D are dropped for lag and those in O go into
\* debt.
Broadcast(S, R, V, G, D, O) ==
  /\ D \cup O \subseteq Open(S) /\ D \cap resync = {} /\ O \subseteq resync
  /\ done' = done \cup D /\ retire' = R \ D /\ subs' = S \ D
  /\ views' = [s \in Subs |-> IF s \in D THEN NoView ELSE V[s]]
  /\ settling' = G \cup Orphaned(D, V)
  /\ missed' = missed \cup O /\ armed' = Arms(O)
  /\ \A s \in Subs \ S : ch'[s] = ch[s]

\* deliver is such a broadcast.
LEMMA DeliverBroadcasts ==
  ASSUME TypeOK, NEW m, NEW S \in SUBSET Subs, NEW R, NEW V, NEW G,
         Deliver(m, S, R, V, G)
  PROVE  \E D, O \in SUBSET Subs : Broadcast(S, R, V, G, D, O)
<1> DEFINE full == {s \in Open(S) : Len(ch[s]) >= Buffer}
           D == full \ resync
           O == full \cap resync
<1>1. D \in SUBSET Subs /\ O \in SUBSET Subs
  BY DEF Open
<1>2. /\ D \cup O \subseteq Open(S) /\ D \cap resync = {} /\ O \subseteq resync
  OBVIOUS
<1>3. /\ done' = done \cup D /\ retire' = R \ D /\ subs' = S \ D
      /\ views' = [s \in Subs |-> IF s \in D THEN NoView ELSE V[s]]
      /\ settling' = G \cup Orphaned(D, V)
      /\ missed' = missed \cup O /\ armed' = Arms(O)
  BY DEF Deliver
<1>4. \A s \in Subs \ S : ch'[s] = ch[s]
  BY DEF Deliver, Open
<1>5. Broadcast(S, R, V, G, D, O)
  BY <1>2, <1>3, <1>4 DEF Broadcast
<1> QED BY <1>1, <1>5

\* applySizeLocked is such a broadcast, to nobody's harm when nothing moves.
LEMMA ApplySizeBroadcasts ==
  ASSUME TypeOK, NEW S \in SUBSET Subs, NEW R, NEW V \in [Subs -> View], NEW B,
         NEW G, ApplySize(S, R, V, B, G)
  PROVE  \E D, O \in SUBSET Subs : Broadcast(S, R, V, G, D, O)
<1>1. CASE Effective(V, B) = size \/ ptyClosed
  <2>1. /\ subs' = S /\ retire' = R /\ views' = V /\ settling' = G
        /\ UNCHANGED <<ch, done, missed, armed>>
    BY <1>1 DEF ApplySize
  <2>2. armed' = Arms({})
    BY <2>1 DEF Arms, TypeOK
  <2>3. views' = [s \in Subs |-> IF s \in {} THEN NoView ELSE V[s]]
    BY <2>1
  <2>4. Broadcast(S, R, V, G, {}, {})
    BY <2>1, <2>2, <2>3 DEF Broadcast, Orphaned, Spoke
  <2> QED BY <2>4
<1>2. CASE ~(Effective(V, B) = size \/ ptyClosed)
  BY <1>2, DeliverBroadcasts DEF ApplySize
<1> QED BY <1>1, <1>2

\* A broadcast keeps the books (deliver, retireViewerLocked).
LEMMA BroadcastBookkeeping ==
  ASSUME TypeOK, Bookkeeping,
         NEW S \in SUBSET Subs, NEW R \in SUBSET Subs, NEW V \in [Subs -> View], NEW G,
         NEW D \in SUBSET Subs, NEW O \in SUBSET Subs, Broadcast(S, R, V, G, D, O),
         joined \subseteq joined', S \subseteq joined', R \subseteq joined',
         resync \subseteq resync', resync' \subseteq joined',
         S \subseteq R \cup retiring, Spoke(Subs, V) \subseteq R \cup retiring,
         closed => S = {}, UNCHANGED <<retiring, cut, closing, closed, ptyClosed>>
  PROVE  Bookkeeping'
<1>1. ASSUME NEW s \in Subs \ joined'
      PROVE  /\ ch'[s] = << >> /\ cut'[s] = Live
             /\ s \notin subs' \cup done' \cup missed' \cup resync'
             /\ s \notin retire' \cup retiring' \cup closing'
  BY <1>1 DEF Bookkeeping, Broadcast, Open
<1>2. subs' \subseteq retire' \cup retiring'
  BY DEF Broadcast
<1>3. Spoke(Subs, views') \subseteq retire' \cup retiring'
  BY DEF Broadcast, Spoke
<1>4. missed' \subseteq resync' \ done'
  BY DEF Bookkeeping, Broadcast, Open
<1>5. (closed' => subs' = {}) /\ (ptyClosed' => closed')
  BY DEF Bookkeeping, Broadcast
<1> QED BY <1>1, <1>2, <1>3, <1>4, <1>5 DEF Bookkeeping

\* A statement made by s leaves the views well formed and speaks only for s.
LEMMA StatementView ==
  ASSUME TypeOK, NEW s \in Subs, NEW z \in Sizes
  PROVE  /\ [views EXCEPT ![s] = Statement(z)] \in [Subs -> View]
         /\ Spoke(Subs, [views EXCEPT ![s] = Statement(z)]) = Spoke(Subs, views) \cup {s}
<1>1. Statement(z) \in View /\ Statement(z) # NoView
  BY SizesAssumption DEF TypeOK, Statement, View, NoView
<1> QED BY <1>1 DEF Spoke, TypeOK

\* A step keeps the books.
LEMMA BookkeepingStep ==
  ASSUME IInv, [Next]_vars
  PROVE  Bookkeeping'
<1>1. TypeOK /\ Bookkeeping /\ joined \subseteq Subs
  BY DEF IInv, TypeOK
<1>2. /\ subs \in SUBSET Subs /\ retire \in SUBSET Subs /\ views \in [Subs -> View]
      /\ subs \subseteq joined /\ retire \subseteq joined /\ resync \subseteq joined
      /\ subs \subseteq retire \cup retiring /\ (closed => subs = {})
      /\ Spoke(Subs, views) \subseteq retire \cup retiring
  BY <1>1 DEF Bookkeeping, TypeOK
<1>3. CASE Output
  <2>1. PICK D \in SUBSET Subs, O \in SUBSET Subs :
             Broadcast(subs, retire, views, settling, D, O)
    BY <1>1, <1>3, DeliverBroadcasts DEF Output, TypeOK
  <2>2. UNCHANGED <<joined, resync, retiring, cut, closing, closed, ptyClosed>>
    BY <1>3 DEF Output
  <2> QED BY <1>1, <1>2, <2>1, <2>2, BroadcastBookkeeping
<1>4. CASE WaitLoop \/ ReadError \/ CloseSession \/ UNCHANGED vars
  BY <1>1, <1>4 DEF Bookkeeping, WaitLoop, ReadError, CloseSession, vars, terminal,
     streams, lifecycle
<1>5. CASE ResyncTimer
  <2>1. \A s \in Subs \ joined : s \notin Debtors
    BY <1>1 DEF Bookkeeping, Debtors
  <2> QED BY <1>1, <1>5, <2>1 DEF Bookkeeping, ResyncTimer, terminal
<1>6. CASE FinishStreams
  <2>1. \A s \in Subs \ joined : s \notin Debtors /\ s \notin subs
    BY <1>1 DEF Bookkeeping, Debtors
  <2>2. PayLastCall /\ done' = done \cup subs /\ missed' = missed \ (subs \ done)
        /\ UNCHANGED <<views, joined, resync, retire, retiring, closing, closed,
                       ptyClosed>>
    BY <1>6 DEF FinishStreams, terminal
  <2> QED BY <1>1, <2>1, <2>2 DEF Bookkeeping, PayLastCall
<1>7. CASE TakeStreams
  <2>1. \A s \in Subs \ joined : s \notin Debtors /\ s \notin subs
    BY <1>1 DEF Bookkeeping, Debtors
  <2>2. PayLastCall /\ missed' = missed \ (subs \ done) /\ closed' = TRUE
        /\ closing' = subs
        /\ UNCHANGED <<views, joined, resync, done, retire, retiring, ptyClosed>>
    BY <1>7 DEF TakeStreams, terminal
  <2> QED BY <1>1, <2>1, <2>2 DEF Bookkeeping, PayLastCall
<1>8. CASE Release
  BY <1>1, <1>8 DEF Bookkeeping, Release, terminal, streams
<1>9. ASSUME NEW z \in Sizes, Resize(z) PROVE Bookkeeping'
  <2>1. PICK D \in SUBSET Subs, O \in SUBSET Subs :
             Broadcast(subs, retire, views, settling, D, O)
    BY <1>1, <1>9, ApplySizeBroadcasts DEF Resize, TypeOK
  <2>2. UNCHANGED <<joined, resync, retiring, cut, closing, closed, ptyClosed>>
    BY <1>9 DEF Resize
  <2> QED BY <1>1, <1>2, <2>1, <2>2, BroadcastBookkeeping
<1>10. ASSUME NEW s \in Subs, FinishTaken(s) PROVE Bookkeeping'
  <2>1. s \in joined
    BY <1>10 DEF FinishTaken, IInv, Bookkeeping
  <2> QED BY <1>1, <1>10, <2>1 DEF Bookkeeping, FinishTaken, terminal
<1>11. ASSUME NEW s \in Subs, Receive(s) PROVE Bookkeeping'
  <2>1. s \in joined
    BY <1>1, <1>11 DEF Bookkeeping, Receive
  <2> QED BY <1>1, <1>11, <2>1 DEF Bookkeeping, Receive, terminal, lifecycle
<1>12. ASSUME NEW s \in Subs, CloseSub(s) PROVE Bookkeeping'
  BY <1>1, <1>12 DEF Bookkeeping, CloseSub, terminal, lifecycle
<1>13. ASSUME NEW s \in Subs, RetireViewer(s) PROVE Bookkeeping'
  <2>1. Spoke(Subs, views') \subseteq Spoke(Subs, views) \ {s}
    BY <1>13 DEF RetireViewer, Spoke, IInv, TypeOK
  <2>2. s \in joined
    BY <1>1, <1>13 DEF Bookkeeping, RetireViewer
  <2>3. \A u \in Subs : u \in retire \cup retiring /\ u # s => u \in retire' \cup retiring'
    BY <1>13 DEF RetireViewer
  <2> QED BY <1>1, <1>13, <2>1, <2>2, <2>3 DEF Bookkeeping, RetireViewer, lifecycle
<1>14. ASSUME NEW s \in Subs, SettleSize(s) PROVE Bookkeeping'
  <2>1. CASE closed \/ exited
    BY <1>1, <1>14, <2>1 DEF Bookkeeping, SettleSize
  <2>2. CASE ~closed /\ ~exited
    <3>1. PICK D \in SUBSET Subs, O \in SUBSET Subs :
               Broadcast(subs, retire, views, settling \ {s}, D, O)
      BY <1>1, <1>14, <2>2, ApplySizeBroadcasts DEF SettleSize, TypeOK
    <3>2. UNCHANGED <<joined, resync, retiring, cut, closing, closed, ptyClosed>>
      BY <1>14 DEF SettleSize
    <3> QED BY <1>1, <1>2, <3>1, <3>2, BroadcastBookkeeping
  <2> QED BY <2>1, <2>2
<1>15. ASSUME NEW s \in Subs, NEW z \in Sizes \cup {NoSize}, AttachWith(s, z)
       PROVE  Bookkeeping'
  <2>1. /\ joined' = joined \cup {s} /\ UNCHANGED <<closing, closed, ptyClosed>>
    BY <1>15 DEF AttachWith
  <2>2. CASE AttachOver(s)
    BY <1>1, <2>1, <2>2, <1>15 DEF AttachWith, AttachOver, Bookkeeping, terminal, TypeOK
  <2>3. CASE AttachLive(s, z)
    <3>1. /\ resync \subseteq resync' /\ resync' \subseteq resync \cup {s}
          /\ UNCHANGED <<retiring, cut>> /\ ~closed
      BY <2>3 DEF AttachLive
    <3>2. CASE z = NoSize
      <4>1. /\ subs' = subs \cup {s} /\ retire' = retire \cup {s}
            /\ UNCHANGED <<terminal, ch, missed, done>>
        BY <2>3, <3>2, SizesAssumption DEF AttachLive
      <4> QED BY <1>1, <2>1, <3>1, <4>1 DEF Bookkeeping, terminal
    <3>3. CASE z \in Sizes
      <4> DEFINE V == [views EXCEPT ![s] = Statement(z)]
                 S == subs \cup {s}
                 R == retire \cup {s}
      <4>1. V \in [Subs -> View] /\ Spoke(Subs, V) = Spoke(Subs, views) \cup {s}
        BY <1>1, <3>3, StatementView
      <4>2. ApplySize(S, R, V, base, settling)
        BY <2>3, <3>3, SizesAssumption DEF AttachLive
      <4>3. S \in SUBSET Subs /\ R \in SUBSET Subs /\ S \subseteq joined' /\ R \subseteq joined'
        BY <1>1, <1>2, <2>1 DEF TypeOK
      <4>4. S \subseteq R \cup retiring /\ Spoke(Subs, V) \subseteq R \cup retiring
        BY <1>1, <4>1 DEF Bookkeeping
      <4> HIDE DEF V, S, R
      <4>5. PICK D \in SUBSET Subs, O \in SUBSET Subs :
                 Broadcast(S, R, V, settling, D, O)
        BY <1>1, <4>1, <4>2, <4>3, ApplySizeBroadcasts
      <4>6. joined \subseteq joined' /\ resync' \subseteq joined'
        BY <1>2, <2>1, <3>1
      <4> QED BY <1>1, <2>1, <3>1, <4>1, <4>3, <4>4, <4>5, <4>6, BroadcastBookkeeping
    <3> QED BY <3>2, <3>3
  <2> QED BY <1>15, <2>2, <2>3 DEF AttachWith
<1>16. ASSUME NEW s \in Subs, NEW z \in Sizes, ResizeViewer(s, z) PROVE Bookkeeping'
  <2> DEFINE V == [views EXCEPT ![s] = Statement(z)]
  <2>1. V \in [Subs -> View] /\ Spoke(Subs, V) = Spoke(Subs, views) \cup {s}
    BY <1>1, StatementView
  <2>2. ApplySize(subs, retire, V, base, settling) /\ s \in subs
    BY <1>16 DEF ResizeViewer
  <2>3. Spoke(Subs, V) \subseteq retire \cup retiring
    BY <1>1, <2>1, <2>2 DEF Bookkeeping
  <2> HIDE DEF V
  <2>4. PICK D \in SUBSET Subs, O \in SUBSET Subs :
             Broadcast(subs, retire, V, settling, D, O)
    BY <1>1, <2>1, <2>2, ApplySizeBroadcasts DEF TypeOK
  <2>5. UNCHANGED <<joined, resync, retiring, cut, closing, closed, ptyClosed>>
    BY <1>16 DEF ResizeViewer
  <2> QED BY <1>1, <1>2, <2>1, <2>3, <2>4, <2>5, BroadcastBookkeeping
<1> QED BY <1>3, <1>4, <1>5, <1>6, <1>7, <1>8, <1>9, <1>10, <1>11, <1>12, <1>13,
           <1>14, <1>15, <1>16 DEF Next

-----------------------------------------------------------------------------
(***************************************************************************)
(* Evictions, stamps, debts and sizes.                                     *)
(***************************************************************************)

\* Readers and closers can only shrink the set the last call looks at.
LEMMA EvictionsCoverStep ==
  ASSUME IInv, [Next]_vars
  PROVE  EvictionsCover'
<1>1. TypeOK /\ EvictionsCover
  BY DEF IInv
<1>2. CASE lastCall' = "none"
  BY <1>2 DEF EvictionsCover
<1>3. CASE ReadError \/ CloseSession
  <2>1. FullDebtors' = FullDebtors /\ evict' = FullDebtors
    BY <1>3 DEF ReadError, CloseSession, FullDebtors, Debtors, streams
  <2> QED BY <2>1 DEF EvictionsCover
<1>4. ASSUME NEW s \in Subs, FinishTaken(s) \/ CloseSub(s) PROVE EvictionsCover'
  <2>1. FullDebtors' \subseteq FullDebtors /\ UNCHANGED <<evict, lastCall>>
    BY <1>4 DEF FinishTaken, CloseSub, FullDebtors, Debtors, lifecycle
  <2> QED BY <1>1, <2>1 DEF EvictionsCover
<1>5. ASSUME NEW s \in Subs, Receive(s) PROVE EvictionsCover'
  <2>1. /\ Debtors' = Debtors /\ UNCHANGED <<evict, lastCall>>
        /\ ch' = [ch EXCEPT ![s] = Tail(@)] /\ ch[s] # << >>
    BY <1>5 DEF Receive, Debtors, lifecycle
  <2>2. ASSUME NEW u \in Debtors PROVE Len(ch'[u]) \in Nat /\ Len(ch'[u]) <= Len(ch[u])
    <3>1. u \in Subs /\ ch \in [Subs -> Seq(Message)] /\ ch[u] \in Seq(Message)
      BY <1>1 DEF Debtors, TypeOK
    <3>2. CASE u = s
      <4>1. ch'[u] = Tail(ch[u]) /\ ch[u] # << >>
        BY <2>1, <3>1, <3>2
      <4>2. Len(Tail(ch[u])) = Len(ch[u]) - 1 /\ Len(ch[u]) \in Nat \ {0}
        BY <3>1, <4>1
      <4> QED BY <4>1, <4>2
    <3>3. CASE u # s
      <4>1. ch'[u] = ch[u]
        BY <2>1, <3>1, <3>3
      <4> QED BY <3>1, <4>1
    <3> QED BY <3>2, <3>3
  <2>3. \A u \in Debtors : Len(ch[u]) \in Nat
    BY <1>1 DEF Debtors, TypeOK
  <2>4. FullDebtors' \subseteq FullDebtors
    BY <2>1, <2>2, <2>3, BufferAssumption DEF FullDebtors
  <2> QED BY <1>1, <2>1, <2>4 DEF EvictionsCover
<1>6. CASE UNCHANGED vars
  <2>1. FullDebtors' = FullDebtors /\ UNCHANGED <<evict, lastCall>>
    BY <1>6 DEF vars, streams, lifecycle, FullDebtors, Debtors
  <2> QED BY <1>1, <2>1 DEF EvictionsCover
<1>7. ASSUME Next, lastCall' # "none"
      PROVE  \/ ReadError \/ CloseSession
             \/ \E s \in Subs : FinishTaken(s) \/ CloseSub(s) \/ Receive(s)
  BY <1>7 DEF Next, MuFree, Output, WaitLoop, ResyncTimer, FinishStreams, TakeStreams,
     PayLastCall, Release, Resize, RetireViewer, SettleSize, AttachWith, ResizeViewer,
     lifecycle
<1> QED BY <1>2, <1>3, <1>4, <1>5, <1>6, <1>7

\* Dropping statements keeps the rest distinct (retireViewerLocked).
LEMMA StampedDrop ==
  ASSUME NEW V \in [Subs -> View], NEW B, NEW n, Stamped(V, B, n), NEW D,
         NEW W, W = [s \in Subs |-> IF s \in D THEN NoView ELSE V[s]]
  PROVE  Stamped(W, B, n)
<1>1. Spoke(Subs, W) \subseteq Spoke(Subs, V) /\ \A s \in Spoke(Subs, W) : W[s] = V[s]
  BY DEF Spoke
<1>2. \A s \in Spoke(Subs, W) :
        /\ W[s].size \in Sizes /\ W[s].seq \in 1..n /\ B.seq # W[s].seq
        /\ \A u \in Spoke(Subs, W) \ {s} : W[u].seq # W[s].seq
  <2> SUFFICES ASSUME NEW s \in Spoke(Subs, W)
               PROVE  /\ W[s].size \in Sizes /\ W[s].seq \in 1..n /\ B.seq # W[s].seq
                      /\ \A u \in Spoke(Subs, W) \ {s} : W[u].seq # W[s].seq
    OBVIOUS
  <2>1. W[s] = V[s] /\ s \in Spoke(Subs, V)
    BY <1>1
  <2>2. V[s].size \in Sizes /\ V[s].seq \in 1..n /\ B.seq # V[s].seq
    BY <2>1, Zenon DEF Stamped
  <2>3. ASSUME NEW u \in Spoke(Subs, W) \ {s} PROVE W[u].seq # W[s].seq
    <3>1. W[u] = V[u] /\ u \in Spoke(Subs, V) \ {s}
      BY <1>1, <2>3
    <3>2. V[u].seq # V[s].seq
      BY <2>1, <3>1, Zenon DEF Stamped
    <3> QED BY <2>1, <3>1, <3>2
  <2> QED BY <2>1, <2>2, <2>3, Zenon
<1>3. B.seq <= n
  BY Zenon DEF Stamped
<1> QED BY <1>2, <1>3, Zenon DEF Stamped

\* A fresh statement has a fresh stamp (ResizeViewer, AttachWith, Resize).
LEMMA StampedStatement ==
  ASSUME TypeOK, Stamped(views, base, viewSeq), NEW z \in Sizes
  PROVE  /\ Stamped(views, Statement(z), viewSeq + 1)
         /\ \A s \in Subs : Stamped([views EXCEPT ![s] = Statement(z)], base, viewSeq + 1)
<1>1. viewSeq \in Nat /\ base.seq \in Nat /\ base.seq <= viewSeq
  BY DEF TypeOK, Stamped
<1>2. \A s \in Spoke(Subs, views) : views[s].seq \in 1..viewSeq
  BY DEF Stamped
<1>3. Statement(z).seq = viewSeq + 1 /\ Statement(z).size = z
  BY DEF Statement
<1>4. Stamped(views, Statement(z), viewSeq + 1)
  BY <1>1, <1>2, <1>3 DEF Stamped
<1>5. ASSUME NEW s \in Subs
      PROVE  Stamped([views EXCEPT ![s] = Statement(z)], base, viewSeq + 1)
  <2> DEFINE V == [views EXCEPT ![s] = Statement(z)]
  <2>1. V[s] = Statement(z) /\ \A u \in Subs \ {s} : V[u] = views[u]
    BY DEF TypeOK
  <2>2. \A u \in Spoke(Subs, V) \ {s} : u \in Spoke(Subs, views) /\ V[u] = views[u]
    BY <2>1 DEF Spoke
  <2> HIDE DEF V
  <2>3. ASSUME NEW u \in Spoke(Subs, V)
        PROVE  /\ V[u].size \in Sizes /\ V[u].seq \in 1..(viewSeq + 1)
               /\ base.seq # V[u].seq
               /\ \A w \in Spoke(Subs, V) \ {u} : V[w].seq # V[u].seq
    <3>1. CASE u = s
      BY <3>1, <1>1, <1>2, <1>3, <2>1, <2>2
    <3>2. CASE u # s
      <4>1. u \in Spoke(Subs, views) /\ V[u] = views[u] /\ V[u].seq \in 1..viewSeq
        BY <3>2, <2>2, <1>2
      <4>2. V[u].size \in Sizes /\ base.seq # V[u].seq
        BY <4>1 DEF Stamped
      <4>3. ASSUME NEW w \in Spoke(Subs, V) \ {u} PROVE V[w].seq # V[u].seq
        <5>1. CASE w = s
          BY <5>1, <4>1, <1>1, <1>3, <2>1
        <5>2. CASE w # s
          BY <5>2, <4>1, <2>2 DEF Stamped
        <5> QED BY <5>1, <5>2
      <4> QED BY <4>1, <4>2, <4>3, <1>1
    <3> QED BY <3>1, <3>2
  <2>4. base.seq <= viewSeq + 1
    BY <1>1
  <2>5. Stamped(V, base, viewSeq + 1)
    BY <2>3, <2>4 DEF Stamped
  <2> QED BY <2>5 DEF V
<1> QED BY <1>4, <1>5

\* The actions that re-resolve the size, in one shape: the terminal follows the
\* statements V and B among the subscriptions S, which are the attached ones and
\* perhaps one that is just joining.
Moves(S, R, V, B, G) ==
  /\ S \in SUBSET Subs /\ V \in [Subs -> View]
  /\ ApplySize(S, R, V, B, G) /\ base' = B /\ Stamped(V, B, viewSeq')
  /\ UNCHANGED <<exited, closed, ptyClosed, cut>>
  /\ \/ S = subs /\ UNCHANGED <<joined, replica>>
     \/ \E s \in Subs \ joined :
          /\ ~closed /\ S = subs \cup {s} /\ joined' = joined \cup {s}
          /\ replica' = [replica EXCEPT ![s] = version']

Resolves ==
  \/ \E z \in Sizes : Resize(z)
  \/ \E s \in Subs, z \in Sizes : ResizeViewer(s, z)
  \/ \E s \in Subs : SettleSize(s) /\ ~closed /\ ~exited
  \/ \E s \in Subs, z \in Sizes : AttachWith(s, z) /\ AttachLive(s, z)

\* Resize, ResizeViewer, settleSize and AttachWith all have that shape.
LEMMA ResolvesMoves ==
  ASSUME IInv, Resolves
  PROVE  \E S, R, V, B, G : Moves(S, R, V, B, G)
<1>1. /\ TypeOK /\ Stamped(views, base, viewSeq) /\ subs \in SUBSET Subs
      /\ views \in [Subs -> View]
  BY DEF IInv, TypeOK
<1>2. ASSUME NEW z \in Sizes, Resize(z) PROVE \E S, R, V, B, G : Moves(S, R, V, B, G)
  <2>1. Moves(subs, retire, views, Statement(z), settling)
    BY <1>1, <1>2, StampedStatement DEF Moves, Resize
  <2> QED BY <2>1
<1>3. ASSUME NEW s \in Subs, NEW z \in Sizes, ResizeViewer(s, z)
      PROVE  \E S, R, V, B, G : Moves(S, R, V, B, G)
  <2> DEFINE V == [views EXCEPT ![s] = Statement(z)]
  <2>1. V \in [Subs -> View] /\ Stamped(V, base, viewSeq + 1)
    BY <1>1, StampedStatement, StatementView
  <2>2. /\ ApplySize(subs, retire, V, base, settling)
        /\ UNCHANGED <<base, exited, closed, ptyClosed, cut, joined, replica>>
        /\ viewSeq' = viewSeq + 1
    BY <1>3 DEF ResizeViewer
  <2> HIDE DEF V
  <2>3. Moves(subs, retire, V, base, settling)
    BY <1>1, <2>1, <2>2 DEF Moves
  <2> QED BY <2>3
<1>4. ASSUME NEW s \in Subs, SettleSize(s), ~closed, ~exited
      PROVE  \E S, R, V, B, G : Moves(S, R, V, B, G)
  <2>1. Moves(subs, retire, views, base, settling \ {s})
    BY <1>1, <1>4 DEF Moves, SettleSize
  <2> QED BY <2>1
<1>5. ASSUME NEW s \in Subs, NEW z \in Sizes, AttachWith(s, z), AttachLive(s, z)
      PROVE  \E S, R, V, B, G : Moves(S, R, V, B, G)
  <2> DEFINE V == [views EXCEPT ![s] = Statement(z)]
             S == subs \cup {s}
  <2>1. V \in [Subs -> View] /\ Stamped(V, base, viewSeq + 1)
    BY <1>1, StampedStatement, StatementView
  <2>2. /\ ApplySize(S, retire \cup {s}, V, base, settling)
        /\ UNCHANGED <<base, cut>> /\ viewSeq' = viewSeq + 1 /\ ~closed
        /\ replica' = [replica EXCEPT ![s] = version']
    BY <1>5, SizesAssumption DEF AttachLive
  <2>3. s \in Subs \ joined /\ joined' = joined \cup {s}
        /\ UNCHANGED <<exited, closed, ptyClosed>>
    BY <1>5 DEF AttachWith
  <2>4. S \in SUBSET Subs
    BY <1>1
  <2> HIDE DEF V
  <2>5. Moves(S, retire \cup {s}, V, base, settling)
    BY <2>1, <2>2, <2>3, <2>4 DEF Moves
  <2> QED BY <2>5
<1> QED BY <1>2, <1>3, <1>4, <1>5 DEF Resolves

\* Every other step leaves size, stamps and version alone, or is Output.
LEMMA OtherSteps ==
  ASSUME [Next]_vars
  PROVE  \/ Resolves \/ Output \/ ResyncTimer \/ FinishStreams \/ TakeStreams
         \/ WaitLoop \/ ReadError \/ CloseSession \/ Release \/ UNCHANGED vars
         \/ \E s \in Subs :
              \/ FinishTaken(s) \/ Receive(s) \/ CloseSub(s) \/ RetireViewer(s)
              \/ SettleSize(s) /\ (closed \/ exited)
              \/ \E z \in Sizes \cup {NoSize} : AttachWith(s, z) /\ AttachOver(s)
              \/ AttachWith(s, NoSize) /\ AttachLive(s, NoSize)
BY DEF Next, Resolves, AttachWith

\* A step keeps the stamps distinct.
LEMMA StampsStep ==
  ASSUME IInv, [Next]_vars
  PROVE  Stamped(views, base, viewSeq)'
<1>1. TypeOK /\ Stamped(views, base, viewSeq) /\ views \in [Subs -> View]
  BY DEF IInv, TypeOK
<1>2. CASE Resolves
  <2>1. PICK S, R, V, B, G : Moves(S, R, V, B, G)
    BY <1>2, ResolvesMoves
  <2>2. PICK D \in SUBSET Subs, O \in SUBSET Subs : Broadcast(S, R, V, G, D, O)
    BY <1>1, <2>1, ApplySizeBroadcasts DEF Moves
  <2>3. Stamped(views', B, viewSeq')
    BY <2>1, <2>2, StampedDrop DEF Moves, Broadcast
  <2> QED BY <2>1, <2>3 DEF Moves
<1>3. CASE Output
  <2>1. PICK D \in SUBSET Subs, O \in SUBSET Subs :
             Broadcast(subs, retire, views, settling, D, O)
    BY <1>1, <1>3, DeliverBroadcasts DEF Output, TypeOK
  <2>2. Stamped(views', base, viewSeq)
    BY <1>1, <2>1, StampedDrop DEF Broadcast
  <2> QED BY <1>3, <2>2 DEF Output
<1>4. ASSUME NEW s \in Subs, RetireViewer(s) PROVE Stamped(views, base, viewSeq)'
  <2>1. views' = [u \in Subs |-> IF u \in {s} THEN NoView ELSE views[u]]
    BY <1>1, <1>4 DEF RetireViewer
  <2>2. Stamped(views', base, viewSeq)
    BY <1>1, <2>1, StampedDrop
  <2> QED BY <1>4, <2>2 DEF RetireViewer
<1>5. CASE UNCHANGED <<views, base, viewSeq>>
  BY <1>1, <1>5 DEF Stamped
<1> QED
  BY <1>2, <1>3, <1>4, <1>5, OtherSteps, SizesAssumption
     DEF ResyncTimer, FinishStreams, TakeStreams, WaitLoop, ReadError, CloseSession,
         Release, FinishTaken, Receive, CloseSub, SettleSize, AttachOver, AttachLive,
         vars, terminal

\* A broadcast that puts a reader into debt schedules the retry.
LEMMA BroadcastSchedules ==
  ASSUME Bookkeeping, DebtIsScheduled, NEW S \in SUBSET Subs, NEW R, NEW V, NEW G,
         NEW D, NEW O, Broadcast(S, R, V, G, D, O), closed => S = {},
         S \cap missed \subseteq subs
  PROVE  DebtIsScheduled'
<1>1. Debtors' \subseteq Debtors \cup O /\ (O # {} => ~closed)
  BY DEF Broadcast, Debtors, Open
<1>2. armed' = (armed \/ (O # {} /\ ~closed))
  BY DEF Broadcast, Arms
<1> QED BY <1>1, <1>2 DEF DebtIsScheduled

\* A step keeps every debt scheduled.
LEMMA DebtStep ==
  ASSUME IInv, [Next]_vars
  PROVE  DebtIsScheduled'
<1>1. TypeOK /\ Bookkeeping /\ DebtIsScheduled
  BY DEF IInv
<1>2. CASE Resolves
  <2>1. PICK S, R, V, B, G : Moves(S, R, V, B, G)
    BY <1>2, ResolvesMoves
  <2>2. PICK D \in SUBSET Subs, O \in SUBSET Subs : Broadcast(S, R, V, G, D, O)
    BY <1>1, <2>1, ApplySizeBroadcasts DEF Moves
  <2>3. S \in SUBSET Subs /\ (closed => S = {}) /\ S \cap missed \subseteq subs
    BY <1>1, <2>1 DEF Moves, Bookkeeping
  <2> QED BY <1>1, <2>2, <2>3, BroadcastSchedules
<1>3. CASE Output
  <2>1. PICK D \in SUBSET Subs, O \in SUBSET Subs :
             Broadcast(subs, retire, views, settling, D, O)
    BY <1>1, <1>3, DeliverBroadcasts DEF Output, TypeOK
  <2>2. subs \in SUBSET Subs /\ (closed => subs = {})
    BY <1>1 DEF Bookkeeping, TypeOK
  <2> QED BY <1>1, <2>1, <2>2, BroadcastSchedules
<1>4. CASE ResyncTimer
  <2>1. Debtors' = Debtors \ (Debtors \ FullDebtors) /\ armed' = (FullDebtors # {})
    BY <1>4 DEF ResyncTimer, Debtors
  <2> QED BY <2>1 DEF DebtIsScheduled
<1>5. CASE subs' = {}
  BY <1>5 DEF DebtIsScheduled, Debtors
<1>6. CASE Debtors' \subseteq Debtors /\ UNCHANGED armed
  BY <1>1, <1>6 DEF DebtIsScheduled
<1>7. CASE FinishStreams \/ TakeStreams
  BY <1>5, <1>7 DEF FinishStreams, TakeStreams, PayLastCall
<1>8. CASE WaitLoop \/ ReadError \/ CloseSession \/ Release \/ UNCHANGED vars
  BY <1>6, <1>8 DEF WaitLoop, ReadError, CloseSession, Release, Debtors, vars, streams,
     lifecycle
<1>9. ASSUME NEW s \in Subs,
             \/ FinishTaken(s) \/ Receive(s) \/ CloseSub(s) \/ RetireViewer(s)
             \/ SettleSize(s) /\ (closed \/ exited)
      PROVE  DebtIsScheduled'
  BY <1>6, <1>9 DEF FinishTaken, Receive, CloseSub, RetireViewer, SettleSize, Debtors,
     lifecycle
<1>10. ASSUME NEW s \in Subs, NEW z \in Sizes \cup {NoSize},
              AttachWith(s, z), AttachOver(s) \/ (z = NoSize /\ AttachLive(s, z))
       PROVE  DebtIsScheduled'
  <2>1. s \notin missed /\ s \notin joined
    BY <1>1, <1>10 DEF AttachWith, Bookkeeping
  <2>2. /\ subs' \subseteq subs \cup {s} /\ done \subseteq done'
        /\ UNCHANGED <<missed, armed>>
    BY <1>10, SizesAssumption DEF AttachOver, AttachLive
  <2> QED BY <1>6, <2>1, <2>2 DEF Debtors
<1> QED BY <1>2, <1>3, <1>4, <1>7, <1>8, <1>9, <1>10, OtherSteps

\* A statement that is dropped leaves a settleSize goroutine behind, so a quiet
\* broadcast changes no statement.
LEMMA QuietBroadcast ==
  ASSUME NEW V \in [Subs -> View], NEW S, NEW R, NEW G, NEW D \in SUBSET Subs, NEW O,
         Broadcast(S, R, V, G, D, O), settling' = {}
  PROVE  views' = V /\ G = {}
<1>1. \A s \in D : V[s] = NoView
  BY DEF Broadcast, Orphaned, Spoke
<1>2. views' = [s \in Subs |-> V[s]]
  BY <1>1 DEF Broadcast
<1> QED BY <1>2 DEF Broadcast

\* A step keeps the terminal at the size its statements resolve to.
LEMMA SizeStep ==
  ASSUME IInv, [Next]_vars
  PROVE  SizeFollowsStatements'
<1>1. TypeOK /\ Bookkeeping /\ SizeFollowsStatements /\ views \in [Subs -> View]
  BY DEF IInv, TypeOK
<1>2. SUFFICES ASSUME settling' = {}, ~exited', ~closed'
               PROVE  size' = Effective(views', base')
  BY DEF SizeFollowsStatements
<1>3. CASE Resolves
  <2>1. PICK S, R, V, B, G : Moves(S, R, V, B, G)
    BY <1>3, ResolvesMoves
  <2>2. PICK D \in SUBSET Subs, O \in SUBSET Subs : Broadcast(S, R, V, G, D, O)
    BY <1>1, <2>1, ApplySizeBroadcasts DEF Moves
  <2>3. views' = V /\ base' = B
    BY <1>2, <2>1, <2>2, QuietBroadcast DEF Moves
  <2>4. ~ptyClosed
    BY <1>1, <1>2, <2>1 DEF Moves, Bookkeeping
  <2>5. size' = Effective(V, B)
    BY <2>1, <2>4 DEF Moves, ApplySize
  <2> QED BY <2>3, <2>5
<1>4. CASE UNCHANGED <<size, views, base>> /\ settling = {} /\ ~exited /\ ~closed
  BY <1>1, <1>4 DEF SizeFollowsStatements
<1>5. CASE Output
  <2>1. PICK D \in SUBSET Subs, O \in SUBSET Subs :
             Broadcast(subs, retire, views, settling, D, O)
    BY <1>1, <1>5, DeliverBroadcasts DEF Output, TypeOK
  <2>2. views' = views /\ settling = {}
    BY <1>1, <1>2, <2>1, QuietBroadcast
  <2> QED BY <1>2, <1>4, <1>5, <2>2 DEF Output
<1>6. CASE WaitLoop \/ TakeStreams
  BY <1>2, <1>6 DEF WaitLoop, TakeStreams
<1>7. CASE ResyncTimer \/ FinishStreams \/ ReadError \/ CloseSession \/ Release \/ UNCHANGED vars
  BY <1>2, <1>4, <1>7 DEF ResyncTimer, FinishStreams, ReadError, CloseSession, Release,
     vars, terminal, lifecycle
<1>8. ASSUME NEW s \in Subs, FinishTaken(s) \/ Receive(s) \/ CloseSub(s)
      PROVE  size' = Effective(views', base')
  BY <1>2, <1>4, <1>8 DEF FinishTaken, Receive, CloseSub, terminal, lifecycle
<1>9. ASSUME NEW s \in Subs, RetireViewer(s) PROVE size' = Effective(views', base')
  <2>1. views[s] = NoView /\ settling = {}
    BY <1>2, <1>9 DEF RetireViewer, Orphaned, Spoke
  <2>2. views' = views
    BY <1>1, <1>9, <2>1 DEF RetireViewer
  <2> QED BY <1>2, <1>4, <1>9, <2>1, <2>2 DEF RetireViewer, lifecycle
<1>10. ASSUME NEW s \in Subs, NEW z \in Sizes \cup {NoSize},
              AttachWith(s, z), AttachOver(s) \/ (z = NoSize /\ AttachLive(s, z))
       PROVE  size' = Effective(views', base')
  <2>1. UNCHANGED <<terminal, exited, closed>>
    BY <1>10, SizesAssumption DEF AttachOver, AttachLive, AttachWith
  <2> QED BY <1>2, <1>4, <2>1 DEF terminal
<1>11. ASSUME NEW s \in Subs, SettleSize(s), closed \/ exited
       PROVE  size' = Effective(views', base')
  BY <1>2, <1>11 DEF SettleSize
<1> QED BY <1>3, <1>5, <1>6, <1>7, <1>8, <1>9, <1>10, <1>11, OtherSteps

-----------------------------------------------------------------------------
(***************************************************************************)
(* Streams.                                                                *)
(***************************************************************************)

\* Appending changes the tip to the new message and loses no resync.
LEMMA AppendTip ==
  ASSUME NEW q \in Seq(Message), NEW m \in Message, NEW v
  PROVE  /\ Tip(Append(q, m), v) = m.version
         /\ Heals(q) \/ m.kind = "resync" => Heals(Append(q, m))
<1>1. /\ Append(q, m) # << >> /\ Len(Append(q, m)) = Len(q) + 1
      /\ Append(q, m)[Len(q) + 1] = m /\ Len(q) \in Nat
      /\ \A i \in 1..Len(q) : Append(q, m)[i] = q[i] /\ i \in 1..(Len(q) + 1)
  OBVIOUS
<1>2. Len(q) + 1 \in 1..(Len(q) + 1)
  BY <1>1
<1> QED BY <1>1, <1>2 DEF Tip, Heals

\* A broadcast keeps the stream of subscription u continuing the replica r it
\* shows, takes it to the new version unless u is dropped or in debt, and does
\* not touch a stream that is not attached (deliver).
LEMMA DeliverStream ==
  ASSUME TypeOK, NEW m \in Message, NEW S \in SUBSET Subs, NEW R, NEW V, NEW G,
         Deliver(m, S, R, V, G), NEW u \in Subs, NEW r \in Int,
         Continues(ch[u], r), u \in Open(S) => Applies(Tip(ch[u], r), m)
  PROVE  /\ Continues(ch'[u], r)
         /\ Heals(ch[u]) => Heals(ch'[u])
         /\ u \in (subs' \ done') \ missed' => Tip(ch'[u], r) = m.version
         /\ u \notin S => ch'[u] = ch[u]
<1> DEFINE full == {s \in Open(S) : Len(ch[s]) >= Buffer}
<1>1. ch[u] \in Seq(Message)
  BY DEF TypeOK
<1>2. CASE u \in Open(S) \ full
  <2>1. ch'[u] = Append(ch[u], m)
    BY <1>2 DEF Deliver
  <2>2. u \in Open(S) /\ u \in S
    BY <1>2 DEF Open
  <2> QED BY <1>1, <2>1, <2>2, ContinuesAppend, AppendTip
<1>3. CASE u \notin Open(S) \ full
  <2>1. ch'[u] = ch[u]
    BY <1>3 DEF Deliver
  <2>2. u \notin (subs' \ done') \ missed'
    BY <1>3 DEF Deliver, Open
  <2> QED BY <2>1, <2>2
<1> QED BY <1>2, <1>3

\* What StreamsContinue and GapsHeal say of one subscription.
StreamOK(s) ==
  /\ Continues(ch[s], replica[s])
  /\ replica[s] = Torn => Heals(ch[s])
  /\ s \in (subs \ done) \ missed => Tip(ch[s], replica[s]) = version
  /\ cut[s] # Live => Tip(ch[s], replica[s]) = cut[s] /\ s \in joined \ subs

\* Applying the resolved size keeps every stream in order (applySizeLocked).
LEMMA MovesStream ==
  ASSUME IInv, NEW S, NEW R, NEW V, NEW B, NEW G, Moves(S, R, V, B, G), NEW u \in Subs
  PROVE  StreamOK(u)'
<1>1. /\ TypeOK /\ Bookkeeping /\ StreamOK(u) /\ S \in SUBSET Subs /\ version \in Nat
      /\ ch[u] \in Seq(Message) /\ replica[u] \in Int /\ replica \in [Subs -> Int]
      /\ UNCHANGED cut
  BY DEF IInv, Moves, StreamOK, StreamsContinue, GapsHeal, TypeOK
<1>2. CASE Effective(V, B) = size \/ ptyClosed
  <2>1. subs' = S /\ UNCHANGED <<version, ch, done, missed>>
    BY <1>2 DEF Moves, ApplySize
  <2>2. CASE S = subs /\ UNCHANGED <<joined, replica>>
    BY <1>1, <2>1, <2>2 DEF StreamOK
  <2>3. ASSUME NEW s \in Subs \ joined, S = subs \cup {s}, joined' = joined \cup {s},
               replica' = [replica EXCEPT ![s] = version']
        PROVE  StreamOK(u)'
    <3>1. CASE u = s
      <4>1. ch'[u] = << >> /\ replica'[u] = version /\ cut'[u] = Live
        BY <1>1, <2>1, <2>3, <3>1 DEF Bookkeeping
      <4>2. replica'[u] # Torn
        BY <1>1, <4>1 DEF Torn
      <4>3. Continues(ch'[u], replica'[u])
        BY <4>1 DEF Continues
      <4> QED BY <2>1, <4>1, <4>2, <4>3 DEF StreamOK, Tip
    <3>2. CASE u # s
      BY <1>1, <2>1, <2>3, <3>2 DEF StreamOK
    <3> QED BY <3>1, <3>2
  <2> QED BY <2>2, <2>3 DEF Moves
<1>3. CASE ~(Effective(V, B) = size \/ ptyClosed)
  <2> DEFINE m == Repaint(version + 1)
  <2>1. version' = version + 1 /\ Deliver(m, S, R, V, G)
    BY <1>3 DEF Moves, ApplySize
  <2>2. /\ m \in Message /\ m.version = version + 1
        /\ Applies(version, m) /\ Applies(version + 1, m)
    BY <1>1, MessageTypes DEF Repaint, Applies
  <2>3. subs' \subseteq S
    BY <2>1 DEF Deliver
  <2> HIDE DEF m
  <2>4. CASE u \notin joined' \/ (u \in joined /\ (u \in S => u \in subs))
    <3>1. u \in S => u \in subs
      BY <1>1, <2>4 DEF Moves, Bookkeeping
    <3>2. u \in Open(S) => Applies(Tip(ch[u], replica[u]), m)
      BY <1>1, <2>2, <3>1 DEF Open, StreamOK
    <3>3. /\ Continues(ch'[u], replica[u]) /\ (Heals(ch[u]) => Heals(ch'[u]))
          /\ u \in (subs' \ done') \ missed' => Tip(ch'[u], replica[u]) = m.version
          /\ u \notin S => ch'[u] = ch[u]
      BY <1>1, <2>1, <2>2, <3>2, DeliverStream DEF StreamOK
    <3>4. replica'[u] = replica[u] /\ joined \subseteq joined'
      BY <1>1, <2>4 DEF Moves
    <3>5. cut[u] # Live => u \notin S
      BY <1>1, <3>1 DEF StreamOK
    <3> QED BY <1>1, <2>1, <2>2, <2>3, <3>3, <3>4, <3>5 DEF StreamOK
  <2>5. CASE ~(u \notin joined' \/ (u \in joined /\ (u \in S => u \in subs)))
    <3>1. u \notin joined /\ replica'[u] = version'
      BY <1>1, <2>5 DEF Moves
    <3>2. ch[u] = << >> /\ cut'[u] = Live
      BY <1>1, <3>1 DEF Bookkeeping
    <3>3. Continues(ch[u], version') /\ Tip(ch[u], version') = version'
      BY <3>2 DEF Continues, Tip
    <3>4. version' \in Int /\ Applies(Tip(ch[u], version'), m)
      BY <1>1, <2>1, <2>2, <3>3
    <3>5. /\ Continues(ch'[u], version')
          /\ u \in (subs' \ done') \ missed' => Tip(ch'[u], version') = m.version
      BY <1>1, <2>1, <2>2, <3>3, <3>4, DeliverStream
    <3>6. replica'[u] # Torn
      BY <1>1, <2>1, <3>1 DEF Torn
    <3> QED BY <2>1, <2>2, <3>1, <3>2, <3>5, <3>6 DEF StreamOK
  <2> QED BY <2>4, <2>5
<1> QED BY <1>2, <1>3

\* Handing a debtor the exact state puts its stream in order (flushResyncsLocked).
LEMMA ResyncStream ==
  ASSUME NEW q \in Seq(Message), NEW v \in Int, NEW w \in Nat
  PROVE  /\ Continues(Append(q, Resync(w)), v) /\ Heals(Append(q, Resync(w)))
         /\ Tip(Append(q, Resync(w)), v) = w
<1>1. Resync(w) \in Message /\ Resync(w).kind = "resync" /\ Resync(w).version = w
  BY MessageTypes DEF Resync
<1> QED BY <1>1, ContinuesResync, AppendTip

\* The last call leaves every stream it ends at the final state.
LEMMA LastCallStream ==
  ASSUME IInv, lastCall # "none", PayLastCall, UNCHANGED <<version, replica, joined>>,
         NEW u \in Subs
  PROVE  StreamOK(u)'
<1>1. /\ TypeOK /\ EvictionsCover /\ Bookkeeping /\ StreamOK(u) /\ version \in Nat
      /\ replica[u] \in Int
  BY DEF IInv, StreamOK, StreamsContinue, GapsHeal, TypeOK
<1>2. subs' = {} /\ cut'[u] = (IF u \in subs \ done THEN version ELSE cut[u])
  BY DEF PayLastCall
<1>3. subs \subseteq joined
  BY <1>1 DEF Bookkeeping, TypeOK
<1>4. CASE u \in Debtors
  <2>1. ch'[u] = Append(Room(u), Resync(version)) /\ Room(u) \in Seq(Message)
    BY <1>1, <1>4, RoomForLastCall DEF PayLastCall
  <2>2. u \in subs \ done
    BY <1>4 DEF Debtors
  <2> QED BY <1>1, <1>2, <1>3, <2>1, <2>2, ResyncStream DEF StreamOK
<1>5. CASE u \notin Debtors
  <2>1. ch'[u] = ch[u]
    BY <1>5 DEF PayLastCall
  <2>2. u \in subs \ done => Tip(ch[u], replica[u]) = version
    BY <1>1, <1>5 DEF StreamOK, Debtors
  <2> QED BY <1>1, <1>2, <1>3, <2>1, <2>2 DEF StreamOK
<1> QED BY <1>4, <1>5

\* A step keeps every stream in order.
LEMMA StreamStep ==
  ASSUME IInv, [Next]_vars, NEW u \in Subs
  PROVE  StreamOK(u)'
<1>1. /\ TypeOK /\ Bookkeeping /\ StreamOK(u) /\ version \in Nat
      /\ ch[u] \in Seq(Message) /\ replica[u] \in Int
  BY DEF IInv, StreamOK, StreamsContinue, GapsHeal, TypeOK
<1>2. CASE Resolves
  BY <1>2, ResolvesMoves, MovesStream
<1>3. CASE Output
  <2> DEFINE m == Bytes(version + 1)
  <2>1. /\ version' = version + 1 /\ Deliver(m, subs, retire, views, settling)
        /\ UNCHANGED <<replica, cut, joined>>
    BY <1>3 DEF Output
  <2>2. m \in Message /\ m.version = version + 1 /\ Applies(version, m)
    BY <1>1, MessageTypes DEF Bytes, Applies
  <2>3. subs' \subseteq subs /\ subs \in SUBSET Subs
    BY <1>1, <2>1 DEF Deliver, TypeOK
  <2> HIDE DEF m
  <2>4. u \in Open(subs) => Applies(Tip(ch[u], replica[u]), m)
    BY <1>1, <2>2 DEF Open, StreamOK
  <2>5. /\ Continues(ch'[u], replica[u]) /\ (Heals(ch[u]) => Heals(ch'[u]))
        /\ u \in (subs' \ done') \ missed' => Tip(ch'[u], replica[u]) = m.version
        /\ u \notin subs => ch'[u] = ch[u]
    BY <1>1, <2>1, <2>2, <2>3, <2>4, DeliverStream DEF StreamOK
  <2> QED BY <1>1, <2>1, <2>2, <2>3, <2>5 DEF StreamOK
<1>4. CASE ResyncTimer
  <2>1. UNCHANGED <<version, subs, done, replica, cut, joined>>
    BY <1>4 DEF ResyncTimer, terminal
  <2>2. CASE u \in Debtors \ FullDebtors
    <3>1. ch'[u] = Append(ch[u], Resync(version))
      BY <1>4, <2>2 DEF ResyncTimer
    <3>2. u \in subs
      BY <2>2 DEF Debtors
    <3> QED BY <1>1, <2>1, <3>1, <3>2, ResyncStream DEF StreamOK
  <2>3. CASE u \notin Debtors \ FullDebtors
    <3>1. ch'[u] = ch[u] /\ (u \in missed' <=> u \in missed)
      BY <1>4, <2>3 DEF ResyncTimer
    <3> QED BY <1>1, <2>1, <3>1 DEF StreamOK
  <2> QED BY <2>2, <2>3
<1>5. CASE FinishStreams \/ TakeStreams
  <2>1. lastCall # "none" /\ PayLastCall /\ UNCHANGED <<version, replica, joined>>
    BY <1>5 DEF FinishStreams, TakeStreams, terminal
  <2> QED BY <2>1, LastCallStream
<1>6. CASE /\ UNCHANGED <<version, ch, replica, cut, joined>> /\ subs' \subseteq subs
           /\ (subs' \ done') \ missed' \subseteq (subs \ done) \ missed
  BY <1>1, <1>6 DEF StreamOK
<1>7. CASE WaitLoop \/ ReadError \/ CloseSession \/ Release \/ UNCHANGED vars
  BY <1>6, <1>7 DEF WaitLoop, ReadError, CloseSession, Release, vars, terminal, streams
<1>8. ASSUME NEW s \in Subs,
             \/ FinishTaken(s) \/ CloseSub(s) \/ RetireViewer(s)
             \/ SettleSize(s) /\ (closed \/ exited)
      PROVE  StreamOK(u)'
  BY <1>6, <1>8 DEF FinishTaken, CloseSub, RetireViewer, SettleSize, terminal
<1>9. ASSUME NEW s \in Subs, Receive(s) PROVE StreamOK(u)'
  <2>1. UNCHANGED <<version, subs, done, missed, cut, joined>>
    BY <1>9 DEF Receive, terminal
  <2>2. CASE u = s
    <3>1. /\ ch[u] # << >> /\ ch'[u] = Tail(ch[u])
          /\ replica'[u] = IF Applies(replica[u], Head(ch[u]))
                           THEN Head(ch[u]).version ELSE Torn
      BY <1>1, <1>9, <2>2 DEF Receive, TypeOK
    <3>2. /\ Continues(ch'[u], replica'[u]) /\ (replica'[u] = Torn => Heals(ch'[u]))
          /\ Tip(ch'[u], replica'[u]) = Tip(ch[u], replica[u])
      BY <1>1, <3>1, ContinuesTail DEF StreamOK
    <3> QED BY <1>1, <2>1, <3>2 DEF StreamOK
  <2>3. CASE u # s
    <3>1. ch'[u] = ch[u] /\ replica'[u] = replica[u]
      BY <1>1, <1>9, <2>3 DEF Receive, TypeOK
    <3> QED BY <1>1, <2>1, <3>1 DEF StreamOK
  <2> QED BY <2>2, <2>3
<1>10. ASSUME NEW s \in Subs, NEW z \in Sizes \cup {NoSize},
              AttachWith(s, z), AttachOver(s) \/ (z = NoSize /\ AttachLive(s, z))
       PROVE  StreamOK(u)'
  <2>1. /\ UNCHANGED <<version, ch, missed>> /\ joined' = joined \cup {s} /\ s \notin joined
        /\ replica' = [replica EXCEPT ![s] = version] /\ subs' \subseteq subs \cup {s}
        /\ done \subseteq done'
    BY <1>10, SizesAssumption DEF AttachOver, AttachLive, AttachWith, terminal
  <2>2. CASE u = s
    <3>1. ch'[u] = << >> /\ replica'[u] = version /\ cut[u] = Live /\ u \notin subs
      BY <1>1, <2>1, <2>2 DEF Bookkeeping, TypeOK
    <3>2. cut'[u] # Live => cut'[u] = version /\ u \notin subs'
      BY <1>1, <1>10, <2>2, <3>1, SizesAssumption DEF AttachOver, AttachLive, TypeOK
    <3>3. Continues(ch'[u], replica'[u]) /\ replica'[u] # Torn
      BY <1>1, <3>1 DEF Continues, Torn
    <3> QED BY <2>1, <2>2, <3>1, <3>2, <3>3 DEF StreamOK, Tip
  <2>3. CASE u # s
    <3>1. replica'[u] = replica[u]
      BY <1>1, <2>1, <2>3 DEF TypeOK
    <3>2. cut'[u] = cut[u]
      BY <1>1, <1>10, <2>3, SizesAssumption DEF AttachOver, AttachLive, TypeOK
    <3> QED BY <1>1, <2>1, <2>3, <3>1, <3>2 DEF StreamOK
  <2> QED BY <2>2, <2>3
<1> QED BY <1>2, <1>3, <1>4, <1>5, <1>7, <1>8, <1>9, <1>10, OtherSteps

-----------------------------------------------------------------------------
(***************************************************************************)
(* The theorems.                                                           *)
(***************************************************************************)

\* The freshly spawned session satisfies the inductive invariant (startSession).
LEMMA InitIInv == Init => IInv
<1>1. SUFFICES ASSUME Init PROVE IInv
  OBVIOUS
<1>2. NoView \in View /\ base.size = SpawnSize /\ base.seq = 0
  BY <1>1 DEF Init, NoView, View
<1>3. Spoke(Subs, views) = {}
  BY <1>1 DEF Init, Spoke
<1>4. TypeOK
  <2>0. Len(<< >>) <= Buffer
    BY BufferAssumption
  <2>1. \A s \in Subs : Len(ch[s]) <= Buffer
    BY <1>1, <2>0, Zenon DEF Init
  <2>2. ch \in [Subs -> Seq(Message)] /\ views \in [Subs -> View]
    BY <1>1, <1>2 DEF Init
  <2>3. replica \in [Subs -> Int] /\ cut \in [Subs -> Int]
    BY <1>1 DEF Init, Live
  <2>4. base \in [size : Sizes, seq : Nat] /\ size \in Sizes
    BY <1>1, SizesAssumption DEF Init
  <2> QED BY <1>1, <2>1, <2>2, <2>3, <2>4 DEF Init, TypeOK
<1>5. Bookkeeping /\ EvictionsCover /\ DebtIsScheduled
  BY <1>1, <1>3 DEF Init, Bookkeeping, EvictionsCover, DebtIsScheduled, Debtors
<1>6. Stamped(views, base, viewSeq)
  BY <1>1, <1>2, <1>3 DEF Init, Stamped
<1>7. SizeFollowsStatements
  <2>1. Effective(views, base) \in Sizes
    BY <1>4, <1>6, StatementsResolve
  <2>2. Effective(views, base) = (CHOOSE t \in {base} : \A v \in {base} : t.seq >= v.seq).size
    BY <1>3 DEF Effective
  <2>3. base.seq >= base.seq
    BY <1>2
  <2>4. Effective(views, base) = base.size
    BY <2>2, <2>3
  <2> QED BY <1>1, <1>2, <2>4 DEF Init, SizeFollowsStatements
<1>8. StreamsContinue /\ GapsHeal
  BY <1>1 DEF Init, StreamsContinue, GapsHeal, Continues, Live, Torn
<1> QED BY <1>4, <1>5, <1>6, <1>7, <1>8 DEF IInv

\* IInv is inductive: no operation of the session, reader or goroutine breaks it.
THEOREM IInvHolds == Spec => []IInv
<1>1. ASSUME IInv, [Next]_vars PROVE IInv'
  <2>1. StreamsContinue' /\ GapsHeal'
    BY <1>1, StreamStep DEF StreamsContinue, GapsHeal, StreamOK
  <2> QED BY <1>1, <2>1, TypeStep, BookkeepingStep, EvictionsCoverStep, StampsStep,
             DebtStep, SizeStep DEF IInv
<1> QED BY <1>1, InitIInv, PTL DEF Spec

\* The session's state keeps its types, and no channel ever holds more than its
\* capacity, so no send under the session lock blocks (deliver,
\* flushResyncsLocked).
THEOREM TypeCorrect == Spec => []TypeOK
<1>1. IInv => TypeOK
  BY DEF IInv
<1> QED BY <1>1, IInvHolds, PTL

\* Every reader converges: attached and owed nothing, to the terminal; ended by
\* the session, to the state its stream was cut at (deliver, flushResyncsLocked,
\* AttachWith).
THEOREM ReadersConverge == Spec => []ReplicaConverges
<1>1. IInv => ReplicaConverges
  BY DEF IInv, ReplicaConverges, StreamsContinue, Tip, TypeOK
<1> QED BY <1>1, IInvHolds, PTL

\* A torn replica always has the exact state still to read (flushResyncsLocked).
THEOREM EveryGapHeals == Spec => []GapsHeal
<1>1. IInv => GapsHeal
  BY DEF IInv
<1> QED BY <1>1, IInvHolds, PTL

\* Owed state always has a retry scheduled (armResyncRetryLocked).
THEOREM EveryDebtIsScheduled == Spec => []DebtIsScheduled
<1>1. IInv => DebtIsScheduled
  BY DEF IInv
<1> QED BY <1>1, IInvHolds, PTL

\* The terminal's size is the one its statements resolve to (effectiveLocked,
\* applySizeLocked, settleSize).
THEOREM TheSizeFollows == Spec => []SizeFollowsStatements
<1>1. IInv => SizeFollowsStatements
  BY DEF IInv
<1> QED BY <1>1, IInvHolds, PTL

\* No departed viewer's statement stands (retireViewerLocked, ResizeViewer).
THEOREM NoGhostOwnsTheTerminal == Spec => []StatementsHaveOwners
<1>1. IInv => StatementsHaveOwners
  BY DEF IInv, Bookkeeping, StatementsHaveOwners, Spoke
<1> QED BY <1>1, IInvHolds, PTL
=============================================================================
