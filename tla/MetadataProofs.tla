--------------------------- MODULE MetadataProofs ----------------------------
(***************************************************************************)
(* TLAPS proofs about Metadata, for any set of writers and any mix of      *)
(* reading orders.                                                         *)
(***************************************************************************)
EXTENDS Metadata, TLAPS

\* The metadata state keeps its types (SetMetadata, SetMetadataIf).
THEOREM TypeCorrect == Spec => []TypeOK
<1>1. Init => TypeOK
  BY DEF Init, TypeOK
<1>2. ASSUME TypeOK, [Next]_vars PROVE TypeOK'
  <2> USE <1>2 DEF TypeOK
  <2>1. CASE SetMetadata
    <3>1. revision' = revision + 1 /\ 1..revision \subseteq 1..(revision + 1)
      BY <2>1 DEF SetMetadata
    <3>2. revision' \in Nat /\ bag' \subseteq 1..revision' /\ accepted' \subseteq 1..revision'
      BY <2>1, <3>1 DEF SetMetadata
    <3>3. copy' \in [Writers -> SUBSET (1..revision')]
      <4>1. \A w \in Writers : copy[w] \subseteq 1..revision'
        BY <3>1
      <4> QED BY <2>1, <4>1 DEF SetMetadata
    <3> QED BY <2>1, <3>2, <3>3 DEF SetMetadata
  <2>2. ASSUME NEW w \in Writers, ReadRevision(w) PROVE TypeOK'
    BY <2>2 DEF ReadRevision
  <2>3. ASSUME NEW w \in Writers, ReadMetadata(w) PROVE TypeOK'
    BY <2>3 DEF ReadMetadata
  <2>4. ASSUME NEW w \in Writers, SetMetadataIf(w) PROVE TypeOK'
    <3>1. copy[w] \subseteq 1..revision /\ 1..revision \subseteq 1..(revision + 1)
      OBVIOUS
    <3>2. step' \in [Writers -> {"nothing", "half", "both"}] /\ UNCHANGED <<copy, expected>>
      BY <2>4 DEF SetMetadataIf
    <3>3. /\ revision' \in Nat /\ 1..revision \subseteq 1..revision'
          /\ bag' \subseteq 1..revision' /\ accepted' \subseteq 1..revision'
      <4>1. CASE IsCurrent(w)
        <5>1. revision' = revision + 1 /\ bag' = copy[w] \cup {revision + 1}
              /\ accepted' = accepted \cup {revision + 1}
          BY <2>4, <4>1 DEF SetMetadataIf
        <5> QED BY <3>1, <5>1
      <4>2. CASE ~IsCurrent(w)
        BY <2>4, <4>2 DEF SetMetadataIf
      <4> QED BY <4>1, <4>2
    <3>4. copy' \in [Writers -> SUBSET (1..revision')]
      <4>1. \A u \in Writers : copy[u] \subseteq 1..revision'
        BY <3>3
      <4> QED BY <3>2, <4>1
    <3> QED BY <3>2, <3>3, <3>4
  <2>5. CASE UNCHANGED vars
    BY <2>5 DEF vars
  <2> QED BY <1>2, <2>1, <2>2, <2>3, <2>4, <2>5 DEF Next
<1> QED BY <1>1, <1>2, PTL DEF Spec

\* Reading the revision before the bag keeps every copy honest: if the revision
\* has not moved since, neither has the bag.
LEMMA CopiesStayCurrent == Spec => []CopiesAreCurrent
<1>1. Init => CopiesAreCurrent
  BY WritersAssumption DEF Init, CopiesAreCurrent
<1>2. ASSUME TypeOK, CopiesAreCurrent, [Next]_vars PROVE CopiesAreCurrent'
  <2>1. SUFFICES ASSUME NEW u \in RevisionFirst
                 PROVE  /\ step'[u] # "nothing" => expected'[u] <= revision'
                        /\ step'[u] = "both" /\ expected'[u] = revision' => copy'[u] = bag'
    BY DEF CopiesAreCurrent
  <2>2. /\ u \in Writers /\ revision \in Nat /\ expected[u] \in Nat
        /\ step[u] # "nothing" => expected[u] <= revision
        /\ step[u] = "both" /\ expected[u] = revision => copy[u] = bag
    BY <1>2, <2>1, WritersAssumption DEF CopiesAreCurrent, TypeOK
  <2>3. CASE SetMetadata
    BY <2>2, <2>3 DEF SetMetadata
  <2>4. ASSUME NEW w \in Writers, ReadRevision(w)
        PROVE  /\ step'[u] # "nothing" => expected'[u] <= revision'
               /\ step'[u] = "both" /\ expected'[u] = revision' => copy'[u] = bag'
    BY <1>2, <2>2, <2>4 DEF ReadRevision, TypeOK
  <2>5. ASSUME NEW w \in Writers, ReadMetadata(w)
        PROVE  /\ step'[u] # "nothing" => expected'[u] <= revision'
               /\ step'[u] = "both" /\ expected'[u] = revision' => copy'[u] = bag'
    BY <1>2, <2>2, <2>5 DEF ReadMetadata, TypeOK
  <2>6. ASSUME NEW w \in Writers, SetMetadataIf(w)
        PROVE  /\ step'[u] # "nothing" => expected'[u] <= revision'
               /\ step'[u] = "both" /\ expected'[u] = revision' => copy'[u] = bag'
    BY <1>2, <2>2, <2>6 DEF SetMetadataIf, TypeOK
  <2>7. CASE UNCHANGED vars
    BY <2>2, <2>7 DEF vars
  <2> QED BY <1>2, <2>3, <2>4, <2>5, <2>6, <2>7 DEF Next
<1> QED BY <1>1, <1>2, TypeCorrect, PTL DEF Spec

\* SetMetadataIf's guarantee: a revision-first write lands only on the bag it was
\* derived from, whatever the other writers do.
THEOREM WritesLandOnWhatTheyRead == Spec => LandsOnWhatItRead
<1>1. ASSUME CopiesAreCurrent, [Next]_vars, NEW w \in RevisionFirst,
             SetMetadataIf(w), revision' # revision
      PROVE  copy[w] = bag
  BY <1>1 DEF SetMetadataIf, IsCurrent, CopiesAreCurrent
<1>2. CopiesAreCurrent /\ [Next]_vars =>
        [\A w \in RevisionFirst :
           SetMetadataIf(w) /\ revision' # revision => copy[w] = bag]_vars
  BY <1>1
<1> QED BY <1>2, CopiesStayCurrent, PTL DEF Spec, LandsOnWhatItRead

\* When every writer reads the revision first no accepted update is ever lost
\* (SetMetadataIf).
THEOREM UpdatesSurvive ==
  ASSUME RevisionFirst = Writers
  PROVE  Spec => []NoLostUpdate
<1>1. Init => NoLostUpdate
  BY DEF Init, NoLostUpdate
<1>2. ASSUME NoLostUpdate, CopiesAreCurrent, [Next]_vars PROVE NoLostUpdate'
  <2>1. ASSUME NEW w \in Writers, SetMetadataIf(w) PROVE NoLostUpdate'
    <3>1. CASE IsCurrent(w)
      <4>1. copy[w] = bag
        BY <1>2, <2>1, <3>1 DEF CopiesAreCurrent, SetMetadataIf, IsCurrent
      <4> QED BY <1>2, <2>1, <3>1, <4>1 DEF NoLostUpdate, SetMetadataIf
    <3>2. CASE ~IsCurrent(w)
      BY <1>2, <2>1, <3>2 DEF NoLostUpdate, SetMetadataIf
    <3> QED BY <3>1, <3>2
  <2> QED BY <1>2, <2>1 DEF Next, NoLostUpdate, SetMetadata, ReadRevision,
             ReadMetadata, vars
<1> QED BY <1>1, <1>2, CopiesStayCurrent, PTL DEF Spec
=============================================================================
