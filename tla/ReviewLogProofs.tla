---------------------------- MODULE ReviewLogProofs ----------------------------
(***************************************************************************)
(* The review log for every number of writers, reviews and appends.        *)
(***************************************************************************)
EXTENDS ReviewLog, SequenceTheorems, TLAPS

\* A writer past its start has a payload; past its publication, a shard.
Written ==
  \A w \in Writers :
    /\ pc[w] # "idle" => item[w] \in Payloads
    /\ pc[w] = "verify" => Event(w) \in shards

IInv == TypeOK /\ Written /\ AcksAgree

\* What a lone writer knows: what it checked is still so, what it read is the log.
Lone ==
  ~raced =>
    /\ \A v, w \in Writers : pc[v] # "idle" /\ pc[w] # "idle" => v = w
    /\ Readable(shards)
    /\ \A w \in Writers :
         /\ pc[w] \in {"read", "publish"} => Acceptable(w)
         /\ pc[w] = "publish" => shards = Chain(base[w])

------------------------------------------------------------------------------

\* The events of one chain extend each other.
LEMMA ChainIsLinear ==
  ASSUME NEW S, NEW head \in Seq(S), NEW e \in Chain(head), NEW f \in Chain(head)
  PROVE  e \in Chain(f) \/ f \in Chain(e)
<1>1. PICK m \in 1..Len(head) : e = SubSeq(head, 1, m)
  BY DEF Chain
<1>2. PICK n \in 1..Len(head) : f = SubSeq(head, 1, n)
  BY DEF Chain
<1>3. /\ e \in Seq(S) /\ Len(e) = m /\ \A i \in 1..m : e[i] = head[i]
      /\ f \in Seq(S) /\ Len(f) = n /\ \A i \in 1..n : f[i] = head[i]
  BY <1>1, <1>2
<1>4. CASE m <= n
  <2>1. e = SubSeq(f, 1, m)
    BY <1>3, <1>4
  <2> QED
    BY <1>3, <1>4, <2>1 DEF Chain
<1>5. CASE n <= m
  <2>1. f = SubSeq(e, 1, n)
    BY <1>3, <1>5
  <2> QED
    BY <1>3, <1>5, <2>1 DEF Chain
<1> QED
  BY <1>4, <1>5

LEMMA ChainGrows ==
  ASSUME NEW S, NEW head \in Seq(S), NEW x \in S
  PROVE  Chain(Append(head, x)) = Chain(head) \cup {Append(head, x)}
<1> DEFINE next == Append(head, x)
<1>1. next \in Seq(S) /\ Len(next) = Len(head) + 1 /\ \A i \in 1..Len(head) : next[i] = head[i]
  OBVIOUS
<1>2. SubSeq(next, 1, Len(next)) = next
  BY <1>1
<1>3. \A n \in 1..Len(head) : SubSeq(next, 1, n) = SubSeq(head, 1, n)
  BY <1>1
<1>4. 1..Len(next) = 1..Len(head) \cup {Len(next)}
  BY <1>1
<1> QED
  BY <1>2, <1>3, <1>4 DEF Chain

LEMMA LastEventFacts ==
  ASSUME TypeOK, Intact(shards)
  PROVE  LastEvent(shards) \in Seq(Payloads) /\ shards = Chain(LastEvent(shards))
<1>1. \E head \in shards \cup {<<>>} : shards = Chain(head)
  BY DEF Intact
<1>2. LastEvent(shards) \in shards \cup {<<>>} /\ shards = Chain(LastEvent(shards))
  BY <1>1 DEF LastEvent
<1>3. shards \cup {<<>>} \subseteq Seq(Payloads)
  <2>1. <<>> \in Seq(Payloads)
    OBVIOUS
  <2> QED
    BY <2>1 DEF TypeOK
<1> QED
  BY <1>2, <1>3

LEMMA AppendFacts ==
  ASSUME TypeOK, Written, NEW w \in Writers, pc[w] # "idle"
  PROVE  /\ Event(w) \in Seq(Payloads) \ {<<>>}
         /\ Review(Event(w)) = item[w][1]
<1>1. base[w] \in Seq(Payloads) /\ item[w] \in Payloads
  BY DEF TypeOK, Written
<1> QED
  BY <1>1 DEF Event, Review

------------------------------------------------------------------------------

LEMMA NextInv == IInv /\ [Next]_vars => IInv'
<1> SUFFICES ASSUME IInv, [Next]_vars PROVE IInv'
  OBVIOUS
<1> USE DEF IInv, TypeOK, Labels
<1>1. ASSUME UNCHANGED <<shards, acked>>, NEW w \in Writers, Leave(w) PROVE IInv'
  BY <1>1 DEF Leave, Written, AcksAgree, Event
<1>2. ASSUME NEW w \in Writers, Begin(w) PROVE IInv'
  <2>1. PICK payload \in Payloads : item' = [item EXCEPT ![w] = payload]
    BY <1>2 DEF Begin
  <2>2. raced' \in BOOLEAN /\ appends' \in 0..MaxAppends
    BY <1>2, ReviewAssumption DEF Begin
  <2>3. TypeOK'
    BY <1>2, <2>1, <2>2 DEF Begin
  <2> QED
    BY <1>2, <2>1, <2>3 DEF Begin, Written, AcksAgree, Event
<1>3. ASSUME NEW w \in Writers, Check(w) PROVE IInv'
  BY <1>3 DEF Check, Written, AcksAgree, Event
<1>4. ASSUME NEW w \in Writers, Refuse(w) \/ Crash(w) PROVE IInv'
  BY <1>1, <1>4 DEF Refuse, Crash
<1>5. ASSUME NEW w \in Writers, Read(w) PROVE IInv'
  BY <1>5, LastEventFacts DEF Read, Written, AcksAgree, Event
<1>6. ASSUME NEW w \in Writers, Publish(w) PROVE IInv'
  <2>1. Event(w) \in Seq(Payloads) \ {<<>>}
    BY <1>6, AppendFacts DEF Publish
  <2>2. TypeOK'
    BY <1>6, <2>1 DEF Publish
  <2> QED
    BY <1>6, <2>2 DEF Publish, Written, AcksAgree, Event
<1>7. ASSUME NEW w \in Writers, Acknowledge(w) PROVE IInv'
  <2>1. Event(w) \in shards
    BY <1>7 DEF Acknowledge, Written
  <2>a. <<>> \in Seq(Payloads)
    OBVIOUS
  <2>b. TypeOK'
    BY <1>7, <2>1, <2>a DEF Acknowledge, Leave
  <2>c. Written'
    BY <1>7 DEF Acknowledge, Leave, Written, Event
  <2>2. TypeOK' /\ Written'
    BY <2>b, <2>c
  <2>3. \A e, f \in shards : e \in Chain(f) \/ f \in Chain(e)
    BY <1>7, LastEventFacts, ChainIsLinear DEF Acknowledge
  <2>4. AcksAgree'
    BY <1>7, <2>1, <2>3 DEF Acknowledge, AcksAgree
  <2> QED
    BY <2>2, <2>4
<1>8. CASE UNCHANGED vars
  BY <1>8 DEF vars, Written, AcksAgree, Event
<1> QED
  BY <1>2, <1>3, <1>4, <1>5, <1>6, <1>7, <1>8 DEF Next

LEMMA NextLone == IInv /\ Lone /\ [Next]_vars => Lone'
<1> SUFFICES ASSUME IInv, Lone, [Next]_vars, ~raced' PROVE Lone'
  BY DEF Lone
<1> USE DEF IInv, TypeOK
<1>0. ~raced
  BY DEF Next, Begin, Check, Refuse, Read, Publish, Acknowledge, Crash, Leave, vars
<1>1. ASSUME NEW w \in Writers, Begin(w) PROVE Lone'
  BY <1>0, <1>1 DEF Lone, Begin, Acceptable
<1>2. ASSUME NEW w \in Writers, Check(w) PROVE Lone'
  BY <1>0, <1>2 DEF Lone, Check, Acceptable
<1>3. ASSUME NEW w \in Writers, Refuse(w) \/ Acknowledge(w) \/ Crash(w) PROVE Lone'
  BY <1>0, <1>3, ZenonT(30) DEF Lone, Refuse, Acknowledge, Crash, Leave, Acceptable
<1>4. ASSUME NEW w \in Writers, Read(w) PROVE Lone'
  BY <1>0, <1>4, LastEventFacts DEF Lone, Read, Acceptable
<1>5. ASSUME NEW w \in Writers, Publish(w) PROVE Lone'
  <2>1. /\ Event(w) \in Seq(Payloads) \ {<<>>} /\ Review(Event(w)) = item[w][1]
        /\ item[w] \in Payloads /\ base[w] \in Seq(Payloads)
    BY <1>5, AppendFacts DEF Publish, Written
  <2>2. Acceptable(w) /\ shards = Chain(base[w])
    BY <1>0, <1>5 DEF Lone, Publish
  <2>3. shards' = Chain(Event(w)) /\ shards' = shards \cup {Event(w)}
    BY <1>5, <2>1, <2>2, ChainGrows DEF Publish, Event
  <2>4. Intact(shards')
    BY <2>3 DEF Intact
  <2>5. Readable(shards')
    BY <2>1, <2>2, <2>3, <2>4 DEF Readable, Acceptable
  <2>6. \A v \in Writers : v # w => pc[v] = "idle" /\ pc'[v] = "idle"
    BY <1>0, <1>5 DEF Lone, Publish
  <2> QED
    BY <1>0, <1>5, <2>5, <2>6 DEF Lone, Publish
<1>6. CASE UNCHANGED vars
  BY <1>0, <1>6 DEF vars, Lone, Acceptable
<1> QED
  BY <1>1, <1>2, <1>3, <1>4, <1>5, <1>6 DEF Next

LEMMA InvHolds == Spec => []IInv
<1>1. Init => IInv
  <2>1. <<>> \in Seq(Payloads)
    OBVIOUS
  <2>2. Init => TypeOK
    <3>1. Init => base \in [Writers -> Seq(Payloads)]
      BY <2>1 DEF Init
    <3>2. Init => 0 \in 0..MaxAppends
      BY ReviewAssumption
    <3> QED
      BY <3>1, <3>2 DEF Init, TypeOK, Labels
  <2>3. TypeOK /\ Init => IInv
    BY DEF Init, IInv, Written, AcksAgree
  <2> QED
    BY <2>1, <2>2, <2>3
<1> QED
  BY <1>1, NextInv, PTL DEF Spec

------------------------------------------------------------------------------

\* Shards, acknowledgements and the writers' state keep their types.
THEOREM TypeCorrect == Spec => []TypeOK
<1>1. IInv => TypeOK
  BY DEF IInv
<1> QED
  BY <1>1, InvHolds, PTL

\* Any number of writers may race and crash: events whose append reported
\* success lie on one chain, because success is only reported after a read of
\* the whole log that finds a single chain with all of them in it.
THEOREM AcksOnOneChain == Spec => []AcksAgree
<1>1. IInv => AcksAgree
  BY DEF IInv
<1> QED
  BY <1>1, InvHolds, PTL

\* Without overlapping appends the log has one review per verdict on one chain,
\* through any number of crashes and repeated submissions.
THEOREM LoneWritersAreSafe == Spec => []StaysReadable
<1>1. Init => Lone
  BY DEF Init, Lone, Readable, Intact, Chain
<1>2. Lone => StaysReadable
  BY DEF Lone, StaysReadable
<1> QED
  BY <1>1, <1>2, NextLone, InvHolds, PTL DEF Spec
==============================================================================
