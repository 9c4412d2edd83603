-------------------------- MODULE EventStreamProofs --------------------------
(***************************************************************************)
(* No event is handled twice and only handled ones are acknowledged, for   *)
(* any consumers, batch size, stream bound and faults.  HandledAtMostOnce  *)
(* rests on the batches: what the group has given out lies behind its      *)
(* position and in one batch only.                                         *)
(***************************************************************************)
EXTENDS EventStream, TLAPS

LEMMA InitStream == Init => StreamInv
<1> SUFFICES ASSUME Init PROVE StreamInv
    OBVIOUS
<1> USE EventsAssumption DEF Init, Ids
<1>1. TypeOK
  BY DEF TypeOK
<1>2. PositionsInRange
  BY DEF PositionsInRange
<1>3. BatchesDisjoint /\ HandledAtMostOnce
  BY DEF BatchesDisjoint, HandledAtMostOnce, InHand
<1>4. AckedMeansHandled
  BY DEF AckedMeansHandled
<1> QED BY <1>1, <1>2, <1>3, <1>4 DEF StreamInv

LEMMA StepType == StreamInv /\ [Next]_vars => TypeOK' /\ PositionsInRange'
<1> SUFFICES ASSUME StreamInv, [Next]_vars PROVE TypeOK' /\ PositionsInRange'
    OBVIOUS
<1> USE EventsAssumption
    DEF StreamInv, TypeOK, PositionsInRange, From, Ids, Goto, streamVars, consumerVars, fates
<1>1. CASE Publish
  <2>1. lost' \subseteq Ids
    BY <1>1 DEF Publish
  <2> QED BY SMTT(30), <1>1, <2>1 DEF Publish, Trimmed
<1>2. ASSUME NEW c \in Consumers, EnsureGroup(c) PROVE TypeOK' /\ PositionsInRange'
  BY <1>2 DEF EnsureGroup, StartId
<1>3. ASSUME NEW c \in Consumers, ReadNew(c) PROVE TypeOK' /\ PositionsInRange'
  <2>1. From \in 1 .. To /\ To \in 1 .. last
    BY <1>3 DEF ReadNew, To
  <2>2. delivered' = To
    BY <1>3, <2>1 DEF ReadNew
  <2> HIDE DEF From
  <2>3. CASE lost' = lost \cup (From .. To) /\ UNCHANGED consumerVars
    <3>1. From .. To \subseteq Ids
      BY <2>1
    <3>2. lost' \subseteq Ids
      BY <2>3, <3>1
    <3> QED BY <1>3, <2>1, <2>2, <2>3, <3>2 DEF ReadNew
  <2>4. CASE /\ next' = [next EXCEPT ![c] = From]
             /\ upto' = [upto EXCEPT ![c] = To]
             /\ Goto(c, "handling")
             /\ UNCHANGED lost
    <3>1. lost' \subseteq Ids /\ failed' \subseteq Ids /\ acked' \subseteq Ids
      BY <1>3, <2>4 DEF ReadNew
    <3>2. PositionsInRange'
      BY <1>3, <2>1, <2>2, <2>4 DEF ReadNew
    <3>3. /\ pc' \in [Consumers -> {"starting", "reading", "handling", "acking"}]
          /\ next' \in [Consumers -> Nat] /\ upto' \in [Consumers -> Nat]
      BY <2>1, <2>4
    <3>4. /\ first' \in Nat \ {0} /\ last' \in 0 .. MaxEvents
          /\ group' \in {"none", "exists"} /\ delivered' \in Nat
          /\ handled' \in [Ids -> Nat]
      BY <1>3, <2>1, <2>2 DEF ReadNew
    <3> QED BY <3>1, <3>2, <3>3, <3>4
  <2> QED BY <1>3, <2>3, <2>4 DEF ReadNew
<1>4. ASSUME NEW c \in Consumers, HandleEvent(c) PROVE TypeOK' /\ PositionsInRange'
  <2>1. next[c] \in Ids
    BY <1>4 DEF HandleEvent
  <2>2. CASE HandledThen(c) /\ UNCHANGED <<next, upto, failed>>
    BY <1>4, <2>1, <2>2 DEF HandleEvent, HandledThen
  <2>3. CASE Proceed(c) /\ failed' = failed \cup {next[c]} /\ UNCHANGED handled
    <3>1. failed' \subseteq Ids
      BY <2>1, <2>3
    <3>2. UNCHANGED <<first, last, group, delivered, acked, handled, lost, upto>>
      BY <1>4, <2>3 DEF HandleEvent, Proceed
    <3>3. /\ next' = [next EXCEPT ![c] = @ + 1]
          /\ pc' = [pc EXCEPT ![c] = IF next[c] < upto[c] THEN "handling" ELSE "reading"]
      BY <2>3 DEF Proceed, More
    <3>4. TypeOK'
      BY <3>1, <3>2, <3>3
    <3>5. PositionsInRange'
      BY <1>4, <3>2, <3>3 DEF HandleEvent
    <3> QED BY <3>4, <3>5
  <2> QED BY <1>4, <2>2, <2>3 DEF HandleEvent
<1>5. ASSUME NEW c \in Consumers, Ack(c) PROVE TypeOK' /\ PositionsInRange'
  <2>1. next[c] \in Ids
    BY <1>5 DEF Ack
  <2>2. acked' \subseteq Ids
    BY <1>5, <2>1 DEF Ack
  <2> QED BY <1>5, <2>1, <2>2 DEF Ack, Proceed, More
<1>6. ASSUME NEW c \in Consumers, StopConsumer(c) PROVE TypeOK' /\ PositionsInRange'
  <2>1. lost' \subseteq Ids
    BY <1>6 DEF StopConsumer
  <2> QED BY <1>6, <2>1 DEF StopConsumer
<1>7. CASE LoseData
  <2>1. lost' \subseteq Ids
    BY <1>7 DEF LoseData
  <2> QED BY <1>7, <2>1 DEF LoseData
<1>8. CASE UNCHANGED vars
  BY <1>8 DEF vars
<1> QED BY <1>1, <1>2, <1>3, <1>4, <1>5, <1>6, <1>7, <1>8 DEF Next, ConsumerStep

LEMMA StepBatches == StreamInv /\ [Next]_vars => BatchesDisjoint' /\ HandledAtMostOnce'
<1> SUFFICES ASSUME StreamInv, [Next]_vars,
                    NEW id \in Ids
             PROVE  /\ \A c, d \in Consumers : InHand(c, id)' /\ InHand(d, id)' => c = d
                    /\ \A c \in Consumers : InHand(c, id)' => handled'[id] = 0 /\ id < From'
                    /\ handled'[id] > 0 => id < From'
                    /\ handled'[id] <= 1
    BY DEF BatchesDisjoint, HandledAtMostOnce, Ids
<1> DEFINE Kept == /\ \A c, d \in Consumers : InHand(c, id)' /\ InHand(d, id)' => c = d
                   /\ \A c \in Consumers : InHand(c, id)' => handled'[id] = 0 /\ id < From'
                   /\ handled'[id] > 0 => id < From'
                   /\ handled'[id] <= 1
<1> USE EventsAssumption
    DEF StreamInv, TypeOK, PositionsInRange, BatchesDisjoint, HandledAtMostOnce, InHand,
        From, Ids, Goto, streamVars, consumerVars, fates
<1>1. ASSUME Publish PROVE Kept
  BY <1>1 DEF Publish, Trimmed
<1>2. ASSUME NEW c \in Consumers, EnsureGroup(c) PROVE Kept
  BY <1>2 DEF EnsureGroup, StartId
<1>3. ASSUME NEW c \in Consumers, ReadNew(c) PROVE Kept
  <2>1. From <= To /\ From' = To + 1 /\ From \in Nat /\ To \in Nat
    BY <1>3 DEF ReadNew, To
  <2> HIDE DEF From
  <2>2. CASE UNCHANGED consumerVars
    BY <1>3, <2>1, <2>2 DEF ReadNew
  <2>3. CASE /\ next' = [next EXCEPT ![c] = From]
             /\ upto' = [upto EXCEPT ![c] = To]
             /\ Goto(c, "handling")
    BY <1>3, <2>1, <2>3 DEF ReadNew
  <2> QED BY <1>3, <2>2, <2>3 DEF ReadNew
<1>4. ASSUME NEW c \in Consumers, HandleEvent(c) PROVE Kept
  <2>1. CASE HandledThen(c) /\ UNCHANGED <<next, upto, failed>>
    BY SMTT(30), <1>4, <2>1 DEF HandleEvent, HandledThen
  <2>2. CASE Proceed(c) /\ failed' = failed \cup {next[c]} /\ UNCHANGED handled
    BY SMTT(30), <1>4, <2>2 DEF HandleEvent, Proceed, More
  <2> QED BY <1>4, <2>1, <2>2 DEF HandleEvent
<1>5. ASSUME NEW c \in Consumers, Ack(c) PROVE Kept
  BY SMTT(30), <1>5 DEF Ack, Proceed, More
<1>6. ASSUME NEW c \in Consumers, StopConsumer(c) PROVE Kept
  BY <1>6 DEF StopConsumer
<1>7. ASSUME LoseData PROVE Kept
  <2>1. /\ first' = last + 1 /\ UNCHANGED <<last, delivered, pc, next, upto, handled>>
    BY <1>7 DEF LoseData
  <2> QED BY <2>1
<1>8. ASSUME UNCHANGED vars PROVE Kept
  BY <1>8 DEF vars
<1>9. Kept
  BY <1>1, <1>2, <1>3, <1>4, <1>5, <1>6, <1>7, <1>8 DEF Next, ConsumerStep
<1> QED BY <1>9

LEMMA StepAcked == StreamInv /\ [Next]_vars => AckedMeansHandled'
<1> SUFFICES ASSUME StreamInv, [Next]_vars PROVE AckedMeansHandled'
    OBVIOUS
<1> USE DEF StreamInv, TypeOK, PositionsInRange, AckedMeansHandled, Ids, Goto,
            streamVars, consumerVars, fates
<1>1. CASE Publish
  BY <1>1 DEF Publish
<1>2. ASSUME NEW c \in Consumers, EnsureGroup(c) PROVE AckedMeansHandled'
  BY <1>2 DEF EnsureGroup
<1>3. ASSUME NEW c \in Consumers, ReadNew(c) PROVE AckedMeansHandled'
  BY <1>3 DEF ReadNew
<1>4. ASSUME NEW c \in Consumers, HandleEvent(c) PROVE AckedMeansHandled'
  <2>1. next[c] \in Ids
    BY <1>4, EventsAssumption DEF HandleEvent
  <2>2. CASE HandledThen(c) /\ UNCHANGED <<next, upto, failed>>
    BY <1>4, <2>1, <2>2 DEF HandleEvent, HandledThen
  <2>3. CASE Proceed(c) /\ failed' = failed \cup {next[c]} /\ UNCHANGED handled
    BY <1>4, <2>3 DEF HandleEvent, Proceed
  <2> QED BY <1>4, <2>2, <2>3 DEF HandleEvent
<1>5. ASSUME NEW c \in Consumers, Ack(c) PROVE AckedMeansHandled'
  BY <1>5 DEF Ack, Proceed
<1>6. ASSUME NEW c \in Consumers, StopConsumer(c) PROVE AckedMeansHandled'
  BY <1>6 DEF StopConsumer
<1>7. CASE LoseData
  BY <1>7 DEF LoseData
<1>8. CASE UNCHANGED vars
  BY <1>8 DEF vars
<1> QED BY <1>1, <1>2, <1>3, <1>4, <1>5, <1>6, <1>7, <1>8 DEF Next, ConsumerStep

\* What the group, the batches, the handlers and the acknowledgements rely on is
\* inductive, and holds through every fault; in particular only handled entries are
\* acknowledged.
THEOREM StreamInvariant == Spec => []StreamInv
<1>1. StreamInv /\ [Next]_vars => StreamInv'
  BY StepType, StepBatches, StepAcked DEF StreamInv
<1> QED BY <1>1, InitStream, PTL DEF Spec

\* An entry is handled at most once, through restarts of consumers, lost replies,
\* failing handlers, trimming and the loss of the stream.
THEOREM EventsHandledAtMostOnce == Spec => []HandledAtMostOnce
<1>1. StreamInv => HandledAtMostOnce
  BY DEF StreamInv
<1> QED BY <1>1, StreamInvariant, PTL

-----------------------------------------------------------------------------
(***************************************************************************)
(* The stream implements EventDelivery.  An event that was struck must not *)
(* come into a consumer's hands any more: it lies behind the position of   *)
(* the group, as soon as there is one again.                               *)
(***************************************************************************)
StruckIsPast ==
    /\ \A id \in lost \cup failed : id <= last
    /\ \A id \in lost \cup failed, c \in Consumers : ~InHand(c, id)
    /\ group = "exists" => \A id \in lost \cup failed : id < From

LEMMA StepStruck == StreamInv /\ StruckIsPast /\ [Next]_vars => StruckIsPast'
<1> SUFFICES ASSUME StreamInv, StruckIsPast, [Next]_vars PROVE StruckIsPast'
    OBVIOUS
<1> USE EventsAssumption
    DEF StreamInv, TypeOK, PositionsInRange, BatchesDisjoint, StruckIsPast, InHand,
        From, Ids, Goto, streamVars, consumerVars, fates
<1>1. CASE Publish
  BY <1>1 DEF Publish, Trimmed
<1>2. ASSUME NEW c \in Consumers, EnsureGroup(c) PROVE StruckIsPast'
  BY <1>2 DEF EnsureGroup, StartId
<1>3. ASSUME NEW c \in Consumers, ReadNew(c) PROVE StruckIsPast'
  <2>1. From <= To /\ From' = To + 1 /\ From \in Nat /\ To \in Nat /\ To <= last
    BY <1>3 DEF ReadNew, To
  <2> HIDE DEF From
  <2>2. CASE UNCHANGED consumerVars /\ lost' = lost \cup (From .. To)
    BY <1>3, <2>1, <2>2 DEF ReadNew
  <2>3. CASE /\ next' = [next EXCEPT ![c] = From]
             /\ upto' = [upto EXCEPT ![c] = To]
             /\ Goto(c, "handling")
             /\ UNCHANGED lost
    BY <1>3, <2>1, <2>3 DEF ReadNew
  <2> QED BY <1>3, <2>2, <2>3 DEF ReadNew
<1>4. ASSUME NEW c \in Consumers, HandleEvent(c) PROVE StruckIsPast'
  <2>1. CASE HandledThen(c) /\ UNCHANGED <<next, upto, failed>>
    BY <1>4, <2>1 DEF HandleEvent, HandledThen
  <2>2. CASE Proceed(c) /\ failed' = failed \cup {next[c]} /\ UNCHANGED handled
    BY SMTT(30), <1>4, <2>2 DEF HandleEvent, Proceed, More
  <2> QED BY <1>4, <2>1, <2>2 DEF HandleEvent
<1>5. ASSUME NEW c \in Consumers, Ack(c) PROVE StruckIsPast'
  BY <1>5 DEF Ack, Proceed, More
<1>6. ASSUME NEW c \in Consumers, StopConsumer(c) PROVE StruckIsPast'
  BY <1>6 DEF StopConsumer
<1>7. CASE LoseData
  BY <1>7 DEF LoseData
<1>8. CASE UNCHANGED vars
  BY <1>8 DEF vars
<1> QED BY <1>1, <1>2, <1>3, <1>4, <1>5, <1>6, <1>7, <1>8 DEF Next, ConsumerStep

\* What a fault adds to lost is an event due that becomes lost, or changes nothing.
LEMMA LosingIsLose ==
    ASSUME UNCHANGED <<last, handled, failed>>, lost \subseteq lost'
    PROVE  Delivery!Lose
<1>1. FateMap' \in [Ids -> Delivery!Fates]
  BY DEF FateMap, FateOf, Delivery!Fates
<1>2. ASSUME NEW id \in Ids PROVE Delivery!SparedOrLost(id)
  BY <1>2 DEF FateMap, FateOf, Delivery!SparedOrLost, Ids
<1> QED BY <1>1, <1>2 DEF Delivery!Lose

\* The entry a consumer is handling is due.
LEMMA InHandIsDue ==
    ASSUME StreamInv, StruckIsPast, NEW c \in Consumers, pc[c] = "handling"
    PROVE  next[c] \in Ids /\ next[c] <= last /\ handled[next[c]] = 0
             /\ FateMap[next[c]] = "due"
<1>1. next[c] \in Ids /\ next[c] <= last /\ InHand(c, next[c])
  BY EventsAssumption DEF StreamInv, TypeOK, PositionsInRange, InHand, Ids
<1>2. handled[next[c]] = 0 /\ next[c] \notin lost \cup failed
  BY <1>1 DEF StreamInv, BatchesDisjoint, StruckIsPast
<1>3. last \in Nat
  BY EventsAssumption DEF StreamInv, TypeOK
<1> QED BY <1>1, <1>2, <1>3, EventsAssumption DEF FateMap, FateOf, Ids

LEMMA StepDelivery ==
    ASSUME StreamInv, StruckIsPast, [Next]_vars
    PROVE  [Delivery!Next]_Delivery!deliveryVars
<1> DEFINE Same == UNCHANGED <<FateMap, handled>>
           Event(id) == Delivery!Publish(id) \/ Delivery!Handle(id) \/ Delivery!Fail(id)
           Delivered == Same \/ Delivery!Lose \/ \E id \in Ids : Event(id)
<1> USE DEF streamVars, consumerVars, fates
<1>1. ASSUME Publish PROVE Delivered
  <2> USE EventsAssumption DEF StreamInv, TypeOK, PositionsInRange, Ids
  <2>1. last + 1 \in Ids /\ last' = last + 1
    BY <1>1 DEF Publish
  <2>2. handled[last + 1] = 0 /\ last + 1 \notin failed
    BY <2>1 DEF BatchesDisjoint, From, StruckIsPast
  <2>3. FateMap[last + 1] = "unpublished"
    BY <2>1 DEF FateMap, FateOf
  <2>4. UNCHANGED <<handled, failed>> /\ lost \subseteq lost'
    BY <1>1 DEF Publish
  <2>5. FateMap'[last + 1] \in {"due", "lost"}
    BY <2>1, <2>2, <2>4 DEF FateMap, FateOf
  <2>6. FateMap' \in [Ids -> Delivery!Fates]
    BY DEF FateMap, FateOf, Delivery!Fates
  <2>7. ASSUME NEW id \in Ids \ {last + 1} PROVE Delivery!SparedOrLost(id)
    BY <2>1, <2>4, <2>7 DEF FateMap, FateOf, Delivery!SparedOrLost
  <2>8. Delivery!Publish(last + 1)
    BY <2>3, <2>4, <2>5, <2>6, <2>7 DEF Delivery!Publish
  <2> QED BY <2>1, <2>8
<1>2. ASSUME NEW c \in Consumers, EnsureGroup(c) \/ Ack(c) PROVE Delivered
  BY <1>2 DEF EnsureGroup, Ack, Proceed, FateMap, FateOf
<1>3. ASSUME NEW c \in Consumers, ReadNew(c) \/ StopConsumer(c) PROVE Delivered
  BY <1>3, LosingIsLose DEF ReadNew, StopConsumer
<1>4. ASSUME NEW c \in Consumers, HandleEvent(c) PROVE Delivered
  <2> DEFINE id == next[c]
  <2>1. id \in Ids /\ id <= last /\ handled[id] = 0 /\ FateMap[id] = "due"
    BY <1>4, InHandIsDue DEF HandleEvent
  <2>2. /\ last \in Nat /\ handled \in [Ids -> Nat] /\ Ids \subseteq Nat
        /\ UNCHANGED <<last, lost>>
    BY <1>4, EventsAssumption DEF HandleEvent, StreamInv, TypeOK, Ids
  <2>3. ASSUME HandledThen(c), UNCHANGED failed PROVE Delivery!Handle(id)
    <3>1. handled' = [handled EXCEPT ![id] = @ + 1]
      BY <2>3 DEF HandledThen
    <3>2. FateMap' = [FateMap EXCEPT ![id] = "handled"]
      <4> HIDE DEF id
      <4>1. handled'[id] = 1 /\ \A e \in Ids \ {id} : handled'[e] = handled[e]
        BY <2>1, <2>2, <3>1
      <4>2. \A e \in Ids : FateMap'[e] = IF e = id THEN "handled" ELSE FateMap[e]
        BY <2>1, <2>2, <2>3, <4>1 DEF FateMap, FateOf
      <4> QED BY <2>1, <4>2 DEF FateMap
    <3> QED BY <2>1, <3>1, <3>2 DEF Delivery!Handle
  <2>4. ASSUME failed' = failed \cup {id}, UNCHANGED handled PROVE Delivery!Fail(id)
    <3>1. FateMap' = [FateMap EXCEPT ![id] = "failed"]
      <4> HIDE DEF id
      <4> QED BY <2>1, <2>2, <2>4 DEF FateMap, FateOf
    <3> QED BY <2>1, <2>4, <3>1 DEF Delivery!Fail
  <2>5. Delivery!Handle(id) \/ Delivery!Fail(id)
    BY <1>4, <2>3, <2>4 DEF HandleEvent
  <2> QED BY <2>1, <2>5
<1>5. ASSUME LoseData PROVE Delivered
  BY <1>5, LosingIsLose DEF LoseData
<1>6. ASSUME UNCHANGED vars PROVE Delivered
  BY <1>6 DEF vars, FateMap, FateOf
<1>7. Delivered
  BY <1>1, <1>2, <1>3, <1>4, <1>5, <1>6 DEF Next, ConsumerStep
<1> QED BY <1>7 DEF Delivery!Next, Delivery!deliveryVars

\* For any consumers, batch sizes, bounds and faults, what happens to events is a
\* behaviour of EventDelivery (the safety part of KeepsDelivery).
THEOREM ImplementsDelivery == Spec => Delivery!Spec
<1>1. Init => Delivery!Init /\ StruckIsPast
  <2>1. Init => \A id \in Ids : FateMap[id] = "unpublished"
    BY EventsAssumption DEF Init, FateMap, FateOf, Ids
  <2>2. Init => FateMap = [id \in Ids |-> "unpublished"]
    BY <2>1 DEF FateMap
  <2> QED BY <2>2 DEF Init, Delivery!Init, StruckIsPast
<1>2. StreamInv /\ StruckIsPast /\ [Next]_vars => StruckIsPast'
  BY StepStruck
<1>3. StreamInv /\ StruckIsPast /\ [Next]_vars => [Delivery!Next]_Delivery!deliveryVars
  BY StepDelivery
<1> QED BY <1>1, <1>2, <1>3, StreamInvariant, PTL DEF Spec, Delivery!Spec

-----------------------------------------------------------------------------
(***************************************************************************)
(* What EventDelivery cannot say: where an event that is due is.  This is  *)
(* the safety that the liveness of KeepsDelivery rests on.                 *)
(***************************************************************************)
Reported(id) == handled[id] > 0 \/ id \in failed \cup lost
InSight(id) == \/ \E c \in Consumers : InHand(c, id)
               \/ group = "exists" /\ From <= id

\* No event is forgotten: one that is neither handled, failed nor lost to a fault is in
\* the hands of a consumer, or in the stream for the group's next reads, whatever the
\* consumers, the trimming and the faults do (eventStream.js:7-9).
NoneForgotten == \A id \in 1 .. last : Reported(id) \/ InSight(id)

\* An event whose handler threw is in nobody's hands, and never comes into any: the code
\* leaves it unacknowledged, but reads only '>' (eventStream.js:75, 92-93).
FailedIsDropped == \A id \in failed : handled[id] = 0 /\ \A c \in Consumers : ~InHand(c, id)

LEMMA StepNoneForgotten == StreamInv /\ NoneForgotten /\ [Next]_vars => NoneForgotten'
<1> SUFFICES ASSUME StreamInv, NoneForgotten, [Next]_vars, NEW id \in 1 .. last'
             PROVE  Reported(id)' \/ InSight(id)'
    BY DEF NoneForgotten
<1> DEFINE Kept == Reported(id)' \/ InSight(id)'
<1>0. /\ id \in Ids /\ id \in Nat
      /\ last' # last => last' = last + 1 /\ Publish
      /\ last \in Nat /\ (id \in 1 .. last \/ id = last + 1)
  <2>1. last \in 0 .. MaxEvents /\ last' \in 0 .. MaxEvents
    BY StepType DEF StreamInv, TypeOK
  <2>2. last' # last => last' = last + 1 /\ Publish
    BY DEF Next, ConsumerStep, Publish, EnsureGroup, ReadNew, HandleEvent, Ack, StopConsumer,
           LoseData, streamVars, vars
  <2> QED BY <2>1, <2>2, EventsAssumption DEF Ids
<1>1. id \in 1 .. last => Reported(id) \/ InSight(id)
  BY DEF NoneForgotten
<1> USE DEF StreamInv, TypeOK, PositionsInRange, Reported, InSight, InHand, Goto,
            streamVars, consumerVars, fates
<1>2. ASSUME Publish PROVE Kept
  <2>1. /\ first' \in first .. last + 1 /\ last' = last + 1
        /\ \A i \in Ids : (From <= i /\ i < first') \/ (i = last + 1 /\ group = "none") => i \in lost'
        /\ lost \subseteq lost' /\ UNCHANGED <<group, delivered, consumerVars, handled, failed>>
    BY <1>2 DEF Publish, Trimmed
  <2>2. From' \in Nat /\ From \in Nat /\ From' <= last + 1 /\ (From' = From \/ From' = first')
    BY <1>0, <2>1 DEF From
  <2>3. CASE id = last + 1
    BY <1>0, <2>1, <2>2, <2>3
  <2>4. CASE id \in 1 .. last
    BY <1>0, <1>1, <2>1, <2>2, <2>4
  <2> QED BY <1>0, <2>3, <2>4
<1>3. ASSUME ~Publish PROVE id \in 1 .. last /\ (Reported(id) \/ InSight(id))
  BY <1>0, <1>1, <1>3
<1>4. ASSUME NEW c \in Consumers, EnsureGroup(c) PROVE Kept
  BY <1>0, <1>1, <1>4 DEF EnsureGroup, StartId, From
<1>5. ASSUME NEW c \in Consumers, ReadNew(c) PROVE Kept
  <2>1. /\ From <= To /\ From' = To + 1 /\ From \in Nat /\ To \in Nat
        /\ pc[c] = "reading" /\ last' = last
    <3>1. /\ From <= last /\ delivered' = To /\ UNCHANGED <<first, last>>
          /\ pc[c] = "reading"
      BY <1>5 DEF ReadNew
    <3>2. From \in Nat /\ first <= From /\ last \in Nat
      BY DEF From
    <3>3. To \in Nat /\ From <= To
      BY <3>1, <3>2, EventsAssumption DEF To
    <3>4. From' = To + 1
      BY <3>1, <3>2, <3>3 DEF From
    <3> QED BY <3>1, <3>2, <3>3, <3>4
  <2>2. \A d \in Consumers : InHand(d, id) => d # c
    BY <2>1
  <2> HIDE DEF From
  <2>3. CASE UNCHANGED consumerVars /\ lost' = lost \cup (From .. To)
    BY <1>0, <1>1, <1>5, <2>1, <2>3 DEF ReadNew
  <2>4. CASE /\ next' = [next EXCEPT ![c] = From]
             /\ upto' = [upto EXCEPT ![c] = To]
             /\ Goto(c, "handling")
             /\ UNCHANGED lost
    BY <1>0, <1>1, <1>5, <2>1, <2>2, <2>4 DEF ReadNew
  <2> QED BY <1>5, <2>3, <2>4 DEF ReadNew
<1>6. ASSUME NEW c \in Consumers, HandleEvent(c) PROVE Kept
  <2>1. /\ pc[c] = "handling" /\ next[c] \in Ids /\ last' = last /\ From' = From
        /\ handled[next[c]] \in Nat /\ next[c] \in Nat /\ upto[c] \in Nat
    BY <1>6, EventsAssumption DEF HandleEvent, From, Ids
  <2> HIDE DEF From
  <2>2. CASE HandledThen(c) /\ UNCHANGED <<next, upto, failed>>
    <3>1. /\ handled' = [handled EXCEPT ![next[c]] = @ + 1]
          /\ pc' = [pc EXCEPT ![c] = "acking"]
      BY <2>2 DEF HandledThen
    <3>2. CASE id = next[c]
      BY <1>0, <2>1, <3>1, <3>2
    <3>3. CASE id # next[c]
      BY <1>0, <1>1, <1>6, <2>1, <2>2, <3>1, <3>3 DEF HandleEvent
    <3> QED BY <3>2, <3>3
  <2>3. CASE Proceed(c) /\ failed' = failed \cup {next[c]} /\ UNCHANGED handled
    BY SMTT(30), <1>0, <1>1, <1>6, <2>1, <2>3 DEF HandleEvent, Proceed, More
  <2> QED BY <1>6, <2>2, <2>3 DEF HandleEvent
<1>7. ASSUME NEW c \in Consumers, Ack(c) PROVE Kept
  <2>1. /\ From' = From /\ next[c] \in Nat /\ upto[c] \in Nat /\ pc[c] = "acking"
    BY <1>7 DEF Ack, From
  <2> HIDE DEF From
  <2> QED BY SMTT(30), <1>0, <1>1, <1>7, <2>1 DEF Ack, Proceed, More
<1>8. ASSUME NEW c \in Consumers, StopConsumer(c) PROVE Kept
  <2>1. /\ \A i \in Ids : InHand(c, i) => i \in lost'
        /\ \A d \in Consumers : d # c /\ InHand(d, id) => InHand(d, id)'
        /\ From' = From /\ lost \subseteq lost' /\ UNCHANGED <<group, handled, failed, last>>
    BY <1>8 DEF StopConsumer, From
  <2> HIDE DEF InHand, From
  <2> QED BY <1>0, <1>1, <2>1
<1>9. ASSUME LoseData PROVE Kept
  <2>1. /\ \A i \in Ids : From <= i /\ i <= last => i \in lost'
        /\ lost \subseteq lost' /\ UNCHANGED <<last, handled, failed, consumerVars>>
    BY <1>9 DEF LoseData
  <2> HIDE DEF From
  <2> QED BY <1>0, <1>1, <2>1
<1>10. ASSUME UNCHANGED vars PROVE Kept
  BY <1>0, <1>1, <1>10 DEF vars, From
<1> QED BY <1>2, <1>4, <1>5, <1>6, <1>7, <1>8, <1>9, <1>10 DEF Next, ConsumerStep

\* The safety half of the delivery: for any consumers, batches and faults an event without
\* a fate is still in somebody's sight (eventStream.js:62-96).
THEOREM NoEventForgotten == Spec => []NoneForgotten
<1>1. Init => NoneForgotten
  BY DEF Init, NoneForgotten
<1> QED BY <1>1, StepNoneForgotten, StreamInvariant, PTL DEF Spec

\* The comment of the code promises a redelivery of failed events; for no number of
\* consumers, batch size or fault is there one.
LEMMA StepDropped ==
    StreamInv /\ StruckIsPast /\ FailedIsDropped /\ [Next]_vars => FailedIsDropped'
<1> SUFFICES ASSUME StreamInv, StruckIsPast, FailedIsDropped, [Next]_vars, NEW id \in failed'
             PROVE  handled'[id] = 0
    BY StepStruck DEF FailedIsDropped, StruckIsPast
<1>1. ASSUME NEW c \in Consumers, HandleEvent(c) PROVE handled'[id] = 0
  <2>1. next[c] \in Ids /\ handled[next[c]] = 0 /\ InHand(c, next[c])
    BY <1>1, InHandIsDue, EventsAssumption
       DEF HandleEvent, InHand, StreamInv, TypeOK, PositionsInRange
  <2>2. id # next[c] => id \in failed
    BY <1>1 DEF HandleEvent
  <2>3. id \in failed => id # next[c]
    BY <2>1 DEF FailedIsDropped
  <2>4. id \in failed => handled[id] = 0
    BY DEF FailedIsDropped
  <2>5. id # next[c] => handled'[id] = handled[id]
    BY <1>1 DEF HandleEvent, HandledThen, StreamInv, TypeOK
  <2>6. id \notin failed => UNCHANGED handled
    BY <1>1, <2>2 DEF HandleEvent
  <2> QED BY <2>1, <2>2, <2>3, <2>4, <2>5, <2>6
<1>2. CASE UNCHANGED <<handled, failed>>
  BY <1>2 DEF FailedIsDropped
<1> QED BY <1>1, <1>2 DEF Next, ConsumerStep, Publish, EnsureGroup, ReadNew, Ack, StopConsumer,
                          LoseData, vars, fates

\* An event whose handler threw stays pending for good (eventStream.js:92-93): failed never
\* shrinks, and what is in it is never read again.
THEOREM FailedEventsDropped == Spec => []FailedIsDropped
<1>1. Init => StruckIsPast /\ FailedIsDropped
  BY DEF Init, StruckIsPast, FailedIsDropped
<1> QED BY <1>1, StepStruck, StepDropped, StreamInvariant, PTL DEF Spec
=============================================================================
