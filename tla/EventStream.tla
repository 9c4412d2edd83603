----------------------------- MODULE EventStream -----------------------------
(***************************************************************************)
(* Task events on the Redis stream taskflow:events (eventStream.js): the   *)
(* API publishes with XADD, the consumers of the group reports-service     *)
(* read with XREADGROUP ... '>', handle each entry and acknowledge it.     *)
(*                                                                         *)
(* Entry ids are 1, 2, 3, ... in the order of XADD.  The entries of one    *)
(* read are an interval of ids, so a consumer's batch is next[c]..upto[c]. *)
(***************************************************************************)
EXTENDS Naturals

CONSTANTS
    Consumers,      \* reports-service processes
    MaxEvents,      \* bound on the number of published events
    Count,          \* COUNT of XREADGROUP
    MaxLen,         \* MAXLEN ~ of XADD
    Faults          \* what may go wrong, see FaultKinds

FaultKinds ==
    {"stop",            \* a consumer process exits (a crash, or SIGTERM) and restarts
     "handler_error",   \* the handler throws
     "reply_lost",      \* the reply of a read is lost, ioredis sends the read again
     "data_loss"}       \* Redis restarts without its data

ASSUME EventsAssumption == MaxEvents \in Nat /\ MaxLen \in Nat /\ Count \in Nat \ {0}
ASSUME FaultsAssumption == Faults \subseteq FaultKinds

Ids == 1 .. MaxEvents

VARIABLES
    first, last,    \* the stream holds the entries first..last
    group,          \* does the consumer group exist
    delivered,      \* last-delivered-id of the group
    acked,          \* acknowledged entries; other delivered ones stay pending
    pc, next, upto, \* the consumer's step and the part of its batch still to do
    handled,        \* handled[id]: how often the handler finished for entry id
    lost, failed    \* entries a fault struck before they were handled; whose handler threw

streamVars == <<first, last, group, delivered, acked>>
consumerVars == <<pc, next, upto>>
fates == <<lost, failed>>
vars == <<streamVars, consumerVars, handled, fates>>

TypeOK ==
    /\ first \in Nat \ {0} /\ last \in 0 .. MaxEvents
    /\ group \in {"none", "exists"} /\ delivered \in Nat
    /\ acked \subseteq Ids
    /\ pc \in [Consumers -> {"starting", "reading", "handling", "acking"}]
    /\ next \in [Consumers -> Nat] /\ upto \in [Consumers -> Nat]
    /\ handled \in [Ids -> Nat]
    /\ lost \subseteq Ids /\ failed \subseteq Ids

Init ==
    /\ first = 1 /\ last = 0
    /\ group = "none" /\ delivered = 0 /\ acked = {}
    /\ pc = [c \in Consumers |-> "starting"]
    /\ next = [c \in Consumers |-> 1] /\ upto = [c \in Consumers |-> 0]
    /\ handled = [id \in Ids |-> 0]
    /\ lost = {} /\ failed = {}

Goto(c, step) == pc' = [pc EXCEPT ![c] = step]

\* The oldest entry the group has not given out.
From == IF delivered >= first THEN delivered + 1 ELSE first

\* Entry id is in the batch of consumer c, still to be passed to its handler.
InHand(c, id) ==
    /\ id <= upto[c]
    /\ \/ (pc[c] = "handling" /\ next[c] <= id)
       \/ (pc[c] = "acking" /\ next[c] < id)

-----------------------------------------------------------------------------
(* publishEvent *)

\* XADD MAXLEN ~ removes old entries in blocks, never below MaxLen entries.
Trimmed == {f \in first .. last + 1 : f = first \/ last + 2 - f >= MaxLen}

Publish ==
    /\ last < MaxEvents
    /\ last' = last + 1
    /\ first' \in Trimmed
    /\ lost' = lost \cup {id \in Ids : \/ (From <= id /\ id < first')
                                      \/ (id = last + 1 /\ group = "none")}
    /\ UNCHANGED <<group, delivered, acked, consumerVars, handled, failed>>

-----------------------------------------------------------------------------
(* startConsumer *)

FaultyStartId == 0                                      \* '0': the whole stream again
StartId == IF group = "exists" THEN delivered ELSE last

\* ensureGroup: a new group starts at '$'; BUSYGROUP means it is there.
EnsureGroup(c) ==
    /\ pc[c] = "starting"
    /\ group' = "exists"
    /\ delivered' = StartId
    /\ Goto(c, "reading")
    /\ UNCHANGED <<first, last, acked, next, upto, handled, fates>>

FaultyTo == From + Count - 1                            \* past the end of the stream
To == IF From + Count - 1 <= last THEN From + Count - 1 ELSE last

\* XREADGROUP '>': entries no consumer of the group has been given.  A read of a
\* group that is gone fails (NOGROUP) and the loop reads again, for ever.
ReadNew(c) ==
    /\ pc[c] = "reading"
    /\ group = "exists"
    /\ From <= last
    /\ delivered' = To
    /\ \/ /\ next' = [next EXCEPT ![c] = From]
          /\ upto' = [upto EXCEPT ![c] = To]
          /\ Goto(c, "handling")
          /\ UNCHANGED lost
       \/ /\ "reply_lost" \in Faults
          /\ lost' = lost \cup (From .. To)
          /\ UNCHANGED consumerVars
    /\ UNCHANGED <<first, last, group, acked, handled, failed>>

FaultyMore(c) == next[c] + 1 < upto[c]                  \* leaves the last entry out
More(c) == next[c] < upto[c]

\* On to the next entry of the batch, or to the next read.
Proceed(c) ==
    /\ next' = [next EXCEPT ![c] = @ + 1]
    /\ Goto(c, IF More(c) THEN "handling" ELSE "reading")
    /\ UNCHANGED upto

HandledThen(c) == Goto(c, "acking") /\ handled' = [handled EXCEPT ![next[c]] = @ + 1]

\* await handler(...); an entry whose handler throws is left unacknowledged.
HandleEvent(c) ==
    /\ pc[c] = "handling"
    /\ \/ HandledThen(c) /\ UNCHANGED <<next, upto, failed>>
       \/ /\ "handler_error" \in Faults
          /\ Proceed(c)
          /\ failed' = failed \cup {next[c]}
          /\ UNCHANGED handled
    /\ UNCHANGED <<streamVars, lost>>

Ack(c) ==
    /\ pc[c] = "acking"
    /\ acked' = acked \cup {next[c]}
    /\ Proceed(c)
    /\ UNCHANGED <<first, last, group, delivered, handled, fates>>

\* The consumer is not stopped on shutdown; a restarted one reads only '>'.
StopConsumer(c) ==
    /\ "stop" \in Faults
    /\ pc[c] # "starting"
    /\ Goto(c, "starting")
    /\ next' = [next EXCEPT ![c] = 1]
    /\ upto' = [upto EXCEPT ![c] = 0]
    /\ lost' = lost \cup {id \in Ids : InHand(c, id)}
    /\ UNCHANGED <<streamVars, handled, failed>>

\* The stream and its group are gone; later entries get later ids.
LoseData ==
    /\ "data_loss" \in Faults
    /\ group = "exists" \/ first <= last
    /\ first' = last + 1
    /\ group' = "none"
    /\ lost' = lost \cup {id \in Ids : From <= id /\ id <= last}
    /\ UNCHANGED <<last, delivered, acked, consumerVars, handled, failed>>

ConsumerStep(c) == EnsureGroup(c) \/ ReadNew(c) \/ HandleEvent(c) \/ Ack(c)

Next ==
    \/ Publish
    \/ \E c \in Consumers : ConsumerStep(c) \/ StopConsumer(c)
    \/ LoseData

Spec == Init /\ [][Next]_vars

\* The loop of a consumer runs as long as its process does.
FairSpec == Spec /\ \A c \in Consumers : WF_vars(ConsumerStep(c))

-----------------------------------------------------------------------------
(* Properties *)

\* No event is handled twice: the group gives an entry to one consumer, once, also
\* when consumers restart, batches interleave and Redis loses the group.
HandledAtMostOnce == \A id \in Ids : handled[id] <= 1

\* Why: batches are disjoint, and behind the group's position.
BatchesDisjoint ==
    \A id \in Ids :
        /\ \A c, d \in Consumers : InHand(c, id) /\ InHand(d, id) => c = d
        /\ \A c \in Consumers : InHand(c, id) => handled[id] = 0 /\ id < From
        /\ handled[id] > 0 => id < From

\* Positions stay inside the stream, and a busy consumer has an entry in hand.
PositionsInRange ==
    /\ first <= last + 1 /\ delivered <= last
    /\ \A c \in Consumers : /\ next[c] > 0 /\ upto[c] <= last
                            /\ pc[c] \in {"handling", "acking"} => next[c] <= upto[c]

\* Only handled entries are acknowledged (eventStream.js:56), whatever batches a
\* consumer is stopped in and whatever the stream has become meanwhile.
AckedMeansHandled ==
    /\ \A id \in acked : handled[id] > 0
    /\ \A c \in Consumers : pc[c] = "acking" => handled[next[c]] > 0

\* All of it together is inductive (EventStreamProofs).
StreamInv ==
    TypeOK /\ PositionsInRange /\ BatchesDisjoint /\ HandledAtMostOnce /\ AckedMeansHandled

-----------------------------------------------------------------------------
(* What the stream promises: EventDelivery *)

FateOf(id) ==
    IF id > last THEN "unpublished"
    ELSE IF handled[id] > 0 THEN "handled"
    ELSE IF id \in failed THEN "failed"
    ELSE IF id \in lost THEN "lost"
    ELSE "due"

FateMap == [id \in Ids |-> FateOf(id)]

Delivery == INSTANCE EventDelivery WITH Events <- Ids, fate <- FateMap, times <- handled

ConsumersStayUp == <>[](\A c \in Consumers : pc[c] # "starting")

\* The stream implements EventDelivery: no event is handled after it was handled, failed
\* or lost, and if consumers are up for good from some time on, every event settles: a
\* fault costs the events it strikes, and no other (eventStream.js:7-9).
KeepsDelivery == Delivery!Spec /\ (ConsumersStayUp => Delivery!EveryEventSettles)

\* An event whose handler threw is given to a consumer again (eventStream.js:93,
\* "Leave unacked so it's redelivered").
FailedIsRedelivered ==
    ConsumersStayUp =>
        \A id \in Ids : (id \in failed) ~> (\E c \in Consumers : InHand(c, id))
=============================================================================
