\* Two consumers, batches of two, trimming and every fault.
SPECIFICATION FairSpec
CONSTANTS
    c1 = c1
    c2 = c2
    Consumers = {c1, c2}
    MaxEvents = 4
    Count = 2
    MaxLen = 2
    Faults = {"stop", "handler_error", "reply_lost", "data_loss"}
INVARIANTS StreamInv HandledAtMostOnce
PROPERTIES KeepsDelivery
\* MaxEvents events are published and handled, then nothing is left to do.
