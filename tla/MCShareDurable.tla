--------------------------- MODULE MCShareDurable ---------------------------
EXTENDS ShareDurable

\* done is only ever added to and copied.
WithoutCounters ==
  <<leaderOf, view, [durable EXCEPT !.done = 0], [stored EXCEPT !.done = 0], crashes, failures,
    settled, handed,
    [b \in Broker |-> IF cells[b] = None THEN None ELSE [cells[b] EXCEPT !.done = 0]],
    [b \in Broker |-> IF loading[b] = None THEN None ELSE [loading[b] EXCEPT !.done = 0]]>>

\* A leadership that comes back takes a third epoch: in behaviours without a fault.
ThirdEpochUndisturbed == Len(leaderOf) = 3 => crashes + failures = 0

Ack(first, last, type) == [first |-> first, last |-> last, type |-> type]

\* A verdict on each record: the first is rejected, the others are accepted.
Single == {Ack(o, o, IF o = 0 THEN "Reject" ELSE "Accept") : o \in Offsets}

\* Fetches of all records.
All == {MaxOffset}

=============================================================================
