-------------------------- MODULE MCSharePartition --------------------------
EXTENDS SharePartition

Symmetry == Permutations(Member)

\* dirty decides only whether a write is attempted, which changes nothing but dirty.
WithoutDirty == <<[cell EXCEPT !.dirty = FALSE], log>>

Batch(first, last, types) == [first |-> first, last |-> last, types |-> types]

Acks(batches) == [acks |-> batches, renew |-> FALSE]
Renewal(first, last) == [acks |-> <<Batch(first, last, << >>)>>, renew |-> TRUE]
Fetch(req, max) == [acks |-> req.acks, renew |-> req.renew, max |-> max]

Ranges == {r \in Offsets \X Offsets : r[1] <= r[2]}

\* Every range with one type, the defaulted and the unknown type, an empty range, lists
\* that mix types or have the wrong length, two batches, and every renewal.
MCAckRequests ==
  {Acks(<<Batch(r[1], r[2], <<t>>)>>) : r \in Ranges, t \in {"Accept", "Release", "Reject"}}
  \cup {Renewal(r[1], r[2]) : r \in Ranges}
  \cup {Acks(<<Batch(0, 1, << >>)>>), Acks(<<Batch(0, 1, <<"Unknown">>)>>),
        Acks(<<Batch(1, 2, <<"Gap">>)>>), Acks(<<Batch(1, 0, <<"Accept">>)>>),
        Acks(<<Batch(0, 2, <<"Accept", "Release", "Accept">>)>>),
        Acks(<<Batch(0, 1, <<"Reject", "Unknown">>)>>),
        Acks(<<Batch(0, 1, <<"Accept", "Accept", "Accept">>)>>),
        Acks(<<Batch(1, 1, <<"Accept">>), Batch(0, 0, <<"Release">>)>>)}

\* A fetch of one record, or of all with nothing to say or with a verdict or a renewal.
MCFetchRequests ==
  {Fetch(Acks(<< >>), 1)} \cup
  {Fetch(req, MaxOffset) :
     req \in {Acks(<< >>), Acks(<<Batch(0, 0, <<"Accept">>)>>),
             Acks(<<Batch(0, 1, <<"Release">>)>>), Renewal(0, 0)}}

\* Fewer requests, where every behaviour is examined and not only every state.
LiveAckRequests == {Acks(<<Batch(0, 0, <<"Accept">>)>>), Renewal(0, 1)}
LiveFetchRequests == {Fetch(Acks(<< >>), max) : max \in {1, MaxOffset}}

=============================================================================
