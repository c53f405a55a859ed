----------------------------- MODULE SQSChunks ------------------------------
(***************************************************************************)
(* chunkSQSStandardEvents of sqs/sender.go: how the events of a standard   *)
(* queue are cut into SendMessageBatch requests.                           *)
(***************************************************************************)
EXTENDS Naturals, Sequences, SequencesExt

CONSTANTS
    MaxEntries,    \* sqsEventBatchSize
    MaxBytes       \* sqsEventMaxSizeByte, in units of the model

ASSUME ChunksAssumption == MaxEntries \in Nat \ {0} /\ MaxBytes \in Nat \ {0}

\* Mutant: the size test forgets the event at hand.
FullBefore(loop, size) ==
    Len(loop.current) > 0 /\ (Len(loop.current) >= MaxEntries \/ loop.bytes > MaxBytes)

\* The current chunk cannot take an event of this size.
Full(loop, size) ==
    Len(loop.current) > 0 /\ (Len(loop.current) >= MaxEntries \/ loop.bytes + size > MaxBytes)

\* One turn of the loop: e, of this size, opens a new chunk or joins the current one.
Take(loop, e, size) ==
    IF Full(loop, size)
    THEN [chunks |-> Append(loop.chunks, loop.current), current |-> <<e>>, bytes |-> size]
    ELSE [loop EXCEPT !.current = Append(@, e), !.bytes = @ + size]

\* The requests made of a sequence of events with these sizes, the one being
\* filled when the loop ends included.
chunkSQSStandardEvents(events, size) ==
    LET loop[n \in 0..Len(events)] ==
            IF n = 0 THEN [chunks |-> <<>>, current |-> <<>>, bytes |-> 0]
            ELSE Take(loop[n - 1], events[n], size[events[n]])
        end == loop[Len(events)]
    IN  IF end.current = <<>> THEN end.chunks ELSE Append(end.chunks, end.current)
=============================================================================
