---------------------------- MODULE MCSQSSender -----------------------------
EXTENDS SQSEntries

CONSTANT MaxEvents    \* bound on the events the chunk properties cut

\* 1 and 2 go to a standard queue and share a request, 4 to 6 are a group of a
\* FIFO queue and 7 has a queue whose URL is broken.
Queues == [e \in Events |-> IF e < 4 THEN "standard" ELSE IF e < 7 THEN "fifo" ELSE "broken"]
Group == [e \in Events |-> IF e \in 4..6 THEN "group" ELSE NoGroup]
Sizes == [e \in Events |-> 1]

\* Every combination of sizes of the events of a call.
MCCalls == BoundedSeq(1..MaxBytes, MaxEvents)
-----------------------------------------------------------------------------
(* Contents: every form of one option among every form of the others, each *)
(* attribute alone and good ones together.                                 *)

MCAttributes ==
    [object : BOOLEAN, name : {"ok", "reserved"},
     DataType : {"absent", "scalar", "", "String", "String.long", "Number", "Binary", "Date"},
     StringValue : Missing \cup {"scalar", "", "ok", "number", "control"},
     BinaryValue : Missing \cup {"scalar", "", "ok", "encoded"},
     StringListValues : {"absent", "null"}, BinaryListValues : {"absent", "object"}]

Good(type) == {a \in MCAttributes : a.DataType = type /\ ~MalformedAttribute(a) /\ ValidAttribute(a)}

MCSections ==
    [messageGroupId : Missing \cup {"scalar", "", "ok", "control"},
     messageDeduplicationId : {"absent", "scalar", "", "ok", "control"},
     attributes : {"object"}, entries : SUBSET {CHOOSE a \in Good(t) : TRUE : t \in {"String", "Number", "Binary"}},
     delaySeconds : {"absent", "scalar", "fraction", "integer"}, delay : {-1, 0, MaxDelay, MaxDelay + 1},
     messageSystemAttributes : {"absent", "scalar", "empty", "trace", "other"},
     AWSTraceHeader : {"null", "scalar", "", "ok", "control"}]
    \cup {[NoOptions EXCEPT !.attributes = "object", !.entries = {a}] : a \in MCAttributes}
    \cup {[NoOptions EXCEPT !.attributes = v] : v \in Missing \cup {"scalar"}}

MCContents ==
    [column : {"object"}, section : {"object"}, options : MCSections, body : {"text"}, size : {1}]
    \cup [column : Missing \cup {"", "scalar", "object"}, section : Missing \cup {"scalar", "object"},
          options : {NoOptions}, body : {"", "text", "control"}, size : {MaxSize, MaxSize + 1}]
=============================================================================
