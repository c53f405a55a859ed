----------------------------- MODULE SQSEntries -----------------------------
(***************************************************************************)
(* The contents of the events the SQS sender prepares: which of them it    *)
(* may turn into an entry, by the rules of SQS, the ids the entries of a   *)
(* request carry, and how many of them a request takes.                    *)
(***************************************************************************)
EXTENDS SQSSender, SQSOptions

CONSTANTS
    Contents,    \* payloads and options of events
    Values,      \* values of the id column
    Calls        \* sizes of the events of a standard queue in a call

Strings == {"", "ok", "number", "control", "encoded"}
Forms == Missing \cup NotString \cup Strings

Attributes ==
    [object : BOOLEAN, name : {"ok", "reserved"},
     DataType : Missing \cup NotString \cup {"", "String", "String.long", "Number", "Binary", "Date"},
     StringValue : Forms \ {"encoded"}, BinaryValue : Forms,
     StringListValues : Forms, BinaryListValues : Forms]

\* The entries are those of the attributes object.
Sections ==
    {o \in [messageGroupId : Forms \ {"encoded"}, messageDeduplicationId : Forms \ {"encoded"},
            attributes : Forms, entries : SUBSET Attributes,
            delaySeconds : Forms \cup {"fraction", "integer"}, delay : Int,
            messageSystemAttributes : Forms \cup {"empty", "trace", "other"},
            AWSTraceHeader : Forms \ {"encoded"}] :
        IsFiniteSet(o.entries) /\ (o.attributes # "object" => o.entries = {})}

ASSUME EntriesAssumption ==
    /\ MaxSize \in Nat /\ MaxAttributes \in Nat /\ MaxDelay \in Nat
    /\ Contents \subseteq [column : Forms, section : Forms, options : Sections,
                           body : {"", "text", "control"}, size : Nat]
    /\ Calls \subseteq Seq(1..MaxBytes)

\* Ids of the id column, and where their text fits.
Ids == [value : Values, fits : {"both", "dedup", "none"}]

-----------------------------------------------------------------------------
\* specs/requirements.md, options validation and P3 to P6: what SQS can accept and,
\* strictly, does: it limits a type name (sqsMaxAttributeTypeChars), reads a Number
\* and checks the trace header, three rules the sender leaves to it.
SendableAttribute(a, strictly) ==
    /\ a.object /\ a.name = "ok" /\ a.StringListValues = "absent" /\ a.BinaryListValues = "absent"
    /\ \/ /\ a.DataType \in {"String", "String.long", "Number"}
          /\ a.StringValue \in {"ok", "number"} /\ a.BinaryValue \in Missing
       \/ a.DataType = "Binary" /\ a.BinaryValue = "encoded" /\ a.StringValue \in Missing
    /\ strictly => a.DataType # "String.long" /\ (a.DataType = "Number" => a.StringValue = "number")

SendableOptions(o, strictly) ==
    /\ {o.messageGroupId, o.messageDeduplicationId} \subseteq Missing \cup {"", "ok", "number"}
    /\ o.delaySeconds \in Missing \cup {"integer"}
    /\ o.delaySeconds = "integer" => o.delay \in 0..MaxDelay
    /\ o.messageSystemAttributes \in Missing \cup {"empty", "trace"}
    /\ o.messageSystemAttributes = "trace" =>
          o.AWSTraceHeader \in IF strictly THEN {"ok"} ELSE {"ok", "number", "control"}
    /\ o.attributes \in Missing \cup {"object"} /\ Cardinality(o.entries) <= MaxAttributes
    /\ \A a \in o.entries : SendableAttribute(a, strictly)

Sendable(ev, strictly) ==
    /\ ev.column \in Missing \cup {"", "object"}
    /\ ev.column = "object" => ev.section \in Missing \cup {"object"}
    /\ ev.body = "text" /\ ev.size <= MaxSize
    /\ ev.column = "object" /\ ev.section = "object" => SendableOptions(ev.options, strictly)

\* eventOptions, prepareSQSEvent: an event SQS would take is never dead-lettered
\* for its content, and one that is sent breaks at most the three rules left to SQS.
\* An empty trace header is poison, as
\* requirements.md:617 and sqs_test.go have it; requirements.md:114 calls it absent.
\* (It does not depend on the state: the initial ones stand for all.)
PoisonIsUnsendable ==
    Init => \A ev \in Contents :
        /\ Sendable(ev, TRUE) => Prepared(ev)
        /\ Prepared(ev) => Sendable(ev, FALSE)

\* prepareSQSEvent: SQS answers by entry id and drops a repeated deduplication id,
\* so two events never share one, whatever their ids look like; nor, without
\* options, a FIFO group, which would put one's failure in the other's way.
IdsTellEventsApart ==
    Init => \A x, y \in Ids, isFIFO \in BOOLEAN :
        LET ex == entry(NoOptions, x, isFIFO)
            ey == entry(NoOptions, y, isFIFO)
        IN  x.value # y.value =>
                /\ ex.ID # ey.ID
                /\ isFIFO => ex.DeduplicationID # ey.DeduplicationID /\ ex.MessageGroupID # ey.MessageGroupID

\* The events of a call are numbered.
Cut(sizes) == chunkSQSStandardEvents([i \in DOMAIN sizes |-> i], sizes)

Bytes(chunk, size) ==
    LET total[n \in 0..Len(chunk)] == IF n = 0 THEN 0 ELSE total[n - 1] + size[chunk[n]]
    IN  total[Len(chunk)]

\* chunkSQSStandardEvents: SQS takes at most MaxEntries entries and MaxBytes bytes
\* per request and refuses an empty one.  The chunks keep to that, and together
\* they are the events, each once and in order.
ChunksFitRequest ==
    Init => \A sizes \in Calls :
        /\ FlattenSeq(Cut(sizes)) = [i \in DOMAIN sizes |-> i]
        /\ \A chunk \in Range(Cut(sizes)) :
              /\ Len(chunk) \in 1..MaxEntries
              /\ Bytes(chunk, sizes) <= MaxBytes
=============================================================================
