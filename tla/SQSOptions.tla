----------------------------- MODULE SQSOptions -----------------------------
(***************************************************************************)
(* What the SQS sender makes of one event's payload and options: events.go *)
(* parses the options column, options.go and prepareSQSEvent turn the sqs  *)
(* section into a batch entry or reject the event.                         *)
(*                                                                         *)
(* A JSON value is "absent", "null", "object", "scalar" (of a type the     *)
(* reader does not expect), "" (the empty string) or a string: "ok",       *)
(* "number" (a decimal number), "control" (characters SQS refuses) or      *)
(* "encoded" (base64, not empty).  The data type "String.long" is a custom *)
(* one whose name is longer than SQS allows.                               *)
(***************************************************************************)
EXTENDS Integers, FiniteSets

CONSTANTS
    MaxSize,         \* sqsEventMaxSizeByte
    MaxAttributes,   \* sqsMaxAttributes
    MaxDelay         \* sqsMaxDelaySeconds

Missing == {"absent", "null"}
NotString == {"object", "scalar"}

NoOptions ==
    [messageGroupId |-> "absent", messageDeduplicationId |-> "absent", attributes |-> "absent",
     entries |-> {}, delaySeconds |-> "absent", delay |-> 0,
     messageSystemAttributes |-> "absent", AWSTraceHeader |-> "absent"]

\* optionsRoot, parseOptionsJSON, eventOptions: the column holds nothing, text that
\* is not JSON, JSON that is no object, or an object, whose section for the event's
\* target is then read (the other sections are not looked at).
eventOptions(column, section) ==
    CASE column \in Missing \cup {""}                       -> "none"
      [] column = "object" /\ section \in Missing           -> "none"
      [] column = "object" /\ section = "object"            -> "section"
      [] OTHER                                              -> "malformed"

\* Options.String.
StringOption(value) == IF value \in Missing THEN "" ELSE value

\* sqsMessageAttributeValue: whether it refuses an attribute as malformed.
MalformedAttribute(a) ==
    \/ ~a.object
    \/ a.DataType \in Missing \cup NotString \cup {""}
    \/ a.StringValue \in NotString
    \/ a.BinaryValue \notin Missing \cup {"", "encoded"}
    \/ a.StringListValues # "absent" \/ a.BinaryListValues # "absent"

\* validSQSAttributes, validSQSAttributeDataType, of an attribute that is not
\* malformed: neither the length of a type name nor the digits of a Number count.
ValidAttribute(a) ==
    /\ a.name = "ok"
    /\ a.DataType \in {"String", "String.long", "Number", "Binary"}
    /\ IF a.DataType = "Binary"
       THEN a.BinaryValue \notin Missing /\ a.StringValue \in Missing
       ELSE /\ a.StringValue \notin Missing /\ a.BinaryValue \in Missing
            /\ a.StringValue # "" /\ a.StringValue # "control"
    /\ a.BinaryValue # ""

\* parseSQSCandidate, sqsAttributes, sqsDelaySeconds, sqsAWSTraceHeader: options of
\* the section the sender cannot read.  System attributes are an object that is
\* empty, has the trace header alone, or anything else.
Unreadable(o) ==
    \/ o.messageGroupId \in NotString
    \/ o.attributes \notin Missing \cup {"object"}
    \/ o.attributes = "object" /\ \E a \in o.entries : MalformedAttribute(a)
    \/ o.messageDeduplicationId \in NotString
    \/ o.delaySeconds \notin Missing \cup {"integer"}
    \/ o.messageSystemAttributes \notin Missing \cup {"empty", "trace"}
    \/ o.messageSystemAttributes = "trace" /\ o.AWSTraceHeader \in Missing \cup NotString \cup {""}

\* Mutant: the last second is refused.
PoisonAtLimit(o, body, size) ==
    \/ body \in {"", "control"} \/ size > MaxSize
    \/ Cardinality(o.entries) > MaxAttributes \/ \E a \in o.entries : ~ValidAttribute(a)
    \/ StringOption(o.messageGroupId) = "control"
    \/ StringOption(o.messageDeduplicationId) = "control"
    \/ o.delaySeconds = "integer" /\ ~(0 <= o.delay /\ o.delay < MaxDelay)

isSQSPoison(o, body, size) ==
    \/ body \in {"", "control"} \/ size > MaxSize
    \/ Cardinality(o.entries) > MaxAttributes \/ \E a \in o.entries : ~ValidAttribute(a)
    \/ StringOption(o.messageGroupId) = "control"
    \/ StringOption(o.messageDeduplicationId) = "control"
    \/ o.delaySeconds = "integer" /\ ~(0 <= o.delay /\ o.delay <= MaxDelay)

\* withParsedOptions, prepareSQSEvent: whether the event gets an entry.
Prepared(ev) ==
    LET parsed == eventOptions(ev.column, ev.section)
    IN  CASE parsed = "malformed" -> FALSE
          [] parsed = "none"      -> ~isSQSPoison(NoOptions, ev.body, ev.size)
          [] OTHER                -> ~Unreadable(ev.options) /\ ~isSQSPoison(ev.options, ev.body, ev.size)
-----------------------------------------------------------------------------
(* Identifiers.  An event id fits an entry id, fits only a deduplication   *)
(* id, or fits neither; its digest fits both.                              *)

Fits(id, where) == id.fits \in {"both", where}

Digest(id) == <<"digest", id.value>>
Raw(id) == <<"raw", id.value>>

\* Mutant: an id that is too long is cut.
CutID(id, where) == <<"raw", IF Fits(id, where) THEN id.value ELSE "cut">>

providerSafeID(id, where) == IF Fits(id, where) THEN Raw(id) ELSE Digest(id)

\* prepareSQSEvent's entry; "" is a field that is not sent.
entry(o, id, isFIFO) ==
    LET group == StringOption(o.messageGroupId)
        dedup == StringOption(o.messageDeduplicationId)
    IN  [ID |-> providerSafeID(id, "entry"),
         MessageGroupID |-> IF isFIFO /\ group = "" THEN Digest(id) ELSE <<"given", group>>,
         DeduplicationID |-> IF ~isFIFO THEN <<"given", "">>
                             ELSE IF dedup # "" THEN <<"given", dedup>> ELSE providerSafeID(id, "dedup"),
         Delayed |-> ~isFIFO /\ o.delaySeconds = "integer"]
=============================================================================
