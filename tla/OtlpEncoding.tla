---------------------------- MODULE OtlpEncoding ----------------------------
(* The two encodings of an OTLP export request.  A byte is a number below    *)
(* 2 * Group, its high bit a varint's continuation (Group is 0x80 in the     *)
(* code); a text or an id is the sequence of its bytes; an attribute's value *)
(* is [type, bytes, number].  A behaviour encodes one batch of spans, a call *)
(* of the protobuf writer to a step.                                         *)
EXTENDS Integers, Sequences, SequencesExt

CONSTANTS Batches,                       \* [resource, scope, spans]
          Group, LENGTH_PREFIX_RESERVE,
          InitialCapacity,               \* of the writer's buffer
          FixedBytes                     \* bytes of a 64-bit field

VARIABLES encoded,     \* the batch
          writer,       \* the ProtoWriter
          writerCalls         \* what encodeOtlpProtobuf is still to call of it
encodingVars == <<encoded, writer, writerCalls>>
Word == (2 * Group) ^ FixedBytes         \* 2^64
Unwritten == -1                          \* a byte of Buffer.allocUnsafe nobody wrote

-----------------------------------------------------------------------------
(* OTLP's JSON: a record of the fields that are there.                       *)
jsonAnyValue(v) ==
  CASE v.type = "string" -> [stringValue |-> v.bytes]
    [] v.type = "boolean" -> [boolValue |-> v.number = 1]
    [] v.type = "integer" -> [intValue |-> v.number]
    [] OTHER -> [doubleValue |-> v.bytes]
jsonKeyValue(a) == [key |-> a.key, value |-> jsonAnyValue(a.value)]
mapSeq(seq, Of(_)) == [i \in DOMAIN seq |-> Of(seq[i])]
jsonEvent(e) ==
  [timeUnixNano |-> e.timeUnixNano, name |-> e.name, attributes |-> mapSeq(e.attributes, jsonKeyValue)]
optional(present, name, value) == IF present THEN [n \in {name} |-> value] ELSE [n \in {} |-> value]
with(f, g) == [n \in DOMAIN f \cup DOMAIN g |-> IF n \in DOMAIN g THEN g[n] ELSE f[n]]
jsonSpan(span) ==
  LET always == [traceId |-> span.traceId, spanId |-> span.spanId, name |-> span.name, kind |-> span.kind,
                 startTimeUnixNano |-> span.startTimeUnixNano, endTimeUnixNano |-> span.endTimeUnixNano,
                 attributes |-> mapSeq(span.attributes, jsonKeyValue), flags |-> span.flags]
  IN FoldLeft(with, always,
       <<optional(span.parentSpanId # <<>>, "parentSpanId", span.parentSpanId),
         optional(span.traceState # <<>>, "traceState", span.traceState),
         optional(span.droppedAttributesCount > 0, "droppedAttributesCount", span.droppedAttributesCount),
         optional(span.events # <<>>, "events", mapSeq(span.events, jsonEvent)),
         optional(span.status.code # 0, "status", span.status)>>)   \* code 0: no status
encodeOtlpJson(batch) ==
  [resource |-> mapSeq(batch.resource, jsonKeyValue), scope |-> batch.scope, spans |-> mapSeq(batch.spans, jsonSpan)]

-----------------------------------------------------------------------------
(* ProtoWriter.  position is Len(bytes); what is written past the capacity   *)
(* is lost.                                                                  *)
ProtoWriter == [bytes |-> <<>>, capacity |-> InitialCapacity, openMessages |-> <<>>]

reserve_once(w, n) == IF Len(w.bytes) + n <= w.capacity THEN w ELSE [w EXCEPT !.capacity = @ * 2]
RECURSIVE doubled(_, _)
doubled(size, needed) == IF size < needed THEN doubled(size * 2, needed) ELSE size
reserve(w, n) ==
  LET needed == Len(w.bytes) + n
  IN IF needed <= w.capacity THEN w ELSE [w EXCEPT !.capacity = doubled(@ * 2, needed)]
put(w, bytes) ==
  [w EXCEPT !.bytes = @ \o [i \in DOMAIN bytes |-> IF Len(w.bytes) + i <= w.capacity THEN bytes[i] ELSE Unwritten]]

RECURSIVE varintBytes(_)
varintBytes(value) ==
  IF value >= Group THEN <<(value % Group) + Group>> \o varintBytes(value \div Group) ELSE <<value>>
fixedBytes(value, n) == [i \in 1..n |-> (value \div (2 * Group) ^ (i - 1)) % (2 * Group)]

varint(w, value) == put(reserve(w, 2 * FixedBytes), varintBytes(value))
int64(value) == IF value < 0 THEN Word + value ELSE value
fixed(w, value, n) == put(reserve(w, n), fixedBytes(value % Word, n))        \* fixed64, fixed32
string(w, bytes) == put(reserve(varint(w, Len(bytes)), Len(bytes)), bytes)   \* and hexBytes
double(w, bits) == put(reserve(w, FixedBytes), bits)
beginMessage(w, field) ==
  LET at == reserve(varint(w, field * 8 + 2), LENGTH_PREFIX_RESERVE)
  IN [at EXCEPT !.openMessages = Append(@, Len(at.bytes)),
                !.bytes = @ \o [i \in 1..LENGTH_PREFIX_RESERVE |-> Unwritten]]
(* The varint goes over the reservation, the rest of which is closed up.     *)
endMessage(w) ==
  LET prefixAt == Last(w.openMessages)
      content == SubSeq(w.bytes, prefixAt + LENGTH_PREFIX_RESERVE + 1, Len(w.bytes))
  IN [w EXCEPT !.openMessages = Front(@),
               !.bytes = SubSeq(@, 1, prefixAt) \o varintBytes(Len(content)) \o content]

perform(w, c) ==
  CASE c.do = "varint" -> varint(w, c.number)
    [] c.do = "fixed64" -> fixed(w, c.number, FixedBytes)
    [] c.do = "fixed32" -> fixed(w, c.number, 1)
    [] c.do = "string" -> string(w, c.bytes)
    [] c.do = "double" -> double(w, c.bytes)
    [] c.do = "beginMessage" -> beginMessage(w, c.number)
    [] c.do = "endMessage" -> endMessage(w)

(* The calls of the writer.                                                  *)
Doing(do, number, bytes) == [do |-> do, number |-> number, bytes |-> bytes]
key(field, wireType) == Doing("varint", field * 8 + wireType, <<>>)
numeric(field, wireType, do, n) == <<key(field, wireType), Doing(do, n, <<>>)>>
text(field, bytes) == <<key(field, 2), Doing("string", 0, bytes)>>
unlessEmpty(field, bytes) == IF bytes = <<>> THEN <<>> ELSE text(field, bytes)
message(field, content) == <<Doing("beginMessage", field, <<>>)>> \o content \o <<Doing("endMessage", 0, <<>>)>>
each(seq, Of(_)) == FlattenSeq(mapSeq(seq, Of))

writeAnyValue(v) ==
  CASE v.type = "string" -> text(1, v.bytes)
    [] v.type = "boolean" -> numeric(2, 0, "varint", v.number)
    [] v.type = "integer" -> numeric(3, 0, "varint", int64(v.number))
    [] OTHER -> <<key(4, 1), Doing("double", 0, v.bytes)>>
writeKeyValues(field, attributes) ==
  each(attributes, LAMBDA a : message(field, text(1, a.key) \o message(2, writeAnyValue(a.value))))
writeEvent(e) ==
  message(11, numeric(1, 1, "fixed64", e.timeUnixNano) \o text(2, e.name) \o writeKeyValues(3, e.attributes))
writeStatus(status) ==
  IF status.code = 0 THEN <<>>
  ELSE message(15, unlessEmpty(2, status.message) \o numeric(3, 0, "varint", status.code))
writeSpan(span) ==
  text(1, span.traceId) \o text(2, span.spanId)
  \o unlessEmpty(3, span.traceState) \o unlessEmpty(4, span.parentSpanId) \o unlessEmpty(5, span.name)
  \o numeric(6, 0, "varint", span.kind)
  \o numeric(7, 1, "fixed64", span.startTimeUnixNano) \o numeric(8, 1, "fixed64", span.endTimeUnixNano)
  \o writeKeyValues(9, span.attributes)
  \o (IF span.droppedAttributesCount > 0 THEN numeric(10, 0, "varint", span.droppedAttributesCount) ELSE <<>>)
  \o each(span.events, writeEvent) \o writeStatus(span.status)
  \o (IF span.flags # 0 THEN numeric(16, 5, "fixed32", span.flags) ELSE <<>>)
encodeOtlpProtobuf(batch) ==
  message(1, message(1, writeKeyValues(1, batch.resource))
             \o message(2, message(1, text(1, batch.scope.name) \o text(2, batch.scope.version))
                           \o each(batch.spans, LAMBDA span : message(2, writeSpan(span)))))

-----------------------------------------------------------------------------
(* A reader of protobuf and of trace_service.proto (external).  A field is   *)
(* [field, number, bytes]; what cannot be read is a field 0.                 *)
RECURSIVE VarintEnd(_, _)
VarintEnd(bytes, i) == IF i > Len(bytes) \/ bytes[i] < Group THEN i ELSE VarintEnd(bytes, i + 1)
Value(bytes, from, to, base) ==
  FoldRight(LAMBDA b, n : (b % base) + base * n, SubSeq(bytes, from, to), 0)
Unreadable(bytes) == <<[field |-> 0, number |-> 0, bytes |-> bytes]>>
Payload(wire, bytes) ==
  CASE wire = 0 -> Value(bytes, 1, Len(bytes), Group) [] wire = 2 -> 0 [] OTHER -> Value(bytes, 1, Len(bytes), 2 * Group)
LastOf(bytes, wire, keyEnd, end) ==   \* where the field's payload ends
  CASE wire = 1 -> keyEnd + FixedBytes
    [] wire = 5 -> keyEnd + 1
    [] wire = 2 /\ end <= Len(bytes) -> end + Value(bytes, keyEnd + 1, end, Group)
    [] OTHER -> end
FieldOf(tag, payload) == [field |-> tag \div 8, bytes |-> payload, number |-> Payload(tag % 8, payload)]
RECURSIVE Fields(_)
FieldAndRest(bytes, tag, first, last) ==
  IF tag % 8 \notin {0, 1, 2, 5} \/ last > Len(bytes) THEN Unreadable(bytes)
  ELSE <<FieldOf(tag, SubSeq(bytes, first, last))>> \o Fields(SubSeq(bytes, last + 1, Len(bytes)))
FieldsBehind(bytes, tag, keyEnd, end) ==
  FieldAndRest(bytes, tag, 1 + (IF tag % 8 = 2 THEN end ELSE keyEnd), LastOf(bytes, tag % 8, keyEnd, end))
FieldsOf(bytes, keyEnd) ==
  IF keyEnd >= Len(bytes) THEN Unreadable(bytes)
  ELSE FieldsBehind(bytes, Value(bytes, 1, keyEnd, Group), keyEnd, VarintEnd(bytes, keyEnd + 1))
Fields(bytes) == IF bytes = <<>> THEN <<>> ELSE FieldsOf(bytes, VarintEnd(bytes, 1))

Each(fields, n) == SelectSeq(fields, LAMBDA f : f.field = n)
LastIn(fields) == IF fields = <<>> THEN [bytes |-> <<>>, number |-> 0, field |-> 0] ELSE Last(fields)
Bytes(fields, n) == LastIn(Each(fields, n)).bytes
Number(fields, n) == LastIn(Each(fields, n)).number
Messages(fields, n, Read(_)) == mapSeq(Each(fields, n), LAMBDA f : Read(Fields(f.bytes)))
Signed(n) == IF 2 * n >= Word THEN n - Word ELSE n
ReadAnyValue(any) ==
  CASE any.field = 1 -> [stringValue |-> any.bytes]
    [] any.field = 2 -> [boolValue |-> any.number = 1]
    [] any.field = 3 -> [intValue |-> Signed(any.number)]
    [] OTHER -> [doubleValue |-> IF any.field = 4 THEN any.bytes ELSE <<>>]
ReadKeyValue(fields) == [key |-> Bytes(fields, 1), value |-> ReadAnyValue(LastIn(Fields(Bytes(fields, 2))))]
ReadEvent(fields) ==
  [timeUnixNano |-> Number(fields, 1), name |-> Bytes(fields, 2), attributes |-> Messages(fields, 3, ReadKeyValue)]
ReadStatus(fields) == [code |-> Number(fields, 3), message |-> Bytes(fields, 2)]
ReadSpan(fields) ==
  [traceId |-> Bytes(fields, 1), spanId |-> Bytes(fields, 2), traceState |-> Bytes(fields, 3),
   parentSpanId |-> Bytes(fields, 4), name |-> Bytes(fields, 5), kind |-> Number(fields, 6),
   startTimeUnixNano |-> Number(fields, 7), endTimeUnixNano |-> Number(fields, 8),
   attributes |-> Messages(fields, 9, ReadKeyValue), droppedAttributesCount |-> Number(fields, 10),
   events |-> Messages(fields, 11, ReadEvent), status |-> ReadStatus(Fields(Bytes(fields, 15))),
   flags |-> Number(fields, 16)]
ReadScope(fields) == [name |-> Bytes(fields, 1), version |-> Bytes(fields, 2)]
ReadRequest(resourceSpans, scopeSpans) ==
  [resource |-> Messages(Fields(Bytes(resourceSpans, 1)), 1, ReadKeyValue),
   scope |-> ReadScope(Fields(Bytes(scopeSpans, 1))), spans |-> Messages(scopeSpans, 2, ReadSpan)]
ReadResourceSpans(fields) == ReadRequest(fields, Fields(Bytes(fields, 2)))
ReadProtobuf(bytes) == ReadResourceSpans(Fields(Bytes(Fields(bytes), 1)))
ReadJson(json) ==
  LET defaults == [parentSpanId |-> <<>>, traceState |-> <<>>, droppedAttributesCount |-> 0, events |-> <<>>,
                   status |-> [code |-> 0, message |-> <<>>]]
  IN [json EXCEPT !.spans = mapSeq(@, LAMBDA s : with(defaults, s))]

EncodingInit == encoded \in Batches /\ writer = ProtoWriter /\ writerCalls = encodeOtlpProtobuf(encoded)
writes ==
  /\ writerCalls # <<>>
  /\ writer' = perform(writer, Head(writerCalls)) /\ writerCalls' = Tail(writerCalls)
  /\ UNCHANGED encoded
EncodingNext == writes
finish == writer.bytes

(* A collector reads the same request from either encoding: the ids, the     *)
(* names, the times, the status, every attribute under its type - a zero, a  *)
(* false and an empty text included - and the order of spans and events.     *)
EncodingsAgree == writerCalls = <<>> => ReadProtobuf(finish) = ReadJson(encodeOtlpJson(encoded))

(* Every byte that leaves was written: the buffer is not cleared when it is  *)
(* allocated or grown, so a gap would send what the process had there.       *)
EveryByteWritten == writerCalls = <<>> => Unwritten \notin Range(finish)

(* An export says the same in both encodings, and nothing but that           *)
(* (encodeOtlpProtobuf, encodeOtlpJson, ProtoWriter).                        *)
EncodedFaithfully == EncodingsAgree /\ EveryByteWritten
=============================================================================
