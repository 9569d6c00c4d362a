--------------------------- MODULE LogForwarding ---------------------------
(* StdoutForwarderService (services/stdout-forwarder.service.ts): the writes *)
(* to stdout and stderr, cut into lines and filed under an operation. The    *)
(* trace id LoggerPatcherService puts at the end of a logged line is what    *)
(* parseLogLine reads back. Text is a sequence of cells <<n, id>>: the n-th  *)
(* piece of text written, carrying the trace id of a logged line or "none";  *)
(* n = 0 is a newline.                                                       *)
EXTENDS Integers, Sequences, SequencesExt

CONSTANTS MAX_PARTIAL_LINE_LENGTH,
          Traces,        \* the operations whose async context a write may run in
          MaxCells       \* bound: cells written in a behaviour

VARIABLES
  patched,       \* originalWrites # null
  partialLines,  \* stream -> the tail without its newline
  pushed,        \* the entries handed to the shared buffer
  written,       \* history: stream -> everything written while patched
  cells
forwardVars == <<patched, partialLines, pushed, written, cells>>

FORWARDED_STREAMS == {"stdout", "stderr"}
Newline == <<0, "none">>
None == "none"

ForwardInit ==
  /\ patched = FALSE /\ partialLines = [s \in FORWARDED_STREAMS |-> <<>>] /\ pushed = <<>>
  /\ written = [s \in FORWARDED_STREAMS |-> <<>>] /\ cells = 0

-----------------------------------------------------------------------------
(* split("\n"): the lines that are complete, and the rest.                   *)
linesOf(text) ==
  LET ends == SetToSortSeq({i \in 1..Len(text) : text[i] = Newline}, <)
  IN [k \in 1..Len(ends) |-> SubSeq(text, IF k = 1 THEN 1 ELSE ends[k - 1] + 1, ends[k] - 1)]
restOf(text) ==
  LET ends == {i \in 1..Len(text) : text[i] = Newline}
  IN SubSeq(text, IF ends = {} THEN 1 ELSE Max(ends) + 1, Len(text))
blank(line) == line = <<>>

(* toLogEntry: the line's own trace id wins over the store's when it is      *)
(* shaped like one; the span is the store's, and only in the store's trace.  *)
(* Only a line that begins as the logger wrote it is read as one.            *)
ownTraceId(line) == IF Len(line) = 1 /\ line[1][2] \in Traces THEN line[1][2] ELSE None
toLogEntry(line, s, store) ==
  LET traceId == IF ownTraceId(line) # None THEN ownTraceId(line) ELSE store
  IN [stream |-> s, text |-> line, traceId |-> traceId,
      span |-> IF traceId = store THEN store ELSE None]

entriesOf(lines, s, store) ==
  LET kept == SelectSeq(lines, LAMBDA l : ~blank(l))
  IN [i \in 1..Len(kept) |-> toLogEntry(kept[i], s, store)]

(* consume: whole lines are pushed, the tail is kept, and pushed as it is    *)
(* once it is too long (flushPartial).                                       *)
consume_perWrite(chunk, s, store) ==
  /\ pushed' = pushed \o entriesOf(Append(linesOf(partialLines[s] \o chunk), restOf(partialLines[s] \o chunk)), s, store)
  /\ partialLines' = [partialLines EXCEPT ![s] = <<>>]
consume(chunk, s, store) ==
  LET text == partialLines[s] \o chunk
      long == Len(restOf(text)) > MAX_PARTIAL_LINE_LENGTH
      lines == IF long THEN Append(linesOf(text), restOf(text)) ELSE linesOf(text)
  IN /\ pushed' = pushed \o entriesOf(lines, s, store)
     /\ partialLines' = [partialLines EXCEPT ![s] = IF long THEN <<>> ELSE restOf(text)]

(* The patched write, which consumes strings only; a chunk is some text, a   *)
(* newline, both in either order, or a logged line.                          *)
Chunks ==
  LET text(i) == <<cells + i, None>>
  IN {<<text(1)>>, <<Newline>>, <<text(1), Newline>>, <<Newline, text(1)>>,
      <<text(1), Newline, text(2)>>}
     \cup {<<<<cells + 1, id>>, Newline>> : id \in Traces \cup {"forged"}}
write(s, chunk, store) ==
  /\ patched /\ cells + Len(chunk) <= MaxCells
  /\ cells' = cells + Len(chunk) /\ written' = [written EXCEPT ![s] = @ \o chunk]
  /\ consume(chunk, s, store) /\ UNCHANGED patched

(* start, from the constructor: once for an instance.                        *)
start == ~patched /\ cells = 0 /\ patched' = TRUE /\ UNCHANGED <<partialLines, pushed, written, cells>>

(* restore (onModuleDestroy): the tails are pushed, the writes put back.     *)
restore ==
  /\ patched /\ patched' = FALSE
  /\ \E store \in Traces \cup {None} :
       pushed' = pushed \o entriesOf(<<partialLines["stdout"]>>, "stdout", store)
                        \o entriesOf(<<partialLines["stderr"]>>, "stderr", store)
  /\ partialLines' = [s \in FORWARDED_STREAMS |-> <<>>] /\ UNCHANGED <<written, cells>>

ForwardNext ==
  \/ start \/ restore
  \/ \E s \in FORWARDED_STREAMS, chunk \in Chunks, store \in Traces \cup {None} : write(s, chunk, store)

-----------------------------------------------------------------------------
ForwardTypeOK ==
  /\ \A s \in FORWARDED_STREAMS : Len(partialLines[s]) <= MAX_PARTIAL_LINE_LENGTH
  /\ \A i \in 1..Len(pushed) : pushed[i].traceId \in Traces \cup {None}

(* The text of a stream, in order, is what its entries and its tail hold: no *)
(* line is lost, repeated, or fused with the other stream's.                 *)
EveryLineForwarded ==
  \A s \in FORWARDED_STREAMS :
    LET mine == SelectSeq(pushed, LAMBDA e : e.stream = s)
    IN FlattenSeq([i \in 1..Len(mine) |-> mine[i].text]) \o partialLines[s]
         = SelectSeq(written[s], LAMBDA c : c # Newline)

(* A line that straddles writes is one entry: an entry neither crosses a     *)
(* newline nor stops short of one, unless it outgrew the tail's limit or the *)
(* forwarding stopped.                                                       *)
LinesKeptWhole ==
  \A k \in 1..Len(pushed) :
    LET e == pushed[k]
        w == written[e.stream]
        at(c) == CHOOSE i \in 1..Len(w) : w[i] = c
        n == Len(e.text)
    IN /\ \A i \in 1..(n - 1) : at(e.text[i + 1]) = at(e.text[i]) + 1
       /\ \/ n > MAX_PARTIAL_LINE_LENGTH \/ ~patched
          \/ at(e.text[n]) < Len(w) /\ w[at(e.text[n]) + 1] = Newline

(* A span names a line's place in the trace it is filed under: a line that   *)
(* carries its own id is never filed under another operation's span.         *)
SpanOfItsTrace ==
  \A k \in 1..Len(pushed) : pushed[k].span # None => pushed[k].span = pushed[k].traceId
=============================================================================
