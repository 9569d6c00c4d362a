---------------------------- MODULE ShippedTrees ----------------------------
(* What becomes of a finished operation's spans on the way out: the tree is  *)
(* left out (skipSpans), or repeated siblings are collapsed, and OTLP spans  *)
(* are made of what remains.  A behaviour is one operation; a span is a      *)
(* record, its Observe id a number, 0 for none.                              *)
EXTENDS Integers, Sequences, FiniteSets, SequencesExt

CONSTANTS FinishedOperations,           \* finished operations, as the registry plucks them
          DefaultThreshold, DefaultKeepSlowest,
          MAX_ATTRIBUTES_PER_SPAN

VARIABLE operation
Absent == -1   \* undefined

-----------------------------------------------------------------------------
(* ObserveOptions.spanCollapse and skipSpans, resolved.  A usable count is   *)
(* a natural number; "unusable" is anything else.                            *)
toInteger(v, min, fallback) == IF v \in Nat /\ v >= min THEN v ELSE fallback
resolveSpanCollapseSettings(option) ==
  [on |-> option.on,
   threshold |-> toInteger(option.threshold, 1, DefaultThreshold),
   keepSlowest |-> toInteger(option.keepSlowest, 0, DefaultKeepSlowest)]

(* A list names status codes, a function is asked; one that throws keeps the *)
(* spans, and a job is never asked.                                          *)
skipSpansOf(op) == CASE op.skipSpans = "list" -> op.statusCode \in op.listed /\ op.statusCode # Absent
               [] op.skipSpans = "function" -> op.claimed = "yes"   \* "no", or it "throws"
               [] OTHER -> FALSE
shouldSkipSpans(op) == op.kind = "request" /\ skipSpansOf(op)

-----------------------------------------------------------------------------
Total(seq, Of(_)) == FoldLeft(LAMBDA sum, x : sum + Of(x), 0, seq)
RECURSIVE countNodes(_)
countNodes(node) == 1 + Total(node.children, countNodes)

isCollapsible(node) == node.ended /\ node.origin = "auto"
Frame(node) == <<node.className, node.methodKey>>

(* Indices into the siblings stand for the nodes.                            *)
Earlier(siblings, i, j) ==
  IF siblings[i].startOffset # Absent /\ siblings[j].startOffset # Absent
  THEN siblings[i].startOffset < siblings[j].startOffset ELSE i < j
SortedIndices(siblings, indices) ==   \* longest first, stable
  SortSeq(SelectSeq([i \in DOMAIN siblings |-> i], LAMBDA i : i \in indices),
          LAMBDA i, j : \/ siblings[i].duration > siblings[j].duration
                        \/ siblings[i].duration = siblings[j].duration /\ i < j)

toCollapsedNode_childless(siblings, surplus, earliest) ==
  [siblings[earliest] EXCEPT !.stands = Len(surplus), !.tags = <<"observe.collapsed">>,
                             !.duration = Total(surplus, LAMBDA i : siblings[i].duration)]
toCollapsedNode(siblings, surplus, earliest) ==
  LET offsets == {siblings[i].startOffset : i \in Range(surplus)} \ {Absent}
  IN [siblings[earliest] EXCEPT
        !.origin = "auto", !.stands = Len(surplus), !.tags = <<"observe.collapsed">>,
        !.duration = Total(surplus, LAMBDA i : siblings[i].duration),
        !.startOffset = IF offsets = {} THEN Absent ELSE CHOOSE o \in offsets : \A p \in offsets : o <= p,
        !.children = FoldLeft(LAMBDA all, i : all \o siblings[i].children, <<>>, surplus)]

surplusOf(siblings, group, settings) ==
  LET candidates == SortedIndices(siblings, {i \in group : siblings[i].error = "none"})
  IN SubSeq(candidates, settings.keepSlowest + 1, Len(candidates))

collapseSiblings(siblings, settings) ==
  LET all == {i \in DOMAIN siblings : isCollapsible(siblings[i])}
      groups == {{i \in all : Frame(siblings[i]) = f} : f \in {Frame(siblings[i]) : i \in all}}
      aggregates == {surplusOf(siblings, g, settings) : g \in {x \in groups : Cardinality(x) > settings.threshold}}
      collapsing == {s \in aggregates : Len(s) >= 2}
      earliestOf(s) == FoldLeft(LAMBDA first, i : IF Earlier(siblings, i, first) THEN i ELSE first, s[1], s)
      gone == UNION {Range(s) \ {earliestOf(s)} : s \in collapsing}
      left == SelectSeq([i \in DOMAIN siblings |-> i], LAMBDA i : i \notin gone)
      shown(i) == IF \E s \in collapsing : earliestOf(s) = i
                  THEN toCollapsedNode(siblings, CHOOSE s \in collapsing : earliestOf(s) = i, i)
                  ELSE siblings[i]
  IN IF Len(siblings) <= settings.threshold THEN siblings
     ELSE [k \in DOMAIN left |-> shown(left[k])]

RECURSIVE collapseRepeatedSpans(_, _)
collapseRepeatedSpans(siblings, settings) ==
  FoldLeft(LAMBDA done, node : Append(done, [node EXCEPT !.children = collapseRepeatedSpans(@, settings)]),
           <<>>, collapseSiblings(siblings, settings))

(* What pluckSnapshot hands on: no tree at all, or the collapsed one.        *)
shippedTraces(op) ==
  LET settings == resolveSpanCollapseSettings(op.spanCollapse)
  IN IF shouldSkipSpans(op) THEN <<>>
     ELSE IF settings.on THEN collapseRepeatedSpans(op.traces, settings) ELSE op.traces

-----------------------------------------------------------------------------
(* OTLP spans.  Fresh ids are negative, so that no Observe id is one; a      *)
(* context is the caller's span, 0 for an operation without a traceparent.   *)
CLIENT_SPAN_CLASSES == {"http", "pg", "mysql2", "mongodb", "mssql"}
SCHEDULER_QUEUES == {"cron", "interval", "timeout", "schedule"}
toAttributes(keys) ==   \* the keys that hold something, in order
  LET count == Len(keys)
  IN IF count > MAX_ATTRIBUTES_PER_SPAN
     THEN [attributes |-> SubSeq(keys, 1, MAX_ATTRIBUTES_PER_SPAN), dropped |-> count - MAX_ATTRIBUTES_PER_SPAN]
     ELSE [attributes |-> keys, dropped |-> 0]
millisToNanos(ms) == IF ms > 0 THEN ms ELSE 0
w3cSpanIdOf(id) == id
randomSpanId(spans) == -1 - Len(spans)

(* The attributes the semantic conventions give an operation and a node.     *)
requestConventionAttributes(op) ==
  CASE op.kind = "job" -> <<"observe.job.name", "observe.job.queue">>
    [] op.protocol = "http" -> <<"http.request.method", "http.route", "url.scheme">>
    [] op.protocol \in {"graphql", "ws"} -> <<"observe.operation_id">>
    [] OTHER -> <<"rpc.system", "rpc.method">>
STABLE_CONVENTION_NAMES ==
  <<<<"http.method", "http.request.method">>, <<"http.url", "url.full">>, <<"db.statement", "db.query.text">>>>
isClient(node) == node.origin = "auto" /\ node.className \in CLIENT_SPAN_CLASSES
serverAddress(tags) == IF "url.full" \in Range(tags) THEN <<"server.address", "server.port">> ELSE <<>>
nodeAttributes(node) ==
  LET own == (IF isClient(node) THEN <<>> ELSE <<"code.function.name">>) \o node.tags
      both == FoldLeft(LAMBDA tags, name :
                         IF name[1] \in Range(tags) /\ name[2] \notin Range(tags) THEN Append(tags, name[2]) ELSE tags,
                       own, STABLE_CONVENTION_NAMES)
  IN both \o (IF isClient(node) /\ node.className = "http" THEN serverAddress(both) ELSE <<>>)
          \o (IF node.error = "payload" THEN <<"error.type">> ELSE <<>>)

operationFailed(op) ==
  IF op.kind = "request"
  THEN IF op.statusCode # Absent THEN op.statusCode >= 500 ELSE op.error
  ELSE op.status = "failed" \/ (op.status = "none" /\ op.error)
kindOf(op) ==
  IF op.kind = "request" THEN "SERVER"
  ELSE IF op.queueName \in SCHEDULER_QUEUES THEN "INTERNAL" ELSE "CONSUMER"
operationSpan(op) ==
  [id |-> randomSpanId(<<>>), parent |-> op.context, kind |-> kindOf(op), remote |-> op.context # 0,
   from |-> 0, to |-> millisToNanos(op.duration), failed |-> operationFailed(op), exception |-> FALSE,
   attributes |-> toAttributes(op.tags \o requestConventionAttributes(op))]

nodeSpan(spans, node, parent) ==
  LET from == millisToNanos(node.startOffset)
  IN [id |-> IF node.spanId # 0 THEN w3cSpanIdOf(node.spanId) ELSE randomSpanId(spans),
      parent |-> parent, kind |-> IF isClient(node) THEN "CLIENT" ELSE "INTERNAL", remote |-> FALSE,
      from |-> from, to |-> from + millisToNanos(node.duration), failed |-> node.error # "none",
      exception |-> node.error = "payload", attributes |-> toAttributes(nodeAttributes(node))]

RECURSIVE appendNodeSpans(_, _, _)
appendNodeSpans(spans, node, parent) ==
  LET span == nodeSpan(spans, node, parent)
  IN IF ~node.ended THEN spans
     ELSE FoldLeft(LAMBDA done, child : appendNodeSpans(done, child, span.id),
                   Append(spans, span), node.children)

(* requestSnapshotSpans and jobSnapshotSpans.                                *)
snapshotSpans(op, withTree) ==
  LET root == operationSpan(op)
  IN FoldLeft(LAMBDA done, node : appendNodeSpans(done, node, root.id),
              <<root>>, IF withTree THEN shippedTraces(op) ELSE <<>>)

-----------------------------------------------------------------------------
TreesInit == operation \in FinishedOperations
(* CompleteTraceEventNode; stands counts the calls a collapsed node is for.  *)
NodeFields == {"spanId", "className", "methodKey", "origin", "duration", "startOffset", "error", "ended",
               "stands", "tags", "children"}
TreesTypeOK ==
  /\ operation.kind \in {"request", "job"}
  /\ \A i \in DOMAIN operation.traces : DOMAIN operation.traces[i] = NodeFields

(* Reference: time and calls by frame, over a whole tree.                    *)
RECURSIVE AllNodes(_)
AllNodes(siblings) ==
  FoldLeft(LAMBDA all, n : all \o <<n>> \o AllNodes(n.children), <<>>, siblings)
Account(siblings) ==
  LET nodes == AllNodes(siblings)
      durations(ns) == Total(ns, LAMBDA n : n.duration)
  IN [f \in {Frame(nodes[i]) : i \in DOMAIN nodes} |->
        LET mine == SelectSeq(nodes, LAMBDA n : Frame(n) = f)
        IN [calls |-> Total(mine, LAMBDA n : n.stands), time |-> durations(mine),
            selfTime |-> durations(mine) - Total(mine, LAMBDA n : durations(n.children))]]

(* Collapsing moves no time: each frame keeps its calls, its total time and  *)
(* its self time, and what is left at the root adds up to the same           *)
(* (collapseRepeatedSpans: "keeps the collector's self-time partition        *)
(* exact").                                                                  *)
SelfTimesKept(shipped) == ~shouldSkipSpans(operation) => Account(shipped) = Account(operation.traces)

(* Nothing a reader looks for is collapsed away: a failed span, a span the   *)
(* application named, the slowest calls of a group; and what was collapsed   *)
(* leaves no more of a group than those and one node for the rest.           *)
Telling(n) == n.error # "none" \/ n.origin = "manual"
Crowds(siblings) ==
  {SelectSeq(siblings, LAMBDA n : Frame(n) = f /\ isCollapsible(n) /\ n.error = "none") :
     f \in {Frame(siblings[i]) : i \in DOMAIN siblings}}
NoneMissing(before, after) ==
  \A i \in DOMAIN before : Telling(before[i]) =>
     \E j \in DOMAIN after : after[j].spanId = before[i].spanId /\ after[j].stands = 1
NoCrowd(sizes, settings) ==
  settings.on => \A n \in sizes : n <= settings.threshold \/ n <= settings.keepSlowest + 1
TellingSpansStay(shipped) ==
  ~shouldSkipSpans(operation) =>
     /\ NoneMissing(AllNodes(operation.traces), AllNodes(shipped))
     /\ NoCrowd({Len(crowd) : crowd \in Crowds(shipped)}, resolveSpanCollapseSettings(operation.spanCollapse))

(* An export is one tree: every span has an id of its own and the operation  *)
(* above it, a span is exported after its parent, none lies before the       *)
(* operation's start, and without the tree only the operation is exported.   *)
OneTree(spans) ==
  /\ Cardinality({spans[i].id : i \in DOMAIN spans}) = Len(spans)
  /\ \A i \in 2..Len(spans) : \E j \in 1..(i - 1) : spans[j].id = spans[i].parent
  /\ \A i \in DOMAIN spans : 0 <= spans[i].from /\ spans[i].from <= spans[i].to
ExportIsOneTree(shipped, whole, bare) ==
  OneTree(whole) /\ OneTree(bare) /\ Len(bare) = 1 /\ Len(whole) = 1 + Total(shipped, countNodes)

(* The exported operation fails exactly when its service does: a refusal of  *)
(* the caller's mistake leaves the status unset, whatever error it carries.  *)
StatusIsTheServices(root) ==
  /\ operation.kind = "request" /\ operation.statusCode \in 400..499 => ~root.failed
  /\ operation.error /\ (operation.statusCode = Absent \/ operation.kind = "job") /\ operation.status # "completed" => root.failed
  /\ root.remote <=> root.parent # 0

ExportedAsRecorded(shipped, whole, bare) == ExportIsOneTree(shipped, whole, bare) /\ StatusIsTheServices(whole[1])
AsRecorded(shipped) ==
  /\ SelfTimesKept(shipped) /\ TellingSpansStay(shipped)
  /\ ExportedAsRecorded(shipped, snapshotSpans(operation, TRUE), snapshotSpans(operation, FALSE))

(* What is shipped and exported of an operation says what was recorded: the  *)
(* times it took, the spans a reader looks for, one tree, and whether the    *)
(* service failed (collapseRepeatedSpans, requestSnapshotSpans).             *)
ShippedAsRecorded == TreesTypeOK /\ AsRecorded(shippedTraces(operation))
=============================================================================
