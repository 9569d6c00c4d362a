---------------------------- MODULE WireContractMC ----------------------------
(* Batches built from the contract: one entry of a section complete, or with *)
(* one or two of its fields spoilt, or with spoilt spans in its tree; and    *)
(* what the registry hands the encoders, with and without what is optional.  *)
EXTENDS WireContract

LongText == [i \in 1..(MAX_TEXT + 1) |-> 0]
RECURSIVE Whole(_, _)
WholeField(spec, depth) ==
  LET one == CASE spec.shape # "" -> Whole(spec.shape, depth - 1)
               [] spec.shape = "" /\ spec.type = "object" -> Obj([a |-> Num])
               [] spec.type = "number" -> [Num EXCEPT !.word = "7"]
               [] spec.type = "boolean" -> Bool
               [] spec.shape = "" /\ spec.type = "string" ->
                    Str(IF spec.oneOf = {} THEN "x" ELSE CHOOSE w \in spec.oneOf : TRUE)
  IN IF ~spec.array THEN one ELSE IF depth = 0 THEN Arr(<<>>) ELSE Arr(<<one>>)
Whole(name, depth) == Obj([k \in DOMAIN SHAPES[name] |-> WholeField(SHAPES[name][k], depth)])

Spoilt == {Null, Bool, Num, [Num EXCEPT !.finite = FALSE], Str("odd"), Text(LongText),
           Text(<<HIGH, LOW>> \o SubSeq(LongText, 3, MAX_TEXT + 1)), Obj([zz |-> Num]), Arr(<<Null, Str("x")>>),
           Arr([i \in 1..(MAX_LABELS + 1) |-> Str("x")])}
Without(entry, key) == Obj([k \in DOMAIN entry.fields \ {key} |-> entry.fields[k]])
With(entry, key, v) == Obj((key :> v) @@ entry.fields)
SpoiltIn(entry, keys) ==
  {With(entry, key, v) : key \in keys \cup {"zz"}, v \in Spoilt} \cup {Without(entry, key) : key \in keys}
SpoiltOnce(name) == SpoiltIn(Whole(name, 1), DOMAIN SHAPES[name])

Batch(section, entries) ==
  Obj((section :> IF section = "runtime" THEN entries[1] ELSE Arr(entries)) @@ [serviceId |-> Str("x")])
SpoiltSpans == {With(Whole("TRACE_NODE", 0), "ch", Arr(<<s, Whole("TRACE_NODE", 0)>>)) :
                  s \in SpoiltOnce("TRACE_NODE")} \cup SpoiltOnce("TRACE_NODE")
MCPayloads ==
  UNION {{Batch(s, <<e, Whole(SECTION_SHAPES[s], 1)>>) : e \in SpoiltOnce(SECTION_SHAPES[s]) \cup {Null}} :
           s \in ArraySections}
  \cup {Batch(s, <<With(Whole(SECTION_SHAPES[s], 1), "t", Arr(<<x, Whole("TRACE_NODE", 0)>>))>>) :
          s \in {"snapshots", "jobs"}, x \in SpoiltSpans}
  \cup UNION {{Batch("logs", <<e>>) : e \in SpoiltIn(once, {"text", "level"})} :
                once \in SpoiltOnce("LOG_ENTRY")}
  \cup {Batch("runtime", <<e>>) : e \in SpoiltOnce("RUNTIME_METRICS")}
  \cup {Batch("runtime", <<With(Whole("RUNTIME_METRICS", 3), "g", e)>>) : e \in SpoiltIn(Whole("GC", 2), {"b", "c"})}

(* What an interface's required and optional fields make.                    *)
Made(required, optional) ==
  {required} \cup {required @@ optional}
  \cup {required @@ [k \in {o} |-> optional[k]] : o \in DOMAIN optional}
SomeText == Str("x")
Span(name, below) ==
  Obj([className |-> Text(LongText), methodKey |-> Text(name), duration |-> Num, startOffset |-> Num,
       children |-> Arr(below), origin |-> Str("auto"), name |-> Text(name), spanId |-> SomeText,
       type |-> SomeText, startTime |-> Num, error |-> Bool])
SomeSpans == Arr(<<Span(LongText, <<Span(<<0>>, <<>>)>>)>>)
SnapshotMade ==
  Made([traceId |-> SomeText, protocol |-> SomeText, operationId |-> SomeText, traces |-> SomeSpans],
       [calledAt |-> SomeText, duration |-> Num, tags |-> Obj([a |-> Num]), error |-> Obj([a |-> Num]),
        request |-> Obj([a |-> Num]), userId |-> SomeText,
        attributes |-> Obj([method |-> SomeText, statusCode |-> Num, originalUrl |-> SomeText,
                            defaultOperationId |-> SomeText])])
JobMade ==
  Made([id |-> SomeText, traceId |-> SomeText, name |-> SomeText, queueName |-> SomeText],
       [traces |-> SomeSpans, status |-> SomeText, calledAt |-> SomeText, duration |-> Num,
        enqueuedAt |-> SomeText, waitDuration |-> Num, attemptsMade |-> Num, maxAttempts |-> Num,
        tags |-> Obj([a |-> Num]), error |-> Obj([a |-> Num])])
Collections == Obj([count |-> Num, duration |-> Num])
RuntimeMade ==
  {[cpu |-> Obj([user |-> Num, system |-> Num, percentageUsed |-> Num]),
    memory |-> Obj([rss |-> Num, heapTotal |-> Num, heapUsed |-> Num, external |-> Num,
                    arrayBuffers |-> Num, percentageUsed |-> Num]),
    gc |-> Obj([count |-> Num, totalDuration |-> Num, breakdown |-> b]),
    eventLoop |-> Obj([lag |-> Num, utilization |-> Num])] :
   b \in {Null, Obj([minor |-> Collections]), Obj([minor |-> Collections, major |-> Collections,
                                                   incremental |-> Collections])}}
Keyed(keys) == [kind |-> "object", series |-> keys]
MetricMade ==
  LET labels == <<Text(LongText), Text(<<0>>)>>
  IN UNION {Made([name |-> n, type |-> Str(t), value |-> Obj([a |-> Num]), labels |-> Arr(labels)],
                 [description |-> Text(LongText), tags |-> Obj([a |-> Num]), lastUpdated |-> Num,
                  increase |-> Obj([a |-> Num]), p50 |-> Keyed(SubSeq(labels, 1, 1)), p95 |-> Keyed(<<>>),
                  maximum |-> Keyed(labels)]) :
            n \in {SomeText, Text(LongText)}, t \in {"counter", "summary"}}
MCSources ==
  {[section |-> "snapshots", fields |-> s] : s \in SnapshotMade}
  \cup {[section |-> "jobs", fields |-> s] : s \in JobMade}
  \cup {[section |-> "runtime", fields |-> s] : s \in RuntimeMade}
  \cup {[section |-> "custom", fields |-> s] : s \in MetricMade}

TextsOnly == [about |-> "text", value |-> Null]
MCInputs ==
  {TextsOnly}
  \cup {[about |-> "batch", value |-> b] : b \in MCPayloads}
  \cup {[about |-> "source", value |-> s] : s \in MCSources}
MCLongTexts ==
  LET t(n, tail) == [i \in 1..n |-> 0] \o tail
  IN {t(MAX_TEXT, <<>>), t(MAX_TEXT, <<0>>), t(MAX_TEXT, <<1>>), t(MAX_TEXT - HASH_LENGTH - 2, <<HIGH, LOW, 0, 0, 0>>),
      t(MAX_NAME - HASH_LENGTH - 2, <<HIGH, LOW, 0, 0, 1>>)}
WireSpec == WireInit /\ [][WireNext]_wireVars
=============================================================================
