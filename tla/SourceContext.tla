--------------------------- MODULE SourceContext ---------------------------
(* The source around a throw site: which lines of a stack are frames, which  *)
(* files may be read, the two caches, and the window that is shipped.        *)
EXTENDS Integers, Sequences, FiniteSets, SequencesExt

CONSTANTS FileFacts,   \* path -> [ignored, absolute, ours, leads, length], see below
          MapFacts,    \* path -> [mapped, file, line, content], of compiled files
          Stacks, FrameOptions,
          MAX_CACHED_FILES, MAX_CACHED_MAPS, MAX_FRAME_LINES,
          MaxThrows
(* ours: isReadableSourcePath of the path as written, leads: of where it     *)
(* leads; length: its lines, 0 when it cannot be read.  A stack is [message, *)
(* given, frames], message and frames being lines [frame, parses, file,      *)
(* line]: frame when the line looks like one, parses when it has a position. *)
(* given is the message collectCodeFrames is told: the error's own, one      *)
(* reassigned since, or none for a stack the caller wrote.                   *)

SourcePaths == DOMAIN FileFacts
StackLines == [frame : BOOLEAN, parses : BOOLEAN, file : SourcePaths, line : Nat \ {0}]
StackTexts == [message : Seq(StackLines), given : {"same", "reassigned", "none"}, frames : Seq(StackLines)]

\* Lines are counted from 1, by V8 and by a map.
ASSUME SourceAssumption ==
  /\ \A f \in SourcePaths :
       /\ FileFacts[f] \in [ignored : BOOLEAN, absolute : BOOLEAN, ours : BOOLEAN, leads : BOOLEAN, length : Nat]
       /\ MapFacts[f] \in [mapped : BOOLEAN, file : SourcePaths, line : Nat \ {0}, content : Nat]
  /\ \A stack \in Stacks : stack \in StackTexts
  /\ FrameOptions \subseteq [sourceMaps : BOOLEAN, maxFrames : Nat, linesOfContext : Nat]
  /\ MAX_CACHED_FILES \in Nat \ {0} /\ MAX_CACHED_MAPS \in Nat \ {0} /\ MAX_FRAME_LINES \in Nat

VARIABLES sourceCache, mapCache,   \* in the order of insertion: [file, found]
          sourceReads,             \* path -> how often the disk was asked
          sourceEvictions, collections,
          thrown, codeFrames       \* the last error and what was collected of it
sourceVars == <<sourceCache, mapCache, sourceReads, sourceEvictions, collections, thrown, codeFrames>>

SourceInit ==
  /\ sourceCache = <<>> /\ mapCache = <<>> /\ sourceReads = [f \in DOMAIN FileFacts |-> 0]
  /\ sourceEvictions = 0 /\ collections = 0
  /\ thrown = [message |-> <<>>, given |-> "none", frames |-> <<>>] /\ codeFrames = <<>>

isIgnored(file) == FileFacts[file].ignored

(* The lines V8 wrote, by their place in the stack's text: the unbroken run  *)
(* of frames after the message.                                              *)
textOf(stack) == stack.message \o stack.frames
frameLines_anywhere(stack) ==
  {i \in DOMAIN textOf(stack) : textOf(stack)[i].frame /\ i <= Len(stack.message) + MAX_FRAME_LINES}
frameLines(stack) ==
  LET headerEnd == IF stack.given = "none" THEN 0 ELSE Len(stack.message)
      split == {i \in DOMAIN textOf(stack) : headerEnd < i /\ i <= headerEnd + MAX_FRAME_LINES}
  IN IF stack.given = "none" THEN split
     ELSE {i \in split : stack.given = "same" /\ \A j \in split : j <= i => textOf(stack)[j].frame}
parseFrames(stack) ==
  {i \in frameLines(stack) :
     LET l == textOf(stack)[i]
     IN l.frame /\ l.parses /\ ~isIgnored(l.file) /\ FileFacts[l.file].absolute /\ FileFacts[l.file].ours}
firstFrames(frames, n) == {i \in frames : Cardinality({j \in frames : j <= i}) <= n}

(* The state of a collection is [sources, maps, reads, evictions, out].      *)
cached(cache, file) == {i \in DOMAIN cache : cache[i].file = file}
remember(cache, limit, entry) == Append(IF Len(cache) >= limit THEN Tail(cache) ELSE cache, entry)
contents(file) == IF FileFacts[file].leads THEN FileFacts[file].length ELSE 0
readSource(st, file) ==   \* the source's length, 0 for null
  LET hit == cached(st.sources, file)
      found == contents(file)
      asked == [st.reads EXCEPT ![file] = @ + 1]
  IN IF hit # {} THEN [st |-> st, length |-> st.sources[CHOOSE i \in hit : TRUE].found]
     ELSE [st |-> [st EXCEPT !.sources = remember(@, MAX_CACHED_FILES, [file |-> file, found |-> found]),
                             !.reads = asked,
                             !.evictions = @ + (IF Len(st.sources) >= MAX_CACHED_FILES THEN 1 ELSE 0)],
           length |-> found]

(* resolveOriginalPosition: the map of the compiled file, remembered also    *)
(* when there is none (found is 1 or 0).                                     *)
getMap(st, file) ==
  IF cached(st.maps, file) # {} THEN st
  ELSE [st EXCEPT !.maps = remember(@, MAX_CACHED_MAPS, [file |-> file, found |-> IF MapFacts[file].mapped THEN 1 ELSE 0])]
original(file, line) ==
  LET map == MapFacts[file]
  IN IF map.mapped THEN [file |-> map.file, line |-> map.line, content |-> map.content]
     ELSE [file |-> file, line |-> line, content |-> 0]

frameWindow(line, length, context) ==
  [firstLine |-> IF line - context < 1 THEN 1 ELSE line - context,
   lastLine |-> IF line + context > length THEN length ELSE line + context]
collectFrame(st, frame, options) ==
  LET looked == IF options.sourceMaps THEN getMap(st, frame.file) ELSE st
      place == IF options.sourceMaps THEN original(frame.file, frame.line)
               ELSE [file |-> frame.file, line |-> frame.line, content |-> 0]
      remapped == options.sourceMaps /\ MapFacts[frame.file].mapped
      refused == remapped /\ (isIgnored(place.file) \/ (place.content = 0 /\ ~FileFacts[place.file].ours))
      read == IF place.content > 0 THEN [st |-> looked, length |-> place.content] ELSE readSource(looked, place.file)
      w == frameWindow(place.line, read.length, options.linesOfContext)
  IN IF refused THEN looked
     ELSE IF read.length = 0 \/ place.line > read.length THEN read.st
     ELSE [read.st EXCEPT !.out = Append(@, [file |-> place.file, line |-> place.line, embedded |-> place.content > 0,
                                             firstLine |-> w.firstLine, lines |-> w.lastLine - w.firstLine + 1])]

collected(start, stack, options) ==
  LET text == textOf(stack)
      frames == firstFrames(parseFrames(stack), options.maxFrames)
      upTo[n \in 0..Len(text)] ==
        IF n = 0 THEN start
        ELSE IF n \in frames THEN collectFrame(upTo[n - 1], text[n], options) ELSE upTo[n - 1]
  IN upTo[Len(text)]

collectCodeFrames(stack, options) ==
  /\ collections < MaxThrows /\ collections' = collections + 1 /\ thrown' = stack
  /\ LET start == [sources |-> sourceCache, maps |-> mapCache, reads |-> sourceReads,
                   evictions |-> sourceEvictions, out |-> <<>>]
         end == collected(start, stack, options)
     IN /\ sourceCache' = end.sources /\ mapCache' = end.maps /\ sourceReads' = end.reads
        /\ sourceEvictions' = end.evictions /\ codeFrames' = end.out
SourceNext == \E s \in Stacks, o \in FrameOptions : collectCodeFrames(s, o)
SourceSpec == SourceInit /\ [][SourceNext]_sourceVars

-----------------------------------------------------------------------------
SourceTypeOK == Len(sourceCache) <= MAX_CACHED_FILES /\ Len(mapCache) <= MAX_CACHED_MAPS

(* Only the application's own source is shipped, and only for what V8 said:  *)
(* each code frame is of a line the error's frames name, directly or through *)
(* the map of a file of the application, and was read from where its path    *)
(* leads - never for a line that was part of the message.                    *)
ShippedIsOwnSource ==
  LET written == Range(thrown.frames) \cup IF thrown.given = "none" THEN Range(thrown.message) ELSE {}
      names(l, c) == \/ l.file = c.file /\ l.line = c.line
                     \/ /\ FileFacts[l.file].ours /\ MapFacts[l.file].mapped
                        /\ MapFacts[l.file].file = c.file /\ MapFacts[l.file].line = c.line
  IN \A i \in DOMAIN codeFrames :
       LET c == codeFrames[i]
       IN /\ ~isIgnored(c.file) /\ (c.embedded \/ (FileFacts[c.file].ours /\ FileFacts[c.file].leads))
          /\ \E l \in written : l.parses /\ names(l, c)

(* The highlighted line is one of the lines shipped, and they are lines the  *)
(* source has.                                                               *)
HighlightInFrame ==
  \A i \in DOMAIN codeFrames :
    LET c == codeFrames[i]
        last == c.firstLine + c.lines - 1
    IN c.firstLine >= 1 /\ c.line \in c.firstLine..last
       /\ (~c.embedded => last <= FileFacts[c.file].length)

(* A file is asked for once, whether it could be read or not, until the      *)
(* cache has had to let something go.                                        *)
MissesRemembered == \A f \in DOMAIN sourceReads : sourceReads[f] <= 1 + sourceEvictions

(* A code frame shows the line that threw, in the application's own source,  *)
(* and costs one read of the file (collectCodeFrames).                       *)
FramesAreOwnSource == SourceTypeOK /\ ShippedIsOwnSource /\ HighlightInFrame /\ MissesRemembered
=============================================================================
