--------------------------- MODULE Instrumentation ---------------------------
(***************************************************************************)
(* createInstanceDecorator(): every provider is handed out behind a proxy  *)
(* whose methods open a span around the call they make.  JavaScript runs   *)
(* one call stack at a time: `frames` is that stack, innermost call first; *)
(* a call that returned a promise goes on in `promises` and its body may    *)
(* resume, in its own async context, once the stack is empty.              *)
(*                                                                         *)
(* A provider is what the decorator can tell about it: the classes it is   *)
(* made of (leaf first; [name, native, slots, privates, members]), the     *)
(* functions it holds itself, what each member is ("method", "constructor" *)
(* or "callable" object), whether reading it throws, and whether it is a   *)
(* standalone function.                                                    *)
(***************************************************************************)
EXTENDS Naturals, Sequences, FiniteSets

CONSTANTS
  Providers,   \* the shapes of provider tried
  Requests,    \* operations whose async contexts are entered
  MaxSteps,    \* bound: spans opened
  MaxDepth     \* bound: frames on the stack

\* No member goes by the names of code outside of the provider's members.
ASSUME InstrumentAssumption ==
  /\ MaxSteps \in Nat /\ MaxDepth \in Nat \ {0} /\ "none" \notin Requests
  /\ \A p \in Providers : {"", "await"} \cap DOMAIN p.fields = {}

VARIABLES
  provider,    \* the provider behind the decorator
  frames,      \* the call stack
  promises,     \* the promises the provider's methods returned, not settled
  active,      \* the re-entrancy flag of every wrapped member
  steps,       \* the spans opened, by id
  held         \* the requests the registry holds a snapshot of
instrumentVars == <<provider, frames, promises, active, steps, held>>

Classes(p) == {p.chain[i] : i \in DOMAIN p.chain}
Members(p) == DOMAIN p.fields
ctorName(p) == IF p.chain = <<>> THEN "" ELSE p.chain[1].name
HasMember(p, m) == m \in p.own \/ \E c \in Classes(p) : m \in c.members

----------------------------------------------------------------------------
(* What is left alone.                                                      *)
isMongoDriverHandle(p) ==
  \/ ctorName(p) = "MongoClient" /\ HasMember(p, "startSession") /\ HasMember(p, "db")
  \/ ctorName(p) = "Db" /\ HasMember(p, "collection") /\ HasMember(p, "databaseName")
isFrameworkNoise(p) ==
  \/ ctorName(p) = "Reflector" /\ HasMember(p, "getAllAndOverride")
  \/ isMongoDriverHandle(p)

PARTLY_TRACED_CLASSES ==
  {[name |-> "ValidationPipe", marker |-> "flattenValidationErrors", traced |-> {"validate"}],
   [name |-> "StandardSchemaValidationPipe", marker |-> "formatIssueMessages", traced |-> {"validate"}],
   [name |-> "ParseFilePipe", marker |-> "validateFilesOrFile", traced |-> {"validate"}],
   [name |-> "ConfigService", marker |-> "getFromValidatedEnv",
    traced |-> {"get", "getOrThrow", "set", "setEnvFilePaths"}]}
partlyTracedMethodsOf(class) ==
  {e \in PARTLY_TRACED_CLASSES : e.name = class.name /\ e.marker \in class.members}
extendsPartlyTracedClass(p) == \E c \in Classes(p) : partlyTracedMethodsOf(c) # {}

\* Asked of the class that holds the member; an instance's own function goes
\* by the instance's class.
isLibraryInternal(p, m) ==
  LET holders == {i \in DOMAIN p.chain : m \in p.own \/ m \in p.chain[i].members}
      holder == CHOOSE i \in holders : \A j \in holders : i <= j
  IN holders # {} /\ \E e \in partlyTracedMethodsOf(p.chain[holder]) : m \notin e.traced

isConstructor(p, m) == p.fields[m] = "constructor"
isCallableObject(p, m) == p.fields[m] = "callable"
isSlotBackedBuiltIn(p) == \E c \in Classes(p) : c.slots
isNativeFunction(p) == p.chain = <<>> \/ p.chain[1].native
usesNativePrivateMembers(p) == \E c \in Classes(p) : c.privates

\* The application's hook and the agent's own providers; an instance that
\* cannot be inspected is left alone.
skipInstrumentation(p) == p.skip \/ p.unreadable

\* instrumentObject() and instrumentFunction(): whether the provider is
\* handed out behind a proxy at all.
proxied(p) ==
  /\ ~skipInstrumentation(p)
  /\ IF p.kind = "function" THEN \A m \in Members(p) : ~isConstructor(p, m)
     ELSE /\ ~p.unreadable
          /\ ~isFrameworkNoise(p)
          /\ ~(isSlotBackedBuiltIn(p) /\ isNativeFunction(p))
requiresRawReceiver(p) == usesNativePrivateMembers(p) \/ isSlotBackedBuiltIn(p)
\* What a traced member runs against; a function is applied as it is.
receiver(p) == IF p.kind = "function" \/ requiresRawReceiver(p) THEN "raw" ELSE "proxy"
\* The get trap: whether reading the member hands out a traced wrapper.
shouldProxy(p, m) ==
  p.kind = "function"
    \/ /\ ~isConstructor(p, m) /\ ~isCallableObject(p, m)
       /\ ~(extendsPartlyTracedClass(p) /\ isLibraryInternal(p, m))

\* The label of a member's spans.
ioredisClassNameOf(p) ==
  IF Len(p.chain) >= 2 /\ p.chain[2].name = "Commander" /\ HasMember(p, "sendCommand")
  THEN IF p.isCluster THEN "Cluster" ELSE "Redis" ELSE ""
classNameOf(p) ==
  CASE p.kind = "function" -> "Function"
    [] p.kind # "function" /\ p.chain = <<>> -> "Object"
    [] OTHER -> IF ctorName(p) = "EventEmitter" /\ ioredisClassNameOf(p) # ""
                THEN ioredisClassNameOf(p) ELSE ctorName(p)

----------------------------------------------------------------------------
\* A frame: the member running ("" for code outside the provider), the
\* receiver it runs against, its async context (operation and caller), the
\* span around it, whether a wrapper made the call, and whether it returns
\* through the wrapper's finally.
Outside(r, caller) == [m |-> "", this |-> "raw", req |-> r, caller |-> caller,
                       step |-> 0, wrapped |-> FALSE, clears |-> FALSE]
top == frames[1]
Push(f) == frames' = <<f>> \o frames
Direct(m, this) == [top EXCEPT !.m = m, !.this = this, !.step = 0,
                               !.wrapped = FALSE, !.clears = FALSE]

InstrumentInit ==
  /\ provider \in Providers
  /\ frames = <<>> /\ promises = {} /\ steps = <<>>
  /\ active = [m \in Members(provider) |-> FALSE]
  /\ held \in SUBSET Requests

\* The application enters the context of a request, or has none ("none").
Enter(r) ==
  /\ frames = <<>> /\ Push(Outside(r, 0))
  /\ UNCHANGED <<provider, promises, active, steps, held>>
\* An asynchronous method goes on after an await.
Resume(p) ==
  /\ frames = <<>> /\ p \in promises
  /\ Push([Outside(p.req, p.step) EXCEPT !.m = "await", !.this = p.this])
  /\ UNCHANGED <<provider, promises, active, steps, held>>

internalStartTraceStep(r, m, caller) ==
  steps' = Append(steps, [req |-> r, name |-> classNameOf(provider), m |-> m,
                          parent |-> caller, ends |-> 0, error |-> FALSE, failed |-> FALSE])
\* internalEndTraceStep() for the spans of a request still held.
Ended(s, error, failed) ==
  IF steps[s].req \in held
  THEN [steps EXCEPT ![s].ends = @ + 1, ![s].error = @ \/ error, ![s].failed = @ \/ failed]
  ELSE steps

wrapper_shared(m) ==
  LET untraced == [Direct(m, "raw") EXCEPT !.wrapped = TRUE]
  IN \/ /\ active[m] \/ top.req \notin held
        /\ Push(untraced) /\ UNCHANGED <<active, steps>>
     \/ /\ ~active[m] /\ top.req \in held /\ Len(steps) < MaxSteps
        /\ active' = [active EXCEPT ![m] = TRUE]
        /\ internalStartTraceStep(top.req, m, top.caller)
        /\ frames' = <<[untraced EXCEPT !.this = receiver(provider),
                          !.caller = Len(steps) + 1, !.step = Len(steps) + 1, !.clears = TRUE],
                       [top EXCEPT !.caller = Len(steps) + 1]>> \o Tail(frames)
\* The function createTracedWrapper() returns.
wrapper(m) ==
  LET untraced == [Direct(m, "raw") EXCEPT !.wrapped = TRUE]
  IN \/ /\ active[m] \/ top.req = "none"
        /\ Push(untraced)
        /\ UNCHANGED <<active, steps>>
     \/ /\ ~active[m] /\ top.req # "none"
        /\ active' = [active EXCEPT ![m] = TRUE]
        /\ IF top.req \in held
           THEN /\ Len(steps) < MaxSteps
                /\ internalStartTraceStep(top.req, m, top.caller)
                /\ Push([untraced EXCEPT !.this = receiver(provider),
                           !.caller = Len(steps) + 1, !.step = Len(steps) + 1, !.clears = TRUE])
           ELSE /\ Push([untraced EXCEPT !.clears = TRUE])
                /\ UNCHANGED steps

\* A member is called: by code holding the provider, or as this.m().
Call(m, self) ==
  /\ frames # <<>> /\ Len(frames) < MaxDepth
  /\ self => top.m # "" /\ provider.kind = "object"
  /\ IF ~proxied(provider) \/ (self /\ top.this = "raw")
     THEN Push(Direct(m, "raw")) /\ UNCHANGED <<active, steps>>
     ELSE IF ~shouldProxy(provider, m)
     THEN Push(Direct(m, "proxy")) /\ UNCHANGED <<active, steps>>
     ELSE wrapper(m)
  /\ UNCHANGED <<provider, promises, held>>

\* The innermost call ends: callTraced() around it.  Whether the promise is
\* chained (isPlainPromise) or handed back and watched, one branch ends the span.
Returns(how) ==
  /\ frames # <<>>
  /\ frames' = Tail(frames)
  /\ IF top.clears THEN active' = [active EXCEPT ![top.m] = FALSE] ELSE UNCHANGED active
  /\ CASE top.step = 0 -> UNCHANGED <<steps, promises>>
       [] top.step # 0 /\ how = "promise" ->
            /\ promises' = promises \cup {[step |-> top.step, req |-> top.req, this |-> top.this]}
            /\ UNCHANGED steps
       [] OTHER -> /\ steps' = Ended(top.step, how = "throw", how = "throw")
                   /\ UNCHANGED promises
  /\ UNCHANGED <<provider, held>>

\* The promise settles: settled() or failed() on the branch watching it.
Settles(p, rejects) ==
  /\ frames = <<>> /\ p \in promises
  /\ promises' = promises \ {p}
  /\ steps' = Ended(p.step, rejects, rejects)
  /\ UNCHANGED <<provider, frames, active, held>>

\* The operation's trace is handed off.
HandedOff(r) ==
  /\ frames = <<>> /\ r \in held
  /\ held' = held \ {r}
  /\ UNCHANGED <<provider, frames, promises, active, steps>>

InstrumentNext ==
  \/ \E r \in Requests \cup {"none"} : Enter(r)
  \/ \E m \in Members(provider), self \in BOOLEAN : Call(m, self)
  \/ \E how \in {"value", "throw", "promise"} : Returns(how)
  \/ \E p \in promises : Resume(p) \/ \E rejects \in BOOLEAN : Settles(p, rejects)
  \/ \E r \in held : HandedOff(r)

InstrumentSpec == InstrumentInit /\ [][InstrumentNext]_instrumentVars

InstrumentTypeOK ==
  /\ provider \in Providers
  /\ active \in [Members(provider) -> BOOLEAN]
  /\ Len(steps) <= MaxSteps /\ Len(frames) <= MaxDepth /\ held \subseteq Requests
  /\ \A p \in promises : p.step \in DOMAIN steps

----------------------------------------------------------------------------
(* Correctness.                                                             *)

OnStack == {frames[i].step : i \in DOMAIN frames} \ {0}
Below(i) == {j \in DOMAIN frames : j > i}

\* A span is open exactly while its call runs: it ends once, when the call
\* returns, throws or its promise settles, whatever runs in between, and says
\* the call failed if and only if it did (create-instance-decorator callTraced).
SpanIsItsCall ==
  \A s \in DOMAIN steps :
    LET running == s \in OnStack \/ \E p \in promises : p.step = s
    IN /\ running => steps[s].ends = 0
       /\ ~running /\ steps[s].req \in held => steps[s].ends = 1
       /\ steps[s].error = steps[s].failed

\* A span's parent is the traced call it was made from, in the same operation,
\* however calls nest, return and resume (the copied span store).
ParentIsTheCaller ==
  \A i \in DOMAIN frames :
    frames[i].step # 0 =>
      LET under == {j \in Below(i) : frames[j].step # 0}
          nearest == CHOOSE j \in under : \A k \in under : j <= k
          parent == IF under # {} THEN frames[nearest].step ELSE frames[Len(frames)].caller
      IN /\ steps[frames[i].step].parent = parent
         /\ parent # 0 => steps[parent].req = steps[frames[i].step].req

\* A call made through a wrapper in a recorded operation has a span, unless
\* the same member is already running: no early return leaves a flag set that
\* would keep the member out of every later trace (the re-entrancy guard).
CallsAreTraced ==
  \A i \in DOMAIN frames :
    frames[i].wrapped /\ frames[i].req \in held /\ frames[i].step = 0 =>
      \E j \in Below(i) : frames[j].m = frames[i].m /\ frames[j].step # 0

\* Recursion does not blow up the trace tree: a member has one span on the
\* stack at a time.
OneSpanPerRecursion ==
  \A i, j \in DOMAIN frames :
    frames[i].step # 0 /\ frames[j].step # 0 /\ frames[i].m = frames[j].m => i = j

\* A member whose class checks its receiver (a private member, an internal
\* slot, the mongodb driver's identity checks) never runs against the proxy,
\* so that it behaves as it would without tracing.
ReceiverIsUsable ==
  \A i \in DOMAIN frames :
    frames[i].this = "proxy" /\ frames[i].m \in Members(provider) =>
      /\ ~isMongoDriverHandle(provider)
      /\ (\E c \in Classes(provider) : c.privates \/ c.slots) => ~shouldProxy(provider, frames[i].m)

\* A traced call is the call it would be without tracing, and its span tells
\* when it ran, in what call, and how it ended (createInstanceDecorator).
CallsAreTheirSpans ==
  /\ InstrumentTypeOK
  /\ SpanIsItsCall /\ ParentIsTheCaller
  /\ CallsAreTraced /\ OneSpanPerRecursion
  /\ ReceiverIsUsable
=============================================================================
