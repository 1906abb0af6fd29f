----------------------------- MODULE TraceContext -----------------------------
(***************************************************************************)
(* Spans, trace contexts and segments (skywalking/trace).  Every flow of   *)
(* control (a thread or an asyncio task) has its own stack of spans in a   *)
(* contextvar; a spawned task starts with a copy of its parent's stack, a  *)
(* thread with none.  Flows that share a trace context add spans to the    *)
(* same segment, and the flow that stops the last open one archives it.    *)
(*                                                                         *)
(* Carriers of exit spans travel to the entry spans of other requests, of  *)
(* this process or of others: a flow with an empty stack may be a flow of  *)
(* another process.  They can be lost, and delivered more than once.       *)
(*                                                                         *)
(* Spans and contexts are numbered in the order of their creation.  What   *)
(* the plugins set first in the body of "with span" (component, peer, the  *)
(* carrier they send) is set when the span starts.  add_profiling is in    *)
(* ProfileSlots.                                                           *)
(***************************************************************************)
EXTENDS Integers, Sequences, FiniteSets, SequencesExt, Plugins

CONSTANTS Flows,      \* threads and asyncio tasks
          Root,       \* the flow that runs from the start
          Workloads,  \* what applications, with their plugins, ask for: sets of Calls
          MaxSpans,   \* a bound on the spans created
          MaxDepth,   \* a bound on the depth of an inherited span
          MaxRecords, \* a bound on the records of a segment of which a finished span is inherited
          MaxTraces   \* a bound on the traces related to one segment

ASSUME FlowsAssumption  == IsFiniteSet(Flows) /\ Root \in Flows
ASSUME WorkloadsAssumption == Workloads \subseteq SUBSET Calls
ASSUME LimitsAssumption == MaxSpans \in Nat /\ MaxTraces \in Nat /\ MaxDepth \in Nat /\ MaxRecords \in Nat

VARIABLES
  calls,    \* the workload of this process
  spans,    \* the Span objects
  ctxs,     \* the SpanContext and NoopContext objects with their segments
  stack,    \* the contextvar of each flow
  running,  \* the flows that have begun
  pending,  \* the span a flow has created and not started yet
  within,   \* the "with span" blocks a flow is in, the innermost last
  stopping, \* the context whose count a flow has just decremented, or 0
  captured, \* the snapshot a runnable starts with
  wire,     \* the carriers that have been sent
  sent,     \* what agent.archive was called with
  raised,   \* the flows in which creating a span raised an exception
  unset,    \* the flows whose contextvar has never been set
  lost      \* the spans whose end raised one

vars == <<calls, spans, ctxs, stack, running, pending, within, stopping, captured, wire, sent,
          raised, unset, lost>>

Components == {"Unset", "General", "Own"}
Nothing    == [Local EXCEPT !.kind = "noop"]  \* what a NoopSpan is for
NoSpan     == [span |-> 0, call |-> Nothing]
NoSnapshot == [ctx |-> 0, sid |-> 0, trace |-> 0]
Remote     == NoSnapshot                   \* a span of another process, in trace 0
OtherTrace == -1                           \* ID(''), a new uuid

\* SpanContext() or NoopContext() with its Segment(): its own trace id is its number.
NewContext(c, noop) ==
  [noop |-> noop, next |-> 0, nspans |-> 0, segment |-> <<>>, traces |-> <<c>>, ownTrace |-> TRUE]

Init ==
  /\ calls \in Workloads
  /\ spans = <<>>
  /\ ctxs = <<>>
  /\ stack = [f \in Flows |-> <<>>]
  /\ running = {Root}
  /\ pending = [f \in Flows |-> NoSpan]
  /\ within = [f \in Flows |-> <<>>]
  /\ stopping = [f \in Flows |-> 0]
  /\ captured = [f \in Flows |-> NoSnapshot]
  /\ wire = {Remote}
  /\ sent = <<>>
  /\ raised = {}
  /\ unset = {}
  /\ lost = {}

-----------------------------------------------------------------------------
(* What a flow sees.                                                       *)

\* Flows that share a context are asyncio tasks, which give way only at an await, and there is
\* none between the steps of one operation.  (Threads have contexts of their own.)
Turn(f) ==
  /\ f \in running
  /\ \A g \in Flows \ {f} : pending[g] = NoSpan /\ stopping[g] = 0

\* The flow runs the application's code, and not that of a span.
AtLiberty(f) == Turn(f) /\ pending[f] = NoSpan /\ stopping[f] = 0

\* What f runs now is the body of a consumer's poll, which is the plugin's.
InPoll(f) == within[f] # <<>> /\ spans[Last(within[f])].call.carrier = "polled"

\* A flow in which an exception was raised unwinds; under a snapshot the first span is the one
\* of the runnable.
MayCall(f, call) ==
  /\ AtLiberty(f) /\ f \notin raised /\ ~InPoll(f)
  /\ captured[f] # NoSnapshot => call \in {Runnable, Nothing}

MayCreate(f, call) == MayCall(f, call) /\ Len(spans) < MaxSpans

NoTop(f)    == stack[f] = <<>>
Parent(f)   == spans[Last(stack[f])]

\* Mutant: a NoopContext makes spans like any other.
NoopForgets(f) == FALSE

InNoop(f)   == ~NoTop(f) /\ Parent(f).call = Nothing

\* Mutant: the context of the span on top is used whatever happened to it.
FinishedNever(f) == FALSE

\* parent and not parent._depth
Finished(f) == ~NoTop(f) /\ Parent(f).depth = 0

\* Mutant: the latest trace replaces the others.
RelateReplaces(ctx, trace) ==
  [ctx EXCEPT !.traces = <<trace>>, !.ownTrace = FALSE]

\* Segment.relate
Relate(ctx, trace) ==
  [ctx EXCEPT !.traces = IF ctx.ownTrace THEN <<trace>> ELSE Append(@, trace),
              !.ownTrace = FALSE]

\* A reference to a span of this process: Carrier(...) or Snapshot(...).
RefTo(span) == [ctx |-> span.ctx, sid |-> span.sid, trace |-> Head(ctxs[span.ctx].traces)]

-----------------------------------------------------------------------------
(* Creating a span: get_context().new_..._span(...).                       *)

Pend(f, s, call) == pending' = [pending EXCEPT ![f] = [span |-> s, call |-> call]]

\* In a NoopContext; or, with a context of its own, for a path, a method or a carrier that is
\* ignored, and while the queue of segments is full.
NewNoop(f) ==
  /\ MayCreate(f, Nothing)
  /\ \/ /\ InNoop(f)
        /\ spans' = Append(spans, [ctx |-> Parent(f).ctx, sid |-> -1, pid |-> -1, call |-> Nothing,
                                   depth |-> 0, comp |-> "Unset", refs |-> {}])
        /\ UNCHANGED ctxs
     \/ /\ ctxs' = Append(ctxs, NewContext(Len(ctxs) + 1, TRUE))
        /\ spans' = Append(spans, [ctx |-> Len(ctxs) + 1, sid |-> -1, pid |-> -1, call |-> Nothing,
                                   depth |-> 0, comp |-> "Unset", refs |-> {}])
  /\ Pend(f, Len(spans) + 1, Nothing)
  /\ UNCHANGED <<calls, stack, running, within, stopping, captured, wire, sent, raised, lost>>

\* Mutant: the parent's id is kept although the span is in another segment.
NewSpanKeepsParent(f, call, carriers) ==
  LET own  == ~NoTop(f) /\ ~Finished(f)
      c    == IF own THEN Parent(f).ctx ELSE Len(ctxs) + 1
      ctx  == IF own THEN ctxs[c] ELSE NewContext(c, FALSE)
      refs == (IF Finished(f) THEN {RefTo(Parent(f))} ELSE {}) \cup carriers
      late == IF Finished(f) THEN Relate(ctx, RefTo(Parent(f)).trace) ELSE ctx
      rel  == IF carriers = {} THEN late ELSE Relate(late, (CHOOSE r \in carriers : TRUE).trace)
      new  == [rel EXCEPT !.next = @ + 1]
  IN  /\ ctxs' = IF own THEN [ctxs EXCEPT ![c] = new] ELSE Append(ctxs, new)
      /\ spans' = Append(spans, [ctx |-> c, sid |-> ctx.next, pid |-> IF NoTop(f) THEN -1 ELSE Parent(f).sid,
                                 call |-> call, depth |-> 0, comp |-> "Unset", refs |-> refs])

\* new_span, and extract for a valid carrier (at most one).  Under an open span the context is
\* its; with an empty stack, or after the end of the span on top, it is a new one, in the latter
\* case with a reference to that span.
NewSpan(f, call, carriers) ==
  LET own  == ~NoTop(f) /\ ~Finished(f)
      c    == IF own THEN Parent(f).ctx ELSE Len(ctxs) + 1
      ctx  == IF own THEN ctxs[c] ELSE NewContext(c, FALSE)
      refs == (IF Finished(f) THEN {RefTo(Parent(f))} ELSE {}) \cup carriers
      late == IF Finished(f) THEN Relate(ctx, RefTo(Parent(f)).trace) ELSE ctx
      rel  == IF carriers = {} THEN late ELSE Relate(late, (CHOOSE r \in carriers : TRUE).trace)
      new  == [rel EXCEPT !.next = @ + 1]
  IN  /\ ctxs' = IF own THEN [ctxs EXCEPT ![c] = new] ELSE Append(ctxs, new)
      /\ spans' = Append(spans, [ctx |-> c, sid |-> ctx.next, pid |-> IF own THEN Parent(f).sid ELSE -1,
                                 call |-> call, depth |-> 0, comp |-> "Unset", refs |-> refs])

\* The span on top is that of a server under which another one runs.
UnderServer(f) ==
  ~NoTop(f) /\ Parent(f).call.kind = "entry" /\ Parent(f).comp = "General"

\* The span on top is that of a client library under which another one runs.
UnderClient(f) ==
  ~NoTop(f) /\ Parent(f).call.kind = "exit" /\ Parent(f).call.inherit

\* A server's call for which the span on top is used again.
Joins(f, call) == call.kind = "entry" /\ call.inherit /\ UnderServer(f)

\* Whether the span on top is open, and in whose block, is not asked.
MayInherit(f, call) ==
  /\ MayCall(f, call)
  /\ Parent(f).depth < MaxDepth
  /\ Finished(f) => Len(ctxs[Parent(f).ctx].segment) < MaxRecords

\* The carrier that refers to a finished parent without a peer: len(None) in Carrier.is_valid.
LateRaises(f) ==
  /\ \E call \in calls : MayCall(f, call) /\ ~Joins(f, call)
  /\ ~InNoop(f) /\ Finished(f) /\ ~Parent(f).call.peer
  /\ raised' = raised \cup {f}
  /\ UNCHANGED <<calls, spans, ctxs, stack, running, pending, within, stopping, captured, wire, sent, lost>>

\* new_local_span, new_entry_span, new_exit_span.  A request may come without a carrier.
NewRealSpan(f, kind) ==
  /\ ~InNoop(f) /\ (Finished(f) => Parent(f).call.peer)
  /\ \E call \in {c \in calls : c.kind = kind} :
       /\ MayCreate(f, call)
       /\ ~Joins(f, call)
       /\ \/ NewSpan(f, call, {})
          \/ call.carrier = "taken" /\ \E r \in wire : NewSpan(f, call, {r})
       /\ Pend(f, Len(spans) + 1, call)
  /\ UNCHANGED <<calls, stack, running, within, stopping, captured, wire, sent, raised, lost>>

NewLocalSpan(f) == NewRealSpan(f, "local")
NewEntrySpan(f) == NewRealSpan(f, "entry")
NewExitSpan(f)  == NewRealSpan(f, "exit")

\* inherit=Component.General: the span of the outer server is used again, in a task also after it
\* has ended.
InheritEntrySpan(f) ==
  /\ \E call \in calls :
       /\ Joins(f, call) /\ MayInherit(f, call)
       /\ Pend(f, Last(stack[f]), call)
  /\ UNCHANGED <<calls, spans, ctxs, stack, running, within, stopping, captured, wire, sent, raised, lost>>

\* component == parent.inherit; no span names the component of a stream.
InheritExitSpan(f) ==
  /\ UnderClient(f)
  /\ \E call \in calls :
       /\ MayInherit(f, call) /\ call.kind = "exit" /\ ~call.streams
       /\ Pend(f, Last(stack[f]), call)
  /\ UNCHANGED <<calls, spans, ctxs, stack, running, within, stopping, captured, wire, sent, raised, lost>>

-----------------------------------------------------------------------------
(* Starting and stopping a span: with span.                                *)

\* runnable: context.continued(snapshot) is the first thing done under the span.
Continues(f, span) ==
  /\ captured[f] # NoSnapshot
  /\ span.call # Nothing
  /\ captured[f].ctx # span.ctx

\* Span.start, EntrySpan.start, SpanContext.start; then inject, if the plugin calls it.
Start(f) ==
  /\ Turn(f) /\ pending[f] # NoSpan
  /\ LET s     == pending[f].span
         first == spans[s].depth = 0
         joins == Continues(f, spans[s])
         ctx   == ctxs[spans[s].ctx]
         count == IF first THEN [ctx EXCEPT !.nspans = @ + 1] ELSE ctx
     IN  /\ spans' = [spans EXCEPT ![s].depth = @ + 1,
                                   ![s].comp = pending[f].call.comp,
                                   ![s].refs = IF joins THEN @ \cup {captured[f]} ELSE @]
         /\ ctxs' = [ctxs EXCEPT ![spans[s].ctx] =
                       IF joins THEN Relate(count, captured[f].trace) ELSE count]
         /\ stack' = [stack EXCEPT ![f] = IF first /\ ~Contains(@, s) THEN Append(@, s) ELSE @]
         /\ within' = [within EXCEPT ![f] = Append(@, s)]
         /\ wire' = IF pending[f].call.carrier = "sent" THEN wire \cup {RefTo(spans[s])} ELSE wire
  /\ pending' = [pending EXCEPT ![f] = NoSpan]
  /\ captured' = [captured EXCEPT ![f] = NoSnapshot]
  /\ UNCHANGED <<calls, running, stopping, sent, raised, unset, lost>>

\* A poll extracts a carrier per record, fetched before its span was created; a record without
\* headers has an empty one.
Extract(f) ==
  /\ AtLiberty(f) /\ f \notin raised /\ InPoll(f)
  /\ LET s == Last(within[f])
     IN  /\ Len(ctxs[spans[s].ctx].traces) < MaxTraces
         /\ \/ \E r \in wire :
                 /\ r # Remote => \E t \in 1 .. s - 1 : spans[t].ctx = r.ctx /\ spans[t].sid = r.sid
                 /\ spans' = [spans EXCEPT ![s].refs = @ \cup {r}]
                 /\ ctxs' = [ctxs EXCEPT ![spans[s].ctx] = Relate(@, r.trace)]
            \/ /\ ctxs' = [ctxs EXCEPT ![spans[s].ctx] = Relate(@, OtherTrace)]
               /\ UNCHANGED spans
  /\ UNCHANGED <<calls, stack, running, pending, within, stopping, captured, wire, sent, raised, unset, lost>>

\* Mutant: the inner end of an inherited span counts as well.
EndCountsEach(f, n, g) ==
  LET s    == within[f][n]
      c    == spans[s].ctx
      last == spans[s].depth = 1
  IN  /\ spans' = [spans EXCEPT ![s].depth = @ - 1]
      /\ ctxs' = [ctxs EXCEPT ![c].nspans = @ - 1,
                              ![c].segment = IF last /\ ~ctxs[c].noop THEN Append(@, s) ELSE @]
      /\ stack' = [stack EXCEPT ![g] = IF last THEN RemoveFirst(@, s) ELSE @]
      /\ stopping' = [stopping EXCEPT ![g] = c]
      /\ UNCHANGED lost
      /\ within' = [within EXCEPT ![f] = RemoveAt(@, n)]

\* Mutant: a span stays open whose end finds it missing from the stack.
EndNeedsStack(f, n, g) ==
  LET s    == within[f][n]
      c    == spans[s].ctx
      last == spans[s].depth = 1 /\ Contains(stack[g], s)
  IN  /\ spans' = [spans EXCEPT ![s].depth = @ - 1]
      /\ \/ /\ last
            /\ ctxs' = [ctxs EXCEPT ![c].nspans = @ - 1,
                                    ![c].segment = IF ctxs[c].noop THEN @ ELSE Append(@, s)]
            /\ stack' = [stack EXCEPT ![g] = RemoveFirst(@, s)]
            /\ stopping' = [stopping EXCEPT ![g] = c]
         \/ ~last /\ UNCHANGED <<ctxs, stack, stopping>>
      /\ UNCHANGED lost
      /\ within' = [within EXCEPT ![f] = RemoveAt(@, n)]

\* Span.stop, and SpanContext.stop down to the decrement: the n-th block of f ends, in flow g.
\* A NoopContext has no segment to add to.  In a flow without a contextvar _spans_dup raises a
\* LookupError when the depth is zero already; it goes to the garbage collector or the application.
EndSpan(f, n, g) ==
  LET s    == within[f][n]
      c    == spans[s].ctx
      last == spans[s].depth = 1
  IN  /\ spans' = [spans EXCEPT ![s].depth = @ - 1]
      /\ \/ /\ last /\ g \notin unset
            /\ ctxs' = [ctxs EXCEPT ![c].nspans = @ - 1,
                                    ![c].segment = IF ctxs[c].noop THEN @ ELSE Append(@, s)]
            /\ stack' = [stack EXCEPT ![g] = RemoveFirst(@, s)]
            /\ stopping' = [stopping EXCEPT ![g] = c]
         \/ ~(last /\ g \notin unset) /\ UNCHANGED <<ctxs, stack, stopping>>
      /\ lost' = IF last /\ g \in unset THEN lost \cup {s} ELSE lost
      /\ within' = [within EXCEPT ![f] = RemoveAt(@, n)]

Stop(f) ==
  /\ AtLiberty(f) /\ within[f] # <<>>
  /\ EndSpan(f, Len(within[f]), f)
  /\ UNCHANGED <<calls, running, pending, captured, wire, sent, raised, unset>>

\* The block of a generator ends when that is exhausted or closed, perhaps by the garbage
\* collector or the event loop: in any flow, and in any order.
Abandon(f) ==
  /\ AtLiberty(f)
  /\ \E g \in Flows : \E n \in DOMAIN within[g] :
       spans[within[g][n]].call.streams /\ EndSpan(g, n, f)
  /\ UNCHANGED <<calls, running, pending, captured, wire, sent, raised, unset>>

\* Mutant: the segment is archived with its first span.
ArchiveAtRoot(f) ==
  /\ Turn(f) /\ stopping[f] # 0
  /\ LET c == stopping[f]
     IN  sent' = IF ~ctxs[c].noop /\ spans[Last(ctxs[c].segment)].pid = -1 THEN Append(sent, c) ELSE sent
  /\ stopping' = [stopping EXCEPT ![f] = 0]
  /\ UNCHANGED <<calls, spans, ctxs, stack, running, pending, within, captured, wire, raised, unset, lost>>

\* if self._nspans == 0: agent.archive(self.segment), not for a NoopContext.
Archive(f) ==
  /\ Turn(f) /\ stopping[f] # 0
  /\ LET c == stopping[f]
     IN  sent' = IF ctxs[c].nspans = 0 /\ ~ctxs[c].noop THEN Append(sent, c) ELSE sent
  /\ stopping' = [stopping EXCEPT ![f] = 0]
  /\ UNCHANGED <<calls, spans, ctxs, stack, running, pending, within, captured, wire, raised, unset, lost>>

-----------------------------------------------------------------------------
(* Flows.                                                                  *)

\* A task (or a thread run in a copied context) begins with the spans of its creator.
Spawn(f) ==
  /\ MayCall(f, Nothing)
  /\ \E g \in Flows \ running :
       /\ running' = running \cup {g}
       /\ stack' = [stack EXCEPT ![g] = stack[f]]
       /\ unset' = IF f \in unset THEN unset \cup {g} ELSE unset
  /\ UNCHANGED <<calls, spans, ctxs, pending, within, stopping, captured, wire, sent, raised, lost>>

\* A thread begins with none, and no contextvar; one that runs a function made by @runnable has a
\* snapshot of the flow that made it, which is None without a span and invalid in a NoopContext.
RunThread(f) ==
  /\ MayCall(f, Nothing)
  /\ \E g \in Flows \ running :
       /\ running' = running \cup {g}
       /\ \/ /\ captured' = [captured EXCEPT ![g] =
                               IF NoTop(f) \/ InNoop(f) THEN NoSnapshot ELSE RefTo(Parent(f))]
             /\ unset' = (unset \ {f}) \cup {g}
          \/ /\ UNCHANGED captured
             /\ unset' = unset \cup {g}
  /\ UNCHANGED <<calls, spans, ctxs, stack, pending, within, stopping, wire, sent, raised, lost>>

-----------------------------------------------------------------------------
\* get_context() gives a flow a contextvar.
Create(f) ==
  /\ \/ NewNoop(f) \/ NewLocalSpan(f) \/ NewEntrySpan(f) \/ NewExitSpan(f)
     \/ InheritEntrySpan(f) \/ InheritExitSpan(f) \/ LateRaises(f)
  /\ unset' = unset \ {f}

Next ==
  \E f \in Flows :
    \/ Create(f) \/ Start(f) \/ Extract(f) \/ Stop(f) \/ Abandon(f) \/ Archive(f)
    \/ Spawn(f) \/ RunThread(f)

Spec == Init /\ [][Next]_vars

-----------------------------------------------------------------------------
(* Properties.                                                             *)

SpansOf(c) == {s \in DOMAIN spans : spans[s].ctx = c}
Segments   == {c \in DOMAIN ctxs : ~ctxs[c].noop}
Started    == {s \in DOMAIN spans : spans[s].depth > 0}

\* The segments of which a span has been inherited after its end: it is open again, or recorded twice.
Reopened ==
  {c \in Segments : \E n \in DOMAIN ctxs[c].segment :
     \/ ctxs[c].segment[n] \in Started
     \/ \E m \in 1 .. n - 1 : ctxs[c].segment[m] = ctxs[c].segment[n]}

\* Every variable stays in its type: numbers of spans and contexts are those of existing ones, a
\* depth is never negative, a flow is in the blocks of spans that have been started.
TypeOK ==
  /\ \A s \in DOMAIN spans :
       /\ spans[s].ctx \in DOMAIN ctxs
       /\ spans[s].depth \in Nat /\ spans[s].comp \in Components
       /\ spans[s].call \in calls \cup {Nothing}
       /\ spans[s].sid \in Nat \cup {-1} /\ spans[s].pid \in Nat \cup {-1}
  /\ \A c \in DOMAIN ctxs : ctxs[c].nspans \in Nat /\ ctxs[c].traces # <<>>
  /\ \A f \in Flows :
       /\ ToSet(stack[f]) \cup ToSet(within[f]) \subseteq DOMAIN spans
       /\ ToSet(within[f]) \subseteq Started
       /\ pending[f].span \in {0} \cup DOMAIN spans
       /\ stopping[f] \in {0} \cup DOMAIN ctxs
  /\ ToSet(sent) \subseteq Segments
  /\ running \subseteq Flows /\ raised \cup unset \subseteq running /\ lost \subseteq DOMAIN spans

\* While no flow is in the middle of an operation, a segment has been given to the agent exactly
\* if all the spans ever created in it have ended, in whatever flows: except that the end of a stream
\* in a flow without a contextvar loses the segment, and that an archived segment goes on when one
\* of its finished spans is inherited.
ArchivedComplete ==
  (\A f \in Flows : pending[f] = NoSpan /\ stopping[f] = 0) =>
    \A c \in Segments :
      /\ SpansOf(c) \cap (Started \cup lost) = {} => c \in ToSet(sent)
      /\ c \in ToSet(sent) \ Reopened => SpansOf(c) \cap (Started \cup lost) = {}
      /\ \A s \in SpansOf(c) \cap lost : spans[s].call.streams

\* Segments are trees: the ids of their spans are 0, 1, ... in the order of creation, and the
\* parent is an older span of the same segment, or -1 for the first span alone.
SpanTree ==
  \A c \in Segments :
    /\ {spans[s].sid : s \in SpansOf(c)} = 0 .. Cardinality(SpansOf(c)) - 1
    /\ \A s \in SpansOf(c) :
         /\ \A t \in SpansOf(c) : t < s => spans[t].sid < spans[s].sid
         /\ IF spans[s].sid = 0 THEN spans[s].pid = -1 ELSE spans[s].pid \in 0 .. spans[s].sid - 1

\* Suppression sticks: while a no-op span is on a flow's stack nothing above it is recorded, in
\* this flow or in those it spawned.
SuppressionSticks ==
  \A f \in Flows : \A m, n \in DOMAIN stack[f] :
    m < n /\ spans[stack[f][m]].call = Nothing => spans[stack[f][n]].call = Nothing

\* Traces can be joined: what a reference of a span names is an older span of a segment that
\* lists the trace named, as does the span's own.  Only a segment in which an entry span was
\* nested, whose carrier replaced its own trace, may no longer list the trace that was named.
TracesJoin ==
  \A s \in DOMAIN spans : \A r \in spans[s].refs :
    /\ r.trace \in ToSet(ctxs[spans[s].ctx].traces)
    /\ r # Remote =>
         /\ \E t \in SpansOf(r.ctx) : t < s /\ spans[t].sid = r.sid
         /\ \/ r.trace \in ToSet(ctxs[r.ctx].traces)
            \/ r.trace = r.ctx /\ \E t \in SpansOf(r.ctx) : spans[t].call.kind = "entry" /\ spans[t].sid > 0

\* "if parent finished and segment was archived before this child starts then we need to refer
\* to parent" (trace/context.py:97): creating the child succeeds.
LateChildIsCreated == raised = {}

\* The same comment: what begins under a span whose segment has been archived is another span, which
\* refers to it; the archived one stays finished.
ArchivedStaysFinished == \A c \in ToSet(sent) : SpansOf(c) \cap Started = {}

-----------------------------------------------------------------------------
(* What the tracing core promises to the agent.                            *)

Recorded(c) == IF c \in Segments THEN ctxs[c].segment ELSE <<>>

\* What a record says of a span that could change.
RecordOf(s) == [span |-> s, comp |-> spans[s].comp, refs |-> spans[s].refs]

Store == INSTANCE SegmentStore WITH
  Numbers  <- 1 .. MaxSpans,
  open     <- [c \in 1 .. MaxSpans |->
                 IF c \in Segments THEN SpansOf(c) \ (ToSet(Recorded(c)) \ Started) ELSE {}],
  recorded <- [c \in 1 .. MaxSpans |->
                 [n \in DOMAIN Recorded(c) |-> RecordOf(Recorded(c)[n])]],
  related  <- [c \in 1 .. MaxSpans |-> IF c \in Segments THEN ctxs[c].traces ELSE <<>>],
  archived <- sent,
  reopened <- Reopened

\* The spans, contexts and flows implement a store of segments: a span is recorded when it has
\* ended, and a segment is archived only when all of its are; unless one of its finished spans is
\* inherited it is archived once, and is final.  (The report thread reads it while the flows run on.)
ImplementsStore == Store!Spec
=============================================================================
